-------------------------- MODULE MCGrantReasoners --------------------------
(***************************************************************************)
(* Fact graphs for model checking the reasoners over single grants: one    *)
(* family per reasoner, each varying what that reasoner reads.             *)
(***************************************************************************)
EXTENDS GrantReasoners, TLC

CONSTANTS u1, r1, r2, g1, s1, b1, b2, fn, k1

MCUsers == {u1}
MCRoles == {r1, r2}
MCGroups == {g1}
MCSecrets == {s1}
MCBuckets == {b1, b2}
MCInfrastructure == {r2}
MCOthers == {fn}
MCKeys == {k1}
MCServices == {"lambda", "ecs-tasks", "ec2"}

MCServiceOf ==
  [a \in {PassRole, JoinGroup, "iam:*", "iam:CreateUser"} |-> "iam"] @@
  [a \in {"lambda:CreateFunction"} |-> "lambda"] @@
  [a \in {"ecs:RegisterTaskDefinition", "ecs:RunTask"} |-> "ecs"] @@
  (ReadSecret :> "secretsmanager") @@ (PutPolicy :> "s3") @@ ("*" :> "*")

MCActions == DOMAIN MCServiceOf

MCSelections ==
  { <<"passrole_lambda", "secrets_blast_radius", "passrole_ecs",
      "iam_group_membership_escalation", "s3_bucket_takeover">>,
    <<"s3_bucket_takeover", "passrole_ecs">> }

-----------------------------------------------------------------------------
Give(p, action, n) ==
  [src |-> p, action |-> action, dst |-> n, scope |-> "exact", via |-> "exact",
   tests |-> {}, scp |-> {}, boundary |-> {}, deny |-> {}]

Pattern(e) == [e EXCEPT !.scope = "pattern"]
Hyper(e) == [e EXCEPT !.scope = "star", !.dst = HyperNode]
Tested(e, tests) == [e EXCEPT !.tests = tests]
Bind(e, field, bindings) == [e EXCEPT ![field] = bindings]

Blocking == [confidence |-> "complete", blocking |-> TRUE]
Doubtful == [confidence |-> "partial", blocking |-> TRUE]
Unclear == [confidence |-> "needs_review", blocking |-> FALSE]

Fields == {"scp", "boundary", "deny"}
BindingSets == {{}, {Blocking}, {Doubtful}, {Unclear}, {Blocking, Unclear}}

To(service) == [key |-> "iam:PassedToService", operator |-> "supported", services |-> {service}]
Elsewise == [To("ec2") EXCEPT !.operator = "other"]
OtherKey == [To("ec2") EXCEPT !.key = "other"]

AllNodes == MCUsers \cup MCRoles \cup MCGroups \cup MCSecrets \cup MCBuckets \cup MCOthers

Readable(statements) == [status |-> "readable", statements |-> statements]

Base(perm) ==
  [nodes |-> AllNodes, dangling |-> {}, perm |-> perm,
   trusts |-> [s \in Services |-> IF s = "ec2" THEN {} ELSE {r1}], budgetExhausted |-> FALSE,
   keyOf |-> [s \in Secrets |-> DefaultKey], policyOf |-> [k \in Keys |-> Readable(<<>>)]]

-----------------------------------------------------------------------------
(***************************************************************************)
(* PassRole: how the start action is granted, how the role is, once or     *)
(* twice, with conditions, and what is bound to either.                    *)
(***************************************************************************)
Starts(r) ==
  LET fnOf(a) == {<<Give(u1, a, fn)>>, <<Hyper(Give(u1, a, fn)), Give(u1, a, fn)>>,
                  <<Pattern(Give(u1, a, fn))>>}
  IN  IF r = "passrole_lambda" THEN fnOf("lambda:CreateFunction") \cup {<<>>}
      ELSE {s \o t : s \in fnOf("ecs:RegisterTaskDefinition"), t \in fnOf("ecs:RunTask") \cup {<<>>}}

Pass == Give(u1, PassRole, r1)

PassGrants(service) ==
  {Pass, Pattern(Pass), Hyper(Pass)} \cup
  {Tested(Pass, t) : t \in {{To(service)}, {To("ec2")}, {Elsewise}, {OtherKey, To("ec2")},
                            {To("ec2"), To(service)}}}

Passes(service) ==
  {<<e>> : e \in PassGrants(service)} \cup
  {<<d, e>> : d \in PassGrants(service), e \in {Pass, Tested(Pass, {To(service)})}}

Bound(grants, field, bindings) == [i \in DOMAIN grants |-> Bind(grants[i], field, bindings)]

PassRoleGraphs(r) ==
  { Base(s \o p) : s \in Starts(r), p \in Passes(ServiceFor(r)) } \cup
  { Base(Bound(s, field, on) \o Bound(p, field, too)) :
      s \in Starts(r), field \in Fields, on \in BindingSets, too \in {{}, {Doubtful}},
      p \in {<<Pass>>, <<Hyper(Pass), Pass>>} } \cup
  { Base(s \o Bound(p, field, on)) :
      s \in {t \in Starts(r) : Len(t) \in 1 .. 2}, field \in Fields, on \in BindingSets,
      p \in {<<Pass>>, <<Tested(Pass, {To("ec2")})>>, <<Hyper(Pass)>>} } \cup
  { Base(s \o <<Bind(Hyper(Pass), field, on), Pass>>) :
      s \in Starts(r), field \in Fields, on \in BindingSets }

(***************************************************************************)
(* One chain, with the role an administrator or not, trusted or not, the   *)
(* source itself the role, and the graph cut or whole.                     *)
(***************************************************************************)
AdminGrants ==
  { <<Give(r1, "*", fn)>>, <<Give(r1, "iam:CreateUser", g1)>>,
    <<[Hyper(Give(r1, "iam:CreateUser", g1)) EXCEPT !.via = "wildcard_iam"],
      [Hyper(Give(r1, JoinGroup, g1)) EXCEPT !.via = "wildcard_iam"]>>,
    <<Hyper(Give(r1, PassRole, r1)), Hyper(Give(r1, PutPolicy, b1)), Hyper(Give(r1, ReadSecret, s1))>> }

Chains ==
  { [Base(<<Give(u1, "lambda:CreateFunction", fn), Pass>> \o admin) EXCEPT
       !.trusts = [s \in Services |-> IF s = "lambda" THEN trusting ELSE {}], !.budgetExhausted = cut,
       !.nodes = AllNodes \ gone] :
      admin \in AdminGrants, trusting \in SUBSET Roles, cut \in BOOLEAN, gone \in {{}, {r1}, {u1}, {s1, b1}} }

-----------------------------------------------------------------------------
(***************************************************************************)
(* Secrets: every key policy of at most two statements of a family that    *)
(* has each form the check tells apart, then every kind of grant.          *)
(***************************************************************************)
Statement(effect) ==
  [effect |-> effect, action |-> "covers", resource |-> "covers", principals |-> Principals,
   notPrincipal |-> FALSE, conditional |-> FALSE]

Statements ==
  UNION {{s, [s EXCEPT !.action = "misses"], [s EXCEPT !.action = "excludes"],
          [s EXCEPT !.resource = "misses"], [s EXCEPT !.resource = "excludes"],
          [s EXCEPT !.principals = {r1}], [s EXCEPT !.notPrincipal = TRUE, !.principals = {}],
          [s EXCEPT !.conditional = TRUE]} : s \in {Statement("Allow"), Statement("Deny")}}

KeyPolicies ==
  {Readable(<<>>)} \cup {Readable(<<s>>) : s \in Statements} \cup
  {Readable(<<s, t>>) : s, t \in Statements} \cup
  {[status |-> x, statements |-> <<>>] : x \in {"missing", "fetch_failed", "unreadable"}}

Read == Give(u1, ReadSecret, s1)

SecretGraphs ==
  { [Base(<<Read>>) EXCEPT !.keyOf = [s \in Secrets |-> k1], !.policyOf = [k \in Keys |-> policy]] :
      policy \in KeyPolicies } \cup
  { [Base(<<Bind(e, field, on), Bind(Read, field, on)>> \o admin) EXCEPT
       !.dangling = lost, !.keyOf = [s \in Secrets |-> key],
       !.policyOf = [k \in Keys |-> Readable(<<Statement(effect)>>)]] :
      e \in {Read, Pattern(Read), Hyper(Read), Tested(Read, {OtherKey})}, field \in Fields,
      on \in BindingSets, lost \in {{}, {s1}}, key \in {k1, DefaultKey}, effect \in {"Allow", "Deny"},
      admin \in {<<>>, <<Give(u1, "iam:*", fn)>>} }

-----------------------------------------------------------------------------
(***************************************************************************)
(* Groups and buckets: one to three grants of the action, to one target or *)
(* two, clean and doubtful in every order; and grants of a service-linked  *)
(* role beside those of a user.                                            *)
(***************************************************************************)
Variants(e) == {e, Pattern(e), Hyper(e), Tested(e, {OtherKey})}

Joins == Variants(Give(u1, JoinGroup, g1))
Puts == Variants(Give(u1, PutPolicy, b1)) \cup {Give(u1, PutPolicy, b2), Give(u1, PutPolicy, fn)}

GroupGraphs ==
  { Base(Bound(<<d, e>>, field, on) \o admin) :
      d, e \in Joins, field \in Fields, on \in BindingSets,
      admin \in {<<Give(g1, "*", fn)>>, <<Give(g1, "iam:CreateUser", fn)>>} } \cup
  { Base(<<Bind(d, field, on), e, Give(g1, "*", fn)>>) :
      d, e \in Joins, field \in Fields, on \in BindingSets }

BucketGraphs ==
  { [Base(<<c>> \o Bound(<<d, e>>, field, on)) EXCEPT !.dangling = lost] :
      c \in {Hyper(Give(u1, PutPolicy, b1)), Give(u1, PutPolicy, b2)}, d, e \in Puts,
      field \in Fields, on \in BindingSets, lost \in {{}, {b1}} }

(***************************************************************************)
(* A secret and a bucket of one user, each grant with a binding in some    *)
(* layer, the two layers alike or not.                                     *)
(***************************************************************************)
LayeredGraphs ==
  { Base(<<Bind(Read, f, {b}), Bind(Give(u1, PutPolicy, b1), g, {c})>>) :
      f, g \in Fields, b, c \in {Blocking, Doubtful, Unclear} }

By(e, p) == [e EXCEPT !.src = p]

ServiceGraphs ==
  { Base(<<By(d, r2), e, By(Read, r2)>>) : d, e \in Puts }

MCGraphs ==
  { g \in PassRoleGraphs("passrole_lambda") \cup PassRoleGraphs("passrole_ecs") \cup Chains
          \cup SecretGraphs \cup GroupGraphs \cup BucketGraphs \cup LayeredGraphs
          \cup ServiceGraphs : WellGoverned(g) }
=============================================================================
