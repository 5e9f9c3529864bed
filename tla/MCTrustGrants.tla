---------------------------- MODULE MCTrustGrants ----------------------------
(***************************************************************************)
(* Estates for model checking: one family per question, each varying what  *)
(* its question depends on.                                                *)
(***************************************************************************)
EXTENDS TrustGrants, TLC

CONSTANTS home, near, away, n1, n2

MCAccounts == {home, near, away}
MCNames == {n1, n2, NoName}

RoleIn(account, name) == [type |-> "role", account |-> account, name |-> name]
RootOf(account) == [type |-> "root", account |-> account, name |-> NoName]
Anyone == [type |-> "wildcard", account |-> NoAccount, name |-> NoName]

Target == RoleIn(home, n1)
Neighbour == RoleIn(near, n2)

As(form, account) == [form |-> form, account |-> account, name |-> n2]

Key(k) == [key |-> k, negated |-> FALSE]

Allow(principals) ==
  [effect |-> "Allow", principals |-> principals, actions |-> {"sts:AssumeRole"}, tests |-> {}, sub |-> "none"]

Says(statements) == [readable |-> TRUE, statements |-> statements]

With(policyOf) == [r \in Role |-> IF r \in DOMAIN policyOf THEN policyOf[r] ELSE Says(<<>>)]

Base ==
  [order |-> <<Target>>, policyOf |-> With(Target :> Says(<<>>)), collected |-> {Target},
   known |-> {home, near}, complete |-> FALSE, skipped |-> {}, included |-> {}, named |-> <<>>,
   scp |-> {}, probes |-> {}]

One(s) == [Base EXCEPT !.policyOf[Target] = Says(<<s>>)]

Completed(e) == [e EXCEPT !.complete = TRUE]

-----------------------------------------------------------------------------
(***************************************************************************)
(* One statement: every form of principal, near and far, under every       *)
(* combination of tests that classifies differently.                       *)
(***************************************************************************)
Principals ==
  {As(f, a) : f \in AwsForms \ {"*", "unique_id"}, a \in {home, near, away}} \cup
  {As(f, NoAccount) : f \in {"*", "service", "federated_saml", "oidc", "unique_id", "unrecognized"}}

TestSets ==
  {{}, {Key("org_id")}, {Key("mfa"), Key("source_ip")}, {Key("external_id")},
   {Key("external_id"), Key("source_ip")}, {Key("unread")},
   {[Key("org_id") EXCEPT !.negated = TRUE], Key("source_vpc")}, {Key("source_account")}}

Statements ==
  {[Allow({p}) EXCEPT !.tests = t] : p \in Principals, t \in TestSets} \cup
  {[Allow({p}) EXCEPT !.effect = "Deny"] : p \in Principals} \cup
  {[Allow({p}) EXCEPT !.actions = a] : p \in {As("*", NoAccount), As("role", away)},
     a \in {{"sts:*"}, {"sts:TagSession", "sts:AssumeRole"}, {"sts:AssumeRoleWithSAML"}}} \cup
  {[Allow({As("oidc", NoAccount)}) EXCEPT !.actions = {"sts:AssumeRoleWithWebIdentity"}, !.sub = b] :
     b \in {"none", "star", "pattern"}}

Single == {One(s) : s \in Statements} \cup {Completed(One(s)) : s \in Statements}

-----------------------------------------------------------------------------
(***************************************************************************)
(* Two roles that trust each other's accounts, one of them unreadable or   *)
(* not, with nodes from the collection, from trust and from resource       *)
(* policies in every combination.                                          *)
(***************************************************************************)
TargetPolicies ==
  {Says(<<Allow({As("role", near)})>>), Says(<<Allow({As("role", near), As("root", near)})>>),
   Says(<<Allow({As("account_id", away)}), [Allow({As("user", away)}) EXCEPT !.tests = {Key("unread")}]>>),
   [Says(<<Allow({As("role", near)})>>) EXCEPT !.readable = FALSE]}

NeighbourPolicies ==
  {Says(<<Allow({As("role", near), As("*", NoAccount)})>>), Says(<<Allow({As("root", home)})>>),
   Says(<<Allow({As("session", near)}), Allow({As("session", home)})>>)}

By(p, account) == [principal |-> p, by |-> account]

NamedLists ==
  {<<>>, <<By(RootOf(near), home)>>, <<By(RootOf(near), near), By(RootOf(near), home)>>,
   <<By(RootOf(away), home), By(Anyone, near)>>, <<By(RoleIn(near, n2), home), By(RootOf(home), home)>>}

Pairs ==
  { [Base EXCEPT !.order = o, !.policyOf = With(Target :> p @@ Neighbour :> q), !.named = n,
                 !.collected = {o[i] : i \in DOMAIN o}, !.complete = c] :
      o \in {<<Target, Neighbour>>, <<Neighbour, Target>>, <<Target>>},
      p \in TargetPolicies, q \in NeighbourPolicies, n \in NamedLists, c \in BOOLEAN }

-----------------------------------------------------------------------------
(***************************************************************************)
(* Filters, bindings and probe records over one grant to an outsider.      *)
(***************************************************************************)
Outside == Completed(One(Allow({As("root", away), As("*", NoAccount)})))

Filtered ==
  { [Outside EXCEPT !.skipped = s, !.included = i] :
      s \in {{}, {away}, {home}}, i \in {{}, {home}, {home, away}, {near}} }

Blocking == [confidence |-> "complete", blocking |-> TRUE]
Unclear == [confidence |-> "needs_review", blocking |-> FALSE]
Idle == [confidence |-> "complete", blocking |-> FALSE]

Record(state, confounded) == [state |-> state, confounded |-> confounded]

Disputed ==
  { [Outside EXCEPT !.scp = b, !.probes = r] :
      b \in {{}, {Blocking}, {Unclear}, {Idle}, {Blocking, Unclear}},
      r \in {{}} \cup {{Record(s, c)} : s \in ProbeState, c \in BOOLEAN} }

MCEstates == Single \cup Pairs \cup Filtered \cup Disputed
=============================================================================
