---------------------------- MODULE GrantReasoners ----------------------------
(***************************************************************************)
(* The registry running the reasoners over single grants one after another *)
(* on one frozen graph. A finding its constructor refuses raises through   *)
(* run_all and takes the findings of the whole run with it.                *)
(***************************************************************************)
EXTENDS PassRoleChains, ResourceGrants

CONSTANTS
  Graphs,           \* the graphs to run on
  Selections        \* the orders in which reasoners may be registered

(***************************************************************************)
(* Bindings are a matter of source, action and resource: the binders look  *)
(* at nothing else of a permission edge.                                   *)
(***************************************************************************)
WellGoverned(G) ==
  \A i, j \in DOMAIN G.perm :
    LET d == G.perm[i]  e == G.perm[j]
    IN  <<d.src, d.action, d.dst>> = <<e.src, e.action, e.dst>> =>
          <<d.scp, d.boundary, d.deny>> = <<e.scp, e.boundary, e.deny>>

ASSUME GrantInputs ==
  /\ \A G \in Graphs : G \in GrantGraphs /\ WellGoverned(G)
  /\ Selections \subseteq Seq(Reasoners)

VARIABLES
  graph,
  selection,        \* the reasoners registered, in order
  turn,             \* the position of the one whose turn it is
  findings,
  aborted           \* a finding was refused

vars == <<graph, selection, turn, findings, aborted>>

Init ==
  /\ graph \in Graphs
  /\ selection \in Selections
  /\ turn = 1
  /\ findings = {}
  /\ aborted = FALSE

-----------------------------------------------------------------------------
(***************************************************************************)
(* One turn of run_all: preconditions_met, then run. A reasoner not ready  *)
(* adds nothing.                                                           *)
(***************************************************************************)
Turn(r, found) ==
  /\ ~ aborted /\ turn \in DOMAIN selection /\ selection[turn] = r
  /\ \/ /\ \A f \in found : FindingAccepted(f)
        /\ findings' = findings \cup found
        /\ turn' = turn + 1
        /\ aborted' = FALSE
     \/ /\ \E f \in found : ~ FindingAccepted(f)
        /\ findings' = {}
        /\ aborted' = TRUE
        /\ UNCHANGED turn
  /\ UNCHANGED <<graph, selection>>

RunPassRole ==
  \E r \in PassRoleReasoners :
    Turn(r, IF PassRoleReady(graph) THEN PassRoleFindings(graph, r) ELSE {})

IfReady(r, found) == IF ReadyFor(graph, r) THEN found ELSE {}

RunSecrets ==
  Turn("secrets_blast_radius", IfReady("secrets_blast_radius", SecretFindings(graph)))

RunJoins ==
  Turn("iam_group_membership_escalation",
       IfReady("iam_group_membership_escalation", JoinFindings(graph)))

RunPuts ==
  Turn("s3_bucket_takeover", IfReady("s3_bucket_takeover", PutFindings(graph)))

Next == RunPassRole \/ RunSecrets \/ RunJoins \/ RunPuts

Spec == Init /\ [][Next]_vars

-----------------------------------------------------------------------------
TypeOK ==
  /\ graph \in GrantGraphs
  /\ selection \in Selections
  /\ turn \in 1 .. Len(selection) + 1
  /\ findings \subseteq GrantFinding
  /\ aborted \in BOOLEAN

(***************************************************************************)
(* Verdict, checks and blockers are computed in different places of each   *)
(* reasoner; no combination of them trips the Finding constructor.         *)
(***************************************************************************)
NeverRefused == ~ aborted

(***************************************************************************)
(* What run_all returns is a list of well-formed findings, whatever is     *)
(* bound to the grants: no reasoner takes the others' findings with it.    *)
(***************************************************************************)
RunsThrough == TypeOK /\ NeverRefused

-----------------------------------------------------------------------------
(***************************************************************************)
(* What a graph proves, said without the reasoners' checks. A grant is     *)
(* definite when its statement names the resource and has no condition. A  *)
(* reasoner looks at the bindings in "Governing".                          *)
(***************************************************************************)
Governing(r) ==
  IF r \in {"passrole_ecs", "s3_bucket_takeover"} THEN {"scp", "boundary"}
  ELSE {"scp", "boundary", "deny"}

Unblocked(r, e) == \A field \in Governing(r) : \A b \in e[field] : ~ b.blocking

BlockedForSure(r, e) == \E field \in Governing(r) : \E b \in e[field] : BlocksForSure(b)

Definite(e) == e.scope = "exact" /\ e.tests = {} /\ e.dst # HyperNode

GrantSet == {graph.perm[i] : i \in DOMAIN graph.perm}

Granted(p, action) == {e \in GrantSet : e.src = p /\ e.action = action}

(***************************************************************************)
(* What conditions say of the service a role is passed to. IAM requires    *)
(* every test to hold; the claims below are about statements that test     *)
(* iam:PassedToService once (see README for those that test it twice).     *)
(***************************************************************************)
TestsOnce(e) == \A t, u \in {v \in e.tests : v.key = "iam:PassedToService"} : t = u

LetsThrough(e, service) ==
  \A t \in e.tests : t.key = "iam:PassedToService" => t.operator = "supported" /\ service \in t.services

KeepsOut(e, service) ==
  \E t \in e.tests : t.key = "iam:PassedToService" /\ t.operator = "supported" /\ service \notin t.services

(***************************************************************************)
(* What a key policy lets a principal do when the statements in "applying" *)
(* are those, among the ones with conditions or exclusions, that apply.    *)
(***************************************************************************)
OpenStatements(policy, p) == {s \in StatementsOf(policy) : MayCover(s, p) /\ ~ Certain(s)}

AppliesTo(s, p, applying) == IF Certain(s) THEN MayCover(s, p) ELSE s \in applying

Decrypts(policy, p, applying) ==
  /\ \E s \in StatementsOf(policy) : s.effect = "Allow" /\ AppliesTo(s, p, applying)
  /\ ~ \E s \in StatementsOf(policy) : s.effect = "Deny" /\ AppliesTo(s, p, applying)

DecryptsAlways(p, secret) ==
  \/ graph.keyOf[secret] = DefaultKey
  \/ LET policy == graph.policyOf[graph.keyOf[secret]]
     IN  policy.status = "readable" /\ \A a \in SUBSET OpenStatements(policy, p) : Decrypts(policy, p, a)

DecryptsNever(p, secret) ==
  /\ graph.keyOf[secret] # DefaultKey
  /\ LET policy == graph.policyOf[graph.keyOf[secret]]
     IN  policy.status = "readable" /\ ~ \E a \in SUBSET OpenStatements(policy, p) : Decrypts(policy, p, a)

-----------------------------------------------------------------------------
(***************************************************************************)
(* A validated PassRole chain is there: every start action is granted      *)
(* definitely, the role is granted by name to a service its conditions let *)
(* through, no binding the reasoner looks at blocks, and the role trusts   *)
(* the service.                                                            *)
(***************************************************************************)
ChainProven(f) ==
  /\ \A a \in StartActions(f.by) : \E e \in Granted(f.source, a) : Definite(e) /\ Unblocked(f.by, e)
  /\ \E e \in Granted(f.source, PassRole) :
       /\ e.dst = f.target /\ e.scope = "exact" /\ Unblocked(f.by, e)
       /\ TestsOnce(e) => LetsThrough(e, ServiceFor(f.by))
  /\ f.target \in graph.trusts[ServiceFor(f.by)]

(***************************************************************************)
(* A validated finding about a resource is there: a definite grant on it   *)
(* that no binding the reasoner looks at blocks, on a resource that was    *)
(* collected, and a key that decrypts on every reading of its policy.      *)
(***************************************************************************)
ResourceProven(f) ==
  /\ \E e \in GrantSet :
       e.src = f.source /\ e.dst = f.target /\ Definite(e) /\ Unblocked(f.by, e)
  /\ f.by = "secrets_blast_radius" => DecryptsAlways(f.source, f.target)
  /\ f.target \notin graph.dangling

(***************************************************************************)
(* Every validated finding is proven in this sense. It is about witnesses, *)
(* links and keys; of governance it asks only what the reasoner looks at   *)
(* and calls likely to block. What the documents ask beyond that is in     *)
(* DoubtShown and DenyOverrides, which the code does not keep.             *)
(***************************************************************************)
ValidatedProven ==
  \A f \in findings : f.verdict = "VALIDATED" =>
    IF f.by \in PassRoleReasoners THEN ChainProven(f) ELSE ResourceProven(f)

-----------------------------------------------------------------------------
Ran == {selection[i] : i \in {j \in DOMAIN selection : j < turn}}

Found(r, p, t) == {f \in findings : f.by = r /\ f.source = p /\ f.target = t}

GrantsTo(p, action, t) == {e \in Granted(p, action) : e.dst \in {t, HyperNode}}

Startable(r, p) == \A a \in StartActions(r) : Granted(p, a) # {}

Trusted(r, t) == t \in graph.trusts[ServiceFor(r)] \cap graph.nodes

(***************************************************************************)
(* Everything a grant may lead to is looked at: a chain each of whose      *)
(* links is granted somehow, a secret with a grant on it, and every admin  *)
(* group and every bucket of a principal with some grant, of the resource  *)
(* or a doubtful one. Candidates are enumerated from the targets' side     *)
(* through several indexes, and a witness may be a suppressed wildcard.    *)
(* About buckets, account roots and AWS services have no findings.         *)
(***************************************************************************)
ChainsLookedAt ==
  \A r \in Ran \cap PassRoleReasoners : \A p \in Principals, t \in Roles :
    /\ PassRoleReady(graph) /\ p \in graph.nodes /\ p # t
    /\ Startable(r, p) /\ Trusted(r, t) /\ GrantsTo(p, PassRole, t) # {}
    => Found(r, p, t) # {}

ResourcesLookedAt ==
  /\ "secrets_blast_radius" \in Ran =>
       \A e \in GrantSet : e.action = ReadSecret /\ e.src \in Principals /\ e.dst \in Secrets
                          /\ {e.src, e.dst} \subseteq graph.nodes
                          => Found("secrets_blast_radius", e.src, e.dst) # {}
  /\ "iam_group_membership_escalation" \in Ran =>
       \A p \in Users \cap graph.nodes, g \in Groups \cap graph.nodes :
         AdminEquivalent(graph, g) /\ GrantsTo(p, JoinGroup, g) # {}
           => Found("iam_group_membership_escalation", p, g) # {}
  /\ "s3_bucket_takeover" \in Ran =>
       \A p \in Principals \cap graph.nodes, b \in Buckets \cap graph.nodes :
         GrantsTo(p, PutPolicy, b) # {} =>
           (Found("s3_bucket_takeover", p, b) # {} <=> Actionable(p))

(***************************************************************************)
(* A path that is there beyond doubt is validated, whatever other grants,  *)
(* doubtful ones included, stand beside it in the order of edge ids: the   *)
(* source's grants carry no binding, and one on each link is definite.     *)
(***************************************************************************)
Unbound(p) == \A e \in GrantSet : e.src = p => e.scp \cup e.boundary \cup e.deny = {}

Definitely(p, action, t) == \E e \in Granted(p, action) : Definite(e) /\ e.dst = t

Validated(r, p, t) == \E f \in Found(r, p, t) : f.verdict = "VALIDATED"

ProvenChainsValidated ==
  \A r \in Ran \cap PassRoleReasoners : \A p \in Principals, t \in Roles :
    /\ PassRoleReady(graph) /\ p \in graph.nodes /\ p # t
    /\ Unbound(p) /\ Trusted(r, t) /\ Definitely(p, PassRole, t)
    /\ \A a \in StartActions(r) : \E e \in Granted(p, a) : Definite(e)
    => Validated(r, p, t)

ProvenResourcesValidated ==
  \A p \in Principals \cap graph.nodes : Unbound(p) =>
    /\ "secrets_blast_radius" \in Ran =>
         \A s \in Secrets \cap (graph.nodes \ graph.dangling) :
           Definitely(p, ReadSecret, s) /\ graph.keyOf[s] = DefaultKey
             => Validated("secrets_blast_radius", p, s)
    /\ "iam_group_membership_escalation" \in Ran =>
         \A g \in Groups \cap graph.nodes :
           p \in Users /\ AdminEquivalent(graph, g) /\ Definitely(p, JoinGroup, g)
             => Validated("iam_group_membership_escalation", p, g)
    /\ "s3_bucket_takeover" \in Ran =>
         \A b \in Buckets \cap (graph.nodes \ graph.dangling) :
           Actionable(p) /\ Definitely(p, PutPolicy, b) => Validated("s3_bucket_takeover", p, b)

(***************************************************************************)
(* No path is missed: each one that may be there has a finding, and each   *)
(* that is there for sure a validated one.                                 *)
(***************************************************************************)
NothingMissed ==
  ChainsLookedAt /\ ResourcesLookedAt /\ ProvenChainsValidated /\ ProvenResourcesValidated

-----------------------------------------------------------------------------
(***************************************************************************)
(* A blocked finding cites a grant that is blocked for sure, and, unless   *)
(* that is one to start something, no definite grant on the same target    *)
(* is left open: the block is not that of a bypassed grant.                *)
(***************************************************************************)
TargetAction(r) ==
  CASE r \in PassRoleReasoners                 -> PassRole
    [] r = "secrets_blast_radius"              -> ReadSecret
    [] r = "iam_group_membership_escalation"   -> JoinGroup
    [] OTHER                                   -> PutPolicy

Cited(f) == {graph.perm[i] : i \in f.grants}

BlockedIsJust ==
  \A f \in findings : f.verdict = "BLOCKED" =>
    \E e \in Cited(f) :
      /\ BlockedForSure(f.by, e)
      /\ e.action = TargetAction(f.by) =>
           \A o \in Granted(f.source, e.action) : Definite(o) /\ o.dst = f.target => ~ Unblocked(f.by, o)

(***************************************************************************)
(* A precondition-only finding is a gate that is shut: the key decrypts on *)
(* no reading of its policy, or the cited statement tests the service and  *)
(* keeps it out, and no definite grant passes the role without a test.     *)
(***************************************************************************)
GateIsShut(f) ==
  IF f.by = "secrets_blast_radius" THEN DecryptsNever(f.source, f.target)
  ELSE /\ f.by \in PassRoleReasoners
       /\ \E e \in Cited(f) :
            /\ e.action = PassRole
            /\ TestsOnce(e) => KeepsOut(e, ServiceFor(f.by))
       /\ ~ Definitely(f.source, PassRole, f.target)

GatesAreShut == \A f \in findings : f.verdict = "PRECONDITION_ONLY" => GateIsShut(f)

-----------------------------------------------------------------------------
(***************************************************************************)
(* What the documents say of governance. A permission boundary that could  *)
(* not be evaluated is not ignored: nothing is validated over a grant that *)
(* has one bound to it. The reasoners over resources pass over a binding   *)
(* that is not likely to block before they look at its confidence.         *)
(***************************************************************************)
DoubtShown ==
  \A f \in findings : f.verdict = "VALIDATED" =>
    \A e \in Cited(f) : ~ \E b \in e.boundary : IsAmbiguous(b)

(***************************************************************************)
(* A Deny in any layer overrides an Allow in all of them: nothing is       *)
(* validated over a grant that an identity policy denies for sure. Two of  *)
(* the reasoners have no check of identity denies.                         *)
(***************************************************************************)
DenyOverrides ==
  \A f \in findings : f.verdict = "VALIDATED" =>
    \A e \in Cited(f) : ~ \E b \in e.deny : BlocksForSure(b)

(***************************************************************************)
(* At least one of the two promises is kept in every report. Each is made  *)
(* by itself; a report that breaks this breaks both, one for a boundary    *)
(* left out of account and one for an identity deny.                       *)
(***************************************************************************)
LayersHeeded == DoubtShown \/ DenyOverrides
=============================================================================
