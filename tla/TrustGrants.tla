----------------------------- MODULE TrustGrants -----------------------------
(***************************************************************************)
(* From trust policies to findings: the pipeline parses the policies of    *)
(* the collected roles one by one and builds their edges, then makes nodes *)
(* for the principals they name, and the cross_account_trust reasoner      *)
(* walks the edges (pipeline.py, resolver/cross_account.py,                *)
(* reasoner/cross_account_trust.py).                                       *)
(***************************************************************************)
EXTENDS TrustPolicies

CONSTANTS
  Estates           \* what may have been collected, and under which options

(***************************************************************************)
(* order: the roles, in the order of accounts and ARNs. collected: the IAM *)
(* nodes. known: active accounts of the organization and collected ones.   *)
(* complete: the collection covered all of the organization. named: who    *)
(* the resource policies name, in their order, and the account whose       *)
(* policy does. scp, probes: what is bound to, or was probed on, an edge.  *)
(***************************************************************************)
Role == {p \in Principal : p.type = "role"}

Estate ==
  [order : Seq(Role), policyOf : [Role -> Policy], collected : SUBSET Principal,
   known : SUBSET Accounts, complete : BOOLEAN, skipped : SUBSET Accounts, included : SUBSET Accounts,
   named : Seq([principal : Principal, by : Accounts]),
   scp : SUBSET Binding, probes : SUBSET ProbeRecord]

ASSUME CollectedRoles ==
  \A e \in Estates :
    /\ e \in Estate
    /\ \A i \in DOMAIN e.order : e.order[i] \in e.collected
    /\ \A p \in e.collected : p.type \in {"role", "user"} /\ p.account \in e.known
    /\ \A i \in DOMAIN e.named : e.named[i].by \in e.known

VARIABLES
  estate,
  parsed,           \* how many roles' policies have been read
  failures,         \* roles whose policy could not be read
  results,
  edges,
  membership,       \* what the node of a principal says of its organization
  phase,            \* "parse", "reason"
  todo,             \* edges the reasoner has not looked at
  findings,
  aborted

vars == <<estate, parsed, failures, results, edges, membership, phase, todo, findings, aborted>>

-----------------------------------------------------------------------------
Unfiltered(account) ==
  \/ account = NoAccount
  \/ account \notin estate.skipped /\ (estate.included = {} \/ account \in estate.included)

Signal(r) == r.src # r.dst /\ Unfiltered(r.src.account) /\ Unfiltered(r.dst.account)

(***************************************************************************)
(* build_trust_edges: the result with its classification.                  *)
(***************************************************************************)
TrustEdge(r) == [grant |-> r, naked |-> Classify(r)]

ParsePolicy ==
  /\ phase = "parse" /\ parsed < Len(estate.order)
  /\ LET role == estate.order[parsed + 1]
         new  == Results(role, estate.policyOf[role])
     IN  /\ results' = results \cup new
         /\ edges' = edges \cup {TrustEdge(r) : r \in {s \in new : Signal(s)}}
         /\ failures' = IF estate.policyOf[role].readable THEN failures ELSE failures \cup {role}
  /\ parsed' = parsed + 1
  /\ UNCHANGED <<estate, membership, phase, todo, findings, aborted>>

-----------------------------------------------------------------------------
(***************************************************************************)
(* Nodes. Collected ones come first and say nothing of the organization;   *)
(* then those for the principals of trust policies, the filtered ones      *)
(* included; then those for principals of resource policies. A principal   *)
(* keeps the first node it was given.                                      *)
(***************************************************************************)
Synthetic(p) ==
  /\ p.type \in {"role", "user"} => \E r \in results : r.src = p /\ r.cross
  /\ \E r \in results : r.src = p

\* Mutated form of SyntheticMembership: absence always says stranger.
AbsentIsStranger(p) ==
  IF p.type = "wildcard" \/ p.account \notin estate.known THEN "non_member" ELSE "member"

SyntheticMembership(p) ==
  CASE p.type = "wildcard"                                                   -> "non_member"
    [] p.type \in {"root", "role", "user"} /\ p.account \in estate.known     -> "member"
    [] p.type \in {"root", "role", "user"} /\ p.account \notin estate.known
         /\ p.account # NoAccount /\ estate.complete                         -> "non_member"
    [] p.type \in {"service", "saml", "oidc"}                                -> "unsaid"
    [] OTHER                                                                 -> "unknown"

NamedBy(p) == {i \in DOMAIN estate.named : estate.named[i].principal = p}

NamedMembership(p) ==
  LET first == CHOOSE i \in NamedBy(p) : \A j \in NamedBy(p) : i <= j
  IN  CASE p.type = "wildcard"                                    -> "non_member"
        [] p.type # "wildcard" /\ p.account = NoAccount           -> "unsaid"
        [] OTHER -> IF p.account = estate.named[first].by THEN "member" ELSE "non_member"

HasNode(p) == p \in estate.collected \/ Synthetic(p) \/ NamedBy(p) # {}

MembershipOf(p) ==
  CASE p \in estate.collected                        -> "unsaid"
    [] p \notin estate.collected /\ Synthetic(p)     -> SyntheticMembership(p)
    [] OTHER                                         -> NamedMembership(p)

Mentioned ==
  estate.collected \cup {r.src : r \in results} \cup {estate.named[i].principal : i \in DOMAIN estate.named}

ResolveNodes ==
  /\ phase = "parse" /\ parsed = Len(estate.order)
  /\ membership' = [p \in {q \in Mentioned : HasNode(q)} |-> MembershipOf(p)]
  /\ phase' = "reason"
  /\ todo' = {e \in edges : e.grant.action \in TrustActions}
  /\ UNCHANGED <<estate, parsed, failures, results, edges, findings, aborted>>

-----------------------------------------------------------------------------
(***************************************************************************)
(* _resolve_source_org_membership: what the node says, else what the node  *)
(* of its account's root says.                                             *)
(***************************************************************************)
RootNodes(account) == {p \in DOMAIN membership : p.type = "root" /\ p.account = account}

SourceMembership(p) ==
  CASE p \notin DOMAIN membership -> "unknown"
    [] p \in DOMAIN membership /\ membership[p] # "unsaid" -> membership[p]
    [] p \in DOMAIN membership /\ membership[p] = "unsaid"
         /\ \E q \in RootNodes(p.account) : membership[q] # "unsaid"
         -> membership[CHOOSE q \in RootNodes(p.account) : membership[q] # "unsaid"]
    [] OTHER -> "unknown"

(***************************************************************************)
(* _verify_classification_consistency.                                     *)
(***************************************************************************)
ConsistencyCheck(naked, flags) ==
  IF \/ naked = "CRITICAL_NAKED" /\ flags # {}
     \/ naked \in {"BROAD_NAKED", "NARROW_NAKED"} /\ flags \cap StrongKeys # {}
  THEN "FAIL" ELSE "PASS"

ResolvableCheck(p) == IF p \in DOMAIN membership THEN "PASS" ELSE "FAIL"

Looks(e) == e.grant.cross /\ e.naked \notin {"INTRA_ACCOUNT", "CONDITIONED"}

BaseSeverity(naked) ==
  CASE naked = "CRITICAL_NAKED" -> "critical" [] naked = "BROAD_NAKED" -> "high" [] OTHER -> "medium"

Downgraded(severity) ==
  CASE severity = "critical" -> "high" [] severity = "high" -> "medium" [] OTHER -> "low"

\* Mutated form of TrustVerdict: an unclear policy does not keep from validating.
CertainVerdict(scp, consistent, target, member) ==
  CASE scp = "FAIL"                                                        -> "BLOCKED"
    [] scp # "FAIL" /\ (consistent = "FAIL" \/ target = "FAIL" \/ member = "unknown") -> "INCONCLUSIVE"
    [] OTHER                                                               -> "VALIDATED"

(***************************************************************************)
(* _compute_verdict_and_severity.                                          *)
(***************************************************************************)
TrustVerdict(scp, consistent, target, member) ==
  CASE scp = "FAIL" -> "BLOCKED"
    [] scp # "FAIL" /\ (target = "FAIL" \/ consistent = "FAIL" \/ scp = "UNKNOWN" \/ member = "unknown")
         -> "INCONCLUSIVE"
    [] OTHER -> "VALIDATED"

TrustSeverity(verdict, naked, member) ==
  CASE verdict = "BLOCKED"       -> "info"
    [] verdict = "INCONCLUSIVE"  -> "high"
    [] OTHER -> IF member = "member" THEN Downgraded(BaseSeverity(naked)) ELSE BaseSeverity(naked)

OverlaySeverity(override) == IF override = "BLOCKED" THEN "info" ELSE "high"

TrustFinding(e) ==
  LET p          == e.grant.src
      member     == SourceMembership(p)
      scp        == BlockerState(estate.scp)
      consistent == ConsistencyCheck(e.naked, e.grant.flags)
      target     == ResolvableCheck(e.grant.dst)
      declared   == TrustVerdict(scp, consistent, target, member)
      overlay    == AssessProbeOverlay(estate.probes)
      overridden == overlay.override # "none"
  IN  [grant |-> e.grant, naked |-> e.naked, member |-> member,
       verdict |-> IF overridden THEN overlay.override ELSE declared,
       severity |-> IF overridden THEN OverlaySeverity(overlay.override)
                    ELSE TrustSeverity(declared, e.naked, member),
       checks |-> {"PASS", ResolvableCheck(p), scp, consistent, target}
                  \cup ({overlay.check} \ {"none"}),
       inconsistent |-> consistent = "FAIL",
       blockers |-> (IF scp = "FAIL" THEN {"scp"} ELSE {})
                    \cup (IF overlay.blocker THEN {"probe"} ELSE {})]

Skip(e) ==
  /\ phase = "reason" /\ ~ aborted /\ ~ Looks(e)
  /\ todo' = todo \ {e}
  /\ UNCHANGED <<estate, parsed, failures, results, edges, membership, phase, findings, aborted>>

Evaluate(e) ==
  /\ phase = "reason" /\ ~ aborted /\ Looks(e)
  /\ todo' = todo \ {e}
  /\ \/ FindingAccepted(TrustFinding(e)) /\ findings' = findings \cup {TrustFinding(e)} /\ aborted' = FALSE
     \/ ~ FindingAccepted(TrustFinding(e)) /\ findings' = {} /\ aborted' = TRUE
  /\ UNCHANGED <<estate, parsed, failures, results, edges, membership, phase>>

Init ==
  /\ estate \in Estates
  /\ parsed = 0 /\ phase = "parse" /\ aborted = FALSE
  /\ failures = {} /\ results = {} /\ edges = {} /\ todo = {} /\ findings = {}
  /\ membership = <<>>

Next == ParsePolicy \/ ResolveNodes \/ \E e \in todo : Skip(e) \/ Evaluate(e)

Spec == Init /\ [][Next]_vars

-----------------------------------------------------------------------------
Grant ==
  [statement : Nat, src : Principal, dst : Principal, action : TrustActions \cup {"sts:*", "sts:TagSession"},
   cross : BOOLEAN, flags : SUBSET MeaningfulKeys, conditional : BOOLEAN, sub : {"none", "star", "pattern"}]

Naked == {"CRITICAL_NAKED", "BROAD_NAKED", "NARROW_NAKED", "CONDITIONED", "INTRA_ACCOUNT"}

Membership == {"member", "non_member", "unknown", "unsaid"}

Finding ==
  [grant : Grant, naked : Naked, member : Membership \ {"unsaid"}, verdict : Verdict,
   severity : {"critical", "high", "medium", "low", "info"}, checks : SUBSET CheckState,
   inconsistent : BOOLEAN, blockers : SUBSET {"scp", "probe"}]

(***************************************************************************)
(* Types of the variables: the parse results and edges of                  *)
(* parser/trust_policy.py and resolver/cross_account.py, the findings of   *)
(* reasoner/cross_account_trust.py.                                        *)
(***************************************************************************)
TypeOK ==
  /\ parsed \in 0..Len(estate.order)
  /\ failures \subseteq Role
  /\ results \subseteq Grant
  /\ edges \subseteq [grant : Grant, naked : Naked]
  /\ DOMAIN membership \subseteq Principal
  /\ \A p \in DOMAIN membership : membership[p] \in Membership
  /\ phase \in {"parse", "reason"}
  /\ todo \subseteq edges
  /\ findings \subseteq Finding
  /\ aborted \in BOOLEAN

(***************************************************************************)
(* The Finding constructor accepts every finding the reasoner builds, so   *)
(* one edge never costs the run all the others: the verdict table agrees   *)
(* with the checks, whatever is bound, probed or missing.                  *)
(***************************************************************************)
NeverRefused == ~ aborted

(***************************************************************************)
(* What a policy says, without the code's vocabulary of types, scopes and  *)
(* flags: the statement grants the action to somebody outside the role's   *)
(* account, and which keys it tests.                                       *)
(***************************************************************************)
StatementOf(grant) == estate.policyOf[grant.dst].statements[grant.statement]

Foreign(w, home) ==
  \/ w.form = "*"
  \/ /\ w.form \in AwsForms \ {"*", "saml"}
     /\ w.account \notin {NoAccount, home}

Tests(s, keys) == \E t \in s.tests : t.key \in keys

LiveDenial == \E r \in estate.probes : r.state = "probed_correlated_denied"

(***************************************************************************)
(* A validated finding rests on a readable Allow statement that names a    *)
(* principal outside the account, with no organization or MFA test and no  *)
(* two weak tests; no service control policy blocks or may block it and no *)
(* live probe was denied. It is critical only where anybody at all may     *)
(* assume the role without any test the scanner knows.                     *)
(***************************************************************************)
ValidatedProven ==
  \A f \in findings : f.verdict = "VALIDATED" =>
    LET s == StatementOf(f.grant)
    IN  /\ estate.policyOf[f.grant.dst].readable /\ s.effect = "Allow"
        /\ f.grant.action \in s.actions
        /\ \E w \in s.principals :
             /\ Resolve(w) = f.grant.src /\ Foreign(w, f.grant.dst.account)
             /\ f.severity = "critical" => w.form = "*" /\ ~ Tests(s, MeaningfulKeys)
        /\ ~ Tests(s, StrongKeys)
        /\ ~ LiveDenial /\ \A b \in estate.scp : ~ BlocksForSure(b) /\ ~ IsAmbiguous(b)

(***************************************************************************)
(* Every Allow statement of a collected role's readable policy that lets   *)
(* a principal of another account assume the role without a test the       *)
(* scanner knows has a finding once the edges are walked, unless one of    *)
(* the two accounts is filtered out; and where nothing is bound or probed, *)
(* the whole organization was collected and no resource policy was, a      *)
(* principal outside of the organization is validated at full severity.    *)
(***************************************************************************)
Walked == phase = "reason" /\ todo = {} /\ ~ aborted

Undisputed == estate.scp = {} /\ estate.probes = {} /\ estate.named = <<>>

Stranger(w) ==
  \/ w.form = "*"
  \/ /\ w.form \in AwsForms \ {"unique_id", "unrecognized"}
     /\ estate.complete /\ w.account \notin estate.known

Reported(w, role, a, i) ==
  \E f \in findings :
    /\ f.grant.src = Resolve(w) /\ f.grant.dst = role
    /\ f.grant.action = a /\ f.grant.statement = i
    /\ Undisputed /\ Stranger(w) => f.verdict = "VALIDATED" /\ f.severity = BaseSeverity(f.naked)

Exposes(s, role, i) ==
  \A w \in s.principals, a \in s.actions \cap TrustActions :
    Foreign(w, role.account) /\ Unfiltered(w.account) => Reported(w, role, a, i)

NothingMissed ==
  Walked =>
    \A k \in DOMAIN estate.order :
      LET role   == estate.order[k]
          policy == estate.policyOf[role]
      IN  policy.readable /\ Unfiltered(role.account) =>
            \A i \in DOMAIN policy.statements :
              LET s == policy.statements[i]
              IN  s.effect = "Allow" /\ ~ Tests(s, MeaningfulKeys) => Exposes(s, role, i)

(***************************************************************************)
(* The severity of a validated grant is lowered only for principals of the *)
(* organization: of an account the run knows.                              *)
(***************************************************************************)
LoweredOnlyForMembers ==
  \A f \in findings :
    f.verdict = "VALIDATED" /\ f.severity # BaseSeverity(f.naked) => f.grant.src.account \in estate.known

(***************************************************************************)
(* _org_membership_resolution_context: when the collection did not cover   *)
(* the organization, a principal of an account the run does not know is    *)
(* neither taken for a member nor for a stranger. Resource policies aside: *)
(* the nodes they leave do claim one.                                      *)
(***************************************************************************)
PartialStaysUnknown ==
  \A f \in findings :
    (/\ ~ estate.complete /\ estate.named = <<>>
     /\ f.grant.src.type # "wildcard" /\ f.grant.src.account \notin estate.known)
    => f.verdict # "VALIDATED" /\ f.member = "unknown"

(***************************************************************************)
(* What a run does not know of an account it neither downgrades nor raises *)
(* a finding on.                                                           *)
(***************************************************************************)
MembershipSound == LoweredOnlyForMembers /\ PartialStaysUnknown

(***************************************************************************)
(* The checks on the classification and on the two ends do not fail for    *)
(* other reasons than a wildcard with an organization or MFA test: the     *)
(* classifier and the reasoner's second reading of the flags agree, and    *)
(* every edge that is looked at has a node at both ends.                   *)
(***************************************************************************)
AlarmsAreWildcards ==
  \A f \in findings :
    /\ f.inconsistent =>
         f.grant.src.type = "wildcard" /\ Tests(StatementOf(f.grant), StrongKeys)
    /\ "FAIL" \in f.checks => f.inconsistent \/ f.blockers # {}

(***************************************************************************)
(* Every edge that is looked at ends in a well-formed finding that the     *)
(* constructor accepts, and the reasoner's own alarms are false ones.      *)
(***************************************************************************)
RunsThrough == TypeOK /\ NeverRefused /\ AlarmsAreWildcards
=============================================================================
