---------------------------- MODULE PassRoleChains ----------------------------
(***************************************************************************)
(* The passrole_lambda and passrole_ecs reasoners: a principal that may    *)
(* start something in a service and pass a role the service may assume     *)
(* runs code with that role. The two have the same shape; they differ in   *)
(* the actions that start something, and only the Lambda one looks at      *)
(* identity denies.                                                        *)
(***************************************************************************)
EXTENDS GrantGraph

PassRole == "iam:PassRole"

ServiceFor(r) == IF r = "passrole_lambda" THEN "lambda" ELSE "ecs-tasks"

StartActions(r) ==
  IF r = "passrole_lambda" THEN {"lambda:CreateFunction"}
  ELSE {"ecs:RegisterTaskDefinition", "ecs:RunTask"}

(***************************************************************************)
(* preconditions_met. (The third gate, for permission edges collected      *)
(* before raw_conditions existed, is met by every graph of the pipeline.)  *)
(***************************************************************************)
PassRoleReady(G) == G.nodes \cap Roles # {} /\ ~ G.budgetExhausted

(***************************************************************************)
(* _enumerate_candidates.                                                  *)
(***************************************************************************)
Trusting(G, r) == G.trusts[ServiceFor(r)] \cap G.nodes

SureStarters(G, r) ==
  {p \in Principals \cap G.nodes : \A a \in StartActions(r) : HasAction(G, p, a) = "PASS"}
Starters(G, r) ==
  {p \in Principals \cap G.nodes : \A a \in StartActions(r) : HasAction(G, p, a) # "FAIL"}

PassRoleCandidates(G, r) == {c \in Starters(G, r) \X Trusting(G, r) : c[1] # c[2]}

-----------------------------------------------------------------------------
(***************************************************************************)
(* Check 1: the start actions, and the grant that shows each.              *)
(***************************************************************************)
StartCheck(G, r, p) == AndTristateMany({HasAction(G, p, a) : a \in StartActions(r)})

StartWitnesses(G, r, p) == {Witness(G, GrantsOf(G, p, a, AnyResource)) : a \in StartActions(r)}

(***************************************************************************)
(* Check 2: the grant that passes the target. Its conditions are left to   *)
(* the PassedToService check.                                              *)
(***************************************************************************)
PassWitness(G, p, target) == Witness(G, GrantsOf(G, p, PassRole, target))

PassCheckExpanded(e) == IF e.dst = HyperNode THEN "UNKNOWN" ELSE "PASS"
PassCheck(e) == IF e.dst = HyperNode \/ e.scope # "exact" THEN "UNKNOWN" ELSE "PASS"

(***************************************************************************)
(* Checks 4 to 9 (7 for ECS): governance of the start actions together and *)
(* of iam:PassRole.                                                        *)
(***************************************************************************)
GovernanceStates(starts, pass) ==
  {AndTristateMany({BlockerState(bindings) : bindings \in starts}), BlockerState(pass)}

ScpChecks(G, starts, pass) ==
  GovernanceStates({G.perm[i].scp : i \in starts}, G.perm[pass].scp)

BoundaryChecks(G, starts, pass) ==
  GovernanceStates({G.perm[i].boundary : i \in starts}, G.perm[pass].boundary)

DenyChecks(r, G, starts, pass) ==
  IF r = "passrole_lambda"
    THEN GovernanceStates({G.perm[i].deny : i \in starts}, G.perm[pass].deny)
  ELSE {}

GovernanceChecks(G, r, starts, pass) ==
  ScpChecks(G, starts, pass) \cup BoundaryChecks(G, starts, pass) \cup DenyChecks(r, G, starts, pass)

(***************************************************************************)
(* What the checks leave behind when they fail.                            *)
(***************************************************************************)
ScpBlockers(G, used) ==
  IF \E i \in used : \E b \in G.perm[i].scp : BlocksForSure(b) THEN {"scp"} ELSE {}

BoundaryBlockers(G, used) ==
  IF \E i \in used : \E b \in G.perm[i].boundary : BlocksForSure(b)
    THEN {"permission_boundary"} ELSE {}

DenyBlockers(r, G, used) ==
  IF r = "passrole_lambda" /\ \E i \in used : \E b \in G.perm[i].deny : BlocksForSure(b)
    THEN {"identity_deny"} ELSE {}

UndeniedBlockers(G, r, used) == ScpBlockers(G, used) \cup BoundaryBlockers(G, used)
GovernanceBlockers(G, r, used) == UndeniedBlockers(G, r, used) \cup DenyBlockers(r, G, used)

(***************************************************************************)
(* Check 10 (8 for ECS): whether the conditions let the role be passed to  *)
(* the service. One value of one supported test that names it suffices.    *)
(***************************************************************************)
NamedServiceCheck(tests, service) ==
  LET naming == {t \in tests : t.key = "iam:PassedToService"}
  IN  IF naming = {} \/ \E t \in naming : t.operator = "supported" /\ service \in t.services
      THEN "PASS" ELSE "FAIL"
PassedToServiceCheck(tests, service) ==
  LET naming    == {t \in tests : t.key = "iam:PassedToService"}
      supported == {t \in naming : t.operator = "supported"}
  IN  CASE naming = {}                                            -> "PASS"
        [] naming # {} /\ supported = {}                          -> "UNKNOWN"
        [] supported # {} /\ \E t \in supported : service \in t.services -> "PASS"
        [] OTHER                                                  -> "FAIL"

(***************************************************************************)
(* _compute_verdict_and_severity: the trust and PassedToService gates      *)
(* first, then governance, then doubt.                                     *)
(***************************************************************************)
PassRoleVerdict(scoped, governance, checks) ==
  CASE scoped = "FAIL"                                              -> "PRECONDITION_ONLY"
    [] scoped # "FAIL" /\ "FAIL" \in governance                     -> "BLOCKED"
    [] scoped # "FAIL" /\ "FAIL" \notin governance /\ "UNKNOWN" \in checks -> "INCONCLUSIVE"
    [] OTHER                                                        -> "VALIDATED"

PassRoleSeverity(verdict, admin) ==
  CASE verdict = "PRECONDITION_ONLY" -> "medium"
    [] verdict = "BLOCKED"           -> "info"
    [] verdict = "VALIDATED" /\ admin -> "critical"
    [] OTHER                         -> "high"

(***************************************************************************)
(* _evaluate_candidate. Check 3, that the target trusts the service, is    *)
(* passed by every candidate.                                              *)
(***************************************************************************)
PassRoleFinding(G, r, source, target) ==
  LET starts     == StartWitnesses(G, r, source)
      pass       == PassWitness(G, source, target)
      governance == GovernanceChecks(G, r, starts, pass)
      scoped     == PassedToServiceCheck(G.perm[pass].tests, ServiceFor(r))
      checks     == {StartCheck(G, r, source), PassCheck(G.perm[pass]), "PASS", scoped} \cup governance
      verdict    == PassRoleVerdict(scoped, governance, checks)
  IN  [by |-> r, source |-> source, target |-> target, verdict |-> verdict,
       severity |-> PassRoleSeverity(verdict, AdminEquivalent(G, target)),
       checks |-> checks,
       blockers |-> GovernanceBlockers(G, r, starts \cup {pass})
                    \cup (IF scoped = "FAIL" THEN {"passed_to_service"} ELSE {}),
       grants |-> starts \cup {pass}]

(***************************************************************************)
(* run: no finding for a candidate without any PassRole grant.             *)
(***************************************************************************)
PassRoleFindings(G, r) ==
  {PassRoleFinding(G, r, c[1], c[2]) :
     c \in {d \in PassRoleCandidates(G, r) : GrantsOf(G, d[1], PassRole, d[2]) # {}}}
=============================================================================
