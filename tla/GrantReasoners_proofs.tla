----------------------- MODULE GrantReasoners_proofs -----------------------
(***************************************************************************)
(* Proofs about the reasoners over single grants, for every graph and      *)
(* every selection of reasoners: no finding is refused, what is validated  *)
(* is there, what is there is found, a block is just and a shut gate is    *)
(* shut.                                                                   *)
(***************************************************************************)
EXTENDS GrantReasoners, WellFoundedInduction, TLAPS

(***************************************************************************)
(* What a reasoner adds to the findings of a run on G.                     *)
(***************************************************************************)
Made(G, r) ==
  CASE r \in PassRoleReasoners -> IF PassRoleReady(G) THEN PassRoleFindings(G, r) ELSE {}
    [] r = "secrets_blast_radius" -> IF ReadyFor(G, r) THEN SecretFindings(G) ELSE {}
    [] r = "iam_group_membership_escalation" -> IF ReadyFor(G, r) THEN JoinFindings(G) ELSE {}
    [] OTHER -> IF ReadyFor(G, r) THEN PutFindings(G) ELSE {}

(***************************************************************************)
(* The run so far: the findings are exactly what the reasoners that had    *)
(* their turn make of the graph, and no finding was refused.               *)
(***************************************************************************)
IInv ==
  /\ graph \in Graphs
  /\ selection \in Selections
  /\ turn \in 1 .. Len(selection) + 1
  /\ findings = UNION {Made(graph, r) : r \in Ran}
  /\ aborted = FALSE

-----------------------------------------------------------------------------
(***************************************************************************)
(* Witnesses.                                                              *)
(***************************************************************************)
\* A set of numbers that is not empty has a least element.
LEMMA LeastExists ==
  ASSUME NEW S \in SUBSET Nat, S # {}
  PROVE  Least(S) \in S /\ \A j \in S : Least(S) <= j
<1> DEFINE Below == {ss \in Nat \X Nat : ss[1] < ss[2]}
<1>1. IsWellFoundedOn(Below, Nat)
  BY NatLessThanWellFounded DEF OpToRel
<1> HIDE DEF Below
<1>2. PICK x \in S : \A y \in S : ~ (<<y, x>> \in Below)
  BY <1>1, WFMin, Zenon
<1>3. \A y \in S : ~ (y < x)
  BY <1>2 DEF Below
<1>4. \E i \in S : \A j \in S : i <= j
  BY <1>3
<1> QED
  BY <1>4, Zenon DEF Least

\* A set of positions of a list has a greatest element.
LEMMA GreatestExists ==
  ASSUME NEW n \in Nat, NEW S \in SUBSET (1 .. n), S # {}
  PROVE  Greatest(S) \in S
<1> DEFINE T == {n - i : i \in S}
<1>1. T \in SUBSET Nat /\ T # {}
  <2>1. \A i \in S : n - i \in Nat
    OBVIOUS
  <2> QED
    BY <2>1
<1> HIDE DEF T
<1>2. Least(T) \in T /\ \A j \in T : Least(T) <= j
  BY <1>1, LeastExists
<1>3. PICK i \in S : Least(T) = n - i
  BY <1>2 DEF T
<1>4. \A j \in S : n - i <= n - j
  BY <1>2, <1>3 DEF T
<1>5. \E k \in S : \A j \in S : k >= j
  BY <1>4
<1> QED
  BY <1>5, Zenon DEF Greatest

\* The edges of a graph, and the bindings on them.
LEMMA GrantTypes ==
  ASSUME NEW G \in GrantGraphs
  PROVE  /\ DOMAIN G.perm = 1 .. Len(G.perm) /\ Len(G.perm) \in Nat
         /\ \A i \in DOMAIN G.perm :
              /\ G.perm[i] \in Grant
              /\ G.perm[i].src \in Principals \cup Groups
              /\ G.perm[i].dst \in Roles \cup Groups \cup Resources \cup {HyperNode}
              /\ \A field \in {"scp", "boundary", "deny"} : G.perm[i][field] \in SUBSET Binding
<1>1. G.perm \in Seq(Grant)
  BY DEF GrantGraphs
<1>2. \A i \in DOMAIN G.perm : G.perm[i] \in Grant
  BY <1>1
<1>3. ASSUME NEW e \in Grant
      PROVE  /\ e.src \in Principals \cup Groups
             /\ e.dst \in Roles \cup Groups \cup Resources \cup {HyperNode}
             /\ \A field \in {"scp", "boundary", "deny"} : e[field] \in SUBSET Binding
  BY <1>3 DEF Grant
<1> QED
  BY <1>1, <1>2, <1>3

\* A witness is one of the grants it is chosen from, clean if any of them is.
LEMMA WitnessChosen ==
  ASSUME NEW G \in GrantGraphs, NEW M \in SUBSET DOMAIN G.perm, M # {}
  PROVE  /\ Witness(G, M) \in M
         /\ UnknownWitness(G.perm[Witness(G, M)]) <=> Clean(G, M) = {}
<1>1. M \in SUBSET Nat /\ Clean(G, M) \in SUBSET M
  BY GrantTypes DEF Clean
<1>2. CASE Clean(G, M) # {}
  <2>1. Least(Clean(G, M)) \in Clean(G, M)
    BY <1>1, <1>2, LeastExists
  <2> QED
    BY <2>1, <1>2 DEF Witness, Clean
<1>3. CASE Clean(G, M) = {}
  <2>1. Least(M) \in M
    BY <1>1, LeastExists
  <2> QED
    BY <2>1, <1>3 DEF Witness, Clean
<1> QED
  BY <1>2, <1>3

-----------------------------------------------------------------------------
(***************************************************************************)
(* Checks.                                                                 *)
(***************************************************************************)
LEMMA Tristates ==
  ASSUME NEW S
  PROVE  /\ AndTristateMany(S) \in CheckState
         /\ AndTristateMany(S) = "FAIL" <=> "FAIL" \in S
         /\ AndTristateMany(S) = "PASS" <=> {"FAIL", "UNKNOWN"} \cap S = {}
  BY DEF AndTristateMany, CheckState

LEMMA BlockerStates ==
  ASSUME NEW S \in SUBSET Binding
  PROVE  /\ BlockerState(S) \in CheckState
         /\ BlockerState(S) = "FAIL" <=> \E b \in S : BlocksForSure(b)
         /\ BlockerState(S) = "PASS" => \A b \in S : ~ b.blocking
         /\ S = {} => BlockerState(S) = "PASS"
<1>1. \A b \in S : b.blocking \in BOOLEAN /\ (b.blocking => BlocksForSure(b) \/ IsAmbiguous(b))
  BY DEF Binding, Confidence, BlocksForSure, IsAmbiguous
<1> QED
  BY <1>1 DEF BlockerState, CheckState

LEMMA LikelyStates ==
  ASSUME NEW S \in SUBSET Binding
  PROVE  /\ LikelyBlockerState(S) \in CheckState
         /\ LikelyBlockerState(S) = "FAIL" <=> \E b \in S : BlocksForSure(b)
         /\ LikelyBlockerState(S) = "PASS" => \A b \in S : ~ b.blocking
         /\ S = {} => LikelyBlockerState(S) = "PASS"
<1> DEFINE T == {b \in S : b.blocking}
<1>1. T \in SUBSET Binding /\ \A b \in S : BlocksForSure(b) => b \in T
  BY DEF BlocksForSure
<1> HIDE DEF T
<1>2. /\ BlockerState(T) \in CheckState
      /\ BlockerState(T) = "FAIL" <=> \E b \in T : BlocksForSure(b)
      /\ BlockerState(T) = "PASS" => \A b \in T : ~ b.blocking
      /\ T = {} => BlockerState(T) = "PASS"
  BY <1>1, BlockerStates
<1>3. LikelyBlockerState(S) = BlockerState(T)
  BY DEF LikelyBlockerState, T
<1> QED
  BY <1>1, <1>2, <1>3 DEF T

\* has_action passes exactly when a clean grant is there.
LEMMA ActionStates ==
  ASSUME NEW G \in GrantGraphs, NEW p, NEW action
  PROVE  LET matching == GrantsOf(G, p, action, AnyResource)
         IN  /\ HasAction(G, p, action) \in CheckState
             /\ HasAction(G, p, action) = "FAIL" <=> matching = {}
             /\ HasAction(G, p, action) = "PASS" <=> Clean(G, matching) # {}
             /\ matching = {i \in DOMAIN G.perm : G.perm[i].src = p /\ G.perm[i].action = action}
<1> DEFINE matching == GrantsOf(G, p, action, AnyResource)
<1>1. matching = {i \in DOMAIN G.perm : G.perm[i].src = p /\ G.perm[i].action = action}
  BY DEF GrantsOf, ResourceMatches
<1>2. matching = {} => Clean(G, matching) = {}
  BY DEF Clean
<1>3. HasAction(G, p, action) = IF matching = {} THEN "FAIL"
                                ELSE IF Clean(G, matching) # {} THEN "PASS" ELSE "UNKNOWN"
  BY DEF HasAction
<1> HIDE DEF matching
<1>4. /\ HasAction(G, p, action) \in CheckState
      /\ HasAction(G, p, action) = "FAIL" <=> matching = {}
      /\ HasAction(G, p, action) = "PASS" <=> Clean(G, matching) # {}
  BY <1>2, <1>3 DEF CheckState
<1> QED
  BY <1>1, <1>4 DEF matching

-----------------------------------------------------------------------------
(***************************************************************************)
(* The PassRole reasoners: what their checks say of the grants they cite.  *)
(***************************************************************************)
Fields == {"scp", "boundary", "deny"}

\* Of a principal that may start something, the grants that show it.
LEMMA StartsShown ==
  ASSUME NEW G \in GrantGraphs, NEW r, NEW p \in Starters(G, r)
  PROVE  /\ StartWitnesses(G, r, p) \subseteq DOMAIN G.perm
         /\ \A i \in StartWitnesses(G, r, p) : /\ G.perm[i].src = p
                                               /\ G.perm[i].action \in StartActions(r)
         /\ StartCheck(G, r, p) \in {"PASS", "UNKNOWN"}
         /\ StartCheck(G, r, p) = "PASS" <=>
              \A a \in StartActions(r) : Clean(G, GrantsOf(G, p, a, AnyResource)) # {}
         /\ \A a \in StartActions(r) : \E i \in StartWitnesses(G, r, p) :
              /\ G.perm[i].src = p /\ G.perm[i].action = a
              /\ StartCheck(G, r, p) = "PASS" => ~ UnknownWitness(G.perm[i])
<1> DEFINE all(a) == GrantsOf(G, p, a, AnyResource)
           w(a)   == Witness(G, all(a))
           states == {HasAction(G, p, a) : a \in StartActions(r)}
<1>1. ASSUME NEW a \in StartActions(r)
      PROVE  /\ w(a) \in DOMAIN G.perm /\ G.perm[w(a)].src = p /\ G.perm[w(a)].action = a
             /\ HasAction(G, p, a) \in {"PASS", "UNKNOWN"}
             /\ HasAction(G, p, a) = "PASS" <=> Clean(G, all(a)) # {}
             /\ UnknownWitness(G.perm[w(a)]) <=> Clean(G, all(a)) = {}
  <2>1. HasAction(G, p, a) # "FAIL"
    BY DEF Starters
  <2>2. /\ HasAction(G, p, a) \in CheckState
        /\ HasAction(G, p, a) = "FAIL" <=> all(a) = {}
        /\ HasAction(G, p, a) = "PASS" <=> Clean(G, all(a)) # {}
        /\ all(a) = {i \in DOMAIN G.perm : G.perm[i].src = p /\ G.perm[i].action = a}
    BY ActionStates
  <2>3. all(a) # {} /\ all(a) \in SUBSET DOMAIN G.perm
    BY <2>1, <2>2
  <2>4. w(a) \in all(a) /\ (UnknownWitness(G.perm[w(a)]) <=> Clean(G, all(a)) = {})
    BY <2>3, WitnessChosen
  <2>5. w(a) \in DOMAIN G.perm /\ G.perm[w(a)].src = p /\ G.perm[w(a)].action = a
    BY <2>2, <2>4
  <2>6. HasAction(G, p, a) \in {"PASS", "UNKNOWN"}
    BY <2>1, <2>2 DEF CheckState
  <2> QED
    BY <2>2, <2>4, <2>5, <2>6
<1>2. StartWitnesses(G, r, p) = {w(a) : a \in StartActions(r)}
  BY DEF StartWitnesses
<1>3. /\ StartCheck(G, r, p) \in CheckState
      /\ StartCheck(G, r, p) = "FAIL" <=> "FAIL" \in states
      /\ StartCheck(G, r, p) = "PASS" <=> {"FAIL", "UNKNOWN"} \cap states = {}
  BY Tristates DEF StartCheck
<1> HIDE DEF all, w
<1>4. StartCheck(G, r, p) \in {"PASS", "UNKNOWN"}
  BY <1>1, <1>3 DEF CheckState
<1>5. StartCheck(G, r, p) = "PASS" <=> \A a \in StartActions(r) : HasAction(G, p, a) = "PASS"
  BY <1>1, <1>3
<1>6. StartCheck(G, r, p) = "PASS" <=> \A a \in StartActions(r) : Clean(G, all(a)) # {}
  BY <1>1, <1>5
<1>7. ASSUME NEW a \in StartActions(r)
      PROVE  \E i \in StartWitnesses(G, r, p) :
               /\ G.perm[i].src = p /\ G.perm[i].action = a
               /\ StartCheck(G, r, p) = "PASS" => ~ UnknownWitness(G.perm[i])
  BY <1>1, <1>2, <1>6
<1>8. /\ StartWitnesses(G, r, p) \subseteq DOMAIN G.perm
      /\ \A i \in StartWitnesses(G, r, p) : G.perm[i].src = p /\ G.perm[i].action \in StartActions(r)
  BY <1>1, <1>2
<1> QED
  BY <1>4, <1>6, <1>7, <1>8 DEF all

\* Of one kind of binding, what the check over all start actions and the one
\* over iam:PassRole say together.
LEMMA KindSays ==
  ASSUME NEW G \in GrantGraphs, NEW starts \in SUBSET DOMAIN G.perm, NEW pass \in DOMAIN G.perm,
         NEW field \in Fields
  PROVE  LET states == GovernanceStates({G.perm[i][field] : i \in starts}, G.perm[pass][field])
             used   == starts \cup {pass}
         IN  /\ states \subseteq CheckState
             /\ "FAIL" \in states <=> \E i \in used : \E b \in G.perm[i][field] : BlocksForSure(b)
             /\ states \subseteq {"PASS"} => \A i \in used : \A b \in G.perm[i][field] : ~ b.blocking
             /\ (\A i \in used : G.perm[i][field] = {}) => states \subseteq {"PASS"}
<1> DEFINE on(i)  == G.perm[i][field]
           each   == {BlockerState(bindings) : bindings \in {on(i) : i \in starts}}
           states == GovernanceStates({on(i) : i \in starts}, on(pass))
<1>1. states = {AndTristateMany(each), BlockerState(on(pass))}
  BY DEF GovernanceStates
<1>2. \A i \in starts \cup {pass} : on(i) \in SUBSET Binding
  BY GrantTypes DEF Fields
<1> HIDE DEF on
<1>3. ASSUME NEW i \in starts \cup {pass}
      PROVE  /\ BlockerState(on(i)) \in CheckState
             /\ BlockerState(on(i)) = "FAIL" <=> \E b \in on(i) : BlocksForSure(b)
             /\ BlockerState(on(i)) = "PASS" => \A b \in on(i) : ~ b.blocking
             /\ on(i) = {} => BlockerState(on(i)) = "PASS"
  BY <1>2, BlockerStates
<1>4. each = {BlockerState(on(i)) : i \in starts}
  OBVIOUS
<1>5. /\ AndTristateMany(each) \in CheckState
      /\ AndTristateMany(each) = "FAIL" <=> "FAIL" \in each
      /\ AndTristateMany(each) = "PASS" <=> {"FAIL", "UNKNOWN"} \cap each = {}
  BY Tristates
<1> HIDE DEF each, states
<1>6. states \subseteq CheckState
  BY <1>1, <1>3, <1>5
<1>7. "FAIL" \in states <=> \E i \in starts \cup {pass} : \E b \in on(i) : BlocksForSure(b)
  BY <1>1, <1>3, <1>4, <1>5
<1>8. ASSUME states \subseteq {"PASS"} PROVE \A i \in starts \cup {pass} : \A b \in on(i) : ~ b.blocking
  <2>1. BlockerState(on(pass)) = "PASS" /\ AndTristateMany(each) = "PASS"
    BY <1>1, <1>8
  <2>2. \A i \in starts : BlockerState(on(i)) = "PASS"
    BY <1>3, <1>4, <1>5, <2>1 DEF CheckState
  <2> QED
    BY <1>3, <2>1, <2>2
<1>9. ASSUME \A i \in starts \cup {pass} : on(i) = {} PROVE states \subseteq {"PASS"}
  <2>1. \A i \in starts \cup {pass} : BlockerState(on(i)) = "PASS"
    BY <1>3, <1>9
  <2>2. AndTristateMany(each) = "PASS"
    BY <1>4, <1>5, <2>1
  <2> QED
    BY <1>1, <2>1, <2>2
<1> QED
  BY <1>6, <1>7, <1>8, <1>9 DEF on, states

\* The governance checks of a PassRole chain and their blockers.
LEMMA GovernanceSays ==
  ASSUME NEW G \in GrantGraphs, NEW r \in PassRoleReasoners,
         NEW starts \in SUBSET DOMAIN G.perm, NEW pass \in DOMAIN G.perm
  PROVE  LET states == GovernanceChecks(G, r, starts, pass)
             used   == starts \cup {pass}
         IN  /\ states \subseteq CheckState
             /\ "FAIL" \in states <=> \E i \in used : BlockedForSure(r, G.perm[i])
             /\ "FAIL" \in states <=> GovernanceBlockers(G, r, used) # {}
             /\ states \subseteq {"PASS"} => \A i \in used : Unblocked(r, G.perm[i])
             /\ (\A i \in used : G.perm[i].scp \cup G.perm[i].boundary \cup G.perm[i].deny = {})
                  => states \subseteq {"PASS"}
<1> DEFINE kind(field) == GovernanceStates({G.perm[i][field] : i \in starts}, G.perm[pass][field])
           used == starts \cup {pass}
           states == GovernanceChecks(G, r, starts, pass)
           sure(field) == \E i \in used : \E b \in G.perm[i][field] : BlocksForSure(b)
<1>1. ASSUME NEW field \in Fields
      PROVE  /\ kind(field) \subseteq CheckState
             /\ "FAIL" \in kind(field) <=> sure(field)
             /\ kind(field) \subseteq {"PASS"} => \A i \in used : \A b \in G.perm[i][field] : ~ b.blocking
             /\ (\A i \in used : G.perm[i][field] = {}) => kind(field) \subseteq {"PASS"}
  BY KindSays
<1>2. states = kind("scp") \cup kind("boundary") \cup
               (IF r = "passrole_lambda" THEN kind("deny") ELSE {})
  BY DEF GovernanceChecks, ScpChecks, BoundaryChecks, DenyChecks
<1>3. Governing(r) = IF r = "passrole_lambda" THEN Fields ELSE {"scp", "boundary"}
  BY DEF Governing, PassRoleReasoners, Fields
<1>4. /\ \A x : x \in states <=> \E field \in Governing(r) : x \in kind(field)
      /\ Governing(r) \subseteq Fields
  <2> HIDE DEF kind, states
  <2> QED
    BY <1>2, <1>3 DEF Fields
<1>5. GovernanceBlockers(G, r, used) # {} <=> \E field \in Governing(r) : sure(field)
  <2>1. GovernanceBlockers(G, r, used) # {} <=>
          sure("scp") \/ sure("boundary") \/ (r = "passrole_lambda" /\ sure("deny"))
    BY DEF GovernanceBlockers, UndeniedBlockers, ScpBlockers, BoundaryBlockers, DenyBlockers
  <2> HIDE DEF sure
  <2> QED
    BY <2>1, <1>3 DEF Fields
<1>6. (\E i \in used : BlockedForSure(r, G.perm[i])) <=> \E field \in Governing(r) : sure(field)
  BY DEF BlockedForSure
<1>7. ASSUME NEW i \in used, \A field \in Governing(r) : \A b \in G.perm[i][field] : ~ b.blocking
      PROVE  Unblocked(r, G.perm[i])
  BY <1>7 DEF Unblocked
<1>8. ASSUME \A i \in used : G.perm[i].scp \cup G.perm[i].boundary \cup G.perm[i].deny = {}
      PROVE  \A i \in used : \A field \in Fields : G.perm[i][field] = {}
  BY <1>8 DEF Fields
<1> HIDE DEF kind, sure, states
<1>9. states \subseteq CheckState
  BY <1>1, <1>4
<1>10. "FAIL" \in states <=> \E field \in Governing(r) : sure(field)
  BY <1>1, <1>4
<1>11. states \subseteq {"PASS"} => \A i \in used : Unblocked(r, G.perm[i])
  BY <1>1, <1>4, <1>7
<1>12. (\A i \in used : G.perm[i].scp \cup G.perm[i].boundary \cup G.perm[i].deny = {})
         => states \subseteq {"PASS"}
  BY <1>1, <1>4, <1>8
<1> QED
  BY <1>5, <1>6, <1>9, <1>10, <1>11, <1>12 DEF states

\* The check of iam:PassedToService.
LEMMA ScopedSays ==
  ASSUME NEW e \in Grant, NEW service
  PROVE  LET state == PassedToServiceCheck(e.tests, service)
         IN  /\ state \in CheckState
             /\ state = "FAIL" => e.tests # {} /\ (TestsOnce(e) => KeepsOut(e, service))
             /\ state = "PASS" => (TestsOnce(e) => LetsThrough(e, service))
             /\ e.tests = {} => state = "PASS"
<1> DEFINE naming    == {t \in e.tests : t.key = "iam:PassedToService"}
           supported == {t \in naming : t.operator = "supported"}
           state     == PassedToServiceCheck(e.tests, service)
           through   == \E t \in supported : service \in t.services
<1>1. state = IF naming = {} THEN "PASS"
              ELSE IF supported = {} THEN "UNKNOWN" ELSE IF through THEN "PASS" ELSE "FAIL"
  BY DEF PassedToServiceCheck
<1>2. TestsOnce(e) <=> \A t, u \in naming : t = u
  BY DEF TestsOnce
<1>3. LetsThrough(e, service) <=> \A t \in naming : t \in supported /\ service \in t.services
  BY DEF LetsThrough
<1>4. KeepsOut(e, service) <=> \E t \in supported : service \notin t.services
  BY DEF KeepsOut
<1> HIDE DEF state
<1>5. state \in CheckState
  BY <1>1 DEF CheckState
<1>6. state = "FAIL" => e.tests # {} /\ (TestsOnce(e) => KeepsOut(e, service))
  BY <1>1, <1>2, <1>4
<1>7. ASSUME state = "PASS", TestsOnce(e) PROVE LetsThrough(e, service)
  BY <1>1, <1>2, <1>3, <1>7
<1>8. e.tests = {} => state = "PASS"
  BY <1>1
<1> QED
  BY <1>5, <1>6, <1>7, <1>8 DEF state

\* A PassRole finding: where its grants come from and what decides its verdict.
LEMMA PassRoleSays ==
  ASSUME NEW G \in GrantGraphs, NEW r \in PassRoleReasoners, NEW p \in Starters(G, r), NEW t \in Roles,
         GrantsOf(G, p, PassRole, t) # {}
  PROVE  LET f      == PassRoleFinding(G, r, p, t)
             starts == StartWitnesses(G, r, p)
             pass   == PassWitness(G, p, t)
             e      == G.perm[pass]
             states == GovernanceChecks(G, r, starts, pass)
             scoped == PassedToServiceCheck(e.tests, ServiceFor(r))
         IN  /\ f.by = r /\ f.source = p /\ f.target = t /\ f.grants = starts \cup {pass}
             /\ pass \in DOMAIN G.perm /\ e.src = p /\ e.action = PassRole /\ e.dst \in {t, HyperNode}
             /\ UnknownWitness(e) <=> Clean(G, GrantsOf(G, p, PassRole, t)) = {}
             /\ f.checks = {StartCheck(G, r, p), PassCheck(e), "PASS", scoped} \cup states
             /\ f.blockers = GovernanceBlockers(G, r, f.grants)
                               \cup (IF scoped = "FAIL" THEN {"passed_to_service"} ELSE {})
             /\ f.verdict = (IF scoped = "FAIL" THEN "PRECONDITION_ONLY"
                             ELSE IF "FAIL" \in states THEN "BLOCKED"
                             ELSE IF "UNKNOWN" \in f.checks THEN "INCONCLUSIVE" ELSE "VALIDATED")
             /\ f.severity \in {"info", "medium", "high", "critical"}
<1> DEFINE f      == PassRoleFinding(G, r, p, t)
           starts == StartWitnesses(G, r, p)
           pass   == PassWitness(G, p, t)
           e      == G.perm[pass]
           states == GovernanceChecks(G, r, starts, pass)
           scoped == PassedToServiceCheck(e.tests, ServiceFor(r))
           all    == GrantsOf(G, p, PassRole, t)
           checks == {StartCheck(G, r, p), PassCheck(e), "PASS", scoped} \cup states
           verdict == PassRoleVerdict(scoped, states, checks)
<1>1. all \in SUBSET DOMAIN G.perm
  BY DEF GrantsOf
<1>2. pass \in all /\ (UnknownWitness(e) <=> Clean(G, all) = {})
  BY <1>1, WitnessChosen DEF PassWitness
<1>3. pass \in DOMAIN G.perm /\ e.src = p /\ e.action = PassRole /\ e.dst \in {t, HyperNode}
  BY <1>2, GrantNodes DEF GrantsOf, ResourceMatches
<1>4. f = [by |-> r, source |-> p, target |-> t, verdict |-> verdict,
           severity |-> PassRoleSeverity(verdict, AdminEquivalent(G, t)), checks |-> checks,
           blockers |-> GovernanceBlockers(G, r, starts \cup {pass})
                          \cup (IF scoped = "FAIL" THEN {"passed_to_service"} ELSE {}),
           grants |-> starts \cup {pass}]
  BY DEF PassRoleFinding
<1>5. verdict = IF scoped = "FAIL" THEN "PRECONDITION_ONLY"
                ELSE IF "FAIL" \in states THEN "BLOCKED"
                ELSE IF "UNKNOWN" \in checks THEN "INCONCLUSIVE" ELSE "VALIDATED"
  BY DEF PassRoleVerdict
<1>6. f.severity \in {"info", "medium", "high", "critical"}
  BY <1>4 DEF PassRoleSeverity
<1> HIDE DEF f, verdict
<1> QED
  BY <1>2, <1>3, <1>4, <1>5, <1>6 DEF f

(***************************************************************************)
(* What the properties ask of one finding.                                 *)
(***************************************************************************)
JustBlock(f) ==
  \E e \in Cited(f) :
    /\ BlockedForSure(f.by, e)
    /\ e.action = TargetAction(f.by) =>
         \A o \in Granted(f.source, e.action) : Definite(o) /\ o.dst = f.target => ~ Unblocked(f.by, o)

Proven(f) == IF f.by \in PassRoleReasoners THEN ChainProven(f) ELSE ResourceProven(f)

Sound(f) ==
  /\ f \in GrantFinding /\ FindingAccepted(f)
  /\ f.verdict = "VALIDATED" => Proven(f)
  /\ f.verdict = "BLOCKED" => JustBlock(f)
  /\ f.verdict = "PRECONDITION_ONLY" => GateIsShut(f)

\* Grants of one source, action and resource are governed alike.
LEMMA Alike ==
  ASSUME WellGoverned(graph), NEW i \in DOMAIN graph.perm, NEW o \in GrantSet,
         o.src = graph.perm[i].src, o.action = graph.perm[i].action, o.dst = graph.perm[i].dst,
         NEW r, BlockedForSure(r, graph.perm[i])
  PROVE  ~ Unblocked(r, o)
<1> DEFINE e == graph.perm[i]
<1>1. PICK j \in DOMAIN graph.perm : o = graph.perm[j]
  BY DEF GrantSet
<1>2. <<e.scp, e.boundary, e.deny>> = <<o.scp, o.boundary, o.deny>>
  BY <1>1 DEF WellGoverned
<1>3. PICK field \in Governing(r) : \E b \in e[field] : BlocksForSure(b)
  BY DEF BlockedForSure
<1>4. field \in Fields
  BY DEF Governing, Fields
<1>5. e[field] = o[field]
  BY <1>2, <1>4 DEF Fields
<1> QED
  BY <1>3, <1>5 DEF Unblocked, BlocksForSure

LEMMA CleanIsDefinite ==
  ASSUME NEW e PROVE Definite(e) <=> ~ UnknownWitness(e)
  BY DEF Definite, UnknownWitness

LEMMA PassRoleSound ==
  ASSUME graph \in GrantGraphs, WellGoverned(graph), NEW r \in PassRoleReasoners,
         NEW f \in PassRoleFindings(graph, r)
  PROVE  Sound(f) /\ f.by = r
<1>1. PICK p \in Starters(graph, r), t \in Trusting(graph, r) :
        GrantsOf(graph, p, PassRole, t) # {} /\ f = PassRoleFinding(graph, r, p, t)
  BY DEF PassRoleFindings, PassRoleCandidates
<1>2. ServiceFor(r) \in Services /\ graph.trusts \in [Services -> SUBSET Roles]
  BY GrantNodes DEF ServiceFor, GrantGraphs
<1>3. p \in Principals /\ t \in Roles /\ t \in graph.trusts[ServiceFor(r)]
  BY <1>2 DEF Starters, Trusting
<1> DEFINE starts == StartWitnesses(graph, r, p)
           pass   == PassWitness(graph, p, t)
           e      == graph.perm[pass]
           states == GovernanceChecks(graph, r, starts, pass)
           scoped == PassedToServiceCheck(e.tests, ServiceFor(r))
           start  == StartCheck(graph, r, p)
           blocks == GovernanceBlockers(graph, r, f.grants)
<1>4. /\ f.by = r /\ f.source = p /\ f.target = t /\ f.grants = starts \cup {pass}
      /\ pass \in DOMAIN graph.perm /\ e.src = p /\ e.action = PassRole /\ e.dst \in {t, HyperNode}
      /\ UnknownWitness(e) <=> Clean(graph, GrantsOf(graph, p, PassRole, t)) = {}
      /\ f.checks = {start, PassCheck(e), "PASS", scoped} \cup states
      /\ f.blockers = blocks \cup (IF scoped = "FAIL" THEN {"passed_to_service"} ELSE {})
      /\ f.verdict = (IF scoped = "FAIL" THEN "PRECONDITION_ONLY"
                      ELSE IF "FAIL" \in states THEN "BLOCKED"
                      ELSE IF "UNKNOWN" \in f.checks THEN "INCONCLUSIVE" ELSE "VALIDATED")
      /\ f.severity \in {"info", "medium", "high", "critical"}
  BY <1>1, <1>3, PassRoleSays
<1>5. /\ starts \subseteq DOMAIN graph.perm
      /\ \A i \in starts : graph.perm[i].src = p /\ graph.perm[i].action \in StartActions(r)
      /\ start \in {"PASS", "UNKNOWN"}
      /\ start = "PASS" => \A a \in StartActions(r) : \E i \in starts :
           graph.perm[i].src = p /\ graph.perm[i].action = a /\ ~ UnknownWitness(graph.perm[i])
  BY StartsShown
<1>6. /\ states \subseteq CheckState
      /\ "FAIL" \in states <=> \E i \in f.grants : BlockedForSure(r, graph.perm[i])
      /\ "FAIL" \in states <=> blocks # {}
      /\ states \subseteq {"PASS"} => \A i \in f.grants : Unblocked(r, graph.perm[i])
  <2>1. starts \in SUBSET DOMAIN graph.perm /\ pass \in DOMAIN graph.perm
    BY <1>4, <1>5
  <2> QED
    BY <2>1, <1>4, GovernanceSays
<1>7. /\ scoped \in CheckState
      /\ scoped = "FAIL" => e.tests # {} /\ (TestsOnce(e) => KeepsOut(e, ServiceFor(r)))
      /\ scoped = "PASS" => (TestsOnce(e) => LetsThrough(e, ServiceFor(r)))
  <2>1. e \in Grant
    BY <1>4, GrantTypes
  <2> QED
    BY <2>1, ScopedSays
<1>8. PassCheck(e) \in {"PASS", "UNKNOWN"} /\ (PassCheck(e) = "PASS" <=> e.dst = t /\ e.scope = "exact")
  <2>1. t # HyperNode
    BY <1>3, GrantNodes
  <2> QED
    BY <1>4, <2>1 DEF PassCheck
<1>9. /\ \A i \in f.grants : graph.perm[i] \in Cited(f) /\ graph.perm[i] \in GrantSet
      /\ f.grants \subseteq DOMAIN graph.perm
  BY <1>4, <1>5 DEF Cited, GrantSet
<1>10. PassRole \notin StartActions(r) /\ TargetAction(r) = PassRole
  <2>1. TargetAction(r) = PassRole
    BY DEF TargetAction, PassRoleReasoners
  <2>2. "iam:PassRole" \notin {"lambda:CreateFunction", "lambda:InvokeFunction"}
    OBVIOUS
  <2> QED
    BY <2>1 DEF PassRole, StartActions
<1> HIDE DEF starts, pass, e, states, scoped, start, blocks
<1>11. ASSUME NEW o \in Granted(p, PassRole), Definite(o), o.dst = t
       PROVE  ~ UnknownWitness(e)
  <2>1. PICK i \in DOMAIN graph.perm : o = graph.perm[i]
    BY DEF Granted, GrantSet
  <2>2. i \in GrantsOf(graph, p, PassRole, t)
    BY <1>11, <2>1 DEF Granted, GrantsOf, ResourceMatches
  <2>3. i \in Clean(graph, GrantsOf(graph, p, PassRole, t))
    BY <1>11, <2>1, <2>2, CleanIsDefinite DEF Clean
  <2> QED
    BY <1>4, <2>3
<1>12. FindingAccepted(f)
  <2>1. f.verdict = "PRECONDITION_ONLY" => {"PASS", "FAIL"} \subseteq f.checks /\ f.blockers # {}
    BY <1>4
  <2>2. f.verdict = "BLOCKED" => "FAIL" \in f.checks /\ f.blockers # {}
    BY <1>4, <1>6
  <2>3. ASSUME f.verdict = "VALIDATED" PROVE f.checks \subseteq {"PASS"} /\ f.blockers = {}
    <3>1. scoped # "FAIL" /\ "FAIL" \notin states /\ "UNKNOWN" \notin f.checks
      BY <1>4, <2>3
    <3>2. states \subseteq {"PASS"} /\ start = "PASS" /\ PassCheck(e) = "PASS" /\ scoped = "PASS"
      BY <1>4, <1>5, <1>6, <1>7, <1>8, <3>1 DEF CheckState
    <3> QED
      BY <1>4, <1>6, <3>1, <3>2
  <2> QED
    BY <2>1, <2>2, <2>3 DEF FindingAccepted
<1>13. f \in GrantFinding
  <2>1. f = [by |-> f.by, source |-> f.source, target |-> f.target, verdict |-> f.verdict,
             severity |-> f.severity, checks |-> f.checks, blockers |-> f.blockers, grants |-> f.grants]
    BY <1>1 DEF PassRoleFinding
  <2>2. f.checks \subseteq CheckState
    BY <1>4, <1>5, <1>6, <1>7, <1>8 DEF CheckState
  <2>3. f.grants \subseteq Nat
    BY <1>9, GrantTypes
  <2>4. f.verdict \in Verdict
    BY <1>4 DEF Verdict
  <2>5. f.blockers \subseteq {"scp", "permission_boundary", "identity_deny", "passed_to_service"}
    <3>1. blocks \subseteq {"scp", "permission_boundary", "identity_deny"}
      BY DEF blocks, GovernanceBlockers, UndeniedBlockers, ScpBlockers, BoundaryBlockers, DenyBlockers
    <3> QED
      BY <1>4, <3>1
  <2>6. f.by \in Reasoners
    BY <1>4 DEF Reasoners
  <2>7. f.source \in Principals /\ f.target \in Roles \cup Groups \cup Resources
    BY <1>3, <1>4
  <2> QED
    BY <1>4, <2>1, <2>2, <2>3, <2>4, <2>5, <2>6, <2>7 DEF GrantFinding
<1>14. ASSUME f.verdict = "VALIDATED" PROVE ChainProven(f)
  <2>1. states \subseteq {"PASS"} /\ start = "PASS" /\ PassCheck(e) = "PASS" /\ scoped = "PASS"
    BY <1>4, <1>5, <1>6, <1>7, <1>8, <1>14 DEF CheckState
  <2>2. ASSUME NEW a \in StartActions(r) PROVE \E d \in Granted(p, a) : Definite(d) /\ Unblocked(r, d)
    <3>1. PICK i \in starts : graph.perm[i].src = p /\ graph.perm[i].action = a /\ ~ UnknownWitness(graph.perm[i])
      BY <1>5, <2>1
    <3>2. Unblocked(r, graph.perm[i]) /\ graph.perm[i] \in Granted(p, a)
      BY <1>4, <1>6, <1>9, <2>1, <3>1 DEF Granted
    <3> QED
      BY <3>1, <3>2, CleanIsDefinite
  <2>3. e \in Granted(p, PassRole) /\ e.dst = t /\ e.scope = "exact" /\ Unblocked(r, e)
        /\ (TestsOnce(e) => LetsThrough(e, ServiceFor(r)))
    BY <1>4, <1>6, <1>7, <1>8, <1>9, <2>1 DEF Granted, e
  <2> QED
    BY <1>3, <1>4, <2>2, <2>3 DEF ChainProven
<1>15. ASSUME f.verdict = "BLOCKED" PROVE JustBlock(f)
  <2>1. PICK i \in f.grants : BlockedForSure(r, graph.perm[i])
    BY <1>4, <1>6, <1>15
  <2>2. CASE i \in starts
    <3>1. graph.perm[i].action # PassRole
      BY <1>5, <1>10, <2>2
    <3> QED
      BY <1>4, <1>9, <1>10, <2>1, <3>1 DEF JustBlock
  <2>3. CASE i = pass
    <3>1. ASSUME NEW o \in Granted(p, PassRole), Definite(o), o.dst = t PROVE ~ Unblocked(r, o)
      <4>1. e.dst = t
        BY <1>4, <1>11, <3>1 DEF UnknownWitness
      <4> QED
        BY <1>4, <1>9, <2>1, <2>3, <3>1, <4>1, Alike DEF Granted, e
    <3> QED
      BY <1>4, <1>9, <2>1, <2>3, <3>1 DEF JustBlock, e
  <2> QED
    BY <1>4, <2>2, <2>3
<1>16. ASSUME f.verdict = "PRECONDITION_ONLY" PROVE GateIsShut(f)
  <2>1. scoped = "FAIL"
    BY <1>4, <1>16
  <2>2. ~ Definitely(p, PassRole, t)
    BY <1>7, <1>11, <2>1 DEF Definitely, UnknownWitness
  <2>3. e \in Cited(f)
    BY <1>4, <1>9 DEF e
  <2> QED
    BY <1>4, <1>7, <2>1, <2>2, <2>3 DEF GateIsShut, PassRoleReasoners
<1> QED
  BY <1>4, <1>12, <1>13, <1>14, <1>15, <1>16 DEF Sound, Proven
-----------------------------------------------------------------------------
(***************************************************************************)
(* The reasoners over one permission to one resource.                      *)
(***************************************************************************)
ResourceReasoners == {"secrets_blast_radius", "iam_group_membership_escalation", "s3_bucket_takeover"}

ResourceChecks(r, e) == IF r = "s3_bucket_takeover" THEN PutGovernance(e) ELSE SecretGovernance(e)

\* The governance checks of a resource grant and their blockers.
LEMMA ResourceGovernanceSays ==
  ASSUME NEW G \in GrantGraphs, NEW r \in ResourceReasoners, NEW i \in DOMAIN G.perm
  PROVE  LET e      == G.perm[i]
             states == ResourceChecks(r, e)
         IN  /\ states \subseteq CheckState
             /\ "FAIL" \in states <=> BlockedForSure(r, e)
             /\ "FAIL" \in states <=> Blockers(e, Governing(r)) # {}
             /\ Blockers(e, Governing(r)) \subseteq {"scp", "permission_boundary", "identity_deny"}
             /\ states \subseteq {"PASS"} => Unblocked(r, e)
             /\ e.scp \cup e.boundary \cup e.deny = {} => states \subseteq {"PASS"}
<1> DEFINE e == G.perm[i]
           state(field) == IF field = "deny" THEN BlockerState(e[field]) ELSE LikelyBlockerState(e[field])
           states == ResourceChecks(r, e)
           sure(field) == \E b \in e[field] : BlocksForSure(b)
<1>1. Governing(r) = IF r = "s3_bucket_takeover" THEN {"scp", "boundary"} ELSE Fields
  BY DEF Governing, ResourceReasoners, Fields
<1>2. /\ \A x : x \in states <=> \E field \in Governing(r) : x = state(field)
      /\ Governing(r) \subseteq Fields
  <2>1. state("scp") = LikelyBlockerState(e.scp) /\ state("boundary") = LikelyBlockerState(e.boundary)
        /\ state("deny") = BlockerState(e.deny)
    OBVIOUS
  <2>2. states = IF r = "s3_bucket_takeover" THEN {state("scp"), state("boundary")}
                 ELSE {state("scp"), state("boundary"), state("deny")}
    BY <2>1 DEF ResourceChecks, PutGovernance, SecretGovernance
  <2> HIDE DEF state, states
  <2> QED
    BY <1>1, <2>2 DEF Fields
<1>3. ASSUME NEW field \in Fields
      PROVE  /\ state(field) \in CheckState
             /\ state(field) = "FAIL" <=> sure(field)
             /\ state(field) = "PASS" => \A b \in e[field] : ~ b.blocking
             /\ e[field] = {} => state(field) = "PASS"
  <2>1. e[field] \in SUBSET Binding
    BY <1>3, GrantTypes DEF Fields
  <2> HIDE DEF e
  <2> QED
    BY <2>1, BlockerStates, LikelyStates
<1>4. BlockedForSure(r, e) <=> \E field \in Governing(r) : sure(field)
  BY DEF BlockedForSure
<1>5. Unblocked(r, e) <=> \A field \in Governing(r) : \A b \in e[field] : ~ b.blocking
  BY DEF Unblocked
<1>6. /\ Blockers(e, Governing(r)) # {} <=> \E field \in Governing(r) : sure(field)
      /\ Blockers(e, Governing(r)) \subseteq {"scp", "permission_boundary", "identity_deny"}
  <2> DEFINE kind == [scp |-> "scp", boundary |-> "permission_boundary", deny |-> "identity_deny"]
  <2>1. Blockers(e, Governing(r)) = {kind[f] : f \in {g \in Governing(r) : sure(g)}}
    BY DEF Blockers
  <2>2. \A f \in Fields : kind[f] \in {"scp", "permission_boundary", "identity_deny"}
    BY DEF Fields
  <2> HIDE DEF kind, sure
  <2> QED
    BY <1>2, <2>1, <2>2
<1>7. ASSUME e.scp \cup e.boundary \cup e.deny = {} PROVE \A field \in Fields : e[field] = {}
  BY <1>7 DEF Fields
<1> HIDE DEF e, state, states, sure
<1>8. states \subseteq CheckState /\ ("FAIL" \in states <=> BlockedForSure(r, e))
  BY <1>2, <1>3, <1>4
<1>9. states \subseteq {"PASS"} => Unblocked(r, e)
  <2>1. ASSUME states \subseteq {"PASS"}, NEW field \in Governing(r) PROVE state(field) = "PASS"
    BY <1>2, <2>1
  <2> QED
    BY <1>2, <1>3, <1>5, <2>1
<1>10. e.scp \cup e.boundary \cup e.deny = {} => states \subseteq {"PASS"}
  BY <1>2, <1>3, <1>7
<1> QED
  BY <1>4, <1>6, <1>8, <1>9, <1>10 DEF states, e

\* The verdict is decided by governance, then by the gate, then by doubt.
LEMMA ResourceVerdictSays ==
  ASSUME NEW governance \in SUBSET CheckState, NEW gate \in CheckState, NEW checks \in SUBSET CheckState,
         governance \cup {gate} \subseteq checks, gate # "FAIL" => checks \subseteq governance \cup {"PASS", "UNKNOWN"}
  PROVE  LET verdict == ResourceVerdict(governance, gate, checks)
         IN  /\ verdict \in Verdict
             /\ verdict = "BLOCKED" <=> "FAIL" \in governance
             /\ verdict = "PRECONDITION_ONLY" <=> "FAIL" \notin governance /\ gate = "FAIL"
             /\ verdict = "VALIDATED" <=> checks \subseteq {"PASS"}
<1>1. CASE "FAIL" \in governance
  BY <1>1 DEF ResourceVerdict, Verdict
<1>2. CASE "FAIL" \notin governance /\ gate = "FAIL"
  BY <1>2 DEF ResourceVerdict, Verdict
<1>3. CASE "FAIL" \notin governance /\ gate # "FAIL" /\ "UNKNOWN" \in checks
  BY <1>3 DEF ResourceVerdict, Verdict
<1>4. CASE "FAIL" \notin governance /\ gate # "FAIL" /\ "UNKNOWN" \notin checks
  <2>1. ResourceVerdict(governance, gate, checks) = "VALIDATED"
    BY <1>4 DEF ResourceVerdict
  <2> QED
    BY <1>4, <2>1 DEF Verdict, CheckState
<1> QED
  BY <1>1, <1>2, <1>3, <1>4

\* What the reading of a key policy says of its statements, whichever of
\* those with conditions or exclusions turn out to apply.
LEMMA KeySays ==
  ASSUME NEW policy \in KeyPolicy, NEW p
  PROVE  /\ KeyAllowsDecrypt(policy, p) \in CheckState
         /\ KeyAllowsDecrypt(policy, p) = "PASS" =>
              /\ policy.status = "readable"
              /\ \A a \in SUBSET OpenStatements(policy, p) : Decrypts(policy, p, a)
         /\ KeyAllowsDecrypt(policy, p) = "FAIL" =>
              /\ policy.status = "readable"
              /\ \A a \in SUBSET OpenStatements(policy, p) : ~ Decrypts(policy, p, a)
<1> DEFINE deciding == {i \in DOMAIN policy.statements : Decides(policy.statements[i], p)}
           covering == {s \in StatementsOf(policy) : s.effect = "Allow" /\ MayCover(s, p)}
           deny     == DenyDecision(policy, p)
           allow    == AllowDecision(policy, p)
<1>1. deny = IF deciding = {} THEN "none"
             ELSE IF Certain(policy.statements[Least(deciding)]) THEN "FAIL" ELSE "UNKNOWN"
  BY DEF DenyDecision, Least
<1>2. allow = IF \E s \in covering : Certain(s) THEN "PASS" ELSE IF covering # {} THEN "UNKNOWN" ELSE "FAIL"
  BY DEF AllowDecision
<1>3. KeyAllowsDecrypt(policy, p) = IF policy.status # "readable" THEN "UNKNOWN"
                                    ELSE IF deny # "none" THEN deny ELSE allow
  BY DEF KeyAllowsDecrypt
<1> HIDE DEF deny, allow
<1>4. KeyAllowsDecrypt(policy, p) \in CheckState
  BY <1>1, <1>2, <1>3 DEF CheckState
<1>5. ASSUME NEW a \in SUBSET OpenStatements(policy, p), NEW s \in StatementsOf(policy), AppliesTo(s, p, a)
      PROVE  MayCover(s, p)
  BY <1>5 DEF AppliesTo, OpenStatements
<1>6. ASSUME KeyAllowsDecrypt(policy, p) = "PASS", NEW a \in SUBSET OpenStatements(policy, p)
      PROVE  Decrypts(policy, p, a)
  <2>1. deciding = {} /\ \E s \in covering : Certain(s)
    BY <1>1, <1>2, <1>3, <1>6
  <2>2. ~ \E s \in StatementsOf(policy) : s.effect = "Deny" /\ AppliesTo(s, p, a)
    BY <1>5, <2>1 DEF StatementsOf, Decides
  <2>3. \E s \in StatementsOf(policy) : s.effect = "Allow" /\ AppliesTo(s, p, a)
    BY <2>1 DEF AppliesTo
  <2> QED
    BY <2>2, <2>3 DEF Decrypts
<1>7. ASSUME KeyAllowsDecrypt(policy, p) = "FAIL", NEW a \in SUBSET OpenStatements(policy, p)
      PROVE  ~ Decrypts(policy, p, a)
  <2>1. \/ deciding # {} /\ Certain(policy.statements[Least(deciding)])
        \/ covering = {}
    BY <1>1, <1>2, <1>3, <1>7
  <2>2. CASE deciding # {} /\ Certain(policy.statements[Least(deciding)])
    <3>1. policy.statements \in Seq(KeyStatement)
      BY DEF KeyPolicy
    <3>2. deciding \in SUBSET Nat
      BY <3>1
    <3>3. Least(deciding) \in deciding
      BY <2>2, <3>2, LeastExists
    <3> DEFINE s == policy.statements[Least(deciding)]
    <3>4. s \in StatementsOf(policy) /\ Decides(s, p)
      BY <3>3 DEF StatementsOf
    <3>5. s.effect = "Deny" /\ MayCover(s, p)
      BY <2>2, <3>4 DEF Decides, Certain
    <3>6. AppliesTo(s, p, a)
      BY <2>2, <3>5 DEF AppliesTo
    <3> QED
      BY <3>4, <3>5, <3>6 DEF Decrypts
  <2>3. CASE covering = {}
    BY <1>5, <2>3 DEF Decrypts
  <2> QED
    BY <2>1, <2>2, <2>3
<1>8. KeyAllowsDecrypt(policy, p) # "UNKNOWN" => policy.status = "readable"
  BY <1>3
<1> QED
  BY <1>4, <1>6, <1>7, <1>8

\* A finding of one grant on one resource, whichever reasoner made it: how it
\* is put together, and what its checks know of the witness and of the gate.
OfOneGrant(f, r, i, p, t, gate, witness) ==
  LET e == graph.perm[i]
      governance == ResourceChecks(r, e)
  IN  /\ i \in DOMAIN graph.perm /\ e.src = p /\ e.action = TargetAction(r)
      /\ p \in Principals /\ t \in Roles \cup Groups \cup Resources
      /\ gate \in CheckState /\ witness \in {"PASS", "UNKNOWN"}
      /\ f = [by |-> r, source |-> p, target |-> t, verdict |-> f.verdict, severity |-> f.severity,
              checks |-> governance \cup {"PASS", witness, gate},
              blockers |-> Blockers(e, Governing(r))
                           \cup (IF gate = "FAIL" THEN {"kms_key_policy"} ELSE {}),
              grants |-> {i}]
      /\ f.verdict = ResourceVerdict(governance, gate, f.checks)
      /\ f.severity \in {"info", "medium", "high", "critical"}
      /\ witness = "PASS" => Definite(e) /\ e.dst = t
      /\ witness = "PASS" /\ gate = "PASS" => t \notin graph.dangling
      /\ gate = "FAIL" => r = "secrets_blast_radius" /\ DecryptsNever(p, t)
      /\ gate = "PASS" /\ r = "secrets_blast_radius" => DecryptsAlways(p, t)
      /\ Definitely(p, TargetAction(r), t) => e.dst = t

LEMMA ResourceSound ==
  ASSUME graph \in GrantGraphs, WellGoverned(graph), NEW r \in ResourceReasoners,
         NEW i, NEW p, NEW t, NEW gate, NEW witness, NEW f, OfOneGrant(f, r, i, p, t, gate, witness)
  PROVE  Sound(f) /\ f.by = r
<1> DEFINE e == graph.perm[i]
           states == ResourceChecks(r, e)
<1>0. /\ i \in DOMAIN graph.perm /\ e.src = p /\ e.action = TargetAction(r)
      /\ p \in Principals /\ t \in Roles \cup Groups \cup Resources
      /\ gate \in CheckState /\ witness \in {"PASS", "UNKNOWN"}
      /\ f.by = r /\ f.source = p /\ f.target = t /\ f.grants = {i}
      /\ f.checks = states \cup {"PASS", witness, gate}
      /\ f.blockers = Blockers(e, Governing(r)) \cup (IF gate = "FAIL" THEN {"kms_key_policy"} ELSE {})
      /\ f = [by |-> f.by, source |-> f.source, target |-> f.target, verdict |-> f.verdict,
              severity |-> f.severity, checks |-> f.checks, blockers |-> f.blockers, grants |-> f.grants]
      /\ f.verdict = ResourceVerdict(states, gate, f.checks)
      /\ f.severity \in {"info", "medium", "high", "critical"}
      /\ witness = "PASS" => Definite(e) /\ e.dst = t
      /\ witness = "PASS" /\ gate = "PASS" => t \notin graph.dangling
      /\ gate = "FAIL" => r = "secrets_blast_radius" /\ DecryptsNever(p, t)
      /\ gate = "PASS" /\ r = "secrets_blast_radius" => DecryptsAlways(p, t)
      /\ Definitely(p, TargetAction(r), t) => e.dst = t
  BY DEF OfOneGrant
<1>1. /\ states \subseteq CheckState
      /\ "FAIL" \in states <=> BlockedForSure(r, e)
      /\ "FAIL" \in states <=> Blockers(e, Governing(r)) # {}
      /\ Blockers(e, Governing(r)) \subseteq {"scp", "permission_boundary", "identity_deny"}
      /\ states \subseteq {"PASS"} => Unblocked(r, e)
  BY <1>0, ResourceGovernanceSays
<1>2. f.checks \subseteq CheckState
  BY <1>0, <1>1 DEF CheckState
<1>3. /\ f.verdict \in Verdict
      /\ f.verdict = "BLOCKED" <=> "FAIL" \in states
      /\ f.verdict = "PRECONDITION_ONLY" <=> "FAIL" \notin states /\ gate = "FAIL"
      /\ f.verdict = "VALIDATED" <=> f.checks \subseteq {"PASS"}
  <2>1. /\ states \in SUBSET CheckState /\ f.checks \in SUBSET CheckState
        /\ states \cup {gate} \subseteq f.checks
        /\ gate # "FAIL" => f.checks \subseteq states \cup {"PASS", "UNKNOWN"}
    BY <1>0, <1>1, <1>2 DEF CheckState
  <2>2. f.verdict = ResourceVerdict(states, gate, f.checks)
    BY <1>0
  <2> HIDE DEF states
  <2> QED
    BY <1>0, <2>1, <2>2, ResourceVerdictSays
<1>4. e \in GrantSet /\ e \in Cited(f) /\ i \in Nat
  BY <1>0, GrantTypes DEF GrantSet, Cited
<1>5. r \notin PassRoleReasoners /\ r \in Reasoners
  BY <1>0 DEF ResourceReasoners, PassRoleReasoners, Reasoners
<1> HIDE DEF e, states
<1>6. FindingAccepted(f)
  <2>1. f.verdict = "PRECONDITION_ONLY" => {"PASS", "FAIL"} \subseteq f.checks /\ f.blockers # {}
    BY <1>0, <1>3 DEF states
  <2>2. f.verdict = "BLOCKED" => "FAIL" \in f.checks /\ f.blockers # {}
    BY <1>0, <1>1, <1>3 DEF states, e
  <2>3. ASSUME f.verdict = "VALIDATED" PROVE f.checks \subseteq {"PASS"} /\ f.blockers = {}
    <3>1. f.checks \subseteq {"PASS"} /\ states \subseteq f.checks /\ gate \in f.checks
      BY <1>0, <1>3, <2>3 DEF states, e
    <3>2. "FAIL" \notin states /\ gate # "FAIL"
      BY <1>0, <3>1
    <3> QED
      BY <1>0, <1>1, <3>1, <3>2 DEF e
  <2> QED
    BY <1>0, <2>1, <2>2, <2>3 DEF FindingAccepted
<1>7. f \in GrantFinding
  <2>1. f.blockers \subseteq {"scp", "permission_boundary", "identity_deny", "passed_to_service", "kms_key_policy"}
    BY <1>0, <1>1 DEF e
  <2> QED
    BY <1>0, <1>2, <1>3, <1>4, <1>5, <2>1 DEF GrantFinding
<1>8. ASSUME f.verdict = "VALIDATED" PROVE ResourceProven(f)
  <2>1. f.checks \subseteq {"PASS"} /\ states \subseteq f.checks /\ gate \in f.checks /\ witness \in f.checks
    BY <1>0, <1>3, <1>8 DEF states, e
  <2>2. states \subseteq {"PASS"} /\ gate = "PASS" /\ witness = "PASS"
    BY <1>0, <2>1
  <2>3. e.src = p /\ e.dst = t /\ Definite(e) /\ Unblocked(r, e)
    BY <1>0, <1>1, <2>2 DEF e
  <2>4. /\ r = "secrets_blast_radius" => DecryptsAlways(p, t)
        /\ t \notin graph.dangling
    BY <1>0, <2>2
  <2> QED
    BY <1>0, <1>4, <2>3, <2>4 DEF ResourceProven
<1>9. ASSUME f.verdict = "BLOCKED" PROVE JustBlock(f)
  <2>1. BlockedForSure(r, e)
    BY <1>0, <1>1, <1>3, <1>9
  <2>2. ASSUME NEW o \in Granted(p, TargetAction(r)), Definite(o), o.dst = t PROVE ~ Unblocked(r, o)
    <3>1. e.dst = t
      BY <1>0, <2>2 DEF Definitely, e
    <3> QED
      BY <1>0, <2>1, <2>2, <3>1, Alike DEF Granted, e
  <2> QED
    BY <1>0, <1>4, <2>1, <2>2 DEF JustBlock, e
<1>10. ASSUME f.verdict = "PRECONDITION_ONLY" PROVE GateIsShut(f)
  BY <1>0, <1>3, <1>10 DEF GateIsShut
<1> QED
  BY <1>0, <1>5, <1>6, <1>7, <1>8, <1>9, <1>10 DEF Sound, Proven

\* What the enumeration of the last two reasoners picks as witness.
LEMMA TargetWitnessSays ==
  ASSUME graph \in GrantGraphs, NEW p, NEW action, NEW t,
         NEW doubtful \in SUBSET SourceGrants(graph, p, action),
         CleanFor(graph, p, action, t) # {} \/ doubtful # {}
  PROVE  LET i == TargetWitness(graph, p, action, t, doubtful)
             clean == CleanFor(graph, p, action, t)
         IN  /\ i \in DOMAIN graph.perm /\ graph.perm[i].src = p /\ graph.perm[i].action = action
             /\ clean # {} => Definite(graph.perm[i]) /\ graph.perm[i].dst = t
             /\ clean # {} <=> Definitely(p, action, t)
<1> DEFINE i == TargetWitness(graph, p, action, t, doubtful)
           clean == CleanFor(graph, p, action, t)
<1>1. /\ clean \subseteq SourceGrants(graph, p, action)
      /\ \A j \in clean : Definite(graph.perm[j]) /\ graph.perm[j].dst = t
  BY CleanIsDefinite DEF CleanFor, Clean
<1>2. /\ SourceGrants(graph, p, action) \subseteq DOMAIN graph.perm
      /\ \A j \in SourceGrants(graph, p, action) : graph.perm[j].src = p /\ graph.perm[j].action = action
  BY DEF SourceGrants
<1>3. DOMAIN graph.perm = 1 .. Len(graph.perm) /\ Len(graph.perm) \in Nat
  BY GrantTypes
<1>4. clean # {} <=> Definitely(p, action, t)
  <2>1. ASSUME NEW o \in Granted(p, action), Definite(o), o.dst = t PROVE clean # {}
    <3>1. PICK j \in DOMAIN graph.perm : o = graph.perm[j]
      BY DEF Granted, GrantSet
    <3>2. j \in clean
      BY <2>1, <3>1, CleanIsDefinite DEF Granted, CleanFor, Clean, SourceGrants
    <3> QED
      BY <3>2
  <2>2. ASSUME NEW j \in clean PROVE Definitely(p, action, t)
    <3>1. graph.perm[j] \in Granted(p, action)
      BY <1>1, <1>2 DEF Granted, GrantSet
    <3> QED
      BY <1>1, <3>1 DEF Definitely
  <2> QED
    BY <2>1, <2>2 DEF Definitely
<1>5. CASE clean # {}
  <2>1. clean \in SUBSET (1 .. Len(graph.perm))
    BY <1>1, <1>2, <1>3
  <2>2. Greatest(clean) \in clean
    BY <1>3, <1>5, <2>1, GreatestExists
  <2>3. i \in clean
    BY <1>5, <2>2 DEF TargetWitness
  <2> HIDE DEF i, clean
  <2> QED
    BY <1>1, <1>2, <1>4, <2>3 DEF i, clean
<1>6. CASE clean = {}
  <2>1. doubtful \in SUBSET Nat /\ doubtful # {}
    BY <1>2, <1>3, <1>6
  <2>2. Least(doubtful) \in doubtful
    BY <2>1, LeastExists
  <2>3. i \in doubtful
    BY <1>6, <2>2 DEF TargetWitness
  <2> HIDE DEF i, clean
  <2> QED
    BY <1>2, <1>4, <1>6, <2>3 DEF i, clean
<1> QED
  BY <1>5, <1>6

LEMMA SecretSound ==
  ASSUME graph \in GrantGraphs, WellGoverned(graph), NEW f \in SecretFindings(graph)
  PROVE  Sound(f) /\ f.by = "secrets_blast_radius"
<1> DEFINE r == "secrets_blast_radius"
<1>1. PICK i \in DOMAIN graph.perm :
        /\ graph.perm[i].action = ReadSecret /\ graph.perm[i].dst \in Secrets \cap graph.nodes
        /\ graph.perm[i].src \in Principals \cap graph.nodes
        /\ f = SecretFinding(graph, i)
  BY DEF SecretFindings
<1> DEFINE e       == graph.perm[i]
           gate    == KeyCheck(graph, e.src, e.dst)
           witness == SecretWitnessCheck(e)
           states  == ResourceChecks(r, e)
           checks  == SecretGovernance(e) \cup {"PASS", witness, gate}
           verdict == ResourceVerdict(SecretGovernance(e), gate, checks)
<1>2. f = [by |-> r, source |-> e.src, target |-> e.dst, verdict |-> verdict,
           severity |-> CASE verdict = "BLOCKED"   -> "info"
                          [] verdict = "VALIDATED" -> IF AdminEquivalent(graph, e.src) THEN "critical" ELSE "high"
                          [] OTHER                 -> "medium",
           checks |-> checks,
           blockers |-> Blockers(e, {"scp", "boundary", "deny"})
                        \cup (IF gate = "FAIL" THEN {"kms_key_policy"} ELSE {}),
           grants |-> {i}]
  <2>1. f = SecretFinding(graph, i)
    BY <1>1
  <2> QED
    BY <2>1 DEF SecretFinding
<1>3. /\ TargetAction(r) = ReadSecret
      /\ Governing(r) = {"scp", "boundary", "deny"}
      /\ states = SecretGovernance(e)
  BY DEF TargetAction, PassRoleReasoners, Governing, ResourceChecks
<1>4. e.dst \in Secrets /\ e.dst \in Resources /\ e.dst # HyperNode
  BY <1>1, GrantNodes DEF Resources
<1>5. graph.keyOf \in [Secrets -> Keys \cup {DefaultKey}] /\ graph.policyOf \in [Keys -> KeyPolicy]
  BY DEF GrantGraphs
<1> DEFINE key == graph.keyOf[e.dst]
<1>6. /\ gate \in CheckState
      /\ gate = "PASS" => e.dst \notin graph.dangling /\ DecryptsAlways(e.src, e.dst)
      /\ gate = "FAIL" => DecryptsNever(e.src, e.dst)
  <2>1. gate = IF e.dst \in graph.dangling THEN "UNKNOWN" ELSE IF key = DefaultKey THEN "PASS"
               ELSE KeyAllowsDecrypt(graph.policyOf[key], e.src)
    BY DEF KeyCheck
  <2>2. CASE e.dst \in graph.dangling
    BY <2>1, <2>2 DEF CheckState
  <2>3. CASE e.dst \notin graph.dangling /\ key = DefaultKey
    BY <2>1, <2>3 DEF CheckState, DecryptsAlways
  <2>4. CASE e.dst \notin graph.dangling /\ key # DefaultKey
    <3>1. graph.policyOf[key] \in KeyPolicy
      BY <1>4, <1>5, <2>4
    <3>2. gate = KeyAllowsDecrypt(graph.policyOf[key], e.src)
      BY <2>1, <2>4
    <3> HIDE DEF gate
    <3> QED
      BY <2>4, <3>1, <3>2, KeySays DEF DecryptsAlways, DecryptsNever
  <2> QED
    BY <2>2, <2>3, <2>4
<1>7. witness \in {"PASS", "UNKNOWN"} /\ (witness = "PASS" => Definite(e))
  BY CleanIsDefinite DEF SecretWitnessCheck
<1> HIDE DEF verdict, gate, witness
<1>8. f.severity \in {"info", "medium", "high", "critical"}
  BY <1>2
<1>9. /\ f.by = r /\ f.source = e.src /\ f.target = e.dst /\ f.grants = {i}
      /\ f.checks = states \cup {"PASS", witness, gate}
      /\ f.blockers = Blockers(e, Governing(r)) \cup (IF gate = "FAIL" THEN {"kms_key_policy"} ELSE {})
      /\ f = [by |-> f.by, source |-> f.source, target |-> f.target, verdict |-> f.verdict,
              severity |-> f.severity, checks |-> f.checks, blockers |-> f.blockers, grants |-> f.grants]
  BY <1>2, <1>3
<1>10. f.verdict = ResourceVerdict(states, gate, f.checks)
  <2>1. f.verdict = verdict /\ f.checks = checks
    BY <1>2
  <2> QED
    BY <2>1, <1>3 DEF verdict
<1>11. r \in ResourceReasoners /\ e.src \in Principals
  BY <1>1 DEF ResourceReasoners
<1>12. OfOneGrant(f, r, i, e.src, e.dst, gate, witness)
  BY <1>1, <1>3, <1>4, <1>6, <1>7, <1>8, <1>9, <1>10, <1>11 DEF OfOneGrant
<1> QED
  BY <1>11, <1>12, ResourceSound

LEMMA JoinSound ==
  ASSUME graph \in GrantGraphs, WellGoverned(graph), NEW f \in JoinFindings(graph)
  PROVE  Sound(f) /\ f.by = "iam_group_membership_escalation"
<1> DEFINE r == "iam_group_membership_escalation"
<1>1. PICK p \in Users \cap graph.nodes, t \in Groups :
        t \in JoinTargets(graph, p) /\ f = JoinFinding(graph, p, t)
  BY DEF JoinFindings
<1> DEFINE i       == TargetWitness(graph, p, JoinGroup, t, DoubtfulJoins(graph, p))
           e       == graph.perm[i]
           witness == JoinWitnessCheck(graph, p, t)
           states  == ResourceChecks(r, e)
           checks  == JoinGovernance(e) \cup {"PASS", witness}
           verdict == ResourceVerdict(JoinGovernance(e), "PASS", checks)
           clean   == CleanFor(graph, p, JoinGroup, t)
<1>2. f = [by |-> r, source |-> p, target |-> t, verdict |-> verdict,
           severity |-> CASE verdict = "BLOCKED" -> "info" [] verdict = "VALIDATED" -> "critical"
                          [] OTHER -> "high",
           checks |-> checks, blockers |-> Blockers(e, {"scp", "boundary", "deny"}), grants |-> {i}]
  <2>1. f = JoinFinding(graph, p, t)
    BY <1>1
  <2> QED
    BY <2>1 DEF JoinFinding
<1>3. /\ TargetAction(r) = JoinGroup
      /\ Governing(r) = {"scp", "boundary", "deny"}
      /\ states = JoinGovernance(e)
  BY DEF TargetAction, PassRoleReasoners, Governing, ResourceChecks, SecretGovernance, JoinGovernance
<1>4. t \in Groups /\ p \in Principals /\ t \notin graph.dangling
  BY <1>1, GrantNodes DEF JoinTargets, Principals, GrantGraphs
<1>5. /\ i \in DOMAIN graph.perm /\ e.src = p /\ e.action = JoinGroup
      /\ clean # {} => Definite(e) /\ e.dst = t
      /\ clean # {} <=> Definitely(p, JoinGroup, t)
  <2>1. DoubtfulJoins(graph, p) \in SUBSET SourceGrants(graph, p, JoinGroup)
    BY DEF DoubtfulJoins
  <2>2. clean # {} \/ DoubtfulJoins(graph, p) # {}
    BY <1>1 DEF JoinTargets
  <2> QED
    BY <2>1, <2>2, TargetWitnessSays
<1>6. witness \in {"PASS", "UNKNOWN"} /\ (witness = "PASS" <=> clean # {})
  BY DEF JoinWitnessCheck
<1> HIDE DEF verdict, witness, clean, i, e
<1>7. f.severity \in {"info", "medium", "high", "critical"}
  BY <1>2
<1>8. /\ f.by = r /\ f.source = p /\ f.target = t /\ f.grants = {i}
      /\ f.checks = states \cup {"PASS", witness, "PASS"}
      /\ f.blockers = Blockers(e, Governing(r)) \cup (IF "PASS" = "FAIL" THEN {"kms_key_policy"} ELSE {})
      /\ f = [by |-> f.by, source |-> f.source, target |-> f.target, verdict |-> f.verdict,
              severity |-> f.severity, checks |-> f.checks, blockers |-> f.blockers, grants |-> f.grants]
  BY <1>2, <1>3
<1>9. f.verdict = ResourceVerdict(states, "PASS", f.checks)
  <2>1. f.verdict = verdict /\ f.checks = checks
    BY <1>2
  <2> QED
    BY <2>1, <1>3 DEF verdict
<1>10. r \in ResourceReasoners /\ r # "secrets_blast_radius" /\ "PASS" \in CheckState /\ "PASS" # "FAIL"
  BY DEF ResourceReasoners, CheckState
<1>11. OfOneGrant(f, r, i, p, t, "PASS", witness)
  BY <1>3, <1>4, <1>5, <1>6, <1>7, <1>8, <1>9, <1>10 DEF OfOneGrant, e
<1> QED
  BY <1>10, <1>11, ResourceSound

LEMMA PutSound ==
  ASSUME graph \in GrantGraphs, WellGoverned(graph), NEW f \in PutFindings(graph)
  PROVE  Sound(f) /\ f.by = "s3_bucket_takeover"
<1> DEFINE r == "s3_bucket_takeover"
<1>1. PICK p \in Principals \cap graph.nodes, t \in Buckets :
        t \in PutTargets(graph, p) /\ f = PutFinding(graph, p, t)
  BY DEF PutFindings
<1> DEFINE i       == TargetWitness(graph, p, PutPolicy, t, DoubtfulPuts(graph, p))
           e       == graph.perm[i]
           witness == IF PutDoubtful(graph, p, t) THEN "UNKNOWN" ELSE "PASS"
           states  == ResourceChecks(r, e)
           checks  == PutGovernance(e) \cup {"PASS"}
                        \cup (IF PutDoubtful(graph, p, t) THEN {"UNKNOWN"} ELSE {})
           verdict == ResourceVerdict(PutGovernance(e), "PASS", checks)
           clean   == CleanFor(graph, p, PutPolicy, t)
<1>2. f = [by |-> r, source |-> p, target |-> t, verdict |-> verdict,
           severity |-> CASE verdict = "BLOCKED" -> "info" [] verdict = "VALIDATED" -> "critical"
                          [] OTHER -> "high",
           checks |-> checks, blockers |-> Blockers(e, {"scp", "boundary"}), grants |-> {i}]
  <2>1. f = PutFinding(graph, p, t)
    BY <1>1
  <2> QED
    BY <2>1 DEF PutFinding
<1>3. /\ TargetAction(r) = PutPolicy
      /\ Governing(r) = {"scp", "boundary"}
      /\ states = PutGovernance(e)
  BY DEF TargetAction, PassRoleReasoners, Governing, ResourceChecks
<1>4. t \in Resources /\ p \in Principals
  BY <1>1 DEF PutTargets, Resources
<1>5. /\ i \in DOMAIN graph.perm /\ e.src = p /\ e.action = PutPolicy
      /\ clean # {} => Definite(e) /\ e.dst = t
      /\ clean # {} <=> Definitely(p, PutPolicy, t)
  <2>1. DoubtfulPuts(graph, p) \in SUBSET SourceGrants(graph, p, PutPolicy)
    BY DEF DoubtfulPuts
  <2>2. clean # {} \/ DoubtfulPuts(graph, p) # {}
    BY <1>1 DEF PutTargets
  <2> QED
    BY <2>1, <2>2, TargetWitnessSays
<1>6. witness \in {"PASS", "UNKNOWN"} /\ (witness = "PASS" => clean # {} /\ t \notin graph.dangling)
  BY DEF PutDoubtful
<1>7. checks = PutGovernance(e) \cup {"PASS", witness, "PASS"}
  OBVIOUS
<1> HIDE DEF verdict, witness, clean, i, e, checks
<1>8. f.severity \in {"info", "medium", "high", "critical"}
  BY <1>2
<1>9. /\ f.by = r /\ f.source = p /\ f.target = t /\ f.grants = {i}
      /\ f.checks = states \cup {"PASS", witness, "PASS"}
      /\ f.blockers = Blockers(e, Governing(r)) \cup (IF "PASS" = "FAIL" THEN {"kms_key_policy"} ELSE {})
      /\ f = [by |-> f.by, source |-> f.source, target |-> f.target, verdict |-> f.verdict,
              severity |-> f.severity, checks |-> f.checks, blockers |-> f.blockers, grants |-> f.grants]
  BY <1>2, <1>3, <1>7
<1>10. f.verdict = ResourceVerdict(states, "PASS", f.checks)
  <2>1. f.verdict = verdict /\ f.checks = checks
    BY <1>2
  <2> QED
    BY <2>1, <1>3 DEF verdict
<1>11. r \in ResourceReasoners /\ r # "secrets_blast_radius" /\ "PASS" \in CheckState /\ "PASS" # "FAIL"
  BY DEF ResourceReasoners, CheckState
<1>12. OfOneGrant(f, r, i, p, t, "PASS", witness)
  BY <1>3, <1>4, <1>5, <1>6, <1>8, <1>9, <1>10, <1>11 DEF OfOneGrant, e
<1> QED
  BY <1>11, <1>12, ResourceSound

-----------------------------------------------------------------------------
(***************************************************************************)
(* Nothing is missed.                                                      *)
(***************************************************************************)
\* Whatever a reasoner that ran makes of the graph is among the findings.
LEMMA MadeFound ==
  ASSUME IInv, NEW r \in Ran, NEW f \in Made(graph, r) PROVE f \in findings
  BY DEF IInv

\* A grant is one of the edges the index over source and action returns, and
\* a definite one makes the index return a clean one.
LEMMA GrantIndexed ==
  ASSUME graph \in GrantGraphs, NEW p, NEW action, NEW t, NEW o \in Granted(p, action)
  PROVE  /\ GrantsOf(graph, p, action, AnyResource) # {}
         /\ o.dst \in {t, HyperNode} => GrantsOf(graph, p, action, t) # {}
         /\ Definite(o) => Clean(graph, GrantsOf(graph, p, action, AnyResource)) # {}
         /\ Definite(o) /\ o.dst = t => Clean(graph, GrantsOf(graph, p, action, t)) # {}
<1>1. PICK i \in DOMAIN graph.perm : o = graph.perm[i]
  BY DEF Granted, GrantSet
<1>2. o.src = p /\ o.action = action
  BY DEF Granted
<1>3. i \in GrantsOf(graph, p, action, AnyResource)
  BY <1>1, <1>2 DEF GrantsOf, ResourceMatches
<1>4. o.dst \in {t, HyperNode} => i \in GrantsOf(graph, p, action, t)
  BY <1>1, <1>2 DEF GrantsOf, ResourceMatches
<1>5. Definite(o) => ~ UnknownWitness(graph.perm[i])
  BY <1>1, CleanIsDefinite
<1> QED
  BY <1>1, <1>3, <1>4, <1>5 DEF Clean

\* A chain whose links are all granted somehow has a finding, and if each is
\* granted definitely and nothing is bound to the source's grants, a
\* validated one.
LEMMA ChainFound ==
  ASSUME IInv, graph \in GrantGraphs, NEW r \in Ran \cap PassRoleReasoners,
         NEW p \in Principals, NEW t \in Roles,
         PassRoleReady(graph), p \in graph.nodes, p # t, Startable(r, p), Trusted(r, t),
         GrantsTo(p, PassRole, t) # {}
  PROVE  /\ Found(r, p, t) # {}
         /\ /\ Unbound(p) /\ Definitely(p, PassRole, t)
            /\ \A a \in StartActions(r) : \E e \in Granted(p, a) : Definite(e)
            => Validated(r, p, t)
<1> DEFINE f      == PassRoleFinding(graph, r, p, t)
           starts == StartWitnesses(graph, r, p)
           pass   == PassWitness(graph, p, t)
           e      == graph.perm[pass]
           states == GovernanceChecks(graph, r, starts, pass)
           scoped == PassedToServiceCheck(e.tests, ServiceFor(r))
           start  == StartCheck(graph, r, p)
<1>1. p \in Starters(graph, r)
  <2>1. ASSUME NEW a \in StartActions(r) PROVE HasAction(graph, p, a) # "FAIL"
    <3>1. GrantsOf(graph, p, a, AnyResource) # {}
      BY GrantIndexed DEF Startable
    <3> QED
      BY <3>1, ActionStates
  <2> QED
    BY <2>1 DEF Starters
<1>2. GrantsOf(graph, p, PassRole, t) # {}
  BY GrantIndexed DEF GrantsTo
<1>3. f \in findings
  <2>1. <<p, t>> \in PassRoleCandidates(graph, r)
    BY <1>1 DEF PassRoleCandidates, Trusting, Trusted
  <2>2. f \in PassRoleFindings(graph, r)
    <3> HIDE DEF f
    <3> QED
      BY <1>2, <2>1 DEF PassRoleFindings, f
  <2>3. f \in Made(graph, r)
    BY <2>2 DEF Made, PassRoleReasoners
  <2> QED
    BY <2>3, MadeFound
<1>4. /\ f.by = r /\ f.source = p /\ f.target = t
      /\ pass \in DOMAIN graph.perm /\ e.src = p
      /\ UnknownWitness(e) <=> Clean(graph, GrantsOf(graph, p, PassRole, t)) = {}
      /\ f.checks = {start, PassCheck(e), "PASS", scoped} \cup states
      /\ f.verdict = (IF scoped = "FAIL" THEN "PRECONDITION_ONLY"
                      ELSE IF "FAIL" \in states THEN "BLOCKED"
                      ELSE IF "UNKNOWN" \in f.checks THEN "INCONCLUSIVE" ELSE "VALIDATED")
  BY <1>1, <1>2, PassRoleSays
<1>5. /\ starts \subseteq DOMAIN graph.perm
      /\ \A i \in starts : graph.perm[i].src = p
      /\ start = "PASS" <=> \A a \in StartActions(r) : Clean(graph, GrantsOf(graph, p, a, AnyResource)) # {}
  BY <1>1, StartsShown
<1>6. (\A i \in starts \cup {pass} : graph.perm[i].scp \cup graph.perm[i].boundary \cup graph.perm[i].deny = {})
        => states \subseteq {"PASS"}
  <2>1. starts \in SUBSET DOMAIN graph.perm /\ pass \in DOMAIN graph.perm
    BY <1>4, <1>5
  <2> QED
    BY <2>1, GovernanceSays
<1>7. e.tests = {} => scoped = "PASS"
  <2>1. e \in Grant
    BY <1>4, GrantTypes
  <2> QED
    BY <2>1, ScopedSays
<1> HIDE DEF f, starts, pass, e, states, scoped, start
<1>8. ASSUME Unbound(p), Definitely(p, PassRole, t),
             \A a \in StartActions(r) : \E d \in Granted(p, a) : Definite(d)
      PROVE  f.verdict = "VALIDATED"
  <2>1. start = "PASS"
    BY <1>5, <1>8, GrantIndexed
  <2>2. ~ UnknownWitness(e)
    BY <1>4, <1>8, GrantIndexed DEF Definitely
  <2>3. PassCheck(e) = "PASS" /\ scoped = "PASS"
    BY <1>7, <2>2 DEF UnknownWitness, PassCheck
  <2>4. states \subseteq {"PASS"}
    BY <1>4, <1>5, <1>6, <1>8 DEF Unbound, GrantSet, e
  <2>5. "FAIL" \notin states /\ f.checks \subseteq {"PASS"}
    BY <1>4, <2>1, <2>3, <2>4
  <2> QED
    BY <1>4, <2>3, <2>5
<1> QED
  BY <1>3, <1>4, <1>8 DEF Found, Validated

LEMMA ChainsComplete ==
  ASSUME IInv, graph \in GrantGraphs PROVE ChainsLookedAt /\ ProvenChainsValidated
<1>1. ChainsLookedAt
  BY ChainFound DEF ChainsLookedAt
<1>2. ASSUME NEW r \in Ran \cap PassRoleReasoners, NEW p \in Principals, NEW t \in Roles,
             PassRoleReady(graph), p \in graph.nodes, p # t, Unbound(p), Trusted(r, t),
             Definitely(p, PassRole, t),
             \A a \in StartActions(r) : \E e \in Granted(p, a) : Definite(e)
      PROVE  Validated(r, p, t)
  <2>1. Startable(r, p) /\ GrantsTo(p, PassRole, t) # {}
    BY <1>2 DEF Startable, Definitely, GrantsTo
  <2> QED
    BY <1>2, <2>1, ChainFound
<1> QED
  BY <1>1, <1>2 DEF ProvenChainsValidated

\* A resource grant without bindings passes governance.
LEMMA NothingBound ==
  ASSUME graph \in GrantGraphs, NEW r \in ResourceReasoners, NEW i \in DOMAIN graph.perm,
         Unbound(graph.perm[i].src), NEW checks, checks \subseteq {"PASS"} \cup ResourceChecks(r, graph.perm[i])
  PROVE  ResourceVerdict(ResourceChecks(r, graph.perm[i]), "PASS", checks) = "VALIDATED"
<1> DEFINE states == ResourceChecks(r, graph.perm[i])
<1>1. graph.perm[i].scp \cup graph.perm[i].boundary \cup graph.perm[i].deny = {}
  BY DEF Unbound, GrantSet
<1>2. states \subseteq {"PASS"}
  BY <1>1, ResourceGovernanceSays
<1> HIDE DEF states
<1>3. "FAIL" \notin states /\ "UNKNOWN" \notin checks
  BY <1>2 DEF states
<1>4. ResourceVerdict(states, "PASS", checks) = "VALIDATED"
  BY <1>3 DEF ResourceVerdict
<1> QED
  BY <1>4 DEF states

LEMMA SecretFound ==
  ASSUME IInv, graph \in GrantGraphs, "secrets_blast_radius" \in Ran, NEW e \in GrantSet,
         e.action = ReadSecret, e.src \in Principals, e.dst \in Secrets, {e.src, e.dst} \subseteq graph.nodes
  PROVE  /\ Found("secrets_blast_radius", e.src, e.dst) # {}
         /\ /\ Unbound(e.src) /\ Definite(e) /\ e.dst \notin graph.dangling
            /\ graph.keyOf[e.dst] = DefaultKey
            => Validated("secrets_blast_radius", e.src, e.dst)
<1> DEFINE r == "secrets_blast_radius"
<1>1. PICK i \in DOMAIN graph.perm : e = graph.perm[i]
  BY DEF GrantSet
<1> DEFINE f       == SecretFinding(graph, i)
           checks  == SecretGovernance(e) \cup {"PASS", SecretWitnessCheck(e), KeyCheck(graph, e.src, e.dst)}
<1>2. /\ f.by = r /\ f.source = e.src /\ f.target = e.dst
      /\ f.verdict = ResourceVerdict(SecretGovernance(e), KeyCheck(graph, e.src, e.dst), checks)
  BY <1>1 DEF SecretFinding
<1>3. f \in findings
  <2>1. f \in SecretFindings(graph)
    <3> HIDE DEF f
    <3> QED
      BY <1>1 DEF SecretFindings, f
  <2>2. f \in Made(graph, r)
    BY <2>1 DEF Made, PassRoleReasoners, ReadyFor
  <2> QED
    BY <2>2, MadeFound
<1> HIDE DEF f
<1>4. ASSUME Unbound(e.src), Definite(e), e.dst \notin graph.dangling, graph.keyOf[e.dst] = DefaultKey
      PROVE  f.verdict = "VALIDATED"
  <2>1. SecretWitnessCheck(e) = "PASS" /\ KeyCheck(graph, e.src, e.dst) = "PASS"
    BY <1>4, CleanIsDefinite DEF SecretWitnessCheck, KeyCheck
  <2>2. r \in ResourceReasoners /\ ResourceChecks(r, e) = SecretGovernance(e)
    BY DEF ResourceReasoners, ResourceChecks
  <2>3. checks \subseteq {"PASS"} \cup ResourceChecks(r, e)
    BY <2>1, <2>2
  <2> HIDE DEF checks
  <2>4. ResourceVerdict(ResourceChecks(r, e), "PASS", checks) = "VALIDATED"
    BY <1>1, <1>4, <2>2, <2>3, NothingBound
  <2> QED
    BY <1>2, <2>1, <2>2, <2>4
<1> QED
  BY <1>2, <1>3, <1>4 DEF Found, Validated

\* What a grant that may mean a target is to the enumeration of targets.
LEMMA TargetSeen ==
  ASSUME graph \in GrantGraphs, NEW p, NEW action, NEW t, GrantsTo(p, action, t) # {}
  PROVE  \/ CleanFor(graph, p, action, t) # {}
         \/ \E i \in SourceGrants(graph, p, action) : UnknownWitness(graph.perm[i])
<1>1. PICK i \in DOMAIN graph.perm : graph.perm[i] \in GrantsTo(p, action, t)
  BY DEF GrantsTo, Granted, GrantSet
<1>2. i \in SourceGrants(graph, p, action) /\ graph.perm[i].dst \in {t, HyperNode}
  BY <1>1 DEF GrantsTo, Granted, SourceGrants
<1>3. CASE UnknownWitness(graph.perm[i])
  BY <1>2, <1>3
<1>4. CASE ~ UnknownWitness(graph.perm[i])
  <2>1. i \in CleanFor(graph, p, action, t)
    BY <1>2, <1>4 DEF CleanFor, Clean, UnknownWitness
  <2> QED
    BY <2>1
<1> QED
  BY <1>3, <1>4

LEMMA JoinFound ==
  ASSUME IInv, graph \in GrantGraphs, "iam_group_membership_escalation" \in Ran,
         NEW p \in Users \cap graph.nodes, NEW t \in Groups \cap graph.nodes,
         AdminEquivalent(graph, t), GrantsTo(p, JoinGroup, t) # {}
  PROVE  /\ Found("iam_group_membership_escalation", p, t) # {}
         /\ Unbound(p) /\ Definitely(p, JoinGroup, t)
            => Validated("iam_group_membership_escalation", p, t)
<1> DEFINE r       == "iam_group_membership_escalation"
           f       == JoinFinding(graph, p, t)
           i       == TargetWitness(graph, p, JoinGroup, t, DoubtfulJoins(graph, p))
           checks  == JoinGovernance(graph.perm[i]) \cup {"PASS", JoinWitnessCheck(graph, p, t)}
           clean   == CleanFor(graph, p, JoinGroup, t)
<1>1. clean # {} \/ DoubtfulJoins(graph, p) # {}
  BY TargetSeen DEF DoubtfulJoins
<1>2. /\ f.by = r /\ f.source = p /\ f.target = t
      /\ f.verdict = ResourceVerdict(JoinGovernance(graph.perm[i]), "PASS", checks)
  BY DEF JoinFinding
<1>3. f \in findings
  <2>1. f \in JoinFindings(graph)
    <3>1. <<p, t>> \in (Users \cap graph.nodes) \X (Groups \cap graph.nodes) /\ t \in JoinTargets(graph, p)
      BY <1>1 DEF JoinTargets
    <3> HIDE DEF f
    <3> QED
      BY <3>1 DEF JoinFindings, f
  <2>2. f \in Made(graph, r)
    BY <2>1 DEF Made, PassRoleReasoners, ReadyFor
  <2> QED
    BY <2>2, MadeFound
<1>4. /\ i \in DOMAIN graph.perm /\ graph.perm[i].src = p
      /\ clean # {} <=> Definitely(p, JoinGroup, t)
  <2>1. DoubtfulJoins(graph, p) \in SUBSET SourceGrants(graph, p, JoinGroup)
    BY DEF DoubtfulJoins
  <2> QED
    BY <1>1, <2>1, TargetWitnessSays
<1>5. ASSUME Unbound(p), Definitely(p, JoinGroup, t) PROVE f.verdict = "VALIDATED"
  <2>1. JoinWitnessCheck(graph, p, t) = "PASS"
    BY <1>4, <1>5 DEF JoinWitnessCheck
  <2>2. r \in ResourceReasoners /\ ResourceChecks(r, graph.perm[i]) = JoinGovernance(graph.perm[i])
    BY DEF ResourceReasoners, ResourceChecks, SecretGovernance, JoinGovernance
  <2>3. checks \subseteq {"PASS"} \cup ResourceChecks(r, graph.perm[i])
    BY <2>1, <2>2
  <2> HIDE DEF checks, i, f
  <2>4. ResourceVerdict(ResourceChecks(r, graph.perm[i]), "PASS", checks) = "VALIDATED"
    BY <1>4, <1>5, <2>2, <2>3, NothingBound
  <2> QED
    BY <1>2, <2>2, <2>4
<1> HIDE DEF f
<1> QED
  BY <1>2, <1>3, <1>5 DEF Found, Validated

LEMMA PutFound ==
  ASSUME IInv, graph \in GrantGraphs, "s3_bucket_takeover" \in Ran,
         NEW p \in Principals \cap graph.nodes, NEW t \in Buckets \cap graph.nodes,
         Actionable(p), GrantsTo(p, PutPolicy, t) # {}
  PROVE  /\ Found("s3_bucket_takeover", p, t) # {}
         /\ Unbound(p) /\ Definitely(p, PutPolicy, t) /\ t \notin graph.dangling
            => Validated("s3_bucket_takeover", p, t)
<1> DEFINE r       == "s3_bucket_takeover"
           f       == PutFinding(graph, p, t)
           i       == TargetWitness(graph, p, PutPolicy, t, DoubtfulPuts(graph, p))
           checks  == PutGovernance(graph.perm[i]) \cup {"PASS"}
                        \cup (IF PutDoubtful(graph, p, t) THEN {"UNKNOWN"} ELSE {})
           clean   == CleanFor(graph, p, PutPolicy, t)
<1>1. clean # {} \/ DoubtfulPuts(graph, p) # {}
  BY TargetSeen DEF DoubtfulPuts
<1>2. /\ f.by = r /\ f.source = p /\ f.target = t
      /\ f.verdict = ResourceVerdict(PutGovernance(graph.perm[i]), "PASS", checks)
  BY DEF PutFinding
<1>3. f \in findings
  <2>1. f \in PutFindings(graph)
    <3>1. <<p, t>> \in (Principals \cap graph.nodes) \X (Buckets \cap graph.nodes) /\ t \in PutTargets(graph, p)
      BY <1>1 DEF PutTargets
    <3> HIDE DEF f
    <3> QED
      BY <3>1 DEF PutFindings, f
  <2>2. f \in Made(graph, r)
    BY <2>1 DEF Made, PassRoleReasoners, ReadyFor
  <2> QED
    BY <2>2, MadeFound
<1>4. /\ i \in DOMAIN graph.perm /\ graph.perm[i].src = p
      /\ clean # {} <=> Definitely(p, PutPolicy, t)
  <2>1. DoubtfulPuts(graph, p) \in SUBSET SourceGrants(graph, p, PutPolicy)
    BY DEF DoubtfulPuts
  <2> QED
    BY <1>1, <2>1, TargetWitnessSays
<1>5. ASSUME Unbound(p), Definitely(p, PutPolicy, t), t \notin graph.dangling
      PROVE  f.verdict = "VALIDATED"
  <2>1. ~ PutDoubtful(graph, p, t)
    BY <1>4, <1>5 DEF PutDoubtful
  <2>2. r \in ResourceReasoners /\ ResourceChecks(r, graph.perm[i]) = PutGovernance(graph.perm[i])
    BY DEF ResourceReasoners, ResourceChecks
  <2>3. checks \subseteq {"PASS"} \cup ResourceChecks(r, graph.perm[i])
    BY <2>1, <2>2
  <2> HIDE DEF checks, i, f
  <2>4. ResourceVerdict(ResourceChecks(r, graph.perm[i]), "PASS", checks) = "VALIDATED"
    BY <1>4, <1>5, <2>2, <2>3, NothingBound
  <2> QED
    BY <1>2, <2>2, <2>4
<1> HIDE DEF f
<1> QED
  BY <1>2, <1>3, <1>5 DEF Found, Validated

\* Who is not actionable has no finding about a bucket, from any reasoner.
LEMMA InfrastructureSpared ==
  ASSUME IInv, graph \in GrantGraphs, NEW p, ~ Actionable(p), NEW t
  PROVE  Found("s3_bucket_takeover", p, t) = {}
<1>1. graph \in Graphs /\ WellGoverned(graph) /\ Ran \subseteq Reasoners
  BY GrantInputs DEF IInv, Ran
<1> SUFFICES ASSUME NEW f \in findings, f.by = "s3_bucket_takeover", f.source = p
             PROVE  FALSE
  BY DEF Found
<1>2. PICK r \in Ran : f \in Made(graph, r)
  BY DEF IInv
<1>3. CASE r \in PassRoleReasoners
  <2>1. f \in PassRoleFindings(graph, r)
    BY <1>2, <1>3 DEF Made, PassRoleReasoners
  <2>2. f.by = r
    BY <1>1, <1>3, <2>1, PassRoleSound
  <2> QED
    BY <1>3, <2>2 DEF PassRoleReasoners
<1>4. CASE r = "secrets_blast_radius"
  BY <1>1, <1>2, <1>4, SecretSound DEF Made, PassRoleReasoners
<1>5. CASE r = "iam_group_membership_escalation"
  BY <1>1, <1>2, <1>5, JoinSound DEF Made, PassRoleReasoners
<1>6. CASE r = "s3_bucket_takeover"
  <2>1. f \in PutFindings(graph)
    BY <1>2, <1>6 DEF Made, PassRoleReasoners
  <2>2. PICK q, b : f = PutFinding(graph, q, b) /\ Actionable(q)
    BY <2>1 DEF PutFindings
  <2>3. f.source = q
    BY <2>2 DEF PutFinding
  <2> QED
    BY <2>2, <2>3
<1> QED
  BY <1>1, <1>3, <1>4, <1>5, <1>6 DEF Reasoners

LEMMA ResourcesComplete ==
  ASSUME IInv, graph \in GrantGraphs PROVE ResourcesLookedAt /\ ProvenResourcesValidated
<1>1. ResourcesLookedAt
  BY SecretFound, JoinFound, PutFound, InfrastructureSpared DEF ResourcesLookedAt
<1>2. ASSUME NEW p \in Principals \cap graph.nodes, Unbound(p), "secrets_blast_radius" \in Ran,
             NEW s \in Secrets \cap (graph.nodes \ graph.dangling),
             Definitely(p, ReadSecret, s), graph.keyOf[s] = DefaultKey
      PROVE  Validated("secrets_blast_radius", p, s)
  <2>1. PICK e \in Granted(p, ReadSecret) : Definite(e) /\ e.dst = s
    BY <1>2 DEF Definitely
  <2>2. e \in GrantSet /\ e.src = p /\ e.action = ReadSecret
    BY DEF Granted
  <2> QED
    BY <1>2, <2>1, <2>2, SecretFound
<1>3. ASSUME NEW p, NEW action, NEW t, Definitely(p, action, t)
      PROVE  GrantsTo(p, action, t) # {}
  BY <1>3 DEF Definitely, GrantsTo
<1>4. ASSUME NEW p \in Principals \cap graph.nodes, Unbound(p),
             "iam_group_membership_escalation" \in Ran, NEW g \in Groups \cap graph.nodes,
             p \in Users, AdminEquivalent(graph, g), Definitely(p, JoinGroup, g)
      PROVE  Validated("iam_group_membership_escalation", p, g)
  BY <1>3, <1>4, JoinFound
<1>5. ASSUME NEW p \in Principals \cap graph.nodes, Unbound(p), "s3_bucket_takeover" \in Ran,
             NEW b \in Buckets \cap (graph.nodes \ graph.dangling), Actionable(p),
             Definitely(p, PutPolicy, b)
      PROVE  Validated("s3_bucket_takeover", p, b)
  BY <1>3, <1>5, PutFound
<1> QED
  BY <1>1, <1>2, <1>4, <1>5 DEF ProvenResourcesValidated

-----------------------------------------------------------------------------
(***************************************************************************)
(* The run.                                                                *)
(***************************************************************************)
\* Whatever a reasoner makes of a graph it may be run on is sound.
LEMMA MadeSound ==
  ASSUME graph \in Graphs, NEW r \in Reasoners, NEW f \in Made(graph, r) PROVE Sound(f)
<1>1. graph \in GrantGraphs /\ WellGoverned(graph)
  BY GrantInputs
<1>2. CASE r \in PassRoleReasoners
  <2>1. Made(graph, r) = IF PassRoleReady(graph) THEN PassRoleFindings(graph, r) ELSE {}
    BY <1>2 DEF Made, PassRoleReasoners
  <2> QED
    BY <1>1, <1>2, <2>1, PassRoleSound
<1>3. CASE r = "secrets_blast_radius"
  BY <1>1, <1>3, SecretSound DEF Made, PassRoleReasoners
<1>4. CASE r = "iam_group_membership_escalation"
  BY <1>1, <1>4, JoinSound DEF Made, PassRoleReasoners
<1>5. CASE r = "s3_bucket_takeover"
  BY <1>1, <1>5, PutSound DEF Made, PassRoleReasoners
<1> QED
  BY <1>2, <1>3, <1>4, <1>5 DEF Reasoners

\* Every finding of the run is sound.
LEMMA FindingsSound ==
  ASSUME IInv PROVE \A f \in findings : Sound(f)
<1>1. Ran \subseteq Reasoners
  BY GrantInputs DEF IInv, Ran
<1> QED
  BY <1>1, MadeSound DEF IInv

\* A reasoner's turn adds what it makes of the graph.
LEMMA TurnSafe ==
  ASSUME IInv, NEW r \in Reasoners, Turn(r, Made(graph, r)) PROVE IInv'
<1>1. graph \in Graphs /\ selection \in Seq(Reasoners) /\ selection \in Selections /\ turn \in DOMAIN selection
      /\ turn \in Nat /\ selection[turn] = r /\ graph' = graph /\ selection' = selection
  BY GrantInputs DEF IInv, Turn
<1>2. \A f \in Made(graph, r) : FindingAccepted(f)
  BY <1>1, MadeSound DEF Sound
<1>3. findings' = findings \cup Made(graph, r) /\ turn' = turn + 1 /\ aborted' = FALSE
  BY <1>2 DEF Turn
<1>4. Ran' = Ran \cup {r}
  <2>1. {j \in DOMAIN selection : j < turn + 1} = {j \in DOMAIN selection : j < turn} \cup {turn}
    BY <1>1
  <2> QED
    BY <1>1, <1>3, <2>1 DEF Ran
<1>5. turn' \in 1 .. Len(selection') + 1
  BY <1>1, <1>3
<1>6. findings' = UNION {Made(graph', q) : q \in Ran'}
  BY <1>1, <1>3, <1>4 DEF IInv
<1> QED
  BY <1>1, <1>3, <1>5, <1>6 DEF IInv

LEMMA Initially ==
  ASSUME Init PROVE IInv
<1>1. graph \in Graphs /\ selection \in Selections /\ selection \in Seq(Reasoners)
      /\ turn = 1 /\ findings = {} /\ aborted = FALSE
  BY GrantInputs DEF Init
<1>2. Ran = {}
  BY <1>1 DEF Ran
<1>3. turn \in 1 .. Len(selection) + 1
  BY <1>1
<1> QED
  BY <1>1, <1>2, <1>3 DEF IInv

LEMMA StepSafe ==
  ASSUME IInv, [Next]_vars PROVE IInv'
<1>1. CASE RunPassRole
  <2>1. PICK r \in PassRoleReasoners :
          Turn(r, IF PassRoleReady(graph) THEN PassRoleFindings(graph, r) ELSE {})
    BY <1>1 DEF RunPassRole
  <2>2. Turn(r, Made(graph, r)) /\ r \in Reasoners
    BY <2>1 DEF Made, Reasoners, PassRoleReasoners
  <2> QED
    BY <2>2, TurnSafe
<1>2. CASE RunSecrets
  <2>1. Turn("secrets_blast_radius", Made(graph, "secrets_blast_radius"))
    BY <1>2 DEF RunSecrets, IfReady, Made, PassRoleReasoners
  <2> QED
    BY <2>1, TurnSafe DEF Reasoners
<1>3. CASE RunJoins
  <2>1. Turn("iam_group_membership_escalation", Made(graph, "iam_group_membership_escalation"))
    BY <1>3 DEF RunJoins, IfReady, Made, PassRoleReasoners
  <2> QED
    BY <2>1, TurnSafe DEF Reasoners
<1>4. CASE RunPuts
  <2>1. Turn("s3_bucket_takeover", Made(graph, "s3_bucket_takeover"))
    BY <1>4 DEF RunPuts, IfReady, Made, PassRoleReasoners
  <2> QED
    BY <2>1, TurnSafe DEF Reasoners
<1>5. CASE UNCHANGED vars
  BY <1>5 DEF IInv, Ran, Made, vars
<1> QED
  BY <1>1, <1>2, <1>3, <1>4, <1>5 DEF Next

\* The findings of a run are exactly what the reasoners that had their turn
\* make of the graph.
THEOREM Invariance == Spec => []IInv
<1>1. Init => IInv
  BY Initially
<1>2. IInv /\ [Next]_vars => IInv'
  BY StepSafe
<1> QED
  BY <1>1, <1>2, PTL DEF Spec

\* What run_all returns is a list of well-formed findings, and no reasoner
\* makes one that the Finding constructor refuses, whatever is bound to the
\* grants.
THEOREM RunsThroughAlways == Spec => []RunsThrough
<1>1. IInv => RunsThrough
  <2>1. IInv => findings \subseteq GrantFinding
    BY FindingsSound DEF Sound
  <2>2. IInv => graph \in GrantGraphs
    BY GrantInputs DEF IInv
  <2> QED
    BY <2>1, <2>2 DEF IInv, RunsThrough, TypeOK, NeverRefused
<1> QED
  BY <1>1, Invariance, PTL

\* A validated finding rests on a definite grant on every link of a chain, or
\* on a collected resource whose key decrypts however the doubtful statements
\* of its policy are read, that no binding the reasoner looks at blocks.
THEOREM ValidatedIsProven == Spec => []ValidatedProven
<1>1. IInv => ValidatedProven
  BY FindingsSound DEF ValidatedProven, Sound, Proven
<1> QED
  BY <1>1, Invariance, PTL

\* Each chain and each resource a grant may lead to has a finding, and each
\* that is there for sure has a validated one; about a bucket, account roots
\* and AWS services have none, and everybody else has.
THEOREM NothingIsMissed == Spec => []NothingMissed
<1>1. IInv => NothingMissed
  <2>1. IInv => graph \in GrantGraphs
    BY GrantInputs DEF IInv
  <2> QED
    BY <2>1, ChainsComplete, ResourcesComplete DEF NothingMissed
<1> QED
  BY <1>1, Invariance, PTL

\* A blocked finding cites a grant that is blocked for sure, and no definite
\* grant on the same target is open beside it.
THEOREM BlocksAreJust == Spec => []BlockedIsJust
<1>1. IInv => BlockedIsJust
  BY FindingsSound DEF BlockedIsJust, Sound, JustBlock
<1> QED
  BY <1>1, Invariance, PTL

\* A precondition-only finding rests on a gate that is shut on every reading
\* of the key policy or of the conditions of the grant.
THEOREM GatesStayShut == Spec => []GatesAreShut
<1>1. IInv => GatesAreShut
  BY FindingsSound DEF GatesAreShut, Sound
<1> QED
  BY <1>1, Invariance, PTL
=============================================================================
