-------------------------- MODULE AssumeRoleChain --------------------------
(***************************************************************************)
(* The assume_role_chain reasoner: from every principal that may call      *)
(* sts:AssumeRole, a breadth-first walk over hops that have both a         *)
(* permission edge and an admitting trust edge; each admin-equivalent role *)
(* met two to four hops away gives one finding, whose verdict comes from   *)
(* the checks over the chain that reached it and from the probe overlay.   *)
(*                                                                         *)
(* One step is one iteration of a loop of run(): choosing the next source, *)
(* popping the frontier, trying one permission edge.                       *)
(***************************************************************************)
EXTENDS WalkInputs

VARIABLES
  facts,            \* the graph under analysis, never written
  waiting,          \* starting principals not walked yet
  source,           \* the principal the current walk starts from
  frontier,         \* the deque of (current_arn, chain)
  visited,          \* principals ever put on this walk's frontier
  here,             \* the entry popped last
  todo,             \* its permission edges not tried yet
  seen,             \* seen_endpoints
  findings,
  phase             \* where run() is

walk == <<frontier, visited, here, todo>>
vars == <<facts, waiting, source, walk, seen, findings, phase>>

Entry == [at : Principals, chain : Seq(Hop)]

-----------------------------------------------------------------------------
(***************************************************************************)
(* _build_finding: the checks over the chain's hops. Checks 1 to 3 pass by *)
(* the time it is called; the five below can each PASS, FAIL or be UNKNOWN.*)
(***************************************************************************)
PermOf(G, chain) == PermsOf(G, HopsOf(chain))

TrustOf(G, chain) == TrustsOf(G, HopsOf(chain))

PermissionScpCheck(G, chain) ==
  AndTristateMany({BlockerState(e.scp) : e \in PermOf(G, chain)})

ScpCheck(G, chain) ==
  AndTristateMany({BlockerState(e.scp) : e \in PermOf(G, chain)} \cup
                  {BlockerState(e.scp) : e \in TrustOf(G, chain)})

BoundaryCheck(G, target, chain) ==
  AndTristateMany({BlockerState(e.boundary) : e \in PermOf(G, chain)} \cup
                  {BlockerState(G.admin[target].boundary)})

DenyCheck(G, chain) == AndTristateMany({BlockerState(e.deny) : e \in PermOf(G, chain)})

DriftCheck(G, chain) == AndTristateMany({BlockerState(e.drift) : e \in TrustOf(G, chain)})

CleanHopCheck(G, chain) ==
  IF \/ \E e \in PermOf(G, chain) : UnknownPermission(e)
     \/ \E e \in TrustOf(G, chain) : UnknownTrust(e)
    THEN "UNKNOWN" ELSE "PASS"

GovernanceKinds == {"scp", "permission_boundary", "identity_deny", "stale_principal_drift"}

ChainChecks(G, target, chain) ==
  [kind \in GovernanceKinds \cup {"clean_hops"} |->
     CASE kind = "scp"                   -> ScpCheck(G, chain)
       [] kind = "permission_boundary"   -> BoundaryCheck(G, target, chain)
       [] kind = "identity_deny"         -> DenyCheck(G, chain)
       [] kind = "stale_principal_drift" -> DriftCheck(G, chain)
       [] kind = "clean_hops"            -> CleanHopCheck(G, chain)]

(***************************************************************************)
(* _compute_verdict_and_severity: a failed governance check blocks; then   *)
(* any UNKNOWN makes the chain inconclusive; otherwise it is validated,    *)
(* and critical from four hops on.                                         *)
(***************************************************************************)
ComputeVerdict(checks) ==
  CASE \E kind \in GovernanceKinds : checks[kind] = "FAIL" -> "BLOCKED"
    [] /\ \A kind \in GovernanceKinds : checks[kind] # "FAIL"
       /\ \E kind \in DOMAIN checks : checks[kind] = "UNKNOWN" -> "INCONCLUSIVE"
    [] OTHER -> "VALIDATED"

ComputeSeverity(verdict, length) ==
  CASE verdict = "BLOCKED"                     -> "info"
    [] verdict = "INCONCLUSIVE"                -> "high"
    [] verdict = "VALIDATED" /\ length >= 4    -> "critical"
    [] verdict = "VALIDATED" /\ length < 4     -> "high"

ChainProbes(G, chain) ==
  (UNION {LatestProbe(e) : e \in PermOf(G, chain)}) \cup
  (UNION {LatestProbe(e) : e \in TrustOf(G, chain)})

SoftenedOnly(verdict, overlay) ==
  IF overlay.override = "INCONCLUSIVE" THEN overlay.override ELSE verdict

OverlaidVerdict(verdict, overlay) ==
  IF overlay.override = "none" THEN verdict ELSE overlay.override

(***************************************************************************)
(* The finding: the verdict after the probe overlay, the states of all     *)
(* checks (1 to 3 are PASS), and the kinds of the blockers observed.       *)
(***************************************************************************)
BuildFinding(G, start, target, chain) ==
  LET checks  == ChainChecks(G, target, chain)
      overlay == AssessProbeOverlay(ChainProbes(G, chain))
      verdict == OverlaidVerdict(ComputeVerdict(checks), overlay)
  IN  [source   |-> start,
       target   |-> target,
       chain    |-> chain,
       verdict  |-> verdict,
       severity |-> ComputeSeverity(verdict, Len(chain)),
       checks   |-> {"PASS"} \cup {checks[kind] : kind \in DOMAIN checks} \cup
                    ({overlay.check} \ {"none"}),
       blockers |-> {kind \in GovernanceKinds : checks[kind] = "FAIL"} \cup
                    (IF overlay.blocker THEN {"probe_overlay"} ELSE {})]

-----------------------------------------------------------------------------
(***************************************************************************)
(* The deque, and the two questions the walk asks of the graph about the   *)
(* entry it popped.                                                        *)
(***************************************************************************)
PushedLeft(entry) == <<entry>> \o frontier
Enqueued(entry) == Append(frontier, entry)

Peeked == frontier
Dequeued == Tail(frontier)

AdmittingSource(next) == AdmittingTrustEdges(facts, source, next)
AdmittingHere(next) == AdmittingTrustEdges(facts, here.at, next)

-----------------------------------------------------------------------------
Init ==
  /\ facts \in Graphs
  /\ waiting = {p \in Principals : HasAssumeRole(facts, p) # "FAIL"}
  /\ source = CHOOSE p \in Principals : TRUE
  /\ frontier = <<>> /\ visited = {} /\ todo = {}
  /\ here = [at |-> source, chain |-> <<>>]
  /\ seen = {} /\ findings = {}
  /\ phase = "choose"

ChooseSource(p) ==
  /\ phase = "choose"
  /\ p \in waiting /\ \A q \in waiting : NodeOrder[p] <= NodeOrder[q]
  /\ waiting' = waiting \ {p}
  /\ source' = p
  /\ frontier' = << [at |-> p, chain |-> <<>>] >>
  /\ visited' = {p}
  /\ phase' = "pop"
  /\ UNCHANGED <<facts, here, todo, seen, findings>>

(***************************************************************************)
(* The popped role is reported if it is admin-equivalent, far enough and   *)
(* not reported yet for this source; deeper hops are tried below MaxDepth. *)
(***************************************************************************)
Reportable(entry) ==
  /\ Len(entry.chain) >= MinChain
  /\ IsAdmin(facts, entry.at)
  /\ <<source, entry.at>> \notin seen

Report(entry) ==
  IF Reportable(entry)
    THEN /\ seen' = seen \cup {<<source, entry.at>>}
         /\ findings' = findings \cup {BuildFinding(facts, source, entry.at, entry.chain)}
    ELSE UNCHANGED <<seen, findings>>

Pop ==
  /\ phase = "pop" /\ frontier # <<>>
  /\ LET entry == Head(frontier)
     IN  /\ here' = entry
         /\ Report(entry)
         /\ IF Len(entry.chain) >= MaxDepth
              THEN todo' = {} /\ phase' = "pop"
              ELSE todo' = PermissionEdgesFrom(facts, entry.at) /\ phase' = "walk"
  /\ frontier' = Dequeued
  /\ UNCHANGED <<facts, waiting, source, visited>>

WalkDone ==
  /\ phase = "pop" /\ frontier = <<>>
  /\ phase' = "choose"
  /\ UNCHANGED <<facts, waiting, source, walk, seen, findings>>

(***************************************************************************)
(* One permission edge i of the popped principal: skipped when it leads to *)
(* a visited node or no trust edge admits the principal; otherwise the hop *)
(* is taken with the first admitting trust edge j.                         *)
(***************************************************************************)
SkipEdge(i) ==
  /\ phase = "walk" /\ IsFirst(i, todo)
  /\ LET next == facts.perm[i].dst
     IN  next \in visited \/ AdmittingHere(next) = {}
  /\ todo' = todo \ {i}
  /\ UNCHANGED <<facts, waiting, source, frontier, visited, here, seen, findings, phase>>

TakeHop(i, j) ==
  /\ phase = "walk" /\ IsFirst(i, todo)
  /\ LET next == facts.perm[i].dst
     IN  /\ next \notin visited
         /\ IsFirst(j, AdmittingHere(next))
         /\ visited' = visited \cup {next}
         /\ frontier' = Enqueued(
              [at |-> next, chain |-> Append(here.chain, [perm |-> i, trust |-> j])])
  /\ todo' = todo \ {i}
  /\ UNCHANGED <<facts, waiting, source, here, seen, findings, phase>>

EdgesDone ==
  /\ phase = "walk" /\ todo = {}
  /\ phase' = "pop"
  /\ UNCHANGED <<facts, waiting, source, walk, seen, findings>>

Finish ==
  /\ phase = "choose" /\ waiting = {}
  /\ phase' = "done"
  /\ UNCHANGED <<facts, waiting, source, walk, seen, findings>>

Terminated == phase = "done" /\ UNCHANGED vars

Next ==
  \/ \E p \in waiting : ChooseSource(p)
  \/ Pop
  \/ WalkDone
  \/ \E i \in todo : SkipEdge(i)
  \/ \E i \in todo, j \in DOMAIN facts.trust : TakeHop(i, j)
  \/ EdgesDone
  \/ Finish
  \/ Terminated

Spec == Init /\ [][Next]_vars /\ WF_vars(Next)

-----------------------------------------------------------------------------
TypeOK ==
  /\ facts \in FactGraphs
  /\ waiting \subseteq Principals
  /\ source \in Principals
  /\ frontier \in Seq(Entry)
  /\ visited \subseteq Principals
  /\ here \in Entry
  /\ todo \subseteq DOMAIN facts.perm
  /\ seen \subseteq Principals \X Roles
  /\ phase \in {"choose", "pop", "walk", "done"}

(***************************************************************************)
(* The principals a chain passes through: stop 0 is its source.            *)
(***************************************************************************)
Stop(G, start, chain, k) == IF k = 0 THEN start ELSE G.perm[chain[k].perm].dst

(***************************************************************************)
(* A chain from start is authorized when each hop leaves the principal the *)
(* previous one arrived at, by a permission edge of that principal and a   *)
(* trust edge that admits it, and simple when it never meets a principal   *)
(* twice.                                                                  *)
(***************************************************************************)
Authorized(G, start, chain) ==
  \A k \in DOMAIN chain :
    LET from == Stop(G, start, chain, k - 1)
        to   == Stop(G, start, chain, k)
    IN  /\ chain[k].perm \in PermissionEdgesFrom(G, from)
        /\ chain[k].trust \in AdmittingTrustEdges(G, from, to)

Simple(G, start, chain) ==
  \A k, l \in 0 .. Len(chain) :
    Stop(G, start, chain, k) = Stop(G, start, chain, l) => k = l

(***************************************************************************)
(* Every chain a finding cites is real: from its source to its target,     *)
(* authorized hop by hop, without cycles, within the length limits, and    *)
(* ending in an admin-equivalent role. The claim of the module docstring,  *)
(* which _build_finding's check 3 takes for granted ("by construction").   *)
(***************************************************************************)
ChainsAuthorized ==
  \A f \in findings :
    /\ Authorized(facts, f.source, f.chain)
    /\ Simple(facts, f.source, f.chain)
    /\ Len(f.chain) \in MinChain .. MaxDepth
    /\ Stop(facts, f.source, f.chain, Len(f.chain)) = f.target
    /\ IsAdmin(facts, f.target)

(***************************************************************************)
(* No finding the reasoner assembles trips the invariants that             *)
(* Finding.__post_init__ enforces: one that did would abort the whole run  *)
(* and lose every other reasoner's findings. The verdict, the checks and   *)
(* the blockers are computed apart, twice over once a probe overlay        *)
(* overrides the verdict.                                                  *)
(***************************************************************************)
FindingsAccepted == \A f \in findings : FindingAccepted(f)

(***************************************************************************)
(* The walk is breadth first: the frontier holds chains of at most two     *)
(* consecutive lengths, shorter first, none longer than MaxDepth, and no   *)
(* principal twice. This is what makes "one finding per pair" the          *)
(* shortest chain, and what bounds the work of a walk.                     *)
(***************************************************************************)
BreadthFirst ==
  /\ \A i, j \in DOMAIN frontier :
       /\ i < j => Len(frontier[i].chain) <= Len(frontier[j].chain)
       /\ Len(frontier[j].chain) <= Len(frontier[i].chain) + 1
       /\ Len(frontier[i].chain) <= MaxDepth
       /\ frontier[i].at = frontier[j].at => i = j
  /\ \A i \in DOMAIN frontier : frontier[i].at \in visited

-----------------------------------------------------------------------------
(***************************************************************************)
(* The walk implements the promise of AdminChains: shortest distances,     *)
(* nothing missed, nothing invented, one finding per pair, and every       *)
(* verdict justified by some shortest chain.                               *)
(***************************************************************************)
Promise ==
  INSTANCE AdminChains WITH
    reported <- {[source |-> f.source, target |-> f.target,
                  length |-> Len(f.chain), verdict |-> f.verdict] : f \in findings},
    finished <- phase = "done"

KeepsPromise == Promise!Spec
=============================================================================
