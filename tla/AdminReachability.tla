------------------------- MODULE AdminReachability -------------------------
(***************************************************************************)
(* The admin_reachability reasoner: from every principal that may call     *)
(* sts:AssumeRole, a breadth-first walk that collects the set of           *)
(* admin-equivalent roles within MaxDepth hops and gives one finding per   *)
(* principal that reaches any.                                             *)
(*                                                                         *)
(* The walk visits a role at most twice, once over clean hops only and     *)
(* once over a path with a doubtful hop, so that a wildcard branch does    *)
(* not spoil a clean proof. One step is one iteration of a loop.           *)
(***************************************************************************)
EXTENDS WalkInputs, FiniteSets

CONSTANT ArnOrder   \* the rank of each principal's ARN in string order

ASSUME ReachBounds ==
  /\ IsFiniteSet(Principals)
  /\ ArnOrder \in [Principals -> Nat]
  /\ \A p, q \in Principals : ArnOrder[p] = ArnOrder[q] => p = q

VARIABLES
  facts,            \* the graph under analysis, never written
  waiting,          \* starting principals not walked yet
  source,           \* the principal the current walk starts from
  frontier,         \* the deque of (current_arn, path_is_clean, path_edges)
  visited,          \* the (arn, path_is_clean) keys ever put on the frontier
  here,             \* the entry popped last
  todo,             \* its permission edges not tried yet
  found,            \* what this walk has collected so far
  findings,
  phase             \* where run() is

walk == <<frontier, visited, here, todo, found>>
vars == <<facts, waiting, source, walk, findings, phase>>

(***************************************************************************)
(* depth is the length of the path: both grow by one per hop.              *)
(***************************************************************************)
Entry == [at : Principals, clean : BOOLEAN, path : Seq(Hop)]

Collected ==
  [walked : SUBSET Hop,          \* all_walk_edges, pairwise
   admins : SUBSET Roles,        \* reachable_admins
   proven : SUBSET Roles,        \* clean_reachable_admins
   proof : SUBSET Hop,           \* clean_proof_walk_edges, pairwise
   hitLimit : BOOLEAN]           \* walk_hit_depth_limit

NothingYet ==
  [walked |-> {}, admins |-> {}, proven |-> {}, proof |-> {}, hitLimit |-> FALSE]

-----------------------------------------------------------------------------
(***************************************************************************)
(* _is_clean_assumerole_trust_witness: a sts:AssumeRole trust that names p *)
(* without conditions, or an account-root trust whose conditions narrow    *)
(* that root to the role p. An unconditioned root trust is not clean.      *)
(***************************************************************************)
CleanTrust(e, p) ==
  /\ e.action = AssumeRole
  /\ \/ ~ e.ambiguous /\ e.src = p
     \/ /\ e.ambiguous
        /\ e.src \in Accounts /\ e.src = AccountOf[p]
        /\ p \in Roles /\ p \in e.pinned

CleanHop(G, p, i, j) == ~ UnknownPermission(G.perm[i]) /\ CleanTrust(G.trust[j], p)

(***************************************************************************)
(* _build_finding: checks 1 and 2 pass whenever an admin was reached; an   *)
(* SCP or boundary check is added when it has a binding to look at, over   *)
(* the clean proof if there is one and else over all that was walked.      *)
(***************************************************************************)
AllHops(acc) == acc.walked
CheckedHops(acc) == IF acc.proven # {} THEN acc.proof ELSE acc.walked

CheckedAdmins(acc) == IF acc.proven # {} THEN acc.proven ELSE acc.admins

CleanWitnessCheck(acc) == IF acc.proven # {} THEN "PASS" ELSE "UNKNOWN"

DepthUnchecked(acc) == "PASS"
DepthCheck(acc) == IF acc.hitLimit THEN "UNKNOWN" ELSE "PASS"

PermissionScpCheck(G, acc) ==
  BlockerState(UNION {e.scp : e \in PermsOf(G, CheckedHops(acc))})

WalkScpCheck(G, acc) ==
  BlockerState(UNION {e.scp : e \in TrustsOf(G, CheckedHops(acc))})

WalkBoundaryCheck(G, acc) ==
  BlockerState((UNION {e.boundary : e \in PermsOf(G, CheckedHops(acc))}) \cup
               (UNION {G.admin[r].boundary : r \in CheckedAdmins(acc)}))

ReachChecks(G, acc) ==
  [scp           |-> WalkScpCheck(G, acc), boundary |-> WalkBoundaryCheck(G, acc),
   clean_witness |-> CleanWitnessCheck(acc), depth  |-> DepthCheck(acc)]

ReachVerdict(checks) ==
  CASE checks.scp = "FAIL" \/ checks.boundary = "FAIL" -> "BLOCKED"
    [] /\ checks.scp # "FAIL" /\ checks.boundary # "FAIL"
       /\ \E c \in DOMAIN checks : checks[c] = "UNKNOWN" -> "INCONCLUSIVE"
    [] OTHER -> "VALIDATED"

ReachSeverity(verdict, admins) ==
  CASE verdict = "BLOCKED"                             -> "info"
    [] verdict # "BLOCKED" /\ Cardinality(admins) >= 2 -> "critical"
    [] OTHER                                           -> "high"

FirstByArn(S) == CHOOSE r \in S : \A q \in S : ArnOrder[r] <= ArnOrder[q]

ReachFinding(G, start, acc) ==
  LET checks  == ReachChecks(G, acc)
      verdict == ReachVerdict(checks)
  IN  [source   |-> start,
       target   |-> FirstByArn(acc.admins),
       admins   |-> acc.admins,
       proven   |-> acc.proven,
       walked   |-> acc.walked,
       proof    |-> acc.proof,
       verdict  |-> verdict,
       severity |-> ReachSeverity(verdict, acc.admins),
       checks   |-> {"PASS"} \cup {checks[c] : c \in DOMAIN checks},
       blockers |-> (IF checks.scp = "FAIL" THEN {"scp"} ELSE {}) \cup
                    (IF checks.boundary = "FAIL" THEN {"permission_boundary"} ELSE {})]

-----------------------------------------------------------------------------
Init ==
  /\ facts \in Graphs
  /\ waiting = {p \in Principals : HasAssumeRole(facts, p) # "FAIL"}
  /\ source = CHOOSE p \in Principals : TRUE
  /\ frontier = <<>> /\ visited = {} /\ todo = {}
  /\ here = [at |-> source, clean |-> TRUE, path |-> <<>>]
  /\ found = NothingYet
  /\ findings = {}
  /\ phase = "choose"

ChooseSource(p) ==
  /\ phase = "choose"
  /\ p \in waiting /\ \A q \in waiting : NodeOrder[p] <= NodeOrder[q]
  /\ waiting' = waiting \ {p}
  /\ source' = p
  /\ frontier' = << [at |-> p, clean |-> TRUE, path |-> <<>>] >>
  /\ visited' = {<<p, TRUE>>}
  /\ found' = NothingYet
  /\ phase' = "pop"
  /\ UNCHANGED <<facts, here, todo, findings>>

(***************************************************************************)
(* What popping an entry adds: an admin-equivalent role met after at least *)
(* one hop, proven when the path and the admin witness are both clean.     *)
(***************************************************************************)
CollectProven(acc, entry) ==
  IF entry.path # <<>> /\ IsAdmin(facts, entry.at) /\ entry.clean
    THEN [acc EXCEPT !.admins = @ \cup {entry.at}, !.proven = @ \cup {entry.at}]
    ELSE acc

Collect(acc, entry) ==
  LET admin  == entry.path # <<>> /\ IsAdmin(facts, entry.at)
      proven == admin /\ entry.clean /\ facts.admin[entry.at].managed
  IN  [acc EXCEPT
         !.admins   = IF admin THEN @ \cup {entry.at} ELSE @,
         !.proven   = IF proven THEN @ \cup {entry.at} ELSE @,
         !.proof    = IF proven THEN @ \cup HopsOf(entry.path) ELSE @,
         !.hitLimit = @ \/ Len(entry.path) >= MaxDepth]

Pop ==
  /\ phase = "pop" /\ frontier # <<>>
  /\ LET entry == Head(frontier)
     IN  /\ here' = entry
         /\ found' = Collect(found, entry)
         /\ IF Len(entry.path) >= MaxDepth
              THEN todo' = {} /\ phase' = "pop"
              ELSE todo' = PermissionEdgesFrom(facts, entry.at) /\ phase' = "walk"
  /\ frontier' = Tail(frontier)
  /\ UNCHANGED <<facts, waiting, source, visited, findings>>

(***************************************************************************)
(* The key under which a hop's destination is visited. KeyByNode forgets   *)
(* the path's cleanliness.                                                 *)
(***************************************************************************)
KeyByNode(next, clean) == <<next, TRUE>>
VisitKey(next, clean) == <<next, clean>>

SkipMarked(i) ==
  /\ phase = "walk" /\ IsFirst(i, todo)
  /\ AdmittingTrustEdges(facts, here.at, facts.perm[i].dst) = {}
  /\ visited' = visited \cup {<<facts.perm[i].dst, here.clean>>}
  /\ todo' = todo \ {i}
  /\ UNCHANGED <<facts, waiting, source, frontier, here, found, findings, phase>>

SkipEdge(i) ==
  /\ phase = "walk" /\ IsFirst(i, todo)
  /\ LET next == facts.perm[i].dst
         adm  == AdmittingTrustEdges(facts, here.at, next)
     IN  \A j \in adm :
           IsFirst(j, adm) =>
             VisitKey(next, here.clean /\ CleanHop(facts, here.at, i, j)) \in visited
  /\ todo' = todo \ {i}
  /\ UNCHANGED <<facts, waiting, source, frontier, visited, here, found, findings, phase>>

TakeHop(i, j) ==
  /\ phase = "walk" /\ IsFirst(i, todo)
  /\ LET next  == facts.perm[i].dst
         hop   == [perm |-> i, trust |-> j]
         clean == here.clean /\ CleanHop(facts, here.at, i, j)
     IN  /\ IsFirst(j, AdmittingTrustEdges(facts, here.at, next))
         /\ VisitKey(next, clean) \notin visited
         /\ visited' = visited \cup {VisitKey(next, clean)}
         /\ found' = [found EXCEPT !.walked = @ \cup {hop}]
         /\ frontier' = Append(frontier,
              [at |-> next, clean |-> clean, path |-> Append(here.path, hop)])
  /\ todo' = todo \ {i}
  /\ UNCHANGED <<facts, waiting, source, here, findings, phase>>

EdgesDone ==
  /\ phase = "walk" /\ todo = {}
  /\ phase' = "pop"
  /\ UNCHANGED <<facts, waiting, source, walk, findings>>

WalkDone ==
  /\ phase = "pop" /\ frontier = <<>>
  /\ findings' = findings \cup
       (IF found.admins = {} THEN {} ELSE {ReachFinding(facts, source, found)})
  /\ phase' = "choose"
  /\ UNCHANGED <<facts, waiting, source, walk>>

Finish ==
  /\ phase = "choose" /\ waiting = {}
  /\ phase' = "done"
  /\ UNCHANGED <<facts, waiting, source, walk, findings>>

Terminated == phase = "done" /\ UNCHANGED vars

Next ==
  \/ \E p \in waiting : ChooseSource(p)
  \/ Pop
  \/ \E i \in todo : SkipEdge(i)
  \/ \E i \in todo, j \in DOMAIN facts.trust : TakeHop(i, j)
  \/ EdgesDone
  \/ WalkDone
  \/ Finish
  \/ Terminated

Spec == Init /\ [][Next]_vars /\ WF_vars(Next)

-----------------------------------------------------------------------------
TypeOK ==
  /\ facts \in FactGraphs
  /\ waiting \subseteq Principals
  /\ source \in Principals
  /\ frontier \in Seq(Entry)
  /\ visited \subseteq Principals \X BOOLEAN
  /\ here \in Entry
  /\ todo \subseteq DOMAIN facts.perm
  /\ found \in Collected
  /\ phase \in {"choose", "pop", "walk", "done"}

(***************************************************************************)
(* What a walk should find, without walking: the principals at most d hops *)
(* of a set from s, each with whether all the hops to it were clean. A hop *)
(* takes a permission edge through the first trust edge that admits it.    *)
(***************************************************************************)
AnyHop(G) == [perm : DOMAIN G.perm, trust : DOMAIN G.trust]

HopsOut(G, p) ==
  {h \in [perm : PermissionEdgesFrom(G, p), trust : DOMAIN G.trust] :
     IsFirst(h.trust, AdmittingTrustEdges(G, p, G.perm[h.perm].dst))}

Beyond(G, n, h) == <<G.perm[h.perm].dst, n[2] /\ CleanHop(G, n[1], h.perm, h.trust)>>

Onward(G, S, hops) == UNION {{Beyond(G, n, h) : h \in HopsOut(G, n[1]) \cap hops} : n \in S}

Within(G, s, d, hops) ==
  LET by[k \in Nat] ==
        IF k = 0 THEN {<<s, TRUE>>}
        ELSE LET before == by[k - 1] IN before \cup Onward(G, before, hops)
  IN  by[d]

AdminsIn(G, S) == {r \in Roles : IsAdmin(G, r) /\ (<<r, TRUE>> \in S \/ <<r, FALSE>> \in S)}

ProvenIn(G, S) == {r \in Roles : IsAdmin(G, r) /\ G.admin[r].managed /\ <<r, TRUE>> \in S}

(***************************************************************************)
(* A finding lists exactly the admin-equivalent roles within MaxDepth      *)
(* hops, marks proven exactly those that clean hops alone reach, and no    *)
(* principal that reaches one is left out. Roles other than the source:    *)
(* whether a cycle back to the source counts depends on its hops.          *)
(***************************************************************************)
ReachesExactly ==
  /\ \A f \in findings :
       LET within == Within(facts, f.source, MaxDepth, AnyHop(facts))
       IN  /\ f.admins \ {f.source} = AdminsIn(facts, within) \ {f.source}
           /\ f.proven = ProvenIn(facts, within) \ {f.source}
  /\ phase = "done" =>
       \A s \in Principals :
         \/ AdminsIn(facts, Within(facts, s, MaxDepth, AnyHop(facts))) \subseteq {s}
         \/ \E f \in findings : f.source = s

(***************************************************************************)
(* A VALIDATED finding is complete: no admin-equivalent role is reachable  *)
(* at any depth that it does not list. This is what check 4 is for.        *)
(***************************************************************************)
CompleteWhenValidated ==
  \A f \in findings :
    f.verdict = "VALIDATED" =>
      AdminsIn(facts, Within(facts, f.source, Cardinality(Principals), AnyHop(facts)))
        \ {f.source} \subseteq f.admins

(***************************************************************************)
(* Nothing the two governance checks look at is open on a hop, on the      *)
(* witness edge of a role.                                                 *)
(***************************************************************************)
Free(bindings) == \A b \in bindings : ~ BlocksForSure(b) /\ ~ IsAmbiguous(b)

FreeHop(G, h) == Free(G.trust[h.trust].scp) /\ Free(G.perm[h.perm].boundary)

FreeHops(G) == {h \in AnyHop(G) : FreeHop(G, h)}

(***************************************************************************)
(* A VALIDATED finding rests on a chain of clean hops, none of which an    *)
(* SCP or boundary stops or may stop, to an admin-equivalent role.         *)
(***************************************************************************)
ValidatedProven ==
  \A f \in findings :
    f.verdict = "VALIDATED" =>
      \E r \in ProvenIn(facts, Within(facts, f.source, MaxDepth, FreeHops(facts))) \ {f.source} :
        Free(facts.admin[r].boundary)

(***************************************************************************)
(* An ambiguous or controlled branch does not downgrade a separate clean   *)
(* proof: when clean hops reach an admin, no clean hop in reach and no     *)
(* proven witness has an open binding, and the walk ends short of the      *)
(* limit, the verdict is VALIDATED whatever else the walk crossed.         *)
(***************************************************************************)
NotPoisoned ==
  \A f \in findings :
    LET within == Within(facts, f.source, MaxDepth, AnyHop(facts))
    IN  /\ f.proven # {}
        /\ within = Within(facts, f.source, MaxDepth - 1, AnyHop(facts))
        /\ \A n \in within : n[2] => \A h \in HopsOut(facts, n[1]) :
              CleanHop(facts, n[1], h.perm, h.trust) => FreeHop(facts, h)
        /\ \A r \in f.proven : Free(facts.admin[r].boundary)
        => f.verdict = "VALIDATED"

(***************************************************************************)
(* No finding trips Finding.__post_init__: the verdict comes from check    *)
(* names, the blockers from the first blocking binding of each check.      *)
(***************************************************************************)
FindingsAccepted == \A f \in findings : FindingAccepted(f)
=============================================================================
