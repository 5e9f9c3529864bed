----------------------- MODULE AssumeRoleChain_proofs -----------------------
(***************************************************************************)
(* Proofs about assume_role_chain, for every fact graph and every depth    *)
(* limit: the type invariant, that every reported chain is a real one,     *)
(* that the walk is breadth first, that no finding is refused, and that    *)
(* the walk implements AdminChains.                                        *)
(***************************************************************************)
EXTENDS AssumeRoleChain, WellFoundedInduction, TLAPS

(***************************************************************************)
(* What the walk knows of an entry of its frontier: its chain leads from   *)
(* the source to it, authorized and simple, over visited principals only.  *)
(***************************************************************************)
SoundEntry(G, start, V, e) ==
  /\ Authorized(G, start, e.chain)
  /\ Simple(G, start, e.chain)
  /\ \A k \in 0 .. Len(e.chain) : Stop(G, start, e.chain, k) \in V
  /\ Stop(G, start, e.chain, Len(e.chain)) = e.at

(***************************************************************************)
(* The popped entry precedes what is left of the frontier.                 *)
(***************************************************************************)
HereLeads ==
  \A i \in DOMAIN frontier :
    /\ Len(here.chain) <= Len(frontier[i].chain)
    /\ Len(frontier[i].chain) <= Len(here.chain) + 1

WalkInv ==
  /\ \A i \in DOMAIN frontier : SoundEntry(facts, source, visited, frontier[i])
  /\ phase \in {"choose", "done"} => frontier = <<>>
  /\ phase = "walk" => /\ SoundEntry(facts, source, visited, here)
                       /\ Len(here.chain) < MaxDepth
                       /\ HereLeads
                       /\ todo \subseteq PermissionEdgesFrom(facts, here.at)

IInv == TypeOK /\ WalkInv /\ BreadthFirst /\ ChainsAuthorized

-----------------------------------------------------------------------------
(***************************************************************************)
(* Edges and hops of a typed graph.                                        *)
(***************************************************************************)
LEMMA EdgeTypes ==
  ASSUME NEW G \in FactGraphs
  PROVE  /\ \A i \in DOMAIN G.perm : G.perm[i].src \in Principals
                                     /\ G.perm[i].dst \in Roles \cup {HyperNode}
         /\ \A j \in DOMAIN G.trust : G.trust[j].dst \in Roles
         /\ DOMAIN G.perm \subseteq Nat /\ DOMAIN G.trust \subseteq Nat
<1>1. G.perm \in Seq(PermissionEdge) /\ G.trust \in Seq(TrustEdge)
  BY DEF FactGraphs
<1>2. \A i \in DOMAIN G.perm : i \in Nat /\ G.perm[i] \in PermissionEdge
  BY <1>1
<1>3. \A j \in DOMAIN G.trust : j \in Nat /\ G.trust[j] \in TrustEdge
  BY <1>1
<1> QED  BY <1>2, <1>3 DEF PermissionEdge, TrustEdge

(***************************************************************************)
(* Extending a sound chain by an authorized hop to an unvisited role gives *)
(* a sound chain.                                                          *)
(***************************************************************************)
LEMMA StopOfAppend ==
  ASSUME NEW G, NEW start, NEW chain \in Seq(Hop), NEW h \in Hop,
         NEW k \in 0 .. Len(chain)
  PROVE  Stop(G, start, Append(chain, h), k) = Stop(G, start, chain, k)
  BY DEF Stop, Hop

LEMMA LastStopOfAppend ==
  ASSUME NEW G, NEW start, NEW chain \in Seq(Hop), NEW h \in Hop
  PROVE  /\ Len(Append(chain, h)) = Len(chain) + 1
         /\ Append(chain, h) \in Seq(Hop)
         /\ Append(chain, h)[Len(chain) + 1] = h
         /\ Stop(G, start, Append(chain, h), Len(chain) + 1) = G.perm[h.perm].dst
  BY DEF Stop, Hop

LEMMA TypeInit == Init => TypeOK
<1> SUFFICES ASSUME Init PROVE TypeOK
  OBVIOUS
<1>1. facts \in FactGraphs
  BY WalkBounds DEF Init
<1>2. source \in Principals
  BY WalkBounds DEF Init, Principals
<1> QED  BY <1>1, <1>2 DEF Init, TypeOK, Entry

LEMMA TypeNext == TypeOK /\ [Next]_vars => TypeOK'
<1> SUFFICES ASSUME TypeOK, [Next]_vars PROVE TypeOK'
  OBVIOUS
<1> USE DEF TypeOK
<1>1. CASE \E p \in waiting : ChooseSource(p)
  BY <1>1 DEF ChooseSource, Entry
<1>2. CASE Pop
  <2>1. frontier # <<>> /\ Head(frontier) \in Entry /\ Tail(frontier) \in Seq(Entry)
    BY <1>2 DEF Pop
  <2>2. seen' \subseteq Principals \X Roles
    BY <1>2, <2>1 DEF Pop, Report, Reportable, IsAdmin, Entry
  <2>3. todo' \subseteq DOMAIN facts.perm
    BY <1>2 DEF Pop, PermissionEdgesFrom
  <2> QED  BY <1>2, <2>1, <2>2, <2>3 DEF Pop, Dequeued
<1>3. CASE WalkDone
  BY <1>3 DEF WalkDone, walk
<1>4. CASE \E i \in todo : SkipEdge(i)
  BY <1>4 DEF SkipEdge
<1>5. CASE \E i \in todo, j \in DOMAIN facts.trust : TakeHop(i, j)
  <2>1. PICK i \in todo, j \in DOMAIN facts.trust : TakeHop(i, j)
    BY <1>5
  <2> DEFINE next  == facts.perm[i].dst
             entry == [at |-> next, chain |-> Append(here.chain, [perm |-> i, trust |-> j])]
  <2>2. i \in Nat /\ j \in Nat
    BY EdgeTypes
  <2>3. next \in Roles
    BY <2>1, EdgeTypes DEF TakeHop, IsFirst, AdmittingHere, AdmittingTrustEdges, TrustPolicyOf
  <2>4. entry \in Entry
    BY <2>2, <2>3 DEF Entry, Hop, Principals
  <2>5. Append(frontier, entry) \in Seq(Entry)
    BY <2>4
  <2> QED  BY <2>1, <2>3, <2>5 DEF TakeHop, Principals, Enqueued
<1>6. CASE EdgesDone
  BY <1>6 DEF EdgesDone, walk
<1>7. CASE Finish
  BY <1>7 DEF Finish, walk
<1>8. CASE Terminated
  BY <1>8 DEF Terminated, vars, walk
<1>9. CASE UNCHANGED vars
  BY <1>9 DEF vars, walk
<1> QED  BY <1>1, <1>2, <1>3, <1>4, <1>5, <1>6, <1>7, <1>8, <1>9 DEF Next

(***************************************************************************)
(* Every step of the walk keeps the state well typed: no unexpanded        *)
(* wildcard node ever becomes a stop of a chain.                           *)
(***************************************************************************)
THEOREM TypeCorrect == Spec => []TypeOK
  BY TypeInit, TypeNext, PTL DEF Spec

-----------------------------------------------------------------------------
LEMMA ExtendedEntry ==
  ASSUME TypeOK, SoundEntry(facts, source, visited, here),
         NEW i \in PermissionEdgesFrom(facts, here.at), NEW j \in DOMAIN facts.trust,
         TakeHop(i, j)
  PROVE  LET entry == [at |-> facts.perm[i].dst,
                       chain |-> Append(here.chain, [perm |-> i, trust |-> j])]
         IN  /\ SoundEntry(facts, source, visited', entry)
             /\ Len(entry.chain) = Len(here.chain) + 1
             /\ entry.at \notin visited /\ entry.at \in visited'
<1> DEFINE next  == facts.perm[i].dst
           hop   == [perm |-> i, trust |-> j]
           chain == Append(here.chain, hop)
           n     == Len(here.chain)
           S(k)  == Stop(facts, source, here.chain, k)
           T(k)  == Stop(facts, source, chain, k)
<1>1. /\ here.chain \in Seq(Hop) /\ n \in Nat
      /\ i \in Nat /\ j \in Nat /\ hop \in Hop
      /\ facts \in FactGraphs
  <2>1. facts \in FactGraphs /\ here \in Entry
    BY DEF TypeOK
  <2>2. i \in Nat /\ j \in Nat
    BY <2>1, EdgeTypes DEF PermissionEdgesFrom
  <2> QED  BY <2>1, <2>2 DEF Entry, Hop
<1>2. /\ next \notin visited /\ visited' = visited \cup {next}
      /\ j \in AdmittingTrustEdges(facts, here.at, next)
  BY DEF TakeHop, IsFirst, AdmittingHere
<1>3. \A k \in 0 .. n : T(k) = S(k)
  BY <1>1, StopOfAppend
<1>4. Len(chain) = n + 1 /\ chain[n + 1] = hop /\ T(n + 1) = next
  BY <1>1, LastStopOfAppend
<1>5. S(n) = here.at /\ \A k \in 0 .. n : S(k) \in visited
  BY DEF SoundEntry
<1>6. Authorized(facts, source, chain)
  <2>1. ASSUME NEW k \in 1 .. n
        PROVE  /\ chain[k].perm \in PermissionEdgesFrom(facts, T(k - 1))
               /\ chain[k].trust \in AdmittingTrustEdges(facts, T(k - 1), T(k))
    <3>1. chain[k] = here.chain[k] /\ k \in DOMAIN here.chain
      BY <1>1
    <3>2. T(k - 1) = S(k - 1) /\ T(k) = S(k)
      BY <1>1, <1>3
    <3> QED  BY <3>1, <3>2 DEF SoundEntry, Authorized
  <2>2. /\ chain[n + 1].perm \in PermissionEdgesFrom(facts, T(n))
        /\ chain[n + 1].trust \in AdmittingTrustEdges(facts, T(n), T(n + 1))
    BY <1>1, <1>2, <1>3, <1>4, <1>5
  <2>3. DOMAIN chain = 1 .. n + 1
    BY <1>1, <1>4
  <2>4. ASSUME NEW k \in DOMAIN chain
        PROVE  /\ chain[k].perm \in PermissionEdgesFrom(facts, T(k - 1))
               /\ chain[k].trust \in AdmittingTrustEdges(facts, T(k - 1), T(k))
    <3>1. CASE k \in 1 .. n
      BY <2>1, <3>1
    <3>2. CASE k = n + 1
      <4>1. k - 1 = n
        BY <3>2, <1>1
      <4> QED  BY <2>2, <3>2, <4>1
    <3> QED  BY <2>3, <3>1, <3>2, <1>1
  <2> QED  BY <2>4 DEF Authorized
<1>7. Simple(facts, source, chain)
  <2> SUFFICES ASSUME NEW k \in 0 .. n + 1, NEW l \in 0 .. n + 1, T(k) = T(l)
               PROVE  k = l
    BY <1>4 DEF Simple
  <2>1. CASE k \in 0 .. n /\ l \in 0 .. n
    <3>1. S(k) = S(l)
      BY <2>1, <1>3
    <3> QED  BY <3>1, <2>1 DEF SoundEntry, Simple
  <2>2. CASE k \in 0 .. n /\ l = n + 1
    BY <2>2, <1>2, <1>3, <1>4, <1>5
  <2>3. CASE l \in 0 .. n /\ k = n + 1
    BY <2>3, <1>2, <1>3, <1>4, <1>5
  <2> QED  BY <2>1, <2>2, <2>3, <1>1
<1>8. \A k \in 0 .. n + 1 : T(k) \in visited'
  <2> SUFFICES ASSUME NEW k \in 0 .. n + 1 PROVE T(k) \in visited'
    OBVIOUS
  <2>1. CASE k \in 0 .. n
    BY <2>1, <1>2, <1>3, <1>5
  <2>2. CASE k = n + 1
    BY <2>2, <1>2, <1>4
  <2> QED  BY <2>1, <2>2, <1>1
<1> QED  BY <1>2, <1>4, <1>6, <1>7, <1>8 DEF SoundEntry

-----------------------------------------------------------------------------
LEMMA InvInit == Init => IInv
<1> SUFFICES ASSUME Init PROVE IInv
  OBVIOUS
<1>1. TypeOK
  BY TypeInit
<1> QED  BY <1>1 DEF Init, IInv, WalkInv, BreadthFirst, ChainsAuthorized

LEMMA SoundGrows ==
  ASSUME NEW G, NEW start, NEW V, NEW W, NEW e, SoundEntry(G, start, V, e), V \subseteq W
  PROVE  SoundEntry(G, start, W, e)
  BY DEF SoundEntry

-----------------------------------------------------------------------------
LEMMA InvNext == IInv /\ [Next]_vars => IInv'
<1> SUFFICES ASSUME IInv, [Next]_vars PROVE IInv'
  OBVIOUS
<1> USE DEF IInv
<1>0. TypeOK'
  BY TypeNext
<1>1. ASSUME NEW p \in waiting, ChooseSource(p) PROVE IInv'
  <2>1. /\ frontier' = << [at |-> p, chain |-> <<>>] >> /\ source' = p /\ visited' = {p}
        /\ phase' = "pop" /\ facts' = facts /\ findings' = findings
    BY <1>1 DEF ChooseSource
  <2>2. DOMAIN frontier' = {1} /\ frontier'[1] = [at |-> p, chain |-> <<>>]
    BY <2>1
  <2>3. SoundEntry(facts', source', visited', frontier'[1])
    BY <2>1, <2>2 DEF SoundEntry, Authorized, Simple, Stop
  <2>4. WalkInv'
    BY <2>1, <2>2, <2>3 DEF WalkInv
  <2>5. BreadthFirst'
    BY <2>1, <2>2, WalkBounds DEF BreadthFirst
  <2>6. ChainsAuthorized'
    BY <2>1 DEF ChainsAuthorized
  <2> QED  BY <1>0, <2>4, <2>5, <2>6
<1>2. CASE Pop
  <2> DEFINE entry == Head(frontier)
  <2>1. /\ frontier \in Seq(Entry) /\ frontier # <<>> /\ entry \in Entry
        /\ frontier' = Tail(frontier) /\ here' = entry
        /\ facts' = facts /\ source' = source /\ visited' = visited
        /\ phase' \in {"pop", "walk"}
        /\ phase' = "walk" => /\ Len(entry.chain) < MaxDepth
                              /\ todo' = PermissionEdgesFrom(facts, entry.at)
    <3>1. frontier \in Seq(Entry) /\ frontier # <<>>
      BY <1>2 DEF Pop, TypeOK
    <3>2. entry \in Entry /\ Len(entry.chain) \in Nat
      <4>1. entry \in Entry
        BY <3>1
      <4>2. entry.chain \in Seq(Hop)
        BY <4>1 DEF Entry
      <4> QED  BY <4>1, <4>2
    <3>3. UNCHANGED <<facts, source, visited>> /\ frontier' = Tail(frontier) /\ here' = entry
      BY <1>2 DEF Pop, Dequeued
    <3>4. CASE Len(entry.chain) >= MaxDepth
      <4>1. phase' = "pop"
        BY <1>2, <3>4 DEF Pop
      <4> QED  BY <3>1, <3>2, <3>3, <4>1
    <3>5. CASE ~ (Len(entry.chain) >= MaxDepth)
      <4>1. phase' = "walk" /\ todo' = PermissionEdgesFrom(facts, entry.at)
        BY <1>2, <3>5 DEF Pop
      <4> QED  BY <3>1, <3>2, <3>3, <3>5, <4>1, WalkBounds
    <3> QED  BY <3>4, <3>5
  <2>2. /\ Len(frontier) \in Nat \ {0} /\ entry = frontier[1]
        /\ \A i \in DOMAIN frontier' : i + 1 \in DOMAIN frontier
                                       /\ frontier'[i] = frontier[i + 1]
    BY <2>1
  <2>3. 1 \in DOMAIN frontier
    BY <2>1, <2>2
  <2>4. SoundEntry(facts, source, visited, entry)
    BY <2>2, <2>3 DEF WalkInv
  <2>5. SoundEntry(facts', source', visited', here')
    BY <2>1, <2>4
  <2>6. \A i \in DOMAIN frontier' : SoundEntry(facts', source', visited', frontier'[i])
    BY <2>1, <2>2 DEF WalkInv
  <2>7. HereLeads'
    BY <2>1, <2>2, <2>3 DEF HereLeads, BreadthFirst, TypeOK, Entry
  <2>8. WalkInv'
    BY <2>1, <2>5, <2>6, <2>7 DEF WalkInv
  <2>9. BreadthFirst'
    <3>1. ASSUME NEW i \in DOMAIN frontier', NEW j \in DOMAIN frontier'
          PROVE  /\ i < j => Len(frontier'[i].chain) <= Len(frontier'[j].chain)
                 /\ Len(frontier'[j].chain) <= Len(frontier'[i].chain) + 1
                 /\ Len(frontier'[i].chain) <= MaxDepth
                 /\ frontier'[i].at = frontier'[j].at => i = j
                 /\ frontier'[i].at \in visited'
      <4>1. i + 1 \in DOMAIN frontier /\ j + 1 \in DOMAIN frontier /\ i \in Nat /\ j \in Nat
        BY <2>1, <2>2
      <4>2. frontier'[i] = frontier[i + 1] /\ frontier'[j] = frontier[j + 1]
        BY <2>2
      <4>3. i < j <=> i + 1 < j + 1
        BY <4>1
      <4>4. i + 1 = j + 1 => i = j
        BY <4>1
      <4> QED  BY <2>1, <4>1, <4>2, <4>3, <4>4 DEF BreadthFirst
    <3> QED  BY <3>1 DEF BreadthFirst
  <2>10. ChainsAuthorized'
    <3>1. CASE ~ Reportable(entry)
      BY <3>1, <1>2, <2>1 DEF Pop, Report, ChainsAuthorized
    <3>2. CASE Reportable(entry)
      <4>1. findings' = findings \cup {BuildFinding(facts, source, entry.at, entry.chain)}
        BY <3>2, <1>2 DEF Pop, Report
      <4> DEFINE f == BuildFinding(facts, source, entry.at, entry.chain)
      <4>2. f.source = source /\ f.target = entry.at /\ f.chain = entry.chain
        BY DEF BuildFinding
      <4>3. Len(entry.chain) \in MinChain .. MaxDepth
        BY <3>2, <2>1, <2>2, <2>3, WalkBounds DEF Reportable, BreadthFirst, Entry
      <4>4. /\ Authorized(facts, f.source, f.chain)
            /\ Simple(facts, f.source, f.chain)
            /\ Len(f.chain) \in MinChain .. MaxDepth
            /\ Stop(facts, f.source, f.chain, Len(f.chain)) = f.target
            /\ IsAdmin(facts, f.target)
        BY <2>4, <3>2, <4>2, <4>3 DEF SoundEntry, Reportable
      <4> HIDE DEF f
      <4> QED  BY <4>1, <4>4, <2>1 DEF ChainsAuthorized, f
    <3> QED  BY <3>1, <3>2
  <2> QED  BY <1>0, <2>8, <2>9, <2>10
<1>3. CASE WalkDone
  BY <1>3, <1>0 DEF WalkDone, walk, WalkInv, BreadthFirst, ChainsAuthorized
<1>4. ASSUME NEW i \in todo, SkipEdge(i) PROVE IInv'
  BY <1>4, <1>0 DEF SkipEdge, WalkInv, HereLeads, BreadthFirst, ChainsAuthorized
<1>5. ASSUME NEW i \in todo, NEW j \in DOMAIN facts.trust, TakeHop(i, j) PROVE IInv'
  <2> DEFINE entry == [at |-> facts.perm[i].dst,
                       chain |-> Append(here.chain, [perm |-> i, trust |-> j])]
             n     == Len(frontier)
  <2>1. /\ phase = "walk" /\ SoundEntry(facts, source, visited, here) /\ HereLeads
        /\ Len(here.chain) < MaxDepth /\ Len(here.chain) \in Nat
        /\ i \in PermissionEdgesFrom(facts, here.at)
    BY <1>5 DEF TakeHop, WalkInv, TypeOK, Entry
  <2>2. /\ frontier' = Append(frontier, entry) /\ visited' = visited \cup {entry.at}
        /\ todo' \subseteq todo
        /\ UNCHANGED <<facts, source, here, findings, phase>>
    BY <1>5 DEF TakeHop, Enqueued
  <2>3. /\ SoundEntry(facts, source, visited', entry)
        /\ Len(entry.chain) = Len(here.chain) + 1
        /\ entry.at \notin visited /\ entry.at \in visited'
    BY <1>5, <2>1, ExtendedEntry
  <2> HIDE DEF entry
  <2>5. /\ n \in Nat /\ DOMAIN frontier' = 1 .. n + 1 /\ DOMAIN frontier = 1 .. n
        /\ frontier'[n + 1] = entry
        /\ \A k \in 1 .. n : frontier'[k] = frontier[k]
    BY <2>2 DEF TypeOK
  <2>6. WalkInv'
    <3>1. ASSUME NEW k \in 1 .. n PROVE SoundEntry(facts, source, visited', frontier'[k])
      BY <2>2, <2>5, SoundGrows DEF WalkInv
    <3>2. \A k \in DOMAIN frontier' : SoundEntry(facts', source', visited', frontier'[k])
      <4> SUFFICES ASSUME NEW k \in DOMAIN frontier'
                   PROVE  SoundEntry(facts', source', visited', frontier'[k])
        OBVIOUS
      <4>1. CASE k \in 1 .. n
        BY <4>1, <2>2, <3>1
      <4>2. CASE k = n + 1
        BY <4>2, <2>2, <2>3, <2>5
      <4> QED  BY <2>5, <4>1, <4>2
    <3>3. SoundEntry(facts', source', visited', here')
      BY <2>1, <2>2, SoundGrows
    <3>4. HereLeads'
      BY <2>1, <2>2, <2>3, <2>5 DEF HereLeads
    <3> QED  BY <2>1, <2>2, <3>2, <3>3, <3>4 DEF WalkInv
  <2>7. BreadthFirst'
    <3>0. ASSUME NEW k \in 1 .. n
          PROVE  /\ Len(frontier[k].chain) \in Nat
                 /\ Len(frontier[k].chain) <= MaxDepth
                 /\ Len(here.chain) <= Len(frontier[k].chain)
                 /\ Len(frontier[k].chain) <= Len(here.chain) + 1
                 /\ frontier[k].at # entry.at
      <4>1. Len(frontier[k].chain) \in Nat
        <5>1. frontier[k] \in Entry
          BY <2>5 DEF TypeOK
        <5>2. frontier[k].chain \in Seq(Hop)
          BY <5>1 DEF Entry
        <5> QED  BY <5>2
      <4>2. Len(frontier[k].chain) <= MaxDepth /\ frontier[k].at \in visited
        BY <2>5 DEF BreadthFirst
      <4>3. /\ Len(here.chain) <= Len(frontier[k].chain)
            /\ Len(frontier[k].chain) <= Len(here.chain) + 1
        BY <2>1, <2>5 DEF HereLeads
      <4> QED  BY <2>3, <4>1, <4>2, <4>3
    <3>1. ASSUME NEW k \in 1 .. n + 1, NEW l \in 1 .. n + 1
          PROVE  /\ k < l => Len(frontier'[k].chain) <= Len(frontier'[l].chain)
                 /\ Len(frontier'[l].chain) <= Len(frontier'[k].chain) + 1
                 /\ Len(frontier'[k].chain) <= MaxDepth
                 /\ frontier'[k].at = frontier'[l].at => k = l
      <4>1. CASE k \in 1 .. n /\ l \in 1 .. n
        BY <2>5, <4>1 DEF BreadthFirst
      <4>2. CASE k \in 1 .. n /\ l = n + 1
        <5>1. frontier'[k] = frontier[k] /\ frontier'[l] = entry
          BY <2>5, <4>2
        <5>2. k < l
          BY <2>5, <4>2
        <5> QED  BY <2>1, <2>3, <3>0, <4>2, <5>1, <5>2
      <4>3. CASE k = n + 1 /\ l \in 1 .. n
        <5>1. frontier'[k] = entry /\ frontier'[l] = frontier[l]
          BY <2>5, <4>3
        <5>2. ~ (k < l)
          BY <2>5, <4>3
        <5> QED  BY <2>1, <2>3, <3>0, <4>3, <5>1, <5>2, WalkBounds
      <4>4. CASE k = n + 1 /\ l = n + 1
        BY <2>1, <2>3, <2>5, <4>4, WalkBounds
      <4> QED  BY <2>5, <4>1, <4>2, <4>3, <4>4
    <3>2. \A k \in 1 .. n + 1 : frontier'[k].at \in visited'
      BY <2>2, <2>3, <2>5 DEF BreadthFirst
    <3> QED  BY <2>5, <3>1, <3>2 DEF BreadthFirst
  <2>8. ChainsAuthorized'
    BY <2>2 DEF ChainsAuthorized
  <2> QED  BY <1>0, <2>6, <2>7, <2>8
<1>6. CASE EdgesDone
  BY <1>6, <1>0 DEF EdgesDone, walk, WalkInv, BreadthFirst, ChainsAuthorized
<1>7. CASE Finish
  BY <1>7, <1>0 DEF Finish, walk, WalkInv, BreadthFirst, ChainsAuthorized
<1>8. CASE Terminated \/ UNCHANGED vars
  BY <1>8, <1>0 DEF Terminated, vars, walk, WalkInv, HereLeads, BreadthFirst,
                    ChainsAuthorized
<1> QED  BY <1>1, <1>2, <1>3, <1>4, <1>5, <1>6, <1>7, <1>8 DEF Next

(***************************************************************************)
(* On every graph, whatever the depth limits, each finding cites a chain   *)
(* of hops that are really there.                                          *)
(***************************************************************************)
THEOREM ChainsAreAuthorized == Spec => []ChainsAuthorized
<1>1. IInv => ChainsAuthorized
  BY DEF IInv
<1> QED  BY <1>1, InvInit, InvNext, PTL DEF Spec

(***************************************************************************)
(* The frontier is ordered by chain length at every moment of every walk.  *)
(***************************************************************************)
THEOREM WalkIsBreadthFirst == Spec => []BreadthFirst
<1>1. IInv => BreadthFirst
  BY DEF IInv
<1> QED  BY <1>1, InvInit, InvNext, PTL DEF Spec

-----------------------------------------------------------------------------
LEMMA TristateClosed ==
  ASSUME NEW S PROVE AndTristateMany(S) \in CheckState
  BY DEF AndTristateMany, CheckState

LEMMA ChecksAreTristates ==
  ASSUME NEW G, NEW target, NEW chain,
         NEW kind \in GovernanceKinds \cup {"clean_hops"}
  PROVE  ChainChecks(G, target, chain)[kind] \in CheckState
<1>1. /\ ScpCheck(G, chain) \in CheckState
      /\ BoundaryCheck(G, target, chain) \in CheckState
      /\ DenyCheck(G, chain) \in CheckState
      /\ DriftCheck(G, chain) \in CheckState
  BY TristateClosed DEF ScpCheck, BoundaryCheck, DenyCheck, DriftCheck
<1>2. CleanHopCheck(G, chain) \in CheckState
  BY DEF CleanHopCheck, CheckState
<1> QED  BY <1>1, <1>2 DEF ChainChecks, GovernanceKinds

(***************************************************************************)
(* A probe assessment overrides the verdict only together with the check   *)
(* and the blocker that the new verdict needs.                             *)
(***************************************************************************)
LEMMA OverlayConsistent ==
  ASSUME NEW latest
  PROVE  LET overlay == AssessProbeOverlay(latest)
         IN  \/ /\ overlay.override = "none"
                /\ overlay.check \in {"none", "PASS"} /\ overlay.blocker = FALSE
             \/ /\ overlay.override = "INCONCLUSIVE"
                /\ overlay.check = "UNKNOWN" /\ overlay.blocker = FALSE
             \/ /\ overlay.override = "BLOCKED"
                /\ overlay.check = "FAIL" /\ overlay.blocker = TRUE
  BY DEF AssessProbeOverlay, Assessment

LEMMA BuiltFindingAccepted ==
  ASSUME NEW G, NEW start, NEW target, NEW chain
  PROVE  FindingAccepted(BuildFinding(G, start, target, chain))
<1> DEFINE checks  == ChainChecks(G, target, chain)
           overlay == AssessProbeOverlay(ChainProbes(G, chain))
           base    == ComputeVerdict(checks)
           f       == BuildFinding(G, start, target, chain)
           failed  == {kind \in GovernanceKinds : checks[kind] = "FAIL"}
<1>1. DOMAIN checks = GovernanceKinds \cup {"clean_hops"}
  BY DEF ChainChecks
<1>2. \A kind \in DOMAIN checks : checks[kind] \in CheckState
  BY <1>1, ChecksAreTristates
<1>3. checks["clean_hops"] # "FAIL"
  BY DEF ChainChecks, CleanHopCheck, GovernanceKinds
<1>4. \/ overlay.override = "none" /\ overlay.check \in {"none", "PASS"} /\ overlay.blocker = FALSE
      \/ overlay.override = "INCONCLUSIVE" /\ overlay.check = "UNKNOWN" /\ overlay.blocker = FALSE
      \/ overlay.override = "BLOCKED" /\ overlay.check = "FAIL" /\ overlay.blocker = TRUE
  BY OverlayConsistent
<1>5. /\ f.verdict = OverlaidVerdict(base, overlay)
      /\ f.checks = {"PASS"} \cup {checks[kind] : kind \in DOMAIN checks} \cup
                    ({overlay.check} \ {"none"})
      /\ f.blockers = failed \cup (IF overlay.blocker THEN {"probe_overlay"} ELSE {})
  BY DEF BuildFinding
<1> SUFFICES FindingAccepted(f)
  OBVIOUS
<1> HIDE DEF checks, overlay, f
<1>6. CASE overlay.override = "none" /\ \E kind \in GovernanceKinds : checks[kind] = "FAIL"
  <2>1. base = "BLOCKED"
    BY <1>6 DEF ComputeVerdict
  <2>2. "FAIL" \in f.checks /\ f.blockers # {}
    BY <1>1, <1>5, <1>6
  <2> QED  BY <1>5, <1>6, <2>1, <2>2 DEF FindingAccepted, OverlaidVerdict
<1>7. CASE /\ overlay.override = "none"
           /\ \A kind \in GovernanceKinds : checks[kind] # "FAIL"
           /\ \E kind \in DOMAIN checks : checks[kind] = "UNKNOWN"
  <2>1. base = "INCONCLUSIVE"
    BY <1>7 DEF ComputeVerdict
  <2> QED  BY <1>5, <1>7, <2>1 DEF FindingAccepted, OverlaidVerdict
<1>8. CASE /\ overlay.override = "none"
           /\ \A kind \in GovernanceKinds : checks[kind] # "FAIL"
           /\ \A kind \in DOMAIN checks : checks[kind] # "UNKNOWN"
  <2>1. base = "VALIDATED"
    BY <1>8 DEF ComputeVerdict
  <2>2. \A kind \in DOMAIN checks : checks[kind] = "PASS"
    BY <1>1, <1>2, <1>3, <1>8 DEF CheckState
  <2>3. overlay.check \in {"none", "PASS"} /\ overlay.blocker = FALSE
    BY <1>4, <1>8
  <2>4. f.checks \subseteq {"PASS"} /\ f.blockers = {}
    BY <1>5, <1>8, <2>2, <2>3
  <2> QED  BY <1>5, <1>8, <2>1, <2>4 DEF FindingAccepted, OverlaidVerdict
<1>9. CASE overlay.override = "INCONCLUSIVE"
  BY <1>5, <1>9 DEF FindingAccepted, OverlaidVerdict
<1>10. CASE overlay.override = "BLOCKED"
  <2>1. overlay.check = "FAIL" /\ overlay.blocker = TRUE
    BY <1>4, <1>10
  <2>2. "FAIL" \in f.checks /\ f.blockers # {}
    BY <1>5, <2>1
  <2> QED  BY <1>5, <1>10, <2>2 DEF FindingAccepted, OverlaidVerdict
<1> QED  BY <1>4, <1>6, <1>7, <1>8, <1>9, <1>10

(***************************************************************************)
(* Every finding is about a chain from a principal, has one of the four    *)
(* verdicts, and is accepted; a step that reports nothing leaves the       *)
(* findings alone.                                                         *)
(***************************************************************************)
Judged ==
  \A f \in findings :
    /\ f.source \in Principals /\ f.chain \in Seq(Hop)
    /\ f.verdict \in Verdict /\ FindingAccepted(f)

LEMMA BuiltVerdict ==
  ASSUME NEW G, NEW start, NEW target, NEW chain
  PROVE  BuildFinding(G, start, target, chain).verdict \in Verdict
<1> DEFINE checks  == ChainChecks(G, target, chain)
           overlay == AssessProbeOverlay(ChainProbes(G, chain))
<1>1. BuildFinding(G, start, target, chain).verdict = OverlaidVerdict(ComputeVerdict(checks), overlay)
  BY DEF BuildFinding
<1>2. overlay.override \in {"none", "INCONCLUSIVE", "BLOCKED"}
  BY OverlayConsistent
<1> HIDE DEF checks, overlay
<1>3. ComputeVerdict(checks) \in Verdict
  BY DEF ComputeVerdict, Verdict
<1> QED  BY <1>1, <1>2, <1>3 DEF OverlaidVerdict, Verdict

LEMMA JudgedInit == Init => Judged
  BY DEF Init, Judged

LEMMA JudgedNext == TypeOK /\ Judged /\ [Next]_vars => Judged'
<1> SUFFICES ASSUME TypeOK, Judged, [Next]_vars PROVE Judged'
  OBVIOUS
<1>1. CASE Pop /\ Reportable(Head(frontier))
  <2> DEFINE entry == Head(frontier)
             new   == BuildFinding(facts, source, entry.at, entry.chain)
  <2>1. findings' = findings \cup {new} /\ frontier # <<>>
    BY <1>1 DEF Pop, Report
  <2>2. entry \in Entry /\ source \in Principals
    BY <2>1 DEF TypeOK
  <2>3. new.source \in Principals /\ new.chain \in Seq(Hop)
    BY <2>2 DEF BuildFinding, Entry
  <2>4. new.verdict \in Verdict /\ FindingAccepted(new)
    BY BuiltVerdict, BuiltFindingAccepted
  <2> HIDE DEF new
  <2> QED  BY <2>1, <2>3, <2>4 DEF Judged
<1>2. CASE ~ (Pop /\ Reportable(Head(frontier)))
  <2>1. findings' = findings
    BY <1>2 DEF Next, ChooseSource, Pop, Report, WalkDone, SkipEdge, TakeHop, EdgesDone, Finish,
                Terminated, vars
  <2> QED  BY <2>1 DEF Judged
<1> QED  BY <1>1, <1>2

(***************************************************************************)
(* The reasoner never aborts on its own findings, whatever is bound to the *)
(* edges of a chain and whatever the probes saw.                           *)
(***************************************************************************)
THEOREM FindingsAreAccepted == Spec => []FindingsAccepted
<1>1. Judged => FindingsAccepted
  BY DEF Judged, FindingsAccepted
<1> QED  BY <1>1, JudgedInit, JudgedNext, TypeCorrect, PTL DEF Spec

-----------------------------------------------------------------------------
(***************************************************************************)
(* The operators of AdminChains, in the terms of this module.              *)
(***************************************************************************)
LEMMA SameTerms ==
  /\ Promise!Principals = Principals
  /\ \A G, p : Promise!PermissionEdgesFrom(G, p) = PermissionEdgesFrom(G, p)
  /\ \A G, p, r : Promise!AdmittingTrustEdges(G, p, r) = AdmittingTrustEdges(G, p, r)
  /\ \A G, p : Promise!IsAdmin(G, p) <=> IsAdmin(G, p)
<1>1. Promise!Principals = Principals
  BY DEF Promise!Principals, Principals
<1>2. \A G, p : Promise!PermissionEdgesFrom(G, p) = PermissionEdgesFrom(G, p)
  BY DEF Promise!PermissionEdgesFrom, PermissionEdgesFrom
<1>3. \A e, p : Promise!Admits(e, p) <=> Admits(e, p)
  BY DEF Promise!Admits, Admits
<1>4. \A G, r : Promise!TrustPolicyOf(G, r) = TrustPolicyOf(G, r)
  BY DEF Promise!TrustPolicyOf, TrustPolicyOf
<1>5. \A G, p, r : Promise!AdmittingTrustEdges(G, p, r) = AdmittingTrustEdges(G, p, r)
  BY <1>3, <1>4 DEF Promise!AdmittingTrustEdges, AdmittingTrustEdges
<1>6. \A G, p : Promise!IsAdmin(G, p) <=> IsAdmin(G, p)
  BY DEF Promise!IsAdmin, IsAdmin
<1> QED
  BY <1>1, <1>2, <1>5, <1>6

LEMMA HopSays ==
  ASSUME NEW G, NEW p, NEW r, NEW w
  PROVE  w \in Promise!HopWitnesses(G, p, r) <=>
           \E i \in PermissionEdgesFrom(G, p), j \in AdmittingTrustEdges(G, p, r) :
             G.perm[i].dst = r /\ w = <<i, j>>
<1> DEFINE P == PermissionEdgesFrom(G, p)
           A == AdmittingTrustEdges(G, p, r)
<1>1. Promise!HopWitnesses(G, p, r) = {x \in P \X A : G.perm[x[1]].dst = r}
  BY SameTerms DEF Promise!HopWitnesses
<1> HIDE DEF P, A
<1>2. w \in {x \in P \X A : G.perm[x[1]].dst = r} <=>
        \E i \in P, j \in A : G.perm[i].dst = r /\ w = <<i, j>>
  OBVIOUS
<1> QED
  BY <1>1, <1>2 DEF P, A

LEMMA SuccessorsSays ==
  ASSUME NEW G, NEW S, NEW hops, NEW r
  PROVE  r \in Promise!Successors(G, S, hops) <=>
           /\ r \in Roles
           /\ \E p \in S : \E w \in Promise!HopWitnesses(G, p, r) : w \in hops
  BY DEF Promise!Successors

-----------------------------------------------------------------------------
(***************************************************************************)
(* Induction on the number of hops, with the set of numbers that have a    *)
(* property in the place of the property.                                  *)
(***************************************************************************)
LEMMA SetInduction ==
  ASSUME NEW T, 0 \in T, \A n \in Nat : n \in T => n + 1 \in T
  PROVE  \A n \in Nat : n \in T
<1> DEFINE Below == {ss \in Nat \X Nat : ss[1] < ss[2]}
           S == Nat \ T
<1>1. IsWellFoundedOn(Below, Nat)
  BY NatLessThanWellFounded DEF OpToRel
<1>2. S \in SUBSET Nat
  OBVIOUS
<1> SUFFICES S = {}
  OBVIOUS
<1> SUFFICES ASSUME S # {} PROVE FALSE
  OBVIOUS
<1> HIDE DEF Below, S
<1>3. PICK x \in S : \A y \in S : ~ (<<y, x>> \in Below)
  BY <1>1, <1>2, WFMin, Zenon
<1>4. \A y \in S : ~ (y < x)
  BY <1>2, <1>3 DEF Below
<1>5. x \in Nat /\ x \notin T /\ x # 0
  BY DEF S
<1>6. x - 1 \in Nat /\ x - 1 \notin S
  BY <1>4, <1>5
<1>7. x - 1 \in T
  BY <1>6 DEF S
<1> QED
  BY <1>5, <1>6, <1>7

\* What one more hop leads to. The recursive function is defined: stages up
\* to a number of hops exist and agree.
LEMMA ReachedSays ==
  ASSUME NEW G, NEW s, NEW hops
  PROVE  /\ Promise!Reached(G, s, hops)[0] = {s}
         /\ \A k \in Nat : Promise!Reached(G, s, hops)[k + 1] =
              Promise!Successors(G, Promise!Reached(G, s, hops)[k], hops)
<1> DEFINE start == {s}
           grown(S) == Promise!Successors(G, S, hops)
           IsStage(g, n) == g = [k \in 0 .. n |-> IF k = 0 THEN start ELSE grown(g[k - 1])]
           IsAll(g) == g = [k \in Nat |-> IF k = 0 THEN start ELSE grown(g[k - 1])]
           all == CHOOSE g : IsAll(g)
<1>1. Promise!Reached(G, s, hops) = all
  BY DEF Promise!Reached
<1> HIDE DEF start, grown
<1>2. \A n \in Nat : \E g : IsStage(g, n)
  <2> DEFINE T == {n \in Nat : \E g : IsStage(g, n)}
  <2>1. 0 \in T
    <3> DEFINE g0 == [k \in 0 .. 0 |-> start]
    <3>1. IsStage(g0, 0)
      OBVIOUS
    <3> QED
      BY <3>1
  <2>2. ASSUME NEW n \in Nat, n \in T PROVE n + 1 \in T
    <3>1. PICK g : IsStage(g, n)
      BY <2>2
    <3> DEFINE h == [k \in 0 .. n + 1 |-> IF k <= n THEN g[k] ELSE grown(g[n])]
    <3>2. \A k \in 0 .. n : g[k] = IF k = 0 THEN start ELSE grown(g[k - 1])
      BY <3>1
    <3>3. \A k \in 0 .. n + 1 : h[k] = IF k = 0 THEN start ELSE grown(h[k - 1])
      <4> TAKE k \in 0 .. n + 1
      <4>1. CASE k <= n
        BY <3>2, <4>1
      <4>2. CASE k = n + 1
        BY <4>2
      <4> QED
        BY <4>1, <4>2
    <3>4. h = [k \in 0 .. n + 1 |-> h[k]]
      OBVIOUS
    <3> HIDE DEF h
    <3>5. IsStage(h, n + 1)
      BY <3>3, <3>4
    <3> QED
      BY <3>5
  <2> HIDE DEF T
  <2>3. \A n \in Nat : n \in T
    BY <2>1, <2>2, SetInduction
  <2> QED
    BY <2>3 DEF T
<1>3. ASSUME NEW n \in Nat, NEW m \in Nat, NEW g, NEW h, IsStage(g, n), IsStage(h, m)
      PROVE  \A k \in Nat : k <= n /\ k <= m => g[k] = h[k]
  <2> DEFINE T == {k \in Nat : k <= n /\ k <= m => g[k] = h[k]}
  <2>1. \A k \in 0 .. n : g[k] = IF k = 0 THEN start ELSE grown(g[k - 1])
    BY <1>3
  <2>2. \A k \in 0 .. m : h[k] = IF k = 0 THEN start ELSE grown(h[k - 1])
    BY <1>3
  <2>3. 0 \in T
    BY <2>1, <2>2
  <2>4. ASSUME NEW k \in Nat, k \in T PROVE k + 1 \in T
    BY <2>1, <2>2, <2>4
  <2> HIDE DEF T
  <2>5. \A k \in Nat : k \in T
    BY <2>3, <2>4, SetInduction
  <2> QED
    BY <2>5 DEF T
<1>4. \E g : IsAll(g)
  <2> DEFINE stage(n) == CHOOSE g : IsStage(g, n)
             f == [n \in Nat |-> stage(n)[n]]
  <2>1. \A n \in Nat : IsStage(stage(n), n)
    BY <1>2
  <2>2. ASSUME NEW n \in Nat PROVE f[n] = IF n = 0 THEN start ELSE grown(f[n - 1])
    <3> HIDE DEF stage
    <3>1. stage(n)[n] = IF n = 0 THEN start ELSE grown(stage(n)[n - 1])
      BY <2>1
    <3>2. n # 0 => stage(n)[n - 1] = stage(n - 1)[n - 1]
      <4> HAVE n # 0
      <4>1. n - 1 \in Nat /\ n - 1 <= n
        OBVIOUS
      <4>2. IsStage(stage(n), n) /\ IsStage(stage(n - 1), n - 1)
        BY <2>1, <4>1
      <4> HIDE DEF IsStage
      <4> QED
        BY <1>3, <4>1, <4>2
    <3> QED
      BY <3>1, <3>2
  <2>3. f = [n \in Nat |-> f[n]]
    OBVIOUS
  <2> HIDE DEF f
  <2>4. IsAll(f)
    BY <2>2, <2>3
  <2> QED
    BY <2>4
<1>5. IsAll(all)
  BY <1>4
<1> HIDE DEF all
<1>6. \A k \in Nat : all[k] = IF k = 0 THEN start ELSE grown(all[k - 1])
  BY <1>5
<1>7. all[0] = start /\ \A k \in Nat : all[k + 1] = grown(all[k])
  BY <1>6
<1> QED
  BY <1>1, <1>7 DEF start, grown

LEMMA ReachedStart ==
  ASSUME NEW G, NEW s, NEW hops PROVE Promise!Reached(G, s, hops)[0] = {s}
  BY ReachedSays, Zenon

LEMMA ReachedNext ==
  ASSUME NEW G, NEW s, NEW hops, NEW k \in Nat
  PROVE  Promise!Reached(G, s, hops)[k + 1] =
           Promise!Successors(G, Promise!Reached(G, s, hops)[k], hops)
  BY ReachedSays

-----------------------------------------------------------------------------
(***************************************************************************)
(* Distances over all hops, and what is known of them: a principal has one *)
(* distance, and stretches of hops compose.                                *)
(***************************************************************************)
Steps(G, s, k) == Promise!Reached(G, s, Promise!AllHops(G))[k]

Away(G, s, d) == Promise!AtDistance(G, s, d)

Near(G, s, d) == UNION {Steps(G, s, k) : k \in 0 .. d}

MayAssume(G, p, r) == r \in Roles /\ Promise!HopWitnesses(G, p, r) # {}

LEMMA NoSteps ==
  ASSUME NEW G, NEW s PROVE Steps(G, s, 0) = {s}
<1> DEFINE all == Promise!AllHops(G)
<1> HIDE DEF all
<1>1. Promise!Reached(G, s, all)[0] = {s}
  BY ReachedStart
<1> QED
  BY <1>1 DEF Steps, all

LEMMA OneMoreStep ==
  ASSUME NEW G, NEW s, NEW k \in Nat, NEW r
  PROVE  r \in Steps(G, s, k + 1) <=> \E p \in Steps(G, s, k) : MayAssume(G, p, r)
<1> DEFINE all == Promise!AllHops(G)
           by == Promise!Reached(G, s, all)
<1>1. all = (DOMAIN G.perm) \X (DOMAIN G.trust)
  BY DEF Promise!AllHops
<1>2. \A p : \A w \in Promise!HopWitnesses(G, p, r) : w \in all
  <2> SUFFICES ASSUME NEW p, NEW w \in Promise!HopWitnesses(G, p, r) PROVE w \in all
    OBVIOUS
  <2>1. PICK i \in PermissionEdgesFrom(G, p), j \in AdmittingTrustEdges(G, p, r) : w = <<i, j>>
    BY HopSays
  <2>2. i \in DOMAIN G.perm /\ j \in DOMAIN G.trust
    BY DEF PermissionEdgesFrom, AdmittingTrustEdges, TrustPolicyOf
  <2> QED
    BY <1>1, <2>1, <2>2
<1> HIDE DEF all
<1>3. by[k + 1] = Promise!Successors(G, by[k], all)
  BY ReachedNext
<1>4. r \in by[k + 1] <=>
        /\ r \in Roles
        /\ \E p \in by[k] : \E w \in Promise!HopWitnesses(G, p, r) : w \in all
  BY <1>3, SuccessorsSays
<1> QED
  BY <1>2, <1>4 DEF Steps, MayAssume, all

LEMMA AwaySays ==
  ASSUME NEW G, NEW s, NEW d \in Nat, NEW t
  PROVE  t \in Away(G, s, d) <=>
           t \in Steps(G, s, d) /\ \A k \in Nat : k < d => t \notin Steps(G, s, k)
<1>1. Away(G, s, d) = Steps(G, s, d) \ UNION {Steps(G, s, k) : k \in 0 .. d - 1}
  BY DEF Away, Steps, Promise!AtDistance
<1>2. \A k : k \in 0 .. d - 1 <=> k \in Nat /\ k < d
  OBVIOUS
<1> QED
  BY <1>1, <1>2

LEMMA NearSays ==
  ASSUME NEW G, NEW s, NEW d \in Nat, NEW t
  PROVE  t \in Near(G, s, d) <=> \E k \in Nat : k <= d /\ t \in Steps(G, s, k)
<1>1. \A k : k \in 0 .. d <=> k \in Nat /\ k <= d
  OBVIOUS
<1> QED
  BY <1>1 DEF Near

LEMMA OneDistance ==
  ASSUME NEW G, NEW s, NEW d \in Nat, NEW e \in Nat, NEW t,
         t \in Away(G, s, d), t \in Away(G, s, e)
  PROVE  d = e
<1>1. CASE d < e
  BY <1>1, AwaySays
<1>2. CASE e < d
  BY <1>2, AwaySays
<1> QED
  BY <1>1, <1>2

LEMMA StepsCompose ==
  ASSUME NEW G, NEW s, NEW p, NEW t, NEW a \in Nat, NEW b \in Nat,
         p \in Steps(G, s, a), t \in Steps(G, p, b)
  PROVE  t \in Steps(G, s, a + b)
<1> DEFINE T == {n \in Nat : \A x \in Steps(G, p, n) : x \in Steps(G, s, a + n)}
<1>1. 0 \in T
  BY NoSteps
<1>2. ASSUME NEW n \in Nat, n \in T PROVE n + 1 \in T
  <2> SUFFICES ASSUME NEW x \in Steps(G, p, n + 1) PROVE x \in Steps(G, s, a + (n + 1))
    OBVIOUS
  <2>1. PICK y \in Steps(G, p, n) : MayAssume(G, y, x)
    BY OneMoreStep
  <2>2. y \in Steps(G, s, a + n)
    BY <1>2, <2>1
  <2>3. a + n \in Nat /\ a + (n + 1) = (a + n) + 1
    OBVIOUS
  <2> HIDE DEF T
  <2> QED
    BY <2>1, <2>2, <2>3, OneMoreStep
<1> HIDE DEF T
<1>3. \A n \in Nat : n \in T
  BY <1>1, <1>2, SetInduction
<1> QED
  BY <1>3 DEF T

LEMMA NowhereFrom ==
  ASSUME NEW G, NEW s, PermissionEdgesFrom(G, s) = {}
  PROVE  \A n \in Nat : Steps(G, s, n + 1) = {}
<1> DEFINE T == {n \in Nat : Steps(G, s, n + 1) = {}}
<1>1. 0 \in T
  <2> SUFFICES ASSUME NEW r \in Steps(G, s, 0 + 1) PROVE FALSE
    OBVIOUS
  <2>0. \E p \in Steps(G, s, 0) : MayAssume(G, p, r)
    <3>1. 0 \in Nat
      OBVIOUS
    <3> QED
      BY <3>1, OneMoreStep, Zenon
  <2>1. MayAssume(G, s, r)
    BY <2>0, NoSteps
  <2>2. PICK w : w \in Promise!HopWitnesses(G, s, r)
    BY <2>1 DEF MayAssume
  <2> QED
    BY <2>2, HopSays
<1>2. ASSUME NEW n \in Nat, n \in T PROVE n + 1 \in T
  BY <1>2, OneMoreStep
<1> HIDE DEF T
<1>3. \A n \in Nat : n \in T
  BY <1>1, <1>2, SetInduction
<1> QED
  BY <1>3 DEF T

-----------------------------------------------------------------------------
(***************************************************************************)
(* Chains as stretches of hops. A chain as long as its target is away is a *)
(* shortest one at every stop, and each of its hops is on a shortest chain. *)
(***************************************************************************)
Pair(h) == <<h.perm, h.trust>>

LEMMA HopTaken ==
  ASSUME NEW G \in FactGraphs, NEW s, NEW chain \in Seq(Hop), Authorized(G, s, chain),
         NEW k \in DOMAIN chain
  PROVE  /\ Pair(chain[k]) \in Promise!HopWitnesses(G, Stop(G, s, chain, k - 1), Stop(G, s, chain, k))
         /\ Stop(G, s, chain, k) \in Roles
         /\ chain[k].perm \in DOMAIN G.perm /\ chain[k].trust \in DOMAIN G.trust
<1> DEFINE p == Stop(G, s, chain, k - 1)
           r == Stop(G, s, chain, k)
<1>1. chain[k].perm \in PermissionEdgesFrom(G, p) /\ chain[k].trust \in AdmittingTrustEdges(G, p, r)
  BY DEF Authorized
<1>2. r = G.perm[chain[k].perm].dst
  <2>1. k # 0
    OBVIOUS
  <2> QED
    BY <2>1 DEF Stop
<1>3. chain[k].trust \in DOMAIN G.trust /\ G.trust[chain[k].trust].dst = r
  BY <1>1 DEF AdmittingTrustEdges, TrustPolicyOf
<1>4. r \in Roles
  BY <1>3, EdgeTypes
<1>5. chain[k].perm \in DOMAIN G.perm
  BY <1>1 DEF PermissionEdgesFrom
<1> HIDE DEF p, r
<1>6. Pair(chain[k]) \in Promise!HopWitnesses(G, p, r)
  BY <1>1, <1>2, HopSays DEF Pair
<1> QED
  BY <1>3, <1>4, <1>5, <1>6 DEF p, r

LEMMA ChainReaches ==
  ASSUME NEW G \in FactGraphs, NEW s, NEW chain \in Seq(Hop), Authorized(G, s, chain),
         NEW hops, \A k \in DOMAIN chain : Pair(chain[k]) \in hops,
         NEW k \in Nat, NEW m \in Nat, k + m <= Len(chain)
  PROVE  Stop(G, s, chain, k + m) \in Promise!Reached(G, Stop(G, s, chain, k), hops)[m]
<1> DEFINE S(n) == Stop(G, s, chain, n)
           by == Promise!Reached(G, S(k), hops)
           T == {n \in Nat : k + n <= Len(chain) => S(k + n) \in by[n]}
<1>0. Len(chain) \in Nat /\ DOMAIN chain = 1 .. Len(chain)
  OBVIOUS
<1>1. by[0] = {S(k)}
  BY ReachedStart
<1>11. \A n \in Nat : by[n + 1] = Promise!Successors(G, by[n], hops)
  BY ReachedNext
<1>2. \A n \in DOMAIN chain : /\ Pair(chain[n]) \in Promise!HopWitnesses(G, S(n - 1), S(n))
                              /\ S(n) \in Roles
  BY HopTaken
<1> HIDE DEF S, by
<1>3. 0 \in T
  <2>1. k + 0 = k
    OBVIOUS
  <2> QED
    BY <1>1, <2>1
<1>4. ASSUME NEW n \in Nat, n \in T PROVE n + 1 \in T
  <2> SUFFICES ASSUME k + (n + 1) <= Len(chain) PROVE S(k + (n + 1)) \in by[n + 1]
    OBVIOUS
  <2>1. k + n \in Nat /\ k + n <= Len(chain) /\ k + (n + 1) \in 1 .. Len(chain)
        /\ (k + (n + 1)) - 1 = k + n
    BY <1>0
  <2>2. S(k + n) \in by[n]
    BY <1>4, <2>1
  <2>3. /\ Pair(chain[k + (n + 1)]) \in Promise!HopWitnesses(G, S(k + n), S(k + (n + 1)))
        /\ S(k + (n + 1)) \in Roles
        /\ Pair(chain[k + (n + 1)]) \in hops
    BY <1>0, <1>2, <2>1
  <2>4. S(k + (n + 1)) \in Promise!Successors(G, by[n], hops)
    BY <2>2, <2>3, SuccessorsSays
  <2> QED
    BY <1>11, <2>4
<1> HIDE DEF T
<1>5. \A n \in Nat : n \in T
  BY <1>3, <1>4, SetInduction
<1> QED
  BY <1>5 DEF T, S, by

LEMMA ChainSteps ==
  ASSUME NEW G \in FactGraphs, NEW s, NEW chain \in Seq(Hop), Authorized(G, s, chain),
         NEW k \in Nat, NEW m \in Nat, k + m <= Len(chain)
  PROVE  Stop(G, s, chain, k + m) \in Steps(G, Stop(G, s, chain, k), m)
<1>1. \A n \in DOMAIN chain : Pair(chain[n]) \in Promise!AllHops(G)
  BY HopTaken DEF Pair, Promise!AllHops
<1> QED
  BY <1>1, ChainReaches DEF Steps

LEMMA ShortestStops ==
  ASSUME NEW G \in FactGraphs, NEW s, NEW chain \in Seq(Hop), Authorized(G, s, chain),
         Stop(G, s, chain, Len(chain)) \in Away(G, s, Len(chain)),
         NEW k \in Nat, k <= Len(chain)
  PROVE  /\ Stop(G, s, chain, k) \in Away(G, s, k)
         /\ Stop(G, s, chain, Len(chain)) \in Away(G, Stop(G, s, chain, k), Len(chain) - k)
<1> DEFINE n == Len(chain)
           S(i) == Stop(G, s, chain, i)
<1>0. n \in Nat /\ n - k \in Nat /\ k + (n - k) = n /\ 0 + k = k
  OBVIOUS
<1>1. S(0) = s
  BY DEF Stop
<1>2. S(k) \in Steps(G, s, k)
  BY <1>0, <1>1, ChainSteps
<1>3. S(n) \in Steps(G, S(k), n - k)
  BY <1>0, ChainSteps
<1>4. \A i \in Nat : i < n => S(n) \notin Steps(G, s, i)
  BY <1>0, AwaySays
<1> HIDE DEF S, n
<1>5. ASSUME NEW i \in Nat, i < k, S(k) \in Steps(G, s, i) PROVE FALSE
  <2>1. i + (n - k) \in Nat /\ i + (n - k) < n
    BY <1>0, <1>5
  <2>2. S(n) \in Steps(G, s, i + (n - k))
    BY <1>0, <1>3, <1>5, StepsCompose
  <2> QED
    BY <1>4, <2>1, <2>2
<1>6. ASSUME NEW i \in Nat, i < n - k, S(n) \in Steps(G, S(k), i) PROVE FALSE
  <2>1. k + i \in Nat /\ k + i < n
    BY <1>0, <1>6
  <2>2. S(n) \in Steps(G, s, k + i)
    BY <1>2, <1>6, StepsCompose
  <2> QED
    BY <1>4, <2>1, <2>2
<1>7. S(k) \in Away(G, s, k)
  BY <1>2, <1>5, AwaySays
<1>8. S(n) \in Away(G, S(k), n - k)
  BY <1>0, <1>3, <1>6, AwaySays
<1> QED
  BY <1>7, <1>8 DEF S, n

LEMMA ShortestHopsTaken ==
  ASSUME NEW G \in FactGraphs, NEW s, NEW chain \in Seq(Hop), Authorized(G, s, chain),
         NEW t, t = Stop(G, s, chain, Len(chain)), t \in Away(G, s, Len(chain)),
         NEW k \in DOMAIN chain
  PROVE  Pair(chain[k]) \in Promise!ShortestHops(G, s, t, Len(chain))
<1> DEFINE n == Len(chain)
           p == Stop(G, s, chain, k - 1)
           r == Stop(G, s, chain, k)
           hopsAt(i) == UNION { Promise!HopWitnesses(G, x, y) :
                                  x \in Promise!AtDistance(G, s, i - 1),
                                  y \in {q \in Roles : t \in Promise!AtDistance(G, q, n - i)} }
<1>0. k \in 1 .. n /\ k - 1 \in Nat /\ k \in Nat /\ k - 1 <= n /\ k <= n
  OBVIOUS
<1>1. p \in Away(G, s, k - 1) /\ t \in Away(G, r, n - k)
  BY <1>0, ShortestStops
<1>2. Pair(chain[k]) \in Promise!HopWitnesses(G, p, r) /\ r \in Roles
  BY HopTaken
<1>3. Promise!ShortestHops(G, s, t, n) = UNION {hopsAt(i) : i \in 1 .. n}
  BY DEF Promise!ShortestHops
<1> HIDE DEF p, r, n
<1>4. Pair(chain[k]) \in hopsAt(k)
  BY <1>1, <1>2 DEF Away
<1> HIDE DEF hopsAt
<1>5. Pair(chain[k]) \in Promise!ShortestHops(G, s, t, n)
  BY <1>0, <1>3, <1>4
<1> QED
  BY <1>5 DEF n

-----------------------------------------------------------------------------
(***************************************************************************)
(* What the checks and the probe overlay of a chain say of its hops.       *)
(***************************************************************************)
SureIn(bindings) == \E b \in bindings : BlocksForSure(b)

DoubtIn(bindings) == \E b \in bindings : IsAmbiguous(b)

ControlsOn(G, h) ==
  G.perm[h.perm].scp \cup G.perm[h.perm].boundary \cup G.perm[h.perm].deny
    \cup G.trust[h.trust].scp \cup G.trust[h.trust].drift

UnknownHop(G, h) == UnknownPermission(G.perm[h.perm]) \/ UnknownTrust(G.trust[h.trust])

LEMMA BlockerStateSays ==
  ASSUME NEW S
  PROVE  /\ BlockerState(S) = "FAIL" <=> SureIn(S)
         /\ BlockerState(S) = "UNKNOWN" <=> DoubtIn(S) /\ ~ SureIn(S)
  BY DEF BlockerState, SureIn, DoubtIn

LEMMA TristateSays ==
  ASSUME NEW S
  PROVE  /\ AndTristateMany(S) = "FAIL" <=> "FAIL" \in S
         /\ AndTristateMany(S) = "UNKNOWN" <=> "UNKNOWN" \in S /\ "FAIL" \notin S
  BY DEF AndTristateMany

LEMMA HopEdges ==
  ASSUME NEW G, NEW chain
  PROVE  /\ \A e : e \in PermOf(G, chain) <=> \E k \in DOMAIN chain : e = G.perm[chain[k].perm]
         /\ \A e : e \in TrustOf(G, chain) <=> \E k \in DOMAIN chain : e = G.trust[chain[k].trust]
  BY DEF PermOf, TrustOf, PermsOf, TrustsOf, HopsOf

LEMMA ChecksSay ==
  ASSUME NEW G, NEW target, NEW chain
  PROVE  LET checks == ChainChecks(G, target, chain)
             last   == G.admin[target].boundary
         IN  /\ (\E kind \in GovernanceKinds : checks[kind] = "FAIL") <=>
                  (\E k \in DOMAIN chain : SureIn(ControlsOn(G, chain[k]))) \/ SureIn(last)
             /\ (\E kind \in GovernanceKinds : checks[kind] \in {"FAIL", "UNKNOWN"}) <=>
                  \/ \E k \in DOMAIN chain : SureIn(ControlsOn(G, chain[k])) \/ DoubtIn(ControlsOn(G, chain[k]))
                  \/ SureIn(last) \/ DoubtIn(last)
             /\ checks["clean_hops"] = "UNKNOWN" <=> \E k \in DOMAIN chain : UnknownHop(G, chain[k])
<1> DEFINE checks == ChainChecks(G, target, chain)
           last   == G.admin[target].boundary
           P == PermOf(G, chain)
           Q == TrustOf(G, chain)
<1>1. /\ checks["scp"] = ScpCheck(G, chain)
      /\ checks["permission_boundary"] = BoundaryCheck(G, target, chain)
      /\ checks["identity_deny"] = DenyCheck(G, chain)
      /\ checks["stale_principal_drift"] = DriftCheck(G, chain)
      /\ checks["clean_hops"] = CleanHopCheck(G, chain)
  BY DEF ChainChecks, GovernanceKinds
<1>2. \A T : (\E kind \in GovernanceKinds : checks[kind] \in T) <=>
               \/ ScpCheck(G, chain) \in T
               \/ BoundaryCheck(G, target, chain) \in T
               \/ DenyCheck(G, chain) \in T
               \/ DriftCheck(G, chain) \in T
  BY <1>1 DEF GovernanceKinds
<1>3. /\ ScpCheck(G, chain) = "FAIL" <=> (\E e \in P : SureIn(e.scp)) \/ (\E e \in Q : SureIn(e.scp))
      /\ ScpCheck(G, chain) \in {"FAIL", "UNKNOWN"} <=>
           (\E e \in P : SureIn(e.scp) \/ DoubtIn(e.scp)) \/ (\E e \in Q : SureIn(e.scp) \/ DoubtIn(e.scp))
  <2> DEFINE S == {BlockerState(e.scp) : e \in P} \cup {BlockerState(e.scp) : e \in Q}
  <2>1. \A x : x \in S <=> (\E e \in P : x = BlockerState(e.scp)) \/ (\E e \in Q : x = BlockerState(e.scp))
    OBVIOUS
  <2>2. ScpCheck(G, chain) = AndTristateMany(S)
    BY DEF ScpCheck
  <2> HIDE DEF S, P, Q
  <2> QED
    BY <2>1, <2>2, TristateSays, BlockerStateSays
<1>4. /\ BoundaryCheck(G, target, chain) = "FAIL" <=> (\E e \in P : SureIn(e.boundary)) \/ SureIn(last)
      /\ BoundaryCheck(G, target, chain) \in {"FAIL", "UNKNOWN"} <=>
           (\E e \in P : SureIn(e.boundary) \/ DoubtIn(e.boundary)) \/ SureIn(last) \/ DoubtIn(last)
  <2> DEFINE S == {BlockerState(e.boundary) : e \in P} \cup {BlockerState(last)}
  <2>1. \A x : x \in S <=> (\E e \in P : x = BlockerState(e.boundary)) \/ x = BlockerState(last)
    OBVIOUS
  <2>2. BoundaryCheck(G, target, chain) = AndTristateMany(S)
    BY DEF BoundaryCheck
  <2> HIDE DEF S, P, Q, last
  <2> QED
    BY <2>1, <2>2, TristateSays, BlockerStateSays
<1>5. /\ DenyCheck(G, chain) = "FAIL" <=> \E e \in P : SureIn(e.deny)
      /\ DenyCheck(G, chain) \in {"FAIL", "UNKNOWN"} <=> \E e \in P : SureIn(e.deny) \/ DoubtIn(e.deny)
  <2> DEFINE S == {BlockerState(e.deny) : e \in P}
  <2>1. \A x : x \in S <=> \E e \in P : x = BlockerState(e.deny)
    OBVIOUS
  <2>2. DenyCheck(G, chain) = AndTristateMany(S)
    BY DEF DenyCheck
  <2> HIDE DEF S, P
  <2> QED
    BY <2>1, <2>2, TristateSays, BlockerStateSays
<1>6. /\ DriftCheck(G, chain) = "FAIL" <=> \E e \in Q : SureIn(e.drift)
      /\ DriftCheck(G, chain) \in {"FAIL", "UNKNOWN"} <=> \E e \in Q : SureIn(e.drift) \/ DoubtIn(e.drift)
  <2> DEFINE S == {BlockerState(e.drift) : e \in Q}
  <2>1. \A x : x \in S <=> \E e \in Q : x = BlockerState(e.drift)
    OBVIOUS
  <2>2. DriftCheck(G, chain) = AndTristateMany(S)
    BY DEF DriftCheck
  <2> HIDE DEF S, Q
  <2> QED
    BY <2>1, <2>2, TristateSays, BlockerStateSays
<1>7. \A h : /\ SureIn(ControlsOn(G, h)) <=>
                  \/ SureIn(G.perm[h.perm].scp) \/ SureIn(G.perm[h.perm].boundary)
                  \/ SureIn(G.perm[h.perm].deny)
                  \/ SureIn(G.trust[h.trust].scp) \/ SureIn(G.trust[h.trust].drift)
             /\ DoubtIn(ControlsOn(G, h)) <=>
                  \/ DoubtIn(G.perm[h.perm].scp) \/ DoubtIn(G.perm[h.perm].boundary)
                  \/ DoubtIn(G.perm[h.perm].deny)
                  \/ DoubtIn(G.trust[h.trust].scp) \/ DoubtIn(G.trust[h.trust].drift)
  BY DEF ControlsOn, SureIn, DoubtIn
<1>8. checks["clean_hops"] = "UNKNOWN" <=> \E k \in DOMAIN chain : UnknownHop(G, chain[k])
  BY <1>1, HopEdges DEF CleanHopCheck, UnknownHop
<1>9. (\E kind \in GovernanceKinds : checks[kind] = "FAIL") <=>
        (\E k \in DOMAIN chain : SureIn(ControlsOn(G, chain[k]))) \/ SureIn(last)
  <2>1. (\E kind \in GovernanceKinds : checks[kind] = "FAIL") <=>
          \/ ScpCheck(G, chain) = "FAIL" \/ BoundaryCheck(G, target, chain) = "FAIL"
          \/ DenyCheck(G, chain) = "FAIL" \/ DriftCheck(G, chain) = "FAIL"
    BY <1>1 DEF GovernanceKinds
  <2> HIDE DEF checks, last
  <2> QED
    BY <2>1, <1>3, <1>4, <1>5, <1>6, <1>7, HopEdges
<1>10. (\E kind \in GovernanceKinds : checks[kind] \in {"FAIL", "UNKNOWN"}) <=>
         \/ \E k \in DOMAIN chain : SureIn(ControlsOn(G, chain[k])) \/ DoubtIn(ControlsOn(G, chain[k]))
         \/ SureIn(last) \/ DoubtIn(last)
  <2> DEFINE T == {"FAIL", "UNKNOWN"}
  <2>1. (\E kind \in GovernanceKinds : checks[kind] \in T) <=>
               \/ ScpCheck(G, chain) \in T
               \/ BoundaryCheck(G, target, chain) \in T
               \/ DenyCheck(G, chain) \in T
               \/ DriftCheck(G, chain) \in T
    BY <1>2
  <2> HIDE DEF checks, last, T
  <2>2. /\ ScpCheck(G, chain) \in T <=>
             (\E e \in P : SureIn(e.scp) \/ DoubtIn(e.scp)) \/ (\E e \in Q : SureIn(e.scp) \/ DoubtIn(e.scp))
        /\ BoundaryCheck(G, target, chain) \in T <=>
             (\E e \in P : SureIn(e.boundary) \/ DoubtIn(e.boundary)) \/ SureIn(last) \/ DoubtIn(last)
        /\ DenyCheck(G, chain) \in T <=> \E e \in P : SureIn(e.deny) \/ DoubtIn(e.deny)
        /\ DriftCheck(G, chain) \in T <=> \E e \in Q : SureIn(e.drift) \/ DoubtIn(e.drift)
    BY <1>3, <1>4, <1>5, <1>6 DEF T
  <2>3. (\E kind \in GovernanceKinds : checks[kind] \in T) <=>
         \/ \E k \in DOMAIN chain : SureIn(ControlsOn(G, chain[k])) \/ DoubtIn(ControlsOn(G, chain[k]))
         \/ SureIn(last) \/ DoubtIn(last)
    BY <2>1, <2>2, <1>7, HopEdges
  <2> QED
    BY <2>3 DEF T
<1> QED
  BY <1>8, <1>9, <1>10

LEMMA OverlaySays ==
  ASSUME NEW latest
  PROVE  LET override == AssessProbeOverlay(latest).override
             denied   == \E r \in latest : r.state = "probed_correlated_denied"
             doubtful == \E r \in latest :
               \/ r.state \in {"confounded_skip", "probed_correlated_disagreement"}
               \/ r.state = "probed_correlated_allowed" /\ r.confounded
         IN  /\ override \in {"none", "BLOCKED", "INCONCLUSIVE"}
             /\ override = "BLOCKED" <=> denied
             /\ override = "INCONCLUSIVE" <=> doubtful /\ ~ denied
  BY DEF AssessProbeOverlay, Assessment, LiveProbeState

DeniedIn(records) == \E r \in records : r.state = "probed_correlated_denied"

DoubtfulIn(records) ==
  \E r \in records :
    \/ r.state \in {"confounded_skip", "probed_correlated_disagreement"}
    \/ r.state = "probed_correlated_allowed" /\ r.confounded

ProbesOn(G, h) == LatestProbe(G.perm[h.perm]) \cup LatestProbe(G.trust[h.trust])

LEMMA CleanSays ==
  ASSUME NEW G, NEW h
  PROVE  /\ Promise!HopClean(G, Pair(h)) <=>
              /\ ~ UnknownHop(G, h)
              /\ ~ SureIn(ControlsOn(G, h)) /\ ~ DoubtIn(ControlsOn(G, h))
              /\ ~ DeniedIn(ProbesOn(G, h)) /\ ~ DoubtfulIn(ProbesOn(G, h))
         /\ Promise!HopStopped(G, Pair(h)) <=>
              SureIn(ControlsOn(G, h)) \/ DeniedIn(ProbesOn(G, h))
<1> DEFINE p == G.perm[h.perm]
           q == G.trust[h.trust]
           C == p.scp \cup p.boundary \cup p.deny \cup q.scp \cup q.drift
<1>1. Pair(h)[1] = h.perm /\ Pair(h)[2] = h.trust
  BY DEF Pair
<1>2. /\ \A b : Promise!BlocksForSure(b) <=> BlocksForSure(b)
      /\ \A b : Promise!IsAmbiguous(b) <=> IsAmbiguous(b)
      /\ \A e : Promise!UnknownPermission(e) <=> UnknownPermission(e)
      /\ \A e : Promise!UnknownTrust(e) <=> UnknownTrust(e)
  BY DEF Promise!BlocksForSure, BlocksForSure, Promise!IsAmbiguous, IsAmbiguous,
         Promise!UnknownPermission, UnknownPermission, Promise!UnknownTrust, UnknownTrust
<1>3. \A e : Promise!LatestProbe(e) = LatestProbe(e)
  BY DEF Promise!LatestProbe, LatestProbe
<1>4. \A e : /\ Promise!ProbeDenied(e) <=> DeniedIn(LatestProbe(e))
             /\ Promise!ProbeDoubtful(e) <=> DoubtfulIn(LatestProbe(e))
  BY <1>3 DEF Promise!ProbeDenied, Promise!ProbeDoubtful, DeniedIn, DoubtfulIn
<1>5. /\ DeniedIn(ProbesOn(G, h)) <=> DeniedIn(LatestProbe(p)) \/ DeniedIn(LatestProbe(q))
      /\ DoubtfulIn(ProbesOn(G, h)) <=> DoubtfulIn(LatestProbe(p)) \/ DoubtfulIn(LatestProbe(q))
  BY DEF ProbesOn, DeniedIn, DoubtfulIn
<1>6. Promise!HopClean(G, Pair(h)) <=>
        /\ ~ UnknownPermission(p) /\ ~ UnknownTrust(q)
        /\ \A b \in C : ~ BlocksForSure(b) /\ ~ IsAmbiguous(b)
        /\ \A e \in {p, q} : ~ DeniedIn(LatestProbe(e)) /\ ~ DoubtfulIn(LatestProbe(e))
  BY <1>1, <1>2, <1>4 DEF Promise!HopClean
<1>7. Promise!HopStopped(G, Pair(h)) <=>
        \/ \E b \in C : BlocksForSure(b)
        \/ DeniedIn(LatestProbe(p)) \/ DeniedIn(LatestProbe(q))
  BY <1>1, <1>2, <1>4 DEF Promise!HopStopped
<1>8. C = ControlsOn(G, h) /\ (UnknownHop(G, h) <=> UnknownPermission(p) \/ UnknownTrust(q))
  BY DEF ControlsOn, UnknownHop
<1> HIDE DEF p, q, C
<1>9. Promise!HopClean(G, Pair(h)) <=>
        /\ ~ UnknownHop(G, h)
        /\ ~ SureIn(ControlsOn(G, h)) /\ ~ DoubtIn(ControlsOn(G, h))
        /\ ~ DeniedIn(ProbesOn(G, h)) /\ ~ DoubtfulIn(ProbesOn(G, h))
  BY <1>5, <1>6, <1>8 DEF SureIn, DoubtIn
<1>10. Promise!HopStopped(G, Pair(h)) <=>
         SureIn(ControlsOn(G, h)) \/ DeniedIn(ProbesOn(G, h))
  BY <1>5, <1>7, <1>8 DEF SureIn
<1> QED
  BY <1>9, <1>10

(***************************************************************************)
(* The verdict of a finding is one a shortest chain gives reason for.      *)
(***************************************************************************)
LEMMA VerdictJustified ==
  ASSUME NEW G \in FactGraphs, NEW s, NEW chain \in Seq(Hop), Authorized(G, s, chain),
         NEW t, t = Stop(G, s, chain, Len(chain)), t \in Away(G, s, Len(chain))
  PROVE  LET verdict == BuildFinding(G, s, t, chain).verdict
         IN  /\ verdict \in {"VALIDATED", "BLOCKED", "INCONCLUSIVE"}
             /\ Promise!Justified(G, s, t, Len(chain), verdict)
<1> DEFINE n        == Len(chain)
           checks   == ChainChecks(G, t, chain)
           override == AssessProbeOverlay(ChainProbes(G, chain)).override
           base     == ComputeVerdict(checks)
           verdict  == IF override = "none" THEN base ELSE override
           last     == G.admin[t].boundary
           sure     == (\E k \in DOMAIN chain : SureIn(ControlsOn(G, chain[k]))) \/ SureIn(last)
           doubt    == (\E k \in DOMAIN chain : DoubtIn(ControlsOn(G, chain[k]))) \/ DoubtIn(last)
           unknown  == \E k \in DOMAIN chain : UnknownHop(G, chain[k])
           denied   == \E k \in DOMAIN chain : DeniedIn(ProbesOn(G, chain[k]))
           doubtful == \E k \in DOMAIN chain : DoubtfulIn(ProbesOn(G, chain[k]))
<1>1. BuildFinding(G, s, t, chain).verdict = verdict
  BY DEF BuildFinding, OverlaidVerdict
<1>2. /\ (\E kind \in GovernanceKinds : checks[kind] = "FAIL") <=> sure
      /\ (\E kind \in GovernanceKinds : checks[kind] \in {"FAIL", "UNKNOWN"}) <=> sure \/ doubt
      /\ checks["clean_hops"] = "UNKNOWN" <=> unknown
  BY ChecksSay
<1>3. DOMAIN checks = GovernanceKinds \cup {"clean_hops"}
  BY DEF ChainChecks
<1>4. /\ base \in {"VALIDATED", "BLOCKED", "INCONCLUSIVE"}
      /\ base = "BLOCKED" <=> sure
      /\ base = "INCONCLUSIVE" <=> ~ sure /\ (doubt \/ unknown)
  <2> HIDE DEF checks, sure, doubt, unknown
  <2>1. (\E kind \in DOMAIN checks : checks[kind] = "UNKNOWN") <=>
          (\E kind \in GovernanceKinds : checks[kind] = "UNKNOWN") \/ unknown
    BY <1>2, <1>3
  <2>2. ~ sure => ((\E kind \in GovernanceKinds : checks[kind] = "UNKNOWN") <=> doubt)
    BY <1>2
  <2> QED
    BY <1>2, <2>1, <2>2 DEF ComputeVerdict
<1>5. DeniedIn(ChainProbes(G, chain)) <=> denied
  BY HopEdges DEF ChainProbes, DeniedIn, ProbesOn
<1>6. DoubtfulIn(ChainProbes(G, chain)) <=> doubtful
  BY HopEdges DEF ChainProbes, DoubtfulIn, ProbesOn
<1>7. /\ override \in {"none", "BLOCKED", "INCONCLUSIVE"}
      /\ override = "BLOCKED" <=> DeniedIn(ChainProbes(G, chain))
      /\ override = "INCONCLUSIVE" <=> DoubtfulIn(ChainProbes(G, chain)) /\ ~ DeniedIn(ChainProbes(G, chain))
  BY OverlaySays DEF DeniedIn, DoubtfulIn
<1>8. \A k \in DOMAIN chain : Pair(chain[k]) \in Promise!ShortestHops(G, s, t, n)
  BY ShortestHopsTaken
<1>9. /\ \A b : Promise!BlocksForSure(b) <=> BlocksForSure(b)
      /\ \A b : Promise!IsAmbiguous(b) <=> IsAmbiguous(b)
  BY DEF Promise!BlocksForSure, BlocksForSure, Promise!IsAmbiguous, IsAmbiguous
<1> HIDE DEF checks, override, base, n
<1>10. CASE verdict = "VALIDATED"
  <2>1. ~ sure /\ ~ doubt /\ ~ unknown /\ ~ denied /\ ~ doubtful
    BY <1>4, <1>5, <1>6, <1>7, <1>10
  <2>2. \A k \in DOMAIN chain : Promise!HopClean(G, Pair(chain[k]))
    BY <2>1, CleanSays
  <2>3. \A k \in DOMAIN chain : Pair(chain[k]) \in Promise!CleanHops(G)
    BY <2>2, HopTaken DEF Promise!CleanHops, Promise!AllHops, Pair
  <2>4. t \in Promise!Reached(G, s, Promise!CleanHops(G))[n]
    <3> DEFINE clean == Promise!CleanHops(G)
    <3>1. n \in Nat /\ 0 \in Nat /\ 0 + n = n /\ 0 + n <= Len(chain) /\ Stop(G, s, chain, 0) = s
      BY DEF Stop, n
    <3>2. \A k \in DOMAIN chain : Pair(chain[k]) \in clean
      BY <2>3
    <3> HIDE DEF clean
    <3>3. Stop(G, s, chain, 0 + n) \in Promise!Reached(G, Stop(G, s, chain, 0), clean)[n]
      BY <3>1, <3>2, ChainReaches
    <3> QED
      BY <3>1, <3>3 DEF clean, n
  <2>5. \A b \in last : ~ BlocksForSure(b) /\ ~ IsAmbiguous(b)
    BY <2>1 DEF SureIn, DoubtIn
  <2>6. Promise!Justified(G, s, t, n, "VALIDATED")
    BY <1>9, <2>4, <2>5 DEF Promise!Justified
  <2> QED
    BY <1>1, <1>10, <2>6 DEF n
<1>11. CASE verdict = "BLOCKED"
  <2>1. sure \/ denied
    BY <1>4, <1>5, <1>7, <1>11
  <2>2. (\E k \in DOMAIN chain : Promise!HopStopped(G, Pair(chain[k]))) \/ SureIn(last)
    BY <2>1, CleanSays
  <2>3. \/ \E w \in Promise!ShortestHops(G, s, t, n) : Promise!HopStopped(G, w)
        \/ \E b \in last : BlocksForSure(b)
    BY <1>8, <2>2 DEF SureIn
  <2>4. Promise!Justified(G, s, t, n, "BLOCKED")
    BY <1>9, <2>3 DEF Promise!Justified
  <2> QED
    BY <1>1, <1>11, <2>4 DEF n
<1>12. CASE verdict = "INCONCLUSIVE"
  <2>1. doubt \/ unknown \/ doubtful
    BY <1>4, <1>5, <1>6, <1>7, <1>12
  <2>2. (\E k \in DOMAIN chain : ~ Promise!HopClean(G, Pair(chain[k]))) \/ DoubtIn(last)
    BY <2>1, CleanSays
  <2>3. \/ \E w \in Promise!ShortestHops(G, s, t, n) : ~ Promise!HopClean(G, w)
        \/ \E b \in last : IsAmbiguous(b)
    BY <1>8, <2>2 DEF DoubtIn
  <2>4. Promise!Justified(G, s, t, n, "INCONCLUSIVE")
    BY <1>9, <2>3 DEF Promise!Justified
  <2> QED
    BY <1>1, <1>12, <2>4 DEF n
<1>13. verdict \in {"VALIDATED", "BLOCKED", "INCONCLUSIVE"}
  BY <1>4, <1>7
<1> QED
  BY <1>10, <1>11, <1>12, <1>13, <1>1

-----------------------------------------------------------------------------
(***************************************************************************)
(* The walk keeps the promise of AdminChains. What is inductive is that    *)
(* every entry stands at the distance its chain is long, that what is no   *)
(* farther than the frontier was visited, and that whoever was visited is  *)
(* in line, or was reported if due and led on to all it may assume.        *)
(***************************************************************************)
Walking == phase \in {"pop", "walk"}

Reported(G, F, s, t) ==
  \A d \in MinChain .. MaxDepth :
    t \in Away(G, s, d) /\ IsAdmin(G, t) =>
      \E f \in F : f.source = s /\ f.target = t /\ Len(f.chain) = d

LedOn(G, V, p) == \A r \in Roles : MayAssume(G, p, r) => r \in V

Tried(G, V, rest, p) ==
  \A r \in Roles : \A w \in Promise!HopWitnesses(G, p, r) : w[1] \in rest \/ r \in V

Placed(e) == e.at \in Away(facts, source, Len(e.chain))

InLine(v) == \E k \in DOMAIN frontier : frontier[k].at = v

Attended(v) ==
  /\ Reported(facts, findings, source, v)
  /\ \/ LedOn(facts, visited, v)
     \/ v \in Away(facts, source, MaxDepth)
     \/ phase = "walk" /\ v = here.at

Due ==
  /\ source \in visited
  /\ \A v \in visited : InLine(v) \/ Attended(v)
  /\ phase = "walk" => Tried(facts, visited, todo, here.at)

Distances ==
  /\ \A k \in DOMAIN frontier : Placed(frontier[k])
  /\ phase = "pop" /\ frontier # <<>> =>
       Near(facts, source, Len(frontier[1].chain)) \subseteq visited
  /\ phase = "walk" => /\ Placed(here)
                       /\ Near(facts, source, Len(here.chain)) \subseteq visited

Books ==
  /\ seen = {<<f.source, f.target>> : f \in findings}
  /\ \A f \in findings : /\ f.source \in Principals
                         /\ f.target \in Away(facts, f.source, Len(f.chain))
  /\ \A s \in Principals :
       s \in waiting \/ (Walking /\ s = source) \/ \A t \in Roles : Reported(facts, findings, s, t)
  /\ phase = "done" => waiting = {}

DInv == (Walking => Due /\ Distances) /\ Books

LEMMA ReportedGrows ==
  ASSUME NEW G, NEW F, NEW F2, F \subseteq F2, NEW s, NEW t, Reported(G, F, s, t)
  PROVE  Reported(G, F2, s, t)
  BY DEF Reported

LEMMA BooksKept ==
  ASSUME Books, UNCHANGED <<facts, waiting, source, seen, findings>>,
         Walking' <=> Walking, phase' # "done"
  PROVE  Books'
  BY DEF Books

LEMMA DistInit == Init => DInv
<1> SUFFICES ASSUME Init PROVE DInv
  OBVIOUS
<1>1. ~ Walking /\ seen = {} /\ findings = {} /\ phase # "done"
  BY DEF Init, Walking
<1>2. ASSUME NEW s \in Principals, s \notin waiting, NEW t PROVE Reported(facts, findings, s, t)
  <2>1. PermissionEdgesFrom(facts, s) = {}
    <3>1. HasAssumeRole(facts, s) = "FAIL"
      BY <1>2 DEF Init
    <3> QED
      BY <3>1 DEF HasAssumeRole
  <2> SUFFICES ASSUME NEW d \in MinChain .. MaxDepth, t \in Away(facts, s, d) PROVE FALSE
    BY DEF Reported
  <2>2. d \in Nat /\ d - 1 \in Nat /\ (d - 1) + 1 = d
    BY WalkBounds
  <2>3. Steps(facts, s, (d - 1) + 1) = {}
    BY <2>1, <2>2, NowhereFrom
  <2> QED
    BY <2>2, <2>3, AwaySays
<1> QED
  BY <1>1, <1>2 DEF DInv, Books

LEMMA DistChoose ==
  ASSUME IInv, DInv, NEW p \in waiting, ChooseSource(p)
  PROVE  DInv'
<1>1. /\ phase = "choose" /\ phase' = "pop" /\ source' = p /\ visited' = {p}
      /\ frontier' = << [at |-> p, chain |-> <<>>] >> /\ waiting' = waiting \ {p}
      /\ UNCHANGED <<facts, here, todo, seen, findings>>
  BY DEF ChooseSource
<1>2. Books'
  BY <1>1 DEF DInv, Books, Walking
<1>3. p \in Away(facts, p, 0)
  BY NoSteps, AwaySays
<1>4. Near(facts, p, 0) \subseteq {p}
  <2> SUFFICES ASSUME NEW x \in Near(facts, p, 0) PROVE x = p
    OBVIOUS
  <2>1. PICK k \in Nat : k <= 0 /\ x \in Steps(facts, p, k)
    BY NearSays
  <2>2. k = 0
    BY <2>1
  <2> QED
    BY <2>1, <2>2, NoSteps
<1>5. /\ frontier' # <<>> /\ DOMAIN frontier' = {1}
      /\ frontier'[1].at = p /\ frontier'[1].chain = <<>> /\ Len(frontier'[1].chain) = 0
  BY <1>1
<1>6. Distances'
  BY <1>1, <1>3, <1>4, <1>5 DEF Distances, Placed
<1>7. Due'
  BY <1>1, <1>5 DEF Due, InLine
<1> QED
  BY <1>2, <1>6, <1>7 DEF DInv

LEMMA DistWalkDone ==
  ASSUME IInv, DInv, WalkDone
  PROVE  DInv'
<1>1. /\ phase = "pop" /\ frontier = <<>> /\ phase' = "choose"
      /\ UNCHANGED <<facts, waiting, source, visited, seen, findings>>
  BY DEF WalkDone, walk
<1>2. ~ Walking' /\ phase' # "done" /\ Walking
  BY <1>1 DEF Walking
<1>3. \A v \in visited : /\ Reported(facts, findings, source, v)
                         /\ LedOn(facts, visited, v) \/ v \in Away(facts, source, MaxDepth)
  BY <1>1, <1>2 DEF DInv, Due, InLine, Attended
<1>4. \A k \in Nat : k <= MaxDepth => Steps(facts, source, k) \subseteq visited
  <2> DEFINE T == {k \in Nat : k <= MaxDepth => Steps(facts, source, k) \subseteq visited}
  <2>1. 0 \in T
    BY <1>2, NoSteps DEF DInv, Due
  <2>2. ASSUME NEW k \in Nat, k \in T PROVE k + 1 \in T
    <3> SUFFICES ASSUME k + 1 <= MaxDepth, NEW r \in Steps(facts, source, k + 1) PROVE r \in visited
      OBVIOUS
    <3>1. PICK q \in Steps(facts, source, k) : MayAssume(facts, q, r)
      BY OneMoreStep
    <3>2. k < MaxDepth /\ k <= MaxDepth
      BY WalkBounds
    <3>3. q \in visited
      BY <2>2, <3>1, <3>2
    <3>4. q \notin Away(facts, source, MaxDepth)
      BY <3>1, <3>2, AwaySays, WalkBounds
    <3> QED
      BY <1>3, <3>1, <3>3, <3>4 DEF LedOn, MayAssume
  <2> HIDE DEF T
  <2>3. \A k \in Nat : k \in T
    BY <2>1, <2>2, SetInduction
  <2> QED
    BY <2>3 DEF T
<1>5. ASSUME NEW t \in Roles PROVE Reported(facts, findings, source, t)
  <2> SUFFICES ASSUME NEW d \in MinChain .. MaxDepth, t \in Away(facts, source, d)
               PROVE  Reported(facts, findings, source, t)
    BY DEF Reported
  <2>1. d \in Nat /\ d <= MaxDepth
    BY WalkBounds
  <2>2. t \in visited
    BY <1>4, <2>1, AwaySays
  <2> QED
    BY <1>3, <2>2
<1>6. Books'
  BY <1>1, <1>2, <1>5 DEF DInv, Books
<1> QED
  BY <1>2, <1>6 DEF DInv

LEMMA DistPop ==
  ASSUME IInv, DInv, Pop
  PROVE  DInv'
<1> DEFINE entry == Head(frontier)
           n == Len(entry.chain)
<1>1. /\ frontier \in Seq(Entry) /\ frontier # <<>> /\ entry = frontier[1] /\ 1 \in DOMAIN frontier
      /\ entry \in Entry /\ entry.chain \in Seq(Hop) /\ n \in Nat
  <2>1. frontier \in Seq(Entry) /\ frontier # <<>>
    BY DEF Pop, IInv, TypeOK
  <2>2. entry = frontier[1] /\ 1 \in DOMAIN frontier /\ entry \in Entry
    BY <2>1
  <2>3. entry.chain \in Seq(Hop)
    BY <2>2 DEF Entry
  <2> QED
    BY <2>1, <2>2, <2>3
<1>2. /\ phase = "pop" /\ here' = entry /\ frontier' = Tail(frontier)
      /\ UNCHANGED <<facts, waiting, source, visited>>
  BY DEF Pop, Dequeued
<1>3. \/ n >= MaxDepth /\ phase' = "pop"
      \/ n < MaxDepth /\ phase' = "walk" /\ todo' = PermissionEdgesFrom(facts, entry.at)
  <2>1. CASE n >= MaxDepth
    BY <2>1 DEF Pop
  <2>2. CASE ~ (n >= MaxDepth)
    BY <2>2, <1>1, WalkBounds DEF Pop
  <2> QED
    BY <2>1, <2>2
<1>4. Walking /\ Walking' /\ phase' # "done"
  BY <1>2, <1>3 DEF Walking
<1>5. /\ \A i \in DOMAIN frontier' : i + 1 \in DOMAIN frontier /\ frontier'[i] = frontier[i + 1]
      /\ \A i \in DOMAIN frontier : i = 1 \/ (i - 1 \in DOMAIN frontier' /\ frontier'[i - 1] = frontier[i])
  BY <1>1, <1>2
<1>6. /\ entry.at \in Away(facts, source, n)
      /\ Near(facts, source, n) \subseteq visited
  BY <1>1, <1>2, <1>4 DEF DInv, Distances, Placed
<1>7. n <= MaxDepth
  BY <1>1 DEF IInv, BreadthFirst
<1> DEFINE new == BuildFinding(facts, source, entry.at, entry.chain)
<1>8. new.source = source /\ new.target = entry.at /\ new.chain = entry.chain
  BY DEF BuildFinding
<1>9. \/ /\ Reportable(entry)
         /\ seen' = seen \cup {<<source, entry.at>>} /\ findings' = findings \cup {new}
      \/ ~ Reportable(entry) /\ seen' = seen /\ findings' = findings
  BY DEF Pop, Report
<1> HIDE DEF new
<1>10. findings \subseteq findings'
  BY <1>9
<1>11. Reported(facts, findings', source, entry.at)
  <2> SUFFICES ASSUME NEW d \in MinChain .. MaxDepth,
                      entry.at \in Away(facts, source, d), IsAdmin(facts, entry.at)
               PROVE  \E f \in findings' : f.source = source /\ f.target = entry.at /\ Len(f.chain) = d
    BY DEF Reported
  <2>1. d = n
    <3>1. d \in Nat
      BY WalkBounds
    <3> HIDE DEF entry, n
    <3> QED
      BY <1>1, <1>6, <3>1, OneDistance
  <2>2. CASE Reportable(entry)
    BY <1>8, <1>9, <2>1, <2>2
  <2>3. CASE ~ Reportable(entry)
    <3>1. <<source, entry.at>> \in seen
      BY <2>1, <2>3, WalkBounds DEF Reportable
    <3>2. PICK f \in findings : f.source = source /\ f.target = entry.at
      BY <3>1 DEF DInv, Books
    <3>3. entry.at \in Away(facts, source, Len(f.chain)) /\ Len(f.chain) \in Nat
      BY <3>2, WalkBounds DEF DInv, Books, IInv, ChainsAuthorized
    <3>4. Len(f.chain) = n
      <4> DEFINE m == Len(f.chain)
      <4> HIDE DEF entry, n, m
      <4>1. m \in Nat /\ entry.at \in Away(facts, source, m)
        BY <3>3 DEF m
      <4> QED
        BY <1>1, <1>6, <4>1, OneDistance DEF m
    <3> QED
      BY <1>10, <2>1, <3>2, <3>4
  <2> QED
    BY <2>2, <2>3
<1>12. Books'
  <2>1. seen' = {<<f.source, f.target>> : f \in findings'}
    BY <1>8, <1>9 DEF DInv, Books
  <2>2. \A f \in findings' : f.source \in Principals /\ f.target \in Away(facts, f.source, Len(f.chain))
    <3>1. new.source \in Principals /\ new.target \in Away(facts, new.source, Len(new.chain))
      BY <1>6, <1>8 DEF IInv, TypeOK
    <3> QED
      BY <1>9, <3>1 DEF DInv, Books
  <2>3. \A s \in Principals : s \in waiting \/ s = source \/ \A t \in Roles : Reported(facts, findings', s, t)
    BY <1>10, ReportedGrows DEF DInv, Books
  <2> QED
    BY <1>2, <1>4, <2>1, <2>2, <2>3 DEF Books
<1>13. Distances'
  <2>1. \A k \in DOMAIN frontier' : frontier'[k].at \in Away(facts, source, Len(frontier'[k].chain))
    BY <1>4, <1>5 DEF DInv, Distances, Placed
  <2>2. phase' = "pop" /\ frontier' # <<>> =>
          Near(facts, source, Len(frontier'[1].chain)) \subseteq visited
    <3> HAVE phase' = "pop" /\ frontier' # <<>>
    <3>1. n = MaxDepth
      BY <1>1, <1>3, <1>7, WalkBounds
    <3>2. 2 \in DOMAIN frontier /\ frontier'[1] = frontier[2]
      BY <1>1, <1>2
    <3>3. Len(frontier[2].chain) = n
      <4>1. Len(frontier[2].chain) <= MaxDepth /\ n <= Len(frontier[2].chain)
        BY <1>1, <3>2 DEF IInv, BreadthFirst
      <4>2. frontier[2] \in Entry
        BY <1>1, <3>2
      <4>3. frontier[2].chain \in Seq(Hop)
        BY <4>2 DEF Entry
      <4>4. Len(frontier[2].chain) \in Nat
        BY <4>3
      <4> QED
        BY <1>1, <3>1, <4>1, <4>4, WalkBounds
    <3> QED
      BY <1>6, <3>2, <3>3
  <2>3. here'.at \in Away(facts, source, Len(here'.chain))
        /\ Near(facts, source, Len(here'.chain)) \subseteq visited
    BY <1>2, <1>6
  <2> HIDE DEF entry, n
  <2> QED
    BY <1>2, <2>1, <2>2, <2>3 DEF Distances, Placed
<1>14. Due'
  <2>1. ASSUME NEW v \in visited
        PROVE  \/ \E k \in DOMAIN frontier' : frontier'[k].at = v
               \/ /\ Reported(facts, findings', source, v)
                  /\ \/ LedOn(facts, visited, v)
                     \/ v \in Away(facts, source, MaxDepth)
                     \/ phase' = "walk" /\ v = here'.at
    <3>1. InLine(v) \/ Attended(v)
      BY <1>4, <2>1 DEF DInv, Due
    <3>2. CASE Attended(v)
      <4>1. Reported(facts, findings', source, v)
        BY <1>10, <3>2, ReportedGrows DEF Attended
      <4> QED
        BY <1>2, <3>2, <4>1 DEF Attended
    <3>3. ASSUME NEW k \in DOMAIN frontier, frontier[k].at = v, k # 1
          PROVE  \E i \in DOMAIN frontier' : frontier'[i].at = v
      BY <1>5, <3>3
    <3>4. CASE v = entry.at
      <4>1. Reported(facts, findings', source, v)
        BY <1>11, <3>4
      <4>2. CASE n >= MaxDepth
        <5>1. n = MaxDepth
          BY <1>1, <1>7, <4>2, WalkBounds
        <5> QED
          BY <1>6, <3>4, <4>1, <5>1
      <4>3. CASE n < MaxDepth
        <5>1. phase' = "walk" /\ v = here'.at
          BY <1>1, <1>2, <1>3, <3>4, <4>3, WalkBounds
        <5> QED
          BY <4>1, <5>1
      <4> QED
        BY <1>1, <4>2, <4>3, WalkBounds
    <3> QED
      BY <1>1, <3>1, <3>2, <3>3, <3>4 DEF InLine
  <2>2. phase' = "walk" => Tried(facts, visited, todo', here'.at)
    <3> HAVE phase' = "walk"
    <3>1. todo' = PermissionEdgesFrom(facts, entry.at)
      BY <1>3
    <3>2. \A r \in Roles : \A w \in Promise!HopWitnesses(facts, entry.at, r) :
            w[1] \in PermissionEdgesFrom(facts, entry.at)
      BY HopSays
    <3> QED
      BY <1>2, <3>1, <3>2 DEF Tried
  <2>3. source \in visited
    BY <1>4 DEF DInv, Due
  <2> QED
    BY <1>2, <2>1, <2>2, <2>3 DEF Due, InLine, Attended
<1> QED
  BY <1>12, <1>13, <1>14 DEF DInv

LEMMA DistSkip ==
  ASSUME IInv, DInv, NEW i \in todo, SkipEdge(i)
  PROVE  DInv'
<1> DEFINE next == facts.perm[i].dst
<1>1. /\ phase = "walk" /\ todo' = todo \ {i}
      /\ next \in visited \/ AdmittingHere(next) = {}
      /\ UNCHANGED <<facts, waiting, source, frontier, visited, here, seen, findings, phase>>
  BY DEF SkipEdge
<1>2. Walking /\ Walking'
  BY <1>1 DEF Walking
<1>3. Books'
  BY <1>1, <1>2, BooksKept DEF DInv
<1>4. Distances'
  BY <1>1, <1>2 DEF DInv, Distances, Placed
<1>5. Tried(facts, visited, todo', here.at)
  <2>1. Tried(facts, visited, todo, here.at)
    BY <1>1, <1>2 DEF DInv, Due
  <2> SUFFICES ASSUME NEW r \in Roles, NEW w \in Promise!HopWitnesses(facts, here.at, r)
               PROVE  w[1] \in todo' \/ r \in visited
    BY DEF Tried
  <2>2. w[1] \in todo \/ r \in visited
    BY <2>1 DEF Tried
  <2>3. CASE w[1] = i
    <3>1. r = next /\ AdmittingHere(r) # {}
      BY <2>3, HopSays DEF AdmittingHere
    <3> QED
      BY <1>1, <3>1
  <2> QED
    BY <1>1, <2>2, <2>3
<1>6. Due'
  <2>1. Due
    BY <1>2 DEF DInv
  <2>2. \A v \in visited : InLine(v)' \/ Attended(v)'
    BY <1>1, <2>1 DEF Due, InLine, Attended
  <2> QED
    BY <1>1, <1>5, <2>1, <2>2 DEF Due
<1> QED
  BY <1>3, <1>4, <1>6 DEF DInv

LEMMA DistTake ==
  ASSUME IInv, DInv, NEW i \in todo, NEW j \in DOMAIN facts.trust, TakeHop(i, j)
  PROVE  DInv'
<1> DEFINE next == facts.perm[i].dst
           hop == [perm |-> i, trust |-> j]
           entry == [at |-> next, chain |-> Append(here.chain, hop)]
           n == Len(here.chain)
<1>1. /\ phase = "walk" /\ todo' = todo \ {i}
      /\ next \notin visited /\ j \in AdmittingTrustEdges(facts, here.at, next)
      /\ visited' = visited \cup {next} /\ frontier' = Append(frontier, entry)
      /\ UNCHANGED <<facts, waiting, source, here, seen, findings, phase>>
  BY DEF TakeHop, IsFirst, AdmittingHere, Enqueued
<1>2. Walking /\ Walking'
  BY <1>1 DEF Walking
<1>3. /\ facts \in FactGraphs /\ frontier \in Seq(Entry) /\ here.chain \in Seq(Hop) /\ n \in Nat
      /\ i \in PermissionEdgesFrom(facts, here.at)
  <2>1. facts \in FactGraphs /\ frontier \in Seq(Entry) /\ here \in Entry
    BY DEF IInv, TypeOK
  <2>2. here.chain \in Seq(Hop)
    BY <2>1 DEF Entry
  <2>3. i \in PermissionEdgesFrom(facts, here.at)
    BY <1>1 DEF IInv, WalkInv
  <2> QED
    BY <2>1, <2>2, <2>3
<1>4. next \in Roles /\ MayAssume(facts, here.at, next)
  <2>1. next \in Roles
    BY <1>1, <1>3, EdgeTypes DEF AdmittingTrustEdges, TrustPolicyOf
  <2>2. <<i, j>> \in Promise!HopWitnesses(facts, here.at, next)
    BY <1>1, <1>3, HopSays
  <2> QED
    BY <2>1, <2>2 DEF MayAssume
<1>5. /\ here.at \in Away(facts, source, n)
      /\ Near(facts, source, n) \subseteq visited
  BY <1>1, <1>2 DEF DInv, Distances, Placed
<1>6. next \in Away(facts, source, n + 1)
  <2> HIDE DEF next, n
  <2>1. next \in Steps(facts, source, n + 1)
    BY <1>3, <1>4, <1>5, AwaySays, OneMoreStep
  <2>2. ASSUME NEW k \in Nat, k < n + 1 PROVE next \notin Steps(facts, source, k)
    <3>1. k <= n
      BY <1>3, <2>2
    <3> QED
      BY <1>1, <1>3, <1>5, <3>1, NearSays
  <2> QED
    BY <1>3, <2>1, <2>2, AwaySays
<1>7. entry.at = next /\ Len(entry.chain) = n + 1
  BY <1>3
<1> HIDE DEF entry
<1>8. /\ DOMAIN frontier \subseteq DOMAIN frontier'
      /\ \A k \in DOMAIN frontier : frontier'[k] = frontier[k]
      /\ Len(frontier) + 1 \in DOMAIN frontier' /\ frontier'[Len(frontier) + 1] = entry
      /\ \A k \in DOMAIN frontier' : k \in DOMAIN frontier \/ frontier'[k] = entry
  BY <1>1, <1>3
<1>9. Books'
  BY <1>1, <1>2, BooksKept DEF DInv
<1>10. Distances'
  <2>1. \A k \in DOMAIN frontier' : frontier'[k].at \in Away(facts, source, Len(frontier'[k].chain))
    BY <1>2, <1>6, <1>7, <1>8 DEF DInv, Distances, Placed
  <2> QED
    BY <1>1, <1>5, <2>1 DEF Distances, Placed
<1>11. Tried(facts, visited', todo', here.at)
  <2>1. Tried(facts, visited, todo, here.at)
    BY <1>1, <1>2 DEF DInv, Due
  <2> SUFFICES ASSUME NEW r \in Roles, NEW w \in Promise!HopWitnesses(facts, here.at, r)
               PROVE  w[1] \in todo' \/ r \in visited'
    BY DEF Tried
  <2>2. w[1] \in todo \/ r \in visited
    BY <2>1 DEF Tried
  <2>3. CASE w[1] = i
    <3>1. r = next
      BY <2>3, HopSays
    <3> QED
      BY <1>1, <3>1
  <2> QED
    BY <1>1, <2>2, <2>3
<1>12. Due'
  <2>1. Due
    BY <1>2 DEF DInv
  <2>2. ASSUME NEW v \in visited' PROVE InLine(v)' \/ Attended(v)'
    <3>1. CASE v = next
      BY <1>7, <1>8, <3>1 DEF InLine
    <3>2. CASE v \in visited /\ InLine(v)
      BY <1>8, <3>2 DEF InLine
    <3>3. CASE v \in visited /\ Attended(v)
      BY <1>1, <3>3 DEF Attended, LedOn
    <3> QED
      BY <1>1, <2>1, <2>2, <3>1, <3>2, <3>3 DEF Due
  <2> QED
    BY <1>1, <1>11, <2>1, <2>2 DEF Due
<1> QED
  BY <1>9, <1>10, <1>12 DEF DInv

LEMMA DistEdgesDone ==
  ASSUME IInv, DInv, EdgesDone
  PROVE  DInv'
<1> DEFINE n == Len(here.chain)
<1>1. /\ phase = "walk" /\ todo = {} /\ phase' = "pop"
      /\ UNCHANGED <<facts, waiting, source, frontier, visited, here, todo, seen, findings>>
  BY DEF EdgesDone, walk
<1>2. Walking /\ Walking'
  BY <1>1 DEF Walking
<1>3. Due /\ Distances
  BY <1>2 DEF DInv
<1>4. LedOn(facts, visited, here.at)
  BY <1>1, <1>3 DEF Due, Tried, LedOn, MayAssume
<1>5. Due'
  <2>1. ASSUME NEW v \in visited PROVE InLine(v)' \/ Attended(v)'
    <3>1. InLine(v) \/ Attended(v)
      BY <1>3 DEF Due
    <3>2. CASE InLine(v)
      BY <1>1, <3>2 DEF InLine
    <3>3. CASE Attended(v)
      BY <1>1, <1>4, <3>3 DEF Attended
    <3> QED
      BY <3>1, <3>2, <3>3
  <2> QED
    BY <1>1, <1>3, <2>1 DEF Due
<1>6. n \in Nat /\ n < MaxDepth /\ frontier \in Seq(Entry)
  <2>1. here \in Entry /\ frontier \in Seq(Entry) /\ n < MaxDepth
    BY <1>1 DEF IInv, TypeOK, WalkInv
  <2>2. here.chain \in Seq(Hop)
    BY <2>1 DEF Entry
  <2> QED
    BY <2>1, <2>2
<1>7. Near(facts, source, n) \subseteq visited
  BY <1>1, <1>3 DEF Distances
<1>8. ASSUME frontier # <<>> PROVE Near(facts, source, Len(frontier[1].chain)) \subseteq visited
  <2> DEFINE m == Len(frontier[1].chain)
  <2>1. 1 \in DOMAIN frontier /\ m \in Nat
    <3>1. 1 \in DOMAIN frontier /\ frontier[1] \in Entry
      BY <1>6, <1>8
    <3>2. frontier[1].chain \in Seq(Hop)
      BY <3>1 DEF Entry
    <3> QED
      BY <3>1, <3>2
  <2>2. n <= m /\ m <= n + 1
    BY <1>1, <2>1 DEF IInv, WalkInv, HereLeads
  <2>3. ASSUME NEW k \in DOMAIN frontier
        PROVE  /\ m <= Len(frontier[k].chain) /\ Len(frontier[k].chain) \in Nat
               /\ frontier[k].at \in Away(facts, source, Len(frontier[k].chain))
    <3>1. frontier[k] \in Entry /\ k \in Nat /\ 1 <= k
      BY <1>6
    <3>2. frontier[k].chain \in Seq(Hop)
      BY <3>1 DEF Entry
    <3>3. Len(frontier[k].chain) \in Nat
      BY <3>2
    <3>4. m <= Len(frontier[k].chain)
      <4>1. CASE k = 1
        BY <2>1, <4>1
      <4>2. CASE 1 < k
        BY <2>1, <4>2 DEF IInv, BreadthFirst
      <4> QED
        BY <3>1, <4>1, <4>2
    <3> QED
      BY <1>3, <3>3, <3>4 DEF Distances, Placed
  <2> HIDE DEF m, n
  <2>4. CASE m = n
    BY <1>7, <2>4 DEF m
  <2>5. CASE m = n + 1
    <3> SUFFICES ASSUME NEW r \in Near(facts, source, m) PROVE r \in visited
      BY DEF m
    <3>1. PICK k \in Nat : k <= m /\ r \in Steps(facts, source, k)
      BY <2>1, NearSays
    <3>2. CASE k <= n
      <4>1. r \in Near(facts, source, n)
        BY <1>6, <3>1, <3>2, NearSays
      <4> QED
        BY <1>7, <4>1
    <3>3. CASE k = n + 1
      <4>1. PICK p \in Steps(facts, source, n) : MayAssume(facts, p, r)
        BY <1>6, <3>1, <3>3, OneMoreStep
      <4>2. p \in visited
        <5>1. p \in Near(facts, source, n)
          BY <1>6, <4>1, NearSays
        <5> QED
          BY <1>7, <5>1
      <4>3. ~ InLine(p)
        <5> SUFFICES ASSUME NEW l \in DOMAIN frontier, frontier[l].at = p PROVE FALSE
          BY DEF InLine
        <5> DEFINE e == Len(frontier[l].chain)
        <5>1. m <= e /\ e \in Nat /\ p \in Away(facts, source, e)
          BY <2>3
        <5> HIDE DEF e
        <5>2. n < e
          BY <1>6, <2>5, <5>1
        <5> QED
          BY <1>6, <4>1, <5>1, <5>2, AwaySays
      <4>4. p \notin Away(facts, source, MaxDepth)
        BY <1>6, <4>1, AwaySays, WalkBounds
      <4>5. LedOn(facts, visited, p)
        BY <1>3, <1>4, <4>2, <4>3, <4>4 DEF Due, Attended
      <4> QED
        BY <4>1, <4>5 DEF LedOn, MayAssume
    <3> QED
      BY <1>6, <2>5, <3>1, <3>2, <3>3
  <2> QED
    BY <1>6, <2>1, <2>2, <2>4, <2>5
<1>9. Distances'
  <2>1. \A k \in DOMAIN frontier : Placed(frontier[k])
    BY <1>3 DEF Distances
  <2> QED
    BY <1>1, <1>8, <2>1 DEF Distances, Placed
<1>10. Books'
  BY <1>1, <1>2, BooksKept DEF DInv
<1> QED
  BY <1>5, <1>9, <1>10 DEF DInv

LEMMA DistNext == IInv /\ DInv /\ [Next]_vars => DInv'
<1> SUFFICES ASSUME IInv, DInv, [Next]_vars PROVE DInv'
  OBVIOUS
<1>1. ASSUME NEW p \in waiting, ChooseSource(p) PROVE DInv'
  BY <1>1, DistChoose
<1>2. CASE Pop
  BY <1>2, DistPop
<1>3. CASE WalkDone
  BY <1>3, DistWalkDone
<1>4. ASSUME NEW i \in todo, SkipEdge(i) PROVE DInv'
  BY <1>4, DistSkip
<1>5. ASSUME NEW i \in todo, NEW j \in DOMAIN facts.trust, TakeHop(i, j) PROVE DInv'
  BY <1>5, DistTake
<1>6. CASE EdgesDone
  BY <1>6, DistEdgesDone
<1>7. CASE Finish
  <2>1. /\ phase = "choose" /\ waiting = {} /\ phase' = "done"
        /\ UNCHANGED <<facts, waiting, source, seen, findings>>
    BY <1>7 DEF Finish
  <2>2. ~ Walking /\ ~ Walking'
    BY <2>1 DEF Walking
  <2>3. Books'
    BY <2>1, <2>2 DEF DInv, Books
  <2> QED
    BY <2>2, <2>3 DEF DInv
<1>8. CASE UNCHANGED vars
  <2>1. /\ UNCHANGED <<facts, waiting, source, seen, findings, phase>>
        /\ UNCHANGED <<frontier, visited, here, todo>>
    BY <1>8 DEF vars, walk
  <2>2. Walking' <=> Walking
    BY <2>1 DEF Walking
  <2>3. Books'
    BY <2>1, <2>2 DEF DInv, Books
  <2>4. Distances => Distances'
    BY <2>1 DEF Distances, Placed
  <2>5. Due => Due'
    BY <2>1 DEF Due, InLine, Attended
  <2> QED
    BY <2>2, <2>3, <2>4, <2>5 DEF DInv
<1>9. CASE Terminated
  BY <1>8, <1>9 DEF Terminated
<1> QED
  BY <1>1, <1>2, <1>3, <1>4, <1>5, <1>6, <1>7, <1>8, <1>9 DEF Next

-----------------------------------------------------------------------------
(***************************************************************************)
(* The refinement, step by step: reporting a role is a Report of the       *)
(* promise, finishing is its Finish, and every other step is a stutter.    *)
(***************************************************************************)
LEMMA PromiseStarts == Init => Promise!Init
<1> SUFFICES ASSUME Init PROVE Promise!Init
  OBVIOUS
<1>1. facts \in FactGraphs
  BY WalkBounds DEF Init
<1>2. Promise!FactGraphs = FactGraphs
  <2>1. /\ Promise!Principals = Principals
        /\ Promise!TrustPrincipal = TrustPrincipal
        /\ Promise!TrustAction = TrustAction
        /\ Promise!Binding = Binding
        /\ Promise!ProbeRecord = ProbeRecord
    BY DEF Promise!Principals, Principals, Promise!TrustPrincipal, TrustPrincipal,
           Promise!TrustAction, TrustAction, Promise!AssumeRole, AssumeRole,
           Promise!Binding, Binding, Promise!Confidence, Confidence,
           Promise!ProbeRecord, ProbeRecord, Promise!ProbeState, ProbeState,
           Promise!LiveProbeState, LiveProbeState
  <2>2. /\ Promise!PermissionEdge = PermissionEdge
        /\ Promise!TrustEdge = TrustEdge
        /\ Promise!AdminWitness = AdminWitness
    BY <2>1 DEF Promise!PermissionEdge, PermissionEdge, Promise!TrustEdge, TrustEdge,
                Promise!AdminWitness, AdminWitness
  <2> QED
    BY <2>2 DEF Promise!FactGraphs, FactGraphs
<1>3. findings = {} /\ phase # "done"
  BY DEF Init
<1>4. {[source |-> f.source, target |-> f.target,
        length |-> Len(f.chain), verdict |-> f.verdict] : f \in findings} = {}
  BY <1>3
<1>5. (phase = "done") = FALSE
  BY <1>3
<1> QED
  BY <1>1, <1>2, <1>4, <1>5 DEF Promise!Init

LEMMA PromiseStutters ==
  ASSUME UNCHANGED <<facts, findings>>, phase' = "done" <=> phase = "done"
  PROVE  UNCHANGED Promise!vars
<1>1. (phase' = "done") = (phase = "done")
  OBVIOUS
<1> QED
  BY <1>1 DEF Promise!vars

LEMMA PromisePop ==
  ASSUME IInv, DInv, Pop
  PROVE  [Promise!Next]_(Promise!vars)
<1> DEFINE entry == Head(frontier)
           n == Len(entry.chain)
           new == BuildFinding(facts, source, entry.at, entry.chain)
           summary(f) == [source |-> f.source, target |-> f.target,
                          length |-> Len(f.chain), verdict |-> f.verdict]
<1>1. /\ entry = frontier[1] /\ 1 \in DOMAIN frontier
      /\ entry \in Entry /\ entry.chain \in Seq(Hop) /\ n \in Nat
      /\ facts \in FactGraphs /\ source \in Principals
  <2>1. frontier \in Seq(Entry) /\ frontier # <<>> /\ facts \in FactGraphs /\ source \in Principals
    BY DEF Pop, IInv, TypeOK
  <2>2. entry = frontier[1] /\ 1 \in DOMAIN frontier /\ entry \in Entry
    BY <2>1
  <2>3. entry.chain \in Seq(Hop)
    BY <2>2 DEF Entry
  <2> QED
    BY <2>1, <2>2, <2>3
<1>2. phase = "pop" /\ phase' \in {"pop", "walk"} /\ facts' = facts
  BY DEF Pop
<1>3. (phase' = "done") = (phase = "done") /\ ~ (phase = "done")
  BY <1>2
<1>4. CASE ~ Reportable(entry)
  <2>1. findings' = findings
    BY <1>4 DEF Pop, Report
  <2> QED
    BY <1>2, <2>1, PromiseStutters
<1>5. CASE Reportable(entry)
  <2>1. findings' = findings \cup {new}
    BY <1>5 DEF Pop, Report
  <2>2. new.source = source /\ new.target = entry.at /\ new.chain = entry.chain
    BY DEF BuildFinding
  <2>3. /\ Authorized(facts, source, entry.chain)
        /\ entry.at = Stop(facts, source, entry.chain, n)
        /\ n <= MaxDepth
    BY <1>1 DEF IInv, WalkInv, SoundEntry, BreadthFirst
  <2>4. n \in MinChain .. MaxDepth /\ IsAdmin(facts, entry.at) /\ entry.at \in Roles
    BY <1>1, <1>5, <2>3, WalkBounds DEF Reportable, IsAdmin
  <2>5. entry.at \in Away(facts, source, n)
    BY <1>1, <1>2 DEF DInv, Walking, Distances, Placed
  <2>6. /\ new.verdict \in {"VALIDATED", "BLOCKED", "INCONCLUSIVE"}
        /\ Promise!Justified(facts, source, entry.at, n, new.verdict)
    <3> DEFINE at == entry.at
               chain == entry.chain
    <3>1. /\ chain \in Seq(Hop) /\ Authorized(facts, source, chain)
          /\ at = Stop(facts, source, chain, Len(chain)) /\ at \in Away(facts, source, Len(chain))
      BY <1>1, <2>3, <2>5
    <3> HIDE DEF at, chain, entry
    <3>2. /\ BuildFinding(facts, source, at, chain).verdict \in {"VALIDATED", "BLOCKED", "INCONCLUSIVE"}
          /\ Promise!Justified(facts, source, at, Len(chain), BuildFinding(facts, source, at, chain).verdict)
      BY <1>1, <3>1, VerdictJustified
    <3> QED
      BY <3>2 DEF at, chain
  <2> DEFINE reported == {summary(f) : f \in findings}
             item == [source |-> source, target |-> entry.at, length |-> n, verdict |-> new.verdict]
  <2>7. \A f \in reported : <<f.source, f.target>> # <<source, entry.at>>
    <3> SUFFICES ASSUME NEW f \in findings, f.source = source, f.target = entry.at PROVE FALSE
      OBVIOUS
    <3>1. <<source, entry.at>> \in seen
      BY DEF DInv, Books
    <3> QED
      BY <1>5, <3>1 DEF Reportable
  <2>8. {summary(f) : f \in findings'} = reported \cup {item}
    <3>1. summary(new) = item
      BY <2>2
    <3> HIDE DEF new, item, summary
    <3> QED
      BY <2>1, <3>1
  <2>9. Promise!Report(source, entry.at, n, new.verdict)
    <3>1. Promise!IsAdmin(facts, entry.at) /\ entry.at \in Promise!AtDistance(facts, source, n)
      BY <2>4, <2>5, SameTerms DEF Away
    <3> HIDE DEF new, entry, n
    <3> QED
      BY <1>2, <1>3, <2>6, <2>7, <2>8, <3>1 DEF Promise!Report
  <2>10. source \in Promise!Principals /\ new.verdict \in Promise!Verdict
    BY <1>1, <2>6, SameTerms DEF Promise!Verdict
  <2> HIDE DEF new, entry, n
  <2>11. \E s \in Promise!Principals, t \in Roles, d \in MinChain .. MaxDepth, verdict \in Promise!Verdict :
           Promise!Report(s, t, d, verdict)
    BY <2>4, <2>9, <2>10, Zenon DEF Promise!Report
  <2> QED
    BY <2>11 DEF Promise!Next
<1> QED
  BY <1>4, <1>5

LEMMA PromiseFinish ==
  ASSUME IInv, DInv, Finish
  PROVE  Promise!Finish
<1>1. /\ phase = "choose" /\ waiting = {} /\ phase' = "done" /\ UNCHANGED <<facts, findings>>
  BY DEF Finish
<1> DEFINE summary(f) == [source |-> f.source, target |-> f.target,
                          length |-> Len(f.chain), verdict |-> f.verdict]
           reported == {summary(f) : f \in findings}
<1>2. \A x : x \in Promise!AdminPairs(facts) <=>
        \E s \in Principals, d \in MinChain .. MaxDepth :
          \E t \in Away(facts, s, d) : IsAdmin(facts, t) /\ x = <<s, t, d>>
  <2> DEFINE Of(s, d) == {<<s, t, d>> : t \in {r \in Away(facts, s, d) : IsAdmin(facts, r)}}
             In(s, d) == {<<s, t, d>> : t \in {r \in Promise!AtDistance(facts, s, d) : Promise!IsAdmin(facts, r)}}
  <2>1. Promise!AdminPairs(facts) = UNION {In(s, d) : s \in Principals, d \in MinChain .. MaxDepth}
    BY SameTerms DEF Promise!AdminPairs
  <2>2. \A s, d : In(s, d) = Of(s, d)
    BY SameTerms DEF Away
  <2>3. \A s, d, x : x \in Of(s, d) <=> \E t \in Away(facts, s, d) : IsAdmin(facts, t) /\ x = <<s, t, d>>
    OBVIOUS
  <2> HIDE DEF Of, In
  <2> QED
    BY <2>1, <2>2, <2>3
<1>3. ASSUME NEW s \in Principals, NEW d \in MinChain .. MaxDepth,
             NEW t \in Away(facts, s, d), IsAdmin(facts, t)
      PROVE  \E f \in findings : <<s, t, d>> = <<f.source, f.target, Len(f.chain)>>
  <2>1. Reported(facts, findings, s, t)
    BY <1>1, <1>3 DEF DInv, Books, Walking, IsAdmin
  <2> QED
    BY <1>3, <2>1 DEF Reported
<1>4. ASSUME NEW f \in findings
      PROVE  /\ f.source \in Principals /\ Len(f.chain) \in MinChain .. MaxDepth
             /\ f.target \in Away(facts, f.source, Len(f.chain)) /\ IsAdmin(facts, f.target)
  BY DEF DInv, Books, IInv, ChainsAuthorized
<1>5. Promise!AdminPairs(facts) = {<<f.source, f.target, Len(f.chain)>> : f \in findings}
  BY <1>2, <1>3, <1>4
<1>6. {<<f.source, f.target, f.length>> : f \in reported} =
        {<<f.source, f.target, Len(f.chain)>> : f \in findings}
  <2>1. \A f : /\ summary(f).source = f.source /\ summary(f).target = f.target
               /\ summary(f).length = Len(f.chain)
    OBVIOUS
  <2> HIDE DEF summary
  <2> QED
    BY <2>1
<1>7. ~ (phase = "done") /\ (phase' = "done") = TRUE
  BY <1>1
<1>8. reported' = reported
  BY <1>1
<1> QED
  BY <1>1, <1>5, <1>6, <1>7, <1>8 DEF Promise!Finish

LEMMA PromiseStep == IInv /\ DInv /\ [Next]_vars => [Promise!Next]_(Promise!vars)
<1> SUFFICES ASSUME IInv, DInv, [Next]_vars PROVE [Promise!Next]_(Promise!vars)
  OBVIOUS
<1>1. CASE Pop
  BY <1>1, PromisePop
<1>2. CASE Finish
  BY <1>2, PromiseFinish DEF Promise!Next
<1>3. CASE ~ Pop /\ ~ Finish
  <2>1. facts' = facts /\ findings' = findings /\ (phase' = "done" <=> phase = "done")
    <3>1. ASSUME NEW p \in waiting, ChooseSource(p)
          PROVE  facts' = facts /\ findings' = findings /\ phase = "choose" /\ phase' = "pop"
      BY <3>1 DEF ChooseSource
    <3>2. CASE WalkDone
      BY <3>2 DEF WalkDone, walk
    <3>3. ASSUME NEW i \in todo, SkipEdge(i)
          PROVE  facts' = facts /\ findings' = findings /\ phase' = phase
      BY <3>3 DEF SkipEdge
    <3>4. ASSUME NEW i \in todo, NEW j \in DOMAIN facts.trust, TakeHop(i, j)
          PROVE  facts' = facts /\ findings' = findings /\ phase' = phase
      BY <3>4 DEF TakeHop
    <3>5. CASE EdgesDone
      BY <3>5 DEF EdgesDone, walk
    <3>6. CASE Terminated \/ UNCHANGED vars
      BY <3>6 DEF Terminated, vars, walk
    <3> QED
      BY <1>3, <3>1, <3>2, <3>3, <3>4, <3>5, <3>6 DEF Next
  <2> QED
    BY <2>1, PromiseStutters
<1> QED
  BY <1>1, <1>2, <1>3

(***************************************************************************)
(* The walk implements AdminChains, whatever the graph and the depth: what *)
(* run() reports are exactly the admin-equivalent roles MinChain to        *)
(* MaxDepth hops away, each once and at its distance, with a verdict that  *)
(* some shortest chain justifies; when it ends, none is missing.           *)
(***************************************************************************)
THEOREM KeepsThePromise == Spec => KeepsPromise
<1>1. Init => IInv /\ DInv /\ Promise!Init
  BY InvInit, DistInit, PromiseStarts
<1>2. IInv /\ DInv /\ [Next]_vars => (IInv /\ DInv)' /\ [Promise!Next]_(Promise!vars)
  BY InvNext, DistNext, PromiseStep
<1> QED
  BY <1>1, <1>2, PTL DEF Spec, KeepsPromise, Promise!Spec
=============================================================================
