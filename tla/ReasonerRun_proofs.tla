-------------------------- MODULE ReasonerRun_proofs --------------------------
(***************************************************************************)
(* Proofs about admin_reachability and about the run of both walkers, for  *)
(* every family of fact graphs of any size and every depth limit: the walk *)
(* over (principal, clean) keys finds exactly what is within MaxDepth      *)
(* hops, its verdicts are about that, and what the run emits is            *)
(* consistent.                                                             *)
(***************************************************************************)
EXTENDS ReasonerRun, FiniteSetTheorems, WellFoundedInduction, TLAPS

Key(e) == <<e.at, e.clean>>

(***************************************************************************)
(* What is within k hops of the principal whose walk it is.                *)
(***************************************************************************)
Around(s, k) == Within(facts, s, k, AnyHop(facts))

Walking == phase \in {"pop", "walk"}

Shape ==
  /\ facts \in Graphs
  /\ waiting \subseteq Principals
  /\ source \in Principals
  /\ frontier \in Seq(Entry)
  /\ visited \subseteq Principals \X BOOLEAN
  /\ here \in Entry
  /\ todo \subseteq DOMAIN facts.perm
  /\ found \in Collected
  /\ phase \in {"choose", "pop", "walk", "done"}

(***************************************************************************)
(* A hop between clean proofs: out of a key that clean hops reach, clean.  *)
(***************************************************************************)
CleanAround(s, h) ==
  \E n \in Around(s, MaxDepth) :
    n[2] /\ h \in HopsOut(facts, n[1]) /\ CleanHop(facts, n[1], h.perm, h.trust)

(***************************************************************************)
(* An entry of the walk: its path leads to it, over no more hops than it   *)
(* takes, and over clean ones only if it is clean.                         *)
(***************************************************************************)
Founded(e) ==
  /\ Key(e) \in visited /\ Len(e.path) <= MaxDepth
  /\ Key(e) \in Within(facts, source, Len(e.path), HopsOf(e.path))
  /\ HopsOf(e.path) \subseteq AnyHop(facts)
  /\ e.path = <<>> => e.at = source
  /\ e.path # <<>> => /\ Key(e) # <<source, TRUE>>
                      /\ Key(e) \notin Around(source, Len(e.path) - 1)
  /\ e.clean => \A h \in HopsOf(e.path) : CleanAround(source, h)

(***************************************************************************)
(* The frontier is in order of length, and all that is nearer than its     *)
(* head is known.                                                          *)
(***************************************************************************)
Distances ==
  /\ \A k, l \in DOMAIN frontier : k <= l => Len(frontier[k].path) <= Len(frontier[l].path)
  /\ phase = "pop" => \A k \in DOMAIN frontier :
       /\ Len(frontier[k].path) <= Len(frontier[1].path) + 1
       /\ Around(source, Len(frontier[1].path)) \subseteq visited
  /\ phase = "walk" =>
       /\ Len(here.path) < MaxDepth
       /\ \A k \in DOMAIN frontier :
            Len(here.path) <= Len(frontier[k].path) /\ Len(frontier[k].path) <= Len(here.path) + 1
       /\ Around(source, Len(here.path)) \subseteq visited

(***************************************************************************)
(* What is known of a key that was popped.                                 *)
(***************************************************************************)
Gathered(v) ==
  v[1] # source /\ IsAdmin(facts, v[1]) =>
    /\ v[1] \in found.admins
    /\ v[2] /\ facts.admin[v[1]].managed => v[1] \in found.proven

Expanded(v) == \A h \in HopsOut(facts, v[1]) : Beyond(facts, v, h) \in visited

Late(v) == found.hitLimit /\ v \notin Around(source, MaxDepth - 1)

InLine(v) == \E k \in DOMAIN frontier : Key(frontier[k]) = v

Popped ==
  /\ <<source, TRUE>> \in visited
  /\ visited \subseteq Around(source, MaxDepth)
  /\ \A v \in visited :
       InLine(v) \/ (Gathered(v) /\ (Expanded(v) \/ Late(v) \/ (phase = "walk" /\ v = Key(here))))
  /\ phase = "walk" =>
       /\ todo \subseteq PermissionEdgesFrom(facts, here.at)
       /\ \A h \in HopsOut(facts, here.at) : h.perm \in todo \/ Beyond(facts, Key(here), h) \in visited

(***************************************************************************)
(* What is collected is there: an accumulator of a walk from s.            *)
(***************************************************************************)
Sound(s, acc) ==
  /\ acc \in Collected
  /\ acc.admins \subseteq AdminsIn(facts, Around(s, MaxDepth))
  /\ acc.proven \subseteq ProvenIn(facts, Around(s, MaxDepth)) \ {s}
  /\ acc.proven \subseteq acc.admins
  /\ \A r \in acc.proven : <<r, TRUE>> \in Within(facts, s, MaxDepth, acc.proof)
  /\ acc.walked \subseteq AnyHop(facts) /\ acc.proof \subseteq AnyHop(facts)
  /\ \A h \in acc.proof : CleanAround(s, h)
  /\ acc.hitLimit => Around(s, MaxDepth) # Around(s, MaxDepth - 1)

Whole(s, acc) ==
  /\ AdminsIn(facts, Around(s, MaxDepth)) \ {s} \subseteq acc.admins
  /\ ProvenIn(facts, Around(s, MaxDepth)) \ {s} \subseteq acc.proven
  /\ acc.hitLimit \/ Onward(facts, Around(s, MaxDepth), AnyHop(facts)) \subseteq Around(s, MaxDepth)

(***************************************************************************)
(* A finding is built from an accumulator that is sound and whole.         *)
(***************************************************************************)
BuiltFrom(f, hit) ==
  [walked |-> f.walked, admins |-> f.admins, proven |-> f.proven, proof |-> f.proof, hitLimit |-> hit]

Grounded(f) ==
  /\ f.source \in Principals
  /\ \E hit \in BOOLEAN :
       /\ f = ReachFinding(facts, f.source, BuiltFrom(f, hit))
       /\ f.admins # {}
       /\ Sound(f.source, BuiltFrom(f, hit)) /\ Whole(f.source, BuiltFrom(f, hit))

Settled(s) ==
  AdminsIn(facts, Around(s, MaxDepth)) \subseteq {s} \/ \E f \in findings : f.source = s

IInv ==
  /\ Shape
  /\ Walking =>
       /\ \A k \in DOMAIN frontier : Founded(frontier[k])
       /\ phase = "walk" => Founded(here)
       /\ Distances /\ Popped /\ Sound(source, found)
  /\ \A f \in findings : Grounded(f)
  /\ \A s \in Principals : s \in waiting \/ (Walking /\ s = source) \/ Settled(s)
  /\ phase = "done" => waiting = {}

-----------------------------------------------------------------------------
(***************************************************************************)
(* Induction on the distance, with the set of distances that have a        *)
(* property in the place of the property.                                  *)
(***************************************************************************)
LEMMA SetInduction ==
  ASSUME NEW T, 0 \in T, \A n \in Nat : n \in T => n + 1 \in T
  PROVE  \A n \in Nat : n \in T
<1> DEFINE Below == {ss \in Nat \X Nat : ss[1] < ss[2]}
           S == Nat \ T
<1>1. IsWellFoundedOn(Below, Nat)
  BY NatLessThanWellFounded DEF OpToRel
<1>2. S \in SUBSET Nat
  OBVIOUS
<1> SUFFICES S = {}
  OBVIOUS
<1> SUFFICES ASSUME S # {} PROVE FALSE
  OBVIOUS
<1> HIDE DEF Below, S
<1>3. PICK x \in S : \A y \in S : ~ (<<y, x>> \in Below)
  BY <1>1, <1>2, WFMin, Zenon
<1>4. \A y \in S : ~ (y < x)
  BY <1>2, <1>3 DEF Below
<1>5. x \in Nat /\ x \notin T /\ x # 0
  BY DEF S
<1>6. x - 1 \in Nat /\ x - 1 \notin S
  BY <1>4, <1>5
<1>7. x - 1 \in T
  BY <1>6 DEF S
<1> QED
  BY <1>5, <1>6, <1>7

\* What is within a distance, from what is within one less. The recursive
\* function is defined: stages up to a distance exist and agree.
LEMMA WithinSays ==
  ASSUME NEW G, NEW s, NEW hops
  PROVE  /\ Within(G, s, 0, hops) = {<<s, TRUE>>}
         /\ \A k \in Nat : Within(G, s, k + 1, hops) =
              Within(G, s, k, hops) \cup Onward(G, Within(G, s, k, hops), hops)
<1> DEFINE start == {<<s, TRUE>>}
           grown(S) == S \cup Onward(G, S, hops)
           IsStage(g, n) == g = [k \in 0 .. n |-> IF k = 0 THEN start ELSE grown(g[k - 1])]
           IsAll(g) == g = [k \in Nat |-> IF k = 0 THEN start ELSE grown(g[k - 1])]
           all == CHOOSE g : IsAll(g)
<1>1. \A d : Within(G, s, d, hops) = all[d]
  BY DEF Within
<1> HIDE DEF start, grown
<1>2. \A n \in Nat : \E g : IsStage(g, n)
  <2> DEFINE T == {n \in Nat : \E g : IsStage(g, n)}
  <2>1. 0 \in T
    <3> DEFINE g0 == [k \in 0 .. 0 |-> start]
    <3>1. IsStage(g0, 0)
      OBVIOUS
    <3> QED
      BY <3>1
  <2>2. ASSUME NEW n \in Nat, n \in T PROVE n + 1 \in T
    <3>1. PICK g : IsStage(g, n)
      BY <2>2
    <3> DEFINE h == [k \in 0 .. n + 1 |-> IF k <= n THEN g[k] ELSE grown(g[n])]
    <3>2. \A k \in 0 .. n : g[k] = IF k = 0 THEN start ELSE grown(g[k - 1])
      BY <3>1
    <3>3. \A k \in 0 .. n + 1 : h[k] = IF k = 0 THEN start ELSE grown(h[k - 1])
      <4> TAKE k \in 0 .. n + 1
      <4>1. CASE k <= n
        BY <3>2, <4>1
      <4>2. CASE k = n + 1
        BY <4>2
      <4> QED
        BY <4>1, <4>2
    <3>4. h = [k \in 0 .. n + 1 |-> h[k]]
      OBVIOUS
    <3> HIDE DEF h
    <3>5. IsStage(h, n + 1)
      BY <3>3, <3>4
    <3> QED
      BY <3>5
  <2> HIDE DEF T
  <2>3. \A n \in Nat : n \in T
    BY <2>1, <2>2, SetInduction
  <2> QED
    BY <2>3 DEF T
<1>3. ASSUME NEW n \in Nat, NEW m \in Nat, NEW g, NEW h, IsStage(g, n), IsStage(h, m)
      PROVE  \A k \in Nat : k <= n /\ k <= m => g[k] = h[k]
  <2> DEFINE T == {k \in Nat : k <= n /\ k <= m => g[k] = h[k]}
  <2>1. \A k \in 0 .. n : g[k] = IF k = 0 THEN start ELSE grown(g[k - 1])
    BY <1>3
  <2>2. \A k \in 0 .. m : h[k] = IF k = 0 THEN start ELSE grown(h[k - 1])
    BY <1>3
  <2>3. 0 \in T
    BY <2>1, <2>2
  <2>4. ASSUME NEW k \in Nat, k \in T PROVE k + 1 \in T
    BY <2>1, <2>2, <2>4
  <2> HIDE DEF T
  <2>5. \A k \in Nat : k \in T
    BY <2>3, <2>4, SetInduction
  <2> QED
    BY <2>5 DEF T
<1>4. \E g : IsAll(g)
  <2> DEFINE stage(n) == CHOOSE g : IsStage(g, n)
             f == [n \in Nat |-> stage(n)[n]]
  <2>1. \A n \in Nat : IsStage(stage(n), n)
    BY <1>2
  <2>2. ASSUME NEW n \in Nat PROVE f[n] = IF n = 0 THEN start ELSE grown(f[n - 1])
    <3> HIDE DEF stage
    <3>1. stage(n)[n] = IF n = 0 THEN start ELSE grown(stage(n)[n - 1])
      BY <2>1
    <3>2. n # 0 => stage(n)[n - 1] = stage(n - 1)[n - 1]
      <4> HAVE n # 0
      <4>1. n - 1 \in Nat /\ n - 1 <= n
        OBVIOUS
      <4>2. IsStage(stage(n), n) /\ IsStage(stage(n - 1), n - 1)
        BY <2>1, <4>1
      <4> HIDE DEF IsStage
      <4> QED
        BY <1>3, <4>1, <4>2
    <3> QED
      BY <3>1, <3>2
  <2>3. f = [n \in Nat |-> f[n]]
    OBVIOUS
  <2> HIDE DEF f
  <2>4. IsAll(f)
    BY <2>2, <2>3
  <2> QED
    BY <2>4
<1>5. IsAll(all)
  BY <1>4
<1> HIDE DEF all
<1>6. \A k \in Nat : all[k] = IF k = 0 THEN start ELSE grown(all[k - 1])
  BY <1>5
<1>7. all[0] = start /\ \A k \in Nat : all[k + 1] = grown(all[k])
  BY <1>6
<1> QED
  BY <1>1, <1>7 DEF start, grown

LEMMA WithinStart ==
  ASSUME NEW G, NEW s, NEW hops PROVE Within(G, s, 0, hops) = {<<s, TRUE>>}
  BY WithinSays, Zenon

LEMMA WithinNext ==
  ASSUME NEW G, NEW s, NEW hops, NEW k \in Nat
  PROVE  Within(G, s, k + 1, hops) = Within(G, s, k, hops) \cup Onward(G, Within(G, s, k, hops), hops)
<1>1. \A m \in Nat : Within(G, s, m + 1, hops) =
        Within(G, s, m, hops) \cup Onward(G, Within(G, s, m, hops), hops)
  BY WithinSays, Zenon
<1> QED
  BY <1>1, Zenon

-----------------------------------------------------------------------------
(***************************************************************************)
(* Distances. More distance and more hops reach more; what no hop leaves   *)
(* is all there is.                                                        *)
(***************************************************************************)
LEMMA OnwardSays ==
  ASSUME NEW G, NEW S, NEW hops
  PROVE  /\ \A y \in Onward(G, S, hops) :
              \E n \in S : \E h \in HopsOut(G, n[1]) : h \in hops /\ y = Beyond(G, n, h)
         /\ \A n \in S : \A h \in HopsOut(G, n[1]) : h \in hops => Beyond(G, n, h) \in Onward(G, S, hops)
<1> DEFINE Of(n) == {Beyond(G, n, h) : h \in HopsOut(G, n[1]) \cap hops}
<1>1. Onward(G, S, hops) = UNION {Of(n) : n \in S}
  BY DEF Onward
<1>2. \A n : \A y : y \in Of(n) <=> \E h \in HopsOut(G, n[1]) : h \in hops /\ y = Beyond(G, n, h)
  OBVIOUS
<1> HIDE DEF Of
<1> QED
  BY <1>1, <1>2

LEMMA OnwardMonotone ==
  ASSUME NEW G, NEW R, NEW S, R \subseteq S, NEW few, NEW many, few \subseteq many
  PROVE  Onward(G, R, few) \subseteq Onward(G, S, many)
<1> SUFFICES ASSUME NEW y \in Onward(G, R, few) PROVE y \in Onward(G, S, many)
  OBVIOUS
<1>1. PICK n \in R : \E h \in HopsOut(G, n[1]) : h \in few /\ y = Beyond(G, n, h)
  BY OnwardSays
<1> QED
  BY <1>1, OnwardSays

LEMMA FartherIsMore ==
  ASSUME NEW G, NEW s, NEW hops, NEW k \in Nat, NEW m \in Nat, k <= m
  PROVE  Within(G, s, k, hops) \subseteq Within(G, s, m, hops)
<1> DEFINE T == {d \in Nat : Within(G, s, k, hops) \subseteq Within(G, s, k + d, hops)}
<1>1. 0 \in T
  OBVIOUS
<1>2. ASSUME NEW d \in Nat, d \in T PROVE d + 1 \in T
  <2>1. k + d \in Nat /\ k + (d + 1) = (k + d) + 1
    OBVIOUS
  <2>2. Within(G, s, k + d, hops) \subseteq Within(G, s, (k + d) + 1, hops)
    BY <2>1, WithinNext
  <2> QED
    BY <1>2, <2>1, <2>2
<1> HIDE DEF T
<1>3. \A d \in Nat : d \in T
  BY <1>1, <1>2, SetInduction
<1>4. m - k \in Nat /\ k + (m - k) = m
  OBVIOUS
<1> QED
  BY <1>3, <1>4 DEF T

LEMMA MoreHopsReachMore ==
  ASSUME NEW G, NEW s, NEW few, NEW many, few \subseteq many
  PROVE  \A k \in Nat : Within(G, s, k, few) \subseteq Within(G, s, k, many)
<1> DEFINE T == {k \in Nat : Within(G, s, k, few) \subseteq Within(G, s, k, many)}
<1>1. 0 \in T
  BY WithinStart
<1>2. ASSUME NEW k \in Nat, k \in T PROVE k + 1 \in T
  <2>1. Within(G, s, k, few) \subseteq Within(G, s, k, many)
    BY <1>2
  <2>2. Onward(G, Within(G, s, k, few), few) \subseteq Onward(G, Within(G, s, k, many), many)
    BY <2>1, OnwardMonotone
  <2> QED
    BY <2>1, <2>2, WithinNext
<1> HIDE DEF T
<1>3. \A k \in Nat : k \in T
  BY <1>1, <1>2, SetInduction
<1> QED
  BY <1>3 DEF T

\* A set that holds the start, and what every hop from it leads to, holds
\* whatever is within reach.
LEMMA ClosedIsAll ==
  ASSUME NEW G, NEW s, NEW hops, NEW S, <<s, TRUE>> \in S, Onward(G, S, hops) \subseteq S
  PROVE  \A k \in Nat : Within(G, s, k, hops) \subseteq S
<1> DEFINE T == {k \in Nat : Within(G, s, k, hops) \subseteq S}
<1>1. 0 \in T
  BY WithinStart
<1>2. ASSUME NEW k \in Nat, k \in T PROVE k + 1 \in T
  <2>1. Onward(G, Within(G, s, k, hops), hops) \subseteq Onward(G, S, hops)
    BY <1>2, OnwardMonotone
  <2> QED
    BY <1>2, <2>1, WithinNext
<1> HIDE DEF T
<1>3. \A k \in Nat : k \in T
  BY <1>1, <1>2, SetInduction
<1> QED
  BY <1>3 DEF T

\* One hop leads from what is within k to what is within k + 1.
LEMMA OneHopFarther ==
  ASSUME NEW G, NEW s, NEW hops, NEW k \in Nat, NEW n \in Within(G, s, k, hops),
         NEW h \in HopsOut(G, n[1]), h \in hops
  PROVE  Beyond(G, n, h) \in Within(G, s, k + 1, hops)
  BY WithinNext, OnwardSays

-----------------------------------------------------------------------------
(***************************************************************************)
(* The graph.                                                              *)
(***************************************************************************)
LEMMA GraphTypes ==
  ASSUME NEW G \in FactGraphs
  PROVE  /\ DOMAIN G.perm \subseteq Nat /\ DOMAIN G.trust \subseteq Nat
         /\ \A i \in DOMAIN G.perm : G.perm[i] \in PermissionEdge
         /\ \A j \in DOMAIN G.trust : G.trust[j] \in TrustEdge
         /\ \A r \in Roles : IsAdmin(G, r) => G.admin[r] \in AdminWitness
<1>1. G.perm \in Seq(PermissionEdge) /\ G.trust \in Seq(TrustEdge)
      /\ G.admin \in [Roles -> AdminWitness \cup {NoWitness}]
  BY DEF FactGraphs
<1>2. /\ DOMAIN G.perm = 1 .. Len(G.perm) /\ \A i \in DOMAIN G.perm : G.perm[i] \in PermissionEdge
      /\ DOMAIN G.trust = 1 .. Len(G.trust) /\ \A j \in DOMAIN G.trust : G.trust[j] \in TrustEdge
  BY <1>1
<1> QED
  BY <1>1, <1>2 DEF IsAdmin

LEMMA HopSays ==
  ASSUME NEW G \in FactGraphs, NEW p, NEW h \in HopsOut(G, p)
  PROVE  /\ h \in AnyHop(G) /\ h \in Hop /\ h = [perm |-> h.perm, trust |-> h.trust]
         /\ h.perm \in PermissionEdgesFrom(G, p) /\ h.perm \in DOMAIN G.perm
         /\ h.trust \in DOMAIN G.trust
         /\ IsFirst(h.trust, AdmittingTrustEdges(G, p, G.perm[h.perm].dst))
         /\ G.perm[h.perm].dst \in Roles
<1>1. /\ h \in [perm : PermissionEdgesFrom(G, p), trust : DOMAIN G.trust]
      /\ IsFirst(h.trust, AdmittingTrustEdges(G, p, G.perm[h.perm].dst))
  BY DEF HopsOut
<1>2. PermissionEdgesFrom(G, p) \subseteq DOMAIN G.perm
  BY DEF PermissionEdgesFrom
<1>3. h.trust \in DOMAIN G.trust /\ G.trust[h.trust].dst = G.perm[h.perm].dst
  BY <1>1 DEF IsFirst, AdmittingTrustEdges, TrustPolicyOf
<1>4. G.trust[h.trust].dst \in Roles
  BY <1>3, GraphTypes DEF TrustEdge
<1> QED
  BY <1>1, <1>2, <1>3, <1>4, GraphTypes DEF AnyHop, Hop

LEMMA BeyondTyped ==
  ASSUME NEW G \in FactGraphs, NEW n \in Principals \X BOOLEAN, NEW h \in HopsOut(G, n[1])
  PROVE  /\ Beyond(G, n, h) \in Principals \X BOOLEAN /\ Beyond(G, n, h)[1] \in Roles
         /\ Beyond(G, n, h)[1] = G.perm[h.perm].dst
         /\ Beyond(G, n, h)[2] = (n[2] /\ CleanHop(G, n[1], h.perm, h.trust))
<1>1. G.perm[h.perm].dst \in Roles
  BY HopSays
<1>2. (n[2] /\ CleanHop(G, n[1], h.perm, h.trust)) \in BOOLEAN
  OBVIOUS
<1> QED
  BY <1>1, <1>2 DEF Beyond, Principals

LEMMA WithinTyped ==
  ASSUME NEW G \in FactGraphs, NEW s \in Principals, NEW hops
  PROVE  \A k \in Nat : Within(G, s, k, hops) \subseteq Principals \X BOOLEAN
<1> DEFINE Keys == Principals \X BOOLEAN
<1>1. <<s, TRUE>> \in Keys
  OBVIOUS
<1>2. Onward(G, Keys, hops) \subseteq Keys
  BY OnwardSays, BeyondTyped
<1> HIDE DEF Keys
<1>3. \A k \in Nat : Within(G, s, k, hops) \subseteq Keys
  BY <1>1, <1>2, ClosedIsAll
<1> QED
  BY <1>3 DEF Keys

-----------------------------------------------------------------------------
(***************************************************************************)
(* The graph is never written, and what is said of it stays.               *)
(***************************************************************************)
LEMMA GraphStays ==
  ASSUME facts' = facts
  PROVE  /\ \A s, k : Around(s, k)' = Around(s, k)
         /\ \A s, h : CleanAround(s, h)' <=> CleanAround(s, h)
         /\ \A s, acc : Sound(s, acc)' <=> Sound(s, acc)
         /\ \A s, acc : Whole(s, acc)' <=> Whole(s, acc)
         /\ \A f : Grounded(f)' <=> Grounded(f)
<1>1. \A s, k : Around(s, k)' = Around(s, k)
  BY DEF Around
<1>2. \A s, h : CleanAround(s, h)' <=> CleanAround(s, h)
  BY <1>1 DEF CleanAround
<1>3. \A s, acc : Sound(s, acc)' <=> Sound(s, acc)
  BY <1>1, <1>2 DEF Sound
<1>4. \A s, acc : Whole(s, acc)' <=> Whole(s, acc)
  BY <1>1 DEF Whole
<1>5. \A f : Grounded(f)' <=> Grounded(f)
  BY <1>3, <1>4 DEF Grounded
<1> QED
  BY <1>1, <1>2, <1>3, <1>4, <1>5

LEMMA DepthIsNat == MaxDepth \in Nat /\ MaxDepth # 0 /\ MaxDepth - 1 \in Nat /\ MaxDepth >= 1
  BY WalkBounds

LEMMA GivenGraph ==
  ASSUME Shape PROVE facts \in FactGraphs
  BY WalkBounds DEF Shape

LEMMA StartEntry ==
  ASSUME NEW p \in Principals
  PROVE  /\ [at |-> p, clean |-> TRUE, path |-> <<>>] \in Entry
         /\ HopsOf(<<>>) = {} /\ Len(<<>>) = 0
<1>1. <<>> \in Seq(Hop) /\ Len(<<>>) = 0
  OBVIOUS
<1>2. HopsOf(<<>>) = {}
  BY DEF HopsOf
<1> QED
  BY <1>1, <1>2 DEF Entry

LEMMA NothingIsTyped == NothingYet \in Collected
  BY DEF NothingYet, Collected

\* A principal without a permission edge reaches nothing.
LEMMA StuckIsSettled ==
  ASSUME facts \in FactGraphs, NEW s \in Principals, HasAssumeRole(facts, s) = "FAIL"
  PROVE  AdminsIn(facts, Around(s, MaxDepth)) \subseteq {s}
<1>1. PermissionEdgesFrom(facts, s) = {}
  BY DEF HasAssumeRole
<1>2. HopsOut(facts, s) = {}
  BY <1>1, HopSays
<1> DEFINE S == {<<s, TRUE>>}
<1>3. \A n \in S : n[1] = s
  OBVIOUS
<1>4. <<s, TRUE>> \in S
  OBVIOUS
<1>5. \A r : <<r, TRUE>> \in S \/ <<r, FALSE>> \in S => r = s
  OBVIOUS
<1> HIDE DEF S
<1>6. Onward(facts, S, AnyHop(facts)) \subseteq S
  BY <1>2, <1>3, OnwardSays
<1>7. Around(s, MaxDepth) \subseteq S
  BY <1>4, <1>6, ClosedIsAll, DepthIsNat DEF Around
<1> QED
  BY <1>5, <1>7 DEF AdminsIn

LEMMA Initially ==
  ASSUME Init PROVE IInv
<1>1. /\ facts \in Graphs /\ facts \in FactGraphs /\ phase = "choose" /\ findings = {}
      /\ waiting = {p \in Principals : HasAssumeRole(facts, p) # "FAIL"}
      /\ frontier = <<>> /\ visited = {} /\ todo = {} /\ found = NothingYet
      /\ here = [at |-> source, clean |-> TRUE, path |-> <<>>]
  BY WalkBounds DEF Init
<1>2. source \in Principals
  <2>1. \E p \in Principals : TRUE
    BY WalkBounds DEF Principals
  <2> QED
    BY <2>1 DEF Init
<1>3. frontier \in Seq(Entry)
  BY <1>1
<1>4. Shape
  BY <1>1, <1>2, <1>3, StartEntry, NothingIsTyped DEF Shape
<1>5. ~ Walking /\ phase # "done"
  BY <1>1 DEF Walking
<1>6. \A s \in Principals : s \in waiting \/ Settled(s)
  BY <1>1, StuckIsSettled DEF Settled
<1> QED
  BY <1>1, <1>4, <1>5, <1>6 DEF IInv

LEMMA ChooseSourceSafe ==
  ASSUME IInv, NEW p \in waiting, ChooseSource(p) PROVE IInv'
<1> DEFINE e == [at |-> p, clean |-> TRUE, path |-> <<>>]
<1>1. /\ phase = "choose" /\ phase' = "pop" /\ p \in Principals
      /\ waiting' = waiting \ {p} /\ source' = p /\ frontier' = <<e>> /\ visited' = {<<p, TRUE>>}
      /\ found' = NothingYet /\ facts' = facts /\ here' = here /\ todo' = todo /\ findings' = findings
  BY DEF ChooseSource, IInv, Shape
<1>2. /\ e \in Entry /\ HopsOf(e.path) = {} /\ Len(e.path) = 0 /\ e.path = <<>>
      /\ e.at = p /\ e.clean /\ Key(e) = <<p, TRUE>>
  BY <1>1, StartEntry DEF Key
<1> HIDE DEF e
<1>3. /\ frontier' \in Seq(Entry) /\ DOMAIN frontier' = {1} /\ frontier'[1] = e
  BY <1>1, <1>2
<1>4. Shape'
  <2>1. <<p, TRUE>> \in Principals \X BOOLEAN
    BY <1>1
  <2> QED
    BY <1>1, <1>3, <2>1, NothingIsTyped DEF IInv, Shape
<1>5. \A k : Around(p, k)' = Around(p, k)
  BY <1>1, GraphStays
<1>6. Around(p, 0) = {<<p, TRUE>>} /\ Around(p, 0) \subseteq Around(p, MaxDepth)
  <2>1. Around(p, 0) = {<<p, TRUE>>}
    BY WithinStart, Zenon DEF Around
  <2>2. MaxDepth \in Nat /\ 0 \in Nat /\ 0 <= MaxDepth
    BY DepthIsNat
  <2>3. Around(p, 0) \subseteq Around(p, MaxDepth)
    BY <2>2, FartherIsMore DEF Around
  <2> QED
    BY <2>1, <2>3
<1>7. \A k \in DOMAIN frontier' : Founded(frontier[k])'
  <2>1. Key(e) \in Within(facts, p, 0, HopsOf(e.path))
    <3>1. Within(facts, p, 0, HopsOf(e.path)) = {<<p, TRUE>>}
      BY WithinStart, Zenon
    <3> QED
      BY <1>2, <3>1
  <2>2. Founded(e)'
    <3>1. /\ Key(e)' = Key(e) /\ HopsOf(e.path)' = {} /\ Len(e.path)' = 0 /\ e'.path = <<>> /\ e'.at = p /\ e' = e
      BY <1>2 DEF Key, e
    <3> QED
      BY <1>1, <1>2, <2>1, <3>1, DepthIsNat DEF Founded
  <2> QED
    BY <1>3, <2>2 DEF e
<1>8. Distances'
  <2>1. Len(frontier'[1].path) = 0
    BY <1>2, <1>3
  <2>2. Around(p, 0)' \subseteq visited'
    BY <1>1, <1>5, <1>6
  <2>3. \A k, l \in DOMAIN frontier' : k = 1 /\ l = 1
    BY <1>3
  <2>4. 0 <= 0 /\ 0 <= 0 + 1
    OBVIOUS
  <2> QED
    BY <1>1, <2>1, <2>2, <2>3, <2>4 DEF Distances
<1>9. Popped'
  <2>1. \A v \in visited' : InLine(v)'
    <3>1. Key(frontier[1])' = <<p, TRUE>> /\ 1 \in DOMAIN frontier'
      BY <1>2, <1>3 DEF Key
    <3>2. \A v \in visited' : v = <<p, TRUE>>
      BY <1>1
    <3> QED
      BY <3>1, <3>2 DEF InLine
  <2>2. <<p, TRUE>> \in Around(p, MaxDepth)
    BY <1>6
  <2> QED
    BY <1>1, <1>5, <2>1, <2>2 DEF Popped
<1>10. Sound(source, found)'
  <2>1. Sound(p, NothingYet)
    BY NothingIsTyped DEF Sound, NothingYet
  <2> QED
    BY <1>1, <2>1, GraphStays
<1>11. \A f \in findings' : Grounded(f)'
  BY <1>1, GraphStays DEF IInv
<1>12. \A s \in Principals : s \in waiting' \/ s = p \/ Settled(s)'
  <2>1. \A s : Settled(s)' <=> Settled(s)
    BY <1>1, GraphStays DEF Settled
  <2> QED
    BY <1>1, <2>1 DEF IInv, Walking
<1>13. Walking' /\ phase' # "walk" /\ phase' # "done"
  BY <1>1 DEF Walking
<1> QED
  BY <1>1, <1>4, <1>7, <1>8, <1>9, <1>10, <1>11, <1>12, <1>13 DEF IInv

-----------------------------------------------------------------------------
(***************************************************************************)
(* The walk.                                                               *)
(***************************************************************************)
LEMMA EntrySays ==
  ASSUME NEW e \in Entry
  PROVE  /\ e.at \in Principals /\ e.clean \in BOOLEAN /\ e.path \in Seq(Hop)
         /\ Len(e.path) \in Nat /\ (e.path # <<>> <=> Len(e.path) # 0)
         /\ Key(e) \in Principals \X BOOLEAN /\ Key(e)[1] = e.at /\ Key(e)[2] = e.clean
         /\ HopsOf(e.path) \subseteq Hop
<1>1. e.at \in Principals /\ e.clean \in BOOLEAN /\ e.path \in Seq(Hop)
  BY DEF Entry
<1>2. Len(e.path) \in Nat /\ (e.path # <<>> <=> Len(e.path) # 0)
  BY <1>1
<1>3. HopsOf(e.path) \subseteq Hop
  BY <1>1 DEF HopsOf
<1> QED
  BY <1>1, <1>2, <1>3 DEF Key

\* An entry's key is within its distance, and within MaxDepth.
LEMMA EntryWithin ==
  ASSUME Shape, NEW e \in Entry, Founded(e)
  PROVE  /\ Key(e) \in Around(source, Len(e.path)) /\ Key(e) \in Around(source, MaxDepth)
         /\ Key(e) \in Within(facts, source, MaxDepth, HopsOf(e.path))
<1>1. /\ Len(e.path) \in Nat /\ MaxDepth \in Nat /\ Len(e.path) <= MaxDepth
      /\ Key(e) \in Within(facts, source, Len(e.path), HopsOf(e.path))
      /\ HopsOf(e.path) \subseteq AnyHop(facts)
  BY EntrySays, DepthIsNat DEF Founded
<1>2. Key(e) \in Around(source, Len(e.path))
  BY <1>1, MoreHopsReachMore DEF Around
<1>3. Around(source, Len(e.path)) \subseteq Around(source, MaxDepth)
  BY <1>1, FartherIsMore DEF Around
<1>4. Key(e) \in Within(facts, source, MaxDepth, HopsOf(e.path))
  BY <1>1, FartherIsMore
<1> QED
  BY <1>2, <1>3, <1>4

\* What popping an entry adds is sound, and gathers its key.
LEMMA CollectSays ==
  ASSUME Shape, Sound(source, found), NEW e \in Entry, Founded(e)
  PROVE  /\ Sound(source, Collect(found, e))
         /\ found.admins \subseteq Collect(found, e).admins
         /\ found.proven \subseteq Collect(found, e).proven
         /\ Collect(found, e).hitLimit = (found.hitLimit \/ Len(e.path) >= MaxDepth)
         /\ e.at # source /\ IsAdmin(facts, e.at) =>
              /\ e.at \in Collect(found, e).admins
              /\ e.clean /\ facts.admin[e.at].managed => e.at \in Collect(found, e).proven
<1> DEFINE acc == Collect(found, e)
           admin == e.path # <<>> /\ IsAdmin(facts, e.at)
           proven == admin /\ e.clean /\ facts.admin[e.at].managed
<1>1. found \in Collected
  BY DEF Sound
<1>2. /\ found.walked \in SUBSET Hop /\ found.admins \in SUBSET Roles /\ found.proven \in SUBSET Roles
      /\ found.proof \in SUBSET Hop /\ found.hitLimit \in BOOLEAN
  BY <1>1 DEF Collected
<1>3. /\ acc.walked = found.walked
      /\ acc.admins = IF admin THEN found.admins \cup {e.at} ELSE found.admins
      /\ acc.proven = IF proven THEN found.proven \cup {e.at} ELSE found.proven
      /\ acc.proof = IF proven THEN found.proof \cup HopsOf(e.path) ELSE found.proof
      /\ acc.hitLimit = (found.hitLimit \/ Len(e.path) >= MaxDepth)
      /\ acc = [walked |-> acc.walked, admins |-> acc.admins, proven |-> acc.proven,
                proof |-> acc.proof, hitLimit |-> acc.hitLimit]
  <2> DEFINE admins == IF admin THEN found.admins \cup {e.at} ELSE found.admins
             provens == IF proven THEN found.proven \cup {e.at} ELSE found.proven
             proofs == IF proven THEN found.proof \cup HopsOf(e.path) ELSE found.proof
             hit == found.hitLimit \/ Len(e.path) >= MaxDepth
  <2>1. acc = [found EXCEPT !.admins = admins, !.proven = provens, !.proof = proofs, !.hitLimit = hit]
    BY DEF Collect
  <2> HIDE DEF acc, admins, provens, proofs, hit
  <2>2. /\ acc.walked = found.walked /\ acc.admins = admins /\ acc.proven = provens
        /\ acc.proof = proofs /\ acc.hitLimit = hit
        /\ acc = [walked |-> acc.walked, admins |-> acc.admins, proven |-> acc.proven,
                  proof |-> acc.proof, hitLimit |-> acc.hitLimit]
    BY <1>1, <2>1 DEF Collected
  <2> QED
    BY <2>2 DEF admins, provens, proofs, hit
<1>4. /\ Key(e) \in Around(source, MaxDepth)
      /\ Key(e) \in Within(facts, source, MaxDepth, HopsOf(e.path))
  BY EntryWithin
<1>5. /\ e.at \in Principals /\ e.clean \in BOOLEAN /\ HopsOf(e.path) \subseteq Hop
      /\ Len(e.path) \in Nat /\ (e.path # <<>> <=> Len(e.path) # 0)
  BY EntrySays
<1> HIDE DEF acc, admin, proven
<1>6. admin => e.at \in AdminsIn(facts, Around(source, MaxDepth)) /\ e.at \in Roles
  <2>1. Key(e) = <<e.at, TRUE>> \/ Key(e) = <<e.at, FALSE>>
    BY <1>5 DEF Key
  <2> QED
    BY <1>4, <2>1 DEF admin, AdminsIn, IsAdmin
<1>7. proven => /\ e.at \in ProvenIn(facts, Around(source, MaxDepth)) \ {source} /\ admin
                /\ Key(e) = <<e.at, TRUE>>
  <2> HAVE proven
  <2>1. e.clean = TRUE
    BY <1>5 DEF proven
  <2>2. Key(e) = <<e.at, TRUE>>
    BY <2>1 DEF Key
  <2>3. e.at # source
    BY <2>2 DEF proven, admin, Founded
  <2> QED
    BY <1>4, <2>2, <2>3 DEF proven, admin, ProvenIn, IsAdmin
<1>8. acc \in Collected
  <2>1. /\ acc.walked \in SUBSET Hop /\ acc.admins \in SUBSET Roles /\ acc.proven \in SUBSET Roles
        /\ acc.proof \in SUBSET Hop
    BY <1>2, <1>3, <1>5, <1>6, <1>7
  <2>2. acc.hitLimit \in BOOLEAN
    BY <1>2, <1>3
  <2> QED
    BY <1>3, <2>1, <2>2 DEF Collected
<1>9. Sound(source, acc)
  <2>1. acc.admins \subseteq AdminsIn(facts, Around(source, MaxDepth))
    BY <1>3, <1>6 DEF Sound
  <2>2. acc.proven \subseteq ProvenIn(facts, Around(source, MaxDepth)) \ {source} /\ acc.proven \subseteq acc.admins
    BY <1>3, <1>7 DEF Sound
  <2>3. ASSUME NEW r \in acc.proven PROVE <<r, TRUE>> \in Within(facts, source, MaxDepth, acc.proof)
    <3>1. CASE r \in found.proven
      <4>1. found.proof \subseteq acc.proof /\ <<r, TRUE>> \in Within(facts, source, MaxDepth, found.proof)
        BY <1>3, <3>1 DEF Sound
      <4> QED
        BY <4>1, MoreHopsReachMore, DepthIsNat
    <3>2. CASE proven /\ r = e.at
      <4>1. HopsOf(e.path) \subseteq acc.proof /\ <<r, TRUE>> \in Within(facts, source, MaxDepth, HopsOf(e.path))
        BY <1>3, <1>4, <1>7, <3>2
      <4> QED
        BY <4>1, MoreHopsReachMore, DepthIsNat
    <3> QED
      BY <1>3, <2>3, <3>1, <3>2
  <2>4. acc.walked \subseteq AnyHop(facts) /\ acc.proof \subseteq AnyHop(facts)
    BY <1>3 DEF Sound, Founded
  <2>5. \A h \in acc.proof : CleanAround(source, h)
    BY <1>3 DEF Sound, Founded, proven
  <2>6. acc.hitLimit => Around(source, MaxDepth) # Around(source, MaxDepth - 1)
    <3>1. CASE found.hitLimit
      BY <3>1 DEF Sound
    <3>2. CASE Len(e.path) >= MaxDepth
      <4>1. Len(e.path) = MaxDepth /\ e.path # <<>>
        BY <1>5, <3>2, DepthIsNat DEF Founded
      <4>2. Key(e) \notin Around(source, MaxDepth - 1)
        BY <4>1 DEF Founded
      <4> QED
        BY <1>4, <4>2
    <3> QED
      BY <1>3, <3>1, <3>2
  <2> QED
    BY <1>8, <2>1, <2>2, <2>3, <2>4, <2>5, <2>6 DEF Sound
<1>10. e.at # source /\ IsAdmin(facts, e.at) =>
         /\ e.at \in acc.admins
         /\ e.clean /\ facts.admin[e.at].managed => e.at \in acc.proven
  <2>1. e.at # source => e.path # <<>>
    BY DEF Founded
  <2> QED
    BY <1>3, <2>1 DEF admin, proven
<1> QED
  BY <1>3, <1>9, <1>10 DEF acc

\* An entry stays founded as more is visited.
LEMMA FoundedStays ==
  ASSUME facts' = facts, source' = source, visited \subseteq visited'
  PROVE  \A e : Founded(e) => Founded(e)'
<1> TAKE e
<1>1. Key(e)' = Key(e)
  BY DEF Key
<1>2. /\ \A k : Around(source, k)' = Around(source, k)
      /\ \A h : CleanAround(source, h)' <=> CleanAround(source, h)
  BY GraphStays
<1> QED
  BY <1>1, <1>2 DEF Founded

\* A step within a walk leaves what other walks found.
LEMMA WalkGoesOn ==
  ASSUME IInv, Walking, Walking', UNCHANGED <<facts, waiting, source, findings>>, Shape',
         \A k \in DOMAIN frontier' : Founded(frontier[k])',
         phase' = "walk" => Founded(here)', Distances', Popped', Sound(source, found)'
  PROVE  IInv'
<1>1. \A f : Grounded(f)' <=> Grounded(f)
  BY GraphStays
<1>2. \A s : Settled(s)' <=> Settled(s)
  BY GraphStays DEF Settled
<1>3. phase' # "done"
  BY DEF Walking
<1> QED
  BY <1>1, <1>2, <1>3 DEF IInv

\* The head of the frontier and what follows it.
LEMMA HeadAndTail ==
  ASSUME Shape, frontier # <<>>
  PROVE  /\ Head(frontier) = frontier[1] /\ 1 \in DOMAIN frontier /\ Head(frontier) \in Entry
         /\ Tail(frontier) \in Seq(Entry)
         /\ \A k \in DOMAIN Tail(frontier) : /\ k \in Nat /\ k + 1 \in DOMAIN frontier
                                             /\ Tail(frontier)[k] = frontier[k + 1]
         /\ \A k \in DOMAIN frontier : k # 1 => k - 1 \in DOMAIN Tail(frontier) /\ (k - 1) + 1 = k
         /\ Tail(frontier) # <<>> => 1 \in DOMAIN Tail(frontier)
         /\ \A k \in DOMAIN Tail(frontier) : 1 \in DOMAIN Tail(frontier) /\ 1 <= k
  BY DEF Shape

LEMMA PopSafe ==
  ASSUME IInv, Pop PROVE IInv'
<1> DEFINE e == Head(frontier)
           long == Len(e.path) >= MaxDepth
<1>1. /\ phase = "pop" /\ frontier # <<>> /\ frontier' = Tail(frontier) /\ here' = e
      /\ found' = Collect(found, e)
      /\ facts' = facts /\ waiting' = waiting /\ source' = source /\ visited' = visited /\ findings' = findings
      /\ long => todo' = {} /\ phase' = "pop"
      /\ ~ long => todo' = PermissionEdgesFrom(facts, e.at) /\ phase' = "walk"
  BY DEF Pop
<1>2. /\ Shape /\ Walking /\ Distances /\ Popped /\ Sound(source, found)
      /\ \A k \in DOMAIN frontier : Founded(frontier[k])
  BY <1>1 DEF IInv, Walking
<1>3. /\ e = frontier[1] /\ 1 \in DOMAIN frontier /\ e \in Entry /\ Founded(e)
      /\ frontier' \in Seq(Entry)
      /\ \A k \in DOMAIN frontier' : /\ k \in Nat /\ k + 1 \in DOMAIN frontier
                                     /\ frontier'[k] = frontier[k + 1]
                                     /\ 1 \in DOMAIN frontier' /\ 1 <= k
      /\ \A k \in DOMAIN frontier : k # 1 => k - 1 \in DOMAIN frontier' /\ (k - 1) + 1 = k
  BY <1>1, <1>2, HeadAndTail
<1>4. \A k \in DOMAIN frontier : frontier[k] \in Entry /\ Len(frontier[k].path) \in Nat
                                 /\ Len(frontier[k].path) <= MaxDepth /\ k \in Nat
  <2>1. \A k \in DOMAIN frontier : frontier[k] \in Entry /\ k \in Nat
    BY <1>2 DEF Shape
  <2> QED
    BY <1>2, <2>1, EntrySays DEF Founded
<1> HIDE DEF e
<1>5. /\ Sound(source, found') /\ found' \in Collected
      /\ found.admins \subseteq found'.admins /\ found.proven \subseteq found'.proven
      /\ found'.hitLimit = (found.hitLimit \/ long)
      /\ e.at # source /\ IsAdmin(facts, e.at) =>
           e.at \in found'.admins /\ (e.clean /\ facts.admin[e.at].managed => e.at \in found'.proven)
  BY <1>1, <1>2, <1>3, CollectSays DEF Sound
<1>6. Shape'
  <2>1. todo' \subseteq DOMAIN facts'.perm /\ phase' \in {"pop", "walk"}
    BY <1>1 DEF PermissionEdgesFrom
  <2> HIDE DEF long
  <2> QED
    BY <1>1, <1>2, <1>3, <1>5, <2>1 DEF Shape
<1>7. /\ \A k \in DOMAIN frontier' : Founded(frontier[k])'
      /\ Founded(here)'
  <2>1. \A x : Founded(x) => Founded(x)'
    BY <1>1, FoundedStays
  <2>2. \A k \in DOMAIN frontier' : Founded(frontier'[k])
    BY <1>2, <1>3
  <2>3. Founded(here')
    BY <1>1, <1>3
  <2> QED
    BY <2>1, <2>2, <2>3
<1>8. \A k : Around(source, k)' = Around(source, k)
  BY <1>1, GraphStays
<1>9. /\ \A k, l \in DOMAIN frontier : k <= l => Len(frontier[k].path) <= Len(frontier[l].path)
      /\ \A k \in DOMAIN frontier : Len(frontier[k].path) <= Len(e.path) + 1
      /\ \A k \in DOMAIN frontier : Len(e.path) <= Len(frontier[k].path)
      /\ Around(source, Len(e.path)) \subseteq visited
  <2>1. /\ \A k, l \in DOMAIN frontier : k <= l => Len(frontier[k].path) <= Len(frontier[l].path)
        /\ \A k \in DOMAIN frontier : Len(frontier[k].path) <= Len(e.path) + 1
        /\ Around(source, Len(e.path)) \subseteq visited
    BY <1>1, <1>2, <1>3 DEF Distances
  <2>2. \A k \in DOMAIN frontier : 1 <= k
    BY <1>2 DEF Shape
  <2> QED
    BY <1>3, <2>1, <2>2
<1>10. Distances'
  <2>1. \A k, l \in DOMAIN frontier' : k <= l => Len(frontier'[k].path) <= Len(frontier'[l].path)
    <3> SUFFICES ASSUME NEW k \in DOMAIN frontier', NEW l \in DOMAIN frontier', k <= l
                 PROVE  Len(frontier'[k].path) <= Len(frontier'[l].path)
      OBVIOUS
    <3>1. k + 1 <= l + 1
      BY <1>3
    <3> QED
      BY <1>3, <1>9, <3>1
  <2>2. CASE long
    <3>1. \A k \in DOMAIN frontier' : Len(frontier'[k].path) = MaxDepth
      <4> TAKE k \in DOMAIN frontier'
      <4>1. Len(e.path) <= Len(frontier'[k].path) /\ Len(frontier'[k].path) <= MaxDepth
            /\ Len(frontier'[k].path) \in Nat /\ Len(e.path) \in Nat
        BY <1>3, <1>4, <1>9
      <4> QED
        BY <2>2, <4>1, DepthIsNat
    <3>2. Len(e.path) = MaxDepth
      BY <1>3, <1>4, <2>2, DepthIsNat
    <3>3. \A k \in DOMAIN frontier' : /\ Len(frontier'[k].path) <= Len(frontier'[1].path) + 1
                                      /\ Around(source, Len(frontier'[1].path)) \subseteq visited
      BY <1>3, <1>9, <3>1, <3>2, DepthIsNat
    <3> QED
      BY <1>1, <1>8, <2>1, <2>2, <3>3 DEF Distances
  <2>3. CASE ~ long
    <3>1. Len(e.path) < MaxDepth
      BY <1>3, <1>4, <2>3, DepthIsNat
    <3>2. \A k \in DOMAIN frontier' : Len(e.path) <= Len(frontier'[k].path) /\ Len(frontier'[k].path) <= Len(e.path) + 1
      BY <1>3, <1>9
    <3> QED
      BY <1>1, <1>8, <1>9, <2>1, <2>3, <3>1, <3>2 DEF Distances
  <2> QED
    BY <2>2, <2>3
<1>11. Popped'
  <2>1. <<source, TRUE>> \in visited' /\ visited' \subseteq Around(source, MaxDepth)'
    BY <1>1, <1>2, <1>8 DEF Popped
  <2>2. ASSUME NEW v \in visited
        PROVE  InLine(v)' \/ (Gathered(v)' /\ (Expanded(v)' \/ Late(v)' \/ (phase' = "walk" /\ v = Key(here)')))
    <3>1. CASE v = Key(e)
      <4>1. v[1] = e.at /\ v[2] = e.clean
        BY <1>3, <3>1, EntrySays
      <4>2. Gathered(v)'
        BY <1>1, <1>5, <4>1 DEF Gathered
      <4>3. CASE long
        <5>1. e.path # <<>> /\ Len(e.path) = MaxDepth
          BY <1>3, <1>4, <4>3, EntrySays, DepthIsNat
        <5>2. v \notin Around(source, MaxDepth - 1)
          BY <1>3, <3>1, <5>1 DEF Founded
        <5>3. Late(v)'
          BY <1>5, <1>8, <4>3, <5>2 DEF Late
        <5> QED
          BY <4>2, <5>3
      <4>4. CASE ~ long
        <5>1. Key(here)' = Key(e)
          BY <1>1 DEF Key
        <5> QED
          BY <1>1, <3>1, <4>2, <4>4, <5>1
      <4> QED
        BY <4>3, <4>4
    <3>2. CASE v # Key(e) /\ InLine(v)
      <4>1. PICK k \in DOMAIN frontier : Key(frontier[k]) = v
        BY <3>2 DEF InLine
      <4>2. k # 1
        BY <1>3, <3>2, <4>1
      <4>3. k - 1 \in DOMAIN frontier' /\ frontier'[k - 1] = frontier[k]
        BY <1>3, <4>2
      <4>4. Key(frontier'[k - 1]) = v
        BY <4>1, <4>3
      <4> QED
        BY <4>3, <4>4 DEF InLine, Key
    <3>3. CASE ~ InLine(v)
      <4>1. Gathered(v) /\ (Expanded(v) \/ Late(v))
        BY <1>1, <1>2, <3>3 DEF Popped
      <4>2. Gathered(v)'
        BY <1>1, <1>5, <4>1 DEF Gathered
      <4>3. Expanded(v) => Expanded(v)'
        BY <1>1 DEF Expanded
      <4>4. Late(v) => Late(v)'
        BY <1>5, <1>8 DEF Late
      <4> QED
        BY <4>1, <4>2, <4>3, <4>4
    <3> QED
      BY <3>1, <3>2, <3>3
  <2>3. phase' = "walk" =>
          /\ todo' \subseteq PermissionEdgesFrom(facts', here'.at)
          /\ \A h \in HopsOut(facts', here'.at) : h.perm \in todo' \/ Beyond(facts', Key(here)', h) \in visited'
    <3> HAVE phase' = "walk"
    <3>1. todo' = PermissionEdgesFrom(facts, e.at)
      BY <1>1
    <3>2. \A h \in HopsOut(facts, e.at) : h.perm \in PermissionEdgesFrom(facts, e.at)
      BY <1>2, GivenGraph, HopSays
    <3> QED
      BY <1>1, <3>1, <3>2
  <2> QED
    BY <1>1, <2>1, <2>2, <2>3 DEF Popped
<1>12. Sound(source, found)'
  BY <1>1, <1>5, GraphStays
<1>13. Walking'
  BY <1>1 DEF Walking
<1> QED
  BY <1>1, <1>2, <1>6, <1>7, <1>10, <1>11, <1>12, <1>13, WalkGoesOn

LEMMA SkipEdgeSafe ==
  ASSUME IInv, NEW i \in todo, SkipEdge(i) PROVE IInv'
<1> DEFINE adm == AdmittingTrustEdges(facts, here.at, facts.perm[i].dst)
<1>1. /\ phase = "walk" /\ phase' = "walk" /\ todo' = todo \ {i}
      /\ facts' = facts /\ waiting' = waiting /\ source' = source /\ frontier' = frontier
      /\ visited' = visited /\ here' = here /\ found' = found /\ findings' = findings
      /\ \A j \in adm : IsFirst(j, adm) =>
           <<facts.perm[i].dst, here.clean /\ CleanHop(facts, here.at, i, j)>> \in visited
  BY DEF SkipEdge, VisitKey
<1> HIDE DEF adm
<1>2. /\ Shape /\ Walking /\ Distances /\ Popped /\ Sound(source, found) /\ Founded(here)
      /\ \A k \in DOMAIN frontier : Founded(frontier[k])
  BY <1>1 DEF IInv, Walking
<1>3. Shape'
  BY <1>1, <1>2 DEF Shape
<1>4. (\A k \in DOMAIN frontier' : Founded(frontier[k])') /\ Founded(here)'
  <2>1. \A x : Founded(x) => Founded(x)'
    BY <1>1, FoundedStays
  <2>2. \A k \in DOMAIN frontier' : Founded(frontier'[k])
    BY <1>1, <1>2
  <2>3. Founded(here')
    BY <1>1, <1>2
  <2> QED
    BY <2>1, <2>2, <2>3
<1>5. \A k : Around(source, k)' = Around(source, k)
  BY <1>1, GraphStays
<1>6. Distances'
  BY <1>1, <1>2, <1>5 DEF Distances
<1>7. Popped'
  <2>1. Key(here)' = Key(here)
    BY <1>1 DEF Key
  <2>2. \A v : /\ InLine(v)' <=> InLine(v)
               /\ Gathered(v)' <=> Gathered(v)
               /\ Expanded(v)' <=> Expanded(v)
               /\ Late(v)' <=> Late(v)
    BY <1>1, <1>5 DEF InLine, Gathered, Expanded, Late, Key
  <2>3. ASSUME NEW h \in HopsOut(facts, here.at)
        PROVE  h.perm \in todo' \/ Beyond(facts, Key(here), h) \in visited
    <3>1. CASE h.perm = i
      <4>1. h.trust \in adm /\ IsFirst(h.trust, adm)
        BY <1>2, <3>1, GivenGraph, HopSays DEF IsFirst, adm
      <4>2. <<facts.perm[i].dst, here.clean /\ CleanHop(facts, here.at, i, h.trust)>> \in visited
        BY <1>1, <4>1
      <4>3. here \in Entry
        BY <1>2 DEF Shape
      <4>4. Key(here)[1] = here.at /\ Key(here)[2] = here.clean
        BY <4>3, EntrySays
      <4> QED
        BY <3>1, <4>2, <4>4 DEF Beyond
    <3>2. CASE h.perm # i
      BY <1>1, <1>2, <3>2 DEF Popped
    <3> QED
      BY <3>1, <3>2
  <2>4. \A h \in HopsOut(facts', here'.at) : h.perm \in todo' \/ Beyond(facts', Key(here)', h) \in visited'
    BY <1>1, <2>1, <2>3
  <2>5. \A v \in visited :
          InLine(v)' \/ (Gathered(v)' /\ (Expanded(v)' \/ Late(v)' \/ (phase' = "walk" /\ v = Key(here)')))
    BY <1>1, <1>2, <2>1, <2>2 DEF Popped
  <2> QED
    BY <1>1, <1>2, <1>5, <2>4, <2>5 DEF Popped
<1>8. Sound(source, found)'
  BY <1>1, <1>2, GraphStays
<1>9. Walking'
  BY <1>1 DEF Walking
<1> QED
  BY <1>1, <1>2, <1>3, <1>4, <1>6, <1>7, <1>8, <1>9, WalkGoesOn

\* Lengthening a sequence by one element.
LEMMA AppendSays ==
  ASSUME NEW S, NEW q \in Seq(S), NEW x \in S
  PROVE  /\ Append(q, x) \in Seq(S) /\ Len(Append(q, x)) = Len(q) + 1 /\ Append(q, x) # <<>>
         /\ Len(q) + 1 \in DOMAIN Append(q, x) /\ Append(q, x)[Len(q) + 1] = x
         /\ \A k \in DOMAIN q : k \in DOMAIN Append(q, x) /\ Append(q, x)[k] = q[k]
         /\ \A k \in DOMAIN Append(q, x) :
              \/ k \in DOMAIN q /\ k <= Len(q)
              \/ k = Len(q) + 1 /\ \A l \in DOMAIN Append(q, x) : k <= l => l = k
  OBVIOUS

LEMMA HopsOfAppend ==
  ASSUME NEW q \in Seq(Hop), NEW h \in Hop
  PROVE  HopsOf(Append(q, h)) = HopsOf(q) \cup {h}
<1> DEFINE r == Append(q, h)
<1>1. \A k \in DOMAIN q : k \in DOMAIN r /\ r[k] = q[k]
  BY AppendSays
<1>2. Len(q) + 1 \in DOMAIN r /\ r[Len(q) + 1] = h
  BY AppendSays
<1>3. \A k \in DOMAIN r : (k \in DOMAIN q /\ r[k] = q[k]) \/ r[k] = h
  BY AppendSays
<1> HIDE DEF r
<1>4. HopsOf(r) = HopsOf(q) \cup {h}
  BY <1>1, <1>2, <1>3 DEF HopsOf
<1> QED
  BY <1>4 DEF r

LEMMA TakeHopSafe ==
  ASSUME IInv, NEW i \in todo, NEW j \in DOMAIN facts.trust, TakeHop(i, j) PROVE IInv'
<1> DEFINE next == facts.perm[i].dst
           hop == [perm |-> i, trust |-> j]
           clean == here.clean /\ CleanHop(facts, here.at, i, j)
           y == <<next, clean>>
           new == [at |-> next, clean |-> clean, path |-> Append(here.path, hop)]
           L == Len(here.path)
<1>1. /\ phase = "walk" /\ phase' = "walk" /\ todo' = todo \ {i}
      /\ facts' = facts /\ waiting' = waiting /\ source' = source /\ here' = here /\ findings' = findings
      /\ IsFirst(j, AdmittingTrustEdges(facts, here.at, next))
      /\ y \notin visited /\ visited' = visited \cup {y}
      /\ found' = [found EXCEPT !.walked = @ \cup {hop}]
      /\ frontier' = Append(frontier, new)
  BY DEF TakeHop, VisitKey
<1>2. /\ Shape /\ Walking /\ Distances /\ Popped /\ Sound(source, found) /\ Founded(here)
      /\ \A k \in DOMAIN frontier : Founded(frontier[k])
  BY <1>1 DEF IInv, Walking
<1>3. facts \in FactGraphs /\ here \in Entry /\ frontier \in Seq(Entry)
  BY <1>2, GivenGraph DEF Shape
<1>4. /\ here.at \in Principals /\ here.clean \in BOOLEAN /\ here.path \in Seq(Hop) /\ L \in Nat
      /\ Key(here) \in Principals \X BOOLEAN /\ Key(here)[1] = here.at /\ Key(here)[2] = here.clean
  BY <1>3, EntrySays
<1>5. L < MaxDepth /\ L + 1 <= MaxDepth /\ L + 1 \in Nat /\ (L + 1) - 1 = L
  BY <1>1, <1>2, <1>4, DepthIsNat DEF Distances
<1>6. hop \in HopsOut(facts, here.at)
  <2>1. i \in PermissionEdgesFrom(facts, here.at)
    BY <1>1, <1>2 DEF Popped
  <2> QED
    BY <1>1, <2>1 DEF HopsOut
<1>7. hop \in Hop /\ hop \in AnyHop(facts) /\ next \in Roles /\ next \in Principals
  BY <1>3, <1>6, HopSays DEF Principals
<1>8. y = Beyond(facts, Key(here), hop) /\ clean \in BOOLEAN /\ y \in Principals \X BOOLEAN
  BY <1>4, <1>7 DEF Beyond
<1>9. /\ new.at = next /\ new.clean = clean /\ new.path = Append(here.path, hop)
      /\ new.path \in Seq(Hop) /\ Len(new.path) = L + 1 /\ new.path # <<>>
      /\ HopsOf(new.path) = HopsOf(here.path) \cup {hop}
      /\ new \in Entry
  <2>1. new.path = Append(here.path, hop)
    OBVIOUS
  <2>2. /\ Append(here.path, hop) \in Seq(Hop) /\ Len(Append(here.path, hop)) = L + 1
        /\ Append(here.path, hop) # <<>>
        /\ HopsOf(Append(here.path, hop)) = HopsOf(here.path) \cup {hop}
    BY <1>4, <1>7, AppendSays, HopsOfAppend
  <2> HIDE DEF next, hop, clean
  <2> QED
    BY <1>7, <1>8, <2>1, <2>2 DEF Entry
<1>10. Key(new) = y
  BY <1>9 DEF Key
<1> HIDE DEF next, hop, clean, y, new, L
<1>11. y \in Within(facts, source, L + 1, HopsOf(new.path))
  <2>1. Key(here) \in Within(facts, source, L, HopsOf(here.path))
    BY <1>2 DEF Founded, L
  <2>2. HopsOf(here.path) \subseteq HopsOf(new.path) /\ hop \in HopsOf(new.path)
    BY <1>9
  <2>3. Key(here) \in Within(facts, source, L, HopsOf(new.path))
    BY <1>4, <2>1, <2>2, MoreHopsReachMore
  <2> QED
    BY <1>4, <1>6, <1>8, <2>2, <2>3, OneHopFarther
<1>12. HopsOf(new.path) \subseteq AnyHop(facts)
  BY <1>2, <1>7, <1>9 DEF Founded
<1>13. y \in Around(source, MaxDepth)
  <2>1. y \in Around(source, L + 1)
    BY <1>5, <1>11, <1>12, MoreHopsReachMore DEF Around
  <2>2. Around(source, L + 1) \subseteq Around(source, MaxDepth)
    BY <1>5, FartherIsMore, DepthIsNat DEF Around
  <2> QED
    BY <2>1, <2>2
<1>14. /\ \A k : Around(source, k)' = Around(source, k)
       /\ \A h : CleanAround(source, h)' <=> CleanAround(source, h)
  BY <1>1, GraphStays
<1>15. clean => \A h \in HopsOf(new.path) : CleanAround(source, h)
  <2> HAVE clean
  <2>1. here.clean /\ CleanHop(facts, here.at, hop.perm, hop.trust)
    BY DEF clean, hop
  <2>2. \A h \in HopsOf(here.path) : CleanAround(source, h)
    BY <1>2, <2>1 DEF Founded
  <2>3. Key(here) \in Around(source, MaxDepth)
    BY <1>2, <1>3, EntryWithin
  <2>4. CleanAround(source, hop)
    BY <1>4, <1>6, <2>1, <2>3 DEF CleanAround
  <2> QED
    BY <1>9, <2>2, <2>4
<1>16. /\ \A x : Founded(x) => Founded(x)'
       /\ \A x : Key(x)' = Key(x)
  <2>1. visited \subseteq visited'
    BY <1>1
  <2> QED
    BY <1>1, <2>1, FoundedStays DEF Key
<1>17. y # <<source, TRUE>> /\ y \notin Around(source, L)
  BY <1>1, <1>2 DEF Popped, Distances, L
<1>18. /\ frontier' \in Seq(Entry) /\ Len(frontier) \in Nat
       /\ Len(frontier) + 1 \in DOMAIN frontier' /\ frontier'[Len(frontier) + 1] = new
       /\ \A k \in DOMAIN frontier : k \in DOMAIN frontier' /\ frontier'[k] = frontier[k]
       /\ \A k \in DOMAIN frontier' :
            \/ k \in DOMAIN frontier /\ frontier'[k] = frontier[k] /\ k <= Len(frontier)
            \/ k = Len(frontier) + 1 /\ frontier'[k] = new /\ \A l \in DOMAIN frontier' : k <= l => l = k
  BY <1>1, <1>3, <1>9, AppendSays
<1>19. \A k \in DOMAIN frontier' : Founded(frontier[k])'
  <2>1. ASSUME NEW x, x = new PROVE Founded(x)'
    <3>1. x.path # <<>> /\ Len(x.path) = L + 1 /\ Key(x) = y /\ (x.clean <=> clean)
      BY <1>9, <1>10, <2>1
    <3>2. Key(x) \in visited' /\ Len(x.path) <= MaxDepth
      BY <1>1, <1>5, <3>1
    <3>3. Key(x) \in Within(facts, source, Len(x.path), HopsOf(x.path))
      BY <1>11, <2>1, <3>1
    <3>4. Key(x) # <<source, TRUE>> /\ Key(x) \notin Around(source, Len(x.path) - 1)
      BY <1>5, <1>17, <3>1
    <3>5. x.clean => \A h \in HopsOf(x.path) : CleanAround(source, h)
      BY <1>15, <2>1, <3>1
    <3>6. HopsOf(x.path) \subseteq AnyHop(facts)
      BY <1>12, <2>1
    <3> QED
      BY <1>1, <1>14, <1>16, <3>1, <3>2, <3>3, <3>4, <3>5, <3>6 DEF Founded
  <2>2. ASSUME NEW k \in DOMAIN frontier', NEW x, x = frontier'[k] PROVE Founded(x)'
    BY <1>2, <1>16, <1>18, <2>1, <2>2
  <2> QED
    BY <2>2
<1>20. Founded(here)'
  <2>1. Founded(here')
    BY <1>1, <1>2
  <2> QED
    BY <1>16, <2>1
<1>21. /\ found' \in Collected
       /\ found'.walked = found.walked \cup {hop} /\ found'.admins = found.admins
       /\ found'.proven = found.proven /\ found'.proof = found.proof /\ found'.hitLimit = found.hitLimit
  <2>1. found \in Collected
    BY <1>2 DEF Sound
  <2> QED
    BY <1>1, <1>7, <2>1 DEF Collected
<1>22. Sound(source, found)'
  <2>1. Sound(source, found')
    BY <1>2, <1>7, <1>21 DEF Sound
  <2> QED
    BY <1>1, <2>1, GraphStays
<1>23. Shape'
  BY <1>1, <1>2, <1>8, <1>18, <1>21 DEF Shape
<1>24. /\ \A k, l \in DOMAIN frontier : k <= l => Len(frontier[k].path) <= Len(frontier[l].path)
       /\ \A k \in DOMAIN frontier : L <= Len(frontier[k].path) /\ Len(frontier[k].path) <= L + 1
       /\ Around(source, L) \subseteq visited
  BY <1>1, <1>2 DEF Distances, L
<1>25. Distances'
  <2>1. \A k \in DOMAIN frontier' : L <= Len(frontier'[k].path) /\ Len(frontier'[k].path) <= L + 1
    BY <1>4, <1>9, <1>18, <1>24
  <2>2. ASSUME NEW k \in DOMAIN frontier', NEW l \in DOMAIN frontier', k <= l
        PROVE  Len(frontier'[k].path) <= Len(frontier'[l].path)
    <3>1. CASE l \in DOMAIN frontier /\ l <= Len(frontier)
      <4>1. k # Len(frontier) + 1
        BY <1>18, <2>2, <3>1
      <4> QED
        BY <1>18, <1>24, <2>2, <3>1, <4>1
    <3>2. CASE l = Len(frontier) + 1
      BY <1>9, <1>18, <2>1, <3>2
    <3> QED
      BY <1>18, <3>1, <3>2
  <2>3. Len(here'.path) = L /\ L < MaxDepth /\ Around(source, L) \subseteq visited'
    BY <1>1, <1>5, <1>24 DEF L
  <2> QED
    BY <1>1, <1>14, <2>1, <2>2, <2>3 DEF Distances
<1>26. Popped'
  <2>1. ASSUME NEW v \in visited'
        PROVE  InLine(v)' \/ (Gathered(v)' /\ (Expanded(v)' \/ Late(v)' \/ (phase' = "walk" /\ v = Key(here)')))
    <3>1. CASE v = y
      <4>1. Key(frontier'[Len(frontier) + 1]) = v
        BY <1>10, <1>18, <3>1
      <4> QED
        BY <1>18, <4>1 DEF InLine, Key
    <3>2. CASE v \in visited
      <4>1. InLine(v) => InLine(v)'
        <5> HAVE InLine(v)
        <5>1. PICK k \in DOMAIN frontier : Key(frontier[k]) = v
          BY DEF InLine
        <5>2. k \in DOMAIN frontier' /\ Key(frontier'[k]) = v
          BY <1>18, <5>1
        <5> QED
          BY <5>2 DEF InLine, Key
      <4>2. Gathered(v) => Gathered(v)'
        BY <1>1, <1>21 DEF Gathered
      <4>3. Expanded(v) => Expanded(v)'
        BY <1>1 DEF Expanded
      <4>4. Late(v) => Late(v)'
        BY <1>14, <1>21 DEF Late
      <4>5. Key(here)' = Key(here)
        BY <1>1 DEF Key
      <4> QED
        BY <1>1, <1>2, <3>2, <4>1, <4>2, <4>3, <4>4, <4>5 DEF Popped
    <3> QED
      BY <1>1, <3>1, <3>2
  <2>2. ASSUME NEW h \in HopsOut(facts, here.at)
        PROVE  h.perm \in todo' \/ Beyond(facts, Key(here), h) \in visited'
    <3>1. CASE h.perm = i
      <4>1. /\ h = [perm |-> h.perm, trust |-> h.trust]
            /\ IsFirst(h.trust, AdmittingTrustEdges(facts, here.at, next))
            /\ h.trust \in DOMAIN facts.trust
        BY <1>3, <3>1, HopSays DEF next
      <4>2. h.trust = j
        <5>1. h.trust \in Nat /\ j \in Nat
          BY <1>3, <4>1, GraphTypes
        <5>2. h.trust <= j /\ j <= h.trust
          BY <1>1, <4>1 DEF IsFirst
        <5> QED
          BY <5>1, <5>2
      <4>3. h = hop
        BY <3>1, <4>1, <4>2 DEF hop
      <4> QED
        BY <1>1, <1>8, <4>3
    <3>2. CASE h.perm # i
      BY <1>1, <1>2, <3>2 DEF Popped
    <3> QED
      BY <3>1, <3>2
  <2>3. <<source, TRUE>> \in visited' /\ visited' \subseteq Around(source, MaxDepth)
    BY <1>1, <1>2, <1>13 DEF Popped
  <2>4. todo' \subseteq PermissionEdgesFrom(facts, here.at)
    BY <1>1, <1>2 DEF Popped
  <2>5. Key(here)' = Key(here)
    BY <1>1 DEF Key
  <2>6. \A h \in HopsOut(facts', here'.at) : h.perm \in todo' \/ Beyond(facts', Key(here)', h) \in visited'
    BY <1>1, <2>2, <2>5
  <2> QED
    BY <1>1, <1>14, <2>1, <2>3, <2>4, <2>6 DEF Popped
<1>27. Walking'
  BY <1>1 DEF Walking
<1> QED
  BY <1>1, <1>2, <1>19, <1>20, <1>22, <1>23, <1>25, <1>26, <1>27, WalkGoesOn

\* When the edges of an entry are done, all that is one hop beyond what is as
\* near as it is known, once the frontier holds nothing nearer.
LEMMA EdgesDoneSafe ==
  ASSUME IInv, EdgesDone PROVE IInv'
<1> DEFINE L == Len(here.path)
<1>1. /\ phase = "walk" /\ todo = {} /\ phase' = "pop"
      /\ facts' = facts /\ waiting' = waiting /\ source' = source /\ frontier' = frontier
      /\ visited' = visited /\ here' = here /\ todo' = todo /\ found' = found /\ findings' = findings
  BY DEF EdgesDone, walk
<1>2. /\ Shape /\ Walking /\ Distances /\ Popped /\ Sound(source, found) /\ Founded(here)
      /\ \A k \in DOMAIN frontier : Founded(frontier[k])
  BY <1>1 DEF IInv, Walking
<1>3. facts \in FactGraphs /\ here \in Entry /\ frontier \in Seq(Entry)
  BY <1>2, GivenGraph DEF Shape
<1>4. L \in Nat /\ L < MaxDepth /\ L <= MaxDepth - 1 /\ Key(here)[1] = here.at
  BY <1>1, <1>2, <1>3, EntrySays, DepthIsNat DEF Distances
<1> HIDE DEF L
<1>5. Expanded(Key(here))
  BY <1>1, <1>2, <1>4 DEF Popped, Expanded
<1>6. /\ \A k, l \in DOMAIN frontier : k <= l => Len(frontier[k].path) <= Len(frontier[l].path)
      /\ \A k \in DOMAIN frontier : L <= Len(frontier[k].path) /\ Len(frontier[k].path) <= L + 1
      /\ Around(source, L) \subseteq visited
  BY <1>1, <1>2 DEF Distances, L
<1>7. \A k \in DOMAIN frontier : /\ frontier[k] \in Entry /\ Len(frontier[k].path) \in Nat
                                 /\ (frontier[k].path # <<>> <=> Len(frontier[k].path) # 0)
                                 /\ 1 \in DOMAIN frontier /\ 1 <= k
  <2>1. \A k \in DOMAIN frontier : frontier[k] \in Entry /\ 1 \in DOMAIN frontier /\ 1 <= k
    BY <1>3
  <2> QED
    BY <2>1, EntrySays
<1>8. ASSUME NEW k \in DOMAIN frontier
      PROVE  /\ Len(frontier[k].path) <= Len(frontier[1].path) + 1
             /\ Around(source, Len(frontier[1].path)) \subseteq visited
  <2>1. 1 \in DOMAIN frontier /\ Len(frontier[1].path) \in Nat /\ Len(frontier[k].path) \in Nat
    BY <1>7, <1>8
  <2>2. Len(frontier[k].path) <= Len(frontier[1].path) + 1
    BY <1>4, <1>6, <2>1
  <2>3. CASE Len(frontier[1].path) = L
    BY <1>6, <2>2, <2>3
  <2>4. CASE Len(frontier[1].path) = L + 1
    <3>1. \A l \in DOMAIN frontier : Len(frontier[l].path) = L + 1
      <4> TAKE l \in DOMAIN frontier
      <4>1. Len(frontier[l].path) \in Nat /\ Len(frontier[1].path) <= Len(frontier[l].path)
        BY <1>6, <1>7, <2>1
      <4> QED
        BY <1>4, <1>6, <2>4, <4>1
    <3>2. \A l \in DOMAIN frontier : Key(frontier[l]) \notin Around(source, L)
      <4> TAKE l \in DOMAIN frontier
      <4>1. frontier[l].path # <<>> /\ Len(frontier[l].path) - 1 = L
        BY <1>4, <1>7, <3>1
      <4> QED
        BY <1>2, <4>1 DEF Founded
    <3>3. \A n \in Around(source, L) : Expanded(n)
      <4> TAKE n \in Around(source, L)
      <4>1. n \in visited /\ ~ InLine(n)
        BY <1>6, <3>2 DEF InLine
      <4>2. n \in Around(source, MaxDepth - 1)
        BY <1>4, DepthIsNat, FartherIsMore DEF Around
      <4> QED
        BY <1>2, <1>5, <4>1, <4>2 DEF Popped, Late
    <3>4. Onward(facts, Around(source, L), AnyHop(facts)) \subseteq visited
      <4> SUFFICES ASSUME NEW y \in Onward(facts, Around(source, L), AnyHop(facts)) PROVE y \in visited
        OBVIOUS
      <4>1. PICK n \in Around(source, L) :
              \E h \in HopsOut(facts, n[1]) : h \in AnyHop(facts) /\ y = Beyond(facts, n, h)
        BY OnwardSays
      <4> QED
        BY <3>3, <4>1 DEF Expanded
    <3>5. Around(source, L + 1) = Around(source, L) \cup Onward(facts, Around(source, L), AnyHop(facts))
      BY <1>4, WithinNext DEF Around
    <3> QED
      BY <1>6, <2>2, <2>4, <3>4, <3>5
  <2> QED
    BY <1>4, <1>6, <2>1, <2>3, <2>4
<1>9. \A k : Around(source, k)' = Around(source, k)
  BY <1>1, GraphStays
<1>10. Distances'
  BY <1>1, <1>6, <1>8, <1>9 DEF Distances
<1>11. Popped'
  <2>1. \A v : /\ InLine(v)' <=> InLine(v)
               /\ Gathered(v)' <=> Gathered(v)
               /\ Expanded(v)' <=> Expanded(v)
               /\ Late(v)' <=> Late(v)
    BY <1>1, <1>9 DEF InLine, Gathered, Expanded, Late, Key
  <2>2. \A v \in visited : InLine(v) \/ (Gathered(v) /\ (Expanded(v) \/ Late(v)))
    BY <1>2, <1>5 DEF Popped
  <2> QED
    BY <1>1, <1>2, <1>9, <2>1, <2>2 DEF Popped
<1>12. \A k \in DOMAIN frontier' : Founded(frontier[k])'
  <2>1. \A x : Founded(x) => Founded(x)'
    BY <1>1, FoundedStays
  <2>2. \A k \in DOMAIN frontier' : Founded(frontier'[k])
    BY <1>1, <1>2
  <2> QED
    BY <2>1, <2>2
<1>13. Sound(source, found)'
  BY <1>1, <1>2, GraphStays
<1>14. Shape' /\ Walking' /\ phase' # "walk"
  BY <1>1, <1>2 DEF Shape, Walking
<1> QED
  BY <1>1, <1>2, <1>10, <1>11, <1>12, <1>13, <1>14, WalkGoesOn

-----------------------------------------------------------------------------
(***************************************************************************)
(* The end of a walk.                                                      *)
(***************************************************************************)
\* With the frontier empty, all that is in reach was visited, and gathered.
LEMMA WalkEnds ==
  ASSUME IInv, phase = "pop", frontier = <<>>
  PROVE  Whole(source, found)
<1>1. Shape /\ Popped /\ Sound(source, found) /\ facts \in FactGraphs
  BY GivenGraph DEF IInv, Walking
<1>2. \A v \in visited : Gathered(v) /\ (Expanded(v) \/ Late(v))
  BY <1>1 DEF Popped, InLine
<1>3. \A k \in Nat : k <= MaxDepth => Around(source, k) \subseteq visited
  <2> DEFINE T == {k \in Nat : k <= MaxDepth => Around(source, k) \subseteq visited}
  <2>1. 0 \in T
    <3>1. Around(source, 0) = {<<source, TRUE>>}
      BY WithinStart, Zenon DEF Around
    <3>2. <<source, TRUE>> \in visited
      BY <1>1 DEF Popped
    <3> QED
      BY <3>1, <3>2
  <2>2. ASSUME NEW k \in Nat, k \in T PROVE k + 1 \in T
    <3> SUFFICES ASSUME k + 1 <= MaxDepth PROVE Around(source, k + 1) \subseteq visited
      OBVIOUS
    <3>1. k <= MaxDepth /\ k <= MaxDepth - 1
      BY DepthIsNat
    <3>2. Around(source, k) \subseteq visited /\ Around(source, k) \subseteq Around(source, MaxDepth - 1)
      BY <2>2, <3>1, DepthIsNat, FartherIsMore DEF Around
    <3>3. \A n \in Around(source, k) : Expanded(n)
      BY <1>2, <3>2 DEF Late
    <3>4. Onward(facts, Around(source, k), AnyHop(facts)) \subseteq visited
      <4> SUFFICES ASSUME NEW y \in Onward(facts, Around(source, k), AnyHop(facts)) PROVE y \in visited
        OBVIOUS
      <4>1. PICK n \in Around(source, k) :
              \E h \in HopsOut(facts, n[1]) : h \in AnyHop(facts) /\ y = Beyond(facts, n, h)
        BY OnwardSays
      <4> QED
        BY <3>3, <4>1 DEF Expanded
    <3>5. Around(source, k + 1) = Around(source, k) \cup Onward(facts, Around(source, k), AnyHop(facts))
      BY WithinNext DEF Around
    <3> QED
      BY <3>2, <3>4, <3>5
  <2> HIDE DEF T
  <2>3. \A k \in Nat : k \in T
    BY <2>1, <2>2, SetInduction
  <2> QED
    BY <2>3 DEF T
<1>4. visited = Around(source, MaxDepth)
  BY <1>1, <1>3, DepthIsNat DEF Popped
<1>5. \A r : r # source /\ IsAdmin(facts, r) =>
        /\ <<r, TRUE>> \in visited \/ <<r, FALSE>> \in visited => r \in found.admins
        /\ <<r, TRUE>> \in visited /\ facts.admin[r].managed => r \in found.proven
  <2> TAKE r
  <2>1. \A v \in visited : v[1] = r /\ r # source /\ IsAdmin(facts, r) =>
          r \in found.admins /\ (v[2] /\ facts.admin[r].managed => r \in found.proven)
    BY <1>2 DEF Gathered
  <2>2. <<r, TRUE>>[1] = r /\ <<r, TRUE>>[2] = TRUE /\ <<r, FALSE>>[1] = r
    OBVIOUS
  <2> QED
    BY <2>1, <2>2
<1>6. AdminsIn(facts, Around(source, MaxDepth)) \ {source} \subseteq found.admins
  BY <1>4, <1>5 DEF AdminsIn
<1>7. ProvenIn(facts, Around(source, MaxDepth)) \ {source} \subseteq found.proven
  BY <1>4, <1>5 DEF ProvenIn
<1>8. found.hitLimit \/ Onward(facts, Around(source, MaxDepth), AnyHop(facts)) \subseteq Around(source, MaxDepth)
  <2> SUFFICES ASSUME ~ found.hitLimit,
                      NEW y \in Onward(facts, Around(source, MaxDepth), AnyHop(facts))
               PROVE  y \in visited
    BY <1>4
  <2>1. PICK n \in Around(source, MaxDepth) :
          \E h \in HopsOut(facts, n[1]) : h \in AnyHop(facts) /\ y = Beyond(facts, n, h)
    BY OnwardSays
  <2> QED
    BY <1>2, <1>4, <2>1 DEF Expanded, Late
<1> QED
  BY <1>6, <1>7, <1>8 DEF Whole

\* A finding shows the accumulator it is built from.
LEMMA FindingSays ==
  ASSUME NEW G, NEW s, NEW acc \in Collected
  PROVE  /\ ReachFinding(G, s, acc).source = s
         /\ ReachFinding(G, s, acc).admins = acc.admins
         /\ ReachFinding(G, s, acc).proven = acc.proven
         /\ ReachFinding(G, s, acc).walked = acc.walked
         /\ ReachFinding(G, s, acc).proof = acc.proof
         /\ ReachFinding(G, s, acc).verdict = ReachVerdict(ReachChecks(G, acc))
         /\ BuiltFrom(ReachFinding(G, s, acc), acc.hitLimit) = acc
<1> DEFINE f == ReachFinding(G, s, acc)
<1>1. /\ f.source = s /\ f.admins = acc.admins /\ f.proven = acc.proven /\ f.walked = acc.walked
      /\ f.proof = acc.proof /\ f.verdict = ReachVerdict(ReachChecks(G, acc))
  BY DEF ReachFinding
<1> HIDE DEF f
<1>2. BuiltFrom(f, acc.hitLimit) = acc
  BY <1>1 DEF BuiltFrom, Collected
<1> QED
  BY <1>1, <1>2 DEF f

LEMMA WalkDoneSafe ==
  ASSUME IInv, WalkDone PROVE IInv'
<1> DEFINE f == ReachFinding(facts, source, found)
<1>1. /\ phase = "pop" /\ frontier = <<>> /\ phase' = "choose"
      /\ findings' = findings \cup (IF found.admins = {} THEN {} ELSE {f})
      /\ facts' = facts /\ waiting' = waiting /\ source' = source /\ frontier' = frontier
      /\ visited' = visited /\ here' = here /\ todo' = todo /\ found' = found
  BY DEF WalkDone, walk
<1>2. Shape /\ Walking /\ Sound(source, found) /\ source \in Principals
  BY <1>1 DEF IInv, Walking, Shape
<1>3. Whole(source, found)
  BY <1>1, WalkEnds
<1>4. found \in Collected /\ found.hitLimit \in BOOLEAN
  BY <1>2 DEF Sound, Collected
<1>5. f.source = source /\ f.admins = found.admins /\ BuiltFrom(f, found.hitLimit) = found
  BY <1>4, FindingSays
<1>6. found.admins # {} => Grounded(f)
  <2>1. f = ReachFinding(facts, f.source, BuiltFrom(f, found.hitLimit))
    BY <1>5
  <2> HIDE DEF f
  <2> QED
    BY <1>2, <1>3, <1>4, <1>5, <2>1 DEF Grounded
<1> HIDE DEF f
<1>7. \A g \in findings' : Grounded(g)'
  <2>1. \A g \in findings' : Grounded(g)
    BY <1>1, <1>6 DEF IInv
  <2> QED
    BY <1>1, <2>1, GraphStays
<1>8. \A s : Settled(s) => Settled(s)'
  <2>1. findings \subseteq findings' /\ \A s, k : Around(s, k)' = Around(s, k)
    BY <1>1, GraphStays
  <2> QED
    BY <1>1, <2>1 DEF Settled
<1>9. Settled(source)'
  <2>1. \A s, k : Around(s, k)' = Around(s, k)
    BY <1>1, GraphStays
  <2>2. CASE found.admins = {}
    <3>1. AdminsIn(facts, Around(source, MaxDepth)) \subseteq {source}
      BY <1>3, <2>2 DEF Whole
    <3> QED
      BY <1>1, <2>1, <3>1 DEF Settled
  <2>3. CASE found.admins # {}
    <3>1. f \in findings'
      BY <1>1, <2>3
    <3> QED
      BY <1>1, <1>5, <3>1 DEF Settled
  <2> QED
    BY <2>2, <2>3
<1>10. \A s \in Principals : s \in waiting' \/ Settled(s)'
  BY <1>1, <1>8, <1>9 DEF IInv
<1>11. Shape' /\ ~ Walking' /\ phase' # "done"
  BY <1>1, <1>2 DEF Shape, Walking
<1> QED
  BY <1>7, <1>10, <1>11 DEF IInv

LEMMA FinishSafe ==
  ASSUME IInv, Finish PROVE IInv'
<1>1. /\ phase = "choose" /\ waiting = {} /\ phase' = "done"
      /\ facts' = facts /\ waiting' = waiting /\ source' = source /\ frontier' = frontier
      /\ visited' = visited /\ here' = here /\ todo' = todo /\ found' = found /\ findings' = findings
  BY DEF Finish, walk
<1>2. \A g \in findings' : Grounded(g)'
  BY <1>1, GraphStays DEF IInv
<1>3. \A s \in Principals : s \in waiting' \/ Settled(s)'
  <2>1. \A s : Settled(s)' <=> Settled(s)
    BY <1>1, GraphStays DEF Settled
  <2> QED
    BY <1>1, <2>1 DEF IInv, Walking
<1>4. Shape' /\ ~ Walking'
  BY <1>1 DEF IInv, Shape, Walking
<1> QED
  BY <1>1, <1>2, <1>3, <1>4 DEF IInv

LEMMA StutterSafe ==
  ASSUME IInv, UNCHANGED vars PROVE IInv'
<1>1. /\ facts' = facts /\ waiting' = waiting /\ source' = source /\ frontier' = frontier
      /\ visited' = visited /\ here' = here /\ todo' = todo /\ found' = found /\ findings' = findings
      /\ phase' = phase
  BY DEF vars, walk
<1>2. /\ \A g : Grounded(g)' <=> Grounded(g)
      /\ \A s : Settled(s)' <=> Settled(s)
      /\ \A k : Around(source, k)' = Around(source, k)
  BY <1>1, GraphStays DEF Settled
<1>3. \A x : Founded(x)' <=> Founded(x)
  <2>1. \A x : Key(x)' = Key(x) /\ \A h : CleanAround(source, h)' <=> CleanAround(source, h)
    BY <1>1, GraphStays DEF Key
  <2> QED
    BY <1>1, <1>2, <2>1 DEF Founded
<1>4. Distances' <=> Distances
  BY <1>1, <1>2 DEF Distances
<1>5. Popped' <=> Popped
  <2>1. \A v : /\ InLine(v)' <=> InLine(v)
               /\ Gathered(v)' <=> Gathered(v)
               /\ Expanded(v)' <=> Expanded(v)
               /\ Late(v)' <=> Late(v)
    BY <1>1, <1>2 DEF InLine, Gathered, Expanded, Late, Key
  <2>2. Key(here)' = Key(here)
    BY <1>1 DEF Key
  <2> QED
    BY <1>1, <1>2, <2>1, <2>2 DEF Popped
<1>6. Sound(source, found)' <=> Sound(source, found)
  BY <1>1, GraphStays
<1>7. (Shape' <=> Shape) /\ (Walking' <=> Walking)
  BY <1>1 DEF Shape, Walking
<1>8. (\A k \in DOMAIN frontier' : Founded(frontier[k])') <=> (\A k \in DOMAIN frontier : Founded(frontier[k]))
  BY <1>1, <1>3
<1>9. Founded(here)' <=> Founded(here)
  BY <1>1, <1>3
<1> QED
  BY <1>1, <1>2, <1>4, <1>5, <1>6, <1>7, <1>8, <1>9 DEF IInv

LEMMA StepSafe ==
  ASSUME IInv, [Next]_vars PROVE IInv'
<1>1. CASE \E p \in waiting : ChooseSource(p)
  BY <1>1, ChooseSourceSafe
<1>2. CASE Pop
  BY <1>2, PopSafe
<1>3. CASE \E i \in todo : SkipEdge(i)
  BY <1>3, SkipEdgeSafe
<1>4. CASE \E i \in todo, j \in DOMAIN facts.trust : TakeHop(i, j)
  BY <1>4, TakeHopSafe
<1>5. CASE EdgesDone
  BY <1>5, EdgesDoneSafe
<1>6. CASE WalkDone
  BY <1>6, WalkDoneSafe
<1>7. CASE Finish
  BY <1>7, FinishSafe
<1>8. CASE Terminated \/ UNCHANGED vars
  BY <1>8, StutterSafe DEF Terminated
<1> QED
  BY <1>1, <1>2, <1>3, <1>4, <1>5, <1>6, <1>7, <1>8 DEF Next

(***************************************************************************)
(* The invariant of the walk: what it has visited is what lies within the  *)
(* distance it has got to, what it has popped is gathered and expanded,    *)
(* what it has collected is there, and every finding is built from a walk  *)
(* that ended so.                                                          *)
(***************************************************************************)
THEOREM Invariance == Spec => []IInv
<1>1. Init => IInv
  BY Initially
<1>2. IInv /\ [Next]_vars => IInv'
  BY StepSafe
<1> QED
  BY <1>1, <1>2, PTL DEF Spec

(***************************************************************************)
(* Every variable stays in its type.                                       *)
(***************************************************************************)
THEOREM Types == Spec => []TypeOK
<1>1. IInv => TypeOK
  BY GivenGraph DEF IInv, Shape, TypeOK
<1> QED
  BY <1>1, Invariance, PTL

-----------------------------------------------------------------------------
(***************************************************************************)
(* Verdicts.                                                               *)
(***************************************************************************)
LEMMA BlockerStates ==
  ASSUME NEW S
  PROVE  /\ BlockerState(S) \in {"PASS", "FAIL", "UNKNOWN"}
         /\ BlockerState(S) = "PASS" <=> Free(S)
  BY DEF BlockerState, Free

LEMMA FreeUnion ==
  ASSUME NEW C
  PROVE  Free(UNION C) <=> \A S \in C : Free(S)
  BY DEF Free

LEMMA FreeCup ==
  ASSUME NEW S, NEW T
  PROVE  Free(S \cup T) <=> Free(S) /\ Free(T)
  BY DEF Free

\* The two governance checks pass exactly when all that they look at is free.
LEMMA GovernanceChecks ==
  ASSUME NEW G, NEW acc
  PROVE  /\ WalkScpCheck(G, acc) = "PASS" <=> \A h \in CheckedHops(acc) : Free(G.trust[h.trust].scp)
         /\ WalkBoundaryCheck(G, acc) = "PASS" <=>
              /\ \A h \in CheckedHops(acc) : Free(G.perm[h.perm].boundary)
              /\ \A r \in CheckedAdmins(acc) : Free(G.admin[r].boundary)
         /\ WalkScpCheck(G, acc) \in {"PASS", "FAIL", "UNKNOWN"}
         /\ WalkBoundaryCheck(G, acc) \in {"PASS", "FAIL", "UNKNOWN"}
<1> DEFINE scps == {e.scp : e \in TrustsOf(G, CheckedHops(acc))}
           hopBoundaries == {e.boundary : e \in PermsOf(G, CheckedHops(acc))}
           adminBoundaries == {G.admin[r].boundary : r \in CheckedAdmins(acc)}
<1>1. Free(UNION scps) <=> \A h \in CheckedHops(acc) : Free(G.trust[h.trust].scp)
  <2>1. (\A S \in scps : Free(S)) <=> \A h \in CheckedHops(acc) : Free(G.trust[h.trust].scp)
    BY DEF TrustsOf
  <2> QED
    BY <2>1, FreeUnion
<1>2. Free(UNION hopBoundaries) <=> \A h \in CheckedHops(acc) : Free(G.perm[h.perm].boundary)
  <2>1. (\A S \in hopBoundaries : Free(S)) <=> \A h \in CheckedHops(acc) : Free(G.perm[h.perm].boundary)
    BY DEF PermsOf
  <2> QED
    BY <2>1, FreeUnion
<1>3. Free(UNION adminBoundaries) <=> \A r \in CheckedAdmins(acc) : Free(G.admin[r].boundary)
  <2>1. (\A S \in adminBoundaries : Free(S)) <=> \A r \in CheckedAdmins(acc) : Free(G.admin[r].boundary)
    OBVIOUS
  <2> QED
    BY <2>1, FreeUnion
<1>4. /\ WalkScpCheck(G, acc) = BlockerState(UNION scps)
      /\ WalkBoundaryCheck(G, acc) = BlockerState((UNION hopBoundaries) \cup (UNION adminBoundaries))
  BY DEF WalkScpCheck, WalkBoundaryCheck
<1> HIDE DEF scps, hopBoundaries, adminBoundaries
<1>5. Free((UNION hopBoundaries) \cup (UNION adminBoundaries)) <=>
        Free(UNION hopBoundaries) /\ Free(UNION adminBoundaries)
  BY FreeCup
<1> QED
  BY <1>1, <1>2, <1>3, <1>4, <1>5, BlockerStates

LEMMA VerdictSays ==
  ASSUME NEW G, NEW acc \in Collected
  PROVE  LET verdict == ReachVerdict(ReachChecks(G, acc))
         IN  /\ verdict = "VALIDATED" <=>
                  /\ acc.proven # {} /\ ~ acc.hitLimit
                  /\ WalkScpCheck(G, acc) = "PASS" /\ WalkBoundaryCheck(G, acc) = "PASS"
             /\ verdict = "BLOCKED" <=>
                  WalkScpCheck(G, acc) = "FAIL" \/ WalkBoundaryCheck(G, acc) = "FAIL"
             /\ verdict \in {"VALIDATED", "BLOCKED", "INCONCLUSIVE"}
<1> DEFINE checks == ReachChecks(G, acc)
<1>1. /\ DOMAIN checks = {"scp", "boundary", "clean_witness", "depth"}
      /\ checks.scp = WalkScpCheck(G, acc) /\ checks.boundary = WalkBoundaryCheck(G, acc)
      /\ checks.clean_witness = CleanWitnessCheck(acc) /\ checks.depth = DepthCheck(acc)
  BY DEF ReachChecks
<1>2. /\ WalkScpCheck(G, acc) \in {"PASS", "FAIL", "UNKNOWN"}
      /\ WalkBoundaryCheck(G, acc) \in {"PASS", "FAIL", "UNKNOWN"}
  BY GovernanceChecks
<1>3. /\ CleanWitnessCheck(acc) = "UNKNOWN" <=> acc.proven = {}
      /\ DepthCheck(acc) = "UNKNOWN" <=> acc.hitLimit
  BY DEF CleanWitnessCheck, DepthCheck
<1> HIDE DEF checks
<1>4. (\E c \in DOMAIN checks : checks[c] = "UNKNOWN") <=>
        \/ checks.scp = "UNKNOWN" \/ checks.boundary = "UNKNOWN"
        \/ checks.clean_witness = "UNKNOWN" \/ checks.depth = "UNKNOWN"
  BY <1>1
<1>5. ReachVerdict(checks) =
        IF checks.scp = "FAIL" \/ checks.boundary = "FAIL" THEN "BLOCKED"
        ELSE IF \E c \in DOMAIN checks : checks[c] = "UNKNOWN" THEN "INCONCLUSIVE" ELSE "VALIDATED"
  BY DEF ReachVerdict
<1>6. /\ ReachVerdict(checks) = "VALIDATED" <=>
           /\ acc.proven # {} /\ ~ acc.hitLimit
           /\ WalkScpCheck(G, acc) = "PASS" /\ WalkBoundaryCheck(G, acc) = "PASS"
      /\ ReachVerdict(checks) = "BLOCKED" <=>
           WalkScpCheck(G, acc) = "FAIL" \/ WalkBoundaryCheck(G, acc) = "FAIL"
      /\ ReachVerdict(checks) \in {"VALIDATED", "BLOCKED", "INCONCLUSIVE"}
  BY <1>1, <1>2, <1>3, <1>4, <1>5
<1> QED
  BY <1>6 DEF checks

\* A finding is VALIDATED exactly when it has a proof, the limit was not hit,
\* and all that the proof crosses is free.
LEMMA ValidatedSays ==
  ASSUME NEW G, NEW acc \in Collected
  PROVE  ReachVerdict(ReachChecks(G, acc)) = "VALIDATED" <=>
           /\ acc.proven # {} /\ ~ acc.hitLimit
           /\ \A h \in acc.proof : FreeHop(G, h)
           /\ \A r \in acc.proven : Free(G.admin[r].boundary)
<1>1. acc.proven # {} => CheckedHops(acc) = acc.proof /\ CheckedAdmins(acc) = acc.proven
  BY DEF CheckedHops, CheckedAdmins
<1>2. acc.proven # {} =>
        (WalkScpCheck(G, acc) = "PASS" /\ WalkBoundaryCheck(G, acc) = "PASS" <=>
           /\ \A h \in acc.proof : FreeHop(G, h)
           /\ \A r \in acc.proven : Free(G.admin[r].boundary))
  BY <1>1, GovernanceChecks DEF FreeHop
<1> QED
  BY <1>2, VerdictSays

\* What is known of a finding.
LEMMA GroundedSays ==
  ASSUME NEW f, Grounded(f)
  PROVE  \E acc \in Collected :
           /\ f = ReachFinding(facts, f.source, acc)
           /\ f.source \in Principals
           /\ f.admins = acc.admins /\ f.proven = acc.proven
           /\ f.verdict = ReachVerdict(ReachChecks(facts, acc))
           /\ Sound(f.source, acc) /\ Whole(f.source, acc)
<1>1. PICK hit \in BOOLEAN :
         /\ f = ReachFinding(facts, f.source, BuiltFrom(f, hit))
         /\ Sound(f.source, BuiltFrom(f, hit)) /\ Whole(f.source, BuiltFrom(f, hit))
  BY DEF Grounded
<1> DEFINE acc == BuiltFrom(f, hit)
<1>2. acc \in Collected
  BY <1>1 DEF Sound
<1>3. f = ReachFinding(facts, f.source, acc) /\ Sound(f.source, acc) /\ Whole(f.source, acc)
  BY <1>1
<1> HIDE DEF acc
<1>4. f.admins = acc.admins /\ f.proven = acc.proven /\ f.verdict = ReachVerdict(ReachChecks(facts, acc))
  BY <1>2, <1>3, FindingSays
<1>5. f.source \in Principals
  BY DEF Grounded
<1> QED
  BY <1>2, <1>3, <1>4, <1>5

-----------------------------------------------------------------------------
(***************************************************************************)
(* A finding lists exactly the admin-equivalent roles within MaxDepth hops *)
(* of its source and marks proven exactly those that clean hops alone      *)
(* reach, and a principal that reaches one is not left out: breadth-first  *)
(* order over (principal, clean) keys loses nothing to the depth limit.    *)
(***************************************************************************)
THEOREM ExactlyWhatIsInReach == Spec => []ReachesExactly
<1> SUFFICES IInv => ReachesExactly
  BY Invariance, PTL
<1> SUFFICES ASSUME IInv PROVE ReachesExactly
  OBVIOUS
<1>1. ASSUME NEW f \in findings
      PROVE  /\ f.admins \ {f.source} = AdminsIn(facts, Around(f.source, MaxDepth)) \ {f.source}
             /\ f.proven = ProvenIn(facts, Around(f.source, MaxDepth)) \ {f.source}
  <2>1. Grounded(f)
    BY DEF IInv
  <2> QED
    BY <2>1, GroundedSays DEF Sound, Whole
<1>2. phase = "done" => \A s \in Principals : Settled(s)
  BY DEF IInv, Walking
<1> QED
  BY <1>1, <1>2 DEF ReachesExactly, Around, Settled

(***************************************************************************)
(* A VALIDATED finding is complete: the depth check is UNKNOWN whenever    *)
(* an entry at the limit was popped, and with none popped all that any     *)
(* number of hops reaches is within the limit.                             *)
(***************************************************************************)
THEOREM ValidatedIsComplete == Spec => []CompleteWhenValidated
<1> SUFFICES IInv => CompleteWhenValidated
  BY Invariance, PTL
<1> SUFFICES ASSUME IInv, NEW f \in findings, f.verdict = "VALIDATED"
             PROVE  AdminsIn(facts, Around(f.source, Cardinality(Principals))) \ {f.source} \subseteq f.admins
  BY DEF CompleteWhenValidated, Around
<1>1. Grounded(f)
  BY DEF IInv
<1>2. PICK acc \in Collected :
         /\ f.admins = acc.admins /\ f.source \in Principals
         /\ f.verdict = ReachVerdict(ReachChecks(facts, acc))
         /\ Sound(f.source, acc) /\ Whole(f.source, acc)
  BY <1>1, GroundedSays
<1>3. ~ acc.hitLimit
  BY <1>2, ValidatedSays
<1>4. Onward(facts, Around(f.source, MaxDepth), AnyHop(facts)) \subseteq Around(f.source, MaxDepth)
  BY <1>2, <1>3 DEF Whole
<1>5. <<f.source, TRUE>> \in Around(f.source, MaxDepth)
  <2>1. Around(f.source, 0) = {<<f.source, TRUE>>}
    BY WithinStart, Zenon DEF Around
  <2>2. Around(f.source, 0) \subseteq Around(f.source, MaxDepth)
    BY DepthIsNat, FartherIsMore DEF Around
  <2> QED
    BY <2>1, <2>2
<1>6. Cardinality(Principals) \in Nat
  BY ReachBounds, FS_CardinalityType
<1>7. Around(f.source, Cardinality(Principals)) \subseteq Around(f.source, MaxDepth)
  BY <1>4, <1>5, <1>6, ClosedIsAll DEF Around
<1> QED
  BY <1>2, <1>7 DEF AdminsIn, Whole

(***************************************************************************)
(* A VALIDATED finding rests on a chain of clean hops, none of which an    *)
(* SCP or a boundary stops or may stop, to an admin-equivalent role whose  *)
(* own witness nothing is bound against.                                   *)
(***************************************************************************)
THEOREM ValidatedIsProven == Spec => []ValidatedProven
<1> SUFFICES IInv => ValidatedProven
  BY Invariance, PTL
<1> SUFFICES ASSUME IInv, NEW f \in findings, f.verdict = "VALIDATED"
             PROVE  \E r \in ProvenIn(facts, Within(facts, f.source, MaxDepth, FreeHops(facts))) \ {f.source} :
                      Free(facts.admin[r].boundary)
  BY DEF ValidatedProven
<1>1. Grounded(f)
  BY DEF IInv
<1>2. PICK acc \in Collected :
         /\ f.verdict = ReachVerdict(ReachChecks(facts, acc))
         /\ Sound(f.source, acc)
  BY <1>1, GroundedSays
<1>3. /\ acc.proven # {}
      /\ \A h \in acc.proof : FreeHop(facts, h)
      /\ \A r \in acc.proven : Free(facts.admin[r].boundary)
  BY <1>2, ValidatedSays
<1>4. PICK r \in acc.proven : TRUE
  BY <1>3
<1>5. /\ r # f.source /\ r \in Roles /\ IsAdmin(facts, r) /\ facts.admin[r].managed
      /\ <<r, TRUE>> \in Within(facts, f.source, MaxDepth, acc.proof)
      /\ acc.proof \subseteq AnyHop(facts)
  BY <1>2, <1>4 DEF Sound, ProvenIn
<1>6. acc.proof \subseteq FreeHops(facts)
  BY <1>3, <1>5 DEF FreeHops
<1>7. <<r, TRUE>> \in Within(facts, f.source, MaxDepth, FreeHops(facts))
  BY <1>5, <1>6, MoreHopsReachMore, DepthIsNat
<1>8. r \in ProvenIn(facts, Within(facts, f.source, MaxDepth, FreeHops(facts))) \ {f.source}
  BY <1>5, <1>7 DEF ProvenIn
<1> QED
  BY <1>3, <1>4, <1>8

(***************************************************************************)
(* A doubtful or controlled branch does not downgrade a clean proof: when  *)
(* clean hops reach an admin, no clean hop in reach and no proven witness  *)
(* has an open binding and the walk ends short of the limit, the finding   *)
(* is VALIDATED.                                                           *)
(***************************************************************************)
THEOREM CleanProofIsNotPoisoned == Spec => []NotPoisoned
<1> SUFFICES IInv => NotPoisoned
  BY Invariance, PTL
<1> SUFFICES ASSUME IInv, NEW f \in findings, f.proven # {},
                    Around(f.source, MaxDepth) = Around(f.source, MaxDepth - 1),
                    \A n \in Around(f.source, MaxDepth) : n[2] => \A h \in HopsOut(facts, n[1]) :
                      CleanHop(facts, n[1], h.perm, h.trust) => FreeHop(facts, h),
                    \A r \in f.proven : Free(facts.admin[r].boundary)
             PROVE  f.verdict = "VALIDATED"
  BY DEF NotPoisoned, Around
<1>1. Grounded(f)
  BY DEF IInv
<1>2. PICK acc \in Collected :
         /\ f.proven = acc.proven
         /\ f.verdict = ReachVerdict(ReachChecks(facts, acc))
         /\ Sound(f.source, acc)
  BY <1>1, GroundedSays
<1>3. ~ acc.hitLimit
  BY <1>2 DEF Sound
<1>4. \A h \in acc.proof : FreeHop(facts, h)
  <2>1. \A h \in acc.proof : CleanAround(f.source, h)
    BY <1>2 DEF Sound
  <2> QED
    BY <2>1 DEF CleanAround
<1> QED
  BY <1>2, <1>3, <1>4, ValidatedSays

\* Finding.__post_init__ accepts what is built from a walk.
LEMMA GroundedAccepted ==
  ASSUME NEW f, Grounded(f)
  PROVE  FindingAccepted(f) /\ f.verdict \in Verdict
<1>1. PICK acc \in Collected : f = ReachFinding(facts, f.source, acc)
  BY GroundedSays
<1> DEFINE checks == ReachChecks(facts, acc)
<1>2. /\ f.verdict = ReachVerdict(checks)
      /\ f.checks = {"PASS"} \cup {checks[c] : c \in DOMAIN checks}
      /\ f.blockers = (IF checks.scp = "FAIL" THEN {"scp"} ELSE {}) \cup
                      (IF checks.boundary = "FAIL" THEN {"permission_boundary"} ELSE {})
  BY <1>1 DEF ReachFinding
<1>3. /\ DOMAIN checks = {"scp", "boundary", "clean_witness", "depth"}
      /\ checks.scp = WalkScpCheck(facts, acc) /\ checks.boundary = WalkBoundaryCheck(facts, acc)
      /\ checks.clean_witness = CleanWitnessCheck(acc) /\ checks.depth = DepthCheck(acc)
  BY DEF ReachChecks
<1>4. /\ ReachVerdict(checks) = "VALIDATED" =>
           /\ acc.proven # {} /\ ~ acc.hitLimit /\ checks.scp = "PASS" /\ checks.boundary = "PASS"
      /\ ReachVerdict(checks) = "BLOCKED" => checks.scp = "FAIL" \/ checks.boundary = "FAIL"
      /\ ReachVerdict(checks) \in {"VALIDATED", "BLOCKED", "INCONCLUSIVE"}
  BY <1>3, VerdictSays
<1> HIDE DEF checks
<1>5. f.verdict \in Verdict
  BY <1>2, <1>4 DEF Verdict
<1> SUFFICES FindingAccepted(f)
  BY <1>5
<1>6. CASE f.verdict = "VALIDATED"
  <2>1. \A c \in DOMAIN checks : checks[c] = "PASS"
    BY <1>2, <1>3, <1>4, <1>6 DEF CleanWitnessCheck, DepthCheck
  <2>2. f.checks = {"PASS"} /\ f.blockers = {}
    BY <1>2, <1>3, <2>1
  <2> QED
    BY <1>6, <2>2 DEF FindingAccepted
<1>7. CASE f.verdict = "BLOCKED"
  <2>1. "FAIL" \in f.checks /\ f.blockers # {}
    BY <1>2, <1>3, <1>4, <1>7
  <2> QED
    BY <1>7, <2>1 DEF FindingAccepted
<1>8. CASE f.verdict = "INCONCLUSIVE"
  BY <1>8 DEF FindingAccepted
<1> QED
  BY <1>2, <1>4, <1>6, <1>7, <1>8

(***************************************************************************)
(* Finding.__post_init__ accepts every finding: a VALIDATED one has no     *)
(* check that did not pass and no blocker, a BLOCKED one has both.         *)
(***************************************************************************)
THEOREM FindingsAreAccepted == Spec => []FindingsAccepted
<1>1. IInv => FindingsAccepted
  BY GroundedAccepted DEF IInv, FindingsAccepted
<1> QED
  BY <1>1, Invariance, PTL

-----------------------------------------------------------------------------
(***************************************************************************)
(* The chain reasoner of the run. The run is written with the instance     *)
(* Chain of AssumeRoleChain; ChainP is the same instance of the module     *)
(* that proves things about it. The two have the same definitions under    *)
(* different names, which the lemmas below bring together, operator by     *)
(* operator, up to the steps.                                              *)
(***************************************************************************)
ChainP ==
  INSTANCE AssumeRoleChain_proofs WITH
    waiting <- chainWaiting, source <- chainSource, frontier <- chainFrontier,
    visited <- chainVisited, here <- chainHere, todo <- chainTodo, seen <- chainSeen,
    findings <- chainFindings, phase <- chainPhase

LEMMA SameLookups ==
  /\ \A G, p : Chain!PermissionEdgesFrom(G, p) = ChainP!PermissionEdgesFrom(G, p)
  /\ \A G, p : Chain!IsAdmin(G, p) = ChainP!IsAdmin(G, p)
  /\ \A G, p, r : Chain!AdmittingTrustEdges(G, p, r) = ChainP!AdmittingTrustEdges(G, p, r)
  /\ \A i, S : Chain!IsFirst(i, S) = ChainP!IsFirst(i, S)
  BY DEF Chain!PermissionEdgesFrom, ChainP!PermissionEdgesFrom, Chain!IsAdmin, ChainP!IsAdmin,
         Chain!AdmittingTrustEdges, ChainP!AdmittingTrustEdges, Chain!TrustPolicyOf,
         ChainP!TrustPolicyOf, Chain!Admits, ChainP!Admits, Chain!IsFirst, ChainP!IsFirst

LEMMA SameStates == \A S : Chain!BlockerState(S) = ChainP!BlockerState(S)
  BY DEF Chain!BlockerState, ChainP!BlockerState, Chain!BlocksForSure, ChainP!BlocksForSure,
         Chain!IsAmbiguous, ChainP!IsAmbiguous

LEMMA SameTristate == \A S : Chain!AndTristateMany(S) = ChainP!AndTristateMany(S)
  BY DEF Chain!AndTristateMany, ChainP!AndTristateMany

LEMMA SameEdges ==
  ASSUME NEW G, NEW chain
  PROVE  /\ Chain!PermOf(G, chain) = ChainP!PermOf(G, chain)
         /\ Chain!TrustOf(G, chain) = ChainP!TrustOf(G, chain)
  BY DEF Chain!PermOf, ChainP!PermOf, Chain!TrustOf, ChainP!TrustOf, Chain!PermsOf, ChainP!PermsOf,
         Chain!TrustsOf, ChainP!TrustsOf, Chain!HopsOf, ChainP!HopsOf

LEMMA SameOverlay ==
  ASSUME NEW G, NEW chain
  PROVE  Chain!AssessProbeOverlay(Chain!ChainProbes(G, chain)) =
           ChainP!AssessProbeOverlay(ChainP!ChainProbes(G, chain))
<1>1. Chain!ChainProbes(G, chain) = ChainP!ChainProbes(G, chain)
  BY SameEdges DEF Chain!ChainProbes, ChainP!ChainProbes, Chain!LatestProbe, ChainP!LatestProbe
<1>2. \A S : Chain!AssessProbeOverlay(S) = ChainP!AssessProbeOverlay(S)
  BY DEF Chain!AssessProbeOverlay, ChainP!AssessProbeOverlay, Chain!Assessment,
         ChainP!Assessment, Chain!LiveProbeState, ChainP!LiveProbeState
<1> QED
  BY <1>1, <1>2

LEMMA SameChecks ==
  ASSUME NEW G, NEW target, NEW chain
  PROVE  Chain!ChainChecks(G, target, chain) = ChainP!ChainChecks(G, target, chain)
<1>1. Chain!ScpCheck(G, chain) = ChainP!ScpCheck(G, chain)
  BY SameEdges, SameTristate, SameStates DEF Chain!ScpCheck, ChainP!ScpCheck
<1>2. Chain!BoundaryCheck(G, target, chain) = ChainP!BoundaryCheck(G, target, chain)
  BY SameEdges, SameTristate, SameStates DEF Chain!BoundaryCheck, ChainP!BoundaryCheck
<1>3. Chain!DenyCheck(G, chain) = ChainP!DenyCheck(G, chain)
  BY SameEdges, SameTristate, SameStates DEF Chain!DenyCheck, ChainP!DenyCheck
<1>4. Chain!DriftCheck(G, chain) = ChainP!DriftCheck(G, chain)
  BY SameEdges, SameTristate, SameStates DEF Chain!DriftCheck, ChainP!DriftCheck
<1>5. Chain!CleanHopCheck(G, chain) = ChainP!CleanHopCheck(G, chain)
  BY SameEdges DEF Chain!CleanHopCheck, ChainP!CleanHopCheck, Chain!UnknownPermission,
                   ChainP!UnknownPermission, Chain!UnknownTrust, ChainP!UnknownTrust
<1> QED
  BY <1>1, <1>2, <1>3, <1>4, <1>5, Zenon
  DEF Chain!ChainChecks, ChainP!ChainChecks, Chain!GovernanceKinds, ChainP!GovernanceKinds

LEMMA SameFinding ==
  ASSUME NEW G, NEW start, NEW target, NEW chain
  PROVE  Chain!BuildFinding(G, start, target, chain) = ChainP!BuildFinding(G, start, target, chain)
<1>1. \A checks : Chain!ComputeVerdict(checks) = ChainP!ComputeVerdict(checks)
  BY DEF Chain!ComputeVerdict, ChainP!ComputeVerdict, Chain!GovernanceKinds, ChainP!GovernanceKinds
<1>2. \A verdict, length : Chain!ComputeSeverity(verdict, length) = ChainP!ComputeSeverity(verdict, length)
  BY DEF Chain!ComputeSeverity, ChainP!ComputeSeverity
<1>3. \A verdict, overlay : Chain!OverlaidVerdict(verdict, overlay) = ChainP!OverlaidVerdict(verdict, overlay)
  BY DEF Chain!OverlaidVerdict, ChainP!OverlaidVerdict
<1> QED
  BY <1>1, <1>2, <1>3, SameChecks, SameOverlay, Zenon
  DEF Chain!BuildFinding, ChainP!BuildFinding, Chain!GovernanceKinds, ChainP!GovernanceKinds

LEMMA SameStart == Chain!Init => ChainP!Init
  BY DEF Chain!Init, ChainP!Init, Chain!HasAssumeRole, ChainP!HasAssumeRole,
         Chain!PermissionEdgesFrom, ChainP!PermissionEdgesFrom, Chain!UnknownPermission,
         ChainP!UnknownPermission, Chain!Principals, ChainP!Principals

LEMMA SameStep == Chain!Next => ChainP!Next
<1> SUFFICES ASSUME Chain!Next PROVE ChainP!Next
  OBVIOUS
<1>1. CASE \E p \in chainWaiting : Chain!ChooseSource(p)
  BY <1>1 DEF Chain!ChooseSource, ChainP!ChooseSource, ChainP!Next
<1>2. CASE Chain!Pop
  BY <1>2, SameLookups, SameFinding
  DEF Chain!Pop, ChainP!Pop, Chain!Report, ChainP!Report, Chain!Reportable, ChainP!Reportable,
      Chain!Dequeued, ChainP!Dequeued, ChainP!Next
<1>3. CASE Chain!WalkDone
  BY <1>3 DEF Chain!WalkDone, ChainP!WalkDone, Chain!walk, ChainP!walk, ChainP!Next
<1>4. CASE \E i \in chainTodo : Chain!SkipEdge(i)
  BY <1>4, SameLookups
  DEF Chain!SkipEdge, ChainP!SkipEdge, Chain!AdmittingHere, ChainP!AdmittingHere, ChainP!Next
<1>5. CASE \E i \in chainTodo, j \in DOMAIN facts.trust : Chain!TakeHop(i, j)
  BY <1>5, SameLookups
  DEF Chain!TakeHop, ChainP!TakeHop, Chain!AdmittingHere, ChainP!AdmittingHere,
      Chain!Enqueued, ChainP!Enqueued, ChainP!Next
<1>6. CASE Chain!EdgesDone
  BY <1>6 DEF Chain!EdgesDone, ChainP!EdgesDone, Chain!walk, ChainP!walk, ChainP!Next
<1>7. CASE Chain!Finish
  BY <1>7 DEF Chain!Finish, ChainP!Finish, Chain!walk, ChainP!walk, ChainP!Next
<1>8. CASE Chain!Terminated
  BY <1>8 DEF Chain!Terminated, ChainP!Terminated, Chain!vars, ChainP!vars, Chain!walk,
              ChainP!walk, ChainP!Next
<1> QED
  BY <1>1, <1>2, <1>3, <1>4, <1>5, <1>6, <1>7, <1>8 DEF Chain!Next

\* The chain reasoner has what its proofs assume of the constants.
LEMMA ChainBounds == ChainP!WalkBounds /\ ChainP!DistinctNodes
<1>1. ChainP!DistinctNodes
  BY DistinctNodes DEF ChainP!DistinctNodes, ChainP!Principals, Principals
<1>2. ChainP!FactGraphs = FactGraphs
  BY DEF ChainP!FactGraphs, FactGraphs, ChainP!PermissionEdge, PermissionEdge, ChainP!TrustEdge,
         TrustEdge, ChainP!Principals, Principals, ChainP!AdminWitness, AdminWitness,
         ChainP!Binding, Binding, ChainP!Confidence, Confidence, ChainP!ProbeRecord, ProbeRecord,
         ChainP!ProbeState, ProbeState, ChainP!LiveProbeState, LiveProbeState,
         ChainP!TrustAction, TrustAction, ChainP!TrustPrincipal, TrustPrincipal,
         ChainP!AssumeRole, AssumeRole
<1>3. ChainP!WalkBounds
  BY <1>2, WalkBounds DEF ChainP!WalkBounds, ChainP!Principals, Principals
<1> QED
  BY <1>1, <1>3

\* What the chain reasoner keeps, and the steps of the others leave alone.
ChainInv == ChainP!IInv /\ ChainP!Judged

LEMMA ChainStarts == Chain!Init => ChainInv
<1>1. Chain!Init => ChainP!Init
  BY SameStart
<1>2. ChainP!Init => ChainP!IInv
  BY ChainBounds, ChainP!InvInit
<1>3. ChainP!Init => ChainP!Judged
  BY ChainBounds, ChainP!JudgedInit
<1> QED
  BY <1>1, <1>2, <1>3 DEF ChainInv

LEMMA ChainStep == ChainInv /\ [Chain!Next]_<<facts, chainVars>> => ChainInv'
<1> SUFFICES ASSUME ChainInv, [Chain!Next]_<<facts, chainVars>> PROVE ChainInv'
  OBVIOUS
<1>1. [ChainP!Next]_(ChainP!vars)
  BY SameStep DEF chainVars, ChainP!vars, ChainP!walk
<1>2. ChainP!IInv /\ [ChainP!Next]_(ChainP!vars) => ChainP!IInv'
  BY ChainBounds, ChainP!InvNext
<1>3. ChainP!TypeOK /\ ChainP!Judged /\ [ChainP!Next]_(ChainP!vars) => ChainP!Judged'
  BY ChainBounds, ChainP!JudgedNext
<1>4. ChainP!IInv => ChainP!TypeOK
  BY DEF ChainP!IInv
<1> QED
  BY <1>1, <1>2, <1>3, <1>4 DEF ChainInv

-----------------------------------------------------------------------------
(***************************************************************************)
(* What a chain finding says to the reachability walk: its target is an    *)
(* admin-equivalent role, other than the source, that the walk over first  *)
(* admitting trust edges reaches in as many hops as the chain has.         *)
(***************************************************************************)
LEMMA LeastOf ==
  ASSUME NEW S, S \subseteq Nat, S # {}
  PROVE  \E m \in S : \A k \in S : m <= k
<1> DEFINE Below == {ss \in Nat \X Nat : ss[1] < ss[2]}
<1>1. IsWellFoundedOn(Below, Nat)
  BY NatLessThanWellFounded DEF OpToRel
<1> HIDE DEF Below
<1>2. PICK m \in S : \A k \in S : ~ (<<k, m>> \in Below)
  BY <1>1, WFMin, Zenon
<1>3. \A k \in S : ~ (k < m)
  BY <1>2 DEF Below
<1> QED
  BY <1>2, <1>3

LEMMA ChainWithin ==
  ASSUME facts \in FactGraphs, NEW s \in Principals, NEW chain \in Seq(Hop),
         ChainP!Authorized(facts, s, chain)
  PROVE  \A n \in Nat : n <= Len(chain) =>
           \E clean \in BOOLEAN : <<ChainP!Stop(facts, s, chain, n), clean>> \in Around(s, n)
<1> DEFINE Met(n) == \E clean \in BOOLEAN : <<ChainP!Stop(facts, s, chain, n), clean>> \in Around(s, n)
           T == {n \in Nat : n <= Len(chain) => Met(n)}
<1>1. 0 \in T
  <2>1. Around(s, 0) = {<<s, TRUE>>}
    BY WithinStart, Zenon DEF Around
  <2>2. ChainP!Stop(facts, s, chain, 0) = s
    BY DEF ChainP!Stop
  <2> QED
    BY <2>1, <2>2
<1> HIDE DEF Met
<1>2. ASSUME NEW n \in Nat, n \in T PROVE n + 1 \in T
  <2> SUFFICES ASSUME n + 1 <= Len(chain) PROVE Met(n + 1)
    OBVIOUS
  <2> DEFINE from == ChainP!Stop(facts, s, chain, n)
             to   == ChainP!Stop(facts, s, chain, n + 1)
             i    == chain[n + 1].perm
             adm  == AdmittingTrustEdges(facts, from, to)
  <2>1. n + 1 \in DOMAIN chain /\ (n + 1) - 1 = n /\ n + 1 # 0 /\ n <= Len(chain)
    BY DEF Hop
  <2>2. PICK clean \in BOOLEAN : <<from, clean>> \in Around(s, n)
    BY <1>2, <2>1 DEF Met
  <2>3. /\ i \in PermissionEdgesFrom(facts, from) /\ chain[n + 1].trust \in adm
        /\ facts.perm[i].dst = to
    BY <2>1 DEF ChainP!Authorized, ChainP!Stop, ChainP!PermissionEdgesFrom, PermissionEdgesFrom,
                ChainP!AdmittingTrustEdges, AdmittingTrustEdges, ChainP!TrustPolicyOf,
                TrustPolicyOf, ChainP!Admits, Admits
  <2>4. adm \subseteq DOMAIN facts.trust /\ adm \subseteq Nat /\ adm # {}
    BY <2>3, GraphTypes DEF AdmittingTrustEdges, TrustPolicyOf
  <2>5. PICK j \in adm : IsFirst(j, adm)
    BY <2>4, LeastOf DEF IsFirst
  <2> DEFINE h == [perm |-> i, trust |-> j]
  <2>6. h.perm = i /\ h.trust = j /\ h \in [perm : PermissionEdgesFrom(facts, from), trust : DOMAIN facts.trust]
    BY <2>3, <2>4, <2>5
  <2> HIDE DEF from, to, i, adm, h
  <2>7. h \in HopsOut(facts, from)
    BY <2>3, <2>5, <2>6 DEF HopsOut, adm
  <2>8. h \in AnyHop(facts)
    BY <2>7, HopSays
  <2> DEFINE key == <<from, clean>>
  <2>9. key[1] = from /\ key[2] = clean /\ key \in Around(s, n)
    BY <2>2
  <2>10. Beyond(facts, key, h) \in Around(s, n + 1)
    <3>1. Beyond(facts, key, h) \in Onward(facts, Around(s, n), AnyHop(facts))
      BY <2>7, <2>8, <2>9, OnwardSays
    <3> QED
      BY <3>1, WithinNext DEF Around
  <2>11. Beyond(facts, key, h) = <<to, key[2] /\ CleanHop(facts, key[1], h.perm, h.trust)>>
    BY <2>3, <2>6 DEF Beyond
  <2> HIDE DEF key
  <2>12. (key[2] /\ CleanHop(facts, key[1], h.perm, h.trust)) \in BOOLEAN
    BY Zenon DEF CleanHop
  <2> QED
    BY <2>10, <2>11, <2>12 DEF to, Met
<1> HIDE DEF T
<1>3. \A n \in Nat : n \in T
  BY <1>1, <1>2, SetInduction
<1> QED
  BY <1>3 DEF T, Met

LEMMA ChainInReach ==
  ASSUME facts \in FactGraphs, ChainInv, NEW c \in chainFindings
  PROVE  /\ c.source \in Principals /\ c.target # c.source
         /\ c.target \in AdminsIn(facts, Around(c.source, MaxDepth))
<1> DEFINE len == Len(c.chain)
           Stopped(k) == ChainP!Stop(facts, c.source, c.chain, k)
<1>1. c.source \in Principals /\ c.chain \in Seq(Hop)
  BY DEF ChainInv, ChainP!Judged, ChainP!Principals, Principals, ChainP!Hop, Hop
<1>2. /\ ChainP!Authorized(facts, c.source, c.chain) /\ ChainP!Simple(facts, c.source, c.chain)
      /\ len \in MinChain .. MaxDepth /\ Stopped(len) = c.target
      /\ ChainP!IsAdmin(facts, c.target)
  BY DEF ChainInv, ChainP!IInv, ChainP!ChainsAuthorized
<1>3. len \in Nat /\ len # 0 /\ len <= MaxDepth
  BY <1>1, <1>2, WalkBounds, DepthIsNat
<1>4. c.target # c.source
  <2>1. Stopped(0) = c.source
    BY DEF ChainP!Stop
  <2>2. Stopped(0) = Stopped(len) => 0 = len
    BY <1>2, <1>3 DEF ChainP!Simple
  <2> QED
    BY <1>2, <1>3, <2>1, <2>2
<1>5. PICK clean \in BOOLEAN : <<c.target, clean>> \in Around(c.source, len)
  <2>1. \A n \in Nat : n <= len => \E clean \in BOOLEAN : <<Stopped(n), clean>> \in Around(c.source, n)
    BY <1>1, <1>2, ChainWithin
  <2>2. len \in Nat /\ len <= len
    BY <1>3
  <2> HIDE DEF Stopped, len
  <2> QED
    BY <1>2, <2>1, <2>2
<1>6. Around(c.source, len) \subseteq Around(c.source, MaxDepth)
  BY <1>3, DepthIsNat, FartherIsMore DEF Around
<1>7. IsAdmin(facts, c.target) /\ c.target \in Roles
  BY <1>2 DEF ChainP!IsAdmin, IsAdmin
<1> QED
  BY <1>1, <1>4, <1>5, <1>6, <1>7 DEF AdminsIn

\* A reachability finding is about one of the roles it lists.
LEMMA TargetIsListed ==
  ASSUME NEW f, Grounded(f)
  PROVE  f.target \in f.admins
<1>1. PICK hit \in BOOLEAN :
         /\ f = ReachFinding(facts, f.source, BuiltFrom(f, hit)) /\ f.admins # {}
         /\ Sound(f.source, BuiltFrom(f, hit))
  BY DEF Grounded
<1> DEFINE acc == BuiltFrom(f, hit)
<1>2. f.target = FirstByArn(f.admins)
  <2>1. acc.admins = f.admins
    BY DEF BuiltFrom
  <2>2. ReachFinding(facts, f.source, acc).target = FirstByArn(acc.admins)
    BY DEF ReachFinding
  <2> QED
    BY <1>1, <2>1, <2>2
<1>3. f.admins \subseteq Principals
  <2>1. acc.admins \subseteq AdminsIn(facts, Around(f.source, MaxDepth))
    BY <1>1 DEF Sound
  <2> QED
    BY <2>1 DEF BuiltFrom, AdminsIn, Principals
<1> DEFINE Ranks == {ArnOrder[r] : r \in f.admins}
<1>4. Ranks \subseteq Nat /\ Ranks # {}
  BY <1>1, <1>3, ReachBounds
<1>5. PICK m \in Ranks : \A k \in Ranks : m <= k
  BY <1>4, LeastOf
<1>6. \E r \in f.admins : \A q \in f.admins : ArnOrder[r] <= ArnOrder[q]
  BY <1>5
<1> QED
  BY <1>2, <1>6 DEF FirstByArn

-----------------------------------------------------------------------------
(***************************************************************************)
(* The invariant of the run: each walker keeps its own, and nothing is     *)
(* emitted until the queue is empty; what is emitted then is what the      *)
(* findings are, reconciled.                                               *)
(***************************************************************************)
Output ==
  {[pattern |-> "assume_role_chain", finding |-> c] : c \in chainFindings} \cup
  {[pattern |-> "admin_reachability", finding |-> Reconciled(f)] : f \in findings}

RunInv ==
  /\ IInv /\ ChainInv
  /\ queue \in Seq(Pattern)
  /\ reconciled \in BOOLEAN
  /\ ~ reconciled => emitted = {}
  /\ reconciled => queue = <<>> /\ emitted = Output

LEMMA RunStarts == RunInit => RunInv
  BY Initially, ChainStarts, RunBounds DEF RunInit, RunInv

\* A step of one reasoner leaves the graph alone, and the other's state.
LEMMA GraphKept ==
  /\ Next => facts' = facts
  /\ Chain!Next => facts' = facts
<1>1. Next => facts' = facts
  BY DEF Next, ChooseSource, Pop, SkipEdge, TakeHop, EdgesDone, WalkDone, Finish, Terminated, vars
<1>2. Chain!Next => facts' = facts
  BY DEF Chain!Next, Chain!ChooseSource, Chain!Pop, Chain!WalkDone, Chain!SkipEdge, Chain!TakeHop,
         Chain!EdgesDone, Chain!Finish, Chain!Terminated, Chain!vars
<1> QED
  BY <1>1, <1>2

\* Each step of the run is one of each reasoner's, or leaves it alone.
LEMMA RunSteps ==
  ASSUME [RunNext]_runVars
  PROVE  [Next]_vars /\ [Chain!Next]_<<facts, chainVars>>
<1>1. CASE RunChain
  BY <1>1, GraphKept DEF RunChain, reachVars, vars, walk
<1>2. CASE RunReach
  BY <1>2, GraphKept DEF RunReach
<1>3. CASE Returned \/ Reconcile \/ RunOver \/ UNCHANGED runVars
  BY <1>3 DEF Returned, Reconcile, RunOver, runVars, reachVars, vars, walk
<1> QED
  BY <1>1, <1>2, <1>3 DEF RunNext

LEMMA RunStep == RunInv /\ [RunNext]_runVars => RunInv'
<1> SUFFICES ASSUME RunInv, [RunNext]_runVars PROVE RunInv'
  OBVIOUS
<1>1. IInv' /\ ChainInv'
  BY RunSteps, StepSafe, ChainStep DEF RunInv
<1>2. /\ queue \in Seq(Pattern) /\ reconciled \in BOOLEAN
      /\ ~ reconciled => emitted = {}
      /\ reconciled => queue = <<>> /\ emitted = Output
  BY DEF RunInv
<1>3. CASE RunChain \/ RunReach
  BY <1>1, <1>2, <1>3 DEF RunChain, RunReach, RunInv
<1>4. CASE Returned
  <2>1. queue # <<>> /\ queue' = Tail(queue) /\ emitted' = emitted /\ reconciled' = reconciled
    BY <1>4 DEF Returned
  <2>2. queue' \in Seq(Pattern)
    BY <1>2, <2>1
  <2> QED
    BY <1>1, <1>2, <2>1, <2>2 DEF RunInv
<1>5. CASE Reconcile
  <2>1. /\ queue = <<>> /\ queue' = queue /\ emitted' = Output /\ reconciled' = TRUE
        /\ chainFindings' = chainFindings /\ findings' = findings
    BY <1>5 DEF Reconcile, Output, chainVars, reachVars
  <2>2. Output' = Output
    BY <2>1 DEF Output, Reconciled
  <2> QED
    BY <1>1, <1>2, <2>1, <2>2 DEF RunInv
<1>6. CASE RunOver \/ UNCHANGED runVars
  <2>1. /\ queue' = queue /\ emitted' = emitted /\ reconciled' = reconciled
        /\ chainFindings' = chainFindings /\ findings' = findings
    BY <1>6 DEF RunOver, runVars, chainVars, reachVars
  <2>2. Output' = Output
    BY <2>1 DEF Output, Reconciled
  <2> QED
    BY <1>1, <1>2, <2>1, <2>2 DEF RunInv
<1> QED
  BY <1>3, <1>4, <1>5, <1>6 DEF RunNext

(***************************************************************************)
(* In the run each reasoner does what it does alone: every behaviour of    *)
(* the run is one of each reasoner's, so what is proved of them holds of   *)
(* it, in whatever order they are registered.                              *)
(***************************************************************************)
THEOREM EachAsAlone ==
  RunSpec => /\ Init /\ [][Next]_vars
             /\ Chain!Init /\ [][Chain!Next]_<<facts, chainVars>>
<1>1. RunInit => Init /\ Chain!Init
  BY DEF RunInit
<1>2. [RunNext]_runVars => [Next]_vars
  BY RunSteps
<1>3. [RunNext]_runVars => [Chain!Next]_<<facts, chainVars>>
  BY RunSteps
<1> QED
  BY <1>1, <1>2, <1>3, PTL DEF RunSpec

\* The invariant of the run, of which the properties below are consequences.
THEOREM RunInvariance == RunSpec => []RunInv
  BY RunStarts, RunStep, PTL DEF RunSpec

-----------------------------------------------------------------------------
(***************************************************************************)
(* What is emitted.                                                        *)
(***************************************************************************)
LEMMA ReconciledSays ==
  ASSUME NEW f, Grounded(f)
  PROVE  /\ Reconciled(f).source = f.source /\ Reconciled(f).target = f.target
         /\ Reconciled(f).admins = f.admins
         /\ \/ /\ Reconciled(f) = f
               /\ f.verdict = "VALIDATED" => \A c \in chainFindings : ~ Contradicts(c, f)
            \/ Reconciled(f).verdict = "INCONCLUSIVE"
<1>1. CASE f.verdict = "VALIDATED" /\ \E c \in chainFindings : Contradicts(c, f)
  <2>1. Reconciled(f) = Demotion(f)
    BY <1>1 DEF Reconciled
  <2>2. PICK acc : f = ReachFinding(facts, f.source, acc)
    BY DEF Grounded
  <2>3. /\ Demotion(f).source = f.source /\ Demotion(f).target = f.target
        /\ Demotion(f).admins = f.admins /\ Demotion(f).verdict = "INCONCLUSIVE"
    BY <2>2 DEF Demotion, ReachFinding
  <2> QED
    BY <2>1, <2>3
<1>2. CASE ~ (f.verdict = "VALIDATED" /\ \E c \in chainFindings : Contradicts(c, f))
  BY <1>2 DEF Reconciled
<1> QED
  BY <1>1, <1>2

LEMMA EmittedSays ==
  ASSUME RunInv
  PROVE  /\ \A e \in emitted : e.finding \in Emitted("assume_role_chain") \cup Emitted("admin_reachability")
         /\ Emitted("assume_role_chain") \subseteq chainFindings
         /\ \A g \in Emitted("admin_reachability") : \E f \in findings : g = Reconciled(f)
         /\ reconciled => \A f \in findings : Reconciled(f) \in Emitted("admin_reachability")
<1>1. emitted \subseteq Output /\ (reconciled => emitted = Output)
  BY DEF RunInv
<1>2. \A e \in Output :
        \/ e.pattern = "assume_role_chain" /\ e.finding \in chainFindings
        \/ e.pattern = "admin_reachability" /\ \E f \in findings : e.finding = Reconciled(f)
  BY DEF Output
<1>3. ASSUME reconciled, NEW f \in findings
      PROVE  Reconciled(f) \in Emitted("admin_reachability")
  <2> DEFINE e == [pattern |-> "admin_reachability", finding |-> Reconciled(f)]
  <2>1. e \in emitted
    BY <1>1, <1>3 DEF Output
  <2>2. e.pattern = "admin_reachability" /\ e.finding = Reconciled(f)
    OBVIOUS
  <2> HIDE DEF e
  <2> QED
    BY <2>1, <2>2 DEF Emitted
<1>4. \A pattern : \A g \in Emitted(pattern) : \E e \in emitted : e.pattern = pattern /\ g = e.finding
  BY DEF Emitted
<1>5. \A e \in emitted : e.finding \in Emitted(e.pattern)
  BY DEF Emitted
<1> QED
  BY <1>1, <1>2, <1>3, <1>4, <1>5

LEMMA EmittedJudged ==
  ASSUME RunInv, NEW e \in emitted
  PROVE  e.finding.verdict \in Verdict /\ FindingAccepted(e.finding)
<1>1. CASE e.finding \in chainFindings
  BY <1>1 DEF RunInv, ChainInv, ChainP!Judged, ChainP!Verdict, Verdict,
              ChainP!FindingAccepted, FindingAccepted
<1>2. CASE \E f \in findings : e.finding = Reconciled(f)
  <2>1. PICK f \in findings : e.finding = Reconciled(f) /\ Grounded(f)
    BY <1>2 DEF RunInv, IInv
  <2>2. CASE Reconciled(f) = f
    BY <2>1, <2>2, GroundedAccepted
  <2>3. CASE Reconciled(f).verdict = "INCONCLUSIVE"
    BY <2>1, <2>3 DEF FindingAccepted, Verdict
  <2> QED
    BY <2>1, <2>2, <2>3, ReconciledSays
<1> QED
  BY <1>1, <1>2, EmittedSays

(***************************************************************************)
(* Every variable of the run stays in its type, and every emitted finding  *)
(* has one of the four verdicts.                                           *)
(***************************************************************************)
THEOREM RunTypes == RunSpec => []RunTypeOK
<1> SUFFICES RunInv => RunTypeOK
  BY RunInvariance, PTL
<1> SUFFICES ASSUME RunInv PROVE RunTypeOK
  OBVIOUS
<1>1. TypeOK
  BY GivenGraph DEF RunInv, IInv, Shape, TypeOK
<1>2. Chain!TypeOK
  <2>1. ChainP!TypeOK
    BY DEF RunInv, ChainInv, ChainP!IInv
  <2> QED
    BY <2>1
    DEF Chain!TypeOK, ChainP!TypeOK, Chain!FactGraphs, ChainP!FactGraphs, Chain!PermissionEdge,
        ChainP!PermissionEdge, Chain!TrustEdge, ChainP!TrustEdge, Chain!Principals,
        ChainP!Principals, Chain!Entry, ChainP!Entry, Chain!Hop, ChainP!Hop, Chain!AdminWitness,
        ChainP!AdminWitness, Chain!Binding, ChainP!Binding, Chain!Confidence, ChainP!Confidence,
        Chain!ProbeRecord, ChainP!ProbeRecord, Chain!ProbeState, ChainP!ProbeState,
        Chain!LiveProbeState, ChainP!LiveProbeState, Chain!TrustAction, ChainP!TrustAction,
        Chain!TrustPrincipal, ChainP!TrustPrincipal, Chain!AssumeRole, ChainP!AssumeRole
<1>3. \A e \in emitted : e.finding.verdict \in Verdict
  BY EmittedJudged
<1> QED
  BY <1>1, <1>2, <1>3 DEF RunTypeOK, RunInv

\* What stands in the way of a blocked chain and validated reachability of
\* one pair is the admin witness of the target: the finding cites the witness
\* of every role it lists, its target among them, and the chain cites it too.
LEMMA SharedTargetDemotes ==
  ASSUME RunInv, NEW c \in Emitted("assume_role_chain"), NEW g \in Emitted("admin_reachability"),
         SamePair(c, g), c.verdict = "BLOCKED"
  PROVE  g.verdict # "VALIDATED"
<1> SUFFICES ASSUME g.verdict = "VALIDATED" PROVE FALSE
  OBVIOUS
<1>1. c \in chainFindings
  BY EmittedSays
<1>2. PICK f \in findings : g = Reconciled(f) /\ Grounded(f)
  BY EmittedSays DEF RunInv, IInv
<1>3. f.source = c.source /\ f.target = c.target
  BY <1>2, ReconciledSays DEF SamePair
<1>4. f.target \in f.admins
  BY <1>2, TargetIsListed
<1>5. <<"admin_witness", c.target>> \in ChainRefs(c) \cap ReachRefs(f)
  BY <1>3, <1>4 DEF ChainRefs, ReachRefs, WitnessRefs
<1>6. Contradicts(c, f)
  BY <1>3, <1>5 DEF Contradicts
<1> QED
  BY <1>1, <1>2, <1>6, ReconciledSays

(***************************************************************************)
(* No path is emitted both as a blocked chain and as the proof of a        *)
(* validated reachability: whichever hops the two walks kept, the blocked  *)
(* chain shares evidence with the finding, which is demoted. That this     *)
(* holds for disjoint paths as well is what AlternatePathSpared is about.  *)
(***************************************************************************)
THEOREM NothingIsContradicted == RunSpec => []NoContradiction
<1>1. RunInv => NoContradiction
  BY SharedTargetDemotes DEF NoContradiction
<1> QED
  BY <1>1, RunInvariance, PTL

(***************************************************************************)
(* Finding.__post_init__ accepts what is emitted, demoted findings among   *)
(* it: both walkers build accepted findings, and an INCONCLUSIVE one is    *)
(* accepted whatever its checks.                                           *)
(***************************************************************************)
THEOREM NothingEmittedIsRefused == RunSpec => []EmittedAccepted
<1>1. RunInv => EmittedAccepted
  BY EmittedJudged DEF EmittedAccepted
<1> QED
  BY <1>1, RunInvariance, PTL

(***************************************************************************)
(* Once both have run, every chain that is emitted comes with a            *)
(* reachability finding for its source that lists its target: a chain over *)
(* admitting trust edges lies within MaxDepth hops over first ones, and    *)
(* reachability leaves out nothing that does.                              *)
(***************************************************************************)
THEOREM ChainsAreReachable == RunSpec => []ReasonersAgree
<1> SUFFICES RunInv => ReasonersAgree
  BY RunInvariance, PTL
<1> SUFFICES ASSUME RunInv, reconciled, phase = "done", NEW c \in Emitted("assume_role_chain")
             PROVE  \E g \in Emitted("admin_reachability") : g.source = c.source /\ c.target \in g.admins
  BY DEF ReasonersAgree
<1>1. IInv /\ ChainInv /\ c \in chainFindings /\ facts \in FactGraphs
  BY EmittedSays, GivenGraph DEF RunInv, IInv
<1>2. /\ c.source \in Principals /\ c.target # c.source
      /\ c.target \in AdminsIn(facts, Around(c.source, MaxDepth))
  BY <1>1, ChainInReach
<1>3. Settled(c.source)
  BY <1>1, <1>2 DEF IInv, Walking
<1>4. PICK f \in findings : f.source = c.source /\ Grounded(f)
  BY <1>1, <1>2, <1>3 DEF Settled, IInv
<1>5. c.target \in f.admins
  BY <1>2, <1>4, GroundedSays DEF Whole
<1>6. Reconciled(f) \in Emitted("admin_reachability")
  BY <1>4, EmittedSays
<1> QED
  BY <1>4, <1>5, <1>6, ReconciledSays

-----------------------------------------------------------------------------
(***************************************************************************)
(* What the chain walker claims, in a run of both. Its invariant speaks of *)
(* ChainP, an instance of the module with the proofs; the claims are the   *)
(* same in both instances.                                                 *)
(***************************************************************************)
LEMMA SameChains ==
  /\ ChainP!ChainsAuthorized => ChainsAuthorized
  /\ ChainP!BreadthFirst => BreadthFirst
<1>1. \A G, start, chain, k : Chain!Stop(G, start, chain, k) = ChainP!Stop(G, start, chain, k)
  BY DEF Chain!Stop, ChainP!Stop
<1>2. \A G, start, chain : Chain!Authorized(G, start, chain) = ChainP!Authorized(G, start, chain)
  BY <1>1, SameLookups DEF Chain!Authorized, ChainP!Authorized
<1>3. \A G, start, chain : Chain!Simple(G, start, chain) = ChainP!Simple(G, start, chain)
  BY <1>1 DEF Chain!Simple, ChainP!Simple
<1>4. ChainP!ChainsAuthorized => ChainsAuthorized
  BY <1>1, <1>2, <1>3, SameLookups
  DEF ChainsAuthorized, Chain!ChainsAuthorized, ChainP!ChainsAuthorized
<1>5. ChainP!BreadthFirst => BreadthFirst
  BY DEF BreadthFirst, Chain!BreadthFirst, ChainP!BreadthFirst
<1> QED
  BY <1>4, <1>5

(***************************************************************************)
(* Every chain that the run's chain walker reports runs over authorized    *)
(* hops from its source to an admin target, without meeting a principal    *)
(* twice, within the limits of _MIN_CHAIN_LENGTH and _MAX_DEPTH.           *)
(***************************************************************************)
THEOREM RunChainsAuthorized == RunSpec => []ChainsAuthorized
<1>1. RunInv => ChainsAuthorized
  BY SameChains DEF RunInv, ChainInv, ChainP!IInv
<1> QED
  BY <1>1, RunInvariance, PTL

(***************************************************************************)
(* Its frontier holds chains of at most two consecutive lengths, the       *)
(* shorter first, and no principal twice: the walk is breadth first.       *)
(***************************************************************************)
THEOREM RunBreadthFirst == RunSpec => []BreadthFirst
<1>1. RunInv => BreadthFirst
  BY SameChains DEF RunInv, ChainInv, ChainP!IInv
<1> QED
  BY <1>1, RunInvariance, PTL

(***************************************************************************)
(* The promise of AdminChains is kept in a run of both walkers, which      *)
(* makes steps of the chain walker and steps it stutters in.               *)
(***************************************************************************)
LEMMA SameReach ==
  \A G, s, hops : Chain!Promise!Reached(G, s, hops) = ChainP!Promise!Reached(G, s, hops)
  BY DEF Chain!Promise!Reached, ChainP!Promise!Reached, Chain!Promise!Successors,
      ChainP!Promise!Successors, Chain!Promise!HopWitnesses,
      ChainP!Promise!HopWitnesses, Chain!Promise!PermissionEdgesFrom,
      ChainP!Promise!PermissionEdgesFrom, Chain!Promise!AdmittingTrustEdges,
      ChainP!Promise!AdmittingTrustEdges, Chain!Promise!TrustPolicyOf,
      ChainP!Promise!TrustPolicyOf, Chain!Promise!Admits, ChainP!Promise!Admits

LEMMA SamePairs ==
  /\ \A G, s, d : Chain!Promise!AtDistance(G, s, d) = ChainP!Promise!AtDistance(G, s, d)
  /\ \A G, r : Chain!Promise!IsAdmin(G, r) = ChainP!Promise!IsAdmin(G, r)
  /\ \A G : Chain!Promise!AdminPairs(G) = ChainP!Promise!AdminPairs(G)
<1>1. \A G, s, d : Chain!Promise!AtDistance(G, s, d) = ChainP!Promise!AtDistance(G, s, d)
  BY SameReach
  DEF Chain!Promise!AtDistance, ChainP!Promise!AtDistance, Chain!Promise!AllHops,
      ChainP!Promise!AllHops
<1>2. \A G, r : Chain!Promise!IsAdmin(G, r) = ChainP!Promise!IsAdmin(G, r)
  BY DEF Chain!Promise!IsAdmin, ChainP!Promise!IsAdmin
<1>3. \A G : Chain!Promise!AdminPairs(G) = ChainP!Promise!AdminPairs(G)
  BY <1>1, <1>2
  DEF Chain!Promise!AdminPairs, ChainP!Promise!AdminPairs, Chain!Promise!Principals,
      ChainP!Promise!Principals
<1> QED
  BY <1>1, <1>2, <1>3

LEMMA SameVerdicts ==
  \A G, s, t, d, verdict :
    Chain!Promise!Justified(G, s, t, d, verdict) = ChainP!Promise!Justified(G, s, t, d, verdict)
<1>1. \A G, s, t, d : Chain!Promise!ShortestHops(G, s, t, d) = ChainP!Promise!ShortestHops(G, s, t, d)
  BY SamePairs
  DEF Chain!Promise!ShortestHops, ChainP!Promise!ShortestHops,
      Chain!Promise!HopWitnesses, ChainP!Promise!HopWitnesses,
      Chain!Promise!PermissionEdgesFrom, ChainP!Promise!PermissionEdgesFrom,
      Chain!Promise!AdmittingTrustEdges, ChainP!Promise!AdmittingTrustEdges,
      Chain!Promise!TrustPolicyOf, ChainP!Promise!TrustPolicyOf, Chain!Promise!Admits,
      ChainP!Promise!Admits
<1>2. \A G, w : Chain!Promise!HopClean(G, w) = ChainP!Promise!HopClean(G, w)
  BY DEF Chain!Promise!HopClean, ChainP!Promise!HopClean, Chain!Promise!UnknownPermission,
      ChainP!Promise!UnknownPermission, Chain!Promise!UnknownTrust,
      ChainP!Promise!UnknownTrust, Chain!Promise!BlocksForSure,
      ChainP!Promise!BlocksForSure, Chain!Promise!IsAmbiguous,
      ChainP!Promise!IsAmbiguous, Chain!Promise!ProbeDenied, ChainP!Promise!ProbeDenied,
      Chain!Promise!ProbeDoubtful, ChainP!Promise!ProbeDoubtful,
      Chain!Promise!LatestProbe, ChainP!Promise!LatestProbe
<1>3. \A G, w : Chain!Promise!HopStopped(G, w) = ChainP!Promise!HopStopped(G, w)
  BY DEF Chain!Promise!HopStopped, ChainP!Promise!HopStopped, Chain!Promise!BlocksForSure,
      ChainP!Promise!BlocksForSure, Chain!Promise!ProbeDenied,
      ChainP!Promise!ProbeDenied, Chain!Promise!LatestProbe, ChainP!Promise!LatestProbe
<1>4. \A G : Chain!Promise!CleanHops(G) = ChainP!Promise!CleanHops(G)
  BY <1>2
  DEF Chain!Promise!CleanHops, ChainP!Promise!CleanHops, Chain!Promise!AllHops,
      ChainP!Promise!AllHops
<1> TAKE G, s, t, d, verdict
<1>5. /\ Chain!Promise!ShortestHops(G, s, t, d) = ChainP!Promise!ShortestHops(G, s, t, d)
      /\ Chain!Promise!Reached(G, s, Chain!Promise!CleanHops(G)) =
           ChainP!Promise!Reached(G, s, ChainP!Promise!CleanHops(G))
  BY <1>1, <1>4, SameReach
<1>6. \A b : /\ Chain!Promise!BlocksForSure(b) = ChainP!Promise!BlocksForSure(b)
            /\ Chain!Promise!IsAmbiguous(b) = ChainP!Promise!IsAmbiguous(b)
  BY DEF Chain!Promise!BlocksForSure, ChainP!Promise!BlocksForSure, Chain!Promise!IsAmbiguous,
         ChainP!Promise!IsAmbiguous
<1> QED
  BY <1>2, <1>3, <1>5, <1>6 DEF Chain!Promise!Justified, ChainP!Promise!Justified

LEMMA SamePromise ==
  /\ ChainP!Promise!Init => Chain!Promise!Init
  /\ [ChainP!Promise!Next]_(ChainP!Promise!vars) => [Chain!Promise!Next]_(Chain!Promise!vars)
<1>1. ChainP!Promise!Init => Chain!Promise!Init
  BY DEF Chain!Promise!Init, ChainP!Promise!Init, Chain!Promise!FactGraphs,
      ChainP!Promise!FactGraphs, Chain!Promise!PermissionEdge,
      ChainP!Promise!PermissionEdge, Chain!Promise!TrustEdge, ChainP!Promise!TrustEdge,
      Chain!Promise!AdminWitness, ChainP!Promise!AdminWitness, Chain!Promise!Principals,
      ChainP!Promise!Principals, Chain!Promise!Binding, ChainP!Promise!Binding,
      Chain!Promise!Confidence, ChainP!Promise!Confidence, Chain!Promise!ProbeRecord,
      ChainP!Promise!ProbeRecord, Chain!Promise!ProbeState, ChainP!Promise!ProbeState,
      Chain!Promise!LiveProbeState, ChainP!Promise!LiveProbeState,
      Chain!Promise!TrustAction, ChainP!Promise!TrustAction,
      Chain!Promise!TrustPrincipal, ChainP!Promise!TrustPrincipal,
      Chain!Promise!AssumeRole, ChainP!Promise!AssumeRole
<1>2. ChainP!Promise!Next => Chain!Promise!Next
  BY SamePairs, SameVerdicts
  DEF Chain!Promise!Next, ChainP!Promise!Next, Chain!Promise!Report,
      ChainP!Promise!Report, Chain!Promise!Finish, ChainP!Promise!Finish,
      Chain!Promise!Principals, ChainP!Promise!Principals, Chain!Promise!Verdict,
      ChainP!Promise!Verdict
<1>3. ChainP!Promise!vars = Chain!Promise!vars /\ ChainP!Promise!vars' = Chain!Promise!vars'
  BY DEF Chain!Promise!vars, ChainP!Promise!vars
<1> QED
  BY <1>1, <1>2, <1>3

THEOREM RunKeepsPromise == RunSpec => KeepsPromise
<1>1. RunInit => ChainP!Init
  BY SameStart DEF RunInit
<1>2. [RunNext]_runVars => [ChainP!Next]_(ChainP!vars)
  BY RunSteps, SameStep DEF chainVars, ChainP!vars, ChainP!walk
<1>3. ChainP!Init => ChainP!IInv /\ ChainP!DInv /\ ChainP!Promise!Init
  BY ChainBounds, ChainP!InvInit, ChainP!DistInit, ChainP!PromiseStarts
<1>4. ChainP!IInv /\ ChainP!DInv /\ [ChainP!Next]_(ChainP!vars) =>
        /\ (ChainP!IInv /\ ChainP!DInv)'
        /\ [ChainP!Promise!Next]_(ChainP!Promise!vars)
  BY ChainBounds, ChainP!InvNext, ChainP!DistNext, ChainP!PromiseStep
<1> QED
  BY <1>1, <1>2, <1>3, <1>4, SamePromise, PTL DEF RunSpec, KeepsPromise, Chain!KeepsPromise, Chain!Promise!Spec
=============================================================================
