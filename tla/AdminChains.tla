---------------------------- MODULE AdminChains ----------------------------
(***************************************************************************)
(* What assume_role_chain promises, without the walk: over a fixed fact    *)
(* graph, every principal that has an admin-equivalent role at a distance  *)
(* of MinChain to MaxDepth hops is reported with it, once, over a chain of *)
(* exactly that distance; nothing else is. A VALIDATED pair has a shortest *)
(* chain on which every hop is clean, a BLOCKED pair one with a hop that   *)
(* some control or live probe stops.                                       *)
(***************************************************************************)
EXTENDS FactGraph

CONSTANTS MinChain, MaxDepth

VARIABLES
  facts,
  reported,         \* the (source, target, length, verdict) findings so far
  finished

vars == <<facts, reported, finished>>

(***************************************************************************)
(* A hop of the abstract graph: p may assume r when it holds a permission  *)
(* edge to r and r's trust policy admits it.                               *)
(***************************************************************************)
AllHops(G) == (DOMAIN G.perm) \X (DOMAIN G.trust)

HopWitnesses(G, p, r) ==
  {w \in PermissionEdgesFrom(G, p) \X AdmittingTrustEdges(G, p, r) : G.perm[w[1]].dst = r}

(***************************************************************************)
(* The principals that k of some hops lead to from s, and those that no    *)
(* fewer hops lead to.                                                     *)
(***************************************************************************)
Successors(G, S, hops) == {r \in Roles : \E p \in S : HopWitnesses(G, p, r) \cap hops # {}}

Reached(G, s, hops) ==
  LET by[k \in Nat] == IF k = 0 THEN {s} ELSE Successors(G, by[k - 1], hops)
  IN  by

AtDistance(G, s, d) ==
  LET by == Reached(G, s, AllHops(G))
  IN  by[d] \ UNION {by[k] : k \in 0 .. d - 1}

AdminPairs(G) ==
  UNION { {<<s, t, d>> : t \in {r \in AtDistance(G, s, d) : IsAdmin(G, r)}} :
            s \in Principals, d \in MinChain .. MaxDepth }

(***************************************************************************)
(* The hops on some shortest chain from s to t, which is d hops away.      *)
(***************************************************************************)
ShortestHops(G, s, t, d) ==
  LET hopsAt(k) == UNION { HopWitnesses(G, p, r) :
                             p \in AtDistance(G, s, k - 1),
                             r \in {q \in Roles : t \in AtDistance(G, q, d - k)} }
  IN  UNION { hopsAt(k) : k \in 1 .. d }

ProbeDenied(e) == \E r \in LatestProbe(e) : r.state = "probed_correlated_denied"

ProbeDoubtful(e) ==
  \E r \in LatestProbe(e) :
    \/ r.state \in {"confounded_skip", "probed_correlated_disagreement"}
    \/ r.state = "probed_correlated_allowed" /\ r.confounded

HopClean(G, w) ==
  LET p == G.perm[w[1]]
      q == G.trust[w[2]]
  IN  /\ ~ UnknownPermission(p) /\ ~ UnknownTrust(q)
      /\ \A b \in p.scp \cup p.boundary \cup p.deny \cup q.scp \cup q.drift :
           ~ BlocksForSure(b) /\ ~ IsAmbiguous(b)
      /\ \A e \in {p, q} : ~ ProbeDenied(e) /\ ~ ProbeDoubtful(e)

CleanHops(G) == {w \in AllHops(G) : HopClean(G, w)}

HopStopped(G, w) ==
  LET p == G.perm[w[1]]
      q == G.trust[w[2]]
  IN  \/ \E b \in p.scp \cup p.boundary \cup p.deny \cup q.scp \cup q.drift : BlocksForSure(b)
      \/ ProbeDenied(p) \/ ProbeDenied(q)

Justified(G, s, t, d, verdict) ==
  CASE verdict = "VALIDATED" ->
         /\ t \in Reached(G, s, CleanHops(G))[d]
         /\ \A b \in G.admin[t].boundary : ~ BlocksForSure(b) /\ ~ IsAmbiguous(b)
    [] verdict = "BLOCKED" ->
         \/ \E w \in ShortestHops(G, s, t, d) : HopStopped(G, w)
         \/ \E b \in G.admin[t].boundary : BlocksForSure(b)
    [] verdict = "INCONCLUSIVE" ->
         \/ \E w \in ShortestHops(G, s, t, d) : ~ HopClean(G, w)
         \/ \E b \in G.admin[t].boundary : IsAmbiguous(b)
    [] OTHER -> FALSE

-----------------------------------------------------------------------------
Init == facts \in FactGraphs /\ reported = {} /\ finished = FALSE

Report(s, t, d, verdict) ==
  /\ ~ finished
  /\ \A f \in reported : <<f.source, f.target>> # <<s, t>>
  /\ reported' = reported \cup
       {[source |-> s, target |-> t, length |-> d, verdict |-> verdict]}
  /\ t \in AtDistance(facts, s, d) /\ IsAdmin(facts, t)
  /\ Justified(facts, s, t, d, verdict)
  /\ UNCHANGED <<facts, finished>>

Finish ==
  /\ ~ finished
  /\ finished' = TRUE
  /\ AdminPairs(facts) = {<<f.source, f.target, f.length>> : f \in reported}
  /\ UNCHANGED <<facts, reported>>

Next ==
  \/ \E s \in Principals, t \in Roles, d \in MinChain .. MaxDepth, verdict \in Verdict :
       Report(s, t, d, verdict)
  \/ Finish

Spec == Init /\ [][Next]_vars
=============================================================================
