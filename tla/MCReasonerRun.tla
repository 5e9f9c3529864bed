--------------------------- MODULE MCReasonerRun ---------------------------
(***************************************************************************)
(* Fact graphs for model checking the two reasoners: one family for each   *)
(* alone, and one for both together, in either order.                      *)
(***************************************************************************)
EXTENDS ReasonerRun, MCFactGraph

MCArnOrder == (r5 :> 1) @@ (r4 :> 2) @@ (r1 :> 3) @@ (r3 :> 4) @@ (r2 :> 5) @@ (u1 :> 6)

BothOrders ==
  { <<"assume_role_chain", "admin_reachability">>, <<"admin_reachability", "assume_role_chain">> }

AllSelections == BothOrders \cup { <<"admin_reachability">>, <<"assume_role_chain">> }

(***************************************************************************)
(* Routes: an edge from u1 to r1, which may be doubtful, and every subset  *)
(* of five more to the admins r2 and r3, with at most an identity deny or  *)
(* an SCP on their hops.                                                   *)
(***************************************************************************)
RoutePerms(deny, a) ==
  <<[Perm(u1, r1) EXCEPT !.ambiguous = a], Perm(u1, r2), [Perm(r1, r2) EXCEPT !.deny = deny],
    [Perm(r2, r3) EXCEPT !.deny = deny], Perm(r3, r1), [Perm(r1, r3) EXCEPT !.deny = deny],
    Perm(r1, HyperNode)>>

RouteTrust(scp) ==
  <<Trust(u1, r1), Trust(u1, r2), Trust(r1, r2), [Trust(r2, r3) EXCEPT !.scp = scp],
    Trust(r3, r1), Trust(acctA, r3)>>

OneControl == {<<{}, {}>>, <<{Blocking}, {}>>, <<{Doubtful}, {}>>, <<{}, {Blocking}>>}

Routes ==
  { Graph(Chosen(RoutePerms(c[1], a), positions \cup {1, 7}), RouteTrust(c[2]), admins) :
      c \in OneControl, a \in BOOLEAN, positions \in SUBSET (2 .. 6), admins \in {{r3}, {r2, r3}} }

-----------------------------------------------------------------------------
(***************************************************************************)
(* Shapes: every subset of seven permission edges between a user and three *)
(* roles (a cycle, a diamond, a self-assumption, a suppressed wildcard),   *)
(* against trust policies by name, by account root and for everyone.       *)
(***************************************************************************)
ShapePerms == <<Perm(u1, r1), Perm(u1, r2), Perm(r1, r2), Perm(r2, r3), Perm(r3, r1),
                Perm(r1, HyperNode), Perm(r3, r3)>>

ShapeTrusts ==
  { <<Trust(acctA, r1), Trust(u1, r2), Trust(r1, r2), Trust(r2, r3), Trust(r3, r1)>>,
    <<Trust(AnyPrincipal, r1), Trust(acctA, r2), Trust(acctA, r3), Trust(r3, r3)>>,
    <<Trust(u1, r1), Trust(acctB, r2), Trust(r1, r2), Trust(AnyPrincipal, r3)>> }

Shapes ==
  { Graph(Chosen(ShapePerms, positions), trust, admins) :
      positions \in SUBSET (1 .. 7), trust \in ShapeTrusts, admins \in {{r3}, {r2, r3}} }

(***************************************************************************)
(* Controls: a chain from u1 over r1 to the admin role r3, alone or beside *)
(* a clean one over r2, with every combination of one binding or probe per *)
(* place where the checks look, each blocking, doubtful or harmless.       *)
(***************************************************************************)
Probed ==
  {<<>>, <<[state |-> "probed_correlated_allowed", confounded |-> FALSE]>>,
   <<[state |-> "probed_correlated_allowed", confounded |-> TRUE]>>,
   <<[state |-> "probed_correlated_denied", confounded |-> FALSE]>>,
   <<[state |-> "probed_correlated_denied", confounded |-> FALSE],
     [state |-> "confounded_skip", confounded |-> TRUE]>>,
   <<[state |-> "simulator_only_denied", confounded |-> FALSE]>>}

OneWay(p, q, boundary) ==
  [Graph(<<p, Perm(r1, r3)>>, <<Trust(u1, r1), q>>, {r3})
     EXCEPT !.admin[r3].boundary = boundary]

BesideClean(p, q, boundary) ==
  [Graph(<<p, Perm(r1, r3), Perm(u1, r2), Perm(r2, r3)>>,
         <<Trust(u1, r1), Trust(u1, r2), q, Trust(r2, r3)>>, {r3})
     EXCEPT !.admin[r3].boundary = boundary]

ChainControls ==
  { OneWay([Perm(u1, r1) EXCEPT !.scp = b1, !.boundary = b2, !.deny = b3],
           [Trust(r1, r3) EXCEPT !.scp = b4, !.drift = b5],
           {}) :
      b1 \in {{}, {Doubtful}}, b2 \in Bound, b3 \in Bound, b4 \in Bound, b5 \in Bound }
  \cup
  { OneWay([Perm(u1, r1) EXCEPT !.scp = b, !.ambiguous = a, !.probes = p1],
           [Trust(r1, r3) EXCEPT !.src = s, !.probes = p2],
           b2) :
      b \in {{}, {Blocking}}, a \in BOOLEAN, s \in {r1, AnyPrincipal}, b2 \in Bound,
      p1 \in Probed, p2 \in Probed }
  \cup
  { BesideClean([Perm(u1, r1) EXCEPT !.deny = b, !.probes = pr],
                [Trust(r1, r3) EXCEPT !.scp = b2],
                {}) :
      b \in Bound, b2 \in Bound, pr \in Probed }

ChainGraphs == Shapes \cup Depths \cup ChainControls

-----------------------------------------------------------------------------
Vague(e) == [e EXCEPT !.ambiguous = TRUE]

Pinned(r, s, names) == [Vague(Trust(r, s)) EXCEPT !.pinned = names]

(***************************************************************************)
(* Branches: a suppressed wildcard and every subset of seven permission    *)
(* edges, clean and doubtful, that lead to the admins r2 and r3 by several *)
(* routes and back, against direct, account-root, pinned account-root and  *)
(* wildcard trust.                                                         *)
(***************************************************************************)
BranchPerms == <<Vague(Perm(u1, r1)), Perm(u1, r1), Perm(u1, r2), Perm(r1, r2), Vague(Perm(r1, r3)),
                 Perm(r2, r3), Perm(r3, r1), Perm(r1, HyperNode)>>

BranchTrusts ==
  { <<Trust(u1, r1), Trust(u1, r2), Trust(r1, r2), Trust(r1, r3), Trust(r2, r3), Trust(r3, r1)>>,
    <<Trust(acctA, r1), Pinned(acctA, r2, {r1}), Trust(AnyPrincipal, r3), Trust(r3, r1)>>,
    <<Trust(u1, r1), Pinned(acctA, r2, {r1, r3}), Pinned(acctA, r3, {r2}), Vague(Trust(r3, r1))>>,
    <<[Trust(u1, r1) EXCEPT !.action = "sts:TagSession"], Trust(u1, r2), Pinned(acctB, r1, {r3}),
      Trust(r1, r2), Trust(r2, r3)>> }

Branches ==
  { [Graph(Chosen(BranchPerms, positions \cup {8}), trust, {r2, r3}) EXCEPT !.admin[r2].managed = m] :
      positions \in SUBSET (1 .. 7), trust \in BranchTrusts, m \in BOOLEAN }

(***************************************************************************)
(* Controls: a clean route over r1 and a second one over r2, clean or      *)
(* wildcard, to the admin r3, with a binding wherever the checks look.     *)
(***************************************************************************)
WalkControls ==
  { [Graph(<<[Perm(u1, r1) EXCEPT !.boundary = b1, !.scp = b0], [Perm(u1, r2) EXCEPT !.ambiguous = a],
             Perm(r1, r3), [Perm(r2, r3) EXCEPT !.boundary = b2]>>,
           <<Trust(u1, r1), Trust(u1, r2), [Trust(r1, r3) EXCEPT !.scp = b3],
             [Trust(r2, r3) EXCEPT !.scp = b4]>>, {r3})
       EXCEPT !.admin[r3].boundary = b5] :
      a \in BOOLEAN, b0 \in {{}, {Blocking}}, b1 \in {{}, {Doubtful}}, b2 \in Bound, b3 \in Bound,
      b4 \in {{}, {Blocking}}, b5 \in Bound }

(***************************************************************************)
(* Clean lines: five hops of direct trust, broken anywhere, so that a      *)
(* clean proof near the source goes with admins at and past MaxDepth.      *)
(***************************************************************************)
CleanLines ==
  { Graph(Chosen(LinePerms, {1, 2, 3, 4, 5} \ gaps),
          <<Trust(u1, r1), Trust(r1, r2), Trust(r2, r3), Trust(r3, r4), Trust(r4, r5)>>,
          {r1} \cup far) :
      gaps \in {{}, {1}, {2}, {5}}, far \in {{}, {r4}, {r5}, {r4, r5}} }

ReachGraphs == CleanLines \cup Branches \cup Depths \cup WalkControls

-----------------------------------------------------------------------------
Families == Routes \cup ChainGraphs \cup ReachGraphs

MCGraphs == Families

(***************************************************************************)
(* Both reasoners on the routes, one alone on its own family.              *)
(***************************************************************************)
Matched ==
  \/ facts \in Routes /\ queue \in BothOrders
  \/ facts \in ChainGraphs /\ queue = <<"assume_role_chain">>
  \/ facts \in ReachGraphs /\ queue = <<"admin_reachability">>

MCRunInit == Matched /\ RunInit

MCRunSpec == MCRunInit /\ [][RunNext]_runVars /\ WF_runVars(RunNext)
=============================================================================
