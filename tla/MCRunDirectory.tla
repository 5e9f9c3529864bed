---------------------------- MODULE MCRunDirectory ----------------------------
(***************************************************************************)
(* Four edges, two of them of one relation, in worlds that differ in       *)
(* edges, bindings and budget.                                             *)
(***************************************************************************)
EXTENDS RunDirectory, TLC

CONSTANTS chain1, chain2, chain3, lambda1

MCEdges == {chain1, chain2, chain3, lambda1}

On2(pattern, ends) == [pattern |-> pattern, ends |-> ends]

MCRelationOf ==
  (chain1 :> On2("assume_role_chain", 1)) @@ (chain2 :> On2("assume_role_chain", 2))
    @@ (chain3 :> On2("assume_role_chain", 2)) @@ (lambda1 :> On2("passrole_lambda", 3))

Bound(e, confidence, blocking) == [edge |-> e, says |-> [confidence |-> confidence, blocking |-> blocking]]

Collected(edges, bound, exhausted) == [edges |-> edges, bound |-> bound, exhausted |-> exhausted]

\* The second has the graph of the first with another reading of its control;
\* the third lacks bindings; the fourth has two edges of one relation.
MCWorlds ==
  {Collected({chain1, lambda1}, {Bound(chain1, "complete", TRUE)}, FALSE),
   Collected({chain1, lambda1}, {Bound(chain1, "partial", TRUE)}, FALSE),
   Collected({chain1, lambda1}, {}, FALSE),
   Collected({chain2, chain3}, {Bound(chain3, "complete", TRUE)}, FALSE)}

MCExhausted == {Collected({chain1, lambda1}, {Bound(chain1, "complete", FALSE)}, TRUE)}

Flags(none, overlay, pedantic, selection) ==
  [none |-> none, overlay |-> overlay, pedantic |-> pedantic, selection |-> selection]

MCSelections == {Patterns, {"assume_role_chain"}, {NoPattern}}

MCOptions ==
  {Flags(FALSE, FALSE, FALSE, Patterns), Flags(FALSE, TRUE, FALSE, Patterns), Flags(FALSE, FALSE, TRUE, Patterns),
   Flags(TRUE, FALSE, FALSE, Patterns), Flags(FALSE, TRUE, FALSE, {"assume_role_chain"}),
   Flags(FALSE, FALSE, FALSE, {NoPattern})}
=============================================================================
