---------------------------- MODULE MCFactGraph ----------------------------
(***************************************************************************)
(* Model values and graph builders the model-checking modules share: one   *)
(* user, five roles and two accounts.                                      *)
(***************************************************************************)
EXTENDS FactGraph, TLC

CONSTANTS u1, r1, r2, r3, r4, r5, acctA, acctB

MCUsers == {u1}
MCRoles == {r1, r2, r3, r4, r5}
MCAccounts == {acctA, acctB}
MCAccountOf == [p \in MCUsers \cup MCRoles |-> IF p \in {r3, r5} THEN acctB ELSE acctA]

MCNodeOrder == (r2 :> 1) @@ (u1 :> 2) @@ (r1 :> 3) @@ (r3 :> 4) @@ (r4 :> 5) @@ (r5 :> 6)

-----------------------------------------------------------------------------
Perm(p, r) ==
  [src |-> p, dst |-> r, ambiguous |-> FALSE, scp |-> {}, boundary |-> {}, deny |-> {},
   probes |-> <<>>]

Trust(p, r) ==
  [src |-> p, dst |-> r, action |-> AssumeRole, ambiguous |-> FALSE, pinned |-> {},
   scp |-> {}, drift |-> {}, probes |-> <<>>]

Graph(perm, trust, admins) ==
  [perm |-> perm, trust |-> trust,
   admin |-> [r \in MCRoles |-> IF r \in admins THEN [managed |-> TRUE, boundary |-> {}] ELSE NoWitness],
   budgetExhausted |-> FALSE]

(***************************************************************************)
(* The subsequence of the template that a subset of its positions selects. *)
(***************************************************************************)
Chosen(template, positions) ==
  LET from[k \in 0 .. Len(template)] ==
        IF k = 0 THEN <<>>
        ELSE IF k \in positions THEN Append(from[k - 1], template[k]) ELSE from[k - 1]
  IN  from[Len(template)]

(***************************************************************************)
(* Bindings: blocking for sure, doubtful, and known not to block.          *)
(***************************************************************************)
Blocking == [confidence |-> "complete", blocking |-> TRUE]
Doubtful == [confidence |-> "partial", blocking |-> TRUE]
Harmless == [confidence |-> "complete", blocking |-> FALSE]

Bound == {{}, {Blocking}, {Doubtful}, {Harmless, Doubtful}}

-----------------------------------------------------------------------------
(***************************************************************************)
(* Depths: a line of five hops with every choice of four shortcuts, so     *)
(* that distances fall on both sides of MinChain and MaxDepth.             *)
(***************************************************************************)
LinePerms == <<Perm(r3, r4), Perm(r4, r5), Perm(u1, r1), Perm(r1, r2), Perm(r2, r3),
               Perm(u1, r3), Perm(r1, r4), Perm(r3, r5), Perm(u1, r5)>>

LineTrust == <<Trust(acctA, r1), Trust(acctA, r2), Trust(r2, r3), Trust(u1, r3),
               Trust(AnyPrincipal, r4), Trust(r4, r5), Trust(r3, r5), Trust(u1, r5)>>

Depths ==
  { Graph(Chosen(LinePerms, (1 .. 5) \cup shortcuts), LineTrust, admins) :
      shortcuts \in SUBSET (6 .. 9), admins \in {{r5}, {r3, r4, r5}} }

=============================================================================
