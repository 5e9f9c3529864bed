----------------------------- MODULE WalkInputs -----------------------------
(***************************************************************************)
(* What the two walkers are given: the graphs a run may read, the order in *)
(* which facts.nodes lists the principals, and the limits of a chain.      *)
(***************************************************************************)
EXTENDS FactGraph

CONSTANTS
  NodeOrder,        \* the position of each principal in facts.nodes
  Graphs,           \* the fact graphs the run may be given
  MinChain,         \* _MIN_CHAIN_LENGTH of assume_role_chain
  MaxDepth          \* _MAX_DEPTH, the same in both

ASSUME WalkBounds ==
  /\ Roles # {}                  \* preconditions_met
  /\ NodeOrder \in [Principals -> Nat]
  /\ Graphs \subseteq FactGraphs
  /\ MinChain \in Nat \ {0} /\ MaxDepth \in Nat /\ MinChain <= MaxDepth
=============================================================================
