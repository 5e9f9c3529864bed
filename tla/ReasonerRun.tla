---------------------------- MODULE ReasonerRun ----------------------------
(***************************************************************************)
(* One run of the two chain-walking reasoners over a frozen fact graph:    *)
(* the registry runs the registered reasoners one after the other and      *)
(* collects their findings, then the cross-reasoner step demotes           *)
(* admin_reachability findings that a blocked chain contradicts.           *)
(*                                                                         *)
(* The run is built on AdminReachability, whose names stand for the        *)
(* reachability walk here, and on an instance of AssumeRoleChain. It       *)
(* interleaves nothing, each step being one of the reasoner at the head of *)
(* the queue; both read the same facts.                                    *)
(***************************************************************************)
EXTENDS AdminReachability

CONSTANT Selections \* the sequences of pattern ids --reasoners may register

Pattern == {"assume_role_chain", "admin_reachability"}

ASSUME RunBounds == Selections \subseteq Seq(Pattern)

VARIABLES
  chainWaiting, chainSource, chainFrontier, chainVisited, chainHere, chainTodo,
  chainSeen, chainFindings, chainPhase,
  queue,            \* registered reasoners that have not returned yet
  emitted,          \* what findings.json is built from
  reconciled

chainVars ==
  <<chainWaiting, chainSource, chainFrontier, chainVisited, chainHere, chainTodo,
    chainSeen, chainFindings, chainPhase>>

reachVars == <<waiting, source, walk, findings, phase>>

runVars == <<facts, chainVars, reachVars, queue, emitted, reconciled>>

Chain ==
  INSTANCE AssumeRoleChain WITH
    waiting <- chainWaiting, source <- chainSource, frontier <- chainFrontier,
    visited <- chainVisited, here <- chainHere, todo <- chainTodo, seen <- chainSeen,
    findings <- chainFindings, phase <- chainPhase

-----------------------------------------------------------------------------
(***************************************************************************)
(* evidence.edge_refs of the two kinds of finding: the edges of the hops   *)
(* and the admin witness edges. A reachability finding cites every hop     *)
(* walked, not only those of its proof.                                    *)
(***************************************************************************)
HopRefs(hops) ==
  {<<"permission", h.perm>> : h \in hops} \cup {<<"trust", h.trust>> : h \in hops}

WitnessRefs(roles) == {<<"admin_witness", r>> : r \in roles}

ChainRefs(f) == HopRefs(HopsOf(f.chain)) \cup WitnessRefs({f.target})

ReachRefs(f) == HopRefs(f.walked) \cup WitnessRefs(f.admins)

(***************************************************************************)
(* apply_cross_reasoner_demotions: a VALIDATED reachability finding is     *)
(* demoted when a BLOCKED chain with the same endpoints shares an edge     *)
(* with it. dataclasses.replace keeps the checks.                          *)
(***************************************************************************)
OrganizationContradicts(c, f) ==
  /\ c.verdict = "BLOCKED" /\ c.blockers \subseteq {"scp", "permission_boundary"}
  /\ <<c.source, c.target>> = <<f.source, f.target>>
  /\ ChainRefs(c) \cap ReachRefs(f) # {}

Contradicts(c, f) ==
  /\ c.verdict = "BLOCKED"
  /\ <<c.source, c.target>> = <<f.source, f.target>>
  /\ ChainRefs(c) \cap ReachRefs(f) # {}

SilentDemotion(f) == [f EXCEPT !.blockers = {"cross_reasoner_blocked"}]
Demotion(f) == [f EXCEPT !.verdict = "INCONCLUSIVE", !.blockers = {"cross_reasoner_blocked"}]

Reconciled(f) ==
  IF f.verdict = "VALIDATED" /\ \E c \in chainFindings : Contradicts(c, f)
    THEN Demotion(f) ELSE f

-----------------------------------------------------------------------------
RunInit ==
  /\ Chain!Init /\ Init
  /\ queue \in Selections
  /\ emitted = {}
  /\ reconciled = FALSE

RunChain ==
  /\ queue # <<>> /\ Head(queue) = "assume_role_chain"
  /\ chainPhase # "done"
  /\ Chain!Next
  /\ UNCHANGED <<reachVars, queue, emitted, reconciled>>

RunReach ==
  /\ queue # <<>> /\ Head(queue) = "admin_reachability"
  /\ phase # "done"
  /\ Next
  /\ UNCHANGED <<chainVars, queue, emitted, reconciled>>

(***************************************************************************)
(* run_all appends what the reasoner at the head returned and goes on.     *)
(***************************************************************************)
Returned ==
  /\ queue # <<>>
  /\ CASE Head(queue) = "assume_role_chain"  -> chainPhase = "done"
       [] Head(queue) = "admin_reachability" -> phase = "done"
  /\ queue' = Tail(queue)
  /\ UNCHANGED <<facts, chainVars, reachVars, emitted, reconciled>>

Reconcile ==
  /\ queue = <<>> /\ ~ reconciled
  /\ emitted' = {[pattern |-> "assume_role_chain", finding |-> f] : f \in chainFindings} \cup
                {[pattern |-> "admin_reachability", finding |-> Reconciled(f)] :
                   f \in findings}
  /\ reconciled' = TRUE
  /\ UNCHANGED <<facts, chainVars, reachVars, queue>>

RunOver == reconciled /\ UNCHANGED runVars

RunNext == RunChain \/ RunReach \/ Returned \/ Reconcile \/ RunOver

RunSpec == RunInit /\ [][RunNext]_runVars /\ WF_runVars(RunNext)

-----------------------------------------------------------------------------
RunTypeOK ==
  /\ Chain!TypeOK /\ TypeOK
  /\ reconciled \in BOOLEAN
  /\ \A e \in emitted : e.finding.verdict \in Verdict

Emitted(pattern) == {e.finding : e \in {d \in emitted : d.pattern = pattern}}

SamePair(c, f) == <<c.source, c.target>> = <<f.source, f.target>>

SharesHop(c, f) == HopRefs(HopsOf(c.chain)) \cap HopRefs(f.proof) # {}

(***************************************************************************)
(* What is emitted never calls one path both blocked and open: a blocked   *)
(* chain and a validated reachability of the same pair share no hop of the *)
(* latter's proof. The two walks keep different edges of a pair, and the   *)
(* demotion has the evidence of both to go by.                             *)
(***************************************************************************)
NoContradiction ==
  \A c \in Emitted("assume_role_chain"), f \in Emitted("admin_reachability") :
    SamePair(c, f) /\ c.verdict = "BLOCKED" /\ SharesHop(c, f) => f.verdict # "VALIDATED"

(***************************************************************************)
(* Path-level matching, as the module's contract has it: a target that is  *)
(* proven over an alternate path, of which no blocked chain of the pair    *)
(* has any hop, stays validated. In the code both findings cite the admin  *)
(* witness of the target, which every path to it has.                      *)
(***************************************************************************)
AlternatePathSpared ==
  reconciled =>
    \A f \in findings :
      /\ f.verdict = "VALIDATED" /\ f.target \in f.proven
      /\ \A c \in Emitted("assume_role_chain") :
           SamePair(c, f) /\ c.verdict = "BLOCKED" => ~ SharesHop(c, f)
      => f \in Emitted("admin_reachability")

(***************************************************************************)
(* Demotion rebuilds the finding, which runs Finding.__post_init__ again;  *)
(* nothing emitted trips it.                                               *)
(***************************************************************************)
EmittedAccepted == \A e \in emitted : FindingAccepted(e.finding)

(***************************************************************************)
(* The two reasoners agree on what can be reached: when both have run, a   *)
(* chain reported for a source comes with a reachability finding for that  *)
(* source that lists its target, whatever the order they ran in.           *)
(***************************************************************************)
ReasonersAgree ==
  reconciled /\ phase = "done" =>
    \A c \in Emitted("assume_role_chain") :
      \E f \in Emitted("admin_reachability") : f.source = c.source /\ c.target \in f.admins

-----------------------------------------------------------------------------
(***************************************************************************)
(* What assume_role_chain claims holds in a run of both: every chain it    *)
(* reports is real, its walk is breadth first, and it does what            *)
(* AdminChains promises. What admin_reachability claims is there by name.  *)
(***************************************************************************)
ChainsAuthorized == Chain!ChainsAuthorized

BreadthFirst == Chain!BreadthFirst

KeepsPromise == Chain!KeepsPromise

(***************************************************************************)
(* The walks end: assumption cycles among roles do not trap run().         *)
(***************************************************************************)
Terminates == <>reconciled
=============================================================================
