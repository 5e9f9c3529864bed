------------------------------ MODULE Verdicts ------------------------------
(***************************************************************************)
(* The vocabulary every reasoner shares: the tristate of a check, how      *)
(* checks combine, what a governance binding says about the edge it is     *)
(* bound to, what a live-probe overlay adds, and the invariants the        *)
(* Finding constructor enforces.                                           *)
(*                                                                         *)
(* Collections the code walks in order are sets here wherever the result   *)
(* does not depend on the order.                                           *)
(***************************************************************************)
EXTENDS Naturals

CheckState == {"PASS", "FAIL", "UNKNOWN"}

Verdict == {"VALIDATED", "BLOCKED", "INCONCLUSIVE", "PRECONDITION_ONLY"}

(***************************************************************************)
(* and_tristate and its fold and_tristate_many: FAIL dominates UNKNOWN,    *)
(* UNKNOWN dominates PASS, and the empty conjunction passes.               *)
(***************************************************************************)
AndTristateMany(states) ==
  CASE "FAIL" \in states                              -> "FAIL"
    [] "FAIL" \notin states /\ "UNKNOWN" \in states   -> "UNKNOWN"
    [] OTHER                                          -> "PASS"

-----------------------------------------------------------------------------
(***************************************************************************)
(* Governance bindings: what an SCP, permission boundary, identity deny or *)
(* stale-principal constraint bound to an edge says about that edge.       *)
(***************************************************************************)
Confidence == {"complete", "partial", "needs_review"}

Binding == [confidence : Confidence, blocking : BOOLEAN]

BlocksForSure(b) == b.blocking /\ b.confidence = "complete"

IsAmbiguous(b) == b.confidence \in {"partial", "needs_review"}

BlockerState(bindings) ==
  CASE \E b \in bindings : BlocksForSure(b)      -> "FAIL"
    [] /\ ~ \E b \in bindings : BlocksForSure(b)
       /\ \E b \in bindings : IsAmbiguous(b)     -> "UNKNOWN"
    [] OTHER                                     -> "PASS"

-----------------------------------------------------------------------------
(***************************************************************************)
(* The live-probe overlay. Only records in one of the four live states     *)
(* take part; the assessment says which check to append, whether a blocker *)
(* comes with it and which verdict, if any, overrides the reasoner's own.  *)
(***************************************************************************)
LiveProbeState ==
  {"probed_correlated_denied", "confounded_skip", "probed_correlated_disagreement",
   "probed_correlated_allowed"}

ProbeState == LiveProbeState \cup {"simulator_only_allowed", "simulator_only_denied"}

ProbeRecord == [state : ProbeState, confounded : BOOLEAN]

Assessment(check, blocker, override) ==
  [check |-> check, blocker |-> blocker, override |-> override]

AssessProbeOverlay(latest) ==
  LET live        == {r \in latest : r.state \in LiveProbeState}
      seen(state) == \E r \in live : r.state = state
      tainted     == \E r \in live : r.state = "probed_correlated_allowed" /\ r.confounded
  IN  IF live = {}
        THEN Assessment("none", FALSE, "none")
      ELSE IF seen("probed_correlated_denied")
        THEN Assessment("FAIL", TRUE, "BLOCKED")
      ELSE IF seen("confounded_skip") \/ seen("probed_correlated_disagreement") \/ tainted
        THEN Assessment("UNKNOWN", FALSE, "INCONCLUSIVE")
      ELSE Assessment("PASS", FALSE, "none")

-----------------------------------------------------------------------------
(***************************************************************************)
(* What Finding.__post_init__ accepts; it raises on anything else, which   *)
(* aborts the reasoner run. A finding carries the set of its checks'       *)
(* states and the kinds of its blockers.                                   *)
(* It also refuses an unknown severity, a check that cites evidence the    *)
(* bundle lacks, and validation on an assumed condition context            *)
(* (verdict.py:253, 282 and 317). These are left out: no reasoner's        *)
(* finding reaches them.                                                   *)
(***************************************************************************)
FindingAccepted(f) ==
  CASE f.verdict = "VALIDATED"         -> f.checks \subseteq {"PASS"} /\ f.blockers = {}
    [] f.verdict = "BLOCKED"           -> "FAIL" \in f.checks /\ f.blockers # {}
    [] f.verdict = "PRECONDITION_ONLY" -> {"PASS", "FAIL"} \subseteq f.checks /\ f.blockers # {}
    [] OTHER                           -> TRUE
=============================================================================
