------------------------------ MODULE LiveProbes ------------------------------
(***************************************************************************)
(* The probe runner: it works through a plan of simulator and runtime      *)
(* probes over the edges of a frozen scenario, writes the overlay, and     *)
(* leaves it to the readers to pick the record that counts for an edge     *)
(* (truth/probe_runner.py, confounded.py, org_controls.py, probe_overlay,  *)
(* edge_truth.py, and the reasoners' use of the overlay).                  *)
(***************************************************************************)
EXTENDS Verdicts, Sequences

CONSTANTS
  Principals,
  Nobody,           \* a plan item that leaves the source or target open
  Cases,            \* scenarios with a plan and the --respect-confounders flag
  MaxTries          \* how often the command is started (the code has no bound)

ASSUME ProbeConstants == Nobody \notin Principals /\ MaxTries \in Nat \ {0}

(***************************************************************************)
(* What a constraint bound to an edge says of sts:AssumeRole: the actions  *)
(* it denies, those a NotAction spares, and its resource patterns.         *)
(***************************************************************************)
Control ==
  [type : {"SCP", "other"}, scope : {"ROOT", "OU", "ACCOUNT"}, denies : SUBSET {"assume", "else"},
   spares : SUBSET {"assume", "else"}, resources : SUBSET {"all", "every_role", "one_role"}]

(***************************************************************************)
(* Edges come in the order of their ids. The kinds that start with         *)
(* "sts:AssumeRole" include those for web identities and SAML.             *)
(***************************************************************************)
AssumeKinds == {"permission", "trust", "federated_trust"}

Edge ==
  [kind : AssumeKinds \cup {"other"}, src : Principals, dst : Principals, controls : SUBSET Control]

Modes == {"simulator", "runtime", "both", "confounded_skip"}

Item == [mode : Modes, edge : Nat, source : Principals \cup {Nobody}, target : Principals \cup {Nobody}]

ASSUME ProbeCases ==
  \A c \in Cases : c.edges \in Seq(Edge) /\ c.plan \in Seq(Item) /\ c.respect \in BOOLEAN

VARIABLES
  case,
  tries,
  at,               \* the plan item the loop is at
  stage,            \* "take", "simulate", "assume", "record", "failed", "written", "read"
  simulated,        \* the simulator's answer for this item
  assumed,          \* STS's answer for this item
  records,
  answers,          \* every answer AWS ever gave
  latest            \* for an edge with records, the record that counts

vars == <<case, tries, at, stage, simulated, assumed, records, answers, latest>>

-----------------------------------------------------------------------------
(***************************************************************************)
(* is_sts_assume_role_relevant, has_broad_assume_role_scope: the list of   *)
(* denied actions, where there is one, hides the spared ones.              *)
(***************************************************************************)
Relevant(c) ==
  \/ "assume" \in c.denies
  \/ c.denies = {} /\ c.spares # {} /\ "assume" \notin c.spares

Broad(c) == c.resources = {} \/ c.resources \cap {"all", "every_role"} # {}

(***************************************************************************)
(* judge_edge_confounding.                                                 *)
(***************************************************************************)
Confounders(e) ==
  {c \in e.controls : c.type = "SCP" /\ c.scope \in {"ROOT", "OU"} /\ Relevant(c) /\ Broad(c)}

(***************************************************************************)
(* _resolve_edge: the named edge, else the first in edge-id order between  *)
(* the two ends; 0 stands for none.                                        *)
(***************************************************************************)
Matching(item) ==
  {i \in DOMAIN case.edges :
     /\ case.edges[i].kind \in AssumeKinds
     /\ item.source \in {Nobody, case.edges[i].src}
     /\ item.target \in {Nobody, case.edges[i].dst}}

First(S) == IF S = {} THEN 0 ELSE CHOOSE i \in S : \A j \in S : i <= j

EdgeOf(item) ==
  IF item.edge # 0
    THEN IF item.edge \in DOMAIN case.edges THEN item.edge ELSE 0
  ELSE First(Matching(item))

\* Mutated form of Skipped: the flag alone decides, not the operator's mode.
SkippedByFlag(item) == case.respect /\ Confounders(case.edges[EdgeOf(item)]) # {}

Skipped(item) ==
  \/ item.mode = "confounded_skip"
  \/ case.respect /\ Confounders(case.edges[EdgeOf(item)]) # {}

\* Mutated form of StateOf: with both answers at hand, the simulator's decides.
SimulatorState(mode, sim, run) ==
  CASE mode = "simulator" -> IF sim = "allowed" THEN "simulator_only_allowed" ELSE "simulator_only_denied"
    [] mode = "runtime"   -> IF run = "allowed" THEN "probed_correlated_allowed" ELSE "probed_correlated_denied"
    [] OTHER              -> IF sim = "allowed" THEN "probed_correlated_allowed" ELSE "probed_correlated_denied"

(***************************************************************************)
(* _probe_state_for_result.                                                *)
(***************************************************************************)
StateOf(mode, sim, run) ==
  CASE mode = "simulator"            -> IF sim = "allowed" THEN "simulator_only_allowed" ELSE "simulator_only_denied"
    [] mode = "runtime" \/ (mode = "both" /\ sim = run) ->
         IF run = "allowed" THEN "probed_correlated_allowed" ELSE "probed_correlated_denied"
    [] OTHER                         -> "probed_correlated_disagreement"

Record(edge, state, confounded, sim, run) ==
  [edge |-> edge, state |-> state, confounded |-> confounded, simulator |-> sim, runtime |-> run]

-----------------------------------------------------------------------------
Here == case.plan[at]

(***************************************************************************)
(* The top of the loop. An item that matches no edge ends the command, as  *)
(* does every error that is not a denial; what was recorded is lost.       *)
(***************************************************************************)
Skip ==
  /\ stage = "take" /\ at <= Len(case.plan)
  /\ EdgeOf(Here) # 0 /\ Skipped(Here)
  /\ records' = Append(records, Record(EdgeOf(Here), "confounded_skip", TRUE, "not_run", "not_probed"))
  /\ at' = at + 1
  /\ UNCHANGED <<case, tries, stage, simulated, assumed, answers, latest>>

\* Mutated form of Begin: what the services said to the item before is kept.
BeginWithOldAnswers ==
  /\ stage = "take" /\ at <= Len(case.plan)
  /\ EdgeOf(Here) # 0 /\ ~ Skipped(Here)
  /\ stage' = IF Here.mode \in {"simulator", "both"} THEN "simulate" ELSE "assume"
  /\ UNCHANGED <<case, tries, at, simulated, assumed, records, answers, latest>>

Begin ==
  /\ stage = "take" /\ at <= Len(case.plan)
  /\ EdgeOf(Here) # 0 /\ ~ Skipped(Here)
  /\ simulated' = "none" /\ assumed' = "none"
  /\ stage' = IF Here.mode \in {"simulator", "both"} THEN "simulate" ELSE "assume"
  /\ UNCHANGED <<case, tries, at, records, answers, latest>>

Unmatched ==
  /\ stage = "take" /\ at <= Len(case.plan) /\ EdgeOf(Here) = 0
  /\ stage' = "failed"
  /\ UNCHANGED <<case, tries, at, simulated, assumed, records, answers, latest>>

Answer(service, a) == [try |-> tries, item |-> at, service |-> service, answer |-> a]

(***************************************************************************)
(* _run_simulator: everything but "allowed" is a denial.                   *)
(***************************************************************************)
Simulate(a) ==
  /\ stage = "simulate"
  /\ answers' = answers \cup {Answer("iam", a)}
  /\ simulated' = IF a = "allowed" THEN "allowed" ELSE "denied"
  /\ stage' = CASE a = "error"                               -> "failed"
                [] a # "error" /\ Here.mode = "both"         -> "assume"
                [] OTHER                                     -> "record"
  /\ UNCHANGED <<case, tries, at, assumed, records, latest>>

(***************************************************************************)
(* _run_runtime_sts.                                                       *)
(***************************************************************************)
AssumeNow(a) ==
  /\ stage = "assume"
  /\ answers' = answers \cup {Answer("sts", a)}
  /\ assumed' = a
  /\ stage' = IF a = "error" THEN "failed" ELSE "record"
  /\ UNCHANGED <<case, tries, at, simulated, records, latest>>

\* Mutated form of Note: a disagreement is probed again, as often as it takes.
NoteOrRetry ==
  /\ stage = "record"
  /\ IF StateOf(Here.mode, simulated, assumed) = "probed_correlated_disagreement"
       THEN stage' = "simulate" /\ UNCHANGED <<records, at>>
       ELSE /\ records' = Append(records, Record(EdgeOf(Here), StateOf(Here.mode, simulated, assumed), FALSE,
                                                simulated, assumed))
            /\ at' = at + 1 /\ stage' = "take"
  /\ UNCHANGED <<case, tries, simulated, assumed, answers, latest>>

Note ==
  /\ stage = "record"
  /\ records' = Append(records, Record(EdgeOf(Here), StateOf(Here.mode, simulated, assumed), FALSE, simulated, assumed))
  /\ at' = at + 1
  /\ stage' = "take"
  /\ UNCHANGED <<case, tries, simulated, assumed, answers, latest>>

Write ==
  /\ stage = "take" /\ at > Len(case.plan)
  /\ stage' = "written"
  /\ UNCHANGED <<case, tries, at, simulated, assumed, records, answers, latest>>

(***************************************************************************)
(* The operator starts the failed command again: nothing is resumed.       *)
(***************************************************************************)
FreshRecords == <<>>

Restart ==
  /\ stage = "failed" /\ tries < MaxTries
  /\ tries' = tries + 1 /\ at' = 1 /\ stage' = "take"
  /\ records' = FreshRecords
  /\ UNCHANGED <<case, simulated, assumed, answers, latest>>

(***************************************************************************)
(* join_probe_overlay_to_scenario and _latest_probe: by time, then by      *)
(* probe id. All records of a run carry the time of its start, and the id  *)
(* is a digest of run, edge, state and time: among the states recorded for *)
(* an edge any may come last, and among records of one state the last one. *)
(***************************************************************************)
RecordsOf(e) == {i \in DOMAIN records : records[i].edge = e}

MayComeLast(e) ==
  {i \in RecordsOf(e) : \A j \in RecordsOf(e) : records[j].state = records[i].state => j <= i}

Read ==
  /\ stage = "written"
  /\ latest' \in {f \in [{records[i].edge : i \in DOMAIN records} -> DOMAIN records] :
                    \A e \in DOMAIN f : f[e] \in MayComeLast(e)}
  /\ stage' = "read"
  /\ UNCHANGED <<case, tries, at, simulated, assumed, records, answers>>

Init ==
  /\ case \in Cases
  /\ tries = 1 /\ at = 1 /\ stage = "take"
  /\ simulated = "none" /\ assumed = "none"
  /\ records = <<>> /\ answers = {} /\ latest = <<>>

Next ==
  \/ Skip \/ Begin \/ Unmatched \/ Note \/ Write \/ Restart \/ Read
  \/ \E a \in {"allowed", "denied", "error"} : Simulate(a) \/ AssumeNow(a)

(***************************************************************************)
(* The command is a loop of one process that nothing suspends.             *)
(***************************************************************************)
Spec == Init /\ [][Next]_vars /\ WF_vars(Next)

-----------------------------------------------------------------------------
(***************************************************************************)
(* The readers. edge_truth's consolidated verdict for an edge, the overlay *)
(* assessment of cross_account_trust for a trust edge, and that of         *)
(* assume_role_chain for the two edges of a hop.                           *)
(***************************************************************************)
Counting(e) == IF e \in DOMAIN latest THEN {records[latest[e]]} ELSE {}

EdgeTruth(e) ==
  LET confounded == Confounders(case.edges[e]) # {} \/ \E r \in Counting(e) : r.confounded
      ran(a)     == \E r \in Counting(e) : r.runtime = a
  IN  CASE confounded                                    -> "confounded_skip"
        [] ~ confounded /\ ran("allowed")                -> "validated_allow"
        [] ~ confounded /\ ran("denied")                 -> "validated_deny"
        [] OTHER -> IF \E r \in Counting(e) : r.simulator \in {"allowed", "denied"}
                      THEN "simulator_advisory" ELSE "hypothesis_only"

Seen(r) == [state |-> r.state, confounded |-> r.confounded]

TrustOverlay(e) == AssessProbeOverlay({Seen(r) : r \in Counting(e)})

HopOverlay(p, t) == AssessProbeOverlay({Seen(r) : r \in Counting(p) \cup Counting(t)})

-----------------------------------------------------------------------------
(***************************************************************************)
(* Types of the runner's state (truth/probe_runner.py).                    *)
(***************************************************************************)
ProbeRecords ==
  [edge : Nat \ {0}, state : ProbeState, confounded : BOOLEAN,
   simulator : {"none", "not_run", "allowed", "denied"}, runtime : {"none", "not_probed", "allowed", "denied"}]

TypeOK ==
  /\ tries \in 1..MaxTries /\ at \in 1..Len(case.plan) + 1
  /\ stage \in {"take", "simulate", "assume", "record", "failed", "written", "read"}
  /\ simulated \in {"none", "allowed", "denied"} /\ assumed \in {"none", "allowed", "denied", "error"}
  /\ Len(records) = at - 1
  /\ \A i \in DOMAIN records : records[i] \in ProbeRecords
  /\ \A a \in answers : a.try \in 1..tries /\ a.item \in 1..Len(case.plan)

(***************************************************************************)
(* --respect-confounders: no call is made, in any try, for an edge whose   *)
(* scenario shows an inherited SCP over sts:AssumeRole, written here from  *)
(* what the controls say; nor for an item the operator asked to skip.      *)
(***************************************************************************)
Inherited(e) ==
  \E c \in e.controls :
    /\ c.type = "SCP" /\ c.scope # "ACCOUNT" /\ c.resources # {"one_role"}
    /\ IF c.denies = {} THEN c.spares = {"else"} ELSE "assume" \in c.denies

NoCallsWhenConfounded ==
  \A a \in answers :
    LET item == case.plan[a.item]
    IN  item.mode # "confounded_skip" /\ ~ (case.respect /\ Inherited(case.edges[EdgeOf(item)]))

(***************************************************************************)
(* A record says what AWS said in the try that wrote it, to the calls its  *)
(* mode makes and to no others, after failures and new tries too: in its   *)
(* state, and in the two results that edge-truth reads.                    *)
(***************************************************************************)
Said(i, service, a) == [try |-> tries, item |-> i, service |-> service, answer |-> a] \in answers

Silent(i, service) == \A a \in {"allowed", "denied", "error"} : ~ Said(i, service, a)

RecordsSayTheAnswers ==
  \A i \in DOMAIN records :
    LET r == records[i]
    IN  /\ r.edge = EdgeOf(case.plan[i])
        /\ (r.state = "confounded_skip") <=> (Silent(i, "iam") /\ Silent(i, "sts"))
        /\ (r.state = "probed_correlated_allowed") => (Said(i, "sts", "allowed") /\ ~ Said(i, "iam", "denied"))
        /\ (r.state = "probed_correlated_denied") => (Said(i, "sts", "denied") /\ ~ Said(i, "iam", "allowed"))
        /\ r.state = "probed_correlated_disagreement" =>
             \E a \in {"allowed", "denied"} : Said(i, "sts", a) /\ ~ Said(i, "iam", a) /\ ~ Silent(i, "iam")
        /\ r.state = "simulator_only_allowed" => (Said(i, "iam", "allowed") /\ Silent(i, "sts"))
        /\ r.state = "simulator_only_denied" => (Said(i, "iam", "denied") /\ Silent(i, "sts"))
        /\ \A a \in {"allowed", "denied"} :
             (r.simulator = a <=> Said(i, "iam", a)) /\ (r.runtime = a <=> Said(i, "sts", a))

(***************************************************************************)
(* The records are well formed and true.                                   *)
(***************************************************************************)
RecordsTrue == TypeOK /\ RecordsSayTheAnswers

(***************************************************************************)
(* The readers of one overlay do not contradict each other: where          *)
(* edge-truth shows an edge as allowed, the reasoners do not block it on   *)
(* the overlay, and where it shows a denial they do not let it pass. What  *)
(* only the simulator answered overrides nothing.                          *)
(***************************************************************************)
EdgeReadersAgree ==
  stage = "read" =>
    \A e \in DOMAIN case.edges :
      /\ EdgeTruth(e) = "validated_allow" => TrustOverlay(e).override # "BLOCKED"
      /\ EdgeTruth(e) = "validated_deny" => TrustOverlay(e).override \in {"BLOCKED", "INCONCLUSIVE"}
      /\ EdgeTruth(e) \in {"simulator_advisory", "hypothesis_only"} => TrustOverlay(e).check = "none"

(***************************************************************************)
(* A denial that counts for either edge of a hop blocks the chain; a hop   *)
(* passes on the overlay only if no record that counts is a doubt.         *)
(***************************************************************************)
Hops ==
  {h \in (DOMAIN case.edges) \X (DOMAIN case.edges) :
     /\ case.edges[h[1]].kind = "permission" /\ case.edges[h[2]].kind = "trust"
     /\ case.edges[h[1]].src = case.edges[h[2]].src /\ case.edges[h[1]].dst = case.edges[h[2]].dst}

Denied(e) == \E r \in Counting(e) : r.state = "probed_correlated_denied"

Doubt(e) ==
  \E r \in Counting(e) : r.confounded \/ r.state \in {"confounded_skip", "probed_correlated_disagreement"}

DenialStopsHops ==
  stage = "read" =>
    \A h \in Hops :
      LET o == HopOverlay(h[1], h[2])
      IN  /\ Denied(h[1]) \/ Denied(h[2]) => (o.override = "BLOCKED" /\ o.blocker)
          /\ o.check = "PASS" => ~ Doubt(h[1]) /\ ~ Doubt(h[2])

(***************************************************************************)
(* edge-truth, cross_account_trust and assume_role_chain, reading the same *)
(* overlay, agree on what it says of an edge and of a hop.                 *)
(***************************************************************************)
ReadersAgree == EdgeReadersAgree /\ DenialStopsHops

(***************************************************************************)
(* The command ends: with an overlay that is read, or with a failure after *)
(* the last try.                                                           *)
(***************************************************************************)
Finishes == <>(stage = "read" \/ (stage = "failed" /\ tries = MaxTries))

-----------------------------------------------------------------------------
(***************************************************************************)
(* Claims the code does not keep.                                          *)
(*                                                                         *)
(* The probe-overlay document: a runtime probe attached to the permission  *)
(* half or the trust half of an AssumeRole relation influences the finding *)
(* of cross_account_trust, as replay expands the one id into both.         *)
(***************************************************************************)
HalvesShareProbes ==
  stage = "read" =>
    \A h \in Hops : Denied(h[1]) \/ Denied(h[2]) => TrustOverlay(h[2]).override = "BLOCKED"
=============================================================================
