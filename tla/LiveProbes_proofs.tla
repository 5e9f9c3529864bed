--------------------------- MODULE LiveProbes_proofs ---------------------------
(***************************************************************************)
(* Theorems about the probe runner, for every scenario, plan and number of *)
(* tries: no call where the operator or the scenario forbids one, records  *)
(* that say what AWS said in the try that wrote them, and readers of the   *)
(* overlay that agree.                                                     *)
(*                                                                         *)
(* The set of answers only grows, over all tries. What is inductive is     *)
(* that the answers of this try end at the item in hand, and that the two  *)
(* results in hand are the whole of what was said about it.                *)
(***************************************************************************)
EXTENDS LiveProbes, Integers, NaturalsInduction, WellFoundedInduction, SequenceTheorems, TLAPS

Replies == {"allowed", "denied", "error"}

Truths == {"allowed", "denied"}

AnswerRecord ==
  [try : 1..tries, item : 1..Len(case.plan), service : {"iam", "sts"}, answer : Replies]

Typed ==
  /\ case \in Cases
  /\ tries \in 1..MaxTries /\ at \in 1..Len(case.plan) + 1
  /\ stage \in {"take", "simulate", "assume", "record", "failed", "written", "read"}
  /\ simulated \in {"none"} \cup Truths /\ assumed \in {"none"} \cup Replies
  /\ records \in Seq(ProbeRecords) /\ Len(records) = at - 1
  /\ answers \subseteq AnswerRecord

\* What was said about item i in this try is a; "none" stands for nothing.
Heard(i, service, a) == \A b \in Replies : Said(i, service, b) <=> b = a

\* Nothing is known of the items ahead.
Ahead ==
  \A i \in 1..Len(case.plan), s \in {"iam", "sts"} :
    i > at \/ (i = at /\ stage \in {"take", "written", "read"}) => Heard(i, s, "none")

Busy == stage \in {"simulate", "assume", "record"}

InHand ==
  Busy =>
    /\ at <= Len(case.plan) /\ EdgeOf(Here) # 0 /\ ~ Skipped(Here)
    /\ Heard(at, "iam", simulated) /\ Heard(at, "sts", assumed)

Asked ==
  /\ stage = "simulate" => Here.mode \in {"simulator", "both"} /\ simulated = "none" /\ assumed = "none"
  /\ stage = "assume" => /\ assumed = "none"
                         /\ \/ Here.mode = "runtime" /\ simulated = "none"
                            \/ Here.mode = "both" /\ simulated \in Truths
  /\ stage = "record" => \/ Here.mode = "simulator" /\ simulated \in Truths /\ assumed = "none"
                         \/ Here.mode = "runtime" /\ simulated = "none" /\ assumed \in Truths
                         \/ Here.mode = "both" /\ simulated \in Truths /\ assumed \in Truths

\* One record of RecordsSayTheAnswers.
Says(i, r) ==
  /\ r.edge = EdgeOf(case.plan[i])
  /\ (r.state = "confounded_skip") <=> (Silent(i, "iam") /\ Silent(i, "sts"))
  /\ (r.state = "probed_correlated_allowed") => (Said(i, "sts", "allowed") /\ ~ Said(i, "iam", "denied"))
  /\ (r.state = "probed_correlated_denied") => (Said(i, "sts", "denied") /\ ~ Said(i, "iam", "allowed"))
  /\ r.state = "probed_correlated_disagreement" =>
       \E a \in {"allowed", "denied"} : Said(i, "sts", a) /\ ~ Said(i, "iam", a) /\ ~ Silent(i, "iam")
  /\ r.state = "simulator_only_allowed" => (Said(i, "iam", "allowed") /\ Silent(i, "sts"))
  /\ r.state = "simulator_only_denied" => (Said(i, "iam", "denied") /\ Silent(i, "sts"))
  /\ \A a \in {"allowed", "denied"} :
       (r.simulator = a <=> Said(i, "iam", a)) /\ (r.runtime = a <=> Said(i, "sts", a))

\* State and results of a record fit each other.
Fits(r) ==
  /\ r.confounded <=> r.state = "confounded_skip"
  /\ r.runtime = "allowed" => r.state \in {"probed_correlated_allowed", "probed_correlated_disagreement"}
  /\ r.runtime = "denied" => r.state \in {"probed_correlated_denied", "probed_correlated_disagreement"}
  /\ r.runtime \notin Truths /\ ~ r.confounded => r.state \in {"simulator_only_allowed", "simulator_only_denied"}

Permitted == \A a \in answers : ~ Skipped(case.plan[a.item]) /\ EdgeOf(case.plan[a.item]) # 0

Picked ==
  stage = "read" => \A e \in DOMAIN latest : latest[e] \in DOMAIN records /\ records[latest[e]].edge = e

IInv ==
  /\ Typed /\ Ahead /\ InHand /\ Asked /\ Permitted /\ Picked
  /\ \A i \in DOMAIN records : Says(i, records[i]) /\ Fits(records[i])

-----------------------------------------------------------------------------
(***************************************************************************)
(* The edge of an item.                                                    *)
(***************************************************************************)

\* A set of numbers that is not empty has a least element.
LEMMA Least ==
  ASSUME NEW S \in SUBSET Nat, S # {}
  PROVE  \E i \in S : \A j \in S : i <= j
<1> DEFINE Below == {ss \in Nat \X Nat : ss[1] < ss[2]}
<1>1. IsWellFoundedOn(Below, Nat)
  BY NatLessThanWellFounded DEF OpToRel
<1> HIDE DEF Below
<1>2. PICK x \in S : \A y \in S : ~ (<<y, x>> \in Below)
  BY <1>1, WFMin, Zenon
<1>3. \A y \in S : ~ (y < x)
  BY <1>2 DEF Below
<1> QED
  BY <1>3

\* An item's edge, where it has one, is an edge of the scenario.
LEMMA EdgeKnown ==
  ASSUME ProbeConstants, ProbeCases, case \in Cases, NEW item, EdgeOf(item) # 0
  PROVE  EdgeOf(item) \in DOMAIN case.edges /\ EdgeOf(item) \in Nat \ {0}
<1>1. case.edges \in Seq(Edge)
  BY DEF ProbeCases
<1>2. DOMAIN case.edges \subseteq Nat \ {0}
  BY <1>1
<1>3. CASE item.edge # 0
  BY <1>2, <1>3 DEF EdgeOf
<1>4. CASE item.edge = 0
  <2>1. EdgeOf(item) = First(Matching(item)) /\ Matching(item) # {}
    BY <1>4 DEF EdgeOf, First
  <2>2. Matching(item) \subseteq DOMAIN case.edges
    BY DEF Matching
  <2>3. \E i \in Matching(item) : \A j \in Matching(item) : i <= j
    BY <1>2, <2>1, <2>2, Least
  <2>4. First(Matching(item)) \in Matching(item)
    BY <2>1, <2>3 DEF First
  <2> QED
    BY <1>2, <2>1, <2>2, <2>4
<1> QED
  BY <1>3, <1>4

\* What the property reads in the controls, the code's judgement finds.
LEMMA InheritedConfounds ==
  ASSUME NEW e \in Edge, Inherited(e)
  PROVE  Confounders(e) # {}
<1>1. PICK c \in e.controls :
        /\ c.type = "SCP" /\ c.scope # "ACCOUNT" /\ c.resources # {"one_role"}
        /\ IF c.denies = {} THEN c.spares = {"else"} ELSE "assume" \in c.denies
  BY DEF Inherited
<1>2. c \in Control
  BY DEF Edge
<1>3. c.scope \in {"ROOT", "OU"}
  BY <1>1, <1>2 DEF Control
<1>4. Relevant(c)
  BY <1>1 DEF Relevant
<1>5. c.resources \subseteq {"all", "every_role", "one_role"}
  BY <1>2 DEF Control
<1>6. Broad(c)
  <2>1. CASE c.resources = {}
    BY <2>1 DEF Broad
  <2>2. CASE c.resources # {}
    <3>1. c.resources # {"one_role"}
      BY <1>1
    <3>2. \E r \in c.resources : r # "one_role"
      BY <2>2, <3>1
    <3> QED
      BY <1>5, <3>2 DEF Broad
  <2> QED
    BY <2>1, <2>2
<1> QED
  BY <1>1, <1>3, <1>4, <1>6 DEF Confounders

-----------------------------------------------------------------------------
(***************************************************************************)
(* What a step says.                                                       *)
(***************************************************************************)

\* A step without an answer leaves what was said of every item.
LEMMA Quiet ==
  ASSUME UNCHANGED <<case, tries, answers>>
  PROVE  /\ \A i, s, a : Heard(i, s, a)' <=> Heard(i, s, a)
         /\ \A i, r : Says(i, r)' <=> Says(i, r)
         /\ \A item : EdgeOf(item)' = EdgeOf(item) /\ (Skipped(item)' <=> Skipped(item))
<1>1. \A i, s, a : Said(i, s, a)' <=> Said(i, s, a)
  BY DEF Said
<1>2. \A item : EdgeOf(item)' = EdgeOf(item)
  BY DEF EdgeOf, Matching
<1>3. \A item : Skipped(item)' <=> Skipped(item)
  BY <1>2 DEF Skipped
<1> QED
  BY <1>1, <1>2, <1>3 DEF Heard, Says, Silent

\* An answer is about the item in hand and the service that was asked.
LEMMA Told ==
  ASSUME NEW service, NEW a \in Replies,
         answers' = answers \cup {Answer(service, a)}, UNCHANGED <<case, tries, at>>
  PROVE  /\ \A i, s, b : i # at \/ s # service => (Heard(i, s, b)' <=> Heard(i, s, b))
         /\ \A i, r : i # at => (Says(i, r)' <=> Says(i, r))
         /\ \A item : EdgeOf(item)' = EdgeOf(item) /\ (Skipped(item)' <=> Skipped(item))
         /\ Heard(at, service, "none") => Heard(at, service, a)'
<1>1. \A i, s, b : Said(i, s, b)' <=> Said(i, s, b) \/ (i = at /\ s = service /\ b = a)
  BY DEF Said, Answer
<1>2. \A item : EdgeOf(item)' = EdgeOf(item)
  BY DEF EdgeOf, Matching
<1>3. \A item : Skipped(item)' <=> Skipped(item)
  BY <1>2 DEF Skipped
<1>4. \A i, s, b : i # at \/ s # service => (Said(i, s, b)' <=> Said(i, s, b))
  BY <1>1
<1>5. \A i, s, b : i # at \/ s # service => (Heard(i, s, b)' <=> Heard(i, s, b))
  BY <1>4 DEF Heard
<1>6. \A i, r : i # at => (Says(i, r)' <=> Says(i, r))
  BY <1>2, <1>4 DEF Says, Silent
<1>7. ASSUME Heard(at, service, "none") PROVE Heard(at, service, a)'
  <2>1. \A b \in Replies : ~ Said(at, service, b)
    BY <1>7 DEF Heard, Replies
  <2>2. at' = at
    OBVIOUS
  <2> QED
    BY <1>1, <2>1, <2>2 DEF Heard
<1> QED
  BY <1>2, <1>3, <1>5, <1>6, <1>7

\* A record written from two results says what was said, and fits itself.
LEMMA NotedRight ==
  ASSUME NEW i, NEW mode, NEW sim, NEW run, Heard(i, "iam", sim), Heard(i, "sts", run),
         \/ mode = "simulator" /\ sim \in Truths /\ run = "none"
         \/ mode = "runtime" /\ sim = "none" /\ run \in Truths
         \/ mode = "both" /\ sim \in Truths /\ run \in Truths
  PROVE  LET r == Record(EdgeOf(case.plan[i]), StateOf(mode, sim, run), FALSE, sim, run)
         IN  Says(i, r) /\ Fits(r)
<1> DEFINE state == StateOf(mode, sim, run)
           r == Record(EdgeOf(case.plan[i]), state, FALSE, sim, run)
<1>0. SUFFICES Says(i, r) /\ Fits(r)
  OBVIOUS
<1>1. r.edge = EdgeOf(case.plan[i]) /\ r.state = state /\ r.confounded = FALSE /\ r.simulator = sim /\ r.runtime = run
  BY DEF Record
<1>2. /\ Said(i, "iam", "allowed") <=> sim = "allowed"
      /\ Said(i, "iam", "denied") <=> sim = "denied"
      /\ Said(i, "iam", "error") <=> sim = "error"
      /\ Said(i, "sts", "allowed") <=> run = "allowed"
      /\ Said(i, "sts", "denied") <=> run = "denied"
      /\ Said(i, "sts", "error") <=> run = "error"
  BY DEF Heard, Replies
<1>3. /\ Silent(i, "iam") <=> sim = "none"
      /\ Silent(i, "sts") <=> run = "none"
  BY <1>2 DEF Silent, Truths
<1> HIDE DEF r, state
<1>4. CASE mode = "simulator" /\ sim \in Truths /\ run = "none"
  <2>1. state = IF sim = "allowed" THEN "simulator_only_allowed" ELSE "simulator_only_denied"
    BY <1>4 DEF state, StateOf
  <2> QED
    BY <1>1, <1>2, <1>3, <1>4, <2>1 DEF Says, Fits, Truths
<1>5. CASE mode = "runtime" /\ sim = "none" /\ run \in Truths
  <2>1. state = IF run = "allowed" THEN "probed_correlated_allowed" ELSE "probed_correlated_denied"
    BY <1>5 DEF state, StateOf
  <2> QED
    BY <1>1, <1>2, <1>3, <1>5, <2>1 DEF Says, Fits, Truths
<1>6. CASE mode = "both" /\ sim \in Truths /\ run \in Truths
  <2>1. state = IF sim = run THEN IF run = "allowed" THEN "probed_correlated_allowed" ELSE "probed_correlated_denied"
                             ELSE "probed_correlated_disagreement"
    BY <1>6 DEF state, StateOf
  <2> QED
    BY <1>1, <1>2, <1>3, <1>6, <2>1 DEF Says, Fits, Truths
<1> QED
  BY <1>4, <1>5, <1>6

\* A record is of its type.
LEMMA RecordTyped ==
  ASSUME NEW e \in Nat \ {0}, NEW state \in ProbeState, NEW confounded \in BOOLEAN,
         NEW sim \in {"none", "not_run"} \cup Truths, NEW run \in {"none", "not_probed"} \cup Truths
  PROVE  Record(e, state, confounded, sim, run) \in ProbeRecords
BY DEF Record, ProbeRecords, Truths

-----------------------------------------------------------------------------
(***************************************************************************)
(* The steps.                                                              *)
(***************************************************************************)

\* What the assumptions on the scenarios say of the one at hand.
LEMMA CaseTyped ==
  ASSUME ProbeCases, case \in Cases
  PROVE  /\ case.edges \in Seq(Edge) /\ case.plan \in Seq(Item) /\ case.respect \in BOOLEAN
         /\ Len(case.plan) \in Nat /\ DOMAIN case.plan = 1..Len(case.plan)
BY DEF ProbeCases

LEMMA Initially == ASSUME ProbeConstants, ProbeCases, Init PROVE IInv
<1>1. Len(case.plan) \in Nat
  BY CaseTyped DEF Init
<1>2. Typed
  BY <1>1 DEF Init, Typed, ProbeConstants
<1>3. Ahead
  BY DEF Init, Ahead, Heard, Said, Replies
<1>4. InHand /\ Asked /\ Permitted /\ Picked
  BY DEF Init, InHand, Busy, Asked, Permitted, Picked
<1> QED
  BY <1>2, <1>3, <1>4 DEF Init, IInv

\* A record added for the item in hand, and on to the next.
LEMMA AddKeeps ==
  ASSUME ProbeCases, IInv, NEW r \in ProbeRecords, at <= Len(case.plan),
         Says(at, r), Fits(r), records' = Append(records, r), at' = at + 1, stage' = "take",
         UNCHANGED <<case, tries, answers>>,
         simulated' \in {"none"} \cup Truths, assumed' \in {"none"} \cup Replies
  PROVE  IInv'
<1> USE DEF IInv
<1>1. Len(case.plan) \in Nat /\ at \in Nat \ {0}
  BY CaseTyped DEF Typed
<1>2. records \in Seq(ProbeRecords) /\ Len(records) = at - 1
  BY DEF Typed
<1>3. records' \in Seq(ProbeRecords) /\ Len(records') = at
  BY <1>1, <1>2
<1>4. at' \in 1..Len(case.plan) + 1 /\ Len(records') = at' - 1
  BY <1>1, <1>3 DEF Typed
<1>5. Typed'
  <2>1. case' = case /\ tries' = tries /\ answers' = answers
    OBVIOUS
  <2>2. AnswerRecord' = AnswerRecord
    BY <2>1 DEF AnswerRecord
  <2> QED
    BY <1>3, <1>4, <2>1, <2>2 DEF Typed
<1>6. Ahead'
  <2>1. ASSUME NEW i \in 1..Len(case.plan), NEW s \in {"iam", "sts"}, i > at + 1 \/ i = at + 1
        PROVE  Heard(i, s, "none")
    BY <1>1, <2>1 DEF Ahead
  <2> QED
    BY <1>1, <2>1, Quiet DEF Ahead
<1>7. InHand' /\ Asked' /\ Picked'
  BY DEF InHand, Asked, Picked, Busy
<1>8. Permitted'
  BY Quiet DEF Permitted
<1>9. (\A i \in DOMAIN records : Says(i, records[i]) /\ Fits(records[i]))'
  <2>1. ASSUME NEW i \in DOMAIN records' PROVE Says(i, records'[i]) /\ Fits(records'[i])
    <3>1. CASE i = at
      <4>1. records'[i] = r
        BY <1>1, <1>2, <3>1
      <4> QED
        BY <3>1, <4>1
    <3>2. CASE i # at
      <4>1. i \in DOMAIN records /\ records'[i] = records[i]
        BY <1>1, <1>2, <1>3, <3>2
      <4> QED
        BY <4>1
    <3> QED
      BY <3>1, <3>2
  <2>2. \A i, q : Says(i, q)' <=> Says(i, q)
    BY Quiet
  <2>3. \A q : Fits(q)' <=> Fits(q)
    BY DEF Fits
  <2> QED
    BY <2>1, <2>2, <2>3
<1> QED
  BY <1>5, <1>6, <1>7, <1>8, <1>9

LEMMA SkipKeeps == ASSUME ProbeConstants, ProbeCases, IInv, Skip PROVE IInv'
<1> DEFINE r == Record(EdgeOf(Here), "confounded_skip", TRUE, "not_run", "not_probed")
<1>1. at \in 1..Len(case.plan)
  BY CaseTyped DEF IInv, Typed, Skip
<1>2. Heard(at, "iam", "none") /\ Heard(at, "sts", "none")
  BY <1>1 DEF IInv, Ahead, Skip
<1>3. EdgeOf(Here) \in Nat \ {0}
  BY EdgeKnown DEF Skip, IInv, Typed
<1>4. r \in ProbeRecords
  BY <1>3, RecordTyped DEF ProbeState, LiveProbeState
<1>5. /\ r.edge = EdgeOf(Here) /\ r.state = "confounded_skip" /\ r.confounded = TRUE
      /\ r.simulator = "not_run" /\ r.runtime = "not_probed"
  BY DEF Record
<1> HIDE DEF r
<1>6. Says(at, r)
  BY <1>2, <1>5 DEF Says, Silent, Heard, Replies, Here
<1>7. Fits(r)
  BY <1>5 DEF Fits, Truths
<1>8. simulated \in {"none"} \cup Truths /\ assumed \in {"none"} \cup Replies
  BY DEF IInv, Typed
<1> QED
  BY <1>1, <1>4, <1>6, <1>7, <1>8, AddKeeps DEF Skip, r

LEMMA NoteKeeps == ASSUME ProbeConstants, ProbeCases, IInv, Note PROVE IInv'
<1> DEFINE state == StateOf(Here.mode, simulated, assumed)
           r == Record(EdgeOf(Here), state, FALSE, simulated, assumed)
<1>1. /\ at <= Len(case.plan) /\ EdgeOf(Here) # 0
      /\ Heard(at, "iam", simulated) /\ Heard(at, "sts", assumed)
  BY DEF Note, IInv, InHand, Busy
<1>2. \/ Here.mode = "simulator" /\ simulated \in Truths /\ assumed = "none"
      \/ Here.mode = "runtime" /\ simulated = "none" /\ assumed \in Truths
      \/ Here.mode = "both" /\ simulated \in Truths /\ assumed \in Truths
  BY DEF Note, IInv, Asked
<1>3. Says(at, r) /\ Fits(r)
  BY <1>1, <1>2, NotedRight DEF Here
<1>4. EdgeOf(Here) \in Nat \ {0}
  BY <1>1, EdgeKnown DEF IInv, Typed
<1>5. state \in ProbeState
  BY DEF StateOf, ProbeState, LiveProbeState
<1>6. r \in ProbeRecords
  BY <1>2, <1>4, <1>5, RecordTyped
<1>7. simulated \in {"none"} \cup Truths /\ assumed \in {"none"} \cup Replies
  BY DEF IInv, Typed
<1> HIDE DEF r
<1> QED
  BY <1>1, <1>3, <1>6, <1>7, AddKeeps DEF Note, r

\* A step that neither asks nor writes: only the stage, and what is in hand.
LEMMA StageKeeps ==
  ASSUME ProbeCases, IInv,
         UNCHANGED <<case, tries, at, records, answers>>,
         stage' \in {"take", "simulate", "assume", "record", "failed", "written", "read"},
         simulated' \in {"none"} \cup Truths, assumed' \in {"none"} \cup Replies,
         stage' \in {"take", "written", "read"} => stage \in {"take", "written", "read"},
         InHand', Asked', Picked'
  PROVE  IInv'
<1>1. Typed'
  <2>1. AnswerRecord' = AnswerRecord
    BY DEF AnswerRecord
  <2> QED
    BY <2>1 DEF Typed, IInv
<1>2. Ahead'
  BY Quiet DEF Ahead, IInv
<1>3. Permitted'
  BY Quiet DEF Permitted, IInv
<1>4. (\A i \in DOMAIN records : Says(i, records[i]) /\ Fits(records[i]))'
  <2>1. \A i, q : Says(i, q)' <=> Says(i, q)
    BY Quiet
  <2> QED
    BY <2>1 DEF IInv, Fits
<1> QED
  BY <1>1, <1>2, <1>3, <1>4 DEF IInv

LEMMA BeginKeeps == ASSUME ProbeConstants, ProbeCases, IInv, Begin PROVE IInv'
<1>1. at \in 1..Len(case.plan)
  BY CaseTyped DEF IInv, Typed, Begin
<1>2. Here.mode \in Modes
  <2>1. case.plan \in Seq(Item)
    BY CaseTyped DEF IInv, Typed
  <2>2. case.plan[at] \in Item
    BY <1>1, <2>1
  <2> QED
    BY <2>2 DEF Here, Item
<1>3. Here' = Here /\ at' = at /\ case' = case
  BY DEF Begin, Here
<1>4. EdgeOf(Here) # 0 /\ ~ Skipped(Here) /\ Here.mode # "confounded_skip"
  BY DEF Begin, Skipped
<1>5. Heard(at, "iam", "none") /\ Heard(at, "sts", "none")
  BY <1>1 DEF IInv, Ahead, Begin
<1>6. InHand'
  <2>1. UNCHANGED <<case, tries, answers>> /\ simulated' = "none" /\ assumed' = "none"
    BY DEF Begin
  <2>2. EdgeOf(Here)' # 0 /\ ~ Skipped(Here)'
    BY <1>3, <1>4, <2>1, Quiet
  <2>3. Heard(at, "iam", simulated)' /\ Heard(at, "sts", assumed)'
    BY <1>3, <1>5, <2>1, Quiet
  <2> QED
    BY <1>1, <1>3, <2>2, <2>3 DEF InHand
<1>7. Asked'
  <2>1. \/ Here.mode \in {"simulator", "both"} /\ stage' = "simulate"
        \/ Here.mode = "runtime" /\ stage' = "assume"
    BY <1>2, <1>4 DEF Begin, Modes
  <2>2. simulated' = "none" /\ assumed' = "none" /\ Here'.mode = Here.mode
    BY <1>3 DEF Begin
  <2> HIDE DEF Here
  <2> QED
    BY <2>1, <2>2 DEF Asked
<1>8. Picked'
  BY DEF Picked, Begin
<1>9. /\ stage' \in {"simulate", "assume"} /\ simulated' = "none" /\ assumed' = "none"
      /\ UNCHANGED <<case, tries, at, records, answers>>
  BY DEF Begin
<1> QED
  BY <1>6, <1>7, <1>8, <1>9, StageKeeps

\* An answer about the item in hand: what is kept whatever it is.
LEMMA AnswerKeeps ==
  ASSUME ProbeConstants, ProbeCases, IInv, Busy,
         NEW service \in {"iam", "sts"}, NEW a \in Replies,
         answers' = answers \cup {Answer(service, a)},
         UNCHANGED <<case, tries, at, records, latest>>,
         simulated' \in {"none"} \cup Truths, assumed' \in {"none"} \cup Replies,
         stage' \in {"assume", "record", "failed"},
         InHand', Asked'
  PROVE  IInv'
<1> USE DEF IInv
<1>1. at \in 1..Len(case.plan) /\ Len(case.plan) \in Nat /\ tries \in 1..tries
  BY CaseTyped, ProbeConstants DEF Typed, InHand, ProbeConstants
<1>2. Typed'
  <2>1. Answer(service, a) \in AnswerRecord
    BY <1>1 DEF Answer, AnswerRecord
  <2>2. AnswerRecord' = AnswerRecord
    BY DEF AnswerRecord
  <2>3. answers' \subseteq AnswerRecord'
    BY <2>1, <2>2 DEF Typed
  <2> QED
    BY <2>3 DEF Typed
<1>3. Ahead'
  <2>1. ASSUME NEW i \in 1..Len(case.plan), NEW s \in {"iam", "sts"}, i > at PROVE Heard(i, s, "none")'
    <3>1. i # at
      BY <1>1, <2>1
    <3> QED
      BY <2>1, <3>1, Told DEF Ahead
  <2> QED
    BY <2>1 DEF Ahead
<1>4. Permitted'
  <2>1. \A item : EdgeOf(item)' = EdgeOf(item) /\ (Skipped(item)' <=> Skipped(item))
    BY Told
  <2>2. ~ Skipped(case.plan[at]) /\ EdgeOf(case.plan[at]) # 0
    BY DEF InHand, Here
  <2>3. Answer(service, a).item = at
    BY DEF Answer
  <2>4. \A b \in answers' : ~ Skipped(case.plan[b.item]) /\ EdgeOf(case.plan[b.item]) # 0
    BY <2>2, <2>3 DEF Permitted
  <2> QED
    BY <2>1, <2>4 DEF Permitted
<1>5. Picked'
  BY DEF Picked
<1>6. (\A i \in DOMAIN records : Says(i, records[i]) /\ Fits(records[i]))'
  <2>1. \A i \in DOMAIN records : i # at
    BY <1>1 DEF Typed
  <2>2. \A i, q : i # at => (Says(i, q)' <=> Says(i, q))
    BY Told
  <2> QED
    BY <2>1, <2>2 DEF Fits
<1> QED
  BY <1>2, <1>3, <1>4, <1>5, <1>6

LEMMA SimulateKeeps ==
  ASSUME ProbeConstants, ProbeCases, IInv, NEW a \in Replies, Simulate(a)
  PROVE  IInv'
<1>1. /\ Busy /\ Here.mode \in {"simulator", "both"} /\ assumed = "none"
      /\ Heard(at, "iam", "none") /\ Heard(at, "sts", "none")
      /\ at <= Len(case.plan) /\ EdgeOf(Here) # 0 /\ ~ Skipped(Here)
  BY DEF IInv, InHand, Asked, Busy, Simulate
<1>2. /\ answers' = answers \cup {Answer("iam", a)} /\ assumed' = assumed
      /\ UNCHANGED <<case, tries, at, records, latest>>
      /\ simulated' = IF a = "allowed" THEN "allowed" ELSE "denied"
      /\ \/ stage' = "failed" /\ a = "error"
         \/ stage' = "assume" /\ a # "error" /\ Here.mode = "both"
         \/ stage' = "record" /\ a # "error" /\ Here.mode = "simulator"
  BY <1>1 DEF Simulate
<1>3. Here' = Here
  BY <1>2 DEF Here
<1>4. InHand'
  <2>1. Heard(at, "iam", a)' /\ Heard(at, "sts", "none")'
    BY <1>1, <1>2, Told
  <2>2. EdgeOf(Here)' # 0 /\ ~ Skipped(Here)'
    BY <1>1, <1>2, <1>3, Told
  <2>3. Busy' => simulated' = a
    BY <1>2 DEF Busy, Replies
  <2> QED
    BY <1>1, <1>2, <2>1, <2>2, <2>3 DEF InHand
<1>5. Asked'
  <2> HIDE DEF Here
  <2>1. Here'.mode = Here.mode /\ simulated' \in Truths /\ assumed' = "none"
    BY <1>1, <1>2, <1>3 DEF Truths
  <2> QED
    BY <1>2, <2>1 DEF Asked
<1> QED
  BY <1>1, <1>2, <1>4, <1>5, AnswerKeeps DEF Truths

LEMMA AssumeKeeps ==
  ASSUME ProbeConstants, ProbeCases, IInv, NEW a \in Replies, AssumeNow(a)
  PROVE  IInv'
<1>1. /\ Busy /\ Heard(at, "iam", simulated) /\ Heard(at, "sts", "none")
      /\ at <= Len(case.plan) /\ EdgeOf(Here) # 0 /\ ~ Skipped(Here)
      /\ \/ Here.mode = "runtime" /\ simulated = "none"
         \/ Here.mode = "both" /\ simulated \in Truths
  BY DEF IInv, InHand, Asked, Busy, AssumeNow
<1>2. /\ answers' = answers \cup {Answer("sts", a)} /\ simulated' = simulated /\ assumed' = a
      /\ UNCHANGED <<case, tries, at, records, latest>>
      /\ \/ stage' = "failed"
         \/ stage' = "record" /\ a \in Truths
  BY DEF AssumeNow, Replies, Truths
<1>3. Here' = Here
  BY <1>2 DEF Here
<1>4. InHand'
  <2>1. Heard(at, "sts", a)'
    BY <1>1, <1>2, Told
  <2>2. Heard(at, "iam", simulated)'
    <3>1. \A b : Heard(at, "iam", b)' <=> Heard(at, "iam", b)
      BY <1>2, Told
    <3> QED
      BY <1>1, <1>2, <3>1
  <2>3. EdgeOf(Here)' # 0 /\ ~ Skipped(Here)'
    BY <1>1, <1>2, <1>3, Told
  <2> QED
    BY <1>1, <1>2, <2>1, <2>2, <2>3 DEF InHand
<1>5. Asked'
  <2> HIDE DEF Here
  <2>1. Here'.mode = Here.mode
    BY <1>3
  <2> QED
    BY <1>1, <1>2, <2>1 DEF Asked
<1>6. simulated' \in {"none"} \cup Truths
  BY <1>2 DEF IInv, Typed
<1> QED
  BY <1>1, <1>2, <1>4, <1>5, <1>6, AnswerKeeps

\* A new try starts from nothing: no answer bears its number yet.
LEMMA RestartKeeps == ASSUME ProbeConstants, ProbeCases, IInv, Restart PROVE IInv'
<1>1. /\ tries' = tries + 1 /\ tries < MaxTries /\ at' = 1 /\ stage' = "take" /\ records' = <<>>
      /\ UNCHANGED <<case, simulated, assumed, answers, latest>>
  BY DEF Restart, FreshRecords
<1>2. Len(case.plan) \in Nat /\ tries \in Nat
  BY CaseTyped DEF IInv, Typed
<1>3. AnswerRecord \subseteq AnswerRecord' /\ \A b \in AnswerRecord : b.try <= tries
  BY <1>1, <1>2 DEF AnswerRecord
<1>4. \A b \in answers : b \in AnswerRecord' /\ b.try # tries'
  BY <1>1, <1>2, <1>3 DEF IInv, Typed
<1>5. Typed'
  <2>1. tries' \in 1..MaxTries
    BY <1>1, <1>2 DEF IInv, Typed, ProbeConstants
  <2>2. at' \in 1..Len(case'.plan) + 1
    BY <1>1, <1>2
  <2>3. records' \in Seq(ProbeRecords) /\ Len(records') = at' - 1
    BY <1>1
  <2> QED
    BY <1>1, <1>4, <2>1, <2>2, <2>3 DEF IInv, Typed
<1>6. Ahead'
  <2>1. \A i, s, b : ~ Said(i, s, b)'
    BY <1>1, <1>4 DEF Said
  <2> QED
    BY <2>1 DEF Ahead, Heard, Replies
<1>7. InHand' /\ Asked' /\ Picked'
  BY <1>1 DEF InHand, Busy, Asked, Picked
<1>8. Permitted'
  <2>1. \A item : EdgeOf(item)' = EdgeOf(item)
    BY <1>1 DEF EdgeOf, Matching
  <2>2. \A item : Skipped(item)' <=> Skipped(item)
    BY <1>1, <2>1 DEF Skipped
  <2> QED
    BY <1>1, <2>1, <2>2 DEF Permitted, IInv
<1> QED
  BY <1>1, <1>5, <1>6, <1>7, <1>8 DEF IInv

LEMMA ReadKeeps == ASSUME ProbeConstants, ProbeCases, IInv, Read PROVE IInv'
<1>1. \A e \in DOMAIN latest' : latest'[e] \in MayComeLast(e)
  BY DEF Read
<1>2. \A e \in DOMAIN latest' : latest'[e] \in DOMAIN records /\ records[latest'[e]].edge = e
  BY <1>1 DEF MayComeLast, RecordsOf
<1>3. Picked'
  BY <1>2 DEF Picked, Read
<1>4. InHand' /\ Asked'
  BY DEF Read, InHand, Busy, Asked
<1>5. simulated' \in {"none"} \cup Truths /\ assumed' \in {"none"} \cup Replies
  BY DEF Read, IInv, Typed
<1> QED
  BY <1>3, <1>4, <1>5, StageKeeps DEF Read

\* Every step of the runner.
LEMMA StepKeeps == ASSUME ProbeConstants, ProbeCases, IInv, [Next]_vars PROVE IInv'
<1>1. simulated \in {"none"} \cup Truths /\ assumed \in {"none"} \cup Replies
  BY DEF IInv, Typed
<1>2. CASE Unmatched
  <2>1. InHand' /\ Asked' /\ Picked'
    BY <1>2 DEF Unmatched, InHand, Busy, Asked, Picked
  <2> QED
    BY <1>1, <1>2, <2>1, StageKeeps DEF Unmatched
<1>3. CASE Write
  <2>1. InHand' /\ Asked' /\ Picked'
    BY <1>3 DEF Write, InHand, Busy, Asked, Picked
  <2> QED
    BY <1>1, <1>3, <2>1, StageKeeps DEF Write
<1>4. CASE UNCHANGED vars
  <2>1. UNCHANGED <<case, tries, at, stage, simulated, assumed, records, answers, latest>>
    BY <1>4 DEF vars
  <2>2. InHand'
    <3>1. Here' = Here
      BY <2>1 DEF Here
    <3> QED
      BY <2>1, <3>1, Quiet DEF InHand, Busy, IInv
  <2>3. Asked' /\ Picked'
    BY <2>1 DEF Asked, Picked, Here, IInv
  <2>4. stage' \in {"take", "simulate", "assume", "record", "failed", "written", "read"}
    BY <2>1 DEF IInv, Typed
  <2> QED
    BY <1>1, <2>1, <2>2, <2>3, <2>4, StageKeeps
<1>5. \A a \in {"allowed", "denied", "error"} : a \in Replies
  BY DEF Replies
<1> QED
  BY <1>2, <1>3, <1>4, <1>5, SkipKeeps, BeginKeeps, NoteKeeps, RestartKeeps, ReadKeeps, SimulateKeeps, AssumeKeeps
     DEF Next

-----------------------------------------------------------------------------
(***************************************************************************)
(* The theorems.                                                           *)
(***************************************************************************)

\* The runner's state, for every scenario and plan.
THEOREM ProbesSound == Spec => []IInv
<1>1. Init => IInv
  BY Initially, ProbeConstants, ProbeCases
<1>2. IInv /\ [Next]_vars => IInv'
  BY StepKeeps, ProbeConstants, ProbeCases
<1> QED
  BY <1>1, <1>2, PTL DEF Spec

\* The records are well formed and say what AWS said in the try that wrote
\* them (truth/probe_runner.py), after any number of failures and new tries.
THEOREM RecordsAreTrue == Spec => []RecordsTrue
<1>1. ASSUME IInv PROVE RecordsTrue
  <2>1. TypeOK
    BY <1>1 DEF IInv, Typed, TypeOK, AnswerRecord, Truths, Replies
  <2>2. RecordsSayTheAnswers
    BY <1>1 DEF IInv, RecordsSayTheAnswers, Says
  <2> QED
    BY <2>1, <2>2 DEF RecordsTrue
<1> QED
  BY <1>1, ProbesSound, PTL

\* No call is made for an edge under an inherited SCP when confounders are to
\* be respected, nor for an item to be skipped (truth/confounded.py).
THEOREM CallsAreMeant == Spec => []NoCallsWhenConfounded
<1>1. ASSUME IInv PROVE NoCallsWhenConfounded
  <2>1. case.edges \in Seq(Edge)
    BY <1>1, CaseTyped, ProbeCases DEF IInv, Typed
  <2>2. ASSUME NEW a \in answers
        PROVE  LET item == case.plan[a.item]
               IN  item.mode # "confounded_skip" /\ ~ (case.respect /\ Inherited(case.edges[EdgeOf(item)]))
    <3> DEFINE item == case.plan[a.item]
    <3>1. ~ Skipped(item) /\ EdgeOf(item) # 0
      BY <1>1 DEF IInv, Permitted
    <3>2. EdgeOf(item) \in DOMAIN case.edges
      BY <1>1, <3>1, EdgeKnown, ProbeConstants, ProbeCases DEF IInv, Typed
    <3>3. case.edges[EdgeOf(item)] \in Edge
      BY <2>1, <3>2
    <3> QED
      BY <3>1, <3>3, InheritedConfounds DEF Skipped
  <2> QED
    BY <2>2 DEF NoCallsWhenConfounded
<1> QED
  BY <1>1, ProbesSound, PTL

-----------------------------------------------------------------------------
(***************************************************************************)
(* The readers.                                                            *)
(***************************************************************************)

\* What an assessment tells of the records it was made from.
LEMMA Assessed ==
  ASSUME NEW seen
  PROVE  LET a == AssessProbeOverlay(seen)
             is(state) == \E r \in seen : r.state = state
         IN  /\ is("probed_correlated_denied") <=> a.override = "BLOCKED"
             /\ is("probed_correlated_denied") => a.blocker
             /\ is("probed_correlated_disagreement") => a.override \in {"BLOCKED", "INCONCLUSIVE"}
             /\ a.check = "PASS" => /\ ~ is("confounded_skip") /\ ~ is("probed_correlated_disagreement")
                                    /\ ~ \E r \in seen : r.state = "probed_correlated_allowed" /\ r.confounded
             /\ (\A r \in seen : r.state \notin LiveProbeState) => a.check = "none"
<1> DEFINE live == {r \in seen : r.state \in LiveProbeState}
           among(state) == \E r \in live : r.state = state
           is(state) == \E r \in seen : r.state = state
           tainted == \E r \in live : r.state = "probed_correlated_allowed" /\ r.confounded
           a == AssessProbeOverlay(seen)
<1>1. /\ among("probed_correlated_denied") <=> is("probed_correlated_denied")
      /\ among("confounded_skip") <=> is("confounded_skip")
      /\ among("probed_correlated_disagreement") <=> is("probed_correlated_disagreement")
      /\ tainted <=> \E r \in seen : r.state = "probed_correlated_allowed" /\ r.confounded
  BY DEF LiveProbeState
<1>2. (\A r \in seen : r.state \notin LiveProbeState) <=> live = {}
  OBVIOUS
<1>3. CASE live = {}
  <2>1. a.check = "none" /\ a.blocker = FALSE /\ a.override = "none"
    BY <1>3 DEF AssessProbeOverlay, Assessment
  <2>2. ~ among("probed_correlated_denied") /\ ~ among("probed_correlated_disagreement")
    BY <1>3
  <2> QED
    BY <1>1, <2>1, <2>2, Zenon
<1>4. CASE live # {} /\ among("probed_correlated_denied")
  <2>1. a.check = "FAIL" /\ a.blocker = TRUE /\ a.override = "BLOCKED"
    BY <1>4 DEF AssessProbeOverlay, Assessment
  <2> QED
    BY <1>1, <1>2, <1>4, <2>1, Zenon
<1>5. CASE /\ live # {} /\ ~ among("probed_correlated_denied")
           /\ among("confounded_skip") \/ among("probed_correlated_disagreement") \/ tainted
  <2>1. a.check = "UNKNOWN" /\ a.override = "INCONCLUSIVE"
    BY <1>5 DEF AssessProbeOverlay, Assessment
  <2> QED
    BY <1>1, <1>2, <1>5, <2>1, Zenon
<1>6. CASE /\ live # {} /\ ~ among("probed_correlated_denied")
           /\ ~ (among("confounded_skip") \/ among("probed_correlated_disagreement") \/ tainted)
  <2>1. a.check = "PASS" /\ a.override = "none"
    BY <1>6 DEF AssessProbeOverlay, Assessment
  <2> QED
    BY <1>1, <1>2, <1>6, <2>1, Zenon
<1> QED
  BY <1>3, <1>4, <1>5, <1>6

\* The record that counts for an edge is a record, and fits itself.
LEMMA CountingFits ==
  ASSUME IInv, stage = "read", NEW e, NEW r \in Counting(e)
  PROVE  r \in ProbeRecords /\ Fits(r)
<1>1. e \in DOMAIN latest /\ r = records[latest[e]]
  BY DEF Counting
<1>2. latest[e] \in DOMAIN records
  BY <1>1 DEF IInv, Picked
<1>3. records \in Seq(ProbeRecords)
  BY DEF IInv, Typed
<1> QED
  BY <1>1, <1>2, <1>3 DEF IInv

LEMMA SeenParts == \A r : Seen(r).state = r.state /\ Seen(r).confounded = r.confounded
BY DEF Seen

\* edge-truth and the reasoners agree on an edge and on a hop, whichever
\* record counts (truth/edge_truth.py, reasoner/probe_overlay.py).
THEOREM ReadersDoAgree == Spec => []ReadersAgree
<1>1. ASSUME IInv, stage = "read", NEW e \in DOMAIN case.edges
      PROVE  /\ EdgeTruth(e) = "validated_allow" => TrustOverlay(e).override # "BLOCKED"
             /\ EdgeTruth(e) = "validated_deny" => TrustOverlay(e).override \in {"BLOCKED", "INCONCLUSIVE"}
             /\ EdgeTruth(e) \in {"simulator_advisory", "hypothesis_only"} => TrustOverlay(e).check = "none"
  <2> DEFINE seen == {Seen(r) : r \in Counting(e)}
             is(state) == \E r \in seen : r.state = state
             ran(a) == \E r \in Counting(e) : r.runtime = a
             confounded == Confounders(case.edges[e]) # {} \/ \E r \in Counting(e) : r.confounded
  <2>1. \A r \in Counting(e) : r \in ProbeRecords /\ Fits(r)
    BY <1>1, CountingFits
  <2>2. \A r, q \in Counting(e) : r = q
    BY DEF Counting
  <2>3. \A state : is(state) <=> \E r \in Counting(e) : r.state = state
    BY SeenParts
  <2>4. /\ EdgeTruth(e) = "validated_allow" => ~ confounded /\ ran("allowed")
        /\ EdgeTruth(e) = "validated_deny" => ~ confounded /\ ran("denied")
        /\ EdgeTruth(e) \in {"simulator_advisory", "hypothesis_only"} =>
             ~ confounded /\ ~ ran("allowed") /\ ~ ran("denied")
    BY DEF EdgeTruth
  <2>5. ran("allowed") => ~ is("probed_correlated_denied")
    BY <2>1, <2>2, <2>3 DEF Fits
  <2>6. ran("denied") => is("probed_correlated_denied") \/ is("probed_correlated_disagreement")
    BY <2>1, <2>3 DEF Fits
  <2>7. ~ confounded /\ ~ ran("allowed") /\ ~ ran("denied") => \A r \in seen : r.state \notin LiveProbeState
    BY <2>1, SeenParts DEF Fits, Truths, LiveProbeState
  <2> HIDE DEF seen, ran, confounded
  <2>8. TrustOverlay(e) = AssessProbeOverlay(seen)
    BY DEF TrustOverlay, seen
  <2> QED
    BY <2>4, <2>5, <2>6, <2>7, <2>8, Assessed
<1>2. ASSUME IInv, stage = "read", NEW h \in Hops
      PROVE  LET o == HopOverlay(h[1], h[2])
             IN  /\ Denied(h[1]) \/ Denied(h[2]) => (o.override = "BLOCKED" /\ o.blocker)
                 /\ o.check = "PASS" => ~ Doubt(h[1]) /\ ~ Doubt(h[2])
  <2> DEFINE both == Counting(h[1]) \cup Counting(h[2])
             seen == {Seen(r) : r \in both}
             is(state) == \E r \in seen : r.state = state
  <2>1. \A r \in both : r \in ProbeRecords /\ Fits(r)
    BY <1>2, CountingFits
  <2>2. \A state : is(state) <=> \E r \in both : r.state = state
    BY SeenParts
  <2>3. Denied(h[1]) \/ Denied(h[2]) => is("probed_correlated_denied")
    BY <2>2 DEF Denied
  <2>4. Doubt(h[1]) \/ Doubt(h[2]) => is("confounded_skip") \/ is("probed_correlated_disagreement")
    BY <2>1, <2>2 DEF Doubt, Fits
  <2>5. HopOverlay(h[1], h[2]) = AssessProbeOverlay(seen)
    BY DEF HopOverlay
  <2> HIDE DEF seen
  <2> QED
    BY <2>3, <2>4, <2>5, Assessed
<1>3. ASSUME IInv PROVE ReadersAgree
  BY <1>1, <1>2, <1>3 DEF ReadersAgree, EdgeReadersAgree, DenialStopsHops
<1> QED
  BY <1>3, ProbesSound, PTL
=============================================================================
