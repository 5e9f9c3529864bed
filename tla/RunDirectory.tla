----------------------------- MODULE RunDirectory -----------------------------
(***************************************************************************)
(* The commands that share files: collect writes a scenario, its bindings  *)
(* and findings; probe-overlay adds live evidence for a scenario; replay   *)
(* and the demo pack reason again over frozen files; diff compares two     *)
(* findings files. Commands run one at a time over a directory that keeps  *)
(* what earlier ones left, and may be killed between or within two writes  *)
(* (cli.py, reasoner/replay.py, demo_pack.py, findings_diff.py and the     *)
(* emitters under output/).                                                *)
(***************************************************************************)
EXTENDS Verdicts, Sequences

CONSTANTS
  Edges,
  RelationOf,       \* the pattern, source and target a finding on the edge has
  Worlds,           \* what collecting the accounts may yield
  Options,          \* the flags of a collection
  Selections,       \* sets of patterns to run; NoPattern names an unknown one
  NoPattern,
  Missing, Torn,    \* a file that is not there; one whose write was cut off
  MaxRuns,          \* collections (the code has no bound)
  MaxCommands       \* commands of a session (the code has no bound)

Patterns == {"assume_role_chain", "passrole_ecs", "passrole_lambda"}

\* The controls are the same in every world; what they are bound to differs.
Tie == [edge : Edges, says : Binding]

World == [edges : SUBSET Edges, bound : SUBSET Tie, exhausted : BOOLEAN]

ASSUME DirectoryConstants ==
  /\ RelationOf \in [Edges -> [pattern : Patterns, ends : Nat]]
  /\ \A w \in Worlds : w \in World /\ \A t \in w.bound : t.edge \in w.edges
  /\ \A s \in Selections : s \subseteq Patterns \/ s = {NoPattern}
  /\ Options \subseteq [none : BOOLEAN, overlay : BOOLEAN, pedantic : BOOLEAN, selection : Selections]
  /\ {MaxRuns, MaxCommands} \subseteq Nat

VARIABLES
  runs,             \* the collections so far, oldest first
  files,
  job,              \* the writes the running command has ahead of it
  exit,             \* the last command and its exit code, 2 while it has none
  commands,         \* how many have been started
  settled           \* the collections whose bindings were written in full

vars == <<runs, files, job, exit, commands, settled>>

Files ==
  {"scenario", "bindings", "findings", "overlay", "replayed", "diff",
   "in_scenario", "in_bindings", "in_overlay", "baseline", "overlaid", "pack_diff", "manifest"}

-----------------------------------------------------------------------------
(***************************************************************************)
(* The canonical hash: it covers the graph and which controls are bound to *)
(* which edges, not the metadata and not what a binding says.              *)
(***************************************************************************)
Graph(edges, ties) == [edges |-> edges, ties |-> {t.edge : t \in ties}]

\* emit_scenario. The exhausted budget is not among the metadata.
EmitScenario(w, run) ==
  [run |-> run, stated |-> Graph(w.edges, w.bound), edges |-> w.edges, ties |-> {t.edge : t \in w.bound}]

Recomputed(s) == [edges |-> s.edges, ties |-> s.ties]

\* assert_scenario_canonical_hash_stable.
HashStable(s) == Recomputed(s) = s.stated

-----------------------------------------------------------------------------
(***************************************************************************)
(* Reasoning over a graph, its bindings and probes. The pass-role ones     *)
(* have a precondition on the edge budget; others run on a cut graph.      *)
(* What each reasoner makes of its edges is the matter of other modules:   *)
(* here an edge yields one finding, as in every reasoner whose findings    *)
(* are per statement, from what is bound to it and what was probed.        *)
(***************************************************************************)
Facts(edges, bound, exhausted, probes) ==
  [edges |-> edges, bound |-> bound, exhausted |-> exhausted, probes |-> probes]

Runnable(selection, facts) == IF facts.exhausted THEN selection \cap {"assume_role_chain"} ELSE selection

ProbesOf(facts, e) == {p.seen : p \in {q \in facts.probes : q.edge = e}}

DeclaredVerdict(facts, e) ==
  LET state == BlockerState({t.says : t \in {b \in facts.bound : b.edge = e}})
  IN  CASE state = "FAIL" -> "BLOCKED" [] state = "UNKNOWN" -> "INCONCLUSIVE" [] OTHER -> "VALIDATED"

FindingOn(facts, e) ==
  LET overlay == AssessProbeOverlay(ProbesOf(facts, e))
  IN  [edge |-> e, relation |-> RelationOf[e], probed |-> overlay.check # "none",
       verdict |-> IF overlay.override # "none" THEN overlay.override ELSE DeclaredVerdict(facts, e)]

Reasoned(facts, selection) ==
  {FindingOn(facts, e) : e \in {f \in facts.edges : RelationOf[f].pattern \in Runnable(selection, facts)}}

\* _demote_validated_findings: --assume-no-session-policies.
Demoted(findings) ==
  {IF f.relation.pattern = "passrole_lambda" /\ f.verdict = "VALIDATED"
     THEN [f EXCEPT !.verdict = "INCONCLUSIVE"] ELSE f : f \in findings}

\* emit_findings. "run", "home", "selection" and "pedantic" say where the
\* document comes from: the collection, the scenario probed, the flags.
Document(run, hash, home, selection, pedantic, findings) ==
  [run |-> run, hash |-> hash, home |-> home, selection |-> selection, pedantic |-> pedantic, findings |-> findings]

FindingOf == [edge : Edges, relation : {RelationOf[e] : e \in Edges}, probed : BOOLEAN, verdict : Verdict]

(***************************************************************************)
(* A file that is not there or cut short is told from every content.       *)
(***************************************************************************)
Hash == [edges : SUBSET Edges, ties : SUBSET Edges]

Scenario == [run : Nat, stated : Hash, edges : SUBSET Edges, ties : SUBSET Edges]

FindingsFile ==
  [run : Nat, hash : Hash, home : Hash \cup {Missing}, selection : Selections, pedantic : BOOLEAN,
   findings : SUBSET FindingOf]

ASSUME Markers ==
  \A marker \in {Missing, Torn} :
    marker \notin Hash /\ marker \notin Scenario /\ marker \notin FindingsFile /\ \A w \in Worlds : marker # w.bound

-----------------------------------------------------------------------------
Whole(content) == content \notin {Missing, Torn}

\* Mutated form of Joins: the edge ids are thought to be enough.
JoinsEdges(overlay, hash, edges) == \A p \in overlay.probes : p.edge \in edges

\* join_probe_overlay_to_scenario, and the same tests in collect.
Joins(overlay, hash, edges) == overlay.hash = hash /\ \A p \in overlay.probes : p.edge \in edges

-----------------------------------------------------------------------------
(***************************************************************************)
(* A command is the list of its writes, worked out when it starts, as it   *)
(* runs alone. A write of nothing stands for the error that stops it with  *)
(* exit code 1; what was written before stays.                             *)
(***************************************************************************)
Idle == [command |-> "none", writes |-> <<>>, code |-> 0]

Put(file, content) == <<[file |-> file, content |-> content]>>

Fail == Put("findings", Missing)

Start(command, writes, code) ==
  /\ job = Idle /\ commands < MaxCommands
  /\ commands' = commands + 1
  /\ job' = [command |-> command, writes |-> writes, code |-> code]
  /\ exit' = [command |-> command, code |-> 2]
  /\ UNCHANGED <<files, settled>>

(***************************************************************************)
(* _cmd_collect with _write_outputs, _run_reasoners_and_emit,              *)
(* _write_findings. A mismatched overlay leaves no findings; the exit code *)
(* is 1 only if reasoners were named on the command line; to select all    *)
(* of them is to leave the flag out.                                       *)
(***************************************************************************)
WriteOutputs(w, run) ==
  Put("scenario", EmitScenario(w, run)) \o (IF w.bound = {} THEN <<>> ELSE Put("bindings", w.bound))

CollectFindings(w, run, o) ==
  LET overlay  == IF o.overlay THEN files["overlay"] ELSE Missing
      hash     == Graph(w.edges, w.bound)
      probes   == IF Whole(overlay) THEN overlay.probes ELSE {}
      findings == Reasoned(Facts(w.edges, w.bound, w.exhausted, probes), o.selection)
      document == Document(run, hash, IF o.overlay THEN overlay.hash ELSE Missing, o.selection, o.pedantic,
                           IF o.pedantic THEN Demoted(findings) ELSE findings)
  IN  CASE o.none                                                             -> <<>>
        [] ~ o.none /\ NoPattern \in o.selection                              -> Fail
        [] ~ o.none /\ NoPattern \notin o.selection /\ o.overlay /\ ~ Whole(overlay) -> Fail
        [] ~ o.none /\ NoPattern \notin o.selection /\ o.overlay /\ Whole(overlay)
             /\ ~ Joins(overlay, hash, w.edges) -> IF o.selection = Patterns THEN <<>> ELSE Fail
        [] OTHER                                                              -> Put("findings", document)

\* Mutated form of CollectWrites: the scenario is not there before its bindings.
BindingsFirst(w, run, o) ==
  (IF w.bound = {} THEN <<>> ELSE Put("bindings", w.bound)) \o Put("scenario", EmitScenario(w, run))
    \o CollectFindings(w, run, o)

CollectWrites(w, run, o) == WriteOutputs(w, run) \o CollectFindings(w, run, o)

Collect(w, o) ==
  /\ Len(runs) < MaxRuns
  /\ Start("collect", CollectWrites(w, Len(runs) + 1, o), 0)
  /\ runs' = Append(runs, w)

(***************************************************************************)
(* _cmd_probe_overlay, for one probe: LiveProbes has the rest. The hash is *)
(* the one the scenario states.                                            *)
(***************************************************************************)
ProbeOverlay(e, seen) ==
  /\ Whole(files["scenario"]) /\ e \in files["scenario"].edges
  /\ Start("probe-overlay",
           Put("overlay", [hash |-> files["scenario"].stated, probes |-> {[edge |-> e, seen |-> seen]}]), 0)
  /\ UNCHANGED runs

(***************************************************************************)
(* run_reasoners_on_frozen_artifacts. The budget is looked up in the       *)
(* scenario's metadata, where it never is. An unknown reasoner ends this   *)
(* command and the demo pack before they touch a file.                     *)
(***************************************************************************)
ReplayedFrom(scenario, bindings, overlay, useOverlay, selection) ==
  LET sound == /\ Whole(scenario) /\ HashStable(scenario)
               /\ Whole(bindings)
               /\ useOverlay => Whole(overlay) /\ Joins(overlay, Recomputed(scenario), scenario.edges)
  IN  IF ~ sound THEN Missing
      ELSE Document(scenario.run, Recomputed(scenario), IF useOverlay THEN overlay.hash ELSE Missing, selection, FALSE,
                    Reasoned(Facts(scenario.edges, bindings, FALSE, IF useOverlay THEN overlay.probes ELSE {}), selection))

Replay(useOverlay, selection) ==
  /\ NoPattern \notin selection
  /\ Start("replay-findings",
           Put("replayed", ReplayedFrom(files["scenario"], files["bindings"], files["overlay"], useOverlay, selection)), 0)
  /\ UNCHANGED runs

(***************************************************************************)
(* diff_findings: documents with two findings on one relation are refused. *)
(***************************************************************************)
Duplicates(d) == \E f, g \in d.findings : f # g /\ f.relation = g.relation

RelationsOf(d) == {f.relation : f \in d.findings}

On(d, r) == CHOOSE f \in d.findings : f.relation = r

Diff(before, after) ==
  IF ~ Whole(before) \/ ~ Whole(after) THEN Missing
  ELSE IF Duplicates(before) \/ Duplicates(after) THEN Missing
  ELSE LET common == RelationsOf(before) \cap RelationsOf(after)
       IN  [added     |-> RelationsOf(after) \ common,
            removed   |-> RelationsOf(before) \ common,
            verdict   |-> {r \in common : On(before, r).verdict # On(after, r).verdict},
            evidence  |-> {r \in common : On(before, r).edge # On(after, r).edge},
            probed    |-> {r \in common : ~ On(before, r).probed /\ On(after, r).probed}]

DiffFindings ==
  /\ Start("diff-findings", Put("diff", Diff(files["findings"], files["replayed"])), 0)
  /\ UNCHANGED runs

(***************************************************************************)
(* build_demo_pack: inputs are copied first, and read from the copies.     *)
(***************************************************************************)
\* Mutated form of Baseline: the findings that were collected will do.
CollectedBaseline(selection) == files["findings"]

Baseline(selection) == ReplayedFrom(files["scenario"], files["bindings"], Missing, FALSE, selection)

\* Mutated form of CopyOf: an input copied before is not copied again.
KeptCopyOf(file, copy) == IF files[copy] = Missing THEN files[file] ELSE files[copy]

CopyOf(file, copy) == files[file]

PackWrites(useOverlay, selection) ==
  LET baseline == Baseline(selection)
      overlaid == ReplayedFrom(files["scenario"], files["bindings"], files["overlay"], TRUE, selection)
  IN  Put("in_scenario", CopyOf("scenario", "in_scenario")) \o Put("in_bindings", CopyOf("bindings", "in_bindings"))
        \o (IF useOverlay THEN Put("in_overlay", CopyOf("overlay", "in_overlay")) ELSE <<>>)
        \o Put("baseline", baseline)
        \o (IF useOverlay THEN Put("overlaid", overlaid) \o Put("pack_diff", Diff(baseline, overlaid)) ELSE <<>>)
        \o (IF Whole(baseline) THEN Put("manifest", [hash |-> baseline.hash, overlay |-> useOverlay]) ELSE <<>>)

DemoPack(useOverlay, selection) ==
  /\ NoPattern \notin selection
  /\ Start("demo-pack", PackWrites(useOverlay, selection), 0)
  /\ UNCHANGED runs

-----------------------------------------------------------------------------
(***************************************************************************)
(* Path.write_bytes truncates the file and then fills it.                  *)
(***************************************************************************)
Truncate ==
  /\ job.writes # <<>> /\ Head(job.writes).content # Missing
  /\ files[Head(job.writes).file] # Torn \/ Head(job.writes).content = Torn
  /\ files' = [files EXCEPT ![Head(job.writes).file] = Torn]
  /\ job' = IF Head(job.writes).content = Torn THEN [job EXCEPT !.writes = Tail(@)] ELSE job
  /\ UNCHANGED <<runs, exit, commands, settled>>

Fill ==
  /\ job.writes # <<>> /\ Head(job.writes).content \notin {Missing, Torn}
  /\ files[Head(job.writes).file] = Torn
  /\ files' = [files EXCEPT ![Head(job.writes).file] = Head(job.writes).content]
  /\ job' = [job EXCEPT !.writes = Tail(@)]
  /\ settled' = IF Head(job.writes).file = "bindings" THEN settled \cup {Len(runs)} ELSE settled
  /\ UNCHANGED <<runs, exit, commands>>

Stop ==
  /\ job.writes # <<>> /\ Head(job.writes).content = Missing
  /\ job' = Idle /\ exit' = [command |-> job.command, code |-> 1]
  /\ UNCHANGED <<runs, files, commands, settled>>

Done ==
  /\ job # Idle /\ job.writes = <<>>
  /\ job' = Idle /\ exit' = [command |-> job.command, code |-> job.code]
  /\ UNCHANGED <<runs, files, commands, settled>>

Crash ==
  /\ job # Idle
  /\ job' = Idle
  /\ UNCHANGED <<runs, files, exit, commands, settled>>

(***************************************************************************)
(* Somebody edits the frozen scenario and leaves its metadata as it was.   *)
(***************************************************************************)
Edit(e) ==
  /\ job = Idle /\ Whole(files["scenario"]) /\ HashStable(files["scenario"])
  /\ e \in files["scenario"].edges
  /\ files' = [files EXCEPT !["scenario"].edges = @ \ {e}]
  /\ UNCHANGED <<runs, job, exit, commands, settled>>

Init ==
  /\ runs = <<>>
  /\ files = [f \in Files |-> Missing]
  /\ job = Idle
  /\ exit = [command |-> "none", code |-> 0]
  /\ commands = 0
  /\ settled = {}

Seen == [state : {"probed_correlated_allowed", "probed_correlated_denied"}, confounded : {FALSE}]

Next ==
  \/ \E w \in Worlds, o \in Options : Collect(w, o)
  \/ \E e \in Edges, seen \in Seen : ProbeOverlay(e, seen)
  \/ \E useOverlay \in BOOLEAN, s \in Selections : Replay(useOverlay, s) \/ DemoPack(useOverlay, s)
  \/ DiffFindings \/ Truncate \/ Fill \/ Stop \/ Done \/ Crash
  \/ \E e \in Edges : Edit(e)

Spec == Init /\ [][Next]_vars

-----------------------------------------------------------------------------
(***************************************************************************)
(* Types of what lies in the directory, and of the command that runs.      *)
(***************************************************************************)
Documents == {files[f] : f \in {g \in {"findings", "replayed", "baseline", "overlaid"} : Whole(files[g])}}

TypeOK ==
  /\ Len(runs) <= MaxRuns /\ \A i \in DOMAIN runs : runs[i] \in Worlds
  /\ DOMAIN files = Files
  /\ \A d \in Documents : d.run \in DOMAIN runs /\ d.findings \subseteq FindingOf
  /\ Whole(files["bindings"]) => files["bindings"] # {} /\ \A t \in files["bindings"] : t \in Tie
  /\ \A i \in DOMAIN job.writes : job.writes[i].file \in Files
  /\ exit.code \in 0..2

(***************************************************************************)
(* Live evidence stays with the scenario it was taken for: a finding in    *)
(* any file rests on a probe only if the probe named the graph the file    *)
(* names, that graph was collected, and the edge is one of it; over any    *)
(* sequence of recollections, replays and edits.                           *)
(***************************************************************************)
GraphOf(i) == Graph(runs[i].edges, runs[i].bound)

ProbesStayHome ==
  \A d \in Documents : \A f \in d.findings :
    f.probed => /\ d.home = d.hash
                /\ \E i \in DOMAIN runs : GraphOf(i) = d.home /\ f.edge \in runs[i].edges

(***************************************************************************)
(* What replay and the demo pack reason about is what was collected: a     *)
(* findings file names the graph of its collection, and has a finding for  *)
(* each chain edge of it if chains were asked for; however the frozen      *)
(* scenario was edited or cut short in between.                            *)
(***************************************************************************)
ReplayedWasCollected ==
  \A d \in Documents :
    /\ d.hash = GraphOf(d.run)
    /\ "assume_role_chain" \in d.selection =>
         \A e \in runs[d.run].edges :
           RelationOf[e].pattern = "assume_role_chain" => \E f \in d.findings : f.edge = e

(***************************************************************************)
(* What was not probed has the verdict that its own collection's bindings  *)
(* give it, or the one the pedantic flag lowers that to. This is said of   *)
(* collections that got as far as writing their bindings.                  *)
(***************************************************************************)
Own(i) == Facts(runs[i].edges, runs[i].bound, FALSE, {})

VerdictsDeclared ==
  \A d \in Documents : d.run \in settled =>
    \A f \in d.findings :
      LET declared == DeclaredVerdict(Own(d.run), f.edge)
      IN  f.probed \/ f.verdict = declared
            \/ (d.pedantic /\ declared = "VALIDATED" /\ f.verdict = "INCONCLUSIVE")

(***************************************************************************)
(* Every findings file in the directory, whichever command wrote it, is    *)
(* well formed and true of the collection and the probes it names: of its  *)
(* graph always, of its bindings if they were written in full.             *)
(***************************************************************************)
DocumentsTrue == TypeOK /\ ProbesStayHome /\ ReplayedWasCollected /\ VerdictsDeclared

(***************************************************************************)
(* A findings file without probes is what the reasoners make of the graph  *)
(* and the bindings of the collection it names, replayed or not, for a     *)
(* collection within the edge budget that got as far as writing its        *)
(* bindings: what other collections left, or commands killed before or     *)
(* after, does not mix into it.                                            *)
(***************************************************************************)
Unprobed(d) == d.home = Missing /\ ~ d.pedantic

ReplayRepeats ==
  \A d \in Documents :
    d.run \in settled /\ Unprobed(d) /\ ~ runs[d.run].exhausted => d.findings = Reasoned(Own(d.run), d.selection)

(***************************************************************************)
(* What the demo pack's diff shows is what the probes changed: no finding  *)
(* comes or goes, and none changes that has no new probe evidence.         *)
(***************************************************************************)
PackDiffIsTheProbes ==
  LET d == files["pack_diff"]
  IN  Whole(d) => d.added \cup d.removed \cup d.evidence = {} /\ d.verdict \subseteq d.probed

(***************************************************************************)
(* A demo pack reproduces itself: after a command that succeeded, its      *)
(* copies replay to the findings beside them, whatever an earlier pack had *)
(* left in the folder.                                                     *)
(***************************************************************************)
PackReproduces ==
  job = Idle /\ exit = [command |-> "demo-pack", code |-> 0] =>
    LET again(overlay, use, selection) ==
          ReplayedFrom(files["in_scenario"], files["in_bindings"], overlay, use, selection)
        baseline == files["baseline"]
        overlaid == files["overlaid"]
    IN  /\ Whole(baseline) /\ baseline = again(Missing, FALSE, baseline.selection)
        /\ files["manifest"].hash = baseline.hash
        /\ files["manifest"].overlay =>
             Whole(overlaid) /\ overlaid = again(files["in_overlay"], TRUE, overlaid.selection)

-----------------------------------------------------------------------------
(***************************************************************************)
(* Claims the code does not keep.                                          *)
(*                                                                         *)
(* The README's third invariant: two runs over the same scenario give the  *)
(* same findings.                                                          *)
(***************************************************************************)
SameScenarioSameFindings ==
  \A d, c \in Documents :
    d.run = c.run /\ d.selection = c.selection /\ Unprobed(d) /\ Unprobed(c) => d.findings = c.findings

(***************************************************************************)
(* replay.py: a replay reconstructs the facts of the scenario from it and  *)
(* its bindings, so that the findings are those of the collection that the *)
(* file names.                                                             *)
(***************************************************************************)
ReplayIsOfItsRun ==
  \A d \in Documents :
    Unprobed(d) /\ runs[d.run].bound # {} /\ ~ runs[d.run].exhausted => d.findings = Reasoned(Own(d.run), d.selection)
=============================================================================
