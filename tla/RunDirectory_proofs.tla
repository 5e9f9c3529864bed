-------------------------- MODULE RunDirectory_proofs --------------------------
(***************************************************************************)
(* Theorems about the commands that share a directory, for every set of    *)
(* edges, worlds and flags, any number of collections and commands: the    *)
(* findings files are true of the collections they name, the diff of a     *)
(* demo pack shows what the probes changed, a replay repeats a collection  *)
(* that wrote its bindings, and a demo pack reproduces itself.             *)
(*                                                                         *)
(* The invariants speak of files, but a command works its writes out when  *)
(* it starts. What is inductive is that both the files and the writes that *)
(* are still ahead are sound, and that the scenario file still states the  *)
(* graph of the collection that wrote it, whatever was edited since.       *)
(***************************************************************************)
EXTENDS RunDirectory, SequenceTheorems, TLAPS

DocumentFiles == {"findings", "replayed", "baseline", "overlaid"}

GraphIn(rs, i) == Graph(rs[i].edges, rs[i].bound)

ChainsCovered(rs, d) ==
  "assume_role_chain" \in d.selection =>
    \A e \in rs[d.run].edges :
      RelationOf[e].pattern = "assume_role_chain" => \E f \in d.findings : f.edge = e

ProbedAtHome(rs, d) ==
  \A f \in d.findings : f.probed => d.home = d.hash /\ f.edge \in rs[d.run].edges

DocumentSound(rs, d) ==
  /\ d.run \in DOMAIN rs
  /\ d.findings \subseteq FindingOf
  /\ d.hash = GraphIn(rs, d.run)
  /\ ChainsCovered(rs, d)
  /\ ProbedAtHome(rs, d)

ScenarioSound(rs, s) ==
  /\ s \in [run : DOMAIN rs, stated : Hash, edges : SUBSET Edges, ties : SUBSET Edges]
  /\ s.stated = GraphIn(rs, s.run)

DiffSound(d) == d.added \cup d.removed \cup d.evidence = {} /\ d.verdict \subseteq d.probed

Sound(rs, file, content) ==
  Whole(content) =>
    /\ file = "scenario" => ScenarioSound(rs, content)
    /\ file = "bindings" => content # {} /\ content \subseteq Tie
    /\ file \in DocumentFiles => DocumentSound(rs, content)
    /\ file = "pack_diff" => DiffSound(content)

IsSeq(s) == \E S : s \in Seq(S)

SoundWrites(rs, writes) ==
  /\ IsSeq(writes)
  /\ \A i \in DOMAIN writes :
       writes[i].file \in Files /\ Sound(rs, writes[i].file, writes[i].content)

IInv ==
  /\ runs \in Seq(Worlds) /\ Len(runs) <= MaxRuns
  /\ DOMAIN files = Files
  /\ \A f \in Files : Sound(runs, f, files[f])
  /\ DOMAIN job = {"command", "writes", "code"} /\ job.code \in 0..2
  /\ SoundWrites(runs, job.writes)
  /\ exit.code \in 0..2

-----------------------------------------------------------------------------
(***************************************************************************)
(* Lists of writes.                                                        *)
(***************************************************************************)

\* A command that writes nothing is sound.
LEMMA NoWritesSound == ASSUME NEW rs PROVE SoundWrites(rs, <<>>)
<1>1. <<>> \in Seq({})
  OBVIOUS
<1>2. DOMAIN <<>> = {}
  BY <1>1
<1> QED
  BY <1>1, <1>2 DEF SoundWrites, IsSeq

\* One write is sound when its content is.
LEMMA PutSound ==
  ASSUME NEW rs, NEW file \in Files, NEW content, Sound(rs, file, content)
  PROVE  SoundWrites(rs, Put(file, content))
<1> DEFINE w == [file |-> file, content |-> content]
<1>1. Put(file, content) = <<w>> /\ <<w>> \in Seq({w})
  BY DEF Put
<1>2. DOMAIN <<w>> = {1} /\ <<w>>[1] = w
  OBVIOUS
<1>3. w.file = file /\ w.content = content
  OBVIOUS
<1> QED
  BY <1>1, <1>2, <1>3 DEF SoundWrites, IsSeq

\* Two sound lists make one.
LEMMA BothSound ==
  ASSUME NEW rs, NEW a, NEW b, SoundWrites(rs, a), SoundWrites(rs, b)
  PROVE  SoundWrites(rs, a \o b)
<1>1. PICK S : a \in Seq(S)
  BY DEF SoundWrites, IsSeq
<1>2. PICK T : b \in Seq(T)
  BY DEF SoundWrites, IsSeq
<1>3. a \in Seq(S \cup T) /\ b \in Seq(S \cup T)
  BY <1>1, <1>2
<1>4. a \o b \in Seq(S \cup T)
  BY <1>3
<1>5. ASSUME NEW i \in DOMAIN (a \o b)
      PROVE  \/ i \in DOMAIN a /\ (a \o b)[i] = a[i]
             \/ i - Len(a) \in DOMAIN b /\ (a \o b)[i] = b[i - Len(a)]
  BY <1>3, <1>4, <1>5
<1> QED
  BY <1>4, <1>5 DEF SoundWrites, IsSeq

\* What a command does next, and what is left of it, is sound.
LEMMA NextWriteSound ==
  ASSUME NEW rs, NEW writes, SoundWrites(rs, writes), writes # <<>>
  PROVE  /\ Head(writes).file \in Files
         /\ Sound(rs, Head(writes).file, Head(writes).content)
         /\ SoundWrites(rs, Tail(writes))
<1>1. PICK S : writes \in Seq(S)
  BY DEF SoundWrites, IsSeq
<1>2. 1 \in DOMAIN writes /\ Head(writes) = writes[1]
  BY <1>1
<1>3. Tail(writes) \in Seq(S)
  BY <1>1
<1>4. \A i \in DOMAIN Tail(writes) : i + 1 \in DOMAIN writes /\ Tail(writes)[i] = writes[i + 1]
  BY <1>1, <1>3
<1> QED
  BY <1>2, <1>3, <1>4 DEF SoundWrites, IsSeq

\* A further collection takes nothing from what is known of the rs ones.
LEMMA LaterSound ==
  ASSUME NEW rs \in Seq(Worlds), NEW w \in Worlds, NEW file, NEW content, Sound(rs, file, content)
  PROVE  Sound(Append(rs, w), file, content)
<1> DEFINE more == Append(rs, w)
<1>1. \A i \in DOMAIN rs : i \in DOMAIN more /\ more[i] = rs[i]
  OBVIOUS
<1>2. DOMAIN rs \subseteq DOMAIN more
  BY <1>1
<1> HIDE DEF more
<1>3. ASSUME ScenarioSound(rs, content) PROVE ScenarioSound(more, content)
  <2>1. content.run \in DOMAIN rs
    BY <1>3 DEF ScenarioSound
  <2>2. GraphIn(rs, content.run) = GraphIn(more, content.run)
    BY <1>1, <2>1 DEF GraphIn
  <2> QED
    BY <1>2, <1>3, <2>2 DEF ScenarioSound
<1>4. ASSUME DocumentSound(rs, content) PROVE DocumentSound(more, content)
  <2>1. content.run \in DOMAIN more /\ more[content.run] = rs[content.run]
    BY <1>1, <1>4 DEF DocumentSound
  <2> QED
    BY <1>4, <2>1 DEF DocumentSound, GraphIn, ChainsCovered, ProbedAtHome
<1> QED
  BY <1>3, <1>4 DEF Sound, more

-----------------------------------------------------------------------------
(***************************************************************************)
(* What a run of the reasoners yields.                                     *)
(***************************************************************************)

\* The assessment of probe records: without records there is none, and one
\* that adds no check overrides nothing.
LEMMA Assessed ==
  ASSUME NEW seen
  PROVE  LET a == AssessProbeOverlay(seen)
         IN  /\ a.override \in Verdict \cup {"none"}
             /\ a.check = "none" => a.override = "none"
             /\ seen = {} => a.check = "none"
<1> DEFINE live == {r \in seen : r.state \in LiveProbeState}
           is(state) == \E r \in live : r.state = state
           tainted == \E r \in live : r.state = "probed_correlated_allowed" /\ r.confounded
<1>1. CASE live = {}
  <2>1. AssessProbeOverlay(seen) = Assessment("none", FALSE, "none")
    BY <1>1 DEF AssessProbeOverlay
  <2> QED
    BY <2>1 DEF Assessment
<1>2. CASE live # {} /\ is("probed_correlated_denied")
  <2>1. AssessProbeOverlay(seen) = Assessment("FAIL", TRUE, "BLOCKED")
    BY <1>2 DEF AssessProbeOverlay
  <2> QED
    BY <1>2, <2>1 DEF Assessment, Verdict
<1>3. CASE /\ live # {} /\ ~ is("probed_correlated_denied")
           /\ is("confounded_skip") \/ is("probed_correlated_disagreement") \/ tainted
  <2>1. AssessProbeOverlay(seen) = Assessment("UNKNOWN", FALSE, "INCONCLUSIVE")
    BY <1>3 DEF AssessProbeOverlay
  <2> QED
    BY <1>3, <2>1 DEF Assessment, Verdict
<1>4. CASE /\ live # {} /\ ~ is("probed_correlated_denied")
           /\ ~ (is("confounded_skip") \/ is("probed_correlated_disagreement") \/ tainted)
  <2>1. AssessProbeOverlay(seen) = Assessment("PASS", FALSE, "none")
    BY <1>4 DEF AssessProbeOverlay
  <2> QED
    BY <1>4, <2>1 DEF Assessment
<1> QED
  BY <1>1, <1>2, <1>3, <1>4

\* A finding has its type and its edge; it is probed only if a probe is.
LEMMA FindingSound ==
  ASSUME NEW facts, NEW e \in Edges
  PROVE  /\ FindingOn(facts, e) \in FindingOf
         /\ FindingOn(facts, e).edge = e /\ FindingOn(facts, e).relation = RelationOf[e]
         /\ facts.probes = {} => ~ FindingOn(facts, e).probed
         /\ ~ FindingOn(facts, e).probed => FindingOn(facts, e).verdict = DeclaredVerdict(facts, e)
<1> DEFINE a == AssessProbeOverlay(ProbesOf(facts, e))
           v == IF a.override # "none" THEN a.override ELSE DeclaredVerdict(facts, e)
           b == a.check # "none"
<1>1. FindingOn(facts, e) =
        [edge |-> e, relation |-> RelationOf[e], probed |-> b, verdict |-> v]
  BY DEF FindingOn
<1>2. /\ a.override \in Verdict \cup {"none"}
      /\ a.check = "none" => a.override = "none"
      /\ ProbesOf(facts, e) = {} => a.check = "none"
  BY Assessed
<1>3. facts.probes = {} => ProbesOf(facts, e) = {}
  BY DEF ProbesOf
<1>4. DeclaredVerdict(facts, e) \in Verdict
  BY DEF DeclaredVerdict, Verdict
<1>5. v \in Verdict
  BY <1>2, <1>4
<1>6. b \in BOOLEAN
  OBVIOUS
<1> HIDE DEF a, b, v
<1>7. FindingOn(facts, e) \in FindingOf
  BY <1>1, <1>5, <1>6 DEF FindingOf
<1>8. FindingOn(facts, e).edge = e /\ FindingOn(facts, e).relation = RelationOf[e] /\ FindingOn(facts, e).verdict = v
  BY <1>1
<1>9. FindingOn(facts, e).probed = b
  BY <1>1
<1>10. facts.probes = {} => ~ FindingOn(facts, e).probed
  BY <1>2, <1>3, <1>9, Zenon DEF b
<1>11. a.check = "none" => v = DeclaredVerdict(facts, e)
  BY <1>2 DEF v
<1>12. ~ FindingOn(facts, e).probed => FindingOn(facts, e).verdict = DeclaredVerdict(facts, e)
  BY <1>8, <1>9, <1>11, Zenon DEF b
<1> QED
  BY <1>7, <1>8, <1>10, <1>12, Zenon

\* The findings of a run have their type, lie on edges of the graph, cover its
\* chain edges when chains were asked for, and are probed only with probes.
LEMMA ReasonedSound ==
  ASSUME NEW edges \in SUBSET Edges, NEW bound, NEW exhausted, NEW probes, NEW selection
  PROVE  LET found == Reasoned(Facts(edges, bound, exhausted, probes), selection)
         IN  /\ found \subseteq FindingOf
             /\ \A f \in found : f.edge \in edges /\ (probes = {} => ~ f.probed)
             /\ "assume_role_chain" \in selection =>
                  \A e \in edges : RelationOf[e].pattern = "assume_role_chain" => \E f \in found : f.edge = e
<1> DEFINE facts == Facts(edges, bound, exhausted, probes)
           run == {f \in edges : RelationOf[f].pattern \in Runnable(selection, facts)}
<1>1. facts.edges = edges /\ facts.probes = probes
  BY DEF Facts
<1>2. Reasoned(facts, selection) = {FindingOn(facts, e) : e \in run}
  BY <1>1 DEF Reasoned
<1>3. "assume_role_chain" \in selection => "assume_role_chain" \in Runnable(selection, facts)
  BY DEF Runnable
<1> HIDE DEF facts
<1>4. \A e \in edges : /\ FindingOn(facts, e) \in FindingOf /\ FindingOn(facts, e).edge = e
                       /\ probes = {} => ~ FindingOn(facts, e).probed
  BY <1>1, FindingSound
<1>5. \A f \in Reasoned(facts, selection) : \E e \in run : f = FindingOn(facts, e)
  BY <1>2
<1>6. ASSUME "assume_role_chain" \in selection,
             NEW e \in edges, RelationOf[e].pattern = "assume_role_chain"
      PROVE  \E f \in Reasoned(facts, selection) : f.edge = e
  <2>1. e \in run
    BY <1>3, <1>6
  <2>2. FindingOn(facts, e) \in Reasoned(facts, selection)
    BY <1>2, <2>1
  <2> QED
    BY <1>4, <2>2
<1> HIDE DEF run
<1>7. \A e \in run : e \in edges
  BY DEF run
<1>8. /\ Reasoned(facts, selection) \subseteq FindingOf
      /\ \A f \in Reasoned(facts, selection) : f.edge \in edges /\ (probes = {} => ~ f.probed)
  BY <1>4, <1>5, <1>7
<1> QED
  BY <1>6, <1>8 DEF facts

-----------------------------------------------------------------------------
(***************************************************************************)
(* What each command writes.                                               *)
(***************************************************************************)

\* A document is put together from its parts.
LEMMA DocumentParts ==
  ASSUME NEW run, NEW hash, NEW home, NEW selection, NEW pedantic, NEW findings
  PROVE  LET d == Document(run, hash, home, selection, pedantic, findings)
         IN  d.run = run /\ d.hash = hash /\ d.home = home /\ d.selection = selection /\ d.findings = findings
BY DEF Document

\* A document is sound when its findings are, and the overlay is its graph's.
LEMMA WrittenSound ==
  ASSUME NEW rs, NEW run \in DOMAIN rs, NEW edges \in SUBSET Edges, NEW hash, NEW home, NEW selection,
         NEW pedantic, NEW findings,
         rs[run].edges = edges, hash = GraphIn(rs, run),
         findings \subseteq FindingOf,
         \A f \in findings : f.edge \in edges /\ (f.probed => home = hash),
         "assume_role_chain" \in selection =>
           \A e \in edges : RelationOf[e].pattern = "assume_role_chain" => \E f \in findings : f.edge = e
  PROVE  DocumentSound(rs, Document(run, hash, home, selection, pedantic, findings))
<1> DEFINE d == Document(run, hash, home, selection, pedantic, findings)
<1>1. d.run = run /\ d.hash = hash /\ d.home = home /\ d.selection = selection /\ d.findings = findings
  BY DocumentParts
<1> HIDE DEF d
<1>2. ChainsCovered(rs, d)
  BY <1>1 DEF ChainsCovered
<1>3. ProbedAtHome(rs, d)
  BY <1>1 DEF ProbedAtHome
<1> QED
  BY <1>1, <1>2, <1>3 DEF DocumentSound, d

\* Replay: the scenario passed the hash check, so its edges are the ones that
\* were collected.
LEMMA ReplayedSound ==
  ASSUME NEW rs, NEW scenario, Sound(rs, "scenario", scenario), NEW bindings, NEW overlay,
         NEW useOverlay \in BOOLEAN, NEW selection, NEW file \in DocumentFiles
  PROVE  Sound(rs, file, ReplayedFrom(scenario, bindings, overlay, useOverlay, selection))
<1> DEFINE sound == /\ Whole(scenario) /\ HashStable(scenario)
                    /\ Whole(bindings)
                    /\ useOverlay => Whole(overlay) /\ Joins(overlay, Recomputed(scenario), scenario.edges)
           unflagged == FALSE
           probes == IF useOverlay THEN overlay.probes ELSE {}
           found == Reasoned(Facts(scenario.edges, bindings, unflagged, probes), selection)
           home == IF useOverlay THEN overlay.hash ELSE Missing
           document == Document(scenario.run, Recomputed(scenario), home, selection, FALSE, found)
<1>1. CASE ~ sound
  <2>1. ReplayedFrom(scenario, bindings, overlay, useOverlay, selection) = Missing
    BY <1>1 DEF ReplayedFrom
  <2> QED
    BY <2>1 DEF Sound, Whole
<1>2. CASE sound
  <2>1. ReplayedFrom(scenario, bindings, overlay, useOverlay, selection) = document
    BY <1>2 DEF ReplayedFrom
  <2>2. ScenarioSound(rs, scenario)
    BY <1>2 DEF Sound
  <2>3. scenario.run \in DOMAIN rs /\ scenario.edges \in SUBSET Edges
    BY <2>2 DEF ScenarioSound
  <2>4. Recomputed(scenario) = GraphIn(rs, scenario.run)
    BY <1>2, <2>2 DEF HashStable, ScenarioSound
  <2>5. rs[scenario.run].edges = scenario.edges
    BY <2>4 DEF Recomputed, GraphIn, Graph
  <2>6. probes = {} \/ home = Recomputed(scenario)
    <3>1. CASE useOverlay
      BY <1>2, <3>1 DEF Joins
    <3>2. CASE ~ useOverlay
      BY <3>2
    <3> QED
      BY <3>1, <3>2
  <2> HIDE DEF probes, home, unflagged
  <2>7. /\ found \subseteq FindingOf
        /\ \A f \in found : f.edge \in scenario.edges /\ (probes = {} => ~ f.probed)
        /\ "assume_role_chain" \in selection =>
             \A e \in scenario.edges :
               RelationOf[e].pattern = "assume_role_chain" => \E f \in found : f.edge = e
    BY <2>3, ReasonedSound
  <2> HIDE DEF found
  <2>8. \A f \in found : f.edge \in scenario.edges /\ (f.probed => home = Recomputed(scenario))
    BY <2>6, <2>7
  <2>9. DocumentSound(rs, document)
    BY <2>3, <2>4, <2>5, <2>7, <2>8, WrittenSound
  <2> QED
    BY <2>1, <2>9 DEF Sound, DocumentFiles
<1> QED
  BY <1>1, <1>2

\* The demotion changes neither the edge of a finding nor its probe.
LEMMA DemotedSound ==
  ASSUME NEW findings \in SUBSET FindingOf
  PROVE  /\ Demoted(findings) \subseteq FindingOf
         /\ \A g \in Demoted(findings) : \E f \in findings : g.edge = f.edge /\ g.probed = f.probed
         /\ \A f \in findings : \E g \in Demoted(findings) : g.edge = f.edge
<1> DEFINE D(f) == IF f.relation.pattern = "passrole_lambda" /\ f.verdict = "VALIDATED"
                     THEN [f EXCEPT !.verdict = "INCONCLUSIVE"] ELSE f
<1>1. Demoted(findings) = {D(f) : f \in findings}
  BY DEF Demoted
<1>2. ASSUME NEW f \in findings
      PROVE  D(f) \in FindingOf /\ D(f).edge = f.edge /\ D(f).probed = f.probed
  <2>1. f \in FindingOf
    OBVIOUS
  <2>2. [f EXCEPT !.verdict = "INCONCLUSIVE"] \in FindingOf
    BY <2>1 DEF FindingOf, Verdict
  <2>3. [f EXCEPT !.verdict = "INCONCLUSIVE"].edge = f.edge /\ [f EXCEPT !.verdict = "INCONCLUSIVE"].probed = f.probed
    BY <2>1 DEF FindingOf
  <2> QED
    BY <2>1, <2>2, <2>3
<1> HIDE DEF D
<1> QED
  BY <1>1, <1>2

\* The findings a collection writes, with an overlay that joins or with none.
LEMMA FindingsSound ==
  ASSUME NEW rs, NEW run \in DOMAIN rs, NEW w, NEW o, NEW overlay,
         w.edges \in SUBSET Edges, rs[run].edges = w.edges,
         NEW hash, hash = GraphIn(rs, run),
         o.overlay \in BOOLEAN, o.pedantic \in BOOLEAN,
         o.overlay => Joins(overlay, hash, w.edges),
         ~ o.overlay => ~ Whole(overlay)
  PROVE  LET probes == IF Whole(overlay) THEN overlay.probes ELSE {}
             found  == Reasoned(Facts(w.edges, w.bound, w.exhausted, probes), o.selection)
         IN  Sound(rs, "findings",
                   Document(run, hash, IF o.overlay THEN overlay.hash ELSE Missing, o.selection, o.pedantic,
                            IF o.pedantic THEN Demoted(found) ELSE found))
<1> DEFINE probes == IF Whole(overlay) THEN overlay.probes ELSE {}
           cut == w.exhausted
           found == Reasoned(Facts(w.edges, w.bound, cut, probes), o.selection)
           kept == IF o.pedantic THEN Demoted(found) ELSE found
           home == IF o.overlay THEN overlay.hash ELSE Missing
<1>1. probes = {} \/ home = hash
  <2>1. CASE o.overlay
    BY <2>1 DEF Joins
  <2>2. CASE ~ o.overlay
    BY <2>2
  <2> QED
    BY <2>1, <2>2
<1> HIDE DEF probes, cut, home
<1>2. /\ found \subseteq FindingOf
      /\ \A f \in found : f.edge \in w.edges /\ (probes = {} => ~ f.probed)
      /\ "assume_role_chain" \in o.selection =>
           \A e \in w.edges : RelationOf[e].pattern = "assume_role_chain" => \E f \in found : f.edge = e
  BY ReasonedSound
<1> HIDE DEF found
<1>3. /\ kept \subseteq FindingOf
      /\ \A g \in kept : \E f \in found : g.edge = f.edge /\ g.probed = f.probed
      /\ \A f \in found : \E g \in kept : g.edge = f.edge
  <2>1. CASE o.pedantic
    BY <1>2, <2>1, DemotedSound
  <2>2. CASE ~ o.pedantic
    BY <1>2, <2>2
  <2> QED
    BY <2>1, <2>2
<1> HIDE DEF kept
<1>4. \A g \in kept : g.edge \in w.edges /\ (g.probed => home = hash)
  BY <1>1, <1>2, <1>3
<1>5. "assume_role_chain" \in o.selection =>
        \A e \in w.edges : RelationOf[e].pattern = "assume_role_chain" => \E g \in kept : g.edge = e
  BY <1>2, <1>3
<1>6. kept \subseteq FindingOf
  BY <1>3
<1>7. DocumentSound(rs, Document(run, hash, home, o.selection, o.pedantic, kept))
  BY <1>4, <1>5, <1>6, WrittenSound
<1> QED
  BY <1>7 DEF Sound, home, kept, found, cut, probes

\* Collection: the scenario, the bindings and the findings are of the new run.
LEMMA CollectedSound ==
  ASSUME DirectoryConstants, NEW rs \in Seq(Worlds), NEW w \in Worlds, NEW o \in Options
  PROVE  SoundWrites(Append(rs, w), CollectWrites(w, Len(rs) + 1, o))
<1> DEFINE more == Append(rs, w)
           run == Len(rs) + 1
           hash == Graph(w.edges, w.bound)
<1>1. run \in DOMAIN more /\ more[run] = w
  OBVIOUS
<1>2. w \in World /\ \A t \in w.bound : t.edge \in w.edges
  BY DEF DirectoryConstants
<1>3. w.edges \in SUBSET Edges /\ w.bound \in SUBSET Tie
  BY <1>2 DEF World
<1>4. hash = GraphIn(more, run)
  BY <1>1 DEF GraphIn
<1>5. hash \in Hash
  BY <1>2, <1>3 DEF Hash, Graph
<1>6. o.none \in BOOLEAN /\ o.overlay \in BOOLEAN /\ o.pedantic \in BOOLEAN
  BY DEF DirectoryConstants
<1> HIDE DEF more, run
<1>7. SoundWrites(more, WriteOutputs(w, run))
  <2>1. ScenarioSound(more, EmitScenario(w, run))
    BY <1>1, <1>2, <1>3, <1>4, <1>5 DEF EmitScenario, ScenarioSound, Hash, Graph
  <2>2. Sound(more, "scenario", EmitScenario(w, run))
    BY <2>1 DEF Sound, DocumentFiles
  <2>3. SoundWrites(more, Put("scenario", EmitScenario(w, run)))
    BY <2>2, PutSound DEF Files
  <2>4. CASE w.bound = {}
    BY <2>3, <2>4, NoWritesSound, BothSound DEF WriteOutputs
  <2>5. CASE w.bound # {}
    <3>1. Sound(more, "bindings", w.bound)
      BY <1>3, <2>5 DEF Sound, DocumentFiles
    <3>2. SoundWrites(more, Put("bindings", w.bound))
      BY <3>1, PutSound DEF Files
    <3>3. SoundWrites(more, Put("scenario", EmitScenario(w, run)) \o Put("bindings", w.bound))
      BY <2>3, <3>2, BothSound
    <3> QED
      BY <2>5, <3>3 DEF WriteOutputs
  <2> QED
    BY <2>4, <2>5
<1>8. SoundWrites(more, CollectFindings(w, run, o))
  <2> DEFINE overlay == IF o.overlay THEN files["overlay"] ELSE Missing
             probes == IF Whole(overlay) THEN overlay.probes ELSE {}
             cut == w.exhausted
             found == Reasoned(Facts(w.edges, w.bound, cut, probes), o.selection)
             kept == IF o.pedantic THEN Demoted(found) ELSE found
             home == IF o.overlay THEN overlay.hash ELSE Missing
             document == Document(run, hash, home, o.selection, o.pedantic, kept)
  <2>1. \/ CollectFindings(w, run, o) = <<>>
        \/ CollectFindings(w, run, o) = Fail
        \/ /\ CollectFindings(w, run, o) = Put("findings", document)
           /\ o.overlay => Whole(overlay) /\ Joins(overlay, hash, w.edges)
    BY <1>6, Zenon DEF CollectFindings
  <2>2. SoundWrites(more, Fail)
    <3>1. Sound(more, "findings", Missing)
      BY DEF Sound, Whole
    <3> QED
      BY <3>1, PutSound DEF Fail, Files
  <2>3. ASSUME o.overlay => Whole(overlay) /\ Joins(overlay, hash, w.edges)
        PROVE  SoundWrites(more, Put("findings", document))
    <3>1. ~ o.overlay => ~ Whole(overlay)
      BY DEF Whole
    <3> HIDE DEF overlay, hash
    <3>2. Sound(more, "findings", document)
      BY <1>1, <1>3, <1>4, <1>6, <2>3, <3>1, FindingsSound
    <3> QED
      BY <3>2, PutSound DEF Files
  <2> QED
    BY <2>1, <2>2, <2>3, NoWritesSound
<1> QED
  BY <1>7, <1>8, BothSound DEF CollectWrites, more, run

\* Two runs over one graph that differ in their probes have their findings on
\* the same edges, and a verdict that differs is one the probes of the second
\* had a part in.
LEMMA SameEdges ==
  ASSUME NEW edges \in SUBSET Edges, NEW bound, NEW cut, NEW probes, NEW selection,
         NEW f \in Reasoned(Facts(edges, bound, cut, {}), selection)
  PROVE  \E g \in Reasoned(Facts(edges, bound, cut, probes), selection) :
           /\ g.edge = f.edge /\ g.relation = f.relation
           /\ ~ f.probed
           /\ g.verdict # f.verdict => g.probed
<1> DEFINE plain == Facts(edges, bound, cut, {})
           live == Facts(edges, bound, cut, probes)
<1>1. /\ plain.edges = edges /\ plain.bound = bound /\ plain.exhausted = cut /\ plain.probes = {}
      /\ live.edges = edges /\ live.bound = bound /\ live.exhausted = cut
  BY DEF Facts
<1> HIDE DEF plain, live
<1>2. PICK e \in edges : RelationOf[e].pattern \in Runnable(selection, plain) /\ f = FindingOn(plain, e)
  BY <1>1 DEF Reasoned, plain
<1>3. RelationOf[e].pattern \in Runnable(selection, live)
  BY <1>1, <1>2 DEF Runnable
<1>4. FindingOn(live, e) \in Reasoned(live, selection)
  BY <1>1, <1>3 DEF Reasoned
<1>5. DeclaredVerdict(plain, e) = DeclaredVerdict(live, e)
  BY <1>1 DEF DeclaredVerdict
<1>6. /\ f.edge = e /\ f.relation = RelationOf[e] /\ ~ f.probed
      /\ ~ f.probed => f.verdict = DeclaredVerdict(plain, e)
  BY <1>1, <1>2, FindingSound
<1>7. /\ FindingOn(live, e).edge = e /\ FindingOn(live, e).relation = RelationOf[e]
      /\ ~ FindingOn(live, e).probed => FindingOn(live, e).verdict = DeclaredVerdict(live, e)
  BY FindingSound
<1> QED
  BY <1>4, <1>5, <1>6, <1>7 DEF live

\* The other way about: no finding is there only with the probes.
LEMMA SameEdgesBack ==
  ASSUME NEW edges \in SUBSET Edges, NEW bound, NEW cut, NEW probes, NEW selection,
         NEW g \in Reasoned(Facts(edges, bound, cut, probes), selection)
  PROVE  \E f \in Reasoned(Facts(edges, bound, cut, {}), selection) : f.relation = g.relation
<1> DEFINE plain == Facts(edges, bound, cut, {})
           live == Facts(edges, bound, cut, probes)
<1>1. /\ plain.edges = edges /\ plain.exhausted = cut
      /\ live.edges = edges /\ live.exhausted = cut
  BY DEF Facts
<1> HIDE DEF plain, live
<1>2. PICK e \in edges : RelationOf[e].pattern \in Runnable(selection, live) /\ g = FindingOn(live, e)
  BY <1>1 DEF Reasoned, live
<1>3. RelationOf[e].pattern \in Runnable(selection, plain)
  BY <1>1, <1>2 DEF Runnable
<1>4. FindingOn(plain, e) \in Reasoned(plain, selection)
  BY <1>1, <1>3 DEF Reasoned
<1>5. g.relation = RelationOf[e] /\ FindingOn(plain, e).relation = RelationOf[e]
  BY <1>2, FindingSound
<1> QED
  BY <1>4, <1>5 DEF plain

\* A diff of documents that lie on the same edges shows what the probes did.
LEMMA DiffOfProbes ==
  ASSUME NEW before, NEW after, ~ Duplicates(after), Whole(before), Whole(after), ~ Duplicates(before),
         \A f \in before.findings : \E g \in after.findings :
           g.edge = f.edge /\ g.relation = f.relation /\ ~ f.probed /\ (g.verdict # f.verdict => g.probed),
         \A g \in after.findings : \E f \in before.findings : f.relation = g.relation
  PROVE  DiffSound(Diff(before, after))
<1>1. RelationsOf(before) = RelationsOf(after)
  BY DEF RelationsOf
<1> DEFINE common == RelationsOf(before) \cap RelationsOf(after)
           d == [added     |-> RelationsOf(after) \ common,
                 removed   |-> RelationsOf(before) \ common,
                 verdict   |-> {r \in common : On(before, r).verdict # On(after, r).verdict},
                 evidence  |-> {r \in common : On(before, r).edge # On(after, r).edge},
                 probed    |-> {r \in common : ~ On(before, r).probed /\ On(after, r).probed}]
<1>2. Diff(before, after) = d
  BY DEF Diff
<1>3. ASSUME NEW r \in common
      PROVE  /\ On(before, r).edge = On(after, r).edge
             /\ On(before, r).verdict # On(after, r).verdict => ~ On(before, r).probed /\ On(after, r).probed
  <2>1. On(before, r) \in before.findings /\ On(before, r).relation = r
    BY <1>3 DEF RelationsOf, On
  <2>2. On(after, r) \in after.findings /\ On(after, r).relation = r
    BY <1>3 DEF RelationsOf, On
  <2>3. PICK g \in after.findings :
          /\ g.edge = On(before, r).edge /\ g.relation = r /\ ~ On(before, r).probed
          /\ g.verdict # On(before, r).verdict => g.probed
    BY <2>1
  <2>4. g = On(after, r)
    BY <2>2, <2>3 DEF Duplicates
  <2> QED
    BY <2>3, <2>4
<1>4. d.added = {} /\ d.removed = {} /\ d.evidence = {}
  BY <1>1, <1>3
<1>5. d.verdict \subseteq d.probed
  BY <1>3
<1> QED
  BY <1>2, <1>4, <1>5 DEF DiffSound

\* The pack's diff is one of two replays of one scenario.
LEMMA PackDiffSound ==
  ASSUME NEW rs, NEW scenario, Sound(rs, "scenario", scenario), NEW bindings, NEW overlay, NEW selection
  PROVE  Sound(rs, "pack_diff", Diff(ReplayedFrom(scenario, bindings, Missing, FALSE, selection),
                                     ReplayedFrom(scenario, bindings, overlay, TRUE, selection)))
<1> DEFINE before == ReplayedFrom(scenario, bindings, Missing, FALSE, selection)
           after == ReplayedFrom(scenario, bindings, overlay, TRUE, selection)
           unflagged == FALSE
           plain == Reasoned(Facts(scenario.edges, bindings, unflagged, {}), selection)
           live == Reasoned(Facts(scenario.edges, bindings, unflagged, overlay.probes), selection)
<1>1. CASE ~ Whole(before) \/ ~ Whole(after) \/ Duplicates(before) \/ Duplicates(after)
  <2>1. Diff(before, after) = Missing
    BY <1>1 DEF Diff
  <2> QED
    BY <2>1 DEF Sound, Whole
<1>2. CASE Whole(before) /\ Whole(after) /\ ~ Duplicates(before) /\ ~ Duplicates(after)
  <2>1. before # Missing /\ after # Missing
    BY <1>2 DEF Whole
  <2>2. /\ Whole(scenario)
        /\ before = Document(scenario.run, Recomputed(scenario), Missing, selection, FALSE, plain)
    BY <2>1 DEF ReplayedFrom
  <2>3. after = Document(scenario.run, Recomputed(scenario), overlay.hash, selection, FALSE, live)
    BY <2>1 DEF ReplayedFrom
  <2>4. scenario.edges \in SUBSET Edges
    BY <2>2 DEF Sound, ScenarioSound
  <2> HIDE DEF unflagged, before, after
  <2>5. before.findings = plain /\ after.findings = live
    BY <2>2, <2>3 DEF Document
  <2>6. \A f \in plain : \E g \in live :
          g.edge = f.edge /\ g.relation = f.relation /\ ~ f.probed /\ (g.verdict # f.verdict => g.probed)
    BY <2>4, SameEdges
  <2>7. \A g \in live : \E f \in plain : f.relation = g.relation
    BY <2>4, SameEdgesBack
  <2>8. DiffSound(Diff(before, after))
    BY <1>2, <2>5, <2>6, <2>7, DiffOfProbes
  <2> QED
    BY <2>8 DEF Sound, DocumentFiles, before, after
<1> QED
  BY <1>1, <1>2

\* The demo pack: copies, replays, their diff and the manifest.
LEMMA PackSound ==
  ASSUME NEW rs, \A f \in Files : Sound(rs, f, files[f]), NEW useOverlay \in BOOLEAN, NEW selection
  PROVE  SoundWrites(rs, PackWrites(useOverlay, selection))
<1> DEFINE baseline == Baseline(selection)
           overlaid == ReplayedFrom(files["scenario"], files["bindings"], files["overlay"], TRUE, selection)
           copies == Put("in_scenario", CopyOf("scenario", "in_scenario"))
                       \o Put("in_bindings", CopyOf("bindings", "in_bindings"))
           probed == IF useOverlay THEN Put("in_overlay", CopyOf("overlay", "in_overlay")) ELSE <<>>
           compared == IF useOverlay THEN Put("overlaid", overlaid) \o Put("pack_diff", Diff(baseline, overlaid))
                                     ELSE <<>>
           closed == IF Whole(baseline) THEN Put("manifest", [hash |-> baseline.hash, overlay |-> useOverlay]) ELSE <<>>
<1>1. PackWrites(useOverlay, selection) = copies \o probed \o Put("baseline", baseline) \o compared \o closed
  BY DEF PackWrites
<1>2. Sound(rs, "scenario", files["scenario"])
  BY DEF Files
<1>3. \A f \in {"in_scenario", "in_bindings", "in_overlay", "manifest"} :
        f \in Files /\ \A content : Sound(rs, f, content)
  BY DEF Sound, DocumentFiles, Files
<1>4. SoundWrites(rs, copies)
  <2>1. /\ SoundWrites(rs, Put("in_scenario", CopyOf("scenario", "in_scenario")))
        /\ SoundWrites(rs, Put("in_bindings", CopyOf("bindings", "in_bindings")))
    BY <1>3, PutSound
  <2> QED
    BY <2>1, BothSound
<1>5. SoundWrites(rs, probed)
  BY <1>3, PutSound, NoWritesSound
<1>6. SoundWrites(rs, Put("baseline", baseline))
  <2>1. Sound(rs, "baseline", baseline)
    BY <1>2, ReplayedSound DEF Baseline, DocumentFiles
  <2> QED
    BY <2>1, PutSound DEF Files
<1>7. SoundWrites(rs, compared)
  <2>1. Sound(rs, "overlaid", overlaid)
    BY <1>2, ReplayedSound DEF DocumentFiles
  <2>2. Sound(rs, "pack_diff", Diff(baseline, overlaid))
    BY <1>2, PackDiffSound DEF Baseline
  <2> HIDE DEF baseline, overlaid
  <2>3. SoundWrites(rs, Put("overlaid", overlaid)) /\ SoundWrites(rs, Put("pack_diff", Diff(baseline, overlaid)))
    BY <2>1, <2>2, PutSound DEF Files
  <2> QED
    BY <2>3, BothSound, NoWritesSound
<1>8. SoundWrites(rs, closed)
  <2> HIDE DEF baseline
  <2>1. SoundWrites(rs, Put("manifest", [hash |-> baseline.hash, overlay |-> useOverlay]))
    BY <1>3, PutSound
  <2> QED
    BY <2>1, NoWritesSound
<1> HIDE DEF baseline, copies, probed, compared, closed
<1>9. SoundWrites(rs, copies \o probed)
  BY <1>4, <1>5, BothSound
<1>10. SoundWrites(rs, copies \o probed \o Put("baseline", baseline))
  BY <1>6, <1>9, BothSound
<1>11. SoundWrites(rs, copies \o probed \o Put("baseline", baseline) \o compared)
  BY <1>7, <1>10, BothSound
<1> QED
  BY <1>1, <1>8, <1>11, BothSound

-----------------------------------------------------------------------------
(***************************************************************************)
(* The steps.                                                              *)
(***************************************************************************)

\* An empty directory is sound.
LEMMA Initially == ASSUME DirectoryConstants, Init PROVE IInv
<1>1. runs \in Seq(Worlds) /\ Len(runs) <= MaxRuns
  BY DEF Init, DirectoryConstants
<1>2. DOMAIN files = Files /\ \A f \in Files : Sound(runs, f, files[f])
  BY DEF Init, Sound, Whole
<1>3. DOMAIN job = {"command", "writes", "code"} /\ job.code \in 0..2 /\ job.writes = <<>>
  BY DEF Init, Idle
<1>4. exit.code \in 0..2
  BY DEF Init
<1> QED
  BY <1>1, <1>2, <1>3, <1>4, NoWritesSound DEF IInv

\* A command that starts has sound writes ahead of it and touches no file.
LEMMA Started ==
  ASSUME NEW command, NEW writes, NEW code \in 0..2, Start(command, writes, code), SoundWrites(runs', writes)
  PROVE  /\ files' = files
         /\ DOMAIN job' = {"command", "writes", "code"} /\ job'.code \in 0..2
         /\ SoundWrites(runs', job'.writes)
         /\ exit'.code \in 0..2
<1>1. job' = [command |-> command, writes |-> writes, code |-> code]
  BY DEF Start
<1>2. job'.writes = writes /\ job'.code = code /\ DOMAIN job' = {"command", "writes", "code"}
  BY <1>1
<1>3. exit'.code = 2 /\ files' = files
  BY DEF Start
<1> QED
  BY <1>2, <1>3

\* A command over the runs there are keeps the invariant.
LEMMA CommandKeeps ==
  ASSUME IInv, NEW command, NEW writes, Start(command, writes, 0), UNCHANGED runs, SoundWrites(runs, writes)
  PROVE  IInv'
<1>1. SoundWrites(runs', writes)
  BY DEF SoundWrites
<1>2. /\ files' = files
      /\ DOMAIN job' = {"command", "writes", "code"} /\ job'.code \in 0..2
      /\ SoundWrites(runs', job'.writes)
      /\ exit'.code \in 0..2
  BY <1>1, Started
<1> QED
  BY <1>2 DEF IInv

\* A write that is truncated or filled in leaves sound files.
LEMMA WriteKeeps ==
  ASSUME IInv, NEW file \in Files, NEW content, Sound(runs, file, content),
         files' = [files EXCEPT ![file] = content],
         SoundWrites(runs, job'.writes), DOMAIN job' = DOMAIN job, job'.code = job.code,
         UNCHANGED <<runs, exit>>
  PROVE  IInv'
<1>1. DOMAIN files' = Files
  BY DEF IInv
<1>2. \A f \in Files : Sound(runs, f, files'[f])
  BY DEF IInv
<1>3. \A f \in Files : Sound(runs', f, files'[f])
  BY <1>2
<1>4. SoundWrites(runs', job'.writes)
  OBVIOUS
<1> QED
  BY <1>1, <1>3, <1>4 DEF IInv

\* A command that is over, by its end, an error or a crash, changes no file.
LEMMA EndKeeps ==
  ASSUME IInv, job' = Idle, exit'.code \in 0..2, UNCHANGED <<runs, files>>
  PROVE  IInv'
<1>1. DOMAIN job' = {"command", "writes", "code"} /\ job'.code \in 0..2 /\ job'.writes = <<>>
  BY DEF Idle
<1>2. SoundWrites(runs', job'.writes)
  BY <1>1, NoWritesSound
<1> QED
  BY <1>1, <1>2 DEF IInv

\* Every step of the directory.
LEMMA StepKeeps == ASSUME DirectoryConstants, IInv, [Next]_vars PROVE IInv'
<1>1. ASSUME NEW w \in Worlds, NEW o \in Options, Collect(w, o) PROVE IInv'
  <2>1. runs \in Seq(Worlds) /\ runs' = Append(runs, w) /\ Len(runs) < MaxRuns
    BY <1>1 DEF IInv, Collect
  <2>2. SoundWrites(runs', CollectWrites(w, Len(runs) + 1, o))
    BY <2>1, CollectedSound
  <2>3. /\ files' = files
        /\ DOMAIN job' = {"command", "writes", "code"} /\ job'.code \in 0..2
        /\ SoundWrites(runs', job'.writes)
        /\ exit'.code \in 0..2
    BY <1>1, <2>2, Started DEF Collect
  <2>4. runs' \in Seq(Worlds) /\ Len(runs') <= MaxRuns
    BY <2>1 DEF DirectoryConstants
  <2>5. \A f \in Files : Sound(runs', f, files'[f])
    BY <2>1, <2>3, LaterSound DEF IInv
  <2> QED
    BY <2>3, <2>4, <2>5 DEF IInv
<1>2. ASSUME NEW e \in Edges, NEW seen \in Seen, ProbeOverlay(e, seen) PROVE IInv'
  <2> DEFINE overlay == [hash |-> files["scenario"].stated, probes |-> {[edge |-> e, seen |-> seen]}]
  <2>1. Sound(runs, "overlay", overlay)
    BY DEF Sound, DocumentFiles
  <2>2. SoundWrites(runs, Put("overlay", overlay))
    BY <2>1, PutSound DEF Files
  <2> QED
    BY <1>2, <2>2, CommandKeeps DEF ProbeOverlay
<1>3. ASSUME NEW useOverlay \in BOOLEAN, NEW s \in Selections, Replay(useOverlay, s) PROVE IInv'
  <2> DEFINE replayed == ReplayedFrom(files["scenario"], files["bindings"], files["overlay"], useOverlay, s)
  <2>1. Sound(runs, "scenario", files["scenario"])
    BY DEF IInv, Files
  <2>2. Sound(runs, "replayed", replayed)
    BY <2>1, ReplayedSound DEF DocumentFiles
  <2>3. SoundWrites(runs, Put("replayed", replayed))
    BY <2>2, PutSound DEF Files
  <2> QED
    BY <1>3, <2>3, CommandKeeps DEF Replay
<1>4. ASSUME NEW useOverlay \in BOOLEAN, NEW s \in Selections, DemoPack(useOverlay, s) PROVE IInv'
  <2>1. SoundWrites(runs, PackWrites(useOverlay, s))
    BY PackSound DEF IInv
  <2> QED
    BY <1>4, <2>1, CommandKeeps DEF DemoPack
<1>5. CASE DiffFindings
  <2>1. Sound(runs, "diff", Diff(files["findings"], files["replayed"]))
    BY DEF Sound, DocumentFiles
  <2>2. SoundWrites(runs, Put("diff", Diff(files["findings"], files["replayed"])))
    BY <2>1, PutSound DEF Files
  <2> QED
    BY <1>5, <2>2, CommandKeeps DEF DiffFindings
<1>6. CASE Truncate
  <2>1. /\ Head(job.writes).file \in Files
        /\ SoundWrites(runs, Tail(job.writes))
    BY <1>6, NextWriteSound DEF Truncate, IInv
  <2>2. Sound(runs, Head(job.writes).file, Torn)
    BY DEF Sound, Whole
  <2>3. SoundWrites(runs, job'.writes) /\ DOMAIN job' = DOMAIN job /\ job'.code = job.code
    BY <1>6, <2>1 DEF Truncate, IInv
  <2> QED
    BY <1>6, <2>1, <2>2, <2>3, WriteKeeps DEF Truncate
<1>7. CASE Fill
  <2>1. /\ Head(job.writes).file \in Files
        /\ Sound(runs, Head(job.writes).file, Head(job.writes).content)
        /\ SoundWrites(runs, Tail(job.writes))
    BY <1>7, NextWriteSound DEF Fill, IInv
  <2>2. SoundWrites(runs, job'.writes) /\ DOMAIN job' = DOMAIN job /\ job'.code = job.code
    BY <1>7, <2>1 DEF Fill, IInv
  <2> QED
    BY <1>7, <2>1, <2>2, WriteKeeps DEF Fill
<1>8. CASE Stop
  BY <1>8, EndKeeps DEF Stop
<1>9. CASE Done
  BY <1>9, EndKeeps DEF Done, IInv
<1>10. CASE Crash
  BY <1>10, EndKeeps DEF Crash, IInv
<1>11. ASSUME NEW e \in Edges, Edit(e) PROVE IInv'
  <2> DEFINE s == files["scenario"]
             edited == [s EXCEPT !.edges = @ \ {e}]
  <2>1. ScenarioSound(runs, s) /\ "scenario" \in Files
    BY <1>11 DEF Edit, IInv, Sound, Files
  <2>2. ScenarioSound(runs, edited)
    BY <2>1 DEF ScenarioSound
  <2>3. Sound(runs, "scenario", edited)
    BY <2>2 DEF Sound, DocumentFiles
  <2>4. files' = [files EXCEPT !["scenario"] = edited]
    BY <1>11 DEF Edit
  <2>5. UNCHANGED <<runs, job, exit>> /\ SoundWrites(runs, job.writes)
    BY <1>11 DEF Edit, IInv
  <2> HIDE DEF edited
  <2> QED
    BY <2>1, <2>3, <2>4, <2>5, WriteKeeps
<1>12. CASE UNCHANGED vars
  <2>1. UNCHANGED <<runs, files, job, exit>>
    BY <1>12 DEF vars
  <2> QED
    BY <2>1 DEF IInv, SoundWrites
<1> QED
  BY <1>1, <1>2, <1>3, <1>4, <1>5, <1>6, <1>7, <1>8, <1>9, <1>10, <1>11, <1>12 DEF Next

-----------------------------------------------------------------------------
(***************************************************************************)
(* The theorems.                                                           *)
(***************************************************************************)

\* What is in the directory, and what is about to be written, is always sound.
THEOREM DirectorySound == Spec => []IInv
<1>1. Init => IInv
  BY Initially, DirectoryConstants
<1>2. IInv /\ [Next]_vars => IInv'
  BY StepKeeps, DirectoryConstants
<1> QED
  BY <1>1, <1>2, PTL DEF Spec

\* What the diff of a demo pack shows is what the probes changed
\* (demo_pack.py, findings_diff.py), for every graph and overlay.
THEOREM PackDiffsAreTheProbes == Spec => []PackDiffIsTheProbes
<1>1. ASSUME IInv PROVE PackDiffIsTheProbes
  <2>1. Sound(runs, "pack_diff", files["pack_diff"])
    BY <1>1 DEF IInv, Files
  <2> QED
    BY <2>1 DEF Sound, DiffSound, PackDiffIsTheProbes
<1> QED
  BY <1>1, DirectorySound, PTL

-----------------------------------------------------------------------------
(***************************************************************************)
(* Replay repeats the collection. What is inductive is that every document *)
(* that names a collection whose bindings were written in full says what   *)
(* follows from that collection, and that a scenario of such a collection  *)
(* has its own bindings beside it. A collection that has its scenario      *)
(* ahead of it is not such a one yet; one that has its bindings ahead has  *)
(* no document in the directory yet.                                       *)
(***************************************************************************)
Entries(writes) == {writes[i] : i \in DOMAIN writes}

Pending(file) == {x \in Entries(job.writes) : x.file = file}

OwnIn(rs, i) == Facts(rs[i].edges, rs[i].bound, FALSE, {})

VerdictsFit(rs, d) ==
  \A f \in d.findings :
    \/ f.probed \/ f.verdict = DeclaredVerdict(OwnIn(rs, d.run), f.edge)
    \/ /\ d.pedantic /\ DeclaredVerdict(OwnIn(rs, d.run), f.edge) = "VALIDATED"
       /\ f.verdict = "INCONCLUSIVE"

Says(rs, d) ==
  /\ VerdictsFit(rs, d)
  /\ Unprobed(d) /\ ~ rs[d.run].exhausted => d.findings = Reasoned(OwnIn(rs, d.run), d.selection)

FilesSay == \A f \in DocumentFiles : Whole(files[f]) /\ files[f].run \in settled => Says(runs, files[f])

Matching ==
  Whole(files["scenario"]) /\ Whole(files["bindings"]) /\ files["scenario"].run \in settled =>
    files["bindings"] = runs[files["scenario"].run].bound

Coming ==
  \A x \in Entries(job.writes) :
    x.file \in DocumentFiles /\ Whole(x.content) /\ (x.content.run \in settled \/ Pending("bindings") # {}) =>
      Says(runs, x.content)

NoneOfThisRun == \A f \in DocumentFiles : Whole(files[f]) => files[f].run # Len(runs)

Underway ==
  /\ \A x \in Pending("scenario") : x.content # Torn /\ x.content.run = Len(runs)
  /\ \A x \in Pending("bindings") : x.content # Torn /\ x.content = runs[Len(runs)].bound
  /\ Pending("scenario") # {} => Len(runs) \notin settled
  /\ Pending("bindings") # {} => NoneOfThisRun /\ Len(runs) \in DOMAIN runs
  /\ Pending("bindings") # {} /\ Pending("scenario") = {} => files["scenario"].run = Len(runs)

Before == {<<"scenario", "bindings">>} \cup ({"scenario", "bindings"} \X DocumentFiles)

InOrder(writes) ==
  \A i, j \in DOMAIN writes : <<writes[i].file, writes[j].file>> \in Before => i < j

RInv ==
  /\ settled \subseteq DOMAIN runs
  /\ FilesSay /\ Matching /\ Coming /\ Underway /\ InOrder(job.writes)

\* The writes ahead of a command, and of what is left of it after one.
LEMMA EntriesSay ==
  ASSUME NEW writes, IsSeq(writes), writes # <<>>
  PROVE  /\ Head(writes) \in Entries(writes)
         /\ Entries(Tail(writes)) \subseteq Entries(writes)
         /\ Entries(writes) \subseteq {Head(writes)} \cup Entries(Tail(writes))
<1>1. PICK S : writes \in Seq(S)
  BY DEF IsSeq
<1>2. 1 \in DOMAIN writes /\ Head(writes) = writes[1]
  BY <1>1
<1>3. \A i \in DOMAIN Tail(writes) : i + 1 \in DOMAIN writes /\ Tail(writes)[i] = writes[i + 1]
  BY <1>1
<1>4. \A i \in DOMAIN writes : i # 1 => i - 1 \in DOMAIN Tail(writes) /\ Tail(writes)[i - 1] = writes[i]
  BY <1>1
<1> QED
  BY <1>2, <1>3, <1>4 DEF Entries

LEMMA EntriesOfNone == Entries(<<>>) = {} /\ IsSeq(<<>>)
<1>1. <<>> \in Seq({}) /\ DOMAIN <<>> = {}
  OBVIOUS
<1> QED
  BY <1>1 DEF Entries, IsSeq

LEMMA EntriesOfPut ==
  ASSUME NEW file, NEW content
  PROVE  Entries(Put(file, content)) = {[file |-> file, content |-> content]} /\ IsSeq(Put(file, content))
<1> DEFINE w == [file |-> file, content |-> content]
<1>1. Put(file, content) = <<w>> /\ <<w>> \in Seq({w}) /\ DOMAIN <<w>> = {1} /\ <<w>>[1] = w
  BY DEF Put
<1> HIDE DEF w
<1>2. Entries(<<w>>) = {w} /\ IsSeq(<<w>>)
  BY <1>1 DEF Entries, IsSeq
<1> QED
  BY <1>1, <1>2 DEF w

LEMMA EntriesOfBoth ==
  ASSUME NEW a, NEW b, IsSeq(a), IsSeq(b)
  PROVE  Entries(a \o b) = Entries(a) \cup Entries(b) /\ IsSeq(a \o b)
<1>1. PICK S : a \in Seq(S)
  BY DEF IsSeq
<1>2. PICK T : b \in Seq(T)
  BY DEF IsSeq
<1>3. a \in Seq(S \cup T) /\ b \in Seq(S \cup T)
  BY <1>1, <1>2
<1>4. a \o b \in Seq(S \cup T)
  BY <1>3
<1>5. /\ \A i \in DOMAIN (a \o b) :
           \/ i \in DOMAIN a /\ (a \o b)[i] = a[i]
           \/ i - Len(a) \in DOMAIN b /\ (a \o b)[i] = b[i - Len(a)]
      /\ \A i \in DOMAIN a : i \in DOMAIN (a \o b) /\ (a \o b)[i] = a[i]
      /\ \A i \in DOMAIN b : i + Len(a) \in DOMAIN (a \o b) /\ (a \o b)[i + Len(a)] = b[i]
  BY <1>3
<1> QED
  BY <1>4, <1>5 DEF Entries, IsSeq

\* After a write, what is pending of other files is the same.
LEMMA PendingSays ==
  ASSUME IsSeq(job.writes), job.writes # <<>>, job'.writes = Tail(job.writes)
  PROVE  /\ \A file : Pending(file)' \subseteq Pending(file)
         /\ \A file : file # Head(job.writes).file => Pending(file)' = Pending(file)
         /\ Head(job.writes) \in Pending(Head(job.writes).file)
         /\ Entries(job'.writes) \subseteq Entries(job.writes)
<1>1. \A file : Pending(file)' = {x \in Entries(job'.writes) : x.file = file}
  BY DEF Pending, Entries
<1> QED
  BY <1>1, EntriesSay DEF Pending

\* What is left of writes in order is in order, and nothing is left that had
\* to come before its head.
LEMMA OrderSays ==
  ASSUME NEW writes, IsSeq(writes), writes # <<>>, InOrder(writes)
  PROVE  /\ InOrder(Tail(writes))
         /\ \A x \in Entries(writes) : <<x.file, Head(writes).file>> \notin Before
<1>1. PICK S : writes \in Seq(S)
  BY DEF IsSeq
<1>2. 1 \in DOMAIN writes /\ Head(writes) = writes[1] /\ \A i \in DOMAIN writes : i \in Nat /\ ~ (i < 1)
  BY <1>1
<1>3. \A i \in DOMAIN Tail(writes) : i \in Nat /\ i + 1 \in DOMAIN writes /\ Tail(writes)[i] = writes[i + 1]
  BY <1>1
<1>4. \A x \in Entries(writes) : <<x.file, Head(writes).file>> \notin Before
  BY <1>2 DEF InOrder, Entries
<1>5. ASSUME NEW i \in DOMAIN Tail(writes), NEW j \in DOMAIN Tail(writes),
             <<Tail(writes)[i].file, Tail(writes)[j].file>> \in Before
      PROVE  i < j
  <2>1. i + 1 < j + 1
    BY <1>3, <1>5 DEF InOrder
  <2> QED
    BY <1>3, <2>1
<1> QED
  BY <1>4, <1>5 DEF InOrder

\* A document is put together from its parts, the flag too.
LEMMA PedanticPart ==
  ASSUME NEW run, NEW hash, NEW home, NEW selection, NEW pedantic, NEW findings
  PROVE  Document(run, hash, home, selection, pedantic, findings).pedantic = pedantic
BY DEF Document

\* A finding that was not probed has the verdict its edge's bindings give it.
LEMMA ReasonedDeclares ==
  ASSUME NEW rs, NEW i, rs[i].edges \in SUBSET Edges, NEW cut, NEW probes, NEW selection,
         NEW f \in Reasoned(Facts(rs[i].edges, rs[i].bound, cut, probes), selection), ~ f.probed
  PROVE  f.verdict = DeclaredVerdict(OwnIn(rs, i), f.edge)
<1> DEFINE live == Facts(rs[i].edges, rs[i].bound, cut, probes)
<1>1. live.edges = rs[i].edges /\ live.bound = rs[i].bound /\ OwnIn(rs, i).bound = rs[i].bound
  BY DEF Facts, OwnIn
<1> HIDE DEF live
<1>2. PICK e \in rs[i].edges : f = FindingOn(live, e)
  BY <1>1 DEF Reasoned, live
<1>3. f.edge = e /\ f.verdict = DeclaredVerdict(live, e)
  BY <1>2, FindingSound
<1>4. DeclaredVerdict(live, e) = DeclaredVerdict(OwnIn(rs, i), e)
  BY <1>1 DEF DeclaredVerdict
<1> QED
  BY <1>3, <1>4

\* The demotion lowers validated findings only.
LEMMA DemotedDeclares ==
  ASSUME NEW findings \in SUBSET FindingOf, NEW g \in Demoted(findings)
  PROVE  \E f \in findings :
           /\ g.edge = f.edge /\ g.probed = f.probed
           /\ g.verdict = f.verdict \/ (f.verdict = "VALIDATED" /\ g.verdict = "INCONCLUSIVE")
<1>1. PICK f \in findings :
        g = IF f.relation.pattern = "passrole_lambda" /\ f.verdict = "VALIDATED"
              THEN [f EXCEPT !.verdict = "INCONCLUSIVE"] ELSE f
  BY DEF Demoted
<1>2. f \in FindingOf
  OBVIOUS
<1>3. LET h == [f EXCEPT !.verdict = "INCONCLUSIVE"]
      IN  h.edge = f.edge /\ h.probed = f.probed /\ h.verdict = "INCONCLUSIVE"
  BY <1>2 DEF FindingOf
<1> QED
  BY <1>1, <1>3

\* What is reasoned over a collection's own graph and bindings, with the flag
\* or without, says what follows from the collection.
LEMMA OwnSays ==
  ASSUME NEW rs, NEW run, NEW hash, NEW home, NEW selection, NEW pedantic \in BOOLEAN, NEW cut \in BOOLEAN, NEW probes,
         NEW kept, rs[run].edges \in SUBSET Edges,
         LET found == Reasoned(Facts(rs[run].edges, rs[run].bound, cut, probes), selection)
         IN  kept = IF pedantic THEN Demoted(found) ELSE found,
         home = Missing => probes = {},
         cut => rs[run].exhausted
  PROVE  Says(rs, Document(run, hash, home, selection, pedantic, kept))
<1> DEFINE found == Reasoned(Facts(rs[run].edges, rs[run].bound, cut, probes), selection)
           d == Document(run, hash, home, selection, pedantic, kept)
<1>1. /\ d.run = run /\ d.home = home /\ d.selection = selection /\ d.pedantic = pedantic
      /\ d.findings = kept
  BY DocumentParts, PedanticPart
<1>2. kept = IF pedantic THEN Demoted(found) ELSE found
  OBVIOUS
<1>3. \A f \in found : f \in FindingOf /\ (f.probed \/ f.verdict = DeclaredVerdict(OwnIn(rs, run), f.edge))
  <2>1. found \subseteq FindingOf
    BY ReasonedSound
  <2>2. ASSUME NEW f \in found, ~ f.probed PROVE f.verdict = DeclaredVerdict(OwnIn(rs, run), f.edge)
    BY <2>2, ReasonedDeclares
  <2> QED
    BY <2>1, <2>2
<1>4. Unprobed(d) /\ ~ rs[run].exhausted => kept = Reasoned(OwnIn(rs, run), selection)
  <2>1. ASSUME Unprobed(d), ~ rs[run].exhausted PROVE ~ pedantic /\ probes = {} /\ cut = FALSE
    BY <1>1, <2>1 DEF Unprobed
  <2> QED
    BY <1>2, <2>1 DEF OwnIn
<1> HIDE DEF found, d
<1>5. ASSUME NEW g \in kept
      PROVE  \/ g.probed \/ g.verdict = DeclaredVerdict(OwnIn(rs, run), g.edge)
             \/ /\ pedantic /\ DeclaredVerdict(OwnIn(rs, run), g.edge) = "VALIDATED"
                /\ g.verdict = "INCONCLUSIVE"
  <2>1. CASE ~ pedantic
    BY <1>2, <1>3, <1>5, <2>1
  <2>2. CASE pedantic
    <3>1. g \in Demoted(found) /\ found \in SUBSET FindingOf
      BY <1>2, <1>3, <1>5, <2>2
    <3>2. PICK f \in found :
            /\ g.edge = f.edge /\ g.probed = f.probed
            /\ g.verdict = f.verdict \/ (f.verdict = "VALIDATED" /\ g.verdict = "INCONCLUSIVE")
      BY <3>1, DemotedDeclares
    <3> QED
      BY <1>3, <2>2, <3>2
  <2> QED
    BY <2>1, <2>2
<1> QED
  BY <1>1, <1>4, <1>5 DEF Says, VerdictsFit, d

\* A replay of a scenario with its own bindings says what follows from its
\* collection.
LEMMA ReplayedSays ==
  ASSUME Markers, NEW rs, NEW scenario, Sound(rs, "scenario", scenario), NEW bindings, NEW overlay,
         NEW useOverlay \in BOOLEAN, NEW selection, NEW d,
         d = ReplayedFrom(scenario, bindings, overlay, useOverlay, selection), Whole(d)
  PROVE  /\ Whole(scenario) /\ Whole(bindings) /\ d.run = scenario.run
         /\ bindings = rs[d.run].bound => Says(rs, d)
<1> DEFINE sound == /\ Whole(scenario) /\ HashStable(scenario)
                    /\ Whole(bindings)
                    /\ useOverlay => Whole(overlay) /\ Joins(overlay, Recomputed(scenario), scenario.edges)
           unflagged == FALSE
           probes == IF useOverlay THEN overlay.probes ELSE {}
           found == Reasoned(Facts(scenario.edges, bindings, unflagged, probes), selection)
           home == IF useOverlay THEN overlay.hash ELSE Missing
           document == Document(scenario.run, Recomputed(scenario), home, selection, unflagged, found)
<1>1. sound
  <2>1. ~ sound => d = Missing
    BY DEF ReplayedFrom
  <2> QED
    BY <2>1 DEF Whole
<1>2. d = document
  BY <1>1 DEF ReplayedFrom
<1>3. d.run = scenario.run
  <2> HIDE DEF found, home, unflagged
  <2> QED
    BY <1>2, DocumentParts
<1>4. ScenarioSound(rs, scenario)
  BY <1>1 DEF Sound
<1>5. Recomputed(scenario) = GraphIn(rs, scenario.run) /\ Recomputed(scenario) \in Hash
  BY <1>1, <1>4 DEF HashStable, ScenarioSound
<1>6. rs[scenario.run].edges = scenario.edges /\ scenario.edges \in SUBSET Edges
  BY <1>4, <1>5 DEF Recomputed, GraphIn, Graph, ScenarioSound
<1>7. home = Missing => probes = {}
  <2>1. useOverlay => home = Recomputed(scenario)
    BY <1>1 DEF Joins
  <2>2. Missing \notin Hash
    BY DEF Markers
  <2> QED
    BY <1>5, <2>1, <2>2
<1>8. ASSUME bindings = rs[scenario.run].bound PROVE Says(rs, document)
  <2>1. found = Reasoned(Facts(rs[scenario.run].edges, rs[scenario.run].bound, unflagged, probes), selection)
    BY <1>6, <1>8
  <2>2. found = IF unflagged THEN Demoted(found) ELSE found
    OBVIOUS
  <2>3. unflagged \in BOOLEAN /\ (unflagged => rs[scenario.run].exhausted)
    OBVIOUS
  <2> HIDE DEF home, probes, unflagged
  <2> QED
    BY <1>6, <1>7, <2>1, <2>2, <2>3, OwnSays
<1> QED
  BY <1>1, <1>2, <1>3, <1>8

\* Putting short lists together.
LEMMA SmallLists ==
  ASSUME NEW a, NEW b, NEW c
  PROVE  /\ <<a>> \o <<>> = <<a>> /\ <<a>> \o <<b>> = <<a, b>>
         /\ <<a, b>> \o <<>> = <<a, b>> /\ <<a, b>> \o <<c>> = <<a, b, c>>
<1> DEFINE S == {a, b, c}
<1>1. <<a>> \in Seq(S) /\ Len(<<a>>) = 1 /\ <<a>>[1] = a
  OBVIOUS
<1>2. <<a, b>> \in Seq(S) /\ Len(<<a, b>>) = 2 /\ <<a, b>>[1] = a /\ <<a, b>>[2] = b
  OBVIOUS
<1>3. /\ <<a, b, c>> \in Seq(S) /\ Len(<<a, b, c>>) = 3
      /\ <<a, b, c>>[1] = a /\ <<a, b, c>>[2] = b /\ <<a, b, c>>[3] = c
  OBVIOUS
<1>4. <<b>> \in Seq(S) /\ Len(<<b>>) = 1 /\ <<b>>[1] = b
  OBVIOUS
<1>5. <<c>> \in Seq(S) /\ Len(<<c>>) = 1 /\ <<c>>[1] = c
  OBVIOUS
<1>6. <<a>> \o <<>> = <<a>> /\ <<a, b>> \o <<>> = <<a, b>>
  BY <1>1, <1>2, ConcatEmptySeq
<1>7. <<a>> \o <<b>> = <<a, b>>
  <2> DEFINE l == <<a>> \o <<b>>
  <2>1. /\ l \in Seq(S) /\ Len(l) = 2
        /\ \A i \in 1 .. 2 : l[i] = IF i <= 1 THEN <<a>>[i] ELSE <<b>>[i - 1]
    BY <1>1, <1>4, ConcatProperties
  <2>2. l[1] = a /\ l[2] = b
    BY <1>1, <1>4, <2>1
  <2> HIDE DEF l
  <2>3. \A i \in 1 .. 2 : l[i] = <<a, b>>[i]
    BY <1>2, <2>2
  <2> QED
    BY <1>2, <2>1, <2>3, SeqEqual DEF l
<1>8. <<a, b>> \o <<c>> = <<a, b, c>>
  <2> DEFINE l == <<a, b>> \o <<c>>
  <2>1. /\ l \in Seq(S) /\ Len(l) = 3
        /\ \A i \in 1 .. 3 : l[i] = IF i <= 2 THEN <<a, b>>[i] ELSE <<c>>[i - 2]
    BY <1>2, <1>5, ConcatProperties
  <2>2. l[1] = a /\ l[2] = b /\ l[3] = c
    BY <1>2, <1>5, <2>1
  <2> HIDE DEF l
  <2>3. \A i \in 1 .. 3 : l[i] = <<a, b, c>>[i]
    BY <1>3, <2>2
  <2> QED
    BY <1>3, <2>1, <2>3, SeqEqual DEF l
<1> QED
  BY <1>6, <1>7, <1>8

\* A collection writes its scenario, then its bindings if there are any, then
\* its findings, which say what follows from those.
LEMMA CollectedSays ==
  ASSUME DirectoryConstants, Markers, NEW rs \in Seq(Worlds), NEW w \in Worlds, NEW o \in Options
  PROVE  LET more     == Append(rs, w)
             scenario == [file |-> "scenario", content |-> EmitScenario(w, Len(rs) + 1)]
             bindings == [file |-> "bindings", content |-> w.bound]
             writes   == CollectWrites(w, Len(rs) + 1, o)
         IN  \E x :
               /\ x.file = "findings"
               /\ Whole(x.content) => Says(more, x.content)
               /\ w.bound = {} => writes = <<scenario>> \/ writes = <<scenario, x>>
               /\ w.bound # {} => writes = <<scenario, bindings>> \/ writes = <<scenario, bindings, x>>
<1> DEFINE more == Append(rs, w)
           run == Len(rs) + 1
           hash == Graph(w.edges, w.bound)
           scenario == [file |-> "scenario", content |-> EmitScenario(w, run)]
           bindings == [file |-> "bindings", content |-> w.bound]
           overlay == IF o.overlay THEN files["overlay"] ELSE Missing
           probes == IF Whole(overlay) THEN overlay.probes ELSE {}
           cut == w.exhausted
           found == Reasoned(Facts(w.edges, w.bound, cut, probes), o.selection)
           kept == IF o.pedantic THEN Demoted(found) ELSE found
           home == IF o.overlay THEN overlay.hash ELSE Missing
           document == Document(run, hash, home, o.selection, o.pedantic, kept)
           x == [file |-> "findings", content |-> IF CollectFindings(w, run, o) = Fail THEN Missing ELSE document]
<1>1. run \in DOMAIN more /\ more[run] = w
  OBVIOUS
<1>2. w \in World /\ \A t \in w.bound : t.edge \in w.edges
  BY DEF DirectoryConstants
<1>3. w.edges \in SUBSET Edges /\ w.bound \in SUBSET Tie /\ cut \in BOOLEAN
  BY <1>2 DEF World
<1>4. hash \in Hash
  BY <1>2, <1>3 DEF Hash, Graph
<1>5. o.none \in BOOLEAN /\ o.overlay \in BOOLEAN /\ o.pedantic \in BOOLEAN
  BY DEF DirectoryConstants
<1>6. \/ CollectFindings(w, run, o) = <<>>
      \/ CollectFindings(w, run, o) = Fail
      \/ /\ CollectFindings(w, run, o) = Put("findings", document)
         /\ o.overlay => Whole(overlay) /\ Joins(overlay, hash, w.edges)
  BY <1>5, Zenon DEF CollectFindings
<1>8. CollectFindings(w, run, o) = <<>> \/ CollectFindings(w, run, o) = <<x>>
  <2>1. CASE CollectFindings(w, run, o) = Fail
    <3> HIDE DEF document
    <3> QED
      BY <2>1 DEF Fail, Put
  <2>2. CASE CollectFindings(w, run, o) # Fail
    <3> HIDE DEF document
    <3> QED
      BY <1>6, <2>2 DEF Put
  <2> QED
    BY <2>1, <2>2
<1>9. ASSUME Whole(x.content), CollectFindings(w, run, o) # <<>>
      PROVE  Says(more, x.content)
  <2>1. CollectFindings(w, run, o) # Fail
    BY <1>9 DEF Whole
  <2>2. x.content = document
    <3> HIDE DEF document
    <3> QED
      BY <2>1
  <2>3. o.overlay => Whole(overlay) /\ Joins(overlay, hash, w.edges)
    BY <1>6, <1>9, <2>1
  <2>4. home = Missing => probes = {}
    <3>1. o.overlay => home = hash
      BY <2>3 DEF Joins
    <3>2. Missing \notin Hash
      BY DEF Markers
    <3>3. ~ o.overlay => probes = {}
      BY DEF Whole
    <3> QED
      BY <1>4, <3>1, <3>2, <3>3
  <2>5. found = Reasoned(Facts(more[run].edges, more[run].bound, cut, probes), o.selection)
    <3> HIDE DEF probes, cut, more, run
    <3> QED
      BY <1>1
  <2>6. (cut => more[run].exhausted) /\ more[run].edges \in SUBSET Edges
    <3> HIDE DEF more, run
    <3> QED
      BY <1>1, <1>3
  <2> HIDE DEF x, hash, probes, home, cut, run, more
  <2>7. kept = IF o.pedantic THEN Demoted(found) ELSE found
    OBVIOUS
  <2> HIDE DEF found, kept
  <2>8. Says(more, document)
    BY <1>3, <1>5, <2>4, <2>5, <2>6, <2>7, OwnSays
  <2> QED
    BY <2>2, <2>8
<1>10. WriteOutputs(w, run) = IF w.bound = {} THEN <<scenario>> ELSE <<scenario, bindings>>
  <2> HIDE DEF run
  <2>1. CASE w.bound = {}
    <3>1. WriteOutputs(w, run) = <<scenario>> \o <<>>
      BY <2>1 DEF WriteOutputs, Put
    <3>2. <<scenario>> \o <<>> = <<scenario>>
      OBVIOUS
    <3> QED
      BY <2>1, <3>1, <3>2
  <2>2. CASE w.bound # {}
    <3>1. WriteOutputs(w, run) = <<scenario>> \o <<bindings>>
      BY <2>2 DEF WriteOutputs, Put
    <3> HIDE DEF scenario, bindings
    <3>2. <<scenario>> \o <<bindings>> = <<scenario, bindings>>
      BY SmallLists
    <3> QED
      BY <2>2, <3>1, <3>2
  <2> QED
    BY <2>1, <2>2
<1>11. CollectWrites(w, run, o) = WriteOutputs(w, run) \o CollectFindings(w, run, o)
  BY DEF CollectWrites
<1> DEFINE y == IF CollectFindings(w, run, o) = <<>> THEN [file |-> "findings", content |-> Missing] ELSE x
<1>12. x.file = "findings"
  OBVIOUS
<1> HIDE DEF x, scenario, bindings, more, run
<1>13. y.file = "findings" /\ (CollectFindings(w, run, o) = <<>> => y.content = Missing)
       /\ (CollectFindings(w, run, o) # <<>> => y = x)
  BY <1>12
<1> HIDE DEF y
<1>14. Whole(y.content) => Says(more, y.content)
  BY <1>9, <1>13 DEF Whole
<1>15. /\ <<scenario>> \o <<>> = <<scenario>> /\ <<scenario>> \o <<y>> = <<scenario, y>>
       /\ <<scenario, bindings>> \o <<>> = <<scenario, bindings>>
       /\ <<scenario, bindings>> \o <<y>> = <<scenario, bindings, y>>
  BY SmallLists
<1>16. /\ w.bound = {} => CollectWrites(w, run, o) = <<scenario>> \/ CollectWrites(w, run, o) = <<scenario, y>>
       /\ w.bound # {} => \/ CollectWrites(w, run, o) = <<scenario, bindings>>
                          \/ CollectWrites(w, run, o) = <<scenario, bindings, y>>
  BY <1>8, <1>10, <1>11, <1>13, <1>15
<1> QED
  BY <1>13, <1>14, <1>16 DEF scenario, bindings, more, run

\* A document that a replay of what is there now would write.
FromHere(d) == Whole(d) /\ d.run \in settled => Says(runs, d)

\* What a document says of its run does not change with a further collection.
LEMMA StillSays ==
  ASSUME IInv, runs' = runs \/ \E w \in Worlds : runs' = Append(runs, w)
  PROVE  /\ \A i \in DOMAIN runs : i \in Nat /\ i <= Len(runs) /\ i \in DOMAIN runs' /\ runs'[i] = runs[i]
         /\ \A d : d.run \in DOMAIN runs /\ Says(runs, d) => Says(runs', d)
<1>1. \A i \in DOMAIN runs : i \in Nat /\ i <= Len(runs) /\ i \in DOMAIN runs' /\ runs'[i] = runs[i]
  <2>1. runs \in Seq(Worlds)
    BY DEF IInv
  <2>2. CASE runs' = runs
    BY <2>1, <2>2
  <2>3. ASSUME NEW w \in Worlds, runs' = Append(runs, w)
        PROVE  \A i \in DOMAIN runs : i \in Nat /\ i <= Len(runs) /\ i \in DOMAIN runs' /\ runs'[i] = runs[i]
    BY <2>1, <2>3
  <2> QED
    BY <2>2, <2>3
<1>2. ASSUME NEW d, d.run \in DOMAIN runs, Says(runs, d) PROVE Says(runs', d)
  <2>1. runs'[d.run] = runs[d.run]
    BY <1>1, <1>2
  <2>2. OwnIn(runs', d.run) = OwnIn(runs, d.run)
    BY <2>1 DEF OwnIn
  <2> QED
    BY <1>2, <2>1, <2>2 DEF Says, VerdictsFit
<1> QED
  BY <1>1, <1>2

\* A command that starts keeps what is known of the files.
LEMMA FilesStay ==
  ASSUME IInv, RInv, files' = files, settled' = settled, runs' = runs \/ \E w \in Worlds : runs' = Append(runs, w)
  PROVE  (settled \subseteq DOMAIN runs)' /\ FilesSay' /\ Matching'
<1>1. \A f \in DocumentFiles : Whole(files[f]) => files[f].run \in DOMAIN runs
  BY DEF IInv, Sound, DocumentSound, DocumentFiles, Files
<1>2. settled \subseteq DOMAIN runs
  BY DEF RInv
<1>3. /\ \A i \in DOMAIN runs : i \in DOMAIN runs' /\ runs'[i] = runs[i]
      /\ \A d : d.run \in DOMAIN runs /\ Says(runs, d) => Says(runs', d)
  BY StillSays
<1>4. ASSUME NEW f \in DocumentFiles, Whole(files[f]), files[f].run \in settled PROVE Says(runs', files[f])
  BY <1>1, <1>3, <1>4 DEF RInv, FilesSay
<1>5. FilesSay'
  BY <1>4 DEF FilesSay, Whole
<1>6. Matching'
  BY <1>2, <1>3 DEF RInv, Matching, Whole
<1> QED
  BY <1>2, <1>3, <1>5, <1>6

\* A command that writes no scenario and no bindings.
LEMMA CommandRepeats ==
  ASSUME IInv, RInv, NEW command, NEW writes, Start(command, writes, 0), UNCHANGED runs,
         \A x \in Entries(writes) : /\ x.file \notin {"scenario", "bindings"}
                                    /\ x.file \in DocumentFiles => FromHere(x.content)
  PROVE  RInv'
<1>1. files' = files /\ job'.writes = writes /\ runs' = runs /\ settled' = settled
  BY DEF Start
<1>2. (settled \subseteq DOMAIN runs)' /\ FilesSay' /\ Matching'
  BY <1>1, FilesStay
<1>3. Pending("scenario")' = {} /\ Pending("bindings")' = {} /\ Entries(job.writes)' = Entries(writes)
  BY <1>1 DEF Pending, Entries
<1>4. Coming'
  <2>1. ASSUME NEW x \in Entries(writes), x.file \in DocumentFiles, Whole(x.content), x.content.run \in settled
        PROVE  Says(runs, x.content)
    BY <2>1 DEF FromHere
  <2> QED
    BY <1>1, <1>3, <2>1 DEF Coming, Whole
<1>5. Underway'
  BY <1>3 DEF Underway
<1>6. InOrder(job.writes)'
  <2>1. \A i \in DOMAIN writes : writes[i].file \notin {"scenario", "bindings"}
    BY DEF Entries
  <2>2. \A i, j \in DOMAIN writes : <<writes[i].file, writes[j].file>> \notin Before
    BY <2>1 DEF Before
  <2> QED
    BY <1>1, <2>2 DEF InOrder
<1> QED
  BY <1>2, <1>4, <1>5, <1>6 DEF RInv

\* A collection: nothing is there yet of its run.
LEMMA CollectRepeats ==
  ASSUME DirectoryConstants, Markers, IInv, RInv, NEW w \in Worlds, NEW o \in Options, Collect(w, o)
  PROVE  RInv'
<1> DEFINE run == Len(runs) + 1
           more == Append(runs, w)
           scenario == [file |-> "scenario", content |-> EmitScenario(w, run)]
           bindings == [file |-> "bindings", content |-> w.bound]
           writes == CollectWrites(w, run, o)
<1>1. files' = files /\ job'.writes = writes /\ runs' = more /\ runs \in Seq(Worlds) /\ settled' = settled
  BY DEF Collect, Start, IInv
<1>2. /\ (settled \subseteq DOMAIN runs)' /\ FilesSay' /\ Matching'
      /\ \A i \in DOMAIN runs : i \in Nat /\ i <= Len(runs)
  BY <1>1, FilesStay, StillSays
<1>3. Len(runs') = run /\ run \in Nat /\ run \in DOMAIN more /\ more[run] = w
  BY <1>1
<1>4. NoneOfThisRun'
  <2>1. \A f \in DocumentFiles : Whole(files[f]) => files[f].run \in DOMAIN runs
    BY DEF IInv, Sound, DocumentSound, DocumentFiles, Files
  <2>2. \A f \in DocumentFiles : Whole(files[f]) => files[f].run # run
    BY <1>1, <1>2, <2>1
  <2> QED
    BY <1>1, <1>3, <2>2 DEF NoneOfThisRun, Whole
<1>5. PICK x :
        /\ x.file = "findings"
        /\ Whole(x.content) => Says(more, x.content)
        /\ w.bound = {} => writes = <<scenario>> \/ writes = <<scenario, x>>
        /\ w.bound # {} => writes = <<scenario, bindings>> \/ writes = <<scenario, bindings, x>>
  BY <1>1, CollectedSays
<1>6. EmitScenario(w, run).run = run /\ EmitScenario(w, run) # Torn /\ w.bound # Torn
  <2>1. w.edges \in SUBSET Edges /\ w.bound \in SUBSET Tie /\ \A t \in w.bound : t.edge \in w.edges
    BY DEF DirectoryConstants, World
  <2>2. EmitScenario(w, run) \in Scenario
    BY <1>3, <2>1 DEF EmitScenario, Scenario, Hash, Graph
  <2> QED
    BY <2>2 DEF Markers, EmitScenario
<1>7. /\ scenario.file = "scenario" /\ scenario.content.run = run /\ scenario.content # Torn
      /\ bindings.file = "bindings" /\ bindings.content = w.bound /\ bindings.content # Torn
  BY <1>6
<1> HIDE DEF run, more, scenario, bindings, writes
<1>8. /\ \A a : Entries(<<a>>) = {a}
      /\ \A a, b : Entries(<<a, b>>) = {a, b}
      /\ \A a, b, c : Entries(<<a, b, c>>) = {a, b, c}
  <2>1. \A a : DOMAIN <<a>> = {1} /\ <<a>>[1] = a
    OBVIOUS
  <2>2. \A a, b : DOMAIN <<a, b>> = {1, 2} /\ <<a, b>>[1] = a /\ <<a, b>>[2] = b
    OBVIOUS
  <2>3. \A a, b, c : DOMAIN <<a, b, c>> = {1, 2, 3} /\ <<a, b, c>>[1] = a /\ <<a, b, c>>[2] = b /\ <<a, b, c>>[3] = c
    OBVIOUS
  <2> QED
    BY <2>1, <2>2, <2>3 DEF Entries
<1>9. /\ Entries(writes) \subseteq {scenario, bindings, x} /\ scenario \in Entries(writes)
      /\ w.bound # {} => bindings \in Entries(writes)
  BY <1>5, <1>8
<1>10. /\ Entries(job.writes)' = Entries(writes)
       /\ Pending("scenario")' = {scenario}
       /\ w.bound # {} => Pending("bindings")' = {bindings}
       /\ Pending("bindings")' \subseteq {bindings}
  <2>1. \A f : Pending(f)' = {y \in Entries(writes) : y.file = f}
    BY <1>1 DEF Pending, Entries
  <2>2. "scenario" # "bindings" /\ "findings" # "scenario" /\ "findings" # "bindings"
    OBVIOUS
  <2> QED
    BY <1>1, <1>5, <1>7, <1>9, <2>1, <2>2 DEF Entries
<1>11. Coming'
  <2>1. ASSUME NEW y \in Entries(writes), y.file \in DocumentFiles, Whole(y.content)
        PROVE  Says(runs', y.content)
    <3>1. y = x
      BY <1>7, <1>9, <2>1 DEF DocumentFiles
    <3> QED
      BY <1>1, <1>5, <2>1, <3>1
  <2> QED
    BY <1>10, <2>1 DEF Coming, Whole
<1>12. Underway'
  <2>1. run \notin settled'
    <3>1. \A i \in settled : i <= Len(runs)
      BY <1>2 DEF RInv
    <3>2. run = Len(runs) + 1 /\ Len(runs) \in Nat
      BY <1>1 DEF run
    <3> QED
      BY <1>1, <1>3, <3>1, <3>2
  <2> QED
    BY <1>1, <1>3, <1>4, <1>7, <1>10, <2>1 DEF Underway
<1>13. InOrder(job.writes)'
  <2> DEFINE Good(s) == \A i, j \in DOMAIN s : <<s[i].file, s[j].file>> \in Before => i < j
  <2>1. /\ <<"scenario", "scenario">> \notin Before /\ <<"bindings", "bindings">> \notin Before
        /\ <<"findings", "findings">> \notin Before /\ <<"bindings", "scenario">> \notin Before
        /\ <<"findings", "scenario">> \notin Before /\ <<"findings", "bindings">> \notin Before
    BY DEF Before, DocumentFiles
  <2>2. Good(<<scenario>>)
    BY <1>7, <2>1
  <2>3. Good(<<scenario, x>>)
    <3>1. DOMAIN <<scenario, x>> = {1, 2} /\ <<scenario, x>>[1] = scenario /\ <<scenario, x>>[2] = x
      OBVIOUS
    <3> DEFINE s == <<scenario, x>>
    <3> HIDE DEF s
    <3>2. s[1].file = "scenario" /\ s[2].file = "findings" /\ DOMAIN s = {1, 2}
      BY <1>5, <1>7, <3>1 DEF s
    <3>3. Good(s)
      BY <2>1, <3>2
    <3> QED
      BY <3>3 DEF s
  <2>4. Good(<<scenario, bindings>>)
    <3>1. DOMAIN <<scenario, bindings>> = {1, 2} /\ <<scenario, bindings>>[1] = scenario
          /\ <<scenario, bindings>>[2] = bindings
      OBVIOUS
    <3> DEFINE s == <<scenario, bindings>>
    <3> HIDE DEF s
    <3>2. s[1].file = "scenario" /\ s[2].file = "bindings" /\ DOMAIN s = {1, 2}
      BY <1>7, <3>1 DEF s
    <3>3. Good(s)
      BY <2>1, <3>2
    <3> QED
      BY <3>3 DEF s
  <2>5. Good(<<scenario, bindings, x>>)
    <3>1. DOMAIN <<scenario, bindings, x>> = {1, 2, 3} /\ <<scenario, bindings, x>>[1] = scenario
          /\ <<scenario, bindings, x>>[2] = bindings /\ <<scenario, bindings, x>>[3] = x
      OBVIOUS
    <3> DEFINE s == <<scenario, bindings, x>>
    <3> HIDE DEF s
    <3>2. s[1].file = "scenario" /\ s[2].file = "bindings" /\ s[3].file = "findings" /\ DOMAIN s = {1, 2, 3}
      BY <1>5, <1>7, <3>1 DEF s
    <3>3. Good(s)
      BY <2>1, <3>2
    <3> QED
      BY <3>3 DEF s
  <2>6. Good(writes)
    <3> HIDE DEF Good
    <3> QED
      BY <1>5, <2>2, <2>3, <2>4, <2>5
  <2> QED
    BY <1>1, <2>6 DEF InOrder
<1> QED
  BY <1>2, <1>11, <1>12, <1>13 DEF RInv

\* A write of something else than the scenario and the bindings.
LEMMA WriteAway ==
  ASSUME RInv, UNCHANGED <<runs, settled>>, Entries(job'.writes) \subseteq Entries(job.writes),
         \A f \in {"scenario", "bindings"} : Pending(f)' = Pending(f),
         Pending("scenario") = {} => files'["scenario"] = files["scenario"],
         \/ Pending("bindings") = {}
         \/ \A f \in DocumentFiles : Whole(files'[f]) => files'[f] = files[f]
  PROVE  Coming' /\ Underway'
<1>1. Entries(job.writes)' = Entries(job'.writes)
  BY DEF Entries
<1>2. Coming'
  <2>1. ASSUME NEW x \in Entries(job'.writes), x.file \in DocumentFiles, Whole(x.content),
               x.content.run \in settled \/ Pending("bindings") # {}
        PROVE  Says(runs, x.content)
    BY <2>1 DEF RInv, Coming
  <2> QED
    BY <1>1, <2>1 DEF Coming, Whole
<1>3. ASSUME Pending("bindings") # {} PROVE NoneOfThisRun'
  BY <1>3 DEF RInv, Underway, NoneOfThisRun, Whole
<1>4. Underway'
  BY <1>3 DEF RInv, Underway
<1> QED
  BY <1>2, <1>4

\* Truncating a file, or leaving it cut short.
LEMMA TruncateRepeats ==
  ASSUME IInv, RInv, Truncate PROVE RInv'
<1> DEFINE x == Head(job.writes)
           f == x.file
<1>1. /\ job.writes # <<>> /\ files' = [files EXCEPT ![f] = Torn] /\ runs' = runs /\ settled' = settled
      /\ \/ job' = job
         \/ x.content = Torn /\ job' = [job EXCEPT !.writes = Tail(@)]
  BY DEF Truncate
<1>2. IsSeq(job.writes) /\ f \in Files /\ DOMAIN files = Files /\ x \in Entries(job.writes)
  BY <1>1, NextWriteSound, EntriesSay DEF IInv, SoundWrites
<1>3. /\ DOMAIN files' = Files /\ files'[f] = Torn /\ ~ Whole(Torn)
      /\ \A g \in Files : g # f => files'[g] = files[g]
  BY <1>1, <1>2 DEF Whole
<1>4. /\ Entries(job'.writes) \subseteq Entries(job.writes) /\ InOrder(job'.writes)
      /\ \A g \in {"scenario", "bindings"} : Pending(g)' = Pending(g)
  <2>1. CASE job' = job
    BY <2>1 DEF RInv, Pending, Entries
  <2>2. CASE x.content = Torn /\ job' = [job EXCEPT !.writes = Tail(@)]
    <3>1. job'.writes = Tail(job.writes)
      BY <2>2 DEF IInv
    <3>2. f # "scenario" /\ f # "bindings"
      BY <1>2, <2>2 DEF RInv, Underway, Pending
    <3> QED
      BY <1>1, <1>2, <3>1, <3>2, PendingSays, OrderSays DEF RInv
  <2> QED
    BY <1>1, <2>1, <2>2
<1>5. Pending("scenario") = {} => files'["scenario"] = files["scenario"]
  <2>1. x \in Pending(f)
    BY <1>2 DEF Pending
  <2>2. "scenario" \in Files
    BY DEF Files
  <2> HIDE DEF x, f
  <2> QED
    BY <1>3, <2>1, <2>2
<1>6. \A g \in DocumentFiles \cup {"scenario", "bindings"} : Whole(files'[g]) => files'[g] = files[g]
  <2>1. DocumentFiles \cup {"scenario", "bindings"} \subseteq Files
    BY DEF DocumentFiles, Files
  <2> HIDE DEF f
  <2> QED
    BY <1>3, <2>1
<1>7. Coming' /\ Underway'
  BY <1>1, <1>4, <1>5, <1>6, WriteAway
<1>8. FilesSay'
  BY <1>1, <1>6 DEF RInv, FilesSay, Whole
<1>9. Matching'
  BY <1>1, <1>6 DEF RInv, Matching, Whole
<1>10. InOrder(job.writes)'
  BY <1>4 DEF InOrder
<1> QED
  BY <1>1, <1>7, <1>8, <1>9, <1>10 DEF RInv

\* A file that is filled in.
LEMMA FillRepeats ==
  ASSUME IInv, RInv, Fill PROVE RInv'
<1> DEFINE x == Head(job.writes)
           f == x.file
           c == x.content
<1>1. /\ job.writes # <<>> /\ files' = [files EXCEPT ![f] = c] /\ runs' = runs
      /\ Whole(c) /\ job'.writes = Tail(job.writes)
      /\ settled' = IF f = "bindings" THEN settled \cup {Len(runs)} ELSE settled
  BY DEF Fill, Whole, IInv
<1>2. IsSeq(job.writes) /\ f \in Files /\ DOMAIN files = Files /\ x \in Entries(job.writes)
  BY <1>1, NextWriteSound, EntriesSay DEF IInv, SoundWrites
<1>3. /\ DOMAIN files' = Files /\ files'[f] = c
      /\ \A g \in Files : g # f => files'[g] = files[g]
  BY <1>1, <1>2
<1>4. /\ \A g : Pending(g)' \subseteq Pending(g)
      /\ \A g : g # f => Pending(g)' = Pending(g)
      /\ x \in Pending(f) /\ Entries(job'.writes) \subseteq Entries(job.writes)
  BY <1>1, <1>2, PendingSays
<1>5. /\ InOrder(job'.writes)
      /\ \A y \in Entries(job.writes) : <<y.file, f>> \notin Before
  BY <1>1, <1>2, OrderSays DEF RInv
<1>6. InOrder(job.writes)'
  BY <1>5 DEF InOrder
<1>7. {"scenario", "bindings"} \cup DocumentFiles \subseteq Files
  BY DEF Files, DocumentFiles
<1>8. f \notin DocumentFiles => \A g \in DocumentFiles : files'[g] = files[g]
  <2> HIDE DEF f
  <2> QED
    BY <1>3, <1>7
<1>9. f \notin DocumentFiles /\ NoneOfThisRun => NoneOfThisRun'
  BY <1>1, <1>8 DEF NoneOfThisRun, Whole
<1>10. f \notin DocumentFiles /\ settled' = settled => FilesSay'
  BY <1>1, <1>8 DEF RInv, FilesSay, Whole
<1>11. Coming'
  <2>1. ASSUME NEW y \in Entries(job'.writes), y.file \in DocumentFiles, Whole(y.content),
               y.content.run \in settled' \/ Pending("bindings")' # {}
        PROVE  Says(runs, y.content)
    <3>1. y \in Entries(job.writes) /\ (y.content.run \in settled \/ Pending("bindings") # {})
      <4> HIDE DEF x, f, c
      <4> QED
        BY <1>1, <1>4, <2>1
    <3> QED
      BY <2>1, <3>1 DEF RInv, Coming
  <2>2. Entries(job.writes)' = Entries(job'.writes)
    BY DEF Entries
  <2> QED
    BY <1>1, <2>1, <2>2 DEF Coming, Whole
<1>12. CASE f = "scenario"
  <2>1. c.run = Len(runs) /\ Len(runs) \notin settled
    BY <1>4, <1>12 DEF RInv, Underway
  <2>2. /\ files'["scenario"] = c /\ files'["bindings"] = files["bindings"] /\ f \notin DocumentFiles
        /\ settled' = settled
    BY <1>1, <1>3, <1>7, <1>12 DEF DocumentFiles
  <2>3. Matching'
    BY <2>1, <2>2 DEF Matching
  <2>4. Underway'
    <3>1. Pending("bindings")' = Pending("bindings") /\ Pending("scenario")' \subseteq Pending("scenario")
      BY <1>4, <1>12
    <3> HIDE DEF c, x, f
    <3> QED
      BY <1>1, <1>9, <2>1, <2>2, <3>1 DEF RInv, Underway
  <2> QED
    BY <1>1, <1>6, <1>10, <1>11, <2>2, <2>3, <2>4 DEF RInv
<1>13. CASE f = "bindings"
  <2>1. Pending("scenario") = {}
    BY <1>5, <1>13 DEF Before, Pending
  <2>2. /\ files["scenario"].run = Len(runs) /\ NoneOfThisRun /\ Len(runs) \in DOMAIN runs
        /\ c = runs[Len(runs)].bound
    BY <1>4, <1>13, <2>1 DEF RInv, Underway
  <2>3. /\ files'["bindings"] = c /\ files'["scenario"] = files["scenario"] /\ f \notin DocumentFiles
        /\ settled' = settled \cup {Len(runs)}
    BY <1>1, <1>3, <1>7, <1>13 DEF DocumentFiles
  <2>4. Pending("scenario")' = {} /\ Pending("bindings")' \subseteq Pending("bindings")
    BY <1>4, <2>1
  <2> HIDE DEF c, x
  <2>5. FilesSay'
    <3>1. ASSUME NEW g \in DocumentFiles, Whole(files'[g]), files'[g].run \in settled' PROVE Says(runs, files'[g])
      BY <1>8, <2>2, <2>3, <3>1 DEF RInv, FilesSay, NoneOfThisRun
    <3> QED
      BY <1>1, <3>1 DEF FilesSay, Whole
  <2>6. Matching'
    BY <1>1, <2>2, <2>3 DEF Matching
  <2>7. Underway'
    BY <1>1, <1>4, <1>9, <1>13, <2>2, <2>3, <2>4 DEF RInv, Underway
  <2>8. (settled \subseteq DOMAIN runs)'
    BY <1>1, <2>2, <2>3 DEF RInv
  <2> QED
    BY <1>6, <1>11, <2>5, <2>6, <2>7, <2>8 DEF RInv
<1>14. CASE f \notin {"scenario", "bindings"}
  <2>1. /\ files'["scenario"] = files["scenario"] /\ files'["bindings"] = files["bindings"]
        /\ settled' = settled
    BY <1>1, <1>3, <1>7, <1>14
  <2>2. Pending("scenario")' = Pending("scenario") /\ Pending("bindings")' = Pending("bindings")
    BY <1>4, <1>14
  <2>3. f \in DocumentFiles => Pending("bindings") = {}
    BY <1>5 DEF Before, Pending
  <2>4. Underway'
    BY <1>1, <1>4, <1>8, <2>1, <2>2, <2>3, WriteAway
  <2>5. Matching'
    BY <1>1, <2>1 DEF RInv, Matching, Whole
  <2>6. FilesSay'
    <3>1. ASSUME f \in DocumentFiles, c.run \in settled PROVE Says(runs, c)
      BY <1>1, <1>2, <3>1 DEF RInv, Coming
    <3>2. \A g \in DocumentFiles : files'[g] = files[g] \/ (g = f /\ files'[g] = c)
      <4> HIDE DEF f, c, x
      <4> QED
        BY <1>3, <1>7
    <3> HIDE DEF f, c, x
    <3>3. ASSUME NEW g \in DocumentFiles, Whole(files'[g]), files'[g].run \in settled PROVE Says(runs, files'[g])
      BY <3>1, <3>2, <3>3 DEF RInv, FilesSay
    <3> QED
      BY <1>1, <2>1, <3>3 DEF FilesSay, Whole
  <2> QED
    BY <1>1, <1>6, <1>11, <2>1, <2>4, <2>5, <2>6 DEF RInv
<1> QED
  BY <1>12, <1>13, <1>14

\* A step that leaves nothing to write, and the run of the scenario as it is.
LEMMA QuietRepeats ==
  ASSUME RInv, UNCHANGED <<runs, settled>>, job'.writes = <<>>,
         \A f \in DocumentFiles \cup {"bindings"} : files'[f] = files[f],
         Whole(files'["scenario"]) => Whole(files["scenario"]) /\ files'["scenario"].run = files["scenario"].run
  PROVE  RInv'
<1>1. FilesSay'
  BY DEF RInv, FilesSay, Whole
<1>2. Matching'
  BY DEF RInv, Matching, Whole
<1>3. Entries(job.writes)' = {}
  BY EntriesOfNone DEF Entries
<1>4. \A f : Pending(f)' = {}
  BY <1>3 DEF Pending
<1>5. Coming' /\ Underway'
  BY <1>3, <1>4 DEF Coming, Underway
<1>6. InOrder(job.writes)'
  <2>1. DOMAIN <<>> = {}
    OBVIOUS
  <2> QED
    BY <2>1 DEF InOrder
<1> QED
  BY <1>1, <1>2, <1>5, <1>6 DEF RInv

\* A replay of what is there now, of a collection whose bindings were written,
\* rests on those.
LEMMA ReplayedFromHere ==
  ASSUME Markers, IInv, RInv, NEW overlay, NEW useOverlay \in BOOLEAN, NEW selection
  PROVE  FromHere(ReplayedFrom(files["scenario"], files["bindings"], overlay, useOverlay, selection))
<1> DEFINE d == ReplayedFrom(files["scenario"], files["bindings"], overlay, useOverlay, selection)
<1>1. Sound(runs, "scenario", files["scenario"])
  BY DEF IInv, Files
<1>2. ASSUME Whole(d), d.run \in settled PROVE Says(runs, d)
  <2>1. /\ Whole(files["scenario"]) /\ Whole(files["bindings"]) /\ d.run = files["scenario"].run
        /\ files["bindings"] = runs[d.run].bound => Says(runs, d)
    BY <1>1, <1>2, ReplayedSays
  <2>2. files["bindings"] = runs[d.run].bound
    <3> HIDE DEF d
    <3> QED
      BY <1>2, <2>1 DEF RInv, Matching
  <2> QED
    BY <2>1, <2>2
<1> QED
  BY <1>2 DEF FromHere

\* A replay writes what it reasons from the files that are there.
LEMMA ReplayCommandRepeats ==
  ASSUME Markers, IInv, RInv, NEW useOverlay \in BOOLEAN, NEW s \in Selections, Replay(useOverlay, s)
  PROVE  RInv'
<1> DEFINE d == ReplayedFrom(files["scenario"], files["bindings"], files["overlay"], useOverlay, s)
           y == [file |-> "replayed", content |-> d]
<1>2. FromHere(d)
  BY ReplayedFromHere
<1> HIDE DEF d
<1>3. y.file \notin {"scenario", "bindings"} /\ y.content = d
  OBVIOUS
<1>4. Entries(Put("replayed", d)) = {y}
  BY EntriesOfPut
<1>5. \A x \in Entries(Put("replayed", d)) : /\ x.file \notin {"scenario", "bindings"}
                                             /\ x.file \in DocumentFiles => FromHere(x.content)
  <2> HIDE DEF y
  <2> QED
    BY <1>2, <1>3, <1>4
<1>6. Start("replay-findings", Put("replayed", d), 0) /\ UNCHANGED runs
  BY DEF Replay, d
<1> QED
  BY <1>5, <1>6, CommandRepeats

\* A command with one write of neither a scenario, bindings nor findings.
LEMMA OtherRepeats ==
  ASSUME IInv, RInv, NEW command, NEW file, NEW content, Start(command, Put(file, content), 0), UNCHANGED runs,
         file \notin {"scenario", "bindings"} \cup DocumentFiles
  PROVE  RInv'
<1> DEFINE y == [file |-> file, content |-> content]
<1>1. y.file = file
  OBVIOUS
<1>2. Entries(Put(file, content)) = {y}
  BY EntriesOfPut
<1>3. \A x \in Entries(Put(file, content)) : /\ x.file \notin {"scenario", "bindings"}
                                             /\ x.file \in DocumentFiles => FromHere(x.content)
  <2> HIDE DEF y
  <2> QED
    BY <1>1, <1>2
<1> QED
  BY <1>3, CommandRepeats

-----------------------------------------------------------------------------
(***************************************************************************)
(* A demo pack: its copies, and what it reasons from them.                 *)
(***************************************************************************)
Write(file, content) == [file |-> file, content |-> content]

Overlaid(selection) == ReplayedFrom(files["scenario"], files["bindings"], files["overlay"], TRUE, selection)

Targets(use, selection) ==
  {Write("in_scenario", files["scenario"]), Write("in_bindings", files["bindings"]),
   Write("baseline", Baseline(selection))}
    \cup (IF use THEN {Write("in_overlay", files["overlay"]), Write("overlaid", Overlaid(selection)),
                       Write("pack_diff", Diff(Baseline(selection), Overlaid(selection)))} ELSE {})
    \cup (IF Whole(Baseline(selection))
            THEN {Write("manifest", [hash |-> Baseline(selection).hash, overlay |-> use])} ELSE {})

LEMMA WriteParts == ASSUME NEW file, NEW content
  PROVE Write(file, content).file = file /\ Write(file, content).content = content
BY DEF Write

\* The writes of a pack are these.
LEMMA PackEntries ==
  ASSUME NEW use \in BOOLEAN, NEW selection
  PROVE  Entries(PackWrites(use, selection)) = Targets(use, selection)
<1> DEFINE baseline == Baseline(selection)
           overlaid == Overlaid(selection)
           diff == Diff(baseline, overlaid)
           manifest == [hash |-> baseline.hash, overlay |-> use]
           a == Put("in_scenario", files["scenario"])
           b == Put("in_bindings", files["bindings"])
           c == IF use THEN Put("in_overlay", files["overlay"]) ELSE <<>>
           d == Put("baseline", baseline)
           e == IF use THEN Put("overlaid", overlaid) \o Put("pack_diff", diff) ELSE <<>>
           f == IF Whole(baseline) THEN Put("manifest", manifest) ELSE <<>>
<1>1. PackWrites(use, selection) = a \o b \o c \o d \o e \o f
  BY DEF PackWrites, CopyOf, Overlaid
<1> HIDE DEF baseline, overlaid, diff, manifest
<1>2. IsSeq(a) /\ Entries(a) = {Write("in_scenario", files["scenario"])}
  BY EntriesOfPut DEF Write
<1>3. IsSeq(b) /\ Entries(b) = {Write("in_bindings", files["bindings"])}
  BY EntriesOfPut DEF Write
<1>4. IsSeq(c) /\ Entries(c) = IF use THEN {Write("in_overlay", files["overlay"])} ELSE {}
  BY EntriesOfPut, EntriesOfNone DEF Write
<1>5. IsSeq(d) /\ Entries(d) = {Write("baseline", baseline)}
  BY EntriesOfPut DEF Write
<1>6. IsSeq(e) /\ Entries(e) = IF use THEN {Write("overlaid", overlaid), Write("pack_diff", diff)} ELSE {}
  <2>1. /\ IsSeq(Put("overlaid", overlaid)) /\ IsSeq(Put("pack_diff", diff))
        /\ Entries(Put("overlaid", overlaid)) = {Write("overlaid", overlaid)}
        /\ Entries(Put("pack_diff", diff)) = {Write("pack_diff", diff)}
    BY EntriesOfPut DEF Write
  <2>2. /\ IsSeq(Put("overlaid", overlaid) \o Put("pack_diff", diff))
        /\ Entries(Put("overlaid", overlaid) \o Put("pack_diff", diff)) =
             {Write("overlaid", overlaid), Write("pack_diff", diff)}
    BY <2>1, EntriesOfBoth
  <2> QED
    BY <2>2, EntriesOfNone
<1>7. IsSeq(f) /\ Entries(f) = IF Whole(baseline) THEN {Write("manifest", manifest)} ELSE {}
  BY EntriesOfPut, EntriesOfNone DEF Write
<1> HIDE DEF a, b, c, d, e, f
<1>8. IsSeq(a \o b) /\ Entries(a \o b) = Entries(a) \cup Entries(b)
  BY <1>2, <1>3, EntriesOfBoth
<1>9. IsSeq(a \o b \o c) /\ Entries(a \o b \o c) = Entries(a \o b) \cup Entries(c)
  BY <1>4, <1>8, EntriesOfBoth
<1>10. IsSeq(a \o b \o c \o d) /\ Entries(a \o b \o c \o d) = Entries(a \o b \o c) \cup Entries(d)
  BY <1>5, <1>9, EntriesOfBoth
<1>11. IsSeq(a \o b \o c \o d \o e) /\ Entries(a \o b \o c \o d \o e) = Entries(a \o b \o c \o d) \cup Entries(e)
  BY <1>6, <1>10, EntriesOfBoth
<1>12. Entries(a \o b \o c \o d \o e \o f) = Entries(a \o b \o c \o d \o e) \cup Entries(f)
  BY <1>7, <1>11, EntriesOfBoth
<1>13. Entries(a \o b \o c \o d \o e \o f) =
         {Write("in_scenario", files["scenario"]), Write("in_bindings", files["bindings"]),
          Write("baseline", baseline)}
           \cup (IF use THEN {Write("in_overlay", files["overlay"]), Write("overlaid", overlaid),
                              Write("pack_diff", diff)} ELSE {})
           \cup (IF Whole(baseline) THEN {Write("manifest", manifest)} ELSE {})
  BY <1>2, <1>3, <1>4, <1>5, <1>6, <1>7, <1>8, <1>9, <1>10, <1>11, <1>12
<1> QED
  BY <1>1, <1>13 DEF Targets, baseline, overlaid, diff, manifest

\* The demo pack keeps what replays rest on.
LEMMA DemoPackRepeats ==
  ASSUME Markers, IInv, RInv, NEW use \in BOOLEAN, NEW s \in Selections, DemoPack(use, s)
  PROVE  RInv'
<1>2. FromHere(Baseline(s))
  <2> DEFINE unused == FALSE
  <2>1. Baseline(s) = ReplayedFrom(files["scenario"], files["bindings"], Missing, unused, s) /\ unused \in BOOLEAN
    BY DEF Baseline
  <2> HIDE DEF unused
  <2> QED
    BY <2>1, ReplayedFromHere
<1>3. FromHere(Overlaid(s))
  <2> DEFINE used == TRUE
  <2>1. Overlaid(s) = ReplayedFrom(files["scenario"], files["bindings"], files["overlay"], used, s) /\ used \in BOOLEAN
    BY DEF Overlaid
  <2> HIDE DEF used
  <2> QED
    BY <2>1, ReplayedFromHere
<1>4. ASSUME NEW x \in Targets(use, s)
      PROVE  /\ x.file \notin {"scenario", "bindings"}
             /\ x.file \in DocumentFiles => FromHere(x.content)
  <2> DEFINE manifest == [hash |-> Baseline(s).hash, overlay |-> use]
             diff == Diff(Baseline(s), Overlaid(s))
  <2>1. \/ x \in {Write("in_scenario", files["scenario"]), Write("in_bindings", files["bindings"]),
                  Write("in_overlay", files["overlay"])}
        \/ x = Write("baseline", Baseline(s)) \/ x = Write("overlaid", Overlaid(s))
        \/ x = Write("pack_diff", diff) \/ x = Write("manifest", manifest)
    BY <1>4 DEF Targets
  <2> HIDE DEF manifest, diff
  <2>2. CASE x \in {Write("in_scenario", files["scenario"]), Write("in_bindings", files["bindings"]),
                    Write("in_overlay", files["overlay"])}
    BY <2>2, WriteParts DEF DocumentFiles
  <2>3. CASE x = Write("baseline", Baseline(s))
    BY <1>2, <2>3, WriteParts
  <2>4. CASE x = Write("overlaid", Overlaid(s))
    BY <1>3, <2>4, WriteParts
  <2>5. CASE x = Write("pack_diff", diff) \/ x = Write("manifest", manifest)
    BY <2>5, WriteParts DEF DocumentFiles
  <2> QED
    BY <2>1, <2>2, <2>3, <2>4, <2>5
<1>5. Entries(PackWrites(use, s)) = Targets(use, s)
  BY PackEntries
<1>6. Start("demo-pack", PackWrites(use, s), 0) /\ UNCHANGED runs
  BY DEF DemoPack
<1> QED
  BY <1>4, <1>5, <1>6, CommandRepeats

\* Every step keeps what replays rest on.
LEMMA RepeatStep ==
  ASSUME DirectoryConstants, Markers, IInv, RInv, [Next]_vars PROVE RInv'
<1>1. ASSUME NEW w \in Worlds, NEW o \in Options, Collect(w, o) PROVE RInv'
  BY <1>1, CollectRepeats
<1>2. ASSUME NEW e \in Edges, NEW seen \in Seen, ProbeOverlay(e, seen) PROVE RInv'
  <2> DEFINE overlay == [hash |-> files["scenario"].stated, probes |-> {[edge |-> e, seen |-> seen]}]
  <2>1. Start("probe-overlay", Put("overlay", overlay), 0) /\ UNCHANGED runs
    BY <1>2 DEF ProbeOverlay
  <2> HIDE DEF overlay
  <2> QED
    BY <2>1, OtherRepeats DEF DocumentFiles
<1>3. ASSUME NEW useOverlay \in BOOLEAN, NEW s \in Selections, Replay(useOverlay, s) PROVE RInv'
  BY <1>3, ReplayCommandRepeats
<1>4. ASSUME NEW useOverlay \in BOOLEAN, NEW s \in Selections, DemoPack(useOverlay, s) PROVE RInv'
  BY <1>4, DemoPackRepeats
<1>5. CASE DiffFindings
  <2> DEFINE diff == Diff(files["findings"], files["replayed"])
  <2>1. Start("diff-findings", Put("diff", diff), 0) /\ UNCHANGED runs
    BY <1>5 DEF DiffFindings
  <2> HIDE DEF diff
  <2> QED
    BY <2>1, OtherRepeats DEF DocumentFiles
<1>6. CASE Truncate
  BY <1>6, TruncateRepeats
<1>7. CASE Fill
  BY <1>7, FillRepeats
<1>8. CASE Stop \/ Done \/ Crash
  <2>1. UNCHANGED <<runs, files, settled>> /\ job'.writes = <<>>
    BY <1>8 DEF Stop, Done, Crash, Idle
  <2> QED
    BY <2>1, QuietRepeats DEF Whole
<1>9. ASSUME NEW e \in Edges, Edit(e) PROVE RInv'
  <2> DEFINE s == files["scenario"]
  <2>1. ScenarioSound(runs, s) /\ DOMAIN files = Files /\ Whole(s)
    BY <1>9 DEF Edit, IInv, Sound, Files
  <2>2. files' = [files EXCEPT !["scenario"] = [s EXCEPT !.edges = @ \ {e}]]
    BY <1>9 DEF Edit
  <2>3. files'["scenario"].run = s.run
    BY <2>1, <2>2 DEF ScenarioSound, Files
  <2>4. \A f \in DocumentFiles \cup {"bindings"} : files'[f] = files[f]
    BY <2>1, <2>2 DEF Files, DocumentFiles
  <2>5. UNCHANGED <<runs, settled>> /\ job'.writes = <<>>
    BY <1>9 DEF Edit, Idle
  <2> QED
    BY <2>1, <2>3, <2>4, <2>5, QuietRepeats
<1>10. CASE UNCHANGED vars
  <2>1. UNCHANGED <<runs, files, job, settled>>
    BY <1>10 DEF vars
  <2>2. FilesSay'
    BY <2>1 DEF RInv, FilesSay, Whole
  <2>3. Matching'
    BY <2>1 DEF RInv, Matching, Whole
  <2>4. Entries(job.writes)' = Entries(job.writes) /\ \A f : Pending(f)' = Pending(f)
    BY <2>1 DEF Entries, Pending
  <2>5. Coming'
    BY <2>1, <2>4 DEF RInv, Coming, Whole
  <2>6. Underway'
    BY <2>1, <2>4 DEF RInv, Underway, NoneOfThisRun, Whole
  <2>7. InOrder(job.writes)'
    BY <2>1 DEF RInv, InOrder
  <2> QED
    BY <2>1, <2>2, <2>3, <2>5, <2>6, <2>7 DEF RInv
<1> QED
  BY <1>1, <1>2, <1>3, <1>4, <1>5, <1>6, <1>7, <1>8, <1>9, <1>10 DEF Next

\* An empty directory repeats.
LEMMA RepeatsFirst == ASSUME Init PROVE RInv
<1>1. job.writes = <<>> /\ settled = {} /\ \A f \in Files : ~ Whole(files[f])
  BY DEF Init, Idle, Whole
<1>2. {"scenario", "bindings"} \cup DocumentFiles \subseteq Files
  BY DEF Files, DocumentFiles
<1>3. FilesSay /\ Matching
  BY <1>1, <1>2 DEF FilesSay, Matching
<1>4. Entries(job.writes) = {}
  BY <1>1, EntriesOfNone
<1>5. Coming /\ Underway
  BY <1>4 DEF Coming, Underway, Pending
<1>6. InOrder(job.writes)
  <2>1. DOMAIN <<>> = {}
    OBVIOUS
  <2> QED
    BY <1>1, <2>1 DEF InOrder
<1> QED
  BY <1>1, <1>3, <1>5, <1>6 DEF RInv

\* What a file that names a collection says follows from that collection, if
\* its bindings were written in full.
THEOREM DirectoryRepeats == Spec => []RInv
<1>1. Init => RInv
  BY RepeatsFirst
<1>2. IInv /\ RInv /\ [Next]_vars => RInv'
  BY RepeatStep, DirectoryConstants, Markers
<1> QED
  BY <1>1, <1>2, DirectorySound, PTL DEF Spec

\* The facts of a collection are the same under both names.
LEMMA OwnFacts == \A i : Own(i) = OwnIn(runs, i)
BY DEF Own, OwnIn

\* Every findings file is well formed and true of the collection and of the
\* probes it names (cli.py, reasoner/replay.py, demo_pack.py), over any number
\* of commands, crashes and edits: of its graph always, of its bindings if the
\* collection got as far as writing them.
THEOREM FindingsFilesAreTrue == Spec => []DocumentsTrue
<1>1. ASSUME IInv, RInv PROVE DocumentsTrue
  <2>1. \A d \in Documents : DocumentSound(runs, d)
    BY <1>1 DEF IInv, Documents, Sound, DocumentFiles, Files
  <2>2. TypeOK
    <3>1. \A i \in DOMAIN runs : runs[i] \in Worlds
      BY <1>1 DEF IInv
    <3>2. \A d \in Documents : d.run \in DOMAIN runs /\ d.findings \subseteq FindingOf
      BY <2>1 DEF DocumentSound
    <3>3. Whole(files["bindings"]) => files["bindings"] # {} /\ \A t \in files["bindings"] : t \in Tie
      BY <1>1 DEF IInv, Sound, Files
    <3>4. \A i \in DOMAIN job.writes : job.writes[i].file \in Files
      BY <1>1 DEF IInv, SoundWrites
    <3> QED
      BY <1>1, <3>1, <3>2, <3>3, <3>4 DEF IInv, TypeOK
  <2>3. \A i \in DOMAIN runs : GraphOf(i) = GraphIn(runs, i)
    BY DEF GraphOf, GraphIn
  <2>4. ProbesStayHome
    BY <2>1, <2>3 DEF ProbesStayHome, DocumentSound, ProbedAtHome
  <2>5. ReplayedWasCollected
    BY <2>1, <2>3 DEF ReplayedWasCollected, DocumentSound, ChainsCovered
  <2>6. VerdictsDeclared
    BY <1>1, OwnFacts DEF RInv, FilesSay, Says, VerdictsFit, VerdictsDeclared, Documents, DocumentFiles
  <2> QED
    BY <2>2, <2>4, <2>5, <2>6 DEF DocumentsTrue
<1> QED
  BY <1>1, DirectorySound, DirectoryRepeats, PTL

\* Replaying a directory repeats the collection it names (cli.py
\* _cmd_replay_findings, reasoner/replay.py, demo_pack.py): a findings file
\* without probes is what the reasoners make of that collection's graph and
\* bindings, if it stayed within the edge budget and got as far as writing its
\* bindings, whatever was recollected, killed, edited or left behind.
THEOREM ReplaysRepeat == Spec => []ReplayRepeats
<1>1. ASSUME RInv PROVE ReplayRepeats
  BY <1>1, OwnFacts DEF RInv, FilesSay, Says, ReplayRepeats, Documents, DocumentFiles
<1> QED
  BY <1>1, DirectoryRepeats, PTL

-----------------------------------------------------------------------------
(***************************************************************************)
(* A demo pack reproduces itself. What is inductive is that a pack that is *)
(* being written has, of everything it is to hold, either a write ahead or *)
(* the file in place: what it is to hold is a function of the scenario,    *)
(* the bindings and the overlay, and those it does not write.              *)
(***************************************************************************)
Packing ==
  \E use \in BOOLEAN, s \in Selections :
    /\ Entries(job.writes) \subseteq Targets(use, s)
    /\ \A x \in Targets(use, s) :
         x \in Entries(job.writes) \/ (files[x.file] = x.content /\ x.content # Missing)

PInv ==
  /\ PackReproduces
  /\ job # Idle => exit.code = 2
  /\ job.command = "demo-pack" => Packing

PackFiles == {"in_scenario", "in_bindings", "in_overlay", "baseline", "overlaid", "pack_diff", "manifest"}

\* A pack holds one thing per file.
LEMMA TargetsSay ==
  ASSUME NEW use \in BOOLEAN, NEW s
  PROVE  /\ \A x \in Targets(use, s) : x.file \in PackFiles
         /\ \A x, y \in Targets(use, s) : x.file = y.file => x = y
<1> DEFINE manifest == [hash |-> Baseline(s).hash, overlay |-> use]
           diff == Diff(Baseline(s), Overlaid(s))
           All == {Write("in_scenario", files["scenario"]), Write("in_bindings", files["bindings"]),
                   Write("baseline", Baseline(s)), Write("in_overlay", files["overlay"]),
                   Write("overlaid", Overlaid(s)), Write("pack_diff", diff), Write("manifest", manifest)}
<1>1. Targets(use, s) \subseteq All
  BY DEF Targets
<1> HIDE DEF manifest, diff
<1>2. \A x \in All : x.file \in PackFiles
  BY WriteParts DEF PackFiles
<1>3. /\ \A x \in All : x.file = "in_scenario" => x = Write("in_scenario", files["scenario"])
      /\ \A x \in All : x.file = "in_bindings" => x = Write("in_bindings", files["bindings"])
      /\ \A x \in All : x.file = "in_overlay" => x = Write("in_overlay", files["overlay"])
      /\ \A x \in All : x.file = "baseline" => x = Write("baseline", Baseline(s))
      /\ \A x \in All : x.file = "overlaid" => x = Write("overlaid", Overlaid(s))
      /\ \A x \in All : x.file = "pack_diff" => x = Write("pack_diff", diff)
      /\ \A x \in All : x.file = "manifest" => x = Write("manifest", manifest)
  BY WriteParts
<1> HIDE DEF All
<1>4. \A x, y \in All : x.file = y.file => x = y
  BY <1>2, <1>3 DEF PackFiles
<1> QED
  BY <1>1, <1>2, <1>4

\* What a replay yields is never a torn file.
LEMMA ReplayedIsWhole ==
  ASSUME Markers, NEW rs \in Seq(Worlds), NEW scenario, Sound(rs, "scenario", scenario), NEW bindings, NEW overlay,
         NEW useOverlay \in BOOLEAN, NEW selection \in Selections, NEW d,
         d = ReplayedFrom(scenario, bindings, overlay, useOverlay, selection), d # Missing
  PROVE  Whole(d) /\ d.selection = selection
<1> DEFINE sound == /\ Whole(scenario) /\ HashStable(scenario)
                    /\ Whole(bindings)
                    /\ useOverlay => Whole(overlay) /\ Joins(overlay, Recomputed(scenario), scenario.edges)
           unflagged == FALSE
           probes == IF useOverlay THEN overlay.probes ELSE {}
           found == Reasoned(Facts(scenario.edges, bindings, unflagged, probes), selection)
           home == IF useOverlay THEN overlay.hash ELSE Missing
           document == Document(scenario.run, Recomputed(scenario), home, selection, unflagged, found)
<1>1. sound
  BY DEF ReplayedFrom
<1>2. d = document
  BY <1>1 DEF ReplayedFrom
<1>3. ScenarioSound(rs, scenario)
  BY <1>1 DEF Sound
<1>4. scenario.run \in Nat /\ scenario.edges \in SUBSET Edges /\ Recomputed(scenario) \in Hash
  BY <1>1, <1>3 DEF ScenarioSound, HashStable
<1>5. home \in Hash \cup {Missing}
  <2>1. useOverlay => overlay.hash = Recomputed(scenario)
    BY <1>1 DEF Joins
  <2> QED
    BY <1>4, <2>1
<1>6. found \in SUBSET FindingOf
  <2> HIDE DEF unflagged, probes
  <2> QED
    BY <1>4, ReasonedSound
<1>7. unflagged \in BOOLEAN
  OBVIOUS
<1> HIDE DEF home, found, unflagged
<1>8. document \in FindingsFile
  BY <1>4, <1>5, <1>6, <1>7 DEF Document, FindingsFile
<1>9. d.selection = selection
  BY <1>2, DocumentParts
<1> QED
  BY <1>2, <1>8, <1>9 DEF Markers, Whole

\* Another command than the pack starts.
LEMMA OtherCommandPacks ==
  ASSUME NEW command, NEW writes, NEW code, Start(command, writes, code), command # "demo-pack"
  PROVE  PInv'
<1>1. job'.command = command /\ exit' = [command |-> command, code |-> 2]
  BY DEF Start
<1>2. exit'.code = 2 /\ exit' # [command |-> "demo-pack", code |-> 0]
  BY <1>1
<1>3. PackReproduces'
  BY <1>2 DEF PackReproduces
<1> QED
  BY <1>1, <1>2, <1>3 DEF PInv

\* The pack starts: everything is ahead.
LEMMA PackStarts ==
  ASSUME NEW use \in BOOLEAN, NEW s \in Selections, DemoPack(use, s)
  PROVE  PInv'
<1>1. /\ files' = files /\ job'.writes = PackWrites(use, s)
      /\ exit' = [command |-> "demo-pack", code |-> 2]
  BY DEF DemoPack, Start
<1>2. exit'.code = 2 /\ exit' # [command |-> "demo-pack", code |-> 0]
  BY <1>1
<1>3. PackReproduces'
  BY <1>2 DEF PackReproduces
<1>4. Entries(job.writes)' = Targets(use, s)
  BY <1>1, PackEntries DEF Entries
<1>5. Targets(use, s)' = Targets(use, s)
  BY <1>1 DEF Targets, Baseline, Overlaid, Whole
<1>6. Packing'
  BY <1>4, <1>5 DEF Packing
<1> QED
  BY <1>2, <1>3, <1>6 DEF PInv

\* A write of the pack.
LEMMA PackWritten ==
  ASSUME IInv, Packing, Truncate \/ Fill
  PROVE  Packing'
<1> DEFINE x == Head(job.writes)
<1>1. PICK use \in BOOLEAN, s \in Selections :
        /\ Entries(job.writes) \subseteq Targets(use, s)
        /\ \A y \in Targets(use, s) :
             y \in Entries(job.writes) \/ (files[y.file] = y.content /\ y.content # Missing)
  BY DEF Packing
<1>2. job.writes # <<>> /\ IsSeq(job.writes) /\ DOMAIN files = Files
  BY DEF Truncate, Fill, IInv, SoundWrites
<1>3. x \in Entries(job.writes) /\ Entries(job.writes) \subseteq {x} \cup Entries(Tail(job.writes))
      /\ Entries(Tail(job.writes)) \subseteq Entries(job.writes)
  BY <1>2, EntriesSay
<1>4. x.file \in PackFiles
  BY <1>1, <1>3, TargetsSay
<1>5. /\ \A g \in Files : g # x.file => files'[g] = files[g]
      /\ \/ job' = job
         \/ job'.writes = Tail(job.writes) /\ files'[x.file] = x.content /\ x.content # Missing
  <2>1. x.file \in Files
    BY <1>4 DEF PackFiles, Files
  <2>2. CASE Truncate
    <3>1. files' = [files EXCEPT ![x.file] = Torn]
      BY <2>2 DEF Truncate
    <3>2. job' = job \/ (x.content = Torn /\ job'.writes = Tail(job.writes) /\ x.content # Missing)
      BY <2>2 DEF Truncate, IInv
    <3> QED
      BY <1>2, <2>1, <3>1, <3>2
  <2>3. CASE Fill
    <3>1. files' = [files EXCEPT ![x.file] = x.content]
      BY <2>3 DEF Fill
    <3>2. job'.writes = Tail(job.writes) /\ x.content # Missing
      BY <2>3 DEF Fill, IInv
    <3> QED
      BY <1>2, <2>1, <3>1, <3>2
  <2> QED
    BY <2>2, <2>3
<1> HIDE DEF x
<1>6. \A g \in {"scenario", "bindings", "overlay"} : files'[g] = files[g]
  BY <1>4, <1>5 DEF PackFiles, Files
<1>7. Targets(use, s)' = Targets(use, s)
  BY <1>6 DEF Targets, Baseline, Overlaid, Whole
<1>8. Entries(job'.writes) \subseteq Entries(job.writes)
  BY <1>3, <1>5
<1>9. ASSUME NEW y \in Targets(use, s)
      PROVE  y \in Entries(job'.writes) \/ (files'[y.file] = y.content /\ y.content # Missing)
  <2>1. CASE y \notin Entries(job.writes)
    <3>1. y.file # x.file
      BY <1>1, <1>3, <2>1, TargetsSay
    <3>2. y.file \in Files
      BY TargetsSay DEF PackFiles, Files
    <3> QED
      BY <1>1, <1>5, <2>1, <3>1, <3>2
  <2>2. CASE y \in Entries(job.writes)
    BY <1>3, <1>5, <2>2
  <2> QED
    BY <2>1, <2>2
<1>10. Entries(job.writes)' = Entries(job'.writes)
  BY DEF Entries
<1> QED
  BY <1>1, <1>7, <1>8, <1>9, <1>10 DEF Packing

\* A pack that is done has all its files, and they come from its copies.
LEMMA PackIsDone ==
  ASSUME Markers, IInv, Packing, job.writes = <<>>
  PROVE  /\ Whole(files["baseline"])
         /\ files["baseline"] =
              ReplayedFrom(files["in_scenario"], files["in_bindings"], Missing, FALSE, files["baseline"].selection)
         /\ files["manifest"].hash = files["baseline"].hash
         /\ files["manifest"].overlay =>
              /\ Whole(files["overlaid"])
              /\ files["overlaid"] = ReplayedFrom(files["in_scenario"], files["in_bindings"], files["in_overlay"], TRUE,
                                                  files["overlaid"].selection)
<1>1. PICK use \in BOOLEAN, s \in Selections :
        \A y \in Targets(use, s) : files[y.file] = y.content /\ y.content # Missing
  <2>1. Entries(job.writes) = {}
    BY EntriesOfNone
  <2> QED
    BY <2>1 DEF Packing
<1> DEFINE manifest == [hash |-> Baseline(s).hash, overlay |-> use]
           unused == FALSE
           used == TRUE
<1>2. /\ files["in_scenario"] = files["scenario"] /\ files["in_bindings"] = files["bindings"]
      /\ files["baseline"] = Baseline(s) /\ Baseline(s) # Missing
  <2>1. /\ Write("in_scenario", files["scenario"]) \in Targets(use, s)
        /\ Write("in_bindings", files["bindings"]) \in Targets(use, s)
        /\ Write("baseline", Baseline(s)) \in Targets(use, s)
    BY DEF Targets
  <2>2. \A file, content : Write(file, content) \in Targets(use, s) => files[file] = content /\ content # Missing
    BY <1>1, WriteParts
  <2> QED
    BY <2>1, <2>2
<1>3. use => /\ files["in_overlay"] = files["overlay"]
             /\ files["overlaid"] = Overlaid(s) /\ Overlaid(s) # Missing
  <2>1. use => /\ Write("in_overlay", files["overlay"]) \in Targets(use, s)
               /\ Write("overlaid", Overlaid(s)) \in Targets(use, s)
    BY DEF Targets
  <2>2. \A file, content : Write(file, content) \in Targets(use, s) => files[file] = content /\ content # Missing
    BY <1>1, WriteParts
  <2> QED
    BY <2>1, <2>2
<1>4. runs \in Seq(Worlds) /\ Sound(runs, "scenario", files["scenario"])
  BY DEF IInv, Files
<1>5. unused \in BOOLEAN /\ used \in BOOLEAN
  OBVIOUS
<1>6. /\ Baseline(s) = ReplayedFrom(files["scenario"], files["bindings"], Missing, unused, s)
      /\ Overlaid(s) = ReplayedFrom(files["scenario"], files["bindings"], files["overlay"], used, s)
  BY DEF Baseline, Overlaid
<1> HIDE DEF unused, used
<1>7. Whole(Baseline(s)) /\ Baseline(s).selection = s
  BY <1>2, <1>4, <1>5, <1>6, ReplayedIsWhole
<1>8. use => Whole(Overlaid(s)) /\ Overlaid(s).selection = s
  BY <1>3, <1>4, <1>5, <1>6, ReplayedIsWhole
<1>9. files["manifest"] = manifest
  <2>1. Write("manifest", manifest) \in Targets(use, s)
    BY <1>7 DEF Targets
  <2> HIDE DEF manifest
  <2> QED
    BY <1>1, <2>1, WriteParts
<1>10. files["manifest"].hash = files["baseline"].hash /\ (files["manifest"].overlay <=> use)
  BY <1>2, <1>9
<1>11. files["baseline"] =
         ReplayedFrom(files["in_scenario"], files["in_bindings"], Missing, unused, files["baseline"].selection)
  BY <1>2, <1>6, <1>7
<1>12. use => files["overlaid"] = ReplayedFrom(files["in_scenario"], files["in_bindings"], files["in_overlay"], used,
                                               files["overlaid"].selection)
  BY <1>2, <1>3, <1>6, <1>8
<1> QED
  BY <1>2, <1>3, <1>7, <1>8, <1>10, <1>11, <1>12 DEF unused, used

\* Every step keeps the pack, or what is ahead of it, in order.
LEMMA PackStep ==
  ASSUME Markers, IInv, PInv, [Next]_vars PROVE PInv'
<1>1. ASSUME NEW w \in Worlds, NEW o \in Options, Collect(w, o) PROVE PInv'
  <2>1. Start("collect", CollectWrites(w, Len(runs) + 1, o), 0)
    BY <1>1 DEF Collect
  <2> QED
    BY <2>1, OtherCommandPacks
<1>2. ASSUME NEW e \in Edges, NEW seen \in Seen, ProbeOverlay(e, seen) PROVE PInv'
  BY <1>2, OtherCommandPacks DEF ProbeOverlay
<1>3. ASSUME NEW useOverlay \in BOOLEAN, NEW s \in Selections, Replay(useOverlay, s) PROVE PInv'
  BY <1>3, OtherCommandPacks DEF Replay
<1>4. ASSUME NEW useOverlay \in BOOLEAN, NEW s \in Selections, DemoPack(useOverlay, s) PROVE PInv'
  BY <1>4, PackStarts
<1>5. CASE DiffFindings
  BY <1>5, OtherCommandPacks DEF DiffFindings
<1>6. CASE Truncate \/ Fill
  <2>1. job.writes # <<>> /\ exit' = exit
    BY <1>6 DEF Truncate, Fill
  <2>2. job # Idle
    BY <2>1 DEF Idle
  <2>3. exit'.code = 2 /\ exit' # [command |-> "demo-pack", code |-> 0]
    BY <2>1, <2>2 DEF PInv
  <2>4. PackReproduces'
    BY <2>3 DEF PackReproduces
  <2>5. job'.command = job.command
    BY <1>6 DEF Truncate, Fill, IInv
  <2>6. job'.command = "demo-pack" => Packing'
    BY <1>6, <2>5, PackWritten DEF PInv
  <2> QED
    BY <2>3, <2>4, <2>6 DEF PInv
<1>7. CASE Stop \/ Crash
  <2>1. job # Idle
    BY <1>7 DEF Stop, Crash, Idle
  <2>2. job' = Idle /\ job'.command # "demo-pack"
    BY <1>7 DEF Stop, Crash, Idle
  <2>3. exit' # [command |-> "demo-pack", code |-> 0]
    <3>1. exit'.code \in {1, 2}
      BY <1>7, <2>1 DEF Stop, Crash, PInv
    <3> QED
      BY <3>1
  <2>4. PackReproduces'
    BY <2>3 DEF PackReproduces
  <2> QED
    BY <2>2, <2>4 DEF PInv, Idle
<1>8. CASE Done
  <2>1. job.writes = <<>> /\ job' = Idle /\ files' = files /\ exit' = [command |-> job.command, code |-> job.code]
    BY <1>8 DEF Done
  <2>2. job'.command # "demo-pack"
    BY <2>1 DEF Idle
  <2>3. CASE job.command # "demo-pack"
    <3>1. exit' # [command |-> "demo-pack", code |-> 0]
      BY <2>1, <2>3
    <3>2. PackReproduces'
      BY <3>1 DEF PackReproduces
    <3> QED
      BY <2>1, <2>2, <3>2 DEF PInv, Idle
  <2>4. CASE job.command = "demo-pack"
    <3>1. Packing
      BY <2>4 DEF PInv
    <3>2. PackReproduces'
      BY <2>1, <3>1, PackIsDone DEF PackReproduces, Whole
    <3> QED
      BY <2>1, <2>2, <3>2 DEF PInv, Idle
  <2> QED
    BY <2>3, <2>4
<1>9. ASSUME NEW e \in Edges, Edit(e) PROVE PInv'
  <2>1. job = Idle /\ UNCHANGED <<job, exit>> /\ files' = [files EXCEPT !["scenario"].edges = @ \ {e}]
    BY <1>9 DEF Edit
  <2>2. \A f \in PackFiles : files'[f] = files[f]
    BY <2>1 DEF PackFiles, IInv, Files
  <2>3. PackReproduces'
    BY <2>1, <2>2 DEF PInv, PackReproduces, PackFiles, Whole
  <2>4. job.command # "demo-pack"
    BY <2>1 DEF Idle
  <2> QED
    BY <2>1, <2>3, <2>4 DEF PInv, Idle
<1>10. CASE UNCHANGED vars
  <2>1. UNCHANGED <<files, job, exit>>
    BY <1>10 DEF vars
  <2>2. PackReproduces'
    BY <2>1 DEF PInv, PackReproduces, Whole
  <2>3. Packing => Packing'
    <3>1. \A use, s : Targets(use, s)' = Targets(use, s)
      BY <2>1 DEF Targets, Baseline, Overlaid, Whole
    <3>2. Entries(job.writes)' = Entries(job.writes)
      BY <2>1 DEF Entries
    <3> QED
      BY <2>1, <3>1, <3>2 DEF Packing
  <2> QED
    BY <2>1, <2>2, <2>3 DEF PInv, Idle
<1> QED
  BY <1>1, <1>2, <1>3, <1>4, <1>5, <1>6, <1>7, <1>8, <1>9, <1>10 DEF Next

\* A demo pack reproduces itself (demo_pack.py build_demo_pack): after one that
\* ended with exit code 0, its copies replay to the findings beside them,
\* whatever an earlier pack, a kill or an edit of the scenario had left.
THEOREM PacksReproduce == Spec => []PackReproduces
<1>1. ASSUME Init PROVE PInv
  <2>1. job = Idle /\ exit.command = "none" /\ job.command # "demo-pack"
    BY <1>1 DEF Init, Idle
  <2>2. exit # [command |-> "demo-pack", code |-> 0]
    BY <2>1
  <2>3. PackReproduces
    BY <2>2 DEF PackReproduces
  <2> QED
    BY <2>1, <2>3 DEF PInv
<1>2. IInv /\ PInv /\ [Next]_vars => PInv'
  BY PackStep, Markers
<1>3. PInv => PackReproduces
  BY DEF PInv
<1> QED
  BY <1>1, <1>2, <1>3, DirectorySound, PTL DEF Spec
=============================================================================
