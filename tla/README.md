# IAMScope in TLA+

A verification project for IAMScope: what the program computes from an AWS
account's policies, what its commands leave in a directory and what its live
probes record, modelled in TLA+, model-checked with TLC on small instances, and
in large part proved with TLAPS for all of them. Paths below are relative to
`src/iamscope/` unless they say otherwise.

IAMScope runs in one thread. `collect` reads the IAM state of one or more AWS
accounts, resolves it into a graph (nodes, edges, constraints and the bindings
between constraints and edges), runs reasoners over the frozen graph, and writes
a scenario, its bindings and the findings. `probe-overlay` calls AWS to test
edges of a written scenario. `replay-findings`, `diff-findings` and `demo-pack`
work on the files alone. Nothing is shared between threads; what is shared is
the directory. The hard part is therefore what a long sequential computation may
lose or overclaim: walks over cyclic graphs cut at a depth, several sources of
doubt that compete for one verdict, budgets that drop edges in the middle,
policies read only in part, and files of different runs that meet in one place.

## 1. Inventory

| Component | State | Operations | What makes it correct |
|---|---|---|---|
| `reasoner/assume_role_chain.py` | a deque of partial chains, visited principals, reported endpoint pairs, findings | choose a source, pop, report, try one edge | every chain reported is real, shortest and complete within the limits; a verdict follows from the hops; the walk ends |
| `reasoner/admin_reachability.py` | a deque of paths, visited (principal, cleanness) keys, what the walk collected, findings | the same, with one finding per source | lists exactly the reachable admins; doubt on one branch does not spoil a proof on another; validated means complete |
| `reasoner/chain_walking.py`, `admin_detection.py` | none | permission edges, first admitting trust edge, admin witness | which witness is chosen does not change the verdict |
| `reasoner/fact_graph.py` | frozen facts and indexes | lookups, witness tests, join of probe records | indexes agree with the edges |
| `reasoner/verdict.py`, `combinators.py`, `probe_overlay.py` | none | combine tristates, check a finding, overlay probes | no reasoner builds a finding the constructor refuses |
| `reasoner/registry.py`, `cross_reasoner_consistency.py` | a queue of reasoners, emitted findings | run all, demote | no path is emitted as both blocked and open, and none is demoted for another |
| the grant reasoners (`passrole_lambda`, `passrole_ecs`, `secrets_blast_radius`, `iam_group_membership_escalation`, `s3_bucket_takeover`) | findings | preconditions, candidates, witnesses, a table of checks | no open path is missed, a proven one is validated, a block or a shut gate is one |
| `reasoner/cross_account_trust.py` | findings | one pass over trust edges, six checks | every exposure is reported, none invented; nothing is guessed of unknown accounts |
| `reasoner/replay.py` | none | read a scenario, its bindings and an overlay back, run the reasoners | a replayed run gives the findings of the first one |
| `pipeline.py` | lists of nodes, edges and bindings, the budget flag | add per account, bind, deduplicate, make synthetic and placeholder nodes, emit | a graph that was cut says so; no reference dangles |
| `controls/expansion.py`, `collector/passrole.py` | edges registered in total, expanded per principal | expand, suppress, skip, register | limits hold; a suppressed grant leaves a trace |
| `controls/noise_filter.py` | none | drop an edge | drops only self trust and filtered accounts |
| the binders in `resolver/` | none | bind one constraint to one edge | a block that is called complete is a block; silence means no block |
| `resolver/cross_account.py`, `naked_trust.py` | none | trust edges, synthetic principals, classification | every principal of a statement has an edge and a node; the class is that of the policy |
| the parsers in `parser/` | failure lists | JSON policy to statements | what they cannot read they mark |
| the collectors in `collector/`, `auth/` | paginators, failure lists | AWS calls | a failed call is recorded |
| `truth/probe_runner.py` | the plan position, answers, records | skip, simulate, assume, record, write | no call the operator forbade; records say what AWS said, after failures and new tries too |
| `truth/confounded.py`, `org_controls.py`, `edge_truth.py`, `probe_overlay.py` | none | judge a confounder, pick the record that counts, read it | the readers of one overlay do not contradict each other |
| `output/`, `cli.py` | files in an output directory | write scenario, findings, bindings, overlay | files of one run belong together, whatever was killed in between |
| `findings_diff.py`, `demo_pack.py` | copies of inputs, two findings files, diff, manifest | compare by relation; copy, replay, diff | the diff shows what probes changed; the pack replays to itself |
| `diff.py`, reports, `why`, `verify`, `validate`, `enrichment/` | none | render or inspect emitted files | presentation |

How they interact. The collectors hand `AccountData` to `_run_resolution`; it
calls the edge resolvers, `passrole.py` with the expansion controller, and the
binders, all of which return lists; `emit_scenario` validates the result and
refuses it whole if a reference dangles. `FactGraph` is built from the same
lists; `run_all` calls each reasoner with it and `apply_cross_reasoner_demotions`
rewrites findings of one by findings of another, matched over the evidence each
happened to cite. A `Finding` whose verdict, checks and blockers disagree raises
in its constructor and takes the whole run with it. The probe runner reads a
scenario and writes an overlay that names the scenario's hash; collect, replay
and the demo pack join it to the graph and refuse a hash or an edge that does not
fit.

The hazards this code has are listed with their lines in `PROJECT.json`. They
fall into seven groups:

- walks: cycles, depth limits, marks set too early or too late, and the order of
  edges deciding which of several chains is kept;
- competing evidence: verdict, checks, blockers and probe overlay computed apart
  and joined by a constructor that raises;
- agreement of two reasoners that walk the same graph with different marks, and
  of three readers of one overlay;
- which of several grants is the witness: a doubtful one beside a clean one, a
  suppressed wildcard beside a grant by name;
- order of tests in a binder or in a key policy, and policies read only in part;
- budgets: two counters for one limit, bindings that outlive their edges, and a
  flag that has to be set on each path that drops something;
- files: a crash between two writes, a stale sidecar, an overlay of another
  scenario, an edited scenario, a failed probe run started again.

## 2. Modules

| Module | What it models |
|---|---|
| `Verdicts` | tristates and how they combine, blocker states, the probe overlay, and what `Finding.__post_init__` accepts |
| `FactGraph` | the graph as the two walkers see it: permission and trust edges in edge-id order, admin witnesses, lookups |
| `WalkInputs` | what both walkers are given: the graphs, the order of the principals, the limits of a chain |
| `AssumeRoleChain` | the chain walker; one step per loop iteration |
| `AdminChains` | abstract specification of what the chain walker promises: shortest distances, no walk |
| `AdminReachability` | the reachability walker |
| `ReasonerRun` | composition: the registry runs both walkers over one graph, then demotes; extends `AdminReachability` and instantiates `AssumeRoleChain` |
| `ControlBinding` | parsers and binders of SCPs, boundaries, identity denies, conditions and stale principals, as operators |
| `BindingDecisions` | one statement against one edge: a binding beside what the statement means in AWS |
| `GraphAssembly` | the resolution pipeline with both edge counters, up to the emitted or refused scenario; uses `ControlBinding` |
| `GrantGraph` | the graph as the reasoners over single grants see it: grants in edge-id order, bindings, witnesses, admin groups and roles |
| `KmsPolicy` | the evaluation of a KMS key policy by the secrets reasoner |
| `PassRoleChains` | `passrole_lambda` and `passrole_ecs`: candidates, witnesses, checks, verdict |
| `ResourceGrants` | `secrets_blast_radius`, `iam_group_membership_escalation`, `s3_bucket_takeover` |
| `GrantReasoners` | the registry running those five in turn on one graph, with what a finding has to mean |
| `TrustPolicies` | trust policies: principals, condition flags, classification of exposure |
| `TrustGrants` | from trust policy documents over edges and synthetic nodes to the findings of `cross_account_trust`; uses `TrustPolicies` |
| `LiveProbes` | the probe runner with AWS answers, errors and new tries, the confounder judgement, and the readers of the overlay |
| `RunDirectory` | the commands over one directory, killed between or within writes, with edits of the frozen scenario |
| `*_proofs` | theorems about `AssumeRoleChain`, `ReasonerRun` (with `AdminReachability`, which it extends), `BindingDecisions`, `GraphAssembly`, `GrantReasoners`, `TrustGrants`, `LiveProbes` and `RunDirectory`, one module each |
| `MC*` | model values, small families of graphs, statements, estates, plans and worlds for TLC |

### How the models correspond to the code

*Edges and identifiers.* An edge identifier is a hash of the edge's record, so a
record stands for its identifier. Lookups return edges sorted by identifier;
since a hash order is arbitrary, `FactGraph`, `GrantGraph` and `LiveProbes` give
the edges as sequences and take their positions for the order. Different
sequences are different orders, and the families of graphs put the interesting
edge on either side of its rival.

*The chain walker.* `AssumeRoleChain!waiting` is the list of principals with a
`sts:AssumeRole` permission, walked in the order of `facts.nodes`; `frontier`,
`visited`, `seen` are the variables of the same meaning in `run()`. `Pop` is the
body of the `while` up to the loop over permission edges (report, then stop at
the depth limit); `SkipEdge` and `TakeHop` are one iteration of that loop, with
its two `continue`s and its `append`. `BuildFinding` is `_build_finding` with
`_compute_verdict_and_severity` and the overlay that may replace the verdict.
Text, evidence bundles and digests are left out; hops and blocker kinds stay.

*The reachability walker* has the same shape; its visited keys carry whether the
path was clean, and `found` collects what `run()` keeps in five local variables.
The hop is taken with the first admitting trust edge in order, as the code does,
not the best.

*The composition* instantiates both walkers on disjoint variables and the same
`facts`. `queue` is the registration order of the selected reasoners; `Reconcile`
is the demotion step and what is emitted after it.

*Binders.* A pattern list is the set of what it matches, over a small universe
of actions and ARNs; how `fnmatch` decides is not modelled. A binder returns a
set of at most one binding: confidence and whether it is likely to block. A
condition is a set of tests, one per operator and key, and the parsers'
treatment of each kind is kept, the kinds they drop included. What a statement
*means* is not in the code; `BindingDecisions` states it from the policy
language, and resolves what depends on the request in every possible way.

*The pipeline.* One action per account opened, role's trust offered, grant
built, batch offered, phase bound and emitted. `AddInOrder` and `AddByHash` are
`_add_edges`; the second lets any edges of a batch be the ones that fit, because
that batch is sorted by hash. `held` is the length of `all_edges`, duplicates
included, `edges` the set of them. `Register` is `register_edges`, which ends the
run. An account's edges come from a fresh per-principal count, as
`build_permission_edges` has it. `Emit` is `_materialize_dangling_endpoints`
followed by the validation of `emit_scenario`.

*The grant reasoners.* A reasoner's `run()` reads a frozen graph and returns a
list, so one turn of the registry is one action and the body is operators:
preconditions, enumeration of candidates from the targets' side, `Witness` (the
first clean grant in edge-id order, else the first), one operator per check, the
verdict table. A grant records how its resource was written (`scope`), how its
action was (`via`), its condition tests and its bindings. `Infrastructure` are the
principals whose ARN has `:root` or `.amazonaws.com` in it (account roots,
services, service-linked roles), whom `s3_bucket_takeover` passes over
(`Actionable`). The two PassRole
reasoners share their shape in the code, and share a module here with what
differs as operators of the reasoner's name. `KmsPolicy` walks the statements in
the order of `_kms_policy_allows_decrypt`. `Turn` is the list comprehension in
`run_all`: one refused finding ends the run.

*Cross-account trust.* `ParsePolicy` reads one role's document and adds its
results and edges (`parse_trust_policy`, `build_trust_edges` with the noise
filter), `ResolveNodes` makes the synthetic nodes of trust and resource policies
with what they say of the organization, and `Evaluate` is one iteration of the
reasoner's loop. Principals are written in the thirteen forms the parser tells
apart; a condition block is the set of keys it tests. `TrustFinding` keeps the
six checks in the code's terms; `Foreign`, `Tests` and `Stranger`, in which the
properties are stated, speak of the document alone.

*Live probes.* `at` is the loop variable of the runner. `Skip`, `Begin`,
`Simulate`, `AssumeNow` and `Note` are the parts of one iteration, cut where AWS
answers; an answer may be an error, which ends the command with what it recorded
(`failed`), and `Restart` is the operator starting it again, which resumes
nothing. All records of a run carry the time of its start, so which record is
the latest for an edge is decided by the probe id, a digest: `Read` lets any of
the states recorded for an edge come last.

*The directory.* A command computes its writes when it starts, since it runs
alone, and then performs them; each write is `Truncate` and `Fill`, as
`Path.write_bytes` is, and `Crash` may come before, between or within them.
A write of `Missing` stands for the error that ends the command with exit code 1.
The reasoners themselves are one operator (`Reasoned`) with what matters here:
the gate on the edge budget, one finding per edge, the verdict from bindings and
probes. `Edit` is somebody changing the frozen scenario without its metadata. The
variables `runs` (what was collected), `settled` (the collections whose bindings
were written in full) and the fields `run`, `home`, `selection` of a document are
history for the properties; no command decides by them.

*The finding constructor.* `FindingAccepted` is the table of verdicts of
`Finding.__post_init__`. The constructor also refuses an unknown severity
(`verdict.py:253`), a check that cites evidence its bundle lacks (282-304) and
validation on an assumed condition context (317-325). These are left out: each
reasoner takes severities from constants, puts what a check cites into the bundle
beside it, and none makes an assumption of that kind.

## 3. Runs

`ReasonerRun` and `LiveProbes` state `WF_vars(Next)` for their liveness
properties (`Terminates`: both walks end and the findings are emitted; `Finishes`):
the program keeps executing while it has a next statement. It is what one thread
without waiting gives, and nothing stronger is assumed. In `LiveProbes`, AWS
answering a call is part of the statement that makes it, since boto3 returns or raises; the operator's restart is bounded by
`MaxTries`, and the property allows the command to have failed for the last time.
All other runs check safety only.

### Runs that pass

| Run | Distinct states | Shows |
|---|---|---|
| `ReasonerRun` | 211,043 | chains: what is reported is authorized, simple, within limits and ends in an admin; the frontier stays breadth-first; the walker implements `AdminChains` (nothing missed, nothing invented, shortest, verdict justified by some shortest chain). Reachability: the admins listed and proven equal a reference computed without walking; a validated finding lists all admins at any depth, and rests on a proof that no control stops; doubt elsewhere does not lower it. Together: no path is emitted as both a blocked chain and the proof of a validated reachability of the same pair; nothing emitted is refused by the constructor, demoted or not; the two reasoners agree on what is reachable; the run ends |
| `BindingDecisions` | 75,000 | a certain block is a denial under every request, silence means no denial under any; the same for boundaries and identity denies |
| `GraphAssembly` | 29,394 | a graph without the flag has lost nothing; the controller ends only runs the graph could not have held, validation refuses only cut graphs, and the per-principal cap holds (`LimitsKept`); collected nodes are not shadowed; conditions survive |
| `GrantReasoners` | 44,163 | the five reasoners over single grants: none refuses a finding; what is validated is granted definitely, blocked by no binding the reasoner looks at, and decryptable on every reading of the key policy; every open path has a finding, a proven one a validated one (about bucket policies, for every principal but account roots and AWS services); a block cites a sure block that no clean grant bypasses; a shut gate is shut on every reading |
| `TrustGrants` | 5,208 | what is validated rests on a statement that names an outsider without organization or MFA test; every unconditioned grant to an outsider is reported; nothing is claimed of accounts the run does not know; no edge costs the run its findings |
| `LiveProbes` | 34,792 | no call the operator or the scenario forbids, in any try; the records of a try say, in their state and in the two results `edge-truth` reads, what AWS said in it, after errors too; the three readers of an overlay agree, whichever record comes last; the command ends |
| `RunDirectory` | 2,745,977 | over up to four commands and two collections, killed anywhere: findings files name the collection they are about, use no other scenario's probes, and, for a collection whose bindings were written in full, give what was not probed the verdict of its own bindings; a replay repeats such a collection; a pack's diff shows what its probes changed and the pack replays to itself |

`RunsThrough`, `RecordsTrue`, `DocumentsTrue`, `LimitsKept` and `ReadersAgree` are
conjunctions of named parts, stated where they are defined.

### Bounds, and why they suffice

- One user, five roles, two accounts in the walkers' runs; depth limit 4 and
  minimum 2 as in the code. A line of five hops with shortcuts puts admins at
  every distance from 1 to 5, hence on both sides of both limits. A square with
  two routes of equal length gives every pair of rivals for one endpoint; cycles
  give walks that must not revisit. Each of the bindings (none, blocking for
  sure, doubtful, harmless beside doubtful) is put on each kind of edge of a hop.
  One run has them all: `MCRunSpec` gives each walker alone the graphs made for it,
  and both, in either order, the routes between one user and two admins, where
  chains and proofs of one pair overlap or not.
- `BindingDecisions` takes every action form, every resource scope, at most two
  tests of one condition,
  and boundaries of at most two statements. Two is where tests and statements
  begin to compete; the operators treat a third like the second.
- `GraphAssembly` uses two accounts, at most five edges in the graph
  (`MaxTotal`), two per expansion and three per principal in place of 100,000,
  500 and 500. With these, each limit is met exactly, passed by one, and passed
  by several, in the trust, grant, service and resource-policy phases alike. Its
  runs end, in one of three ways, so deadlock is not checked there.
- `GrantReasoners`: one source (in some graphs one of `Infrastructure`), one
  target of each kind (two buckets), up to
  three grants per link, which puts a clean grant before and after each doubtful
  kind; every binding set on each field; key policies of at most two statements
  out of sixteen, so that every pair of forms competes in both orders. Deadlock
  is not checked: the registry stops after its last reasoner.
- `TrustGrants`: one role and one statement in every principal form and under
  every combination of tests that classifies differently, with and without the
  whole organization; two roles in both orders with five lists of principals
  named by resource policies, so that each of the three kinds of node comes first
  for some principal; filters; and bindings and probes in every state. It stops
  when the edges are walked.
- `LiveProbes`: plans of two items, the least with which records compete for an
  edge or an error comes after a record; two tries (`MaxTries`; the code has no
  bound), the least with which old answers could leak into new records; controls
  that govern, and ones that miss by each single thing the judgement looks at.
- `RunDirectory`: four commands (`MaxCommands`) and two collections (`MaxRuns`;
  the code bounds neither) are what the longest mixture needs: collect, probe,
  collect again or edit, and a command that reads. Worlds differ in what they
  bind to one graph, in having bindings at all, and in two edges of one relation.
  A session may stop at any point, so deadlock is not checked.

### Runs that find a disagreement

Each checks one statement of a document and shows the code do otherwise; the
quotation is in `PROJECT.json` under `findings`.

| Run | Property | What the code does |
|---|---|---|
| `ProbeHalves` | `HalvesShareProbes` | a denied probe on the permission half of a hop does not reach the finding on its trust half |
| `ReplayDiffers` | `SameScenarioSameFindings` | a replay forgets that the edge budget ran out, and may read an earlier run's bindings |
| `AlternatePath` | `AlternatePathSpared` | demotion matches any shared evidence, and the findings of a pair share the admin witness: a proof over a path that no blocked chain touches is demoted |
| `LayersHeeded` | `LayersHeeded` | two promises broken in one report: the three resource reasoners pass over a binding that is not likely to block, hence over a boundary nobody could evaluate, and validate (`DoubtShown`); `passrole_ecs` and `s3_bucket_takeover` look for no identity deny, and validate over a grant that is denied for sure (`DenyOverrides`). The property is the disjunction of the two, so that what breaks it breaks both |
| `ReplayMixes` | `ReplayIsOfItsRun` | collect; collect again, killed after `scenario.json` and before `binding_metadata.json`; replay: nothing compares the two, and the file names the second collection with the verdicts of the first one's bindings |

Properties are stated with a restriction where one of these, or one of the
differences below, makes it necessary: `ScpBlockIsCertain` for statements the
parser reads in full, `BoundaryAllowsPlainly` for boundaries whose Deny statements
are plain, `ReplayRepeats` for collections within the budget that wrote their
bindings in full, `VerdictsDeclared` (a part of `DocumentsTrue`) for the latter
too, `NoContradiction` for paths that share a hop, and the claims about
`iam:PassedToService` for statements that test it once. `ValidatedProven` of the
grant reasoners is about witnesses, links and keys: of governance it asks no more
than the bindings the reasoner itself looks at and calls likely to block; what the
documents ask beyond that is in `DoubtShown` and `DenyOverrides`.

### Other differences between text and code

Met on the way and kept in the models as the code has them, with no run of their
own.

Chains and graphs:

- `verdict.py:24` (third invariant) has validation depend on a complete graph;
  the two walkers validate and block on a truncated one, and only the PassRole
  reasoners look at the flag, as a precondition;
- a blocked chain over exactly the proof's hops is not always found, since
  `assume_role_chain` keeps one chain for a pair;
- `assume_role_chain` keeps one finding per endpoint pair, where `run()`'s
  docstring speaks of one per hop sequence, and any `_trust` edge admits a hop,
  `sts:TagSession_trust` included; the first admitting trust edge in edge-id
  order decides how clean a hop is (`chain_walking.py:100`);
- `admin_reachability` emits BLOCKED, which its docstring excludes, and names as
  its target the first admin by ARN whether or not that one is proven;
- a selection without `assume_role_chain` has nothing to demote with
  (`registry.py:180`).

Binders and the pipeline:

- a plain Allow in a boundary hides an open Deny (`permission_boundary.py:304`);
  a boundary whose document was not parsed is left out (`account.py:352`);
- an SCP with `NotResource` keeps the resource `*` and comes out complete
  (`parser/scp_policy.py:191`), so an edge to a resource it exempts is blocked for
  sure, against `docs/deny-evaluation-spec.md:320` (excluded by `ReadInFull`);
- an SCP with two positive `aws:PrincipalArn` operators takes the union of their
  patterns (excluded by `ReadInFull`), and its exception is matched against the
  source of an edge, hence never against who walks over an account root's edge;
- an identity Deny with `NotAction` is bound to nothing;
- SCPs are bound to trust edges only (`pipeline.py:776`), while the reasoners over
  grants look for them on permission edges;
- constraints and bindings of edges that fell to the budget are kept, and
  emission then refuses the whole scenario (`pipeline.py:762`), and
  `register_edges` ends the run at the limit, where `_run_resolution`'s docstring
  promises to drop edges; a batch that is empty at the exact limit sets the flag
  (`pipeline.py:650`);
- a role wildcard that matches nothing leaves neither edge nor hyperedge
  (`collector/passrole.py:217`).

Grants:

- `passrole_lambda` takes the first grant that is not clean in edge-id order when
  none is clean, so whether a shut gate or a doubt is reported depends on a hash
  (`passrole_lambda.py:1208`); a statement with two tests of
  `iam:PassedToService` passes if any of them does, where IAM wants all;
- `secrets_blast_radius` emits one finding per edge and none for a wildcard grant
  that was not expanded, and takes the key as open for an account-root statement
  without looking for an IAM grant of `kms:Decrypt`.

Trust:

- OIDC principals are never cross-account, so the class the parser gives them
  (`trust_policy.py:467`) is never reported, where `README.md:646` lists it;
  `sts:*` trust is parsed into an edge no reasoner looks at
  (`trust_policy.py:271`); Deny and NotPrincipal statements are skipped
  (`trust_policy.py:172`); a negated operator counts as protection;
- a wildcard with an organization or MFA test fails the reasoner's consistency
  check and is inconclusive; one with unread condition keys is classified as if it
  had none, against `naked_trust.py:5`;
- `resource_policy_binder.py:106` says member for "same account as the policy"
  and stranger for any other, where `pipeline.py:595` resolves membership from the
  organization; the account filter drops edges from accounts that were never to
  be collected.

Probes and files:

- an error that is no denial loses all records of the try
  (`probe_runner.py:284`); a record of a completed probe always says it was not
  confounded; a prefix match on the action lets an item pick either half of a hop,
  or an edge for SAML or web identities; the runtime caller is not checked to be
  the edge's source;
- with the reasoners left to their default, an overlay of another scenario ends
  `collect` with exit code 0 and leaves the earlier findings file
  (`cli.py:1005`);
- two findings with one key make the diff raise, and a demo pack then ends before
  its manifest; a pack killed half-way leaves the earlier manifest beside new
  files (`demo_pack.py:117`).

## 4. Proofs

Each theorem is `Spec => []P`, or that one specification implements another, for
every value of the constants that satisfies the named assumptions, which only
give the constants their types and the inputs the shape the program can meet. TLC
evaluates them in each run.

### The chain walker

`AssumeRoleChain_proofs`, for every set of users, roles and accounts, every family
of fact graphs of any size, and any limits with `0 < MinChain <= MaxDepth`
(`WalkBounds`, `DistinctNodes`):

| Theorem | States |
|---|---|
| `TypeCorrect` | `TypeOK` always holds |
| `ChainsAreAuthorized` | every chain a finding cites runs over authorized hops from source to admin target, without repeating a principal, within the limits |
| `WalkIsBreadthFirst` | the frontier holds chains of at most two consecutive lengths in order, no principal twice |
| `FindingsAreAccepted` | no finding trips the constructor, whatever the bindings and probe records |
| `KeepsThePromise` | the walk implements `AdminChains` (`KeepsPromise`) |

`ChainsAuthorized` speaks of findings, and says nothing of the frontier they come
from; it is not inductive. The invariant `IInv` adds `WalkInv`: each entry of the
frontier, and the entry popped last while its edges are tried, is an authorized
simple chain from the current source to the principal it stands at, all of whose
stops are visited. Simplicity of an extended chain needs exactly that: the new
stop was not visited, the old ones were. Breadth-first order needs that the
popped entry's chain is no longer than any on the frontier and at most one
shorter than the last (`HereLeads`). `FindingsAreAccepted` does not need the walk
at all: it follows from what `BuildFinding` returns, by cases on the computed
verdict and the overlay.

`KeepsThePromise` is the refinement, with the findings mapped to their endpoints,
lengths and verdicts. `AdminChains` knows no walk: distances come from a recursive
function on the number of hops, of which `ReachedSays` proves that it exists and
what it is at 0 and at k + 1. A second invariant, `DInv`, holds with `IInv`. Each
entry of the frontier stands at the distance its chain is long (`Placed`);
everything no farther than the head of the frontier was visited (`Distances`), so
that what is met anew is farther by one. Whoever was visited is in line, or was
reported if due and led on to all it may assume, or lies at the depth limit
(`Due`); when nobody is in line, that closes the visited under hops, and a walk
that ends has met everything in range. `Books` keeps this beyond the walk: each
finding is at its distance, and for every principal no longer waiting nothing is
missing, which is what `Finish` of the promise asks. That a pop may report needs
also that its verdict is justified by the graph: every hop of a chain as long as
its target is away lies on a shortest chain (`ShortestHopsTaken`, from
`StepsCompose`), and `VerdictJustified` goes from the five checks and the overlay
to the hops they speak of.

### The reachability walker

`ReasonerRun_proofs`, first part, for every set of users, roles and accounts of any
finite size, every family of fact graphs and any limits with
`0 < MinChain <= MaxDepth` (`WalkBounds`, `ReachBounds`, `DistinctNodes`; the
principals are finite because they are read from a list):

| Theorem | States |
|---|---|
| `Invariance` | the inductive invariant holds |
| `Types` | `TypeOK` always holds |
| `ExactlyWhatIsInReach` | a finding lists exactly the admin roles within `MaxDepth` hops and proves exactly those clean hops reach; no principal that reaches one is left out |
| `ValidatedIsComplete` | a validated finding lists every admin role reachable at any depth |
| `ValidatedIsProven` | a validated finding rests on clean hops, none stopped or doubtful, to an admin role |
| `CleanProofIsNotPoisoned` | doubt elsewhere in the walk does not lower a clean proof |
| `FindingsAreAccepted` | no finding trips the constructor |

What the walk should find is defined without walking: `Within` is a recursive
function on the number of hops over pairs of a principal and a cleanness.
`WithinSays` proves that the function exists and what it is at 0 and at n + 1,
and the inductions on n are done on the set of numbers that have the property
(`SetInduction`, from the well-founded induction of the library), which needs no
operator as a parameter.

`IInv` follows the walk. `Founded`: each entry of the frontier was put there over a
path that leads to it, and it is no nearer than its path is long. `Distances`: the
frontier is in order of length, and everything nearer than its head has been
marked. `Popped`: a marked pair is in line, or what it leads to is marked, or it
lies at the limit and the limit was noted. `Sound` says that what was collected is
in reach, and when the walk is over `Popped` gives `Whole`: all that is in reach
was collected. Findings are then what `ReachFinding` makes of a sound and whole
collection (`Grounded`), which no later step touches. `ValidatedIsComplete` needs
one more idea: check 4 passes only if the last round of hops brought nothing new,
and a round that brings nothing new is the last of all.

### The run of both walkers

`ReasonerRun_proofs`, second part, for the same graphs, any limits with
`0 < MinChain <= MaxDepth` and any selection of the two reasoners in any order,
repeated ones included (`RunBounds`):

| Theorem | States |
|---|---|
| `EachAsAlone` | every behaviour of the run is one of each walker alone |
| `RunInvariance` | the inductive invariant of the run holds |
| `RunTypes` | `RunTypeOK` always holds |
| `RunChainsAuthorized`, `RunBreadthFirst`, `RunKeepsPromise` | the chain walker's claims hold in the run: `ChainsAuthorized`, `BreadthFirst`, and the refinement of `AdminChains` |
| `NothingIsContradicted` | no path is emitted both as a blocked chain and as the proof of a validated reachability of the same pair |
| `NothingEmittedIsRefused` | the constructor accepts every emitted finding, demoted ones too |
| `ChainsAreReachable` | once both have run, an emitted chain's target is listed by a reachability finding for its source |

The run is a sequence of steps of one walker or the other, and either leaves the
other alone, so `RunInv` is both invariants with what is said of the output: nothing
is emitted before the queue is empty, and then `Output`, which no step changes.
The module reaches the theorems about the chain walker through `ChainP`, an instance
of `AssumeRoleChain_proofs` with the same substitution as `Chain` of the model; the
`Same...` lemmas show that the two name the same operators and steps, those of
`AdminChains` below them included, which is how the chain walker's claims carry
over to the run.

`NothingIsContradicted` is proved without looking at the hops: the target of a
reachability finding is one of the roles it lists (`TargetIsListed`), so that its
evidence always cites the admin witness the blocked chain cites, and the finding is
demoted. That the same happens to a proof over a disjoint path is more than the
theorem states and more than the module's text allows; the run `AlternatePath`
shows it. `ChainsAreReachable` needs both walkers. A
chain may use any admitting trust edge and `Within` counts first ones only, but
where one admits a first one does (`ChainWithin`); the chain is simple, so its target is not
its source, and it has at most `MaxDepth` hops. So the target is in reach, and
reachability, when it is done, has a finding for every principal that reaches a role
other than itself (`Settled`), listing all it reaches (`Whole`).

### The binders

`BindingDecisions_proofs`, for every universe of actions and ARNs, every set of
edges and of well-formed statements (`Cases`, `Homes`):

| Theorem | States |
|---|---|
| `BindingsTyped` | `TypeOK` always holds |
| `ScpBlocksAreCertain` | a certain SCP block is a denial under every request, for statements read in full |
| `ScpSilencesAreCertain` | an edge on which an SCP leaves no claim and no doubt is denied under no request |
| `BoundaryBlocksAreCertain` | a certain boundary block is one on every reading of the open statements |
| `BoundaryAllowsAreCertain` | without an open Deny, an edge left alone is permitted on every reading |
| `DeniesAreBoundRightly` | a certain deny covers the edge without condition, and one that lists its actions is never missed |

`IInv` says that a decided control's bindings are what the binder of its kind
returns for the edge. The rest is about the operators: `SureScp` collects what a
sure block needs, `CompleteParse` turns the parse status into facts about the
statement, `TestKindsDisjoint` keeps exceptions and filters apart. `ReadInFull`
is needed in exactly one place, where the source is in the union of the filters'
values and must be in the values of each. For a boundary, `BoundaryAnswers`
splits the evaluator into its four returns.

### The pipeline

`GraphAssembly_proofs`, for every collection and any limits, zero included
(`Limits`, `Collections`, `Homes`):

| Theorem | States |
|---|---|
| `Invariance` | the inductive invariant holds |
| `LimitsAreKept` | types, the limits on the graph and per principal; the controller ends only runs the graph could not have held; a refused scenario was cut |
| `NothingIsLost` | a graph without the flag has everything that was offered to it |
| `CollectedStay` | a collected principal's node is never one that stands for something else |
| `ConditionsAreKept` | a conditional trust or resource-policy edge has a binding that says so |

`Collections` states what the collectors hand over: an account is collected once,
its principals belong to it alone, and a grant is told by the parse result it
came from. Without the last two the cap per principal fails, since the count
starts anew with each account (TLC found it while the invariant was being
worked out). The two counters of one limit, `held` of the graph and `registered` of the
controller, are tied in `Counters`: as long as nothing was dropped, what is
registered is in the graph or built for the account at hand, so that a run the
controller ends is one the graph could not have held. `Capped` counts the edges
that stem from expansion by principal; `Complete` says for each phase that what
had its turn is there; `Conditions` ties the bindings to the edges they outlive.

### The grant reasoners

`GrantReasoners_proofs`, for every graph, every order of registration and every key
policy (`GrantNodes`, `GrantInputs`):

| Theorem | States |
|---|---|
| `Invariance` | the inductive invariant holds |
| `RunsThroughAlways` | every finding of the five reasoners is accepted; no run is aborted |
| `ValidatedIsProven` | what is validated is granted definitely, blocked by no binding the reasoner looks at, and open on every reading of the key policy |
| `NothingIsMissed` | every open path has a finding, a proven one a validated one; about bucket policies, for every principal but account roots and AWS services, which have none (`InfrastructureSpared`) |
| `BlocksAreJust` | a block cites a sure block that no clean grant bypasses |
| `GatesStayShut` | a gate reported shut is shut on every reading |

`IInv` is short, since a turn of the registry is one step: the findings are exactly
what the reasoners that had their turn make of the graph, and none was refused.
The work is in the operators. `WitnessChosen`: the witness is clean if any of its
rivals is; then each check table gives the verdict from its checks, and for the
secrets reasoner the walk over the statements of a key policy is compared with
all readings of its conditions. `GrantInputs` asks that two edges with the same
source, action and resource carry the same bindings (`WellGoverned`), as the
binders look at nothing else of an edge; without it a clean witness could be
blocked where a doubtful rival is not.

### Cross-account trust

`TrustGrants_proofs`, for every set of accounts, names, policies and estates
(`TrustAccounts`, `CollectedRoles`):

| Theorem | States |
|---|---|
| `GrantsSound` | the inductive invariant holds |
| `RunsGoThrough` | every edge looked at ends in a well-formed finding the constructor accepts; an alarm is of a wildcard with a strong test |
| `UnknownStaysUnknown` | severity is lowered for known accounts only; a partial collection validates no unknown one |
| `ValidatedAreProven` | a validated finding rests on a statement that grants to an outsider, and on nothing that blocks |
| `NothingIsMissed` | every unconditioned grant to an outsider is reported, validated for a stranger where nothing speaks against it |

Findings are made in one phase from edges made in another, with nodes in between,
so `IInv` ties all of them down: each result to the statement it came from
(`Outcome`), the results of the roles read so far to the policies, the edges to
the results, the nodes to `Nodes`, and the findings to exactly the edges that are
done. That the loop is never aborted is part of it, and holds because
`FindingSays` shows any finding acceptable from the table of Verdicts; without it
the findings would not be those of the edges done. `CrossIsForeign` and
`Classified` translate the code's types, scopes and flags into the words of the
policy; `NodeSays` goes through the three kinds of node.

### Live probes

`LiveProbes_proofs`, for every scenario, plan and number of tries
(`ProbeConstants`, `ProbeCases`):

| Theorem | States |
|---|---|
| `ProbesSound` | the inductive invariant holds |
| `RecordsAreTrue` | records are well formed and say, in their state and in both results, what AWS said in this try, and nothing where it was not asked |
| `CallsAreMeant` | no forbidden call in any try |
| `ReadersDoAgree` | edge-truth and the two reasoners agree on an overlay |

The set of answers only grows, over all tries. Inductive is that in the current
try nothing is known beyond the item in hand (`Ahead`), that the two results in
hand are the whole of what was said about it (`InHand`, `Asked`), and that every
record fits its answers. Without `Ahead`, a restart could find answers of its own
number; without `InHand`, a record could claim more than was asked.

### The directory

`RunDirectory_proofs`, for every set of edges, worlds, flags and any number of
commands and collections (`DirectoryConstants`, `Markers`: a file that is absent or
cut short is told from every content):

| Theorem | States |
|---|---|
| `DirectorySound` | the inductive invariant holds |
| `FindingsFilesAreTrue` | findings files are about the collection they name, use no other scenario's probes, and give what was not probed the verdict of its bindings, if they were written in full |
| `PackDiffsAreTheProbes` | no finding in a pack's diff comes, goes or changes without new probe evidence |
| `DirectoryRepeats` | the second inductive invariant, `RInv`, holds |
| `ReplaysRepeat` | a findings file without probes is what the reasoners make of the named collection's own graph and bindings, if it wrote them in full and stayed within the budget |
| `PacksReproduce` | a pack that succeeded replays to itself |

Files are written one by one and a crash leaves any mixture, so nothing that
relates two files can be inductive except through what each says of itself. `IInv`
gives every file, and every write a running command has ahead, a soundness of its
own (`Sound`, by kind of file): a scenario states the graph of the collection
that wrote it, however it was edited since; a document is about the collection it
names and was probed only in that collection's graph; a pack's diff adds and
removes nothing and changes only verdicts that were probed. The overlay needs
no soundness of its own: whoever reads it compares its hash first. `IInv`
survives a crash because it speaks of each write alone.

What a document says of verdicts rests on files that two commands wrote, and
what a pack holds on several writes of one; each needs an invariant of its own on
top of `IInv`. `RInv`: every document of a settled collection follows from that
collection's own edges and bindings, whoever wrote it (`FilesSay`), and so does
every one a running command is about to write (`Coming`); and where the scenario is
that of a settled collection, the bindings beside it are its own (`Matching`). The
last part is what the order of the writes gives: scenario, bindings, findings
(`InOrder`). A collection is not settled while its scenario is ahead, no document
names it while its bindings are, and what is ahead of them is its own
(`Underway`). A collection killed between the two never becomes settled, and
nothing is said of its verdicts; that is the mixture `ReplayMixes` shows. The
mutant that writes the bindings before the scenario breaks just that: killed
between the two, it leaves the scenario of a settled collection beside the bindings
of another. `PInv`: while a pack is
being written, everything it is to hold is either ahead or in place (`Packing`);
what it is to hold depends on the three inputs alone, which it does not write, and
a pack whose baseline could not be reasoned stops before its end.

### What stays with TLC

- `Terminates` of the run of the walkers and `Finishes` of the probe runner
  (liveness under fairness).

## 5. Not modelled, and why

- `fnmatch`, ARN parsing, JSON canonicalisation and hashing: their results are
  sets of matches and equality of records.
- AWS API calls, pagination, retries inside boto3, credential handling (`auth/`,
  the collectors but `passrole.py`): inputs. What a failed call leaves is modelled
  where a later step reads it (partial collections, missing key policies).
- The permission and resource-policy parsers: their statements are inputs of
  `GraphAssembly` and `GrantReasoners`, in the forms the parsers produce.
- Evidence bundles, scores and texts of findings, `reasoner/evidence.py`: no
  verdict depends on them, except for the evidence that demotion matches, which
  `ReasonerRun` keeps.
- `diff.py`, reports, `why`, `verify`, `validate`, `enrichment/`, the printed
  stale-principal summary, and the argument parsing of `cli.py`: read-only
  presentation.
- `judge_account_confounding`, `should_include_role`: nothing in the package
  calls them.
- `benchmarks/`, `tools/`, `scripts/`, `acceptance/`: not part of the program.

## 6. Plan

Done: the two walkers with their composition and abstract specification, the
binders, the pipeline, the five reasoners over single grants, cross-account
trust from document to finding, the probe runner, the directory; every safety
property of a run, and the refinement, as theorems (section 4).

Left:

1. `Collection`: the account loop with failures and skipped accounts as actions,
   so that `complete` of `TrustGrants` and the inputs of `GraphAssembly` become
   results instead of inputs.
