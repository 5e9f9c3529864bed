---------------------------- MODULE GraphAssembly ----------------------------
(***************************************************************************)
(* The resolution pipeline: what one collection becomes a fact graph of.   *)
(* Accounts are taken in turn, their trust statements and grants turned    *)
(* into edges; service and resource-policy edges follow; governance is     *)
(* bound; loose ends get placeholder nodes; and the scenario is emitted,   *)
(* unless a check on it fails.                                             *)
(*                                                                         *)
(* Two counters guard the size of the graph: edges held against MaxTotal,  *)
(* where the rest is dropped, and permission edges registered against the  *)
(* same MaxTotal, where the run ends.                                      *)
(***************************************************************************)
EXTENDS ControlBinding, Integers, Sequences, SequencesExt, FiniteSetsExt

CONSTANTS
  Inputs,           \* the collections a run may start from
  People,           \* the ARNs of roles and users
  HyperedgeOf,      \* the node that stands for suppressed grants, by account
  MaxTotal,         \* MAX_TOTAL_EDGES
  MaxPerExpansion,  \* MAX_EDGES_PER_EXPANSION
  CumulativeCap     \* CUMULATIVE_HARD_CAP

ASSUME Limits ==
  /\ {MaxTotal, MaxPerExpansion, CumulativeCap} \subseteq Nat
  /\ IsFiniteSet(People) /\ People \subseteq Arns /\ \A p \in People : HomeOf[p] \in Accounts
  /\ HyperedgeOf \in [Accounts -> Arns \ People]

(***************************************************************************)
(* What collection hands over. An account is collected once, with its own  *)
(* roles and users; "from" tells the parse result a row or a grant is, so  *)
(* that no two grants share one.                                           *)
(***************************************************************************)
IsList(s) == s \in Seq(Range(s))

Joins(e, layer) == e.layer = layer /\ {e.src, e.dst} \subseteq Arns

CollectedAccount(a) ==
  /\ a.roles \subseteq a.people /\ a.people \subseteq People
  /\ IsList(a.trusts) /\ IsList(a.grants)
  /\ \A rows \in Range(a.trusts) : IsList(rows) /\ \A row \in Range(rows) : Joins(row, "trust")
  /\ \A g \in Range(a.grants) :
       g.principal \in a.people /\ g.action \in Actions /\ g.wild \in BOOLEAN /\ g.target \in Arns

Governance(I) ==
  /\ \A scp \in I.scps : scp.says \in ScpStatement
  /\ \A p \in DOMAIN I.boundary : I.boundary[p] \subseteq BoundaryStatement
  /\ I.denies \subseteq DenyStatement

Collection(I) ==
  /\ IsList(I.accounts) /\ \A i \in DOMAIN I.accounts : CollectedAccount(I.accounts[i])
  /\ \A i, j \in DOMAIN I.accounts : i # j => I.accounts[i].people \cap I.accounts[j].people = {}
  /\ \A i, j \in DOMAIN I.accounts :
       \A k \in DOMAIN I.accounts[i].grants, l \in DOMAIN I.accounts[j].grants :
         I.accounts[i].grants[k].from = I.accounts[j].grants[l].from => i = j /\ k = l
  /\ I.mode \in [Actions -> {"warn", "skip", "expand"}]
  /\ I.services \subseteq Arns
  /\ IsList(I.serviceEdges) /\ \A e \in Range(I.serviceEdges) : Joins(e, "service")
  /\ IsFiniteSet(I.rows) /\ \A e \in I.rows : Joins(e, "resource_policy")
  /\ Governance(I)

ASSUME Collections == \A I \in Inputs : Collection(I)

VARIABLES
  input,            \* what was collected
  pc,               \* the phase of the run, or how it ended
  account,          \* the account being resolved
  trusts,           \* its roles not yet offered, each the list of its trust rows
  grants,           \* its grants not yet built
  built,            \* the permission edges built for it
  expanded,         \* edges expanded so far, by principal of the account
  registered,       \* permission edges counted by the expansion controller
  nodes,            \* how each node of the graph came to be known
  edges,            \* the edges of the graph
  held,             \* the length of the list "edges" is the set of
  exhausted,        \* edge_budget_exhausted
  bindings          \* edge constraints

size == <<registered, held, exhausted>>
vars == <<input, pc, account, trusts, grants, built, expanded, registered, nodes, edges, held,
          exhausted, bindings>>

-----------------------------------------------------------------------------
(***************************************************************************)
(* Adding to the graph. The first node of an identity stays. A batch of    *)
(* edges is cut to what fits and, once something did not fit or the graph  *)
(* was found full, later batches are dropped whole. A list offers those of *)
(* its rows that are chosen, in order.                                     *)
(***************************************************************************)
LastWins(arns, origin) == [n \in DOMAIN nodes \cup arns |-> IF n \in arns THEN origin ELSE nodes[n]]
WithNodes(arns, origin) ==
  [n \in DOMAIN nodes \cup arns |-> IF n \in DOMAIN nodes THEN nodes[n] ELSE origin]

Fitting(offered) == IF exhausted THEN 0 ELSE Min({offered, MaxTotal - held})

CutOnly(kept, offered) == exhausted \/ (kept < offered /\ held < MaxTotal)
Exhausts(kept, offered) == exhausted \/ kept < offered \/ held = MaxTotal

Accept(kept, count, offered) ==
  /\ edges' = edges \cup kept
  /\ held' = held + count
  /\ exhausted' = Exhausts(count, offered)

AddInOrder(rows, chosen) ==
  LET n == Fitting(Cardinality(chosen))
  IN  \E first \in kSubset(n, chosen) :
        /\ \A i \in first, j \in chosen \ first : i < j
        /\ Accept({rows[i] : i \in first}, n, Cardinality(chosen))

(***************************************************************************)
(* Batches sorted by edge id come in hash order: any of their edges may be *)
(* the ones that fit.                                                      *)
(***************************************************************************)
AddByHash(batch) ==
  LET n == Fitting(Cardinality(batch))
  IN  \E kept \in kSubset(n, batch) : Accept(kept, n, Cardinality(batch))

-----------------------------------------------------------------------------
(***************************************************************************)
(* From statements to edges.                                               *)
(***************************************************************************)
Included(home) ==
  \/ home = NoAccount
  \/ home \notin input.skipped /\ (input.included = {} \/ home \in input.included)

IsSignal(row) == row.src # row.dst /\ Included(HomeOf[row.src]) /\ Included(HomeOf[row.dst])

Signals(rows) == {i \in DOMAIN rows : IsSignal(rows[i])}

RoleActions == {"sts:AssumeRole", "iam:PassRole"}

KnownRoles == UNION {input.accounts[i].roles : i \in DOMAIN input.accounts}

GrantEdge(g, target) ==
  [layer |-> "permission", action |-> g.action, src |-> g.principal, dst |-> target,
   conditional |-> g.conditional, from |-> g.from]

Matches(g) == g.pattern \cap KnownRoles

Expansion(g) == {GrantEdge(g, role) : role \in Matches(g)}

Hyperedge(g) == GrantEdge(g, HyperedgeOf[HomeOf[g.principal]])

WithinCap(g) == expanded[g.principal] + Cardinality(Matches(g)) <= CumulativeCap

EffectiveMode(g) ==
  CASE g.action \notin RoleActions /\ input.mode[g.action] # "skip"             -> "warn"
    [] /\ g.action \in RoleActions /\ input.mode[g.action] = "expand"
       /\ (Cardinality(Matches(g)) > MaxPerExpansion \/ ~ WithinCap(g))         -> "warn"
    [] OTHER                                                                    -> input.mode[g.action]

(***************************************************************************)
(* The principals of trust statements that get a node of their own: all    *)
(* but roles and users of the account itself, which collection should have *)
(* found. Statements the noise filter drops count as well.                 *)
(***************************************************************************)
TrustRows == UNION {UNION {Range(rows) : rows \in Range(input.accounts[i].trusts)} : i \in DOMAIN input.accounts}

SyntheticPrincipals ==
  {row.src : row \in {r \in TrustRows : r.src \notin People \/ HomeOf[r.src] # HomeOf[r.dst]}}

-----------------------------------------------------------------------------
Init ==
  /\ input \in Inputs
  /\ pc = "account" /\ account = 1
  /\ trusts = <<>> /\ grants = <<>>
  /\ built = {} /\ expanded = [p \in People |-> 0]
  /\ registered = 0
  /\ nodes = [n \in {} |-> "collected"] /\ edges = {} /\ held = 0 /\ exhausted = FALSE
  /\ bindings = {}

(***************************************************************************)
(* _run_resolution's loop over accounts. The permission edges of an        *)
(* account are built from a fresh per-principal count and sorted by id.    *)
(***************************************************************************)
OpenAccount ==
  /\ pc = "account" /\ account \in DOMAIN input.accounts
  /\ pc' = "trust"
  /\ nodes' = WithNodes(input.accounts[account].people, "collected")
  /\ trusts' = input.accounts[account].trusts
  /\ grants' = input.accounts[account].grants
  /\ built' = {} /\ expanded' = [p \in People |-> 0]
  /\ UNCHANGED <<input, account, edges, bindings, size>>

OfferTrust ==
  /\ pc = "trust" /\ trusts # <<>>
  /\ AddInOrder(Head(trusts), Signals(Head(trusts)))
  /\ trusts' = Tail(trusts)
  /\ UNCHANGED <<input, pc, account, grants, built, expanded, registered, nodes, bindings>>

Granting == pc = "trust" /\ trusts = <<>> /\ grants # <<>> /\ grants' = Tail(grants)

(***************************************************************************)
(* register_edges: the run ends when the count passes the limit.           *)
(***************************************************************************)
RegisterBelow(new) ==
  /\ built' = built \cup new
  /\ registered' = registered + Cardinality(new)
  /\ pc' = IF registered' >= MaxTotal THEN "aborted" ELSE pc

Register(new) ==
  /\ built' = built \cup new
  /\ registered' = registered + Cardinality(new)
  /\ pc' = IF registered' > MaxTotal THEN "aborted" ELSE pc

GrantSpecific ==
  /\ Granting /\ ~ Head(grants).wild
  /\ Register({GrantEdge(Head(grants), Head(grants).target)})
  /\ UNCHANGED <<input, account, trusts, expanded, nodes, edges, held, exhausted, bindings>>

GrantSkipped ==
  /\ Granting /\ Head(grants).wild /\ EffectiveMode(Head(grants)) = "skip"
  /\ UNCHANGED <<input, pc, account, trusts, built, expanded, nodes, edges, bindings, size>>

GrantSuppressed ==
  /\ Granting /\ Head(grants).wild /\ EffectiveMode(Head(grants)) = "warn"
  /\ built' = built \cup {Hyperedge(Head(grants))}
  /\ UNCHANGED <<input, pc, account, trusts, expanded, nodes, edges, bindings, size>>

GrantExpanded ==
  /\ Granting /\ Head(grants).wild /\ EffectiveMode(Head(grants)) = "expand"
  /\ Register(Expansion(Head(grants)))
  /\ expanded' = [expanded EXCEPT ![Head(grants).principal] = @ + Cardinality(Matches(Head(grants)))]
  /\ UNCHANGED <<input, account, trusts, nodes, edges, held, exhausted, bindings>>

OfferGrants ==
  /\ pc = "trust" /\ trusts = <<>> /\ grants = <<>>
  /\ AddByHash(built)
  /\ nodes' = WithNodes({e.dst : e \in built} \cap Range(HyperedgeOf), "hyperedge")
  /\ pc' = "account" /\ account' = account + 1
  /\ UNCHANGED <<input, trusts, grants, built, expanded, registered, bindings>>

(***************************************************************************)
(* After the accounts: synthetic nodes, services and resource policies. A  *)
(* condition of a resource policy is bound here, before the budget decides *)
(* which of the edges stay.                                                *)
(***************************************************************************)
OfferServices ==
  /\ pc = "account" /\ account \notin DOMAIN input.accounts
  /\ LET known == WithNodes(SyntheticPrincipals, "synthetic")
     IN  nodes' = [n \in DOMAIN known \cup input.services |->
                     IF n \in DOMAIN known THEN known[n] ELSE "collected"]
  /\ IF input.serviceEdges = <<>> THEN UNCHANGED <<edges, held, exhausted>>
                                  ELSE AddInOrder(input.serviceEdges, DOMAIN input.serviceEdges)
  /\ pc' = "resources"
  /\ UNCHANGED <<input, account, trusts, grants, built, expanded, registered, bindings>>

Bindings(es, by, bind(_)) ==
  UNION {{[edge |-> e, by |-> by, says |-> b] : b \in bind(e)} : e \in es}

OfferResources ==
  /\ pc = "resources"
  /\ nodes' = WithNodes({row.src : row \in input.rows}, "synthetic")
  /\ IF input.rows = {} THEN UNCHANGED <<edges, held, exhausted>> ELSE AddByHash(input.rows)
  /\ bindings' = Bindings(input.rows, "condition", BindCondition)
  /\ pc' = "bind"
  /\ UNCHANGED <<input, account, trusts, grants, built, expanded, registered>>

(***************************************************************************)
(* Binding. SCPs are bound to trust edges; boundaries and identity denies  *)
(* to permission edges. A principal whose boundary document was not read   *)
(* has none as far as binding goes.                                        *)
(***************************************************************************)
ScpBindings(e) ==
  UNION {BindScp(e, scp.says) : scp \in {s \in input.scps : InScope(e, s.attached)}}

BoundaryBindings(e) ==
  IF e.src \in DOMAIN input.boundary THEN BindBoundary(e, input.boundary[e.src]) ELSE {}

DenyBindings(e) == UNION {BindDeny(e, d) : d \in input.denies}

DriftBindings(e) == BindDrift(e, input.stale)

TrustEdges == {e \in edges : e.layer = "trust"}

Bind ==
  /\ pc = "bind"
  /\ bindings' = bindings \cup Bindings(TrustEdges, "scp", ScpBindings)
                          \cup Bindings(TrustEdges, "condition", BindCondition)
                          \cup Bindings(edges, "boundary", BoundaryBindings)
                          \cup Bindings(edges, "deny", DenyBindings)
                          \cup Bindings(edges, "drift", DriftBindings)
  /\ pc' = "emit"
  /\ UNCHANGED <<input, account, trusts, grants, built, expanded, nodes, edges, size>>

(***************************************************************************)
(* Placeholders for endpoints nobody collected, then the validation that   *)
(* refuses a scenario with a dangling reference.                           *)
(***************************************************************************)
Endpoints == UNION {{e.src, e.dst} : e \in edges}

Emit ==
  /\ pc = "emit"
  /\ nodes' = WithNodes(Endpoints, "placeholder")
  /\ pc' = IF Endpoints \subseteq DOMAIN nodes' /\ \A b \in bindings : b.edge \in edges
             THEN "emitted" ELSE "rejected"
  /\ UNCHANGED <<input, account, trusts, grants, built, expanded, edges, bindings, size>>

Next ==
  \/ OpenAccount \/ OfferTrust
  \/ GrantSpecific \/ GrantSkipped \/ GrantSuppressed \/ GrantExpanded \/ OfferGrants
  \/ OfferServices \/ OfferResources \/ Bind \/ Emit

Spec == Init /\ [][Next]_vars

-----------------------------------------------------------------------------
Ended == pc \in {"emitted", "rejected", "aborted"}

Origin == {"collected", "hyperedge", "synthetic", "placeholder"}

TypeOK ==
  /\ pc \in {"account", "trust", "resources", "bind", "emit"} \/ Ended
  /\ account \in 1 .. Len(input.accounts) + 1
  /\ expanded \in [People -> 0 .. CumulativeCap]
  /\ registered \in Nat /\ (pc # "aborted" => registered <= MaxTotal)
  /\ DOMAIN nodes \subseteq Arns /\ Range(nodes) \subseteq Origin
  /\ held \in Cardinality(edges) .. MaxTotal
  /\ exhausted \in BOOLEAN
  /\ \A b \in bindings : b.says \in Binding

Grants == UNION {Range(input.accounts[i].grants) : i \in DOMAIN input.accounts}

Represented(g) ==
  CASE ~ g.wild -> GrantEdge(g, g.target) \in edges
    [] g.wild   -> \/ input.mode[g.action] = "skip"
                   \/ Hyperedge(g) \in edges
                   \/ g.action \in RoleActions /\ Expansion(g) \subseteq edges

(***************************************************************************)
(* A graph that does not say its budget ran out has lost nothing: every    *)
(* statement that is not noise has its edge, and every grant its edge, its *)
(* hyperedge or all of its expansion.                                      *)
(***************************************************************************)
CompleteUnlessFlagged ==
  pc \in {"bind", "emit", "emitted", "rejected"} /\ ~ exhausted =>
    /\ \A row \in TrustRows : IsSignal(row) => row \in edges
    /\ \A g \in Grants : Represented(g)
    /\ Range(input.serviceEdges) \cup input.rows \subseteq edges

(***************************************************************************)
(* The two counters of one limit agree: a run is ended by the count of     *)
(* registered edges only where the graph itself could not have held them.  *)
(***************************************************************************)
AbortOnlyWhenOver ==
  pc = "aborted" => exhausted \/ held + Cardinality(built) > MaxTotal

(***************************************************************************)
(* The validation at the end refuses a scenario only of a cut graph.       *)
(***************************************************************************)
RejectedOnlyWhenCut == pc = "rejected" => exhausted

(***************************************************************************)
(* A principal found by collection stays the collected one, in whatever    *)
(* order other accounts' statements and resource policies name it.         *)
(***************************************************************************)
CollectedStayCollected ==
  pc \in {"emitted", "rejected"} =>
    \A i \in DOMAIN input.accounts, p \in Arns :
      p \in input.accounts[i].people => p \in DOMAIN nodes /\ nodes[p] = "collected"

(***************************************************************************)
(* However its grants are split over statements, a principal has at most   *)
(* CumulativeCap edges that stem from expansion.                           *)
(***************************************************************************)
PrincipalCap ==
  \A p \in People :
    Cardinality({e \in edges \cup built :
      /\ e.layer = "permission" /\ e.src = p /\ e.dst \in People
      /\ \E g \in Grants : g.from = e.from /\ g.wild}) <= CumulativeCap

(***************************************************************************)
(* The limits are kept and cost no more than they must: the state is well  *)
(* typed, and a run aborted or refused, or a grant cut short, is one that  *)
(* met its limit.                                                          *)
(***************************************************************************)
LimitsKept == TypeOK /\ AbortOnlyWhenOver /\ RejectedOnlyWhenCut /\ PrincipalCap

(***************************************************************************)
(* In an emitted scenario no condition of a trust or resource policy is    *)
(* lost on the way: each edge that has one is bound as unevaluated.        *)
(***************************************************************************)
ConditionsSurvive ==
  pc = "emitted" =>
    \A e \in edges : e.conditional /\ e.layer \in {"trust", "resource_policy"} =>
      \E b \in bindings : b.edge = e /\ IsAmbiguous(b.says)
=============================================================================
