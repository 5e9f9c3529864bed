------------------------- MODULE GraphAssembly_proofs -------------------------
(***************************************************************************)
(* Proofs about the resolution pipeline, for every collection and every    *)
(* limit: the limits are kept, nothing is lost that is not flagged, a      *)
(* collected principal stays one, and no condition is lost on the way.     *)
(***************************************************************************)
EXTENDS GraphAssembly, FiniteSetTheorems, TLAPS

(***************************************************************************)
(* The account whose turn it is.                                           *)
(***************************************************************************)
Here == input.accounts[account]

After == {"bind", "emit", "emitted", "rejected"}

Shape ==
  /\ input \in Inputs
  /\ account \in 1 .. Len(input.accounts) + 1
  /\ pc \in {"account", "trust", "resources", "aborted"} \cup After
  /\ pc = "trust" => /\ account \in DOMAIN input.accounts
                     /\ trusts \in Seq(Range(Here.trusts)) /\ grants \in Seq(Range(Here.grants))
  /\ pc \in {"resources"} \cup After => account \notin DOMAIN input.accounts
  /\ expanded \in [People -> 0 .. CumulativeCap]
  /\ DOMAIN nodes \subseteq Arns /\ Range(nodes) \subseteq Origin
  /\ \A e \in edges \cup built : {e.src, e.dst} \subseteq Arns
  /\ \A e \in built : e.layer = "permission"
  /\ \A b \in bindings : b.says \in Binding

(***************************************************************************)
(* The counters. Edges registered are edges of the graph or built for the  *)
(* account at hand, unless something was dropped.                          *)
(***************************************************************************)
Counters ==
  /\ IsFiniteSet(edges) /\ IsFiniteSet(built)
  /\ held \in Nat /\ Cardinality(edges) <= held /\ held <= MaxTotal
  /\ exhausted \in BOOLEAN
  /\ registered \in Nat /\ (pc # "aborted" => registered <= MaxTotal)
  /\ ~ exhausted =>
       /\ pc = "account" => registered <= held
       /\ pc = "trust" => registered <= held + Cardinality(built)
       /\ pc = "aborted" => held + Cardinality(built) > MaxTotal

(***************************************************************************)
(* The grants still to come have nothing built yet.                        *)
(***************************************************************************)
Pending ==
  pc = "trust" =>
    /\ \A k, l \in DOMAIN grants : grants[k].from = grants[l].from => k = l
    /\ \A e \in built, k \in DOMAIN grants : e.from # grants[k].from

(***************************************************************************)
(* The edges of a principal that stem from expansion are those counted for *)
(* it while its account has its turn, and there are none before.           *)
(***************************************************************************)
FromExpansion(p, e) ==
  /\ e.layer = "permission" /\ e.src = p /\ e.dst \in People
  /\ \E g \in Grants : g.from = e.from /\ g.wild

Stemming(p) == {e \in edges \cup built : FromExpansion(p, e)}

Opened(i) == i < account \/ (i = account /\ pc \in {"trust", "aborted"})

Capped ==
  \A p \in People :
    /\ Cardinality(Stemming(p)) <= CumulativeCap
    /\ pc = "trust" /\ p \in Here.people => Cardinality(Stemming(p)) <= expanded[p]
    /\ \A i \in DOMAIN input.accounts : p \in input.accounts[i].people /\ ~ Opened(i) => Stemming(p) = {}

(***************************************************************************)
(* As long as nothing was dropped, everything that had its turn is there.  *)
(***************************************************************************)
Offered(rows, E) == \A row \in Range(rows) : IsSignal(row) => row \in E

RepresentedIn(g, E) ==
  CASE ~ g.wild -> GrantEdge(g, g.target) \in E
    [] g.wild   -> \/ input.mode[g.action] = "skip"
                   \/ Hyperedge(g) \in E
                   \/ g.action \in RoleActions /\ Expansion(g) \subseteq E

Complete ==
  /\ pc = "trust" =>
       \A g \in Range(Here.grants) : g \in Range(grants) \/ RepresentedIn(g, built)
  /\ ~ exhausted =>
       /\ pc = "trust" =>
            \A rows \in Range(Here.trusts) : rows \in Range(trusts) \/ Offered(rows, edges)
       /\ \A i \in DOMAIN input.accounts : i < account =>
            /\ \A rows \in Range(input.accounts[i].trusts) : Offered(rows, edges)
            /\ \A g \in Range(input.accounts[i].grants) : RepresentedIn(g, edges)
       /\ pc \in {"resources"} \cup After => Range(input.serviceEdges) \subseteq edges
       /\ pc \in After => input.rows \subseteq edges

(***************************************************************************)
(* Until all accounts had their turn, only collection and hyperedges make  *)
(* nodes.                                                                  *)
(***************************************************************************)
Origins ==
  /\ pc \in {"account", "trust"} => \A p \in People \cap DOMAIN nodes : nodes[p] = "collected"
  /\ \A i \in DOMAIN input.accounts : i < account \/ (i = account /\ pc = "trust") =>
       \A p \in input.accounts[i].people : p \in DOMAIN nodes /\ nodes[p] = "collected"

Unevaluated(e) == \E b \in bindings : b.edge = e /\ IsAmbiguous(b.says)

Conditions ==
  /\ pc \notin After => bindings = {}
  /\ pc \in After /\ ~ exhausted => \A b \in bindings : b.edge \in edges
  /\ \A e \in edges : e.layer = "resource_policy" => pc \in After /\ e \in input.rows
  /\ pc \in After => \A e \in input.rows : e.conditional => Unevaluated(e)
  /\ pc \in After \ {"bind"} => \A e \in TrustEdges : e.conditional => Unevaluated(e)
  /\ pc = "rejected" => exhausted

IInv == Shape /\ Counters /\ Pending /\ Capped /\ Complete /\ Origins /\ Conditions

-----------------------------------------------------------------------------
(***************************************************************************)
(* Lists and finite sets.                                                  *)
(***************************************************************************)
LEMMA ListElements ==
  ASSUME NEW S, NEW s \in Seq(S)
  PROVE  /\ DOMAIN s = 1 .. Len(s) /\ Len(s) \in Nat /\ IsFiniteSet(DOMAIN s)
         /\ \A i \in DOMAIN s : s[i] \in S
         /\ \A x \in Range(s) : x \in S /\ \E i \in DOMAIN s : x = s[i]
         /\ \A i \in DOMAIN s : s[i] \in Range(s)
<1>1. DOMAIN s = 1 .. Len(s) /\ Len(s) \in Nat /\ \A i \in DOMAIN s : s[i] \in S
  OBVIOUS
<1>2. IsFiniteSet(DOMAIN s)
  BY <1>1, FS_Interval
<1> QED
  BY <1>1, <1>2 DEF Range

LEMMA ListSplit ==
  ASSUME NEW S, NEW s \in Seq(S), s # <<>>
  PROVE  /\ Head(s) \in S /\ Head(s) = s[1] /\ 1 \in DOMAIN s
         /\ Tail(s) \in Seq(S)
         /\ \A i \in DOMAIN Tail(s) : i + 1 \in DOMAIN s /\ Tail(s)[i] = s[i + 1] /\ i \in Nat
         /\ \A x : x \in Range(s) <=> x = Head(s) \/ x \in Range(Tail(s))
<1>1. /\ Head(s) \in S /\ Head(s) = s[1] /\ 1 \in DOMAIN s
      /\ Tail(s) \in Seq(S)
      /\ DOMAIN s = 1 .. Len(s) /\ Len(s) \in Nat
      /\ DOMAIN Tail(s) = 1 .. Len(s) - 1
      /\ \A i \in DOMAIN Tail(s) : i + 1 \in DOMAIN s /\ Tail(s)[i] = s[i + 1] /\ i \in Nat
  OBVIOUS
<1> DEFINE t == Tail(s)
<1> HIDE DEF t
<1>2. ASSUME NEW i \in DOMAIN s PROVE s[i] = s[1] \/ s[i] \in Range(t)
  <2>1. CASE i = 1
    BY <2>1
  <2>2. CASE i # 1
    <3>1. i - 1 \in DOMAIN t /\ t[i - 1] = s[i]
      BY <1>1, <2>2 DEF t
    <3> QED
      BY <3>1 DEF Range
  <2> QED
    BY <2>1, <2>2
<1>3. ASSUME NEW i \in DOMAIN t PROVE t[i] \in Range(s)
  BY <1>1 DEF t, Range
<1>4. \A x : x \in Range(s) <=> x = s[1] \/ x \in Range(t)
  <2>1. ASSUME NEW x \in Range(s) PROVE x = s[1] \/ x \in Range(t)
    BY <1>2 DEF Range
  <2>2. ASSUME NEW x \in Range(t) PROVE x \in Range(s)
    BY <1>3 DEF Range
  <2>3. s[1] \in Range(s)
    BY <1>1 DEF Range
  <2> QED
    BY <2>1, <2>2, <2>3
<1> QED
  BY <1>1, <1>4 DEF t

\* An image has at most as many elements as what it is the image of.
LEMMA ImageBound ==
  ASSUME NEW S, IsFiniteSet(S), NEW T, NEW f \in [S -> T], T = {f[x] : x \in S}
  PROVE  IsFiniteSet(T) /\ Cardinality(T) <= Cardinality(S)
<1>1. f \in Surjection(S, T)
  BY DEF Surjection
<1> QED
  BY <1>1, FS_Surjection

\* Adding one finite set to another.
LEMMA UnionBound ==
  ASSUME NEW S, IsFiniteSet(S), NEW T, IsFiniteSet(T)
  PROVE  /\ IsFiniteSet(S \cup T)
         /\ Cardinality(S) \in Nat /\ Cardinality(T) \in Nat /\ Cardinality(S \cup T) \in Nat
         /\ Cardinality(S \cup T) <= Cardinality(S) + Cardinality(T)
         /\ S \cap T = {} => Cardinality(S \cup T) = Cardinality(S) + Cardinality(T)
<1>1. /\ IsFiniteSet(S \cup T)
      /\ Cardinality(S \cup T) = Cardinality(S) + Cardinality(T) - Cardinality(S \cap T)
  BY FS_Union
<1>2. IsFiniteSet(S \cap T)
  BY FS_Subset
<1>3. /\ Cardinality(S) \in Nat /\ Cardinality(T) \in Nat /\ Cardinality(S \cap T) \in Nat
      /\ Cardinality(S \cup T) \in Nat
  BY <1>1, <1>2, FS_CardinalityType
<1>4. S \cap T = {} => Cardinality(S \cap T) = 0
  BY FS_EmptySet
<1> QED
  BY <1>1, <1>3, <1>4

-----------------------------------------------------------------------------
(***************************************************************************)
(* The edge budget.                                                        *)
(***************************************************************************)
Budget ==
  /\ IsFiniteSet(edges) /\ held \in Nat /\ Cardinality(edges) <= held /\ held <= MaxTotal
  /\ exhausted \in BOOLEAN

LEMMA FittingSays ==
  ASSUME Budget, NEW offered \in Nat
  PROVE  /\ Fitting(offered) \in 0 .. offered
         /\ held + Fitting(offered) <= MaxTotal
         /\ Exhausts(Fitting(offered), offered) \in BOOLEAN
         /\ ~ Exhausts(Fitting(offered), offered) => ~ exhausted /\ Fitting(offered) = offered
<1>1. MaxTotal \in Nat /\ held \in Nat /\ held <= MaxTotal
  BY Limits DEF Budget
<1>2. Min({offered, MaxTotal - held}) = IF offered <= MaxTotal - held THEN offered ELSE MaxTotal - held
  <2>1. \E x \in {offered, MaxTotal - held} : \A y \in {offered, MaxTotal - held} : x <= y
    BY <1>1
  <2> QED
    BY <1>1, <2>1 DEF Min
<1> QED
  BY <1>1, <1>2 DEF Fitting, Exhausts, Budget

\* What is added, in order or by hash, keeps the budget, and unless the
\* graph is flagged all of it is added.
LEMMA Adds ==
  ASSUME Budget, NEW kept, IsFiniteSet(kept), NEW offered \in Nat,
         Cardinality(kept) <= Fitting(offered), Accept(kept, Fitting(offered), offered)
  PROVE  /\ Budget'
         /\ edges' = edges \cup kept /\ held <= held'
         /\ ~ exhausted' => ~ exhausted /\ Fitting(offered) = offered /\ held' = held + offered
<1>1. /\ Fitting(offered) \in 0 .. offered
      /\ held + Fitting(offered) <= MaxTotal
      /\ Exhausts(Fitting(offered), offered) \in BOOLEAN
      /\ ~ Exhausts(Fitting(offered), offered) => ~ exhausted /\ Fitting(offered) = offered
  BY FittingSays
<1>2. /\ IsFiniteSet(edges \cup kept)
      /\ Cardinality(edges) \in Nat /\ Cardinality(kept) \in Nat /\ Cardinality(edges \cup kept) \in Nat
      /\ Cardinality(edges \cup kept) <= Cardinality(edges) + Cardinality(kept)
  BY UnionBound DEF Budget
<1>3. /\ edges' = edges \cup kept /\ held' = held + Fitting(offered)
      /\ exhausted' = Exhausts(Fitting(offered), offered)
  BY DEF Accept
<1>4. held \in Nat /\ Cardinality(edges) <= held /\ Fitting(offered) \in Nat
  BY <1>1 DEF Budget
<1> HIDE DEF Accept
<1>5. held' \in Nat /\ Cardinality(edges') <= held' /\ held' <= MaxTotal /\ held <= held'
  BY <1>1, <1>2, <1>3, <1>4
<1> QED
  BY <1>1, <1>2, <1>3, <1>5 DEF Budget

LEMMA Subsets ==
  ASSUME NEW S, IsFiniteSet(S), NEW n \in Nat, NEW T \in kSubset(n, S)
  PROVE  T \subseteq S /\ IsFiniteSet(T) /\ Cardinality(T) = n /\ (n = Cardinality(S) => T = S)
<1>1. T \in SUBSET S /\ Cardinality(T) = n
  BY DEF kSubset
<1> QED
  BY <1>1, FS_Subset

LEMMA AddedInOrder ==
  ASSUME Budget, NEW rows, NEW chosen, IsFiniteSet(chosen), AddInOrder(rows, chosen)
  PROVE  /\ Budget' /\ edges \subseteq edges' /\ held <= held'
         /\ edges' \subseteq edges \cup {rows[i] : i \in chosen}
         /\ ~ exhausted' => ~ exhausted /\ edges' = edges \cup {rows[i] : i \in chosen}
<1> DEFINE offered == Cardinality(chosen)
<1>1. offered \in Nat
  BY FS_CardinalityType
<1>2. Fitting(offered) \in Nat
  BY <1>1, FittingSays
<1>3. PICK first \in kSubset(Fitting(offered), chosen) :
        Accept({rows[i] : i \in first}, Fitting(offered), offered)
  BY DEF AddInOrder
<1>4. /\ first \subseteq chosen /\ IsFiniteSet(first) /\ Cardinality(first) = Fitting(offered)
      /\ Fitting(offered) = offered => first = chosen
  BY <1>2, Subsets
<1> DEFINE kept == {rows[i] : i \in first}
<1>5. IsFiniteSet(kept) /\ Cardinality(kept) <= Fitting(offered)
  <2> DEFINE f == [i \in first |-> rows[i]]
  <2>1. f \in [first -> kept] /\ kept = {f[i] : i \in first}
    OBVIOUS
  <2> HIDE DEF f, kept
  <2> QED
    BY <1>4, <2>1, ImageBound
<1> HIDE DEF offered, kept
<1>6. /\ Budget' /\ edges' = edges \cup kept /\ held <= held'
      /\ ~ exhausted' => ~ exhausted /\ Fitting(offered) = offered
  BY <1>1, <1>3, <1>5, Adds DEF kept
<1> QED
  BY <1>4, <1>6 DEF kept

LEMMA AddedByHash ==
  ASSUME Budget, NEW batch, IsFiniteSet(batch), AddByHash(batch)
  PROVE  /\ Budget' /\ edges \subseteq edges' /\ held <= held'
         /\ edges' \subseteq edges \cup batch
         /\ ~ exhausted' => ~ exhausted /\ edges' = edges \cup batch /\ held' = held + Cardinality(batch)
<1> DEFINE offered == Cardinality(batch)
<1>1. offered \in Nat
  BY FS_CardinalityType
<1>2. Fitting(offered) \in Nat
  BY <1>1, FittingSays
<1>3. PICK kept \in kSubset(Fitting(offered), batch) : Accept(kept, Fitting(offered), offered)
  BY DEF AddByHash
<1>4. /\ kept \subseteq batch /\ IsFiniteSet(kept) /\ Cardinality(kept) = Fitting(offered)
      /\ Fitting(offered) = offered => kept = batch
  BY <1>2, Subsets
<1> HIDE DEF offered
<1>5. /\ Budget' /\ edges' = edges \cup kept /\ held <= held'
      /\ ~ exhausted' => ~ exhausted /\ Fitting(offered) = offered /\ held' = held + offered
  <2>1. Cardinality(kept) <= Fitting(offered)
    BY <1>2, <1>4
  <2> QED
    BY <1>1, <1>3, <1>4, <2>1, Adds
<1> QED
  BY <1>4, <1>5 DEF offered

-----------------------------------------------------------------------------
(***************************************************************************)
(* What a collection and its grants are.                                   *)
(***************************************************************************)
LEMMA Collected ==
  ASSUME Shape
  PROVE  /\ Collection(input)
         /\ DOMAIN input.accounts = 1 .. Len(input.accounts) /\ Len(input.accounts) \in Nat
         /\ \A i \in DOMAIN input.accounts : CollectedAccount(input.accounts[i])
<1>1. Collection(input)
  BY Collections DEF Shape
<1>2. input.accounts \in Seq(Range(input.accounts))
  BY <1>1 DEF Collection, IsList
<1> QED
  BY <1>1, <1>2, ListElements DEF Collection

LEMMA HereCollected ==
  ASSUME Shape, pc = "trust"
  PROVE  /\ account \in DOMAIN input.accounts
         /\ CollectedAccount(Here)
         /\ \A g \in Range(Here.grants) : g \in Grants /\ g.principal \in Here.people /\ g.principal \in People
<1>1. account \in DOMAIN input.accounts
  BY DEF Shape
<1>2. CollectedAccount(Here)
  BY <1>1, Collected DEF Here
<1>3. Range(Here.grants) \subseteq Grants
  BY <1>1 DEF Here, Grants
<1>4. \A g \in Range(Here.grants) : g.principal \in Here.people /\ Here.people \subseteq People
  BY <1>2 DEF CollectedAccount
<1> QED
  BY <1>1, <1>2, <1>3, <1>4

\* The next trust list and the next grant, and what is left after them.
LEMMA NextTrust ==
  ASSUME Shape, pc = "trust", trusts # <<>>
  PROVE  /\ Head(trusts) \in Range(Here.trusts)
         /\ Tail(trusts) \in Seq(Range(Here.trusts))
         /\ \A x : x \in Range(trusts) <=> x = Head(trusts) \/ x \in Range(Tail(trusts))
  BY ListSplit DEF Shape

LEMMA NextGrant ==
  ASSUME Shape, pc = "trust", grants # <<>>
  PROVE  /\ Head(grants) \in Range(Here.grants) /\ Head(grants) = grants[1] /\ 1 \in DOMAIN grants
         /\ Tail(grants) \in Seq(Range(Here.grants))
         /\ \A i \in DOMAIN Tail(grants) : i + 1 \in DOMAIN grants /\ Tail(grants)[i] = grants[i + 1] /\ i \in Nat
                                          /\ i # 0
         /\ \A x : x \in Range(grants) <=> x = Head(grants) \/ x \in Range(Tail(grants))
<1>1. grants \in Seq(Range(Here.grants))
  BY DEF Shape
<1>2. Tail(grants) \in Seq(Range(Here.grants)) 
  BY <1>1, ListSplit
<1>3. \A i \in DOMAIN Tail(grants) : i # 0
  BY <1>2
<1> QED
  BY <1>1, <1>3, ListSplit

LEMMA EdgeSays ==
  ASSUME NEW g, NEW t
  PROVE  /\ GrantEdge(g, t).layer = "permission" /\ GrantEdge(g, t).src = g.principal
         /\ GrantEdge(g, t).dst = t /\ GrantEdge(g, t).from = g.from
  BY DEF GrantEdge

LEMMA HyperedgeSays ==
  ASSUME Shape, pc = "trust", NEW g \in Range(Here.grants)
  PROVE  /\ Hyperedge(g).layer = "permission" /\ Hyperedge(g).src = g.principal
         /\ Hyperedge(g).dst \in Arns \ People /\ Hyperedge(g).from = g.from
<1>1. g.principal \in People
  BY HereCollected
<1>2. HyperedgeOf[HomeOf[g.principal]] \in Arns \ People
  BY <1>1, Limits
<1> QED
  BY <1>2, EdgeSays DEF Hyperedge

LEMMA ExpansionSays ==
  ASSUME Shape, NEW g
  PROVE  /\ IsFiniteSet(Matches(g)) /\ Matches(g) \subseteq People /\ Cardinality(Matches(g)) \in Nat
         /\ IsFiniteSet(Expansion(g)) /\ Cardinality(Expansion(g)) <= Cardinality(Matches(g))
         /\ Cardinality(Expansion(g)) \in Nat
         /\ \A e \in Expansion(g) : /\ e.layer = "permission" /\ e.src = g.principal
                                    /\ e.dst \in People /\ e.from = g.from
<1>1. KnownRoles \subseteq People
  BY Collected DEF KnownRoles, CollectedAccount
<1>2. Matches(g) \subseteq People /\ IsFiniteSet(Matches(g))
  <2>1. Matches(g) \in SUBSET People
    BY <1>1 DEF Matches
  <2> QED
    BY <2>1, Limits, FS_Subset
<1>3. IsFiniteSet(Expansion(g)) /\ Cardinality(Expansion(g)) <= Cardinality(Matches(g))
  <2> DEFINE f == [role \in Matches(g) |-> GrantEdge(g, role)]
  <2>1. f \in [Matches(g) -> Expansion(g)] /\ Expansion(g) = {f[role] : role \in Matches(g)}
    BY DEF Expansion
  <2> HIDE DEF f
  <2> QED
    BY <1>2, <2>1, ImageBound
<1>4. \A e \in Expansion(g) : /\ e.layer = "permission" /\ e.src = g.principal
                             /\ e.dst \in People /\ e.from = g.from
  BY <1>2, EdgeSays DEF Expansion
<1> QED
  BY <1>2, <1>3, <1>4, FS_CardinalityType

\* The mode a wildcard grant is handled in.
LEMMA ModeSays ==
  ASSUME NEW g
  PROVE  /\ EffectiveMode(g) = "skip" => input.mode[g.action] = "skip"
         /\ EffectiveMode(g) = "expand" => g.action \in RoleActions /\ WithinCap(g)
<1>1. CASE g.action \notin RoleActions /\ input.mode[g.action] # "skip"
  BY <1>1 DEF EffectiveMode
<1>2. CASE /\ g.action \in RoleActions /\ input.mode[g.action] = "expand"
           /\ (Cardinality(Matches(g)) > MaxPerExpansion \/ ~ WithinCap(g))
  BY <1>2 DEF EffectiveMode
<1>3. CASE /\ ~ (g.action \notin RoleActions /\ input.mode[g.action] # "skip")
           /\ ~ (/\ g.action \in RoleActions /\ input.mode[g.action] = "expand"
                 /\ (Cardinality(Matches(g)) > MaxPerExpansion \/ ~ WithinCap(g)))
  <2>1. EffectiveMode(g) = input.mode[g.action]
    BY <1>3 DEF EffectiveMode
  <2> QED
    BY <1>3, <2>1
<1> QED
  BY <1>1, <1>2, <1>3

LEMMA Budgeted ==
  ASSUME IInv PROVE Budget
  BY DEF IInv, Counters, Budget

\* Edges that do not stem from expansion leave every principal within its cap.
LEMMA CappedStays ==
  ASSUME IInv, input' = input,
         \A e \in edges' \cup built' : e \in edges \cup built \/ \A p \in People : ~ FromExpansion(p, e),
         \A i \in DOMAIN input.accounts : Opened(i) => Opened(i)',
         pc' = "trust" => pc = "trust" /\ account' = account /\ expanded' = expanded
  PROVE  Capped'
<1>1. ASSUME NEW p \in People
      PROVE  /\ Stemming(p)' \subseteq Stemming(p)
             /\ Cardinality(Stemming(p)') \in Nat /\ Cardinality(Stemming(p)) \in Nat
             /\ Cardinality(Stemming(p)') <= Cardinality(Stemming(p))
  <2>1. \A e : FromExpansion(p, e)' <=> FromExpansion(p, e)
    BY DEF FromExpansion, Grants
  <2>2. Stemming(p)' \in SUBSET Stemming(p)
    BY <2>1 DEF Stemming
  <2>3. IsFiniteSet(Stemming(p))
    <3>1. IsFiniteSet(edges \cup built)
      BY UnionBound DEF IInv, Counters
    <3>2. Stemming(p) \in SUBSET (edges \cup built)
      BY DEF Stemming
    <3> QED
      BY <3>1, <3>2, FS_Subset
  <2>4. IsFiniteSet(Stemming(p)') /\ Cardinality(Stemming(p)') <= Cardinality(Stemming(p))
    BY <2>2, <2>3, FS_Subset
  <2> QED
    BY <2>2, <2>3, <2>4, FS_CardinalityType
<1>2. ASSUME NEW p \in People PROVE Cardinality(Stemming(p)') <= CumulativeCap
  <2>1. Cardinality(Stemming(p)) <= CumulativeCap /\ CumulativeCap \in Nat
    BY Limits DEF IInv, Capped
  <2> QED
    BY <1>1, <2>1
<1>3. ASSUME NEW p \in People, pc' = "trust", p \in Here'.people
      PROVE  Cardinality(Stemming(p)') <= expanded'[p]
  <2>1. pc = "trust" /\ p \in Here.people /\ expanded' = expanded
    BY <1>3 DEF Here
  <2>2. Cardinality(Stemming(p)) <= expanded[p] /\ expanded[p] \in Nat
    BY <2>1, Limits DEF IInv, Capped, Shape
  <2> QED
    BY <1>1, <2>1, <2>2
<1>4. ASSUME NEW p \in People, NEW i \in DOMAIN input.accounts, p \in input.accounts[i].people, ~ Opened(i)'
      PROVE  Stemming(p)' = {}
  BY <1>1, <1>4 DEF IInv, Capped
<1> QED
  BY <1>2, <1>3, <1>4 DEF Capped

LEMMA NodesSays ==
  ASSUME NEW arns \in SUBSET Arns, NEW origin \in Origin, nodes' = WithNodes(arns, origin),
         DOMAIN nodes \subseteq Arns, Range(nodes) \subseteq Origin
  PROVE  /\ DOMAIN nodes' = DOMAIN nodes \cup arns /\ DOMAIN nodes' \subseteq Arns
         /\ Range(nodes') \subseteq Origin
         /\ \A n \in DOMAIN nodes' : nodes'[n] = IF n \in DOMAIN nodes THEN nodes[n] ELSE origin
<1>1. /\ DOMAIN nodes' = DOMAIN nodes \cup arns
      /\ \A n \in DOMAIN nodes' : nodes'[n] = IF n \in DOMAIN nodes THEN nodes[n] ELSE origin
  BY DEF WithNodes
<1>2. \A n \in DOMAIN nodes' : nodes'[n] \in Origin
  BY <1>1 DEF Range
<1> QED
  BY <1>1, <1>2 DEF Range

-----------------------------------------------------------------------------
(***************************************************************************)
(* The steps.                                                              *)
(***************************************************************************)
LEMMA Initially ==
  ASSUME Init PROVE IInv
<1>1. input \in Inputs /\ Collection(input)
  BY Collections DEF Init
<1>2. input.accounts \in Seq(Range(input.accounts))
  BY <1>1 DEF Collection, IsList
<1>3. account = 1 /\ account \in 1 .. Len(input.accounts) + 1
  BY <1>2 DEF Init
<1>4. MaxTotal \in Nat /\ CumulativeCap \in Nat
  BY Limits
<1>5. Cardinality({}) = 0 /\ IsFiniteSet({})
  BY FS_EmptySet
<1>6. Shape
  <2>1. Range(nodes) = {} /\ DOMAIN nodes = {}
    BY DEF Init, Range
  <2> QED
    BY <1>1, <1>3, <1>4, <2>1 DEF Init, Shape, After
<1>7. Counters
  <2>1. edges = {} /\ built = {} /\ held = 0 /\ exhausted = FALSE /\ registered = 0 /\ pc = "account"
    BY DEF Init
  <2>2. IsFiniteSet(edges) /\ IsFiniteSet(built) /\ Cardinality(edges) = 0
    BY <1>5, <2>1
  <2>3. ~ exhausted /\ exhausted \in BOOLEAN /\ pc # "trust" /\ pc # "aborted"
    BY <2>1
  <2>4. held \in Nat /\ registered \in Nat /\ held <= MaxTotal /\ registered <= MaxTotal
        /\ registered <= held /\ Cardinality(edges) <= held
    BY <1>4, <2>1, <2>2
  <2> QED
    BY <2>2, <2>3, <2>4 DEF Counters
<1>8. Pending /\ Origins /\ Conditions /\ Complete
  <2>1. DOMAIN input.accounts = 1 .. Len(input.accounts)
    BY <1>2
  <2> QED
    BY <1>3, <2>1 DEF Init, Pending, Origins, Conditions, Complete, After
<1>9. Capped
  <2>1. \A p \in People : Stemming(p) = {}
    BY DEF Stemming, Init
  <2>2. pc = "account"
    BY DEF Init
  <2>3. \A p \in People : Cardinality(Stemming(p)) <= CumulativeCap
    BY <1>4, <1>5, <2>1
  <2> QED
    BY <2>1, <2>2, <2>3 DEF Capped
<1> QED
  BY <1>6, <1>7, <1>8, <1>9 DEF IInv

LEMMA OpenAccountSafe ==
  ASSUME IInv, OpenAccount PROVE IInv'
<1>1. /\ pc = "account" /\ pc' = "trust" /\ account \in DOMAIN input.accounts
      /\ input' = input /\ account' = account /\ edges' = edges /\ bindings' = bindings
      /\ registered' = registered /\ held' = held /\ exhausted' = exhausted
      /\ trusts' = Here.trusts /\ grants' = Here.grants
      /\ built' = {} /\ expanded' = [p \in People |-> 0]
      /\ nodes' = WithNodes(Here.people, "collected")
  BY DEF OpenAccount, Here, size
<1>2. Shape /\ CollectedAccount(Here) /\ Here' = Here
  BY <1>1, Collected DEF IInv, Here
<1>3. /\ Here.people \subseteq People /\ Here.people \subseteq Arns
      /\ Here.trusts \in Seq(Range(Here.trusts)) /\ Here.grants \in Seq(Range(Here.grants))
  BY <1>2, Limits DEF CollectedAccount, IsList
<1>4. /\ DOMAIN nodes' = DOMAIN nodes \cup Here.people /\ DOMAIN nodes' \subseteq Arns
      /\ Range(nodes') \subseteq Origin
      /\ \A n \in DOMAIN nodes' : nodes'[n] = IF n \in DOMAIN nodes THEN nodes[n] ELSE "collected"
  <2>1. "collected" \in Origin /\ DOMAIN nodes \subseteq Arns /\ Range(nodes) \subseteq Origin
    BY <1>2 DEF Shape, Origin
  <2> QED
    BY <1>1, <1>3, <2>1, NodesSays
<1>5. Cardinality({}) = 0 /\ IsFiniteSet({}) /\ CumulativeCap \in Nat
  BY FS_EmptySet, Limits
<1>6. Shape'
  <2>1. expanded' \in [People -> 0 .. CumulativeCap]
    BY <1>1, <1>5
  <2> QED
    BY <1>1, <1>2, <1>3, <1>4, <2>1 DEF Shape, After
<1>7. Counters'
  BY <1>1, <1>5 DEF IInv, Counters
<1>8. Pending'
  <2>1. \A k, l \in DOMAIN Here.grants : Here.grants[k].from = Here.grants[l].from => k = l
    BY <1>1, <1>2, Collected DEF Collection, Here
  <2> QED
    BY <1>1, <2>1 DEF Pending
<1>9. Capped'
  <2>1. ASSUME NEW p \in People
        PROVE  /\ Stemming(p)' \subseteq Stemming(p)
               /\ Cardinality(Stemming(p)') <= CumulativeCap
               /\ p \in Here.people => Stemming(p)' = {}
    <3>1. \A e : FromExpansion(p, e)' <=> FromExpansion(p, e)
      BY <1>1 DEF FromExpansion, Grants
    <3>2. Stemming(p)' \in SUBSET Stemming(p)
      BY <1>1, <3>1 DEF Stemming
    <3>3. IsFiniteSet(edges \cup built) /\ Stemming(p) \in SUBSET (edges \cup built)
      BY UnionBound DEF IInv, Counters, Stemming
    <3>4. IsFiniteSet(Stemming(p))
      BY <3>3, FS_Subset
    <3>5. /\ Cardinality(Stemming(p)') <= Cardinality(Stemming(p)) /\ IsFiniteSet(Stemming(p)')
          /\ Cardinality(Stemming(p)') \in Nat /\ Cardinality(Stemming(p)) \in Nat
      BY <3>2, <3>4, FS_Subset, FS_CardinalityType
    <3>6. Cardinality(Stemming(p)) <= CumulativeCap
      BY DEF IInv, Capped
    <3>7. p \in Here.people => Stemming(p) = {}
      <4>1. ~ Opened(account)
        BY <1>1, <1>2 DEF Opened, Shape
      <4> QED
        BY <1>1, <4>1 DEF IInv, Capped, Here
    <3> QED
      BY <1>5, <3>2, <3>5, <3>6, <3>7
  <2>2. \A i \in DOMAIN input.accounts : Opened(i) => Opened(i)'
    BY <1>1 DEF Opened
  <2>3. ASSUME NEW p \in People, p \in Here.people PROVE Cardinality(Stemming(p)') <= expanded'[p]
    BY <1>1, <1>5, <2>1, <2>3
  <2>4. ASSUME NEW p \in People, NEW i \in DOMAIN input.accounts, p \in input.accounts[i].people, ~ Opened(i)'
        PROVE  Stemming(p)' = {}
    BY <2>1, <2>2, <2>4 DEF IInv, Capped
  <2> QED
    BY <1>1, <1>2, <2>1, <2>3, <2>4 DEF Capped
<1>10. Complete'
  <2>1. \A g, E : RepresentedIn(g, E)' <=> RepresentedIn(g, E')
    BY <1>1 DEF RepresentedIn, Hyperedge, Expansion, GrantEdge, Matches, KnownRoles
  <2>2. \A rows : Offered(rows, edges)' <=> Offered(rows, edges)
    BY <1>1 DEF Offered, IsSignal, Included
  <2> QED
    BY <1>1, <1>2, <2>1, <2>2 DEF IInv, Complete, After
<1>11. Origins'
  <2>1. \A p \in People \cap DOMAIN nodes' : nodes'[p] = "collected"
    BY <1>1, <1>4 DEF IInv, Origins
  <2>2. ASSUME NEW i \in DOMAIN input.accounts, i < account \/ i = account, NEW p \in input.accounts[i].people
        PROVE  p \in DOMAIN nodes' /\ nodes'[p] = "collected"
    <3>1. p \in People
      BY <1>2, Collected DEF CollectedAccount
    <3>2. p \in DOMAIN nodes'
      BY <1>4, <2>2 DEF IInv, Origins, Here
    <3> QED
      BY <2>1, <3>1, <3>2
  <2> QED
    BY <1>1, <2>1, <2>2 DEF Origins
<1>12. Conditions'
  BY <1>1 DEF IInv, Conditions, After
<1> QED
  BY <1>6, <1>7, <1>8, <1>9, <1>10, <1>11, <1>12 DEF IInv

\* What is offered stays offered as the graph grows, and what is represented
\* stays represented.
LEMMA OfferedStays ==
  ASSUME input' = input
  PROVE  /\ \A rows, E, F : Offered(rows, E) /\ E \subseteq F => Offered(rows, F)
         /\ \A g, E, F : RepresentedIn(g, E) /\ E \subseteq F => RepresentedIn(g, F)
         /\ \A rows, E : Offered(rows, E)' <=> Offered(rows, E)
         /\ \A g, E : RepresentedIn(g, E)' <=> RepresentedIn(g, E)
<1>1. \A rows, E, F : Offered(rows, E) /\ E \subseteq F => Offered(rows, F)
  BY DEF Offered
<1>2. ASSUME NEW g, NEW E, NEW F, RepresentedIn(g, E), E \subseteq F PROVE RepresentedIn(g, F)
  <2>1. CASE g.wild
    BY <1>2, <2>1 DEF RepresentedIn
  <2>2. CASE ~ g.wild
    BY <1>2, <2>2 DEF RepresentedIn
  <2> QED
    BY <2>1, <2>2
<1>3. \A rows, E : Offered(rows, E)' <=> Offered(rows, E)
  BY DEF Offered, IsSignal, Included
<1>4. \A g, E : RepresentedIn(g, E)' <=> RepresentedIn(g, E)
  BY DEF RepresentedIn, Hyperedge, Expansion, GrantEdge, Matches, KnownRoles
<1> QED
  BY <1>1, <1>2, <1>3, <1>4

LEMMA OfferTrustSafe ==
  ASSUME IInv, OfferTrust PROVE IInv'
<1> DEFINE rows == Head(trusts)
           batch == {rows[i] : i \in Signals(rows)}
<1>1. /\ pc = "trust" /\ pc' = pc /\ trusts # <<>> /\ trusts' = Tail(trusts)
      /\ input' = input /\ account' = account /\ grants' = grants /\ built' = built
      /\ expanded' = expanded /\ registered' = registered /\ nodes' = nodes /\ bindings' = bindings
      /\ AddInOrder(rows, Signals(rows))
  BY DEF OfferTrust
<1>2. /\ rows \in Range(Here.trusts) /\ Tail(trusts) \in Seq(Range(Here.trusts))
      /\ \A x : x \in Range(trusts) <=> x = rows \/ x \in Range(Tail(trusts))
  BY <1>1, NextTrust DEF IInv
<1>3. CollectedAccount(Here) /\ Here' = Here
  BY <1>1, HereCollected DEF IInv, Here
<1> HIDE DEF rows
<1>4. rows \in Seq(Range(rows)) /\ \A row \in Range(rows) : Joins(row, "trust")
  BY <1>2, <1>3 DEF CollectedAccount, IsList
<1>5. IsFiniteSet(Signals(rows)) /\ \A row : row \in batch <=> row \in Range(rows) /\ IsSignal(row)
  <2>1. IsFiniteSet(DOMAIN rows) /\ Signals(rows) \in SUBSET DOMAIN rows
    BY <1>4, ListElements DEF Signals
  <2>2. \A row : row \in batch <=> row \in Range(rows) /\ IsSignal(row)
    BY DEF Signals, Range
  <2> QED
    BY <2>1, <2>2, FS_Subset
<1>6. /\ Budget' /\ edges \subseteq edges' /\ held <= held'
      /\ edges' \subseteq edges \cup batch
      /\ ~ exhausted' => ~ exhausted /\ edges' = edges \cup batch
  BY <1>1, <1>5, Budgeted, AddedInOrder
<1>7. \A row \in batch : row.layer = "trust" /\ {row.src, row.dst} \subseteq Arns
  BY <1>4, <1>5 DEF Joins
<1> HIDE DEF batch
<1>8. Shape'
  BY <1>1, <1>2, <1>3, <1>6, <1>7 DEF IInv, Shape
<1>9. Counters'
  <2>1. Cardinality(built) \in Nat /\ held \in Nat /\ held' \in Nat /\ registered \in Nat
    BY <1>6, FS_CardinalityType DEF IInv, Counters, Budget
  <2> QED
    BY <1>1, <1>6, <2>1 DEF IInv, Counters, Budget
<1>10. Pending'
  BY <1>1 DEF IInv, Pending
<1>11. Capped'
  <2>1. \A e \in edges' \cup built' : e \in edges \cup built \/ \A p \in People : ~ FromExpansion(p, e)
    BY <1>1, <1>6, <1>7 DEF FromExpansion
  <2> QED
    BY <1>1, <2>1, CappedStays DEF Opened
<1>12. Complete'
  <2>1. \A g \in Range(Here.grants) : g \in Range(grants) \/ RepresentedIn(g, built)
    BY <1>1 DEF IInv, Complete
  <2>2. ASSUME ~ exhausted', NEW x \in Range(Here.trusts) PROVE x \in Range(Tail(trusts)) \/ Offered(x, edges')
    <3>1. x \in Range(trusts) \/ Offered(x, edges)
      BY <1>1, <1>6, <2>2 DEF IInv, Complete
    <3>2. Offered(rows, edges')
      BY <1>5, <1>6, <2>2 DEF Offered
    <3> QED
      BY <1>1, <1>2, <1>6, <3>1, <3>2, OfferedStays
  <2>3. ASSUME ~ exhausted', NEW i \in DOMAIN input.accounts, i < account
        PROVE  /\ \A x \in Range(input.accounts[i].trusts) : Offered(x, edges')
               /\ \A g \in Range(input.accounts[i].grants) : RepresentedIn(g, edges')
    BY <1>1, <1>6, <2>3, OfferedStays DEF IInv, Complete
  <2> QED
    BY <1>1, <1>3, <2>1, <2>2, <2>3, OfferedStays DEF Complete, After
<1>13. Origins'
  BY <1>1 DEF IInv, Origins
<1>14. Conditions'
  BY <1>1, <1>6, <1>7 DEF IInv, Conditions, After
<1> QED
  BY <1>8, <1>9, <1>10, <1>11, <1>12, <1>13, <1>14 DEF IInv

\* A grant's turn, apart from the caps: what is built for it is new, and
\* represents it.
LEMMA GrantTaken ==
  ASSUME IInv, Granting, NEW new, IsFiniteSet(new), built' = built \cup new,
         \A e \in new : /\ e.layer = "permission" /\ e.src = Head(grants).principal
                        /\ e.dst \in Arns /\ e.from = Head(grants).from,
         RepresentedIn(Head(grants), built'),
         UNCHANGED <<input, account, trusts, nodes, edges, held, exhausted, bindings>>,
         expanded' \in [People -> 0 .. CumulativeCap],
         \/ registered' = registered /\ pc' = pc
         \/ registered' = registered + Cardinality(new) /\ pc' = IF registered' > MaxTotal THEN "aborted" ELSE pc
  PROVE  Shape' /\ Counters' /\ Pending' /\ Complete' /\ Origins' /\ Conditions'
<1> DEFINE g == Head(grants)
<1>1. /\ pc = "trust" /\ grants # <<>> /\ grants' = Tail(grants) /\ pc' \in {"trust", "aborted"}
      /\ input' = input /\ account' = account /\ trusts' = trusts /\ nodes' = nodes
      /\ edges' = edges /\ held' = held /\ exhausted' = exhausted /\ bindings' = bindings
  BY DEF Granting
<1>2. /\ g \in Range(Here.grants) /\ g = grants[1] /\ 1 \in DOMAIN grants
      /\ Tail(grants) \in Seq(Range(Here.grants))
      /\ \A i \in DOMAIN Tail(grants) : i + 1 \in DOMAIN grants /\ Tail(grants)[i] = grants[i + 1] /\ i \in Nat
                                       /\ i # 0
      /\ \A x : x \in Range(grants) <=> x = g \/ x \in Range(Tail(grants))
  BY <1>1, NextGrant DEF IInv
<1>3. Here' = Here /\ g.principal \in People /\ account \in DOMAIN input.accounts
  BY <1>1, <1>2, HereCollected DEF IInv, Here
<1>4. /\ \A k, l \in DOMAIN grants : grants[k].from = grants[l].from => k = l
      /\ \A e \in built, k \in DOMAIN grants : e.from # grants[k].from
  BY <1>1 DEF IInv, Pending
<1>5. \A e \in new : e.from = grants[1].from
  BY <1>2
<1> HIDE DEF g
<1>6. Shape'
  <2>1. \A e \in new : {e.src, e.dst} \subseteq Arns
    BY <1>3, Limits DEF g
  <2> QED
    BY <1>1, <1>2, <1>3, <2>1 DEF IInv, Shape, After
<1>7. Counters'
  <2>1. new \cap built = {}
    BY <1>2, <1>4, <1>5
  <2>2. /\ IsFiniteSet(built') /\ Cardinality(built') \in Nat /\ Cardinality(new) \in Nat
        /\ Cardinality(built) \in Nat /\ Cardinality(built') = Cardinality(built) + Cardinality(new)
    BY <2>1, UnionBound DEF IInv, Counters
  <2>3. MaxTotal \in Nat
    BY Limits
  <2> QED
    BY <1>1, <2>2, <2>3 DEF IInv, Counters
<1>8. Pending'
  <2>1. ASSUME NEW k \in DOMAIN Tail(grants), NEW l \in DOMAIN Tail(grants),
               Tail(grants)[k].from = Tail(grants)[l].from
        PROVE  k = l
    <3>1. k + 1 = l + 1
      BY <1>2, <1>4, <2>1
    <3> QED
      BY <1>2, <3>1
  <2>2. ASSUME NEW e \in built', NEW k \in DOMAIN Tail(grants) PROVE e.from # Tail(grants)[k].from
    <3>1. k + 1 \in DOMAIN grants /\ Tail(grants)[k] = grants[k + 1] /\ k + 1 # 1
      BY <1>2
    <3> QED
      BY <1>2, <1>4, <1>5, <3>1
  <2> QED
    BY <1>1, <2>1, <2>2 DEF Pending
<1>9. Complete'
  <2>1. ASSUME NEW x \in Range(Here.grants) PROVE x \in Range(Tail(grants)) \/ RepresentedIn(x, built')
    <3>1. x \in Range(grants) \/ RepresentedIn(x, built)
      BY <1>1 DEF IInv, Complete
    <3>2. built \subseteq built'
      OBVIOUS
    <3> QED
      BY <1>1, <1>2, <3>1, <3>2, OfferedStays DEF g
  <2>2. ASSUME ~ exhausted
        PROVE  /\ \A rows \in Range(Here.trusts) : rows \in Range(trusts) \/ Offered(rows, edges)
               /\ \A i \in DOMAIN input.accounts : i < account =>
                    /\ \A rows \in Range(input.accounts[i].trusts) : Offered(rows, edges)
                    /\ \A x \in Range(input.accounts[i].grants) : RepresentedIn(x, edges)
    BY <1>1, <2>2 DEF IInv, Complete
  <2> QED
    BY <1>1, <1>3, <2>1, <2>2, OfferedStays DEF Complete, After
<1>10. Origins'
  BY <1>1 DEF IInv, Origins
<1>11. Conditions'
  BY <1>1 DEF IInv, Conditions, After, TrustEdges, Unevaluated
<1> QED
  BY <1>6, <1>7, <1>8, <1>9, <1>10, <1>11

\* A grant is told apart by the statement it came from.
LEMMA OneGrantEach ==
  ASSUME Shape, NEW g \in Grants, NEW h \in Grants, g.from = h.from
  PROVE  g = h
<1>1. PICK i \in DOMAIN input.accounts : \E k \in DOMAIN input.accounts[i].grants : g = input.accounts[i].grants[k]
  BY DEF Grants, Range
<1>2. PICK j \in DOMAIN input.accounts : \E l \in DOMAIN input.accounts[j].grants : h = input.accounts[j].grants[l]
  BY DEF Grants, Range
<1>3. PICK k \in DOMAIN input.accounts[i].grants : g = input.accounts[i].grants[k]
  BY <1>1
<1>4. PICK l \in DOMAIN input.accounts[j].grants : h = input.accounts[j].grants[l]
  BY <1>2
<1>5. i = j /\ k = l
  BY <1>3, <1>4, Collected DEF Collection
<1> QED
  BY <1>3, <1>4, <1>5

\* A grant's turn in which nothing is expanded.
LEMMA UnexpandedSafe ==
  ASSUME IInv, Granting, NEW new, IsFiniteSet(new), built' = built \cup new,
         \A e \in new : /\ e.layer = "permission" /\ e.src = Head(grants).principal
                        /\ e.dst \in Arns /\ e.from = Head(grants).from
                        /\ \A p \in People : ~ FromExpansion(p, e),
         RepresentedIn(Head(grants), built'),
         UNCHANGED <<input, account, trusts, nodes, edges, held, exhausted, bindings>>,
         expanded' = expanded,
         \/ registered' = registered /\ pc' = pc
         \/ registered' = registered + Cardinality(new) /\ pc' = IF registered' > MaxTotal THEN "aborted" ELSE pc
  PROVE  IInv'
<1>1. Shape' /\ Counters' /\ Pending' /\ Complete' /\ Origins' /\ Conditions'
  <2>1. expanded' \in [People -> 0 .. CumulativeCap]
    BY DEF IInv, Shape
  <2> QED
    BY <2>1, GrantTaken
<1>2. Capped'
  <2>1. pc = "trust" /\ pc' \in {"trust", "aborted"} /\ account' = account /\ input' = input /\ edges' = edges
    BY DEF Granting
  <2>2. \A i \in DOMAIN input.accounts : Opened(i) => Opened(i)'
    BY <2>1 DEF Opened
  <2> QED
    BY <2>1, <2>2, CappedStays
<1> QED
  BY <1>1, <1>2 DEF IInv

LEMMA GrantSpecificSafe ==
  ASSUME IInv, GrantSpecific PROVE IInv'
<1> DEFINE g == Head(grants)
           new == {GrantEdge(g, g.target)}
<1>1. /\ Granting /\ pc = "trust" /\ grants # <<>> /\ ~ g.wild
      /\ built' = built \cup new /\ registered' = registered + Cardinality(new)
      /\ pc' = IF registered' > MaxTotal THEN "aborted" ELSE pc
      /\ UNCHANGED <<input, account, trusts, nodes, edges, held, exhausted, bindings>>
      /\ expanded' = expanded
  BY DEF GrantSpecific, Granting, Register
<1>2. g \in Range(Here.grants) /\ g \in Grants /\ g.target \in Arns
  <2>1. g \in Range(Here.grants)
    BY <1>1, NextGrant DEF IInv
  <2> QED
    BY <1>1, <2>1, HereCollected DEF IInv, CollectedAccount
<1>3. IsFiniteSet(new)
  BY FS_Singleton
<1>4. \A e \in new : /\ e.layer = "permission" /\ e.src = g.principal
                     /\ e.dst \in Arns /\ e.from = g.from
  BY <1>2, EdgeSays
<1>5. \A e \in new, p \in People : ~ FromExpansion(p, e)
  BY <1>1, <1>2, <1>4, OneGrantEach DEF FromExpansion, IInv
<1>6. RepresentedIn(g, built')
  BY <1>1 DEF RepresentedIn
<1> HIDE DEF new
<1> QED
  BY <1>1, <1>3, <1>4, <1>5, <1>6, UnexpandedSafe

LEMMA GrantSkippedSafe ==
  ASSUME IInv, GrantSkipped PROVE IInv'
<1>1. /\ Granting /\ Head(grants).wild /\ EffectiveMode(Head(grants)) = "skip"
      /\ built' = built \cup {} /\ registered' = registered /\ pc' = pc
      /\ UNCHANGED <<input, account, trusts, nodes, edges, held, exhausted, bindings>>
      /\ expanded' = expanded
  BY DEF GrantSkipped, size
<1>2. IsFiniteSet({})
  BY FS_EmptySet
<1>3. RepresentedIn(Head(grants), built')
  BY <1>1, ModeSays DEF RepresentedIn
<1> QED
  BY <1>1, <1>2, <1>3, UnexpandedSafe

LEMMA GrantSuppressedSafe ==
  ASSUME IInv, GrantSuppressed PROVE IInv'
<1> DEFINE g == Head(grants)
           new == {Hyperedge(g)}
<1>1. /\ Granting /\ pc = "trust" /\ grants # <<>> /\ g.wild
      /\ built' = built \cup new /\ registered' = registered /\ pc' = pc
      /\ UNCHANGED <<input, account, trusts, nodes, edges, held, exhausted, bindings>>
      /\ expanded' = expanded
  BY DEF GrantSuppressed, Granting, size
<1>2. g \in Range(Here.grants)
  BY <1>1, NextGrant DEF IInv
<1>3. IsFiniteSet(new)
  BY FS_Singleton
<1>4. \A e \in new : /\ e.layer = "permission" /\ e.src = g.principal
                     /\ e.dst \in Arns \ People /\ e.from = g.from
  BY <1>1, <1>2, HyperedgeSays DEF IInv
<1>5. \A e \in new, p \in People : ~ FromExpansion(p, e)
  BY <1>4 DEF FromExpansion
<1>6. RepresentedIn(g, built')
  BY <1>1 DEF RepresentedIn
<1> HIDE DEF new
<1> QED
  BY <1>1, <1>3, <1>4, <1>5, <1>6, UnexpandedSafe

LEMMA GrantExpandedSafe ==
  ASSUME IInv, GrantExpanded PROVE IInv'
<1> DEFINE g == Head(grants)
           q == g.principal
           new == Expansion(g)
           more == Cardinality(Matches(g))
<1>1. /\ Granting /\ pc = "trust" /\ grants # <<>> /\ g.wild /\ EffectiveMode(g) = "expand"
      /\ built' = built \cup new /\ registered' = registered + Cardinality(new)
      /\ pc' = IF registered' > MaxTotal THEN "aborted" ELSE pc
      /\ UNCHANGED <<input, account, trusts, nodes, edges, held, exhausted, bindings>>
      /\ expanded' = [expanded EXCEPT ![q] = @ + more]
  BY DEF GrantExpanded, Granting, Register
<1>2. q \in Here.people /\ q \in People
  BY <1>1, NextGrant, HereCollected DEF IInv
<1>3. /\ more \in Nat /\ IsFiniteSet(new) /\ Cardinality(new) \in Nat /\ Cardinality(new) <= more
      /\ \A e \in new : /\ e.layer = "permission" /\ e.src = q /\ e.dst \in People /\ e.from = g.from
  BY ExpansionSays DEF IInv
<1>4. g.action \in RoleActions /\ expanded[q] + more <= CumulativeCap
  BY <1>1, ModeSays DEF WithinCap
<1>5. CumulativeCap \in Nat /\ expanded \in [People -> 0 .. CumulativeCap] /\ People \subseteq Arns
  BY Limits DEF IInv, Shape
<1> HIDE DEF more
<1>6. /\ expanded' \in [People -> 0 .. CumulativeCap]
      /\ expanded'[q] = expanded[q] + more
      /\ \A p \in People : p # q => expanded'[p] = expanded[p]
  BY <1>1, <1>2, <1>3, <1>4, <1>5
<1>7. RepresentedIn(g, built')
  BY <1>1, <1>4 DEF RepresentedIn
<1>8. \A e \in new : /\ e.layer = "permission" /\ e.src = g.principal /\ e.dst \in Arns /\ e.from = g.from
  BY <1>3, <1>5
<1>9. Shape' /\ Counters' /\ Pending' /\ Complete' /\ Origins' /\ Conditions'
  <2> HIDE DEF new
  <2> QED
    BY <1>1, <1>3, <1>6, <1>7, <1>8, GrantTaken
<1>10. Capped'
  <2>1. ASSUME NEW p \in People
        PROVE  /\ IsFiniteSet(Stemming(p)) /\ Cardinality(Stemming(p)) \in Nat
               /\ p # q => Stemming(p)' = Stemming(p)
               /\ Stemming(p)' \subseteq Stemming(p) \cup new
    <3>1. \A e : FromExpansion(p, e)' <=> FromExpansion(p, e)
      BY <1>1 DEF FromExpansion, Grants
    <3>2. Stemming(p)' \subseteq Stemming(p) \cup new
      BY <1>1, <3>1 DEF Stemming
    <3>3. p # q => Stemming(p)' = Stemming(p)
      <4>1. p # q => \A e \in new : ~ FromExpansion(p, e)
        BY <1>3 DEF FromExpansion
      <4> HIDE DEF new
      <4> QED
        BY <1>1, <3>1, <4>1 DEF Stemming
    <3>4. IsFiniteSet(edges \cup built) /\ Stemming(p) \in SUBSET (edges \cup built)
      BY UnionBound DEF IInv, Counters, Stemming
    <3>5. IsFiniteSet(Stemming(p))
      BY <3>4, FS_Subset
    <3> QED
      BY <3>2, <3>3, <3>5, FS_CardinalityType
  <2>2. ASSUME NEW p \in People, p = q
        PROVE  Cardinality(Stemming(p)') \in Nat /\ Cardinality(Stemming(p)') <= expanded'[p]
    <3>1. Cardinality(Stemming(p)) <= expanded[p]
      BY <1>1, <1>2, <2>2 DEF IInv, Capped
    <3>2. /\ IsFiniteSet(Stemming(p) \cup new) /\ Cardinality(Stemming(p) \cup new) \in Nat
          /\ Cardinality(Stemming(p) \cup new) <= Cardinality(Stemming(p)) + Cardinality(new)
      BY <1>3, <2>1, UnionBound
    <3>3. /\ Cardinality(Stemming(p)') <= Cardinality(Stemming(p) \cup new)
          /\ Cardinality(Stemming(p)') \in Nat
      <4>1. Stemming(p)' \in SUBSET (Stemming(p) \cup new)
        BY <2>1
      <4> QED
        BY <3>2, <4>1, FS_Subset, FS_CardinalityType
    <3>4. Cardinality(Stemming(p)) \in Nat /\ expanded[p] \in Nat /\ expanded'[p] = expanded[p] + more
      BY <1>5, <1>6, <2>1, <2>2
    <3> QED
      BY <1>3, <3>1, <3>2, <3>3, <3>4
  <2>3. ASSUME NEW p \in People PROVE Cardinality(Stemming(p)') <= CumulativeCap
    <3>1. CASE p = q
      <4>1. expanded'[p] <= CumulativeCap /\ expanded'[p] \in Nat
        BY <1>5, <1>6
      <4> QED
        BY <1>5, <2>2, <3>1, <4>1
    <3>2. CASE p # q
      BY <2>1, <3>2 DEF IInv, Capped
    <3> QED
      BY <3>1, <3>2
  <2>4. ASSUME NEW p \in People, p \in Here'.people PROVE Cardinality(Stemming(p)') <= expanded'[p]
    <3>1. p \in Here.people
      BY <1>1, <2>4 DEF Here
    <3>2. CASE p = q
      BY <2>2, <3>2
    <3>3. CASE p # q
      BY <1>1, <1>6, <2>1, <3>1, <3>3 DEF IInv, Capped
    <3> QED
      BY <3>2, <3>3
  <2>5. ASSUME NEW p \in People, NEW i \in DOMAIN input.accounts, p \in input.accounts[i].people, ~ Opened(i)'
        PROVE  Stemming(p)' = {}
    <3>1. pc' \in {"trust", "aborted"} /\ account' = account
      BY <1>1
    <3>2. ~ Opened(i) /\ i # account
      BY <1>1, <2>5, <3>1, Collected DEF Opened, IInv, Shape
    <3>3. p # q
      <4>1. account \in DOMAIN input.accounts /\ q \in input.accounts[account].people
        BY <1>1, <1>2, HereCollected DEF IInv, Here
      <4> QED
        BY <2>5, <3>2, <4>1, Collected DEF Collection, IInv
    <3> QED
      BY <2>1, <2>5, <3>2, <3>3 DEF IInv, Capped
  <2> QED
    BY <1>1, <2>3, <2>4, <2>5 DEF Capped
<1> QED
  BY <1>9, <1>10 DEF IInv

\* The account at hand is done: what was built for it becomes part of the
\* graph, as far as the budget goes.
LEMMA OfferGrantsSafe ==
  ASSUME IInv, OfferGrants PROVE IInv'
<1> DEFINE stand == {e.dst : e \in built} \cap Range(HyperedgeOf)
<1>1. /\ pc = "trust" /\ trusts = <<>> /\ grants = <<>> /\ AddByHash(built)
      /\ pc' = "account" /\ account' = account + 1 /\ nodes' = WithNodes(stand, "hyperedge")
      /\ input' = input /\ trusts' = trusts /\ grants' = grants /\ built' = built
      /\ expanded' = expanded /\ registered' = registered /\ bindings' = bindings
  BY DEF OfferGrants
<1>2. /\ account \in DOMAIN input.accounts /\ account \in Nat /\ Len(input.accounts) \in Nat
      /\ DOMAIN input.accounts = 1 .. Len(input.accounts)
  BY <1>1, HereCollected, Collected DEF IInv
<1>3. /\ Budget' /\ edges \subseteq edges' /\ held <= held' /\ edges' \subseteq edges \cup built
      /\ ~ exhausted' => ~ exhausted /\ edges' = edges \cup built /\ held' = held + Cardinality(built)
  <2>1. IsFiniteSet(built)
    BY DEF IInv, Counters
  <2> QED
    BY <1>1, <2>1, Budgeted, AddedByHash
<1>4. stand \subseteq Arns \ People
  BY Limits DEF Range
<1> HIDE DEF stand
<1>5. /\ DOMAIN nodes' = DOMAIN nodes \cup stand /\ DOMAIN nodes' \subseteq Arns
      /\ Range(nodes') \subseteq Origin
      /\ \A n \in DOMAIN nodes' : nodes'[n] = IF n \in DOMAIN nodes THEN nodes[n] ELSE "hyperedge"
  <2>1. "hyperedge" \in Origin /\ DOMAIN nodes \subseteq Arns /\ Range(nodes) \subseteq Origin
    BY DEF IInv, Shape, Origin
  <2> QED
    BY <1>1, <1>4, <2>1, NodesSays
<1>6. Shape'
  BY <1>1, <1>2, <1>3, <1>5 DEF IInv, Shape, After
<1>7. Counters'
  <2>1. Cardinality(built) \in Nat /\ held \in Nat /\ held' \in Nat /\ registered \in Nat
    BY <1>3, FS_CardinalityType DEF IInv, Counters, Budget
  <2> QED
    BY <1>1, <1>3, <2>1 DEF IInv, Counters, Budget
<1>8. Pending'
  BY <1>1 DEF Pending
<1>9. Capped'
  <2>1. \A e \in edges' \cup built' : e \in edges \cup built
    BY <1>1, <1>3
  <2>2. \A i \in DOMAIN input.accounts : Opened(i) => Opened(i)'
    BY <1>1, <1>2 DEF Opened
  <2> QED
    BY <1>1, <2>1, <2>2, CappedStays
<1>10. Complete'
  <2>1. ASSUME ~ exhausted', NEW i \in DOMAIN input.accounts, i < account + 1
        PROVE  /\ \A rows \in Range(input.accounts[i].trusts) : Offered(rows, edges')
               /\ \A g \in Range(input.accounts[i].grants) : RepresentedIn(g, edges')
    <3>1. CASE i = account
      <4>1. \A x : x \notin Range(<<>>)
        BY DEF Range
      <4>2. /\ \A rows \in Range(Here.trusts) : Offered(rows, edges)
            /\ \A g \in Range(Here.grants) : RepresentedIn(g, built)
        BY <1>1, <1>3, <2>1, <4>1 DEF IInv, Complete
      <4>3. edges \subseteq edges' /\ built \subseteq edges'
        BY <1>3, <2>1
      <4> QED
        BY <1>1, <3>1, <4>2, <4>3, OfferedStays DEF Here
    <3>2. CASE i # account
      <4>1. i < account
        BY <1>2, <2>1, <3>2
      <4>2. /\ \A rows \in Range(input.accounts[i].trusts) : Offered(rows, edges)
            /\ \A g \in Range(input.accounts[i].grants) : RepresentedIn(g, edges)
        BY <1>3, <2>1, <4>1 DEF IInv, Complete
      <4> QED
        BY <1>1, <1>3, <4>2, OfferedStays
    <3> QED
      BY <3>1, <3>2
  <2> QED
    BY <1>1, <2>1, OfferedStays DEF Complete, After
<1>11. Origins'
  <2>1. ASSUME NEW p \in People \cap DOMAIN nodes' PROVE nodes'[p] = "collected"
    BY <1>1, <1>4, <1>5 DEF IInv, Origins
  <2>2. ASSUME NEW i \in DOMAIN input.accounts, i < account + 1, NEW p \in input.accounts[i].people
        PROVE  p \in DOMAIN nodes' /\ nodes'[p] = "collected"
    <3>1. i < account \/ i = account
      BY <1>2, <2>2
    <3> QED
      BY <1>1, <1>5, <2>2, <3>1 DEF IInv, Origins
  <2> QED
    BY <1>1, <2>1, <2>2 DEF Origins
<1>12. Conditions'
  <2>1. \A e \in built : e.layer = "permission"
    BY DEF IInv, Shape
  <2> QED
    BY <1>1, <1>3, <2>1 DEF IInv, Conditions, After
<1> QED
  BY <1>6, <1>7, <1>8, <1>9, <1>10, <1>11, <1>12 DEF IInv

\* Service edges are offered like any list; every service gets a node.
LEMMA OfferServicesSafe ==
  ASSUME IInv, OfferServices PROVE IInv'
<1>1. /\ pc = "account" /\ account \notin DOMAIN input.accounts /\ pc' = "resources"
      /\ input' = input /\ account' = account /\ trusts' = trusts /\ grants' = grants /\ built' = built
      /\ expanded' = expanded /\ registered' = registered /\ bindings' = bindings
  BY DEF OfferServices
<1>2. Shape /\ Collection(input) /\ DOMAIN nodes \subseteq Arns /\ Range(nodes) \subseteq Origin
  BY Collected DEF IInv, Shape
<1>3. /\ DOMAIN nodes \subseteq DOMAIN nodes' /\ DOMAIN nodes' \subseteq Arns
      /\ Range(nodes') \subseteq Origin
      /\ \A n \in DOMAIN nodes : nodes'[n] = nodes[n]
  <2> DEFINE known == WithNodes(SyntheticPrincipals, "synthetic")
  <2>1. nodes' = [n \in DOMAIN known \cup input.services |->
                    IF n \in DOMAIN known THEN known[n] ELSE "collected"]
    BY DEF OfferServices
  <2>2. SyntheticPrincipals \subseteq Arns
    <3>1. \A row \in TrustRows : row.src \in Arns
      BY <1>2 DEF TrustRows, Collection, CollectedAccount, Joins
    <3> QED
      BY <3>1 DEF SyntheticPrincipals
  <2>3. /\ DOMAIN known = DOMAIN nodes \cup SyntheticPrincipals
        /\ \A n \in DOMAIN known : known[n] = IF n \in DOMAIN nodes THEN nodes[n] ELSE "synthetic"
    BY DEF WithNodes
  <2>4. input.services \subseteq Arns
    BY <1>2 DEF Collection
  <2> HIDE DEF known
  <2>5. \A n \in DOMAIN nodes' : nodes'[n] \in Origin
    <3>1. \A n \in DOMAIN nodes : nodes[n] \in Origin
      BY <1>2 DEF Range
    <3> QED
      BY <2>1, <2>3, <3>1 DEF Origin
  <2> QED
    BY <1>2, <2>1, <2>2, <2>3, <2>4, <2>5 DEF Range
<1>4. /\ Budget' /\ edges \subseteq edges'
      /\ edges' \subseteq edges \cup Range(input.serviceEdges)
      /\ ~ exhausted' => ~ exhausted /\ Range(input.serviceEdges) \subseteq edges'
  <2>1. Budget
    BY Budgeted
  <2>2. CASE input.serviceEdges = <<>>
    <3>1. edges' = edges /\ held' = held /\ exhausted' = exhausted
      BY <2>2 DEF OfferServices
    <3>2. Range(input.serviceEdges) = {}
      BY <2>2 DEF Range
    <3> QED
      BY <2>1, <3>1, <3>2 DEF Budget
  <2>3. CASE input.serviceEdges # <<>>
    <3>1. AddInOrder(input.serviceEdges, DOMAIN input.serviceEdges)
      BY <2>3 DEF OfferServices
    <3>2. IsFiniteSet(DOMAIN input.serviceEdges)
      BY <1>2, ListElements DEF Collection, IsList
    <3>3. {input.serviceEdges[i] : i \in DOMAIN input.serviceEdges} = Range(input.serviceEdges)
      BY DEF Range
    <3> QED
      BY <2>1, <3>1, <3>2, <3>3, AddedInOrder
  <2> QED
    BY <2>2, <2>3
<1>5. \A e \in Range(input.serviceEdges) : e.layer = "service" /\ {e.src, e.dst} \subseteq Arns
  BY <1>2 DEF Collection, Joins
<1>6. Shape'
  BY <1>1, <1>3, <1>4, <1>5 DEF IInv, Shape, After
<1>7. Counters'
  BY <1>1, <1>4 DEF IInv, Counters, Budget
<1>8. Pending'
  BY <1>1 DEF Pending
<1>9. Capped'
  <2>1. \A e \in edges' \cup built' : e \in edges \cup built \/ \A p \in People : ~ FromExpansion(p, e)
    BY <1>1, <1>4, <1>5 DEF FromExpansion
  <2>2. \A i \in DOMAIN input.accounts : Opened(i) => Opened(i)'
    BY <1>1 DEF Opened
  <2> QED
    BY <1>1, <2>1, <2>2, CappedStays
<1>10. Complete'
  <2>1. ASSUME ~ exhausted', NEW i \in DOMAIN input.accounts, i < account
        PROVE  /\ \A rows \in Range(input.accounts[i].trusts) : Offered(rows, edges')
               /\ \A g \in Range(input.accounts[i].grants) : RepresentedIn(g, edges')
    BY <1>1, <1>4, <2>1, OfferedStays DEF IInv, Complete
  <2> QED
    BY <1>1, <1>4, <2>1, OfferedStays DEF Complete, After
<1>11. Origins'
  BY <1>1, <1>3 DEF IInv, Origins
<1>12. Conditions'
  BY <1>1, <1>4, <1>5 DEF IInv, Conditions, After
<1> QED
  BY <1>6, <1>7, <1>8, <1>9, <1>10, <1>11, <1>12 DEF IInv

-----------------------------------------------------------------------------
(***************************************************************************)
(* What the binders return is a binding.                                   *)
(***************************************************************************)
LEMMA OneBinding ==
  ASSUME NEW confidence \in Confidence, NEW blocking \in BOOLEAN
  PROVE  Bound(confidence, blocking) \subseteq Binding
  BY DEF Bound, Binding

LEMMA ScpBindingsTyped ==
  ASSUME Collection(input), NEW e PROVE ScpBindings(e) \subseteq Binding
<1> SUFFICES ASSUME NEW scp \in input.scps PROVE BindScp(e, scp.says) \subseteq Binding
  BY DEF ScpBindings
<1> DEFINE c == ParseScp(scp.says)
<1>1. scp.says \in ScpStatement
  BY DEF Collection, Governance
<1>2. c.parse \in {"complete", "partial", "unsupported"}
  BY <1>1 DEF ScpStatement, ActionForm, ParseScp, ScpParseStatus
<1> HIDE DEF c
<1>3. ScpConfidence(e, c) \in Confidence
  BY <1>2 DEF ScpConfidence, ParseConfidence, Confidence
<1>4. ScpBlocks(e, c) \in BOOLEAN
  BY DEF ScpBlocks
<1> QED
  BY <1>3, <1>4, OneBinding DEF BindScp, c

LEMMA BoundaryBindingsTyped ==
  ASSUME NEW e PROVE BoundaryBindings(e) \subseteq Binding
<1> SUFFICES ASSUME NEW boundary PROVE EvaluateBoundary(e, boundary) \subseteq Binding
  BY DEF BoundaryBindings, BindBoundary
<1> DEFINE denies == \E s \in boundary : s.effect = "Deny" /\ Plain(s) /\ Covers(s, e)
           allows == \E s \in boundary : s.effect = "Allow" /\ Plain(s) /\ Covers(s, e)
           open == \E s \in boundary : LeavesOpen(s, e)
<1>1. EvaluateBoundary(e, boundary) =
        CASE denies                         -> Bound("complete", TRUE)
          [] ~ denies /\ allows             -> Bound("complete", FALSE)
          [] ~ denies /\ ~ allows /\ open   -> Bound("needs_review", FALSE)
          [] ~ denies /\ ~ allows /\ ~ open -> Bound("complete", TRUE)
  BY DEF EvaluateBoundary
<1>2. denies \in BOOLEAN /\ allows \in BOOLEAN /\ open \in BOOLEAN
  OBVIOUS
<1> HIDE DEF denies, allows, open
<1>3. \/ EvaluateBoundary(e, boundary) = Bound("complete", TRUE)
      \/ EvaluateBoundary(e, boundary) = Bound("complete", FALSE)
      \/ EvaluateBoundary(e, boundary) = Bound("needs_review", FALSE)
  BY <1>1, <1>2
<1>4. "complete" \in Confidence /\ "needs_review" \in Confidence
  BY DEF Confidence
<1> QED
  BY <1>3, <1>4, OneBinding

LEMMA DenyBindingsTyped ==
  ASSUME NEW e PROVE DenyBindings(e) \subseteq Binding
<1>1. ASSUME NEW d PROVE BindDeny(e, d) \subseteq Binding
  <2>1. DenyConfidence(d) \in Confidence
    BY DEF DenyConfidence, Confidence
  <2> QED
    BY <2>1, OneBinding DEF BindDeny
<1> QED
  BY <1>1 DEF DenyBindings

LEMMA OtherBindingsTyped ==
  ASSUME NEW e PROVE BindCondition(e) \subseteq Binding /\ DriftBindings(e) \subseteq Binding
<1>1. "complete" \in Confidence /\ "needs_review" \in Confidence
  BY DEF Confidence
<1> QED
  BY <1>1, OneBinding DEF BindCondition, DriftBindings, BindDrift

\* An edge with a condition is bound as unevaluated.
LEMMA ConditionSays ==
  ASSUME NEW es, NEW e \in es, e.layer \in {"trust", "resource_policy"}, e.conditional
  PROVE  \E b \in Bindings(es, "condition", BindCondition) : b.edge = e /\ IsAmbiguous(b.says)
<1> DEFINE says == [confidence |-> "needs_review", blocking |-> FALSE]
           b == [edge |-> e, by |-> "condition", says |-> says]
<1>1. says \in BindCondition(e)
  BY DEF BindCondition, Bound
<1>2. b \in Bindings(es, "condition", BindCondition)
  <2> DEFINE Of(f) == {[edge |-> f, by |-> "condition", says |-> x] : x \in BindCondition(f)}
  <2>1. Bindings(es, "condition", BindCondition) = UNION {Of(f) : f \in es}
    BY DEF Bindings
  <2>2. b \in Of(e)
    BY <1>1
  <2> HIDE DEF Of, b
  <2> QED
    BY <2>1, <2>2
<1>3. b.edge = e /\ IsAmbiguous(b.says)
  BY DEF IsAmbiguous
<1> QED
  BY <1>2, <1>3

\* Resource-policy edges are offered by hash, their conditions bound before.
LEMMA OfferResourcesSafe ==
  ASSUME IInv, OfferResources PROVE IInv'
<1> DEFINE sources == {row.src : row \in input.rows}
<1>1. /\ pc = "resources" /\ pc' = "bind" /\ nodes' = WithNodes(sources, "synthetic")
      /\ bindings' = Bindings(input.rows, "condition", BindCondition)
      /\ input' = input /\ account' = account /\ trusts' = trusts /\ grants' = grants /\ built' = built
      /\ expanded' = expanded /\ registered' = registered
  BY DEF OfferResources
<1>2. /\ Shape /\ IsFiniteSet(input.rows) /\ account \notin DOMAIN input.accounts
      /\ \A e \in input.rows : e.layer = "resource_policy" /\ {e.src, e.dst} \subseteq Arns
  BY <1>1, Collected DEF IInv, Shape, Collection, Joins
<1>3. sources \subseteq Arns
  BY <1>2
<1> HIDE DEF sources
<1>4. /\ DOMAIN nodes' = DOMAIN nodes \cup sources /\ DOMAIN nodes' \subseteq Arns
      /\ Range(nodes') \subseteq Origin
      /\ \A n \in DOMAIN nodes' : nodes'[n] = IF n \in DOMAIN nodes THEN nodes[n] ELSE "synthetic"
  <2>1. "synthetic" \in Origin /\ DOMAIN nodes \subseteq Arns /\ Range(nodes) \subseteq Origin
    BY <1>2 DEF Shape, Origin
  <2> QED
    BY <1>1, <1>3, <2>1, NodesSays
<1>5. /\ Budget' /\ edges \subseteq edges' /\ edges' \subseteq edges \cup input.rows
      /\ ~ exhausted' => ~ exhausted /\ input.rows \subseteq edges'
  <2>1. Budget
    BY Budgeted
  <2>2. CASE input.rows = {}
    <3>1. edges' = edges /\ held' = held /\ exhausted' = exhausted
      BY <2>2 DEF OfferResources
    <3> QED
      BY <2>1, <2>2, <3>1 DEF Budget
  <2>3. CASE input.rows # {}
    <3>1. AddByHash(input.rows)
      BY <2>3 DEF OfferResources
    <3> QED
      BY <1>2, <2>1, <3>1, AddedByHash
  <2> QED
    BY <2>2, <2>3
<1>6. \A b \in bindings' : b.edge \in input.rows /\ b.says \in Binding
  BY <1>1, OtherBindingsTyped DEF Bindings
<1>7. \A e \in input.rows : e.conditional => Unevaluated(e)'
  BY <1>1, <1>2, ConditionSays DEF Unevaluated
<1>8. Shape'
  BY <1>1, <1>2, <1>4, <1>5, <1>6 DEF Shape, After
<1>9. Counters'
  BY <1>1, <1>5 DEF IInv, Counters, Budget
<1>10. Pending'
  BY <1>1 DEF Pending
<1>11. Capped'
  <2>1. \A e \in edges' \cup built' : e \in edges \cup built \/ \A p \in People : ~ FromExpansion(p, e)
    BY <1>1, <1>2, <1>5 DEF FromExpansion
  <2>2. \A i \in DOMAIN input.accounts : Opened(i) => Opened(i)'
    BY <1>1 DEF Opened
  <2> QED
    BY <1>1, <2>1, <2>2, CappedStays
<1>12. Complete'
  <2>1. ASSUME ~ exhausted', NEW i \in DOMAIN input.accounts, i < account
        PROVE  /\ \A rows \in Range(input.accounts[i].trusts) : Offered(rows, edges')
               /\ \A g \in Range(input.accounts[i].grants) : RepresentedIn(g, edges')
    BY <1>1, <1>5, <2>1, OfferedStays DEF IInv, Complete
  <2>2. ~ exhausted' => Range(input.serviceEdges) \subseteq edges'
    BY <1>1, <1>5 DEF IInv, Complete
  <2> QED
    BY <1>1, <1>5, <2>1, <2>2, OfferedStays DEF Complete, After
<1>13. Origins'
  BY <1>1, <1>4 DEF IInv, Origins
<1>14. Conditions'
  BY <1>1, <1>5, <1>6, <1>7 DEF IInv, Conditions, After
<1> QED
  BY <1>8, <1>9, <1>10, <1>11, <1>12, <1>13, <1>14 DEF IInv

\* Binding leaves the graph alone.
LEMMA BindSafe ==
  ASSUME IInv, Bind PROVE IInv'
<1>1. /\ pc = "bind" /\ pc' = "emit" /\ nodes' = nodes /\ edges' = edges
      /\ input' = input /\ account' = account /\ trusts' = trusts /\ grants' = grants /\ built' = built
      /\ expanded' = expanded /\ registered' = registered /\ held' = held /\ exhausted' = exhausted
  BY DEF Bind, size
<1>2. /\ bindings \subseteq bindings'
      /\ Bindings(TrustEdges, "condition", BindCondition) \subseteq bindings'
      /\ \A b \in bindings' : b \in bindings \/ (b.edge \in edges /\ b.says \in Binding)
  <2>1. Collection(input)
    BY Collected DEF IInv
  <2>2. \A b \in Bindings(TrustEdges, "scp", ScpBindings) : b.edge \in edges /\ b.says \in Binding
    BY <2>1, ScpBindingsTyped DEF Bindings, TrustEdges
  <2>3. \A b \in Bindings(TrustEdges, "condition", BindCondition) : b.edge \in edges /\ b.says \in Binding
    BY OtherBindingsTyped DEF Bindings, TrustEdges
  <2>4. \A b \in Bindings(edges, "boundary", BoundaryBindings) : b.edge \in edges /\ b.says \in Binding
    BY BoundaryBindingsTyped DEF Bindings
  <2>5. \A b \in Bindings(edges, "deny", DenyBindings) : b.edge \in edges /\ b.says \in Binding
    BY DenyBindingsTyped DEF Bindings
  <2>6. \A b \in Bindings(edges, "drift", DriftBindings) : b.edge \in edges /\ b.says \in Binding
    BY OtherBindingsTyped DEF Bindings
  <2>7. bindings' = bindings \cup Bindings(TrustEdges, "scp", ScpBindings)
                             \cup Bindings(TrustEdges, "condition", BindCondition)
                             \cup Bindings(edges, "boundary", BoundaryBindings)
                             \cup Bindings(edges, "deny", DenyBindings)
                             \cup Bindings(edges, "drift", DriftBindings)
    BY DEF Bind
  <2> QED
    BY <2>2, <2>3, <2>4, <2>5, <2>6, <2>7
<1>3. Shape'
  <2>1. \A b \in bindings' : b.says \in Binding
    BY <1>2 DEF IInv, Shape
  <2> QED
    BY <1>1, <2>1 DEF IInv, Shape, After
<1>4. Counters' /\ Pending' /\ Origins'
  BY <1>1 DEF IInv, Counters, Pending, Origins
<1>5. Capped'
  <2>1. \A i \in DOMAIN input.accounts : Opened(i) => Opened(i)'
    BY <1>1 DEF Opened
  <2> QED
    BY <1>1, <2>1, CappedStays
<1>6. Complete'
  BY <1>1, OfferedStays DEF IInv, Complete, After
<1>7. Conditions'
  <2>1. \A e : Unevaluated(e) => Unevaluated(e)'
    BY <1>2 DEF Unevaluated
  <2>2. \A e \in TrustEdges : e.conditional => Unevaluated(e)'
    BY <1>2, ConditionSays DEF Unevaluated, TrustEdges
  <2>3. TrustEdges' = TrustEdges
    BY <1>1 DEF TrustEdges
  <2>4. ~ exhausted => \A b \in bindings' : b.edge \in edges
    BY <1>1, <1>2 DEF IInv, Conditions, After
  <2>5. \A e \in input.rows : e.conditional => Unevaluated(e)'
    BY <1>1, <2>1 DEF IInv, Conditions, After
  <2>6. \A e \in edges : e.layer = "resource_policy" => e \in input.rows
    BY DEF IInv, Conditions
  <2> QED
    BY <1>1, <2>2, <2>3, <2>4, <2>5, <2>6 DEF Conditions, After
<1> QED
  BY <1>3, <1>4, <1>5, <1>6, <1>7 DEF IInv

\* Nothing dangles in a graph that was not cut, so emission refuses none.
LEMMA EmitSafe ==
  ASSUME IInv, Emit PROVE IInv'
<1>1. /\ pc = "emit" /\ pc' \in {"emitted", "rejected"} /\ edges' = edges /\ bindings' = bindings
      /\ nodes' = WithNodes(Endpoints, "placeholder")
      /\ input' = input /\ account' = account /\ trusts' = trusts /\ grants' = grants /\ built' = built
      /\ expanded' = expanded /\ registered' = registered /\ held' = held /\ exhausted' = exhausted
  BY DEF Emit, size
<1>2. /\ DOMAIN nodes' = DOMAIN nodes \cup Endpoints /\ DOMAIN nodes' \subseteq Arns
      /\ Range(nodes') \subseteq Origin
      /\ \A n \in DOMAIN nodes' : nodes'[n] = IF n \in DOMAIN nodes THEN nodes[n] ELSE "placeholder"
  <2>1. Endpoints \subseteq Arns
    BY DEF Endpoints, IInv, Shape
  <2>2. "placeholder" \in Origin /\ DOMAIN nodes \subseteq Arns /\ Range(nodes) \subseteq Origin
    BY DEF IInv, Shape, Origin
  <2> QED
    BY <1>1, <2>1, <2>2, NodesSays
<1>3. pc' = "rejected" => exhausted
  <2>1. ~ exhausted => \A b \in bindings : b.edge \in edges
    BY <1>1 DEF IInv, Conditions, After
  <2>2. Endpoints \subseteq DOMAIN nodes'
    BY <1>2
  <2> QED
    BY <2>1, <2>2 DEF Emit
<1>4. Shape'
  BY <1>1, <1>2 DEF IInv, Shape, After
<1>5. Counters' /\ Pending'
  BY <1>1 DEF IInv, Counters, Pending
<1>6. Capped'
  <2>1. \A i \in DOMAIN input.accounts : Opened(i) => Opened(i)'
    BY <1>1 DEF Opened
  <2> QED
    BY <1>1, <2>1, CappedStays
<1>7. Complete'
  BY <1>1, OfferedStays DEF IInv, Complete, After
<1>8. Origins'
  BY <1>1, <1>2 DEF IInv, Origins
<1>9. Conditions'
  <2>1. TrustEdges' = TrustEdges /\ \A e : Unevaluated(e)' <=> Unevaluated(e)
    BY <1>1 DEF TrustEdges, Unevaluated
  <2> QED
    BY <1>1, <1>3, <2>1 DEF IInv, Conditions, After
<1> QED
  BY <1>4, <1>5, <1>6, <1>7, <1>8, <1>9 DEF IInv

LEMMA StutterSafe ==
  ASSUME IInv, UNCHANGED vars PROVE IInv'
<1>1. /\ input' = input /\ pc' = pc /\ account' = account /\ trusts' = trusts /\ grants' = grants
      /\ built' = built /\ expanded' = expanded /\ registered' = registered /\ nodes' = nodes
      /\ edges' = edges /\ held' = held /\ exhausted' = exhausted /\ bindings' = bindings
  BY DEF vars
<1>2. Here' = Here /\ TrustEdges' = TrustEdges /\ \A e : Unevaluated(e)' <=> Unevaluated(e)
  BY <1>1 DEF Here, TrustEdges, Unevaluated
<1>3. Shape' /\ Counters' /\ Pending' /\ Origins' /\ Conditions'
  BY <1>1, <1>2 DEF IInv, Shape, Counters, Pending, Origins, Conditions
<1>4. Capped'
  <2>1. \A i \in DOMAIN input.accounts : Opened(i) => Opened(i)'
    BY <1>1 DEF Opened
  <2> QED
    BY <1>1, <2>1, CappedStays
<1>5. Complete'
  BY <1>1, <1>2, OfferedStays DEF IInv, Complete
<1> QED
  BY <1>3, <1>4, <1>5 DEF IInv

LEMMA StepSafe == IInv /\ [Next]_vars => IInv'
<1> SUFFICES ASSUME IInv, [Next]_vars PROVE IInv'
  OBVIOUS
<1>1. CASE OpenAccount
  BY <1>1, OpenAccountSafe
<1>2. CASE OfferTrust
  BY <1>2, OfferTrustSafe
<1>3. CASE GrantSpecific
  BY <1>3, GrantSpecificSafe
<1>4. CASE GrantSkipped
  BY <1>4, GrantSkippedSafe
<1>5. CASE GrantSuppressed
  BY <1>5, GrantSuppressedSafe
<1>6. CASE GrantExpanded
  BY <1>6, GrantExpandedSafe
<1>7. CASE OfferGrants
  BY <1>7, OfferGrantsSafe
<1>8. CASE OfferServices
  BY <1>8, OfferServicesSafe
<1>9. CASE OfferResources
  BY <1>9, OfferResourcesSafe
<1>10. CASE Bind
  BY <1>10, BindSafe
<1>11. CASE Emit
  BY <1>11, EmitSafe
<1>12. CASE UNCHANGED vars
  BY <1>12, StutterSafe
<1> QED
  BY <1>1, <1>2, <1>3, <1>4, <1>5, <1>6, <1>7, <1>8, <1>9, <1>10, <1>11, <1>12 DEF Next

(***************************************************************************)
(* From any collection, every state of the pipeline satisfies the          *)
(* inductive invariant: the counters cover what they count, what had its   *)
(* turn is in the graph unless the graph is flagged, and what was expanded *)
(* for a principal is counted for it.                                      *)
(***************************************************************************)
THEOREM Invariance == Spec => []IInv
  BY Initially, StepSafe, PTL DEF Spec

-----------------------------------------------------------------------------
(***************************************************************************)
(* The promises.                                                           *)
(***************************************************************************)
LEMMA AllHadTheirTurn ==
  ASSUME Shape, pc \in After PROVE \A i \in DOMAIN input.accounts : i < account
<1>1. /\ DOMAIN input.accounts = 1 .. Len(input.accounts) /\ Len(input.accounts) \in Nat
      /\ account \in 1 .. Len(input.accounts) + 1 /\ account \notin DOMAIN input.accounts
  BY Collected DEF Shape
<1> QED
  BY <1>1

(***************************************************************************)
(* The limits of the two budgets and of expansion are kept, the state is   *)
(* well typed, an aborted run is one whose graph could not have held the   *)
(* edges it registered, and a refused scenario is one that was cut.        *)
(***************************************************************************)
THEOREM LimitsAreKept == Spec => []LimitsKept
<1>1. IInv => LimitsKept
  <2> SUFFICES ASSUME IInv PROVE LimitsKept
    OBVIOUS
  <2>1. TypeOK
    <3>1. Cardinality(edges) \in Nat /\ MaxTotal \in Nat
      BY FS_CardinalityType, Limits DEF IInv, Counters
    <3>2. held \in Cardinality(edges) .. MaxTotal /\ exhausted \in BOOLEAN
          /\ registered \in Nat /\ (pc # "aborted" => registered <= MaxTotal)
      BY <3>1 DEF IInv, Counters
    <3> QED
      BY <3>2 DEF IInv, Shape, TypeOK, Ended, After
  <2>2. AbortOnlyWhenOver /\ RejectedOnlyWhenCut
    BY DEF IInv, Counters, Conditions, AbortOnlyWhenOver, RejectedOnlyWhenCut
  <2>3. PrincipalCap
    BY DEF IInv, Capped, Stemming, FromExpansion, PrincipalCap
  <2> QED
    BY <2>1, <2>2, <2>3 DEF LimitsKept
<1> QED
  BY <1>1, Invariance, PTL

(***************************************************************************)
(* A graph that does not say its budget ran out has every statement that   *)
(* is not noise, every grant in the form its mode asks for, every service  *)
(* edge and every row of a resource policy.                                *)
(***************************************************************************)
THEOREM NothingIsLost == Spec => []CompleteUnlessFlagged
<1>1. IInv => CompleteUnlessFlagged
  <2> SUFFICES ASSUME IInv, pc \in After, ~ exhausted
               PROVE  /\ \A row \in TrustRows : IsSignal(row) => row \in edges
                      /\ \A g \in Grants : Represented(g)
                      /\ Range(input.serviceEdges) \cup input.rows \subseteq edges
    BY DEF CompleteUnlessFlagged, After
  <2>1. \A i \in DOMAIN input.accounts :
          /\ \A rows \in Range(input.accounts[i].trusts) : Offered(rows, edges)
          /\ \A g \in Range(input.accounts[i].grants) : RepresentedIn(g, edges)
    BY AllHadTheirTurn DEF IInv, Complete
  <2>2. \A g : RepresentedIn(g, edges) <=> Represented(g)
    BY DEF RepresentedIn, Represented
  <2>3. \A row \in TrustRows : IsSignal(row) => row \in edges
    BY <2>1 DEF TrustRows, Offered
  <2>4. \A g \in Grants : Represented(g)
    BY <2>1, <2>2 DEF Grants
  <2> QED
    BY <2>3, <2>4 DEF IInv, Complete
<1> QED
  BY <1>1, Invariance, PTL

(***************************************************************************)
(* No statement of another account, and no resource policy, takes the      *)
(* place of a principal that collection found.                             *)
(***************************************************************************)
THEOREM CollectedStay == Spec => []CollectedStayCollected
<1>1. IInv => CollectedStayCollected
  BY AllHadTheirTurn DEF IInv, Origins, CollectedStayCollected, After
<1> QED
  BY <1>1, Invariance, PTL

(***************************************************************************)
(* Each edge of an emitted scenario that has a condition, of a trust or a  *)
(* resource policy, is bound as unevaluated.                               *)
(***************************************************************************)
THEOREM ConditionsAreKept == Spec => []ConditionsSurvive
<1>1. IInv => ConditionsSurvive
  <2> SUFFICES ASSUME IInv, pc = "emitted", NEW e \in edges, e.conditional,
                      e.layer \in {"trust", "resource_policy"}
               PROVE  Unevaluated(e)
    BY DEF ConditionsSurvive, Unevaluated
  <2>1. CASE e.layer = "trust"
    BY <2>1 DEF IInv, Conditions, After, TrustEdges
  <2>2. CASE e.layer = "resource_policy"
    BY <2>2 DEF IInv, Conditions, After
  <2> QED
    BY <2>1, <2>2
<1> QED
  BY <1>1, Invariance, PTL
=============================================================================
