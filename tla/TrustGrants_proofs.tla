-------------------------- MODULE TrustGrants_proofs --------------------------
(***************************************************************************)
(* Theorems about cross_account_trust, for every set of accounts and       *)
(* names, every policy and every estate: what is validated is granted to   *)
(* somebody outside the account, what is granted is reported, and what the *)
(* run does not know of an organization lowers and raises nothing.         *)
(*                                                                         *)
(* Findings are made in one phase from edges made in another, and nodes in *)
(* between. What is inductive ties all of it to the policies: the results  *)
(* to the statements they came from, the edges and nodes to the results,   *)
(* and the findings to the edges that are done.                            *)
(***************************************************************************)
EXTENDS TrustGrants, Integers, NaturalsInduction, WellFoundedInduction, SequenceTheorems, TLAPS

Outcome(r) ==
  LET s == StatementOf(r)
  IN  /\ r \in Grant
      /\ r.dst \in Role /\ r.dst \in estate.collected
      /\ estate.policyOf[r.dst].readable
      /\ r.statement \in DOMAIN estate.policyOf[r.dst].statements
      /\ s.effect = "Allow" /\ r.action \in s.actions /\ r.flags = Flags(s.tests)
      /\ r.cross <=> CrossAccount(r.src, r.dst.account)
      /\ \E w \in s.principals : Resolve(w) = r.src

Nodes == [p \in {q \in Mentioned : HasNode(q)} |-> MembershipOf(p)]

ToLookAt == {e \in edges : e.grant.action \in TrustActions}

Looked == {e \in ToLookAt : Looks(e) /\ e \notin todo}

Parsing == todo = {} /\ findings = {} /\ membership = <<>>

Reasoning ==
  /\ parsed = Len(estate.order)
  /\ membership = Nodes
  /\ todo \subseteq ToLookAt
  /\ findings = {TrustFinding(e) : e \in Looked}

IInv ==
  /\ estate \in Estates /\ parsed \in 0..Len(estate.order) /\ failures \subseteq Role
  /\ \A r \in results : Outcome(r)
  /\ \A k \in 1..parsed : Results(estate.order[k], estate.policyOf[estate.order[k]]) \subseteq results
  /\ edges = {TrustEdge(r) : r \in {s \in results : Signal(s)}}
  /\ aborted = FALSE
  /\ \/ phase = "parse" /\ Parsing
     \/ phase = "reason" /\ Reasoning

-----------------------------------------------------------------------------
(***************************************************************************)
(* Principals and classes.                                                 *)
(***************************************************************************)

\* A written principal resolves to a principal; a wildcard to a wildcard.
LEMMA Resolved ==
  ASSUME TrustAccounts, NEW w \in Written
  PROVE  /\ Resolve(w) \in Principal
         /\ Resolve(w).type = TypeOfForm(w.form) /\ Resolve(w).account = w.account
         /\ Resolve(w).type = "wildcard" <=> w.form = "*"
<1>1. w.form \in Forms /\ w.account \in Accounts \cup {NoAccount} /\ w.name \in Names
  BY DEF Written
<1>2. TypeOfForm(w.form) \in PrincipalType
  BY <1>1 DEF Forms, AwsForms, TypeOfForm, PrincipalType
<1>3. TypeOfForm(w.form) = "wildcard" <=> w.form = "*"
  BY <1>1 DEF Forms, AwsForms, TypeOfForm
<1>4. NoName \in Names
  BY DEF TrustAccounts
<1> QED
  BY <1>1, <1>2, <1>3, <1>4 DEF Resolve, Principal

\* The parser's notion of crossing accounts, over types and scopes, is the
\* one of the written forms.
LEMMA CrossIsForeign ==
  ASSUME TrustAccounts, NEW w \in Written, NEW home
  PROVE  CrossAccount(Resolve(w), home) <=> Foreign(w, home)
<1>1. w.form \in Forms
  BY DEF Written
<1>2. Resolve(w).type = TypeOfForm(w.form) /\ Resolve(w).account = w.account
  BY Resolved
<1>3. ScopeOf(TypeOfForm(w.form)) = "any_aws_principal" <=> w.form = "*"
  BY <1>1 DEF Forms, AwsForms, TypeOfForm, ScopeOf
<1>4. ScopeOf(TypeOfForm(w.form)) \notin {"any_aws_principal", "service", "federated"} <=>
        w.form \in AwsForms \ {"*", "saml"}
  BY <1>1 DEF Forms, AwsForms, TypeOfForm, ScopeOf
<1> QED
  BY <1>2, <1>3, <1>4 DEF CrossAccount, Foreign

\* How a grant that crosses accounts is classified.
LEMMA Classified ==
  ASSUME NEW r, r.cross, NEW home, CrossAccount(r.src, home), r.src.type \in PrincipalType
  PROVE  LET n == Classify(r)
         IN  /\ n \in Naked
             /\ n = "CRITICAL_NAKED" => r.src.type = "wildcard" /\ r.flags = {}
             /\ n \in {"BROAD_NAKED", "NARROW_NAKED"} /\ r.flags \cap StrongKeys # {} => r.src.type = "wildcard"
             /\ r.flags = {} => n \notin {"INTRA_ACCOUNT", "CONDITIONED"}
<1>1. r.src.type # "oidc"
  BY DEF CrossAccount, ScopeOf
<1>2. Classify(r) = ClassifyForeign(ScopeOf(r.src.type), r.flags)
  BY <1>1 DEF Classify
<1>3. ScopeOf(r.src.type) = "any_aws_principal" <=> r.src.type = "wildcard"
  BY DEF ScopeOf, PrincipalType
<1>4. r.flags = {} => ~ Strong(r.flags)
  BY DEF Strong
<1>5. r.flags \cap StrongKeys # {} => Strong(r.flags) /\ r.flags # {}
  BY DEF Strong
<1> QED
  BY <1>2, <1>3, <1>4, <1>5 DEF ClassifyForeign, Naked

-----------------------------------------------------------------------------
(***************************************************************************)
(* What is inductive.                                                      *)
(***************************************************************************)

\* The parts of an estate, one by one.
LEMMA EstateParts ==
  ASSUME CollectedRoles, estate \in Estates
  PROVE  /\ estate.order \in Seq(Role) /\ estate.policyOf \in [Role -> Policy]
         /\ estate.collected \subseteq Principal /\ estate.known \subseteq Accounts
         /\ estate.complete \in BOOLEAN
         /\ estate.named \in Seq([principal : Principal, by : Accounts])
         /\ estate.scp \subseteq Binding /\ estate.probes \subseteq ProbeRecord
         /\ \A i \in DOMAIN estate.order : estate.order[i] \in Role /\ estate.order[i] \in estate.collected
         /\ \A p \in estate.collected : p.type \in {"role", "user"} /\ p.account \in estate.known
         /\ \A i \in DOMAIN estate.named : estate.named[i].principal \in Principal /\ estate.named[i].by \in estate.known
<1>1. estate \in Estate
  BY DEF CollectedRoles
<1>2. /\ estate.order \in Seq(Role) /\ estate.policyOf \in [Role -> Policy]
      /\ estate.collected \subseteq Principal /\ estate.known \subseteq Accounts
      /\ estate.complete \in BOOLEAN
      /\ estate.named \in Seq([principal : Principal, by : Accounts])
      /\ estate.scp \subseteq Binding /\ estate.probes \subseteq ProbeRecord
  BY <1>1 DEF Estate
<1>3. \A i \in DOMAIN estate.order : estate.order[i] \in Role
  BY <1>2
<1>4. \A i \in DOMAIN estate.named : estate.named[i] \in [principal : Principal, by : Accounts]
  <2> DEFINE Naming == [principal : Principal, by : Accounts]
  <2>1. estate.named \in Seq(Naming)
    BY <1>2
  <2> HIDE DEF Naming
  <2>2. \A i \in DOMAIN estate.named : estate.named[i] \in Naming
    BY <2>1
  <2> QED
    BY <2>2 DEF Naming
<1>5. \A i \in DOMAIN estate.named : estate.named[i].principal \in Principal
  BY <1>4
<1> QED
  BY <1>2, <1>3, <1>5 DEF CollectedRoles

\* Every result of the parser comes from an Allow statement of its role.
LEMMA ResultOutcome ==
  ASSUME TrustAccounts, CollectedRoles, estate \in Estates,
         NEW k \in DOMAIN estate.order,
         NEW r \in Results(estate.order[k], estate.policyOf[estate.order[k]])
  PROVE  Outcome(r)
<1> DEFINE role == estate.order[k]
           policy == estate.policyOf[role]
<1>1. role \in Role /\ role \in estate.collected /\ estate.policyOf \in [Role -> Policy]
  BY EstateParts
<1>2. policy \in Policy
  BY <1>1
<1>3. policy.readable /\ policy.statements \in Seq(Statement)
  BY <1>2 DEF Results, Policy
<1>4. PICK i \in DOMAIN policy.statements :
        policy.statements[i].effect = "Allow" /\ r \in StatementResults(role, i, policy.statements[i])
  BY <1>3 DEF Results
<1> DEFINE s == policy.statements[i]
<1>5. s \in Statement /\ i \in Nat
  BY <1>3, <1>4
<1>6. s.principals \subseteq Written /\ s.actions \subseteq TrustActions \cup {"sts:*", "sts:TagSession"}
      /\ s.sub \in {"none", "star", "pattern"}
  BY <1>5 DEF Statement
<1>7. PICK w \in s.principals, a \in s.actions :
        r = [statement |-> i, src |-> Resolve(w), dst |-> role, action |-> a,
             cross |-> CrossAccount(Resolve(w), role.account), flags |-> Flags(s.tests),
             conditional |-> s.tests # {} \/ s.sub # "none",
             sub |-> IF Resolve(w).type = "oidc" THEN s.sub ELSE "none"]
  BY <1>4 DEF StatementResults
<1>8. Resolve(w) \in Principal
  BY <1>6, Resolved
<1>9. Flags(s.tests) \subseteq MeaningfulKeys
  BY DEF Flags
<1>10. CrossAccount(Resolve(w), role.account) \in BOOLEAN
  BY DEF CrossAccount
<1>11. role \in Principal
  BY <1>1 DEF Role
<1> DEFINE crosses == CrossAccount(Resolve(w), role.account)
           tested == s.tests # {} \/ s.sub # "none"
<1>12. crosses \in BOOLEAN /\ tested \in BOOLEAN
  BY <1>10
<1>13. r.statement = i /\ r.src = Resolve(w) /\ r.dst = role /\ r.action = a /\ r.flags = Flags(s.tests)
       /\ (r.cross <=> CrossAccount(r.src, role.account))
  BY <1>7
<1>14. r \in Grant
  <2>1. r = [statement |-> i, src |-> Resolve(w), dst |-> role, action |-> a,
             cross |-> crosses, flags |-> Flags(s.tests), conditional |-> tested,
             sub |-> IF Resolve(w).type = "oidc" THEN s.sub ELSE "none"]
    BY <1>7
  <2> HIDE DEF crosses, tested, role, s
  <2> QED
    BY <1>5, <1>6, <1>8, <1>9, <1>11, <1>12, <2>1 DEF Grant
<1>15. StatementOf(r) = s
  BY <1>13 DEF StatementOf
<1>16. /\ r.dst \in Role /\ r.dst \in estate.collected
       /\ estate.policyOf[r.dst].readable
       /\ r.statement \in DOMAIN estate.policyOf[r.dst].statements
  BY <1>1, <1>3, <1>4, <1>13
<1>17. s.effect = "Allow" /\ r.action \in s.actions /\ (\E v \in s.principals : Resolve(v) = r.src)
  BY <1>4, <1>7, <1>13
<1> HIDE DEF s, role, policy, crosses, tested
<1>18. r.cross <=> CrossAccount(r.src, r.dst.account)
  BY <1>13
<1> QED
  BY <1>13, <1>14, <1>15, <1>16, <1>17, <1>18 DEF Outcome

LEMMA Initially == ASSUME CollectedRoles, Init PROVE IInv
<1>1. estate.order \in Seq(Role)
  BY EstateParts DEF Init
<1>2. parsed \in 0..Len(estate.order)
  BY <1>1 DEF Init
<1> QED
  BY <1>2 DEF Init, IInv, Parsing

LEMMA ParsePolicyKeeps ==
  ASSUME TrustAccounts, CollectedRoles, IInv, ParsePolicy
  PROVE  IInv'
<1> DEFINE role == estate.order[parsed + 1]
           new  == Results(role, estate.policyOf[role])
<1>1. /\ phase = "parse" /\ parsed < Len(estate.order)
      /\ results' = results \cup new
      /\ edges' = edges \cup {TrustEdge(r) : r \in {s \in new : Signal(s)}}
      /\ failures' = IF estate.policyOf[role].readable THEN failures ELSE failures \cup {role}
      /\ parsed' = parsed + 1 /\ estate' = estate /\ membership' = membership /\ phase' = phase
      /\ todo' = todo /\ findings' = findings /\ aborted' = aborted
  BY DEF ParsePolicy
<1>2. /\ estate \in Estates /\ parsed \in 0..Len(estate.order) /\ failures \subseteq Role
      /\ \A r \in results : Outcome(r)
      /\ edges = {TrustEdge(r) : r \in {s \in results : Signal(s)}}
      /\ aborted = FALSE /\ Parsing
  BY <1>1 DEF IInv
<1>3. estate.order \in Seq(Role) /\ \A i \in DOMAIN estate.order : estate.order[i] \in Role
  BY <1>2, EstateParts
<1>4. parsed + 1 \in DOMAIN estate.order /\ parsed + 1 \in 0..Len(estate.order)
  BY <1>1, <1>2, <1>3
<1>5. role \in Role
  BY <1>3, <1>4
<1>6. \A r \in new : Outcome(r)
  BY <1>2, <1>4, ResultOutcome
<1>7. \A r : Outcome(r)' <=> Outcome(r)
  BY <1>1 DEF Outcome, StatementOf
<1>8. (\A r \in results : Outcome(r))'
  BY <1>1, <1>2, <1>6, <1>7
<1>9. (\A k \in 1..parsed : Results(estate.order[k], estate.policyOf[estate.order[k]]) \subseteq results)'
  <2> SUFFICES ASSUME NEW k \in 1..(parsed + 1)
               PROVE  Results(estate.order[k], estate.policyOf[estate.order[k]]) \subseteq results \cup new
    BY <1>1
  <2>1. CASE k = parsed + 1
    BY <2>1
  <2>2. CASE k # parsed + 1
    <3>1. k \in 1..parsed
      BY <1>2, <2>2
    <3> QED
      BY <3>1 DEF IInv
  <2> QED
    BY <2>1, <2>2
<1>10. \A r : Signal(r)' <=> Signal(r)
  BY <1>1 DEF Signal, Unfiltered
<1>11. edges' = {TrustEdge(r) : r \in {s \in results' : Signal(s)}}
  <2>1. results' = results \cup new
    BY <1>1
  <2> HIDE DEF new
  <2> QED
    BY <1>1, <1>2, <2>1
<1>12. (edges = {TrustEdge(r) : r \in {s \in results : Signal(s)}})'
  BY <1>10, <1>11 DEF TrustEdge
<1>13. failures' \subseteq Role
  BY <1>1, <1>2, <1>5
<1>14. Parsing'
  BY <1>1, <1>2 DEF Parsing
<1> HIDE DEF new, role
<1> QED
  BY <1>1, <1>2, <1>4, <1>8, <1>9, <1>12, <1>13, <1>14 DEF IInv

LEMMA ResolveNodesKeeps ==
  ASSUME IInv, ResolveNodes
  PROVE  IInv'
<1>1. /\ phase = "parse" /\ parsed = Len(estate.order)
      /\ membership' = Nodes /\ phase' = "reason" /\ todo' = ToLookAt
      /\ estate' = estate /\ parsed' = parsed /\ failures' = failures /\ results' = results
      /\ edges' = edges /\ findings' = findings /\ aborted' = aborted
  BY DEF ResolveNodes, Nodes, ToLookAt
<1>2. findings = {}
  BY <1>1 DEF IInv, Parsing
<1>3. Nodes' = Nodes
  BY <1>1 DEF Nodes, Mentioned, HasNode, MembershipOf, Synthetic, SyntheticMembership, NamedBy, NamedMembership
<1>4. ToLookAt' = ToLookAt
  BY <1>1 DEF ToLookAt
<1>5. Looked' = {}
  BY <1>1, <1>4 DEF Looked
<1>6. {TrustFinding(e) : e \in Looked}' = {}
  BY <1>5
<1>7. Reasoning'
  BY <1>1, <1>2, <1>3, <1>4, <1>6 DEF Reasoning
<1>8. \A r : (Outcome(r)' <=> Outcome(r)) /\ (Signal(r)' <=> Signal(r))
  BY <1>1 DEF Outcome, StatementOf, Signal, Unfiltered
<1>9. (edges = {TrustEdge(r) : r \in {s \in results : Signal(s)}})'
  BY <1>1, <1>8 DEF IInv, TrustEdge
<1> QED
  BY <1>1, <1>7, <1>8, <1>9 DEF IInv

\* Nothing but the edges to look at, the findings and the alarm moves while
\* the reasoner runs.
Still ==
  UNCHANGED <<estate, parsed, failures, results, edges, membership, phase>>

LEMMA StillKeeps ==
  ASSUME Still
  PROVE  /\ Nodes' = Nodes /\ ToLookAt' = ToLookAt
         /\ \A e : TrustFinding(e)' = TrustFinding(e) /\ (Looks(e)' <=> Looks(e))
         /\ \A r : (Outcome(r)' <=> Outcome(r)) /\ (Signal(r)' <=> Signal(r))
<1>1. estate' = estate /\ results' = results /\ edges' = edges /\ membership' = membership
  BY DEF Still
<1>2. Nodes' = Nodes /\ ToLookAt' = ToLookAt
  BY <1>1 DEF Nodes, Mentioned, HasNode, MembershipOf, Synthetic, SyntheticMembership, NamedBy,
       NamedMembership, ToLookAt
<1>3. \A r : (Outcome(r)' <=> Outcome(r)) /\ (Signal(r)' <=> Signal(r))
  BY <1>1 DEF Outcome, StatementOf, Signal, Unfiltered
<1>4. \A e : TrustFinding(e)' = TrustFinding(e)
  <2>1. \A p : SourceMembership(p)' = SourceMembership(p) /\ ResolvableCheck(p)' = ResolvableCheck(p)
    BY <1>1 DEF SourceMembership, RootNodes, ResolvableCheck
  <2> QED
    BY <1>1, <2>1 DEF TrustFinding
<1>5. \A e : Looks(e)' <=> Looks(e)
  BY DEF Looks
<1> QED
  BY <1>2, <1>3, <1>4, <1>5

LEMMA ReasonKeeps ==
  ASSUME IInv, Still, phase = "reason", aborted' = FALSE, todo' \subseteq todo,
         findings' = {TrustFinding(e) : e \in {d \in ToLookAt : Looks(d) /\ d \notin todo'}}
  PROVE  IInv'
<1>1. /\ estate' = estate /\ parsed' = parsed /\ failures' = failures /\ results' = results
      /\ edges' = edges /\ membership' = membership /\ phase' = phase
  BY DEF Still
<1>2. Reasoning
  BY DEF IInv
<1>3. Looked' = {d \in ToLookAt : Looks(d) /\ d \notin todo'}
  BY StillKeeps DEF Looked
<1>4. findings' = {TrustFinding(e) : e \in Looked'}
  BY <1>3
<1>5. (findings = {TrustFinding(e) : e \in Looked})'
  BY <1>4, StillKeeps
<1>6. Reasoning'
  BY <1>1, <1>2, <1>5, StillKeeps DEF Reasoning
<1>7. (edges = {TrustEdge(r) : r \in {s \in results : Signal(s)}})'
  BY <1>1, StillKeeps DEF IInv, TrustEdge
<1>8. (\A r \in results : Outcome(r))'
  BY <1>1, StillKeeps DEF IInv
<1>9. phase' = "reason" /\ (estate \in Estates)' /\ (parsed \in 0..Len(estate.order))' /\ (failures \subseteq Role)'
  BY <1>1 DEF IInv
<1>10. (\A k \in 1..parsed : Results(estate.order[k], estate.policyOf[estate.order[k]]) \subseteq results)'
  BY <1>1 DEF IInv
<1> QED
  BY <1>6, <1>7, <1>8, <1>9, <1>10 DEF IInv

LEMMA SkipKeeps ==
  ASSUME IInv, NEW e \in todo, Skip(e)
  PROVE  IInv'
<1>1. phase = "reason" /\ ~ Looks(e) /\ todo' = todo \ {e} /\ findings' = findings /\ aborted' = aborted /\ Still
  BY DEF Skip, Still
<1>2. aborted = FALSE /\ Reasoning
  BY <1>1 DEF IInv
<1>3. findings = {TrustFinding(d) : d \in {c \in ToLookAt : Looks(c) /\ c \notin todo'}}
  BY <1>1, <1>2 DEF Reasoning, Looked
<1> QED
  BY <1>1, <1>2, <1>3, ReasonKeeps

-----------------------------------------------------------------------------
(***************************************************************************)
(* What nodes say of the organization.                                     *)
(***************************************************************************)

\* Every principal the run mentions is one, and the collected ones are of
\* accounts it knows.
LEMMA Mentions ==
  ASSUME CollectedRoles, IInv
  PROVE  \A p \in Mentioned : p \in Principal
<1>1. estate \in Estates /\ \A r \in results : Outcome(r)
  BY DEF IInv
<1>2. \A r \in results : r.src \in Principal
  BY <1>1 DEF Outcome, Grant
<1> QED
  BY <1>1, <1>2, EstateParts DEF Mentioned

\* A set of numbers that is not empty has a least element.
LEMMA Least ==
  ASSUME NEW S \in SUBSET Nat, S # {}
  PROVE  \E i \in S : \A j \in S : i <= j
<1> DEFINE Below == {ss \in Nat \X Nat : ss[1] < ss[2]}
<1>1. IsWellFoundedOn(Below, Nat)
  BY NatLessThanWellFounded DEF OpToRel
<1> HIDE DEF Below
<1>2. PICK x \in S : \A y \in S : ~ (<<y, x>> \in Below)
  BY <1>1, WFMin, Zenon
<1>3. \A y \in S : ~ (y < x)
  BY <1>2 DEF Below
<1> QED
  BY <1>3

\* The first mention in the resource policies is one of them.
LEMMA FirstNamed ==
  ASSUME CollectedRoles, estate \in Estates, NEW p, NamedBy(p) # {}
  PROVE  LET first == CHOOSE i \in NamedBy(p) : \A j \in NamedBy(p) : i <= j
         IN  first \in DOMAIN estate.named /\ estate.named[first].principal = p
<1>1. estate.named \in Seq([principal : Principal, by : Accounts])
  BY EstateParts
<1>2. DOMAIN estate.named \subseteq Nat
  <2>1. DOMAIN estate.named = 1..Len(estate.named) /\ Len(estate.named) \in Nat
    BY <1>1
  <2> QED
    BY <2>1
<1>3. NamedBy(p) \subseteq Nat /\ NamedBy(p) \subseteq DOMAIN estate.named
  BY <1>2 DEF NamedBy
<1>4. \E i \in NamedBy(p) : \A j \in NamedBy(p) : i <= j
  BY <1>3, Least
<1> QED
  BY <1>3, <1>4 DEF NamedBy

\* A node never makes a member of an account the run does not know; and in a
\* partial collection without resource policies nothing is said of one.
LEMMA NodeSays ==
  ASSUME TrustAccounts, CollectedRoles, IInv, NEW p \in DOMAIN Nodes
  PROVE  /\ Nodes[p] \in Membership
         /\ Nodes[p] = "member" => p.account \in estate.known
         /\ (/\ ~ estate.complete /\ estate.named = <<>>
             /\ p.type # "wildcard" /\ p.account \notin estate.known) => Nodes[p] \in {"unsaid", "unknown"}
<1>1. p \in Mentioned /\ HasNode(p) /\ Nodes[p] = MembershipOf(p)
  BY DEF Nodes
<1>2. estate \in Estates /\ p \in Principal
  BY <1>1, Mentions DEF IInv
<1>3. p.type \in PrincipalType
  BY <1>2 DEF Principal
<1>4. CASE p \in estate.collected
  <2>1. MembershipOf(p) = "unsaid"
    BY <1>4 DEF MembershipOf
  <2> QED
    BY <1>1, <2>1 DEF Membership
<1>5. CASE p \notin estate.collected /\ Synthetic(p)
  <2>1. MembershipOf(p) = SyntheticMembership(p)
    BY <1>5 DEF MembershipOf
  <2>2. SyntheticMembership(p) \in Membership
    BY DEF SyntheticMembership, Membership
  <2>3. SyntheticMembership(p) = "member" => p.account \in estate.known
    BY DEF SyntheticMembership
  <2>4. SyntheticMembership(p) = "non_member" => p.type = "wildcard" \/ (p.account \notin estate.known /\ estate.complete)
    BY DEF SyntheticMembership
  <2> QED
    BY <1>1, <2>1, <2>2, <2>3, <2>4 DEF Membership
<1>6. CASE p \notin estate.collected /\ ~ Synthetic(p)
  <2>1. NamedBy(p) # {} /\ MembershipOf(p) = NamedMembership(p)
    BY <1>1, <1>6 DEF HasNode, MembershipOf
  <2> DEFINE first == CHOOSE i \in NamedBy(p) : \A j \in NamedBy(p) : i <= j
  <2>2. first \in DOMAIN estate.named
    BY <1>2, <2>1, FirstNamed
  <2>3. estate.named[first].by \in estate.known
    BY <1>2, <2>2, EstateParts
  <2>4. estate.named # <<>>
    BY <2>2
  <2>5. NamedMembership(p) \in {"unsaid", "member", "non_member"}
        /\ (NamedMembership(p) = "member" => p.account = estate.named[first].by)
    BY DEF NamedMembership
  <2> HIDE DEF first
  <2> QED
    BY <1>1, <2>1, <2>3, <2>4, <2>5 DEF Membership
<1> QED
  BY <1>4, <1>5, <1>6

\* What the reasoner makes of it.
LEMMA SourceSays ==
  ASSUME TrustAccounts, CollectedRoles, IInv, phase = "reason", NEW p
  PROVE  /\ SourceMembership(p) \in Membership \ {"unsaid"}
         /\ SourceMembership(p) = "member" => p.account \in estate.known
         /\ (/\ ~ estate.complete /\ estate.named = <<>>
             /\ p.type # "wildcard" /\ p.account \notin estate.known) => SourceMembership(p) = "unknown"
<1>1. membership = Nodes
  BY DEF IInv, Reasoning
<1>2. \A q \in DOMAIN membership :
        /\ membership[q] \in Membership
        /\ membership[q] = "member" => q.account \in estate.known
        /\ (/\ ~ estate.complete /\ estate.named = <<>>
            /\ q.type # "wildcard" /\ q.account \notin estate.known) => membership[q] \in {"unsaid", "unknown"}
  BY <1>1, NodeSays
<1>3. CASE p \notin DOMAIN membership
  <2>1. SourceMembership(p) = "unknown"
    BY <1>3 DEF SourceMembership
  <2> QED
    BY <2>1 DEF Membership
<1>4. CASE p \in DOMAIN membership /\ membership[p] # "unsaid"
  <2>1. SourceMembership(p) = membership[p]
    BY <1>4 DEF SourceMembership
  <2> QED
    BY <1>2, <1>4, <2>1
<1>5. CASE p \in DOMAIN membership /\ membership[p] = "unsaid" /\ \E q \in RootNodes(p.account) : membership[q] # "unsaid"
  <2>1. PICK q \in RootNodes(p.account) : membership[q] # "unsaid" /\ SourceMembership(p) = membership[q]
    BY <1>5 DEF SourceMembership
  <2>2. q \in DOMAIN membership /\ q.type = "root" /\ q.account = p.account
    BY DEF RootNodes
  <2> QED
    BY <1>2, <2>1, <2>2
<1>6. CASE p \in DOMAIN membership /\ membership[p] = "unsaid" /\ ~ \E q \in RootNodes(p.account) : membership[q] # "unsaid"
  <2>1. SourceMembership(p) = "unknown"
    BY <1>6 DEF SourceMembership
  <2> QED
    BY <2>1 DEF Membership
<1> QED
  BY <1>3, <1>4, <1>5, <1>6

-----------------------------------------------------------------------------
(***************************************************************************)
(* What a finding is.                                                      *)
(***************************************************************************)

\* The edges the reasoner looks at: their grant, their class and their nodes.
LEMMA EdgeSays ==
  ASSUME TrustAccounts, CollectedRoles, IInv, phase = "reason", NEW e \in ToLookAt, Looks(e)
  PROVE  LET r == e.grant
             n == e.naked
         IN  /\ e = TrustEdge(r) /\ r \in results /\ Signal(r) /\ Outcome(r) /\ r.cross /\ r.action \in TrustActions
             /\ CrossAccount(r.src, r.dst.account)
             /\ n \in Naked /\ n \notin {"INTRA_ACCOUNT", "CONDITIONED"}
             /\ n = "CRITICAL_NAKED" => r.src.type = "wildcard" /\ r.flags = {}
             /\ n \in {"BROAD_NAKED", "NARROW_NAKED"} /\ r.flags \cap StrongKeys # {} => r.src.type = "wildcard"
             /\ r.src \in DOMAIN membership /\ r.dst \in DOMAIN membership
<1>1. e \in edges /\ e.grant.action \in TrustActions
  BY DEF ToLookAt
<1>2. PICK r \in results : Signal(r) /\ e = TrustEdge(r)
  BY <1>1 DEF IInv
<1>3. e.grant = r /\ e.naked = Classify(r)
  BY <1>2 DEF TrustEdge
<1>4. Outcome(r) /\ membership = Nodes
  BY <1>2 DEF IInv, Reasoning
<1>5. r.cross /\ e.naked \notin {"INTRA_ACCOUNT", "CONDITIONED"}
  BY <1>3 DEF Looks
<1>6. CrossAccount(r.src, r.dst.account)
  BY <1>4, <1>5 DEF Outcome
<1>7. r.src.type \in PrincipalType
  BY <1>4 DEF Outcome, Grant, Principal
<1>8. LET n == Classify(r)
      IN  /\ n \in Naked
          /\ n = "CRITICAL_NAKED" => r.src.type = "wildcard" /\ r.flags = {}
          /\ n \in {"BROAD_NAKED", "NARROW_NAKED"} /\ r.flags \cap StrongKeys # {} => r.src.type = "wildcard"
  BY <1>5, <1>6, <1>7, Classified
<1>9. r.src \in Mentioned /\ Synthetic(r.src)
  BY <1>2, <1>5 DEF Mentioned, Synthetic
<1>10. r.dst \in Mentioned /\ r.dst \in estate.collected
  BY <1>4 DEF Mentioned, Outcome
<1>11. r.src \in DOMAIN membership /\ r.dst \in DOMAIN membership
  BY <1>4, <1>9, <1>10 DEF Nodes, HasNode
<1> HIDE DEF IInv
<1> QED
  BY <1>1, <1>2, <1>3, <1>4, <1>5, <1>6, <1>8, <1>11

\* The assessment of probe records: it fails, blocks and overrides together,
\* and what it leaves open it does not validate.
LEMMA Assessed ==
  ASSUME NEW seen
  PROVE  LET a == AssessProbeOverlay(seen)
         IN  /\ a.override \in {"none", "BLOCKED", "INCONCLUSIVE"}
             /\ a.check \in CheckState \cup {"none"}
             /\ a.check = "FAIL" <=> a.override = "BLOCKED"
             /\ a.check = "UNKNOWN" <=> a.override = "INCONCLUSIVE"
             /\ a.blocker <=> a.override = "BLOCKED"
             /\ a.override = "BLOCKED" <=> \E r \in seen : r.state = "probed_correlated_denied"
             /\ seen = {} => a.check = "none"
<1> DEFINE live == {r \in seen : r.state \in LiveProbeState}
           is(state) == \E r \in live : r.state = state
           tainted == \E r \in live : r.state = "probed_correlated_allowed" /\ r.confounded
           a == AssessProbeOverlay(seen)
<1>1. is("probed_correlated_denied") <=> \E r \in seen : r.state = "probed_correlated_denied"
  BY DEF LiveProbeState
<1>2. CASE live = {}
  <2>1. a.check = "none" /\ a.blocker = FALSE /\ a.override = "none"
    BY <1>2 DEF AssessProbeOverlay, Assessment
  <2>3. a.check \in CheckState \cup {"none"}
    BY <2>1 DEF CheckState
  <2> QED
    BY <1>1, <1>2, <2>1, <2>3, Zenon
<1>3. CASE live # {} /\ is("probed_correlated_denied")
  <2>1. a.check = "FAIL" /\ a.blocker = TRUE /\ a.override = "BLOCKED"
    BY <1>3 DEF AssessProbeOverlay, Assessment
  <2>2. seen # {}
    BY <1>3
  <2>3. a.check \in CheckState \cup {"none"}
    BY <2>1 DEF CheckState
  <2> QED
    BY <1>1, <1>3, <2>1, <2>2, <2>3, Zenon
<1>4. CASE /\ live # {} /\ ~ is("probed_correlated_denied")
           /\ is("confounded_skip") \/ is("probed_correlated_disagreement") \/ tainted
  <2>1. a.check = "UNKNOWN" /\ a.blocker = FALSE /\ a.override = "INCONCLUSIVE"
    BY <1>4 DEF AssessProbeOverlay, Assessment
  <2>2. seen # {}
    BY <1>4
  <2>3. a.check \in CheckState \cup {"none"}
    BY <2>1 DEF CheckState
  <2> QED
    BY <1>1, <1>4, <2>1, <2>2, <2>3, Zenon
<1>5. CASE /\ live # {} /\ ~ is("probed_correlated_denied")
           /\ ~ (is("confounded_skip") \/ is("probed_correlated_disagreement") \/ tainted)
  <2>1. a.check = "PASS" /\ a.blocker = FALSE /\ a.override = "none"
    BY <1>5 DEF AssessProbeOverlay, Assessment
  <2>2. seen # {}
    BY <1>5
  <2>3. a.check \in CheckState \cup {"none"}
    BY <2>1 DEF CheckState
  <2> QED
    BY <1>1, <1>5, <2>1, <2>2, <2>3, Zenon
<1> QED
  BY <1>2, <1>3, <1>4, <1>5

\* The reasoner's verdict, from what the checks say.
LEMMA Judged ==
  ASSUME NEW scp \in CheckState, NEW consistent \in {"PASS", "FAIL"}, NEW member
  PROVE  LET v == TrustVerdict(scp, consistent, "PASS", member)
         IN  /\ v \in {"BLOCKED", "INCONCLUSIVE", "VALIDATED"}
             /\ v = "BLOCKED" <=> scp = "FAIL"
             /\ v = "VALIDATED" <=> scp = "PASS" /\ consistent = "PASS" /\ member # "unknown"
  BY DEF TrustVerdict, CheckState

LEMMA Severities ==
  ASSUME NEW v \in {"BLOCKED", "INCONCLUSIVE", "VALIDATED"}, NEW naked \in Naked, NEW member
  PROVE  LET s == TrustSeverity(v, naked, member)
         IN  /\ s \in {"critical", "high", "medium", "low", "info"}
             /\ s = "critical" => naked = "CRITICAL_NAKED"
             /\ v = "VALIDATED" => s = BaseSeverity(naked) \/ member = "member"
             /\ v = "VALIDATED" /\ member # "member" => s = BaseSeverity(naked)
  BY DEF TrustSeverity, BaseSeverity, Downgraded, Naked

\* A finding of an edge that is looked at: it has its type, the constructor
\* accepts it, and each of its parts says what it is read for.
LEMMA FindingSays ==
  ASSUME TrustAccounts, CollectedRoles, IInv, phase = "reason", NEW e \in ToLookAt, Looks(e)
  PROVE  LET f == TrustFinding(e)
             r == e.grant
         IN  /\ f \in Finding /\ FindingAccepted(f)
             /\ f.grant = r /\ f.naked = e.naked
             /\ f.inconsistent => r.src.type = "wildcard" /\ r.flags \cap StrongKeys # {}
             /\ "FAIL" \in f.checks => f.inconsistent \/ f.blockers # {}
             /\ f.member = SourceMembership(r.src)
             /\ f.verdict = "VALIDATED" =>
                  /\ BlockerState(estate.scp) = "PASS" /\ ~ LiveDenial
                  /\ ConsistencyCheck(e.naked, r.flags) = "PASS" /\ f.member # "unknown"
                  /\ f.severity = "critical" => e.naked = "CRITICAL_NAKED"
                  /\ f.severity = BaseSeverity(e.naked) \/ f.member = "member"
             /\ (/\ estate.scp = {} /\ estate.probes = {} /\ ConsistencyCheck(e.naked, r.flags) = "PASS"
                 /\ f.member = "non_member")
                => f.verdict = "VALIDATED" /\ f.severity = BaseSeverity(e.naked)
<1> DEFINE f          == TrustFinding(e)
           r          == e.grant
           member     == SourceMembership(r.src)
           scp        == BlockerState(estate.scp)
           consistent == ConsistencyCheck(e.naked, r.flags)
           overlay    == AssessProbeOverlay(estate.probes)
           declared   == TrustVerdict(scp, consistent, "PASS", member)
           overridden == overlay.override # "none"
           odd        == consistent = "FAIL"
           verdict    == IF overridden THEN overlay.override ELSE declared
           severity   == IF overridden THEN OverlaySeverity(overlay.override)
                         ELSE TrustSeverity(declared, e.naked, member)
           checks     == {"PASS", "PASS", scp, consistent, "PASS"} \cup ({overlay.check} \ {"none"})
           blockers   == (IF scp = "FAIL" THEN {"scp"} ELSE {}) \cup (IF overlay.blocker THEN {"probe"} ELSE {})
<1>1. /\ e.naked \in Naked /\ e.naked \notin {"INTRA_ACCOUNT", "CONDITIONED"} /\ r \in Grant
      /\ e.naked = "CRITICAL_NAKED" => r.src.type = "wildcard" /\ r.flags = {}
      /\ e.naked \in {"BROAD_NAKED", "NARROW_NAKED"} /\ r.flags \cap StrongKeys # {} => r.src.type = "wildcard"
      /\ r.src \in DOMAIN membership /\ r.dst \in DOMAIN membership
  BY EdgeSays DEF Outcome
<1>2. ResolvableCheck(r.src) = "PASS" /\ ResolvableCheck(r.dst) = "PASS"
  BY <1>1 DEF ResolvableCheck
<1>3. f = [grant |-> r, naked |-> e.naked, member |-> member, verdict |-> verdict, severity |-> severity,
           checks |-> checks, inconsistent |-> odd, blockers |-> blockers]
  BY <1>2 DEF TrustFinding
<1>4. scp \in CheckState
  BY DEF BlockerState, CheckState
<1>5. consistent \in {"PASS", "FAIL"} /\ (consistent = "FAIL" => r.src.type = "wildcard" /\ r.flags \cap StrongKeys # {})
  <2>1. consistent = "FAIL" => \/ e.naked = "CRITICAL_NAKED" /\ r.flags # {}
                               \/ e.naked \in {"BROAD_NAKED", "NARROW_NAKED"} /\ r.flags \cap StrongKeys # {}
    BY DEF ConsistencyCheck
  <2>2. consistent \in {"PASS", "FAIL"}
    BY DEF ConsistencyCheck
  <2> HIDE DEF consistent
  <2> QED
    BY <1>1, <2>1, <2>2
<1>6. /\ overlay.override \in {"none", "BLOCKED", "INCONCLUSIVE"}
      /\ overlay.check \in CheckState \cup {"none"}
      /\ overlay.check = "FAIL" <=> overlay.override = "BLOCKED"
      /\ overlay.check = "UNKNOWN" <=> overlay.override = "INCONCLUSIVE"
      /\ overlay.blocker <=> overlay.override = "BLOCKED"
      /\ overlay.override = "BLOCKED" <=> LiveDenial
      /\ estate.probes = {} => overlay.check = "none"
  BY Assessed DEF LiveDenial
<1> DEFINE stopped == overlay.blocker
<1>7. stopped <=> overlay.override = "BLOCKED"
  BY <1>6
<1> HIDE DEF scp, consistent, overlay, member
<1>8. /\ declared \in {"BLOCKED", "INCONCLUSIVE", "VALIDATED"}
      /\ declared = "BLOCKED" <=> scp = "FAIL"
      /\ declared = "VALIDATED" <=> scp = "PASS" /\ consistent = "PASS" /\ member # "unknown"
  BY <1>4, <1>5, Judged
<1> HIDE DEF declared
<1> DEFINE plain == TrustSeverity(declared, e.naked, member)
<1>9. /\ plain \in {"critical", "high", "medium", "low", "info"}
      /\ plain = "critical" => e.naked = "CRITICAL_NAKED"
      /\ declared = "VALIDATED" => plain = BaseSeverity(e.naked) \/ member = "member"
      /\ declared = "VALIDATED" /\ member # "member" => plain = BaseSeverity(e.naked)
  BY <1>1, <1>8, Severities
<1> HIDE DEF plain
<1>10. member \in Membership \ {"unsaid"}
  BY SourceSays DEF member
<1>11. OverlaySeverity(overlay.override) \in {"info", "high"}
  BY DEF OverlaySeverity
<1>12. verdict \in {"BLOCKED", "INCONCLUSIVE", "VALIDATED"}
  BY <1>6, <1>8
<1>13. verdict = "VALIDATED" => ~ overridden /\ declared = "VALIDATED"
  BY <1>6, <1>8
<1>14. verdict = "BLOCKED" => overlay.override = "BLOCKED" \/ scp = "FAIL"
  BY <1>6, <1>8
<1>15. severity \in {"critical", "high", "medium", "low", "info"}
  BY <1>9, <1>11 DEF plain
<1>16. ~ overridden => severity = plain /\ verdict = declared
  BY DEF plain
<1>17. checks \subseteq CheckState
  BY <1>4, <1>5, <1>6 DEF CheckState
<1>18. "FAIL" \in checks <=> scp = "FAIL" \/ consistent = "FAIL" \/ overlay.check = "FAIL"
  OBVIOUS
<1>19. "UNKNOWN" \in checks <=> scp = "UNKNOWN" \/ consistent = "UNKNOWN" \/ overlay.check = "UNKNOWN"
  OBVIOUS
<1>20. blockers = (IF scp = "FAIL" THEN {"scp"} ELSE {}) \cup (IF stopped THEN {"probe"} ELSE {})
  OBVIOUS
<1> HIDE DEF stopped, blockers
<1>21. blockers \subseteq {"scp", "probe"} /\ (blockers = {} <=> scp # "FAIL" /\ overlay.override # "BLOCKED")
  BY <1>7, <1>20
<1>22. odd \in BOOLEAN /\ (odd <=> consistent = "FAIL")
  OBVIOUS
<1> HIDE DEF checks, odd, verdict, severity, r
<1>24. f \in Finding
  <2>1. verdict \in Verdict
    BY <1>12 DEF Verdict
  <2>2. r \in Grant
    BY <1>1 DEF r
  <2> QED
    BY <1>1, <1>3, <1>10, <1>15, <1>17, <1>21, <1>22, <2>1, <2>2 DEF Finding
<1>25. f.verdict = verdict /\ f.severity = severity /\ f.checks = checks /\ f.blockers = blockers
       /\ f.grant = r /\ f.naked = e.naked /\ f.member = member /\ f.inconsistent = odd
  BY <1>3
<1>26. verdict = "VALIDATED" => /\ scp = "PASS" /\ consistent = "PASS" /\ member # "unknown"
                                /\ overlay.override = "none"
  BY <1>8, <1>13
<1>27. verdict = "VALIDATED" => checks \subseteq {"PASS"} /\ blockers = {}
  BY <1>6, <1>17, <1>18, <1>19, <1>21, <1>26 DEF CheckState
<1>28. verdict = "BLOCKED" => "FAIL" \in checks /\ blockers # {}
  BY <1>6, <1>14, <1>18, <1>21
<1>29. FindingAccepted(f)
  BY <1>12, <1>25, <1>27, <1>28 DEF FindingAccepted
<1>30. "FAIL" \in f.checks => f.inconsistent \/ f.blockers # {}
  <2>1. "FAIL" \in checks => consistent = "FAIL" \/ blockers # {}
    BY <1>6, <1>18, <1>21
  <2> QED
    BY <1>22, <1>25, <2>1
<1>31. f.inconsistent => r.src.type = "wildcard" /\ r.flags \cap StrongKeys # {}
  BY <1>5, <1>22, <1>25 DEF r
<1>32. verdict = "VALIDATED" => ~ LiveDenial
  BY <1>6, <1>26
<1>33. verdict = "VALIDATED" => severity = plain /\ declared = "VALIDATED"
  BY <1>13, <1>16
<1>34. estate.scp = {} => scp = "PASS"
  BY DEF scp, BlockerState
<1>35. (estate.scp = {} /\ estate.probes = {} /\ consistent = "PASS" /\ member = "non_member")
       => verdict = "VALIDATED" /\ severity = BaseSeverity(e.naked)
  <2> SUFFICES ASSUME estate.scp = {}, estate.probes = {}, consistent = "PASS", member = "non_member"
               PROVE  verdict = "VALIDATED" /\ severity = BaseSeverity(e.naked)
    OBVIOUS
  <2>1. overlay.override = "none"
    BY <1>6
  <2>2. declared = "VALIDATED"
    BY <1>8, <1>34
  <2> QED
    BY <1>9, <1>16, <2>1, <2>2
<1>36. verdict = "VALIDATED" => (severity = "critical" => e.naked = "CRITICAL_NAKED")
                                /\ (severity = BaseSeverity(e.naked) \/ member = "member")
  BY <1>9, <1>33
<1> HIDE DEF f
<1>37. f.verdict = "VALIDATED" =>
         /\ scp = "PASS" /\ ~ LiveDenial /\ consistent = "PASS" /\ f.member # "unknown"
         /\ f.severity = "critical" => e.naked = "CRITICAL_NAKED"
         /\ f.severity = BaseSeverity(e.naked) \/ f.member = "member"
  BY <1>25, <1>26, <1>32, <1>36
<1> QED
  BY <1>24, <1>25, <1>29, <1>30, <1>31, <1>35, <1>37 DEF f, r, scp, consistent, member

-----------------------------------------------------------------------------
(***************************************************************************)
(* The inductive invariant holds.                                          *)
(***************************************************************************)
LEMMA EvaluateKeeps ==
  ASSUME TrustAccounts, CollectedRoles, IInv, NEW e \in todo, Evaluate(e)
  PROVE  IInv'
<1>1. /\ phase = "reason" /\ Looks(e) /\ todo' = todo \ {e} /\ Still
      /\ \/ FindingAccepted(TrustFinding(e)) /\ findings' = findings \cup {TrustFinding(e)} /\ aborted' = FALSE
         \/ ~ FindingAccepted(TrustFinding(e)) /\ findings' = {} /\ aborted' = TRUE
  BY DEF Evaluate, Still
<1>2. Reasoning
  BY <1>1 DEF IInv
<1>3. e \in ToLookAt
  BY <1>2 DEF Reasoning
<1>4. FindingAccepted(TrustFinding(e))
  BY <1>1, <1>3, FindingSays
<1>5. findings' = findings \cup {TrustFinding(e)} /\ aborted' = FALSE
  BY <1>1, <1>4
<1>6. {d \in ToLookAt : Looks(d) /\ d \notin todo'} = Looked \cup {e}
  BY <1>1, <1>3 DEF Looked
<1>7. findings = {TrustFinding(d) : d \in Looked}
  BY <1>2 DEF Reasoning
<1>8. {TrustFinding(d) : d \in Looked \cup {e}} = findings \cup {TrustFinding(e)}
  BY <1>7
<1> QED
  BY <1>1, <1>5, <1>6, <1>8, ReasonKeeps

LEMMA StepKeeps ==
  ASSUME TrustAccounts, CollectedRoles, IInv, [Next]_vars
  PROVE  IInv'
<1>1. CASE ParsePolicy
  BY <1>1, ParsePolicyKeeps
<1>2. CASE ResolveNodes
  BY <1>2, ResolveNodesKeeps
<1>3. ASSUME NEW e \in todo, Skip(e)
      PROVE  IInv'
  BY <1>3, SkipKeeps
<1>4. ASSUME NEW e \in todo, Evaluate(e)
      PROVE  IInv'
  BY <1>4, EvaluateKeeps
<1>5. CASE UNCHANGED vars
  <2>1. Still /\ todo' = todo /\ findings' = findings /\ aborted' = aborted
    BY <1>5 DEF vars, Still
  <2>2. CASE phase = "reason"
    <3>1. aborted = FALSE /\ findings = {TrustFinding(e) : e \in Looked}
      BY <2>2 DEF IInv, Reasoning
    <3>2. findings' = {TrustFinding(e) : e \in {d \in ToLookAt : Looks(d) /\ d \notin todo'}}
      BY <2>1, <3>1 DEF Looked
    <3> QED
      BY <2>1, <2>2, <3>1, <3>2, ReasonKeeps
  <2>3. CASE phase # "reason"
    <3>1. phase = "parse" /\ Parsing
      BY <2>3 DEF IInv
    <3>2. phase' = "parse" /\ Parsing'
      BY <2>1, <3>1 DEF Parsing, Still
    <3>3. (edges = {TrustEdge(r) : r \in {s \in results : Signal(s)}})'
      BY <2>1, StillKeeps DEF IInv, TrustEdge, Still
    <3>4. (\A r \in results : Outcome(r))'
      BY <2>1, StillKeeps DEF IInv, Still
    <3> QED
      BY <2>1, <3>2, <3>3, <3>4 DEF IInv, Still
  <2> QED
    BY <2>2, <2>3
<1> QED
  BY <1>1, <1>2, <1>3, <1>4, <1>5 DEF Next

\* Results, edges, nodes and findings are those of the policies and of one
\* another in every reachable state.
THEOREM GrantsSound == Spec => []IInv
<1>1. Init => IInv
  BY CollectedRoles, Initially
<1>2. IInv /\ [Next]_vars => IInv'
  BY TrustAccounts, CollectedRoles, StepKeeps
<1> QED
  BY <1>1, <1>2, PTL DEF Spec

-----------------------------------------------------------------------------
(***************************************************************************)
(* What the findings tell.                                                 *)
(***************************************************************************)

\* A finding is of an edge that is done.
LEMMA Found ==
  ASSUME IInv, NEW f \in findings
  PROVE  phase = "reason" /\ \E e \in Looked : f = TrustFinding(e)
<1>1. phase = "reason"
  BY DEF IInv, Parsing
<1> QED
  BY <1>1 DEF IInv, Reasoning

\* The flags of a statement that the classes are made of are its tests.
LEMMA FlagsAreTests ==
  ASSUME NEW s, NEW keys \in SUBSET MeaningfulKeys
  PROVE  Flags(s.tests) \cap keys # {} <=> Tests(s, keys)
  BY DEF Flags, Tests

LEMMA KeysCounted == StrongKeys \subseteq MeaningfulKeys
  BY DEF MeaningfulKeys

\* A test with a key of the two strong kinds, if there is a flag for it.
LEMMA StrongTests ==
  ASSUME NEW s
  PROVE  /\ Flags(s.tests) \cap StrongKeys # {} <=> Tests(s, StrongKeys)
         /\ Flags(s.tests) = {} <=> ~ Tests(s, MeaningfulKeys)
<1>1. Flags(s.tests) \cap StrongKeys # {} <=> Tests(s, StrongKeys)
  BY FlagsAreTests, KeysCounted
<1>2. Flags(s.tests) \cap MeaningfulKeys # {} <=> Tests(s, MeaningfulKeys)
  BY FlagsAreTests
<1>3. Flags(s.tests) \cap MeaningfulKeys = Flags(s.tests)
  BY DEF Flags
<1> QED
  BY <1>1, <1>2, <1>3

LEMMA ThroughStep ==
  ASSUME TrustAccounts, CollectedRoles, IInv
  PROVE  RunsThrough
<1>1. ASSUME NEW f \in findings
      PROVE  /\ f \in Finding
             /\ f.inconsistent => f.grant.src.type = "wildcard" /\ Tests(StatementOf(f.grant), StrongKeys)
             /\ "FAIL" \in f.checks => f.inconsistent \/ f.blockers # {}
  <2>1. phase = "reason"
    BY Found
  <2>2. PICK e \in Looked : f = TrustFinding(e)
    BY Found
  <2>3. e \in ToLookAt /\ Looks(e)
    BY DEF Looked
  <2>4. /\ f \in Finding /\ f.grant = e.grant
        /\ f.inconsistent => e.grant.src.type = "wildcard" /\ e.grant.flags \cap StrongKeys # {}
        /\ "FAIL" \in f.checks => f.inconsistent \/ f.blockers # {}
    BY <2>1, <2>2, <2>3, FindingSays
  <2>5. Outcome(e.grant)
    BY <2>1, <2>3, EdgeSays
  <2>6. e.grant.flags = Flags(StatementOf(e.grant).tests)
    BY <2>5 DEF Outcome
  <2> QED
    BY <2>4, <2>6, StrongTests
<1>2. AlarmsAreWildcards
  BY <1>1 DEF AlarmsAreWildcards
<1>3. NeverRefused
  BY DEF NeverRefused, IInv
<1>4. findings \subseteq Finding
  BY <1>1
<1>5. results \subseteq Grant
  BY DEF IInv, Outcome
<1>6. edges \subseteq [grant : Grant, naked : Naked]
  <2>1. ASSUME NEW r \in results
        PROVE  TrustEdge(r) \in [grant : Grant, naked : Naked]
    <3>1. r \in Grant
      BY <1>5
    <3>2. Classify(r) \in Naked
      BY DEF Classify, ClassifyOidc, ClassifyForeign, Naked
    <3> QED
      BY <3>1, <3>2 DEF TrustEdge
  <2> QED
    BY <2>1 DEF IInv
<1>7. DOMAIN membership \subseteq Principal /\ \A p \in DOMAIN membership : membership[p] \in Membership
  <2>1. CASE phase = "parse"
    <3>1. membership = <<>>
      BY <2>1 DEF IInv, Parsing
    <3> QED
      BY <3>1
  <2>2. CASE phase # "parse"
    <3>1. membership = Nodes
      BY <2>2 DEF IInv, Reasoning
    <3>2. \A p \in DOMAIN Nodes : Nodes[p] \in Membership
      BY NodeSays
    <3>3. DOMAIN Nodes \subseteq Mentioned
      BY DEF Nodes
    <3> QED
      BY <3>1, <3>2, <3>3, Mentions
  <2> QED
    BY <2>1, <2>2
<1>8. todo \subseteq edges /\ phase \in {"parse", "reason"}
  BY DEF IInv, Parsing, Reasoning, ToLookAt
<1>9. parsed \in 0..Len(estate.order) /\ failures \subseteq Role /\ aborted \in BOOLEAN
  BY DEF IInv
<1> QED
  BY <1>2, <1>3, <1>4, <1>5, <1>6, <1>7, <1>8, <1>9 DEF RunsThrough, TypeOK

\* Every edge that is looked at ends in a well-formed finding that the
\* constructor accepts, and an alarm of the reasoner's own is of a wildcard
\* with an organization or MFA test.
THEOREM RunsGoThrough == Spec => []RunsThrough
<1>1. IInv => RunsThrough
  BY TrustAccounts, CollectedRoles, ThroughStep
<1> QED
  BY <1>1, GrantsSound, PTL

LEMMA MembershipStep ==
  ASSUME TrustAccounts, CollectedRoles, IInv
  PROVE  MembershipSound
<1>1. ASSUME NEW f \in findings
      PROVE  /\ f.verdict = "VALIDATED" /\ f.severity # BaseSeverity(f.naked) => f.grant.src.account \in estate.known
             /\ (/\ ~ estate.complete /\ estate.named = <<>>
                 /\ f.grant.src.type # "wildcard" /\ f.grant.src.account \notin estate.known)
                => f.verdict # "VALIDATED" /\ f.member = "unknown"
  <2>1. phase = "reason"
    BY Found
  <2>2. PICK e \in Looked : f = TrustFinding(e)
    BY Found
  <2>3. e \in ToLookAt /\ Looks(e)
    BY DEF Looked
  <2>4. /\ f.grant = e.grant /\ f.naked = e.naked /\ f.member = SourceMembership(e.grant.src)
        /\ f.verdict = "VALIDATED" => /\ f.member # "unknown"
                                      /\ f.severity = BaseSeverity(e.naked) \/ f.member = "member"
    BY <2>1, <2>2, <2>3, FindingSays
  <2>5. /\ SourceMembership(e.grant.src) = "member" => e.grant.src.account \in estate.known
        /\ (/\ ~ estate.complete /\ estate.named = <<>>
            /\ e.grant.src.type # "wildcard" /\ e.grant.src.account \notin estate.known)
           => SourceMembership(e.grant.src) = "unknown"
    BY <2>1, SourceSays
  <2> QED
    BY <2>4, <2>5
<1> QED
  BY <1>1 DEF MembershipSound, LoweredOnlyForMembers, PartialStaysUnknown

\* The severity of a validated grant is lowered only for an account the run
\* knows; and in a partial collection without resource policies, a grant to an
\* account it does not know is never validated.
THEOREM UnknownStaysUnknown == Spec => []MembershipSound
<1>1. IInv => MembershipSound
  BY TrustAccounts, CollectedRoles, MembershipStep
<1> QED
  BY <1>1, GrantsSound, PTL

LEMMA ProvenStep ==
  ASSUME TrustAccounts, CollectedRoles, IInv
  PROVE  ValidatedProven
<1> SUFFICES ASSUME NEW f \in findings, f.verdict = "VALIDATED"
             PROVE  LET s == StatementOf(f.grant)
                    IN  /\ estate.policyOf[f.grant.dst].readable /\ s.effect = "Allow"
                        /\ f.grant.action \in s.actions
                        /\ \E w \in s.principals :
                             /\ Resolve(w) = f.grant.src /\ Foreign(w, f.grant.dst.account)
                             /\ f.severity = "critical" => w.form = "*" /\ ~ Tests(s, MeaningfulKeys)
                        /\ ~ Tests(s, StrongKeys)
                        /\ ~ LiveDenial /\ \A b \in estate.scp : ~ BlocksForSure(b) /\ ~ IsAmbiguous(b)
  BY DEF ValidatedProven
<1> DEFINE s == StatementOf(f.grant)
           r == f.grant
<1>1. phase = "reason"
  BY Found
<1>2. PICK e \in Looked : f = TrustFinding(e)
  BY Found
<1>3. e \in ToLookAt /\ Looks(e)
  BY DEF Looked
<1>4. /\ f.grant = e.grant
      /\ BlockerState(estate.scp) = "PASS" /\ ~ LiveDenial /\ ConsistencyCheck(e.naked, e.grant.flags) = "PASS"
      /\ f.severity = "critical" => e.naked = "CRITICAL_NAKED"
  BY <1>1, <1>2, <1>3, FindingSays
<1>5. /\ Outcome(r) /\ CrossAccount(r.src, r.dst.account)
      /\ e.naked \in {"CRITICAL_NAKED", "BROAD_NAKED", "NARROW_NAKED"}
      /\ e.naked = "CRITICAL_NAKED" => r.src.type = "wildcard" /\ r.flags = {}
  BY <1>1, <1>3, <1>4, EdgeSays DEF Naked
<1>6. /\ estate.policyOf[r.dst].readable /\ s.effect = "Allow" /\ r.action \in s.actions
      /\ r.flags = Flags(s.tests) /\ \E w \in s.principals : Resolve(w) = r.src
  BY <1>5 DEF Outcome
<1>7. s.principals \subseteq Written
  <2>1. r.dst \in Role /\ r.statement \in DOMAIN estate.policyOf[r.dst].statements
    BY <1>5 DEF Outcome
  <2>2. estate.policyOf[r.dst] \in Policy
    BY <2>1, EstateParts DEF IInv
  <2>3. estate.policyOf[r.dst].statements \in Seq(Statement)
    BY <2>2 DEF Policy
  <2>4. s \in Statement
    BY <2>1, <2>3 DEF StatementOf
  <2> QED
    BY <2>4 DEF Statement
<1>8. PICK w \in s.principals : Resolve(w) = r.src
  BY <1>6
<1>9. w \in Written
  BY <1>7
<1>10. Foreign(w, r.dst.account)
  BY <1>5, <1>8, <1>9, CrossIsForeign
<1>11. r.src.type = "wildcard" => w.form = "*"
  BY <1>8, <1>9, Resolved
<1>12. Flags(s.tests) \cap StrongKeys = {}
  <2>1. r.flags \cap StrongKeys = {}
    <3>1. CASE e.naked = "CRITICAL_NAKED"
      BY <1>5, <3>1
    <3>2. CASE e.naked # "CRITICAL_NAKED"
      BY <1>4, <1>5, <3>2 DEF ConsistencyCheck
    <3> QED
      BY <3>1, <3>2
  <2> QED
    BY <1>6, <2>1
<1>13. ~ Tests(s, StrongKeys)
  BY <1>12, StrongTests
<1>14. f.severity = "critical" => w.form = "*" /\ ~ Tests(s, MeaningfulKeys)
  BY <1>4, <1>5, <1>6, <1>11, StrongTests
<1>15. \A b \in estate.scp : ~ BlocksForSure(b) /\ ~ IsAmbiguous(b)
  BY <1>4 DEF BlockerState
<1> HIDE DEF s
<1>16. \E v \in s.principals :
         /\ Resolve(v) = r.src /\ Foreign(v, r.dst.account)
         /\ f.severity = "critical" => v.form = "*" /\ ~ Tests(s, MeaningfulKeys)
  BY <1>8, <1>10, <1>14
<1> QED
  BY <1>4, <1>6, <1>13, <1>15, <1>16 DEF s

\* A validated finding rests on a readable Allow statement that names somebody
\* outside the account without an organization or MFA test, and on nothing that
\* blocks or may block it; it is critical only where anybody may come.
THEOREM ValidatedAreProven == Spec => []ValidatedProven
<1>1. IInv => ValidatedProven
  BY TrustAccounts, CollectedRoles, ProvenStep
<1> QED
  BY <1>1, GrantsSound, PTL

-----------------------------------------------------------------------------
(***************************************************************************)
(* What is reported.                                                       *)
(***************************************************************************)

\* The parser's result for one principal and action of a statement.
ResultOf(role, i, s, w, a) ==
  [statement |-> i, src |-> Resolve(w), dst |-> role, action |-> a,
   cross |-> CrossAccount(Resolve(w), role.account), flags |-> Flags(s.tests),
   conditional |-> s.tests # {} \/ s.sub # "none",
   sub |-> IF Resolve(w).type = "oidc" THEN s.sub ELSE "none"]

LEMMA ResultsHave ==
  ASSUME NEW role, NEW i, NEW s, NEW w \in s.principals, NEW a \in s.actions
  PROVE  ResultOf(role, i, s, w, a) \in StatementResults(role, i, s)
<1>1. \A x \in s.principals \X s.actions : ResultOf(role, i, s, x[1], x[2]) \in StatementResults(role, i, s)
  BY Zenon DEF StatementResults, ResultOf
<1>2. <<w, a>> \in s.principals \X s.actions
  OBVIOUS
<1>3. ResultOf(role, i, s, <<w, a>>[1], <<w, a>>[2]) \in StatementResults(role, i, s)
  BY <1>1, <1>2, Zenon
<1> QED
  BY <1>3

\* The grant of action a to w has an edge that was looked at and a finding.
LookedAt(w, role, a, i) ==
  \E e \in Looked : /\ e.grant.src = Resolve(w) /\ e.grant.dst = role /\ e.grant.action = a
                    /\ e.grant.statement = i /\ e.grant.flags = {} /\ TrustFinding(e) \in findings

\* An exposed grant leaves a result, and its edge passes the filters, the
\* classifier and the reasoner's test.
LEMMA ExposedIsLookedAt ==
  ASSUME TrustAccounts, CollectedRoles, IInv, Walked, NEW k \in DOMAIN estate.order,
         NEW role, role = estate.order[k], estate.policyOf[role].readable, Unfiltered(role.account),
         NEW i \in DOMAIN estate.policyOf[role].statements,
         NEW s, s = estate.policyOf[role].statements[i], s.effect = "Allow", ~ Tests(s, MeaningfulKeys),
         NEW w \in s.principals, NEW a \in s.actions \cap TrustActions,
         Foreign(w, role.account), Unfiltered(w.account)
  PROVE  /\ w \in Written /\ CrossAccount(Resolve(w), role.account)
         /\ LookedAt(w, role, a, i)
<1> DEFINE r == ResultOf(role, i, s, w, a)
<1>1. phase = "reason" /\ todo = {} /\ Reasoning /\ estate \in Estates
  BY DEF Walked, IInv, Parsing
<1>2. role \in Role /\ estate.policyOf \in [Role -> Policy] /\ estate.order \in Seq(Role)
  BY <1>1, EstateParts
<1>3. s \in Statement
  <2>1. estate.policyOf[role] \in Policy
    BY <1>2
  <2>2. estate.policyOf[role].statements \in Seq(Statement)
    BY <2>1 DEF Policy
  <2> QED
    BY <2>2
<1>4. w \in Written
  BY <1>3 DEF Statement
<1>5. CrossAccount(Resolve(w), role.account)
  BY <1>4, CrossIsForeign
<1> DEFINE crosses == CrossAccount(Resolve(w), role.account)
<1>6. r.statement = i /\ r.src = Resolve(w) /\ r.dst = role /\ r.action = a /\ r.flags = Flags(s.tests)
      /\ r.cross = crosses
  BY DEF ResultOf
<1>7. r.cross
  BY <1>5, <1>6
<1>8. r \in StatementResults(role, i, s)
  BY ResultsHave, ZenonT(30)
<1>9. r \in Results(role, estate.policyOf[role])
  BY <1>8 DEF Results
<1>10. k \in 1..parsed
  BY <1>1, <1>2 DEF Reasoning
<1>11. r \in results
  BY <1>9, <1>10 DEF IInv
<1>12. r.flags = {}
  BY <1>6, StrongTests
<1> HIDE DEF r, crosses
<1>13. r.src.account = w.account /\ (r.src.type = "wildcard" \/ r.src.account # role.account) /\ r.src.type \in PrincipalType
  <2>1. r.src.account = w.account /\ r.src \in Principal /\ (w.form = "*" => r.src.type = "wildcard")
    <3>1. /\ Resolve(w) \in Principal /\ Resolve(w).account = w.account
          /\ w.form = "*" => Resolve(w).type = "wildcard"
      BY <1>4, Resolved
    <3>2. r.src = Resolve(w)
      BY <1>6
    <3> QED  BY <3>1, <3>2
  <2>2. w.form = "*" \/ w.account # role.account
    BY DEF Foreign
  <2> QED
    BY <2>1, <2>2 DEF Principal
<1>14. role.type = "role"
  BY <1>2 DEF Role
<1>15. Signal(r)
  <2>1. r.src # r.dst
    BY <1>6, <1>13, <1>14
  <2> QED
    BY <1>6, <1>13, <2>1 DEF Signal
<1> DEFINE e == TrustEdge(r)
<1>16. e \in edges
  BY <1>11, <1>15 DEF IInv
<1>17. e.grant = r /\ e.naked = Classify(r)
  BY DEF TrustEdge
<1>18. Classify(r) \notin {"INTRA_ACCOUNT", "CONDITIONED"}
  <2>1. CrossAccount(r.src, role.account)
    BY <1>5, <1>6
  <2> QED
    BY <1>7, <1>12, <1>13, <2>1, Classified
<1> HIDE DEF e
<1>19. e \in Looked
  BY <1>1, <1>6, <1>7, <1>16, <1>17, <1>18 DEF Looked, ToLookAt, Looks
<1>20. TrustFinding(e) \in findings
  BY <1>1, <1>19 DEF Reasoning
<1>21. LookedAt(w, role, a, i)
  BY <1>6, <1>12, <1>17, <1>19, <1>20 DEF LookedAt
<1> QED
  BY <1>4, <1>5, <1>21

\* The node of a stranger says so, where no resource policy speaks.
LEMMA StrangersAreTold ==
  ASSUME TrustAccounts, CollectedRoles, IInv, phase = "reason",
         NEW w \in Written, NEW r \in results, r.src = Resolve(w), r.cross,
         NEW account, Foreign(w, account), Stranger(w)
  PROVE  SourceMembership(r.src) = "non_member"
<1> DEFINE p == r.src
<1>1. estate \in Estates /\ membership = Nodes
  BY DEF IInv, Reasoning
<1>2. p.account = w.account /\ p.type = TypeOfForm(w.form) /\ (w.form = "*" <=> p.type = "wildcard")
  BY Resolved
<1>3. w.form = "*" \/ p.type \in {"root", "role", "user"}
  <2>1. w.form = "*" \/ w.form \in AwsForms \ {"*", "saml", "unique_id", "unrecognized"}
    BY DEF Stranger, Foreign
  <2>2. w.form \in AwsForms \ {"*", "saml", "unique_id", "unrecognized"} =>
          TypeOfForm(w.form) \in {"root", "role", "user"}
    BY DEF AwsForms, TypeOfForm
  <2> QED
    BY <1>2, <2>1, <2>2
<1>4. w.form = "*" \/ (estate.complete /\ p.account \notin estate.known /\ p.account # NoAccount)
  BY <1>2 DEF Stranger, Foreign
<1>5. p \notin estate.collected
  BY <1>1, <1>2, <1>4, EstateParts
<1>6. Synthetic(p) /\ p \in Mentioned
  BY DEF Synthetic, Mentioned
<1>7. p \in DOMAIN membership /\ membership[p] = SyntheticMembership(p)
  BY <1>1, <1>5, <1>6 DEF Nodes, HasNode, MembershipOf
<1>8. SyntheticMembership(p) = "non_member"
  BY <1>2, <1>3, <1>4 DEF SyntheticMembership
<1> QED
  BY <1>7, <1>8 DEF SourceMembership

LEMMA MissedStep ==
  ASSUME TrustAccounts, CollectedRoles, IInv
  PROVE  NothingMissed
<1> SUFFICES ASSUME Walked, NEW k \in DOMAIN estate.order,
                    NEW role, role = estate.order[k], estate.policyOf[role].readable, Unfiltered(role.account),
                    NEW i \in DOMAIN estate.policyOf[role].statements,
                    NEW s, s = estate.policyOf[role].statements[i], s.effect = "Allow", ~ Tests(s, MeaningfulKeys),
                    NEW w \in s.principals, NEW a \in s.actions \cap TrustActions,
                    Foreign(w, role.account), Unfiltered(w.account)
             PROVE  Reported(w, role, a, i)
  BY DEF NothingMissed, Exposes
<1>1. phase = "reason"
  BY DEF Walked
<1>2. w \in Written
  BY ExposedIsLookedAt
<1>3. LookedAt(w, role, a, i)
  BY ExposedIsLookedAt
<1>4. PICK e \in Looked : /\ e.grant.src = Resolve(w) /\ e.grant.dst = role /\ e.grant.action = a
                          /\ e.grant.statement = i /\ e.grant.flags = {} /\ TrustFinding(e) \in findings
  BY <1>3 DEF LookedAt
<1> DEFINE f == TrustFinding(e)
<1>5. e \in ToLookAt /\ Looks(e)
  BY DEF Looked
<1>6. e.grant \in results /\ e.grant.cross
  BY <1>1, <1>5, EdgeSays
<1>7. ConsistencyCheck(e.naked, e.grant.flags) = "PASS"
  BY <1>4 DEF ConsistencyCheck
<1>8. /\ f.grant = e.grant /\ f.naked = e.naked /\ f.member = SourceMembership(e.grant.src)
      /\ (/\ estate.scp = {} /\ estate.probes = {} /\ ConsistencyCheck(e.naked, e.grant.flags) = "PASS"
          /\ f.member = "non_member")
         => f.verdict = "VALIDATED" /\ f.severity = BaseSeverity(e.naked)
  BY <1>1, <1>5, FindingSays
<1>9. Stranger(w) => f.member = "non_member"
  BY <1>1, <1>2, <1>4, <1>6, <1>8, StrangersAreTold
<1>10. Undisputed /\ Stranger(w) => f.verdict = "VALIDATED" /\ f.severity = BaseSeverity(f.naked)
  BY <1>7, <1>8, <1>9 DEF Undisputed
<1> HIDE DEF f
<1>11. f \in findings
  BY <1>4 DEF f
<1> QED
  BY <1>4, <1>8, <1>10, <1>11 DEF Reported

\* What a readable policy grants to somebody of another account, without a test
\* the scanner knows, has a finding once the edges are walked; a stranger's is
\* validated at full severity where nothing speaks against it.
THEOREM NothingIsMissed == Spec => []NothingMissed
<1>1. IInv => NothingMissed
  BY TrustAccounts, CollectedRoles, MissedStep
<1> QED
  BY <1>1, GrantsSound, PTL
=============================================================================
