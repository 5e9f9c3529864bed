----------------------- MODULE BindingDecisions_proofs -----------------------
(***************************************************************************)
(* Proofs about the binders, for every universe of actions and ARNs and    *)
(* every SCP, boundary and identity deny over them, with any number of     *)
(* tests and statements: what a binding says for sure is so.               *)
(***************************************************************************)
EXTENDS BindingDecisions, TLAPS

(***************************************************************************)
(* What is decided is what the binder of the control's kind returns.       *)
(***************************************************************************)
Outcome ==
  \/ control.kind = "scp"      /\ bindings = BindScp(edge, control.says)
  \/ control.kind = "boundary" /\ bindings = BindBoundary(edge, control.says)
  \/ control.kind = "deny"     /\ bindings = BindDeny(edge, control.says)

IInv ==
  /\ edge \in Edges /\ control \in Controls
  /\ decided \in BOOLEAN
  /\ IF decided THEN Outcome ELSE bindings = {}

(***************************************************************************)
(* A decided control of a kind is well formed and has its outcome.         *)
(***************************************************************************)
LEMMA DecidedOutcome ==
  ASSUME IInv
  PROVE  /\ edge.layer \in Layer /\ edge.action \in Actions
         /\ edge.src \in Arns /\ edge.dst \in Arns
         /\ Decided("scp") => /\ control.says \in ScpStatement
                              /\ bindings = BindScp(edge, control.says)
         /\ Decided("boundary") => /\ control.says \subseteq BoundaryStatement
                                   /\ bindings = BindBoundary(edge, control.says)
         /\ Decided("deny") => /\ control.says \in DenyStatement
                               /\ bindings = BindDeny(edge, control.says)
<1>1. edge \in [layer : Layer, action : Actions, src : Arns, dst : Arns, conditional : BOOLEAN]
  BY Cases DEF IInv
<1>2. \/ control.kind = "scp"      /\ control.says \in ScpStatement
      \/ control.kind = "boundary" /\ control.says \subseteq BoundaryStatement
      \/ control.kind = "deny"     /\ control.says \in DenyStatement
  BY Cases DEF IInv
<1> QED  BY <1>1, <1>2 DEF IInv, Outcome, Decided

LEMMA InvInit == Init => IInv
  BY DEF Init, IInv

LEMMA InvNext == IInv /\ [Next]_vars => IInv'
<1> SUFFICES ASSUME IInv, [Next]_vars PROVE IInv'
  OBVIOUS
<1>1. CASE DecideScp
  BY <1>1 DEF DecideScp, Decide, IInv, Outcome
<1>2. CASE DecideBoundary
  BY <1>2 DEF DecideBoundary, Decide, IInv, Outcome
<1>3. CASE DecideDeny
  BY <1>3 DEF DecideDeny, Decide, IInv, Outcome
<1>4. CASE UNCHANGED vars
  BY <1>4 DEF vars, IInv, Outcome
<1> QED  BY <1>1, <1>2, <1>3, <1>4 DEF Next

THEOREM InvHolds == Spec => []IInv
  BY InvInit, InvNext, PTL DEF Spec

-----------------------------------------------------------------------------
(***************************************************************************)
(* The parts of a complete parse, and what a binding claims.               *)
(***************************************************************************)
LEMMA CompleteParse ==
  ASSUME NEW s \in ScpStatement, ScpParseStatus(s) = "complete"
  PROVE  s.form = "Action" /\ s.scope # "Resource" /\ \A t \in s.tests : Handled(t)
  BY DEF ScpStatement, ActionForm, ScpParseStatus

LEMMA ParseStatuses ==
  ASSUME NEW s \in ScpStatement
  PROVE  /\ ScpParseStatus(s) \in {"complete", "partial", "unsupported"}
         /\ ParseConfidence(ScpParseStatus(s)) \in Confidence
         /\ ScpParseStatus(s) # "complete" =>
              ParseConfidence(ScpParseStatus(s)) \in {"partial", "needs_review"}
  BY DEF ScpStatement, ActionForm, ScpParseStatus, ParseConfidence, Confidence

(***************************************************************************)
(* No operator both excepts and selects principals.                        *)
(***************************************************************************)
LEMMA TestKindsDisjoint ==
  ASSUME NEW t PROVE ~ (ExceptsPrincipal(t) /\ FiltersPrincipal(t))
  BY DEF FiltersPrincipal, ExceptsPrincipal, PrincipalApplicabilityOperators,
         PrincipalExceptionOperators

(***************************************************************************)
(* bind_scp_to_edge blocks for sure only a principal that no exception     *)
(* names, under a complete parse without organization exceptions.          *)
(***************************************************************************)
LEMMA SureScp ==
  ASSUME NEW e, NEW s \in ScpStatement,
         \E b \in BindScp(e, s) : BlocksForSure(b)
  PROVE  /\ ScpApplies(e, ParseScp(s))
         /\ ScpParseStatus(s) = "complete"
         /\ ~ \E t \in s.tests : ExceptsMembers(t)
         /\ \A t \in s.tests : ExceptsPrincipal(t) => e.src \notin t.values
<1> DEFINE c == ParseScp(s)
<1>1. ScpApplies(e, c) /\ ScpBlocks(e, c) /\ ScpConfidence(e, c) = "complete"
  BY DEF BindScp, Bound, BlocksForSure
<1>2. c.parse = ScpParseStatus(s) /\ c.parse = "complete" /\ e.src \notin c.excepted
  BY <1>1 DEF ScpBlocks, ParseScp
<1>3. ~ c.unresolved
  BY <1>1 DEF ScpConfidence
<1> QED  BY <1>1, <1>2, <1>3 DEF ParseScp

(***************************************************************************)
(* When the parser reads a statement in full, the tests on the principal   *)
(* hold exactly for those the binder lets through.                         *)
(***************************************************************************)
LEMMA ScpBlockStep == IInv => ScpBlockIsCertain
<1> SUFFICES ASSUME IInv, Decided("scp"), ClaimsBlock, ReadInFull(control.says),
                    NEW held \in SUBSET control.says.tests
             PROVE  ScpDenies(control.says, edge.src, held)
  BY DEF ScpBlockIsCertain
<1> DEFINE s == control.says
<1>1. /\ s \in ScpStatement /\ bindings = BindScp(edge, s)
      /\ edge.action \in Actions /\ edge.dst \in Arns
  BY DecidedOutcome
<1>2. /\ ScpApplies(edge, ParseScp(s))
      /\ ScpParseStatus(s) = "complete"
      /\ ~ \E t \in s.tests : ExceptsMembers(t)
      /\ \A t \in s.tests : ExceptsPrincipal(t) => edge.src \notin t.values
  BY <1>1, SureScp DEF ClaimsBlock
<1>3. s.form = "Action" /\ s.scope # "Resource" /\ \A t \in s.tests : Handled(t)
  BY <1>1, <1>2, CompleteParse
<1>4. s.scope = "everything"
  BY <1>1, <1>3 DEF ReadInFull, ScpStatement, ResourceForm
<1>5. edge.action \in s.actions
  BY <1>2, <1>3 DEF ScpApplies, ParseScp, DeniedActions
<1>6. InResources(s)
  BY <1>4 DEF InResources
<1>7. ASSUME NEW t \in s.tests PROVE Holds(t, edge.src, held)
  <2>1. CASE ExceptsPrincipal(t)
    BY <1>2, <2>1, TestKindsDisjoint DEF Holds
  <2>2. CASE ~ ExceptsPrincipal(t) /\ FiltersPrincipal(t)
    <3>1. PICK u \in {v \in s.tests : FiltersPrincipal(v)} : edge.src \in u.values
      BY <1>2, <2>2 DEF ScpApplies, ParseScp
    <3>2. u = t
      BY <3>1, <2>2 DEF ReadInFull
    <3> QED  BY <3>1, <3>2, <2>2 DEF Holds
  <2> QED  BY <1>2, <1>3, <2>1, <2>2 DEF Handled
<1> QED  BY <1>3, <1>5, <1>6, <1>7 DEF ScpDenies

(***************************************************************************)
(* A statement that denies the edge's source under some request applies    *)
(* as the binder sees it, and the binding it gives leaves a claim or doubt.*)
(***************************************************************************)
LEMMA ScpSilenceStep == IInv => ScpSilenceIsCertain
<1> SUFFICES ASSUME IInv, Decided("scp"),
                    NEW held \in SUBSET control.says.tests,
                    ScpDenies(control.says, edge.src, held)
             PROVE  ~ ClaimsNothing
  BY DEF ScpSilenceIsCertain
<1> DEFINE s == control.says
           c == ParseScp(s)
<1>1. /\ s \in ScpStatement /\ bindings = BindScp(edge, s)
      /\ edge.action \in Actions /\ edge.dst \in Arns
  BY DecidedOutcome
<1>2. InResources(s) /\ \A t \in s.tests : Holds(t, edge.src, held)
  BY DEF ScpDenies
<1>3. edge.action \in c.denied
  <2>1. s.form \in {"Action", "NotAction", "none"}
    BY <1>1 DEF ScpStatement, ActionForm
  <2>2. CASE s.form = "Action"
    BY <2>2 DEF ScpDenies, ParseScp, DeniedActions
  <2>3. CASE s.form = "NotAction"
    BY <1>1, <2>3 DEF ScpDenies, ParseScp, DeniedActions
  <2>4. CASE s.form = "none"
    BY <2>4 DEF ScpDenies
  <2> QED  BY <2>1, <2>2, <2>3, <2>4
<1>4. edge.dst \in c.resources
  BY <1>1, <1>2 DEF InResources, ParseScp
<1>5. c.filtered => edge.src \in c.applicable
  <2> SUFFICES ASSUME NEW t \in s.tests, FiltersPrincipal(t) PROVE edge.src \in t.values
    BY DEF ParseScp
  <2>1. ~ ExceptsPrincipal(t)
    BY TestKindsDisjoint
  <2> QED  BY <1>2, <2>1 DEF Holds
<1>6. edge.src \notin c.excepted
  BY <1>2, TestKindsDisjoint DEF Holds, ParseScp
<1>7. bindings = {[confidence |-> ScpConfidence(edge, c), blocking |-> ScpBlocks(edge, c)]}
  BY <1>1, <1>3, <1>4, <1>5 DEF BindScp, ScpApplies, Bound
<1>8. c.parse = ScpParseStatus(s)
  BY DEF ParseScp
<1>9. CASE c.parse = "complete"
  <2>1. ScpBlocks(edge, c)
    BY <1>6, <1>9 DEF ScpBlocks
  <2>2. ScpConfidence(edge, c) \in {"complete", "needs_review"}
    BY <1>9 DEF ScpConfidence, ParseConfidence
  <2> QED  BY <1>7, <2>1, <2>2 DEF ClaimsNothing, BlocksForSure, IsAmbiguous
<1>10. CASE c.parse # "complete"
  <2>1. ~ ScpBlocks(edge, c)
    BY <1>10 DEF ScpBlocks
  <2>2. ScpConfidence(edge, c) \in {"partial", "needs_review"}
    BY <1>1, <1>8, <1>10, <2>1, ParseStatuses DEF ScpConfidence
  <2> QED  BY <1>7, <2>2 DEF ClaimsNothing, IsAmbiguous
<1> QED  BY <1>9, <1>10

-----------------------------------------------------------------------------
(***************************************************************************)
(* The four answers of the boundary evaluator, by what the boundary has:   *)
(* a plain statement that covers the edge, or one that leaves it open.     *)
(***************************************************************************)
Matches(boundary, effect) ==
  \E s \in boundary : s.effect = effect /\ Plain(s) /\ Covers(s, edge)

LEMMA BoundaryAnswers ==
  ASSUME NEW boundary
  PROVE  /\ (\E b \in BindBoundary(edge, boundary) : BlocksForSure(b)) =>
              /\ edge.layer = "permission"
              /\ \/ Matches(boundary, "Deny")
                 \/ /\ ~ Matches(boundary, "Allow")
                    /\ \A s \in boundary : ~ LeavesOpen(s, edge)
         /\ edge.layer = "permission"
            /\ ~ (\E b \in BindBoundary(edge, boundary) : BlocksForSure(b) \/ IsAmbiguous(b)) =>
              Matches(boundary, "Allow") /\ ~ Matches(boundary, "Deny")
<1> DEFINE open == \E s \in boundary : LeavesOpen(s, edge)
           sure == \E b \in BindBoundary(edge, boundary) : BlocksForSure(b)
           doubt == \E b \in BindBoundary(edge, boundary) : IsAmbiguous(b)
<1>1. CASE edge.layer # "permission"
  BY <1>1 DEF BindBoundary
<1>2. CASE edge.layer = "permission" /\ Matches(boundary, "Deny")
  <2>1. BindBoundary(edge, boundary) = {[confidence |-> "complete", blocking |-> TRUE]}
    BY <1>2 DEF BindBoundary, EvaluateBoundary, Matches, Bound
  <2> QED  BY <1>2, <2>1 DEF BlocksForSure
<1>3. CASE /\ edge.layer = "permission"
           /\ ~ Matches(boundary, "Deny") /\ Matches(boundary, "Allow")
  <2>1. BindBoundary(edge, boundary) = {[confidence |-> "complete", blocking |-> FALSE]}
    BY <1>3 DEF BindBoundary, EvaluateBoundary, Matches, Bound
  <2> QED  BY <1>3, <2>1 DEF BlocksForSure
<1>4. CASE /\ edge.layer = "permission"
           /\ ~ Matches(boundary, "Deny") /\ ~ Matches(boundary, "Allow") /\ open
  <2>1. BindBoundary(edge, boundary) = {[confidence |-> "needs_review", blocking |-> FALSE]}
    BY <1>4 DEF BindBoundary, EvaluateBoundary, Matches, Bound
  <2>2. ~ sure /\ doubt
    BY <2>1 DEF BlocksForSure, IsAmbiguous
  <2> QED  BY <2>2
<1>5. CASE /\ edge.layer = "permission"
           /\ ~ Matches(boundary, "Deny") /\ ~ Matches(boundary, "Allow") /\ ~ open
  <2>1. BindBoundary(edge, boundary) = {[confidence |-> "complete", blocking |-> TRUE]}
    BY <1>5 DEF BindBoundary, EvaluateBoundary, Matches, Bound
  <2> QED  BY <1>5, <2>1 DEF BlocksForSure
<1> QED  BY <1>1, <1>2, <1>3, <1>4, <1>5

LEMMA BoundaryBlockStep == IInv => BoundaryBlockIsCertain
<1> SUFFICES ASSUME IInv, Decided("boundary"), ClaimsBlock,
                    NEW applying \in SUBSET Open(control.says)
             PROVE  ~ Permits(control.says, applying)
  BY DEF BoundaryBlockIsCertain
<1>1. control.says \subseteq BoundaryStatement /\ bindings = BindBoundary(edge, control.says)
  BY DecidedOutcome
<1>2. CASE Matches(control.says, "Deny")
  BY <1>2 DEF Matches, Plain, Permits, Applies
<1>3. CASE /\ ~ Matches(control.says, "Allow")
           /\ \A s \in control.says : ~ LeavesOpen(s, edge)
  BY <1>3 DEF Matches, LeavesOpen, Plain, Permits, Applies, Open
<1> QED  BY <1>1, <1>2, <1>3, BoundaryAnswers DEF ClaimsBlock

LEMMA BoundaryAllowStep == IInv => BoundaryAllowsPlainly
<1> SUFFICES ASSUME IInv, Decided("boundary"), edge.layer = "permission", ClaimsNothing,
                    \A s \in Open(control.says) : s.effect = "Allow",
                    NEW applying \in SUBSET Open(control.says)
             PROVE  Permits(control.says, applying)
  BY DEF BoundaryAllowsPlainly
<1>1. control.says \subseteq BoundaryStatement /\ bindings = BindBoundary(edge, control.says)
  BY DecidedOutcome
<1>2. Matches(control.says, "Allow") /\ ~ Matches(control.says, "Deny")
  BY <1>1, BoundaryAnswers DEF ClaimsNothing
<1>3. \E s \in control.says : s.effect = "Allow" /\ Applies(s, applying)
  BY <1>2 DEF Matches, Plain, Applies
<1>4. \A s \in control.says : s.effect = "Deny" => ~ Applies(s, applying)
  BY <1>2 DEF Matches, Plain, Applies, Open
<1> QED  BY <1>3, <1>4 DEF Permits

-----------------------------------------------------------------------------
(***************************************************************************)
(* Identity denies.                                                        *)
(***************************************************************************)
LEMMA DenyStep == IInv => DenyBoundRightly
<1> SUFFICES ASSUME IInv, Decided("deny")
             PROVE  /\ ClaimsBlock => DenyCovers(control.says) /\ ~ control.says.conditional
                    /\ DenyCovers(control.says) /\ control.says.form = "Action" => ~ ClaimsNothing
  BY DEF DenyBoundRightly
<1> DEFINE d == control.says
<1>1. /\ d \in DenyStatement /\ bindings = BindDeny(edge, d)
      /\ edge.dst \in Arns
  BY DecidedOutcome
<1>2. /\ d.form \in {"Action", "NotAction", "none"} /\ d.conditional \in BOOLEAN
      /\ d.scope \in {"everything", "Resource", "NotResource"}
  BY <1>1 DEF DenyStatement, ActionForm, ResourceForm
<1>3. ASSUME ClaimsBlock PROVE DenyCovers(d) /\ ~ d.conditional
  <2>1. /\ edge.layer = "permission" /\ MatchesDeny(edge, d)
        /\ DenyConfidence(d) = "complete"
    BY <1>1, <1>3 DEF ClaimsBlock, BlocksForSure, BindDeny, Bound
  <2>2. ~ d.conditional /\ ParseDeny(d).parse = "complete"
    BY <1>2, <2>1 DEF DenyConfidence
  <2>3. d.form = "Action" /\ d.scope # "NotResource"
    BY <1>2, <2>2 DEF ParseDeny
  <2>4. edge.src = d.principal /\ edge.action \in d.actions
    BY <2>1, <2>3 DEF MatchesDeny, ParseDeny
  <2>5. InResources(d)
    BY <1>2, <2>1, <2>3 DEF MatchesDeny, ParseDeny, InResources
  <2> QED  BY <2>1, <2>2, <2>3, <2>4, <2>5 DEF DenyCovers
<1>4. ASSUME DenyCovers(d), d.form = "Action" PROVE ~ ClaimsNothing
  <2>1. edge.layer = "permission" /\ edge.src = d.principal /\ edge.action \in d.actions
    BY <1>4 DEF DenyCovers
  <2>2. edge.dst \in ParseDeny(d).resources
    BY <1>1, <1>2, <1>4 DEF DenyCovers, InResources, ParseDeny
  <2>3. bindings = {[confidence |-> DenyConfidence(d), blocking |-> TRUE]}
    BY <1>1, <1>4, <2>1, <2>2 DEF BindDeny, MatchesDeny, ParseDeny, Bound
  <2>4. DenyConfidence(d) \in {"complete", "partial", "needs_review"}
    BY <1>2 DEF DenyConfidence
  <2> QED  BY <2>3, <2>4 DEF ClaimsNothing, BlocksForSure, IsAmbiguous
<1> QED  BY <1>3, <1>4

-----------------------------------------------------------------------------
(***************************************************************************)
(* Types: an outcome is a set of well-formed bindings.                     *)
(***************************************************************************)
LEMMA BoundaryOutcomes ==
  ASSUME NEW boundary
  PROVE  BindBoundary(edge, boundary) \subseteq Binding
<1> DEFINE open == \E s \in boundary : LeavesOpen(s, edge)
           result == BindBoundary(edge, boundary)
<1>1. CASE edge.layer # "permission"
  BY <1>1 DEF BindBoundary
<1>2. CASE edge.layer = "permission" /\ Matches(boundary, "Deny")
  <2>1. result = {[confidence |-> "complete", blocking |-> TRUE]}
    BY <1>2 DEF BindBoundary, EvaluateBoundary, Matches, Bound
  <2> QED  BY <2>1 DEF Binding, Confidence
<1>3. CASE /\ edge.layer = "permission"
           /\ ~ Matches(boundary, "Deny") /\ Matches(boundary, "Allow")
  <2>1. result = {[confidence |-> "complete", blocking |-> FALSE]}
    BY <1>3 DEF BindBoundary, EvaluateBoundary, Matches, Bound
  <2> QED  BY <2>1 DEF Binding, Confidence
<1>4. CASE /\ edge.layer = "permission"
           /\ ~ Matches(boundary, "Deny") /\ ~ Matches(boundary, "Allow") /\ open
  <2>1. result = {[confidence |-> "needs_review", blocking |-> FALSE]}
    BY <1>4 DEF BindBoundary, EvaluateBoundary, Matches, Bound
  <2> QED  BY <2>1 DEF Binding, Confidence
<1>5. CASE /\ edge.layer = "permission"
           /\ ~ Matches(boundary, "Deny") /\ ~ Matches(boundary, "Allow") /\ ~ open
  <2>1. result = {[confidence |-> "complete", blocking |-> TRUE]}
    BY <1>5 DEF BindBoundary, EvaluateBoundary, Matches, Bound
  <2> QED  BY <2>1 DEF Binding, Confidence
<1> QED  BY <1>1, <1>2, <1>3, <1>4, <1>5

LEMMA TypeStep == IInv => TypeOK
<1> SUFFICES ASSUME IInv PROVE TypeOK
  OBVIOUS
<1>1. /\ edge.layer \in Layer /\ edge.action \in Actions /\ {edge.src, edge.dst} \subseteq Arns
      /\ control.kind \in {"scp", "boundary", "deny"}
  BY DecidedOutcome, Cases DEF IInv
<1>2. CASE ~ decided
  BY <1>1, <1>2 DEF IInv, TypeOK
<1>3. CASE Decided("scp")
  <2>1. control.says \in ScpStatement /\ bindings = BindScp(edge, control.says)
    BY <1>3, DecidedOutcome
  <2> DEFINE c == ParseScp(control.says)
  <2>2. c.parse = ScpParseStatus(control.says)
    BY DEF ParseScp
  <2>3. ScpConfidence(edge, c) \in Confidence /\ ScpBlocks(edge, c) \in BOOLEAN
    BY <2>1, <2>2, ParseStatuses DEF ScpConfidence, ScpBlocks, Confidence
  <2>4. bindings \subseteq {[confidence |-> ScpConfidence(edge, c), blocking |-> ScpBlocks(edge, c)]}
    BY <2>1 DEF BindScp, Bound
  <2> QED  BY <1>1, <1>3, <2>3, <2>4 DEF TypeOK, Binding, Decided
<1>4. CASE Decided("boundary")
  <2>1. bindings = BindBoundary(edge, control.says)
    BY <1>4, DecidedOutcome
  <2>2. bindings \subseteq Binding
    BY <2>1, BoundaryOutcomes
  <2> QED  BY <1>1, <1>4, <2>2 DEF TypeOK, Decided
<1>5. CASE Decided("deny")
  <2>1. control.says \in DenyStatement /\ bindings = BindDeny(edge, control.says)
    BY <1>5, DecidedOutcome
  <2>2. DenyConfidence(control.says) \in Confidence
    BY <2>1 DEF DenyConfidence, DenyStatement, Confidence
  <2>3. bindings \subseteq {[confidence |-> DenyConfidence(control.says), blocking |-> TRUE]}
    BY <2>1 DEF BindDeny, Bound
  <2>4. \A c \in Confidence : [confidence |-> c, blocking |-> TRUE] \in Binding
    BY DEF Binding
  <2>5. bindings \subseteq Binding
    BY <2>2, <2>3, <2>4
  <2> QED  BY <1>1, <1>5, <2>5 DEF TypeOK, Decided
<1> QED  BY <1>1, <1>2, <1>3, <1>4, <1>5 DEF IInv, Decided

(***************************************************************************)
(* Bindings keep their type.                                               *)
(***************************************************************************)
THEOREM BindingsTyped == Spec => []TypeOK
  BY InvHolds, TypeStep, PTL

(***************************************************************************)
(* bind_scp_to_edge: a block bound as certain denies the edge's source     *)
(* under every request, for statements the parser reads in full.           *)
(***************************************************************************)
THEOREM ScpBlocksAreCertain == Spec => []ScpBlockIsCertain
  BY InvHolds, ScpBlockStep, PTL

(***************************************************************************)
(* bind_scp_to_edge: where neither a block nor a doubt is bound, no        *)
(* request is denied, whatever the statement.                              *)
(***************************************************************************)
THEOREM ScpSilencesAreCertain == Spec => []ScpSilenceIsCertain
  BY InvHolds, ScpSilenceStep, PTL

(***************************************************************************)
(* _evaluate_boundary_statements: a block bound as certain is one on every *)
(* reading of the open statements.                                         *)
(***************************************************************************)
THEOREM BoundaryBlocksAreCertain == Spec => []BoundaryBlockIsCertain
  BY InvHolds, BoundaryBlockStep, PTL

(***************************************************************************)
(* _evaluate_boundary_statements: where nothing is open about a Deny, an   *)
(* edge left without block or doubt is permitted on every reading.         *)
(***************************************************************************)
THEOREM BoundaryAllowsAreCertain == Spec => []BoundaryAllowsPlainly
  BY InvHolds, BoundaryAllowStep, PTL

(***************************************************************************)
(* bind_identity_deny_to_edge: certain denies cover the edge and have no   *)
(* condition; one that lists its actions and covers the edge is bound.     *)
(***************************************************************************)
THEOREM DeniesAreBoundRightly == Spec => []DenyBoundRightly
  BY InvHolds, DenyStep, PTL
=============================================================================
