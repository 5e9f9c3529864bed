-------------------------- MODULE BindingDecisions --------------------------
(***************************************************************************)
(* One governance statement against one edge: the binding the pipeline     *)
(* exports, against what the statement means. The meaning is AWS's: a Deny *)
(* applies when its action, resource and every test of its condition do,   *)
(* and a boundary permits what some Allow and no Deny applies to. What     *)
(* collection cannot know, such as request context, is resolved in every   *)
(* possible way.                                                           *)
(***************************************************************************)
EXTENDS ControlBinding

CONSTANTS
  Edges,            \* the edges to bind to
  Controls          \* the statements, each [kind |-> ..., says |-> ...]

ASSUME Cases ==
  /\ Edges \subseteq [layer : Layer, action : Actions, src : Arns, dst : Arns, conditional : BOOLEAN]
  /\ \A c \in Controls :
       \/ c.kind = "scp"      /\ c.says \in ScpStatement
       \/ c.kind = "boundary" /\ c.says \subseteq BoundaryStatement
       \/ c.kind = "deny"     /\ c.says \in DenyStatement

VARIABLES
  edge,
  control,
  bindings,         \* what the binder returned
  decided

vars == <<edge, control, bindings, decided>>

Init ==
  /\ edge \in Edges
  /\ control \in Controls
  /\ bindings = {}
  /\ decided = FALSE

Decide(kind, outcome) ==
  /\ ~ decided /\ control.kind = kind
  /\ bindings' = outcome
  /\ decided' = TRUE
  /\ UNCHANGED <<edge, control>>

DecideScp      == Decide("scp", BindScp(edge, control.says))
DecideBoundary == Decide("boundary", BindBoundary(edge, control.says))
DecideDeny     == Decide("deny", BindDeny(edge, control.says))

Next == DecideScp \/ DecideBoundary \/ DecideDeny

Spec == Init /\ [][Next]_vars

-----------------------------------------------------------------------------
TypeOK ==
  /\ edge.layer \in Layer /\ edge.action \in Actions /\ {edge.src, edge.dst} \subseteq Arns
  /\ control.kind \in {"scp", "boundary", "deny"}
  /\ bindings \subseteq Binding /\ (~ decided => bindings = {})
  /\ decided \in BOOLEAN

Decided(kind) == decided /\ control.kind = kind

ClaimsBlock == \E b \in bindings : BlocksForSure(b)

ClaimsNothing == ~ \E b \in bindings : BlocksForSure(b) \/ IsAmbiguous(b)

InResources(s) ==
  CASE s.scope = "everything"  -> TRUE
    [] s.scope = "Resource"    -> edge.dst \in s.resources
    [] s.scope = "NotResource" -> edge.dst \notin s.resources

(***************************************************************************)
(* What an SCP statement means for a principal, the tests that depend on   *)
(* the request holding exactly in "held".                                  *)
(***************************************************************************)
Holds(t, principal, held) ==
  CASE ExceptsPrincipal(t) -> principal \notin t.values
    [] FiltersPrincipal(t) -> principal \in t.values
    [] OTHER               -> t \in held

ScpDenies(s, principal, held) ==
  /\ CASE s.form = "Action"    -> edge.action \in s.actions
       [] s.form = "NotAction" -> edge.action \notin s.actions
       [] s.form = "none"      -> FALSE
  /\ InResources(s)
  /\ \A t \in s.tests : Holds(t, principal, held)

ReadInFull(s) ==
  /\ \A t, u \in {v \in s.tests : FiltersPrincipal(v)} : t = u
  /\ s.scope # "NotResource"

(***************************************************************************)
(* An SCP bound as blocking for sure denies the edge's source, whatever    *)
(* the request: exceptions, filters, unresolved organizations and partial  *)
(* parses included. Holds for the statements the parser reads in full:     *)
(* with one positive aws:PrincipalArn operator at most, and no NotResource *)
(* (README says what is bound of the others).                              *)
(***************************************************************************)
ScpBlockIsCertain ==
  Decided("scp") /\ ClaimsBlock /\ ReadInFull(control.says) =>
    \A held \in SUBSET control.says.tests : ScpDenies(control.says, edge.src, held)

(***************************************************************************)
(* An SCP that leaves no doubt on an edge (no binding, or one that is      *)
(* complete and not blocking) denies its source under no request.          *)
(***************************************************************************)
ScpSilenceIsCertain ==
  Decided("scp") /\ ClaimsNothing =>
    \A held \in SUBSET control.says.tests : ~ ScpDenies(control.says, edge.src, held)

(***************************************************************************)
(* What a boundary permits, the conditional and inverted statements that   *)
(* apply being those in "applying".                                        *)
(***************************************************************************)
Open(boundary) == {s \in boundary : s.inverted \/ (s.conditional /\ Covers(s, edge))}

Applies(s, applying) == IF s.inverted \/ s.conditional THEN s \in applying ELSE Covers(s, edge)

Permits(boundary, applying) ==
  /\ \E s \in boundary : s.effect = "Allow" /\ Applies(s, applying)
  /\ \A s \in boundary : s.effect = "Deny" => ~ Applies(s, applying)

(***************************************************************************)
(* A boundary bound as blocking for sure permits the edge under no reading *)
(* of its conditional and inverted statements.                             *)
(***************************************************************************)
BoundaryBlockIsCertain ==
  Decided("boundary") /\ ClaimsBlock =>
    \A applying \in SUBSET Open(control.says) : ~ Permits(control.says, applying)

(***************************************************************************)
(* A boundary that leaves no doubt on a permission edge permits it under   *)
(* every reading, when none of its Deny statements is itself open: an open *)
(* one is not looked at once a plain Allow has matched.                    *)
(***************************************************************************)
BoundaryAllowsPlainly ==
  /\ Decided("boundary") /\ edge.layer = "permission" /\ ClaimsNothing
  /\ \A s \in Open(control.says) : s.effect = "Allow"
  => \A applying \in SUBSET Open(control.says) : Permits(control.says, applying)

(***************************************************************************)
(* What an identity deny means: of the principal's own requests only.      *)
(***************************************************************************)
DenyCovers(d) ==
  /\ edge.layer = "permission" /\ edge.src = d.principal
  /\ CASE d.form = "Action"    -> edge.action \in d.actions
       [] d.form = "NotAction" -> edge.action \notin d.actions
       [] d.form = "none"      -> FALSE
  /\ InResources(d)

(***************************************************************************)
(* A deny bound as blocking for sure covers the edge and has no condition; *)
(* one that may apply is always bound, when it lists its actions.          *)
(***************************************************************************)
DenyBoundRightly ==
  Decided("deny") =>
    /\ ClaimsBlock => DenyCovers(control.says) /\ ~ control.says.conditional
    /\ DenyCovers(control.says) /\ control.says.form = "Action" => ~ ClaimsNothing

=============================================================================
