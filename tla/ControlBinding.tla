--------------------------- MODULE ControlBinding ---------------------------
(***************************************************************************)
(* How the parsers read a governance statement and how the binders bind it *)
(* to an edge: service control policies, permission boundaries, identity   *)
(* policy denies, conditions of trust and resource policies, and stale     *)
(* principals. A binder returns one binding or none: a set of at most one. *)
(*                                                                         *)
(* A pattern list is the set of what it matches. An edge is a record with  *)
(* at least layer, action, src, dst and conditional.                       *)
(***************************************************************************)
EXTENDS Verdicts

CONSTANTS
  Actions,          \* the actions statements and edges name
  Arns,             \* what an edge starts from or leads to
  Accounts,
  HomeOf,           \* the account in an ARN, or NoAccount where it has none
  NoAccount

ASSUME Homes == NoAccount \notin Accounts /\ HomeOf \in [Arns -> Accounts \cup {NoAccount}]

Layer == {"trust", "permission", "service", "resource_policy"}

Bound(confidence, blocking) == {[confidence |-> confidence, blocking |-> blocking]}

-----------------------------------------------------------------------------
(***************************************************************************)
(* Service control policies: one Deny statement. Its Condition is a set of *)
(* tests, one per operator and key. The parser looks at Resource alone: a  *)
(* statement with NotResource reads as one on everything.                  *)
(***************************************************************************)
PrincipalExceptionOperators == {"ArnNotLike", "StringNotLike"}

PrincipalApplicabilityOperators == {"ArnLike", "StringLike", "ArnEquals", "StringEquals"}

NegationOperators == {"ArnNotLike", "StringNotLike", "StringNotEquals"}

MembershipKeys == {"aws:PrincipalOrgID", "aws:SourceAccount"}

ConditionTest ==
  [operator : PrincipalApplicabilityOperators \cup NegationOperators \cup {"Bool"},
   key : MembershipKeys \cup {"aws:PrincipalArn", "aws:SecureTransport"},
   values : SUBSET Arns]

ActionForm == {"Action", "NotAction", "none"}

ResourceForm == {"everything", "Resource", "NotResource"}

ScpStatement ==
  [form : ActionForm, actions : SUBSET Actions, scope : ResourceForm,
   resources : SUBSET Arns, tests : SUBSET ConditionTest]

ExceptsPrincipal(t) ==
  t.key = "aws:PrincipalArn" /\ t.operator \in PrincipalExceptionOperators

FiltersPrincipal(t) ==
  t.key = "aws:PrincipalArn" /\ t.operator \in PrincipalApplicabilityOperators

ExceptsMembers(t) == t.key \in MembershipKeys /\ t.operator \in NegationOperators

Handled(t) == ExceptsPrincipal(t) \/ FiltersPrincipal(t) \/ ExceptsMembers(t)

ScpParseStatus(s) ==
  CASE s.form = "none" -> "unsupported"
    [] s.form = "NotAction" -> "partial"
    [] s.form = "Action" /\ (s.scope = "Resource" \/ \E t \in s.tests : ~ Handled(t)) -> "partial"
    [] OTHER -> "complete"

ListedActions(s) == IF s.form = "none" THEN {} ELSE s.actions
DeniedActions(s) ==
  CASE s.form = "Action"    -> s.actions
    [] s.form = "NotAction" -> Actions \ s.actions
    [] s.form = "none"      -> {}

ParseScp(s) ==
  [denied     |-> DeniedActions(s),
   resources  |-> IF s.scope = "Resource" THEN s.resources ELSE Arns,
   excepted   |-> UNION {t.values : t \in {u \in s.tests : ExceptsPrincipal(u)}},
   filtered   |-> \E t \in s.tests : FiltersPrincipal(t),
   applicable |-> UNION {t.values : t \in {u \in s.tests : FiltersPrincipal(u)}},
   unresolved |-> \E t \in s.tests : ExceptsMembers(t),
   parse      |-> ScpParseStatus(s)]

(***************************************************************************)
(* bind_scp_to_edge: an exception is looked at before blocking, blocking   *)
(* needs a complete parse, and a block with an unresolved organization or  *)
(* account exception is downgraded.                                        *)
(***************************************************************************)
ParseConfidence(status) ==
  CASE status = "complete"    -> "complete"
    [] status = "partial"     -> "partial"
    [] status = "unsupported" -> "needs_review"

ParsedBlocks(e, c) == c.parse = "complete"
ScpBlocks(e, c) == e.src \notin c.excepted /\ c.parse = "complete"

ScpConfidence(e, c) ==
  IF ScpBlocks(e, c) /\ c.unresolved THEN "needs_review" ELSE ParseConfidence(c.parse)

ScpApplies(e, c) ==
  /\ e.action \in c.denied
  /\ e.dst \in c.resources
  /\ c.filtered => e.src \in c.applicable

BindScp(e, s) ==
  LET c == ParseScp(s)
  IN  IF ScpApplies(e, c) THEN Bound(ScpConfidence(e, c), ScpBlocks(e, c)) ELSE {}

(***************************************************************************)
(* bind_all_scps: a policy attached to some accounts binds to the edges    *)
(* whose source is in one of them; an edge whose source has no account, as *)
(* a wildcard principal, is bound to none.                                 *)
(***************************************************************************)
InScope(e, attached) == HomeOf[e.src] # NoAccount /\ HomeOf[e.src] \in attached

-----------------------------------------------------------------------------
(***************************************************************************)
(* Permission boundaries: the statements of one policy. "inverted" stands  *)
(* for NotAction or NotResource, which the evaluator does not expand.      *)
(***************************************************************************)
BoundaryStatement ==
  [effect : {"Allow", "Deny"}, actions : SUBSET Actions, resources : SUBSET Arns,
   conditional : BOOLEAN, inverted : BOOLEAN]

Covers(s, e) == e.action \in s.actions /\ e.dst \in s.resources

Readable(s) == ~ s.inverted
Plain(s) == ~ s.inverted /\ ~ s.conditional

ConditionalOnly(s, e) == ~ s.inverted /\ s.conditional /\ Covers(s, e)
LeavesOpen(s, e) == s.inverted \/ (s.conditional /\ Covers(s, e))

EvaluateBoundary(e, boundary) ==
  LET matches(effect) == \E s \in boundary : s.effect = effect /\ Plain(s) /\ Covers(s, e)
      open == \E s \in boundary : LeavesOpen(s, e)
  IN  CASE matches("Deny")                                        -> Bound("complete", TRUE)
        [] ~ matches("Deny") /\ matches("Allow")                  -> Bound("complete", FALSE)
        [] ~ matches("Deny") /\ ~ matches("Allow") /\ open        -> Bound("needs_review", FALSE)
        [] ~ matches("Deny") /\ ~ matches("Allow") /\ ~ open      -> Bound("complete", TRUE)

BindBoundary(e, boundary) == IF e.layer = "permission" THEN EvaluateBoundary(e, boundary) ELSE {}

-----------------------------------------------------------------------------
(***************************************************************************)
(* Identity denies: one Deny statement of a policy of one principal. The   *)
(* parser keeps no action for NotAction, and takes NotResource for "*".    *)
(***************************************************************************)
DenyStatement ==
  [principal : Arns, form : ActionForm, actions : SUBSET Actions, scope : ResourceForm,
   resources : SUBSET Arns, conditional : BOOLEAN]

ParseDeny(d) ==
  [denied    |-> IF d.form = "Action" THEN d.actions ELSE {},
   resources |-> IF d.scope = "Resource" THEN d.resources ELSE Arns,
   parse     |-> CASE d.scope = "NotResource" \/ d.form = "none"         -> "unsupported"
                   [] d.scope # "NotResource" /\ d.form = "NotAction"    -> "partial"
                   [] d.scope # "NotResource" /\ d.form = "Action"       -> "complete"]

DenyConfidence(d) ==
  CASE d.conditional                                      -> "needs_review"
    [] ~ d.conditional /\ ParseDeny(d).parse = "complete" -> "complete"
    [] OTHER                                              -> "partial"

MatchesAnyone(e, d) == e.action \in ParseDeny(d).denied /\ e.dst \in ParseDeny(d).resources
MatchesDeny(e, d) ==
  /\ e.src = d.principal
  /\ e.action \in ParseDeny(d).denied /\ e.dst \in ParseDeny(d).resources

BindDeny(e, d) ==
  IF e.layer = "permission" /\ MatchesDeny(e, d) THEN Bound(DenyConfidence(d), TRUE) ELSE {}

-----------------------------------------------------------------------------
(***************************************************************************)
(* Conditions of a trust or resource policy statement are never evaluated; *)
(* a principal that is a bare unique id is stale for sure.                 *)
(***************************************************************************)
BindTrustCondition(e) ==
  IF e.layer = "trust" /\ e.conditional THEN Bound("needs_review", FALSE) ELSE {}

BindCondition(e) ==
  IF e.layer \in {"trust", "resource_policy"} /\ e.conditional
    THEN Bound("needs_review", FALSE) ELSE {}

BindDrift(e, stale) ==
  IF e.layer \in {"trust", "resource_policy"} /\ e.src \in stale
    THEN Bound("complete", TRUE) ELSE {}
=============================================================================
