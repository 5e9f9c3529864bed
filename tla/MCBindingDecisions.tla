------------------------- MODULE MCBindingDecisions -------------------------
(***************************************************************************)
(* Statements and edges for model checking the binders: two roles, one of  *)
(* them excepted by name, the root of their account and a role to assume.  *)
(***************************************************************************)
EXTENDS BindingDecisions, TLC

CONSTANTS p1, p2, rootA, anyone, target, acctA, acctB

MCActions == {"sts:AssumeRole", "iam:PassRole"}
MCArns == {p1, p2, rootA, anyone, target}
MCAccounts == {acctA, acctB}
MCHomeOf == [a \in MCArns |-> IF a = anyone THEN NoAccount ELSE IF a = target THEN acctB ELSE acctA]
MCEdges ==
  [layer : {"trust", "permission"}, action : {"sts:AssumeRole"}, src : {p1, rootA, anyone},
   dst : {target}, conditional : BOOLEAN]

Control(kind, statements) == {[kind |-> kind, says |-> s] : s \in statements}

-----------------------------------------------------------------------------
(***************************************************************************)
(* SCP statements: every action form and scope, with up to two tests drawn *)
(* from each kind the parser tells apart.                                  *)
(***************************************************************************)
Tests ==
  {[operator |-> o, key |-> "aws:PrincipalArn", values |-> v] :
     o \in {"ArnNotLike", "ArnLike", "StringNotEquals"}, v \in {{}, {p1}, {p1, rootA}}} \cup
  {[operator |-> "StringNotLike", key |-> "aws:PrincipalArn", values |-> {rootA}],
   [operator |-> "StringNotEquals", key |-> "aws:PrincipalOrgID", values |-> {}],
   [operator |-> "Bool", key |-> "aws:SecureTransport", values |-> {}]}

AtMostTwo(S) == {{}} \cup {{t, u} : t \in S, u \in S}

Scps ==
  [form : ActionForm, actions : {{"sts:AssumeRole"}, {"iam:PassRole"}}, scope : ResourceForm,
   resources : {{}, {target}}, tests : AtMostTwo(Tests)]

(***************************************************************************)
(* Boundaries: every set of at most two of the sixteen statements that   *)
(* differ in effect, cover, condition and inversion.                       *)
(***************************************************************************)
BoundaryStatements ==
  [effect : {"Allow", "Deny"}, actions : {{"sts:AssumeRole"}, {"iam:PassRole"}},
   resources : {{target}}, conditional : BOOLEAN, inverted : BOOLEAN]

Denies ==
  [principal : {p1, p2}, form : ActionForm,
   actions : {{"sts:AssumeRole"}, {"iam:PassRole"}}, scope : ResourceForm,
   resources : {{}, {target}}, conditional : BOOLEAN]

MCControls ==
  Control("scp", Scps) \cup
  Control("boundary", AtMostTwo(BoundaryStatements)) \cup
  Control("deny", Denies)
=============================================================================
