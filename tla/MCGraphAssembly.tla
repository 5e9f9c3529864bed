-------------------------- MODULE MCGraphAssembly --------------------------
(***************************************************************************)
(* Two accounts for model checking the pipeline: A with two roles and a    *)
(* user, B with one role. The collections differ in the trust statements,  *)
(* the grants, the modes, the services, the resource policies and the      *)
(* governance; the limits are small enough that each is met and passed.    *)
(***************************************************************************)
EXTENDS GraphAssembly, TLC

CONSTANTS
  a1, a2, userA, roleB, rootB, ghost, vault, lambda, hyperA, hyperB, acctA, acctB

MCArns == {a1, a2, userA, roleB, rootB, ghost, vault, lambda, hyperA, hyperB}
MCPeople == {a1, a2, userA, roleB}
MCAccounts == {acctA, acctB}
MCActions == {"sts:AssumeRole", "iam:PassRole", "secretsmanager:GetSecretValue", "lambda:InvokeFunction"}
MCHomeOf ==
  [n \in MCArns |-> CASE n \in {a1, a2, userA, hyperA} -> acctA
                      [] n \in {roleB, rootB, hyperB}  -> acctB
                      [] n \in {ghost, vault, lambda}  -> NoAccount]
MCHyperedgeOf == [x \in MCAccounts |-> IF x = acctA THEN hyperA ELSE hyperB]

Trust(src, dst, conditional, from) ==
  [layer |-> "trust", action |-> "sts:AssumeRole", src |-> src, dst |-> dst,
   conditional |-> conditional, from |-> from]

Row(src, conditional, from) ==
  [layer |-> "resource_policy", action |-> "secretsmanager:GetSecretValue", src |-> src,
   dst |-> vault, conditional |-> conditional, from |-> from]

Specific(p, action, target, from) ==
  [principal |-> p, action |-> action, wild |-> FALSE, target |-> target, pattern |-> {},
   conditional |-> FALSE, from |-> from]

Wild(p, action, pattern, from) ==
  [principal |-> p, action |-> action, wild |-> TRUE, target |-> p, pattern |-> pattern,
   conditional |-> FALSE, from |-> from]

-----------------------------------------------------------------------------
(***************************************************************************)
(* Trust: the statements of role a1, one of them twice, its own, the other *)
(* account's role and root, and a stale id; role a2's and roleB's.         *)
(***************************************************************************)
TrustsOfA == {
  <<>>,
  <<<<Trust(userA, a1, FALSE, "t1"), Trust(userA, a1, FALSE, "t1")>>>>,
  <<<<Trust(a1, a1, FALSE, "t2"), Trust(roleB, a1, TRUE, "t3")>>, <<Trust(ghost, a2, TRUE, "t4")>>>>,
  <<<<Trust(rootB, a1, TRUE, "t5"), Trust(userA, a1, FALSE, "t6"), Trust(ghost, a1, FALSE, "t7")>>>>}

GrantsOfA == {
  <<>>,
  <<Wild(userA, "sts:AssumeRole", {a1, a2}, "g1"), Wild(userA, "iam:PassRole", {a1, a2}, "g2")>>,
  <<Wild(userA, "sts:AssumeRole", {a1, a2, roleB}, "g3"), Specific(userA, "sts:AssumeRole", a1, "g4")>>,
  <<Wild(a1, "secretsmanager:GetSecretValue", {vault}, "g5"), Specific(a1, "sts:AssumeRole", roleB, "g6")>>,
  <<Wild(userA, "iam:PassRole", {a1, a2}, "g7"), Specific(userA, "lambda:InvokeFunction", lambda, "g8"),
    Specific(userA, "sts:AssumeRole", a2, "g9"), Specific(userA, "iam:PassRole", a2, "g13")>>}

GrantsOfB == {
  <<>>,
  <<Wild(roleB, "iam:PassRole", {a2, roleB}, "g10")>>,
  <<Specific(roleB, "sts:AssumeRole", a1, "g11"), Specific(roleB, "sts:AssumeRole", a2, "g12")>>}

Modes ==
  {[x \in MCActions |-> m] : m \in {"warn", "skip", "expand"}}

RowSets == {{}, {Row(a1, TRUE, "r1")}, {Row(roleB, FALSE, "r2"), Row(ghost, TRUE, "r3")}}

ServiceEdges == {
  <<>>,
  <<[layer |-> "service", action |-> "lambda:InvokeFunction", src |-> lambda, dst |-> a1,
     conditional |-> FALSE, from |-> "s1"]>>}

(***************************************************************************)
(* Governance that touches something of every layer.                       *)
(***************************************************************************)
DenyAll(attached) ==
  [attached |-> attached,
   says |-> [form |-> "Action", actions |-> MCActions, scope |-> "everything", resources |-> {}, tests |-> {}]]

Plainly(effect, actions) ==
  [effect |-> effect, actions |-> actions, resources |-> MCArns, conditional |-> FALSE, inverted |-> FALSE]

DenyPass ==
  [principal |-> userA, form |-> "Action", actions |-> {"iam:PassRole"}, scope |-> "everything",
   resources |-> {}, conditional |-> FALSE]

A(ta, ga) ==
  [people |-> {a1, a2, userA}, roles |-> {a1, a2}, trusts |-> ta, grants |-> ga]

B(gb) ==
  [people |-> {roleB}, roles |-> {roleB}, trusts |-> <<<<Trust(a1, roleB, FALSE, "t8")>>>>,
   grants |-> gb]

Collected(accounts, mode, rows, services, skipped, included) ==
  [accounts |-> accounts, mode |-> mode, rows |-> rows, services |-> {lambda, vault},
   serviceEdges |-> services, skipped |-> skipped, included |-> included,
   scps |-> {DenyAll({acctB})},
   boundary |-> [p \in {userA} |-> {Plainly("Allow", {"sts:AssumeRole"})}],
   denies |-> {DenyPass}, stale |-> {ghost}]

(***************************************************************************)
(* Both accounts, or A alone because B is skipped or not selected.         *)
(***************************************************************************)
MCInputs ==
  {Collected(<<A(ta, ga), B(gb)>>, mode, rows, services, {}, {}) :
     ta \in TrustsOfA, ga \in GrantsOfA, gb \in GrantsOfB, mode \in Modes, rows \in RowSets,
     services \in ServiceEdges}
  \cup {Collected(<<A(ta, ga)>>, mode, rows, services, skipped, IF skipped = {} THEN {acctA} ELSE {}) :
     ta \in TrustsOfA, ga \in GrantsOfA, mode \in Modes, rows \in RowSets,
     services \in ServiceEdges, skipped \in {{}, {acctB}}}
=============================================================================
