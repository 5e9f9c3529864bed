---------------------------- MODULE TrustPolicies ----------------------------
(***************************************************************************)
(* Trust policies: how the principals of a statement are resolved, which   *)
(* conditions are recognised, and how exposed a grant is classified        *)
(* (parser/trust_policy.py, parser/condition_extractor.py,                 *)
(* resolver/naked_trust.py).                                               *)
(***************************************************************************)
EXTENDS Verdicts, Sequences

CONSTANTS Accounts, NoAccount, Names, NoName

ASSUME TrustAccounts == NoAccount \notin Accounts /\ NoName \in Names

(***************************************************************************)
(* A principal as written. "other" is an IAM resource that is no root,     *)
(* role or user; "unique_id" is what AWS leaves of a deleted principal;    *)
(* "unrecognized" is a value that may still hold an account number.        *)
(***************************************************************************)
AwsForms ==
  {"*", "account_id", "root", "role", "user", "session", "saml", "other", "unique_id", "unrecognized"}

Forms == AwsForms \cup {"service", "federated_saml", "oidc"}

Written == [form : Forms, account : Accounts \cup {NoAccount}, name : Names]

PrincipalType ==
  {"wildcard", "root", "role", "user", "saml", "oidc", "service", "external"}

Principal == [type : PrincipalType, account : Accounts \cup {NoAccount}, name : Names]

(***************************************************************************)
(* _resolve_aws_principal and its siblings. An assumed-role session stands *)
(* for its role, and a bare account number for the account's root.         *)
(***************************************************************************)
TypeOfForm(form) ==
  CASE form = "*"                              -> "wildcard"
    [] form \in {"account_id", "root"}         -> "root"
    [] form \in {"role", "session"}            -> "role"
    [] form \in {"user", "other"}              -> "user"
    [] form \in {"saml", "federated_saml"}     -> "saml"
    [] form \in {"unique_id", "unrecognized"}  -> "external"
    [] OTHER                                   -> form

Resolve(w) ==
  [type |-> TypeOfForm(w.form), account |-> w.account,
   name |-> IF w.form \in {"*", "account_id", "root"} THEN NoName ELSE w.name]

ScopeOf(type) ==
  CASE type = "wildcard"              -> "any_aws_principal"
    [] type \in {"root", "external"}  -> "account_root"
    [] type = "role"                  -> "specific_role"
    [] type = "user"                  -> "specific_user"
    [] type = "service"               -> "service"
    [] OTHER                          -> "federated"

\* Mutated form of CrossAccount: a principal without an account is always near.
NamedAccountCrosses(p, home) ==
  /\ ScopeOf(p.type) \notin {"any_aws_principal", "service", "federated"}
  /\ p.account \notin {NoAccount, home}

(***************************************************************************)
(* _is_cross_account: a principal without an account counts as near.       *)
(***************************************************************************)
CrossAccount(p, home) ==
  \/ ScopeOf(p.type) = "any_aws_principal"
  \/ /\ ScopeOf(p.type) \notin {"any_aws_principal", "service", "federated"}
     /\ p.account \notin {NoAccount, home}

-----------------------------------------------------------------------------
(***************************************************************************)
(* Conditions. Of the condition block the parser keeps which kinds of keys *)
(* occur under any operator, a negated one included; "unread" stands for   *)
(* the keys no flag exists for. "sub" is the OIDC subject pattern.         *)
(***************************************************************************)
StrongKeys == {"org_id", "mfa"}
WeakKeys == {"external_id", "source_ip", "source_vpc", "source_account"}
MeaningfulKeys == StrongKeys \cup WeakKeys

Test == [key : MeaningfulKeys \cup {"unread"}, negated : BOOLEAN]

\* Mutated form of Flags: the MFA key has no flag.
FlagsButMfa(tests) == {t.key : t \in tests} \cap (MeaningfulKeys \ {"mfa"})

Flags(tests) == {t.key : t \in tests} \cap MeaningfulKeys

TrustActions == {"sts:AssumeRole", "sts:AssumeRoleWithWebIdentity", "sts:AssumeRoleWithSAML"}

(***************************************************************************)
(* A statement with NotPrincipal, or without one, has no principals. An    *)
(* action may be a pattern such as "sts:*".                                *)
(***************************************************************************)
Statement ==
  [effect : {"Allow", "Deny"}, principals : SUBSET Written,
   actions : SUBSET (TrustActions \cup {"sts:*", "sts:TagSession"}),
   tests : SUBSET Test, sub : {"none", "star", "pattern"}]

Policy == [readable : BOOLEAN, statements : Seq(Statement)]

(***************************************************************************)
(* parse_trust_policy: one result for every Allow statement, principal and *)
(* action. An unreadable document gives none, and a recorded failure.      *)
(***************************************************************************)
StatementResults(role, i, s) ==
  { [statement |-> i, src |-> Resolve(x[1]), dst |-> role, action |-> x[2],
     cross |-> CrossAccount(Resolve(x[1]), role.account), flags |-> Flags(s.tests),
     conditional |-> s.tests # {} \/ s.sub # "none",
     sub |-> IF Resolve(x[1]).type = "oidc" THEN s.sub ELSE "none"] :
      x \in s.principals \X s.actions }

Results(role, policy) ==
  IF policy.readable
    THEN UNION {StatementResults(role, i, policy.statements[i]) :
                  i \in {j \in DOMAIN policy.statements : policy.statements[j].effect = "Allow"}}
  ELSE {}

-----------------------------------------------------------------------------
(***************************************************************************)
(* classify_naked_trust. Two weak conditions count as a strong one.        *)
(***************************************************************************)
Strong(flags) ==
  \/ flags \cap StrongKeys # {}
  \/ \E a, b \in flags \cap WeakKeys : a # b

ClassifyOidc(sub) == IF sub \in {"none", "star"} THEN "BROAD_NAKED" ELSE "CONDITIONED"

ClassifyForeign(scope, flags) ==
  CASE scope = "any_aws_principal" /\ flags = {}   -> "CRITICAL_NAKED"
    [] scope = "any_aws_principal" /\ flags # {}   -> "BROAD_NAKED"
    [] scope = "account_root" /\ flags = {}        -> "BROAD_NAKED"
    [] scope # "any_aws_principal" /\ Strong(flags) -> "CONDITIONED"
    [] OTHER                                       -> "NARROW_NAKED"

Classify(result) ==
  CASE result.src.type = "oidc"                      -> ClassifyOidc(result.sub)
    [] result.src.type # "oidc" /\ ~ result.cross    -> "INTRA_ACCOUNT"
    [] OTHER -> ClassifyForeign(ScopeOf(result.src.type), result.flags)
=============================================================================
