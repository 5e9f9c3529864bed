------------------------------ MODULE KmsPolicy ------------------------------
(***************************************************************************)
(* What the secrets reasoner makes of a KMS key policy: whether it lets a  *)
(* principal decrypt with the key (_kms_policy_allows_decrypt). A policy   *)
(* is its statements in document order.                                    *)
(***************************************************************************)
EXTENDS Verdicts, Sequences

CONSTANTS Users, Roles

Principals == Users \cup Roles

(***************************************************************************)
(* A statement names actions and resources that cover kms:Decrypt and the  *)
(* key or miss them, or names them by exclusion. "principals" are those a  *)
(* Principal element covers, by name, pattern, or as their account's root. *)
(***************************************************************************)
Coverage == {"covers", "misses", "excludes"}

KeyStatement ==
  [effect : {"Allow", "Deny"}, action : Coverage, resource : Coverage,
   principals : SUBSET Principals, notPrincipal : BOOLEAN, conditional : BOOLEAN]

(***************************************************************************)
(* status: a key that was not collected, one whose GetKeyPolicy call       *)
(* failed, one whose policy is empty or not a policy document, or a        *)
(* readable one.                                                           *)
(***************************************************************************)
KeyPolicy ==
  [status : {"missing", "fetch_failed", "unreadable", "readable"}, statements : Seq(KeyStatement)]

Inverted(s) == s.action = "excludes" \/ s.resource = "excludes" \/ s.notPrincipal

(***************************************************************************)
(* The relevance filters. Each dimension named by exclusion counts as      *)
(* possibly covered.                                                       *)
(***************************************************************************)
MayCover(s, p) ==
  /\ s.action # "misses"
  /\ s.notPrincipal \/ p \in s.principals
  /\ s.resource # "misses"

Decides(s, p) == s.effect = "Deny" /\ (Inverted(s) \/ MayCover(s, p))

Certain(s) == ~ Inverted(s) /\ ~ s.conditional

StatementsOf(policy) == {policy.statements[i] : i \in DOMAIN policy.statements}

(***************************************************************************)
(* The pass over the Deny statements stops at the first that is inverted   *)
(* or relevant; only without one are the Allow statements read.            *)
(***************************************************************************)
DenyDecision(policy, p) ==
  LET deciding == {i \in DOMAIN policy.statements : Decides(policy.statements[i], p)}
      first    == CHOOSE i \in deciding : \A j \in deciding : i <= j
  IN  CASE deciding = {}                                                   -> "none"
        [] deciding # {} /\ Certain(policy.statements[first])              -> "FAIL"
        [] OTHER                                                           -> "UNKNOWN"

AllowDecision(policy, p) ==
  LET covering == {s \in StatementsOf(policy) : s.effect = "Allow" /\ MayCover(s, p)}
  IN  CASE \E s \in covering : Certain(s)                        -> "PASS"
        [] covering # {} /\ ~ \E s \in covering : Certain(s)     -> "UNKNOWN"
        [] OTHER                                                 -> "FAIL"

KeyAllowsDecrypt(policy, p) ==
  CASE policy.status # "readable"                                            -> "UNKNOWN"
    [] policy.status = "readable" /\ DenyDecision(policy, p) # "none"        -> DenyDecision(policy, p)
    [] OTHER                                                                 -> AllowDecision(policy, p)
=============================================================================
