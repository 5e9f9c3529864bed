---------------------------- MODULE ResourceGrants ----------------------------
(***************************************************************************)
(* The reasoners over one permission to one resource:                      *)
(* secrets_blast_radius (GetSecretValue and the key to decrypt with),      *)
(* iam_group_membership_escalation (AddUserToGroup on an admin group) and  *)
(* s3_bucket_takeover (PutBucketPolicy).                                   *)
(***************************************************************************)
EXTENDS GrantGraph

CONSTANT
  Infrastructure    \* principals whose ARN has ":root" or ".amazonaws.com" in
                    \* it: account roots, services, service-linked roles

ReadSecret == "secretsmanager:GetSecretValue"
JoinGroup  == "iam:AddUserToGroup"
PutPolicy  == "s3:PutBucketPolicy"

ReadyFor(G, r) ==
  CASE r = "secrets_blast_radius" -> G.nodes \cap Secrets # {}
    [] r = "iam_group_membership_escalation" -> G.nodes \cap Users # {} /\ G.nodes \cap Groups # {}
    [] r = "s3_bucket_takeover" -> G.nodes \cap Buckets # {} /\ G.nodes \cap Principals # {}

(***************************************************************************)
(* Blocked, then gated by the key, then in doubt.                          *)
(***************************************************************************)
ResourceVerdict(governance, gate, checks) ==
  CASE "FAIL" \in governance                                               -> "BLOCKED"
    [] "FAIL" \notin governance /\ gate = "FAIL"                           -> "PRECONDITION_ONLY"
    [] "FAIL" \notin governance /\ gate # "FAIL" /\ "UNKNOWN" \in checks   -> "INCONCLUSIVE"
    [] OTHER                                                               -> "VALIDATED"

Blockers(e, fields) ==
  LET kind == [scp |-> "scp", boundary |-> "permission_boundary", deny |-> "identity_deny"]
  IN  {kind[f] : f \in {g \in fields : \E b \in e[g] : BlocksForSure(b)}}

-----------------------------------------------------------------------------
(***************************************************************************)
(* secrets_blast_radius: one finding for every edge into a secret whose    *)
(* source is a user or role; hyperedges enter no secret.                   *)
(***************************************************************************)
KeyCheck(G, p, secret) ==
  CASE secret \in G.dangling                                     -> "UNKNOWN"
    [] secret \notin G.dangling /\ G.keyOf[secret] = DefaultKey  -> "PASS"
    [] OTHER                         -> KeyAllowsDecrypt(G.policyOf[G.keyOf[secret]], p)

SecretWitnessCheck(e) == IF UnknownWitness(e) THEN "UNKNOWN" ELSE "PASS"

SecretGovernance(e) ==
  {LikelyBlockerState(e.scp), LikelyBlockerState(e.boundary), BlockerState(e.deny)}

SecretFinding(G, i) ==
  LET e          == G.perm[i]
      key        == KeyCheck(G, e.src, e.dst)
      governance == SecretGovernance(e)
      checks     == governance \cup {"PASS", SecretWitnessCheck(e), key}
      verdict    == ResourceVerdict(governance, key, checks)
  IN  [by |-> "secrets_blast_radius", source |-> e.src, target |-> e.dst, verdict |-> verdict,
       severity |-> CASE verdict = "BLOCKED"   -> "info"
                      [] verdict = "VALIDATED" -> IF AdminEquivalent(G, e.src) THEN "critical" ELSE "high"
                      [] OTHER                 -> "medium",
       checks |-> checks,
       blockers |-> Blockers(e, {"scp", "boundary", "deny"})
                    \cup (IF key = "FAIL" THEN {"kms_key_policy"} ELSE {}),
       grants |-> {i}]

SecretFindings(G) ==
  {SecretFinding(G, i) : i \in {j \in DOMAIN G.perm :
     /\ G.perm[j].action = ReadSecret /\ G.perm[j].dst \in Secrets \cap G.nodes
     /\ G.perm[j].src \in Principals \cap G.nodes}}

-----------------------------------------------------------------------------
(***************************************************************************)
(* The other two pair each source with the targets its grants may mean: a  *)
(* clean one with its own target, the last clean one counting, and a       *)
(* doubtful one with every target not yet paired, the first one counting.  *)
(***************************************************************************)
Greatest(S) == CHOOSE i \in S : \A j \in S : i >= j

SourceGrants(G, p, action) == {i \in DOMAIN G.perm : G.perm[i].src = p /\ G.perm[i].action = action}

CleanFor(G, p, action, target) ==
  {i \in Clean(G, SourceGrants(G, p, action)) : G.perm[i].dst = target}

TargetWitness(G, p, action, target, doubtful) ==
  IF CleanFor(G, p, action, target) # {} THEN Greatest(CleanFor(G, p, action, target))
  ELSE Least(doubtful)

DoubtfulJoins(G, p) ==
  {i \in SourceGrants(G, p, JoinGroup) : UnknownWitness(G.perm[i])}

JoinWitnessCheck(G, p, group) ==
  IF CleanFor(G, p, JoinGroup, group) = {} THEN "UNKNOWN" ELSE "PASS"

JoinGovernance(e) ==
  {LikelyBlockerState(e.scp), LikelyBlockerState(e.boundary), BlockerState(e.deny)}

JoinFinding(G, p, group) ==
  LET i          == TargetWitness(G, p, JoinGroup, group, DoubtfulJoins(G, p))
      e          == G.perm[i]
      governance == JoinGovernance(e)
      checks     == governance \cup {"PASS", JoinWitnessCheck(G, p, group)}
      verdict    == ResourceVerdict(governance, "PASS", checks)
  IN  [by |-> "iam_group_membership_escalation", source |-> p, target |-> group, verdict |-> verdict,
       severity |-> CASE verdict = "BLOCKED" -> "info" [] verdict = "VALIDATED" -> "critical"
                      [] OTHER -> "high",
       checks |-> checks, blockers |-> Blockers(e, {"scp", "boundary", "deny"}), grants |-> {i}]

JoinTargets(G, p) ==
  {g \in Groups \cap G.nodes : CleanFor(G, p, JoinGroup, g) # {} \/ DoubtfulJoins(G, p) # {}}

JoinFindings(G) ==
  {JoinFinding(G, c[1], c[2]) : c \in {d \in (Users \cap G.nodes) \X (Groups \cap G.nodes) :
     d[2] \in JoinTargets(G, d[1]) /\ AdminEquivalent(G, d[2])}}

-----------------------------------------------------------------------------
(***************************************************************************)
(* s3_bucket_takeover: a clean grant to something that is not a bucket     *)
(* node, such as an object, is as doubtful as a wildcard. Identity denies  *)
(* are not looked at.                                                      *)
(***************************************************************************)
DoubtfulPuts(G, p) ==
  {i \in SourceGrants(G, p, PutPolicy) :
     UnknownWitness(G.perm[i]) \/ G.perm[i].dst \notin Buckets \cap G.nodes}

PutDoubtful(G, p, bucket) == CleanFor(G, p, PutPolicy, bucket) = {} \/ bucket \in G.dangling

PutGovernance(e) == {LikelyBlockerState(e.scp), LikelyBlockerState(e.boundary)}

PutFinding(G, p, bucket) ==
  LET i          == TargetWitness(G, p, PutPolicy, bucket, DoubtfulPuts(G, p))
      e          == G.perm[i]
      governance == PutGovernance(e)
      checks     == governance \cup {"PASS"}
                    \cup (IF PutDoubtful(G, p, bucket) THEN {"UNKNOWN"} ELSE {})
      verdict    == ResourceVerdict(governance, "PASS", checks)
  IN  [by |-> "s3_bucket_takeover", source |-> p, target |-> bucket, verdict |-> verdict,
       severity |-> CASE verdict = "BLOCKED" -> "info" [] verdict = "VALIDATED" -> "critical"
                      [] OTHER -> "high",
       checks |-> checks, blockers |-> Blockers(e, {"scp", "boundary"}), grants |-> {i}]

PutTargets(G, p) ==
  {b \in Buckets \cap G.nodes : CleanFor(G, p, PutPolicy, b) # {} \/ DoubtfulPuts(G, p) # {}}

(***************************************************************************)
(* _is_actionable_principal, asked when the other checks are made: what is *)
(* not somebody's to take over has no finding, whatever its grants.        *)
(***************************************************************************)
Actionable(p) == p \notin Infrastructure

PutFindings(G) ==
  {PutFinding(G, c[1], c[2]) : c \in {d \in (Principals \cap G.nodes) \X (Buckets \cap G.nodes) :
     d[2] \in PutTargets(G, d[1]) /\ Actionable(d[1])}}
=============================================================================
