---------------------------- MODULE GrantGraph ----------------------------
(***************************************************************************)
(* The part of the frozen fact graph that the reasoners over single grants *)
(* read: permission edges from users, roles and groups to a resource, what *)
(* governance constraints are bound to them, which roles a service may     *)
(* assume, and the resources that were collected.                          *)
(*                                                                         *)
(* Permission edges are a sequence in edge-id order; an edge is its index. *)
(* One policy statement makes one edge, so a source may have several edges *)
(* for one action and resource, which differ in how they were granted.     *)
(***************************************************************************)
EXTENDS KmsPolicy

CONSTANTS
  Groups,
  Secrets, Buckets,
  Others,           \* functions, task definitions and other resources
  Keys,             \* KMS keys
  DefaultKey,       \* what a secret without a key of its own is encrypted with
  Services,         \* the service principals a role may trust
  HyperNode,        \* dst of a wildcard grant whose expansion was suppressed
  Actions,          \* "*", "iam:*" and "<service>:<name>" actions
  ServiceOf         \* the part of an action before the colon

Resources == Secrets \cup Buckets \cup Others

AnyResource == "*"

ASSUME GrantNodes ==
  /\ Users \cap Roles = {}
  /\ HyperNode \notin Users \cup Roles \cup Groups \cup Resources
  /\ AnyResource \notin Users \cup Roles \cup Groups \cup Resources
  /\ Groups \cap Resources = {}
  /\ DefaultKey \notin Keys
  /\ DOMAIN ServiceOf = Actions
  /\ {"lambda", "ecs-tasks"} \subseteq Services

(***************************************************************************)
(* A condition test of a grant. One on iam:PassedToService with operator   *)
(* StringEquals or StringLike names the services it lets through; the      *)
(* reasoners read no other test ("key" or "operator" is then "other").     *)
(***************************************************************************)
Test == [key : {"iam:PassedToService", "other"}, operator : {"supported", "other"},
         services : SUBSET Services]

(***************************************************************************)
(* scope: the statement names the resource, a pattern it matches, or "*"   *)
(* (is_wildcard_resource for the last two). via: action_matched_via.       *)
(***************************************************************************)
Grant ==
  [src : Principals \cup Groups, action : Actions,
   dst : Roles \cup Groups \cup Resources \cup {HyperNode},
   scope : {"exact", "pattern", "star"}, via : {"exact", "wildcard_iam", "wildcard_star"},
   tests : SUBSET Test, scp : SUBSET Binding, boundary : SUBSET Binding, deny : SUBSET Binding]

(***************************************************************************)
(* nodes: what the graph has a node for. dangling: nodes made up for a     *)
(* reference to something that was not collected. trusts: the Allow trust  *)
(* edges from service principals. keyOf: the key a secret cites.           *)
(***************************************************************************)
GrantGraphs ==
  [nodes : SUBSET (Principals \cup Groups \cup Resources), dangling : SUBSET Resources,
   perm : Seq(Grant), trusts : [Services -> SUBSET Roles], budgetExhausted : BOOLEAN,
   keyOf : [Secrets -> Keys \cup {DefaultKey}], policyOf : [Keys -> KeyPolicy]]

-----------------------------------------------------------------------------
(***************************************************************************)
(* Lookups. With the pattern "*" every edge for the action matches; with a *)
(* resource, the edges to it and the hyperedges do.                        *)
(***************************************************************************)
ResourceMatches(e, resource) == resource = AnyResource \/ e.dst \in {resource, HyperNode}

GrantsOf(G, p, action, resource) ==
  {i \in DOMAIN G.perm : /\ G.perm[i].src = p /\ G.perm[i].action = action
                         /\ ResourceMatches(G.perm[i], resource)}

UnknownWitness(e) == e.dst = HyperNode \/ e.scope # "exact" \/ e.tests # {}

Clean(G, S) == {i \in S : ~ UnknownWitness(G.perm[i])}

HasAction(G, p, action) ==
  LET matching == GrantsOf(G, p, action, AnyResource)
  IN  CASE matching = {}                               -> "FAIL"
        [] matching # {} /\ Clean(G, matching) # {}    -> "PASS"
        [] OTHER                                       -> "UNKNOWN"

(***************************************************************************)
(* _find_witness_edge: the first clean grant, else the first of any kind.  *)
(***************************************************************************)
Least(S) == CHOOSE i \in S : \A j \in S : i <= j

AnyWitness(G, matching) == Least(matching)
Witness(G, matching) ==
  IF Clean(G, matching) # {} THEN Least(Clean(G, matching)) ELSE Least(matching)

(***************************************************************************)
(* _check_scp_blockers and _check_boundary_blockers of the three resource  *)
(* reasoners pass over what does not block, doubtful or not; those of the  *)
(* PassRole reasoners, and every identity-deny check, are BlockerState.    *)
(***************************************************************************)
LikelyBlockerState(bindings) == BlockerState({b \in bindings : b.blocking})

-----------------------------------------------------------------------------
(***************************************************************************)
(* find_admin_witness_edge: "*" or "iam:*" granted as such; "*" expanded   *)
(* over every resource; "iam:*" so expanded into two actions at least; or  *)
(* hyperedges for three services at least.                                 *)
(***************************************************************************)
AdminEquivalent(G, n) ==
  LET granted  == {G.perm[i] : i \in {j \in DOMAIN G.perm : G.perm[j].src = n}}
      over(v)  == {e \in granted : e.scope = "star" /\ e.via = v}
      iam      == {e.action : e \in {f \in over("wildcard_iam") : ServiceOf[f.action] = "iam"}}
      services == {ServiceOf[e.action] : e \in {f \in granted : f.dst = HyperNode}}
  IN  \/ \E e \in granted : e.action \in {"*", "iam:*"}
      \/ over("wildcard_star") # {}
      \/ \E a, b \in iam : a # b
      \/ \E a, b, c \in services : a # b /\ b # c /\ a # c

(***************************************************************************)
(* A finding, with the grants it rests on.                                 *)
(***************************************************************************)
PassRoleReasoners == {"passrole_lambda", "passrole_ecs"}

Reasoners ==
  PassRoleReasoners \cup
  {"secrets_blast_radius", "iam_group_membership_escalation", "s3_bucket_takeover"}

GrantFinding ==
  [by : Reasoners, source : Principals, target : Roles \cup Groups \cup Resources,
   verdict : Verdict, severity : {"info", "medium", "high", "critical"},
   checks : SUBSET CheckState,
   blockers : SUBSET {"scp", "permission_boundary", "identity_deny", "passed_to_service", "kms_key_policy"},
   grants : SUBSET Nat]
=============================================================================
