----------------------------- MODULE FactGraph -----------------------------
(***************************************************************************)
(* The frozen fact graph a reasoner reads: IAM users and roles, the        *)
(* sts:AssumeRole permission edges that leave them, the trust edges that   *)
(* enter a role, what governance constraints and probe records are bound   *)
(* to each edge, and which roles are admin-equivalent.                     *)
(*                                                                         *)
(* The graph is built once, sorted by edge id, and never written again.    *)
(* Permission and trust edges are sequences in that order: an edge is its  *)
(* index, and "the first admitting edge" is the one of smallest index.     *)
(***************************************************************************)
EXTENDS Verdicts, Sequences

CONSTANTS
  Users,            \* IAMUser nodes
  Roles,            \* IAMRole nodes
  Accounts,         \* AWS accounts; as a trust principal, the account root
  AccountOf,        \* the account a user or role belongs to
  HyperNode,        \* dst of a wildcard grant whose expansion was suppressed
  AnyPrincipal,     \* the principal of a trust statement on Principal: "*"
  NoWitness         \* what find_admin_witness_edge returns for a plain role

Principals == Users \cup Roles

TrustPrincipal == Principals \cup Accounts \cup {AnyPrincipal}

ASSUME DistinctNodes ==
  /\ Users \cap Roles = {}
  /\ Principals \cap Accounts = {}
  /\ AnyPrincipal \notin Principals \cup Accounts
  /\ HyperNode \notin Roles
  /\ AccountOf \in [Principals -> Accounts]

-----------------------------------------------------------------------------
(***************************************************************************)
(* Edges. "ambiguous" stands for is_wildcard_resource or has_conditions on *)
(* a permission edge, and for has_conditions on a trust edge. A trust      *)
(* edge's action is the action of the trust statement it comes from: the   *)
(* resolver builds "<action>_trust" edges for sts:AssumeRole and for other *)
(* sts actions alike. "pinned" are the roles a conditioned account-root    *)
(* trust names exactly in aws:PrincipalArn, with nothing else in its       *)
(* conditions or bindings left open.                                       *)
(***************************************************************************)
AssumeRole == "sts:AssumeRole"

TrustAction == {AssumeRole, "sts:TagSession"}

PermissionEdge ==
  [src : Principals, dst : Roles \cup {HyperNode}, ambiguous : BOOLEAN,
   scp : SUBSET Binding, boundary : SUBSET Binding, deny : SUBSET Binding,
   probes : Seq(ProbeRecord)]

TrustEdge ==
  [src : TrustPrincipal, dst : Roles, action : TrustAction, ambiguous : BOOLEAN,
   pinned : SUBSET Roles, scp : SUBSET Binding, drift : SUBSET Binding,
   probes : Seq(ProbeRecord)]

(***************************************************************************)
(* The admin-witness edge of an admin-equivalent role: whether it comes    *)
(* from the AWS-managed AdministratorAccess policy, and what permission    *)
(* boundaries are bound to it.                                             *)
(***************************************************************************)
AdminWitness == [managed : BOOLEAN, boundary : SUBSET Binding]

FactGraphs ==
  [perm : Seq(PermissionEdge), trust : Seq(TrustEdge),
   admin : [Roles -> AdminWitness \cup {NoWitness}], budgetExhausted : BOOLEAN]

-----------------------------------------------------------------------------
(***************************************************************************)
(* Lookups.                                                                *)
(***************************************************************************)
IsAdmin(G, p) == p \in Roles /\ G.admin[p] # NoWitness

PermissionEdgesFrom(G, p) == {i \in DOMAIN G.perm : G.perm[i].src = p}

TrustPolicyOf(G, r) == {j \in DOMAIN G.trust : G.trust[j].dst = r}

(***************************************************************************)
(* has_action(p, "sts:AssumeRole") with its default resource pattern "*":  *)
(* FAIL exactly when no permission edge leaves p.                          *)
(***************************************************************************)
UnknownPermission(e) == e.dst = HyperNode \/ e.ambiguous

UnknownTrust(e) == e.src = AnyPrincipal \/ e.ambiguous

HasAssumeRole(G, p) ==
  CASE PermissionEdgesFrom(G, p) = {} -> "FAIL"
    [] \E i \in PermissionEdgesFrom(G, p) : ~ UnknownPermission(G.perm[i]) -> "PASS"
    [] OTHER -> "UNKNOWN"

(***************************************************************************)
(* find_admitting_trust_edge(current_arn = p, next_arn = r): the first     *)
(* trust edge into r, whatever its action, whose principal is p itself,    *)
(* the root of p's account, or everyone. AdmittingTrustEdges is the set it *)
(* picks the first of; the empty set is its None.                          *)
(***************************************************************************)
Admits(e, p) ==
  \/ e.src = p
  \/ e.src \in Accounts /\ e.src = AccountOf[p]
  \/ e.src = AnyPrincipal

AdmittingTrustEdges(G, p, r) == {j \in TrustPolicyOf(G, r) : Admits(G.trust[j], p)}

IsFirst(i, S) == i \in S /\ \A k \in S : i <= k

(***************************************************************************)
(* A hop of a walk: a permission edge and the trust edge that admits it.   *)
(***************************************************************************)
Hop == [perm : Nat, trust : Nat]

PermsOf(G, hops) == {G.perm[h.perm] : h \in hops}

TrustsOf(G, hops) == {G.trust[h.trust] : h \in hops}

HopsOf(chain) == {chain[k] : k \in DOMAIN chain}

(***************************************************************************)
(* probe_records_for_edge: an edge's records oldest first; only the last   *)
(* one is assessed.                                                        *)
(***************************************************************************)
LatestProbe(e) == IF e.probes = <<>> THEN {} ELSE {e.probes[Len(e.probes)]}
=============================================================================
