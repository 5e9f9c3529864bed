----------------------------- MODULE MCLiveProbes -----------------------------
(***************************************************************************)
(* Scenarios, plans and controls for model checking.                       *)
(***************************************************************************)
EXTENDS LiveProbes, TLC

CONSTANTS p1, p2, p3

MCPrincipals == {p1, p2, p3}

Ctl(type, scope, denies, spares, resources) ==
  [type |-> type, scope |-> scope, denies |-> denies, spares |-> spares, resources |-> resources]

\* Controls that govern sts:AssumeRole for every role, and those that miss it
\* by one of the five things the judgement looks at.
Governing ==
  {Ctl("SCP", "ROOT", {"assume"}, {}, {"all"}), Ctl("SCP", "OU", {"assume"}, {}, {}),
   Ctl("SCP", "OU", {}, {"else"}, {"every_role", "one_role"})}

Harmless ==
  {Ctl("other", "ROOT", {"assume"}, {}, {"all"}), Ctl("SCP", "ACCOUNT", {"assume"}, {}, {"all"}),
   Ctl("SCP", "ROOT", {"else"}, {"else"}, {"all"}), Ctl("SCP", "OU", {}, {"assume"}, {"all"}),
   Ctl("SCP", "ROOT", {"assume"}, {}, {"one_role"})}

Hop(s, d, governed) ==
  <<[kind |-> "permission", src |-> s, dst |-> d, controls |-> governed[1]],
    [kind |-> "trust", src |-> s, dst |-> d, controls |-> governed[2]]>>

Stray(s, d, kind) == <<[kind |-> kind, src |-> s, dst |-> d, controls |-> {}]>>

\* One hop behind an edge of another kind or of the federated kind, and, for
\* the plans that name a source only, a second hop.
Graphs(governed) ==
  {Stray(p1, p2, "other") \o Hop(p1, p2, governed), Hop(p1, p2, governed) \o Hop(p1, p3, <<{}, {}>>),
   Stray(p3, p2, "federated_trust") \o Hop(p1, p2, governed)}

Ungoverned == <<{}, {}>>

Probe(mode, edge, s, d) == [mode |-> mode, edge |-> edge, source |-> s, target |-> d]

Pairs(items) == {<<a, b>> : a \in items, b \in items}

\* The modes on the two halves of a hop, and twice on one half.
HalfProbes(m) == {Probe(m, 2, Nobody, Nobody), Probe(m, 3, Nobody, Nobody)}

HalfPlans ==
  Pairs(HalfProbes("simulator") \cup HalfProbes("runtime") \cup HalfProbes("both") \cup HalfProbes("confounded_skip"))

\* Items that name ends instead of an edge, or an edge that is not there.
SearchPlans ==
  {<<Probe(m, e, s, d)>> : m \in {"runtime", "both"}, e \in {0, 9}, s \in {p1, p3, Nobody}, d \in {p2, p3, Nobody}}

Case(edges, plan, respect) == [edges |-> edges, plan |-> plan, respect |-> respect]

MCCases ==
  {Case(Stray(p1, p2, "other") \o Hop(p1, p2, Ungoverned), plan, FALSE) : plan \in HalfPlans}
    \cup {Case(g, plan, FALSE) : g \in Graphs(Ungoverned), plan \in SearchPlans}
    \cup {Case(Stray(p1, p2, "other") \o Hop(p1, p2, <<a, b>>), plan, respect) :
            a \in {{c} : c \in Governing \cup Harmless}, b \in {{}, Governing}, respect \in BOOLEAN,
            plan \in {<<Probe(m, 0, p1, p2)>> \o rest :
                        m \in {"simulator", "both"}, rest \in {<<>>, <<Probe("runtime", 3, p1, p2)>>}}}

\* A runtime probe of the permission half alone.
MCHalves == {Case(Hop(p1, p2, Ungoverned), <<Probe("runtime", 0, p1, p2)>>, FALSE)}
=============================================================================
