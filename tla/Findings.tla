------------------------------ MODULE Findings ------------------------------
(* What the catalogers report (model/, catalogers/common.py): claims that a
   component exists, edges between references; and how reconcile resolves the
   references (core/reconcile.py). *)
EXTENDS Naturals, FiniteSets, Sequences

CONSTANT Version
ASSUME VersionsAreNumbers == Version \subseteq Nat \ {0}

None == "none"
\* The same package in any version (family_key); a reference has no namespace.
Family(eco, ns, name) == [eco |-> eco, ns |-> ns, name |-> name]
Called(family) == <<family.eco, family.name>>
Root == Family("project", None, "root")
Tier == [INFERRED |-> 1, DECLARED |-> 2, LOCKED |-> 3, INSTALLED |-> 4]

Claim(p, tier, marks) == [name |-> p[1], ver |-> p[2], tier |-> tier, marks |-> marks]
Declared(name) == [name |-> name, ver |-> 0, tier |-> Tier.DECLARED, marks |-> {}]

RefPurl(p) == <<"purl", p[1], p[2]>>
RefFamily(family) == <<"family", Called(family), 0>>
RefClaim(family) == <<"claim", family, 0>>
RefProject(dir) == <<"project", dir, 0>>

Edge(src, dst, scope, direct) == [src |-> src, dst |-> dst, scope |-> scope, direct |-> direct]
DirectEdge(project, dst, scope) == Edge(RefProject(project), dst, scope, TRUE)

Found(claims, edges) == [claims |-> claims, edges |-> edges]
Nothing == Found({}, {})
Both(one, other) == Found(one.claims \cup other.claims, one.edges \cup other.edges)

\* The components of a set of claims: a claim without a version joins the one
\* version of its family, and stands alone when there are none or several.
VersionsOf(claims, name) == {c.ver : c \in {d \in claims : d.name = name}} \ {0}
Components(claims) ==
    {<<c.name, c.ver>> : c \in {d \in claims : d.ver # 0 \/ Cardinality(VersionsOf(claims, d.name)) # 1}}
TopTier(claims, p) ==
    CHOOSE t \in {c.tier : c \in claims} :
       /\ \E c \in claims : c.name = p[1] /\ c.ver = p[2] /\ c.tier = t
       /\ \A c \in claims : c.name = p[1] /\ c.ver = p[2] => c.tier <= t

\* resolve_ref: of a family with several versions the one of the highest tier,
\* then of the greatest version.
ResolveFamily(claims, name) ==
    LET candidates == {p \in Components(claims) : Called(p[1]) = name}
        rank(p) == <<TopTier(claims, p), p[2]>>
        above(p, q) == rank(p)[1] > rank(q)[1] \/ (rank(p)[1] = rank(q)[1] /\ p[2] >= q[2])
    IN  {p \in candidates : \A q \in candidates : above(p, q)}

Resolve(claims, ref) ==
    CASE ref[1] = "project" -> {ref}
      [] ref[1] = "purl" -> {p \in Components(claims) : p = <<ref[2], ref[3]>>}
      [] ref[1] = "claim" ->
           {p \in Components(claims) : p[1] = ref[2] /\ (p[2] = 0 \/ Cardinality(VersionsOf(claims, ref[2])) = 1)}
      [] ref[1] = "family" -> ResolveFamily(claims, ref[2])

\* The edges that reconcile keeps: both ends resolve, and they differ.
Graph(found) ==
    {e \in UNION {Resolve(found.claims, d.src) \X Resolve(found.claims, d.dst) \X {d.scope} \X {d.direct}
                    : d \in found.edges} : e[1] # e[2]}
=============================================================================
