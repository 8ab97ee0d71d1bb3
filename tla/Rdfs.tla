---------------------------------- MODULE Rdfs -----------------------------------
(***************************************************************************)
(* The RDFS rules of the workers (rdfs.rs, materialize): what the start of *)
(* a materialization and one cycle of it add to a graph.  A graph is a set *)
(* of triples <<subject, predicate, object>>.                              *)
(***************************************************************************)
CONSTANTS
    Literals,  \* terms that cannot be subjects
    Numeric    \* the value of every numeric literal

Term(name) == <<name, 0>>

RDF_TYPE == Term("rdf:type")
RDF_PROPERTY == Term("rdf:Property")
RDFS_RESOURCE == Term("rdfs:Resource")
RDFS_CLASS == Term("rdfs:Class")
RDFS_DOMAIN == Term("rdfs:domain")
RDFS_RANGE == Term("rdfs:range")
RDFS_SUBPROPERTY == Term("rdfs:subPropertyOf")
RDFS_SUBCLASS == Term("rdfs:subClassOf")
RDFS_MEMBER == Term("rdfs:member")
RDFS_CONTAINER_MEMBERSHIP == Term("rdfs:ContainerMembershipProperty")
RDFS_DATATYPE == Term("rdfs:Datatype")
RDFS_LITERAL == Term("rdfs:Literal")

\* The terms that the rules know.
Vocabulary ==
    {RDF_TYPE, RDF_PROPERTY, RDFS_RESOURCE, RDFS_CLASS, RDFS_DOMAIN, RDFS_RANGE, RDFS_SUBPROPERTY,
     RDFS_SUBCLASS, RDFS_MEMBER, RDFS_CONTAINER_MEMBERSHIP, RDFS_DATATYPE, RDFS_LITERAL}

With(G, predicate) == {t \in G : t[2] = predicate}
Instances(G, class) == {t \in With(G, RDF_TYPE) : t[3] = class}

\* Numeric literals of equal value replace each other, once and before all rules.
SameValue(l, m) == l \in DOMAIN Numeric /\ m \in DOMAIN Numeric /\ Numeric[l] = Numeric[m]
Substitutions(G) ==
    UNION {{<<t[1], t[2], u[3]>> : u \in {v \in G : SameValue(t[3], v[3])}} : t \in G}

\* Only what is there then becomes a resource.
Resources(G) ==
    {<<t[1], RDF_TYPE, RDFS_RESOURCE>> : t \in G}
        \cup {<<t[3], RDF_TYPE, RDFS_RESOURCE>> : t \in {u \in G : u[3] \notin Literals}}

\* Mutant: numeric literals are replaced by one of their value.
StartNormalized(G) ==
    LET OneOf(l) == IF l \in DOMAIN Numeric THEN CHOOSE m \in {t[3] : t \in G} : SameValue(l, m) ELSE l
        initial == {<<t[1], t[2], OneOf(t[3])>> : t \in G}
    IN  initial \cup Resources(initial)

Start(G) == LET initial == G \cup Substitutions(G) IN initial \cup Resources(initial)

\* The rules of a cycle.
Predicates(G) == {<<t[2], RDF_TYPE, RDF_PROPERTY>> : t \in G}
Domains(G) == UNION {{<<t[1], RDF_TYPE, d[3]>> : t \in With(G, d[1])} : d \in With(G, RDFS_DOMAIN)}
Ranges(G) ==
    UNION {{<<t[3], RDF_TYPE, r[3]>> : t \in {u \in With(G, r[1]) : u[3] \notin Literals}} : r \in With(G, RDFS_RANGE)}
Inherited(G) ==
    (UNION {{<<t[1], s[3], t[3]>> : t \in With(G, s[1])} : s \in With(G, RDFS_SUBPROPERTY)})
        \cup (UNION {{<<t[1], RDF_TYPE, s[3]>> : t \in Instances(G, s[1])} : s \in With(G, RDFS_SUBCLASS)})
Transitive(G, relation) ==
    UNION {{<<s[1], relation, u[3]>> : u \in {v \in With(G, relation) : v[1] = s[3]}} : s \in With(G, relation)}
Reflexive(G) ==
    {<<t[1], RDFS_SUBPROPERTY, t[1]>> : t \in Instances(G, RDF_PROPERTY)}
        \cup {<<t[1], RDFS_SUBCLASS, t[1]>> : t \in Instances(G, RDFS_CLASS)}
Roots(G) ==
    {<<t[1], RDFS_SUBCLASS, RDFS_RESOURCE>> : t \in Instances(G, RDFS_CLASS)}
        \cup {<<t[1], RDFS_SUBPROPERTY, RDFS_MEMBER>> : t \in Instances(G, RDFS_CONTAINER_MEMBERSHIP)}
        \cup {<<t[1], RDFS_SUBCLASS, RDFS_LITERAL>> : t \in Instances(G, RDFS_DATATYPE)}

\* One turn of the loop, from one snapshot.
Turn(G) ==
    G \cup Predicates(G) \cup Domains(G) \cup Ranges(G) \cup Inherited(G)
      \cup Transitive(G, RDFS_SUBPROPERTY) \cup Transitive(G, RDFS_SUBCLASS) \cup Reflexive(G) \cup Roots(G)
=============================================================================
