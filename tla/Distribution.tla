------------------------------ MODULE Distribution -------------------------------
(***************************************************************************)
(* Where the data of a scenario is and where its queries go: the fragments *)
(* of all hosts (experiment.py, partition_dataset; partition.rs), their    *)
(* materialization (Rdfs), and the hosts a query is sent to                *)
(* (query_execution.py, select_hosts).                                     *)
(*                                                                         *)
(* The materializations of the hosts are independent of each other and are *)
(* taken turn by turn together, with two that no host does: of the whole   *)
(* dataset and of the dataset without users, the references.               *)
(***************************************************************************)
EXTENDS Integers, SequencesExt, Rdfs

CONSTANTS
    Hosts,          \* the sequence of the active hosts
    Whole, Common,  \* the references
    Base,           \* ontology/benchmark/base.nt
    UsersPerNode,   \* users for each synthetic edge node
    MaxUsers        \* bound of the model

ASSUME DistributionAssumption ==
    /\ Hosts \in Seq(ToSet(Hosts)) /\ Hosts # <<>>
    /\ Whole \notin ToSet(Hosts) /\ Common \notin ToSet(Hosts) /\ Whole # Common
    /\ UsersPerNode \in Nat \ {0} /\ MaxUsers \in Nat

VARIABLES
    tier,    \* tier of every host
    layout,  \* "distributed" or "replicated"
    users,   \* users of the scenario
    graph,   \* graph of every host and every reference
    stage    \* "partitioned", "reasoning" or "ready"

vars == <<tier, layout, users, graph, stage>>

Tiers == {"cloud", "fog", "mist", "edge"}
SharedKinds == {"edge", "node-state"}
UserKinds == {"user", "wearable", "consent-record"}
Layouts == {"distributed", "replicated"}

-----------------------------------------------------------------------------
(***************************************************************************)
(* The dataset: the base and, as far as the properties tell them apart,    *)
(* the facts of the generator.                                             *)
(***************************************************************************)
NodeFacts(n) ==
    LET edge == <<"edge", n>>  state == <<"node-state", n>> IN
    {<<edge, RDF_TYPE, Term("EdgeNode")>>,
     <<edge, Term("hasNodeState"), state>>,
     <<state, Term("queuedRequests"), Term("2")>>}

ConsentRanges == <<Term("RangeLocalOnly"), Term("RangeCommunityAgg"), Term("RangeGlobalAgg")>>
UserFacts(i, nodes) ==
    LET user == <<"user", i>>  wearable == <<"wearable", i>>  consent == <<"consent-record", i>> IN
    {<<user, RDF_TYPE, Term("User")>>,
     <<user, Term("hasActiveConsentRange"), ConsentRanges[(i % 3) + 1]>>,
     <<user, Term("hasConsentRecord"), consent>>,
     <<wearable, Term("isAttachedTo"), user>>,
     <<consent, Term("consentSubject"), user>>,
     <<wearable, Term("connectsTo"), <<"edge", i % nodes>>>>}

\* A literal is not a term of the rules, an entity, a class, a property or a range.
ASSUME LiteralAssumption ==
    /\ DOMAIN Numeric \subseteq Literals
    /\ Literals \cap (Vocabulary \cup {Term("User"), Term("hasActiveConsentRange")} \cup ToSet(ConsentRanges)) = {}
    /\ \A l \in Literals : l[1] \notin SharedKinds \cup UserKinds

\* The axioms of base.nt are about its own classes and properties: they say
\* nothing about generated entities, nor about the terms of the rules except
\* that something is one of their instances or below rdfs:Literal. The only
\* subproperty is hasGeometry (base.nt:7734). What connectsTo leads to is an
\* EdgeNode's superclass (1221, 7417), and what has a consent range is a User.
ASSUME BaseAssumption ==
    \A t \in Base :
        /\ t = <<t[1], t[2], t[3]>>
        /\ {t[1][1], t[2][1], t[3][1]} \cap (SharedKinds \cup UserKinds) = {}
        /\ t[1] \notin Vocabulary
        /\ t[3] \in Vocabulary =>
              \/ t[2] = RDF_TYPE
              \/ t[2] \in {RDFS_DOMAIN, RDFS_RANGE, RDFS_SUBCLASS} /\ t[3] \in {RDFS_RESOURCE, RDFS_LITERAL}
        /\ t[2] = RDFS_SUBPROPERTY => t[1] # Term("connectsTo") /\ t[3] # Term("hasActiveConsentRange")
        /\ t[1] = Term("connectsTo") =>
              /\ t[2] = RDF_TYPE => t[3] # RDFS_CONTAINER_MEMBERSHIP
              /\ t[2] = RDFS_RANGE => <<Term("EdgeNode"), RDFS_SUBCLASS, t[3]>> \in Base
        /\ t[2] = Term("hasActiveConsentRange") =>
              t[3] \notin Literals /\ <<t[1], RDF_TYPE, Term("User")>> \in Base

Nodes == (users + UsersPerNode - 1) \div UsersPerNode
Dataset == Base \cup (UNION {NodeFacts(n) : n \in 0 .. Nodes - 1})
                \cup (UNION {UserFacts(i, Nodes) : i \in 0 .. users - 1})

-----------------------------------------------------------------------------
(***************************************************************************)
(* The fragments.                                                          *)
(***************************************************************************)
\* The hosts of some tiers, in their order.
OfTier(tiers) ==
    LET chosen[n \in 0 .. Len(Hosts)] ==
            IF n = 0 THEN <<>>
            ELSE IF tier[Hosts[n]] \in tiers THEN Append(chosen[n - 1], Hosts[n])
            ELSE chosen[n - 1]
    IN chosen[Len(Hosts)]
OrAll(some) == IF some = <<>> THEN Hosts ELSE some
Authorities == OrAll(OfTier({"edge"}))

Owners == IF layout = "replicated" THEN Hosts ELSE Authorities

Synthetic(t) == {t[1][1], t[3][1]} \cap (SharedKinds \cup UserKinds) # {}
Shared(t) == ~Synthetic(t) \/ t[1][1] \in SharedKinds
\* Mutant: the number is never read, and the owner is a hash of the name.
OwnerOfName(t) == Owners[((t[1][2] + (IF t[1][1] = "user" THEN 0 ELSE 1)) % Len(Owners)) + 1]
\* The number at the end of the subject's name, modulo the owners.
OwnerOf(t) == Owners[(t[1][2] % Len(Owners)) + 1]

PartitionGraph(h) ==
    IF layout = "replicated" THEN Dataset
    ELSE {t \in Dataset : Shared(t) \/ OwnerOf(t) = h}

\* Mutant: the types without the ranges.
ConsentTypes == Base \cup {t \in Dataset : t[2] = RDF_TYPE /\ t[3] = Term("User")}
ConsentProjection ==
    Base \cup {t \in Dataset : \/ t[2] = Term("hasActiveConsentRange")
                               \/ t[2] = RDF_TYPE /\ t[3] = Term("User")}

Fragment(h) ==
    IF h \in ToSet(Owners) THEN PartitionGraph(h)
    ELSE IF layout = "distributed" /\ tier[h] = "cloud" THEN ConsentProjection
    ELSE Base

Init ==
    /\ tier \in [ToSet(Hosts) -> Tiers]
    /\ layout \in Layouts
    /\ users \in 1 .. MaxUsers
    /\ graph = [g \in ToSet(Hosts) \cup {Whole, Common} |->
                  IF g = Whole THEN Dataset
                  ELSE IF g = Common THEN Base \cup (UNION {NodeFacts(n) : n \in 0 .. Nodes - 1})
                  ELSE Fragment(g)]
    /\ stage = "partitioned"

\* materialize, before its loop and one turn of it, on every worker.
Prepare ==
    /\ stage = "partitioned"
    /\ graph' = [g \in DOMAIN graph |-> Start(graph[g])]
    /\ stage' = "reasoning"
    /\ UNCHANGED <<tier, layout, users>>

Cycle ==
    /\ stage = "reasoning"
    /\ graph' = [g \in DOMAIN graph |-> Turn(graph[g])]
    /\ stage' = IF graph' = graph THEN "ready" ELSE stage
    /\ UNCHANGED <<tier, layout, users>>

Next == Prepare \/ Cycle

Spec == Init /\ [][Next]_vars

-----------------------------------------------------------------------------
(***************************************************************************)
(* Routing.                                                                *)
(***************************************************************************)
\* A key is hashed; the model lets it be any number.
Scopes == {"authorities", "cloud_authorities", "all", "authority_key"} \cup Tiers

Nth(hosts, number) == {hosts[(number % Len(hosts)) + 1]}

\* Mutant: authorities take turns like the hosts of a tier.
SelectHostsInTurn(scope, number) ==
    IF layout # "replicated" /\ scope = "all" THEN ToSet(Hosts)
    ELSE Nth(IF scope = "authorities" THEN Authorities ELSE Hosts, number)

\* number stands for round + query_index, or for the hash of a key.
SelectHosts(scope, number) ==
    CASE layout = "replicated" -> Nth(Hosts, number)
      [] layout # "replicated" /\ scope = "authorities" -> ToSet(Authorities)
      [] layout # "replicated" /\ scope = "cloud_authorities" -> ToSet(OrAll(OfTier({"cloud", "edge"})))
      [] layout # "replicated" /\ scope = "all" -> ToSet(Hosts)
      [] layout # "replicated" /\ scope = "authority_key" -> Nth(Authorities, number)
      [] layout # "replicated" /\ scope \in Tiers -> Nth(OrAll(OfTier({scope})), number)

-----------------------------------------------------------------------------
(***************************************************************************)
(* Properties                                                              *)
(***************************************************************************)
\* No worker holds or infers a triple that the whole dataset does not entail:
\* a distributed answer to a query without negation is never wrong.
NothingInvented == \A h \in ToSet(Hosts) : graph[h] \subseteq graph[Whole]

About(g, entity) == {t \in graph[g] : entity \in {t[1], t[3]}}
From(g, entity) == {t \in graph[g] : t[1] = entity}

\* When the owners are ready, one of them knows of a user and of all that is the
\* user's whatever the whole dataset entails, the others nothing; and all know
\* the same of a shared node. So joins over a user's entities, and the absence
\* of triples that the violation queries look for, are what they are in the
\* whole dataset (rdfs.rs joins at most one fact with the schema).
EntitiesAreWhole ==
    stage = "ready" /\ layout = "distributed" =>
        /\ \A i \in 0 .. users - 1 : \E o \in ToSet(Owners) : \A kind \in UserKinds :
              /\ About(o, <<kind, i>>) = About(Whole, <<kind, i>>)
              /\ \A other \in ToSet(Owners) \ {o} : About(other, <<kind, i>>) = {}
        /\ \A n \in 0 .. Nodes - 1, kind \in SharedKinds, o \in ToSet(Owners) :
              From(o, <<kind, n>>) = From(Whole, <<kind, n>>)

\* The hosts a query is sent to hold together what it asks for: all of the
\* dataset for the scopes that are merged, what no user is part of for a key.
\* Without a host of the edge, partitions are on all tiers and cloud_authorities
\* would miss some of them; no query of the catalog has that scope. The one host
\* of a tier is asked for what it has (for the cloud see CountsEveryone).
RoutedHostsSuffice ==
    stage = "ready" =>
        \A scope \in Scopes, number \in 1 .. Len(Hosts) :
            LET held == UNION {graph[h] : h \in SelectHosts(scope, number)} IN
            /\ scope \in {"authorities", "all"} => held = graph[Whole]
            /\ scope = "cloud_authorities" /\ OfTier({"edge"}) # <<>> => held = graph[Whole]
            /\ scope = "authority_key" => graph[Common] \subseteq held

Consents(g) ==
    {<<t[1], t[3]>> : t \in {u \in With(graph[g], Term("hasActiveConsentRange")) :
                               <<u[1], RDF_TYPE, Term("User")>> \in graph[g]}}

\* The query that counts users by range goes to the cloud and counts all of them
\* there, in both layouts, unless all hosts of the cloud or of the edge are
\* excluded: then it is sent to another host, or the cloud owns a partition.
CountsEveryone ==
    stage = "ready" /\ OfTier({"cloud"}) # <<>> /\ OfTier({"edge"}) # <<>> =>
        \A number \in 1 .. Len(Hosts), h \in ToSet(Hosts) :
            h \in SelectHosts("cloud", number) => Consents(h) = Consents(Whole)
=============================================================================
