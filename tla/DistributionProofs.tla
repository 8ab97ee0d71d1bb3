--------------------------- MODULE DistributionProofs ----------------------------
(***************************************************************************)
(* Proofs about Distribution for every topology, every number of users and *)
(* every base graph that BaseAssumption allows: a worker that reasons      *)
(* alone over its fragment finds what the whole dataset entails about its  *)
(* users, because no rule needs more than one fact besides axioms, and all *)
(* owners have the axioms.                                                 *)
(***************************************************************************)
EXTENDS Distribution, WellFoundedInduction, TLAPS

(***************************************************************************)
(* The hosts of some tiers.                                                *)
(***************************************************************************)

\* A set of numbers has a least element.
LEMMA Least ==
  ASSUME NEW S \in SUBSET Nat, S # {}
  PROVE  \E m \in S : \A k \in S : m <= k
<1> DEFINE R == OpToRel(<, Nat)
<1>1. IsWellFoundedOn(R, Nat)
  BY NatLessThanWellFounded, Zenon
<1>2. PICK m \in S : \A k \in S : ~(<<k, m>> \in R)
  <2> HIDE DEF R
  <2> QED
    BY <1>1, WFMin
<1>3. ASSUME NEW k \in S PROVE m <= k
  <2>1. k \in Nat /\ m \in Nat
    OBVIOUS
  <2>2. ~(<<k, m>> \in R)
    BY <1>2, Zenon
  <2>3. ~(k < m)
    BY <2>1, <2>2 DEF OpToRel
  <2> QED
    BY <2>1, <2>3
<1> QED
  BY <1>3

\* The recursion of OfTier finds exactly the hosts of those tiers.
LEMMA Chosen ==
  ASSUME NEW tiers
  PROVE  OfTier(tiers) \in Seq(ToSet(Hosts)) /\ ToSet(OfTier(tiers)) = {h \in ToSet(Hosts) : tier[h] \in tiers}
<1> DEFINE body(f, n) == IF n = 0 THEN <<>>
                         ELSE IF tier[Hosts[n]] \in tiers THEN Append(f[n - 1], Hosts[n]) ELSE f[n - 1]
           Fits(f, n) == f = [i \in 0 .. n |-> body(f, i)]
           chosen == CHOOSE f : Fits(f, Len(Hosts))
<1>1. OfTier(tiers) = chosen[Len(Hosts)]
  BY Zenon DEF OfTier
<1>2. Len(Hosts) \in Nat
  BY DistributionAssumption
<1>3. \A n \in Nat : \E f : Fits(f, n)
  <2> DEFINE Bad == {n \in Nat : ~ \E f : Fits(f, n)}
  <2> SUFFICES ASSUME Bad # {} PROVE FALSE
    BY Zenon
  <2>1. PICK n \in Bad : \A k \in Bad : n <= k
    <3> HIDE DEF Bad
    <3>1. Bad \in SUBSET Nat
      BY DEF Bad
    <3> QED
      BY <3>1, Least
  <2>2. n \in Nat /\ ~ \E f : Fits(f, n)
    BY <2>1
  <2>3. n # 0
    <3> DEFINE f == [i \in 0 .. 0 |-> <<>>]
    <3>1. Fits(f, 0)
      OBVIOUS
    <3> QED
      BY <2>2, <3>1, Zenon
  <2>4. PICK f : Fits(f, n - 1)
    <3>1. n - 1 \in Nat /\ ~(n <= n - 1)
      BY <2>2, <2>3
    <3>2. n - 1 \notin Bad
      BY <2>1, <3>1
    <3> QED
      BY <3>1, <3>2, Zenon
  <2> DEFINE g == [i \in 0 .. n |-> IF i = n THEN body(f, n) ELSE f[i]]
  <2>5. Fits(g, n)
    <3>1. \A i \in 0 .. n - 1 : f[i] = body(f, i)
      BY <2>4, Zenon
    <3>2. \A i \in 0 .. n - 1 : g[i] = f[i]
      BY <2>2
    <3>3. \A i \in 0 .. n : g[i] = body(g, i)
      <4> SUFFICES ASSUME NEW i \in 0 .. n PROVE g[i] = body(g, i)
        OBVIOUS
      <4>1. i # 0 => i - 1 \in 0 .. n - 1
        BY <2>2
      <4>2. i # 0 => g[i - 1] = f[i - 1]
        BY <3>2, <4>1, Zenon
      <4>3. body(g, i) = body(f, i)
        <5>1. CASE i = 0
          BY <5>1, Zenon
        <5>2. CASE i # 0
          <6>1. g[i - 1] = f[i - 1]
            BY <4>2, <5>2
          <6> HIDE DEF g
          <6> QED
            BY <5>2, <6>1
        <5> QED
          BY <5>1, <5>2
      <4>4. CASE i = n
        BY <4>3, <4>4
      <4>5. CASE i # n
        <5>1. i \in 0 .. n - 1
          BY <4>5, <2>2
        <5> QED
          BY <3>1, <3>2, <4>3, <5>1, Zenon
      <4> QED BY <4>4, <4>5
    <3> HIDE DEF body
    <3>4. g = [i \in 0 .. n |-> g[i]]
      BY Zenon
    <3> HIDE DEF g
    <3> QED
      BY <3>3, <3>4, Zenon
  <2> QED
    BY <2>2, <2>5, Zenon
<1>4. Fits(chosen, Len(Hosts))
  BY <1>2, <1>3, Zenon
<1> HIDE DEF chosen
<1>5. \A n \in 0 .. Len(Hosts) : chosen[n] = body(chosen, n)
  BY <1>4, Zenon
<1> DEFINE Right(n) == /\ chosen[n] \in Seq(ToSet(Hosts))
                       /\ \A h : h \in ToSet(chosen[n]) <=> \E i \in 1 .. n : h = Hosts[i] /\ tier[h] \in tiers
           Wrong == {n \in 0 .. Len(Hosts) : ~Right(n)}
<1>6. Wrong = {}
  <2> SUFFICES ASSUME Wrong # {} PROVE FALSE
    OBVIOUS
  <2>1. Wrong \in SUBSET Nat
    BY <1>2
  <2>2. PICK n \in Wrong : \A k \in Wrong : n <= k
    <3> HIDE DEF Wrong
    <3> QED
      BY <2>1, Least
  <2>3. n \in 0 .. Len(Hosts) /\ ~Right(n) /\ n \in Nat
    BY <1>2, <2>2
  <2>4. n # 0
    <3>1. chosen[0] = <<>>
      BY <1>2, <1>5
    <3>2. Right(0)
      BY <3>1 DEF ToSet
    <3> QED
      BY <2>3, <3>2
  <2>5. Right(n - 1)
    <3>1. n - 1 \in 0 .. Len(Hosts) /\ ~(n <= n - 1)
      BY <1>2, <2>3, <2>4
    <3>2. n - 1 \notin Wrong
      BY <2>2, <3>1
    <3> QED
      BY <3>1, <3>2
  <2> DEFINE c == chosen[n - 1]  h == Hosts[n]
  <2>6. h \in ToSet(Hosts) /\ c \in Seq(ToSet(Hosts))
    BY <1>2, <2>3, <2>4, <2>5, DistributionAssumption DEF ToSet
  <2>7. chosen[n] = IF tier[h] \in tiers THEN Append(c, h) ELSE c
    BY <1>5, <2>3, <2>4
  <2>8. \A g : g \in ToSet(Append(c, h)) <=> g \in ToSet(c) \/ g = h
    <3>1. /\ Len(c) \in Nat /\ DOMAIN c = 1 .. Len(c) /\ DOMAIN Append(c, h) = 1 .. Len(c) + 1
          /\ Append(c, h)[Len(c) + 1] = h
          /\ \A i \in 1 .. Len(c) : Append(c, h)[i] = c[i]
      <4>1. c \in Seq(ToSet(Hosts)) /\ h \in ToSet(Hosts)
        BY <2>6
      <4> HIDE DEF c, h
      <4> QED
        BY <4>1
    <3> HIDE DEF c, h
    <3> QED
      BY <3>1 DEF ToSet
  <2>9. Right(n)
    <3>1. \A g : (\E i \in 1 .. n : g = Hosts[i] /\ tier[g] \in tiers)
                 <=> (\E i \in 1 .. n - 1 : g = Hosts[i] /\ tier[g] \in tiers) \/ (g = h /\ tier[g] \in tiers)
      BY <2>3, <2>4
    <3>2. chosen[n] \in Seq(ToSet(Hosts))
      BY <2>6, <2>7
    <3>3. \A g : g \in ToSet(c) <=> \E i \in 1 .. n - 1 : g = Hosts[i] /\ tier[g] \in tiers
      BY <2>5
    <3> HIDE DEF c, h
    <3> QED
      BY <2>7, <2>8, <3>1, <3>2, <3>3
  <2> QED
    BY <2>3, <2>9
<1>7. Right(Len(Hosts))
  <2>1. Len(Hosts) \in 0 .. Len(Hosts)
    BY <1>2
  <2>2. Len(Hosts) \notin Wrong
    BY <1>6, Zenon
  <2> HIDE DEF Right
  <2> QED
    BY <2>1, <2>2
<1> QED
  BY <1>1, <1>7 DEF ToSet

-----------------------------------------------------------------------------

(***************************************************************************)
(* One turn of the rules.                                                  *)
(***************************************************************************)

Kinds == SharedKinds \cup UserKinds
AxiomPredicates == {RDFS_DOMAIN, RDFS_RANGE, RDFS_SUBPROPERTY, RDFS_SUBCLASS}
MetaClasses == {RDFS_CLASS, RDFS_DATATYPE, RDFS_CONTAINER_MEMBERSHIP}
CONNECTS == Term("connectsTo")
CONSENTS == Term("hasActiveConsentRange")

\* The triple x follows from t and s by one rule of a cycle, or is there.
Yields(t, s, x) ==
    \/ x = t
    \/ x = <<t[2], RDF_TYPE, RDF_PROPERTY>>
    \/ s[2] = RDFS_DOMAIN /\ s[1] = t[2] /\ x = <<t[1], RDF_TYPE, s[3]>>
    \/ s[2] = RDFS_RANGE /\ s[1] = t[2] /\ t[3] \notin Literals /\ x = <<t[3], RDF_TYPE, s[3]>>
    \/ s[2] = RDFS_SUBPROPERTY /\ s[1] = t[2] /\ x = <<t[1], s[3], t[3]>>
    \/ s[2] = RDFS_SUBCLASS /\ t[2] = RDF_TYPE /\ s[1] = t[3] /\ x = <<t[1], RDF_TYPE, s[3]>>
    \/ s[2] \in {RDFS_SUBPROPERTY, RDFS_SUBCLASS} /\ t[2] = s[2] /\ s[1] = t[3] /\ x = <<t[1], s[2], s[3]>>
    \/ t[2] = RDF_TYPE /\ t[3] = RDF_PROPERTY /\ x = <<t[1], RDFS_SUBPROPERTY, t[1]>>
    \/ t[2] = RDF_TYPE /\ t[3] = RDFS_CLASS /\ x \in {<<t[1], RDFS_SUBCLASS, t[1]>>, <<t[1], RDFS_SUBCLASS, RDFS_RESOURCE>>}
    \/ t[2] = RDF_TYPE /\ t[3] = RDFS_CONTAINER_MEMBERSHIP /\ x = <<t[1], RDFS_SUBPROPERTY, RDFS_MEMBER>>
    \/ t[2] = RDF_TYPE /\ t[3] = RDFS_DATATYPE /\ x = <<t[1], RDFS_SUBCLASS, RDFS_LITERAL>>

\* Yields says what one turn does, no more
LEMMA TurnYields ==
  ASSUME NEW G, NEW x \in Turn(G)
  PROVE  \E t, s \in G : Yields(t, s, x)
<1>1. CASE x \in G \/ x \in Predicates(G)
  BY <1>1 DEF Predicates, Yields
<1>2. CASE x \in Domains(G)
  BY <1>2 DEF Domains, With, Yields
<1>3. CASE x \in Ranges(G)
  BY <1>3 DEF Ranges, With, Yields
<1>4. CASE x \in Inherited(G)
  BY <1>4 DEF Inherited, With, Instances, Yields
<1>5. CASE x \in Transitive(G, RDFS_SUBPROPERTY) \/ x \in Transitive(G, RDFS_SUBCLASS)
  BY <1>5 DEF Transitive, With, Yields
<1>6. CASE x \in Reflexive(G) \/ x \in Roots(G)
  BY <1>6 DEF Reflexive, Roots, With, Instances, Yields
<1> QED
  BY <1>1, <1>2, <1>3, <1>4, <1>5, <1>6 DEF Turn

\* and no less.
LEMMA YieldsTurn ==
  ASSUME NEW G, NEW t \in G, NEW s \in G, NEW x, Yields(t, s, x)
  PROVE  x \in Turn(G)
<1>1. CASE x = t \/ x = <<t[2], RDF_TYPE, RDF_PROPERTY>>
  BY <1>1 DEF Turn, Predicates
<1>2. CASE s[2] = RDFS_DOMAIN /\ s[1] = t[2] /\ x = <<t[1], RDF_TYPE, s[3]>>
  BY <1>2 DEF Turn, Domains, With
<1>3. CASE s[2] = RDFS_RANGE /\ s[1] = t[2] /\ t[3] \notin Literals /\ x = <<t[3], RDF_TYPE, s[3]>>
  BY <1>3 DEF Turn, Ranges, With
<1>4. CASE s[2] = RDFS_SUBPROPERTY /\ s[1] = t[2] /\ x = <<t[1], s[3], t[3]>>
  BY <1>4 DEF Turn, Inherited, With
<1>5. CASE s[2] = RDFS_SUBCLASS /\ t[2] = RDF_TYPE /\ s[1] = t[3] /\ x = <<t[1], RDF_TYPE, s[3]>>
  BY <1>5 DEF Turn, Inherited, With, Instances
<1>6. CASE s[2] \in {RDFS_SUBPROPERTY, RDFS_SUBCLASS} /\ t[2] = s[2] /\ s[1] = t[3] /\ x = <<t[1], s[2], s[3]>>
  BY <1>6 DEF Turn, Transitive, With
<1>7. CASE t[2] = RDF_TYPE /\ t[3] = RDF_PROPERTY /\ x = <<t[1], RDFS_SUBPROPERTY, t[1]>>
  BY <1>7 DEF Turn, Reflexive, With, Instances
<1>8. CASE t[2] = RDF_TYPE /\ t[3] = RDFS_CLASS /\ x \in {<<t[1], RDFS_SUBCLASS, t[1]>>, <<t[1], RDFS_SUBCLASS, RDFS_RESOURCE>>}
  BY <1>8 DEF Turn, Reflexive, Roots, With, Instances
<1>9. CASE t[2] = RDF_TYPE /\ t[3] = RDFS_CONTAINER_MEMBERSHIP /\ x = <<t[1], RDFS_SUBPROPERTY, RDFS_MEMBER>>
  BY <1>9 DEF Turn, Roots, With, Instances
<1>10. CASE t[2] = RDF_TYPE /\ t[3] = RDFS_DATATYPE /\ x = <<t[1], RDFS_SUBCLASS, RDFS_LITERAL>>
  BY <1>10 DEF Turn, Roots, With, Instances
<1> QED
  BY <1>1, <1>2, <1>3, <1>4, <1>5, <1>6, <1>7, <1>8, <1>9, <1>10 DEF Yields

\* An axiom: what a rule can join with a fact, but for p rdfs:subPropertyOf p,
\* which adds nothing; or what makes axioms.
IsAxiom(t) ==
    \/ t[2] \in AxiomPredicates /\ ~(t[2] = RDFS_SUBPROPERTY /\ t[1] = t[3])
    \/ t[2] = RDF_TYPE /\ t[3] \in MetaClasses

\* What BaseAssumption says of the base, as far as the rules keep it so.
CleanTriple(t) ==
    /\ t = <<t[1], t[2], t[3]>>
    /\ t[1] \in Vocabulary => \/ t[2] = RDF_TYPE /\ t[3] \in {RDF_PROPERTY, RDFS_RESOURCE}
                              \/ t[2] = RDFS_SUBPROPERTY /\ t[3] = t[1]
    /\ t[3] \in Vocabulary => t[2] \in AxiomPredicates \cup {RDF_TYPE}
    /\ t[2] \in AxiomPredicates \ {RDFS_SUBPROPERTY} => t[3] \notin MetaClasses
    /\ t[2] = RDFS_SUBPROPERTY =>
          /\ t[3] \in AxiomPredicates \cup {CONSENTS} => t[1] = t[3]
          /\ t[1] = CONNECTS => t[3] = CONNECTS
    /\ ~(t[1] = CONNECTS /\ t[2] = RDF_TYPE /\ t[3] = RDFS_CONTAINER_MEMBERSHIP)
    /\ t[2][1] \notin Kinds
    /\ IsAxiom(t) => t[1][1] \notin Kinds /\ t[3][1] \notin Kinds

\* The terms of the rules are different, and no entities.
LEMMA Distinct ==
  /\ RDF_TYPE \notin {RDF_PROPERTY, RDFS_RESOURCE, RDFS_MEMBER, RDFS_LITERAL} \cup AxiomPredicates \cup MetaClasses
  /\ RDF_PROPERTY \notin {RDFS_RESOURCE, RDFS_MEMBER, RDFS_LITERAL} \cup AxiomPredicates \cup MetaClasses
  /\ RDFS_RESOURCE \notin {RDFS_MEMBER, RDFS_LITERAL} \cup AxiomPredicates \cup MetaClasses
  /\ RDFS_MEMBER \notin {RDFS_LITERAL} \cup AxiomPredicates \cup MetaClasses
  /\ RDFS_LITERAL \notin AxiomPredicates \cup MetaClasses
  /\ AxiomPredicates \cap MetaClasses = {}
  /\ RDFS_DOMAIN \notin {RDFS_RANGE, RDFS_SUBPROPERTY, RDFS_SUBCLASS}
  /\ RDFS_RANGE \notin {RDFS_SUBPROPERTY, RDFS_SUBCLASS} /\ RDFS_SUBPROPERTY # RDFS_SUBCLASS
  /\ RDFS_CLASS \notin {RDFS_DATATYPE, RDFS_CONTAINER_MEMBERSHIP} /\ RDFS_DATATYPE # RDFS_CONTAINER_MEMBERSHIP
  /\ CONNECTS \notin Vocabulary /\ CONSENTS \notin Vocabulary /\ CONNECTS # CONSENTS
  /\ Vocabulary = {RDF_TYPE, RDF_PROPERTY, RDFS_RESOURCE, RDFS_MEMBER, RDFS_LITERAL} \cup AxiomPredicates \cup MetaClasses
  /\ \A v \in Vocabulary \cup {CONNECTS, CONSENTS} : v[1] \notin Kinds
<1> USE DEF RDF_TYPE, RDF_PROPERTY, RDFS_RESOURCE, RDFS_CLASS, RDFS_DOMAIN, RDFS_RANGE, RDFS_SUBPROPERTY,
            RDFS_SUBCLASS, RDFS_MEMBER, RDFS_CONTAINER_MEMBERSHIP, RDFS_DATATYPE, RDFS_LITERAL,
            CONNECTS, CONSENTS, Vocabulary, AxiomPredicates, MetaClasses, Term
<1>1. \A v \in Vocabulary \cup {CONNECTS, CONSENTS} : v[1] \notin Kinds
  BY DEF Kinds, SharedKinds, UserKinds
<1> QED
  BY <1>1

\* The names of the generated facts are no terms of the rules.
LEMMA Named ==
  \A t \in {Term("User"), Term("EdgeNode"), Term("RangeLocalOnly"), Term("RangeCommunityAgg"), Term("RangeGlobalAgg"),
            Term("hasNodeState"), Term("queuedRequests"), Term("hasConsentRecord"), Term("isAttachedTo"),
            Term("consentSubject"), Term("2")} :
     t \notin Vocabulary \cup {CONNECTS, CONSENTS} /\ t[1] \notin Kinds
  BY DEF Vocabulary, RDF_TYPE, RDF_PROPERTY, RDFS_RESOURCE, RDFS_CLASS, RDFS_DOMAIN, RDFS_RANGE, RDFS_SUBPROPERTY,
            RDFS_SUBCLASS, RDFS_MEMBER, RDFS_CONTAINER_MEMBERSHIP, RDFS_DATATYPE, RDFS_LITERAL,
         CONNECTS, CONSENTS, Term, Kinds, SharedKinds, UserKinds

\* A rule joins a fact with an axiom, or adds nothing.
LEMMA OneFact ==
  ASSUME NEW t, NEW s, NEW x, CleanTriple(t), CleanTriple(s), Yields(t, s, x)
  PROVE  Yields(t, t, x) \/ IsAxiom(s)
<1> SUFFICES ASSUME ~IsAxiom(s) PROVE Yields(t, t, x)
  OBVIOUS
<1>1. s[2] \in AxiomPredicates => s[2] = RDFS_SUBPROPERTY /\ s[1] = s[3]
  BY DEF IsAxiom
<1>2. t = <<t[1], t[2], t[3]>>
  BY DEF CleanTriple
<1> QED
  BY <1>1, <1>2, Distinct DEF Yields, AxiomPredicates

\* The rules make no axiom out of a fact that is none.
LEMMA AxiomOfAxioms ==
  ASSUME NEW t, NEW s, NEW x, CleanTriple(t), CleanTriple(s), Yields(t, s, x), IsAxiom(x)
  PROVE  x = t \/ x = s \/ (IsAxiom(t) /\ (IsAxiom(s) \/ Yields(t, t, x)))
<1>1. t = <<t[1], t[2], t[3]>> /\ s = <<s[1], s[2], s[3]>>
  BY DEF CleanTriple
<1> QED
  BY <1>1, Distinct DEF Yields, CleanTriple, IsAxiom, AxiomPredicates, MetaClasses

\* The rules keep triples clean.
LEMMA CleanStep ==
  ASSUME NEW t, NEW s, NEW x, CleanTriple(t), CleanTriple(s), Yields(t, s, x)
  PROVE  CleanTriple(x)
<1>1. t = <<t[1], t[2], t[3]>> /\ s = <<s[1], s[2], s[3]>>
  BY DEF CleanTriple
<1>2. x = <<x[1], x[2], x[3]>>
  BY <1>1 DEF Yields
<1>3. x[1] \in Vocabulary => \/ x[2] = RDF_TYPE /\ x[3] \in {RDF_PROPERTY, RDFS_RESOURCE}
                             \/ x[2] = RDFS_SUBPROPERTY /\ x[3] = x[1]
  BY <1>1, Distinct DEF Yields, CleanTriple, AxiomPredicates, MetaClasses
<1>4. x[3] \in Vocabulary => x[2] \in AxiomPredicates \cup {RDF_TYPE}
  BY <1>1, Distinct DEF Yields, CleanTriple, AxiomPredicates, MetaClasses
<1>5. x[2] \in AxiomPredicates \ {RDFS_SUBPROPERTY} => x[3] \notin MetaClasses
  BY <1>1, Distinct DEF Yields, CleanTriple, AxiomPredicates, MetaClasses
<1>6. x[2] = RDFS_SUBPROPERTY =>
          /\ x[3] \in AxiomPredicates \cup {CONSENTS} => x[1] = x[3]
          /\ x[1] = CONNECTS => x[3] = CONNECTS
  BY <1>1, Distinct DEF Yields, CleanTriple, AxiomPredicates, MetaClasses
<1>7. ~(x[1] = CONNECTS /\ x[2] = RDF_TYPE /\ x[3] = RDFS_CONTAINER_MEMBERSHIP)
  BY <1>1, Distinct DEF Yields, CleanTriple, AxiomPredicates, MetaClasses
<1>8. x[2][1] \notin Kinds
  BY <1>1, Distinct DEF Yields, CleanTriple, AxiomPredicates, MetaClasses, IsAxiom
<1>9. IsAxiom(x) => x[1][1] \notin Kinds /\ x[3][1] \notin Kinds
  BY <1>1, AxiomOfAxioms, Distinct DEF Yields, CleanTriple, AxiomPredicates, MetaClasses, IsAxiom
<1> QED
  BY <1>2, <1>3, <1>4, <1>5, <1>6, <1>7, <1>8, <1>9 DEF CleanTriple

Clean(G) == \A t \in G : CleanTriple(t)

Axioms(G) == {t \in G : IsAxiom(t)}

\* What a graph C without users says of the nodes is all that W says, and a user's
\* entities are only connected to nodes that C knows as such.
NodesKnown(W, C) ==
    \A t \in W :
        /\ t[1][1] \in SharedKinds => t \in C
        /\ t[3][1] \in SharedKinds =>
              t[1][1] \in SharedKinds \/ (t[2] = CONNECTS /\ <<t[3], RDF_TYPE, Term("EdgeNode")>> \in C)
        /\ t[1] = CONNECTS /\ t[2] = RDFS_RANGE => <<Term("EdgeNode"), RDFS_SUBCLASS, t[3]>> \in C

\* The host that owns what is a user's.
OwnerFor(e) == Owners[(e[2] % Len(Owners)) + 1]

\* All that F says of users is of users that o owns.
Private(F, o) == \A t \in F : \A e \in {t[1], t[3]} : e[1] \in UserKinds => o = OwnerFor(e)

\* F has all that W says of consents, and whose they are.
HoldsConsents(F, W) == \A t \in With(W, CONSENTS) : t \in F /\ <<t[1], RDF_TYPE, Term("User")>> \in F

-----------------------------------------------------------------------------
\* The parts of the invariant in one turn.
LEMMA CleanTurn ==
  ASSUME NEW W, Clean(W)
  PROVE  Clean(Turn(W))
  BY TurnYields, CleanStep DEF Clean

LEMMA AxiomsTurn ==
  ASSUME NEW W, NEW C, Clean(W), Axioms(W) \subseteq C
  PROVE  Axioms(Turn(W)) \subseteq Turn(C)
<1> SUFFICES ASSUME NEW x \in Turn(W), IsAxiom(x) PROVE x \in Turn(C)
  BY DEF Axioms
<1>1. PICK t \in W, s \in W : Yields(t, s, x)
  BY TurnYields
<1>2. CleanTriple(t) /\ CleanTriple(s)
  BY DEF Clean
<1>3. \A y \in C : Yields(y, y, y)
  BY DEF Yields
<1>4. CASE x = t \/ x = s
  <2>1. x \in C
    BY <1>4 DEF Axioms
  <2> QED
    BY <1>3, <2>1, YieldsTurn
<1>5. CASE IsAxiom(t) /\ (IsAxiom(s) \/ Yields(t, t, x))
  <2>1. t \in C /\ (s \in C \/ Yields(t, t, x))
    BY <1>5 DEF Axioms
  <2> QED
    BY <1>1, <2>1, YieldsTurn
<1> QED
  BY <1>1, <1>2, <1>4, <1>5, AxiomOfAxioms

LEMMA CoverTurn ==
  ASSUME NEW W, NEW S, NEW g, Clean(W),
         \A o \in S : Axioms(W) \subseteq g[o],
         \A t \in W : \E o \in S : t \in g[o]
  PROVE  \A x \in Turn(W) : \E o \in S : x \in Turn(g[o])
<1> SUFFICES ASSUME NEW x \in Turn(W) PROVE \E o \in S : x \in Turn(g[o])
  OBVIOUS
<1>1. PICK t \in W, s \in W : Yields(t, s, x)
  BY TurnYields
<1>2. PICK o \in S : t \in g[o]
  OBVIOUS
<1>3. Yields(t, t, x) \/ s \in g[o]
  BY <1>1, OneFact DEF Clean, Axioms
<1> QED
  BY <1>1, <1>2, <1>3, YieldsTurn

LEMMA PrivateTurn ==
  ASSUME NEW F, NEW o, Clean(F), Private(F, o)
  PROVE  Private(Turn(F), o)
<1> SUFFICES ASSUME NEW x \in Turn(F), NEW e \in {x[1], x[3]}, e[1] \in UserKinds PROVE o = OwnerFor(e)
  BY DEF Private
<1>1. PICK t \in F, s \in F : Yields(t, s, x)
  BY TurnYields
<1>2. e \notin Vocabulary /\ e # t[2]
  BY <1>1, Distinct DEF Clean, CleanTriple, Kinds
<1>3. e \in {t[1], t[3], s[1], s[3]}
  BY <1>1, <1>2, Distinct DEF Yields
<1> QED
  BY <1>3 DEF Private

LEMMA ConsentsTurn ==
  ASSUME NEW W, NEW F, Clean(W), HoldsConsents(F, W)
  PROVE  HoldsConsents(Turn(F), Turn(W))
<1>1. \A y \in F : y \in Turn(F)
  BY DEF Turn
<1> SUFFICES ASSUME NEW x \in Turn(W), x[2] = CONSENTS
             PROVE  x \in F /\ <<x[1], RDF_TYPE, Term("User")>> \in F
  BY <1>1 DEF HoldsConsents, With
<1>2. PICK t \in W, s \in W : Yields(t, s, x)
  BY TurnYields
<1>3. CleanTriple(t) /\ CleanTriple(s)
  BY DEF Clean
<1>4. x = t
  BY <1>2, <1>3, Distinct DEF Yields, CleanTriple, AxiomPredicates
<1> QED
  BY <1>4 DEF HoldsConsents, With

LEMMA NodesTurn ==
  ASSUME NEW W, NEW C, Clean(W), C \subseteq W, Axioms(W) \subseteq C, NodesKnown(W, C)
  PROVE  NodesKnown(Turn(W), Turn(C))
<1> SUFFICES ASSUME NEW x \in Turn(W)
             PROVE  /\ x[1][1] \in SharedKinds => x \in Turn(C)
                    /\ x[3][1] \in SharedKinds =>
                          \/ x[1][1] \in SharedKinds
                          \/ x[2] = CONNECTS /\ <<x[3], RDF_TYPE, Term("EdgeNode")>> \in Turn(C)
                    /\ x[1] = CONNECTS /\ x[2] = RDFS_RANGE => <<Term("EdgeNode"), RDFS_SUBCLASS, x[3]>> \in Turn(C)
  BY DEF NodesKnown
<1>1. PICK t \in W, s \in W : Yields(t, s, x)
  BY TurnYields
<1>2. CleanTriple(t) /\ CleanTriple(s) /\ (Yields(t, t, x) \/ (IsAxiom(s) /\ s \in C))
  BY <1>1, OneFact DEF Clean, Axioms
<1>3. t \in C => x \in Turn(C)
  BY <1>1, <1>2, YieldsTurn
<1>4. \A y \in C : y \in Turn(C)
  BY DEF Turn
<1>5. \A v \in Vocabulary : v[1] \notin SharedKinds
  BY Distinct DEF Kinds
<1>6. ASSUME x[1][1] \in SharedKinds PROVE x \in Turn(C)
  <2>1. CASE t[1][1] \in SharedKinds
    BY <1>3, <2>1 DEF NodesKnown
  <2>2. CASE t[1][1] \notin SharedKinds
    <3>1. x[1] # t[1] /\ x[1] # t[2]
      BY <1>2, <1>6, <2>2 DEF CleanTriple, Kinds
    <3>2. x = t \/ (s[2] = RDFS_RANGE /\ s[1] = t[2] /\ t[3] \notin Literals /\ x = <<t[3], RDF_TYPE, s[3]>>)
      BY <1>1, <3>1 DEF Yields
    <3>3. s[2] = RDFS_RANGE /\ s[1] = t[2] /\ x = <<t[3], RDF_TYPE, s[3]>> /\ x[1] = t[3]
      BY <3>1, <3>2
    <3>4. t[2] = CONNECTS /\ <<t[3], RDF_TYPE, Term("EdgeNode")>> \in C
      BY <1>6, <2>2, <3>3 DEF NodesKnown
    <3>5. <<Term("EdgeNode"), RDFS_SUBCLASS, s[3]>> \in C
      BY <3>3, <3>4 DEF NodesKnown
    <3>6. Yields(<<t[3], RDF_TYPE, Term("EdgeNode")>>, <<Term("EdgeNode"), RDFS_SUBCLASS, s[3]>>, x)
      BY <3>3 DEF Yields
    <3> QED
      BY <3>4, <3>5, <3>6, YieldsTurn
  <2> QED
    BY <2>1, <2>2
<1>7. ASSUME x[3][1] \in SharedKinds
      PROVE  \/ x[1][1] \in SharedKinds
             \/ x[2] = CONNECTS /\ <<x[3], RDF_TYPE, Term("EdgeNode")>> \in Turn(C)
  <2>1. x[3] \notin Vocabulary
    BY <1>5, <1>7
  <2>2. s[2] \in {RDFS_DOMAIN, RDFS_RANGE, RDFS_SUBCLASS} => s[3][1] \notin SharedKinds
    BY <1>2, Distinct DEF CleanTriple, IsAxiom, AxiomPredicates, Kinds
  <2>3. \/ x = t
        \/ x[1] = x[3]
        \/ s[2] = RDFS_SUBPROPERTY /\ s[1] = t[2] /\ x = <<t[1], s[3], t[3]>>
        \/ s[2] = RDFS_SUBPROPERTY /\ t[2] = RDFS_SUBPROPERTY /\ s[1] = t[3] /\ x = <<t[1], s[2], s[3]>>
    BY <1>1, <1>7, <2>1, <2>2, Distinct DEF Yields
  <2>4. CASE x = t
    BY <1>4, <1>7, <2>4 DEF NodesKnown
  <2>5. CASE x[1] = x[3]
    BY <1>7, <2>5
  <2>6. CASE s[2] = RDFS_SUBPROPERTY /\ s[1] = t[2] /\ x = <<t[1], s[3], t[3]>>
    <3>1. x[1] = t[1] /\ x[2] = s[3] /\ x[3] = t[3]
      BY <2>6
    <3>2. t[2] = CONNECTS => s[3] = CONNECTS
      BY <1>2, <2>6 DEF CleanTriple
    <3> QED
      BY <1>4, <1>7, <3>1, <3>2 DEF NodesKnown
  <2>7. CASE s[2] = RDFS_SUBPROPERTY /\ t[2] = RDFS_SUBPROPERTY /\ s[1] = t[3] /\ x = <<t[1], s[2], s[3]>>
    <3>1. x[1] = t[1] /\ x[3] = s[3]
      BY <2>7
    <3>2. s[1] = s[3]
      BY <1>2, <1>7, <2>7, <3>1 DEF CleanTriple, IsAxiom, AxiomPredicates, Kinds
    <3>3. t[1] = t[3]
      BY <1>2, <1>7, <2>7, <3>1, <3>2 DEF CleanTriple, IsAxiom, AxiomPredicates, Kinds
    <3> QED
      BY <1>7, <2>7, <3>1, <3>2, <3>3
  <2> QED
    BY <2>3, <2>4, <2>5, <2>6, <2>7
<1>8. ASSUME x[1] = CONNECTS, x[2] = RDFS_RANGE
      PROVE  <<Term("EdgeNode"), RDFS_SUBCLASS, x[3]>> \in Turn(C)
  <2>1. x = t
    BY <1>1, <1>2, <1>8, Distinct DEF Yields, CleanTriple, AxiomPredicates
  <2> QED
    BY <1>4, <1>8, <2>1 DEF NodesKnown
<1> QED
  BY <1>6, <1>7, <1>8

-----------------------------------------------------------------------------

(***************************************************************************)
(* What comes before the rules.                                            *)
(***************************************************************************)

\* The triple x is there, or what the start of a materialization makes of t and u.
Begins(t, u, x) ==
    \/ x = t
    \/ x = <<t[1], RDF_TYPE, RDFS_RESOURCE>>
    \/ t[3] \notin Literals /\ x = <<t[3], RDF_TYPE, RDFS_RESOURCE>>
    \/ SameValue(t[3], u[3]) /\ x = <<t[1], t[2], u[3]>>

\* Begins says what the start does, no more
LEMMA StartBegins ==
  ASSUME NEW G, NEW x \in Start(G)
  PROVE  \E t, u \in G : Begins(t, u, x)
<1>1. CASE x \in G
  BY <1>1 DEF Begins
<1>2. CASE x \in Substitutions(G)
  BY <1>2 DEF Substitutions, Begins
<1>3. ASSUME NEW t \in G \cup Substitutions(G)
      PROVE  \E s \in G : s[1] = t[1] /\ (t[3] \notin Literals => s[3] = t[3])
  BY <1>3, LiteralAssumption DEF Substitutions, SameValue
<1>4. CASE x \in Resources(G \cup Substitutions(G))
  <2>1. PICK t \in G \cup Substitutions(G) :
          \/ x = <<t[1], RDF_TYPE, RDFS_RESOURCE>>
          \/ t[3] \notin Literals /\ x = <<t[3], RDF_TYPE, RDFS_RESOURCE>>
    BY <1>4 DEF Resources
  <2>2. PICK s \in G : s[1] = t[1] /\ (t[3] \notin Literals => s[3] = t[3])
    BY <1>3
  <2>3. Begins(s, s, x)
    BY <2>1, <2>2 DEF Begins
  <2> QED
    BY <2>3
<1> QED
  BY <1>1, <1>2, <1>4 DEF Start

\* and no less.
LEMMA BeginsStart ==
  ASSUME NEW G, NEW t \in G, NEW u \in G, NEW x, Begins(t, u, x)
  PROVE  x \in Start(G)
<1>1. CASE SameValue(t[3], u[3]) /\ x = <<t[1], t[2], u[3]>>
  BY <1>1 DEF Start, Substitutions
<1>2. CASE x = t \/ x = <<t[1], RDF_TYPE, RDFS_RESOURCE>>
  BY <1>2 DEF Start, Resources
<1>3. CASE t[3] \notin Literals /\ x = <<t[3], RDF_TYPE, RDFS_RESOURCE>>
  BY <1>3 DEF Start, Resources
<1> QED
  BY <1>1, <1>2, <1>3 DEF Begins

\* What is a literal in W is one in C, consents are not literals, and nothing is
\* said of a property that contains connectsTo.
Plain(W, C) ==
    \A t \in W : /\ t[3] \in Literals => t \in C
                 /\ t[2] = CONSENTS => t[3] \notin Literals
                 /\ t[2] = RDFS_SUBPROPERTY => t[1] # CONNECTS

LEMMA LiteralsAreNoTerms ==
  \A l \in Literals : l \notin Vocabulary /\ l[1] \notin Kinds
  BY LiteralAssumption DEF Kinds

LEMMA CleanStart ==
  ASSUME NEW W, NEW C, Clean(W), Plain(W, C)
  PROVE  Clean(Start(W))
<1> SUFFICES ASSUME NEW x \in Start(W) PROVE CleanTriple(x)
  BY DEF Clean
<1>1. PICK t \in W, u \in W : Begins(t, u, x)
  BY StartBegins
<1>2. CleanTriple(t)
  BY DEF Clean
<1>3. CASE x = t
  BY <1>2, <1>3
<1>4. CASE x = <<t[1], RDF_TYPE, RDFS_RESOURCE>> \/ x = <<t[3], RDF_TYPE, RDFS_RESOURCE>>
  <2>1. x = <<x[1], RDF_TYPE, RDFS_RESOURCE>>
    BY <1>4
  <2> HIDE <1>4
  <2> QED
    BY <2>1, Distinct DEF CleanTriple, IsAxiom, AxiomPredicates, MetaClasses
<1>5. CASE SameValue(t[3], u[3]) /\ x = <<t[1], t[2], u[3]>>
  <2>1. t[3] \in Literals /\ u[3] \in Literals
    BY <1>5, LiteralAssumption DEF SameValue
  <2>2. t[1] \notin Vocabulary
    BY <1>2, <2>1, LiteralsAreNoTerms, Distinct DEF CleanTriple
  <2>3. u[3] # CONSENTS
    BY <2>1, LiteralAssumption DEF CONSENTS
  <2>4. t[2] = RDFS_SUBPROPERTY => t[1] # CONNECTS
    BY DEF Plain
  <2>5. IsAxiom(x) => IsAxiom(t) \/ t[1] \in Literals
    BY <1>5, <2>1, LiteralsAreNoTerms, Distinct DEF IsAxiom
  <2>6. IsAxiom(x) => x[1][1] \notin Kinds /\ x[3][1] \notin Kinds
    BY <1>2, <1>5, <2>1, <2>5, LiteralsAreNoTerms DEF CleanTriple
  <2> QED
    <3>1. x = <<x[1], x[2], x[3]>> /\ x[1] = t[1] /\ x[2] = t[2] /\ x[3] = u[3]
      BY <1>5
    <3>2. x[3] \notin Vocabulary
      BY <2>1, <3>1, LiteralsAreNoTerms
    <3> HIDE <1>5
    <3> QED
      BY <1>2, <2>2, <2>3, <2>4, <2>6, <3>1, <3>2, Distinct DEF CleanTriple, AxiomPredicates, MetaClasses
<1> QED
  BY <1>1, <1>3, <1>4, <1>5 DEF Begins

\* What replaces a literal is made in C.
LEMMA SubstitutionsInCommon ==
  ASSUME NEW W, NEW C, Plain(W, C), NEW t \in W, NEW u \in W, SameValue(t[3], u[3])
  PROVE  t \in C /\ u \in C /\ <<t[1], t[2], u[3]>> \in Start(C)
<1>1. t \in C /\ u \in C
  BY LiteralAssumption DEF SameValue, Plain
<1> QED
  BY <1>1, BeginsStart DEF Begins

LEMMA AxiomsStart ==
  ASSUME NEW W, NEW C, Clean(W), Plain(W, C), Axioms(W) \subseteq C
  PROVE  Axioms(Start(W)) \subseteq Start(C)
<1> SUFFICES ASSUME NEW x \in Start(W), IsAxiom(x) PROVE x \in Start(C)
  BY DEF Axioms
<1>1. PICK t \in W, u \in W : Begins(t, u, x)
  BY StartBegins
<1>2. CASE x = t
  BY <1>2, BeginsStart DEF Begins, Axioms
<1>3. CASE SameValue(t[3], u[3]) /\ x = <<t[1], t[2], u[3]>>
  BY <1>3, SubstitutionsInCommon
<1> QED
  BY <1>1, <1>2, <1>3, Distinct DEF Begins, IsAxiom

LEMMA CoverStart ==
  ASSUME NEW W, NEW C, NEW S, NEW g, Plain(W, C), \A o \in S : C \subseteq g[o],
         \A t \in W : \E o \in S : t \in g[o]
  PROVE  \A x \in Start(W) : \E o \in S : x \in Start(g[o])
<1> SUFFICES ASSUME NEW x \in Start(W) PROVE \E o \in S : x \in Start(g[o])
  OBVIOUS
<1>1. PICK t \in W, u \in W : Begins(t, u, x)
  BY StartBegins
<1>2. PICK o \in S : t \in g[o]
  OBVIOUS
<1>3. Begins(t, t, x) \/ SameValue(t[3], u[3])
  BY <1>1 DEF Begins
<1>4. CASE Begins(t, t, x)
  BY <1>2, <1>4, BeginsStart
<1>5. CASE SameValue(t[3], u[3])
  <2>1. u \in g[o]
    BY <1>5, SubstitutionsInCommon
  <2> QED
    BY <1>1, <1>2, <2>1, BeginsStart
<1> QED
  BY <1>3, <1>4, <1>5

LEMMA PrivateStart ==
  ASSUME NEW F, NEW o, Private(F, o)
  PROVE  Private(Start(F), o)
<1> SUFFICES ASSUME NEW x \in Start(F), NEW e \in {x[1], x[3]}, e[1] \in UserKinds PROVE o = OwnerFor(e)
  BY DEF Private
<1>1. PICK t \in F, u \in F : Begins(t, u, x)
  BY StartBegins
<1>2. SameValue(t[3], u[3]) => u[3] \in Literals
  BY LiteralAssumption DEF SameValue
<1>3. e # RDFS_RESOURCE /\ e \notin Literals
  BY LiteralsAreNoTerms, Distinct DEF Kinds
<1>4. e \in {t[1], t[3]}
  BY <1>1, <1>2, <1>3 DEF Begins
<1> QED
  BY <1>4 DEF Private

LEMMA ConsentsStart ==
  ASSUME NEW W, NEW C, NEW F, Plain(W, C), HoldsConsents(F, W)
  PROVE  HoldsConsents(Start(F), Start(W))
<1>1. \A y \in F : y \in Start(F)
  BY DEF Start
<1> SUFFICES ASSUME NEW x \in Start(W), x[2] = CONSENTS
             PROVE  x \in F /\ <<x[1], RDF_TYPE, Term("User")>> \in F
  BY <1>1 DEF HoldsConsents, With
<1>2. PICK t \in W, u \in W : Begins(t, u, x)
  BY StartBegins
<1>3. x = t
  <2>1. SameValue(t[3], u[3]) => t[2] # CONSENTS
    BY LiteralAssumption DEF SameValue, Plain
  <2> QED
    BY <1>2, <2>1, Distinct DEF Begins
<1> QED
  BY <1>3 DEF HoldsConsents, With

LEMMA NodesStart ==
  ASSUME NEW W, NEW C, C \subseteq W, Plain(W, C), NodesKnown(W, C)
  PROVE  NodesKnown(Start(W), Start(C))
<1> SUFFICES ASSUME NEW x \in Start(W)
             PROVE  /\ x[1][1] \in SharedKinds => x \in Start(C)
                    /\ x[3][1] \in SharedKinds =>
                          \/ x[1][1] \in SharedKinds
                          \/ x[2] = CONNECTS /\ <<x[3], RDF_TYPE, Term("EdgeNode")>> \in Start(C)
                    /\ x[1] = CONNECTS /\ x[2] = RDFS_RANGE => <<Term("EdgeNode"), RDFS_SUBCLASS, x[3]>> \in Start(C)
  BY DEF NodesKnown
<1>1. PICK t \in W, u \in W : Begins(t, u, x)
  BY StartBegins
<1>2. \A y \in C : y \in Start(C) /\ <<y[1], RDF_TYPE, RDFS_RESOURCE>> \in Start(C)
  BY BeginsStart DEF Begins
<1>3. CASE x = t
  BY <1>2, <1>3 DEF NodesKnown
<1>4. CASE x = <<t[1], RDF_TYPE, RDFS_RESOURCE>>
  <2>1. x[1] = t[1] /\ x[2] = RDF_TYPE /\ x[3] = RDFS_RESOURCE
    BY <1>4
  <2>2. x[3][1] \notin SharedKinds /\ x[2] # RDFS_RANGE
    BY <2>1, Distinct DEF Kinds, AxiomPredicates
  <2>3. t[1][1] \in SharedKinds => x \in Start(C)
    BY <1>2, <1>4 DEF NodesKnown
  <2> QED
    BY <2>1, <2>2, <2>3
<1>5. CASE t[3] \notin Literals /\ x = <<t[3], RDF_TYPE, RDFS_RESOURCE>>
  <2>1. x[1] = t[3] /\ x[2] = RDF_TYPE /\ x[3] = RDFS_RESOURCE
    BY <1>5
  <2>2. x[3][1] \notin SharedKinds /\ x[2] # RDFS_RANGE
    BY <2>1, Distinct DEF Kinds, AxiomPredicates
  <2>3. ASSUME t[3][1] \in SharedKinds PROVE x \in Start(C)
    <3>1. CASE t[1][1] \in SharedKinds
      <4>1. t \in C
        BY <3>1 DEF NodesKnown
      <4> QED
        BY <1>5, <4>1, BeginsStart DEF Begins
    <3>2. CASE t[1][1] \notin SharedKinds
      <4>1. <<t[3], RDF_TYPE, Term("EdgeNode")>> \in C
        BY <2>3, <3>2 DEF NodesKnown
      <4> QED
        BY <1>2, <1>5, <4>1
    <3> QED
      BY <3>1, <3>2
  <2> QED
    BY <2>1, <2>2, <2>3
<1>6. CASE SameValue(t[3], u[3]) /\ x = <<t[1], t[2], u[3]>>
  <2>1. x \in Start(C) /\ t \in C /\ u \in C /\ x[3] \in Literals
    BY <1>6, SubstitutionsInCommon, LiteralAssumption DEF SameValue
  <2>2. x[3][1] \notin SharedKinds
    BY <2>1, LiteralsAreNoTerms DEF Kinds
  <2>3. ASSUME t[1] = CONNECTS, t[2] = RDFS_RANGE
        PROVE  <<Term("EdgeNode"), RDFS_SUBCLASS, x[3]>> \in Start(C)
    <3>1. <<Term("EdgeNode"), RDFS_SUBCLASS, t[3]>> \in C
      BY <2>3 DEF NodesKnown
    <3>2. Begins(<<Term("EdgeNode"), RDFS_SUBCLASS, t[3]>>, u, <<Term("EdgeNode"), RDFS_SUBCLASS, x[3]>>)
      BY <1>6 DEF Begins
    <3> QED
      BY <2>1, <3>1, <3>2, BeginsStart
  <2> QED
    BY <1>6, <2>1, <2>2, <2>3
<1> QED
  BY <1>1, <1>3, <1>4, <1>5, <1>6 DEF Begins

-----------------------------------------------------------------------------

(***************************************************************************)
(* The dataset and its fragments.                                          *)
(***************************************************************************)

\* There is an owner, and every number leads to one.
LEMMA OwnersExist ==
  /\ Owners \in Seq(ToSet(Hosts)) /\ Owners # <<>> /\ Len(Owners) \in Nat \ {0}
  /\ ToSet(Owners) \subseteq ToSet(Hosts)
  /\ \A e : e[2] \in Nat => OwnerFor(e) \in ToSet(Owners)
<1>1. Owners \in Seq(ToSet(Hosts)) /\ Owners # <<>>
  BY Chosen, DistributionAssumption DEF Owners, Authorities, OrAll
<1>2. \A s \in Seq(ToSet(Hosts)) : s # <<>> => Len(s) \in Nat \ {0} /\ ToSet(s) \subseteq ToSet(Hosts)
  BY DEF ToSet
<1>3. Len(Owners) \in Nat \ {0} /\ ToSet(Owners) \subseteq ToSet(Hosts)
  BY <1>1, <1>2
<1>4. ASSUME NEW e, e[2] \in Nat PROVE OwnerFor(e) \in ToSet(Owners)
  <2>0. \A k \in Nat, n \in Nat \ {0} : (k % n) + 1 \in 1 .. n
    OBVIOUS
  <2>1. (e[2] % Len(Owners)) + 1 \in 1 .. Len(Owners)
    BY <1>3, <1>4, <2>0
  <2> QED
    BY <1>1, <2>1 DEF OwnerFor, ToSet
<1> QED
  BY <1>1, <1>3, <1>4

\* The dataset without users.
NoUsers == Base \cup (UNION {NodeFacts(n) : n \in 0 .. Nodes - 1})

LEMMA NodeCount ==
  ASSUME users \in Nat \ {0}
  PROVE  Nodes \in Nat \ {0}
BY DistributionAssumption DEF Nodes

\* The facts of a user are about the user's own entities, but for the node that
\* the wearable connects to.
LEMMA UserFactsAre ==
  ASSUME NEW i \in Nat, NEW nodes \in Nat \ {0}, NEW t \in UserFacts(i, nodes)
  PROVE  /\ t = <<t[1], t[2], t[3]>>
         /\ t[1][1] \in UserKinds /\ t[1][2] = i
         /\ \/ t[2] = RDF_TYPE /\ t[3] = Term("User")
            \/ t[2] = CONSENTS /\ t[3] \in ToSet(ConsentRanges) /\ t[1] = <<"user", i>>
            \/ t[2] \notin Vocabulary \cup {CONSENTS} /\ t[3][1] \in UserKinds /\ t[3][2] = i
            \/ t[2] = CONNECTS /\ t[3] = <<"edge", i % nodes>>
         /\ t[2][1] \notin Kinds
<1>1. ConsentRanges[(i % 3) + 1] \in ToSet(ConsentRanges)
  <2>1. (i % 3) + 1 \in 1 .. 3
    OBVIOUS
  <2>2. DOMAIN ConsentRanges = 1 .. 3
    BY DEF ConsentRanges
  <2> QED
    BY <2>1, <2>2 DEF ToSet
<1>2. \A p \in {Term("hasConsentRecord"), Term("isAttachedTo"), Term("consentSubject")} :
        p \notin Vocabulary \cup {CONSENTS} /\ p[1] \notin Kinds
  BY Named
<1>3. \A p \in {RDF_TYPE, CONSENTS, CONNECTS} : p[1] \notin Kinds
  BY Distinct
<1>4. {"user", "wearable", "consent-record"} \subseteq UserKinds
  BY DEF UserKinds
<1>5. CASE t = <<<<"user", i>>, RDF_TYPE, Term("User")>>
  BY <1>3, <1>4, <1>5
<1>6. CASE t = <<<<"user", i>>, CONSENTS, ConsentRanges[(i % 3) + 1]>>
  BY <1>1, <1>3, <1>4, <1>6
<1>7. CASE t = <<<<"user", i>>, Term("hasConsentRecord"), <<"consent-record", i>>>>
  BY <1>2, <1>4, <1>7
<1>8. CASE t = <<<<"wearable", i>>, Term("isAttachedTo"), <<"user", i>>>>
  BY <1>2, <1>4, <1>8
<1>9. CASE t = <<<<"consent-record", i>>, Term("consentSubject"), <<"user", i>>>>
  BY <1>2, <1>4, <1>9
<1>10. CASE t = <<<<"wearable", i>>, CONNECTS, <<"edge", i % nodes>>>>
  BY <1>3, <1>4, <1>10
<1> QED
  BY <1>5, <1>6, <1>7, <1>8, <1>9, <1>10 DEF UserFacts, CONSENTS, CONNECTS

\* The facts of a node are about the node.
LEMMA NodeFactsAre ==
  ASSUME NEW n, NEW t \in NodeFacts(n)
  PROVE  /\ t = <<t[1], t[2], t[3]>>
         /\ t[1][1] \in SharedKinds
         /\ t[1] = <<"edge", n>> \/ t[1] = <<"node-state", n>>
         /\ (t[2] = RDF_TYPE /\ t[3] = Term("EdgeNode")) \/ t[2] \notin Vocabulary \cup {CONSENTS, CONNECTS}
         /\ t[3] \notin Vocabulary /\ t[3][1] \notin UserKinds
         /\ t[2][1] \notin Kinds
<1>1. /\ {"edge", "node-state"} = SharedKinds /\ "node-state" \notin UserKinds
      /\ \A k \in SharedKinds : <<k, n>> \notin Vocabulary
  BY Distinct DEF Kinds, SharedKinds, UserKinds
<1>2. RDF_TYPE[1] \notin Kinds
  BY Distinct
<1> QED
  BY <1>1, <1>2, Named DEF NodeFacts, Kinds

LEMMA DatasetIs ==
  /\ NoUsers \subseteq Dataset
  /\ \A t \in NoUsers : t \in Base \/ \E n \in 0 .. Nodes - 1 : t \in NodeFacts(n)
  /\ \A t \in Dataset : t \in NoUsers \/ \E i \in 0 .. users - 1 : t \in UserFacts(i, Nodes)
BY DEF NoUsers, Dataset

LEMMA Entities ==
  /\ \A n : \A k \in Kinds : <<k, n>> \notin Vocabulary \cup {CONNECTS, CONSENTS} /\ <<k, n>> \notin Literals
  /\ SharedKinds \cap UserKinds = {} /\ Kinds = SharedKinds \cup UserKinds
  /\ Term("User") \notin Vocabulary \cup Literals /\ Term("User")[1] \notin Kinds
  /\ Term("EdgeNode") \notin Vocabulary /\ Term("EdgeNode")[1] \notin Kinds
  /\ \A r \in ToSet(ConsentRanges) : r \notin Vocabulary \cup Literals /\ r[1] \notin Kinds
<1>1. \A n : \A k \in Kinds : <<k, n>>[1] \in Kinds
  OBVIOUS
<1>2. \A t \in {Term("User"), Term("EdgeNode")} : t \notin Vocabulary /\ t[1] \notin Kinds
  BY Named
<1>3. ToSet(ConsentRanges) = {Term("RangeLocalOnly"), Term("RangeCommunityAgg"), Term("RangeGlobalAgg")}
  BY DEF ToSet, ConsentRanges
<1>4. \A r \in ToSet(ConsentRanges) : r \notin Vocabulary /\ r[1] \notin Kinds
  BY <1>3, Named
<1>5. SharedKinds \cap UserKinds = {} /\ Kinds = SharedKinds \cup UserKinds
  BY DEF Kinds, SharedKinds, UserKinds
<1>6. \A r \in ToSet(ConsentRanges) \cup {Term("User")} : r \notin Literals
  BY LiteralAssumption
<1>7. \A n : \A k \in Kinds : <<k, n>> \notin Vocabulary \cup {CONNECTS, CONSENTS}
  BY <1>1, Distinct
<1>8. \A n : \A k \in Kinds : <<k, n>> \notin Literals
  BY <1>1, LiteralsAreNoTerms
<1> QED
  BY <1>2, <1>4, <1>5, <1>6, <1>7, <1>8

\* What holds of the dataset before any rule is taken.
LEMMA BaseIs ==
  ASSUME NEW t \in Base
  PROVE  CleanTriple(t) /\ t[1][1] \notin Kinds /\ t[3][1] \notin Kinds
         /\ (t[2] = CONSENTS => t[3] \notin Literals /\ <<t[1], RDF_TYPE, Term("User")>> \in Base)
         /\ (t[2] = RDFS_SUBPROPERTY => t[1] # CONNECTS)
         /\ (t[1] = CONNECTS /\ t[2] = RDFS_RANGE => <<Term("EdgeNode"), RDFS_SUBCLASS, t[3]>> \in Base)
<1>1. /\ t = <<t[1], t[2], t[3]>> /\ t[1] \notin Vocabulary
      /\ t[1][1] \notin Kinds /\ t[2][1] \notin Kinds /\ t[3][1] \notin Kinds
  BY BaseAssumption DEF Kinds
<1>2. t[3] \in Vocabulary => \/ t[2] = RDF_TYPE
                             \/ t[2] \in {RDFS_DOMAIN, RDFS_RANGE, RDFS_SUBCLASS} /\ t[3] \in {RDFS_RESOURCE, RDFS_LITERAL}
  BY BaseAssumption
<1>3. t[2] = RDFS_SUBPROPERTY => t[1] # CONNECTS /\ t[3] # CONSENTS
  BY BaseAssumption DEF CONNECTS, CONSENTS
<1>4. t[1] = CONNECTS => /\ t[2] = RDF_TYPE => t[3] # RDFS_CONTAINER_MEMBERSHIP
                         /\ t[2] = RDFS_RANGE => <<Term("EdgeNode"), RDFS_SUBCLASS, t[3]>> \in Base
  BY BaseAssumption DEF CONNECTS
<1>5. t[2] = CONSENTS => t[3] \notin Literals /\ <<t[1], RDF_TYPE, Term("User")>> \in Base
  BY BaseAssumption DEF CONSENTS
<1> QED
  BY <1>1, <1>2, <1>3, <1>4, <1>5, Distinct DEF CleanTriple, IsAxiom, AxiomPredicates, MetaClasses

LEMMA NodesAre ==
  ASSUME NEW n, NEW t \in NodeFacts(n)
  PROVE  CleanTriple(t) /\ ~IsAxiom(t)
<1>1. /\ t = <<t[1], t[2], t[3]>> /\ t[1][1] \in Kinds /\ t[1] \notin Vocabulary \cup {CONNECTS}
      /\ t[2] = RDF_TYPE \/ t[2] \notin Vocabulary
      /\ t[3] \notin Vocabulary
      /\ t[2][1] \notin Kinds
  BY NodeFactsAre, Entities, Distinct
<1> QED
  BY <1>1, Distinct DEF CleanTriple, IsAxiom, AxiomPredicates, MetaClasses

LEMMA UsersAre ==
  ASSUME NEW i \in Nat, NEW nodes \in Nat \ {0}, NEW t \in UserFacts(i, nodes)
  PROVE  CleanTriple(t) /\ ~IsAxiom(t) /\ t[3] \notin Literals
<1>1. t[1] \notin Vocabulary \cup {CONNECTS} /\ t[3] \notin Literals /\ t[3] \notin Vocabulary
  <2>1. \A e : e[1] \in Kinds => e \notin Vocabulary \cup {CONNECTS} \cup Literals
    BY Distinct, LiteralsAreNoTerms
  <2>2. t[1][1] \in Kinds
    BY UserFactsAre, Entities
  <2>3. "edge" \in Kinds
    BY DEF Kinds, SharedKinds
  <2>4. t[3][1] \in Kinds \/ t[3] \in ToSet(ConsentRanges) \cup {Term("User")}
    BY UserFactsAre, Entities, <2>3
  <2> QED
    BY <2>1, <2>2, <2>4, Entities
<1>2. t = <<t[1], t[2], t[3]>> /\ (t[2] = RDF_TYPE \/ t[2] \notin Vocabulary) /\ t[2][1] \notin Kinds
  BY UserFactsAre, Distinct
<1> QED
  BY <1>1, <1>2, Distinct DEF CleanTriple, IsAxiom, AxiomPredicates, MetaClasses

\* The parts of the invariant that do not depend on the partitions.
LEMMA DatasetParts ==
  ASSUME users \in Nat \ {0}
  PROVE  /\ Clean(Dataset) /\ NoUsers \subseteq Dataset /\ Axioms(Dataset) \subseteq NoUsers
         /\ NodesKnown(Dataset, NoUsers) /\ Plain(Dataset, NoUsers)
<1>1. Nodes \in Nat \ {0} /\ NoUsers \subseteq Dataset
  BY NodeCount, DatasetIs
<1>2. ASSUME NEW t \in Dataset
      PROVE  \/ t \in NoUsers /\ t \in Base
             \/ t \in NoUsers /\ \E n \in 0 .. Nodes - 1 : t \in NodeFacts(n)
             \/ \E i \in Nat : t \in UserFacts(i, Nodes)
  BY DatasetIs
<1>3. Clean(Dataset)
  BY <1>1, <1>2, BaseIs, NodesAre, UsersAre DEF Clean
<1>4. Axioms(Dataset) \subseteq NoUsers
  BY <1>1, <1>2, UsersAre DEF Axioms
<1>5. NodesKnown(Dataset, NoUsers)
  <2> SUFFICES ASSUME NEW t \in Dataset
               PROVE  /\ t[1][1] \in SharedKinds => t \in NoUsers
                      /\ t[3][1] \in SharedKinds =>
                            t[1][1] \in SharedKinds \/ (t[2] = CONNECTS /\ <<t[3], RDF_TYPE, Term("EdgeNode")>> \in NoUsers)
                      /\ t[1] = CONNECTS /\ t[2] = RDFS_RANGE => <<Term("EdgeNode"), RDFS_SUBCLASS, t[3]>> \in NoUsers
    BY DEF NodesKnown
  <2>1. CASE t \in NoUsers /\ t \in Base
    BY <2>1, BaseIs, Entities DEF NoUsers
  <2>2. CASE t \in NoUsers /\ \E n \in 0 .. Nodes - 1 : t \in NodeFacts(n)
    <3>1. t[1][1] \in SharedKinds
      BY <2>2, NodeFactsAre
    <3>2. t[1] # CONNECTS
      BY <3>1, Entities, Distinct
    <3> QED
      BY <2>2, <3>1, <3>2
  <2>3. ASSUME NEW i \in Nat, t \in UserFacts(i, Nodes)
        PROVE  /\ t[1][1] \notin SharedKinds /\ t[1] # CONNECTS
               /\ t[3][1] \in SharedKinds => t[2] = CONNECTS /\ <<t[3], RDF_TYPE, Term("EdgeNode")>> \in NoUsers
    <3>1. t[1][1] \in UserKinds
      BY <1>1, <2>3, UserFactsAre
    <3>2. t[1][1] \notin SharedKinds /\ t[1] # CONNECTS
      BY <3>1, Entities, Distinct
    <3>3. t[3][1] \in SharedKinds => t[2] = CONNECTS /\ t[3] = <<"edge", i % Nodes>>
      BY <1>1, <2>3, UserFactsAre, Entities
    <3>4. i % Nodes \in 0 .. Nodes - 1
      BY <1>1
    <3>5. <<<<"edge", i % Nodes>>, RDF_TYPE, Term("EdgeNode")>> \in NoUsers
      BY <3>4 DEF NoUsers, NodeFacts
    <3> QED
      BY <3>2, <3>3, <3>5
  <2> QED
    BY <1>2, <2>1, <2>2, <2>3
<1>6. Plain(Dataset, NoUsers)
  <2> SUFFICES ASSUME NEW t \in Dataset
               PROVE  /\ t[3] \in Literals => t \in NoUsers
                      /\ t[2] = CONSENTS => t[3] \notin Literals
                      /\ t[2] = RDFS_SUBPROPERTY => t[1] # CONNECTS
    BY DEF Plain
  <2>1. CASE t \in NoUsers /\ t \in Base
    BY <2>1, BaseIs
  <2>2. CASE t \in NoUsers /\ \E n \in 0 .. Nodes - 1 : t \in NodeFacts(n)
    BY <2>2, NodeFactsAre, Distinct DEF AxiomPredicates
  <2>3. ASSUME NEW i \in Nat, t \in UserFacts(i, Nodes)
        PROVE  t[3] \notin Literals /\ t[1] # CONNECTS
    BY <1>1, <2>3, UsersAre, UserFactsAre, Entities, Distinct
  <2> QED
    BY <1>2, <2>1, <2>2, <2>3
<1> QED
  BY <1>1, <1>3, <1>4, <1>5, <1>6

\* The fragments of the owners and of the cloud.
LEMMA Fragments ==
  ASSUME users \in Nat \ {0}, layout = "distributed"
  PROVE  /\ \A o \in ToSet(Owners) : NoUsers \subseteq PartitionGraph(o) /\ Private(PartitionGraph(o), o)
         /\ \A t \in Dataset : \E o \in ToSet(Owners) : t \in PartitionGraph(o)
         /\ HoldsConsents(ConsentProjection, Dataset)
<1>1. Nodes \in Nat \ {0} /\ NoUsers \subseteq Dataset
  BY NodeCount, DatasetIs
<1>2. ASSUME NEW t \in Dataset
      PROVE  \/ t \in NoUsers /\ t \in Base
             \/ t \in NoUsers /\ \E n \in 0 .. Nodes - 1 : t \in NodeFacts(n)
             \/ \E i \in 0 .. users - 1 : t \in UserFacts(i, Nodes)
  BY DatasetIs
<1>3. layout # "replicated"
  OBVIOUS
<1>4. \A h : \A t \in Dataset : t \in PartitionGraph(h) <=> Shared(t) \/ OwnerOf(t) = h
  BY <1>3 DEF PartitionGraph
<1>5. ASSUME NEW t \in NoUsers
      PROVE  Shared(t) /\ t[1][1] \notin UserKinds /\ t[3][1] \notin UserKinds
  <2>1. CASE t \in Base
    BY <2>1, BaseIs DEF Shared, Synthetic, Kinds
  <2>2. CASE \E n \in 0 .. Nodes - 1 : t \in NodeFacts(n)
    BY <2>2, NodeFactsAre, Entities DEF Shared
  <2> QED
    BY <2>1, <2>2, DatasetIs
<1>6. ASSUME NEW i \in 0 .. users - 1, NEW t \in UserFacts(i, Nodes)
      PROVE  /\ ~Shared(t) /\ OwnerOf(t) \in ToSet(Owners)
             /\ \A e \in {t[1], t[3]} : e[1] \in UserKinds => OwnerFor(e) = OwnerOf(t)
  <2>1. i \in Nat
    OBVIOUS
  <2>2. t[1][1] \in UserKinds /\ t[1][2] = i
    BY <1>1, <2>1, UserFactsAre
  <2>3. t[3][1] \in UserKinds => t[3][2] = i
    <3>1. "edge" \notin UserKinds
      BY DEF UserKinds
    <3>2. \A r \in ToSet(ConsentRanges) \cup {Term("User")} : r[1] \notin UserKinds
      BY Entities
    <3> QED
      BY <1>1, <2>1, <3>1, <3>2, UserFactsAre
  <2>4. OwnerOf(t) = OwnerFor(t[1]) /\ OwnerOf(t) \in ToSet(Owners)
    BY <2>1, <2>2, OwnersExist DEF OwnerOf, OwnerFor
  <2>5. t[3][1] \in UserKinds => OwnerFor(t[3]) = OwnerFor(t[1])
    BY <2>2, <2>3 DEF OwnerFor
  <2>6. ~Shared(t)
    BY <2>2, Entities DEF Shared, Synthetic
  <2> QED
    BY <2>4, <2>5, <2>6
<1>7. ASSUME NEW o \in ToSet(Owners)
      PROVE  NoUsers \subseteq PartitionGraph(o) /\ Private(PartitionGraph(o), o)
  <2>1. NoUsers \subseteq PartitionGraph(o)
    BY <1>1, <1>4, <1>5
  <2>2. ASSUME NEW t \in PartitionGraph(o), NEW e \in {t[1], t[3]}, e[1] \in UserKinds
        PROVE  o = OwnerFor(e)
    <3>1. t \in Dataset
      BY <1>3 DEF PartitionGraph
    <3>2. t \notin NoUsers
      BY <1>5, <2>2
    <3>3. PICK i \in 0 .. users - 1 : t \in UserFacts(i, Nodes)
      BY <1>2, <3>1, <3>2
    <3> QED
      BY <1>4, <1>6, <2>2, <3>1, <3>3
  <2> QED
    BY <2>1, <2>2 DEF Private
<1>8. ASSUME NEW t \in Dataset
      PROVE  \E o \in ToSet(Owners) : t \in PartitionGraph(o)
  <2>1. PICK o : o \in ToSet(Owners)
    <3>1. <<"user", 0>>[2] \in Nat
      OBVIOUS
    <3> QED
      BY <3>1, OwnersExist
  <2>2. CASE t \in NoUsers
    BY <1>7, <2>1, <2>2
  <2>3. ASSUME NEW i \in 0 .. users - 1, t \in UserFacts(i, Nodes)
        PROVE  \E w \in ToSet(Owners) : t \in PartitionGraph(w)
    BY <1>4, <1>6, <2>3
  <2> QED
    BY <1>2, <2>2, <2>3
<1>9. HoldsConsents(ConsentProjection, Dataset)
  <2> SUFFICES ASSUME NEW t \in Dataset, t[2] = CONSENTS
               PROVE  t \in ConsentProjection /\ <<t[1], RDF_TYPE, Term("User")>> \in ConsentProjection
    BY DEF HoldsConsents, With
  <2>1. t \in ConsentProjection
    BY DEF ConsentProjection, CONSENTS
  <2>2. CASE t \in Base
    BY <2>2, BaseIs DEF ConsentProjection
  <2>3. CASE \E n \in 0 .. Nodes - 1 : t \in NodeFacts(n)
    BY <2>3, NodeFactsAre, Distinct
  <2>4. ASSUME NEW i \in 0 .. users - 1, t \in UserFacts(i, Nodes)
        PROVE  <<t[1], RDF_TYPE, Term("User")>> \in ConsentProjection
    <3>1. t[1] = <<"user", i>>
      BY <1>1, <2>4, UserFactsAre, Distinct
    <3>2. <<t[1], RDF_TYPE, Term("User")>> \in Dataset
      BY <3>1 DEF Dataset, UserFacts
    <3> QED
      BY <3>2 DEF ConsentProjection
  <2> QED
    BY <1>2, <2>1, <2>2, <2>3, <2>4
<1> QED
  BY <1>7, <1>8, <1>9

-----------------------------------------------------------------------------

(***************************************************************************)
(* The invariants.                                                         *)
(***************************************************************************)

\* More makes more.
LEMMA StartGrows ==
  ASSUME NEW F, NEW G, F \subseteq G
  PROVE  Start(F) \subseteq Start(G)
  BY StartBegins, BeginsStart
LEMMA TurnGrows ==
  ASSUME NEW F, NEW G, F \subseteq G
  PROVE  Turn(F) \subseteq Turn(G)
  BY TurnYields, YieldsTurn

\* The inductive invariant of NothingInvented: the property, and that all graphs exist.
IInv ==
    /\ DOMAIN graph = ToSet(Hosts) \cup {Whole, Common}
    /\ NothingInvented

LEMMA FragmentsAreParts == \A h : Fragment(h) \subseteq Dataset
<1>1. Base \subseteq Dataset
  BY DEF Dataset
<1> QED
  BY <1>1 DEF Fragment, PartitionGraph, ConsentProjection

LEMMA InitInv == Init => IInv
  BY DistributionAssumption, FragmentsAreParts DEF Init, IInv, NothingInvented

LEMMA NextInv == IInv /\ [Next]_vars => IInv'
<1> SUFFICES ASSUME IInv, [Next]_vars PROVE IInv'
  OBVIOUS
<1>1. CASE Prepare
  BY <1>1, StartGrows DEF Prepare, IInv, NothingInvented
<1>2. CASE Cycle
  BY <1>2, TurnGrows DEF Cycle, IInv, NothingInvented
<1>3. CASE UNCHANGED vars
  BY <1>3 DEF vars, IInv, NothingInvented
<1> QED
  BY <1>1, <1>2, <1>3 DEF Next

\* No worker holds or infers a triple that the whole dataset does not entail,
\* whatever the hosts that are active and the users; the ontology plays no part.
THEOREM Sound == Spec => []NothingInvented
<1>1. IInv => NothingInvented
  BY DEF IInv
<1> QED
  BY <1>1, InitInv, NextInv, PTL DEF Spec

-----------------------------------------------------------------------------
Deployed == tier \in [ToSet(Hosts) -> Tiers] /\ layout \in Layouts

\* With the ontology and the nodes every owner has all that a rule needs besides
\* the facts of its own users.
CommonPart ==
    /\ Clean(graph[Whole])
    /\ graph[Common] \subseteq graph[Whole] /\ Axioms(graph[Whole]) \subseteq graph[Common]
    /\ NodesKnown(graph[Whole], graph[Common])

\* All workers of a replicated layout do the same.
Replicas == layout = "replicated" => \A h \in ToSet(Hosts) : graph[h] = graph[Whole]

\* Each owner has the common part, its own users and no others; together they have
\* all; and a cloud that owns nothing has the consents.
Partitions ==
    layout = "distributed" =>
        /\ \A o \in ToSet(Owners) : graph[Common] \subseteq graph[o] /\ Private(graph[o], o)
        /\ \A t \in graph[Whole] : \E o \in ToSet(Owners) : t \in graph[o]
        /\ \A h \in ToSet(Hosts) \ ToSet(Owners) : tier[h] = "cloud" => HoldsConsents(graph[h], graph[Whole])

\* Only before the loop numbers are replaced by others.
Unprepared == stage = "partitioned" => Plain(graph[Whole], graph[Common])

\* The inductive invariant of where the data is.
Closed == Deployed /\ CommonPart /\ Replicas /\ Partitions /\ Unprepared

LEMMA InitClosed == Init => Closed
<1> SUFFICES ASSUME Init PROVE Closed
  OBVIOUS
<1>1. users \in Nat \ {0} /\ tier \in [ToSet(Hosts) -> Tiers] /\ layout \in Layouts
  BY DistributionAssumption DEF Init
<1>2. graph[Whole] = Dataset /\ graph[Common] = NoUsers
  BY DistributionAssumption DEF Init, NoUsers
<1>3. \A h \in ToSet(Hosts) : graph[h] = Fragment(h)
  BY DistributionAssumption DEF Init
<1>4. Deployed /\ CommonPart /\ Unprepared
  BY <1>1, <1>2, DatasetParts DEF Deployed, CommonPart, Unprepared
<1>5. Replicas
  BY <1>2, <1>3 DEF Replicas, Fragment, Owners, PartitionGraph
<1>6. ASSUME layout = "distributed"
      PROVE  /\ \A o \in ToSet(Owners) : graph[o] = PartitionGraph(o)
             /\ \A h \in ToSet(Hosts) \ ToSet(Owners) : tier[h] = "cloud" => graph[h] = ConsentProjection
  BY <1>3, <1>6, OwnersExist DEF Fragment
<1>7. Partitions
  BY <1>1, <1>2, <1>6, Fragments DEF Partitions
<1> QED
  BY <1>4, <1>5, <1>7 DEF Closed

\* Who owns what does not change.
LEMMA OwnersStay ==
  ASSUME tier' = tier, layout' = layout
  PROVE  Owners' = Owners
<1>1. OfTier({"edge"})' = OfTier({"edge"})
  BY Zenon DEF OfTier
<1> QED
  BY <1>1 DEF Owners, Authorities, OrAll

LEMMA PrepareClosed ==
  ASSUME IInv, Closed, Prepare
  PROVE  Closed'
<1> DEFINE W == graph[Whole]  C == graph[Common]
<1>a. tier' = tier /\ layout' = layout
  BY DEF Prepare
<1>b. Owners' = Owners
  BY <1>a, OwnersStay
<1>c. ASSUME NEW o, \A t \in graph'[o] : \A e \in {t[1], t[3]} : e[1] \in UserKinds => o = OwnerFor(e)
      PROVE  Private(graph[o], o)'
  BY <1>b, <1>c DEF Private, OwnerFor
<1>d. Whole \in DOMAIN graph /\ Common \in DOMAIN graph /\ ToSet(Hosts) \subseteq DOMAIN graph
  BY DEF IInv
<1>e. ToSet(Owners) \subseteq ToSet(Hosts)
  BY OwnersExist
<1>f. Deployed'
  BY <1>a DEF Closed, Deployed
<1>1. Plain(W, C) /\ Unprepared'
  BY DEF Prepare, Closed, Unprepared
<1>2. \A g \in DOMAIN graph : graph'[g] = Start(graph[g])
  BY DEF Prepare
<1>3. graph'[Whole] = Start(W) /\ graph'[Common] = Start(C)
  BY <1>d, <1>2
<1>4. Clean(W) /\ C \subseteq W /\ Axioms(W) \subseteq C /\ NodesKnown(W, C)
  BY DEF Closed, CommonPart
<1>5. CommonPart'
  BY <1>1, <1>3, <1>4, CleanStart, StartGrows, AxiomsStart, NodesStart DEF CommonPart
<1>6. Replicas'
  BY <1>a, <1>d, <1>2, <1>3 DEF Closed, Replicas
<1>7. ASSUME layout = "distributed"
      PROVE  /\ \A o \in ToSet(Owners) : graph'[Common] \subseteq graph'[o] /\ Private(graph[o], o)'
             /\ \A x \in graph'[Whole] : \E o \in ToSet(Owners) : x \in graph'[o]
             /\ \A h \in ToSet(Hosts) \ ToSet(Owners) : tier[h] = "cloud" => HoldsConsents(graph'[h], graph'[Whole])
  <2>1. /\ \A o \in ToSet(Owners) : C \subseteq graph[o] /\ Private(graph[o], o)
        /\ \A t \in W : \E o \in ToSet(Owners) : t \in graph[o]
        /\ \A h \in ToSet(Hosts) \ ToSet(Owners) : tier[h] = "cloud" => HoldsConsents(graph[h], W)
    BY <1>7 DEF Closed, Partitions
  <2>2. ASSUME NEW o \in ToSet(Owners)
        PROVE  graph'[Common] \subseteq graph'[o] /\ Private(graph[o], o)'
    <3>1. graph'[o] = Start(graph[o])
      BY <1>d, <1>e, <1>2
    <3>2. Private(Start(graph[o]), o)
      BY <2>1, PrivateStart
    <3> QED
      BY <1>c, <1>3, <2>1, <3>1, <3>2, StartGrows DEF Private
  <2>3. \A x \in Start(W) : \E o \in ToSet(Owners) : x \in Start(graph[o])
    BY <1>1, <2>1, CoverStart
  <2>4. \A x \in graph'[Whole] : \E o \in ToSet(Owners) : x \in graph'[o]
    BY <1>d, <1>e, <1>2, <1>3, <2>3
  <2>5. \A h \in ToSet(Hosts) \ ToSet(Owners) : tier[h] = "cloud" => HoldsConsents(graph'[h], graph'[Whole])
    BY <1>d, <1>1, <1>2, <1>3, <2>1, ConsentsStart
  <2> QED
    BY <2>2, <2>4, <2>5
<1>8. Partitions'
  BY <1>a, <1>b, <1>7 DEF Partitions, HoldsConsents
<1> QED
  BY <1>f, <1>1, <1>5, <1>6, <1>8 DEF Closed

LEMMA CycleClosed ==
  ASSUME IInv, Closed, Cycle
  PROVE  Closed'
<1> DEFINE W == graph[Whole]  C == graph[Common]
<1>a. tier' = tier /\ layout' = layout
  BY DEF Cycle
<1>b. Owners' = Owners
  BY <1>a, OwnersStay
<1>c. ASSUME NEW o, \A t \in graph'[o] : \A e \in {t[1], t[3]} : e[1] \in UserKinds => o = OwnerFor(e)
      PROVE  Private(graph[o], o)'
  BY <1>b, <1>c DEF Private, OwnerFor
<1>d. Whole \in DOMAIN graph /\ Common \in DOMAIN graph /\ ToSet(Hosts) \subseteq DOMAIN graph
  BY DEF IInv
<1>e. ToSet(Owners) \subseteq ToSet(Hosts)
  BY OwnersExist
<1>f. Deployed'
  BY <1>a DEF Closed, Deployed
<1>1. Unprepared'
  BY DEF Cycle, Unprepared
<1>2. \A g \in DOMAIN graph : graph'[g] = Turn(graph[g])
  BY DEF Cycle
<1>3. graph'[Whole] = Turn(W) /\ graph'[Common] = Turn(C)
  BY <1>d, <1>2
<1>4. Clean(W) /\ C \subseteq W /\ Axioms(W) \subseteq C /\ NodesKnown(W, C)
  BY DEF Closed, CommonPart
<1>5. CommonPart'
  BY <1>3, <1>4, CleanTurn, TurnGrows, AxiomsTurn, NodesTurn DEF CommonPart
<1>6. Replicas'
  BY <1>a, <1>d, <1>2, <1>3 DEF Closed, Replicas
<1>7. ASSUME layout = "distributed"
      PROVE  /\ \A o \in ToSet(Owners) : graph'[Common] \subseteq graph'[o] /\ Private(graph[o], o)'
             /\ \A x \in graph'[Whole] : \E o \in ToSet(Owners) : x \in graph'[o]
             /\ \A h \in ToSet(Hosts) \ ToSet(Owners) : tier[h] = "cloud" => HoldsConsents(graph'[h], graph'[Whole])
  <2>1. /\ \A o \in ToSet(Owners) : C \subseteq graph[o] /\ Private(graph[o], o)
        /\ \A t \in W : \E o \in ToSet(Owners) : t \in graph[o]
        /\ \A h \in ToSet(Hosts) \ ToSet(Owners) : tier[h] = "cloud" => HoldsConsents(graph[h], W)
    BY <1>7 DEF Closed, Partitions
  <2>2. ASSUME NEW o \in ToSet(Owners)
        PROVE  graph'[Common] \subseteq graph'[o] /\ Private(graph[o], o)'
    <3>1. graph'[o] = Turn(graph[o])
      BY <1>d, <1>e, <1>2
    <3>2. Clean(graph[o])
      BY <1>e, <1>4 DEF IInv, NothingInvented, Clean
    <3>3. Private(Turn(graph[o]), o)
      BY <2>1, <3>2, PrivateTurn
    <3> QED
      BY <1>c, <1>3, <2>1, <3>1, <3>3, TurnGrows DEF Private
  <2>3. \A x \in Turn(W) : \E o \in ToSet(Owners) : x \in Turn(graph[o])
    <3>1. \A o \in ToSet(Owners) : Axioms(W) \subseteq graph[o]
      BY <1>4, <2>1
    <3> QED
      BY <1>4, <2>1, <3>1, CoverTurn
  <2>4. \A x \in graph'[Whole] : \E o \in ToSet(Owners) : x \in graph'[o]
    BY <1>d, <1>e, <1>2, <1>3, <2>3
  <2>5. \A h \in ToSet(Hosts) \ ToSet(Owners) : tier[h] = "cloud" => HoldsConsents(graph'[h], graph'[Whole])
    BY <1>d, <1>2, <1>3, <1>4, <2>1, ConsentsTurn
  <2> QED
    BY <2>2, <2>4, <2>5
<1>8. Partitions'
  BY <1>a, <1>b, <1>7 DEF Partitions, HoldsConsents
<1> QED
  BY <1>f, <1>1, <1>5, <1>6, <1>8 DEF Closed

LEMMA NextClosed == IInv /\ Closed /\ [Next]_vars => Closed'
<1> SUFFICES ASSUME IInv, Closed, UNCHANGED vars PROVE Closed'
  BY PrepareClosed, CycleClosed DEF Next
<1>1. graph' = graph /\ stage' = stage /\ tier' = tier /\ layout' = layout
  BY DEF vars
<1>2. Owners' = Owners
  BY <1>1, OwnersStay
<1>3. Deployed' /\ CommonPart' /\ Replicas' /\ Unprepared'
  BY <1>1 DEF Closed, Deployed, CommonPart, Replicas, Unprepared
<1>4. Partitions'
  BY <1>1, <1>2 DEF Closed, Partitions, Private, OwnerFor
<1> QED
  BY <1>3, <1>4 DEF Closed

LEMMA AlwaysClosed == Spec => [](IInv /\ Closed)
<1>1. IInv /\ Closed /\ [Next]_vars => (IInv /\ Closed)'
  BY NextInv, NextClosed
<1> QED
  BY <1>1, InitInv, InitClosed, PTL DEF Spec

\* Of every triple of the dataset some owner has it: partitioning loses nothing,
\* whatever the number of owners.
THEOREM Covered ==
  ASSUME users \in Nat \ {0}, layout \in Layouts
  PROVE  UNION {PartitionGraph(o) : o \in ToSet(Owners)} = Dataset
<1>1. CASE layout = "replicated"
  <2>1. <<"user", 0>>[2] \in Nat
    OBVIOUS
  <2>2. PICK o : o \in ToSet(Owners)
    BY <2>1, OwnersExist
  <2> QED
    BY <1>1, <2>2 DEF PartitionGraph
<1>2. CASE layout = "distributed"
  <2>1. \A o : PartitionGraph(o) \subseteq Dataset
    BY DEF PartitionGraph
  <2>2. \A t \in Dataset : \E o \in ToSet(Owners) : t \in PartitionGraph(o)
    BY <1>2, Fragments
  <2> QED
    BY <2>1, <2>2
<1> QED
  BY <1>1, <1>2 DEF Layouts

LEMMA ClosedIsWhole == IInv /\ Closed => EntitiesAreWhole
<1> SUFFICES ASSUME IInv, Closed, layout = "distributed"
             PROVE  /\ \A i \in 0 .. users - 1 : \E o \in ToSet(Owners) : \A kind \in UserKinds :
                          /\ About(o, <<kind, i>>) = About(Whole, <<kind, i>>)
                          /\ \A other \in ToSet(Owners) \ {o} : About(other, <<kind, i>>) = {}
                    /\ \A n \in 0 .. Nodes - 1, kind \in SharedKinds, o \in ToSet(Owners) :
                          From(o, <<kind, n>>) = From(Whole, <<kind, n>>)
  BY DEF EntitiesAreWhole
<1>1. /\ \A o \in ToSet(Owners) : graph[Common] \subseteq graph[o] /\ Private(graph[o], o)
      /\ \A t \in graph[Whole] : \E o \in ToSet(Owners) : t \in graph[o]
  BY DEF Closed, Partitions
<1>2. \A o \in ToSet(Owners) : graph[o] \subseteq graph[Whole]
  BY OwnersExist DEF IInv, NothingInvented
<1>3. ASSUME NEW i \in 0 .. users - 1
      PROVE  \E o \in ToSet(Owners) : \A kind \in UserKinds :
                /\ About(o, <<kind, i>>) = About(Whole, <<kind, i>>)
                /\ \A other \in ToSet(Owners) \ {o} : About(other, <<kind, i>>) = {}
  <2> DEFINE o == OwnerFor(<<"user", i>>)
  <2>1. o \in ToSet(Owners)
    <3>1. i \in Nat
      OBVIOUS
    <3> QED
      BY <3>1, OwnersExist
  <2>2. \A kind : OwnerFor(<<kind, i>>) = o
    BY DEF OwnerFor
  <2> HIDE DEF o
  <2>3. ASSUME NEW kind \in UserKinds
        PROVE  /\ About(o, <<kind, i>>) = About(Whole, <<kind, i>>)
               /\ \A other \in ToSet(Owners) \ {o} : About(other, <<kind, i>>) = {}
    <3>1. ASSUME NEW w \in ToSet(Owners), NEW t \in graph[w], <<kind, i>> \in {t[1], t[3]}
          PROVE  w = o
      <4>1. <<kind, i>>[1] \in UserKinds
        OBVIOUS
      <4> QED
        <5>1. \A e \in {t[1], t[3]} : e[1] \in UserKinds => w = OwnerFor(e)
          BY <1>1, <3>1 DEF Private
        <5>2. w = OwnerFor(<<kind, i>>)
          BY <3>1, <4>1, <5>1, Zenon
        <5> QED
          BY <2>2, <5>2
    <3> QED
      BY <1>1, <1>2, <2>1, <3>1 DEF About
  <2> QED
    BY <2>1, <2>3
<1>4. ASSUME NEW n \in 0 .. Nodes - 1, NEW kind \in SharedKinds, NEW o \in ToSet(Owners)
      PROVE  From(o, <<kind, n>>) = From(Whole, <<kind, n>>)
  <2>1. \A t \in graph[Whole] : t[1] = <<kind, n>> => t \in graph[Common]
    <3>1. <<kind, n>>[1] \in SharedKinds
      OBVIOUS
    <3>2. \A t \in graph[Whole] : t[1][1] \in SharedKinds => t \in graph[Common]
      BY DEF Closed, CommonPart, NodesKnown
    <3> QED
      BY <3>1, <3>2, Zenon
  <2> QED
    BY <1>1, <1>2, <2>1 DEF From
<1> QED
  BY <1>3, <1>4

\* What the whole dataset entails about a user and about all that is the user's
\* one owner finds alone and no other has any of it, and every owner finds what
\* it entails of a shared node: for every number of hosts, nodes and users.
THEOREM EntitiesWhole == Spec => []EntitiesAreWhole
  BY AlwaysClosed, ClosedIsWhole, PTL

\* Taking turns finds one of the hosts.
LEMMA Selected ==
  ASSUME NEW s \in Seq(ToSet(Hosts)), s # <<>>, NEW number \in Nat
  PROVE  \E h \in ToSet(s) : Nth(s, number) = {h}
<1>1. Len(s) \in Nat \ {0} /\ DOMAIN s = 1 .. Len(s)
  OBVIOUS
<1>2. \A k \in Nat, n \in Nat \ {0} : (k % n) + 1 \in 1 .. n
  OBVIOUS
<1>3. (number % Len(s)) + 1 \in DOMAIN s
  BY <1>1, <1>2
<1> QED
  BY <1>3 DEF Nth, ToSet

LEMMA ClosedSuffices == IInv /\ Closed => RoutedHostsSuffice
<1> SUFFICES ASSUME IInv, Closed, NEW scope \in Scopes, NEW number \in 1 .. Len(Hosts)
             PROVE  LET held == UNION {graph[h] : h \in SelectHosts(scope, number)} IN
                    /\ scope \in {"authorities", "all"} => held = graph[Whole]
                    /\ scope = "cloud_authorities" /\ OfTier({"edge"}) # <<>> => held = graph[Whole]
                    /\ scope = "authority_key" => graph[Common] \subseteq held
  BY DEF RoutedHostsSuffice
<1> DEFINE held == UNION {graph[h] : h \in SelectHosts(scope, number)}
<1>1. /\ graph[Common] \subseteq graph[Whole]
      /\ \A h \in ToSet(Hosts) : graph[h] \subseteq graph[Whole]
      /\ number \in Nat /\ Hosts \in Seq(ToSet(Hosts)) /\ Hosts # <<>>
  BY DistributionAssumption DEF IInv, NothingInvented, Closed, CommonPart
<1>2. CASE layout = "replicated"
  <2>1. SelectHosts(scope, number) = Nth(Hosts, number)
    BY <1>2 DEF SelectHosts
  <2>2. PICK h \in ToSet(Hosts) : SelectHosts(scope, number) = {h}
    BY <1>1, <2>1, Selected
  <2>3. held = graph[Whole]
    BY <1>2, <2>2 DEF Closed, Replicas
  <2> QED
    BY <1>1, <2>3
<1>3. CASE layout = "distributed"
  <2>1. Owners = Authorities /\ layout # "replicated"
    BY <1>3 DEF Owners
  <2>2. /\ \A o \in ToSet(Owners) : graph[Common] \subseteq graph[o]
        /\ \A t \in graph[Whole] : \E o \in ToSet(Owners) : t \in graph[o]
    BY <1>3 DEF Closed, Partitions
  <2>3. ASSUME NEW some, ToSet(Owners) \subseteq some, some \subseteq ToSet(Hosts)
        PROVE  UNION {graph[h] : h \in some} = graph[Whole]
    BY <1>1, <2>2, <2>3
  <2>4. CASE scope = "authorities"
    <3>1. SelectHosts(scope, number) = ToSet(Owners)
      BY <2>1, <2>4 DEF SelectHosts, Tiers
    <3> QED
      BY <2>3, <2>4, <3>1, OwnersExist
  <2>5. CASE scope = "all"
    <3>1. SelectHosts(scope, number) = ToSet(Hosts)
      BY <2>1, <2>5 DEF SelectHosts, Tiers
    <3> QED
      BY <2>3, <2>5, <3>1, OwnersExist
  <2>6. CASE scope = "cloud_authorities"
    <3>1. SelectHosts(scope, number) = ToSet(OrAll(OfTier({"cloud", "edge"})))
      BY <2>1, <2>6 DEF SelectHosts, Tiers
    <3>2. ASSUME OfTier({"edge"}) # <<>>
          PROVE  ToSet(Owners) \subseteq SelectHosts(scope, number) /\ SelectHosts(scope, number) \subseteq ToSet(Hosts)
      <4>1. Owners = OfTier({"edge"})
        BY <2>1, <3>2 DEF Authorities, OrAll
      <4>2. ToSet(Owners) \subseteq ToSet(OfTier({"cloud", "edge"}))
        BY <4>1, Chosen
      <4>3. ToSet(OfTier({"cloud", "edge"})) \subseteq ToSet(Hosts)
        BY Chosen
      <4> QED
        BY <3>1, <4>2, <4>3, OwnersExist DEF OrAll
    <3> QED
      BY <2>3, <2>6, <3>2
  <2>7. CASE scope = "authority_key"
    <3>1. SelectHosts(scope, number) = Nth(Owners, number)
      BY <2>1, <2>7 DEF SelectHosts, Tiers
    <3>2. PICK o \in ToSet(Owners) : SelectHosts(scope, number) = {o}
      BY <1>1, <3>1, Selected, OwnersExist
    <3> QED
      BY <2>2, <2>7, <3>2
  <2> QED
    BY <2>4, <2>5, <2>6, <2>7
<1> QED
  BY <1>2, <1>3 DEF Closed, Deployed, Layouts

\* The hosts that a query is sent to hold together what it asks for, whatever the
\* hosts that are active, the round and the key.
THEOREM RoutesSuffice == Spec => []RoutedHostsSuffice
  BY AlwaysClosed, ClosedSuffices, PTL

LEMMA ClosedCounts == IInv /\ Closed => CountsEveryone
<1> SUFFICES ASSUME IInv, Closed, OfTier({"cloud"}) # <<>>, OfTier({"edge"}) # <<>>,
                    NEW number \in 1 .. Len(Hosts), NEW h \in ToSet(Hosts), h \in SelectHosts("cloud", number)
             PROVE  Consents(h) = Consents(Whole)
  BY DEF CountsEveryone
<1>1. number \in Nat /\ graph[h] \subseteq graph[Whole]
  BY DEF IInv, NothingInvented
<1>2. CASE layout = "replicated"
  BY <1>2 DEF Closed, Replicas, Consents
<1>3. CASE layout = "distributed"
  <2>1. SelectHosts("cloud", number) = Nth(OfTier({"cloud"}), number)
    BY <1>3 DEF SelectHosts, OrAll, Tiers
  <2>2. h \in ToSet(OfTier({"cloud"}))
    BY <1>1, <2>1, Selected, Chosen
  <2>3. tier[h] = "cloud"
    BY <2>2, Chosen
  <2>4. Owners = OfTier({"edge"})
    BY <1>3 DEF Owners, Authorities, OrAll
  <2>5. h \notin ToSet(Owners)
    BY <2>3, <2>4, Chosen
  <2>6. HoldsConsents(graph[h], graph[Whole])
    BY <1>3, <2>3, <2>5 DEF Closed, Partitions
  <2>7. With(graph[h], CONSENTS) = With(graph[Whole], CONSENTS)
    BY <1>1, <2>6 DEF HoldsConsents, With
  <2>8. \A t \in With(graph[Whole], CONSENTS) : <<t[1], RDF_TYPE, Term("User")>> \in graph[h]
    BY <2>6 DEF HoldsConsents
  <2> QED
    BY <1>1, <2>7, <2>8 DEF Consents, CONSENTS
<1> QED
  BY <1>2, <1>3 DEF Closed, Deployed, Layouts

\* Any host of the cloud counts every user's consent, also in a layout where it
\* owns no user, as long as the cloud and the edge have a host.
THEOREM EveryoneCounted == Spec => []CountsEveryone
  BY AlwaysClosed, ClosedCounts, PTL

=============================================================================
