------------------------------ MODULE MCDistribution -----------------------------
(* An instance of Distribution for TLC. *)
EXTENDS Distribution, TLC

\* Axioms of base.nt about the generated facts, a user and a node of its own,
\* its datatype, and numbers of equal value in different forms.
BaseGraph ==
    {<<Term("connectsTo"), RDFS_DOMAIN, Term("Device")>>,
     <<Term("connectsTo"), RDFS_RANGE, Term("ComputationalNode")>>,
     <<Term("EdgeNode"), RDFS_SUBCLASS, Term("ComputationalNode")>>,
     <<Term("ComputationalNode"), RDFS_SUBCLASS, Term("Device")>>,
     <<Term("hasNodeState"), RDFS_RANGE, Term("NodeState")>>,
     <<Term("hasConsentRecord"), RDFS_RANGE, Term("ConsentRecord")>>,
     <<Term("consentSubject"), RDFS_RANGE, Term("User")>>,
     <<Term("hasActiveConsentRange"), RDFS_DOMAIN, Term("User")>>,
     <<Term("User"), RDFS_SUBCLASS, Term("Person")>>,
     <<Term("isAttachedTo"), RDFS_SUBPROPERTY, Term("isRelatedTo")>>,
     <<Term("duration"), RDF_TYPE, RDFS_DATATYPE>>,
     <<Term("UserA"), RDF_TYPE, Term("User")>>,
     <<Term("UserA"), Term("hasActiveConsentRange"), Term("RangeLocalOnly")>>,
     <<Term("Fog"), Term("queuedRequests"), Term("2.0")>>}

Numbers == {Term("2"), Term("2.0")}
Values == [n \in Numbers |-> 2]
HostSequence == <<"h1", "h2", "h3", "h4">>
=============================================================================
