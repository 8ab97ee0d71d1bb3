----------------------------- MODULE MCLogicalQuery ----------------------------
(* Instances of LogicalQuery for TLC. *)
EXTENDS LogicalQuery, TLC

\* A union, a disjunction of ASK answers, and two merges the code refuses: a
\* boolean_or of a query that is not ASK, and a single of two participants.
AllMerges == {[merge |-> "set_union", kind |-> "report"], [merge |-> "boolean_or", kind |-> "ask"],
              [merge |-> "boolean_or", kind |-> "report"], [merge |-> "single", kind |-> "report"]}
=============================================================================
