------------------------------ MODULE IdOrder ------------------------------
(***************************************************************************)
(* Rows in id order: what ORDER BY id makes of a set of ids, which both    *)
(* the verifier and the audit page read.  The row at position i is the one *)
(* with i rows up to it.  (Said by ranks and not by sorting a sequence, so *)
(* that it can be reasoned about.)                                         *)
(***************************************************************************)
EXTENDS Naturals, FiniteSets

Rank(ids, id) == Cardinality({other \in ids : other <= id})

InIdOrder(ids) == [i \in 1..Cardinality(ids) |-> CHOOSE id \in ids : Rank(ids, id) = i]
=============================================================================
