------------------------------- MODULE Queues -------------------------------
(***************************************************************************)
(* Rows of an outbox are numbered as they are created, and taken oldest    *)
(* first: order_by("created_at").                                          *)
(***************************************************************************)
EXTENDS Naturals, Sequences, FiniteSets

InOrder(rows) ==
    CHOOSE q \in [1..Cardinality(rows) -> rows] :
        \A i, j \in 1..Cardinality(rows) : i < j => q[i] < q[j]
=============================================================================
