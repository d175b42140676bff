--------------------------- MODULE MCSeatInventory ---------------------------
(***************************************************************************)
(* Small instances of SeatInventory for TLC.                               *)
(***************************************************************************)
EXTENDS SeatInventory, TLC

\* Every order is for one seat: two of them, both live, still leave a seat
\* free to swap with, move to, block or redraw.
MCQuantity == [o \in Order |-> 1]

\* The whole room, and every layout that drops one seat.
MCLayouts == {L \in SUBSET Seat : Cardinality(L) >= 2}

Symmetry == Permutations(Worker) \cup Permutations(Seat) \cup Permutations(Order)
=============================================================================
