--------------------------- MODULE TicketInventory ---------------------------
(***************************************************************************)
(* What the shop promises about the places of one event, whatever the     *)
(* payment provider, the cron job and the buyers do: an order either holds *)
(* a place for each of its tickets, all in one pool, or holds none; it     *)
(* takes them all at once and gives them all back at once; and the places  *)
(* held never exceed a pool's capacity or the event's.                     *)
(***************************************************************************)
EXTENDS Naturals, FiniteSets

CONSTANTS Order, Ticket, OrderOf, Pool, PoolCapacity, EventCapacity, None

VARIABLE holding    \* the pool in which an order holds places, or None

HeldIn(p) == {t \in Ticket : holding[OrderOf[t]] = p}
Held == {t \in Ticket : holding[OrderOf[t]] # None}

WithinCapacity ==
    /\ \A p \in Pool : Cardinality(HeldIn(p)) <= PoolCapacity[p]
    /\ Cardinality(Held) <= EventCapacity

Init == holding = [o \in Order |-> None]

Take(o, p) ==
    /\ holding[o] = None
    /\ holding' = [holding EXCEPT ![o] = p]
    /\ WithinCapacity'

Give(o) ==
    /\ holding[o] # None
    /\ holding' = [holding EXCEPT ![o] = None]

Next == \E o \in Order : Give(o) \/ \E p \in Pool : Take(o, p)

Spec == Init /\ [][Next]_holding
=============================================================================
