---------------------------- MODULE SeatOwnership ----------------------------
(***************************************************************************)
(* What a seat map promises about who owns which seat, whatever the       *)
(* buyers, the staff and the payment provider do: one step concerns one    *)
(* order, which takes only seats that nobody owns, and only seats that     *)
(* nobody owns are blocked.  Rows of the map may come and go.              *)
(***************************************************************************)
CONSTANTS Seat, Order, Free, Blocked, Absent

VARIABLE owner      \* an order, Free, Blocked, or Absent for no such row

Init == owner = [s \in Seat |-> Absent]

\* How the owner of one seat may change in the step.
Change(s, x, y) == owner[s] = x /\ owner'[s] = y

\* An order takes seats and gives back others, all at once.
Exchange(o) == \A s \in Seat : \/ owner'[s] = owner[s]
                               \/ Change(s, Free, o) \/ Change(s, o, Free)

Block == \A s \in Seat : owner'[s] = owner[s] \/ Change(s, Free, Blocked)
Unblock == \A s \in Seat : owner'[s] = owner[s] \/ Change(s, Blocked, Free)

\* Some rows go, rows that were missing appear.
Redraw == \A s \in Seat : \/ owner'[s] \in {owner[s], Absent}
                          \/ Change(s, Absent, Free)

\* All rows are deleted and others are created.
Replace == \A s \in Seat : owner'[s] \in {Free, Absent}

Next == /\ owner' \in [Seat -> Order \cup {Free, Blocked, Absent}]
        /\ \/ \E o \in Order : Exchange(o)
           \/ Block \/ Unblock \/ Redraw \/ Replace

Spec == Init /\ [][Next]_owner
=============================================================================
