------------------------- MODULE SeatInventory_proofs -------------------------
(***************************************************************************)
(* Theorems about SeatInventory for every set of seats, layouts, orders    *)
(* and workers, with their proofs.                                         *)
(***************************************************************************)
EXTENDS SeatInventory, FiniteSums

-----------------------------------------------------------------------------
(* The inductive invariant.                                                *)

\* What a worker has in memory at each point of its request.  A seat being
\* moved cannot change under the worker that has it locked.
JobsOK == \A w \in Worker :
    /\ job[w].pc \in {"swap", "sell", "sell_rows", "rereserve", "pay_late", "move"} =>
          job[w].order \in Order
    /\ job[w].pc \in {"sell", "sell_rows"} =>
          status[job[w].order] \in {"PAID", "REFUNDED"}
    /\ job[w].pc \in {"rereserve", "pay_late"} =>
          status[job[w].order] \in {"EXPIRED", "PAID", "REFUNDED"}
    /\ job[w].pc = "move" =>
          /\ job[w].from \in Seat
          /\ seat_status[job[w].from] \in Taken
          /\ seat_order[job[w].from] = job[w].order

\* Two workers never move the same seat.
OneMover == \A v, w \in Worker :
    job[v].pc = "move" /\ job[w].pc = "move" /\ job[v].from = job[w].from => v = w

ModeOK == seating_mode \in {"GENERAL", "SEATED"}

IInv == SeatsOK /\ OrdersOK /\ ModeOK /\ JobsOK /\ OneMover
        /\ OwnersStand /\ CapacityIsSellable

\* The vocabulary of the state and of the steps, expanded in every proof below.
USE DEF seatVars, orderVars, eventVars, SeatStatus, Taken, OrderStatus, Live,
        Pc, Idle, Goto, Done

-----------------------------------------------------------------------------
(* The seats, the orders and the workers.                                  *)

\* Every step keeps the types of the rows and of the workers' memory, and a
\* seat names an order exactly while it is taken.
LEMMA TypeStep ==
    ASSUME IInv, [Next]_vars
    PROVE  SeatsOK' /\ OrdersOK' /\ ModeOK'
  <1> USE DEF IInv
  <1>1. ASSUME NEW w \in Worker, OpenPurchase(w)
        PROVE  SeatsOK' /\ OrdersOK' /\ ModeOK'
    BY <1>1 DEF OpenPurchase, SeatsOK, OrdersOK, ModeOK, Job
  <1>2. ASSUME NEW w \in Worker, NEW o \in Order, NEW K \in SUBSET Seat,
               CreateSeated(w, o, K)
        PROVE  SeatsOK' /\ OrdersOK' /\ ModeOK'
    <2>1. job' \in [Worker -> Job]
      BY <1>2 DEF CreateSeated, OrdersOK, Job
    <2>2. /\ seat_keys' \in [Order -> SUBSET Seat]
          /\ status' \in [Order -> OrderStatus \cup {"NONE"}]
      BY <1>2 DEF CreateSeated, Insert, OrdersOK
    <2>3. SeatsOK'
      BY <1>2, NoneIsFresh DEF CreateSeated, Assign, SeatsOK
    <2>4. QED
      BY <2>1, <2>2, <2>3, <1>2 DEF CreateSeated, OrdersOK, ModeOK
  <1>3. ASSUME NEW w \in Worker, NEW o \in Order, NEW K \in SUBSET Seat,
               ChooseSwap(w, o, K)
        PROVE  SeatsOK' /\ OrdersOK' /\ ModeOK'
    BY <1>3 DEF ChooseSwap, SeatsOK, OrdersOK, ModeOK, Job
  <1>4. ASSUME NEW w \in Worker, NEW o \in Order, CreateGeneral(w, o)
        PROVE  SeatsOK' /\ OrdersOK' /\ ModeOK'
    BY <1>4 DEF CreateGeneral, Insert, SeatsOK, OrdersOK, ModeOK, Job
  <1>5. ASSUME NEW w \in Worker, SwapSeats(w)
        PROVE  SeatsOK' /\ OrdersOK' /\ ModeOK'
    <2> DEFINE o == job[w].order
               new == job[w].keys \ job[w].old
               dropped == (job[w].old \ job[w].keys) \cap SeatsOf(o) \cap With("HELD")
    <2>1. o \in Order /\ job[w].keys \in SUBSET Seat
      BY <1>5 DEF SwapSeats, OrdersOK, JobsOK, Job
    <2>2. job' \in [Worker -> Job]
      BY <1>5 DEF SwapSeats, OrdersOK, Job
    <2>3. seat_keys' \in [Order -> SUBSET Seat]
      BY <2>1, <1>5 DEF SwapSeats, OrdersOK
    <2>4. SeatsOK'
      <3>1. CASE HoldAndDrop(o, new, dropped)
        BY <2>1, <3>1, NoneIsFresh DEF HoldAndDrop, SeatsOK
      <3>2. CASE UNCHANGED seatVars
        BY <3>2 DEF SeatsOK
      <3>3. QED
        BY <3>1, <3>2, <1>5 DEF SwapSeats
    <2>5. QED
      BY <2>2, <2>3, <2>4, <1>5 DEF SwapSeats, OrdersOK, ModeOK
  <1>6. ASSUME NEW w \in Worker, NEW o \in Order, ClaimPaid(w, o)
        PROVE  SeatsOK' /\ OrdersOK' /\ ModeOK'
    <2>1. job[w] \in Job
      BY DEF OrdersOK
    <2>2. [job[w] EXCEPT !.pc = "sell", !.order = o] \in Job
      BY <2>1, <1>6 DEF Job
    <2>3. job' \in [Worker -> Job]
      BY <2>2, <1>6 DEF ClaimPaid, OrdersOK
    <2>4. QED
      BY <2>3, <1>6 DEF ClaimPaid, SeatsOK, OrdersOK, ModeOK
  <1>7. ASSUME NEW w \in Worker, NEW o \in Order, LatePayment(w, o)
        PROVE  SeatsOK' /\ OrdersOK' /\ ModeOK'
    <2>1. job[w] \in Job
      BY DEF OrdersOK
    <2>2. [job[w] EXCEPT !.pc = "rereserve", !.order = o, !.keys = seat_keys[o]] \in Job
      BY <2>1, <1>7 DEF Job, OrdersOK
    <2>3. job' \in [Worker -> Job]
      BY <2>2, <1>7 DEF LatePayment, OrdersOK
    <2>4. QED
      BY <2>3, <1>7 DEF LatePayment, SeatsOK, OrdersOK, ModeOK
  <1>8. ASSUME NEW w \in Worker, MatchHeld(w)
        PROVE  SeatsOK' /\ OrdersOK' /\ ModeOK'
    <2>1. job[w] \in Job
      BY DEF OrdersOK
    <2>2. [job[w] EXCEPT !.pc = "sell_rows",
                       !.keys = SeatsOf(job[w].order) \cap With("HELD")] \in Job
      BY <2>1, <1>8 DEF Job, SeatsOf
    <2>3. job' \in [Worker -> Job]
      BY <2>2, <1>8 DEF MatchHeld, OrdersOK
    <2>4. QED
      BY <2>3, <1>8 DEF MatchHeld, SeatsOK, OrdersOK, ModeOK
  <1>9. ASSUME NEW w \in Worker, SellSeats(w)
        PROVE  SeatsOK' /\ OrdersOK' /\ ModeOK'
    BY <1>9 DEF SellSeats, SeatsOf, With, Assign, SeatsOK, OrdersOK, ModeOK, Job
  <1>10. ASSUME NEW w \in Worker, Rereserve(w)
        PROVE  SeatsOK' /\ OrdersOK' /\ ModeOK'
    BY <1>10 DEF Rereserve, Assign, SeatsOK, OrdersOK, ModeOK, Job
  <1>11. ASSUME NEW w \in Worker, PayLate(w)
        PROVE  SeatsOK' /\ OrdersOK' /\ ModeOK'
    BY <1>11 DEF PayLate, SeatsOK, OrdersOK, ModeOK, Job
  <1>12. ASSUME NEW w \in Worker, NEW s \in Seat, LockSource(w, s)
        PROVE  SeatsOK' /\ OrdersOK' /\ ModeOK'
    BY <1>12 DEF LockSource, SeatsOK, OrdersOK, ModeOK, Job
  <1>13. ASSUME NEW w \in Worker, NEW t \in Seat, MoveSeat(w, t)
        PROVE  SeatsOK' /\ OrdersOK' /\ ModeOK'
    BY <1>13 DEF MoveSeat, SeatsOK, OrdersOK, ModeOK, Job, JobsOK
  <1>14. ASSUME NEW w \in Worker, NEW l \in {"attach", "detach", "redraw"},
               NEW L \in SUBSET Seat, OpenMap(w, l, L)
        PROVE  SeatsOK' /\ OrdersOK' /\ ModeOK'
    <2>1. job[w] \in Job
      BY DEF OrdersOK
    <2>2. [job[w] EXCEPT !.pc = l, !.keys = L] \in Job
      BY <2>1, <1>14 DEF Job
    <2>3. job' \in [Worker -> Job]
      BY <2>2, <1>14 DEF OpenMap, OrdersOK
    <2>4. QED
      BY <2>3, <1>14 DEF OpenMap, SeatsOK, OrdersOK, ModeOK
  <1>15. ASSUME NEW w \in Worker, attach_layout(w)
        PROVE  SeatsOK' /\ OrdersOK' /\ ModeOK'
    BY <1>15 DEF attach_layout, Create, SeatsOK, OrdersOK, ModeOK, Job
  <1>16. ASSUME NEW w \in Worker, detach_layout(w)
        PROVE  SeatsOK' /\ OrdersOK' /\ ModeOK'
    BY <1>16 DEF detach_layout, Create, SeatsOK, OrdersOK, ModeOK, Job
  <1>17. ASSUME NEW w \in Worker, PlanRedraw(w)
        PROVE  SeatsOK' /\ OrdersOK' /\ ModeOK'
    BY <1>17 DEF PlanRedraw, SeatsOK, OrdersOK, ModeOK, Job
  <1>18. ASSUME NEW w \in Worker, RedrawMap(w)
        PROVE  SeatsOK' /\ OrdersOK' /\ ModeOK'
    BY <1>18 DEF RedrawMap, DrawRows, Present, SeatsOK, OrdersOK, ModeOK, Job
  <1>19. ASSUME NEW w \in Worker, Abort(w)
        PROVE  SeatsOK' /\ OrdersOK' /\ ModeOK'
    BY <1>19 DEF Abort, SeatsOK, OrdersOK, ModeOK, Job
  <1>20. ASSUME NEW o \in Order, expire_order(o)
        PROVE  SeatsOK' /\ OrdersOK' /\ ModeOK'
    BY <1>20
       DEF expire_order, Leave, release_capacity, Assign, SeatsOK, OrdersOK,
           ModeOK
  <1>21. ASSUME NEW o \in Order, cancel_unpaid_order(o)
        PROVE  SeatsOK' /\ OrdersOK' /\ ModeOK'
    BY <1>21
       DEF cancel_unpaid_order, Leave, release_capacity, Assign, SeatsOK,
           OrdersOK, ModeOK
  <1>22. ASSUME NEW o \in Order, mark_order_refunded(o)
        PROVE  SeatsOK' /\ OrdersOK' /\ ModeOK'
    BY <1>22
       DEF mark_order_refunded, Leave, release_capacity, Assign, SeatsOK,
           OrdersOK, ModeOK
  <1>23. ASSUME NEW K \in SUBSET Seat, block_seats(K)
        PROVE  SeatsOK' /\ OrdersOK' /\ ModeOK'
    BY <1>23 DEF block_seats, Assign, SeatsOK, OrdersOK, ModeOK
  <1>24. ASSUME NEW K \in SUBSET Seat, unblock_seats(K)
        PROVE  SeatsOK' /\ OrdersOK' /\ ModeOK'
    BY <1>24 DEF unblock_seats, Assign, SeatsOK, OrdersOK, ModeOK
  <1>25. ASSUME UNCHANGED vars
        PROVE  SeatsOK' /\ OrdersOK' /\ ModeOK'
    BY <1>25 DEF vars, SeatsOK, OrdersOK, ModeOK
  <1>26. QED
    BY <1>1, <1>2, <1>3, <1>4, <1>5, <1>6, <1>7, <1>8, <1>9, <1>10, <1>11,
       <1>12, <1>13, <1>14, <1>15, <1>16, <1>17, <1>18, <1>19, <1>20, <1>21,
       <1>22, <1>23, <1>24, <1>25, LayoutsType
       DEF Next, Buy, Pay, Staff

\* Seats are taken for orders that live and freed by orders that leave, in the
\* same transaction as the status; a payment's memory of its order is enough
\* for the seats it sells later.
LEMMA OwnersStep ==
    ASSUME IInv, [Next]_vars
    PROVE  OwnersStand'
  <1> USE DEF IInv
  <1>1. ASSUME NEW w \in Worker, OpenPurchase(w)
        PROVE  OwnersStand'
    BY <1>1 DEF OpenPurchase, OwnersStand
  <1>2. ASSUME NEW w \in Worker, NEW o \in Order, NEW K \in SUBSET Seat,
               CreateSeated(w, o, K)
        PROVE  OwnersStand'
    BY <1>2 DEF CreateSeated, Insert, Assign, OrdersOK, OwnersStand
  <1>3. ASSUME NEW w \in Worker, NEW o \in Order, NEW K \in SUBSET Seat,
               ChooseSwap(w, o, K)
        PROVE  OwnersStand'
    BY <1>3 DEF ChooseSwap, OwnersStand
  <1>4. ASSUME NEW w \in Worker, NEW o \in Order, CreateGeneral(w, o)
        PROVE  OwnersStand'
    BY <1>4 DEF CreateGeneral, Insert, OwnersStand
  <1>5. ASSUME NEW w \in Worker, SwapSeats(w)
        PROVE  OwnersStand'
    BY <1>5 DEF SwapSeats, HoldAndDrop, OwnersStand
  <1>6. ASSUME NEW w \in Worker, NEW o \in Order, ClaimPaid(w, o)
        PROVE  OwnersStand'
    BY <1>6 DEF ClaimPaid, OwnersStand
  <1>7. ASSUME NEW w \in Worker, NEW o \in Order, LatePayment(w, o)
        PROVE  OwnersStand'
    BY <1>7 DEF LatePayment, OwnersStand
  <1>8. ASSUME NEW w \in Worker, MatchHeld(w)
        PROVE  OwnersStand'
    BY <1>8 DEF MatchHeld, OwnersStand
  <1>9. ASSUME NEW w \in Worker, SellSeats(w)
        PROVE  OwnersStand'
    BY <1>9 DEF SellSeats, Assign, JobsOK, OwnersStand
  <1>10. ASSUME NEW w \in Worker, Rereserve(w)
        PROVE  OwnersStand'
    BY <1>10 DEF Rereserve, Assign, OrdersOK, Job, OwnersStand
  <1>11. ASSUME NEW w \in Worker, PayLate(w)
        PROVE  OwnersStand'
    BY <1>11 DEF PayLate, OwnersStand
  <1>12. ASSUME NEW w \in Worker, NEW s \in Seat, LockSource(w, s)
        PROVE  OwnersStand'
    BY <1>12 DEF LockSource, OwnersStand
  <1>13. ASSUME NEW w \in Worker, NEW t \in Seat, MoveSeat(w, t)
        PROVE  OwnersStand'
    BY <1>13 DEF MoveSeat, SeatsOK, JobsOK, OwnersStand
  <1>14. ASSUME NEW w \in Worker, NEW l \in {"attach", "detach", "redraw"},
               NEW L \in SUBSET Seat, OpenMap(w, l, L)
        PROVE  OwnersStand'
    BY <1>14 DEF OpenMap, OwnersStand
  <1>15. ASSUME NEW w \in Worker, attach_layout(w)
        PROVE  OwnersStand'
    BY <1>15 DEF attach_layout, Create, OwnersStand
  <1>16. ASSUME NEW w \in Worker, detach_layout(w)
        PROVE  OwnersStand'
    BY <1>16 DEF detach_layout, Create, OwnersStand
  <1>17. ASSUME NEW w \in Worker, PlanRedraw(w)
        PROVE  OwnersStand'
    BY <1>17 DEF PlanRedraw, OwnersStand
  <1>18. ASSUME NEW w \in Worker, RedrawMap(w)
        PROVE  OwnersStand'
    BY <1>18 DEF RedrawMap, DrawRows, OwnersStand
  <1>19. ASSUME NEW w \in Worker, Abort(w)
        PROVE  OwnersStand'
    BY <1>19 DEF Abort, OwnersStand
  <1>20. ASSUME NEW o \in Order, expire_order(o)
        PROVE  OwnersStand'
    BY <1>20
       DEF expire_order, Leave, release_capacity, SeatsOf, Assign, OwnersStand
  <1>21. ASSUME NEW o \in Order, cancel_unpaid_order(o)
        PROVE  OwnersStand'
    BY <1>21
       DEF cancel_unpaid_order, Leave, release_capacity, SeatsOf, Assign,
           OwnersStand
  <1>22. ASSUME NEW o \in Order, mark_order_refunded(o)
        PROVE  OwnersStand'
    BY <1>22
       DEF mark_order_refunded, Leave, release_capacity, SeatsOf, Assign,
           OwnersStand
  <1>23. ASSUME NEW K \in SUBSET Seat, block_seats(K)
        PROVE  OwnersStand'
    BY <1>23 DEF block_seats, Assign, OwnersStand
  <1>24. ASSUME NEW K \in SUBSET Seat, unblock_seats(K)
        PROVE  OwnersStand'
    BY <1>24 DEF unblock_seats, Assign, OwnersStand
  <1>25. ASSUME UNCHANGED vars
        PROVE  OwnersStand'
    BY <1>25 DEF vars, OwnersStand
  <1>26. QED
    BY <1>1, <1>2, <1>3, <1>4, <1>5, <1>6, <1>7, <1>8, <1>9, <1>10, <1>11,
       <1>12, <1>13, <1>14, <1>15, <1>16, <1>17, <1>18, <1>19, <1>20, <1>21,
       <1>22, <1>23, <1>24, <1>25, LayoutsType
       DEF Next, Buy, Pay, Staff

\* An order a worker has in memory only moves on in ways the worker allows for,
\* and a seat being moved is locked against everything that could change it.
LEMMA JobsStep ==
    ASSUME IInv, [Next]_vars
    PROVE  JobsOK' /\ OneMover'
  <1> USE DEF IInv
  <1>1. ASSUME NEW w \in Worker, OpenPurchase(w)
        PROVE  JobsOK' /\ OneMover'
    BY <1>1 DEF OpenPurchase, JobsOK, OneMover
  <1>2. ASSUME NEW w \in Worker, NEW o \in Order, NEW K \in SUBSET Seat,
               CreateSeated(w, o, K)
        PROVE  JobsOK' /\ OneMover'
    BY <1>2
       DEF CreateSeated, Insert, AllAvailable, With, Assign, JobsOK, OneMover
  <1>3. ASSUME NEW w \in Worker, NEW o \in Order, NEW K \in SUBSET Seat,
               ChooseSwap(w, o, K)
        PROVE  JobsOK' /\ OneMover'
    BY <1>3 DEF ChooseSwap, JobsOK, OneMover
  <1>4. ASSUME NEW w \in Worker, NEW o \in Order, CreateGeneral(w, o)
        PROVE  JobsOK' /\ OneMover'
    BY <1>4 DEF CreateGeneral, Insert, JobsOK, OneMover
  <1>5. ASSUME NEW w \in Worker, SwapSeats(w)
        PROVE  JobsOK' /\ OneMover'
    <2> DEFINE o == job[w].order
               new == job[w].keys \ job[w].old
               dropped == (job[w].old \ job[w].keys) \cap SeatsOf(o) \cap With("HELD")
    <2>1. /\ \A v \in Worker \ {w} : job'[v] = job[v]
          /\ job'[w].pc = "idle"
          /\ status' = status
      BY <1>5 DEF SwapSeats, OrdersOK
    <2>2. ASSUME NEW v \in Worker, job[v].pc = "move"
          PROVE  LET s == job[v].from IN
                 seat_status'[s] = seat_status[s] /\ seat_order'[s] = seat_order[s]
      <3> DEFINE s == job[v].from
      <3>1. s \in Seat /\ s \notin With("AVAILABLE") /\ s \notin dropped
        BY <2>2, <1>5 DEF SwapSeats, Locked, JobsOK, With
      <3>2. CASE AllAvailable(new) /\ HoldAndDrop(o, new, dropped)
        BY <3>1, <3>2 DEF AllAvailable, HoldAndDrop
      <3>3. CASE UNCHANGED seatVars
        BY <3>3
      <3>4. QED
        BY <3>2, <3>3, <1>5 DEF SwapSeats
    <2>3. QED
      BY <2>1, <2>2 DEF JobsOK, OneMover
  <1>6. ASSUME NEW w \in Worker, NEW o \in Order, ClaimPaid(w, o)
        PROVE  JobsOK' /\ OneMover'
    BY <1>6 DEF ClaimPaid, OrdersOK, JobsOK, OneMover
  <1>7. ASSUME NEW w \in Worker, NEW o \in Order, LatePayment(w, o)
        PROVE  JobsOK' /\ OneMover'
    BY <1>7 DEF LatePayment, OrdersOK, JobsOK, OneMover
  <1>8. ASSUME NEW w \in Worker, MatchHeld(w)
        PROVE  JobsOK' /\ OneMover'
    BY <1>8 DEF MatchHeld, OrdersOK, JobsOK, OneMover
  <1>9. ASSUME NEW w \in Worker, SellSeats(w)
        PROVE  JobsOK' /\ OneMover'
    BY <1>9 DEF SellSeats, SeatsOf, Assign, JobsOK, OneMover
  <1>10. ASSUME NEW w \in Worker, Rereserve(w)
        PROVE  JobsOK' /\ OneMover'
    BY <1>10 DEF Rereserve, Assign, OrdersOK, JobsOK, Job, OneMover
  <1>11. ASSUME NEW w \in Worker, PayLate(w)
        PROVE  JobsOK' /\ OneMover'
    BY <1>11 DEF PayLate, JobsOK, OneMover
  <1>12. ASSUME NEW w \in Worker, NEW s \in Seat, LockSource(w, s)
        PROVE  JobsOK' /\ OneMover'
    BY <1>12 DEF LockSource, Locked, SeatsOK, JobsOK, OneMover
  <1>13. ASSUME NEW w \in Worker, NEW t \in Seat, MoveSeat(w, t)
        PROVE  JobsOK' /\ OneMover'
    BY <1>13 DEF MoveSeat, SeatsOK, OrdersOK, JobsOK, OneMover
  <1>14. ASSUME NEW w \in Worker, NEW l \in {"attach", "detach", "redraw"},
               NEW L \in SUBSET Seat, OpenMap(w, l, L)
        PROVE  JobsOK' /\ OneMover'
    BY <1>14 DEF OpenMap, OrdersOK, JobsOK, OneMover
  <1>15. ASSUME NEW w \in Worker, attach_layout(w)
        PROVE  JobsOK' /\ OneMover'
    BY <1>15 DEF attach_layout, Locked, JobsOK, OneMover
  <1>16. ASSUME NEW w \in Worker, detach_layout(w)
        PROVE  JobsOK' /\ OneMover'
    BY <1>16 DEF detach_layout, Locked, JobsOK, OneMover
  <1>17. ASSUME NEW w \in Worker, PlanRedraw(w)
        PROVE  JobsOK' /\ OneMover'
    BY <1>17 DEF PlanRedraw, OrdersOK, JobsOK, Job, OneMover
  <1>18. ASSUME NEW w \in Worker, RedrawMap(w)
        PROVE  JobsOK' /\ OneMover'
    BY <1>18 DEF RedrawMap, DrawRows, Locked, Present, JobsOK, OneMover
  <1>19. ASSUME NEW w \in Worker, Abort(w)
        PROVE  JobsOK' /\ OneMover'
    BY <1>19 DEF Abort, JobsOK, OneMover
  <1>20. ASSUME NEW o \in Order, expire_order(o)
        PROVE  JobsOK' /\ OneMover'
    BY <1>20
       DEF expire_order, Leave, release_capacity, Assign, Locked, JobsOK,
           OneMover
  <1>21. ASSUME NEW o \in Order, cancel_unpaid_order(o)
        PROVE  JobsOK' /\ OneMover'
    BY <1>21
       DEF cancel_unpaid_order, Leave, release_capacity, Assign, Locked, JobsOK,
           OneMover
  <1>22. ASSUME NEW o \in Order, mark_order_refunded(o)
        PROVE  JobsOK' /\ OneMover'
    BY <1>22
       DEF mark_order_refunded, Leave, release_capacity, Assign, Locked, JobsOK,
           OneMover
  <1>23. ASSUME NEW K \in SUBSET Seat, block_seats(K)
        PROVE  JobsOK' /\ OneMover'
    BY <1>23 DEF block_seats, Assign, With, JobsOK, OneMover
  <1>24. ASSUME NEW K \in SUBSET Seat, unblock_seats(K)
        PROVE  JobsOK' /\ OneMover'
    BY <1>24 DEF unblock_seats, Assign, With, JobsOK, OneMover
  <1>25. ASSUME UNCHANGED vars
        PROVE  JobsOK' /\ OneMover'
    BY <1>25 DEF vars, JobsOK, OneMover
  <1>26. QED
    BY <1>1, <1>2, <1>3, <1>4, <1>5, <1>6, <1>7, <1>8, <1>9, <1>10, <1>11,
       <1>12, <1>13, <1>14, <1>15, <1>16, <1>17, <1>18, <1>19, <1>20, <1>21,
       <1>22, <1>23, <1>24, <1>25, LayoutsType
       DEF Next, Buy, Pay, Staff

-----------------------------------------------------------------------------
(* The capacity.                                                           *)

Sellable == Present \ With("BLOCKED")

SellableKept ==
    /\ Sellable' = Sellable
    /\ capacity_total' = capacity_total
    /\ seating_mode' = seating_mode

\* Every set of seats can be counted.
LEMMA SellableFinite ==
    ASSUME NEW K \in SUBSET Seat
    PROVE  IsFiniteSet(K) /\ Cardinality(K) \in Nat
  BY FiniteSeats, FS_Subset, FS_CardinalityType

\* An order that is given up leaves its seats free and the others alone.
LEMMA LeavingFrees ==
    ASSUME SeatsOK, NEW o \in Order, NEW from, NEW to, Leave(o, from, to)
    PROVE  /\ \A s \in Seat : seat_order[s] = o =>
                  seat_status'[s] = "AVAILABLE" /\ seat_order'[s] = None
           /\ \A s \in Seat : seat_order[s] # o =>
                  seat_status'[s] = seat_status[s] /\ seat_order'[s] = seat_order[s]
           /\ UNCHANGED <<capacity_total, seating_mode>>
  BY DEF Leave, release_capacity, Assign, SeatsOf, SeatsOK

\* Only blocking, unblocking, attaching and redrawing change which seats can
\* be sold, and each brings the capacity along.
LEMMA CapacityStep ==
    ASSUME IInv, [Next]_vars
    PROVE  CapacityIsSellable'
  <1> USE DEF IInv
  <1>1. ASSUME NEW w \in Worker, OpenPurchase(w)
        PROVE  SellableKept \/ CapacityIsSellable'
    BY <1>1 DEF OpenPurchase, SellableKept, Sellable, Present, With
  <1>2. ASSUME NEW w \in Worker, NEW o \in Order, NEW K \in SUBSET Seat,
               CreateSeated(w, o, K)
        PROVE  SellableKept \/ CapacityIsSellable'
    BY <1>2
       DEF CreateSeated, AllAvailable, Assign, SellableKept, Sellable, Present,
           With
  <1>3. ASSUME NEW w \in Worker, NEW o \in Order, NEW K \in SUBSET Seat,
               ChooseSwap(w, o, K)
        PROVE  SellableKept \/ CapacityIsSellable'
    BY <1>3 DEF ChooseSwap, SellableKept, Sellable, Present, With
  <1>4. ASSUME NEW w \in Worker, NEW o \in Order, CreateGeneral(w, o)
        PROVE  SellableKept \/ CapacityIsSellable'
    BY <1>4 DEF CreateGeneral, SellableKept, Sellable, Present, With
  <1>5. ASSUME NEW w \in Worker, SwapSeats(w)
        PROVE  SellableKept \/ CapacityIsSellable'
    <2> DEFINE new == job[w].keys \ job[w].old
               dropped == (job[w].old \ job[w].keys) \cap SeatsOf(job[w].order)
                             \cap With("HELD")
    <2>1. CASE AllAvailable(new) /\ HoldAndDrop(job[w].order, new, dropped)
      BY <1>5, <2>1
         DEF SwapSeats, AllAvailable, HoldAndDrop, SellableKept, Sellable,
             Present, With
    <2>2. CASE UNCHANGED seatVars
      BY <1>5, <2>2 DEF SwapSeats, SellableKept, Sellable, Present, With
    <2>3. QED
      BY <1>5, <2>1, <2>2 DEF SwapSeats
  <1>6. ASSUME NEW w \in Worker, NEW o \in Order, ClaimPaid(w, o)
        PROVE  SellableKept \/ CapacityIsSellable'
    BY <1>6 DEF ClaimPaid, SellableKept, Sellable, Present, With
  <1>7. ASSUME NEW w \in Worker, NEW o \in Order, LatePayment(w, o)
        PROVE  SellableKept \/ CapacityIsSellable'
    BY <1>7 DEF LatePayment, SellableKept, Sellable, Present, With
  <1>8. ASSUME NEW w \in Worker, MatchHeld(w)
        PROVE  SellableKept \/ CapacityIsSellable'
    BY <1>8 DEF MatchHeld, SellableKept, Sellable, Present, With
  <1>9. ASSUME NEW w \in Worker, SellSeats(w)
        PROVE  SellableKept \/ CapacityIsSellable'
    BY <1>9 DEF SellSeats, Assign, SellableKept, Sellable, Present, With
  <1>10. ASSUME NEW w \in Worker, Rereserve(w)
        PROVE  SellableKept \/ CapacityIsSellable'
    BY <1>10
       DEF Rereserve, AllAvailable, Assign, SellableKept, Sellable, Present,
           With
  <1>11. ASSUME NEW w \in Worker, PayLate(w)
        PROVE  SellableKept \/ CapacityIsSellable'
    BY <1>11 DEF PayLate, SellableKept, Sellable, Present, With
  <1>12. ASSUME NEW w \in Worker, NEW s \in Seat, LockSource(w, s)
        PROVE  SellableKept \/ CapacityIsSellable'
    BY <1>12 DEF LockSource, SellableKept, Sellable, Present, With
  <1>13. ASSUME NEW w \in Worker, NEW t \in Seat, MoveSeat(w, t)
        PROVE  SellableKept \/ CapacityIsSellable'
    BY <1>13
       DEF MoveSeat, SellableKept, Sellable, Present, With, SeatsOK, JobsOK
  <1>14. ASSUME NEW w \in Worker, NEW l \in {"attach", "detach", "redraw"},
               NEW L \in SUBSET Seat, OpenMap(w, l, L)
        PROVE  SellableKept \/ CapacityIsSellable'
    BY <1>14 DEF OpenMap, SellableKept, Sellable, Present, With
  <1>15. ASSUME NEW w \in Worker, attach_layout(w)
        PROVE  SellableKept \/ CapacityIsSellable'
    <2>1. CASE sold_total = 0
      <3>1. job[w].keys \in SUBSET Seat
        BY <1>15 DEF OrdersOK, Job
      <3>2. Sellable' = job[w].keys
        BY <1>15, <2>1, <3>1 DEF attach_layout, Create, Sellable, Present, With
      <3>3. QED
        BY <1>15, <2>1, <3>2 DEF attach_layout, CapacityIsSellable, Sellable
    <2>2. CASE sold_total # 0
      BY <1>15, <2>2 DEF attach_layout, SellableKept, Sellable, Present, With
    <2>3. QED
      BY <2>1, <2>2
  <1>16. ASSUME NEW w \in Worker, detach_layout(w)
        PROVE  SellableKept \/ CapacityIsSellable'
    BY <1>16 DEF detach_layout, CapacityIsSellable
  <1>17. ASSUME NEW w \in Worker, PlanRedraw(w)
        PROVE  SellableKept \/ CapacityIsSellable'
    BY <1>17 DEF PlanRedraw, SellableKept, Sellable, Present, With
  <1>18. ASSUME NEW w \in Worker, RedrawMap(w)
        PROVE  SellableKept \/ CapacityIsSellable'
    <2> DEFINE L == job[w].keys
    <2>1. CASE DrawRows(L) /\ capacity_total' = Cardinality(L \ With("BLOCKED"))
      <3>1. L \in SUBSET Seat
        BY <1>18 DEF OrdersOK, Job
      <3>2. Sellable' = L \ With("BLOCKED")
        BY <2>1, <3>1 DEF DrawRows, Sellable, Present, With
      <3>3. QED
        BY <2>1, <3>2 DEF CapacityIsSellable, Sellable
    <2>2. CASE UNCHANGED <<seatVars, capacity_total>>
      BY <1>18, <2>2 DEF RedrawMap, SellableKept, Sellable, Present, With
    <2>3. QED
      BY <1>18, <2>1, <2>2 DEF RedrawMap
  <1>19. ASSUME NEW w \in Worker, Abort(w)
        PROVE  SellableKept \/ CapacityIsSellable'
    BY <1>19 DEF Abort, SellableKept, Sellable, Present, With
  <1>20. ASSUME NEW o \in Order, expire_order(o)
        PROVE  SellableKept \/ CapacityIsSellable'
    BY <1>20, LeavingFrees, NoneIsFresh
       DEF expire_order, SellableKept, Sellable, Present, With, SeatsOK
  <1>21. ASSUME NEW o \in Order, cancel_unpaid_order(o)
        PROVE  SellableKept \/ CapacityIsSellable'
    BY <1>21, LeavingFrees, NoneIsFresh
       DEF cancel_unpaid_order, SellableKept, Sellable, Present, With, SeatsOK
  <1>22. ASSUME NEW o \in Order, mark_order_refunded(o)
        PROVE  SellableKept \/ CapacityIsSellable'
    BY <1>22, LeavingFrees, NoneIsFresh
       DEF mark_order_refunded, SellableKept, Sellable, Present, With, SeatsOK
  <1>23. ASSUME NEW K \in SUBSET Seat, block_seats(K)
        PROVE  SellableKept \/ CapacityIsSellable'
    <2> DEFINE rows == K \cap With("AVAILABLE")
    <2>1. /\ Sellable' = Sellable \ rows /\ rows \subseteq Sellable
          /\ capacity_total' = capacity_total - Cardinality(rows)
          /\ seating_mode' = seating_mode
      BY <1>23 DEF block_seats, Assign, Sellable, Present, With
    <2>2. Cardinality(Sellable \ rows) = Cardinality(Sellable) - Cardinality(rows)
      <3>1. Sellable \in SUBSET Seat
        BY DEF Sellable, Present
      <3>2. Sellable \cap rows = rows
        BY <2>1
      <3>3. IsFiniteSet(Sellable)
        BY <3>1, SellableFinite
      <3>4. Cardinality(Sellable \ rows) =
               Cardinality(Sellable) - Cardinality(Sellable \cap rows)
        BY <3>3, FS_Difference
      <3>5. QED
        BY <3>2, <3>4
    <2>3. QED
      BY <2>1, <2>2 DEF CapacityIsSellable, Sellable
  <1>24. ASSUME NEW K \in SUBSET Seat, unblock_seats(K)
        PROVE  SellableKept \/ CapacityIsSellable'
    <2> DEFINE rows == K \cap With("BLOCKED")
    <2>1. /\ Sellable' = Sellable \cup rows /\ rows \cap Sellable = {}
          /\ capacity_total' = capacity_total + Cardinality(rows)
          /\ seating_mode' = seating_mode
      BY <1>24 DEF unblock_seats, Assign, Sellable, Present, With
    <2>2. Cardinality(Sellable \cup rows) = Cardinality(Sellable) + Cardinality(rows)
      <3>1. Sellable \in SUBSET Seat /\ rows \in SUBSET Seat
        BY DEF Sellable, Present
      <3>2. Cardinality(Sellable \cup rows) =
               Cardinality(Sellable) + Cardinality(rows) - Cardinality({})
        BY <3>1, <2>1, SellableFinite, FS_Union
      <3>3. QED
        BY <3>1, <3>2, SellableFinite, FS_EmptySet
    <2>3. QED
      BY <2>1, <2>2 DEF CapacityIsSellable, Sellable
  <1>25. ASSUME UNCHANGED vars
        PROVE  SellableKept \/ CapacityIsSellable'
    BY <1>25 DEF vars, SellableKept, Sellable, Present, With
  <1>26. SellableKept \/ CapacityIsSellable'
    BY <1>1, <1>2, <1>3, <1>4, <1>5, <1>6, <1>7, <1>8, <1>9, <1>10, <1>11,
       <1>12, <1>13, <1>14, <1>15, <1>16, <1>17, <1>18, <1>19, <1>20, <1>21,
       <1>22, <1>23, <1>24, <1>25, LayoutsType
       DEF Next, Buy, Pay, Staff
  <1>27. SellableKept => CapacityIsSellable'
    BY DEF SellableKept, CapacityIsSellable, Sellable
  <1>28. QED
    BY <1>26, <1>27

-----------------------------------------------------------------------------
(* The refinement.                                                         *)

\* What SeatOwner says, one status at a time.
OwnerRead == \A s \in Seat :
    /\ seat_status[s] = "ABSENT" => SeatOwner[s] = "absent"
    /\ seat_status[s] = "BLOCKED" => SeatOwner[s] = "blocked"
    /\ seat_status[s] = "AVAILABLE" => SeatOwner[s] = "free"
    /\ seat_status[s] \in Taken => SeatOwner[s] = seat_order[s]

\* The two columns of a seat determine its owner, before and after a step.
LEMMA ReadOwner == SeatsOK => OwnerRead
  BY DEF OwnerRead, SeatOwner, SeatsOK

LEMMA ReadOwnerNext == SeatsOK' => OwnerRead'
  BY ReadOwner, PTL

\* The step of SeatOwnership an action is: orders exchange seats, staff block,
\* unblock, redraw or replace the map, and the rest leaves owners alone.
OwnersMove ==
    \/ \E o \in Order : Ownership!Exchange(o)
    \/ Ownership!Block \/ Ownership!Unblock \/ Ownership!Redraw \/ Ownership!Replace
    \/ UNCHANGED SeatOwner

\* Every step is one of SeatOwnership or leaves all owners alone.
LEMMA RefinementStep ==
    ASSUME IInv, [Next]_vars
    PROVE  Ownership!Next \/ UNCHANGED SeatOwner
  <1> USE DEF IInv
  <1>r. OwnerRead /\ OwnerRead' /\ SeatsOK /\ SeatsOK'
    BY TypeStep, ReadOwner, ReadOwnerNext
  <1>1. ASSUME NEW w \in Worker, OpenPurchase(w)
        PROVE  OwnersMove
    BY <1>1 DEF OpenPurchase, OwnersMove, SeatOwner
  <1>2. ASSUME NEW w \in Worker, NEW o \in Order, NEW K \in SUBSET Seat,
               CreateSeated(w, o, K)
        PROVE  OwnersMove
    <2>1. Ownership!Exchange(o)
      BY <1>2, <1>r
         DEF CreateSeated, AllAvailable, With, Assign, OwnerRead, SeatsOK,
             Ownership!Exchange, Ownership!Change
    <2>2. QED
      BY <2>1 DEF OwnersMove
  <1>3. ASSUME NEW w \in Worker, NEW o \in Order, NEW K \in SUBSET Seat,
               ChooseSwap(w, o, K)
        PROVE  OwnersMove
    BY <1>3 DEF ChooseSwap, OwnersMove, SeatOwner
  <1>4. ASSUME NEW w \in Worker, NEW o \in Order, CreateGeneral(w, o)
        PROVE  OwnersMove
    BY <1>4 DEF CreateGeneral, OwnersMove, SeatOwner
  <1>5. ASSUME NEW w \in Worker, SwapSeats(w)
        PROVE  OwnersMove
    <2>1. job[w].order \in Order
      BY <1>5 DEF SwapSeats, JobsOK
    <2>2. Ownership!Exchange(job[w].order)
      BY <1>5, <1>r, <2>1
         DEF SwapSeats, AllAvailable, With, HoldAndDrop, SeatsOf, OwnerRead,
             SeatsOK, Ownership!Exchange, Ownership!Change
    <2>3. QED
      BY <2>1, <2>2 DEF OwnersMove
  <1>6. ASSUME NEW w \in Worker, NEW o \in Order, ClaimPaid(w, o)
        PROVE  OwnersMove
    BY <1>6 DEF ClaimPaid, OwnersMove, SeatOwner
  <1>7. ASSUME NEW w \in Worker, NEW o \in Order, LatePayment(w, o)
        PROVE  OwnersMove
    BY <1>7 DEF LatePayment, OwnersMove, SeatOwner
  <1>8. ASSUME NEW w \in Worker, MatchHeld(w)
        PROVE  OwnersMove
    BY <1>8 DEF MatchHeld, OwnersMove, SeatOwner
  <1>9. ASSUME NEW w \in Worker, SellSeats(w)
        PROVE  OwnersMove
    <2>1. job[w].order \in Order
      BY <1>9 DEF SellSeats, JobsOK
    <2>2. Ownership!Exchange(job[w].order)
      BY <1>9, <1>r, <2>1
         DEF SellSeats, SeatsOf, Assign, OwnerRead, SeatsOK, Ownership!Exchange
    <2>3. QED
      BY <2>1, <2>2 DEF OwnersMove
  <1>10. ASSUME NEW w \in Worker, Rereserve(w)
        PROVE  OwnersMove
    <2>1. job[w].order \in Order
      BY <1>10 DEF Rereserve, JobsOK
    <2>2. Ownership!Exchange(job[w].order)
      BY <1>10, <1>r, <2>1
         DEF Rereserve, AllAvailable, With, Assign, OwnerRead, SeatsOK,
             Ownership!Exchange, Ownership!Change
    <2>3. QED
      BY <2>1, <2>2 DEF OwnersMove
  <1>11. ASSUME NEW w \in Worker, PayLate(w)
        PROVE  OwnersMove
    BY <1>11 DEF PayLate, OwnersMove, SeatOwner
  <1>12. ASSUME NEW w \in Worker, NEW s \in Seat, LockSource(w, s)
        PROVE  OwnersMove
    BY <1>12 DEF LockSource, OwnersMove, SeatOwner
  <1>13. ASSUME NEW w \in Worker, NEW t \in Seat, MoveSeat(w, t)
        PROVE  OwnersMove
    <2>1. job[w].order \in Order
      BY <1>13 DEF MoveSeat, JobsOK
    <2>2. Ownership!Exchange(job[w].order)
      BY <1>13, <1>r, <2>1
         DEF MoveSeat, OwnerRead, SeatsOK, JobsOK, Ownership!Exchange,
             Ownership!Change
    <2>3. QED
      BY <2>1, <2>2 DEF OwnersMove
  <1>14. ASSUME NEW w \in Worker, NEW l \in {"attach", "detach", "redraw"},
               NEW L \in SUBSET Seat, OpenMap(w, l, L)
        PROVE  OwnersMove
    BY <1>14 DEF OpenMap, OwnersMove, SeatOwner
  <1>15. ASSUME NEW w \in Worker, attach_layout(w)
        PROVE  OwnersMove
    <2>1. CASE UNCHANGED seatVars
      BY <2>1 DEF OwnersMove, SeatOwner
    <2>2. CASE ~UNCHANGED seatVars
      <3>1. Ownership!Replace
        BY <1>15, <1>r, <2>2
           DEF attach_layout, Create, OwnerRead, Ownership!Replace
      <3>2. QED
        BY <3>1 DEF OwnersMove
    <2>3. QED
      BY <2>1, <2>2
  <1>16. ASSUME NEW w \in Worker, detach_layout(w)
        PROVE  OwnersMove
    <2>1. CASE UNCHANGED seatVars
      BY <2>1 DEF OwnersMove, SeatOwner
    <2>2. CASE ~UNCHANGED seatVars
      <3>1. Ownership!Replace
        BY <1>16, <1>r, <2>2
           DEF detach_layout, Create, OwnerRead, Ownership!Replace
      <3>2. QED
        BY <3>1 DEF OwnersMove
    <2>3. QED
      BY <2>1, <2>2
  <1>17. ASSUME NEW w \in Worker, PlanRedraw(w)
        PROVE  OwnersMove
    BY <1>17 DEF PlanRedraw, OwnersMove, SeatOwner
  <1>18. ASSUME NEW w \in Worker, RedrawMap(w)
        PROVE  OwnersMove
    <2>1. CASE UNCHANGED seatVars
      BY <2>1 DEF OwnersMove, SeatOwner
    <2>2. CASE ~UNCHANGED seatVars
      <3>1. Ownership!Redraw
        BY <1>18, <1>r, <2>2
           DEF RedrawMap, DrawRows, Present, OwnerRead, SeatsOK,
               Ownership!Redraw, Ownership!Change
      <3>2. QED
        BY <3>1 DEF OwnersMove
    <2>3. QED
      BY <2>1, <2>2
  <1>19. ASSUME NEW w \in Worker, Abort(w)
        PROVE  OwnersMove
    BY <1>19 DEF Abort, OwnersMove, SeatOwner
  <1>20. ASSUME NEW o \in Order, expire_order(o)
        PROVE  OwnersMove
    <2>1. Ownership!Exchange(o)
      BY <1>20, <1>r, LeavingFrees, NoneIsFresh
         DEF expire_order, OwnerRead, SeatsOK, Ownership!Exchange,
             Ownership!Change
    <2>2. QED
      BY <2>1 DEF OwnersMove
  <1>21. ASSUME NEW o \in Order, cancel_unpaid_order(o)
        PROVE  OwnersMove
    <2>1. Ownership!Exchange(o)
      BY <1>21, <1>r, LeavingFrees, NoneIsFresh
         DEF cancel_unpaid_order, OwnerRead, SeatsOK, Ownership!Exchange,
             Ownership!Change
    <2>2. QED
      BY <2>1 DEF OwnersMove
  <1>22. ASSUME NEW o \in Order, mark_order_refunded(o)
        PROVE  OwnersMove
    <2>1. Ownership!Exchange(o)
      BY <1>22, <1>r, LeavingFrees, NoneIsFresh
         DEF mark_order_refunded, OwnerRead, SeatsOK, Ownership!Exchange,
             Ownership!Change
    <2>2. QED
      BY <2>1 DEF OwnersMove
  <1>23. ASSUME NEW K \in SUBSET Seat, block_seats(K)
        PROVE  OwnersMove
    BY <1>23, <1>r
       DEF block_seats, Assign, With, OwnerRead, SeatsOK, OwnersMove,
           Ownership!Block, Ownership!Change
  <1>24. ASSUME NEW K \in SUBSET Seat, unblock_seats(K)
        PROVE  OwnersMove
    BY <1>24, <1>r
       DEF unblock_seats, Assign, With, OwnerRead, SeatsOK, OwnersMove,
           Ownership!Unblock, Ownership!Change
  <1>25. ASSUME UNCHANGED vars
        PROVE  OwnersMove
    BY <1>25 DEF vars, OwnersMove, SeatOwner
  <1>26. OwnersMove
    BY <1>1, <1>2, <1>3, <1>4, <1>5, <1>6, <1>7, <1>8, <1>9, <1>10, <1>11,
       <1>12, <1>13, <1>14, <1>15, <1>16, <1>17, <1>18, <1>19, <1>20, <1>21,
       <1>22, <1>23, <1>24, <1>25, LayoutsType
       DEF Next, Buy, Pay, Staff
  <1>27. SeatOwner' \in [Seat -> Order \cup {"free", "blocked", "absent"}]
    BY <1>r DEF SeatsOK, SeatOwner
  <1>28. QED
    BY <1>26, <1>27 DEF OwnersMove, Ownership!Next

-----------------------------------------------------------------------------
(* The theorems.                                                           *)

\* The first state: no rows, no orders, no requests.
LEMMA Initially == Init => IInv /\ Ownership!Init
  <1> SUFFICES ASSUME Init PROVE IInv /\ Ownership!Init
    OBVIOUS
  <1>1. SeatsOK /\ OrdersOK /\ ModeOK
    BY DEF Init, SeatsOK, OrdersOK, ModeOK, Job
  <1>2. JobsOK /\ OneMover /\ OwnersStand /\ CapacityIsSellable
    BY DEF Init, JobsOK, OneMover, OwnersStand, CapacityIsSellable
  <1>3. Ownership!Init
    BY DEF Init, SeatOwner, Ownership!Init
  <1>4. QED
    BY <1>1, <1>2, <1>3 DEF IInv

\* The invariant is inductive, and so holds for ever.
LEMMA Inductive == IInv /\ [Next]_vars => IInv'
  BY TypeStep, OwnersStep, JobsStep, CapacityStep DEF IInv

LEMMA Always == Spec => []IInv
  BY Initially, Inductive, PTL DEF Spec

\* No seat is stranded with an order that was never paid and never will be,
\* however many buyers, payments and moves race for it.
THEOREM SeatsStandWithTheirOrders == Spec => []OwnersStand
  <1>1. IInv => OwnersStand
    BY DEF IInv
  <1>2. QED
    BY <1>1, Always, PTL

\* The capacity of a seated event is the number of seats not blocked, after
\* every sequence of blocking, unblocking, attaching and redrawing.
THEOREM CapacityCountsSeats == Spec => []CapacityIsSellable
  <1>1. IInv => CapacityIsSellable
    BY DEF IInv
  <1>2. QED
    BY <1>1, Always, PTL

\* Nobody ever takes, blocks or overwrites a seat that somebody owns, and
\* each step gives seats to one order at most.
THEOREM ImplementsTheOwnership == Spec => ImplementsOwnership
  <1>1. IInv /\ [Next]_vars => [Ownership!Next]_SeatOwner
    BY RefinementStep
  <1>2. QED
    BY <1>1, Initially, Always, PTL
       DEF Spec, ImplementsOwnership, Ownership!Spec

-----------------------------------------------------------------------------
(* The counters.                                                           *)

\* Every live order has its places counted, and so has every late payment
\* that has just taken them again; more may be counted, as such a payment can
\* die, or come second.
Alive == {o \in Order : status[o] \in Live}
Late == {w \in Worker : job[w].pc = "pay_late"}
LateQuantity == [w \in Worker |-> Quantity[job[w].order]]
SumAlive == SumOver(Quantity, Alive)
SumLate == SumOver(LateQuantity, Late)
Counted == /\ IsFiniteSet(Alive) /\ IsFiniteSet(Late)
           /\ SumAlive + SumLate <= sold_total

\* No more is sold than the map and the pool have.
Within == /\ capacity_total \in Nat /\ sold_total \in Int
          /\ sold_total <= capacity_total /\ sold_total <= PoolCapacity

\* The steps that leave the counters and the live orders alone: a late payment
\* may end with them.
LateKept == Late' \subseteq Late /\ \A w \in Late' : job'[w].order = job[w].order
CountersKept == sold_total' = sold_total /\ Alive' = Alive /\ LateKept

LEMMA SumTypes ==
    ASSUME IInv, Counted
    PROVE  /\ SumAlive \in Nat /\ SumLate \in Nat
           /\ \A o \in Order : Quantity[o] \in Nat
           /\ \A w \in Late : LateQuantity[w] = Quantity[job[w].order] /\ LateQuantity[w] \in Nat
  <1>1. \A o \in Order : Quantity[o] \in Nat
    BY QuantityType
  <1>2. \A w \in Late : LateQuantity[w] = Quantity[job[w].order] /\ LateQuantity[w] \in Nat
    BY <1>1 DEF Late, LateQuantity, IInv, JobsOK
  <1>3. SumAlive \in Nat
    BY <1>1, SumNat DEF Counted, Alive, SumAlive
  <1>4. SumLate \in Nat
    BY <1>2, SumNat DEF Counted, SumLate
  <1>5. QED
    BY <1>1, <1>2, <1>3, <1>4

LEMMA LateLess ==
    ASSUME IInv, Counted, LateKept
    PROVE  IsFiniteSet(Late') /\ SumLate' <= SumLate /\ SumLate' \in Nat
  <1>1. PICK L, M, F, G : L = Late /\ M = Late' /\ F = LateQuantity /\ G = LateQuantity'
    OBVIOUS
  <1>2. M \in SUBSET L /\ IsFiniteSet(L) /\ IsFiniteSet(M)
    BY <1>1, FS_Subset DEF LateKept, Counted
  <1>3. \A w \in L : F[w] \in Nat
    BY <1>1, SumTypes
  <1>4. \A w \in M : G[w] = F[w]
    BY <1>1 DEF LateKept, Late, LateQuantity
  <1>5. SumOver(G, M) = SumOver(F, M) /\ SumOver(F, M) <= SumOver(F, L) /\ SumOver(F, M) \in Nat
    <2>1. SumOver(G, M) = SumOver(F, M)
      BY <1>2, <1>4, SumSame
    <2>2. SumOver(F, M) <= SumOver(F, L)
      BY <1>2, <1>3, SumPart
    <2>3. SumOver(F, M) \in Nat
      BY <1>2, <1>3, SumNat
    <2>4. QED
      BY <2>1, <2>2, <2>3
  <1>6. SumLate = SumOver(F, L) /\ SumLate' = SumOver(G, M)
    BY <1>1 DEF SumLate
  <1>7. QED
    BY <1>1, <1>2, <1>5, <1>6

LEMMA LateMore ==
    ASSUME IInv, Counted, NEW w \in Worker, w \notin Late, Late' = Late \cup {w},
           job[w].order \in Order, \A v \in Late' : job'[v].order = job[v].order
    PROVE  IsFiniteSet(Late') /\ SumLate' = SumLate + Quantity[job[w].order]
  <1>1. PICK L, M, F, G : L = Late /\ M = Late' /\ F = LateQuantity /\ G = LateQuantity'
    OBVIOUS
  <1>2. M = L \cup {w} /\ w \notin L /\ IsFiniteSet(L) /\ IsFiniteSet(M)
    BY <1>1, FS_AddElement DEF Counted
  <1>3. \A v \in L : F[v] \in Nat
    BY <1>1, SumTypes
  <1>4. F[w] = Quantity[job[w].order] /\ F[w] \in Nat
    BY <1>1, SumTypes DEF LateQuantity
  <1>5. \A v \in M : G[v] = F[v]
    BY <1>1 DEF Late, LateQuantity
  <1>6. SumOver(G, M) = SumOver(F, M)
    BY <1>2, <1>5, SumSame
  <1>7. Summable(F, L)
    BY <1>2, <1>3 DEF Summable
  <1>8. SumOver(F, M) = SumOver(F, L) + F[w]
    BY <1>2, <1>4, <1>7, SumAdd
  <1>9. SumLate = SumOver(F, L) /\ SumLate' = SumOver(G, M)
    BY <1>1 DEF SumLate
  <1>10. QED
    BY <1>1, <1>2, <1>4, <1>6, <1>8, <1>9

LEMMA LateDone ==
    ASSUME IInv, Counted, NEW w \in Late, Late' = Late \ {w},
           \A v \in Late' : job'[v].order = job[v].order
    PROVE  IsFiniteSet(Late') /\ SumLate' = SumLate - Quantity[job[w].order]
  <1>1. PICK L, M, F, G : L = Late /\ M = Late' /\ F = LateQuantity /\ G = LateQuantity'
    OBVIOUS
  <1>2. M = L \ {w} /\ w \in L /\ IsFiniteSet(L) /\ IsFiniteSet(M)
    BY <1>1, FS_RemoveElement DEF Counted
  <1>3. \A v \in L : F[v] \in Nat
    BY <1>1, SumTypes
  <1>4. F[w] = Quantity[job[w].order] /\ F[w] \in Nat
    BY <1>1, <1>2, SumTypes
  <1>5. \A v \in M : G[v] = F[v]
    BY <1>1 DEF Late, LateQuantity
  <1>6. SumOver(G, M) = SumOver(F, M)
    BY <1>2, <1>5, SumSame
  <1>7. Summable(F, L) /\ SumOver(F, M) \in Nat
    BY <1>2, <1>3, SumNat DEF Summable
  <1>8. SumOver(F, L) = F[w] + SumOver(F, M)
    BY <1>2, <1>7, SumTake
  <1>9. SumLate = SumOver(F, L) /\ SumLate' = SumOver(G, M)
    BY <1>1 DEF SumLate
  <1>10. QED
    BY <1>1, <1>2, <1>4, <1>6, <1>7, <1>8, <1>9

LEMMA AliveMore ==
    ASSUME IInv, Counted, NEW o \in Order, o \notin Alive, Alive' = Alive \cup {o}
    PROVE  IsFiniteSet(Alive') /\ SumAlive' = SumAlive + Quantity[o]
  <1>1. IsFiniteSet(Alive) /\ IsFiniteSet(Alive')
    BY FS_AddElement DEF Counted
  <1>2. Summable(Quantity, Alive)
    BY <1>1, SumTypes DEF Summable, Alive
  <1>3. SumOver(Quantity, Alive \cup {o}) = SumOver(Quantity, Alive) + Quantity[o]
    BY <1>2, SumTypes, SumAdd
  <1>4. QED
    BY <1>1, <1>3 DEF SumAlive

LEMMA AliveLess ==
    ASSUME IInv, Counted, NEW o \in Alive, Alive' = Alive \ {o}
    PROVE  IsFiniteSet(Alive') /\ SumAlive' = SumAlive - Quantity[o]
  <1>1. IsFiniteSet(Alive) /\ IsFiniteSet(Alive')
    BY FS_RemoveElement DEF Counted
  <1>2. Summable(Quantity, Alive)
    BY <1>1, SumTypes DEF Summable, Alive
  <1>3. SumOver(Quantity, Alive) = Quantity[o] + SumOver(Quantity, Alive \ {o})
    BY <1>2, SumTake
  <1>4. \A q \in Alive \ {o} : Quantity[q] \in Nat
    BY SumTypes DEF Alive
  <1>5. IsFiniteSet(Alive \ {o})
    BY <1>1
  <1>6. SumOver(Quantity, Alive \ {o}) \in Nat
    BY <1>4, <1>5, SumNat
  <1>7. Quantity[o] \in Nat
    BY SumTypes DEF Alive
  <1>8. QED
    BY <1>1, <1>3, <1>6, <1>7 DEF SumAlive

LEMMA KeptIsCounted ==
    ASSUME IInv, Counted, Within, CountersKept
    PROVE  Counted'
  <1>1. IsFiniteSet(Late') /\ SumLate' <= SumLate /\ SumLate' \in Nat
    BY LateLess DEF CountersKept
  <1>2. IsFiniteSet(Alive') /\ SumAlive' = SumAlive
    BY DEF CountersKept, Counted, SumAlive
  <1>3. QED
    BY <1>1, <1>2, SumTypes DEF Counted, CountersKept, Within

\* A new order is counted as it is inserted, one that leaves is not any more.
LEMMA InsertCounts ==
    ASSUME IInv, Counted, Within, NEW o \in Order, NEW K, Insert(o, K), LateKept
    PROVE  Counted'
  <1>1. o \notin Alive /\ Alive' = Alive \cup {o} /\ sold_total' = sold_total + Quantity[o]
    BY DEF Insert, Alive, IInv, OrdersOK
  <1>2. IsFiniteSet(Alive') /\ SumAlive' = SumAlive + Quantity[o]
    BY <1>1, AliveMore
  <1>3. IsFiniteSet(Late') /\ SumLate' <= SumLate /\ SumLate' \in Nat
    BY LateLess
  <1>4. QED
    BY <1>1, <1>2, <1>3, SumTypes DEF Counted, Within

LEMMA LeaveCounts ==
    ASSUME IInv, Counted, Within, NEW o \in Order, NEW from \in Live, NEW to, to \notin Live,
           Leave(o, from, to)
    PROVE  Counted'
  <1>1. /\ o \in Alive /\ Alive' = Alive \ {o} /\ sold_total' = sold_total - Quantity[o]
        /\ job' = job
    BY DEF Leave, release_capacity, Alive, IInv, OrdersOK
  <1>2. IsFiniteSet(Alive') /\ SumAlive' = SumAlive - Quantity[o]
    BY <1>1, AliveLess
  <1>3. LateKept
    BY <1>1 DEF LateKept, Late
  <1>4. IsFiniteSet(Late') /\ SumLate' <= SumLate /\ SumLate' \in Nat
    BY <1>3, LateLess
  <1>5. QED
    BY <1>1, <1>2, <1>4, SumTypes DEF Counted, Within

LEMMA RereserveCounts ==
    ASSUME IInv, Counted, Within, NEW w \in Worker, Rereserve(w)
    PROVE  Counted'
  <1> DEFINE o == job[w].order
  <1>1. /\ o \in Order /\ w \notin Late /\ Alive' = Alive
        /\ \A v \in Worker \ {w} : job'[v] = job[v]
    BY DEF Rereserve, IInv, OrdersOK, JobsOK, Late, Alive
  <1>2. CASE sold_total' = sold_total /\ job'[w] = Idle
    <2>1. CountersKept
      BY <1>1, <1>2 DEF CountersKept, LateKept, Late
    <2>2. QED
      BY <2>1, KeptIsCounted
  <1>3. CASE sold_total' = sold_total + Quantity[o] /\ job'[w].pc = "pay_late"
             /\ job'[w].order = o
    <2>1. Late' = Late \cup {w} /\ \A v \in Late' : job'[v].order = job[v].order
      BY <1>1, <1>3 DEF Late
    <2>2. IsFiniteSet(Late') /\ SumLate' = SumLate + Quantity[o]
      BY <1>1, <2>1, LateMore
    <2>3. SumAlive' = SumAlive /\ IsFiniteSet(Alive')
      BY <1>1 DEF SumAlive, Counted
    <2>4. QED
      BY <1>1, <1>3, <2>2, <2>3, SumTypes DEF Counted, Within
  <1>4. \/ sold_total' = sold_total /\ job'[w] = Idle
        \/ sold_total' = sold_total + Quantity[o] /\ job'[w].pc = "pay_late"
           /\ job'[w].order = o
    <2>1. CASE Done(w) /\ UNCHANGED sold_total
      BY <2>1 DEF IInv, OrdersOK
    <2>2. CASE /\ sold_total' = sold_total + Quantity[o]
               /\ job' = [job EXCEPT ![w].pc = "pay_late", ![w].keys = {}]
      <3>1. job[w] \in Job /\ job'[w] = [job[w] EXCEPT !.pc = "pay_late", !.keys = {}]
        BY <2>2 DEF IInv, OrdersOK
      <3>2. QED
        BY <2>2, <3>1 DEF Job
    <2>3. QED
      BY <2>1, <2>2 DEF Rereserve
  <1>5. QED
    BY <1>2, <1>3, <1>4

LEMMA PayLateCounts ==
    ASSUME IInv, Counted, Within, NEW w \in Worker, PayLate(w)
    PROVE  Counted'
  <1> DEFINE o == job[w].order
  <1>1. /\ o \in Order /\ w \in Late /\ sold_total' = sold_total
        /\ Late' = Late \ {w} /\ \A v \in Late' : job'[v].order = job[v].order
    BY DEF PayLate, IInv, OrdersOK, JobsOK, Late
  <1>2. IsFiniteSet(Late') /\ SumLate' = SumLate - Quantity[o]
    BY <1>1, LateDone
  <1>3. CASE status[o] = "EXPIRED"
    <2>1. o \notin Alive /\ Alive' = Alive \cup {o}
      BY <1>1, <1>3 DEF PayLate, IInv, OrdersOK, Alive
    <2>2. IsFiniteSet(Alive') /\ SumAlive' = SumAlive + Quantity[o]
      BY <1>1, <2>1, AliveMore
    <2>3. QED
      BY <1>1, <1>2, <2>2, SumTypes DEF Counted, Within
  <1>4. CASE status[o] # "EXPIRED"
    <2>1. CountersKept
      BY <1>1, <1>4 DEF PayLate, CountersKept, LateKept, Alive
    <2>2. QED
      BY <2>1, KeptIsCounted
  <1>5. QED
    BY <1>3, <1>4

\* A worker goes on, and is not about to record a late payment.
LEMMA WorkerKeepsLate ==
    ASSUME IInv, NEW w \in Worker, \A v \in Worker \ {w} : job'[v] = job[v],
           job'[w].pc # "pay_late"
    PROVE  LateKept
  BY DEF LateKept, Late

LEMMA CountedStep ==
    ASSUME IInv, Counted, Within, [Next]_vars
    PROVE  Counted'
  <1>0. job \in [Worker -> Job] /\ status \in [Order -> OrderStatus \cup {"NONE"}]
    BY DEF IInv, OrdersOK
  <1>1. ASSUME NEW w \in Worker, NEW o \in Order, NEW K \in SUBSET Seat,
               CreateSeated(w, o, K) \/ CreateGeneral(w, o)
        PROVE  Counted'
    <2>1. \E S : Insert(o, S)
      BY <1>1 DEF CreateSeated, CreateGeneral
    <2>2. (\A v \in Worker \ {w} : job'[v] = job[v]) /\ job'[w].pc # "pay_late"
      BY <1>0, <1>1 DEF CreateSeated, CreateGeneral
    <2>3. LateKept
      BY <2>2, WorkerKeepsLate
    <2>4. QED
      BY <2>1, <2>3, InsertCounts
  <1>2. ASSUME NEW w \in Worker,
               \/ OpenPurchase(w) \/ SwapSeats(w) \/ MatchHeld(w) \/ SellSeats(w)
               \/ attach_layout(w) \/ detach_layout(w) \/ PlanRedraw(w) \/ RedrawMap(w)
               \/ Abort(w)
               \/ \E o \in Order : ClaimPaid(w, o) \/ LatePayment(w, o)
               \/ \E o \in Order, K \in SUBSET Seat : ChooseSwap(w, o, K)
               \/ \E s \in Seat : LockSource(w, s) \/ MoveSeat(w, s)
               \/ \E L \in Layouts, l \in {"attach", "redraw"} : OpenMap(w, l, L)
               \/ OpenMap(w, "detach", {})
        PROVE  Counted'
    <2>1. \A v \in Worker \ {w} : job'[v] = job[v]
      BY <1>0, <1>2 DEF OpenPurchase, SwapSeats, MatchHeld, SellSeats, attach_layout, detach_layout,
                  PlanRedraw, RedrawMap, Abort, ClaimPaid, LatePayment, ChooseSwap, LockSource,
                  MoveSeat, OpenMap
    <2>2. job'[w].pc # "pay_late"
      <3>1. CASE job' = [job EXCEPT ![w] = Idle]
        BY <1>0, <3>1
      <3>2. CASE \E l \in Pc \ {"pay_late"} : job' = [job EXCEPT ![w].pc = l]
        BY <1>0, <3>2 DEF Job
      <3>3. CASE \E o \in Order : ClaimPaid(w, o) \/ LatePayment(w, o)
        <4>1. job[w] \in Job
          BY <1>0
        <4>2. \/ \E o \in Order : job'[w] = [job[w] EXCEPT !.pc = "sell", !.order = o]
              \/ \E o \in Order : job'[w] = [job[w] EXCEPT !.pc = "rereserve", !.order = o,
                                                           !.keys = seat_keys[o]]
          BY <1>0, <3>3 DEF ClaimPaid, LatePayment
        <4>3. QED
          BY <4>1, <4>2 DEF Job
      <3>4. CASE MatchHeld(w)
        <4>1. job[w] \in Job
          BY <1>0
        <4>2. \E S : job'[w] = [job[w] EXCEPT !.pc = "sell_rows", !.keys = S]
          BY <1>0, <3>4 DEF MatchHeld
        <4>3. QED
          BY <4>1, <4>2 DEF Job
      <3>5. ASSUME NEW l \in {"attach", "detach", "redraw"}, NEW L, OpenMap(w, l, L)
            PROVE  job'[w].pc # "pay_late"
        <4>1. job[w] \in Job
          BY <1>0
        <4>2. job'[w] = [job[w] EXCEPT !.pc = l, !.keys = L]
          BY <1>0, <3>5 DEF OpenMap
        <4>3. QED
          BY <4>1, <4>2 DEF Job
      <3>6. ASSUME NEW o \in Order, NEW K \in SUBSET Seat, ChooseSwap(w, o, K)
            PROVE  job'[w].pc # "pay_late"
        BY <1>0, <3>6 DEF ChooseSwap
      <3>7. ASSUME NEW s \in Seat, LockSource(w, s) PROVE job'[w].pc # "pay_late"
        BY <1>0, <3>7 DEF LockSource
      <3>8. CASE SwapSeats(w) \/ SellSeats(w) \/ attach_layout(w) \/ detach_layout(w)
                 \/ RedrawMap(w) \/ Abort(w) \/ \E s \in Seat : MoveSeat(w, s)
        BY <3>1, <3>8 DEF SwapSeats, SellSeats, attach_layout, detach_layout, RedrawMap, Abort,
                          MoveSeat
      <3>9. CASE OpenPurchase(w) \/ PlanRedraw(w)
        BY <3>1, <3>2, <3>9 DEF OpenPurchase, PlanRedraw
      <3>10. QED
        BY <1>2, <3>3, <3>4, <3>5, <3>6, <3>7, <3>8, <3>9
    <2>3. LateKept
      BY <2>1, <2>2, WorkerKeepsLate
    <2>4. sold_total' = sold_total /\ Alive' = Alive
      BY <1>0, <1>2 DEF OpenPurchase, SwapSeats, MatchHeld, SellSeats, attach_layout, detach_layout,
                  PlanRedraw, RedrawMap, Abort, ClaimPaid, LatePayment, ChooseSwap, LockSource,
                  MoveSeat, OpenMap, Alive
    <2>5. CountersKept
      BY <2>3, <2>4 DEF CountersKept
    <2>6. QED
      BY <2>5, KeptIsCounted
  <1>3. ASSUME NEW w \in Worker, Rereserve(w) \/ PayLate(w)
        PROVE  Counted'
    BY <1>3, RereserveCounts, PayLateCounts
  <1>4. ASSUME NEW o \in Order, expire_order(o) \/ cancel_unpaid_order(o) \/ mark_order_refunded(o)
        PROVE  Counted'
    BY <1>4, LeaveCounts DEF expire_order, cancel_unpaid_order, mark_order_refunded
  <1>5. ASSUME NEW K \in SUBSET Seat, block_seats(K) \/ unblock_seats(K)
        PROVE  Counted'
    <2>1. CountersKept
      BY <1>5 DEF block_seats, unblock_seats, CountersKept, LateKept, Late, Alive
    <2>2. QED
      BY <2>1, KeptIsCounted
  <1>6. CASE UNCHANGED vars
    <2>1. CountersKept
      BY <1>6 DEF vars, CountersKept, LateKept, Late, Alive
    <2>2. QED
      BY <2>1, KeptIsCounted
  <1>7. ASSUME NEW w \in Worker, Buy(w) \/ Pay(w) \/ Staff(w)
        PROVE  Counted'
    BY <1>1, <1>2, <1>3, <1>7 DEF Buy, Pay, Staff
  <1>8. QED
    BY <1>2, <1>4, <1>5, <1>6, <1>7 DEF Next

\* Whatever is added has room in the event and in the pool, and no redraw,
\* blocking or new map takes the capacity below what is sold.
LEMMA WithinStep ==
    ASSUME IInv, Counted, Within, [Next]_vars
    PROVE  Within'
  <1>0. /\ sold_total \in Nat /\ PoolCapacity \in Nat
        /\ \A o \in Order : Quantity[o] \in Nat
        /\ \A K \in SUBSET Seat : Cardinality(K) \in Nat
        /\ \A w \in Worker : job[w].keys \in SUBSET Seat
    BY SumTypes, CapacityType, SellableFinite DEF Counted, Within, IInv, OrdersOK, Job
  <1>1. ASSUME NEW o \in Order, Fits(Quantity[o]), sold_total' = sold_total + Quantity[o],
               capacity_total' = capacity_total
        PROVE  Within'
    BY <1>0, <1>1 DEF Fits, Within
  <1>2. ASSUME NEW w \in Worker, NEW o \in Order, NEW K, CreateSeated(w, o, K)
        PROVE  Within'
    BY <1>1, <1>2 DEF CreateSeated, Insert
  <1>3. ASSUME NEW w \in Worker, NEW o \in Order, CreateGeneral(w, o)
        PROVE  Within'
    BY <1>1, <1>3 DEF CreateGeneral, Insert
  <1>4. ASSUME NEW w \in Worker, Rereserve(w)
        PROVE  Within'
    <2>1. job[w].order \in Order
      BY <1>4 DEF Rereserve, IInv, JobsOK
    <2>2. CASE Fits(Quantity[job[w].order]) /\ sold_total' = sold_total + Quantity[job[w].order]
      BY <1>1, <1>4, <2>1, <2>2 DEF Rereserve
    <2>3. CASE sold_total' = sold_total
      BY <1>4, <2>3 DEF Rereserve, Within
    <2>4. QED
      BY <1>4, <2>2, <2>3 DEF Rereserve
  <1>5. ASSUME NEW o \in Order, expire_order(o) \/ cancel_unpaid_order(o) \/ mark_order_refunded(o)
        PROVE  Within'
    BY <1>0, <1>5 DEF expire_order, cancel_unpaid_order, mark_order_refunded, Leave,
                      release_capacity, Within
  <1>6. ASSUME NEW K \in SUBSET Seat, block_seats(K)
        PROVE  Within'
    <2> PICK n \in Nat : n = Cardinality(K \cap With("AVAILABLE"))
      BY <1>0 DEF With
    <2>1. sold_total <= capacity_total - n /\ capacity_total' = capacity_total - n
          /\ sold_total' = sold_total
      BY <1>6 DEF block_seats
    <2>2. QED
      BY <1>0, <2>1 DEF Within
  <1>7. ASSUME NEW K \in SUBSET Seat, unblock_seats(K)
        PROVE  Within'
    <2> PICK n \in Nat : n = Cardinality(K \cap With("BLOCKED"))
      BY <1>0 DEF With
    <2>1. capacity_total' = capacity_total + n /\ sold_total' = sold_total
      BY <1>7 DEF unblock_seats
    <2>2. QED
      BY <1>0, <2>1 DEF Within
  <1>8. ASSUME NEW w \in Worker, attach_layout(w)
        PROVE  Within'
    <2> PICK n \in Nat : n = Cardinality(job[w].keys)
      BY <1>0
    <2>1. sold_total' = sold_total /\ \/ sold_total = 0 /\ capacity_total' = n
                                      \/ capacity_total' = capacity_total
      BY <1>8 DEF attach_layout
    <2>2. QED
      BY <1>0, <2>1 DEF Within
  <1>9. ASSUME NEW w \in Worker, detach_layout(w)
        PROVE  Within'
    BY <1>0, <1>9 DEF detach_layout, Within
  <1>10. ASSUME NEW w \in Worker, RedrawMap(w)
        PROVE  Within'
    <2> PICK n \in Nat : n = Cardinality(job[w].keys \ With("BLOCKED"))
      BY <1>0
    <2>1. sold_total' = sold_total /\ \/ sold_total <= n /\ capacity_total' = n
                                      \/ capacity_total' = capacity_total
      BY <1>10 DEF RedrawMap
    <2>2. QED
      BY <1>0, <2>1 DEF Within
  <1>11. ASSUME UNCHANGED <<capacity_total, sold_total>>
        PROVE  Within'
    BY <1>11 DEF Within
  <1>12. ASSUME NEW w \in Worker, Buy(w)
        PROVE  Within'
    BY <1>2, <1>3, <1>11, <1>12 DEF Buy, OpenPurchase, ChooseSwap, SwapSeats
  <1>13. ASSUME NEW w \in Worker, Pay(w)
        PROVE  Within'
    BY <1>4, <1>11, <1>13 DEF Pay, ClaimPaid, LatePayment, MatchHeld, SellSeats, PayLate
  <1>14. ASSUME NEW w \in Worker, Staff(w)
        PROVE  Within'
    BY <1>8, <1>9, <1>10, <1>11, <1>14 DEF Staff, LockSource, MoveSeat, OpenMap, PlanRedraw
  <1>15. QED
    BY <1>5, <1>6, <1>7, <1>11, <1>12, <1>13, <1>14 DEF Next, Abort, vars

-----------------------------------------------------------------------------
(* Seats that are kept.                                                    *)

\* No order names more seats than it is for, nor did when a swap or a move
\* read it.
KeysFit ==
    /\ \A o \in Order : Cardinality(seat_keys[o]) <= Quantity[o]
    /\ \A w \in Worker :
          /\ job[w].pc = "swap" => Cardinality(job[w].keys) = Quantity[job[w].order]
          /\ job[w].pc \in {"swap", "move"} => Cardinality(job[w].old) <= Quantity[job[w].order]

\* Putting another seat in the place of one makes no more of them.
LEMMA MovedKeys ==
    ASSUME NEW old \in SUBSET Seat, NEW s, NEW t
    PROVE  Cardinality({IF k = s THEN t ELSE k : k \in old}) <= Cardinality(old)
  <1> DEFINE new == {IF k = s THEN t ELSE k : k \in old}
             f == [k \in old |-> IF k = s THEN t ELSE k]
  <1>1. f \in Surjection(old, new)
    BY DEF Surjection
  <1>2. IsFiniteSet(old)
    BY SellableFinite
  <1> HIDE DEF f, new
  <1>3. Cardinality(new) <= Cardinality(old)
    BY <1>1, <1>2, FS_Surjection
  <1>4. QED
    BY <1>3 DEF new

LEMMA KeysStep ==
    ASSUME IInv, KeysFit, [Next]_vars
    PROVE  KeysFit'
  <1>0. /\ job \in [Worker -> Job] /\ seat_keys \in [Order -> SUBSET Seat]
        /\ \A w \in Worker : job[w] \in Job
        /\ \A o \in Order : Quantity[o] \in Nat \ {0}
        /\ Cardinality({}) = 0
    BY QuantityType, FS_EmptySet DEF IInv, OrdersOK
  <1>1. ASSUME NEW w \in Worker, \A v \in Worker \ {w} : job'[v] = job[v],
               job'[w].pc \notin {"swap", "move"}, seat_keys' = seat_keys
        PROVE  KeysFit'
    BY <1>1 DEF KeysFit
  <1>2. ASSUME NEW w \in Worker, NEW o \in Order, NEW K \in SUBSET Seat,
               CreateSeated(w, o, K) \/ CreateGeneral(w, o)
        PROVE  KeysFit'
    <2>1. \E S \in SUBSET Seat : Insert(o, S) /\ Cardinality(S) <= Quantity[o]
      BY <1>0, <1>2 DEF CreateSeated, CreateGeneral
    <2>2. \A q \in Order : Cardinality(seat_keys'[q]) <= Quantity[q]
      BY <1>0, <2>1 DEF Insert, KeysFit
    <2>3. job' = [job EXCEPT ![w] = Idle]
      BY <1>2 DEF CreateSeated, CreateGeneral
    <2>4. QED
      BY <1>0, <2>2, <2>3 DEF KeysFit
  <1>3. ASSUME NEW w \in Worker, NEW o \in Order, NEW K \in SUBSET Seat, ChooseSwap(w, o, K)
        PROVE  KeysFit'
    BY <1>0, <1>3 DEF ChooseSwap, KeysFit
  <1>4. ASSUME NEW w \in Worker, SwapSeats(w)
        PROVE  KeysFit'
    <2>1. job[w].order \in Order /\ Cardinality(job[w].keys) = Quantity[job[w].order]
      BY <1>4 DEF SwapSeats, KeysFit, IInv, JobsOK
    <2>2. \A q \in Order : Cardinality(seat_keys'[q]) <= Quantity[q]
      BY <1>0, <1>4, <2>1 DEF SwapSeats, KeysFit
    <2>3. job' = [job EXCEPT ![w] = Idle]
      BY <1>4 DEF SwapSeats
    <2>4. QED
      BY <1>0, <2>2, <2>3 DEF KeysFit
  <1>5. ASSUME NEW w \in Worker, NEW s \in Seat, LockSource(w, s)
        PROVE  KeysFit'
    <2>1. seat_order[s] \in Order
      BY <1>5 DEF LockSource, IInv, SeatsOK
    <2>2. QED
      BY <1>0, <1>5, <2>1 DEF LockSource, KeysFit
  <1>6. ASSUME NEW w \in Worker, NEW t \in Seat, MoveSeat(w, t)
        PROVE  KeysFit'
    <2> DEFINE o == job[w].order
               moved == {IF k = job[w].from THEN t ELSE k : k \in job[w].old}
    <2>1. o \in Order /\ Cardinality(job[w].old) <= Quantity[o] /\ job[w].old \in SUBSET Seat
      BY <1>0, <1>6 DEF MoveSeat, KeysFit, IInv, JobsOK, Job
    <2>2. Cardinality(moved) <= Cardinality(job[w].old)
      BY <2>1, MovedKeys
    <2>3. /\ seat_keys' = [seat_keys EXCEPT ![o] = moved]
          /\ job' = [job EXCEPT ![w] = Idle]
      BY <1>6 DEF MoveSeat
    <2>4. moved \in SUBSET Seat /\ Cardinality(moved) \in Nat /\ Cardinality(job[w].old) \in Nat
      <3>1. moved \in SUBSET Seat
        BY <2>1
      <3> HIDE DEF moved
      <3>2. QED
        BY <2>1, <3>1, SellableFinite
    <2> HIDE DEF moved
    <2>5. Cardinality(moved) <= Quantity[o]
      BY <1>0, <2>1, <2>2, <2>4
    <2>6. \A q \in Order : Cardinality(seat_keys'[q]) <= Quantity[q]
      BY <1>0, <2>3, <2>5 DEF KeysFit
    <2>7. QED
      BY <1>0, <2>3, <2>6 DEF KeysFit
  <1>7. ASSUME NEW w \in Worker,
               \/ OpenPurchase(w) \/ MatchHeld(w) \/ SellSeats(w) \/ Rereserve(w) \/ PayLate(w)
               \/ attach_layout(w) \/ detach_layout(w) \/ PlanRedraw(w) \/ RedrawMap(w)
               \/ Abort(w)
               \/ \E o \in Order : ClaimPaid(w, o) \/ LatePayment(w, o)
               \/ \E L \in Layouts, l \in {"attach", "redraw"} : OpenMap(w, l, L)
               \/ OpenMap(w, "detach", {})
        PROVE  KeysFit'
    <2>1. (\A v \in Worker \ {w} : job'[v] = job[v]) /\ seat_keys' = seat_keys
      BY <1>0, <1>7 DEF OpenPurchase, MatchHeld, SellSeats, Rereserve, PayLate, attach_layout,
                  detach_layout, PlanRedraw, RedrawMap, Abort, ClaimPaid, LatePayment, OpenMap
    <2>2. job'[w].pc \notin {"swap", "move"}
      <3>1. CASE job' = [job EXCEPT ![w] = Idle]
        BY <1>0, <3>1
      <3>2. CASE \E l \in Pc \ {"swap", "move"} : job' = [job EXCEPT ![w].pc = l]
        BY <1>0, <3>2 DEF Job
      <3>3. CASE \E o \in Order : ClaimPaid(w, o) \/ LatePayment(w, o)
        <4>1. \/ \E o \in Order : job'[w] = [job[w] EXCEPT !.pc = "sell", !.order = o]
              \/ \E o \in Order : job'[w] = [job[w] EXCEPT !.pc = "rereserve", !.order = o,
                                                           !.keys = seat_keys[o]]
          BY <1>0, <3>3 DEF ClaimPaid, LatePayment
        <4>2. QED
          BY <1>0, <4>1 DEF Job
      <3>4. CASE MatchHeld(w)
        <4>1. \E S : job'[w] = [job[w] EXCEPT !.pc = "sell_rows", !.keys = S]
          BY <1>0, <3>4 DEF MatchHeld
        <4>2. QED
          BY <1>0, <4>1 DEF Job
      <3>5. ASSUME NEW l \in {"attach", "detach", "redraw"}, NEW L, OpenMap(w, l, L)
            PROVE  job'[w].pc \notin {"swap", "move"}
        <4>1. job'[w] = [job[w] EXCEPT !.pc = l, !.keys = L] /\ job[w] \in Job
          BY <1>0, <3>5 DEF OpenMap
        <4>2. job'[w].pc = l
          BY <4>1 DEF Job
        <4>3. QED
          BY <4>2
      <3>6. CASE Rereserve(w)
        <4>1. job'[w] = Idle \/ job'[w] = [job[w] EXCEPT !.pc = "pay_late", !.keys = {}]
          BY <1>0, <3>6 DEF Rereserve
        <4>2. Idle.pc = "idle" /\ [job[w] EXCEPT !.pc = "pay_late", !.keys = {}].pc = "pay_late"
          BY <1>0 DEF Job
        <4>3. QED
          BY <4>1, <4>2
      <3>7. CASE SellSeats(w) \/ PayLate(w) \/ attach_layout(w) \/ detach_layout(w)
                 \/ RedrawMap(w) \/ Abort(w)
        BY <3>1, <3>7 DEF SellSeats, PayLate, attach_layout, detach_layout, RedrawMap, Abort
      <3>8. CASE OpenPurchase(w) \/ PlanRedraw(w)
        BY <3>1, <3>2, <3>8 DEF OpenPurchase, PlanRedraw
      <3>9. QED
        BY <1>7, <3>3, <3>4, <3>5, <3>6, <3>7, <3>8
    <2>3. QED
      BY <1>1, <2>1, <2>2
  <1>8. ASSUME UNCHANGED <<job, seat_keys>>
        PROVE  KeysFit'
    BY <1>8 DEF KeysFit
  <1>9. ASSUME NEW w \in Worker, Buy(w) \/ Pay(w) \/ Staff(w)
        PROVE  KeysFit'
    BY <1>2, <1>3, <1>4, <1>5, <1>6, <1>7, <1>9 DEF Buy, Pay, Staff
  <1>10. QED
    BY <1>7, <1>8, <1>9 DEF Next, vars, expire_order, cancel_unpaid_order, mark_order_refunded,
                            Leave, block_seats, unblock_seats

\* An order keeps enough seats if it keeps all but deleted ones.
Enough(o) ==
    Cardinality(SeatsOf(o)) <=
        Cardinality(SeatsOf(o)') + Cardinality({s \in SeatsOf(o) : seat_status'[s] = "ABSENT"})

LEMMA KeptOrDeleted ==
    ASSUME NEW o, \A s \in SeatsOf(o) : seat_order'[s] = o \/ seat_status'[s] = "ABSENT"
    PROVE  Enough(o)
  <1> PICK S, T, D : /\ S = SeatsOf(o) /\ T = SeatsOf(o)'
                     /\ D = {s \in SeatsOf(o) : seat_status'[s] = "ABSENT"}
    OBVIOUS
  <1>1. S \in SUBSET Seat /\ T \in SUBSET Seat /\ D \in SUBSET Seat /\ S \subseteq T \cup D
    BY DEF SeatsOf
  <1>2. /\ IsFiniteSet(T) /\ Cardinality(T) \in Nat /\ IsFiniteSet(D) /\ Cardinality(D) \in Nat
        /\ Cardinality(S) \in Nat /\ Cardinality(T \cup D) \in Nat /\ IsFiniteSet(T \cup D)
        /\ Cardinality(T \cap D) \in Nat
    <2>1. T \cup D \in SUBSET Seat /\ T \cap D \in SUBSET Seat
      BY <1>1
    <2>2. QED
      BY <1>1, <2>1, SellableFinite
  <1>3. Cardinality(T \cup D) = Cardinality(T) + Cardinality(D) - Cardinality(T \cap D)
    BY <1>2, FS_Union
  <1>4. Cardinality(S) <= Cardinality(T \cup D)
    BY <1>1, <1>2, FS_Subset
  <1>5. QED
    BY <1>2, <1>3, <1>4 DEF Enough

\* A swap gives up no more seats than it takes.
LEMMA SwapCounts ==
    ASSUME NEW S \in SUBSET Seat, NEW K \in SUBSET Seat, NEW old \in SUBSET Seat,
           NEW dropped \in SUBSET ((old \ K) \cap S), (K \ old) \cap S = {},
           Cardinality(old) <= Cardinality(K)
    PROVE  Cardinality(S) <= Cardinality((S \ dropped) \cup (K \ old))
  <1> DEFINE A == S \ dropped
             B == K \ old
             C == old \ K
             D == S \cap dropped
  <1>1. \A X \in {S, K, old, dropped, A, B, C, D, A \cap B, K \cap old, old \cap K, A \cup B} :
            IsFiniteSet(X) /\ Cardinality(X) \in Nat
    <2>1. \A X \in {S, K, old, dropped, A, B, C, D, A \cap B, K \cap old, old \cap K, A \cup B} :
              X \in SUBSET Seat
      OBVIOUS
    <2>2. QED
      BY <2>1, SellableFinite
  <1>2. Cardinality(A) = Cardinality(S) - Cardinality(D)
    BY <1>1, FS_Difference
  <1>3. Cardinality(B) = Cardinality(K) - Cardinality(K \cap old)
    BY <1>1, FS_Difference
  <1>4. Cardinality(C) = Cardinality(old) - Cardinality(old \cap K)
    BY <1>1, FS_Difference
  <1>5. Cardinality(K \cap old) = Cardinality(old \cap K)
    <2>1. K \cap old = old \cap K
      OBVIOUS
    <2>2. QED
      BY <2>1
  <1>6. Cardinality(D) <= Cardinality(C)
    <2>1. D \subseteq C
      OBVIOUS
    <2>2. QED
      BY <1>1, <2>1, FS_Subset
  <1>7. Cardinality(A \cap B) = 0
    <2>1. A \cap B = {}
      OBVIOUS
    <2>2. QED
      BY <2>1, FS_EmptySet
  <1>8. Cardinality(A \cup B) = Cardinality(A) + Cardinality(B) - Cardinality(A \cap B)
    BY <1>1, FS_Union
  <1>9. /\ Cardinality(S) \in Nat /\ Cardinality(K) \in Nat /\ Cardinality(old) \in Nat
        /\ Cardinality(C) \in Nat /\ Cardinality(D) \in Nat /\ Cardinality(K \cap old) \in Nat
    BY <1>1
  <1> HIDE DEF A, B, C, D
  <1>10. Cardinality(S) <= Cardinality(A \cup B)
    BY <1>2, <1>3, <1>4, <1>5, <1>6, <1>7, <1>8, <1>9
  <1>11. QED
    BY <1>10 DEF A, B

\* A step that deletes no row, but puts new seats in the place of some.
LEMMA Exchanged ==
    ASSUME NEW o, NEW K \in SUBSET Seat, NEW old \in SUBSET Seat,
           NEW dropped \in SUBSET ((old \ K) \cap SeatsOf(o)), (K \ old) \cap SeatsOf(o) = {},
           Cardinality(old) <= Cardinality(K),
           SeatsOf(o)' = (SeatsOf(o) \ dropped) \cup (K \ old)
    PROVE  Enough(o)
  <1>1. Cardinality(SeatsOf(o)) <= Cardinality(SeatsOf(o)')
    <2> PICK S : S = SeatsOf(o)
      OBVIOUS
    <2>1. S \in SUBSET Seat
      BY DEF SeatsOf
    <2>2. QED
      BY <2>1, SwapCounts
  <1>2. SeatsOf(o) \in SUBSET Seat /\ SeatsOf(o)' \in SUBSET Seat
        /\ {s \in SeatsOf(o) : seat_status'[s] = "ABSENT"} \in SUBSET Seat
    BY DEF SeatsOf
  <1>3. /\ Cardinality(SeatsOf(o)) \in Nat /\ Cardinality(SeatsOf(o)') \in Nat
        /\ Cardinality({s \in SeatsOf(o) : seat_status'[s] = "ABSENT"}) \in Nat
    BY <1>2, SellableFinite
  <1>4. QED
    BY <1>1, <1>3 DEF Enough

\* A map is attached only while no order is alive: then nothing is sold.
LEMMA NothingAlive ==
    ASSUME IInv, Counted, sold_total = 0
    PROVE  Alive = {}
  <1> SUFFICES ASSUME NEW o \in Alive PROVE FALSE
    OBVIOUS
  <1>1. Summable(Quantity, Alive) /\ IsFiniteSet(Alive \ {o})
    BY FS_RemoveElement, SumTypes DEF Counted, Summable, Alive
  <1>2. SumAlive = Quantity[o] + SumOver(Quantity, Alive \ {o})
    BY <1>1, SumTake DEF SumAlive
  <1>3. \A q \in Alive \ {o} : Quantity[q] \in Nat
    BY SumTypes DEF Alive
  <1>4. SumOver(Quantity, Alive \ {o}) \in Nat
    BY <1>1, <1>3, SumNat
  <1>5. Quantity[o] \in Nat \ {0}
    BY QuantityType DEF Alive
  <1>6. QED
    BY <1>2, <1>4, <1>5, SumTypes DEF Counted

\* A swap and a move exchange seats of one order, for seats nobody owns.
LEMMA SwapKeeps ==
    ASSUME IInv, KeysFit, NEW w \in Worker, SwapSeats(w), NEW o \in Order
    PROVE  Enough(o)
  <1> DEFINE q == job[w].order
             K == job[w].keys
             old == job[w].old
             new == K \ old
             dropped == (old \ K) \cap SeatsOf(q) \cap With("HELD")
  <1>1. /\ q \in Order /\ K \in SUBSET Seat /\ old \in SUBSET Seat
        /\ Cardinality(K) = Quantity[q] /\ Cardinality(old) <= Quantity[q]
    BY DEF SwapSeats, KeysFit, IInv, JobsOK, OrdersOK, Job
  <1>2. CASE UNCHANGED seatVars
    BY <1>2, KeptOrDeleted DEF SeatsOf
  <1>3. CASE AllAvailable(new) /\ HoldAndDrop(q, new, dropped)
    <2>1. \A s \in new : seat_order[s] = None
      BY <1>1, <1>3 DEF AllAvailable, With, IInv, SeatsOK
    <2>2. None \notin Order
      BY NoneIsFresh
    <2>3. \A s \in Seat : seat_order'[s] = IF s \in new THEN q ELSE IF s \in dropped THEN None
                                           ELSE seat_order[s]
      BY <1>3 DEF HoldAndDrop
    <2>4. CASE o = q
      <3>1. PICK keys, were, gone : keys = K /\ were = old /\ gone = dropped
        OBVIOUS
      <3>2. \A s \in Seat : seat_order'[s] = IF s \in keys \ were THEN o
                                             ELSE IF s \in gone THEN None ELSE seat_order[s]
        BY <2>3, <2>4, <3>1
      <3>3. \A s \in keys \ were : seat_order[s] = None
        BY <2>1, <3>1
      <3>4. /\ keys \in SUBSET Seat /\ were \in SUBSET Seat
            /\ gone \in SUBSET ((were \ keys) \cap SeatsOf(o))
            /\ Cardinality(were) <= Cardinality(keys)
        <4>1. Cardinality(were) <= Cardinality(keys)
          BY <1>1, <3>1
        <4>2. gone \in SUBSET ((were \ keys) \cap SeatsOf(o))
          BY <2>4, <3>1
        <4>3. QED
          BY <1>1, <3>1, <4>1, <4>2
      <3> HIDE DEF q, K, old, new, dropped
      <3>5. (keys \ were) \cap SeatsOf(o) = {}
        BY <2>2, <3>3 DEF SeatsOf
      <3>6. SeatsOf(o)' = (SeatsOf(o) \ gone) \cup (keys \ were)
        BY <2>2, <3>2, <3>3, <3>4 DEF SeatsOf
      <3>7. QED
        BY <3>4, <3>5, <3>6, Exchanged
    <2>5. CASE o # q
      <3>1. \A s \in SeatsOf(o) : seat_order'[s] = o
        BY <2>1, <2>2, <2>3, <2>5 DEF SeatsOf
      <3>2. QED
        BY <3>1, KeptOrDeleted
    <2>6. QED
      BY <2>4, <2>5
  <1>4. QED
    BY <1>2, <1>3 DEF SwapSeats

LEMMA MoveKeeps ==
    ASSUME IInv, NEW w \in Worker, NEW t \in Seat, MoveSeat(w, t), NEW o \in Order
    PROVE  Enough(o)
  <1> DEFINE q == job[w].order
             s == job[w].from
  <1>1. /\ q \in Order /\ s \in Seat /\ seat_order[s] = q /\ s # t /\ seat_order[t] = None
        /\ None \notin Order
    BY NoneIsFresh DEF MoveSeat, IInv, JobsOK, SeatsOK
  <1>2. \A r \in Seat : seat_order'[r] = IF r = s THEN None ELSE IF r = t THEN q ELSE seat_order[r]
    BY <1>1 DEF MoveSeat, IInv, SeatsOK
  <1>3. CASE o = q
    <2>1. PICK was : was = s
      OBVIOUS
    <2>2. /\ was \in Seat /\ t \in Seat /\ seat_order[was] = o /\ was # t /\ seat_order[t] = None
          /\ \A r \in Seat : seat_order'[r] = IF r = was THEN None ELSE IF r = t THEN o
                                               ELSE seat_order[r]
      BY <1>1, <1>2, <1>3, <2>1
    <2> HIDE DEF s, q
    <2>3. {was} \in SUBSET Seat /\ {t} \in SUBSET Seat
          /\ {was} \in SUBSET (({was} \ {t}) \cap SeatsOf(o)) /\ ({t} \ {was}) \cap SeatsOf(o) = {}
      BY <1>1, <2>2 DEF SeatsOf
    <2>4. SeatsOf(o)' = (SeatsOf(o) \ {was}) \cup ({t} \ {was})
      BY <1>1, <2>2 DEF SeatsOf
    <2>5. Cardinality({was}) = 1 /\ Cardinality({t}) = 1
      BY FS_Singleton
    <2>6. Cardinality({was}) <= Cardinality({t})
      BY <2>5
    <2>7. QED
      BY <2>3, <2>4, <2>6, Exchanged
  <1>4. CASE o # q
    <2>1. \A r \in SeatsOf(o) : seat_order'[r] = o
      BY <1>1, <1>2, <1>4 DEF SeatsOf
    <2>2. QED
      BY <2>1, KeptOrDeleted
  <1>5. QED
    BY <1>3, <1>4

LEMMA SeatsKept ==
    ASSUME IInv, Counted, KeysFit, [Next]_vars, NEW o \in Order, status[o] \in Live,
           status'[o] \in Live
    PROVE  Enough(o)
  <1>0. /\ o # None
        /\ \A s \in SeatsOf(o) : s \in Seat /\ seat_order[s] = o /\ seat_status[s] \in Taken
    BY NoneIsFresh DEF SeatsOf, IInv, SeatsOK
  <1>1. ASSUME UNCHANGED seatVars
        PROVE  Enough(o)
    BY <1>0, <1>1, KeptOrDeleted
  <1>2. ASSUME NEW K, NEW x, NEW q, Assign(K, x, q), \A s \in K : s \notin SeatsOf(o)
        PROVE  Enough(o)
    BY <1>0, <1>2, KeptOrDeleted DEF Assign
  <1>3. ASSUME NEW w \in Worker, NEW q \in Order, NEW K \in SUBSET Seat, CreateSeated(w, q, K)
        PROVE  Enough(o)
    <2>1. \A s \in K : s \notin SeatsOf(o)
      BY <1>0, <1>3 DEF CreateSeated, AllAvailable, With
    <2>2. QED
      BY <1>2, <1>3, <2>1 DEF CreateSeated
  <1>4. ASSUME NEW w \in Worker, SellSeats(w)
        PROVE  Enough(o)
    <2>1. \A s \in SeatsOf(o) : seat_order'[s] = o
      BY <1>0, <1>4 DEF SellSeats, Assign, SeatsOf
    <2>2. QED
      BY <2>1, KeptOrDeleted
  <1>5. ASSUME NEW w \in Worker, Rereserve(w)
        PROVE  Enough(o)
    <2>1. CASE UNCHANGED seatVars
      BY <1>1, <2>1
    <2>2. CASE /\ Assign(job[w].keys, "SOLD", job[w].order)
               /\ job[w].keys # {} => AllAvailable(job[w].keys)
      <3>1. \A s \in job[w].keys : s \notin SeatsOf(o)
        BY <1>0, <2>2 DEF AllAvailable, With
      <3>2. QED
        BY <1>2, <2>2, <3>1
    <2>3. QED
      BY <1>5, <2>1, <2>2 DEF Rereserve
  <1>6. ASSUME NEW q \in Order, NEW from, NEW to, to \notin Live, Leave(q, from, to)
        PROVE  Enough(o)
    <2>1. o # q
      BY <1>6 DEF Leave, IInv, OrdersOK
    <2>2. \A s \in SeatsOf(q) : s \notin SeatsOf(o)
      BY <2>1 DEF SeatsOf
    <2>3. QED
      BY <1>2, <1>6, <2>2 DEF Leave, release_capacity
  <1>7. ASSUME NEW K \in SUBSET Seat, block_seats(K) \/ unblock_seats(K)
        PROVE  Enough(o)
    <2>1. \A s \in SeatsOf(o) : s \notin With("AVAILABLE") /\ s \notin With("BLOCKED")
      BY <1>0 DEF With
    <2>2. QED
      BY <1>2, <1>7, <2>1 DEF block_seats, unblock_seats
  <1>8. ASSUME NEW w \in Worker, attach_layout(w)
        PROVE  Enough(o)
    <2>1. o \in Alive
      BY DEF Alive
    <2>2. sold_total # 0
      BY <2>1, NothingAlive
    <2>3. QED
      BY <1>1, <1>8, <2>2 DEF attach_layout
  <1>9. ASSUME NEW w \in Worker, detach_layout(w)
        PROVE  Enough(o)
    <2>1. \A s \in SeatsOf(o) : seat_status'[s] = "ABSENT"
      BY <1>0, <1>9 DEF detach_layout, Create
    <2>2. QED
      BY <2>1, KeptOrDeleted
  <1>10. ASSUME NEW w \in Worker, RedrawMap(w)
         PROVE  Enough(o)
    <2>1. CASE DrawRows(job[w].keys)
      <3>1. \A s \in SeatsOf(o) : seat_order'[s] = o \/ seat_status'[s] = "ABSENT"
        BY <1>0, <2>1 DEF DrawRows
      <3>2. QED
        BY <3>1, KeptOrDeleted
    <2>2. QED
      BY <1>1, <1>10, <2>1 DEF RedrawMap
  <1>11. ASSUME NEW w \in Worker, Buy(w)
         PROVE  Enough(o)
    BY <1>1, <1>3, <1>11, SwapKeeps DEF Buy, OpenPurchase, ChooseSwap, CreateGeneral
  <1>12. ASSUME NEW w \in Worker, Pay(w)
         PROVE  Enough(o)
    BY <1>1, <1>4, <1>5, <1>12 DEF Pay, ClaimPaid, LatePayment, MatchHeld, PayLate
  <1>13. ASSUME NEW w \in Worker, Staff(w)
         PROVE  Enough(o)
    BY <1>1, <1>8, <1>9, <1>10, <1>13, MoveKeeps DEF Staff, LockSource, OpenMap, PlanRedraw
  <1>14. ASSUME NEW q \in Order, expire_order(q) \/ cancel_unpaid_order(q) \/ mark_order_refunded(q)
         PROVE  Enough(o)
    BY <1>6, <1>14 DEF expire_order, cancel_unpaid_order, mark_order_refunded
  <1>15. QED
    BY <1>1, <1>7, <1>11, <1>12, <1>13, <1>14 DEF Next, Abort, vars

-----------------------------------------------------------------------------
(* The whole invariant.                                                    *)

SeatingInv == IInv /\ Counted /\ Within /\ KeysFit

LEMMA SeatingStart == Init => SeatingInv
  <1> SUFFICES ASSUME Init PROVE SeatingInv
    OBVIOUS
  <1>1. IInv
    BY Initially
  <1>2. Alive = {} /\ Late = {}
    BY DEF Init, Alive, Late
  <1>3. IsFiniteSet(Alive) /\ IsFiniteSet(Late) /\ SumAlive = 0 /\ SumLate = 0
    BY <1>2, FS_EmptySet, SumEmpty DEF SumAlive, SumLate
  <1>4. Counted /\ Within
    BY <1>3, CapacityType DEF Init, Counted, Within
  <1>5. KeysFit
    BY FS_EmptySet, QuantityType DEF Init, KeysFit
  <1>6. QED
    BY <1>1, <1>4, <1>5 DEF SeatingInv

LEMMA SeatingAlways == Spec => []SeatingInv
  <1>1. SeatingInv /\ [Next]_vars => SeatingInv'
    BY Inductive, CountedStep, WithinStep, KeysStep DEF SeatingInv
  <1>2. QED
    BY <1>1, SeatingStart, PTL DEF Spec

\* Every variable keeps its type, a seat names an order exactly while it is
\* taken, and sold_total stays between 0 and capacity_total.  Of the second
\* constraint of the database, event_sold_within_capacity, the model takes over
\* what the database enforces: a blocking or a redraw that would break it is
\* refused.  No other statement of seating/services.py or orders/services.py
\* needs it; there it follows from Counted and Within.
THEOREM TypeCorrect == Spec => []TypeOK
  <1>1. SeatingInv => TypeOK
    <2> SUFFICES ASSUME SeatingInv PROVE TypeOK
      OBVIOUS
    <2>1. sold_total >= 0
      BY SumTypes DEF SeatingInv, Counted, Within
    <2>2. QED
      BY <2>1 DEF SeatingInv, IInv, TypeOK, EventOK, Within, ModeOK
  <1>2. QED
    BY <1>1, SeatingAlways, PTL

\* An order that stays live never ends up with fewer seats, except those whose
\* rows a redraw or a detached map deletes: swaps, moves and payments that
\* race from stale copies of seat_keys never give it too few.
THEOREM NoSeatLostAlways == Spec => NoSeatLost
  <1>1. SeatingInv /\ [Next]_vars =>
            [\A o \in Order : (status[o] \in Live /\ status'[o] \in Live) =>
                Cardinality(SeatsOf(o)) <=
                    Cardinality(SeatsOf(o)')
                    + Cardinality({s \in SeatsOf(o) : seat_status'[s] = "ABSENT"})]_vars
    BY SeatsKept DEF SeatingInv, Enough
  <1>2. QED
    BY <1>1, SeatingAlways, PTL DEF Spec, NoSeatLost
=============================================================================
