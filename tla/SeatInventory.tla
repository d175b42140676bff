---------------------------- MODULE SeatInventory ----------------------------
(***************************************************************************)
(* The seats of one event with a seat map, against its orders and its two  *)
(* counters: buyers take and swap seats, payments sell them, orders are    *)
(* given up or refunded, and staff move, block and redraw them.            *)
(*                                                                         *)
(* One action is one transaction or one autocommitted statement, except    *)
(* where a transaction reads rows and writes them later: READ COMMITTED    *)
(* lets others commit in between, so there the read and the write are two  *)
(* actions and the rows locked meanwhile stop whoever would write them.    *)
(***************************************************************************)
EXTENDS Integers, FiniteSets

CONSTANTS
    Seat,           \* seat_key values that layouts use
    Layouts,        \* the seats of the layouts the staff may draw
    Order,          \* rows that may appear in the orders table
    Quantity,       \* how many places each of them is for
    Worker,         \* request threads
    PoolCapacity,   \* capacity of the event's only ticket pool
    None            \* absence of an order or a seat

ASSUME LayoutsType == Layouts \subseteq SUBSET Seat /\ {} \notin Layouts
ASSUME FiniteSeats == IsFiniteSet(Seat)
ASSUME QuantityType == Quantity \in [Order -> Nat \ {0}]
ASSUME CapacityType == PoolCapacity \in Nat
ASSUME NoneIsFresh == None \notin Order \cup Seat

VARIABLES
    seat_status,    \* event_seats.status, "ABSENT" if there is no such row
    seat_order,     \* event_seats.order
    status,         \* orders.status, "NONE" before the row exists
    seat_keys,      \* orders.seat_keys
    seating_mode,   \* events.seating_mode
    capacity_total, \* events.capacity_total
    sold_total,     \* events.sold_total, and sold_count of the only pool
    job             \* what each worker is doing and remembers

vars == <<seat_status, seat_order, status, seat_keys, seating_mode,
          capacity_total, sold_total, job>>

seatVars == <<seat_status, seat_order>>
orderVars == <<status, seat_keys>>
eventVars == <<seating_mode, capacity_total, sold_total>>

-----------------------------------------------------------------------------

SeatStatus == {"AVAILABLE", "HELD", "SOLD", "BLOCKED"}
Taken == {"HELD", "SOLD"}
\* CREATED stands for PAYMENT_PENDING too and CANCELLED for FAILED: no statement
\* here tells them apart.
OrderStatus == {"CREATED", "PAID", "EXPIRED", "REFUNDED", "CANCELLED"}
Live == {"CREATED", "PAID"}

Pc == {"idle", "buy_seats", "buy_general", "swap", "sell", "sell_rows",
       "rereserve", "pay_late", "move", "attach", "detach", "redraw", "redraw_rows"}

\* keys are the seats a request names or a statement has matched, old is the
\* seat_keys of the order when it was read, from the seat to be moved.
Job == [pc: Pc, order: Order \cup {None}, keys: SUBSET Seat, old: SUBSET Seat,
        from: Seat \cup {None}]

Idle == [pc |-> "idle", order |-> None, keys |-> {}, old |-> {}, from |-> None]

Present == {s \in Seat : seat_status[s] # "ABSENT"}
With(x) == {s \in Seat : seat_status[s] = x}
SeatsOf(o) == {s \in Seat : seat_order[s] = o}

Init ==
    /\ seat_status = [s \in Seat |-> "ABSENT"]
    /\ seat_order = [s \in Seat |-> None]
    /\ status = [o \in Order |-> "NONE"]
    /\ seat_keys = [o \in Order |-> {}]
    /\ seating_mode = "GENERAL"
    /\ capacity_total = PoolCapacity
    /\ sold_total = 0
    /\ job = [w \in Worker |-> Idle]

Goto(w, l) == job' = [job EXCEPT ![w].pc = l]
Done(w) == job' = [job EXCEPT ![w] = Idle]

\* Row locks held between the two halves of a transaction: the seat being
\* moved, and the event whose map is being redrawn.
Locked(S) == \E w \in Worker : job[w].pc = "move" /\ job[w].from \in S
EventLocked == \E w \in Worker : job[w].pc = "redraw_rows"

\* Definitions marked "Slip" are mistakes the code might have made; the run
\* is shown to notice each of them, and no behaviour uses one.

\* The conditional UPDATE of _hold_seats changes every row it names.
AllAvailable(K) == K \subseteq With("AVAILABLE")

\* Slip: the event's counter is not tested.
FitsPoolOnly(n) == sold_total + n <= PoolCapacity

\* The conditional UPDATEs of both counters.
Fits(n) == sold_total + n <= capacity_total /\ sold_total + n <= PoolCapacity

Assign(K, x, o) ==
    /\ seat_status' = [s \in Seat |-> IF s \in K THEN x ELSE seat_status[s]]
    /\ seat_order' = [s \in Seat |-> IF s \in K THEN o ELSE seat_order[s]]

\* Slip: the order's seats are left as they are.
ReleaseCounters(o) ==
    /\ sold_total' = sold_total - Quantity[o]
    /\ UNCHANGED seatVars

release_capacity(o) ==
    /\ ~EventLocked /\ ~Locked(SeatsOf(o))
    /\ sold_total' = sold_total - Quantity[o]
    /\ Assign(SeatsOf(o), "AVAILABLE", None)

-----------------------------------------------------------------------------
(* Buying.                                                                 *)

\* The purchase page loads the event; create_order trusts its seating_mode.
OpenPurchase(w) ==
    /\ job[w].pc = "idle"
    /\ Goto(w, IF seating_mode = "SEATED" THEN "buy_seats" ELSE "buy_general")
    /\ UNCHANGED <<seatVars, orderVars, eventVars>>

Insert(o, K) ==
    /\ status[o] = "NONE"
    /\ ~EventLocked
    /\ Fits(Quantity[o])
    /\ status' = [status EXCEPT ![o] = "CREATED"]
    /\ seat_keys' = [seat_keys EXCEPT ![o] = K]
    /\ sold_total' = sold_total + Quantity[o]

\* create_order of a seated event: counters, order and seats in one
\* transaction, of which a seat already taken leaves nothing.
CreateSeated(w, o, K) ==
    /\ job[w].pc = "buy_seats"
    /\ Cardinality(K) = Quantity[o]
    /\ Insert(o, K)
    /\ AllAvailable(K)
    /\ Assign(K, "HELD", o)
    /\ Done(w)
    /\ UNCHANGED <<seating_mode, capacity_total>>

CreateGeneral(w, o) ==
    /\ job[w].pc = "buy_general"
    /\ Insert(o, {})
    /\ Done(w)
    /\ UNCHANGED <<seatVars, seating_mode, capacity_total>>

\* change_pending_order_seats up to its transaction: K is compared with the
\* order as it was read.
ChooseSwap(w, o, K) ==
    /\ job[w].pc = "idle"
    /\ status[o] = "CREATED"
    /\ seat_keys[o] # {}
    /\ K \subseteq Present /\ Cardinality(K) = Quantity[o]
    /\ job' = [job EXCEPT ![w] = [Idle EXCEPT !.pc = "swap", !.order = o,
                                              !.keys = K, !.old = seat_keys[o]]]
    /\ UNCHANGED <<seatVars, orderVars, eventVars>>

HoldAndDrop(o, new, dropped) ==
    /\ seat_status' = [s \in Seat |-> IF s \in new THEN "HELD"
                          ELSE IF s \in dropped THEN "AVAILABLE" ELSE seat_status[s]]
    /\ seat_order' = [s \in Seat |-> IF s \in new THEN o
                         ELSE IF s \in dropped THEN None ELSE seat_order[s]]

\* Slip: the seats given up are released although some new one is taken.
SwapAnyway(w) ==
    LET o == job[w].order
        K == job[w].keys
        new == (K \ job[w].old) \cap With("AVAILABLE")
        dropped == (job[w].old \ K) \cap SeatsOf(o) \cap With("HELD")
    IN
    /\ job[w].pc = "swap"
    /\ ~Locked(dropped)
    /\ IF status[o] = "CREATED"
       THEN /\ seat_keys' = [seat_keys EXCEPT ![o] = K]
            /\ HoldAndDrop(o, new, dropped)
       ELSE UNCHANGED <<seatVars, seat_keys>>
    /\ Done(w)
    /\ UNCHANGED <<status, eventVars>>

\* The transaction: claim the unpaid order, hold what is new, release what
\* was dropped from the selection as it was read.
SwapSeats(w) ==
    LET o == job[w].order
        K == job[w].keys
        new == K \ job[w].old
        dropped == (job[w].old \ K) \cap SeatsOf(o) \cap With("HELD")
    IN
    /\ job[w].pc = "swap"
    /\ ~Locked(dropped)
    /\ IF status[o] = "CREATED" /\ AllAvailable(new)
       THEN /\ seat_keys' = [seat_keys EXCEPT ![o] = K]
            /\ HoldAndDrop(o, new, dropped)
       ELSE UNCHANGED <<seatVars, seat_keys>>
    /\ Done(w)
    /\ UNCHANGED <<status, eventVars>>

-----------------------------------------------------------------------------
(* Payment, and the ways an order gives its seats back.                    *)

\* mark_order_paid: the claim, committed before the seats are touched.
ClaimPaid(w, o) ==
    /\ job[w].pc = "idle"
    /\ status[o] = "CREATED"
    /\ status' = [status EXCEPT ![o] = "PAID"]
    /\ job' = [job EXCEPT ![w].pc = "sell", ![w].order = o]
    /\ UNCHANGED <<seatVars, seat_keys, eventVars>>

\* UPDATE ... WHERE order = o AND status = HELD finds its rows ...
MatchHeld(w) ==
    /\ job[w].pc = "sell"
    /\ job' = [job EXCEPT ![w].pc = "sell_rows",
                          ![w].keys = SeatsOf(job[w].order) \cap With("HELD")]
    /\ UNCHANGED <<seatVars, orderVars, eventVars>>

\* Slip: the rows found are sold without looking at them again.
SellBlindly(w) ==
    /\ job[w].pc = "sell_rows"
    /\ ~Locked(job[w].keys)
    /\ Assign(job[w].keys \cap Present, "SOLD", job[w].order)
    /\ Done(w)
    /\ UNCHANGED <<orderVars, eventVars>>

\* ... and, once each is unlocked, tests them again and sells them.
SellSeats(w) ==
    LET o == job[w].order
        rows == job[w].keys \cap SeatsOf(o) \cap With("HELD")
    IN
    /\ job[w].pc = "sell_rows"
    /\ ~Locked(job[w].keys)
    /\ Assign(rows, "SOLD", o)
    /\ Done(w)
    /\ UNCHANGED <<orderVars, eventVars>>

\* The payment finds the order expired; refresh_from_db reads its seat_keys.
LatePayment(w, o) ==
    /\ job[w].pc = "idle"
    /\ status[o] = "EXPIRED"
    /\ job' = [job EXCEPT ![w].pc = "rereserve", ![w].order = o,
                          ![w].keys = seat_keys[o]]
    /\ UNCHANGED <<seatVars, orderVars, eventVars>>

\* _try_rereserve: the counters and the very same seats, or nothing.
Rereserve(w) ==
    LET o == job[w].order
        K == job[w].keys
    IN
    /\ job[w].pc = "rereserve"
    /\ ~EventLocked
    /\ IF Fits(Quantity[o]) /\ (K # {} => /\ AllAvailable(K)
                                         /\ Cardinality(K) = Quantity[o])
       THEN /\ sold_total' = sold_total + Quantity[o]
            /\ Assign(K, "SOLD", o)
            /\ job' = [job EXCEPT ![w].pc = "pay_late", ![w].keys = {}]
       ELSE /\ UNCHANGED <<sold_total, seatVars>>
            /\ Done(w)
    /\ UNCHANGED <<orderVars, seating_mode, capacity_total>>

PayLate(w) ==
    LET o == job[w].order IN
    /\ job[w].pc = "pay_late"
    /\ status' = IF status[o] = "EXPIRED" THEN [status EXCEPT ![o] = "PAID"]
                                          ELSE status
    /\ Done(w)
    /\ UNCHANGED <<seatVars, seat_keys, eventVars>>

\* Each exit path claims the status and releases in one transaction.
Leave(o, from, to) ==
    /\ status[o] = from
    /\ status' = [status EXCEPT ![o] = to]
    /\ release_capacity(o)
    /\ UNCHANGED <<seat_keys, seating_mode, capacity_total, job>>

\* cancel_unpaid_order and mark_order_failed do the same to seats and counters.
expire_order(o) == Leave(o, "CREATED", "EXPIRED")
cancel_unpaid_order(o) == Leave(o, "CREATED", "CANCELLED")
mark_order_refunded(o) == Leave(o, "PAID", "REFUNDED")

-----------------------------------------------------------------------------
(* The staff's seat map.                                                   *)

\* move_seat reads and locks the source seat and reads its order.  The
\* target is chosen when the rest is done.
LockSource(w, s) ==
    /\ job[w].pc = "idle"
    /\ seat_status[s] \in Taken
    /\ ~Locked({s})
    /\ job' = [job EXCEPT ![w] = [Idle EXCEPT !.pc = "move", !.from = s,
                                   !.order = seat_order[s],
                                   !.old = seat_keys[seat_order[s]]]]
    /\ UNCHANGED <<seatVars, orderVars, eventVars>>

MoveSeat(w, t) ==
    LET s == job[w].from
        o == job[w].order
    IN
    /\ job[w].pc = "move"
    /\ seat_status[t] = "AVAILABLE"
    /\ seat_status' = [seat_status EXCEPT ![t] = seat_status[s], ![s] = "AVAILABLE"]
    /\ seat_order' = [seat_order EXCEPT ![t] = o, ![s] = None]
    /\ seat_keys' = [seat_keys EXCEPT ![o] =
                       {IF k = s THEN t ELSE k : k \in job[w].old}]
    /\ Done(w)
    /\ UNCHANGED <<status, eventVars>>

\* block_seats: the free ones of the seats named; the database refuses a
\* capacity below sold_total.
block_seats(K) ==
    LET rows == K \cap With("AVAILABLE") IN
    /\ ~EventLocked
    /\ rows # {}
    /\ sold_total <= capacity_total - Cardinality(rows)
    /\ Assign(rows, "BLOCKED", None)
    /\ capacity_total' = capacity_total - Cardinality(rows)
    /\ UNCHANGED <<orderVars, seating_mode, sold_total, job>>

unblock_seats(K) ==
    LET rows == K \cap With("BLOCKED") IN
    /\ ~EventLocked
    /\ rows # {}
    /\ Assign(rows, "AVAILABLE", None)
    /\ capacity_total' = capacity_total + Cardinality(rows)
    /\ UNCHANGED <<orderVars, seating_mode, sold_total, job>>

\* structure_locked_reason, read before the transaction.
StructureUnlocked == sold_total = 0 /\ With("HELD") \cup With("SOLD") = {}

\* The request to attach a layout, detach it, or carry a saved one over to
\* the event's map; what upcoming_maps lists has a map.
OpenMap(w, l, L) ==
    /\ job[w].pc = "idle"
    /\ IF l = "redraw" THEN seating_mode = "SEATED" ELSE StructureUnlocked
    /\ job' = [job EXCEPT ![w].pc = l, ![w].keys = L]
    /\ UNCHANGED <<seatVars, orderVars, eventVars>>

Create(L) ==
    /\ seat_status' = [s \in Seat |-> IF s \in L THEN "AVAILABLE" ELSE "ABSENT"]
    /\ seat_order' = [s \in Seat |-> None]

\* attach_layout: only sold_total is tested again, under the event's lock.
attach_layout(w) ==
    /\ job[w].pc = "attach"
    /\ ~EventLocked /\ ~Locked(Seat)
    /\ IF sold_total = 0
       THEN /\ Create(job[w].keys)
            /\ seating_mode' = "SEATED"
            /\ capacity_total' = Cardinality(job[w].keys)
       ELSE UNCHANGED <<seatVars, seating_mode, capacity_total>>
    /\ Done(w)
    /\ UNCHANGED <<orderVars, sold_total>>

\* detach_layout: nothing is tested again; the capacity is the pools', as the
\* event in memory has sold nothing.
detach_layout(w) ==
    /\ job[w].pc = "detach"
    /\ ~EventLocked /\ ~Locked(Seat)
    /\ Create({})
    /\ seating_mode' = "GENERAL"
    /\ capacity_total' = IF PoolCapacity > 1 THEN PoolCapacity ELSE 1
    /\ Done(w)
    /\ UNCHANGED <<orderVars, sold_total>>

\* sync_event_map: the event is locked and the plan made; a taken seat that
\* would disappear ends it.
PlanRedraw(w) ==
    /\ job[w].pc = "redraw"
    /\ ~EventLocked
    /\ IF \E s \in Seat \ job[w].keys : seat_status[s] \in Taken
       THEN Done(w) ELSE Goto(w, "redraw_rows")
    /\ UNCHANGED <<seatVars, orderVars, eventVars>>

DrawRows(L) ==
    /\ seat_status' = [s \in Seat |-> IF s \notin L THEN "ABSENT"
                          ELSE IF s \in Present THEN seat_status[s] ELSE "AVAILABLE"]
    /\ seat_order' = [s \in Seat |-> IF s \in L THEN seat_order[s] ELSE None]

\* Slip: blocked seats count as capacity.
RedrawCountingBlocked(w) ==
    LET L == job[w].keys IN
    /\ job[w].pc = "redraw_rows"
    /\ ~Locked(Seat \ L)
    /\ IF sold_total <= Cardinality(L)
       THEN DrawRows(L) /\ capacity_total' = Cardinality(L)
       ELSE UNCHANGED <<seatVars, capacity_total>>
    /\ Done(w)
    /\ UNCHANGED <<orderVars, seating_mode, sold_total>>

\* The rows not in the layout are deleted, whatever their status is by now;
\* kept rows keep status and order.  event_sold_within_capacity may refuse it.
RedrawMap(w) ==
    LET L == job[w].keys IN
    /\ job[w].pc = "redraw_rows"
    /\ ~Locked(Seat \ L)
    /\ IF sold_total <= Cardinality(L \ With("BLOCKED"))
       THEN DrawRows(L) /\ capacity_total' = Cardinality(L \ With("BLOCKED"))
       ELSE UNCHANGED <<seatVars, capacity_total>>
    /\ Done(w)
    /\ UNCHANGED <<orderVars, seating_mode, sold_total>>

\* A request ends here: it is refused, or the process dies, or the database
\* breaks a deadlock or refuses a constraint.  What it has not committed is
\* rolled back and its locks are gone.
Abort(w) ==
    /\ job[w].pc # "idle"
    /\ Done(w)
    /\ UNCHANGED <<seatVars, orderVars, eventVars>>

-----------------------------------------------------------------------------

Buy(w) ==
    \/ OpenPurchase(w)
    \/ \E o \in Order, K \in SUBSET Seat : CreateSeated(w, o, K) \/ ChooseSwap(w, o, K)
    \/ \E o \in Order : CreateGeneral(w, o)
    \/ SwapSeats(w)

Pay(w) ==
    \/ \E o \in Order : ClaimPaid(w, o) \/ LatePayment(w, o)
    \/ MatchHeld(w) \/ SellSeats(w) \/ Rereserve(w) \/ PayLate(w)

Staff(w) ==
    \/ \E s \in Seat : LockSource(w, s) \/ MoveSeat(w, s)
    \/ \E L \in Layouts, l \in {"attach", "redraw"} : OpenMap(w, l, L)
    \/ OpenMap(w, "detach", {})
    \/ attach_layout(w) \/ detach_layout(w) \/ PlanRedraw(w) \/ RedrawMap(w)

Next ==
    \/ \E w \in Worker : Buy(w) \/ Pay(w) \/ Staff(w) \/ Abort(w)
    \/ \E o \in Order : expire_order(o) \/ cancel_unpaid_order(o) \/ mark_order_refunded(o)
    \/ \E K \in SUBSET Seat : block_seats(K) \/ unblock_seats(K)

Spec == Init /\ [][Next]_vars

-----------------------------------------------------------------------------
(* Properties.                                                             *)

SeatsOK ==
    /\ seat_status \in [Seat -> SeatStatus \cup {"ABSENT"}]
    /\ seat_order \in [Seat -> Order \cup {None}]
    /\ \A s \in Seat : seat_order[s] # None <=> seat_status[s] \in Taken

OrdersOK ==
    /\ status \in [Order -> OrderStatus \cup {"NONE"}]
    /\ seat_keys \in [Order -> SUBSET Seat]
    /\ job \in [Worker -> Job]

EventOK ==
    /\ seating_mode \in {"GENERAL", "SEATED"}
    /\ capacity_total \in Nat
    /\ sold_total \in 0..capacity_total

\* Every variable keeps its type; the two columns of a seat agree as
\* event_seat_order_matches_status demands, and the event's counters as
\* event_sold_within_capacity does, without the help of these constraints
\* except where an action names one.
TypeOK == SeatsOK /\ OrdersOK /\ EventOK

\* No seat is stranded with an order that was never paid and never will be:
\* a held seat's order is unpaid or paid, a sold seat's was paid, or its late
\* payment died on the way.  (REFUNDED is possible: a second late payment can
\* take the seats of an order refunded meanwhile.)
OwnersStand ==
    \A s \in Seat :
        /\ seat_status[s] = "HELD" => status[seat_order[s]] \in Live
        /\ seat_status[s] = "SOLD" =>
              status[seat_order[s]] \in {"PAID", "REFUNDED", "EXPIRED"}

\* Blocking, unblocking, attaching and redrawing each adjust the capacity in
\* their own way, by differences or by counting; between transactions it is
\* always the number of seats not blocked.
CapacityIsSellable ==
    seating_mode = "SEATED" =>
        capacity_total = Cardinality(Present \ With("BLOCKED"))

\* An order that stays live never ends up with fewer seats, except those whose
\* rows are deleted: swaps, moves and payments that race, each from a stale
\* copy of seat_keys, may give an order the wrong seats but not too few.
NoSeatLost ==
    [][\A o \in Order : (status[o] \in Live /\ status'[o] \in Live) =>
          Cardinality(SeatsOf(o)) <=
              Cardinality(SeatsOf(o)')
              + Cardinality({s \in SeatsOf(o) : seat_status'[s] = "ABSENT"})]_vars

SeatOwner ==
    [s \in Seat |-> CASE seat_status[s] = "ABSENT" -> "absent"
                      [] seat_status[s] = "BLOCKED" -> "blocked"
                      [] seat_status[s] = "AVAILABLE" -> "free"
                      [] OTHER -> seat_order[s]]

\* The seat map implements SeatOwnership: nobody ever takes, blocks or
\* overwrites a seat that somebody owns.
Ownership == INSTANCE SeatOwnership WITH
    Free <- "free", Blocked <- "blocked", Absent <- "absent", owner <- SeatOwner
ImplementsOwnership == Ownership!Spec

-----------------------------------------------------------------------------
(* What the repository says and the code does not guarantee.               *)

\* "swap the held seats for others, same number" (orders/services.py).
SameNumber ==
    \A o \in Order : status[o] = "CREATED" => Cardinality(SeatsOf(o)) <= Quantity[o]

\* "Refused for the whole event if a sold or reserved seat would disappear"
\* (seating/services.py): a map that stays a map loses no such seat.
RedrawKeepsTaken ==
    [][seating_mode' = seating_mode =>
          \A s \in Seat : seat_status[s] \in Taken => seat_status'[s] # "ABSENT"]_vars

\* "a free seat existed, so this never drops capacity under sold_total"
\* (seating/services.py): the free seats of a map fit in what is left.
FreeSeatMeansRoom ==
    seating_mode = "SEATED" =>
        sold_total + Cardinality(With("AVAILABLE")) <= capacity_total
=============================================================================
