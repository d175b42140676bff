--------------------------- MODULE PoolActivation ---------------------------
(***************************************************************************)
(* The pools of an event and when they sell.  Nothing stores a pool's      *)
(* status: it is computed from the clock, the counters and the overrides   *)
(* of staff whenever somebody looks.  A buyer looks, and takes places a    *)
(* moment later.  Pools are numbered in the order of sales_start_at, those *)
(* without a date last, as PostgreSQL sorts them.                          *)
(***************************************************************************)
EXTENDS Naturals

CONSTANTS
    Pools,          \* number of pools
    Capacity,       \* of each
    Horizon,        \* instants 1 .. Horizon; the event sells from the first to the last
    Shopper,        \* requests of buyers
    MaxOverrides,   \* manual statuses set
    NoDate

ASSUME PoolsAssumption ==
    /\ {Pools, Capacity} \subseteq Nat \ {0} /\ {Horizon, MaxOverrides} \subseteq Nat
    /\ NoDate \notin Nat

VARIABLES
    clock,
    pool,           \* ticket_pools
    sold_count,
    manual,         \* ticket_pools.manual_status
    chosen,         \* the pool a buyer's request has found active, 0 for none
    overrides

poolVars == <<clock, pool, sold_count, manual, chosen, overrides>>

Index == 1..Pools
Instant == 1..Horizon
ManualStatus == {"AUTO", "FORCED_OPEN", "FORCED_CLOSED"}
TicketPool == [start : Instant \cup {NoDate}, end : Instant \cup {NoDate},
               on_sellout : {"ACTIVATE_NEXT", "PAUSE"}]
NotAfter(a, b) == b = NoDate \/ (a # NoDate /\ a <= b)

Dated(p) == {i \in Index : p[i].start # NoDate /\ p[i].end # NoDate}

\* The admin form refuses pools that overlap, if both have both dates.
TicketPoolFormSet_clean(p) ==
    \A i, j \in Dated(p) : i < j => ~(p[i].start < p[j].end /\ p[j].start < p[i].end)

PoolInit ==
    /\ clock = 0
    /\ pool \in {p \in [Index -> TicketPool] :
                    /\ \A i, j \in Index : i < j => NotAfter(p[i].start, p[j].start)
                    /\ TicketPoolFormSet_clean(p)
                    \* bound: no pool follows the last
                    /\ p[Pools].on_sellout = "PAUSE"}
    /\ sold_count = [i \in Index |-> 0]
    /\ manual = [i \in Index |-> "AUTO"]
    /\ chosen = [b \in Shopper |-> 0]
    /\ overrides = 0

-----------------------------------------------------------------------------
(* events/services.py.                                                     *)

Exhausted(status) == status \in {"SOLD_OUT", "CLOSED"}

DateTrigger(i) == IF pool[i].start = NoDate THEN i = 1 ELSE clock >= pool[i].start

\* What pool i is whatever became of the ones before it.
OwnStatus(i) ==
    IF manual[i] = "FORCED_CLOSED" THEN "CLOSED"
    ELSE IF sold_count[i] >= Capacity THEN "SOLD_OUT"
    ELSE IF pool[i].end # NoDate /\ clock > pool[i].end THEN "CLOSED"
    ELSE IF manual[i] = "FORCED_OPEN" \/ DateTrigger(i) THEN "ACTIVE"
    ELSE "DRAFT"

\* Slip: a pool that ran out once opens every later one.
CascadeAny(i) ==
    /\ \E j \in 1..(i - 1) : Exhausted(OwnStatus(j))
    /\ i > 1 /\ pool[i - 1].on_sellout = "ACTIVATE_NEXT"

\* The previous pool ran out, and lets the next one start.  A pool runs out
\* by itself: the loop's status of the previous pool is its own one, or both
\* are not exhausted.
Cascade(i) ==
    i > 1 /\ Exhausted(OwnStatus(i - 1)) /\ pool[i - 1].on_sellout = "ACTIVATE_NEXT"

PoolStatus(i) == IF OwnStatus(i) = "DRAFT" /\ Cascade(i) THEN "ACTIVE" ELSE OwnStatus(i)

pools_with_status == [i \in Index |-> PoolStatus(i)]

Active == LET statuses == pools_with_status IN {i \in Index : statuses[i] = "ACTIVE"}
First(S) == IF S = {} THEN 0 ELSE CHOOSE i \in S : \A j \in S : i <= j
get_active_pool == First(Active)

\* Slip: pools that wait for their turn are not looked at.
SalesStateIgnoringDrafts ==
    IF \A i \in Index : sold_count[i] >= Capacity THEN "SOLD_OUT"
    ELSE IF clock < 1 THEN "NOT_STARTED"
    ELSE IF Active # {} THEN "ON_SALE" ELSE "CLOSED"

\* The event is as large as its pools together.
get_sales_state ==
    IF \A i \in Index : sold_count[i] >= Capacity THEN "SOLD_OUT"
    ELSE IF clock < 1 THEN "NOT_STARTED"
    ELSE IF clock > Horizon THEN "CLOSED"
    ELSE IF Active # {} THEN "ON_SALE"
    ELSE IF \E i \in Index : pools_with_status[i] = "DRAFT" THEN "PAUSED"
    ELSE "CLOSED"

-----------------------------------------------------------------------------

Tick ==
    /\ clock <= Horizon
    /\ clock' = clock + 1
    /\ UNCHANGED <<pool, sold_count, manual, chosen, overrides>>

set_pool_manual_status(i, status) ==
    /\ overrides < MaxOverrides /\ status # manual[i]
    /\ manual' = [manual EXCEPT ![i] = status]
    /\ overrides' = overrides + 1
    /\ UNCHANGED <<clock, pool, sold_count, chosen>>

\* create_order looks for the active pool ...
FindPool(b) ==
    /\ chosen[b] = 0
    /\ get_sales_state = "ON_SALE"
    /\ chosen' = [chosen EXCEPT ![b] = get_active_pool]
    /\ UNCHANGED <<clock, pool, sold_count, manual, overrides>>

\* ... and takes a place of it, if there is still one.
Reserve(b) ==
    /\ chosen[b] # 0
    /\ sold_count' = IF sold_count[chosen[b]] < Capacity
                     THEN [sold_count EXCEPT ![chosen[b]] = @ + 1] ELSE sold_count
    /\ chosen' = [chosen EXCEPT ![b] = 0]
    /\ UNCHANGED <<clock, pool, manual, overrides>>

\* An order is given up or refunded.
GiveBackPlace(i) ==
    /\ sold_count[i] > 0
    /\ sold_count' = [sold_count EXCEPT ![i] = @ - 1]
    /\ UNCHANGED <<clock, pool, manual, chosen, overrides>>

PoolNext ==
    \/ Tick
    \/ \E i \in Index : \/ GiveBackPlace(i)
                        \/ \E status \in ManualStatus : set_pool_manual_status(i, status)
    \/ \E b \in Shopper : FindPool(b) \/ Reserve(b)

PoolSpec == PoolInit /\ [][PoolNext]_poolVars

-----------------------------------------------------------------------------

PoolTypeOK ==
    /\ clock \in 0..(Horizon + 1)
    /\ sold_count \in [Index -> 0..Capacity]
    /\ manual \in [Index -> ManualStatus]
    /\ chosen \in [Shopper -> 0..Pools]

\* Pools take turns: whatever dates coincide or are missing, and whatever is
\* sold or given back, the pool buyers get is the first that is not exhausted,
\* so that no earlier one still waits for its turn, and a place of an earlier
\* pool that comes back is what the next buyer gets.  Unless staff set a pool's
\* status by hand, or a pool ends before it starts or without a start: it is
\* closed then, and the next one opens before others whose date is still to come.
PoolsTakeTurns ==
    (overrides = 0 /\ \A i \in Index : NotAfter(pool[i].start, pool[i].end)) =>
        \A i \in 1..(get_active_pool - 1) : Exhausted(pools_with_status[i])

\* CLOSED means "no pool will ever activate" (events/services.py:23): time and
\* sales do not bring it back, only staff or a place given back do.
ClosedIsFinal ==
    [][(get_sales_state = "CLOSED" /\ manual' = manual
        /\ \A i \in Index : sold_count'[i] >= sold_count[i])
           => get_sales_state' \in {"CLOSED", "SOLD_OUT"}]_poolVars
=============================================================================
