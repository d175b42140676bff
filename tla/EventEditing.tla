---------------------------- MODULE EventEditing ----------------------------
(***************************************************************************)
(* An event and its pools in the hands of staff, from the wizard that made *)
(* it on: the change form, which loads the event with its pools, checks    *)
(* what is posted and saves it in one transaction, while buyers pay.       *)
(* Sales are by days: online sales stop when the concert's day begins.      *)
(* Gates, start and end are hours since day 0; every concert starts at 8pm. *)
(***************************************************************************)
EXTENDS Integers, FiniteSets, FiniteSetsExt

CONSTANTS
    PoolId,
    PoolForms,          \* what may be posted: [PoolId -> rows of the form or NoPool]
    ConcertDays,        \* days the concert may be on
    Times,              \* hours that may be posted: [gates |-> ..., end |-> ...]
    CLUB_MAX_CAPACITY,
    Clerk,              \* requests of staff
    MaxSaves, MaxSales, \* forms saved, tickets sold
    Never,              \* no date
    NoPool,             \* no such pool; a row that is deleted
    NoBuyer, Meanwhile  \* an order not yet paid; one paid while a form was being saved

PoolDate == Int \cup {Never}
ASSUME EditingAssumption ==
    /\ IsFiniteSet(PoolId) /\ ConcertDays \subseteq Nat /\ Never \notin Int
    /\ Times \subseteq [gates : Int, end : Int]
    /\ PoolForms \subseteq
           [PoolId -> [start : PoolDate, end : PoolDate, capacity : Nat] \cup {NoPool}]
    /\ NoPool \notin [start : PoolDate, end : PoolDate, capacity : Nat, sold : Nat]

VARIABLES
    happening,          \* events: start_at, gates_open_at, end_at, sales_start_at,
                        \* sales_end_at, capacity_total, sold_total, status
    pools,              \* ticket_pools
    form,               \* what a request of staff has loaded and checked
    buyer,              \* the day each paid order was bought for, or staff last decided
                        \* about with its buyer in mind, or Meanwhile
    unasked,            \* history: paid orders whose concert moved unasked since then
    copied, crossed, saves
        \* history: the event is a copy for a new date, not saved since; two forms
        \* met; forms saved

editVars == <<happening, pools, form, buyer, unasked, copied, crossed, saves>>

Buyers == 1..MaxSales
Paid == {i \in Buyers : buyer[i] # NoBuyer}

start_at(day) == 24 * day + 20
online_sales_cutoff(day) == day
Earlier(a, b) == IF a = Never \/ b <= a THEN b ELSE a

Existing(ps) == {p \in PoolId : ps[p] # NoPool}
CapacityOf(ps) == MapThenSumSet(LAMBDA p : ps[p].capacity, Existing(ps))
PoolStarts(ps) == {ps[p].start : p \in Existing(ps)} \ {Never}
DatedPools(ps) == {p \in Existing(ps) : ps[p].start # Never /\ ps[p].end # Never}
Apart(ps) == \A p, q \in DatedPools(ps) : p # q => ps[p].end <= ps[q].start \/ ps[q].end <= ps[p].start
EndBy(ps, day) == \A p \in Existing(ps) : ps[p].end # Never => ps[p].end <= online_sales_cutoff(day)

\* Pools have been sold from if they count tickets or have orders.
Sold(p) == pools[p] # NoPool /\ pools[p].sold > 0

\* Slip: pools are compared with the day the concert was on before.
CleanOldDay(rows, day) ==
    /\ \A p \in PoolId : rows[p] = NoPool => ~Sold(p)
    /\ CapacityOf(rows) <= CLUB_MAX_CAPACITY
    /\ EndBy(rows, happening.start)
    /\ Apart(rows)

TicketPoolFormSet(rows, day) ==
    /\ \A p \in PoolId : rows[p] = NoPool => ~Sold(p)
    /\ CapacityOf(rows) <= CLUB_MAX_CAPACITY
    /\ EndBy(rows, day)
    /\ Apart(rows)

\* "Koniec 3:00" is the night after the concert.
EndAt(day, times) == IF times.end <= start_at(day) /\ times.end \div 24 = day
                     THEN times.end + 24 ELSE times.end
EventAdminForm(day, times) == times.gates <= start_at(day) /\ start_at(day) < EndAt(day, times)

\* Event.save and TicketPool.save put the end of sales before the concert.
EventSave(event) == [event EXCEPT !.sales_end = Earlier(@, online_sales_cutoff(event.start))]
TicketPoolSave(row, day) ==
    IF row.end = Never THEN row ELSE [row EXCEPT !.end = Earlier(@, online_sales_cutoff(day))]

\* save_related derives dates and capacity of a general event from its pools.
save_related(event, ps) ==
    [event EXCEPT !.sales_start = IF PoolStarts(ps) = {} THEN @ ELSE Min(PoolStarts(ps)),
                  !.sales_end = online_sales_cutoff(event.start),
                  !.capacity = IF Existing(ps) = {} THEN @ ELSE CapacityOf(ps)]

PoolRow(rows, p, sold) == [start |-> rows[p].start, end |-> rows[p].end,
                       capacity |-> rows[p].capacity, sold |-> sold]
NoForm == [pc |-> "closed"]

\* The wizard: the pools are new, so what it reads is what it saved.
EditInit ==
    \E rows \in PoolForms, day \in ConcertDays, times \in Times :
        LET made == [p \in PoolId |-> IF rows[p] = NoPool THEN NoPool ELSE PoolRow(rows, p, 0)] IN
        /\ Existing(made) # {} /\ CapacityOf(made) <= CLUB_MAX_CAPACITY
        /\ EndBy(made, day) /\ Apart(made) /\ EventAdminForm(day, times)
        /\ pools = made
        /\ happening = save_related([start |-> day, gates |-> times.gates, end |-> EndAt(day, times),
                                     sales_start |-> day, sales_end |-> day,
                                     capacity |-> 1, sold |-> 0, status |-> "DRAFT"], made)
        /\ form = [w \in Clerk |-> NoForm]
        /\ buyer = [i \in Buyers |-> NoBuyer] /\ unasked = {}
        /\ copied = FALSE /\ crossed = FALSE /\ saves = 0

-----------------------------------------------------------------------------
(* The change form.                                                        *)

Changed(rows) == {p \in PoolId :
    IF pools[p] = NoPool \/ rows[p] = NoPool THEN pools[p] # rows[p]
    ELSE PoolRow(rows, p, pools[p].sold) # pools[p]}
Changes(rows, day, times) ==
    \/ <<day, times.gates, times.end>> # <<happening.start, happening.gates, happening.end>>
    \/ Changed(rows) # {}

\* _pending_changes has no list of changes to show, ask about or send when the
\* pools fail their check, which it makes with the day as it was before.
Listable(rows) == TicketPoolFormSet(rows, happening.start)

Posted(w, rows, day, times, confirmed) ==
    /\ form' = [form EXCEPT ![w] =
           [pc |-> "save", event |-> [happening EXCEPT !.start = day, !.gates = times.gates,
                                          !.end = EndAt(day, times)],
            listed |-> pools,
            rows |-> rows, changed |-> Changed(rows), listable |-> Listable(rows),
            confirmed |-> confirmed /\ Listable(rows)]]
    /\ crossed' = (\E v \in Clerk : form[v] # NoForm)
    /\ UNCHANGED <<happening, pools, buyer, unasked, copied, saves>>

Loads(w, rows, day, times) ==
    /\ form[w] = NoForm /\ saves < MaxSaves /\ ~crossed
    /\ EventAdminForm(day, times) /\ TicketPoolFormSet(rows, day)

\* Slip: staff are never asked.
PostUnasked(w, rows, day, times, confirmed) ==
    /\ Loads(w, rows, day, times)
    /\ Posted(w, rows, day, times, confirmed)

\* With tickets sold a change is saved only when it has been confirmed;
\* otherwise the form comes back with the list of changes, if there is one.
changeform_view(w, rows, day, times, confirmed) ==
    /\ Loads(w, rows, day, times)
    /\ confirmed => Paid # {}
    /\ (Paid # {} /\ Listable(rows) /\ Changes(rows, day, times)) => confirmed
    /\ Posted(w, rows, day, times, confirmed)

\* One transaction: the event as it was loaded, the pools that were changed
\* with the counters they had then, and what save_related derives from the
\* pools -- as get_queryset had prefetched them.  Who has paid by now gets an
\* e-mail about confirmed changes, if staff want it.
SaveForm(w) ==
    LET f == form[w]
        event == save_related(EventSave(f.event), f.listed)
        put(p) == IF f.rows[p] = NoPool THEN NoPool
                  ELSE TicketPoolSave(PoolRow(f.rows, p, IF f.listed[p] = NoPool THEN 0
                                                     ELSE f.listed[p].sold), event.start)
        after == [p \in PoolId |-> IF p \in f.changed THEN put(p) ELSE pools[p]]
        \* the database protects pools with orders and keeps sales within capacity
        allowed == /\ \A p \in f.changed : f.rows[p] = NoPool => ~Sold(p)
                   /\ \A p \in Existing(after) : after[p].sold <= after[p].capacity
                   /\ event.sold <= event.capacity
    IN
    /\ f # NoForm
    /\ IF allowed
       THEN /\ happening' = event
            /\ pools' = after
            /\ buyer' = [i \in Buyers |-> IF f.confirmed /\ i \in Paid THEN event.start
                                          ELSE buyer[i]]
            /\ unasked' = IF f.confirmed THEN {} ELSE IF f.listable THEN unasked ELSE Paid
            /\ copied' = FALSE
            /\ saves' = saves + 1
       ELSE UNCHANGED <<happening, pools, buyer, unasked, copied, saves>>
    /\ form' = [form EXCEPT ![w] = NoForm]
    /\ UNCHANGED crossed

-----------------------------------------------------------------------------

Publishable(event, ps) ==
    /\ event.capacity > 0 /\ Existing(ps) # {} /\ event.sales_start < event.sales_end
    /\ event.gates <= start_at(event.start) /\ start_at(event.start) < event.end

Publish ==
    /\ happening.status = "DRAFT" /\ Publishable(happening, pools)
    /\ happening' = [happening EXCEPT !.status = "PUBLISHED"]
    /\ UNCHANGED <<pools, form, buyer, unasked, copied, crossed, saves>>

SellTicket(i, p) ==
    /\ happening.status = "PUBLISHED" /\ happening.sold < happening.capacity
    /\ pools[p] # NoPool /\ pools[p].sold < pools[p].capacity
    /\ buyer[i] = NoBuyer
    /\ happening' = [happening EXCEPT !.sold = @ + 1]
    /\ pools' = [pools EXCEPT ![p].sold = @ + 1]
    /\ buyer' = [buyer EXCEPT ![i] = IF \A w \in Clerk : form[w] = NoForm
                                     THEN happening.start ELSE Meanwhile]
    /\ UNCHANGED <<form, unasked, copied, crossed, saves>>

\* The same show on a new date; from here on it is the copy we look at.  Its
\* pools sell from now to the cutoff, all of them.
copy_event_for_new_date(day) ==
    LET made == [p \in PoolId |-> IF pools[p] = NoPool THEN NoPool
                     ELSE [pools[p] EXCEPT !.start = 0, !.end = online_sales_cutoff(day),
                                           !.sold = 0]]
        shift == 24 * (day - happening.start)
        event == [start |-> day, gates |-> happening.gates + shift, end |-> happening.end + shift,
                  sales_start |-> 0, sales_end |-> online_sales_cutoff(day),
                  capacity |-> Max({CapacityOf(pools), 1}), sold |-> 0, status |-> "DRAFT"]
    IN
    /\ ~copied /\ saves < MaxSaves /\ day # happening.start
    /\ \A w \in Clerk : form[w] = NoForm
    /\ happening.status = "PUBLISHED" => Publishable(event, made)
    /\ happening' = [event EXCEPT !.status = happening.status]
    /\ pools' = made
    /\ buyer' = [i \in Buyers |-> NoBuyer] /\ unasked' = {}
    /\ copied' = TRUE
    /\ saves' = saves + 1
    /\ UNCHANGED <<form, crossed>>

EditNext ==
    \/ \E w \in Clerk :
          \/ SaveForm(w)
          \/ \E rows \in PoolForms, day \in ConcertDays, times \in Times, confirmed \in BOOLEAN :
                 changeform_view(w, rows, day, times, confirmed)
    \/ Publish
    \/ \E i \in Buyers, p \in PoolId : SellTicket(i, p)
    \/ \E day \in ConcertDays : copy_event_for_new_date(day)

EditSpec == EditInit /\ [][EditNext]_editVars

-----------------------------------------------------------------------------

\* The hours stay in order, as publish_event demands, when events are copied.
EditTypeOK ==
    /\ happening.start \in ConcertDays
    /\ happening.gates <= start_at(happening.start) /\ start_at(happening.start) < happening.end
    /\ happening.sold \in Nat /\ happening.capacity \in Nat
    /\ \A p \in Existing(pools) : pools[p].sold \in 0..pools[p].capacity
    /\ buyer \in [Buyers -> ConcertDays \cup {NoBuyer, Meanwhile}] /\ unasked \subseteq Buyers

\* Nothing sells on the concert's day and no two pools at once, however the
\* concert is moved and its pools redrawn: "this is the actual guarantee"
\* (events/admin.py:46); but for pools two forms changed from different pages,
\* and those of a copy for a new date, which all sell from the start.
PoolsStayApart ==
    /\ happening.sales_end <= online_sales_cutoff(happening.start)
    /\ ~crossed => EndBy(pools, happening.start)
    /\ ~crossed /\ ~copied => Apart(pools)

\* No paid order's concert moves behind its buyer's back: a new date is one
\* that staff confirmed with the buyers before them.  Exceptions: an order paid
\* between the check and the save, forms that met, and a concert put off with
\* pools that sell past its old date, which the code cannot list and saves
\* unasked -- such a concert is only ever later than the buyer knows.
BuyersKnowDate ==
    ~crossed => \A i \in Paid : \/ buyer[i] \in {happening.start, Meanwhile}
                                \/ i \in unasked /\ buyer[i] < happening.start

\* capacity_total is "derived from the pools themselves in save_related()"
\* (events/admin.py:777): outside a save it is what the pools hold together.
CapacityFollowsPools ==
    (~crossed /\ \A w \in Clerk : form[w] = NoForm) => happening.capacity = CapacityOf(pools)
=============================================================================
