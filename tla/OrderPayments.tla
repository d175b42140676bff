---------------------------- MODULE OrderPayments ----------------------------
(***************************************************************************)
(* The life of the orders of one general-admission event: reservation of   *)
(* places, checkout at a payment provider, the provider's webhooks, ticket *)
(* issuing, expiry, cancellation and full refunds.                         *)
(*                                                                         *)
(* The application runs every statement in autocommit except where it      *)
(* opens transaction.atomic(), so one action is one such statement or one  *)
(* such transaction; a request, run by a worker, is a sequence of them and *)
(* carries what it has read in its job record.  Workers interleave in any  *)
(* order and may die between two steps.                                    *)
(***************************************************************************)
EXTENDS Naturals, FiniteSets

CONSTANTS
    Order,          \* rows that may appear in the orders table
    ProviderOf,     \* payment_provider of each order: "DEMO" or "STRIPE"
    Ticket,         \* the units of all orders: an order's quantity is
    OrderOf,        \*   the number of tickets OrderOf maps to it
    Pool,           \* ticket pools of the event
    PoolCapacity,   \* capacity of each pool
    EventCapacity,  \* capacity_total of the event
    ProviderEvent,  \* identifiers the provider can give to its events
    Worker,         \* request threads (webhooks, buyers, staff)
    MaxCrashes,     \* how many workers may die
    None            \* absence of an order, pool or event

ASSUME FiniteTickets == IsFiniteSet(Ticket) /\ IsFiniteSet(Worker)
ASSUME OrderOfType == OrderOf \in [Ticket -> Order]
ASSUME ProviderType == ProviderOf \in [Order -> {"DEMO", "STRIPE"}]
ASSUME CapacityType == /\ PoolCapacity \in [Pool -> Nat]
                       /\ EventCapacity \in Nat
ASSUME CrashesType == MaxCrashes \in Nat
ASSUME NoneIsFresh == None \notin Order \cup Pool \cup ProviderEvent \cup Worker

VARIABLES
    status,             \* orders.status, "NONE" before the row exists
    pool,               \* orders.pool
    checkout_url,       \* the checkout session the order points the buyer to
    sold_count,         \* pools.sold_count
    sold_total,         \* events.sold_total
    kind,               \* what the provider will say, or has said, by an event
    about,              \* the order an event is about
    processing_status,  \* payment_events.processing_status, "NONE": no row
    batch,              \* the tickets issued while an event was handled
    job,                \* what each worker is doing and remembers
    crashes             \* workers lost so far

vars == <<status, pool, checkout_url, sold_count, sold_total, kind, about,
          processing_status, batch, job, crashes>>

orderVars == <<status, pool, checkout_url>>
capacityVars == <<sold_count, sold_total>>
providerVars == <<kind, about>>

-----------------------------------------------------------------------------

OrderStatus == {"CREATED", "PAYMENT_PENDING", "PAID", "FAILED", "EXPIRED",
                "REFUNDED", "CANCELLED"}
Unpaid == {"CREATED", "PAYMENT_PENDING"}
Live == Unpaid \cup {"PAID"}

\* "open" is a checkout session that has neither been paid nor run out.
EventKind == {"NONE", "open", "payment.succeeded", "payment.failed",
              "refund.succeeded"}
RecordStatus == {"NONE", "RECEIVED", "PROCESSED", "IGNORED"}

\* The next thing a worker does; from "handle" to "finish" it is inside
\* process_webhook with the record of its event already committed.
Handling == {"handle", "claimed", "unclaimed", "rereserve", "pay_late",
             "issue", "create_tickets", "invalidate", "processed", "ignored"}
Pc == {"idle", "reserve", "checkout", "save_session", "refund"} \cup Handling

Job == [pc: Pc, order: Order \cup {None}, event: ProviderEvent \cup {None},
        pool: Pool \cup {None}, seen: OrderStatus \cup {"NONE"}]

Idle == [pc |-> "idle", order |-> None, event |-> None, pool |-> None,
         seen |-> "NONE"]

Units(o) == {t \in Ticket : OrderOf[t] = o}
Quantity(o) == Cardinality(Units(o))

Init ==
    /\ status = [o \in Order |-> "NONE"]
    /\ pool = [o \in Order |-> None]
    /\ checkout_url = [o \in Order |-> None]
    /\ sold_count = [p \in Pool |-> 0]
    /\ sold_total = 0
    /\ kind = [e \in ProviderEvent |-> "NONE"]
    /\ about = [e \in ProviderEvent |-> None]
    /\ processing_status = [e \in ProviderEvent |-> "NONE"]
    /\ batch = [e \in ProviderEvent |-> "NONE"]
    /\ job = [w \in Worker |-> Idle]
    /\ crashes = 0

Goto(w, l) == job' = [job EXCEPT ![w].pc = l]
Done(w) == job' = [job EXCEPT ![w] = Idle]

\* Definitions marked "Slip" are mistakes the code might have made; the runs
\* are shown to notice each of them, and no behaviour uses one.

\* Slip: the pool's counter is not tested.
FitsEventOnly(o, p) == sold_total + Quantity(o) <= EventCapacity

\* The conditional UPDATEs of both counters: the pool's, then the event's.
Fits(o, p) == /\ sold_count[p] + Quantity(o) <= PoolCapacity[p]
              /\ sold_total + Quantity(o) <= EventCapacity

Reserve(o, p) ==
    /\ sold_count' = [sold_count EXCEPT ![p] = @ + Quantity(o)]
    /\ sold_total' = sold_total + Quantity(o)

\* Slip: the status is changed and nothing is given back.
ReleaseNothing(o) == UNCHANGED <<sold_count, sold_total>>

\* Slip: one place more than the order has.
ReleaseOneMore(o) ==
    /\ sold_count' = [sold_count EXCEPT ![pool[o]] = @ - Quantity(o) - 1]
    /\ sold_total' = sold_total - Quantity(o) - 1

release_capacity(o) ==
    /\ sold_count' = [sold_count EXCEPT ![pool[o]] = @ - Quantity(o)]
    /\ sold_total' = sold_total - Quantity(o)

\* A new event at the provider; nobody has delivered it yet.
Emit(e, k, o) ==
    /\ kind[e] = "NONE"
    /\ kind' = [kind EXCEPT ![e] = k]
    /\ about' = [about EXCEPT ![e] = o]

-----------------------------------------------------------------------------
(* Buying: create_order, then start_checkout.                              *)

\* create_order up to get_active_pool: some pool that is not sold out is
\* active (which one is a matter of dates and manual overrides).
ChoosePool(w, p) ==
    /\ job[w].pc = "idle"
    /\ sold_count[p] < PoolCapacity[p]
    /\ job' = [job EXCEPT ![w].pc = "reserve", ![w].pool = p]
    /\ UNCHANGED <<orderVars, capacityVars, providerVars, processing_status,
                   batch, crashes>>

\* The reserving transaction, with the pool read above.
CreateOrder(w, o) ==
    LET p == job[w].pool IN
    /\ job[w].pc = "reserve"
    /\ status[o] = "NONE"
    /\ Fits(o, p)
    /\ Reserve(o, p)
    /\ status' = [status EXCEPT ![o] = "CREATED"]
    /\ pool' = [pool EXCEPT ![o] = p]
    /\ job' = [job EXCEPT ![w].pc = "checkout", ![w].order = o]
    /\ UNCHANGED <<checkout_url, providerVars, processing_status, batch, crashes>>

\* CapacityError: the transaction is rolled back.
RefuseOrder(w, o) ==
    /\ job[w].pc = "reserve"
    /\ status[o] = "NONE"
    /\ ~Fits(o, job[w].pool)
    /\ Done(w)
    /\ UNCHANGED <<orderVars, capacityVars, providerVars, processing_status,
                   batch, crashes>>

\* The order page of an order still CREATED calls start_checkout again.
OpenOrderPage(w, o) ==
    /\ job[w].pc = "idle"
    /\ status[o] = "CREATED"
    /\ job' = [job EXCEPT ![w].pc = "checkout", ![w].order = o]
    /\ UNCHANGED <<orderVars, capacityVars, providerVars, processing_status,
                   batch, crashes>>

StartDemoCheckout(w) ==
    LET o == job[w].order IN
    /\ job[w].pc = "checkout"
    /\ ProviderOf[o] = "DEMO"
    /\ status' = IF status[o] = "CREATED"
                 THEN [status EXCEPT ![o] = "PAYMENT_PENDING"] ELSE status
    /\ Done(w)
    /\ UNCHANGED <<pool, checkout_url, capacityVars, providerVars,
                   processing_status, batch, crashes>>

\* stripe.checkout.Session.create: from now on the session exists at Stripe.
CreateSession(w, e) ==
    LET o == job[w].order IN
    /\ job[w].pc = "checkout"
    /\ ProviderOf[o] = "STRIPE"
    /\ Emit(e, "open", o)
    /\ job' = [job EXCEPT ![w].pc = "save_session", ![w].event = e]
    /\ UNCHANGED <<orderVars, capacityVars, processing_status, batch, crashes>>

\* Only the first of two sessions is stored, and only its URL is shown.
SaveSession(w) ==
    LET o == job[w].order IN
    /\ job[w].pc = "save_session"
    /\ IF status[o] = "CREATED"
       THEN /\ status' = [status EXCEPT ![o] = "PAYMENT_PENDING"]
            /\ checkout_url' = [checkout_url EXCEPT ![o] = job[w].event]
       ELSE UNCHANGED <<status, checkout_url>>
    /\ Done(w)
    /\ UNCHANGED <<pool, capacityVars, providerVars, processing_status, batch,
                   crashes>>

-----------------------------------------------------------------------------
(* The providers.  Events they emit are delivered by ReceiveWebhook, in    *)
(* any order and any number of times.                                      *)

\* demo_pay, demo_pay_delayed and demo_decline, each click a new event.
DemoPayment(o, e, k) ==
    /\ ProviderOf[o] = "DEMO"
    /\ status[o] = "PAYMENT_PENDING"
    /\ k \in {"payment.succeeded", "payment.failed"}
    /\ Emit(e, k, o)
    /\ UNCHANGED <<orderVars, capacityVars, processing_status, batch, job, crashes>>

\* The buyer pays at the session page, whatever became of the order.
SessionPaid(e) ==
    /\ kind[e] = "open"
    /\ checkout_url[about[e]] = e
    /\ kind' = [kind EXCEPT ![e] = "payment.succeeded"]
    /\ UNCHANGED <<orderVars, capacityVars, about, processing_status, batch, job,
                   crashes>>

SessionExpired(e) ==
    /\ kind[e] = "open"
    /\ kind' = [kind EXCEPT ![e] = "payment.failed"]
    /\ UNCHANGED <<orderVars, capacityVars, about, processing_status, batch, job,
                   crashes>>

\* refund_order reads the status, then calls the provider.
RequestRefund(w, o) ==
    /\ job[w].pc = "idle"
    /\ status[o] = "PAID"
    /\ job' = [job EXCEPT ![w].pc = "refund", ![w].order = o]
    /\ UNCHANGED <<orderVars, capacityVars, providerVars, processing_status,
                   batch, crashes>>

ChargeRefunded(o) ==
    \E e \in ProviderEvent : about[e] = o /\ kind[e] = "refund.succeeded"

ProviderRefund(w, e) ==
    LET o == job[w].order IN
    /\ job[w].pc = "refund"
    /\ ProviderOf[o] = "STRIPE" => ~ChargeRefunded(o)
    /\ Emit(e, "refund.succeeded", o)
    /\ Done(w)
    /\ UNCHANGED <<orderVars, capacityVars, processing_status, batch, crashes>>

\* Stripe refuses to refund a charge twice: the request ends in an error.
RefundRefused(w) ==
    /\ job[w].pc = "refund"
    /\ ProviderOf[job[w].order] = "STRIPE"
    /\ ChargeRefunded(job[w].order)
    /\ Done(w)
    /\ UNCHANGED <<orderVars, capacityVars, providerVars, processing_status,
                   batch, crashes>>

-----------------------------------------------------------------------------
(* process_webhook and its three handlers.                                 *)

\* Slip: the webhook is handled whether or not it is on record.
ReceiveAnyWebhook(w, e) ==
    /\ job[w].pc = "idle"
    /\ kind[e] \notin {"NONE", "open"}
    /\ processing_status' = [processing_status EXCEPT ![e] = "RECEIVED"]
    /\ job' = [job EXCEPT ![w].pc = "handle", ![w].event = e, ![w].order = about[e]]
    /\ UNCHANGED <<orderVars, capacityVars, providerVars, batch, crashes>>

\* The record is committed before anything is done; a second delivery finds
\* it there and does nothing.
ReceiveWebhook(w, e) ==
    /\ job[w].pc = "idle"
    /\ kind[e] \notin {"NONE", "open"}
    /\ IF processing_status[e] = "NONE"
       THEN /\ processing_status' = [processing_status EXCEPT ![e] = "RECEIVED"]
            /\ job' = [job EXCEPT ![w].pc = "handle", ![w].event = e,
                                  ![w].order = about[e]]
       ELSE UNCHANGED <<processing_status, job>>
    /\ UNCHANGED <<orderVars, capacityVars, providerVars, batch, crashes>>

\* Slip: an order already at checkout is not claimed.
ClaimCreatedOnly(w) ==
    LET o == job[w].order IN
    /\ job[w].pc = "handle"
    /\ kind[job[w].event] = "payment.succeeded"
    /\ IF status[o] = "CREATED"
       THEN /\ status' = [status EXCEPT ![o] = "PAID"]
            /\ Goto(w, "claimed")
       ELSE /\ UNCHANGED status
            /\ Goto(w, "unclaimed")
    /\ UNCHANGED <<pool, checkout_url, capacityVars, providerVars,
                   processing_status, batch, crashes>>

\* mark_order_paid: CREATED/PAYMENT_PENDING -> PAID.
ClaimPaid(w) ==
    LET o == job[w].order IN
    /\ job[w].pc = "handle"
    /\ kind[job[w].event] = "payment.succeeded"
    /\ IF status[o] \in Unpaid
       THEN /\ status' = [status EXCEPT ![o] = "PAID"]
            /\ Goto(w, "claimed")
       ELSE /\ UNCHANGED status
            /\ Goto(w, "unclaimed")
    /\ UNCHANGED <<pool, checkout_url, capacityVars, providerVars,
                   processing_status, batch, crashes>>

\* refresh_from_db of a claimed order, before the tickets are issued.
RefreshClaimed(w) ==
    /\ job[w].pc = "claimed"
    /\ job' = [job EXCEPT ![w].pc = "issue", ![w].seen = status[job[w].order]]
    /\ UNCHANGED <<orderVars, capacityVars, providerVars, processing_status,
                   batch, crashes>>

\* Slip: nothing to do, so the record is left as it is.
ReturnUnclaimed(w) ==
    /\ job[w].pc = "unclaimed"
    /\ IF status[job[w].order] = "EXPIRED" THEN Goto(w, "rereserve") ELSE Done(w)
    /\ UNCHANGED <<orderVars, capacityVars, providerVars, processing_status,
                   batch, crashes>>

\* refresh_from_db of an order that was not waiting for payment.
RefreshUnclaimed(w) ==
    /\ job[w].pc = "unclaimed"
    /\ Goto(w, IF status[job[w].order] = "EXPIRED" THEN "rereserve" ELSE "ignored")
    /\ UNCHANGED <<orderVars, capacityVars, providerVars, processing_status,
                   batch, crashes>>

\* Slip: a late payment is accepted without taking the places back.
RereserveNothing(w) ==
    /\ job[w].pc = "rereserve"
    /\ Goto(w, "pay_late")
    /\ UNCHANGED <<orderVars, capacityVars, providerVars, processing_status,
                   batch, crashes>>

\* _try_rereserve, a transaction of its own.
Rereserve(w) ==
    LET o == job[w].order IN
    /\ job[w].pc = "rereserve"
    /\ IF Fits(o, pool[o])
       THEN Reserve(o, pool[o]) /\ Goto(w, "pay_late")
       ELSE UNCHANGED capacityVars /\ Goto(w, "ignored")
    /\ UNCHANGED <<orderVars, providerVars, processing_status, batch, crashes>>

\* Slip: the late path ends without issuing tickets.
PayLateOnly(w) ==
    LET o == job[w].order IN
    /\ job[w].pc = "pay_late"
    /\ status' = IF status[o] = "EXPIRED" THEN [status EXCEPT ![o] = "PAID"]
                                          ELSE status
    /\ Goto(w, "processed")
    /\ UNCHANGED <<pool, checkout_url, capacityVars, providerVars,
                   processing_status, batch, crashes>>

\* EXPIRED -> PAID in autocommit; its row count is not looked at.
PayLate(w) ==
    LET o == job[w].order IN
    /\ job[w].pc = "pay_late"
    /\ status' = IF status[o] = "EXPIRED" THEN [status EXCEPT ![o] = "PAID"]
                                          ELSE status
    /\ Goto(w, "claimed")
    /\ UNCHANGED <<pool, checkout_url, capacityVars, providerVars,
                   processing_status, batch, crashes>>

HasTickets(o) == \E e \in ProviderEvent : about[e] = o /\ batch[e] # "NONE"

\* issue_tickets_for_order: the status is the one in memory, the check for
\* existing tickets takes no lock.
CheckTickets(w) ==
    /\ job[w].pc = "issue"
    /\ Goto(w, IF job[w].seen = "PAID" /\ ~HasTickets(job[w].order)
               THEN "create_tickets" ELSE "processed")
    /\ UNCHANGED <<orderVars, capacityVars, providerVars, processing_status,
                   batch, crashes>>

CreateTickets(w) ==
    /\ job[w].pc = "create_tickets"
    /\ batch' = [batch EXCEPT ![job[w].event] = "ISSUED"]
    /\ Goto(w, "processed")
    /\ UNCHANGED <<orderVars, capacityVars, providerVars, processing_status,
                   crashes>>

\* mark_order_failed: one transaction.
FailPayment(w) ==
    LET o == job[w].order IN
    /\ job[w].pc = "handle"
    /\ kind[job[w].event] = "payment.failed"
    /\ IF status[o] \in Unpaid
       THEN /\ status' = [status EXCEPT ![o] = "FAILED"]
            /\ release_capacity(o)
            /\ Goto(w, "processed")
       ELSE /\ UNCHANGED <<status, capacityVars>>
            /\ Goto(w, "ignored")
    /\ UNCHANGED <<pool, checkout_url, providerVars, processing_status, batch,
                   crashes>>

\* mark_order_refunded: the transaction, then the tickets outside it.
RefundOrder(w) ==
    LET o == job[w].order IN
    /\ job[w].pc = "handle"
    /\ kind[job[w].event] = "refund.succeeded"
    /\ IF status[o] = "PAID"
       THEN /\ status' = [status EXCEPT ![o] = "REFUNDED"]
            /\ release_capacity(o)
            /\ Goto(w, "invalidate")
       ELSE /\ UNCHANGED <<status, capacityVars>>
            /\ Goto(w, "ignored")
    /\ UNCHANGED <<pool, checkout_url, providerVars, processing_status, batch,
                   crashes>>

InvalidateTickets(w) ==
    /\ job[w].pc = "invalidate"
    /\ batch' = [e \in ProviderEvent |->
                   IF about[e] = job[w].order /\ batch[e] = "ISSUED"
                   THEN "REFUNDED" ELSE batch[e]]
    /\ Goto(w, "processed")
    /\ UNCHANGED <<orderVars, capacityVars, providerVars, processing_status,
                   crashes>>

\* _finish
Finish(w) ==
    /\ job[w].pc \in {"processed", "ignored"}
    /\ processing_status' = [processing_status EXCEPT ![job[w].event] =
           IF job[w].pc = "processed" THEN "PROCESSED" ELSE "IGNORED"]
    /\ Done(w)
    /\ UNCHANGED <<orderVars, capacityVars, providerVars, batch, crashes>>

-----------------------------------------------------------------------------
(* Orders given up, and workers lost.                                      *)

\* Slip: the order is given up without claiming its status.
GiveUpUnclaimed(o, s) ==
    /\ status[o] \in Live
    /\ status' = [status EXCEPT ![o] = s]
    /\ release_capacity(o)
    /\ UNCHANGED <<pool, checkout_url, providerVars, processing_status, batch,
                   job, crashes>>

\* expire_order (cron, once the deadline has passed) and cancel_unpaid_order
\* (the buyer, or staff cancelling the event): one transaction each.
GiveUp(o, s) ==
    /\ status[o] \in Unpaid
    /\ status' = [status EXCEPT ![o] = s]
    /\ release_capacity(o)
    /\ UNCHANGED <<pool, checkout_url, providerVars, processing_status, batch,
                   job, crashes>>

\* Slip: the cron job overlooks orders already at checkout.
ExpireCreatedOnly(o) == status[o] = "CREATED" /\ GiveUp(o, "EXPIRED")

ExpireOrder(o) == GiveUp(o, "EXPIRED")
CancelUnpaid(o) == GiveUp(o, "CANCELLED")

\* The process dies, or an exception ends the request, between two commits.
Crash(w) ==
    /\ job[w].pc # "idle"
    /\ crashes < MaxCrashes
    /\ crashes' = crashes + 1
    /\ Done(w)
    /\ UNCHANGED <<orderVars, capacityVars, providerVars, processing_status, batch>>

-----------------------------------------------------------------------------

Buy(w) ==
    \/ \E p \in Pool : ChoosePool(w, p)
    \/ \E o \in Order : CreateOrder(w, o) \/ RefuseOrder(w, o) \/ OpenOrderPage(w, o)
    \/ StartDemoCheckout(w)
    \/ \E e \in ProviderEvent : CreateSession(w, e)
    \/ SaveSession(w)

Refund(w) ==
    \/ \E o \in Order : RequestRefund(w, o)
    \/ \E e \in ProviderEvent : ProviderRefund(w, e)
    \/ RefundRefused(w)

\* The rest of process_webhook once the record is committed.
Handle(w) ==
    \/ ClaimPaid(w) \/ RefreshClaimed(w) \/ RefreshUnclaimed(w)
    \/ Rereserve(w) \/ PayLate(w) \/ CheckTickets(w) \/ CreateTickets(w)
    \/ FailPayment(w) \/ RefundOrder(w) \/ InvalidateTickets(w) \/ Finish(w)

Provider ==
    \/ \E o \in Order, e \in ProviderEvent :
          \E k \in {"payment.succeeded", "payment.failed"} : DemoPayment(o, e, k)
    \/ \E e \in ProviderEvent : SessionPaid(e) \/ SessionExpired(e)

Next ==
    \/ \E w \in Worker : \/ Buy(w) \/ Refund(w) \/ Handle(w) \/ Crash(w)
                         \/ \E e \in ProviderEvent : ReceiveWebhook(w, e)
    \/ \E o \in Order : ExpireOrder(o) \/ CancelUnpaid(o)
    \/ Provider

Spec == Init /\ [][Next]_vars

\* Request threads run on and the cron loop visits every overdue order;
\* nobody has to buy, pay, cancel or refund.
Fairness == /\ \A w \in Worker : WF_vars(Handle(w))
            /\ \A o \in Order : WF_vars(ExpireOrder(o))

FairSpec == Spec /\ Fairness

-----------------------------------------------------------------------------
(* Properties.                                                             *)

\* Every variable keeps its type, and a worker in the middle of a request
\* knows the order, event or pool that the request is about.
TypeOK ==
    /\ status \in [Order -> OrderStatus \cup {"NONE"}]
    /\ pool \in [Order -> Pool \cup {None}]
    /\ checkout_url \in [Order -> ProviderEvent \cup {None}]
    /\ sold_count \in [Pool -> Nat]
    /\ sold_total \in Nat
    /\ kind \in [ProviderEvent -> EventKind]
    /\ about \in [ProviderEvent -> Order \cup {None}]
    /\ processing_status \in [ProviderEvent -> RecordStatus]
    /\ batch \in [ProviderEvent -> {"NONE", "ISSUED", "REFUNDED"}]
    /\ job \in [Worker -> Job]
    /\ crashes \in 0..MaxCrashes

\* A claim on places: by a live order, or by a worker that has taken the
\* places of a late-paid order back and has not yet written the order.
Claimed(t, x) == \/ x = None /\ status[OrderOf[t]] \in Live
                 \/ x \in Worker /\ job[x].pc = "pay_late" /\ job[x].order = OrderOf[t]

Claims == {c \in Ticket \X (Worker \cup {None}) : Claimed(c[1], c[2])}
ClaimsIn(p) == {c \in Claims : pool[OrderOf[c[1]]] = p}

\* No interleaving of buyers, webhooks, cron and crashes sells a place twice:
\* the counters that create_order and _try_rereserve test (services.py) never
\* fall below the places really claimed, nor rise above the capacity, so a
\* release can neither come twice nor drive a counter below zero.
NoOversell ==
    /\ \A p \in Pool : /\ Cardinality(ClaimsIn(p)) <= sold_count[p]
                       /\ sold_count[p] <= PoolCapacity[p]
    /\ Cardinality(Claims) <= sold_total
    /\ sold_total <= EventCapacity

Payments(o) == {e \in ProviderEvent : about[e] = o /\ kind[e] = "payment.succeeded"}

\* The table of allowed transitions of an order (models.py).
ORDER_TRANSITIONS ==
    [CREATED |-> {"PAYMENT_PENDING", "EXPIRED", "CANCELLED"},
     PAYMENT_PENDING |-> {"PAID", "FAILED", "EXPIRED", "CANCELLED"},
     PAID |-> {"REFUNDED"},
     FAILED |-> {"PAYMENT_PENDING"},
     EXPIRED |-> {"PAID"},
     REFUNDED |-> {},
     CANCELLED |-> {}]

\* The conditional UPDATEs never consult that table, and mark_order_paid even
\* accepts an order still CREATED; yet whatever races, no order leaves the
\* table, except that a session which runs out before it was stored fails an
\* order still CREATED.
TransitionsFollowTable ==
    [][\A o \in Order : status'[o] # status[o] =>
           \/ <<status[o], status'[o]>> \in {<<"NONE", "CREATED">>, <<"CREATED", "FAILED">>}
           \/ status[o] # "NONE" /\ status'[o] \in ORDER_TRANSITIONS[status[o]]]_status

\* As long as no worker died and the provider confirmed no order's payment
\* twice, no place is lost either: the counters are exactly the claims.
NoLostPlaces ==
    (crashes = 0 /\ \A o \in Order : \A d, e \in Payments(o) : d = e) =>
        /\ \A p \in Pool : Cardinality(ClaimsIn(p)) = sold_count[p]
        /\ Cardinality(Claims) = sold_total

Handles(w, e) == job[w].pc \in Handling /\ job[w].event = e

\* The record is what makes webhooks idempotent: an event delivered many
\* times, to many workers, is handled by one of them, and while it is handled
\* its record says RECEIVED.
HandledOnce ==
    \A w \in Worker, e \in ProviderEvent : Handles(w, e) =>
        /\ processing_status[e] = "RECEIVED"
        /\ \A v \in Worker \ {w} : ~Handles(v, e)

\* Tickets exist only for an order that was paid (and maybe refunded since),
\* although issue_tickets_for_order looks at a status read earlier.
TicketsOnlyForPaid ==
    \A o \in Order : HasTickets(o) => status[o] \in {"PAID", "REFUNDED"}

\* Without crashes a paid order has its tickets as soon as nobody handles one
\* of its payments: no path through mark_order_paid forgets to issue them.
PaidHasTickets ==
    crashes = 0 =>
        \A o \in Order :
            \/ status[o] # "PAID"
            \/ HasTickets(o)
            \/ \E w \in Worker, e \in Payments(o) : Handles(w, e)

\* Money is ignored only for a reason: an IGNORED payment belongs to an order
\* that no longer waits for payment, and if that order is paid or refunded,
\* another payment of it was accepted.
IgnoredForAReason ==
    \A e \in ProviderEvent :
        (kind[e] = "payment.succeeded" /\ processing_status[e] = "IGNORED") =>
            /\ status[about[e]] \notin Unpaid
            /\ status[about[e]] \in {"PAID", "REFUNDED"} =>
                  \E d \in Payments(about[e]) \ {e} :
                      processing_status[d] \in {"RECEIVED", "PROCESSED"}

\* The counters and statuses implement the inventory of TicketInventory: an
\* order holds its places exactly while it is live.
Inventory == INSTANCE TicketInventory WITH
    holding <- [o \in Order |-> IF status[o] \in Live THEN pool[o] ELSE None]
ImplementsInventory == Inventory!Spec

\* Under the crash-free scheduler, an event once recorded is dealt with.
RecordedIsFinished ==
    \A e \in ProviderEvent :
        processing_status[e] = "RECEIVED" ~>
            processing_status[e] \in {"PROCESSED", "IGNORED"}

\* An order does not wait for its payment for ever, and a paid one gets its
\* tickets unless it is refunded.
OrdersSettle ==
    \A o \in Order :
        /\ status[o] \in Unpaid ~> status[o] \notin Unpaid
        /\ status[o] = "PAID" ~> HasTickets(o) \/ status[o] = "REFUNDED"

-----------------------------------------------------------------------------
(* What the repository says and the code does not guarantee.               *)

\* "A duplicate insert means the event was already handled" (payments.py):
\* a record still RECEIVED would at least have a worker handling it.
DuplicateMeansHandled ==
    \A e \in ProviderEvent :
        processing_status[e] = "RECEIVED" => \E w \in Worker : Handles(w, e)

\* "issue tickets only once" (TICKETING_SPEC 13.1).
TicketsIssuedOnce ==
    \A o \in Order : Cardinality({e \in ProviderEvent :
                                    about[e] = o /\ batch[e] # "NONE"}) <= 1

\* "Refunded tickets become invalid" (TICKETING_SPEC 14.1): once the refund
\* of an order has been processed, none of its tickets is ISSUED.
RefundedTicketsInvalid ==
    \A e \in ProviderEvent :
        (kind[e] = "refund.succeeded" /\ processing_status[e] = "PROCESSED") =>
            \A d \in ProviderEvent : about[d] = about[e] => batch[d] # "ISSUED"
=============================================================================
