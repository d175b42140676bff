------------------------- MODULE EventCancellation -------------------------
(***************************************************************************)
(* An event is cancelled, with or without a new date.  Staff give up the   *)
(* unpaid orders and tell the buyers of the paid ones; a buyer keeps the   *)
(* tickets for the new date or takes the money; who has not decided by the *)
(* deadline is refunded by the cron job; staff may refund before that, and *)
(* at any time on the order's own page, which knows nothing of decisions.  *)
(*                                                                         *)
(* Every step of a job is one autocommitted statement, one transaction or  *)
(* one call of the operator.  When `concurrent' is TRUE jobs interleave,   *)
(* otherwise one runs at a time and may die between two steps.             *)
(***************************************************************************)
EXTENDS Integers, FiniteSets, FiniteSetsExt

CONSTANTS
    Buyer,              \* the orders of the event, one per buyer
    Early,              \* those whose order exists already
    Quantity,           \* tickets of each order
    BuyerProvider,      \* "DEMO" or "STRIPE"
    Staff,              \* request threads: staff, buyers, cron, webhooks
    Places,             \* capacity of the "old" and of the "new" date
    MaxLost,            \* jobs that may die
    Nobody              \* no order

ASSUME QuantityAssumption == Quantity \in [Buyer -> Nat \ {0}]
ASSUME BuyersAssumption == IsFiniteSet(Buyer) /\ Early \in SUBSET Buyer /\ MaxLost \in Nat

VARIABLES
    concurrent,         \* may jobs interleave?
    event_status, replacement, deadline_passed,
    status,             \* orders.status
    decision,           \* orders.cancellation_status
    at,                 \* orders.event (and pool)
    valid,              \* the number of ISSUED tickets of an order
    kept,               \* order.quantity - order.refunded_quantity
    sold,               \* the counters of the two dates
    asked,              \* tickets of an order in a refund that is REQUESTED
    returned,           \* orders whose money the operator has returned, all of it
    webhooks, parts,    \* refunds of orders, of tickets, Stripe has not reported yet
    told, listed, late, used, by_hand,
        \* history: buyers e-mailed; whether the paid orders have been listed;
        \* orders made after the event was cancelled, or paid after they had
        \* expired and the list was made; orders with a ticket used at the
        \* gate; orders whose (last) money was returned on the order's page
    task, lost

cancelVars == <<concurrent, event_status, replacement, deadline_passed,
                status, decision, at, valid, kept, sold, asked, returned, webhooks, parts,
                told, listed, late, used, by_hand, task, lost>>
eventVars == <<event_status, replacement, deadline_passed>>
ticketVars == <<status, at, valid, kept, sold>>
moneyVars == <<asked, returned, webhooks, parts, by_hand>>
history == <<told, listed, late, used>>

Decisions == {"NONE", "AWAITING", "MOVED", "REFUND_REQUESTED", "REFUND_FAILED"}
BuyerStatus == {"NONE", "PENDING", "PAID", "EXPIRED", "CANCELLED", "REFUNDED"}
Steps == {"idle", "buy", "sweep", "notify", "next", "refund", "operator", "handle",
          "claim", "tickets", "requested", "failed", "move"}

\* kind: what the job does after one order ("page": it is the order's page);
\* todo: the orders it listed; open: those it found undecided; seen, held: the
\* order's date and places as it remembers them; n: the tickets it moves or
\* gives back one by one, 0 when it is the whole order.
Kinds == {"one", "cancel", "deadline", "webhook", "page"}
Task == [pc : Steps, kind : Kinds,
         order : Buyer \cup {Nobody}, todo : SUBSET Buyer, open : SUBSET Buyer,
         seen : {"old", "new"}, held : Int, n : Nat]
NoTask == [pc |-> "idle", kind |-> "one", order |-> Nobody, todo |-> {}, open |-> {},
           seen |-> "old", held |-> 0, n |-> 0]

CancellationInit ==
    /\ concurrent \in BOOLEAN
    /\ event_status = "PUBLISHED" /\ replacement = FALSE
    /\ deadline_passed = FALSE
    /\ status = [o \in Buyer |-> IF o \in Early THEN "PENDING" ELSE "NONE"]
    /\ decision = [o \in Buyer |-> "NONE"]
    /\ at = [o \in Buyer |-> "old"]
    /\ valid = [o \in Buyer |-> 0]
    /\ kept = Quantity /\ asked = [o \in Buyer |-> 0]
    /\ sold = [old |-> MapThenSumSet(LAMBDA o : Quantity[o], Early), new |-> 0]
    /\ returned = {} /\ webhooks = {} /\ parts = {} /\ by_hand = {}
    /\ told = {} /\ listed = FALSE /\ late = {} /\ used = {}
    /\ task = [w \in Staff |-> NoTask]
    /\ lost = 0

StepTo(w, l) == task' = [task EXCEPT ![w].pc = l]
End(w) == task' = [task EXCEPT ![w] = NoTask]
Starts(w) == /\ task[w].pc = "idle"
             /\ concurrent \/ \A v \in Staff : task[v].pc = "idle"
Undecided(orders) == {x \in Buyer \cap orders : decision[x] # "MOVED"}
Begin(w, l, k, o, todo) ==
    /\ Starts(w)
    /\ task' = [task EXCEPT ![w] = [NoTask EXCEPT !.pc = l, !.kind = k, !.order = o,
           !.todo = todo, !.open = Undecided(todo \cup {o})]]

Holding(o) == status[o] \in {"PENDING", "PAID"}
Release(o, date) == sold' = [sold EXCEPT ![date] = @ - Quantity[o]]
Room(date, n) == sold[date] + n <= Places[date]

-----------------------------------------------------------------------------
(* Buying goes on until it notices: create_order trusts the event it loaded. *)

LoadEvent(w, o) ==
    /\ event_status = "PUBLISHED" /\ status[o] = "NONE"
    /\ Begin(w, "buy", "one", o, {})
    /\ UNCHANGED <<concurrent, eventVars, ticketVars, decision, moneyVars, history, lost>>

create_order(w) ==
    LET o == task[w].order IN
    /\ task[w].pc = "buy"
    /\ IF status[o] = "NONE" /\ Room("old", Quantity[o])
       THEN /\ status' = [status EXCEPT ![o] = "PENDING"]
            /\ sold' = [sold EXCEPT !["old"] = @ + Quantity[o]]
            /\ late' = IF event_status = "CANCELLED" THEN late \cup {o} ELSE late
       ELSE UNCHANGED <<status, sold, late>>
    /\ End(w)
    /\ UNCHANGED <<concurrent, eventVars, at, valid, kept, decision, moneyVars, told, listed, used,
                   lost>>

\* A payment, in time or late: mark_order_paid and the tickets it issues.
PayOrder(o) ==
    /\ \/ status[o] = "PENDING" /\ UNCHANGED sold
       \/ /\ status[o] = "EXPIRED" /\ Room("old", Quantity[o])
          /\ sold' = [sold EXCEPT !["old"] = @ + Quantity[o]]
    /\ status' = [status EXCEPT ![o] = "PAID"]
    /\ valid' = [valid EXCEPT ![o] = Quantity[o]]
    /\ late' = IF listed /\ status[o] = "EXPIRED" THEN late \cup {o} ELSE late
    /\ UNCHANGED <<concurrent, eventVars, at, kept, decision, moneyVars, told, listed, used, task,
                   lost>>

expire_order(o) ==
    /\ status[o] = "PENDING"
    /\ status' = [status EXCEPT ![o] = "EXPIRED"]
    /\ Release(o, "old")
    /\ UNCHANGED <<concurrent, eventVars, at, valid, kept, decision, moneyVars, history, task,
                   lost>>

\* The gate of the old date uses one ticket of an order (bounds: none while the
\* refund of some is being confirmed, or jobs interleave; TicketRefunds has both).
UseTicket(o) ==
    /\ event_status = "PUBLISHED"
    /\ valid[o] = Quantity[o] /\ valid[o] > 1 /\ asked[o] = 0 /\ ~concurrent
    /\ valid' = [valid EXCEPT ![o] = @ - 1]
    /\ used' = used \cup {o}
    /\ UNCHANGED <<concurrent, eventVars, status, at, kept, sold, decision, moneyVars, told, listed,
                   late, task, lost>>

-----------------------------------------------------------------------------
(* cancel_event_for_buyers.                                                *)

\* Without a new date, and outside a transaction (cancel_events_with_refunds):
\* the event is cancelled and the unpaid orders are listed.
CancelEvent(w) ==
    /\ event_status = "PUBLISHED"
    /\ event_status' = "CANCELLED"
    /\ Begin(w, "sweep", "cancel", Nobody, {o \in Buyer : status[o] = "PENDING"})
    /\ UNCHANGED <<concurrent, replacement, deadline_passed, ticketVars, decision, moneyVars,
                   history, lost>>

\* Only cancel_view offers a new date, and it is one transaction: unpaid orders
\* are given up, the buyers of the paid ones asked.  It holds the event's row,
\* so orders being made and released wait for it.
cancel_view ==
    LET unpaid == {o \in Buyer : status[o] = "PENDING" /\ at[o] = "old"}
        paid == {o \in Buyer : status[o] = "PAID" /\ at[o] = "old"}
    IN
    /\ event_status = "PUBLISHED" /\ event_status' = "CANCELLED"
    /\ replacement' = TRUE
    /\ concurrent \/ \A w \in Staff : task[w].pc = "idle"
    /\ status' = [o \in Buyer |-> IF o \in unpaid THEN "CANCELLED" ELSE status[o]]
    /\ sold' = [sold EXCEPT !["old"] = @ - MapThenSumSet(LAMBDA o : Quantity[o], unpaid)]
    /\ decision' = [o \in Buyer |-> IF o \in paid THEN "AWAITING" ELSE decision[o]]
    /\ told' = told \cup paid
    /\ listed' = TRUE
    /\ UNCHANGED <<concurrent, deadline_passed, at, valid, kept, moneyVars, late, used, task, lost>>

\* cancel_unpaid_order of one of them, unless it was paid or given up since.
Sweep(w, o) ==
    /\ task[w].pc = "sweep" /\ o \in task[w].todo
    /\ IF status[o] = "PENDING"
       THEN status' = [status EXCEPT ![o] = "CANCELLED"] /\ Release(o, "old")
       ELSE UNCHANGED <<status, sold>>
    /\ task' = [task EXCEPT ![w].todo = @ \ {o}]
    /\ UNCHANGED <<concurrent, eventVars, at, valid, kept, decision, moneyVars, history, lost>>

\* Slip: the paid orders are listed before the unpaid ones are given up.
ListPaidEarly(w) ==
    LET paid == {o \in Buyer : status[o] = "PAID" /\ at[o] = "old"} IN
    /\ task[w].pc = "sweep"
    /\ listed' = TRUE
    /\ task' = [task EXCEPT ![w].pc = "notify", ![w].todo = paid, ![w].open = Undecided(paid)]
    /\ UNCHANGED <<concurrent, eventVars, ticketVars, decision, moneyVars, told, late, used, lost>>

\* The paid orders of the event, listed once.
ListPaid(w) ==
    LET paid == {o \in Buyer : status[o] = "PAID" /\ at[o] = "old"} IN
    /\ task[w].pc = "sweep" /\ task[w].todo = {}
    /\ listed' = TRUE
    /\ task' = [task EXCEPT ![w].pc = "notify", ![w].todo = paid, ![w].open = Undecided(paid)]
    /\ UNCHANGED <<concurrent, eventVars, ticketVars, decision, moneyVars, told, late, used, lost>>

\* One of them is told, then refunded.
Notify(w, o) ==
    /\ task[w].pc = "notify" /\ o \in task[w].todo
    /\ told' = told \cup {o}
    /\ task' = [task EXCEPT ![w].todo = @ \ {o}, ![w].order = o, ![w].pc = "refund"]
    /\ UNCHANGED <<concurrent, eventVars, ticketVars, decision, moneyVars, listed, late, used,
                   lost>>

AllNotified(w) ==
    /\ task[w].pc = "notify" /\ task[w].todo = {}
    /\ End(w)
    /\ UNCHANGED <<concurrent, eventVars, ticketVars, decision, moneyVars, history, lost>>

-----------------------------------------------------------------------------
(* request_refund, with refund_order, the operator and mark_order_refunded. *)

\* The order's page and the webhook end where a job of the cancellation goes on.
AnswerTo(w, l) == IF task[w].kind \in {"page", "webhook"} THEN End(w) ELSE StepTo(w, l)

CheckPaid(w) ==
    /\ task[w].pc = "refund"
    /\ IF status[task[w].order] = "PAID" THEN StepTo(w, "operator") ELSE AnswerTo(w, "failed")
    /\ UNCHANGED <<concurrent, eventVars, ticketVars, decision, moneyVars, history, lost>>

\* The operator returns the (last) money of an order.
Returns(w, o) ==
    /\ returned' = returned \cup {o}
    /\ by_hand' = IF task[w].kind = "page" THEN by_hand \cup {o} ELSE by_hand

\* The demo operator reports at once, Stripe later and only once.
CallOperator(w) ==
    LET o == task[w].order
        demo == BuyerProvider[o] = "DEMO"
    IN
    /\ task[w].pc = "operator"
    /\ demo \/ o \notin returned
    /\ Returns(w, o)
    /\ webhooks' = IF demo THEN webhooks ELSE webhooks \cup {o}
    /\ IF demo THEN StepTo(w, "handle") ELSE AnswerTo(w, "requested")
    /\ UNCHANGED <<concurrent, eventVars, ticketVars, decision, asked, parts, history, lost>>

\* Stripe refuses: the charge is refunded already, or for reasons of its own.
OperatorRefuses(w) ==
    /\ task[w].pc = "operator"
    /\ BuyerProvider[task[w].order] = "STRIPE"
    /\ AnswerTo(w, "failed")
    /\ UNCHANGED <<concurrent, eventVars, ticketVars, decision, moneyVars, history, lost>>

ReceiveRefund(w, o) ==
    /\ o \in webhooks
    /\ webhooks' = webhooks \ {o}
    /\ Begin(w, "handle", "webhook", o, {})
    /\ UNCHANGED <<concurrent, eventVars, ticketVars, decision, asked, returned, parts, by_hand,
                   history, lost>>

\* process_webhook loads the order, and mark_order_refunded refreshes it, so it
\* remembers the order's date and places ...
Refresh(w) ==
    /\ task[w].pc = "handle"
    /\ task' = [task EXCEPT ![w].pc = "claim", ![w].seen = at[task[w].order],
                            ![w].held = kept[task[w].order]]
    /\ UNCHANGED <<concurrent, eventVars, ticketVars, decision, moneyVars, history, lost>>

\* ... claims it, releases the places at that date and closes the requests for
\* single tickets ...
Claim(w) ==
    LET o == task[w].order IN
    /\ task[w].pc = "claim" /\ task[w].n = 0
    /\ IF status[o] = "PAID"
       THEN /\ status' = [status EXCEPT ![o] = "REFUNDED"]
            /\ sold' = [sold EXCEPT ![task[w].seen] = @ - task[w].held]
            /\ kept' = [kept EXCEPT ![o] = 0]
            /\ asked' = [asked EXCEPT ![o] = 0]
            /\ StepTo(w, "tickets")
       ELSE UNCHANGED <<status, sold, kept, asked>> /\ AnswerTo(w, "requested")
    /\ UNCHANGED <<concurrent, eventVars, at, valid, decision, returned, webhooks, parts, by_hand,
                   history, lost>>

\* ... and takes the tickets that are still valid.
Invalidate(w) ==
    /\ task[w].pc = "tickets"
    /\ valid' = [valid EXCEPT ![task[w].order] = 0]
    /\ AnswerTo(w, "requested")
    /\ UNCHANGED <<concurrent, eventVars, status, at, kept, sold, decision, moneyVars, history,
                   lost>>

-----------------------------------------------------------------------------
(* The order's page: staff refund an order or some of its tickets whenever  *)
(* it is paid, and whatever its buyer has been asked.                       *)

\* refund_view and refund_selected_orders: refund_order checks the rest.  (Bound:
\* one page at a time, until the money of one order has been returned there.)
refund_view(w, o) ==
    /\ status[o] = "PAID"
    /\ by_hand = {} /\ \A v \in Staff : task[v].kind # "page"
    /\ Begin(w, "refund", "page", o, {})
    /\ UNCHANGED <<concurrent, eventVars, ticketVars, decision, moneyVars, history, lost>>

\* partial_refund_view and refund_tickets, up to the operator's answer (all the
\* tickets of an untouched order are the whole order).  A request that is
\* refused leaves nothing behind.  Bounds: likewise, one request per
\* order, and none where jobs interleave; overlapping ones are TicketRefunds'.
refund_tickets(w, o) ==
    LET demo == BuyerProvider[o] = "DEMO" IN
    /\ status[o] = "PAID" /\ asked[o] = 0 /\ by_hand = {} /\ ~concurrent
    /\ Starts(w)
    /\ \E n \in 1..valid[o] :
          /\ n < Quantity[o]
          /\ asked' = [asked EXCEPT ![o] = n]
          /\ returned' = IF n = kept[o] THEN returned \cup {o} ELSE returned
          /\ by_hand' = IF n = kept[o] THEN by_hand \cup {o} ELSE by_hand
          /\ parts' = IF demo THEN parts ELSE parts \cup {o}
          /\ task' = IF demo THEN [task EXCEPT ![w] = [NoTask EXCEPT !.pc = "handle",
                                      !.kind = "page", !.order = o, !.n = n]] ELSE task
    /\ UNCHANGED <<concurrent, eventVars, ticketVars, decision, webhooks, history, lost>>

\* (A refund of tickets that the whole order's has covered changes nothing.)
ReceivePart(w, o) ==
    /\ o \in parts /\ asked[o] > 0
    /\ parts' = parts \ {o}
    /\ Starts(w)
    /\ task' = [task EXCEPT ![w] = [NoTask EXCEPT !.pc = "handle", !.kind = "webhook",
                                                  !.order = o, !.n = asked[o]]]
    /\ UNCHANGED <<concurrent, eventVars, ticketVars, decision, asked, returned, webhooks, by_hand,
                   history, lost>>

\* Claims the request; takes those of its tickets that are still valid and
\* gives its places back at the date remembered; the last of them end the order.
apply_partial_refund(w) ==
    LET o == task[w].order
        n == task[w].n
    IN
    /\ task[w].pc = "claim" /\ n > 0
    /\ IF asked[o] = n
       THEN /\ asked' = [asked EXCEPT ![o] = 0]
            /\ valid' = [valid EXCEPT ![o] = IF @ < n THEN 0 ELSE @ - n]
            /\ sold' = [sold EXCEPT ![task[w].seen] = @ - n]
            /\ kept' = [kept EXCEPT ![o] = @ - n]
            /\ status' = IF kept[o] <= n /\ status[o] = "PAID"
                         THEN [status EXCEPT ![o] = "REFUNDED"] ELSE status
       ELSE UNCHANGED <<asked, valid, sold, kept, status>>
    /\ End(w)
    /\ UNCHANGED <<concurrent, eventVars, at, decision, returned, webhooks, parts, by_hand,
                   history, lost>>

-----------------------------------------------------------------------------
(* What is recorded of a refund.                                           *)

\* Slip: a refused refund is recorded like one that was requested.
AlwaysRequested(w) ==
    /\ task[w].pc \in {"requested", "failed"}
    /\ decision' = [decision EXCEPT ![task[w].order] = "REFUND_REQUESTED"]
    /\ IF task[w].kind = "one" THEN End(w)
       ELSE StepTo(w, IF task[w].kind = "cancel" THEN "notify" ELSE "next")
    /\ UNCHANGED <<concurrent, eventVars, ticketVars, moneyVars, history, lost>>

\* Slip: after a refused refund the order goes on waiting for its buyer.
RecordRequested(w) ==
    /\ task[w].pc \in {"requested", "failed"}
    /\ decision' = IF task[w].pc = "failed" THEN decision
                   ELSE [decision EXCEPT ![task[w].order] = "REFUND_REQUESTED"]
    /\ IF task[w].kind = "one" THEN End(w)
       ELSE StepTo(w, IF task[w].kind = "cancel" THEN "notify" ELSE "next")
    /\ UNCHANGED <<concurrent, eventVars, ticketVars, moneyVars, history, lost>>

\* Either way the decision is written without looking at it again.
RecordRefund(w) ==
    /\ task[w].pc \in {"requested", "failed"}
    /\ decision' = [decision EXCEPT ![task[w].order] =
           IF task[w].pc = "requested" THEN "REFUND_REQUESTED" ELSE "REFUND_FAILED"]
    /\ IF task[w].kind = "one" THEN End(w)
       ELSE StepTo(w, IF task[w].kind = "cancel" THEN "notify" ELSE "next")
    /\ UNCHANGED <<concurrent, eventVars, ticketVars, moneyVars, history, lost>>

-----------------------------------------------------------------------------
(* Decisions.                                                              *)

\* Slip: an order already decided may choose again.
choose_refund_again(w, o) ==
    /\ decision[o] # "NONE"
    /\ Begin(w, "refund", "one", o, {})
    /\ UNCHANGED <<concurrent, eventVars, ticketVars, decision, moneyVars, history, lost>>

choose_refund(w, o) ==
    /\ decision[o] = "AWAITING"
    /\ Begin(w, "refund", "one", o, {})
    /\ UNCHANGED <<concurrent, eventVars, ticketVars, decision, moneyVars, history, lost>>

refund_now(w, o) ==
    /\ status[o] = "PAID" /\ decision[o] \in {"AWAITING", "REFUND_FAILED"}
    /\ Begin(w, "refund", "one", o, {})
    /\ UNCHANGED <<concurrent, eventVars, ticketVars, decision, moneyVars, history, lost>>

\* move_to_replacement up to its transaction, with the tickets it has read.
ChooseMove(w, o) ==
    /\ decision[o] = "AWAITING" /\ replacement
    /\ status[o] = "PAID"
    /\ valid[o] > 0
    /\ Starts(w)
    /\ task' = [task EXCEPT ![w] = [NoTask EXCEPT !.pc = "move", !.order = o, !.n = valid[o]]]
    /\ UNCHANGED <<concurrent, eventVars, ticketVars, decision, moneyVars, history, lost>>

\* Slip: the places of the old date are kept.
MoveKeepingPlaces(w) ==
    LET o == task[w].order
        n == task[w].n
    IN
    /\ task[w].pc = "move"
    /\ IF decision[o] = "AWAITING" /\ Room("new", n)
       THEN /\ sold' = [sold EXCEPT !["new"] = @ + n]
            /\ at' = [at EXCEPT ![o] = "new"]
            /\ decision' = [decision EXCEPT ![o] = "MOVED"]
       ELSE UNCHANGED <<sold, at, decision>>
    /\ End(w)
    /\ UNCHANGED <<concurrent, eventVars, status, valid, kept, moneyVars, history, lost>>

\* The transaction: the locked order must still be undecided (its status is
\* not looked at again); the old places are released (those not refunded yet),
\* as many as there were valid tickets taken on the new date, or
\* everything is rolled back.
move_to_replacement(w) ==
    LET o == task[w].order
        n == task[w].n
    IN
    /\ task[w].pc = "move"
    /\ IF decision[o] = "AWAITING" /\ Room("new", n)
       THEN /\ sold' = [old |-> sold["old"] - kept[o], new |-> sold["new"] + n]
            /\ at' = [at EXCEPT ![o] = "new"]
            /\ decision' = [decision EXCEPT ![o] = "MOVED"]
       ELSE UNCHANGED <<sold, at, decision>>
    /\ End(w)
    /\ UNCHANGED <<concurrent, eventVars, status, valid, kept, moneyVars, history, lost>>

Due == {o \in Buyer : decision[o] = "AWAITING" /\ at[o] = "old"}

\* process_decision_deadlines lists the orders that are due, once ...
process_decision_deadlines(w) ==
    /\ deadline_passed /\ Due # {}
    /\ Begin(w, "next", "deadline", Nobody, Due)
    /\ UNCHANGED <<concurrent, eventVars, ticketVars, decision, moneyVars, history, lost>>

\* ... and refunds one after the other.
NextDue(w) ==
    /\ task[w].pc = "next"
    /\ IF task[w].todo = {} THEN End(w)
       ELSE \E o \in task[w].todo :
                task' = [task EXCEPT ![w].pc = "refund", ![w].order = o, ![w].todo = @ \ {o}]
    /\ UNCHANGED <<concurrent, eventVars, ticketVars, decision, moneyVars, history, lost>>

DeadlinePasses ==
    /\ event_status = "CANCELLED" /\ replacement /\ ~deadline_passed
    /\ deadline_passed' = TRUE
    /\ UNCHANGED <<concurrent, event_status, replacement, ticketVars, decision,
                   moneyVars, history, task, lost>>

LoseJob(w) ==
    /\ task[w].pc # "idle" /\ ~concurrent /\ lost < MaxLost
    /\ lost' = lost + 1
    /\ End(w)
    /\ UNCHANGED <<concurrent, eventVars, ticketVars, decision, moneyVars, history>>

-----------------------------------------------------------------------------

Continue(w) ==
    \/ create_order(w) \/ ListPaid(w) \/ AllNotified(w) \/ CheckPaid(w) \/ CallOperator(w)
    \/ OperatorRefuses(w) \/ Refresh(w) \/ Claim(w) \/ Invalidate(w)
    \/ apply_partial_refund(w) \/ RecordRefund(w)
    \/ move_to_replacement(w) \/ NextDue(w)
    \/ \E o \in Buyer : Sweep(w, o) \/ Notify(w, o)

Cron == \E w \in Staff : process_decision_deadlines(w)

CancellationNext ==
    \/ \E w \in Staff :
          \/ Continue(w) \/ LoseJob(w) \/ CancelEvent(w)
          \/ \E o \in Buyer : \/ LoadEvent(w, o) \/ ReceiveRefund(w, o) \/ choose_refund(w, o)
                              \/ refund_now(w, o) \/ ChooseMove(w, o) \/ refund_view(w, o)
                              \/ refund_tickets(w, o) \/ ReceivePart(w, o)
    \/ \E o \in Buyer : PayOrder(o) \/ expire_order(o) \/ UseTicket(o)
    \/ cancel_view \/ Cron \/ DeadlinePasses

CancellationSpec == CancellationInit /\ [][CancellationNext]_cancelVars

\* Time passes, the cron loop comes round and threads run on; buyers, staff
\* and Stripe need not do anything.
CancellationFairness == /\ \A w \in Staff : WF_cancelVars(Continue(w))
                        /\ SF_cancelVars(Cron) /\ WF_cancelVars(DeadlinePasses)

-----------------------------------------------------------------------------
(* Properties.                                                             *)

CancellationTypeOK ==
    /\ event_status \in {"PUBLISHED", "CANCELLED"}
    /\ status \in [Buyer -> BuyerStatus] /\ decision \in [Buyer -> Decisions]
    /\ at \in [Buyer -> {"old", "new"}]
    /\ \A o \in Buyer : /\ valid[o] \in 0..Quantity[o] /\ kept[o] \in 0..Quantity[o]
                        /\ asked[o] \in 0..kept[o]
    /\ sold \in [{"old", "new"} -> Int]
    /\ returned \subseteq Buyer /\ webhooks \subseteq returned /\ by_hand \subseteq returned
    /\ parts \subseteq Buyer
    /\ task \in [Staff -> Task] /\ lost \in 0..MaxLost

PlacesAt(date) == MapThenSumSet(LAMBDA o : kept[o],
                                {o \in Buyer : Holding(o) /\ at[o] = date})

\* Moving an order takes its places from one date to the other and a refund, of
\* the order or of some of its tickets, gives them back where they are, so both
\* counters are the places of the orders there: while jobs do not interleave,
\* even if some die, and as long as no order had a ticket used before the event
\* was cancelled.
PlacesFollowOrders ==
    (~concurrent /\ used = {}) =>
        \A date \in {"old", "new"} : sold[date] = PlacesAt(date)

\* Once a buyer keeps the tickets for the new date, no later decision, deadline
\* or manager overturns it; only a job that found the order undecided before
\* the move may (cancellation.py:358, choose_refund).
KeptMeansKept ==
    [][\A o \in Buyer : (decision[o] = "MOVED" /\ decision'[o] # "MOVED") =>
           \E w \in Staff : task[w].order = o /\ o \in task[w].open]_decision

\* The decision tells where the money is, if jobs neither interleave nor die:
\* with the operator's customer when a refund is on record, with the shop when
\* the tickets were kept or the refund was refused.  Not so once staff have
\* returned the money on the order's page, which leaves the decision alone: a
\* buyer who is still asked is then recorded as one whose refund failed, though
\* the money has gone (cancellation.py:154).
DecisionTellsMoney ==
    (~concurrent /\ lost = 0) =>
        \A o \in Buyer :
            /\ decision[o] = "REFUND_REQUESTED" => o \in returned
            /\ decision[o] \in {"MOVED", "REFUND_FAILED"} =>
                   \/ o \notin returned \/ o \in by_hand
                   \/ \E w \in Staff : task[w].order = o /\ task[w].pc \notin {"idle", "refund"}

\* Nobody is forgotten: when the cancellation has run its course, every order
\* still paid for the old date has been told, however payments, expiry and the
\* sweep interleave; but for orders made from an event loaded before it was
\* cancelled, and for payments of expired orders that arrive after the list.
EveryBuyerTold ==
    (listed /\ lost = 0 /\ \A w \in Staff : task[w].kind # "cancel") =>
        \A o \in Buyer : (status[o] = "PAID" /\ at[o] = "old") => o \in told \cup late
=============================================================================
