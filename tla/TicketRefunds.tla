--------------------------- MODULE TicketRefunds ---------------------------
(***************************************************************************)
(* Refunds of one paid order, whole or ticket by ticket, with the gate     *)
(* admitting its tickets at the same time.  Staff ask the provider for the *)
(* money; what the provider reports back changes the order, its tickets,   *)
(* seats and places.  The demo provider reports at once, inside the        *)
(* request; Stripe later, with the total returned on the charge so far,    *)
(* which is matched to a pending refund by its amount.                     *)
(*                                                                         *)
(* An action is one autocommitted statement or one transaction; `allowed'  *)
(* names what may go wrong in a behaviour, so that a property can say what *)
(* it depends on.                                                          *)
(***************************************************************************)
EXTENDS Integers, FiniteSets, FiniteSetsExt

CONSTANTS
    Ticket,         \* the tickets of the order
    Price,          \* price_gross of each ticket
    Worker,         \* request threads (staff, webhooks)
    MaxRefunds,     \* rows of order_refunds
    MaxRequests,    \* refunds staff ask for
    MaxCrashes,     \* requests that die between two statements
    MaxFaults,      \* kinds of faults in one behaviour
    None

ASSUME TicketsAssumption ==
    /\ IsFiniteSet(Ticket) /\ Price \in [Ticket -> Nat]
    /\ MaxRefunds \in Nat /\ MaxRequests \in Nat /\ MaxCrashes \in Nat
    /\ None \notin 1..MaxRefunds

Fault == {"overlap",        \* two requests about the order run at once
          "overtake",       \* a later charge.refunded event arrives first
          "crash",          \* a request dies between two statements
          "lost_answer",    \* Stripe returns the money, the call fails
          "undo"}           \* the gate takes an admission back

Amount(S) == MapThenSumSet(LAMBDA t : Price[t], S)
Quantity == Cardinality(Ticket)
Gross == Amount(Ticket)
RefundId == 1..MaxRefunds

VARIABLES
    provider,           \* orders.payment_provider
    allowed,            \* faults this behaviour may show
    status,             \* orders.status
    refunded_quantity, refunded_amount,
    sold,               \* the order's places in sold_count and sold_total
    seats,              \* tickets whose seat the order still owns
    ticket,             \* tickets.status
    refund,             \* order_refunds
    charge,             \* what the provider has returned so far
    events,             \* charge.refunded totals not yet delivered
    outflow,            \* what cash_flow_report counts as refunds
    job, requests, crashes

vars == <<provider, allowed, status, refunded_quantity, refunded_amount, sold,
          seats, ticket, refund, charge, events, outflow, job, requests, crashes>>
orderVars == <<status, refunded_quantity, refunded_amount, sold, seats>>
fixed == <<provider, allowed>>
providerVars == <<charge, events, outflow>>

TicketStatus == {"ISSUED", "CHECKED_IN", "REFUNDED"}
RefundStatus == {"NONE", "REQUESTED", "SUCCEEDED", "FAILED"}
OrderRefund(A) == [status : RefundStatus, tickets : SUBSET Ticket, amount : A]

Pc == {"idle", "create", "call", "call_rest", "handle", "claim", "tickets", "save"}
Job(A) == [pc : Pc, tickets : SUBSET Ticket, amount : A, refund : RefundId \cup {None}, seen : Nat]
Idle == [pc |-> "idle", tickets |-> {}, amount |-> 0, refund |-> None, seen |-> 0]
Goto(w, l) == job' = [job EXCEPT ![w].pc = l]
Done(w) == job' = [job EXCEPT ![w] = Idle]

\* A request about the order begins; unless requests may overlap, no other
\* is under way.
Begins(w) ==
    /\ job[w].pc = "idle"
    /\ "overlap" \in allowed \/ \A v \in Worker : job[v].pc = "idle"

Init ==
    /\ provider \in {"DEMO", "STRIPE"}
    /\ allowed \in {A \in SUBSET Fault : Cardinality(A) <= MaxFaults}
    /\ provider = "DEMO" => allowed \cap {"overtake", "lost_answer"} = {}
    /\ status = "PAID"
    /\ refunded_quantity = 0 /\ refunded_amount = 0
    /\ sold = Quantity
    /\ seats = Ticket
    /\ ticket = [t \in Ticket |-> "ISSUED"]
    /\ refund = [r \in RefundId |-> [status |-> "NONE", tickets |-> {}, amount |-> 0]]
    /\ charge = 0 /\ events = {} /\ outflow = 0
    /\ job = [w \in Worker |-> Idle]
    /\ requests = 0 /\ crashes = 0

-----------------------------------------------------------------------------
(* Staff: refunds.py and the admin pages that call it.                     *)

Pending == {r \in RefundId : refund[r].status = "REQUESTED"}
PendingTickets == UNION {refund[r].tickets : r \in Pending}
PendingQuantity == MapThenSumSet(LAMBDA r : Cardinality(refund[r].tickets), Pending)
PendingAmount == MapThenSumSet(LAMBDA r : refund[r].amount, Pending)

\* Slip: tickets of a pending refund are offered again.
refundable_issued == {t \in Ticket : ticket[t] = "ISSUED"}

refundable_tickets == {t \in Ticket : ticket[t] = "ISSUED"} \ PendingTickets

\* refund_order: the status is read, the provider is called afterwards.
refund_order(w) ==
    /\ Begins(w)
    /\ requests < MaxRequests
    /\ status = "PAID"
    /\ requests' = requests + 1
    /\ job' = [job EXCEPT ![w].pc = "call_rest", ![w].amount = Gross - refunded_amount]
    /\ UNCHANGED <<fixed, orderVars, ticket, refund, providerVars, crashes>>

LeftAfter(S) == Quantity - refunded_quantity - PendingQuantity - Cardinality(S)

\* The last tickets get exactly what is left of the amount.
AmountFor(S) == IF LeftAfter(S) = 0 THEN Gross - refunded_amount - PendingAmount
                                    ELSE Amount(S)

\* refund_tickets up to the creation of the row: every ticket of an untouched
\* order is simply a full refund.
refund_tickets(w, S) ==
    /\ Begins(w)
    /\ requests < MaxRequests
    /\ status = "PAID"
    /\ S # {} /\ S \subseteq refundable_tickets
    /\ requests' = requests + 1
    /\ LET all == LeftAfter(S) = 0 /\ refunded_quantity = 0 /\ Pending = {} IN
       job' = [job EXCEPT ![w] = [Idle EXCEPT !.pc = IF all THEN "call_rest" ELSE "create",
                                  !.tickets = IF all THEN {} ELSE S, !.amount = AmountFor(S)]]
    /\ UNCHANGED <<fixed, orderVars, ticket, refund, providerVars, crashes>>

\* OrderRefund.objects.create, committed before the provider is called.
CreateRefund(w) ==
    \E r \in RefundId :
        /\ job[w].pc = "create"
        /\ \A q \in RefundId : refund[q].status = "NONE" <=> q >= r
        /\ refund' = [refund EXCEPT ![r] = [status |-> "REQUESTED",
                          tickets |-> job[w].tickets, amount |-> job[w].amount]]
        /\ job' = [job EXCEPT ![w].pc = "call", ![w].refund = r]
        /\ UNCHANGED <<fixed, orderVars, ticket, providerVars, requests, crashes>>

-----------------------------------------------------------------------------
(* The providers.                                                          *)

\* Stripe returns no more than was paid, and never nothing.
Returnable(amount) == 0 < amount /\ charge + amount <= Gross

Returns(amount) ==
    /\ provider = "STRIPE"
    /\ Returnable(amount)
    /\ charge' = charge + amount
    /\ events' = events \cup {charge + amount}
    /\ UNCHANGED outflow

\* Refund.create for the tickets of a row, which may fail after the fact.
StripeRefund(w) ==
    /\ job[w].pc = "call"
    /\ Returns(job[w].amount)
    /\ \/ UNCHANGED refund
       \/ /\ "lost_answer" \in allowed
          /\ refund' = [refund EXCEPT ![job[w].refund].status =
                            IF @ = "REQUESTED" THEN "FAILED" ELSE @]
    /\ Done(w)
    /\ UNCHANGED <<fixed, orderVars, ticket, requests, crashes>>

\* The call is refused, and the row marked FAILED.
StripeRefuses(w) ==
    /\ job[w].pc = "call"
    /\ provider = "STRIPE"
    /\ ~Returnable(job[w].amount)
    /\ refund' = [refund EXCEPT ![job[w].refund].status =
                      IF @ = "REQUESTED" THEN "FAILED" ELSE @]
    /\ Done(w)
    /\ UNCHANGED <<fixed, orderVars, ticket, providerVars, requests, crashes>>

\* Without an amount Stripe returns the rest of the charge, if there is any.
StripeRefundRest(w) ==
    /\ job[w].pc = "call_rest"
    /\ provider = "STRIPE"
    /\ IF charge < Gross THEN Returns(Gross - charge) ELSE UNCHANGED providerVars
    /\ Done(w)
    /\ UNCHANGED <<fixed, orderVars, ticket, refund, requests, crashes>>

\* The demo provider delivers its own webhook, inside the request, and names
\* the refund it is about.
DemoRefund(w) ==
    /\ job[w].pc \in {"call", "call_rest"}
    /\ provider = "DEMO"
    /\ charge' = charge + job[w].amount
    /\ Goto(w, "handle")
    /\ UNCHANGED <<fixed, orderVars, ticket, refund, events, outflow, requests, crashes>>

\* Slip: the total on the charge is taken for this refund's amount.
MatchTotal(total) == {r \in Pending : refund[r].amount = total}

\* The pending refunds a charge.refunded event may be about: those of the
\* amount by which its total exceeds what the order has booked.
Match(total) == {r \in Pending : refund[r].amount = total - refunded_amount}

Earliest(M) == IF M = {} THEN {None} ELSE {r \in M : \A q \in M : r <= q}

\* handle_stripe_event, up to the handler; the amount recorded with the event
\* is that difference, and the earliest match is taken.
charge_refunded(w, total) ==
    /\ Begins(w)
    /\ total \in events
    /\ "overtake" \in allowed \/ \A e \in events : total <= e
    /\ events' = events \ {total}
    /\ \E r \in Earliest(Match(total)) :
           job' = [job EXCEPT ![w].pc = "handle", ![w].amount = total - refunded_amount,
                              ![w].refund = r]
    /\ UNCHANGED <<fixed, orderVars, ticket, refund, charge, outflow, requests, crashes>>

-----------------------------------------------------------------------------
(* payments.py: apply_partial_refund and mark_order_refunded.              *)

\* _finish: the record of the event is PROCESSED, and from now on the reports
\* count its amount.
Processed(w) == outflow' = outflow + job[w].amount /\ UNCHANGED <<charge, events>>

\* One transaction; a refund no longer pending is left alone.  A ticket
\* checked in meanwhile stays so, but its seat and its place are given back.
apply_partial_refund(w) ==
    LET r == job[w].refund
        n == Cardinality(refund[r].tickets)
    IN
    /\ job[w].pc = "handle" /\ r # None
    /\ IF r \in Pending
       THEN /\ refund' = [refund EXCEPT ![r].status = "SUCCEEDED"]
            /\ ticket' = [t \in Ticket |-> IF t \in refund[r].tickets /\ ticket[t] = "ISSUED"
                                           THEN "REFUNDED" ELSE ticket[t]]
            /\ seats' = seats \ refund[r].tickets
            /\ sold' = sold - n
            /\ refunded_quantity' = refunded_quantity + n
            /\ refunded_amount' = refunded_amount + refund[r].amount
            /\ status' = IF refunded_quantity + n >= Quantity THEN "REFUNDED" ELSE status
            /\ Processed(w)
       ELSE UNCHANGED <<orderVars, ticket, refund, providerVars>>
    /\ Done(w)
    /\ UNCHANGED <<fixed, requests, crashes>>

\* mark_order_refunded first refreshes the order ...
ReadOrder(w) ==
    /\ job[w].pc = "handle" /\ job[w].refund = None
    /\ job' = [job EXCEPT ![w].pc = "claim", ![w].seen = refunded_quantity]
    /\ UNCHANGED <<fixed, orderVars, ticket, refund, providerVars, requests, crashes>>

\* Slip: the places of tickets refunded earlier are given back again.
ReleaseAll(w) == sold' = sold - Quantity /\ seats' = {}

\* release_capacity, with the quantity of the order as it was read.
release_capacity(w) == sold' = sold - (Quantity - job[w].seen) /\ seats' = {}

\* Slip: the refunds still pending are forgotten.
ClaimOrderOnly(w) ==
    /\ job[w].pc = "claim"
    /\ IF status = "PAID"
       THEN /\ status' = "REFUNDED"
            /\ release_capacity(w)
            /\ refunded_amount' = Gross /\ refunded_quantity' = Quantity
            /\ Goto(w, "tickets")
       ELSE UNCHANGED orderVars /\ Done(w)
    /\ UNCHANGED <<fixed, refund, ticket, providerVars, requests, crashes>>

\* ... then claims it in one transaction, in which pending refunds fail, since
\* this one covers them ...
ClaimRefunded(w) ==
    /\ job[w].pc = "claim"
    /\ IF status = "PAID"
       THEN /\ status' = "REFUNDED"
            /\ release_capacity(w)
            /\ refunded_amount' = Gross /\ refunded_quantity' = Quantity
            /\ refund' = [r \in RefundId |-> IF r \in Pending
                              THEN [refund[r] EXCEPT !.status = "FAILED"] ELSE refund[r]]
            /\ Goto(w, "tickets")
       ELSE UNCHANGED <<orderVars, refund>> /\ Done(w)
    /\ UNCHANGED <<fixed, ticket, providerVars, requests, crashes>>

\* ... and afterwards reads the tickets still ISSUED
\* (invalidate_tickets_for_refunded_order) ...
ReadTickets(w) ==
    LET issued == {t \in Ticket : ticket[t] = "ISSUED"} IN
    /\ job[w].pc = "tickets"
    /\ IF issued = {} THEN Done(w) /\ Processed(w)
       ELSE /\ job' = [job EXCEPT ![w].pc = "save", ![w].tickets = issued]
            /\ UNCHANGED providerVars
    /\ UNCHANGED <<fixed, orderVars, ticket, refund, requests, crashes>>

\* ... and saves them one by one, without looking at them again.
SaveTicket(w, t) ==
    /\ job[w].pc = "save" /\ t \in job[w].tickets
    /\ ticket' = [ticket EXCEPT ![t] = "REFUNDED"]
    /\ IF job[w].tickets = {t} THEN Done(w) /\ Processed(w)
       ELSE job' = [job EXCEPT ![w].tickets = @ \ {t}] /\ UNCHANGED providerVars
    /\ UNCHANGED <<fixed, orderVars, refund, requests, crashes>>

-----------------------------------------------------------------------------
(* The gate (checkin/services.py): conditional UPDATEs.                    *)

\* Slip: the status is not part of the UPDATE.
AdmitAny(t) ==
    /\ ticket' = [ticket EXCEPT ![t] = "CHECKED_IN"]
    /\ UNCHANGED <<fixed, orderVars, refund, providerVars, job, requests, crashes>>

check_in(t) ==
    /\ ticket[t] = "ISSUED"
    /\ ticket' = [ticket EXCEPT ![t] = "CHECKED_IN"]
    /\ UNCHANGED <<fixed, orderVars, refund, providerVars, job, requests, crashes>>

undo_check_in(t) ==
    /\ "undo" \in allowed
    /\ ticket[t] = "CHECKED_IN"
    /\ ticket' = [ticket EXCEPT ![t] = "ISSUED"]
    /\ UNCHANGED <<fixed, orderVars, refund, providerVars, job, requests, crashes>>

\* A request ends between two statements: the process dies, or PostgreSQL
\* breaks a deadlock of apply_partial_refund (seats before pool) and
\* release_capacity (pool before seats) by aborting one of them.
Crash(w) ==
    /\ "crash" \in allowed /\ crashes < MaxCrashes
    /\ job[w].pc # "idle"
    /\ crashes' = crashes + 1
    /\ Done(w)
    /\ UNCHANGED <<fixed, orderVars, ticket, refund, providerVars, requests>>

-----------------------------------------------------------------------------

Proceed(w) ==
    \/ CreateRefund(w) \/ StripeRefund(w) \/ StripeRefuses(w) \/ StripeRefundRest(w)
    \/ DemoRefund(w) \/ apply_partial_refund(w) \/ ReadOrder(w) \/ ClaimRefunded(w)
    \/ ReadTickets(w) \/ \E t \in Ticket : SaveTicket(w, t)

Deliver == \E w \in Worker, total \in events : charge_refunded(w, total)

Next ==
    \/ \E w \in Worker : \/ refund_order(w) \/ Proceed(w) \/ Crash(w)
                         \/ \E S \in SUBSET Ticket : refund_tickets(w, S)
    \/ Deliver
    \/ \E t \in Ticket : check_in(t) \/ undo_check_in(t)

Spec == Init /\ [][Next]_vars

\* Request threads run on, and Stripe delivers its events in the end, retrying
\* for days; nobody has to ask for a refund or come to the gate.
FairSpec == Spec /\ WF_vars(Deliver) /\ \A w \in Worker : WF_vars(Proceed(w))

-----------------------------------------------------------------------------
(* Properties.                                                             *)

\* Amounts may be any: what is returned and booked is the subject of
\* NoTicketRefundedTwice and, in SalesReports, BooksFollowCharge.
TypeOK ==
    /\ provider \in {"DEMO", "STRIPE"} /\ allowed \subseteq Fault
    /\ status \in {"PAID", "REFUNDED"}
    /\ refunded_quantity \in Nat /\ sold \in Int /\ seats \subseteq Ticket
    /\ ticket \in [Ticket -> TicketStatus]
    /\ refund \in [RefundId -> OrderRefund({refund[r].amount : r \in RefundId})]
    /\ job \in [Worker -> Job({job[w].amount : w \in Worker})]
    /\ requests \in 0..MaxRequests /\ crashes \in 0..MaxCrashes

Applied == {r \in RefundId : refund[r].status = "SUCCEEDED"}
AppliedTickets == UNION {refund[r].tickets : r \in Applied}
Handling == {w \in Worker : job[w].pc # "idle"}

\* Whatever the order of partial and full refunds, and whatever is admitted,
\* crashes or is delivered late meanwhile, the counters lose the places of a
\* refunded ticket once: the order holds a place and a seat for every ticket
\* no refund has been applied to, and none when it is refunded.  Only requests
\* that overlap can break it (services.py release_capacity, payments.py
\* apply_partial_refund).
PlacesGivenBackOnce ==
    allowed \cap {"overlap", "undo"} = {} =>
        IF status = "REFUNDED" THEN sold = 0 /\ seats = {}
        ELSE /\ seats = Ticket \ AppliedTickets
             /\ sold = Cardinality(seats)
             /\ refunded_quantity = Quantity - sold

\* No ticket is refunded twice: the applied and the pending refunds are about
\* different tickets, and together about no more than the order's amount.
NoTicketRefundedTwice ==
    allowed \cap {"overlap", "undo"} = {} =>
        /\ \A q, r \in Applied \cup Pending :
              q # r => refund[q].tickets \cap refund[r].tickets = {}
        /\ MapThenSumSet(LAMBDA r : refund[r].amount, Applied \cup Pending) <= Gross

\* "Refund selected tickets of a paid order; the rest stay valid": a ticket
\* loses its validity only when a refund of it is applied, or when all of the
\* money is returned.
RestStayValid ==
    allowed \subseteq {"undo"} =>
        \A t \in Ticket : ticket[t] = "REFUNDED" => t \in AppliedTickets \/ charge >= Gross

TICKET_TRANSITIONS ==
    [ISSUED |-> {"CHECKED_IN", "REFUNDED"}, CHECKED_IN |-> {"ISSUED"}, REFUNDED |-> {}]

\* Nothing brings a refunded ticket back, and no ticket leaves the table of
\* tickets/models.py, even with overlapping requests, except one that the gate
\* admits after invalidate_tickets_for_refunded_order has read it.
TicketsFollowTable ==
    [][\A t \in Ticket : ticket'[t] # ticket[t] =>
           \/ ticket'[t] \in TICKET_TRANSITIONS[ticket[t]]
           \/ /\ <<ticket[t], ticket'[t]>> = <<"CHECKED_IN", "REFUNDED">>
              /\ status = "REFUNDED"
              /\ \E w \in Worker : t \in job[w].tickets]_ticket

\* A refund staff asked for is answered in the end, even when events overtake
\* one another, answers are lost or tickets are admitted meanwhile: applied,
\* refused, or covered by a refund of the whole order.  Of two overlapping
\* requests the event of the one may be matched to the other, which is then
\* refused: its refund is never answered.
RequestsSettle == allowed \cap {"crash", "overlap"} = {} => []<>(Pending = {})
=============================================================================
