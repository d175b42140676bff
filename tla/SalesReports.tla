---------------------------- MODULE SalesReports ----------------------------
(***************************************************************************)
(* What the reports say about the order of TicketRefunds, each from its    *)
(* own source: the order's row, the rows of its tickets, or the payment    *)
(* events that have been processed.  Periods and formats are left out.     *)
(***************************************************************************)
EXTENDS TicketRefunds

\* The rows the reports are made from: every set here has what the filters on
\* event, pool and is_demo leave, the order of the model.
Orders == {[status |-> status, amount_gross |-> Gross, refunded_amount |-> refunded_amount,
            quantity |-> Quantity, refunded_quantity |-> refunded_quantity]}
Where(orders, statuses) == {o \in orders : o.status \in statuses}
InStatus(tickets, statuses) == {t \in tickets : ticket[t] \in statuses}

Received(orders) == MapThenSumSet(LAMBDA o : o.amount_gross, orders)
Refunded(orders) == MapThenSumSet(LAMBDA o : o.refunded_amount, orders)

_order_money_totals(orders) ==
    [paid |-> Received(Where(orders, {"PAID"})) - Refunded(Where(orders, {"PAID"})),
     refunded |-> Refunded(orders)]

_ticket_status_counts(tickets) ==
    [s \in TicketStatus |-> Cardinality(InStatus(tickets, {s}))]

\* One row, of an event or of a pool.
event_sales_report(orders, tickets) ==
    [orders_paid |-> Cardinality(Where(orders, {"PAID"})),
     orders_refunded |-> Cardinality(Where(orders, {"REFUNDED"})),
     tickets |-> _ticket_status_counts(tickets),
     revenue_paid |-> _order_money_totals(orders).paid,
     revenue_refunded |-> _order_money_totals(orders).refunded]

\* The payment was processed before the model begins.
cash_flow_report == [inflow |-> Gross, outflow |-> outflow, net |-> Gross - outflow]

period_kpis(orders) ==
    [revenue_net |-> cash_flow_report.net,
     tickets_sold |-> MapThenSumSet(LAMBDA o : o.quantity - o.refunded_quantity,
                                    Where(orders, {"PAID"})),
     refunds |-> cash_flow_report.outflow]

\* The settlement of an event: tickets that let somebody in, and money.
event_finance(orders, tickets) ==
    LET settled == Where(orders, {"PAID", "REFUNDED"}) IN
    [sold |-> Cardinality(InStatus(tickets, {"ISSUED", "CHECKED_IN"})),
     checked_in |-> Cardinality(InStatus(tickets, {"CHECKED_IN"})),
     refunded_tickets |-> Cardinality(InStatus(tickets, {"REFUNDED"})),
     received |-> Received(settled), refunds |-> Refunded(settled),
     gross |-> Received(settled) - Refunded(settled)]

\* The list of events in the panel shows what paid orders were worth.
by_event_view(orders) == [paid |-> Received(Where(orders, {"PAID"}))]

-----------------------------------------------------------------------------

\* Tickets that are paid for: no refund of them has been applied.
Kept == {t \in Ticket : status = "PAID" /\ t \notin AppliedTickets}

\* Every report comes to the same money and the same tickets, and the money is
\* the price of the tickets kept.  The settlement counts on top of them those
\* that the gate admitted before their refund was applied, and the list of
\* events deducts no partial refunds.
ReportsAgree ==
    LET row == event_sales_report(Orders, Ticket)
        settlement == event_finance(Orders, Ticket)
        kpis == period_kpis(Orders)
    IN
    /\ settlement.gross = cash_flow_report.net /\ row.revenue_paid = cash_flow_report.net
    /\ settlement.gross = Amount(Kept)
    /\ kpis.tickets_sold = Cardinality(Kept)
    /\ settlement.sold = Cardinality(Kept \cup InStatus(Ticket, {"CHECKED_IN"}))
    /\ settlement.refunds = kpis.refunds
    /\ by_event_view(Orders).paid = row.revenue_paid
           + (IF status = "PAID" THEN row.revenue_refunded ELSE 0)

\* With every answer received and every event in order, the order's books
\* follow the provider's: never ahead of the money Stripe returned, even when
\* admissions are taken back; and if none is, level with it once nothing is
\* under way, so that the reports drawn from orders, tickets and payment events
\* agree: "totals always reconcile with what the payment provider actually
\* confirmed" (reports/services.py:4).
BooksFollowCharge ==
    /\ allowed \subseteq (IF provider = "STRIPE" THEN {"undo"} ELSE {}) =>
          refunded_amount <= charge
    /\ (allowed = {} /\ events = {} /\ Handling = {}) =>
          refunded_amount = charge /\ outflow = charge /\ ReportsAgree
=============================================================================
