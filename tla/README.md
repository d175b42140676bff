# Ucho Bileteria: formal models

TLA+ modules that model the ticket shop of this repository, the TLC
configurations that check them on small instances, and theorems about them with
proofs checked by TLAPS. Paths below are relative to the repository's root.

## The system

A Django application with one PostgreSQL database, several request threads, a
payment provider (Stripe, or a demo provider inside the application) that calls
back through webhooks, a scanner page that works offline, and a loop that runs
the cron commands every minute (`expire_orders`, `send_emails`, `sync_calendar`,
`snapshot_emergency_lists`, `process_cancellations`; `compose.yml:38-48`). The
database runs READ COMMITTED and every statement outside `transaction.atomic()`
commits by itself.

| Component | State | Operations | What makes it correct |
| --- | --- | --- | --- |
| Purchase (`apps/orders/services.py`, `views.py`) | `Order`, `TicketPool.sold_count`, `Event.sold_total` | create, expire, cancel, release | places are never oversold, and released exactly once |
| Payments (`apps/orders/payments.py`) | `PaymentEvent` records, order status | record a webhook, pay, pay late, fail, refund, refund partly | an event is handled once; a payment is never silently dropped |
| Providers (`apps/orders/providers/`) | checkout session and URL of an order | start checkout, refund, normalise events | one order has one payable session; amounts are matched to the right refund |
| Refunds (`apps/orders/refunds.py`) | `OrderRefund` | whole order, selected tickets | the money returned is the money of the tickets given back |
| Event cancellation (`apps/orders/cancellation.py`) | `cancellation_status`, replacement event | cancel, move, choose refund, deadline | every buyer hears of it, and ends with a ticket or a refund |
| Tickets (`apps/tickets/services.py`) | `Ticket` | issue, invalidate | tickets exist only for paid orders, once, and not after a refund |
| E-mail queue (`apps/tickets/sending.py`) | `EmailOutbox` | send now, send pending | every message leaves, with bounded attempts, and once where nothing fails |
| Gate (`apps/checkin/services.py`, `templates/checkin/scanner.html`) | ticket status, the device's list and queue | check in, undo, offline scan, replay | one admission per ticket, none forgotten |
| Seats (`apps/seating/services.py`) | `EventSeat`, `Event.capacity_total` | hold, swap, move, block, sync, attach, detach | a seat has one order, an order has its seats, counters agree |
| Layouts (`apps/seating/layout.py`, `admin.py`) | `SeatingLayout`, snapshots on `EventSeatMap` | validate, expand, save, propagate | accepted layouts can be sold; maps follow their layout; no save is lost |
| Halls (`apps/seating/room.py`, `hall_import.py`) | `Room.base_geometry`, `overrides`, `geometry` | import, save, reset, copy, refresh maps | the owner's changes survive imports |
| Pools (`apps/events/services.py`) | pool dates, manual status | active pool, sales state, publish, copy | pools take turns; closed is final |
| Event form (`apps/events/admin.py`) | `Event`, `TicketPool` | create, change, confirm, derive | pools stay apart, capacity follows them, buyers know the date |
| Calendar (`apps/events/calendar.py`) | `CalendarOutbox`, `calendar_event_id` | queue, process | the calendar ends in the state of the last change |
| Reports (`apps/reports/`) | none of their own | sums over orders, tickets and payment events | they agree with each other and with the provider |
| Accounts, audit log | none that the others read | login, logging | not modelled |

Interaction is through the database: a request reads a row, works on the copy in
memory, and writes back with conditional UPDATEs (`filter(status=...).update`,
`F("sold_count") + n`) or with the whole copy (`save()`). The hard behaviour is
therefore what happens between two statements: another request, the cron job, a
second delivery of the same webhook, a refund, or the end of the process.

## Modules

| Module | Models |
| --- | --- |
| `TicketInventory` | what the shop promises about places: an order takes all its places in one pool at once, gives them all back at once, and capacities are respected |
| `OrderPayments` | the orders of one general-admission event from reservation to refund |
| `TicketRefunds` | the tickets of one paid order: partial and full refunds, Stripe's cumulative amounts, the gate |
| `SalesReports` | what the reports say about the order of `TicketRefunds` (extends it) |
| `SeatOwnership` | what a seat map promises: one order at a time takes free seats and gives them back, only free seats are blocked, rows come and go |
| `SeatInventory` | the seats, orders and counters of one event with a seat map |
| `EventCancellation` | an event cancelled with or without a new date, its orders and jobs |
| `EmailOutbox` | the e-mail queue and its two senders |
| `EventCalendar` | the row of one event in the hands of staff, and its calendar entry |
| `Queues` | the order in which the rows of an outbox are taken (used by `EmailOutbox` and `EventCalendar`) |
| `OfflineGate` | scanners, their lists and queues, and the server |
| `PoolActivation` | when the pools of an event sell |
| `LayoutDocuments` | what a layout document may contain and which seats it stands for |
| `SeatSelection` | what may be chosen on a map and what it costs (extends `LayoutDocuments`) |
| `SeatingLayouts` | one layout, its editors and its events (extends `LayoutDocuments`) |
| `HallRooms` | halls, their versions, imports and the owner's changes |
| `EventEditing` | the event form with its pools, publishing and copying |
| `MCOrderPayments`, `MCTicketRefunds`, `MCSeatInventory`, `MCServices` | the small instances; `MCServices` is the one of the eight smaller components, `EventCancellation` to `EventEditing` |
| `FiniteSums` | lemmas about `SumOver`, the sums of amounts and counts over sets of orders, tickets and refund rows |
| `OrderPayments_proofs` | inductive invariant of `OrderPayments`; types, no overselling; `OrderPayments` implements `TicketInventory`; webhooks handled once; order transitions; tickets only for paid orders; payments ignored for a reason; paid orders get their tickets; no place is lost |
| `TicketRefunds_proofs` | types; ticket transitions; places given back once; no ticket refunded twice; the rest stays valid; the books of `SalesReports` |
| `SeatInventory_proofs` | types and counters; seats and their orders; no seat lost; the capacity; `SeatInventory` implements `SeatOwnership` |
| `OfflineGate_proofs` | types; entries never forgotten; second scans caught |
| `EventCancellation_proofs` | types; kept tickets stay kept; decisions and money; every buyer told; places and orders |
| `Services_proofs` | calendar, e-mail queue, pools, event form, halls, documents, layouts |
| `MCServices_proofs` | the smaller components together: what is proved of each holds of the specification that `MCServices` runs |

In every module a definition marked `Slip` is a mistake the code might have made
at that place. No behaviour uses one; they are there so that each property can be
seen to fail when the definition below it is replaced by its slip.

### OrderPayments

The variables are columns: `status`, `pool` and `checkout_url` of the orders,
`sold_count` and `sold_total`, the `processing_status` of the payment records.
`kind` and `about` are the events that exist at the provider. `batch` stands for
the tickets: one batch per payment event that issued some. `job[w]` is what the
request thread `w` is doing and what it has in memory: the order it loaded, the
event it handles, the pool it chose, the status it saw.

One action is one autocommitted statement or one `transaction.atomic()` block.
`mark_order_paid` is therefore four or five actions (`ClaimPaid`,
`RefreshClaimed`, `CheckTickets`, `CreateTickets`, or `RefreshUnclaimed`,
`Rereserve`, `PayLate` and on), while `expire_order`, `cancel_unpaid_order` and
`mark_order_failed` are one each. `ReceiveWebhook` commits the record, `Finish`
is `_finish`. `Crash(w)` ends a request between two commits; what it had in
memory is gone, what it committed stays.

Abstractions:
- An order's quantity is the number of `Ticket`s `OrderOf` maps to it. The order
  and the ticket identities are fixed beforehand; an order exists once its
  status is not `NONE`.
- Deadlines are not modelled: an unpaid order may be past its deadline at any
  time, so `ExpireOrder` is always possible, and so is the end of a Stripe
  session. Which pool is active is reduced to what it guarantees: a pool that
  is not sold out.
- Stripe: of two sessions of one order only the first is stored and only its
  URL is ever shown, so only that one can be paid; the other can only run out.
  It can be paid at any time, also after the order was given up. Refunding one
  charge twice is refused.
- Demo provider: the pay and decline buttons produce a new event at each click
  while the order is waiting for payment. The refund's synchronous webhook is a
  worker that receives the event next.
- Events are delivered any number of times, in any order, to any idle worker.
- Left out: events of unknown type or about an unknown order (they change no
  order), amounts, e-mails, the audit log, the event's own status and capacity
  changes. Partial refunds and single tickets are in `TicketRefunds`, seats in
  `SeatInventory`. `InvalidateTickets` changes all tickets of the order in one
  step here; `TicketRefunds` saves them one by one as the code does.

### SeatInventory

The variables are again columns: `status` and `order` of an `EventSeat` row
(`seat_status` is `"ABSENT"` when there is no row), `status` and `seat_keys` of
the orders, `seating_mode`, `capacity_total` and `sold_total` of the event.

A request that reads an order or an event and writes much later is two actions
with its copy in `job[w]`: the purchase page and `create_order`
(`OpenPurchase`, then `CreateSeated` or `CreateGeneral`),
`change_pending_order_seats` (`ChooseSwap`, `SwapSeats`), the claim of a payment
and the sale of its seats (`ClaimPaid`, `MatchHeld`, `SellSeats`), the late
payment (`LatePayment`, `Rereserve`, `PayLate`), and the staff's pages
(`OpenMap`, then `attach_layout`, `detach_layout` or `PlanRedraw`).

Two transactions are split although they are atomic, because at READ COMMITTED
a transaction sees what others commit between its statements. `move_seat` reads
and locks its source row and then reads the order (`LockSource`), and writes the
order's whole `seat_keys` at the end (`MoveSeat`). `sync_event_map` locks the
event, plans, and deletes and creates rows later (`PlanRedraw`, `RedrawMap`).
Their row locks are `Locked` and `EventLocked`, and every action that writes one
of these rows waits for them. The `UPDATE ... WHERE status = 'HELD'` of a sale
is split too: PostgreSQL finds the rows first, waits for their locks, and tests
each again before it writes it; rows that became `HELD` meanwhile are missed.
All other transactions start with the conditional UPDATE that decides them, or
lock what they read, and are one action.

`Abort(w)` is any end of a request without effect: a refusal, a lost process,
a deadlock broken or a constraint enforced by the database.

Abstractions:
- `CREATED` stands for `PAYMENT_PENDING` too, `CANCELLED` for `FAILED`. No
  statement about seats tells them apart.
- One pool, so its `sold_count` always equals `sold_total`, and one variable is
  both. An order's quantity is the constant `Quantity[o]`.
- `seat_keys` is a set. The code compares lengths and sets and never its order
  in anything that changes a seat.
- Left out: which seats a buyer may choose (areas, single-seat gaps), price
  zones, labels, sector data and the position of seats, the tickets that carry a
  seat, the audit log.

### TicketRefunds and SalesReports

One paid order with its tickets (`ticket`), its `OrderRefund` rows (`refund`),
its counters (`refunded_quantity`, `refunded_amount`, `sold`, `seats`), and what
the provider has done (`charge`, the money returned so far; `events`, the totals
of `charge.refunded` not yet delivered). `job[w]` is a request: a page of staff,
a webhook, or the synchronous webhook of the demo provider.

Every statement that commits by itself is an action: `refund_tickets` checks and
`CreateRefund` writes the row before the provider is called (`StripeRefund`,
`StripeRefuses`, `StripeRefundRest`, `DemoRefund`). `charge_refunded` is
`handle_stripe_event`: the total on the charge becomes a difference against the
order as it is now, and the earliest pending refund of that amount is taken.
`apply_partial_refund` is one transaction. `mark_order_refunded` is `ReadOrder`,
`ClaimRefunded`, `ReadTickets` and one `SaveTicket` per ticket. `_finish` is
part of the last step of each handler. `check_in` and `undo_check_in` are the
gate's conditional UPDATEs.

What may go wrong in a behaviour is fixed at its start in `allowed`, so that a
property names exactly the faults it depends on:

| Fault | What it is | What it breaks |
| --- | --- | --- |
| `overlap` | two requests about the order at once | all four state properties, `RequestsSettle` |
| `overtake` | a later `charge.refunded` arrives first | `BooksFollowCharge`, `RestStayValid` |
| `crash` | a request dies between two statements | `BooksFollowCharge`, `RestStayValid`, `RequestsSettle` |
| `lost_answer` | Stripe returns the money and the call fails | `BooksFollowCharge`, `RestStayValid` |
| `undo` | the gate takes an admission back | `PlacesGivenBackOnce`, `NoTicketRefundedTwice`, the second half of `BooksFollowCharge` |

`SalesReports` writes the sums of `reports/services.py` and `reports/finance.py`
as operators over the same state: the order's row, the tickets' rows, and the
processed payment events. `ReportsAgree` is what makes them one set of books.

### EventCancellation

The orders of one event (`status`, `decision` for `cancellation_status`, `at` for
the event and pool they belong to, `valid` for the number of `ISSUED` tickets,
`kept` for the quantity that is not refunded, `asked` for a request for single
tickets that is not answered yet), the counters of both dates, the money the
operator has returned, and `task[w]`, the job of a request or of the cron command
with what it has listed and read.

`CancelEvent`, `Sweep`, `ListPaid`, `Notify`, `AllNotified` are
`cancel_event_for_buyers` called from the list of events, outside a transaction;
`cancel_view` is the same with a new date, one transaction. (Without a new date
`cancel_view` runs the refunds inside its transaction, Stripe's calls included;
it is modelled by the former.) `CheckPaid` to `RecordRefund` are `request_refund`
with `refund_order`, the operator and `mark_order_refunded`; `ChooseMove` and
`move_to_replacement`, `choose_refund`, `refund_now` the decisions;
`process_decision_deadlines` and `NextDue` the cron job. Buying and paying
continue beside it: `create_order` trusts the event it loaded, an expired order
may still be paid.

The order's own page knows nothing of decisions: `refund_view` refunds the order
(`refund_order`, with the same steps as a job's, after which nothing is recorded of
the decision), `refund_tickets` some of its tickets, confirmed at once by the demo
provider and later by Stripe (`ReceivePart`, `apply_partial_refund`). `by_hand` are
the orders whose whole or last money was returned there.

`concurrent` says whether jobs interleave in a behaviour or run one at a time
and may die between two steps. Simplified: telling a buyer and setting
`AWAITING` is one step; the new date stays published; its pools are one counter.
Bounds: one order is refunded on its page, with any parts before; an order has one
request for tickets under way, and none where jobs interleave (overlapping ones are
those of `TicketRefunds`), and the gate uses no ticket meanwhile.

### EmailOutbox

The rows (`status`, `attempts`), the two senders (`web` for `send_now` on commit,
`cron` for `send_pending_emails`) with the copies of the rows they read, and how
often the server accepted each e-mail. A save writes the copy's attempt count
over the row. Faults are answers of the server that are lost and senders that
die; refusals are always possible.

### EventCalendar

The event's row, which a request of staff loads (`LoadRow`) and then writes in
parts (`publish_event`, `cancel_event`: `update_fields`) or as a whole
(`save_model`, and `publish_and_redirect` for its button that publishes), while
`Sell` and `GiveBack` change a counter of it in the database. From the list of
events nothing is atomic: the status is saved, and its task is queued in the next
transaction (`owes`, `QueueTask`), before which another request may save another
status and queue its own, or the process may end (`LoseDesk`). The form does both
in one transaction. `latest` and `overtaken` are history: whether the task of the
newest status is the last one queued. The cron job lists the
tasks with a copy of the row (`ListTasks`), calls Google (`Patch`, `Insert`,
`DeleteEntry`, `CallFails`), stores the entry's id (`SaveId`) and the task
(`SaveTask`). Google is external and modelled by the calls the code makes.

### OfflineGate

A scanner has a list of tickets in memory and another in `localStorage`
(`list`, `stored`), a queue of scans accepted offline, the scan it is busy with,
the answer to the scan it is replaying (`flushing`), lists on their way
(`fetched`) and entries on the screen that can be undone. `ScanOnline` and
`ShowAnswer` are a scan with the network; `LookUp` and `LetInOffline` are
`handleOfflineScan`, two steps because the token is hashed asynchronously
between reading and marking the list, during which `ApplyManifest` may put
another list in its place. `SendHead`, `KeepHead` and `RemoveHead` are one round
of `flushQueue`. `Reload` keeps what `localStorage` keeps and nothing else. Once
the gate has closed it brings another page (`gate_closed.html`), which has neither
scanner nor `flushQueue`: such a scanner is in `shut_out`, and its queue stays in
`localStorage`. A page that was open before goes on sending.

### PoolActivation

Nothing stores whether a pool sells: `pools_with_status` computes it from the
clock, the counters and the overrides. The code's loop hands the status of one
pool to the next, but only asks of it whether it is exhausted, and a pool is that
by itself (`OwnStatus`), whatever the pools before it are; so `PoolStatus` looks
at the pool and the one before it, and needs no recursion. Actions are the clock, sales in the two steps
of `create_order` (look for the active pool, take a place), places given back,
and overrides. Every arrangement of dates that the form accepts is an initial
state of the module; the run leaves out some (`FewPools` in `MCServices`: pools
with both dates sell for some time, the last pool has both dates or none). An
event is as large as its pools together; ties in
`sales_start_at` are broken arbitrarily, as the query does.

### LayoutDocuments and SeatSelection

Operators without state: `validate_layout`, `clean_layout`, `expand_seats`,
`layout_counts`, `zone_price`, `selection_problem`. A document is a sequence of
objects with seats; sizes and positions are one field (`drawn`), and a label is
a text with a look (plain, padded, capitals), because labels are compared
without spaces and case but stored without spaces only. The code's loops are
written as sets: a seat is the pair of its object's number and its own
(`Seats`), and its row (`SeatRow`) is numbered by counting the seats drawn up to
it (`UpTo`), those taken out included, as `expand_seats` counts. That the loop
counts so is a matter of reading; that the rows are apart is proved.

### SeatingLayouts

One layout row after its first save (a new one is empty, and `clean_layout` lets no
event use it), with its version (`updated_at`), the snapshots of its events, and
the editors' tabs. `data_view` compares versions and asks for confirmation,
`Confirm` compares again, `save_layout` writes the row and lists the upcoming
events, `EndSave` gives the tab the new version. `sync_event_map` is one
transaction per event, in two steps: under the event's lock it reads the seats, and
refuses where a taken one would disappear; then `ReplaceSeats` deletes rows by key.
What takes the event's row waits in between (`Redrawing`: orders that begin or end,
attaching, another redraw); a buyer's swap and the staff's move do not
(`MoveSeat`), and may take a seat that is about to go. `gone` are the taken seats
that were deleted, `snatched` those that a swap or a move took between a plan and
its deletion. Beside them: another hall for the layout, archiving, attaching, a
redrawn hall, and time. Bounds: seats that all drafts have are not followed, and
once a seat was snatched or two requests have met, no new work begins
(`MoreWork`); what has begun goes on.

### HallRooms

A room is `base_geometry` (what `convert_hall` made of the technical model),
`overrides` (what the owner hid and drew) and `geometry` (both together, what
every map, editor and validator reads). `save_overrides`, `reset_room` and
`import_hall` load the row; `SaveRoom` writes it (the import all of it, the others
only what they changed), and `refresh_maps` puts it on the upcoming maps in
another transaction. `room_copy_view` makes a version. A geometry is a set of
elements known by id and by the key they are drawn under.

### EventEditing

The event, its pools, and the form of each clerk between its checks
(`changeform_view`, with `TicketPoolFormSet` and `EventAdminForm`) and its
transaction (`SaveForm`, with the prefetched pools in `listed`), while `Publish`,
`SellTicket` and `copy_event_for_new_date` go on. Sales are counted in days,
because the hard rule is that online sales end before the concert's day. Staff are
asked to confirm a change that buyers should hear of only if `_pending_changes`
can list it, and it checks the pools against the day on record, not the one in
the form (`Listable`): pools that reach past the old day are saved unasked together
with the new one (`unasked`: the paid orders this happened to).

## What the runs check

The runs of `OrderPayments` use symmetry of workers and of provider events only:
orders, pools and tickets are told apart by the constants. Those of
`SeatInventory` use symmetry of workers, seats and orders; `Layouts` and
`Quantity` are the same for all of them. The other runs use none.

| Run | Instance | Shows |
| --- | --- | --- |
| `order_payments` | a Stripe order of one place, a demo order of two places, two pools of 2 and 1 places, an event of two places, 3 provider events, 2 workers, 1 crash; 750 029 states | `NoOversell`, `NoLostPlaces`, `HandledOnce`, `TicketsOnlyForPaid`, `PaidHasTickets`, `IgnoredForAReason`, `ImplementsInventory`, `TransitionsFollowTable` |
| `order_payments_live` | the same orders, 2 events, 2 workers, no crash | `RecordedIsFinished`, `OrdersSettle` |
| `ticket_refunds` | three tickets priced 1, 1 and 2, two workers, 3 refund rows, 3 requests, 1 crash, one kind of fault per behaviour; about 880 000 states | `PlacesGivenBackOnce`, `NoTicketRefundedTwice`, `BooksFollowCharge`, `RestStayValid`, `TicketsFollowTable`, `RequestsSettle` |
| `duplicate_means_handled` | one pool, demo orders, a crash | violated: see below |
| `tickets_issued_once` | the same, 3 events | violated: see below |
| `refunded_tickets_invalid` | the same | violated: see below |
| `seat_inventory` | three seats, two orders of one seat, two workers, a pool of two, every layout of two or three seats; 1 233 877 states | `TypeOK`, `OwnersStand`, `CapacityIsSellable`, `NoSeatLost`, `ImplementsOwnership` |
| `same_number` | the same with one order | violated: see below |
| `redraw_keeps_taken` | the same with one order | violated: see below |
| `free_seat_means_room` | the same with one order | violated: see below |
| `services` | the smaller components, one per behaviour, with the bounds of the table below; 749 076 states | `ServicesTypeOK` and the eighteen properties of the smaller components |
| `capacity_follows_pools` | the same | violated: see below |

### Properties

Of `OrderPayments` and `SeatInventory`:

- `NoOversell`: the counters never fall below the places really claimed and
  never exceed the capacities. A claim is a live order's, or that of a worker
  between `_try_rereserve` and the `EXPIRED -> PAID` update.
- `NoLostPlaces`: as long as nobody crashed and no order's payment was confirmed
  twice, the counters equal the claims. Both exceptions are real: a crash, or a
  second late payment, between `_try_rereserve` and the update leaks places.
- `HandledOnce`: at most one request works on an event, and its record says
  `RECEIVED` meanwhile.
- `TicketsOnlyForPaid`, `PaidHasTickets`: tickets only for orders that were
  paid, and without crashes every paid order has its tickets or somebody at work
  on them.
- `IgnoredForAReason`: a payment is ignored only for an order that is no longer
  waiting; if the order is paid or refunded, another payment was accepted.
- `TransitionsFollowTable`: the code never consults `ORDER_TRANSITIONS`, but
  follows it, except that an order can go from `CREATED` to `FAILED` when its
  Stripe session runs out before it was stored. The table's retry
  (`FAILED -> PAYMENT_PENDING`) is not implemented anywhere.
- `ImplementsInventory`: the refinement of `TicketInventory`, an order holding
  its pool while its status is `CREATED`, `PAYMENT_PENDING` or `PAID`.
- `SeatInventory!TypeOK` holds the two database constraints
  `event_seat_order_matches_status` and `event_sold_within_capacity`. The model
  takes the second over where the code runs into it: a `block_seats` or a
  `RedrawMap` that would break it is refused, as the database does (run
  `free_seat_means_room` shows that this happens). The run shows that no other
  statement depends on it.
- `OwnersStand`: no seat stays with an order that was never paid and is given
  up. A seat may stay `SOLD` with an order that is `EXPIRED` (its late payment
  died after `_try_rereserve`) or `REFUNDED` (a second late payment). A seat
  moved while its payment is being claimed stays `HELD` with a `PAID` order,
  which is why `HELD` allows `PAID`.
- `CapacityIsSellable`: block and unblock adjust `capacity_total` by differences,
  attach and redraw by counting; it is always the number of seats not blocked.
- `NoSeatLost`: a live order loses a seat only when the seat's row is deleted,
  whatever swaps, moves and payments do from stale copies.
- `ImplementsOwnership`: the refinement of `SeatOwnership`.

Of `TicketRefunds` and `SalesReports`:

- `PlacesGivenBackOnce`: an order holds a place and a seat for every ticket no
  refund has been applied to, and none once it is refunded, whatever is admitted,
  crashes, overtakes or is lost; it needs requests that do not overlap.
- `NoTicketRefundedTwice`: pending and applied refunds are about different
  tickets and together about no more than was paid.
- `BooksFollowCharge`: the order never books more than was returned, even when
  the gate takes admissions back; and, when it does not, the same once nothing is
  under way, so that all reports agree (`ReportsAgree`).
- `RestStayValid`: a ticket is invalidated only by a refund of it or when all of
  the money is returned.
- `TicketsFollowTable`: the transitions of `tickets/models.py`, with the one
  exception the code makes: a ticket admitted after
  `invalidate_tickets_for_refunded_order` has read it becomes `REFUNDED`. It
  holds with overlapping requests too.
- `RequestsSettle`: a pending refund is applied, fails, or is covered by a
  refund of the whole order. Two overlapping requests can break it: the event of
  the one that was paid is matched to the row of the one that was refused, and
  the row that was paid stays `REQUESTED`.

Of the smaller components:

- `PlacesFollowOrders`, `DecisionTellsMoney`, `EveryBuyerTold`, `KeptMeansKept`
  (`EventCancellation`): the counters of both dates are the places of the orders
  there, also when some of their tickets are refunded; a decision says where the
  money is; every order still paid when the cancellation has run its course has
  been told; and keeping the tickets is overturned only by a job that had found the
  order undecided. The exceptions are in the statements: a ticket used before the
  event was cancelled (moving releases the order's whole quantity), an order whose
  money was returned on its own page (`by_hand`), orders made from an event loaded
  before it was cancelled, and late payments after the list was made.
- `OneCopy` (`EmailOutbox`): a second copy of an e-mail needs both senders to
  hold the row, a death before the save, or a lost answer.
- `RowWritesMeant`, `CalendarShowsEvent` (`EventCalendar`): only the change form
  can undo a sale or bring back a cancelled event's status, except a request
  that loaded the event before; and with all tasks queued and done the calendar
  shows a published event once and a cancelled one not at all, however requests met
  between the status and its task, unless the task of an older status was queued
  last, two tasks of the event were listed together, the form overwrote the row, or
  a job or a request died on the way.
- `NoEntryForgotten`, `SecondScanCaught` (`OfflineGate`): who was let in is used
  up on the server, refunded, or still in a queue (for good, on a scanner that was
  loaded again after the gate had closed); and no scanner lets a ticket in twice
  from one list.
- `PoolsTakeTurns`, `ClosedIsFinal` (`PoolActivation`): the pool offered is the
  first that is neither sold out nor closed, so that no earlier one still waits
  and a place that comes back is what the next buyer gets; and a closed event does
  not come back by itself. The first is said of pools nobody has set by hand and
  that do not end before they start, nor end without a start: such a pool is
  closed, and the next one may open before others whose date is still to come.
- `AcceptedLayoutsSell` (`SeatSelection`): what `validate_layout` accepts is
  stored as an equivalent document, gives rows that satisfy the database's
  constraints and print as different places, costs what the legend says, and
  every seat left can be bought by some selection whatever staff block.
- `MapsFollowLayout`, `SavesSeen` (`SeatingLayouts`): upcoming events sell by the
  layout as it is stored, unless they refused or two requests met; whatever meets,
  no seat that was taken when a redraw was planned leaves the map with it, only one
  that a swap or a move takes after that (divergence 5); and no save replaces a
  document its editor has not seen.
- `HallKeepsWishes` (`HallRooms`): whatever is imported, what the owner drew is
  drawn and what the owner hid is not.
- `PoolsStayApart`, `BuyersKnowDate` (`EventEditing`): pools neither overlap nor
  reach the concert's day, and no concert moves without a confirmation that
  shows its buyers, but for one put off together with pools that sell past its old
  day: its buyers know a day that is too early.
- `NothingWaitsForever`: decisions, e-mails, calendar tasks and queued scans do
  not wait for ever, the queue of a scanner in `shut_out` excepted.
- `ServicesTypeOK`: the types of all of them.

### Fairness

Nobody is assumed to buy, pay, cancel, refund, scan or answer. Assumed is:

- request threads that run go on (`WF` of each handler's steps);
- the cron loop comes round each minute, so `ExpireOrder`, `send_pending_emails`,
  `ListTasks` and `process_decision_deadlines` happen if they stay possible. The
  last is strongly fair, because another job may keep it waiting again and again
  when jobs run one at a time;
- Stripe delivers its events in the end, as it retries for days (`Deliver` in
  `TicketRefunds`);
- a scanner tries every 15 seconds (`scanner.html:209`), weakly fair, and an
  answer gets through now and then: `RemoveHead` is strongly fair, since each
  lost answer disables it for a while;
- the decision deadline passes.

`order_payments_live` is checked without crashes, because a crashed handler is
never resumed, which is the first divergence below. `NothingWaitsForever` allows
a job, a sender and a cron run to die, and `RequestsSettle` any fault
but crashes and overlapping requests.

### Bounds

Two orders that do not fit together make every counter test matter; three events
are what it takes to pay an order late twice, or to pay twice and refund; two
workers are enough for every race of two requests, and the proofs hold for any
number. For the seats, two live one-seat orders leave one free seat, so that a
swap, a move, a blocking or a redraw always meets a buyer who could take the same
seat. A redraw can drop any one seat. Three tickets of two prices let two refunds
have the same amount, or one the amount of the other two.

| Component of `services` | Bounds | Why they are enough |
| --- | --- | --- |
| cancellation | orders of one (Stripe) and two (demo) tickets, 3 old and 2 new places, 2 jobs, 1 lost job, 1 order refunded on its page | the new date has no room for both orders; two jobs are every pair that races; the demo order can be refunded in part |
| e-mail | 3 e-mails, 2 attempts, batches of 2, 1 fault | the batch leaves one out, the last attempt may race |
| calendar | 2 requests of staff, 1 cron job, 2 tasks, 2 attempts, 1 place, 1 fault; a request begins only if there is a row left for its task | a publication and a change or cancellation, saved in one order and queued in the other, listed together or apart |
| gate | 1 ticket, 2 scanners, queues of 2, 1 trouble, 1 list under way | the scanners compete for the ticket, and a queue may hold it twice |
| pools | 3 pools of one place, dates as `FewPools` has them, 2 instants, 1 buyer, 1 override | a pool has one before and one after it; all dates and rules of sell-out |
| documents | up to 2 objects, 3 seats, every form of label, mode and zone in `MCDocuments` | two objects collide in ids, labels and seats |
| layouts | 2 documents, 2 tabs, 2 events, 2 halls, 3 versions; no new work once a seat was snatched | the smaller document drops a seat; one event may refuse or pass |
| halls | 3 exports, 3 posts, 2 rooms, 2 saves at once or in turn | the id an owner drew may come with a later export, and one hidden may go |
| event form | 2 pools, 5 sets of pools, 2 days, 2 clerks, 2 saves, 1 sale | a date and its pools change together, before or after the sale |

Deadlock checking is off because a shop where everything is sold and settled, and
a component whose bounds are used up, may rest.

### Disagreements between the code and its documents

1. *Duplicate means handled* (`payments.py:4-7`). The record is committed
   before the handler starts. A process that dies in between leaves the event
   `RECEIVED`; redeliveries find the duplicate and do nothing, so the payment is
   never applied.
2. *Issue tickets only once* (`TICKETING_SPEC.md` 13.1). Two different payment
   events of one expired order, handled at the same time, both take the places
   back, both write `PAID` and both find no tickets.
3. *Refunded tickets become invalid* (`TICKETING_SPEC.md` 14.1). A refund
   processed between the payment claim and `issue_tickets_for_order` is
   followed by fresh valid tickets on the refunded order.
4. *Same number* (`orders/services.py`, `change_pending_order_seats`). The
   selection is compared with the order as it was read before the transaction.
   Two swaps of one order at once each hold a new seat and release the same old
   one: the order ends with more seats than places.
5. *A redraw keeps taken seats* (`seating/services.py`, `sync_event_map`). The
   event is locked but its seats are not, and the rows are deleted by key. A
   seat that is moved to or swapped for after the plan was made is deleted, and its
   order is left without it. (`MapsFollowLayout` shows that no redraw takes
   a taken seat in any other way.)
6. *A free seat means room* (`seating/services.py`, `block_seats`). A
   general-admission order can be created on an event that has meanwhile become
   seated, from the purchase page opened before. It takes a place but no seat,
   so free seats no longer imply room, and blocking one can be refused by the
   database.
7. *Capacity derived from the pools* (`events/admin.py:775-777`). `save_related`
   reads `event.pools.all()`, which `get_queryset` prefetched before the formset
   was saved (677-678, 794). After a pool is added, resized or deleted the
   event's `capacity_total` and `sales_start_at` are those of the pools before;
   the next save of the form corrects them.

### Observed on the way

Not runs of their own: each is an exception written into a property or an
abstraction, and would be found by dropping it.

- With a lost answer, a crash or overtaking events a partial refund is matched
  to another one or taken for a whole refund, and all tickets are invalidated,
  although the page says that the rest stay valid (`orders/admin.py:346`,
  `stripe_provider.py:121`). The sales report then disagrees with the cash flow.
- `by_event_view` shows what paid orders were worth without deducting partial
  refunds, unlike `_order_money_totals`. The settlement counts tickets that were
  admitted before their refund was applied.
- `copy_event_for_new_date` gives all pools of the copy the same dates, which
  `TicketPoolFormSet` (`events/admin.py:46-51`) would refuse.
- Several pools may be `ACTIVE` when a place of an earlier one comes back after
  the next has started; the earliest is sold from.
- A table sold as a whole may have more seats than an order may buy
  (`MAX_SEATS_PER_ORDER`), and blocking seats is what makes it sellable. A cheap
  zone of a cheap pool may round to nothing.
- `save_overrides` and `import_hall` load the room without a lock and write what
  they derived from the copy: an import and an owner at once leave a drawing of
  the old model, or lose the owner's changes (`room.py:101`, `import_hall.py:47`).
  Hidden ids are kept only while the model has them, so an element that goes and
  comes back is shown again.
- Saving the event form writes the sold counts as they were loaded.
- An order refunded on its own page (`orders/admin.py:313-331`) keeps its
  `cancellation_status`. A buyer who was asked and has not answered is then counted
  as undecided; the deadline job, or the buyer who chooses the refund, finds the
  order no longer `PAID` and records `REFUND_FAILED`, although the money has gone
  (`cancellation.py:151-157`). This takes no race at all.
- A concert put off in one form with pools that sell past its old date: the list of
  changes comes from a formset bound to the old row, which finds the pools too
  late and gives no list (`events/admin.py:605-609`). The form is saved without the
  question, and without the e-mail even if the question had been answered.
- From the list of events, publishing and cancelling save the status and queue the
  calendar's task in two transactions (`events/services.py:136-143`, `153-159`): a
  cancel between the two queues its task before the publication's, and the event
  stays in the calendar; a process that ends in between leaves no task.
- A scanner loaded again after the gate has closed gets a page that sends nothing:
  the entries it still has to report stay on the device
  (`checkin/views.py:37-49`, `scanner.html:204-209`).
- `cancel_view` without a new date calls Stripe inside its transaction: if the
  transaction fails, the money has left (`events/admin.py:454`).
- A queued scan that the server answers with an error, or that arrives after the
  gate was closed, is dropped; an undo may take back a newer admission than the
  one on the screen.

## What is proved

For every value of the constants: any orders, tickets, prices, pools, events,
workers, seats, scanners, editors, capacities, dates, numbers of crashes and
faults. The assumptions are those named in the modules, and say no more than that
constants have their types and that the sets that are counted or summed over are
finite:

| Module | Assumed |
| --- | --- |
| `OrderPayments` | tickets and workers are finite; capacities and bounds are natural; `None` is none of the values it stands in for |
| `SeatInventory` | seats are finite; layouts are non-empty sets of seats; an order is for at least one place; `None` is no order and no seat |
| `TicketRefunds` | `TicketsAssumption`: tickets are finite, prices and bounds natural, `None` is no refund row |
| `EventCancellation` | `QuantityAssumption`, `BuyersAssumption`: an order has at least one ticket, orders are finite |
| `OfflineGate` | `GateAssumption`: the bounds on queues and troubles are natural |
| `EmailOutbox` | `MailAssumption`: at least one attempt and a batch of at least one |
| `EventCalendar` | `CalendarAssumption`: at least one attempt; no entry is an absent one |
| `PoolActivation` | `PoolsAssumption`: at least one pool of at least one place |
| `EventEditing` | `EditingAssumption`: pools are finite, days are natural, forms have the fields of a form |
| `HallRooms` | `HallAssumption`: exports are sets of elements, what owners post is a set of overrides, the first room exists, bounds are natural |
| `LayoutDocuments` | `DocumentsAssumption`: what editors send are documents, limits are natural, percentages are integers |
| `SeatSelection` | `SelectionAssumption`: an order may hold at least one seat, limits are natural, prices are integers |
| `SeatingLayouts` | `LayoutsAssumption`: editors are finite, there is a hall and a version, drafts are documents, and the one stored at first has been accepted: the model starts after a layout's first save, because a new layout is empty and `clean_layout` refuses to make a map of it |

| Module | Theorem | Statement |
| --- | --- | --- |
| `OrderPayments_proofs` | `TypeCorrect` | `Spec => []TypeOK` |
| | `NeverOversold` | `Spec => []NoOversell` |
| | `ImplementsTheInventory` | `Spec => ImplementsInventory` |
| | `PlacesHeldFit` | `Spec => []Inventory!WithinCapacity` |
| | `EventsHandledOnce` | `Spec => []HandledOnce` |
| | `OrdersFollowTable` | `Spec => TransitionsFollowTable` |
| | `TicketsFollowPayment` | `Spec => []TicketsOnlyForPaid` |
| | `IgnoredPaymentsHaveReason` | `Spec => []IgnoredForAReason` |
| | `PaidOrdersGetTickets` | `Spec => []PaidHasTickets` |
| | `PlacesNeverLost` | `Spec => []NoLostPlaces` |
| `TicketRefunds_proofs` | `TypeCorrect` | `Spec => []TypeOK` |
| | `TicketsFollowTableAlways` | `Spec => TicketsFollowTable` |
| | `PlacesGivenBackOnceAlways` | `Spec => []PlacesGivenBackOnce` |
| | `NoTicketRefundedTwiceAlways` | `Spec => []NoTicketRefundedTwice` |
| | `RestStaysValid` | `Spec => []RestStayValid` |
| | `BooksFollowChargeAlways` | `Spec => []BooksFollowCharge` |
| `SeatInventory_proofs` | `TypeCorrect` | `Spec => []TypeOK` |
| | `SeatsStandWithTheirOrders` | `Spec => []OwnersStand` |
| | `CapacityCountsSeats` | `Spec => []CapacityIsSellable` |
| | `NoSeatLostAlways` | `Spec => NoSeatLost` |
| | `ImplementsTheOwnership` | `Spec => ImplementsOwnership` |
| `OfflineGate_proofs` | `GateTypesHold` | `GateSpec => []GateTypeOK` |
| | `EntriesNeverForgotten` | `GateSpec => []NoEntryForgotten` |
| | `SecondScansCaught` | `GateSpec => SecondScanCaught` |
| `EventCancellation_proofs` | `CancellationTypes` | `CancellationSpec => []CancellationTypeOK` |
| | `KeptTicketsStay` | `CancellationSpec => KeptMeansKept` |
| | `DecisionTellsMoneyAlways` | `CancellationSpec => []DecisionTellsMoney` |
| | `EveryBuyerToldAlways` | `CancellationSpec => []EveryBuyerTold` |
| | `PlacesFollowOrdersAlways` | `CancellationSpec => []PlacesFollowOrders` |
| `Services_proofs` | `CalendarTypesHold` | `CalendarSpec => []CalendarTypeOK` |
| | `CalendarAlwaysShowsEvent` | `CalendarSpec => []CalendarShowsEvent` |
| | `WritesAlwaysMeant` | `CalendarSpec => RowWritesMeant` |
| | `MailTypesHold` | `MailSpec => []MailTypeOK` |
| | `OneCopyAlways` | `MailSpec => []OneCopy` |
| | `PoolTypesHold` | `PoolSpec => []PoolTypeOK` |
| | `PoolsAlwaysTakeTurns` | `PoolSpec => []PoolsTakeTurns` |
| | `ClosedStaysClosed` | `PoolSpec => ClosedIsFinal` |
| | `EditTypesHold` | `EditSpec => []EditTypeOK` |
| | `PoolsAlwaysApart` | `EditSpec => []PoolsStayApart` |
| | `BuyersAlwaysKnow` | `EditSpec => []BuyersKnowDate` |
| | `RoomTypesHold` | `RoomsSpec => []RoomsTypeOK` |
| | `HallAlwaysKeepsWishes` | `RoomsSpec => []HallKeepsWishes` |
| | `AcceptedLayoutsAlwaysSell` | `document \in Document` implies `AcceptedLayoutsSell` |
| | `LayoutTypesHold` | `LayoutSpec => []LayoutTypeOK` |
| | `MapsAlwaysFollow` | `LayoutSpec => []MapsFollowLayout` |
| | `SavesAlwaysSeen` | `LayoutSpec => SavesSeen` |
| | `MapsAlwaysSell` | `LayoutSpec => []MapsCanSell` |
| `MCServices_proofs` | `ServicesKeepTypes` | `ServicesSpec => []ServicesTypeOK` |
| | `ServicesSellLayouts` | `ServicesSpec => []AcceptedLayoutsSell` |
| | `ServicesKeepPromises` | `ServicesSpec => [](...)`, the other invariants of the run |
| | `ServicesKeepSteps` | `ServicesSpec =>` the action properties of the run |

### Sums

Amounts, refunded counts and places are sums over sets (`SumOver`). `FiniteSums`
proves once what the other modules need of them: a sum exists and is an integer
(`SumExists`, `SumType`), the empty sum is 0, taking or adding one element, changing
one value, splitting a set in two, parts of sums of naturals, and the sum over a
union of sets that are apart (`SumUnion`). The definition is by a function on the
subsets of the set, chosen by its recursion equation, so that existence and
uniqueness can be shown by the smallest subset where two candidates differ
(`SmallestSubset`) instead of by an induction the provers cannot instantiate.

### Orders and payments

The inductive invariant `IInv` of `OrderPayments_proofs` is `TypeOK`,
`NoOversell` and three facts about rows and memory: an existing order names a
pool (`RowsOK`), an event is about an existing order (`EventsOK`), and a worker
at each point of its request knows an existing order and a delivered event about
it (`JobsOK`). Types need `NoOversell`: a counter stays natural only because a
live order's places are among the claims, and the claims are counted
(`LiveIsCounted`). `NoOversell` needs cardinalities of sets of claims; the four
ways a step changes that set are the lemmas `FewerClaims`, `MoreClaims`,
`ReleasedClaims` and `PassedClaims`, and each action is an instance of one.
The refinement maps `CreateOrder` and `PayLate` to `Take`, the releasing actions
to `Give` and every other step to a stutter; `Take`'s capacity test follows from
`NoOversell` because the places held are among those claimed.

The second half of `OrderPayments_proofs` adds, on top of `IInv`, that `HandledOnce` is inductive
by itself, that a payment exists only for an order that has been at checkout
(`PaymentsOK`, which rules out `CREATED -> PAID`), and that the position of a
worker in `mark_order_paid` bounds how far its order has come (`JobsPaid`).
It then says, once for all actions, what a step may do to a worker, an event and
an order (`Moves`, `StepsMove`); the rest of the argument never mentions an
action. Its invariant follows a payment through `mark_order_paid`: a worker past
the claim handles a payment (`JobsPay`), a payment about to be ignored is about an
order that had stopped waiting (`IgnoredOK`), a paid or refunded order has a
payment past every point at which it could still be ignored (`SettledByPayment`,
which needs `HandledOnce`: nobody else can be handling the payment just taken),
and without crashes a paid order has tickets or a worker that will issue them
(`TicketsUnderway`).

`NoLostPlaces` is `NoOversell` with equality, which holds only while nobody died
and no order was paid twice (`Quiet`). Then the counters are exactly the claims
(`Exact`), and the order a late payment takes places for is still `EXPIRED` when it
claims it (`LateWaits`): a single payment means a single worker, so nobody else
can have revived the order meanwhile, and the places taken are never dropped.

### Seats

`SeatInventory_proofs` has its own `IInv`: the types of rows and orders,
`OwnersStand` and `CapacityIsSellable`, and what a worker may rely on. `JobsOK`
says that a worker about to sell seats has an order that was paid, whatever
happened to it since, and that the seat a worker has locked still belongs to the
order it read; `OneMover` says that no other worker has the same seat locked,
without which the former would not be inductive. Each conjunct has its lemma, with
one step per action. `CapacityStep` shows that only four actions change the set of
seats that can be sold; `RefinementStep` names the step of `SeatOwnership` that
each action is.

`TypeOK` also says `0 <= sold_total <= capacity_total`. The lower bound is not
inductive alone: releasing an order subtracts its quantity. `Counted` is what it
takes: the quantities of all live orders, with those of the late payments that have
taken their places again, are at most `sold_total` (at most, because such a payment
may die). The upper bound is `Within`. `NoSeatLost` needs `KeysFit`: the set of
seats a worker has read or chosen for an order is as large as its quantity, or no
larger, so that a swap from a stale copy frees no more seats than it takes
(`SwapCounts`, `Exchanged`); that a sale or a block never meets a seat of another
live order; and `NothingAlive`: a map is attached only when `sold_total` is 0, and
by `Counted` no order is alive then.

### Refunds and reports

Types need only that the tickets a worker is about to save belong to a request
that has claimed the order (`SavesAfterClaim`), which also gives the one exception
of `TicketsFollowTable`. `PlacesGivenBackOnce` needs `Sharing`: only one request is
at work (`OneAtATime`), the refund rows that count are about different tickets
(`Apart`), a row about to be made is about tickets of no other (`CreateIsNew`),
tickets of an applied refund are never offered again (`AppliedNotIssued`), a
pending refund belongs to an order still `PAID` (`PendingIsOpen`), and a whole
refund knows what has been refunded so far (`ClaimIsFresh`); `Books` counts the
places. `NoTicketRefundedTwice` adds `Priced`: rows, requests and the order's books
carry the prices of their tickets, so that rows apart are together about no more
than was paid (`RowsApart`).

`RestStayValid` and `BooksFollowCharge` are about money that others return and
report later. Their invariant is the `Ledger`: the totals still to be delivered
form a line (`Line`) that begins at what the order has booked or is about to book
(`Base`); each next total is the one before it plus the amount of one pending
refund, a different one for each, or the whole; and Stripe's charge is the end of
the line. So the difference that the handler of `charge.refunded` computes is the amount
of a pending refund, and the earliest pending row of that amount may be taken,
though not the one that caused the event: refunds of one amount can be exchanged
(`Adds`, `LineGrows`, `LineEnds` and the lemmas after them). `Valid`, `Reported`,
`NotAhead`, `AllBooked` and `NoneLeft` say of every state in between what the
properties say of a state at rest; `Accounts` is all of them, under the faults each
allows.

### The smaller components

Types are an invariant of each component, but seldom inductive alone: a bound on
a counter needs to know which steps under way may still raise it. `MailCounts`,
`CalendarCounts`, `RoomCounts`, `LayoutCounts` and, for the gate, `FlushBusy` say so:
a sender holds only copies that may be tried once more (`MayBeTried`); the cron job's
copies are of different tasks that are still pending (`Listed`); a hall about to be
saved has no more drawings than `MAX_CUSTOM`; the tabs about to store are no more than
the versions left (`VersionsLeft`); a scanner that replays has a scan to replay.

`OfflineGate_proofs`: the invariant is that marks and lists of a scanner stay
apart and a ticket found valid is still in the list, or the list is a new one
without marks (`MarksApart`); that an admission whose answer is under way stands,
or the ticket is excused (`AnswersStand`); and that every ticket let in is used
up or among the scans the server has not carried out (`EntriesKept`, with
`Unsent`, the queue without a head whose answer is on its way).

`EventCancellation_proofs`: an order that was kept is on the new date, where no
cancellation lists it (`MovedAway`), and every order a job refunds or has still to
refund was undecided when the job found it (`FoundOpen`). So the only step that
overturns a kept order is `RecordRefund` of such a job. For the other three a job
and an order each carry what their state says (`Stands`), jobs that run one at a
time know the order as it is (`Serial`), an order whose money was returned is
recorded so or about to be, and no job still means to refund or keep it
(`MoneyFollows`), the orders not told yet are on the list of the one job that
cancels (`Told`), and the counters are sums of the quantities kept (`Counted`). A
refund on the order's page is a job that goes back to nothing (`JobAnswers`,
`OnPage`); what it does to the money is exactly `by_hand`.

`Services_proofs`, component by component:

- Calendar: undisturbed, the tasks are settled in turn, some `k` of them so far; the
  cron job is busy with the next one on a right copy, and Google shows what the last
  settled task wanted (`InTurn`), while the row has the status that the last task is
  about, or one whose task a request still owes (`LastMeant`).
- E-mail: of an e-mail nothing happened to, at most one sender holds the copy, the
  row waits while one does, and it was accepted once exactly when it says so or a
  sender is about to save that (`MailFine`).
- Pools: a pool that has sold, or that a buyer has found, could have had its turn:
  every pool up to it has reached its date or is let in by the one before
  (`Linked`, `Opened`). That stays true of it, while the pools before it may come
  back with a place; so whichever pool is first active, none before it waits.
- Event form: between its checks and its transaction a form stands as it was
  checked: its pools are apart, rows it does not change are as in the table, and
  buyers it is not to tell have nothing to be told, unless its changes could not be
  listed (`FormsStand`), as long as no two forms met.
- Halls: each row's geometry has exactly its own drawings and none of its own
  hidden elements (`Coherent`), whichever base it was drawn from; and as long as no
  two requests met on it, it is the base with the last accepted wishes
  (`AsWished`, with `Prepared` for the request under way).
- Documents: seats are pairs of numbers, finitely many (`SeatsOfDocument`,
  `SeatsFinite`), and storing a document changes neither which there are nor which are on
  sale (`CleanedSeats`), so the stored form is accepted (`StoredIsValid`) and stays as it
  is (`CleanedOnce`). Keys are apart by the check of seat ids, printed places by the
  checks of labels, indexes because a later seat counts the earlier ones and itself
  (`IndexesApart`). For a seat within reach the selection that buys it is named:
  the seat alone, or all of its table that is not blocked (`SomeSelection`).
- Layouts: what is stored, shown in a tab, under way or on a map is the stored form
  of an accepted draft, and a map has the keys drawn in it (`LayoutKnown`), which
  with `AcceptedCanBeSold` says that every event with a map can be sold
  (`MapsCanSell`). At most one request redraws an event at a time, what is taken and
  planned to go was snatched, and so was what has gone (`SeatsKept`, with `SeatsStay`,
  `PlanStep`, `ReplaceStep` and `OutsideStep` for its steps), whoever meets; unless requests
  overlap, one is at work, on the version that is stored (`OneRequest`); and what is
  not on its list any more has been carried over (`CarriedOver`).

`MCServices_proofs` puts them together: the variables of the components are apart, so
every step of `ServicesNext` is a step or a stutter of each (`ServicesStep`), and
every behaviour is one of each component (`ServicesAreComponents`), for any constants
and from any of the initial states the run picks. What the run checks is then what
the theorems of the components say, and the document that arrives never changes
(`DocumentStays`), so that `AcceptedLayoutsAlwaysSell` is about every state.

### What the proofs found

- `BooksFollowCharge` used to allow admissions that are taken back (`undo`). Its
  proof failed where a ticket becomes valid again after its refund was applied: it
  can be refunded once more, and with three tickets priced 1, 1 and 5 the books and
  the tickets part, which the prices of the run do not show. The property now names
  that fault where it matters.
- `PoolsTakeTurns` used to allow overrides that were set back, and pools with an end
  but no start. TLC shows both false with one instant more than the run has, and a
  third case with four pools and a place given back. The property now says what the
  code promises, without the bounds.
- `CalendarShowsEvent` had a premise about requests of staff under way that its
  invariant never uses; it is gone, and the property is stronger.
- What `expand_seats` gives used to be written with folds and filters of sequences,
  about which the provers can show nothing for every document. Written with
  sets it says the same, TLC checks the same property, and it can be proved.
- `LayoutTypeOK` needs what the model used without saying: the bound on versions is
  at least one, there is a hall, and the layout that events start with is one that
  `validate_layout` accepts (`LayoutsAssumption`).

- `MapsFollowLayout` used to say that no sold seat leaves a map, of a redraw in one
  step; with the plan and the deletion apart it does not, as `redraw_keeps_taken`
  shows, and the proof gives what is left of it.

### Only model-checked

Every invariant, action property and refinement of the passing runs is stated by a
theorem. Left to TLC are `RecordedIsFinished`, `OrdersSettle`, `RequestsSettle` and
`NothingWaitsForever`: liveness under fairness, and `ENABLED`, are outside the prover's
reach.

## Not modelled

- Geometry: the positions and shapes of tables, seats and halls, collisions and
  the other warnings of `validate_layout`, SVG output. They change no row that is modelled;
  whether an object lies within limits is one field.
- New and duplicated layouts (`new_layout_view`, `duplicate_view`,
  `save_as_view`): each makes a row of its own that no other request knows yet.
- Reports by period, day or month, CSV and PDF: filters and formats over the sums
  that are modelled.
- Accounts, roles, login and rate limits: the framework's, or per-process caches
  without effect on the modelled state. The audit log: written after each
  operation and read by nobody.
- Signatures of webhooks and tokens, QR codes, ticket PDFs, the texts of e-mails,
  the emergency list (a printout of the manifest), configuration, migrations and
  the templates other than the scanner.
- The change form of a single pool (`TicketPoolAdmin`, `events/admin.py:855-891`), which
  no page links to: it edits the pool's dates without the formset's checks, so
  `PoolsStayApart` is about the event's form only.
- The hall on a map is also written by `attach_layout` and `sync_event_map`, from the
  room they have loaded (`seating/services.py:107`, `216`); `HallRooms` has it from
  `refresh_maps` only, so what it says of maps redrawn since is about those.
- Between components: `MCServices` runs one smaller component at a time. They meet
  in rows that each of them models by what the others may do to it: sales in
  `EventCalendar` and `EventEditing`, refunds in `OfflineGate`, payments in
  `EventCancellation`, seats taken in `SeatingLayouts`.
