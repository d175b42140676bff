------------------------ MODULE TicketRefunds_proofs ------------------------
(***************************************************************************)
(* Theorems about TicketRefunds and SalesReports for every order, every    *)
(* number of request threads and every combination of faults, with their   *)
(* proofs.  In order: types and the table of statuses; requests that do    *)
(* not overlap; prices; the line of events Stripe reports refunds by; the  *)
(* ledger of the charge; which tickets stay valid; the books; the reports. *)
(***************************************************************************)
EXTENDS SalesReports, FiniteSums, FiniteSetTheorems, TLAPS

\* The vocabulary of the state and of the steps, expanded in every proof below.
USE DEF orderVars, fixed, providerVars, TicketStatus, Goto, Done, Begins

-----------------------------------------------------------------------------
(* The inductive invariant.                                                *)

\* A worker saves tickets as refunded only once the order is.
SavesAfterClaim == \A w \in Worker :
    job[w].pc \in {"tickets", "save"} => status = "REFUNDED"

IInv == TypeOK /\ SavesAfterClaim

\* Counting tickets gives a natural number.
LEMMA TicketsAreCounted ==
    ASSUME NEW S \in SUBSET Ticket
    PROVE  Cardinality(S) \in Nat
  BY TicketsAssumption, FS_Subset, FS_CardinalityType

LEMMA QuantityType == Quantity \in Nat
  BY TicketsAreCounted DEF Quantity

-----------------------------------------------------------------------------

JobsTyped == job \in [Worker -> Job({job[w].amount : w \in Worker})]
RefundsTyped == refund \in [RefundId -> OrderRefund({refund[r].amount : r \in RefundId})]

\* Rows and workers stay typed when one of them changes, whatever its amount.
LEMMA JobMoves ==
    ASSUME JobsTyped,
           NEW v \in Worker, NEW a, NEW j \in Job({a}), job' = [job EXCEPT ![v] = j]
    PROVE  JobsTyped'
  <1> USE DEF JobsTyped
  <1>1. ASSUME NEW w \in Worker PROVE job'[w] \in Job({job'[w].amount})
    <2>1. CASE w = v
      BY <2>1 DEF Job
    <2>2. CASE w # v
      BY <2>2 DEF Job
    <2>3. QED
      BY <2>1, <2>2
  <1>2. ASSUME NEW w \in Worker PROVE job'[w] \in Job({job'[u].amount : u \in Worker})
    BY <1>1 DEF Job
  <1>3. QED
    BY <1>2

LEMMA RefundMoves ==
    ASSUME RefundsTyped,
           NEW f \in [RefundId -> RefundStatus],
           refund' = [r \in RefundId |-> [refund[r] EXCEPT !.status = f[r]]]
    PROVE  RefundsTyped'
  <1> USE DEF RefundsTyped
  <1>1. ASSUME NEW r \in RefundId PROVE refund'[r] \in OrderRefund({refund'[r].amount})
    BY DEF OrderRefund
  <1>2. ASSUME NEW r \in RefundId
        PROVE  refund'[r] \in OrderRefund({refund'[q].amount : q \in RefundId})
    BY <1>1 DEF OrderRefund
  <1>3. QED
    BY <1>2

LEMMA RefundChanges ==
    ASSUME RefundsTyped, NEW q \in RefundId, NEW a, NEW x \in OrderRefund({a}),
           refund' = [refund EXCEPT ![q] = x]
    PROVE  RefundsTyped'
  <1> USE DEF RefundsTyped
  <1>1. ASSUME NEW r \in RefundId PROVE refund'[r] \in OrderRefund({refund'[r].amount})
    <2>1. CASE r = q
      BY <2>1 DEF OrderRefund
    <2>2. CASE r # q
      BY <2>2 DEF OrderRefund
    <2>3. QED
      BY <2>1, <2>2
  <1>2. ASSUME NEW r \in RefundId
        PROVE  refund'[r] \in OrderRefund({refund'[s].amount : s \in RefundId})
    BY <1>1 DEF OrderRefund
  <1>3. QED
    BY <1>2

LEMMA JobEnds ==
    ASSUME JobsTyped, NEW w \in Worker, Done(w)
    PROVE  JobsTyped'
  <1>1. Idle \in Job({Idle.amount})
    BY DEF Idle, Job, Pc
  <1>2. QED
    BY <1>1, JobMoves

LEMMA JobGoesOn ==
    ASSUME JobsTyped, NEW w \in Worker, NEW l \in Pc, Goto(w, l)
    PROVE  JobsTyped'
  <1> DEFINE j == [job[w] EXCEPT !.pc = l]
  <1>1. j \in Job({j.amount})
    BY DEF Job, JobsTyped
  <1>2. job' = [job EXCEPT ![w] = j]
    OBVIOUS
  <1> HIDE DEF j
  <1>3. QED
    BY <1>1, <1>2, JobMoves

LEMMA InitIInv == Init => IInv
  <1> SUFFICES ASSUME Init PROVE IInv
    OBVIOUS
  <1> USE DEF Init
  <1>1. /\ refunded_quantity \in Nat /\ sold \in Int /\ seats \subseteq Ticket
        /\ requests \in 0..MaxRequests /\ crashes \in 0..MaxCrashes
    BY QuantityType, TicketsAssumption
  <1>2. refund \in [RefundId -> OrderRefund({refund[r].amount : r \in RefundId})]
    BY DEF OrderRefund, RefundStatus
  <1>3. job \in [Worker -> Job({job[w].amount : w \in Worker})]
    BY DEF Job, Idle, Pc
  <1>4. QED
    BY <1>1, <1>2, <1>3 DEF IInv, TypeOK, SavesAfterClaim, Idle

-----------------------------------------------------------------------------
(* The workers' memory.                                                    *)

LEMMA JobsStep ==
    ASSUME TypeOK, [Next]_vars
    PROVE  JobsTyped'
  <1>0. JobsTyped
    BY DEF TypeOK, JobsTyped
  <1>1. ASSUME NEW w \in Worker, refund_order(w)
        PROVE  JobsTyped'
    <2> DEFINE j == [job[w] EXCEPT !.pc = "call_rest", !.amount = Gross - refunded_amount]
    <2>1. j \in Job({j.amount})
      BY <1>0 DEF Job, Pc, JobsTyped
    <2>2. job' = [job EXCEPT ![w] = j]
      BY <1>1 DEF refund_order
    <2> HIDE DEF j
    <2>3. QED
      BY <1>0, <2>1, <2>2, JobMoves
  <1>2. ASSUME NEW w \in Worker, NEW S \in SUBSET Ticket, refund_tickets(w, S)
        PROVE  JobsTyped'
    <2>1. PICK all \in BOOLEAN :
              job' = [job EXCEPT ![w] = [Idle EXCEPT
                          !.pc = IF all THEN "call_rest" ELSE "create",
                          !.tickets = IF all THEN {} ELSE S, !.amount = AmountFor(S)]]
      BY <1>2 DEF refund_tickets
    <2> DEFINE j == [Idle EXCEPT !.pc = IF all THEN "call_rest" ELSE "create",
                                 !.tickets = IF all THEN {} ELSE S, !.amount = AmountFor(S)]
    <2>2. j \in Job({j.amount})
      BY DEF Job, Pc, Idle
    <2>3. job' = [job EXCEPT ![w] = j]
      BY <2>1
    <2> HIDE DEF j
    <2>4. QED
      BY <1>0, <2>2, <2>3, JobMoves
  <1>3. ASSUME NEW w \in Worker, CreateRefund(w)
        PROVE  JobsTyped'
    <2>1. PICK r \in RefundId : job' = [job EXCEPT ![w].pc = "call", ![w].refund = r]
      BY <1>3 DEF CreateRefund
    <2> DEFINE j == [job[w] EXCEPT !.pc = "call", !.refund = r]
    <2>2. j \in Job({j.amount})
      BY <1>0 DEF Job, Pc, JobsTyped
    <2>3. job' = [job EXCEPT ![w] = j]
      BY <2>1
    <2> HIDE DEF j
    <2>4. QED
      BY <1>0, <2>2, <2>3, JobMoves
  <1>4. ASSUME NEW w \in Worker,
               \/ StripeRefund(w) \/ StripeRefuses(w) \/ StripeRefundRest(w)
               \/ apply_partial_refund(w) \/ Crash(w)
        PROVE  JobsTyped'
    <2>1. Done(w)
      BY <1>4 DEF StripeRefund, StripeRefuses, StripeRefundRest, apply_partial_refund, Crash
    <2>2. QED
      BY <1>0, <2>1, JobEnds
  <1>5. ASSUME NEW w \in Worker, DemoRefund(w)
        PROVE  JobsTyped'
    BY <1>0, <1>5, JobGoesOn DEF DemoRefund, Pc
  <1>6. ASSUME NEW w \in Worker, ReadOrder(w)
        PROVE  JobsTyped'
    <2> DEFINE j == [job[w] EXCEPT !.pc = "claim", !.seen = refunded_quantity]
    <2>1. j \in Job({j.amount})
      BY <1>0 DEF Job, Pc, JobsTyped, TypeOK
    <2>2. job' = [job EXCEPT ![w] = j]
      BY <1>6 DEF ReadOrder
    <2> HIDE DEF j
    <2>3. QED
      BY <1>0, <2>1, <2>2, JobMoves
  <1>7. ASSUME NEW w \in Worker, ClaimRefunded(w)
        PROVE  JobsTyped'
    <2>1. Goto(w, "tickets") \/ Done(w)
      BY <1>7 DEF ClaimRefunded
    <2>2. QED
      BY <1>0, <2>1, JobGoesOn, JobEnds DEF Pc
  <1>8. ASSUME NEW w \in Worker, ReadTickets(w)
        PROVE  JobsTyped'
    <2> DEFINE issued == {t \in Ticket : ticket[t] = "ISSUED"}
               j == [job[w] EXCEPT !.pc = "save", !.tickets = issued]
    <2>1. j \in Job({j.amount})
      BY <1>0 DEF Job, Pc, JobsTyped
    <2>2. Done(w) \/ job' = [job EXCEPT ![w] = j]
      BY <1>8 DEF ReadTickets
    <2> HIDE DEF j
    <2>3. QED
      BY <1>0, <2>1, <2>2, JobMoves, JobEnds
  <1>9. ASSUME NEW w \in Worker, NEW t \in Ticket, SaveTicket(w, t)
        PROVE  JobsTyped'
    <2> DEFINE j == [job[w] EXCEPT !.tickets = @ \ {t}]
    <2>1. j \in Job({j.amount})
      BY <1>0 DEF Job, JobsTyped
    <2>2. Done(w) \/ job' = [job EXCEPT ![w] = j]
      BY <1>9 DEF SaveTicket
    <2> HIDE DEF j
    <2>3. QED
      BY <1>0, <2>1, <2>2, JobMoves, JobEnds
  <1>10. ASSUME NEW w \in Worker, NEW total \in events, charge_refunded(w, total)
         PROVE  JobsTyped'
    <2>1. PICK r \in Earliest(Match(total)) :
              job' = [job EXCEPT ![w].pc = "handle", ![w].amount = total - refunded_amount,
                                 ![w].refund = r]
      BY <1>10 DEF charge_refunded
    <2>2. r \in RefundId \cup {None}
      BY DEF Earliest, Match, Pending
    <2> DEFINE j == [job[w] EXCEPT !.pc = "handle", !.amount = total - refunded_amount,
                                   !.refund = r]
    <2>3. j \in Job({j.amount})
      BY <1>0, <2>2 DEF Job, Pc, JobsTyped
    <2>4. job' = [job EXCEPT ![w] = j]
      BY <2>1
    <2> HIDE DEF j
    <2>5. QED
      BY <1>0, <2>3, <2>4, JobMoves
  <1>11. ASSUME NEW t \in Ticket, check_in(t) \/ undo_check_in(t)
         PROVE  JobsTyped'
    BY <1>0, <1>11 DEF check_in, undo_check_in, JobsTyped
  <1>12. CASE UNCHANGED vars
    BY <1>0, <1>12 DEF vars, JobsTyped
  <1>13. QED
    BY <1>1, <1>2, <1>3, <1>4, <1>5, <1>6, <1>7, <1>8, <1>9, <1>10, <1>11, <1>12
       DEF Next, Proceed, Deliver

-----------------------------------------------------------------------------
(* The refunds.                                                            *)

LEMMA RefundsStep ==
    ASSUME TypeOK, [Next]_vars
    PROVE  RefundsTyped'
  <1>0. RefundsTyped /\ JobsTyped
    BY DEF TypeOK, RefundsTyped, JobsTyped
  <1>1. ASSUME NEW w \in Worker, CreateRefund(w)
        PROVE  RefundsTyped'
    <2> DEFINE x == [status |-> "REQUESTED", tickets |-> job[w].tickets, amount |-> job[w].amount]
    <2>1. x \in OrderRefund({x.amount})
      BY <1>0 DEF JobsTyped, Job, OrderRefund, RefundStatus
    <2>2. PICK r \in RefundId : refund' = [refund EXCEPT ![r] = x]
      BY <1>1 DEF CreateRefund
    <2> HIDE DEF x
    <2>3. QED
      BY <1>0, <2>1, <2>2, RefundChanges
  <1>2. ASSUME NEW w \in Worker, NEW r,
               refund' = [refund EXCEPT ![r].status = IF @ = "REQUESTED" THEN "FAILED" ELSE @]
        PROVE  RefundsTyped'
    <2>1. CASE r \in RefundId
      <3> DEFINE x == [refund[r] EXCEPT !.status = IF @ = "REQUESTED" THEN "FAILED" ELSE @]
      <3>1. x \in OrderRefund({x.amount})
        BY <1>0, <2>1 DEF RefundsTyped, OrderRefund, RefundStatus
      <3>2. refund' = [refund EXCEPT ![r] = x]
        BY <1>2
      <3> HIDE DEF x
      <3>3. QED
        BY <1>0, <2>1, <3>1, <3>2, RefundChanges
    <2>2. CASE r \notin RefundId
      <3>1. refund' = refund
        BY <1>0, <1>2, <2>2 DEF RefundsTyped
      <3>2. QED
        BY <1>0, <3>1 DEF RefundsTyped
    <2>3. QED
      BY <2>1, <2>2
  <1>3. ASSUME NEW w \in Worker, StripeRefund(w) \/ StripeRefuses(w)
        PROVE  RefundsTyped'
    <2>1. \/ UNCHANGED refund
          \/ refund' = [refund EXCEPT ![job[w].refund].status =
                            IF @ = "REQUESTED" THEN "FAILED" ELSE @]
      BY <1>3 DEF StripeRefund, StripeRefuses
    <2>2. QED
      BY <1>0, <1>2, <2>1 DEF RefundsTyped
  <1>4. ASSUME NEW w \in Worker, apply_partial_refund(w)
        PROVE  RefundsTyped'
    <2>1. CASE job[w].refund \in Pending
      <3> DEFINE r == job[w].refund
                 x == [refund[r] EXCEPT !.status = "SUCCEEDED"]
      <3>1. r \in RefundId
        BY <2>1 DEF Pending
      <3>2. x \in OrderRefund({x.amount})
        BY <1>0, <3>1 DEF RefundsTyped, OrderRefund, RefundStatus
      <3>3. refund' = [refund EXCEPT ![r] = x]
        BY <1>4, <2>1 DEF apply_partial_refund
      <3> HIDE DEF x, r
      <3>4. QED
        BY <1>0, <3>1, <3>2, <3>3, RefundChanges
    <2>2. CASE job[w].refund \notin Pending
      BY <1>0, <1>4, <2>2 DEF apply_partial_refund, RefundsTyped
    <2>3. QED
      BY <2>1, <2>2
  <1>5. ASSUME NEW w \in Worker, ClaimRefunded(w)
        PROVE  RefundsTyped'
    <2> DEFINE f == [r \in RefundId |-> IF r \in Pending THEN "FAILED" ELSE refund[r].status]
    <2>1. f \in [RefundId -> RefundStatus]
      BY <1>0 DEF RefundsTyped, OrderRefund, RefundStatus
    <2>2. CASE status = "PAID"
      <3>1. refund' = [r \in RefundId |-> IF r \in Pending
                           THEN [refund[r] EXCEPT !.status = "FAILED"] ELSE refund[r]]
        BY <1>5, <2>2 DEF ClaimRefunded
      <3>2. ASSUME NEW r \in RefundId
            PROVE  refund'[r] = [refund[r] EXCEPT !.status = f[r]]
        BY <1>0, <3>1 DEF RefundsTyped, OrderRefund
      <3>3. refund' = [r \in RefundId |-> [refund[r] EXCEPT !.status = f[r]]]
        BY <3>1, <3>2
      <3> HIDE DEF f
      <3>4. QED
        BY <1>0, <2>1, <3>3, RefundMoves
    <2>3. CASE status # "PAID"
      BY <1>0, <1>5, <2>3 DEF ClaimRefunded, RefundsTyped
    <2>4. QED
      BY <2>2, <2>3
  <1>6. ASSUME UNCHANGED refund PROVE RefundsTyped'
    BY <1>0, <1>6 DEF RefundsTyped
  <1>7. QED
    BY <1>1, <1>3, <1>4, <1>5, <1>6
       DEF Next, Proceed, Deliver, vars, refund_order, refund_tickets, StripeRefundRest,
           DemoRefund, charge_refunded, ReadOrder, ReadTickets, SaveTicket, check_in,
           undo_check_in, Crash

-----------------------------------------------------------------------------
(* The order and its tickets.                                              *)

LEMMA OrderStep ==
    ASSUME TypeOK, [Next]_vars
    PROVE  /\ status' \in {"PAID", "REFUNDED"} /\ (status = "REFUNDED" => status' = "REFUNDED")
           /\ refunded_quantity' \in Nat /\ sold' \in Int /\ seats' \subseteq Ticket
  <1>0. /\ status \in {"PAID", "REFUNDED"} /\ refunded_quantity \in Nat
        /\ sold \in Int /\ seats \subseteq Ticket
        /\ RefundsTyped /\ JobsTyped
    BY DEF TypeOK, RefundsTyped, JobsTyped
  <1>1. ASSUME NEW w \in Worker, apply_partial_refund(w)
        PROVE  /\ status' \in {"PAID", "REFUNDED"} /\ (status = "REFUNDED" => status' = "REFUNDED")
               /\ refunded_quantity' \in Nat /\ sold' \in Int /\ seats' \subseteq Ticket
    <2>1. CASE job[w].refund \in Pending
      <3> DEFINE n == Cardinality(refund[job[w].refund].tickets)
      <3>1. n \in Nat
        BY <1>0, <2>1, TicketsAreCounted DEF Pending, RefundsTyped, OrderRefund
      <3>2. /\ refunded_quantity' = refunded_quantity + n /\ sold' = sold - n
            /\ seats' = seats \ refund[job[w].refund].tickets
            /\ status' = IF refunded_quantity + n >= Quantity THEN "REFUNDED" ELSE status
        BY <1>1, <2>1 DEF apply_partial_refund
      <3> HIDE DEF n
      <3>3. QED
        BY <1>0, <3>1, <3>2
    <2>2. CASE job[w].refund \notin Pending
      BY <1>0, <1>1, <2>2 DEF apply_partial_refund
    <2>3. QED
      BY <2>1, <2>2
  <1>2. ASSUME NEW w \in Worker, ClaimRefunded(w)
        PROVE  /\ status' \in {"PAID", "REFUNDED"} /\ (status = "REFUNDED" => status' = "REFUNDED")
               /\ refunded_quantity' \in Nat /\ sold' \in Int /\ seats' \subseteq Ticket
    <2>1. job[w].seen \in Nat
      BY <1>0 DEF JobsTyped, Job
    <2>2. QED
      BY <1>0, <1>2, <2>1, QuantityType DEF ClaimRefunded, release_capacity
  <1>3. ASSUME UNCHANGED orderVars
        PROVE  /\ status' \in {"PAID", "REFUNDED"} /\ (status = "REFUNDED" => status' = "REFUNDED")
               /\ refunded_quantity' \in Nat /\ sold' \in Int /\ seats' \subseteq Ticket
    BY <1>0, <1>3
  <1>4. QED
    BY <1>1, <1>2, <1>3
       DEF Next, Proceed, Deliver, vars, refund_order, refund_tickets, CreateRefund,
           StripeRefund, StripeRefuses, StripeRefundRest, DemoRefund, charge_refunded, ReadOrder,
           ReadTickets, SaveTicket, check_in, undo_check_in, Crash

LEMMA CountersStep ==
    ASSUME TypeOK, [Next]_vars
    PROVE  /\ requests' \in 0..MaxRequests /\ crashes' \in 0..MaxCrashes
           /\ UNCHANGED fixed
  <1> USE TicketsAssumption DEF TypeOK
  <1>1. ASSUME NEW w \in Worker,
               refund_order(w) \/ (\E S \in SUBSET Ticket : refund_tickets(w, S)) \/ Crash(w)
        PROVE  /\ requests' \in 0..MaxRequests /\ crashes' \in 0..MaxCrashes
               /\ UNCHANGED fixed
    <2>1. /\ UNCHANGED fixed
          /\ \/ requests < MaxRequests /\ requests' = requests + 1 /\ crashes' = crashes
             \/ crashes < MaxCrashes /\ crashes' = crashes + 1 /\ requests' = requests
      BY <1>1 DEF refund_order, refund_tickets, Crash
    <2> HIDE DEF fixed
    <2>2. QED
      BY <2>1
  <1>2. ASSUME UNCHANGED <<fixed, requests, crashes>>
        PROVE  /\ requests' \in 0..MaxRequests /\ crashes' \in 0..MaxCrashes
               /\ UNCHANGED fixed
    BY <1>2
  <1>3. QED
    BY <1>1, <1>2
       DEF Next, Proceed, Deliver, vars, CreateRefund, apply_partial_refund, ClaimRefunded,
           StripeRefund, StripeRefuses, StripeRefundRest, DemoRefund, charge_refunded, ReadOrder,
           ReadTickets, SaveTicket, check_in, undo_check_in

\* Tickets move along the table, but for one admitted after it was read.
Moves(from, to, t) ==
    \/ to = from
    \/ to \in TICKET_TRANSITIONS[from]
    \/ /\ <<from, to>> = <<"CHECKED_IN", "REFUNDED">>
       /\ status = "REFUNDED"
       /\ \E w \in Worker : t \in job[w].tickets

LEMMA TicketsStep ==
    ASSUME IInv, [Next]_vars
    PROVE  /\ ticket' \in [Ticket -> TicketStatus]
           /\ \A t \in Ticket : Moves(ticket[t], ticket'[t], t)
  <1>0. ticket \in [Ticket -> TicketStatus] /\ SavesAfterClaim
    BY DEF IInv, TypeOK
  <1> USE DEF Moves, TICKET_TRANSITIONS
  <1>1. ASSUME NEW w \in Worker, apply_partial_refund(w)
        PROVE  /\ ticket' \in [Ticket -> TicketStatus]
               /\ \A t \in Ticket : Moves(ticket[t], ticket'[t], t)
    <2>1. \/ ticket' = ticket
          \/ ticket' = [t \in Ticket |->
                 IF t \in refund[job[w].refund].tickets /\ ticket[t] = "ISSUED"
                 THEN "REFUNDED" ELSE ticket[t]]
      BY <1>1 DEF apply_partial_refund
    <2>2. QED
      BY <1>0, <2>1
  <1>2. ASSUME NEW w \in Worker, NEW t \in Ticket, SaveTicket(w, t)
        PROVE  /\ ticket' \in [Ticket -> TicketStatus]
               /\ \A u \in Ticket : Moves(ticket[u], ticket'[u], u)
    <2>1. ticket' = [ticket EXCEPT ![t] = "REFUNDED"]
      BY <1>2 DEF SaveTicket
    <2>2. status = "REFUNDED" /\ t \in job[w].tickets
      BY <1>0, <1>2 DEF SaveTicket, SavesAfterClaim
    <2>3. QED
      BY <1>0, <2>1, <2>2
  <1>3. ASSUME NEW t \in Ticket, check_in(t) \/ undo_check_in(t)
        PROVE  /\ ticket' \in [Ticket -> TicketStatus]
               /\ \A u \in Ticket : Moves(ticket[u], ticket'[u], u)
    BY <1>0, <1>3 DEF check_in, undo_check_in
  <1>4. ASSUME UNCHANGED ticket
        PROVE  /\ ticket' \in [Ticket -> TicketStatus]
               /\ \A t \in Ticket : Moves(ticket[t], ticket'[t], t)
    BY <1>0, <1>4
  <1>5. QED
    BY <1>1, <1>2, <1>3, <1>4
       DEF Next, Proceed, Deliver, vars, refund_order, refund_tickets, CreateRefund,
           StripeRefund, StripeRefuses, StripeRefundRest, DemoRefund, charge_refunded, ReadOrder,
           ClaimRefunded, ReadTickets, Crash

\* Steps that take a worker to another point of its request.
Proceeds(w) ==
    \/ refund_order(w) \/ (\E S \in SUBSET Ticket : refund_tickets(w, S))
    \/ CreateRefund(w) \/ DemoRefund(w) \/ ReadOrder(w)
    \/ \E total \in events : charge_refunded(w, total)

LEMMA SavesStep ==
    ASSUME IInv, [Next]_vars
    PROVE  SavesAfterClaim'
  <1>0. SavesAfterClaim /\ JobsTyped /\ (status = "REFUNDED" => status' = "REFUNDED")
    BY OrderStep DEF IInv, TypeOK, JobsTyped
  <1> USE DEF SavesAfterClaim
  <1>1. ASSUME NEW w \in Worker, ClaimRefunded(w)
        PROVE  SavesAfterClaim'
    BY <1>0, <1>1 DEF ClaimRefunded, JobsTyped, Job, Idle
  <1>2. ASSUME NEW w \in Worker, ReadTickets(w) \/ \E t \in Ticket : SaveTicket(w, t)
        PROVE  SavesAfterClaim'
    BY <1>0, <1>2 DEF ReadTickets, SaveTicket, JobsTyped, Job, Idle
  <1>3. ASSUME NEW w \in Worker, Done(w)
        PROVE  SavesAfterClaim'
    BY <1>0, <1>3 DEF JobsTyped, Job, Idle
  <1>4. ASSUME NEW w \in Worker, NEW j, job' = [job EXCEPT ![w] = j],
               j.pc \notin {"tickets", "save"}
        PROVE  SavesAfterClaim'
    BY <1>0, <1>4 DEF JobsTyped
  <1>5. ASSUME NEW w \in Worker, Proceeds(w)
        PROVE  SavesAfterClaim'
    <2>1. job[w] \in Job({job[v].amount : v \in Worker})
      BY <1>0 DEF JobsTyped
    <2>2. ASSUME refund_order(w) PROVE SavesAfterClaim'
      <3> DEFINE j == [job[w] EXCEPT !.pc = "call_rest", !.amount = Gross - refunded_amount]
      <3>1. job' = [job EXCEPT ![w] = j] /\ j.pc = "call_rest"
        BY <2>1, <2>2 DEF refund_order, Job
      <3> HIDE DEF j
      <3>2. QED
        BY <1>4, <3>1
    <2>3. ASSUME NEW S \in SUBSET Ticket, refund_tickets(w, S) PROVE SavesAfterClaim'
      <3>1. PICK all \in BOOLEAN :
                job' = [job EXCEPT ![w] = [Idle EXCEPT
                            !.pc = IF all THEN "call_rest" ELSE "create",
                            !.tickets = IF all THEN {} ELSE S, !.amount = AmountFor(S)]]
        BY <2>3 DEF refund_tickets
      <3> DEFINE j == [Idle EXCEPT !.pc = IF all THEN "call_rest" ELSE "create",
                                   !.tickets = IF all THEN {} ELSE S, !.amount = AmountFor(S)]
      <3>2. job' = [job EXCEPT ![w] = j] /\ j.pc \in {"call_rest", "create"}
        BY <3>1 DEF Idle
      <3> HIDE DEF j
      <3>3. QED
        BY <1>4, <3>2
    <2>4. ASSUME CreateRefund(w) PROVE SavesAfterClaim'
      <3>1. PICK r \in RefundId : job' = [job EXCEPT ![w].pc = "call", ![w].refund = r]
        BY <2>4 DEF CreateRefund
      <3> DEFINE j == [job[w] EXCEPT !.pc = "call", !.refund = r]
      <3>2. job' = [job EXCEPT ![w] = j] /\ j.pc = "call"
        BY <2>1, <3>1 DEF Job
      <3> HIDE DEF j
      <3>3. QED
        BY <1>4, <3>2
    <2>5. ASSUME DemoRefund(w) PROVE SavesAfterClaim'
      <3> DEFINE j == [job[w] EXCEPT !.pc = "handle"]
      <3>1. job' = [job EXCEPT ![w] = j] /\ j.pc = "handle"
        BY <2>1, <2>5 DEF DemoRefund, Job
      <3> HIDE DEF j
      <3>2. QED
        BY <1>4, <3>1
    <2>6. ASSUME ReadOrder(w) PROVE SavesAfterClaim'
      <3> DEFINE j == [job[w] EXCEPT !.pc = "claim", !.seen = refunded_quantity]
      <3>1. job' = [job EXCEPT ![w] = j] /\ j.pc = "claim"
        BY <2>1, <2>6 DEF ReadOrder, Job
      <3> HIDE DEF j
      <3>2. QED
        BY <1>4, <3>1
    <2>7. ASSUME NEW total \in events, charge_refunded(w, total) PROVE SavesAfterClaim'
      <3>1. PICK r : job' = [job EXCEPT ![w].pc = "handle", ![w].amount = total - refunded_amount,
                                        ![w].refund = r]
        BY <2>7 DEF charge_refunded
      <3> DEFINE j == [job[w] EXCEPT !.pc = "handle", !.amount = total - refunded_amount,
                                     !.refund = r]
      <3>2. job' = [job EXCEPT ![w] = j] /\ j.pc = "handle"
        BY <2>1, <3>1 DEF Job
      <3> HIDE DEF j
      <3>3. QED
        BY <1>4, <3>2
    <2>8. QED
      BY <1>5, <2>2, <2>3, <2>4, <2>5, <2>6, <2>7 DEF Proceeds
  <1>6. ASSUME UNCHANGED job PROVE SavesAfterClaim'
    BY <1>0, <1>6
  <1>7. QED
    BY <1>1, <1>2, <1>3, <1>5, <1>6
       DEF Next, Proceed, Deliver, Proceeds, vars, StripeRefund, StripeRefuses, StripeRefundRest,
           apply_partial_refund, check_in, undo_check_in, Crash

LEMMA StepIInv == IInv /\ [Next]_vars => IInv'
  <1> SUFFICES ASSUME IInv, [Next]_vars PROVE IInv'
    OBVIOUS
  <1>1. TypeOK
    BY DEF IInv
  <1>2. TypeOK'
    BY <1>1, JobsStep, RefundsStep, OrderStep, CountersStep, TicketsStep
       DEF TypeOK, JobsTyped, RefundsTyped, fixed
  <1>3. QED
    BY <1>2, SavesStep DEF IInv

-----------------------------------------------------------------------------
(* The theorems.                                                           *)

LEMMA Invariance == Spec => []IInv
  BY InitIInv, StepIInv, PTL DEF Spec

\* Whatever overlaps, dies or is delivered late, the order, its tickets, its
\* refunds and the requests' memory keep their types, counters being integers
\* that nothing bounds here: overlapping refunds may give back more than was
\* taken (orders/payments.py, orders/refunds.py).
THEOREM TypeCorrect == Spec => []TypeOK
  BY Invariance, PTL DEF IInv

\* Whatever overlaps, dies or is delivered late, a refunded ticket stays
\* refunded, and an admitted one is refunded only by
\* invalidate_tickets_for_refunded_order, of a refunded order, which read it
\* before the gate admitted it (tickets/services.py:165-179).
THEOREM TicketsFollowTableAlways == Spec => TicketsFollowTable
  <1>1. IInv /\ [Next]_vars => [\A t \in Ticket : ticket'[t] # ticket[t] =>
           \/ ticket'[t] \in TICKET_TRANSITIONS[ticket[t]]
           \/ /\ <<ticket[t], ticket'[t]>> = <<"CHECKED_IN", "REFUNDED">>
              /\ status = "REFUNDED"
              /\ \E w \in Worker : t \in job[w].tickets]_ticket
    BY TicketsStep DEF Moves
  <1>2. QED
    BY <1>1, Invariance, PTL DEF Spec, TicketsFollowTable

-----------------------------------------------------------------------------
(* Places are given back once, as long as requests about the order do not  *)
(* overlap and the gate takes no admission back.                           *)

Careful == allowed \cap {"overlap", "undo"} = {}

OneAtATime == \A v, w \in Worker : job[v].pc # "idle" /\ job[w].pc # "idle" => v = w

\* Tickets of an applied refund are never refundable again.
AppliedNotIssued == \A r \in Applied : \A t \in refund[r].tickets : ticket[t] # "ISSUED"

\* Refunds that count are about different tickets.
Apart == \A q, r \in Applied \cup Pending :
    q # r => refund[q].tickets \cap refund[r].tickets = {}

PendingIsOpen == \A r \in Pending : refund[r].tickets # {} /\ status = "PAID"

\* A row about to be made is about tickets no other row is about.
CreateIsNew == \A w \in Worker : job[w].pc = "create" =>
    /\ status = "PAID" /\ job[w].tickets # {}
    /\ \A r \in Applied \cup Pending : refund[r].tickets \cap job[w].tickets = {}

\* A full refund knows what has been refunded so far.
ClaimIsFresh == \A w \in Worker : job[w].pc = "claim" => job[w].seen = refunded_quantity

Books ==
    IF status = "REFUNDED" THEN sold = 0 /\ seats = {}
    ELSE /\ seats = Ticket \ AppliedTickets
         /\ sold = Cardinality(seats)
         /\ refunded_quantity = Quantity - sold

Order == AppliedNotIssued /\ Apart /\ PendingIsOpen /\ Books
Sharing == OneAtATime /\ CreateIsNew /\ ClaimIsFresh /\ Order

\* The worker of a step was alone, and so remains.
Acts(w) ==
    \/ refund_order(w) \/ (\E S \in SUBSET Ticket : refund_tickets(w, S))
    \/ Proceed(w) \/ (\E total \in events : charge_refunded(w, total)) \/ Crash(w)

LEMMA Actor ==
    ASSUME TypeOK, "overlap" \notin allowed, OneAtATime, [Next]_vars
    PROVE  \/ UNCHANGED <<job, orderVars, refund>>
           \/ \E w \in Worker :
                 /\ Acts(w)
                 /\ \A v \in Worker \ {w} : job'[v] = job[v] /\ job[v].pc = "idle"
  <1>0. JobsTyped
    BY DEF TypeOK, JobsTyped
  <1>1. ASSUME NEW w \in Worker, NEW v \in Worker \ {w}, Acts(w)
        PROVE  job'[v] = job[v]
    BY <1>0, <1>1
       DEF JobsTyped, Acts, Proceed, refund_order, refund_tickets, CreateRefund, StripeRefund,
           StripeRefuses, StripeRefundRest, DemoRefund, charge_refunded, apply_partial_refund,
           ReadOrder, ClaimRefunded, ReadTickets, SaveTicket, Crash
  <1>2. ASSUME NEW w \in Worker, NEW v \in Worker \ {w}, Acts(w)
        PROVE  job[v].pc = "idle"
    <2>1. job[w].pc # "idle" \/ \A u \in Worker : job[u].pc = "idle"
      BY <1>0, <1>2
         DEF Acts, Proceed, refund_order, refund_tickets, CreateRefund, StripeRefund,
             StripeRefuses, StripeRefundRest, DemoRefund, charge_refunded, apply_partial_refund,
             ReadOrder, ClaimRefunded, ReadTickets, SaveTicket, Crash
    <2>2. QED
      BY <2>1 DEF OneAtATime
  <1>3. ASSUME NEW t \in Ticket, check_in(t) \/ undo_check_in(t)
        PROVE  UNCHANGED <<job, orderVars, refund>>
    BY <1>3 DEF check_in, undo_check_in
  <1>4. (\E w \in Worker : Acts(w)) \/ (\E t \in Ticket : check_in(t) \/ undo_check_in(t))
        \/ UNCHANGED vars
    BY DEF Next, Acts, Deliver
  <1>5. QED
    BY <1>1, <1>2, <1>3, <1>4 DEF vars

LEMMA StaysAlone ==
    ASSUME TypeOK, "overlap" \notin allowed, OneAtATime, [Next]_vars
    PROVE  OneAtATime'
  BY Actor DEF OneAtATime

\* Where a step takes its worker.
LEMMA GoesTo ==
    ASSUME JobsTyped, NEW w \in Worker
    PROVE  /\ refund_order(w) => job'[w].pc = "call_rest"
           /\ \A S \in SUBSET Ticket : refund_tickets(w, S) =>
                  \/ job'[w].pc = "call_rest"
                  \/ job'[w].pc = "create" /\ job'[w].tickets = S /\ job'[w].amount = AmountFor(S)
           /\ CreateRefund(w) => job'[w].pc = "call"
           /\ DemoRefund(w) => job'[w].pc = "handle"
           /\ \A total \in events : charge_refunded(w, total) => job'[w].pc = "handle"
           /\ ReadOrder(w) => job'[w].pc = "claim" /\ job'[w].seen = refunded_quantity
           /\ ClaimRefunded(w) => job'[w].pc \in {"tickets", "idle"}
           /\ ReadTickets(w) => job'[w].pc \in {"save", "idle"}
           /\ \A t \in Ticket : SaveTicket(w, t) => job'[w].pc \in {"save", "idle"}
           /\ StripeRefund(w) \/ StripeRefuses(w) \/ StripeRefundRest(w)
              \/ apply_partial_refund(w) \/ Crash(w) => job'[w].pc = "idle"
  <1>0. job[w] \in Job({job[v].amount : v \in Worker}) /\ DOMAIN job = Worker
    BY DEF JobsTyped
  <1>1. Done(w) => job'[w].pc = "idle"
    BY <1>0 DEF Idle
  <1>2. \A l : Goto(w, l) => job'[w].pc = l
    BY <1>0 DEF Job
  <1>3. refund_order(w) => job'[w].pc = "call_rest"
    BY <1>0 DEF Job, refund_order
  <1>4. ASSUME NEW S \in SUBSET Ticket, refund_tickets(w, S)
        PROVE  \/ job'[w].pc = "call_rest"
               \/ job'[w].pc = "create" /\ job'[w].tickets = S /\ job'[w].amount = AmountFor(S)
    <2>1. PICK all \in BOOLEAN :
              job' = [job EXCEPT ![w] = [Idle EXCEPT
                          !.pc = IF all THEN "call_rest" ELSE "create",
                          !.tickets = IF all THEN {} ELSE S, !.amount = AmountFor(S)]]
      BY <1>4 DEF refund_tickets
    <2>2. job'[w] = [Idle EXCEPT !.pc = IF all THEN "call_rest" ELSE "create",
                                 !.tickets = IF all THEN {} ELSE S, !.amount = AmountFor(S)]
      BY <1>0, <2>1
    <2>3. QED
      BY <2>2 DEF Idle
  <1>5. CreateRefund(w) => job'[w].pc = "call"
    BY <1>0 DEF Job, CreateRefund
  <1>6. DemoRefund(w) => job'[w].pc = "handle"
    BY <1>2 DEF DemoRefund
  <1>7. \A total \in events : charge_refunded(w, total) => job'[w].pc = "handle"
    BY <1>0 DEF Job, charge_refunded
  <1>8. ReadOrder(w) => job'[w].pc = "claim" /\ job'[w].seen = refunded_quantity
    BY <1>0 DEF Job, ReadOrder
  <1>9. ClaimRefunded(w) => job'[w].pc \in {"tickets", "idle"}
    BY <1>1, <1>2 DEF ClaimRefunded
  <1>10. ReadTickets(w) => job'[w].pc \in {"save", "idle"}
    BY <1>0, <1>1 DEF Job, ReadTickets
  <1>11. \A t \in Ticket : SaveTicket(w, t) => job'[w].pc \in {"save", "idle"}
    BY <1>0, <1>1 DEF Job, SaveTicket
  <1>12. StripeRefund(w) \/ StripeRefuses(w) \/ StripeRefundRest(w)
         \/ apply_partial_refund(w) \/ Crash(w) => job'[w].pc = "idle"
    BY <1>1 DEF StripeRefund, StripeRefuses, StripeRefundRest, apply_partial_refund, Crash
  <1>13. QED
    BY <1>3, <1>4, <1>5, <1>6, <1>7, <1>8, <1>9, <1>10, <1>11, <1>12

\* Who is about to make a row was there already, with nothing changed since,
\* or has just asked for refundable tickets.
LEMMA AtCreate ==
    ASSUME TypeOK, "overlap" \notin allowed, OneAtATime, [Next]_vars, NEW w \in Worker, job'[w].pc = "create"
    PROVE  \/ \E S \in SUBSET Ticket :
                  refund_tickets(w, S) /\ job'[w].tickets = S /\ job'[w].amount = AmountFor(S)
           \/ job[w].pc = "create" /\ job'[w] = job[w] /\ UNCHANGED <<orderVars, refund>>
  <1>0. JobsTyped
    BY DEF TypeOK, JobsTyped
  <1>1. CASE UNCHANGED <<job, orderVars, refund>>
    BY <1>1
  <1>2. ASSUME NEW v \in Worker, Acts(v), v # w, job'[w] = job[w], job[w].pc = "idle"
        PROVE  FALSE
    BY <1>2
  <1>3. ASSUME Acts(w)
        PROVE  \E S \in SUBSET Ticket :
                   refund_tickets(w, S) /\ job'[w].tickets = S /\ job'[w].amount = AmountFor(S)
    <2>1. PICK S \in SUBSET Ticket : refund_tickets(w, S)
      BY <1>0, <1>3, GoesTo DEF Acts, Proceed
    <2>2. QED
      BY <1>0, <2>1, GoesTo
  <1>4. QED
    BY <1>1, <1>2, <1>3, Actor

LEMMA AtClaim ==
    ASSUME TypeOK, "overlap" \notin allowed, OneAtATime, [Next]_vars, NEW w \in Worker, job'[w].pc = "claim"
    PROVE  \/ job'[w].seen = refunded_quantity /\ UNCHANGED orderVars
           \/ job[w].pc = "claim" /\ job'[w] = job[w] /\ UNCHANGED orderVars
  <1>0. JobsTyped
    BY DEF TypeOK, JobsTyped
  <1>1. CASE UNCHANGED <<job, orderVars, refund>>
    BY <1>1
  <1>2. ASSUME NEW v \in Worker, Acts(v), v # w, job'[w] = job[w], job[w].pc = "idle"
        PROVE  FALSE
    BY <1>2
  <1>3. ASSUME Acts(w)
        PROVE  job'[w].seen = refunded_quantity /\ UNCHANGED orderVars
    <2>1. ReadOrder(w)
      BY <1>0, <1>3, GoesTo DEF Acts, Proceed
    <2>2. QED
      BY <1>0, <2>1, GoesTo DEF ReadOrder
  <1>4. QED
    BY <1>1, <1>2, <1>3, Actor

\* The refunds that count, and what a step that fails some makes of them.
LEMMA FailedCountNoMore ==
    ASSUME RefundsTyped, NEW S \in SUBSET RefundId,
           \A r \in RefundId : refund'[r] = IF r \in S /\ r \in Pending
                                            THEN [refund[r] EXCEPT !.status = "FAILED"]
                                            ELSE refund[r],
           Order, UNCHANGED orderVars, \A t \in Ticket : ticket'[t] = "ISSUED" => ticket[t] = "ISSUED"
    PROVE  Order' /\ Applied' = Applied /\ Pending' = Pending \ S
  <1>1. \A r \in RefundId : refund'[r].tickets = refund[r].tickets
    BY DEF RefundsTyped, OrderRefund
  <1>2. Applied' = Applied /\ Pending' = Pending \ S
    <2>1. ASSUME NEW r \in RefundId
          PROVE  refund'[r].status = IF r \in S /\ refund[r].status = "REQUESTED"
                                     THEN "FAILED" ELSE refund[r].status
      BY DEF RefundsTyped, OrderRefund, Pending
    <2>2. QED
      BY <2>1 DEF Applied, Pending
  <1>3. AppliedTickets' = AppliedTickets
    BY <1>1, <1>2 DEF AppliedTickets, Applied
  <1>4. AppliedNotIssued'
    <2>1. ASSUME NEW r \in Applied', NEW t \in refund'[r].tickets
          PROVE  ticket'[t] # "ISSUED"
      <3>1. r \in RefundId /\ r \in Applied /\ t \in refund[r].tickets
        BY <1>1, <1>2 DEF Applied
      <3>2. t \in Ticket
        BY <3>1 DEF RefundsTyped, OrderRefund
      <3>3. QED
        BY <3>1, <3>2 DEF Order, AppliedNotIssued
    <2>2. QED
      BY <2>1 DEF AppliedNotIssued
  <1>5. Apart' /\ PendingIsOpen'
    BY <1>1, <1>2 DEF Order, Apart, PendingIsOpen, Applied, Pending
  <1>6. Books'
    BY <1>3 DEF Order, Books
  <1>7. QED
    BY <1>2, <1>4, <1>5, <1>6 DEF Order

LEMMA UnchangedRefunds ==
    ASSUME RefundsTyped, Order, UNCHANGED <<orderVars, refund>>,
           \A t \in Ticket : ticket'[t] = "ISSUED" => ticket[t] = "ISSUED"
    PROVE  Order'
  <1>1. PICK S \in SUBSET RefundId : S = {}
    OBVIOUS
  <1>2. \A r \in RefundId : refund'[r] = IF r \in S /\ r \in Pending
                                         THEN [refund[r] EXCEPT !.status = "FAILED"]
                                         ELSE refund[r]
    BY <1>1
  <1>3. UNCHANGED orderVars
    OBVIOUS
  <1> HIDE DEF orderVars
  <1>4. QED
    BY <1>2, <1>3, FailedCountNoMore

\* A new row keeps apart from the others.
LEMMA CreateKeepsOrder ==
    ASSUME TypeOK, Sharing, NEW w \in Worker, CreateRefund(w)
    PROVE  Order'
  <1>0. RefundsTyped /\ JobsTyped /\ job[w].pc = "create"
    BY DEF TypeOK, RefundsTyped, JobsTyped, CreateRefund
  <1>1. PICK r \in RefundId :
            /\ \A q \in RefundId : refund[q].status = "NONE" <=> q >= r
            /\ refund' = [refund EXCEPT ![r] = [status |-> "REQUESTED",
                              tickets |-> job[w].tickets, amount |-> job[w].amount]]
    BY DEF CreateRefund
  <1>2. refund[r].status = "NONE"
    BY <1>1, TicketsAssumption DEF RefundId
  <1>3. /\ refund'[r].status = "REQUESTED" /\ refund'[r].tickets = job[w].tickets
        /\ \A q \in RefundId \ {r} : refund'[q] = refund[q]
    BY <1>0, <1>1 DEF RefundsTyped
  <1>4. Applied' = Applied /\ Pending' = Pending \cup {r} /\ r \notin Applied \cup Pending
    BY <1>2, <1>3 DEF Applied, Pending
  <1>5. \A q \in Applied \cup Pending : refund'[q] = refund[q]
    BY <1>3, <1>4 DEF Applied, Pending
  <1>6. AppliedTickets' = AppliedTickets
    BY <1>4, <1>5 DEF AppliedTickets
  <1>7. UNCHANGED <<orderVars, ticket>>
    BY DEF CreateRefund
  <1>8. /\ status = "PAID" /\ job[w].tickets # {}
        /\ \A q \in Applied \cup Pending : refund[q].tickets \cap job[w].tickets = {}
    BY <1>0 DEF Sharing, CreateIsNew
  <1>9. AppliedNotIssued'
    BY <1>4, <1>5, <1>7 DEF Sharing, Order, AppliedNotIssued
  <1>10. Apart' /\ PendingIsOpen'
    BY <1>3, <1>4, <1>5, <1>7, <1>8 DEF Sharing, Order, Apart, PendingIsOpen
  <1>11. Books'
    BY <1>6, <1>7 DEF Sharing, Order, Books
  <1>12. QED
    BY <1>9, <1>10, <1>11 DEF Order

\* An applied refund takes its tickets, their seats and their places.
LEMMA ApplyKeepsOrder ==
    ASSUME TypeOK, Order, NEW w \in Worker, apply_partial_refund(w), job[w].refund \in Pending
    PROVE  Order'
  <1> DEFINE r == job[w].refund
             S == refund[r].tickets
             n == Cardinality(S)
  <1>0. /\ RefundsTyped /\ r \in RefundId /\ r \in Pending /\ S \subseteq Ticket
        /\ ticket \in [Ticket -> TicketStatus] /\ sold \in Int /\ refunded_quantity \in Nat
        /\ status \in {"PAID", "REFUNDED"}
    BY DEF TypeOK, RefundsTyped, Pending, OrderRefund
  <1>1. /\ refund' = [refund EXCEPT ![r].status = "SUCCEEDED"]
        /\ ticket' = [t \in Ticket |-> IF t \in S /\ ticket[t] = "ISSUED"
                                       THEN "REFUNDED" ELSE ticket[t]]
        /\ seats' = seats \ S
        /\ sold' = sold - n
        /\ refunded_quantity' = refunded_quantity + n
        /\ status' = IF refunded_quantity + n >= Quantity THEN "REFUNDED" ELSE status
    BY DEF apply_partial_refund
  <1> HIDE DEF r
  <1>2. /\ refund'[r].status = "SUCCEEDED"
        /\ \A q \in RefundId : refund'[q].tickets = refund[q].tickets
        /\ \A q \in RefundId \ {r} : refund'[q] = refund[q]
    BY <1>0, <1>1 DEF RefundsTyped, OrderRefund
  <1>3. Applied' = Applied \cup {r} /\ Pending' = Pending \ {r}
    BY <1>0, <1>2 DEF Applied, Pending
  <1>4. r \notin Applied /\ Applied \subseteq RefundId /\ Pending \subseteq RefundId
    BY <1>0 DEF Applied, Pending
  <1>5. AppliedTickets' = AppliedTickets \cup S
    BY <1>0, <1>2, <1>3, <1>4 DEF AppliedTickets
  <1>6. AppliedTickets \cap S = {}
    BY <1>0, <1>4 DEF Order, Apart, AppliedTickets
  <1>7. status = "PAID"
    BY <1>0 DEF Order, PendingIsOpen
  <1>8. /\ seats = Ticket \ AppliedTickets /\ sold = Cardinality(seats)
        /\ refunded_quantity = Quantity - sold
    BY <1>7 DEF Order, Books
  <1>9. S \subseteq seats /\ IsFiniteSet(seats) /\ IsFiniteSet(S)
    BY <1>0, <1>6, <1>8, TicketsAssumption, FS_Subset
  <1>10. /\ Cardinality(seats \ S) = sold - n /\ n \in Nat /\ n <= sold
         /\ n = sold => S = seats
    <2>1. seats \cap S = S
      BY <1>9
    <2>2. /\ Cardinality(seats) \in Nat /\ n \in Nat
          /\ Cardinality(seats \ S) = Cardinality(seats) - Cardinality(seats \cap S)
      BY <1>9, FS_Difference, FS_CardinalityType
    <2>3. S \in SUBSET seats
      BY <1>9
    <2> HIDE DEF S
    <2>4. n <= Cardinality(seats) /\ (Cardinality(seats) = n => seats = S)
      BY <1>9, <2>3, FS_Subset
    <2>5. QED
      BY <1>8, <2>1, <2>2, <2>4
  <1> HIDE DEF S, n
  <1>11. AppliedNotIssued'
    <2>1. ASSUME NEW q \in Applied', NEW t \in refund'[q].tickets
          PROVE  ticket'[t] # "ISSUED"
      <3>1. q \in RefundId /\ t \in refund[q].tickets /\ t \in Ticket
        BY <1>0, <1>2, <1>3, <1>4 DEF RefundsTyped, OrderRefund
      <3>2. CASE q = r
        BY <1>1, <3>1, <3>2 DEF S
      <3>3. CASE q # r
        <4>1. ticket[t] # "ISSUED"
          BY <1>3, <3>1, <3>3 DEF Order, AppliedNotIssued
        <4>2. QED
          BY <1>1, <3>1, <4>1
      <3>4. QED
        BY <3>2, <3>3
    <2>2. QED
      BY <2>1 DEF AppliedNotIssued
  <1>12. Apart'
    BY <1>0, <1>2, <1>3, <1>4 DEF Order, Apart
  <1>13. refunded_quantity + n >= Quantity <=> n = sold
    BY <1>0, <1>8, <1>10, QuantityType
  <1>14. PendingIsOpen'
    <2>1. ASSUME NEW q \in Pending' PROVE refund'[q].tickets # {} /\ status' = "PAID"
      <3>1. q \in Pending /\ q # r /\ q \in RefundId
        BY <1>3, <1>4
      <3>2. refund[q].tickets # {} /\ refund[q].tickets \subseteq Ticket
        BY <1>0, <3>1 DEF Order, PendingIsOpen, RefundsTyped, OrderRefund
      <3>3. refund[q].tickets \cap AppliedTickets = {}
        BY <3>1, <1>4 DEF Order, Apart, AppliedTickets, Applied, Pending
      <3>4. refund[q].tickets \cap S = {}
        BY <1>0, <3>1 DEF Order, Apart, S
      <3>5. S # seats
        BY <1>8, <3>2, <3>3, <3>4
      <3>6. QED
        BY <1>1, <1>2, <1>7, <1>10, <1>13, <3>1, <3>2, <3>5
    <2>2. QED
      BY <2>1 DEF PendingIsOpen
  <1>15. Books'
    <2>1. CASE n = sold
      <3>1. status' = "REFUNDED" /\ sold' = 0 /\ seats' = {}
        BY <1>0, <1>1, <1>10, <1>13, <2>1
      <3>2. QED
        BY <3>1 DEF Books
    <2>2. CASE n # sold
      <3>1. status' = "PAID"
        BY <1>1, <1>7, <1>13, <2>2
      <3>2. seats' = Ticket \ AppliedTickets'
        BY <1>1, <1>5, <1>8
      <3>3. sold' = Cardinality(seats')
        BY <1>1, <1>10
      <3>4. refunded_quantity' = Quantity - sold'
        BY <1>0, <1>1, <1>8, <1>10, QuantityType
      <3>5. QED
        BY <3>1, <3>2, <3>3, <3>4 DEF Books, Quantity
    <2>3. QED
      BY <2>1, <2>2
  <1>16. QED
    BY <1>11, <1>12, <1>14, <1>15 DEF Order

\* A full refund gives back what the partial ones have left, and fails the
\* refunds still pending.
LEMMA ClaimKeepsOrder ==
    ASSUME TypeOK, Sharing, NEW w \in Worker, ClaimRefunded(w), status = "PAID"
    PROVE  Order'
  <1>0. /\ RefundsTyped /\ job[w].pc = "claim" /\ job[w].seen = refunded_quantity
        /\ sold \in Int /\ refunded_quantity \in Nat
        /\ refunded_quantity = Quantity - sold
    BY DEF TypeOK, RefundsTyped, ClaimRefunded, Sharing, ClaimIsFresh, Order, Books
  <1>1. /\ status' = "REFUNDED" /\ seats' = {} /\ sold' = sold - (Quantity - job[w].seen)
        /\ refund' = [r \in RefundId |-> IF r \in Pending
                          THEN [refund[r] EXCEPT !.status = "FAILED"] ELSE refund[r]]
        /\ UNCHANGED ticket
    BY DEF ClaimRefunded, release_capacity
  <1>2. Books'
    BY <1>0, <1>1, QuantityType DEF Books
  <1>3. Pending' = {} /\ Applied' = Applied
    <2>1. ASSUME NEW r \in RefundId
          PROVE  refund'[r].status = IF refund[r].status = "REQUESTED"
                                     THEN "FAILED" ELSE refund[r].status
      BY <1>0, <1>1 DEF RefundsTyped, OrderRefund, Pending
    <2>2. QED
      BY <2>1 DEF Applied, Pending
  <1>4. \A r \in Applied : r \in RefundId /\ refund'[r] = refund[r]
    BY <1>1 DEF Applied, Pending
  <1>5. AppliedNotIssued' /\ Apart'
    BY <1>1, <1>3, <1>4 DEF Sharing, Order, AppliedNotIssued, Apart
  <1>6. PendingIsOpen'
    BY <1>3 DEF PendingIsOpen
  <1>7. QED
    BY <1>2, <1>5, <1>6 DEF Order

\* Every other step leaves the rows of the refunds alone, or fails one.
LEMMA OrderKept ==
    ASSUME IInv, Careful, Sharing, [Next]_vars
    PROVE  Order'
  <1>0. /\ TypeOK /\ RefundsTyped /\ Order /\ SavesAfterClaim
        /\ ticket \in [Ticket -> TicketStatus] /\ "undo" \notin allowed
    BY DEF IInv, TypeOK, RefundsTyped, Sharing, Careful
  <1>1. ASSUME NEW w \in Worker, CreateRefund(w)
        PROVE  Order'
    BY <1>0, <1>1, CreateKeepsOrder
  <1>2. ASSUME NEW w \in Worker, apply_partial_refund(w)
        PROVE  Order'
    <2>1. CASE job[w].refund \in Pending
      BY <1>0, <1>2, <2>1, ApplyKeepsOrder
    <2>2. CASE job[w].refund \notin Pending
      <3>1. UNCHANGED <<orderVars, refund, ticket>>
        BY <1>2, <2>2 DEF apply_partial_refund
      <3>2. QED
        BY <1>0, <3>1, UnchangedRefunds
    <2>3. QED
      BY <2>1, <2>2
  <1>3. ASSUME NEW w \in Worker, ClaimRefunded(w)
        PROVE  Order'
    <2>1. CASE status = "PAID"
      BY <1>0, <1>3, <2>1, ClaimKeepsOrder
    <2>2. CASE status # "PAID"
      <3>1. UNCHANGED <<orderVars, refund, ticket>>
        BY <1>3, <2>2 DEF ClaimRefunded
      <3>2. QED
        BY <1>0, <3>1, UnchangedRefunds
    <2>3. QED
      BY <2>1, <2>2
  <1>4. ASSUME NEW w \in Worker, StripeRefund(w) \/ StripeRefuses(w)
        PROVE  Order'
    <2>1. UNCHANGED <<orderVars, ticket>>
      BY <1>4 DEF StripeRefund, StripeRefuses
    <2>2. CASE UNCHANGED refund
      BY <1>0, <2>1, <2>2, UnchangedRefunds
    <2>3. CASE refund' = [refund EXCEPT ![job[w].refund].status =
                              IF @ = "REQUESTED" THEN "FAILED" ELSE @]
      <3>1. PICK S \in SUBSET RefundId : S = RefundId \cap {job[w].refund}
        OBVIOUS
      <3>2. ASSUME NEW r \in RefundId
            PROVE  refund'[r] = IF r \in S /\ r \in Pending
                                THEN [refund[r] EXCEPT !.status = "FAILED"] ELSE refund[r]
        BY <1>0, <2>3, <3>1 DEF RefundsTyped, OrderRefund, Pending
      <3>3. UNCHANGED orderVars /\ \A t \in Ticket : ticket'[t] = "ISSUED" => ticket[t] = "ISSUED"
        BY <2>1
      <3> HIDE DEF orderVars
      <3>4. QED
        BY <1>0, <3>2, <3>3, FailedCountNoMore
    <2>4. QED
      BY <1>4, <2>2, <2>3 DEF StripeRefund, StripeRefuses
  <1>5. ASSUME UNCHANGED <<orderVars, refund>>,
               \A t \in Ticket : ticket'[t] = "ISSUED" => ticket[t] = "ISSUED"
        PROVE  Order'
    BY <1>0, <1>5, UnchangedRefunds
  <1>6. ASSUME NEW t \in Ticket, check_in(t) \/ undo_check_in(t)
        PROVE  Order'
    <2>1. UNCHANGED <<orderVars, refund>> /\ ticket' = [ticket EXCEPT ![t] = "CHECKED_IN"]
      BY <1>0, <1>6 DEF check_in, undo_check_in
    <2>2. QED
      BY <1>0, <1>5, <2>1
  <1>7. ASSUME NEW w \in Worker, NEW t \in Ticket, SaveTicket(w, t)
        PROVE  Order'
    <2>1. UNCHANGED <<orderVars, refund>> /\ ticket' = [ticket EXCEPT ![t] = "REFUNDED"]
      BY <1>7 DEF SaveTicket
    <2>2. QED
      BY <1>0, <1>5, <2>1
  <1>8. ASSUME UNCHANGED <<orderVars, refund, ticket>> PROVE Order'
    BY <1>5, <1>8
  <1>9. QED
    BY <1>1, <1>2, <1>3, <1>4, <1>6, <1>7, <1>8
       DEF Next, Proceed, Deliver, vars, refund_order, refund_tickets, StripeRefundRest,
           DemoRefund, charge_refunded, ReadOrder, ReadTickets, Crash

LEMMA SharingStep ==
    ASSUME IInv, Careful, Sharing, [Next]_vars
    PROVE  Sharing'
  <1>0. /\ TypeOK /\ RefundsTyped /\ OneAtATime /\ CreateIsNew /\ ClaimIsFresh
        /\ AppliedNotIssued /\ "overlap" \notin allowed
    BY DEF IInv, TypeOK, RefundsTyped, Sharing, Order, Careful
  <1>1. ASSUME NEW w \in Worker, job'[w].pc = "create"
        PROVE  /\ status' = "PAID" /\ job'[w].tickets # {}
               /\ \A r \in (Applied \cup Pending)' : refund'[r].tickets \cap job'[w].tickets = {}
    <2>1. CASE job[w].pc = "create" /\ job'[w] = job[w] /\ UNCHANGED <<orderVars, refund>>
      BY <1>0, <2>1 DEF CreateIsNew, Applied, Pending
    <2>2. ASSUME NEW S \in SUBSET Ticket, refund_tickets(w, S), job'[w].tickets = S
          PROVE  /\ status' = "PAID" /\ job'[w].tickets # {}
                 /\ \A r \in (Applied \cup Pending)' : refund'[r].tickets \cap job'[w].tickets = {}
      <3>1. /\ status' = "PAID" /\ S # {} /\ S \subseteq refundable_tickets
            /\ UNCHANGED refund
        BY <2>2 DEF refund_tickets
      <3>2. \A r \in Pending : refund[r].tickets \cap S = {}
        BY <3>1 DEF refundable_tickets, PendingTickets
      <3>3. \A r \in Applied : refund[r].tickets \cap S = {}
        BY <1>0, <3>1 DEF refundable_tickets, AppliedNotIssued
      <3>4. Applied' = Applied /\ Pending' = Pending
        BY <3>1 DEF Applied, Pending
      <3>5. QED
        BY <2>2, <3>1, <3>2, <3>3, <3>4
    <2>3. QED
      BY <1>0, <1>1, <2>1, <2>2, AtCreate
  <1>2. ASSUME NEW w \in Worker, job'[w].pc = "claim"
        PROVE  job'[w].seen = refunded_quantity'
    BY <1>0, <1>2, AtClaim DEF ClaimIsFresh
  <1>3. OneAtATime' /\ Order'
    BY <1>0, StaysAlone, OrderKept
  <1>4. QED
    BY <1>1, <1>2, <1>3 DEF Sharing, CreateIsNew, ClaimIsFresh

LEMMA InitSharing == Init => Sharing
  <1> SUFFICES ASSUME Init PROVE Sharing
    OBVIOUS
  <1>1. Applied = {} /\ Pending = {} /\ AppliedTickets = {}
    BY DEF Init, Applied, Pending, AppliedTickets
  <1>2. \A w \in Worker : job[w].pc = "idle"
    BY DEF Init, Idle
  <1>3. Books
    BY <1>1, QuantityType DEF Init, Books, Quantity
  <1>4. QED
    BY <1>1, <1>2, <1>3 DEF Sharing, OneAtATime, CreateIsNew, ClaimIsFresh, Order,
                            AppliedNotIssued, Apart, PendingIsOpen

LEMMA SharingAlways == Spec => [](Careful => Sharing)
  <1>1. Init => (Careful => Sharing)
    BY InitSharing
  <1>2. IInv /\ (Careful => Sharing) /\ [Next]_vars => (Careful => Sharing)'
    <2> SUFFICES ASSUME IInv, Careful => Sharing, [Next]_vars, Careful'
                 PROVE  Sharing'
      OBVIOUS
    <2>1. Careful
      BY CountersStep DEF IInv, Careful
    <2>2. QED
      BY <2>1, SharingStep
  <1>3. QED
    BY <1>1, <1>2, Invariance, PTL DEF Spec

\* For every number of tickets and of refunds, partial or full, refused or
\* matched to the wrong one, delivered late or lost: as long as requests about
\* the order do not overlap and the gate takes no admission back, the order
\* holds one place and one seat for every ticket no refund has been applied to,
\* and none once it is refunded (orders/payments.py apply_partial_refund and
\* mark_order_refunded, orders/services.py release_capacity).
THEOREM PlacesGivenBackOnceAlways == Spec => []PlacesGivenBackOnce
  <1>1. (Careful => Sharing) => PlacesGivenBackOnce
    BY DEF Careful, Sharing, Order, Books, PlacesGivenBackOnce
  <1>2. QED
    BY <1>1, SharingAlways, PTL

-----------------------------------------------------------------------------
(* Sums over the rows and over the tickets.                                *)

\* The sums of the model, as functions summed over sets.
Amounts == [r \in RefundId |-> refund[r].amount]
Counts == [r \in RefundId |-> Cardinality(refund[r].tickets)]

LEMMA AmountIsSum == ASSUME NEW S PROVE Amount(S) = SumOver(Price, S)
  BY DEF Amount, MapThenSumSet, MapThenFoldSet, SumOver, IsSum, Chosen

LEMMA RowsAreFinite == ASSUME NEW S \in SUBSET RefundId PROVE IsFiniteSet(S)
  <1>1. IsFiniteSet(RefundId)
    BY TicketsAssumption, FS_Interval DEF RefundId
  <1>2. QED
    BY <1>1, FS_Subset

LEMMA AmountsAreSummed ==
    ASSUME NEW S \in SUBSET RefundId
    PROVE  MapThenSumSet(LAMBDA r : refund[r].amount, S) = SumOver(Amounts, S)
  <1> DEFINE Own(g) == g = [s \in SUBSET S |-> IF s = {} THEN 0
                  ELSE refund[CHOOSE x \in s : TRUE].amount + g[s \ {CHOOSE x \in s : TRUE}]]
             c == CHOOSE g : Own(g)
  <1>1. ASSUME NEW g PROVE IsSum(g, Amounts, S) <=> Own(g)
    <2>1. ASSUME NEW s \in SUBSET S, s # {}
          PROVE  Amounts[CHOOSE x \in s : TRUE] = refund[CHOOSE x \in s : TRUE].amount
      <3>1. (CHOOSE x \in s : TRUE) \in s
        BY <2>1
      <3>2. QED
        BY <3>1 DEF Amounts
    <2>2. QED
      BY <2>1 DEF IsSum, Chosen
  <1>2. MapThenSumSet(LAMBDA r : refund[r].amount, S) = c[S]
    BY DEF MapThenSumSet, MapThenFoldSet
  <1>3. \E g : Own(g)
    BY <1>1, SumExists, RowsAreFinite
  <1>4. Own(c)
    BY <1>3
  <1> HIDE DEF c, Own
  <1>5. IsSum(c, Amounts, S)
    BY <1>1, <1>4
  <1>6. S \in SUBSET S /\ IsFiniteSet(S)
    BY RowsAreFinite
  <1>7. c[S] = SumOver(Amounts, S)
    BY <1>5, <1>6, SumOverIs
  <1>8. QED
    BY <1>2, <1>7

LEMMA PendingAreSummed ==
    /\ PendingAmount = SumOver(Amounts, Pending)
    /\ PendingQuantity = SumOver(Counts, Pending)
  <1>0. Pending \in SUBSET RefundId
    BY DEF Pending
  <1>1. PendingAmount = SumOver(Amounts, Pending)
    BY <1>0, AmountsAreSummed DEF PendingAmount
  <1> DEFINE S == Pending
             Own(g) == g = [s \in SUBSET S |-> IF s = {} THEN 0
                  ELSE Cardinality(refund[CHOOSE x \in s : TRUE].tickets) + g[s \ {CHOOSE x \in s : TRUE}]]
             c == CHOOSE g : Own(g)
  <1>2. ASSUME NEW g PROVE IsSum(g, Counts, S) <=> Own(g)
    <2>1. ASSUME NEW s \in SUBSET S, s # {}
          PROVE  Counts[CHOOSE x \in s : TRUE] = Cardinality(refund[CHOOSE x \in s : TRUE].tickets)
      <3>1. (CHOOSE x \in s : TRUE) \in s
        BY <2>1
      <3>2. QED
        BY <3>1, <1>0 DEF Counts
    <2>2. QED
      BY <2>1 DEF IsSum, Chosen
  <1>3. PendingQuantity = c[S]
    BY DEF PendingQuantity, MapThenSumSet, MapThenFoldSet
  <1>4. \E g : Own(g)
    BY <1>0, <1>2, SumExists, RowsAreFinite
  <1>5. Own(c)
    BY <1>4
  <1> HIDE DEF c, Own
  <1>6. IsSum(c, Counts, S)
    BY <1>2, <1>5
  <1>7. S \in SUBSET S /\ IsFiniteSet(S)
    BY <1>0, RowsAreFinite
  <1>8. c[S] = SumOver(Counts, S)
    BY <1>6, <1>7, SumOverIs
  <1>9. PendingQuantity = SumOver(Counts, Pending)
    BY <1>3, <1>8
  <1>10. QED
    BY <1>1, <1>9

\* How the row of a refund changes in a step.
Fails(r) == refund[r].status = "REQUESTED" /\ refund'[r] = [refund[r] EXCEPT !.status = "FAILED"]
Applies(w, r) ==
    /\ apply_partial_refund(w) /\ job[w].refund = r /\ refund[r].status = "REQUESTED"
    /\ refund'[r] = [refund[r] EXCEPT !.status = "SUCCEEDED"]
Creates(w, r) ==
    /\ CreateRefund(w) /\ refund[r].status = "NONE"
    /\ refund'[r] = [status |-> "REQUESTED", tickets |-> job[w].tickets, amount |-> job[w].amount]

LEMMA RowMoves ==
    ASSUME TypeOK, [Next]_vars, NEW r \in RefundId
    PROVE  \/ refund'[r] = refund[r]
           \/ Fails(r)
           \/ \E w \in Worker : Applies(w, r) \/ Creates(w, r)
  <1>0. RefundsTyped /\ JobsTyped
    BY DEF TypeOK, RefundsTyped, JobsTyped
  <1>1. ASSUME NEW w \in Worker, CreateRefund(w)
        PROVE  refund'[r] = refund[r] \/ Creates(w, r)
    <2>1. PICK q \in RefundId :
              /\ \A p \in RefundId : refund[p].status = "NONE" <=> p >= q
              /\ refund' = [refund EXCEPT ![q] = [status |-> "REQUESTED",
                                tickets |-> job[w].tickets, amount |-> job[w].amount]]
      BY <1>1 DEF CreateRefund
    <2>2. refund[q].status = "NONE"
      BY <2>1, TicketsAssumption DEF RefundId
    <2>3. CASE q = r
      BY <1>0, <1>1, <2>1, <2>2, <2>3 DEF Creates, RefundsTyped
    <2>4. CASE q # r
      BY <1>0, <2>1, <2>4 DEF RefundsTyped
    <2>5. QED
      BY <2>3, <2>4
  <1>2. ASSUME NEW w \in Worker, apply_partial_refund(w)
        PROVE  refund'[r] = refund[r] \/ Applies(w, r)
    <2>1. CASE job[w].refund \in Pending /\ job[w].refund = r
      <3>1. refund' = [refund EXCEPT ![r].status = "SUCCEEDED"]
        BY <1>2, <2>1 DEF apply_partial_refund
      <3>2. refund'[r] = [refund[r] EXCEPT !.status = "SUCCEEDED"]
        BY <1>0, <3>1 DEF RefundsTyped
      <3>3. QED
        BY <1>2, <2>1, <3>2 DEF Applies, Pending
    <2>2. CASE job[w].refund \in Pending /\ job[w].refund # r
      BY <1>0, <1>2, <2>2 DEF apply_partial_refund, RefundsTyped
    <2>3. CASE job[w].refund \notin Pending
      BY <1>2, <2>3 DEF apply_partial_refund
    <2>4. QED
      BY <2>1, <2>2, <2>3
  <1>3. ASSUME NEW w \in Worker, StripeRefund(w) \/ StripeRefuses(w)
        PROVE  refund'[r] = refund[r] \/ Fails(r)
    <2>1. \/ UNCHANGED refund
          \/ refund' = [refund EXCEPT ![job[w].refund].status =
                            IF @ = "REQUESTED" THEN "FAILED" ELSE @]
      BY <1>3 DEF StripeRefund, StripeRefuses
    <2>2. refund[r] \in OrderRefund({refund[q].amount : q \in RefundId}) /\ DOMAIN refund = RefundId
      BY <1>0 DEF RefundsTyped
    <2>3. CASE job[w].refund = r
      <3>1. \/ refund'[r] = refund[r]
            \/ refund'[r] = [refund[r] EXCEPT !.status = IF @ = "REQUESTED" THEN "FAILED" ELSE @]
        BY <2>1, <2>2, <2>3
      <3>2. QED
        BY <2>2, <3>1 DEF OrderRefund, Fails
    <2>4. CASE job[w].refund # r
      BY <2>1, <2>2, <2>4
    <2>5. QED
      BY <2>3, <2>4
  <1>4. ASSUME NEW w \in Worker, ClaimRefunded(w)
        PROVE  refund'[r] = refund[r] \/ Fails(r)
    <2>1. \/ UNCHANGED refund
          \/ refund' = [q \in RefundId |-> IF q \in Pending
                           THEN [refund[q] EXCEPT !.status = "FAILED"] ELSE refund[q]]
      BY <1>4 DEF ClaimRefunded
    <2>2. \/ refund'[r] = refund[r]
          \/ r \in Pending /\ refund'[r] = [refund[r] EXCEPT !.status = "FAILED"]
      BY <2>1
    <2>3. QED
      BY <2>2 DEF Fails, Pending
  <1>5. ASSUME UNCHANGED refund PROVE refund'[r] = refund[r]
    BY <1>5
  <1>6. QED
    BY <1>1, <1>2, <1>3, <1>4, <1>5
       DEF Next, Proceed, Deliver, vars, refund_order, refund_tickets, StripeRefundRest,
           DemoRefund, charge_refunded, ReadOrder, ReadTickets, SaveTicket, check_in,
           undo_check_in, Crash

\* What an applied refund books.
LEMMA ApplyBooks ==
    ASSUME TypeOK, NEW w \in Worker, apply_partial_refund(w), job[w].refund \in Pending
    PROVE  LET r == job[w].refund IN
           /\ Applied' = Applied \cup {r} /\ Pending' = Pending \ {r}
           /\ AppliedTickets' = AppliedTickets \cup refund[r].tickets
           /\ refunded_amount' = refunded_amount + refund[r].amount
           /\ \A q \in RefundId : /\ refund'[q].tickets = refund[q].tickets
                                  /\ refund'[q].amount = refund[q].amount
           /\ r \in RefundId /\ r \notin Applied
           /\ Applied \subseteq RefundId /\ Pending \subseteq RefundId
  <1> DEFINE r == job[w].refund
  <1>0. RefundsTyped /\ r \in RefundId /\ r \in Pending
    BY DEF TypeOK, RefundsTyped, Pending
  <1>1. /\ refund' = [refund EXCEPT ![r].status = "SUCCEEDED"]
        /\ refunded_amount' = refunded_amount + refund[r].amount
    BY DEF apply_partial_refund
  <1> HIDE DEF r
  <1>2. /\ refund'[r].status = "SUCCEEDED"
        /\ \A q \in RefundId : /\ refund'[q].tickets = refund[q].tickets
                               /\ refund'[q].amount = refund[q].amount
        /\ \A q \in RefundId \ {r} : refund'[q] = refund[q]
    BY <1>0, <1>1 DEF RefundsTyped, OrderRefund
  <1>3. Applied' = Applied \cup {r} /\ Pending' = Pending \ {r} /\ r \notin Applied
    BY <1>0, <1>2 DEF Applied, Pending
  <1>4. Applied \subseteq RefundId /\ Pending \subseteq RefundId
    BY DEF Applied, Pending
  <1>5. AppliedTickets' = AppliedTickets \cup refund[r].tickets
    BY <1>0, <1>2, <1>3, <1>4 DEF AppliedTickets
  <1>6. QED
    BY <1>0, <1>1, <1>2, <1>3, <1>4, <1>5 DEF r

\* Only a refund that is applied, or one of the whole order, is booked.
LEMMA BookedSteps ==
    ASSUME TypeOK, [Next]_vars
    PROVE  \/ UNCHANGED <<orderVars, Applied, AppliedTickets>>
           \/ \E w \in Worker : apply_partial_refund(w) /\ job[w].refund \in Pending
           \/ \E w \in Worker : ClaimRefunded(w) /\ status = "PAID"
  <1> SUFFICES ASSUME ~\E w \in Worker : apply_partial_refund(w) /\ job[w].refund \in Pending,
                      ~\E w \in Worker : ClaimRefunded(w) /\ status = "PAID"
               PROVE  UNCHANGED <<orderVars, Applied, AppliedTickets>>
    OBVIOUS
  <1>0. RefundsTyped
    BY DEF TypeOK, RefundsTyped
  <1>1. UNCHANGED orderVars
    BY DEF Next, Proceed, Deliver, vars, refund_order, refund_tickets, CreateRefund,
           StripeRefund, StripeRefuses, StripeRefundRest, DemoRefund, charge_refunded,
           apply_partial_refund, ReadOrder, ClaimRefunded, ReadTickets, SaveTicket, check_in,
           undo_check_in, Crash
  <1>2. ASSUME NEW r \in RefundId
        PROVE  /\ refund'[r].status = "SUCCEEDED" <=> refund[r].status = "SUCCEEDED"
               /\ refund[r].status = "SUCCEEDED" => refund'[r] = refund[r]
    <2>1. \A w \in Worker : ~Applies(w, r)
      BY DEF Applies, Pending
    <2>2. refund[r] \in OrderRefund({refund[q].amount : q \in RefundId})
      BY <1>0 DEF RefundsTyped
    <2>3. Fails(r) => refund[r].status = "REQUESTED" /\ refund'[r].status = "FAILED"
      BY <2>2 DEF Fails, OrderRefund
    <2>4. \A w \in Worker : Creates(w, r) => refund[r].status = "NONE" /\ refund'[r].status = "REQUESTED"
      BY DEF Creates
    <2>5. QED
      BY <2>1, <2>3, <2>4, RowMoves
  <1>3. Applied' = Applied
    BY <1>2 DEF Applied
  <1>4. AppliedTickets' = AppliedTickets
    BY <1>2, <1>3 DEF AppliedTickets, Applied
  <1>5. QED
    BY <1>1, <1>3, <1>4

-----------------------------------------------------------------------------
(* No ticket is refunded twice: every row is about the price of its tickets. *)

RowsPriced == \A r \in Applied \cup Pending : refund[r].amount = Amount(refund[r].tickets)
JobsPriced == \A w \in Worker : job[w].pc = "create" => job[w].amount = Amount(job[w].tickets)
BookPriced == status = "PAID" => refunded_amount = Amount(AppliedTickets)
Priced == RowsPriced /\ JobsPriced /\ BookPriced

LEMMA AmountsAreNat ==
    \A S \in SUBSET Ticket : /\ IsFiniteSet(S) /\ Summable(Price, S)
                             /\ Amount(S) \in Nat /\ Amount(S) <= Gross
  <1>1. ASSUME NEW S \in SUBSET Ticket
        PROVE  /\ IsFiniteSet(S) /\ Summable(Price, S)
               /\ Amount(S) \in Nat /\ Amount(S) <= Gross
    <2>1. IsFiniteSet(S) /\ IsFiniteSet(Ticket) /\ \A t \in Ticket : Price[t] \in Nat
      BY TicketsAssumption, FS_Subset
    <2>2. SumOver(Price, S) \in Nat /\ SumOver(Price, S) <= SumOver(Price, Ticket)
      BY <2>1, SumNat, SumPart
    <2>3. QED
      BY <2>1, <2>2, AmountIsSum DEF Gross, Summable
  <1>2. QED
    BY <1>1

LEMMA AmountsApart ==
    ASSUME NEW S \in SUBSET Ticket, NEW T \in SUBSET Ticket, S \cap T = {}
    PROVE  /\ Amount(S \cup T) = Amount(S) + Amount(T)
           /\ Cardinality(S \cup T) = Cardinality(S) + Cardinality(T)
  <1> DEFINE U == S \cup T
  <1>1. U \in SUBSET Ticket /\ S \in SUBSET U /\ U \ S = T
    OBVIOUS
  <1>2. IsFiniteSet(S) /\ IsFiniteSet(T) /\ Summable(Price, U)
    BY <1>1, AmountsAreNat
  <1>3. /\ Cardinality(U) = Cardinality(S) + Cardinality(T) - Cardinality({})
        /\ Cardinality({}) = 0 /\ Cardinality(S) \in Nat /\ Cardinality(T) \in Nat
    BY <1>2, FS_Union, FS_CardinalityType, FS_EmptySet
  <1> HIDE DEF U
  <1>4. SumOver(Price, U) = SumOver(Price, S) + SumOver(Price, T)
    BY <1>1, <1>2, SumSplit
  <1>5. Amount(U) = Amount(S) + Amount(T)
    BY <1>4, AmountIsSum
  <1>6. Cardinality(U) = Cardinality(S) + Cardinality(T)
    BY <1>3
  <1>7. QED
    BY <1>5, <1>6 DEF U

Rows == [r \in RefundId |-> refund[r].tickets]

\* Rows apart from one another are about as much, and as many tickets, as the
\* set of all their tickets.
LEMMA RowsApart ==
    ASSUME RefundsTyped, NEW R \in SUBSET RefundId,
           \A q, r \in R : q # r => refund[q].tickets \cap refund[r].tickets = {}
    PROVE  LET T == UNION {refund[r].tickets : r \in R} IN
           /\ T \in SUBSET Ticket
           /\ SumOver(Counts, R) = Cardinality(T)
           /\ (\A r \in R : refund[r].amount = Amount(refund[r].tickets)) =>
                  SumOver(Amounts, R) = Amount(T)
  <1> DEFINE T == UNION {Rows[r] : r \in R}
             One == [t \in Ticket |-> 1]
  <1>1. \A r \in RefundId : Rows[r] = refund[r].tickets /\ Rows[r] \in SUBSET Ticket
    BY DEF Rows, RefundsTyped, OrderRefund
  <1>2. T \in SUBSET Ticket /\ \A r \in R : Rows[r] \in SUBSET T
    BY <1>1
  <1>3. T = UNION {refund[r].tickets : r \in R}
    BY <1>1
  <1>4. IsFiniteSet(R) /\ \A q, r \in R : q # r => Rows[q] \cap Rows[r] = {}
    BY <1>1, RowsAreFinite
  <1>5. ASSUME NEW S \in SUBSET Ticket PROVE SumOver(One, S) = Cardinality(S) /\ Summable(One, S)
    BY AmountsAreNat, SumOnes DEF Summable
  <1>6. SumOver(Counts, R) = Cardinality(T)
    <2>1. \A r \in R : Counts[r] = SumOver(One, Rows[r])
      <3>1. ASSUME NEW r \in R PROVE Counts[r] = SumOver(One, Rows[r])
        <4>1. r \in RefundId /\ Rows[r] \in SUBSET Ticket /\ Counts[r] = Cardinality(Rows[r])
          BY <1>1 DEF Counts
        <4> HIDE DEF One, T
        <4>2. QED
          BY <1>5, <4>1
      <3>2. QED
        BY <3>1
    <2>2. Summable(One, UNION {Rows[r] : r \in R})
      BY <1>2, <1>5
    <2> HIDE DEF One
    <2>3. SumOver(Counts, R) = SumOver(One, T)
      BY <1>4, <2>1, <2>2, SumUnion
    <2> HIDE DEF T
    <2>4. QED
      BY <1>2, <1>5, <2>3
  <1>7. ASSUME \A r \in R : refund[r].amount = Amount(refund[r].tickets)
        PROVE  SumOver(Amounts, R) = Amount(T)
    <2>1. \A r \in R : Amounts[r] = SumOver(Price, Rows[r])
      BY <1>1, <1>7, AmountIsSum DEF Amounts
    <2>2. Summable(Price, UNION {Rows[r] : r \in R})
      BY <1>2, AmountsAreNat
    <2>3. SumOver(Amounts, R) = SumOver(Price, T)
      BY <1>4, <2>1, <2>2, SumUnion
    <2> HIDE DEF T
    <2>4. QED
      BY <2>3, AmountIsSum
  <1> HIDE DEF T
  <1>8. QED
    BY <1>2, <1>3, <1>6, <1>7

\* What is left for the last tickets is exactly their price.
LEMMA LastTicketsPriced ==
    ASSUME TypeOK, Order, RowsPriced, BookPriced, status = "PAID",
           NEW S \in SUBSET Ticket, S \subseteq refundable_tickets
    PROVE  AmountFor(S) = Amount(S)
  <1> DEFINE A == AppliedTickets
             P == PendingTickets
             B == A \cup P
             C == B \cup S
  <1>0. /\ RefundsTyped /\ refunded_quantity \in Nat
        /\ Applied \in SUBSET RefundId /\ Pending \in SUBSET RefundId
        /\ Applied \cap Pending = {}
    BY DEF TypeOK, RefundsTyped, Applied, Pending
  <1>1. /\ \A q, r \in Pending : q # r => refund[q].tickets \cap refund[r].tickets = {}
        /\ \A r \in Pending : refund[r].amount = Amount(refund[r].tickets)
    BY DEF Order, Apart, RowsPriced
  <1>2. P \in SUBSET Ticket /\ PendingQuantity = Cardinality(P) /\ PendingAmount = Amount(P)
    BY <1>0, <1>1, RowsApart, PendingAreSummed DEF PendingTickets
  <1>3. A \in SUBSET Ticket
    BY <1>0 DEF AppliedTickets, RefundsTyped, OrderRefund
  <1>4. A \cap P = {} /\ A \cap S = {} /\ P \cap S = {}
    BY <1>0 DEF Order, Apart, AppliedNotIssued, AppliedTickets, PendingTickets, refundable_tickets
  <1>5. refunded_amount = Amount(A) /\ refunded_quantity = Cardinality(A)
    <2>1. /\ seats = Ticket \ A /\ sold = Cardinality(seats)
          /\ refunded_quantity = Quantity - sold
      BY DEF Order, Books
    <2> DEFINE R == Ticket \ A
    <2>2. R \in SUBSET Ticket /\ A \cap R = {} /\ A \cup R = Ticket
      BY <1>3
    <2>3. Cardinality(A \cup R) = Cardinality(A) + Cardinality(R)
      BY <1>3, <2>2, AmountsApart
    <2>4. Cardinality(A) \in Nat /\ Cardinality(R) \in Nat
      BY <1>3, <2>2, TicketsAreCounted
    <2>5. sold = Cardinality(R) /\ Quantity = Cardinality(A) + Cardinality(R)
      BY <2>1, <2>2, <2>3 DEF Quantity
    <2> HIDE DEF R, A
    <2>6. refunded_quantity = Cardinality(A)
      BY <2>1, <2>4, <2>5
    <2>7. QED
      BY <2>6 DEF BookPriced, A
  <1>6. B \in SUBSET Ticket /\ C \in SUBSET Ticket /\ B \cap S = {}
    BY <1>2, <1>3, <1>4
  <1>7. /\ Amount(B) = Amount(A) + Amount(P)
        /\ Cardinality(B) = Cardinality(A) + Cardinality(P)
    BY <1>2, <1>3, <1>4, AmountsApart
  <1>8. Amount(C) = Amount(B) + Amount(S) /\ Cardinality(C) = Cardinality(B) + Cardinality(S)
    BY <1>6, AmountsApart
  <1>9. /\ Cardinality(A) \in Nat /\ Cardinality(P) \in Nat /\ Cardinality(S) \in Nat
        /\ Amount(A) \in Nat /\ Amount(P) \in Nat /\ Amount(S) \in Nat
    BY <1>2, <1>3, TicketsAreCounted, AmountsAreNat
  <1>10. Cardinality(C) = Quantity => C = Ticket
    BY <1>6, TicketsAssumption, FS_Subset DEF Quantity
  <1>11. QED
    <2>1. CASE LeftAfter(S) = 0
      <3>1. Quantity - Cardinality(A) - Cardinality(P) - Cardinality(S) = 0
        BY <1>2, <1>5, <2>1 DEF LeftAfter
      <3>2. AmountFor(S) = Gross - Amount(A) - Amount(P)
        BY <1>2, <1>5, <2>1 DEF AmountFor
      <3> HIDE DEF A, P, B, C
      <3>3. Cardinality(C) = Quantity
        <4>1. Cardinality(C) = Cardinality(A) + Cardinality(P) + Cardinality(S)
          BY <1>7, <1>8, <1>9
        <4>2. QED
          BY <1>9, <3>1, <4>1, QuantityType
      <3>4. Gross = Amount(C)
        BY <1>10, <3>3 DEF Gross
      <3>5. QED
        BY <1>7, <1>8, <1>9, <3>2, <3>4
    <2>2. CASE LeftAfter(S) # 0
      BY <2>2 DEF AmountFor
    <2>3. QED
      BY <2>1, <2>2

LEMMA PricedStep ==
    ASSUME IInv, Careful, Sharing, Priced, [Next]_vars
    PROVE  Priced'
  <1>0. /\ TypeOK /\ RefundsTyped /\ OneAtATime /\ Order /\ RowsPriced /\ JobsPriced /\ BookPriced
        /\ "overlap" \notin allowed
    BY DEF IInv, TypeOK, RefundsTyped, Sharing, Careful, Priced
  <1>1. ASSUME NEW r \in RefundId, r \in (Applied \cup Pending)'
        PROVE  refund'[r].amount = Amount(refund'[r].tickets)
    <2>0. /\ refund'[r].status \in {"SUCCEEDED", "REQUESTED"}
          /\ refund[r] \in OrderRefund({refund[q].amount : q \in RefundId})
      BY <1>0, <1>1 DEF Applied, Pending, RefundsTyped
    <2>1. CASE refund'[r] = refund[r]
      BY <1>0, <2>0, <2>1 DEF RowsPriced, Applied, Pending
    <2>2. ASSUME Fails(r) PROVE FALSE
      BY <2>0, <2>2 DEF Fails, OrderRefund
    <2>3. ASSUME NEW w \in Worker, Applies(w, r)
          PROVE  refund'[r].amount = Amount(refund'[r].tickets)
      <3>1. r \in Pending
        BY <2>3 DEF Applies, Pending
      <3>2. refund'[r].amount = refund[r].amount /\ refund'[r].tickets = refund[r].tickets
        BY <2>0, <2>3 DEF Applies, OrderRefund
      <3>3. QED
        BY <1>0, <3>1, <3>2 DEF RowsPriced
    <2>4. ASSUME NEW w \in Worker, Creates(w, r)
          PROVE  refund'[r].amount = Amount(refund'[r].tickets)
      <3>1. /\ refund'[r].amount = job[w].amount /\ refund'[r].tickets = job[w].tickets
            /\ job[w].pc = "create"
        BY <2>4 DEF Creates, CreateRefund
      <3>2. QED
        BY <1>0, <3>1 DEF JobsPriced
    <2>5. QED
      BY <1>0, <2>1, <2>2, <2>3, <2>4, RowMoves
  <1>2. RowsPriced'
    BY <1>1 DEF RowsPriced, Applied, Pending
  <1>3. ASSUME NEW w \in Worker, job'[w].pc = "create"
        PROVE  job'[w].amount = Amount(job'[w].tickets)
    <2>1. ASSUME NEW S \in SUBSET Ticket,
                 refund_tickets(w, S), job'[w].tickets = S, job'[w].amount = AmountFor(S)
          PROVE  job'[w].amount = Amount(job'[w].tickets)
      <3>1. status = "PAID" /\ S \subseteq refundable_tickets
        BY <2>1 DEF refund_tickets
      <3>2. QED
        BY <1>0, <2>1, <3>1, LastTicketsPriced
    <2>2. QED
      BY <1>0, <1>3, <2>1, AtCreate DEF JobsPriced
  <1>4. BookPriced'
    <2>1. CASE UNCHANGED <<orderVars, Applied, AppliedTickets>>
      BY <1>0, <2>1 DEF BookPriced
    <2>2. ASSUME NEW w \in Worker, apply_partial_refund(w), job[w].refund \in Pending
          PROVE  BookPriced'
      <3> DEFINE r == job[w].refund
                 S == refund[r].tickets
                 A == AppliedTickets
      <3>1. /\ AppliedTickets' = A \cup S /\ refunded_amount' = refunded_amount + refund[r].amount
            /\ r \in RefundId /\ r \notin Applied /\ Applied \subseteq RefundId
        BY <1>0, <2>2, ApplyBooks
      <3>2. S \in SUBSET Ticket /\ A \in SUBSET Ticket
        BY <1>0, <3>1 DEF RefundsTyped, OrderRefund, AppliedTickets
      <3>3. A \cap S = {}
        BY <1>0, <2>2, <3>1 DEF Order, Apart, AppliedTickets
      <3>4. refund[r].amount = Amount(S) /\ status = "PAID"
        BY <1>0, <2>2 DEF RowsPriced, Order, PendingIsOpen
      <3>5. refunded_amount = Amount(A)
        BY <1>0, <3>4 DEF BookPriced
      <3> HIDE DEF r, S, A
      <3>6. refunded_amount' = Amount(A \cup S)
        BY <3>1, <3>2, <3>3, <3>4, <3>5, AmountsApart
      <3>7. QED
        BY <3>1, <3>6 DEF BookPriced
    <2>3. ASSUME NEW w \in Worker, ClaimRefunded(w), status = "PAID"
          PROVE  BookPriced'
      BY <2>3 DEF ClaimRefunded, BookPriced
    <2>4. QED
      BY <1>0, <2>1, <2>2, <2>3, BookedSteps
  <1>5. QED
    BY <1>2, <1>3, <1>4 DEF Priced, JobsPriced

LEMMA InitPriced == Init => Priced
  <1> SUFFICES ASSUME Init PROVE Priced
    OBVIOUS
  <1>1. Applied = {} /\ Pending = {} /\ AppliedTickets = {}
    BY DEF Init, Applied, Pending, AppliedTickets
  <1>2. Amount({}) = 0
    BY AmountIsSum, SumEmpty
  <1>3. \A w \in Worker : job[w].pc = "idle"
    BY DEF Init, Idle
  <1>4. QED
    BY <1>1, <1>2, <1>3 DEF Init, Priced, RowsPriced, JobsPriced, BookPriced

LEMMA PricedAlways == Spec => [](Careful => Sharing /\ Priced)
  <1>1. Init => (Careful => Sharing /\ Priced)
    BY InitSharing, InitPriced
  <1>2. IInv /\ (Careful => Sharing /\ Priced) /\ [Next]_vars => (Careful => Sharing /\ Priced)'
    <2> SUFFICES ASSUME IInv, Careful => Sharing /\ Priced, [Next]_vars, Careful'
                 PROVE  Sharing' /\ Priced'
      OBVIOUS
    <2>1. Careful
      BY CountersStep DEF IInv, Careful
    <2>2. QED
      BY <2>1, SharingStep, PricedStep
  <1>3. QED
    BY <1>1, <1>2, Invariance, PTL DEF Spec

\* As long as requests about the order do not overlap and the gate takes no
\* admission back, no ticket is in two refunds that are applied or pending, and
\* together they are about no more than the order was worth: what is left for
\* the last tickets is exactly their price (orders/refunds.py refund_tickets).
THEOREM NoTicketRefundedTwiceAlways == Spec => []NoTicketRefundedTwice
  <1>1. ASSUME TypeOK, Sharing, Priced
        PROVE  /\ \A q, r \in Applied \cup Pending :
                     q # r => refund[q].tickets \cap refund[r].tickets = {}
               /\ MapThenSumSet(LAMBDA r : refund[r].amount, Applied \cup Pending) <= Gross
    <2> DEFINE R == Applied \cup Pending
    <2>1. RefundsTyped /\ R \in SUBSET RefundId
      BY <1>1 DEF TypeOK, RefundsTyped, Applied, Pending
    <2>2. /\ \A q, r \in R : q # r => refund[q].tickets \cap refund[r].tickets = {}
          /\ \A r \in R : refund[r].amount = Amount(refund[r].tickets)
      BY <1>1 DEF Sharing, Order, Apart, Priced, RowsPriced
    <2>3. PICK T \in SUBSET Ticket : SumOver(Amounts, R) = Amount(T)
      BY <2>1, <2>2, RowsApart
    <2>4. MapThenSumSet(LAMBDA r : refund[r].amount, R) = Amount(T)
      BY <2>1, <2>3, AmountsAreSummed
    <2>5. QED
      BY <2>2, <2>4, AmountsAreNat
  <1>2. IInv /\ (Careful => Sharing /\ Priced) => NoTicketRefundedTwice
    BY <1>1 DEF IInv, Careful, NoTicketRefundedTwice
  <1>3. QED
    BY <1>2, Invariance, PricedAlways, PTL

-----------------------------------------------------------------------------
(* The line of events: what Stripe has returned and not yet reported.  Each *)
(* event tells of one refund, by the amount it adds to the one before; the  *)
(* last may tell of what was left of the order.                            *)

\* An event at total e adds a to the event before it, or to the base b.
Adds(ev, b, e, a) ==
    /\ 0 < a /\ e - a \in ev \cup {b}
    /\ \A c \in ev : c < e => c <= e - a

\* The events ev tell of the refunds W, of amounts am, that follow the base b.
Line(ev, ch, am, b, W) ==
    /\ ch \in ev \cup {b}
    /\ \A e \in ev : b < e /\ e <= ch
    /\ \E m \in [ev -> W \cup {None}] :
          /\ \A r \in W : \E e \in ev : m[e] = r
          /\ \A d, e \in ev : m[d] = m[e] => d = e
          /\ \A e \in ev : IF m[e] = None THEN e = Gross ELSE Adds(ev, b, e, am[m[e]])

LineTypes(ev, ch, am, b, W) ==
    ev \subseteq Int /\ ch \in Int /\ b \in Int /\ W \subseteq RefundId /\ am \in [RefundId -> Int]

LEMMA NoneIsNoRow == None \notin RefundId
  BY TicketsAssumption DEF RefundId

\* Stripe returns the money of one more refund.
LEMMA LineGrows ==
    ASSUME NEW ev, NEW ch, NEW am, NEW b, NEW W, LineTypes(ev, ch, am, b, W),
           Line(ev, ch, am, b, W), NEW r \in RefundId \ W, 0 < am[r]
    PROVE  Line(ev \cup {ch + am[r]}, ch + am[r], am, b, W \cup {r})
  <1> DEFINE new == ch + am[r]
             ew == ev \cup {new}
  <1>1. PICK m \in [ev -> W \cup {None}] :
          /\ \A q \in W : \E e \in ev : m[e] = q
          /\ \A d, e \in ev : m[d] = m[e] => d = e
          /\ \A e \in ev : IF m[e] = None THEN e = Gross ELSE Adds(ev, b, e, am[m[e]])
    BY DEF Line
  <1>2. /\ ev \subseteq Int /\ ch \in Int /\ b \in Int /\ am[r] \in Int /\ new \in Int /\ new > ch
        /\ ch \in ev \cup {b} /\ \A e \in ev : b < e /\ e <= ch
        /\ r # None
    BY NoneIsNoRow DEF LineTypes, Line
  <1>3. b < new /\ new \notin ev
    BY <1>2
  <1> DEFINE mm == [e \in ew |-> IF e = new THEN r ELSE m[e]]
  <1>4. mm \in [ew -> (W \cup {r}) \cup {None}]
    OBVIOUS
  <1>5. mm[new] = r /\ \A e \in ev : mm[e] = m[e]
    BY <1>3
  <1>6. \A q \in W \cup {r} : \E e \in ew : mm[e] = q
    BY <1>1, <1>5
  <1>7. \A d, e \in ew : mm[d] = mm[e] => d = e
    BY <1>1, <1>2, <1>5
  <1>8. Adds(ew, b, new, am[r])
    BY <1>2 DEF Adds
  <1>9. ASSUME NEW e \in ev, NEW a, Adds(ev, b, e, a) PROVE Adds(ew, b, e, a)
    BY <1>2, <1>9 DEF Adds
  <1>10. \A e \in ew : b < e /\ e <= new
    BY <1>2, <1>3
  <1> HIDE DEF mm, new
  <1>11. \A e \in ew : IF mm[e] = None THEN e = Gross ELSE Adds(ew, b, e, am[mm[e]])
    BY <1>1, <1>2, <1>5, <1>8, <1>9
  <1>12. Line(ew, new, am, b, W \cup {r})
    BY <1>4, <1>6, <1>7, <1>10, <1>11 DEF Line
  <1>13. QED
    BY <1>12 DEF new

\* Stripe returns the rest.
LEMMA LineEnds ==
    ASSUME NEW ev, NEW ch, NEW am, NEW b, NEW W, LineTypes(ev, ch, am, b, W),
           Line(ev, ch, am, b, W), ch < Gross, Gross \in Int
    PROVE  Line(ev \cup {Gross}, Gross, am, b, W)
  <1> DEFINE ew == ev \cup {Gross}
  <1>1. PICK m \in [ev -> W \cup {None}] :
          /\ \A q \in W : \E e \in ev : m[e] = q
          /\ \A d, e \in ev : m[d] = m[e] => d = e
          /\ \A e \in ev : IF m[e] = None THEN e = Gross ELSE Adds(ev, b, e, am[m[e]])
    BY DEF Line
  <1>2. /\ ev \subseteq Int /\ ch \in Int /\ b \in Int
        /\ ch \in ev \cup {b} /\ \A e \in ev : b < e /\ e <= ch
    BY DEF LineTypes, Line
  <1>3. b < Gross /\ Gross \notin ev /\ \A e \in ev : m[e] # None
    BY <1>1, <1>2
  <1> DEFINE mm == [e \in ew |-> IF e = Gross THEN None ELSE m[e]]
  <1>4. mm \in [ew -> W \cup {None}]
    OBVIOUS
  <1>5. mm[Gross] = None /\ \A e \in ev : mm[e] = m[e]
    BY <1>3
  <1>6. \A q \in W : \E e \in ew : mm[e] = q
    BY <1>1, <1>5
  <1>7. \A d, e \in ew : mm[d] = mm[e] => d = e
    BY <1>1, <1>3, <1>5
  <1>8. ASSUME NEW e \in ev, NEW a, Adds(ev, b, e, a) PROVE Adds(ew, b, e, a)
    BY <1>2, <1>8 DEF Adds
  <1>9. \A e \in ew : b < e /\ e <= Gross
    BY <1>2, <1>3
  <1> HIDE DEF mm
  <1>10. \A e \in ew : IF mm[e] = None THEN e = Gross ELSE Adds(ew, b, e, am[mm[e]])
    BY <1>1, <1>5, <1>8
  <1>11. QED
    BY <1>4, <1>6, <1>7, <1>9, <1>10 DEF Line

\* Only the amounts of the refunds in the line count.
LEMMA LineKept ==
    ASSUME NEW ev, NEW ch, NEW am, NEW b, NEW W, Line(ev, ch, am, b, W),
           NEW an, \A r \in W : an[r] = am[r]
    PROVE  Line(ev, ch, an, b, W)
  <1>1. PICK m \in [ev -> W \cup {None}] :
          /\ \A q \in W : \E e \in ev : m[e] = q
          /\ \A d, e \in ev : m[d] = m[e] => d = e
          /\ \A e \in ev : IF m[e] = None THEN e = Gross ELSE Adds(ev, b, e, am[m[e]])
    BY DEF Line
  <1>2. \A e \in ev : IF m[e] = None THEN e = Gross ELSE Adds(ev, b, e, an[m[e]])
    BY <1>1
  <1>3. QED
    BY <1>1, <1>2 DEF Line

\* The first event is about the refund it is taken for, or might as well be.
LEMMA LineTakes ==
    ASSUME NEW ev, NEW ch, NEW am, NEW b, NEW W, LineTypes(ev, ch, am, b, W),
           Line(ev, ch, am, b, W), ch <= Gross, Gross \in Int,
           NEW total \in ev, \A e \in ev : total <= e
    PROVE  /\ {r \in W : am[r] = total - b} = {} =>
                  total = Gross /\ Line(ev \ {total}, ch, am, total, W)
           /\ \A r \in W : am[r] = total - b => Line(ev \ {total}, ch, am, total, W \ {r})
  <1> DEFINE ew == ev \ {total}
  <1>1. PICK m \in [ev -> W \cup {None}] :
          /\ \A q \in W : \E e \in ev : m[e] = q
          /\ \A d, e \in ev : m[d] = m[e] => d = e
          /\ \A e \in ev : IF m[e] = None THEN e = Gross ELSE Adds(ev, b, e, am[m[e]])
    BY DEF Line
  <1>2. /\ ev \subseteq Int /\ ch \in Int /\ b \in Int /\ W \subseteq RefundId
        /\ ch \in ev \cup {b} /\ \A e \in ev : b < e /\ e <= ch
        /\ am \in [RefundId -> Int] /\ None \notin W
    BY NoneIsNoRow DEF LineTypes, Line
  <1>3. ch \in ew \cup {total} /\ \A e \in ew : total < e /\ e <= ch
    BY <1>2
  <1>4. ASSUME NEW e \in ew, NEW a \in Int, Adds(ev, b, e, a) PROVE Adds(ew, total, e, a)
    BY <1>2, <1>3, <1>4 DEF Adds
  <1>5. m[total] \in W => am[m[total]] = total - b
    <2>1. ASSUME m[total] \in W PROVE am[m[total]] = total - b
      <3> DEFINE a == am[m[total]]
      <3>1. Adds(ev, b, total, a) /\ a \in Int
        BY <1>1, <1>2, <2>1
      <3> HIDE DEF a
      <3>2. a = total - b
        BY <1>2, <3>1 DEF Adds
      <3>3. QED
        BY <3>2 DEF a
    <2>2. QED
      BY <2>1
  <1>6. ASSUME NEW V, NEW n \in [ew -> V \cup {None}], V \subseteq W,
               \A q \in V : \E e \in ew : n[e] = q,
               \A d, e \in ew : n[d] = n[e] => d = e,
               \A e \in ew : n[e] # m[e] => n[e] \in W /\ m[e] \in W /\ am[n[e]] = am[m[e]]
        PROVE  Line(ew, ch, am, total, V)
    <2>1. ASSUME NEW e \in ew, n[e] # None PROVE Adds(ew, total, e, am[n[e]])
      <3>1. n[e] \in W /\ m[e] \in W /\ am[n[e]] = am[m[e]]
        BY <1>6, <2>1
      <3>2. Adds(ev, b, e, am[m[e]]) /\ am[m[e]] \in Int
        BY <1>1, <1>2, <3>1
      <3>3. QED
        BY <1>4, <3>1, <3>2
    <2>2. ASSUME NEW e \in ew, n[e] = None PROVE e = Gross
      <3>1. m[e] = None
        BY <1>2, <1>6, <2>2
      <3>2. QED
        BY <1>1, <3>1
    <2> HIDE DEF ew
    <2>3. QED
      BY <1>3, <1>6, <2>1, <2>2 DEF Line
  <1>7. CASE m[total] = None
    <2>1. total = Gross /\ ew = {}
      BY <1>1, <1>2, <1>7
    <2>2. W = {}
      BY <1>1, <1>2, <1>7, <2>1
    <2>3. Line(ew, ch, am, total, W)
      <3> DEFINE n == [e \in ew |-> None]
      <3>1. n \in [ew -> W \cup {None}]
        OBVIOUS
      <3>2. QED
        BY <1>3, <2>1, <2>2, <3>1 DEF Line
    <2>4. QED
      BY <2>1, <2>2, <2>3
  <1>8. CASE m[total] # None
    <2> DEFINE p == m[total]
    <2>1. p \in W /\ am[p] = total - b
      BY <1>5, <1>8
    <2>2. ASSUME NEW r \in W, am[r] = total - b
          PROVE  Line(ew, ch, am, total, W \ {r})
      <3> DEFINE n == [e \in ew |-> IF m[e] = r THEN p ELSE m[e]]
      <3>1. \A e \in ew : m[e] # p
        BY <1>1
      <3>2. n \in [ew -> (W \ {r}) \cup {None}]
        BY <1>2, <2>1, <3>1
      <3>3. \A q \in W \ {r} : \E e \in ew : n[e] = q
        <4>1. ASSUME NEW q \in W \ {r}, q # p PROVE \E e \in ew : n[e] = q
          <5>1. PICK e \in ev : m[e] = q
            BY <1>1
          <5>2. e \in ew /\ n[e] = q
            BY <4>1, <5>1
          <5>3. QED
            BY <5>2
        <4>2. ASSUME p # r PROVE \E e \in ew : n[e] = p
          <5>1. PICK e \in ev : m[e] = r
            BY <1>1
          <5>2. e \in ew /\ n[e] = p
            BY <4>2, <5>1
          <5>3. QED
            BY <5>2
        <4>3. QED
          BY <4>1, <4>2
      <3>4. \A d, e \in ew : n[d] = n[e] => d = e
        BY <1>1, <3>1
      <3>5. \A e \in ew : n[e] # m[e] => n[e] \in W /\ m[e] \in W /\ am[n[e]] = am[m[e]]
        BY <2>1, <2>2
      <3> HIDE DEF n, ew, p
      <3>6. QED
        BY <1>6, <3>2, <3>3, <3>4, <3>5
    <2>3. QED
      BY <2>1, <2>2
  <1>9. QED
    BY <1>7, <1>8

-----------------------------------------------------------------------------
(* What a step makes of a worker's record.                                 *)

LEMMA JobAfter ==
    ASSUME JobsTyped, RefundsTyped, NEW w \in Worker
    PROVE  LET j == job[w]
               i == job'[w]
           IN
           /\ refund_order(w) =>
                 i.pc = "call_rest" /\ i.refund = j.refund /\ i.amount = Gross - refunded_amount
           /\ \A S \in SUBSET Ticket : refund_tickets(w, S) =>
                 /\ i.refund = None /\ i.amount = AmountFor(S)
                 /\ \/ i.pc = "create"
                    \/ /\ i.pc = "call_rest" /\ LeftAfter(S) = 0
                       /\ refunded_quantity = 0 /\ Pending = {}
           /\ CreateRefund(w) =>
                 i.pc = "call" /\ i.amount = j.amount /\ i.refund \in RefundId /\ Creates(w, i.refund)
           /\ DemoRefund(w) => i.pc = "handle" /\ i.amount = j.amount /\ i.refund = j.refund
           /\ \A total \in events : charge_refunded(w, total) =>
                 /\ i.pc = "handle" /\ i.amount = total - refunded_amount
                 /\ i.refund \in Earliest(Match(total))
           /\ ReadOrder(w) => i.pc = "claim" /\ i.amount = j.amount /\ i.refund = j.refund
           /\ ClaimRefunded(w) =>
                 IF status = "PAID" THEN i.pc = "tickets" /\ i.amount = j.amount /\ i.refund = j.refund
                 ELSE i = Idle
           /\ ReadTickets(w) =>
                 \/ i = Idle /\ {t \in Ticket : ticket[t] = "ISSUED"} = {} /\ Processed(w)
                 \/ /\ i.pc = "save" /\ i.amount = j.amount /\ i.refund = j.refund
                    /\ i.tickets = {t \in Ticket : ticket[t] = "ISSUED"} /\ UNCHANGED providerVars
           /\ \A t \in Ticket : SaveTicket(w, t) =>
                 \/ i = Idle /\ j.tickets = {t} /\ Processed(w)
                 \/ /\ i.pc = "save" /\ i.amount = j.amount /\ i.refund = j.refund
                    /\ i.tickets = j.tickets \ {t} /\ UNCHANGED providerVars
           /\ StripeRefund(w) \/ StripeRefuses(w) \/ StripeRefundRest(w)
              \/ apply_partial_refund(w) \/ Crash(w) => i = Idle
  <1>0. job[w] \in Job({job[v].amount : v \in Worker}) /\ DOMAIN job = Worker
    BY DEF JobsTyped
  <1>1. Done(w) => job'[w] = Idle
    BY <1>0
  <1>2. refund_order(w) =>
            /\ job'[w].pc = "call_rest" /\ job'[w].refund = job[w].refund
            /\ job'[w].amount = Gross - refunded_amount
    BY <1>0 DEF Job, refund_order
  <1>3. ASSUME NEW S \in SUBSET Ticket, refund_tickets(w, S)
        PROVE  /\ job'[w].refund = None /\ job'[w].amount = AmountFor(S)
               /\ \/ job'[w].pc = "create"
                  \/ /\ job'[w].pc = "call_rest" /\ LeftAfter(S) = 0
                     /\ refunded_quantity = 0 /\ Pending = {}
    <2>1. PICK all \in BOOLEAN :
              /\ all = (LeftAfter(S) = 0 /\ refunded_quantity = 0 /\ Pending = {})
              /\ job' = [job EXCEPT ![w] = [Idle EXCEPT
                          !.pc = IF all THEN "call_rest" ELSE "create",
                          !.tickets = IF all THEN {} ELSE S, !.amount = AmountFor(S)]]
      BY <1>3 DEF refund_tickets
    <2>2. job'[w] = [Idle EXCEPT !.pc = IF all THEN "call_rest" ELSE "create",
                                 !.tickets = IF all THEN {} ELSE S, !.amount = AmountFor(S)]
      BY <1>0, <2>1
    <2>3. QED
      BY <2>1, <2>2 DEF Idle
  <1>4. ASSUME CreateRefund(w)
        PROVE  /\ job'[w].pc = "call" /\ job'[w].amount = job[w].amount
               /\ job'[w].refund \in RefundId /\ Creates(w, job'[w].refund)
    <2>1. PICK r \in RefundId :
            /\ \A q \in RefundId : refund[q].status = "NONE" <=> q >= r
            /\ refund' = [refund EXCEPT ![r] = [status |-> "REQUESTED",
                              tickets |-> job[w].tickets, amount |-> job[w].amount]]
            /\ job' = [job EXCEPT ![w].pc = "call", ![w].refund = r]
      BY <1>4 DEF CreateRefund
    <2>2. refund[r].status = "NONE"
      BY <2>1, TicketsAssumption DEF RefundId
    <2>3. job'[w].pc = "call" /\ job'[w].amount = job[w].amount /\ job'[w].refund = r
      BY <1>0, <2>1 DEF Job
    <2>4. refund'[r] = [status |-> "REQUESTED",
                        tickets |-> job[w].tickets, amount |-> job[w].amount]
      BY <2>1 DEF RefundsTyped
    <2>5. QED
      BY <1>4, <2>2, <2>3, <2>4 DEF Creates
  <1>5. DemoRefund(w) => /\ job'[w].pc = "handle" /\ job'[w].amount = job[w].amount
                         /\ job'[w].refund = job[w].refund
    BY <1>0 DEF Job, DemoRefund
  <1>6. ASSUME NEW total \in events, charge_refunded(w, total)
        PROVE  /\ job'[w].pc = "handle" /\ job'[w].amount = total - refunded_amount
               /\ job'[w].refund \in Earliest(Match(total))
    <2>1. PICK r \in Earliest(Match(total)) :
              job' = [job EXCEPT ![w].pc = "handle", ![w].amount = total - refunded_amount,
                                 ![w].refund = r]
      BY <1>6 DEF charge_refunded
    <2>2. /\ job'[w].pc = "handle" /\ job'[w].amount = total - refunded_amount
          /\ job'[w].refund = r
      BY <1>0, <2>1 DEF Job
    <2>3. QED
      BY <2>2
  <1>7. ReadOrder(w) => /\ job'[w].pc = "claim" /\ job'[w].amount = job[w].amount
                        /\ job'[w].refund = job[w].refund
    BY <1>0 DEF Job, ReadOrder
  <1>8. ClaimRefunded(w) =>
            IF status = "PAID" THEN /\ job'[w].pc = "tickets" /\ job'[w].amount = job[w].amount
                                    /\ job'[w].refund = job[w].refund
            ELSE job'[w] = Idle
    BY <1>0 DEF Job, ClaimRefunded
  <1>9. ReadTickets(w) =>
            \/ job'[w] = Idle /\ {t \in Ticket : ticket[t] = "ISSUED"} = {} /\ Processed(w)
            \/ /\ job'[w].pc = "save" /\ job'[w].amount = job[w].amount
               /\ job'[w].refund = job[w].refund
               /\ job'[w].tickets = {t \in Ticket : ticket[t] = "ISSUED"} /\ UNCHANGED providerVars
    <2> DEFINE issued == {t \in Ticket : ticket[t] = "ISSUED"}
    <2>1. ReadTickets(w) =>
            \/ Done(w) /\ issued = {} /\ Processed(w)
            \/ /\ job' = [job EXCEPT ![w].pc = "save", ![w].tickets = issued]
               /\ UNCHANGED providerVars
      BY DEF ReadTickets
    <2> HIDE DEF issued
    <2>2. job' = [job EXCEPT ![w].pc = "save", ![w].tickets = issued] =>
            /\ job'[w].pc = "save" /\ job'[w].amount = job[w].amount
            /\ job'[w].refund = job[w].refund /\ job'[w].tickets = issued
      BY <1>0 DEF Job
    <2>3. QED
      BY <1>1, <2>1, <2>2 DEF issued
  <1>10. ASSUME NEW t \in Ticket, SaveTicket(w, t)
         PROVE  \/ job'[w] = Idle /\ job[w].tickets = {t} /\ Processed(w)
                \/ /\ job'[w].pc = "save" /\ job'[w].amount = job[w].amount
                   /\ job'[w].refund = job[w].refund
                   /\ job'[w].tickets = job[w].tickets \ {t} /\ UNCHANGED providerVars
    <2>1. \/ Done(w) /\ job[w].tickets = {t} /\ Processed(w)
          \/ job' = [job EXCEPT ![w].tickets = @ \ {t}] /\ UNCHANGED providerVars
      BY <1>10 DEF SaveTicket
    <2>2. job' = [job EXCEPT ![w].tickets = @ \ {t}] =>
            /\ job'[w].pc = job[w].pc /\ job'[w].amount = job[w].amount
            /\ job'[w].refund = job[w].refund /\ job'[w].tickets = job[w].tickets \ {t}
      BY <1>0 DEF Job
    <2>3. job[w].pc = "save"
      BY <1>10 DEF SaveTicket
    <2>4. QED
      BY <1>1, <2>1, <2>2, <2>3
  <1>11. StripeRefund(w) \/ StripeRefuses(w) \/ StripeRefundRest(w)
         \/ apply_partial_refund(w) \/ Crash(w) => job'[w] = Idle
    BY <1>1 DEF StripeRefund, StripeRefuses, StripeRefundRest, apply_partial_refund, Crash
  <1>12. QED
    BY <1>2, <1>3, <1>4, <1>5, <1>6, <1>7, <1>8, <1>9, <1>10, <1>11

-----------------------------------------------------------------------------
(* Every amount is an integer.                                             *)

MoneyTyped ==
    /\ refunded_amount \in Int /\ charge \in Int /\ outflow \in Int /\ events \subseteq Int
    /\ Amounts \in [RefundId -> Int]
    /\ \A w \in Worker : job[w].amount \in Int

LEMMA GrossIsNat == Gross \in Nat
  BY AmountsAreNat DEF Gross

LEMMA OthersKeep ==
    ASSUME JobsTyped, NEW w \in Worker, NEW v \in Worker \ {w}, Acts(w)
    PROVE  job'[v] = job[v]
  BY DEF JobsTyped, Acts, Proceed, refund_order, refund_tickets, CreateRefund, StripeRefund,
         StripeRefuses, StripeRefundRest, DemoRefund, charge_refunded, apply_partial_refund,
         ReadOrder, ClaimRefunded, ReadTickets, SaveTicket, Crash

LEMMA WhoActs ==
    ASSUME [Next]_vars
    PROVE  \/ \E w \in Worker : Acts(w)
           \/ UNCHANGED <<fixed, orderVars, refund, providerVars, job>>
  <1>1. ASSUME NEW t \in Ticket, check_in(t) \/ undo_check_in(t)
        PROVE  UNCHANGED <<fixed, orderVars, refund, providerVars, job>>
    BY <1>1 DEF check_in, undo_check_in
  <1>2. QED
    BY <1>1 DEF Next, Acts, Deliver, vars

LEMMA AmountForType ==
    ASSUME MoneyTyped, NEW S \in SUBSET Ticket
    PROVE  AmountFor(S) \in Int
  <1>1. Pending \in SUBSET RefundId
    BY DEF Pending
  <1>2. Summable(Amounts, Pending)
    BY <1>1, RowsAreFinite DEF Summable, MoneyTyped
  <1>3. PendingAmount \in Int
    BY <1>2, SumType, PendingAreSummed
  <1>4. Amount(S) \in Int
    BY AmountsAreNat
  <1>5. QED
    BY <1>3, <1>4, GrossIsNat DEF AmountFor, MoneyTyped

LEMMA MoneyStep ==
    ASSUME TypeOK, MoneyTyped, [Next]_vars
    PROVE  MoneyTyped'
  <1>0. RefundsTyped /\ JobsTyped
    BY DEF TypeOK, RefundsTyped, JobsTyped
  <1>1. ASSUME NEW r \in RefundId PROVE refund'[r].amount \in Int
    <2>1. refund[r].amount \in Int /\ refund[r] \in OrderRefund({refund[q].amount : q \in RefundId})
      BY <1>0 DEF MoneyTyped, Amounts, RefundsTyped
    <2>2. Fails(r) => refund'[r].amount = refund[r].amount
      BY <2>1 DEF Fails, OrderRefund
    <2>3. \A w \in Worker : Applies(w, r) => refund'[r].amount = refund[r].amount
      BY <2>1 DEF Applies, OrderRefund
    <2>4. \A w \in Worker : Creates(w, r) => refund'[r].amount = job[w].amount
      BY DEF Creates
    <2>5. QED
      BY <2>1, <2>2, <2>3, <2>4, RowMoves DEF MoneyTyped
  <1>2. Amounts' \in [RefundId -> Int]
    BY <1>1 DEF Amounts
  <1>3. refunded_amount' \in Int
    <2>1. ASSUME NEW w \in Worker, apply_partial_refund(w), job[w].refund \in Pending
          PROVE  refunded_amount' \in Int
      <3>1. /\ refunded_amount' = refunded_amount + refund[job[w].refund].amount
            /\ job[w].refund \in RefundId
        BY <2>1, ApplyBooks
      <3>2. refund[job[w].refund].amount \in Int
        BY <3>1 DEF MoneyTyped, Amounts
      <3>3. QED
        BY <3>1, <3>2 DEF MoneyTyped
    <2>2. ASSUME NEW w \in Worker, ClaimRefunded(w), status = "PAID"
          PROVE  refunded_amount' \in Int
      BY <2>2, GrossIsNat DEF ClaimRefunded
    <2>3. QED
      BY <2>1, <2>2, BookedSteps DEF MoneyTyped
  <1>4. charge' \in Int /\ outflow' \in Int /\ events' \subseteq Int
    <2>1. ASSUME UNCHANGED providerVars
          PROVE  charge' \in Int /\ outflow' \in Int /\ events' \subseteq Int
      BY <2>1 DEF MoneyTyped
    <2>2. ASSUME NEW w \in Worker, Acts(w)
          PROVE  \/ UNCHANGED providerVars
                 \/ \E a \in {job[w].amount, Gross - charge} : Returns(a)
                 \/ charge' = charge + job[w].amount /\ UNCHANGED <<events, outflow>>
                 \/ \E e \in events : events' = events \ {e} /\ UNCHANGED <<charge, outflow>>
                 \/ Processed(w)
      BY <2>2 DEF Acts, Proceed, refund_order, refund_tickets, CreateRefund, StripeRefund,
         StripeRefuses, StripeRefundRest, DemoRefund, charge_refunded, apply_partial_refund,
         ReadOrder, ClaimRefunded, ReadTickets, SaveTicket, Crash
    <2>3. \A w \in Worker : job[w].amount \in Int /\ Gross - charge \in Int
      BY GrossIsNat DEF MoneyTyped
    <2>4. ASSUME NEW w \in Worker, Acts(w)
          PROVE  charge' \in Int /\ outflow' \in Int /\ events' \subseteq Int
      <3>0. /\ charge \in Int /\ outflow \in Int /\ events \subseteq Int
            /\ job[w].amount \in Int /\ Gross - charge \in Int
        BY <2>3 DEF MoneyTyped
      <3>1. ASSUME NEW a \in {job[w].amount, Gross - charge}, Returns(a)
            PROVE  charge' \in Int /\ outflow' \in Int /\ events' \subseteq Int
        <4>1. a \in Int
          BY <3>0, <3>1
        <4>2. charge' = charge + a /\ events' = events \cup {charge + a} /\ outflow' = outflow
          BY <3>1 DEF Returns
        <4>3. QED
          BY <3>0, <4>1, <4>2
      <3>2. ASSUME charge' = charge + job[w].amount, UNCHANGED <<events, outflow>>
            PROVE  charge' \in Int /\ outflow' \in Int /\ events' \subseteq Int
        BY <3>0, <3>2
      <3>3. ASSUME NEW e \in events, events' = events \ {e}, UNCHANGED <<charge, outflow>>
            PROVE  charge' \in Int /\ outflow' \in Int /\ events' \subseteq Int
        BY <3>0, <3>3
      <3>4. ASSUME Processed(w)
            PROVE  charge' \in Int /\ outflow' \in Int /\ events' \subseteq Int
        BY <3>0, <3>4 DEF Processed
      <3>5. QED
        BY <2>1, <2>2, <2>4, <3>1, <3>2, <3>3, <3>4
    <2>5. (\E w \in Worker : Acts(w)) \/ UNCHANGED providerVars
      BY WhoActs
    <2> HIDE DEF providerVars
    <2>6. QED
      BY <2>1, <2>4, <2>5
  <1>5. ASSUME NEW w \in Worker PROVE job'[w].amount \in Int
    <2>1. ASSUME NEW v \in Worker, v # w, Acts(v) PROVE job'[w].amount \in Int
      BY <1>0, <2>1, OthersKeep DEF MoneyTyped
    <2>2. ASSUME Acts(w) PROVE job'[w].amount \in Int
      <3>1. Idle.amount \in Int /\ job[w].amount \in Int /\ Gross - refunded_amount \in Int
        BY GrossIsNat DEF Idle, MoneyTyped
      <3>2. \A S \in SUBSET Ticket : AmountFor(S) \in Int
        BY AmountForType
      <3>3. \A e \in events : e - refunded_amount \in Int
        BY DEF MoneyTyped
      <3>4. QED
        BY <1>0, <2>2, <3>1, <3>2, <3>3, JobAfter DEF Acts, Proceed
    <2>3. QED
      BY <2>1, <2>2, WhoActs DEF MoneyTyped
  <1>6. QED
    BY <1>2, <1>3, <1>4, <1>5 DEF MoneyTyped

LEMMA InitMoney == Init => MoneyTyped
  BY DEF Init, MoneyTyped, Amounts, Idle

LEMMA MoneyAlways == Spec => []MoneyTyped
  <1>1. IInv /\ MoneyTyped /\ [Next]_vars => MoneyTyped'
    BY MoneyStep DEF IInv
  <1>2. QED
    BY <1>1, InitMoney, Invariance, PTL DEF Spec

-----------------------------------------------------------------------------
(* The ledger: what the order has booked, the request under way, the events *)
(* and the refunds they tell of, as long as nothing goes wrong but that the *)
(* gate may take admissions back.                                           *)

Trusting == allowed \subseteq {"undo"}

\* The request under way.
Now == IF Handling = {} THEN Idle ELSE job[CHOOSE w \in Handling : TRUE]

IdleIsBlank == \A w \in Worker : job[w].pc = "idle" => job[w] = Idle

\* What the order has booked, or is about to book, and the refunds whose
\* events are still to come.
Base == refunded_amount + (IF Now.pc \in {"handle", "claim"} THEN Now.amount ELSE 0)
Waiting == Pending \ {Now.refund}
InLine == Line(events, charge, Amounts, Base, Waiting)

\* Everything has been returned and reported.
Settled == status = "REFUNDED" /\ charge = Gross /\ events = {} /\ Now = Idle

\* What the request under way knows.
Fits ==
    /\ Now.pc \notin {"call", "handle"} => Now.refund = None
    /\ Now.pc \in {"create", "call", "call_rest"} => status = "PAID"
    /\ Now.pc = "call" => Now.refund # None
    /\ Now.refund # None => Now.refund \in Pending /\ Amounts[Now.refund] = Now.amount
    /\ Now.pc \in {"call_rest", "claim"} \/ (Now.pc = "handle" /\ Now.refund = None) =>
           refunded_amount + Now.amount = Gross
    /\ Now.pc \in {"tickets", "save"} => charge >= Gross /\ refunded_amount = Gross

Bounded == (provider = "STRIPE" => charge <= Gross) /\ (provider = "DEMO" => events = {})

Ledger == OneAtATime /\ IdleIsBlank /\ (InLine \/ Settled) /\ Fits /\ Bounded

LEMMA NowIs ==
    ASSUME NEW w \in Worker, IdleIsBlank, \A v \in Worker \ {w} : job[v].pc = "idle"
    PROVE  Now = job[w]
  <1>1. CASE job[w].pc = "idle"
    BY <1>1 DEF Now, Handling, IdleIsBlank
  <1>2. CASE job[w].pc # "idle"
    <2>1. Handling = {w}
      BY <1>2 DEF Handling
    <2>2. QED
      BY <2>1 DEF Now
  <1>3. QED
    BY <1>1, <1>2

LEMMA BlankStep ==
    ASSUME TypeOK, IdleIsBlank, [Next]_vars
    PROVE  IdleIsBlank'
  <1>0. JobsTyped /\ RefundsTyped
    BY DEF TypeOK, JobsTyped, RefundsTyped
  <1>1. ASSUME NEW w \in Worker, job'[w].pc = "idle" PROVE job'[w] = Idle
    <2>1. ASSUME NEW v \in Worker, v # w, Acts(v) PROVE job'[w] = Idle
      BY <1>0, <1>1, <2>1, OthersKeep DEF IdleIsBlank
    <2>2. ASSUME Acts(w) PROVE job'[w] = Idle
      <3>1. Acts(w) => job'[w] = Idle \/ job'[w].pc \in
               {"create", "call", "call_rest", "handle", "claim", "tickets", "save"}
        BY <1>0, JobAfter DEF Acts, Proceed
      <3>2. QED
        BY <1>1, <2>2, <3>1
    <2>3. QED
      BY <1>1, <2>1, <2>2, WhoActs DEF IdleIsBlank
  <1>2. QED
    BY <1>1 DEF IdleIsBlank

LEMMA NowMoves ==
    ASSUME TypeOK, "overlap" \notin allowed, OneAtATime, IdleIsBlank, [Next]_vars
    PROVE  \/ \E w \in Worker : Acts(w) /\ Now = job[w] /\ Now' = job'[w]
           \/ UNCHANGED <<fixed, orderVars, refund, providerVars, job>>
  <1>0. JobsTyped /\ OneAtATime' /\ IdleIsBlank'
    BY StaysAlone, BlankStep DEF TypeOK, JobsTyped
  <1>1. ASSUME NEW w \in Worker, Acts(w)
        PROVE  Now = job[w] /\ Now' = job'[w]
    <2>1. ASSUME NEW v \in Worker \ {w} PROVE job[v].pc = "idle" /\ job'[v].pc = "idle"
      <3>1. job[w].pc # "idle" \/ \A u \in Worker : job[u].pc = "idle"
        BY <1>1
           DEF Acts, Proceed, refund_order, refund_tickets, CreateRefund, StripeRefund,
               StripeRefuses, StripeRefundRest, DemoRefund, charge_refunded, apply_partial_refund,
               ReadOrder, ClaimRefunded, ReadTickets, SaveTicket, Crash
      <3>2. job[v].pc = "idle"
        BY <3>1 DEF OneAtATime
      <3>3. QED
        BY <1>0, <1>1, <3>2, OthersKeep
    <2>2. Now = job[w]
      BY <2>1, NowIs
    <2>3. CASE job'[w].pc = "idle"
      <3>1. Handling' = {} /\ job'[w] = Idle
        BY <1>0, <2>1, <2>3 DEF Handling, IdleIsBlank
      <3>2. QED
        BY <2>2, <3>1 DEF Now
    <2>4. CASE job'[w].pc # "idle"
      <3>1. Handling' = {w}
        BY <2>1, <2>4 DEF Handling
      <3>2. QED
        BY <2>2, <3>1 DEF Now
    <2>5. QED
      BY <2>3, <2>4
  <1>2. QED
    BY <1>1, WhoActs

LEMMA AmountsKept ==
    ASSUME TypeOK, [Next]_vars, NEW r \in RefundId, refund[r].status # "NONE"
    PROVE  Amounts'[r] = Amounts[r]
  <1>1. refund[r] \in OrderRefund({refund[q].amount : q \in RefundId})
    BY DEF TypeOK
  <1>2. Fails(r) => refund'[r].amount = refund[r].amount
    BY <1>1 DEF Fails, OrderRefund
  <1>3. \A w \in Worker : Applies(w, r) => refund'[r].amount = refund[r].amount
    BY <1>1 DEF Applies, OrderRefund
  <1>4. \A w \in Worker : ~Creates(w, r)
    BY DEF Creates
  <1>5. refund'[r].amount = refund[r].amount
    BY <1>2, <1>3, <1>4, RowMoves
  <1>6. QED
    BY <1>5 DEF Amounts

\* The request under way goes on, and the line of events stays.
LEMMA LineStays ==
    ASSUME TypeOK, [Next]_vars, InLine, UNCHANGED <<events, charge>>,
           Base' = Base, Waiting' = Waiting
    PROVE  InLine'
  <1>1. \A r \in Waiting : Amounts'[r] = Amounts[r]
    BY AmountsKept DEF Waiting, Pending
  <1>2. QED
    BY <1>1, LineKept DEF InLine

LEMMA LineIsTyped ==
    ASSUME MoneyTyped, NEW w \in Worker, Now = job[w]
    PROVE  LineTypes(events, charge, Amounts, Base, Waiting) /\ Now.amount \in Int
  BY DEF MoneyTyped, LineTypes, Base, Waiting, Pending

\* An order of which everything was booked before: nothing is left to report.
LEMMA LineIsDone ==
    ASSUME MoneyTyped, InLine, Bounded, provider \in {"DEMO", "STRIPE"}, Base = Gross
    PROVE  charge >= Gross /\ events = {} /\ charge = Gross
  <1>1. /\ charge \in events \cup {Gross} /\ \A e \in events : Gross < e /\ e <= charge
        /\ charge \in Int /\ events \subseteq Int
    BY DEF InLine, Line, MoneyTyped
  <1>2. events = {}
    BY <1>1, GrossIsNat DEF Bounded
  <1>3. QED
    BY <1>1, <1>2, GrossIsNat

LedgerHyps(w) ==
    /\ TypeOK /\ MoneyTyped /\ Ledger /\ InLine /\ Trusting /\ UNCHANGED fixed
    /\ Now = job[w] /\ Now' = job'[w]
    /\ JobsTyped /\ RefundsTyped
LedgerGoal == (InLine \/ Settled)' /\ Fits' /\ Bounded'

\* Staff ask for a refund, whole or of some tickets.
LEMMA AskLedger ==
    ASSUME NEW w \in Worker, LedgerHyps(w), [Next]_vars,
           refund_order(w) \/ \E S \in SUBSET Ticket : refund_tickets(w, S)
    PROVE  LedgerGoal
  <1> USE DEF LedgerHyps
  <1>1. /\ UNCHANGED <<orderVars, refund, providerVars>> /\ status = "PAID"
        /\ job[w].pc = "idle"
    BY DEF refund_order, refund_tickets
  <1>2. Now = Idle
    BY <1>1 DEF Ledger, IdleIsBlank
  <1>3. Now'.refund = None /\ Now'.pc \in {"create", "call_rest"}
        /\ (Now'.pc = "call_rest" => Now'.amount = Gross - refunded_amount)
    <2>1. ASSUME refund_order(w)
          PROVE  Now'.refund = None /\ Now'.pc = "call_rest" /\ Now'.amount = Gross - refunded_amount
      <3>1. Now.refund = None
        BY <1>2 DEF Idle
      <3>2. QED
        BY <2>1, <3>1, JobAfter
    <2>2. ASSUME NEW S \in SUBSET Ticket, refund_tickets(w, S)
          PROVE  /\ Now'.refund = None /\ Now'.pc \in {"create", "call_rest"}
                 /\ Now'.pc = "call_rest" => Now'.amount = Gross - refunded_amount
      <3>1. /\ Now'.refund = None /\ Now'.amount = AmountFor(S)
            /\ \/ Now'.pc = "create"
               \/ Now'.pc = "call_rest" /\ LeftAfter(S) = 0 /\ Pending = {}
        BY <2>2, JobAfter
      <3>2. ASSUME LeftAfter(S) = 0, Pending = {} PROVE AmountFor(S) = Gross - refunded_amount
        <4>1. PendingAmount = 0
          BY <3>2, PendingAreSummed, SumEmpty
        <4>2. QED
          BY <3>2, <4>1, GrossIsNat DEF AmountFor, MoneyTyped
      <3>3. QED
        BY <3>1, <3>2
    <2>3. QED
      BY <2>1, <2>2
  <1>4. Base' = Base /\ Waiting' = Waiting
    BY <1>1, <1>2, <1>3 DEF Base, Waiting, Pending, Idle
  <1>5. InLine'
    BY <1>1, <1>4, LineStays
  <1>6. Fits'
    BY <1>1, <1>3, GrossIsNat DEF Fits, MoneyTyped
  <1>7. QED
    BY <1>1, <1>5, <1>6 DEF LedgerGoal, Bounded, Ledger

LEMMA CreateLedger ==
    ASSUME NEW w \in Worker, LedgerHyps(w), [Next]_vars, CreateRefund(w)
    PROVE  LedgerGoal
  <1> USE DEF LedgerHyps
  <1> DEFINE r == Now'.refund
  <1>1. UNCHANGED <<orderVars, providerVars>> /\ Now.pc = "create"
    BY DEF CreateRefund
  <1>2. status = "PAID" /\ Now.refund = None
    BY <1>1 DEF Ledger, Fits
  <1>3. Now'.pc = "call" /\ Now'.amount = Now.amount /\ r \in RefundId /\ Creates(w, r)
    BY JobAfter
  <1>4. refund[r].status = "NONE" /\ refund'[r].status = "REQUESTED" /\ refund'[r].amount = Now.amount
    BY <1>3 DEF Creates
  <1>5. \A q \in RefundId \ {r} : refund'[q] = refund[q]
    <2>1. PICK q \in RefundId :
              /\ refund' = [refund EXCEPT ![q] = [status |-> "REQUESTED",
                                tickets |-> job[w].tickets, amount |-> job[w].amount]]
              /\ job' = [job EXCEPT ![w].pc = "call", ![w].refund = q]
      BY DEF CreateRefund
    <2>2. job'[w].refund = q
      BY <2>1 DEF JobsTyped, Job
    <2>3. QED
      BY <2>1, <2>2 DEF RefundsTyped
  <1>6. Pending' = Pending \cup {r} /\ r \notin Pending
    BY <1>3, <1>4, <1>5 DEF Pending
  <1>7. Waiting' = Waiting
    BY <1>2, <1>3, <1>6, NoneIsNoRow DEF Waiting, Pending
  <1>8. Base' = Base
    BY <1>1, <1>3 DEF Base
  <1>9. InLine'
    BY <1>1, <1>7, <1>8, LineStays
  <1>10. Amounts'[r] = Now.amount
    BY <1>3, <1>4 DEF Amounts
  <1>11. Fits'
    BY <1>1, <1>2, <1>3, <1>6, <1>10, NoneIsNoRow DEF Fits
  <1>12. QED
    BY <1>1, <1>9, <1>11 DEF LedgerGoal, Bounded, Ledger

\* Stripe returns the money of the refund the request is about, or refuses.
LEMMA CallLedger ==
    ASSUME NEW w \in Worker, LedgerHyps(w), [Next]_vars, StripeRefund(w) \/ StripeRefuses(w)
    PROVE  LedgerGoal
  <1> USE DEF LedgerHyps
  <1> DEFINE r == Now.refund
  <1>1. UNCHANGED orderVars /\ Now.pc = "call" /\ provider = "STRIPE" /\ "lost_answer" \notin allowed
    BY DEF StripeRefund, StripeRefuses, Returns, Trusting
  <1>2. r \in Pending /\ Amounts[r] = Now.amount /\ r \in RefundId \ Waiting
    BY <1>1 DEF Ledger, Fits, Pending, Waiting
  <1>3. Now' = Idle
    BY JobAfter
  <1>4. Base' = Base /\ Base = refunded_amount
    BY <1>1, <1>3 DEF Base, Idle, MoneyTyped
  <1>5. Fits'
    BY <1>3 DEF Fits, Idle
  <1>6. CASE StripeRefund(w)
    <2>1. /\ UNCHANGED refund /\ 0 < Amounts[r] /\ charge + Amounts[r] <= Gross
          /\ charge' = charge + Amounts[r] /\ events' = events \cup {charge + Amounts[r]}
      BY <1>1, <1>2, <1>6 DEF StripeRefund, Returns, Returnable
    <2>2. Waiting' = Waiting \cup {r}
      BY <1>2, <1>3, <2>1, NoneIsNoRow DEF Waiting, Pending, Idle
    <2>3. Amounts' = Amounts
      BY <2>1 DEF Amounts
    <2>4. LineTypes(events, charge, Amounts, Base, Waiting)
      BY LineIsTyped
    <2> HIDE DEF r
    <2>5. InLine'
      BY <1>2, <1>4, <2>1, <2>2, <2>3, <2>4, LineGrows DEF InLine
    <2>6. QED
      BY <1>1, <1>5, <2>1, <2>5 DEF LedgerGoal, Bounded
  <1>7. CASE StripeRefuses(w)
    <2>1. /\ refund' = [refund EXCEPT ![r].status = IF @ = "REQUESTED" THEN "FAILED" ELSE @]
          /\ UNCHANGED providerVars
      BY <1>7 DEF StripeRefuses
    <2>2. Pending' = Pending \ {r}
      BY <1>2, <2>1 DEF Pending, RefundsTyped, OrderRefund
    <2>3. Waiting' = Waiting
      BY <1>3, <2>2, NoneIsNoRow DEF Waiting, Pending, Idle
    <2>4. InLine'
      BY <1>4, <2>1, <2>3, LineStays
    <2>5. QED
      BY <1>1, <1>5, <2>1, <2>4 DEF LedgerGoal, Bounded, Ledger
  <1>8. QED
    BY <1>6, <1>7

LEMMA CallRestLedger ==
    ASSUME NEW w \in Worker, LedgerHyps(w), [Next]_vars, StripeRefundRest(w)
    PROVE  LedgerGoal
  <1> USE DEF LedgerHyps
  <1>1. /\ UNCHANGED <<orderVars, refund>> /\ Now.pc = "call_rest" /\ provider = "STRIPE"
        /\ IF charge < Gross THEN Returns(Gross - charge) ELSE UNCHANGED providerVars
    BY DEF StripeRefundRest
  <1>2. Now' = Idle /\ Now.refund = None
    BY <1>1, JobAfter DEF Ledger, Fits
  <1>3. Base' = Base /\ Waiting' = Waiting /\ Amounts' = Amounts
    BY <1>1, <1>2 DEF Base, Waiting, Pending, Idle, Amounts
  <1>4. Fits'
    BY <1>2 DEF Fits, Idle
  <1>5. CASE charge < Gross
    <2>1. charge' = Gross /\ events' = events \cup {Gross}
      BY <1>1, <1>5, GrossIsNat DEF Returns, MoneyTyped
    <2>2. LineTypes(events, charge, Amounts, Base, Waiting)
      BY LineIsTyped
    <2>3. InLine'
      BY <1>3, <1>5, <2>1, <2>2, LineEnds, GrossIsNat DEF InLine
    <2>4. QED
      BY <1>1, <1>4, <2>1, <2>3, GrossIsNat DEF LedgerGoal, Bounded
  <1>6. CASE ~(charge < Gross)
    <2>1. UNCHANGED providerVars
      BY <1>1, <1>6
    <2>2. InLine'
      BY <1>3, <2>1, LineStays
    <2>3. QED
      BY <1>1, <1>4, <2>1, <2>2 DEF LedgerGoal, Bounded, Ledger
  <1>7. QED
    BY <1>5, <1>6

LEMMA DemoLedger ==
    ASSUME NEW w \in Worker, LedgerHyps(w), [Next]_vars, DemoRefund(w)
    PROVE  LedgerGoal
  <1> USE DEF LedgerHyps
  <1>1. /\ UNCHANGED <<orderVars, refund, events>> /\ Now.pc \in {"call", "call_rest"}
        /\ provider = "DEMO" /\ charge' = charge + Now.amount
    BY DEF DemoRefund
  <1>2. Now'.pc = "handle" /\ Now'.amount = Now.amount /\ Now'.refund = Now.refund
    BY JobAfter
  <1>3. events = {} /\ charge = Base /\ Base = refunded_amount /\ Base' = Base + Now.amount
    <2>1. refunded_amount \in Int /\ Now.amount \in Int
      BY DEF MoneyTyped
    <2>2. events = {}
      BY <1>1 DEF Ledger, Bounded
    <2>3. charge = Base
      BY <2>2 DEF InLine, Line
    <2>4. QED
      BY <1>1, <1>2, <2>1, <2>2, <2>3 DEF Base
  <1>4. Waiting = {}
    BY <1>3 DEF InLine, Line
  <1>5. Waiting' = Waiting
    BY <1>1, <1>2 DEF Waiting, Pending
  <1>6. charge' = Base' /\ events' = {}
    BY <1>1, <1>3
  <1>7. Line(events', charge', Amounts', Base', Waiting')
    <2> DEFINE m == [e \in {} |-> None]
    <2>1. m \in [{} -> Waiting' \cup {None}]
      OBVIOUS
    <2>2. QED
      BY <1>4, <1>5, <1>6, <2>1 DEF Line
  <1>8. InLine'
    BY <1>7 DEF InLine
  <1>9. Fits'
    BY <1>1, <1>2 DEF Ledger, Fits, Pending, Amounts
  <1>10. QED
    BY <1>1, <1>6, <1>8, <1>9 DEF LedgerGoal, Bounded

\* The first event is taken, for the earliest refund it may be about.
LEMMA DeliverLedger ==
    ASSUME NEW w \in Worker, LedgerHyps(w), [Next]_vars,
           NEW total \in events, charge_refunded(w, total)
    PROVE  LedgerGoal
  <1> USE DEF LedgerHyps
  <1>1. /\ UNCHANGED <<orderVars, refund, charge, outflow>> /\ events' = events \ {total}
        /\ \A e \in events : total <= e
        /\ Now.pc = "idle"
    BY DEF charge_refunded, Trusting
  <1>2. Now = Idle /\ provider = "STRIPE" /\ charge <= Gross
    BY <1>1 DEF Ledger, IdleIsBlank, Bounded, TypeOK
  <1>3. /\ Now'.pc = "handle" /\ Now'.amount = total - refunded_amount
        /\ Now'.refund \in Earliest(Match(total))
    BY JobAfter
  <1>4. refunded_amount \in Int /\ total \in Int
    BY DEF MoneyTyped
  <1>5. Base = refunded_amount /\ Waiting = Pending /\ Base' = total /\ Amounts' = Amounts
    BY <1>1, <1>2, <1>3, <1>4, NoneIsNoRow DEF Base, Waiting, Pending, Idle, Amounts
  <1>6. Match(total) = {r \in Waiting : Amounts[r] = total - Base}
    BY <1>5 DEF Match, Amounts, Pending
  <1>7. Pending' = Pending
    BY <1>1 DEF Pending
  <1>8. LineTypes(events, charge, Amounts, Base, Waiting)
    BY LineIsTyped
  <1>9. /\ Match(total) = {} =>
              total = Gross /\ Line(events \ {total}, charge, Amounts, total, Waiting)
        /\ \A r \in Waiting : Amounts[r] = total - Base =>
              Line(events \ {total}, charge, Amounts, total, Waiting \ {r})
    BY <1>1, <1>2, <1>6, <1>8, LineTakes, GrossIsNat DEF InLine
  <1>10. CASE Match(total) = {}
    <2>1. Now'.refund = None
      BY <1>3, <1>10 DEF Earliest
    <2>2. Waiting' = Waiting
      BY <1>5, <1>7, <2>1, NoneIsNoRow DEF Waiting, Pending
    <2>3. InLine'
      BY <1>1, <1>5, <1>9, <1>10, <2>2 DEF InLine
    <2>4. Fits'
      BY <1>1, <1>3, <1>4, <1>9, <1>10, <2>1 DEF Fits
    <2>5. QED
      BY <1>1, <1>2, <2>3, <2>4 DEF LedgerGoal, Bounded
  <1>11. CASE Match(total) # {}
    <2> DEFINE r == Now'.refund
    <2>1. r \in Match(total)
      BY <1>3, <1>11 DEF Earliest
    <2>2. r \in Waiting /\ r \in Pending' /\ Amounts[r] = total - Base
      BY <1>5, <1>6, <1>7, <2>1
    <2>3. Waiting' = Waiting \ {r}
      BY <1>5, <1>7 DEF Waiting
    <2>4. InLine'
      BY <1>1, <1>5, <1>9, <2>2, <2>3 DEF InLine
    <2>5. r # None
      BY <2>2, NoneIsNoRow DEF Waiting, Pending
    <2>6. Amounts'[r] = Now'.amount
      BY <1>3, <1>5, <2>2
    <2>7. Fits'
      BY <1>3, <2>2, <2>5, <2>6 DEF Fits
    <2>8. QED
      BY <1>1, <1>2, <2>4, <2>7 DEF LedgerGoal, Bounded
  <1>12. QED
    BY <1>10, <1>11

\* The refund is booked.
LEMMA ApplyLedger ==
    ASSUME NEW w \in Worker, LedgerHyps(w), [Next]_vars, apply_partial_refund(w)
    PROVE  LedgerGoal
  <1> USE DEF LedgerHyps
  <1> DEFINE r == Now.refund
  <1>1. Now.pc = "handle" /\ r # None
    BY DEF apply_partial_refund
  <1>2. r \in Pending /\ Amounts[r] = Now.amount /\ r \in RefundId
    BY <1>1 DEF Ledger, Fits, Pending
  <1>3. Now' = Idle
    BY JobAfter
  <1>4. UNCHANGED <<events, charge>>
    BY <1>2 DEF apply_partial_refund, Processed
  <1>5. /\ Pending' = Pending \ {r} /\ refunded_amount' = refunded_amount + refund[r].amount
    BY <1>2, ApplyBooks
  <1>6. Waiting' = Waiting
    BY <1>3, <1>5, NoneIsNoRow DEF Waiting, Pending, Idle
  <1>7. Base' = Base
    <2>1. refunded_amount \in Int /\ Now.amount \in Int /\ refund[r].amount = Now.amount
      BY <1>2 DEF MoneyTyped, Amounts
    <2>2. Base = refunded_amount + Now.amount
      BY <1>1 DEF Base
    <2>3. Base' = refunded_amount' + 0
      BY <1>3 DEF Base, Idle
    <2> HIDE DEF r
    <2>4. QED
      BY <1>5, <2>1, <2>2, <2>3
  <1>8. InLine'
    BY <1>4, <1>6, <1>7, LineStays
  <1>9. Fits'
    BY <1>3 DEF Fits, Idle
  <1>10. QED
    BY <1>4, <1>8, <1>9 DEF LedgerGoal, Bounded, Ledger

\* A refund of the whole order is read, claimed, and its tickets are saved.
LEMMA WholeLedger ==
    ASSUME NEW w \in Worker, LedgerHyps(w), [Next]_vars,
           \/ ReadOrder(w) \/ ClaimRefunded(w) \/ ReadTickets(w)
           \/ \E t \in Ticket : SaveTicket(w, t)
    PROVE  LedgerGoal
  <1> USE DEF LedgerHyps
  <1>0. UNCHANGED <<events, charge>> /\ refunded_amount \in Int /\ Now.amount \in Int
    BY DEF ReadOrder, ClaimRefunded, ReadTickets, SaveTicket, Processed, MoneyTyped
  <1>1. CASE ReadOrder(w)
    <2>1. /\ UNCHANGED <<orderVars, refund>> /\ Now.pc = "handle" /\ Now.refund = None
      BY <1>1 DEF ReadOrder
    <2>2. Now'.pc = "claim" /\ Now'.amount = Now.amount /\ Now'.refund = Now.refund
      BY <1>1, JobAfter
    <2>3. Base' = Base /\ Waiting' = Waiting
      BY <2>1, <2>2 DEF Base, Waiting, Pending
    <2>4. InLine'
      BY <1>0, <2>3, LineStays
    <2>5. Fits'
      BY <1>0, <2>1, <2>2 DEF Ledger, Fits
    <2>6. QED
      BY <1>0, <2>4, <2>5 DEF LedgerGoal, Bounded, Ledger
  <1>2. CASE ClaimRefunded(w)
    <2>1. Now.pc = "claim" /\ refund' \in [RefundId -> OrderRefund({refund'[r].amount : r \in RefundId})]
      BY <1>2, RefundsStep DEF ClaimRefunded, RefundsTyped
    <2>2. refunded_amount + Now.amount = Gross /\ Now.refund = None
      BY <2>1 DEF Ledger, Fits
    <2>3. Base = Gross
      BY <2>1, <2>2 DEF Base
    <2>4. events = {} /\ charge = Gross
      BY <2>3, LineIsDone DEF Ledger, TypeOK
    <2>5. CASE status = "PAID"
      <3>1. Now'.pc = "tickets" /\ Now'.refund = None /\ refunded_amount' = Gross
        BY <1>2, <2>2, <2>5, JobAfter DEF ClaimRefunded
      <3>2. Pending' = {}
        <4>1. refund' = [r \in RefundId |-> IF r \in Pending
                             THEN [refund[r] EXCEPT !.status = "FAILED"] ELSE refund[r]]
          BY <1>2, <2>5 DEF ClaimRefunded
        <4>2. ASSUME NEW r \in RefundId PROVE refund'[r].status # "REQUESTED"
          BY <4>1 DEF RefundsTyped, OrderRefund, Pending
        <4>3. QED
          BY <4>2 DEF Pending
      <3>3. Base' = Gross /\ Waiting' = {}
        BY <3>1, <3>2, GrossIsNat DEF Base, Waiting
      <3>4. Line(events', charge', Amounts', Base', Waiting')
        <4> DEFINE m == [e \in {} |-> None]
        <4>1. m \in [{} -> {} \cup {None}]
          OBVIOUS
        <4>2. QED
          BY <1>0, <2>4, <3>3, <4>1 DEF Line
      <3>5. InLine'
        BY <3>4 DEF InLine
      <3>6. Fits'
        BY <1>0, <2>4, <3>1, GrossIsNat DEF Fits
      <3>7. QED
        BY <1>0, <3>5, <3>6 DEF LedgerGoal, Bounded, Ledger
    <2>6. CASE status # "PAID"
      <3>1. Now' = Idle /\ UNCHANGED orderVars
        BY <1>2, <2>6, JobAfter DEF ClaimRefunded
      <3>2. Settled'
        BY <1>0, <2>4, <2>6, <3>1 DEF Settled, TypeOK
      <3>3. Fits'
        BY <3>1 DEF Fits, Idle
      <3>4. QED
        BY <1>0, <3>2, <3>3 DEF LedgerGoal, Bounded, Ledger
    <2>7. QED
      BY <2>5, <2>6
  <1>3. CASE ReadTickets(w) \/ \E t \in Ticket : SaveTicket(w, t)
    <2>1. UNCHANGED <<orderVars, refund>> /\ Now.pc \in {"tickets", "save"}
      BY <1>3 DEF ReadTickets, SaveTicket
    <2>2. Now.refund = None
      BY <2>1 DEF Ledger, Fits
    <2>3. Now'.refund = None /\ Now'.pc \in {"idle", "save"}
      <3>1. Idle.refund = None /\ Idle.pc = "idle"
        BY DEF Idle
      <3>2. QED
        BY <1>3, <2>2, <3>1, JobAfter
    <2>4. Base' = Base /\ Waiting' = Waiting
      BY <1>0, <2>1, <2>2, <2>3 DEF Base, Waiting, Pending
    <2>5. InLine'
      BY <1>0, <2>4, LineStays
    <2>6. Fits'
      BY <1>0, <2>1, <2>3, GrossIsNat DEF Ledger, Fits
    <2>7. QED
      BY <1>0, <2>5, <2>6 DEF LedgerGoal, Bounded, Ledger
  <1>4. QED
    BY <1>1, <1>2, <1>3

LEMMA LedgerStep ==
    ASSUME IInv, MoneyTyped, Trusting, Ledger, [Next]_vars
    PROVE  Ledger'
  <1>0. /\ TypeOK /\ JobsTyped /\ RefundsTyped /\ UNCHANGED fixed /\ "overlap" \notin allowed
        /\ OneAtATime /\ IdleIsBlank
    BY CountersStep DEF IInv, TypeOK, JobsTyped, RefundsTyped, Trusting, Ledger
  <1>1. OneAtATime' /\ IdleIsBlank'
    BY <1>0, StaysAlone, BlankStep
  <1>2. ASSUME UNCHANGED <<fixed, orderVars, refund, providerVars, job>>
        PROVE  LedgerGoal
    <2>1. Now' = Now
      BY <1>2 DEF Now, Handling
    <2>2. Base' = Base /\ Waiting' = Waiting /\ Pending' = Pending /\ Amounts' = Amounts
      BY <1>2, <2>1 DEF Base, Waiting, Pending, Amounts
    <2>3. (InLine \/ Settled)'
      BY <1>2, <2>1, <2>2 DEF Ledger, InLine, Settled
    <2>4. Fits' /\ Bounded'
      BY <1>2, <2>1, <2>2 DEF Ledger, Fits, Bounded
    <2>5. QED
      BY <2>3, <2>4 DEF LedgerGoal
  <1>3. ASSUME NEW w \in Worker, Acts(w), Now = job[w], Now' = job'[w]
        PROVE  LedgerGoal
    <2>1. CASE InLine
      <3>1. LedgerHyps(w)
        BY <1>0, <1>3, <2>1 DEF LedgerHyps
      <3>2. ~Crash(w)
        BY DEF Crash, Trusting
      <3>3. QED
        BY <1>3, <3>1, <3>2, AskLedger, CreateLedger, CallLedger, CallRestLedger, DemoLedger,
           DeliverLedger, ApplyLedger, WholeLedger DEF Acts, Proceed
    <2>2. CASE Settled
      <3>1. job[w].pc = "idle" /\ status = "REFUNDED" /\ events = {}
        BY <1>3, <2>2 DEF Settled, Idle
      <3>2. QED
        BY <1>3, <3>1
           DEF Acts, Proceed, refund_order, refund_tickets, CreateRefund, StripeRefund,
               StripeRefuses, StripeRefundRest, DemoRefund, charge_refunded, apply_partial_refund,
               ReadOrder, ClaimRefunded, ReadTickets, SaveTicket, Crash
    <2>3. QED
      BY <2>1, <2>2 DEF Ledger
  <1>4. LedgerGoal
    BY <1>0, <1>2, <1>3, NowMoves
  <1>5. QED
    BY <1>1, <1>4 DEF Ledger, LedgerGoal

LEMMA InitLedger == Init => Ledger
  <1> SUFFICES ASSUME Init PROVE Ledger
    OBVIOUS
  <1>1. \A w \in Worker : job[w] = Idle /\ job[w].pc = "idle"
    BY DEF Init, Idle
  <1>2. Handling = {} /\ Now = Idle
    BY <1>1 DEF Handling, Now
  <1>3. Base = 0 /\ Waiting = {}
    BY <1>2 DEF Init, Base, Waiting, Pending, Idle
  <1>4. Line(events, charge, Amounts, Base, Waiting)
    <2> DEFINE m == [e \in {} |-> None]
    <2>1. m \in [{} -> {} \cup {None}]
      OBVIOUS
    <2>2. QED
      BY <1>3, <2>1 DEF Init, Line
  <1>5. Fits /\ Bounded
    BY <1>2, GrossIsNat DEF Init, Fits, Bounded, Idle
  <1>6. QED
    BY <1>1, <1>4, <1>5 DEF Ledger, OneAtATime, IdleIsBlank, InLine

-----------------------------------------------------------------------------
(* Which tickets lose their validity.                                      *)

\* A ticket no refund was applied to is refunded only with all of the money.
Valid == \A t \in Ticket : ticket[t] = "REFUNDED" =>
    t \in AppliedTickets \/ (status = "REFUNDED" /\ charge >= Gross)

LEMMA AppliedStay ==
    ASSUME TypeOK, [Next]_vars
    PROVE  AppliedTickets \subseteq AppliedTickets'
  <1>1. ASSUME NEW r \in Applied PROVE refund'[r] = refund[r] /\ r \in Applied'
    <2>1. r \in RefundId /\ refund[r].status = "SUCCEEDED"
      BY <1>1 DEF Applied
    <2>2. ~Fails(r) /\ \A w \in Worker : ~Applies(w, r) /\ ~Creates(w, r)
      BY <2>1 DEF Fails, Applies, Creates
    <2>3. refund'[r] = refund[r]
      BY <2>1, <2>2, RowMoves
    <2>4. QED
      BY <2>1, <2>3 DEF Applied
  <1>2. QED
    BY <1>1 DEF AppliedTickets

LEMMA TicketsLost ==
    ASSUME TypeOK, [Next]_vars, NEW t \in Ticket,
           ticket'[t] # ticket[t], ticket'[t] = "REFUNDED"
    PROVE  \/ \E w \in Worker : /\ apply_partial_refund(w) /\ job[w].refund \in Pending
                                /\ t \in refund[job[w].refund].tickets
           \/ \E w \in Worker : SaveTicket(w, t)
  <1>0. ticket \in [Ticket -> TicketStatus]
    BY DEF TypeOK
  <1>1. ASSUME NEW w \in Worker, apply_partial_refund(w)
        PROVE  job[w].refund \in Pending /\ t \in refund[job[w].refund].tickets
    <2>1. job[w].refund \in Pending
      BY <1>1 DEF apply_partial_refund
    <2>2. ticket' = [u \in Ticket |-> IF u \in refund[job[w].refund].tickets /\ ticket[u] = "ISSUED"
                                      THEN "REFUNDED" ELSE ticket[u]]
      BY <1>1, <2>1 DEF apply_partial_refund
    <2>3. QED
      BY <2>1, <2>2
  <1>2. ASSUME NEW w \in Worker, NEW u \in Ticket, SaveTicket(w, u) PROVE u = t
    BY <1>0, <1>2 DEF SaveTicket
  <1>3. ASSUME NEW u \in Ticket, check_in(u) \/ undo_check_in(u) PROVE FALSE
    BY <1>0, <1>3 DEF check_in, undo_check_in
  <1>4. ticket' # ticket
    OBVIOUS
  <1>5. QED
    BY <1>1, <1>2, <1>3, <1>4
       DEF Next, Proceed, Deliver, vars, refund_order, refund_tickets, CreateRefund,
           StripeRefund, StripeRefuses, StripeRefundRest, DemoRefund, charge_refunded, ReadOrder,
           ClaimRefunded, ReadTickets, Crash

\* Once all of the money is returned it stays so.
LEMMA ReturnedStays ==
    ASSUME TypeOK, MoneyTyped, Ledger, Trusting, [Next]_vars, status = "REFUNDED", charge >= Gross
    PROVE  status' = "REFUNDED" /\ charge' >= Gross
  <1>0. status' = "REFUNDED" /\ charge \in Int /\ OneAtATime /\ IdleIsBlank
        /\ "overlap" \notin allowed
    BY OrderStep DEF MoneyTyped, Ledger, Trusting
  <1>1. ASSUME NEW w \in Worker, Acts(w), Now = job[w]
        PROVE  charge' >= Gross
    <2>1. ~DemoRefund(w)
      BY <1>1 DEF DemoRefund, Ledger, Fits
    <2>2. \/ UNCHANGED charge
          \/ StripeRefund(w) /\ charge' = charge + job[w].amount /\ 0 < job[w].amount
          \/ StripeRefundRest(w) /\ charge' = charge + (Gross - charge) /\ charge < Gross
      BY <1>1, <2>1
         DEF Acts, Proceed, refund_order, refund_tickets, CreateRefund, StripeRefund,
             StripeRefuses, StripeRefundRest, charge_refunded, apply_partial_refund,
             ReadOrder, ClaimRefunded, ReadTickets, SaveTicket, Crash, Returns, Returnable, Processed
    <2>3. job[w].amount \in Int
      BY DEF MoneyTyped
    <2>4. QED
      BY <1>0, <2>2, <2>3, GrossIsNat
  <1>2. QED
    BY <1>0, <1>1, NowMoves

LEMMA ValidStep ==
    ASSUME IInv, MoneyTyped, Ledger, Trusting, Valid, [Next]_vars
    PROVE  Valid'
  <1>0. /\ TypeOK /\ OneAtATime /\ IdleIsBlank /\ SavesAfterClaim /\ "overlap" \notin allowed
        /\ RefundsTyped
    BY DEF IInv, TypeOK, Ledger, Trusting, RefundsTyped
  <1>1. ASSUME NEW t \in Ticket, ticket'[t] = "REFUNDED"
        PROVE  t \in AppliedTickets' \/ (status' = "REFUNDED" /\ charge' >= Gross)
    <2>1. CASE ticket'[t] = ticket[t]
      BY <1>0, <1>1, <2>1, AppliedStay, ReturnedStays DEF Valid
    <2>2. ASSUME NEW w \in Worker, apply_partial_refund(w), job[w].refund \in Pending,
                 t \in refund[job[w].refund].tickets
          PROVE  t \in AppliedTickets'
      BY <1>0, <2>2, ApplyBooks
    <2>3. ASSUME NEW w \in Worker, SaveTicket(w, t)
          PROVE  status' = "REFUNDED" /\ charge' >= Gross
      <3>1. job[w].pc = "save" /\ status = "REFUNDED"
        BY <1>0, <2>3 DEF SaveTicket, SavesAfterClaim
      <3>2. Now = job[w]
        <4>1. \A v \in Worker \ {w} : job[v].pc = "idle"
          BY <1>0, <3>1 DEF OneAtATime
        <4>2. QED
          BY <1>0, <4>1, NowIs
      <3>3. charge >= Gross
        BY <3>1, <3>2 DEF Ledger, Fits
      <3>4. QED
        BY <1>0, <3>1, <3>3, ReturnedStays
    <2>4. QED
      BY <1>0, <1>1, <2>1, <2>2, <2>3, TicketsLost
  <1>2. QED
    BY <1>1 DEF Valid

LEMMA InitValid == Init => Valid
  BY DEF Init, Valid

LEMMA LedgerAlways == Spec => [](Trusting => Ledger /\ Valid)
  <1>1. Init => (Trusting => Ledger /\ Valid)
    BY InitLedger, InitValid
  <1>2. IInv /\ MoneyTyped /\ (Trusting => Ledger /\ Valid) /\ [Next]_vars =>
            (Trusting => Ledger /\ Valid)'
    <2> SUFFICES ASSUME IInv, MoneyTyped, Trusting => Ledger /\ Valid, [Next]_vars, Trusting'
                 PROVE  Ledger' /\ Valid'
      OBVIOUS
    <2>1. Trusting
      BY CountersStep DEF IInv, Trusting
    <2>2. QED
      BY <2>1, LedgerStep, ValidStep
  <1>3. QED
    BY <1>1, <1>2, Invariance, MoneyAlways, PTL DEF Spec

\* As long as requests do not overlap, die, lose an answer or are overtaken, a
\* ticket loses its validity only when a refund of it is applied, or when all
\* of the money has been returned, whichever refunds the events are matched to
\* and whatever the gate takes back (orders/models.py OrderRefund,
\* orders/payments.py mark_order_refunded).
THEOREM RestStaysValid == Spec => []RestStayValid
  <1>1. (Trusting => Ledger /\ Valid) => RestStayValid
    BY DEF Trusting, Valid, RestStayValid
  <1>2. QED
    BY <1>1, LedgerAlways, PTL

-----------------------------------------------------------------------------
(* The books.                                                              *)

\* The payment events that were processed tell of what is booked, but for a
\* refund of the whole order whose tickets are still being saved.
Reported == outflow + (IF Now.pc \in {"tickets", "save"} THEN Now.amount ELSE 0) = refunded_amount

\* The order has booked no more than the provider has returned.
NotAhead == (provider = "STRIPE" \/ allowed = {}) => refunded_amount <= charge

\* A refunded order has booked all of its money, and only the request that
\* refunded it as a whole knows of tickets that are still valid.
AllBooked == status = "REFUNDED" => refunded_amount = Gross
NoneLeft == status = "REFUNDED" => \A t \in Ticket : ticket[t] = "ISSUED" =>
    Now.pc = "tickets" \/ (Now.pc = "save" /\ t \in Now.tickets)

\* The events still to come tell of more than what is booked or about to be.
LEMMA BaseNotAhead ==
    ASSUME MoneyTyped, InLine, Base \in Int
    PROVE  Base <= charge
  BY DEF InLine, Line, MoneyTyped

LEMMA ReportedStep ==
    ASSUME IInv, MoneyTyped, Trusting, Ledger, Reported, [Next]_vars
    PROVE  Reported'
  <1>0. /\ TypeOK /\ JobsTyped /\ RefundsTyped /\ OneAtATime /\ IdleIsBlank
        /\ "overlap" \notin allowed
        /\ refunded_amount \in Int /\ outflow \in Int
    BY DEF IInv, TypeOK, JobsTyped, RefundsTyped, Trusting, Ledger, MoneyTyped
  <1>1. ASSUME UNCHANGED <<fixed, orderVars, refund, providerVars, job>>
        PROVE  Reported'
    BY <1>1 DEF Reported, Now, Handling
  <1>2. ASSUME NEW w \in Worker, Acts(w), Now = job[w], Now' = job'[w]
        PROVE  Reported'
    <2>0. /\ Now.amount \in Int /\ Idle.pc = "idle" /\ Idle.amount = 0
          /\ ~Crash(w)
      BY <1>2 DEF MoneyTyped, Idle, Crash, Trusting
    <2>1. ASSUME apply_partial_refund(w)
          PROVE  Reported'
      <3>1. Now.pc = "handle" /\ Now.refund # None /\ Now' = Idle
        BY <1>0, <1>2, <2>1, JobAfter DEF apply_partial_refund
      <3>2. Now.refund \in Pending /\ refund[Now.refund].amount = Now.amount
        BY <3>1 DEF Ledger, Fits, Pending, Amounts
      <3>3. outflow' = outflow + Now.amount /\ refunded_amount' = refunded_amount + Now.amount
        BY <1>2, <2>1, <3>2 DEF apply_partial_refund, Processed
      <3>4. outflow = refunded_amount
        BY <1>0, <3>1 DEF Reported
      <3>5. QED
        BY <1>0, <2>0, <3>1, <3>3, <3>4 DEF Reported
    <2>2. ASSUME ClaimRefunded(w)
          PROVE  Reported'
      <3>1. Now.pc = "claim" /\ outflow' = outflow
        BY <1>2, <2>2 DEF ClaimRefunded
      <3>2. refunded_amount + Now.amount = Gross /\ outflow = refunded_amount
        BY <1>0, <3>1 DEF Ledger, Fits, Reported
      <3>3. IF status = "PAID"
            THEN Now'.pc = "tickets" /\ Now'.amount = Now.amount /\ refunded_amount' = Gross
            ELSE Now' = Idle /\ refunded_amount' = refunded_amount
        BY <1>0, <1>2, <2>2, JobAfter DEF ClaimRefunded
      <3>4. QED
        BY <1>0, <2>0, <3>1, <3>2, <3>3 DEF Reported
    <2>3. ASSUME ReadTickets(w) \/ \E t \in Ticket : SaveTicket(w, t)
          PROVE  Reported'
      <3>1. Now.pc \in {"tickets", "save"} /\ UNCHANGED orderVars
        BY <1>2, <2>3 DEF ReadTickets, SaveTicket
      <3>2. \/ Now' = Idle /\ Processed(w)
            \/ Now'.pc = "save" /\ Now'.amount = Now.amount /\ UNCHANGED providerVars
        BY <1>0, <1>2, <2>3, JobAfter
      <3>3. QED
        BY <1>0, <1>2, <2>0, <3>1, <3>2 DEF Reported, Processed
    <2>4. ASSUME \/ refund_order(w) \/ (\E S \in SUBSET Ticket : refund_tickets(w, S))
                 \/ CreateRefund(w) \/ StripeRefund(w) \/ StripeRefuses(w) \/ StripeRefundRest(w)
                 \/ DemoRefund(w) \/ ReadOrder(w) \/ (\E total \in events : charge_refunded(w, total))
          PROVE  Reported'
      <3>1. UNCHANGED <<orderVars, outflow>> /\ Now.pc \notin {"tickets", "save"}
        BY <1>2, <2>4
           DEF refund_order, refund_tickets, CreateRefund, StripeRefund, StripeRefuses,
               StripeRefundRest, DemoRefund, ReadOrder, charge_refunded, Returns
      <3>2. Now'.pc \notin {"tickets", "save"}
        BY <1>0, <1>2, <2>0, <2>4, JobAfter
      <3>3. QED
        BY <1>0, <3>1, <3>2 DEF Reported
    <2>5. QED
      BY <1>2, <2>0, <2>1, <2>2, <2>3, <2>4 DEF Acts, Proceed
  <1>3. QED
    BY <1>0, <1>1, <1>2, NowMoves

\* What the demo provider returns is never negative.
LEMMA DemoReturns ==
    ASSUME IInv, MoneyTyped, Ledger, Priced, NEW w \in Worker, Now = job[w], DemoRefund(w)
    PROVE  0 <= job[w].amount
  <1>0. RefundsTyped /\ refunded_amount \in Int
    BY DEF IInv, TypeOK, RefundsTyped, MoneyTyped
  <1>1. status = "PAID" /\ Now.pc \in {"call", "call_rest"}
    BY DEF DemoRefund, Ledger, Fits
  <1>2. CASE Now.pc = "call"
    <2>1. Now.refund \in Pending /\ refund[Now.refund].amount = Now.amount
      BY <1>2 DEF Ledger, Fits, Pending, Amounts
    <2>2. Now.amount = Amount(refund[Now.refund].tickets)
      BY <2>1 DEF Priced, RowsPriced
    <2>3. refund[Now.refund].tickets \in SUBSET Ticket
      BY <1>0, <2>1 DEF RefundsTyped, OrderRefund, Pending
    <2>4. QED
      BY <2>2, <2>3, AmountsAreNat
  <1>3. CASE Now.pc = "call_rest"
    <2>1. refunded_amount = Amount(AppliedTickets) /\ refunded_amount + Now.amount = Gross
      BY <1>1, <1>3 DEF Ledger, Fits, Priced, BookPriced
    <2>2. AppliedTickets \in SUBSET Ticket
      BY <1>0 DEF RefundsTyped, OrderRefund, AppliedTickets, Applied
    <2>3. refunded_amount <= Gross /\ Now.amount \in Int
      BY <2>1, <2>2, AmountsAreNat DEF MoneyTyped
    <2>4. QED
      BY <1>0, <2>1, <2>3, GrossIsNat
  <1>4. QED
    BY <1>1, <1>2, <1>3

LEMMA NotAheadStep ==
    ASSUME IInv, MoneyTyped, Trusting, Ledger, NotAhead, allowed = {} => Priced, [Next]_vars
    PROVE  NotAhead'
  <1> SUFFICES ASSUME provider' = "STRIPE" \/ allowed' = {}
               PROVE  refunded_amount' <= charge'
    BY DEF NotAhead
  <1>0. /\ TypeOK /\ RefundsTyped /\ OneAtATime /\ IdleIsBlank
        /\ "overlap" \notin allowed
        /\ refunded_amount \in Int /\ charge \in Int /\ UNCHANGED fixed
    BY CountersStep DEF IInv, TypeOK, RefundsTyped, Trusting, Ledger, MoneyTyped
  <1>1. refunded_amount <= charge /\ (provider = "STRIPE" \/ allowed = {})
    BY <1>0 DEF NotAhead
  <1>2. ASSUME NEW w \in Worker, Acts(w), Now = job[w]
        PROVE  refunded_amount' <= charge'
    <2>0. Now.amount \in Int /\ ~Crash(w)
      BY <1>2 DEF MoneyTyped, Crash, Trusting
    <2>1. ASSUME apply_partial_refund(w)
          PROVE  refunded_amount' <= charge'
      <3>1. Now.pc = "handle" /\ Now.refund # None
        BY <1>2, <2>1 DEF apply_partial_refund
      <3>2. Now.refund \in Pending /\ refund[Now.refund].amount = Now.amount
        BY <3>1 DEF Ledger, Fits, Pending, Amounts
      <3>3. charge' = charge /\ refunded_amount' = refunded_amount + Now.amount
        BY <1>2, <2>1, <3>2 DEF apply_partial_refund, Processed
      <3>4. Base = refunded_amount + Now.amount /\ InLine
        BY <3>1 DEF Base, Ledger, Settled, Idle
      <3>5. QED
        BY <1>0, <2>0, <3>3, <3>4, BaseNotAhead
    <2>2. ASSUME ClaimRefunded(w)
          PROVE  refunded_amount' <= charge'
      <3>1. Now.pc = "claim" /\ charge' = charge /\ refunded_amount' \in {Gross, refunded_amount}
        BY <1>2, <2>2 DEF ClaimRefunded
      <3>2. Base = Gross /\ InLine
        BY <3>1 DEF Base, Ledger, Fits, Settled, Idle
      <3>3. QED
        BY <1>0, <1>1, <3>1, <3>2, BaseNotAhead, GrossIsNat
    <2>3. ASSUME DemoRefund(w)
          PROVE  refunded_amount' <= charge'
      <3>1. 0 <= Now.amount
        BY <1>0, <1>1, <1>2, <2>3, DemoReturns DEF DemoRefund
      <3>2. charge' = charge + Now.amount /\ UNCHANGED refunded_amount
        BY <1>2, <2>3 DEF DemoRefund
      <3>3. QED
        BY <1>0, <1>1, <2>0, <3>1, <3>2
    <2>4. ASSUME StripeRefund(w) \/ StripeRefundRest(w)
          PROVE  refunded_amount' <= charge'
      <3>1. /\ UNCHANGED refunded_amount
            /\ \/ charge' = charge + Now.amount /\ 0 < Now.amount
               \/ charge' = charge + (Gross - charge) /\ charge < Gross
               \/ charge' = charge
        BY <1>2, <2>4 DEF StripeRefund, StripeRefundRest, Returns, Returnable
      <3>2. QED
        BY <1>0, <1>1, <2>0, <3>1, GrossIsNat
    <2>5. ASSUME \/ refund_order(w) \/ (\E S \in SUBSET Ticket : refund_tickets(w, S))
                 \/ CreateRefund(w) \/ StripeRefuses(w) \/ ReadOrder(w) \/ ReadTickets(w)
                 \/ (\E t \in Ticket : SaveTicket(w, t))
                 \/ (\E total \in events : charge_refunded(w, total))
          PROVE  refunded_amount' <= charge'
      <3>1. UNCHANGED <<refunded_amount, charge>>
        BY <2>5
           DEF refund_order, refund_tickets, CreateRefund, StripeRefuses, ReadOrder, ReadTickets,
               SaveTicket, charge_refunded, Processed
      <3>2. QED
        BY <1>1, <3>1
    <2>6. QED
      BY <1>2, <2>0, <2>1, <2>2, <2>3, <2>4, <2>5 DEF Acts, Proceed
  <1>3. QED
    BY <1>0, <1>1, <1>2, NowMoves

\* The refund that empties the order is about all the tickets that were left.
LEMMA LastApplied ==
    ASSUME TypeOK, Order, NEW w \in Worker, apply_partial_refund(w), job[w].refund \in Pending,
           status' = "REFUNDED"
    PROVE  AppliedTickets' = Ticket
  <1> DEFINE r == job[w].refund
             S == refund[r].tickets
             A == AppliedTickets
             R == Ticket \ A
             n == Cardinality(S)
  <1>0. /\ RefundsTyped /\ r \in RefundId /\ refunded_quantity \in Nat
    BY ApplyBooks DEF TypeOK, RefundsTyped
  <1>1. /\ AppliedTickets' = A \cup S /\ Applied \subseteq RefundId /\ r \notin Applied
    BY ApplyBooks
  <1>2. S \in SUBSET Ticket /\ A \in SUBSET Ticket /\ A \cap S = {}
    BY <1>0, <1>1 DEF RefundsTyped, OrderRefund, AppliedTickets, Order, Apart
  <1>3. status = "PAID"
    BY DEF Order, PendingIsOpen
  <1>4. refunded_quantity = Quantity - Cardinality(R) /\ refunded_quantity + n >= Quantity
    BY <1>3 DEF Order, Books, apply_partial_refund
  <1>5. S \in SUBSET R /\ IsFiniteSet(R) /\ Cardinality(R) \in Nat /\ n \in Nat
    BY <1>2, AmountsAreNat, TicketsAreCounted
  <1> HIDE DEF n, R, S, A
  <1>6. n >= Cardinality(R)
    BY <1>4, <1>5, QuantityType
  <1>7. n <= Cardinality(R) /\ (n = Cardinality(R) => S = R)
    BY <1>5, FS_Subset DEF n
  <1>8. S = R
    BY <1>5, <1>6, <1>7
  <1>9. QED
    BY <1>1, <1>2, <1>8 DEF R

LEMMA AllBookedStep ==
    ASSUME IInv, Sharing, Priced, AllBooked, [Next]_vars
    PROVE  AllBooked'
  <1>0. TypeOK /\ RefundsTyped /\ Order
    BY DEF IInv, TypeOK, RefundsTyped, Sharing
  <1>1. CASE UNCHANGED <<orderVars, Applied, AppliedTickets>>
    BY <1>1 DEF AllBooked
  <1>2. ASSUME NEW w \in Worker, apply_partial_refund(w), job[w].refund \in Pending,
               status' = "REFUNDED"
        PROVE  refunded_amount' = Gross
    <2> DEFINE r == job[w].refund
               S == refund[r].tickets
               A == AppliedTickets
    <2>1. /\ AppliedTickets' = A \cup S /\ refunded_amount' = refunded_amount + refund[r].amount
          /\ r \in RefundId /\ r \notin Applied /\ Applied \subseteq RefundId
      BY <1>0, <1>2, ApplyBooks
    <2>2. S \in SUBSET Ticket /\ A \in SUBSET Ticket /\ A \cap S = {}
      BY <1>0, <1>2, <2>1 DEF RefundsTyped, OrderRefund, AppliedTickets, Order, Apart
    <2>3. refund[r].amount = Amount(S) /\ refunded_amount = Amount(A)
      BY <1>0, <1>2 DEF Priced, RowsPriced, BookPriced, Order, PendingIsOpen
    <2>4. A \cup S = Ticket
      BY <1>0, <1>2, <2>1, LastApplied
    <2> HIDE DEF r, S, A
    <2>5. QED
      BY <2>1, <2>2, <2>3, <2>4, AmountsApart DEF Gross
  <1>3. ASSUME NEW w \in Worker, ClaimRefunded(w), status = "PAID"
        PROVE  AllBooked'
    BY <1>3 DEF ClaimRefunded, AllBooked
  <1>4. QED
    BY <1>0, <1>1, <1>2, <1>3, BookedSteps DEF AllBooked

LEMMA IssuedBefore ==
    ASSUME TypeOK, "undo" \notin allowed, [Next]_vars, NEW t \in Ticket, ticket'[t] = "ISSUED"
    PROVE  ticket[t] = "ISSUED"
  <1>0. ticket \in [Ticket -> TicketStatus]
    BY DEF TypeOK
  <1>1. ASSUME NEW w \in Worker, apply_partial_refund(w)
        PROVE  ticket[t] = "ISSUED"
    <2>1. \/ ticket' = ticket
          \/ ticket' = [u \in Ticket |->
                 IF u \in refund[job[w].refund].tickets /\ ticket[u] = "ISSUED"
                 THEN "REFUNDED" ELSE ticket[u]]
      BY <1>1 DEF apply_partial_refund
    <2>2. QED
      BY <2>1
  <1>2. ASSUME NEW w \in Worker, NEW u \in Ticket, SaveTicket(w, u)
        PROVE  ticket[t] = "ISSUED"
    BY <1>0, <1>2 DEF SaveTicket
  <1>3. ASSUME NEW u \in Ticket, check_in(u) \/ undo_check_in(u)
        PROVE  ticket[t] = "ISSUED"
    BY <1>0, <1>3 DEF check_in, undo_check_in
  <1>4. ASSUME UNCHANGED ticket PROVE ticket[t] = "ISSUED"
    BY <1>4
  <1>5. QED
    BY <1>1, <1>2, <1>3, <1>4
       DEF Next, Proceed, Deliver, vars, refund_order, refund_tickets, CreateRefund,
           StripeRefund, StripeRefuses, StripeRefundRest, DemoRefund, charge_refunded, ReadOrder,
           ClaimRefunded, ReadTickets, Crash

LEMMA NoneLeftStep ==
    ASSUME IInv, allowed = {}, Sharing, Ledger, NoneLeft, [Next]_vars
    PROVE  NoneLeft'
  <1>0. /\ TypeOK /\ JobsTyped /\ RefundsTyped /\ Order /\ OneAtATime /\ IdleIsBlank
        /\ ticket \in [Ticket -> TicketStatus] /\ status \in {"PAID", "REFUNDED"}
        /\ "overlap" \notin allowed /\ "undo" \notin allowed
    BY DEF IInv, TypeOK, JobsTyped, RefundsTyped, Sharing, Ledger
  <1> SUFFICES ASSUME status' = "REFUNDED", NEW t \in Ticket, ticket'[t] = "ISSUED"
               PROVE  Now'.pc = "tickets" \/ (Now'.pc = "save" /\ t \in Now'.tickets)
    BY DEF NoneLeft
  <1>1. ticket[t] = "ISSUED"
    BY <1>0, IssuedBefore
  <1>2. status = "REFUNDED" => Now.pc = "tickets" \/ (Now.pc = "save" /\ t \in Now.tickets)
    BY <1>1 DEF NoneLeft
  <1>3. ASSUME UNCHANGED <<fixed, orderVars, refund, providerVars, job>>
        PROVE  Now'.pc = "tickets" \/ (Now'.pc = "save" /\ t \in Now'.tickets)
    BY <1>2, <1>3 DEF Now, Handling
  <1>4. ASSUME NEW w \in Worker, Acts(w), Now = job[w], Now' = job'[w]
        PROVE  Now'.pc = "tickets" \/ (Now'.pc = "save" /\ t \in Now'.tickets)
    <2>1. ~apply_partial_refund(w)
      <3> SUFFICES ASSUME apply_partial_refund(w) PROVE FALSE
        OBVIOUS
      <3>1. job[w].refund \in Pending
        BY <1>4 DEF apply_partial_refund, Ledger, Fits
      <3>2. t \in AppliedTickets'
        BY <1>0, <3>1, LastApplied
      <3>3. Order'
        BY <1>0, <3>1, ApplyKeepsOrder
      <3>4. QED
        BY <3>2, <3>3 DEF Order, AppliedNotIssued, AppliedTickets
    <2>2. ASSUME ClaimRefunded(w)
          PROVE  Now'.pc = "tickets"
      <3>1. status = "PAID"
        BY <1>0, <1>2, <1>4, <2>2 DEF ClaimRefunded
      <3>2. QED
        BY <1>0, <1>4, <2>2, <3>1, JobAfter
    <2>3. ASSUME ReadTickets(w)
          PROVE  Now'.pc = "save" /\ t \in Now'.tickets
      <3>1. t \in {u \in Ticket : ticket[u] = "ISSUED"}
        BY <1>1
      <3>2. QED
        BY <1>0, <1>4, <2>3, <3>1, JobAfter
    <2>4. ASSUME NEW u \in Ticket, SaveTicket(w, u)
          PROVE  Now'.pc = "save" /\ t \in Now'.tickets
      <3>1. t # u
        BY <1>0, <2>4 DEF SaveTicket
      <3>2. status = "REFUNDED" /\ Now.pc = "save"
        BY <1>4, <2>4 DEF SaveTicket, IInv, SavesAfterClaim
      <3>3. t \in Now.tickets
        BY <1>2, <3>2
      <3>4. QED
        BY <1>0, <1>4, <2>4, <3>1, <3>3, JobAfter
    <2>5. ASSUME \/ refund_order(w) \/ (\E S \in SUBSET Ticket : refund_tickets(w, S))
                 \/ CreateRefund(w) \/ StripeRefund(w) \/ StripeRefuses(w) \/ StripeRefundRest(w)
                 \/ DemoRefund(w) \/ ReadOrder(w) \/ Crash(w)
                 \/ (\E total \in events : charge_refunded(w, total))
          PROVE  FALSE
      <3>1. UNCHANGED status /\ Now.pc \notin {"tickets", "save"}
        BY <1>4, <2>5
           DEF refund_order, refund_tickets, CreateRefund, StripeRefund, StripeRefuses,
               StripeRefundRest, DemoRefund, ReadOrder, charge_refunded, Crash
      <3>2. QED
        BY <1>2, <3>1
    <2>6. QED
      BY <1>4, <2>1, <2>2, <2>3, <2>4, <2>5 DEF Acts, Proceed
  <1>5. QED
    BY <1>0, <1>3, <1>4, NowMoves

\* What holds of the books in every state.
Accounts ==
    /\ Trusting => Ledger /\ Valid /\ Reported /\ NotAhead
    /\ allowed = {} => Sharing /\ Priced /\ AllBooked /\ NoneLeft

LEMMA InitAccounts == Init => Accounts
  <1> SUFFICES ASSUME Init PROVE Accounts
    OBVIOUS
  <1>1. \A w \in Worker : job[w].pc = "idle"
    BY DEF Init, Idle
  <1>2. Now = Idle
    BY <1>1 DEF Now, Handling
  <1>3. Reported /\ NotAhead /\ AllBooked /\ NoneLeft
    BY <1>2 DEF Init, Reported, NotAhead, AllBooked, NoneLeft, Idle
  <1>4. QED
    BY <1>3, InitLedger, InitValid, InitSharing, InitPriced DEF Accounts

LEMMA AccountsAlways == Spec => []Accounts
  <1>1. IInv /\ MoneyTyped /\ Accounts /\ [Next]_vars => Accounts'
    <2> SUFFICES ASSUME IInv, MoneyTyped, Accounts, [Next]_vars PROVE Accounts'
      OBVIOUS
    <2>1. allowed' = allowed
      BY CountersStep DEF IInv
    <2>2. allowed = {} => Trusting /\ Careful
      BY DEF Trusting, Careful
    <2>3. Trusting' => Trusting
      BY <2>1 DEF Trusting
    <2>4. Trusting => (Ledger /\ Valid /\ Reported /\ NotAhead)'
      BY <2>2, LedgerStep, ValidStep, ReportedStep, NotAheadStep DEF Accounts
    <2>5. allowed = {} => (Sharing /\ Priced /\ AllBooked /\ NoneLeft)'
      BY <2>2, SharingStep, PricedStep, AllBookedStep, NoneLeftStep DEF Accounts
    <2>6. QED
      BY <2>1, <2>3, <2>4, <2>5 DEF Accounts
  <1>2. QED
    BY <1>1, InitAccounts, Invariance, MoneyAlways, PTL DEF Spec

-----------------------------------------------------------------------------
(* The reports.                                                            *)

\* The row of the order, and the sums over what a filter leaves of it.
Row == [status |-> status, amount_gross |-> Gross, refunded_amount |-> refunded_amount,
        quantity |-> Quantity, refunded_quantity |-> refunded_quantity]
Sold(orders) == MapThenSumSet(LAMBDA o : o.quantity - o.refunded_quantity, orders)

LEMMA SumOfRow ==
    ASSUME NEW F, F[Row] \in Int
    PROVE  SumOver(F, {}) = 0 /\ SumOver(F, {Row}) = F[Row]
  <1>1. Summable(F, {Row})
    BY FS_Singleton DEF Summable
  <1>2. {Row} \ {Row} = {} /\ Row \in {Row}
    OBVIOUS
  <1>3. SumOver(F, {Row}) = F[Row] + SumOver(F, {}) /\ SumOver(F, {}) = 0
    BY <1>1, <1>2, SumTake, SumEmpty
  <1>4. QED
    BY <1>3

LEMMA ReceivedIs == Received({}) = 0 /\ Received({Row}) = Gross
  <1>1. ASSUME NEW S, IsFiniteSet(S), NEW F, \A x \in S : F[x] = x.amount_gross
        PROVE  Received(S) = SumOver(F, S)
    <2> DEFINE Own(g) == g = [s \in SUBSET S |-> IF s = {} THEN 0
                  ELSE ((CHOOSE x \in s : TRUE).amount_gross) + g[s \ {CHOOSE x \in s : TRUE}]]
               c == CHOOSE g : Own(g)
    <2>1. ASSUME NEW g PROVE IsSum(g, F, S) <=> Own(g)
      <3>1. ASSUME NEW s \in SUBSET S, s # {}
            PROVE  F[CHOOSE x \in s : TRUE] = (CHOOSE x \in s : TRUE).amount_gross
        <4>1. (CHOOSE x \in s : TRUE) \in s
          BY <3>1
        <4>2. QED
          BY <1>1, <4>1
      <3>2. QED
        BY <3>1 DEF IsSum, Chosen
    <2>2. Received(S) = c[S]
      BY DEF Received, MapThenSumSet, MapThenFoldSet
    <2>3. \E g : Own(g)
      BY <1>1, <2>1, SumExists
    <2>4. Own(c)
      BY <2>3
    <2> HIDE DEF c, Own
    <2>5. IsSum(c, F, S) /\ S \in SUBSET S /\ IsFiniteSet(S)
      BY <1>1, <2>1, <2>4
    <2>6. c[S] = SumOver(F, S)
      BY <2>5, SumOverIs
    <2>7. QED
      BY <2>2, <2>6
  <1> DEFINE F == [x \in {Row} |-> x.amount_gross]
  <1>2. F[Row] = Gross /\ Gross \in Int
    BY GrossIsNat DEF Row
  <1>3. IsFiniteSet({}) /\ IsFiniteSet({Row})
    BY FS_EmptySet, FS_Singleton
  <1>4. Received({}) = SumOver(F, {}) /\ Received({Row}) = SumOver(F, {Row})
    BY <1>1, <1>3
  <1> HIDE DEF F
  <1>5. QED
    BY <1>2, <1>4, SumOfRow

LEMMA RefundedIs ==
    ASSUME refunded_amount \in Int
    PROVE  Refunded({}) = 0 /\ Refunded({Row}) = refunded_amount
  <1>1. ASSUME NEW S, IsFiniteSet(S), NEW F, \A x \in S : F[x] = x.refunded_amount
        PROVE  Refunded(S) = SumOver(F, S)
    <2> DEFINE Own(g) == g = [s \in SUBSET S |-> IF s = {} THEN 0
                  ELSE ((CHOOSE x \in s : TRUE).refunded_amount) + g[s \ {CHOOSE x \in s : TRUE}]]
               c == CHOOSE g : Own(g)
    <2>1. ASSUME NEW g PROVE IsSum(g, F, S) <=> Own(g)
      <3>1. ASSUME NEW s \in SUBSET S, s # {}
            PROVE  F[CHOOSE x \in s : TRUE] = (CHOOSE x \in s : TRUE).refunded_amount
        <4>1. (CHOOSE x \in s : TRUE) \in s
          BY <3>1
        <4>2. QED
          BY <1>1, <4>1
      <3>2. QED
        BY <3>1 DEF IsSum, Chosen
    <2>2. Refunded(S) = c[S]
      BY DEF Refunded, MapThenSumSet, MapThenFoldSet
    <2>3. \E g : Own(g)
      BY <1>1, <2>1, SumExists
    <2>4. Own(c)
      BY <2>3
    <2> HIDE DEF c, Own
    <2>5. IsSum(c, F, S) /\ S \in SUBSET S /\ IsFiniteSet(S)
      BY <1>1, <2>1, <2>4
    <2>6. c[S] = SumOver(F, S)
      BY <2>5, SumOverIs
    <2>7. QED
      BY <2>2, <2>6
  <1> DEFINE F == [x \in {Row} |-> x.refunded_amount]
  <1>2. F[Row] = refunded_amount /\ refunded_amount \in Int
    BY DEF Row
  <1>3. IsFiniteSet({}) /\ IsFiniteSet({Row})
    BY FS_EmptySet, FS_Singleton
  <1>4. Refunded({}) = SumOver(F, {}) /\ Refunded({Row}) = SumOver(F, {Row})
    BY <1>1, <1>3
  <1> HIDE DEF F
  <1>5. QED
    BY <1>2, <1>4, SumOfRow

LEMMA SoldIs ==
    ASSUME refunded_quantity \in Nat
    PROVE  Sold({}) = 0 /\ Sold({Row}) = Quantity - refunded_quantity
  <1>1. ASSUME NEW S, IsFiniteSet(S), NEW F, \A x \in S : F[x] = x.quantity - x.refunded_quantity
        PROVE  Sold(S) = SumOver(F, S)
    <2> DEFINE Own(g) == g = [s \in SUBSET S |-> IF s = {} THEN 0
                  ELSE ((CHOOSE x \in s : TRUE).quantity - (CHOOSE x \in s : TRUE).refunded_quantity) + g[s \ {CHOOSE x \in s : TRUE}]]
               c == CHOOSE g : Own(g)
    <2>1. ASSUME NEW g PROVE IsSum(g, F, S) <=> Own(g)
      <3>1. ASSUME NEW s \in SUBSET S, s # {}
            PROVE  F[CHOOSE x \in s : TRUE] = (CHOOSE x \in s : TRUE).quantity - (CHOOSE x \in s : TRUE).refunded_quantity
        <4>1. (CHOOSE x \in s : TRUE) \in s
          BY <3>1
        <4>2. QED
          BY <1>1, <4>1
      <3>2. QED
        BY <3>1 DEF IsSum, Chosen
    <2>2. Sold(S) = c[S]
      BY DEF Sold, MapThenSumSet, MapThenFoldSet
    <2>3. \E g : Own(g)
      <3>1. PICK g : IsSum(g, F, S)
        BY <1>1, SumExists
      <3>2. Own(g)
        BY <2>1, <3>1, Zenon
      <3>3. QED
        BY <3>2, Zenon
    <2>4. Own(c)
      BY <2>3
    <2> HIDE DEF c, Own
    <2>5. IsSum(c, F, S) /\ S \in SUBSET S /\ IsFiniteSet(S)
      BY <1>1, <2>1, <2>4
    <2>6. c[S] = SumOver(F, S)
      BY <2>5, SumOverIs
    <2>7. QED
      BY <2>2, <2>6
  <1> DEFINE F == [x \in {Row} |-> x.quantity - x.refunded_quantity]
  <1>2. F[Row] = Quantity - refunded_quantity /\ Quantity - refunded_quantity \in Int
    BY QuantityType DEF Row
  <1>3. IsFiniteSet({}) /\ IsFiniteSet({Row})
    BY FS_EmptySet, FS_Singleton
  <1>4. Sold({}) = SumOver(F, {}) /\ Sold({Row}) = SumOver(F, {Row})
    BY <1>1, <1>3
  <1> HIDE DEF F
  <1>5. QED
    BY <1>2, <1>4, SumOfRow

LEMMA RowFilter ==
    /\ Orders = {Row}
    /\ \A statuses : Where(Orders, statuses) = IF status \in statuses THEN Orders ELSE {}
  BY DEF Orders, Row, Where

\* With every request answered, every event in, and nothing gone wrong, each
\* report comes to the same.
LEMMA QuietBooks ==
    ASSUME IInv, MoneyTyped, Accounts, allowed = {}, events = {}, Handling = {}
    PROVE  refunded_amount = charge /\ outflow = charge
  <1>0. Trusting /\ Ledger /\ Reported /\ AllBooked
    BY DEF Accounts, Trusting
  <1>1. Now = Idle /\ Now.pc = "idle"
    BY DEF Now, Idle
  <1>2. /\ refunded_amount \in Int /\ outflow \in Int /\ charge \in Int
    BY DEF MoneyTyped
  <1>3. outflow = refunded_amount
    BY <1>0, <1>1, <1>2 DEF Reported
  <1>4. CASE InLine
    BY <1>1, <1>2, <1>3, <1>4 DEF InLine, Line, Base
  <1>5. CASE Settled
    BY <1>0, <1>3, <1>5 DEF Settled, AllBooked
  <1>6. QED
    BY <1>0, <1>4, <1>5 DEF Ledger

\* The tickets kept are those still issued or checked in, once they are all
\* the same set.
LEMMA QuietTickets ==
    ASSUME IInv, Accounts, allowed = {}, Handling = {}
    PROVE  /\ InStatus(Ticket, {"ISSUED", "CHECKED_IN"}) = Kept \cup InStatus(Ticket, {"CHECKED_IN"})
           /\ Kept = IF status = "PAID" THEN Ticket \ AppliedTickets ELSE {}
  <1>0. /\ ticket \in [Ticket -> TicketStatus] /\ status \in {"PAID", "REFUNDED"}
        /\ Valid /\ Sharing /\ NoneLeft
    BY DEF IInv, TypeOK, Accounts, Trusting
  <1>1. Kept = IF status = "PAID" THEN Ticket \ AppliedTickets ELSE {}
    BY DEF Kept
  <1>2. Now = Idle
    BY DEF Now
  <1>3. ASSUME NEW t \in Ticket, ticket[t] = "ISSUED" PROVE t \in Kept
    <2>1. status = "PAID"
      BY <1>0, <1>2, <1>3 DEF NoneLeft, Idle
    <2>2. t \notin AppliedTickets
      BY <1>0, <1>3 DEF Sharing, Order, AppliedNotIssued, AppliedTickets
    <2>3. QED
      BY <1>1, <2>1, <2>2
  <1>4. ASSUME NEW t \in Kept PROVE t \in Ticket /\ ticket[t] \in {"ISSUED", "CHECKED_IN"}
    BY <1>0, <1>4 DEF Kept, Valid
  <1>5. InStatus(Ticket, {"ISSUED", "CHECKED_IN"}) = Kept \cup InStatus(Ticket, {"CHECKED_IN"})
    BY <1>3, <1>4 DEF InStatus
  <1>6. QED
    BY <1>1, <1>5

\* What is booked is the price of the tickets that are not kept.
LEMMA KeptIsWorth ==
    ASSUME IInv, MoneyTyped, Accounts, allowed = {}, Handling = {}
    PROVE  /\ Amount(Kept) = Gross - refunded_amount
           /\ Cardinality(Kept) = IF status = "PAID" THEN Quantity - refunded_quantity ELSE 0
  <1>0. /\ status \in {"PAID", "REFUNDED"} /\ RefundsTyped /\ refunded_quantity \in Nat
        /\ Order /\ Priced /\ AllBooked /\ refunded_amount \in Int
        /\ Kept = IF status = "PAID" THEN Ticket \ AppliedTickets ELSE {}
    BY QuietTickets DEF IInv, TypeOK, RefundsTyped, Accounts, Sharing, MoneyTyped
  <1>1. CASE status = "REFUNDED"
    <2>1. Kept = {} /\ refunded_amount = Gross
      BY <1>0, <1>1 DEF AllBooked
    <2>2. Amount({}) = 0 /\ Cardinality({}) = 0
      BY AmountIsSum, SumEmpty, FS_EmptySet
    <2>3. QED
      BY <1>1, <2>1, <2>2, GrossIsNat
  <1>2. CASE status = "PAID"
    <2> DEFINE A == AppliedTickets
    <2>1. Kept = Ticket \ A /\ A \in SUBSET Ticket
      BY <1>0, <1>2 DEF RefundsTyped, OrderRefund, AppliedTickets, Applied
    <2>2. Kept \in SUBSET Ticket /\ A \cap Kept = {} /\ A \cup Kept = Ticket
      BY <2>1
    <2>3. refunded_amount = Amount(A)
      BY <1>0, <1>2 DEF Priced, BookPriced
    <2>4. refunded_quantity = Quantity - Cardinality(Kept)
      BY <1>0, <1>2 DEF Order, Books
    <2> HIDE DEF A
    <2>5. Gross = Amount(A) + Amount(Kept)
      BY <2>1, <2>2, AmountsApart DEF Gross
    <2>6. /\ Amount(A) \in Nat /\ Amount(Kept) \in Nat /\ Cardinality(Kept) \in Nat
      BY <2>1, <2>2, AmountsAreNat, TicketsAreCounted
    <2>7. Amount(Kept) = Gross - refunded_amount
      BY <2>3, <2>5, <2>6
    <2>8. Cardinality(Kept) = Quantity - refunded_quantity
      BY <2>4, <2>6, QuantityType
    <2>9. QED
      BY <1>2, <2>7, <2>8
  <1>3. QED
    BY <1>0, <1>1, <1>2

LEMMA QuietReports ==
    ASSUME IInv, MoneyTyped, Accounts, allowed = {}, events = {}, Handling = {}
    PROVE  ReportsAgree
  <1>0. /\ status \in {"PAID", "REFUNDED"} /\ refunded_quantity \in Nat
        /\ refunded_amount \in Int /\ Gross \in Int /\ outflow = refunded_amount
        /\ (status = "REFUNDED" => refunded_amount = Gross)
    BY GrossIsNat, QuietBooks DEF IInv, TypeOK, MoneyTyped, Accounts, AllBooked
  <1>1. /\ Received(Orders) = Gross /\ Received({}) = 0
        /\ Refunded(Orders) = refunded_amount /\ Refunded({}) = 0
        /\ Sold(Orders) = Quantity - refunded_quantity /\ Sold({}) = 0
    BY <1>0, RowFilter, ReceivedIs, RefundedIs, SoldIs
  <1>2. /\ Where(Orders, {"PAID", "REFUNDED"}) = Orders
        /\ Where(Orders, {"PAID"}) = IF status = "PAID" THEN Orders ELSE {}
    BY <1>0, RowFilter
  <1>3. /\ event_sales_report(Orders, Ticket).revenue_paid =
               Received(Where(Orders, {"PAID"})) - Refunded(Where(Orders, {"PAID"}))
        /\ event_sales_report(Orders, Ticket).revenue_refunded = Refunded(Orders)
    BY DEF event_sales_report, _order_money_totals
  <1>4. /\ event_finance(Orders, Ticket).gross =
               Received(Where(Orders, {"PAID", "REFUNDED"})) - Refunded(Where(Orders, {"PAID", "REFUNDED"}))
        /\ event_finance(Orders, Ticket).refunds = Refunded(Where(Orders, {"PAID", "REFUNDED"}))
        /\ event_finance(Orders, Ticket).sold =
               Cardinality(InStatus(Ticket, {"ISSUED", "CHECKED_IN"}))
    BY DEF event_finance
  <1>5. /\ cash_flow_report.net = Gross - outflow
        /\ period_kpis(Orders).tickets_sold = Sold(Where(Orders, {"PAID"}))
        /\ period_kpis(Orders).refunds = outflow
        /\ by_event_view(Orders).paid = Received(Where(Orders, {"PAID"}))
    BY DEF cash_flow_report, period_kpis, Sold, by_event_view
  <1>6. /\ Amount(Kept) = Gross - refunded_amount
        /\ Cardinality(Kept) = IF status = "PAID" THEN Quantity - refunded_quantity ELSE 0
        /\ InStatus(Ticket, {"ISSUED", "CHECKED_IN"}) = Kept \cup InStatus(Ticket, {"CHECKED_IN"})
    BY KeptIsWorth, QuietTickets
  <1>7. /\ Received(Where(Orders, {"PAID", "REFUNDED"})) = Gross
        /\ Refunded(Where(Orders, {"PAID", "REFUNDED"})) = refunded_amount
        /\ Received(Where(Orders, {"PAID"})) = IF status = "PAID" THEN Gross ELSE 0
        /\ Refunded(Where(Orders, {"PAID"})) =
               IF status = "PAID" THEN refunded_amount ELSE 0
        /\ Sold(Where(Orders, {"PAID"})) =
               IF status = "PAID" THEN Quantity - refunded_quantity ELSE 0
    BY <1>1, <1>2
  <1>8. /\ event_finance(Orders, Ticket).gross = Gross - refunded_amount
        /\ event_finance(Orders, Ticket).refunds = period_kpis(Orders).refunds
        /\ cash_flow_report.net = Gross - refunded_amount
    BY <1>0, <1>4, <1>5, <1>7
  <1>9. /\ event_sales_report(Orders, Ticket).revenue_paid =
               IF status = "PAID" THEN Gross - refunded_amount ELSE 0
        /\ event_sales_report(Orders, Ticket).revenue_refunded = refunded_amount
        /\ by_event_view(Orders).paid = IF status = "PAID" THEN Gross ELSE 0
        /\ period_kpis(Orders).tickets_sold =
               IF status = "PAID" THEN Quantity - refunded_quantity ELSE 0
    BY <1>0, <1>1, <1>3, <1>5, <1>7
  <1>10. /\ event_sales_report(Orders, Ticket).revenue_paid = Gross - refunded_amount
         /\ by_event_view(Orders).paid = event_sales_report(Orders, Ticket).revenue_paid
               + (IF status = "PAID" THEN event_sales_report(Orders, Ticket).revenue_refunded
                  ELSE 0)
    BY <1>0, <1>9
  <1>11. /\ event_finance(Orders, Ticket).gross = cash_flow_report.net
         /\ event_sales_report(Orders, Ticket).revenue_paid = cash_flow_report.net
         /\ event_finance(Orders, Ticket).gross = Amount(Kept)
         /\ period_kpis(Orders).tickets_sold = Cardinality(Kept)
         /\ event_finance(Orders, Ticket).sold =
               Cardinality(Kept \cup InStatus(Ticket, {"CHECKED_IN"}))
    BY <1>4, <1>6, <1>8, <1>9, <1>10
  <1>12. QED
    BY <1>8, <1>10, <1>11, Zenon DEF ReportsAgree

\* The order's books are never ahead of the money Stripe has returned, even
\* when the gate takes admissions back; and if nothing goes wrong, whatever the
\* provider and the refunds, they are level with it once nothing is under way:
\* the reports drawn from orders, tickets and payment events agree
\* (reports/services.py, "totals always reconcile").
THEOREM BooksFollowChargeAlways == Spec => []BooksFollowCharge
  <1>1. ASSUME IInv, MoneyTyped, Accounts PROVE BooksFollowCharge
    <2>1. ASSUME allowed \subseteq (IF provider = "STRIPE" THEN {"undo"} ELSE {})
          PROVE  refunded_amount <= charge
      <3>1. Trusting /\ (provider = "STRIPE" \/ allowed = {})
        BY <2>1 DEF Trusting
      <3>2. QED
        BY <1>1, <3>1 DEF Accounts, NotAhead
    <2>2. QED
      BY <1>1, <2>1, QuietBooks, QuietReports DEF BooksFollowCharge
  <1>2. IInv /\ MoneyTyped /\ Accounts => BooksFollowCharge
    BY <1>1
  <1>3. QED
    BY <1>2, Invariance, MoneyAlways, AccountsAlways, PTL
=============================================================================
