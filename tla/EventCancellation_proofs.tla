----------------------- MODULE EventCancellation_proofs -----------------------
(***************************************************************************)
(* Theorems about EventCancellation, for any number of orders and threads, *)
(* with their proofs.  In order: a decision to keep the tickets stands;    *)
(* types; what a step makes of the jobs; what orders and jobs say of each  *)
(* other; jobs that run one at a time; the money; who is told; the places. *)
(***************************************************************************)
EXTENDS EventCancellation, FiniteSums, FiniteSetTheorems, TLAPS

Dates == {"old", "new"}

Types ==
    /\ decision \in [Buyer -> Decisions]
    /\ at \in [Buyer -> Dates]
    /\ valid \in [Buyer -> Nat] /\ kept \in [Buyer -> Int] /\ asked \in [Buyer -> Nat]
    /\ webhooks \subseteq Buyer /\ parts \subseteq Buyer
    /\ returned \subseteq Buyer /\ by_hand \subseteq returned
    /\ task \in [Staff -> Task]

\* An order whose tickets were kept is on the new date, where no cancellation
\* lists it.
MovedAway == \A o \in Buyer : decision[o] = "MOVED" => at[o] = "new"

\* The order's page and the webhook decide nothing.
OnPage == {"page", "webhook"}

\* What a job of the cancellation refunds it found undecided, and so is what it
\* has still to refund.
FoundOpen ==
    \A w \in Staff :
        /\ task[w].pc \notin {"idle", "sweep", "notify", "next"} => task[w].order \in Buyer
        /\ task[w].pc \in {"requested", "failed"} => task[w].order \in task[w].open
        /\ task[w].pc \in {"refund", "operator", "handle", "claim", "tickets"} =>
               task[w].kind \in OnPage \/ task[w].order \in task[w].open
        /\ task[w].pc # "sweep" => task[w].todo \subseteq task[w].open

IInv == Types /\ MovedAway /\ FoundOpen

\* The same of one job.
Fits(j) ==
    /\ j \in Task
    /\ j.pc \notin {"idle", "sweep", "notify", "next"} => j.order \in Buyer
    /\ j.pc \in {"requested", "failed"} => j.order \in j.open
    /\ j.pc \in {"refund", "operator", "handle", "claim", "tickets"} =>
           j.kind \in OnPage \/ j.order \in j.open
    /\ j.pc # "sweep" => j.todo \subseteq j.open

-----------------------------------------------------------------------------
(* Jobs.                                                                   *)

LEMMA JobsFit == IInv <=> Types /\ MovedAway /\ \A w \in Staff : Fits(task[w])
  BY DEF IInv, Types, FoundOpen, Fits

LEMMA BlankFits ==
    /\ NoTask \in Task
    /\ NoTask.pc = "idle" /\ NoTask.kind = "one" /\ NoTask.todo = {} /\ NoTask.open = {}
    /\ NoTask.n = 0
  BY DEF NoTask, Task, Steps, Kinds

LEMMA NoTaskFits == Fits(NoTask)
  BY BlankFits DEF Fits

\* A job goes on from one step to the next.
LEMMA StepFits ==
    ASSUME NEW w \in Staff, NEW j, Fits(j), task \in [Staff -> Task],
           \A v \in Staff : Fits(task[v]), task' = [task EXCEPT ![w] = j]
    PROVE  /\ task' \in [Staff -> Task]
           /\ \A v \in Staff : Fits(task'[v])
  BY DEF Fits

\* A job that begins has found its orders undecided, if none of them was kept.
LEMMA BeginFits ==
    ASSUME IInv, NEW w \in Staff, NEW l \in Steps, NEW k \in Kinds,
           NEW o \in Buyer \cup {Nobody}, NEW todo \in SUBSET Buyer, Begin(w, l, k, o, todo),
           l \in {"sweep", "next"} \/ o \in Buyer,
           l = "sweep" \/ \A x \in todo : decision[x] # "MOVED",
           l = "refund" => k = "page" \/ decision[o] # "MOVED",
           l \in {"buy", "refund", "sweep", "next", "handle"},
           l = "handle" => k = "webhook"
    PROVE  /\ task' \in [Staff -> Task]
           /\ \A v \in Staff : Fits(task'[v])
  <1> DEFINE open == Undecided(todo \cup {o})
             j == [NoTask EXCEPT !.pc = l, !.kind = k, !.order = o, !.todo = todo, !.open = open]
  <1>1. task' = [task EXCEPT ![w] = j]
    BY DEF Begin
  <1>2. open \in SUBSET Buyer
    BY DEF Undecided
  <1>3. l = "sweep" \/ todo \subseteq open
    BY DEF Undecided
  <1>4. l \notin {"sweep", "next"} => o \in Buyer
    OBVIOUS
  <1>5. l = "refund" => k \in OnPage \/ o \in open
    BY <1>4 DEF Undecided, OnPage
  <1> HIDE DEF open
  <1>6. j \in Task
    BY <1>2, BlankFits DEF Task
  <1>7. j.pc = l /\ j.kind = k /\ j.order = o /\ j.todo = todo /\ j.open = open
    BY DEF NoTask
  <1> HIDE DEF j
  <1>8. l \notin {"operator", "requested", "failed", "claim", "tickets"}
    OBVIOUS
  <1>9. Fits(j)
    BY <1>3, <1>4, <1>5, <1>6, <1>7, <1>8 DEF Fits, OnPage
  <1> QED BY <1>1, <1>9, StepFits, JobsFit DEF IInv, Types

\* Steps of a job that only move it on.
LEMMA PcFits ==
    ASSUME NEW j, Fits(j), NEW l \in Steps,
           l \notin {"idle", "sweep", "notify", "next"} => j.order \in Buyer,
           l \in {"requested", "failed"} => j.order \in j.open,
           l \in {"refund", "operator", "handle", "claim", "tickets"} =>
               j.kind \in OnPage \/ j.order \in j.open,
           l # "sweep" => j.todo \subseteq j.open
    PROVE  Fits([j EXCEPT !.pc = l])
  <1> DEFINE i == [j EXCEPT !.pc = l]
  <1>1. /\ i \in Task /\ i.pc = l /\ i.kind = j.kind /\ i.order = j.order
        /\ i.todo = j.todo /\ i.open = j.open
    BY DEF Fits, Task
  <1> HIDE DEF i
  <1>2. Fits(i)
    BY <1>1 DEF Fits
  <1> QED BY <1>2 DEF i

-----------------------------------------------------------------------------

LEMMA InitIInv == CancellationInit => IInv
  <1> SUFFICES ASSUME CancellationInit PROVE IInv
    OBVIOUS
  <1>1. task = [w \in Staff |-> NoTask] /\ NoTask \in Task
    BY NoTaskFits DEF CancellationInit, Fits
  <1>2. Types
    BY <1>1, QuantityAssumption DEF CancellationInit, Types, Decisions, Dates
  <1>3. MovedAway
    BY DEF CancellationInit, MovedAway
  <1> QED BY <1>1, <1>2, <1>3, NoTaskFits, JobsFit

\* Jobs that begin.
LEMMA Beginnings ==
    ASSUME IInv, NEW w \in Staff,
           \/ CancelEvent(w)
           \/ \E o \in Buyer : \/ LoadEvent(w, o) \/ ReceiveRefund(w, o) \/ choose_refund(w, o)
                               \/ refund_now(w, o) \/ ChooseMove(w, o) \/ refund_view(w, o)
                               \/ refund_tickets(w, o) \/ ReceivePart(w, o)
           \/ process_decision_deadlines(w)
    PROVE  task' \in [Staff -> Task] /\ \A v \in Staff : Fits(task'[v])
  <1> USE DEF Steps, Kinds
  <1>1. CASE CancelEvent(w)
    <2>1. {o \in Buyer : status[o] = "PENDING"} \in SUBSET Buyer
      OBVIOUS
    <2> QED BY <1>1, <2>1, BeginFits DEF CancelEvent
  <1>2. ASSUME NEW o \in Buyer, LoadEvent(w, o) PROVE task' \in [Staff -> Task] /\ \A v \in Staff : Fits(task'[v])
    BY <1>2, BeginFits DEF LoadEvent
  <1>3. ASSUME NEW o \in Buyer, ReceiveRefund(w, o) PROVE task' \in [Staff -> Task] /\ \A v \in Staff : Fits(task'[v])
    BY <1>3, BeginFits DEF ReceiveRefund
  <1>4. ASSUME NEW o \in Buyer, choose_refund(w, o) \/ refund_now(w, o) \/ refund_view(w, o)
        PROVE task' \in [Staff -> Task] /\ \A v \in Staff : Fits(task'[v])
    BY <1>4, BeginFits DEF choose_refund, refund_now, refund_view
  <1>5. ASSUME NEW o \in Buyer, ChooseMove(w, o) PROVE task' \in [Staff -> Task] /\ \A v \in Staff : Fits(task'[v])
    <2> DEFINE j == [NoTask EXCEPT !.pc = "move", !.order = o, !.n = valid[o]]
    <2>1. task' = [task EXCEPT ![w] = j]
      BY <1>5 DEF ChooseMove
    <2>2. valid[o] \in Nat
      BY DEF IInv, Types
    <2>3. j \in Task /\ j.pc = "move" /\ j.order = o /\ j.todo = {}
      BY <2>2, BlankFits DEF Task
    <2> HIDE DEF j
    <2>4. Fits(j)
      BY <2>3 DEF Fits
    <2> QED BY <2>1, <2>4, StepFits, JobsFit DEF IInv, Types
  <1>6. CASE process_decision_deadlines(w)
    <2>1. Due \in SUBSET Buyer /\ \A x \in Due : decision[x] # "MOVED"
      BY DEF Due
    <2> QED BY <1>6, <2>1, BeginFits DEF process_decision_deadlines
  <1>7. ASSUME NEW o \in Buyer, NEW k \in OnPage, NEW n \in Nat,
               task' = [task EXCEPT ![w] = [NoTask EXCEPT !.pc = "handle", !.kind = k,
                                                          !.order = o, !.n = n]]
        PROVE  task' \in [Staff -> Task] /\ \A v \in Staff : Fits(task'[v])
    <2> DEFINE j == [NoTask EXCEPT !.pc = "handle", !.kind = k, !.order = o, !.n = n]
    <2>1. j \in Task /\ j.pc = "handle" /\ j.kind = k /\ j.order = o /\ j.todo = {}
      BY BlankFits DEF Task, OnPage
    <2>2. task' = [task EXCEPT ![w] = j]
      BY <1>7
    <2> HIDE DEF j
    <2>3. Fits(j)
      BY <2>1 DEF Fits
    <2> QED BY <2>2, <2>3, StepFits, JobsFit DEF IInv, Types
  <1>8. ASSUME NEW o \in Buyer, refund_tickets(w, o) \/ ReceivePart(w, o)
        PROVE  task' \in [Staff -> Task] /\ \A v \in Staff : Fits(task'[v])
    <2>1. task' = task \/ \E k \in OnPage, n \in Nat :
              task' = [task EXCEPT ![w] = [NoTask EXCEPT !.pc = "handle", !.kind = k,
                                                         !.order = o, !.n = n]]
      <3>1. asked[o] \in Nat /\ 1..valid[o] \subseteq Nat
        BY DEF IInv, Types
      <3> QED BY <1>8, <3>1 DEF refund_tickets, ReceivePart, OnPage
    <2> QED BY <1>7, <2>1, JobsFit DEF IInv, Types
  <1> QED BY <1>1, <1>2, <1>3, <1>4, <1>5, <1>6, <1>8

\* Jobs that go on.
LEMMA Continuations ==
    ASSUME IInv, NEW w \in Staff, Continue(w) \/ LoseJob(w)
    PROVE  task' \in [Staff -> Task] /\ \A v \in Staff : Fits(task'[v])
  <1> USE DEF Steps, OnPage
  <1> DEFINE j == task[w]
             Goal == task' \in [Staff -> Task] /\ \A v \in Staff : Fits(task'[v])
  <1>0. Fits(j) /\ \A v \in Staff : Fits(task[v])
    BY JobsFit
  <1>1. ASSUME NEW i, Fits(i), task' = [task EXCEPT ![w] = i] PROVE Goal
    BY <1>0, <1>1, StepFits DEF IInv, Types
  <1>2. ASSUME End(w) PROVE Goal
    BY <1>1, <1>2, NoTaskFits DEF End
  <1>3. ASSUME NEW l \in Steps, StepTo(w, l), Fits([j EXCEPT !.pc = l]) PROVE Goal
    BY <1>1, <1>3 DEF StepTo
  <1>4. CASE \/ create_order(w) \/ AllNotified(w) \/ move_to_replacement(w) \/ LoseJob(w)
             \/ apply_partial_refund(w)
    BY <1>2, <1>4
    DEF create_order, AllNotified, move_to_replacement, LoseJob, apply_partial_refund
  <1>5. CASE ListPaid(w)
    <2> DEFINE paid == {o \in Buyer : status[o] = "PAID" /\ at[o] = "old"}
               i == [j EXCEPT !.pc = "notify", !.todo = paid, !.open = Undecided(paid)]
    <2>1. task' = [task EXCEPT ![w] = i]
      BY <1>5 DEF ListPaid, IInv, Types
    <2>2. \A o \in paid : decision[o] # "MOVED"
      BY DEF IInv, MovedAway
    <2>3. paid \subseteq Undecided(paid) /\ Undecided(paid) \subseteq Buyer
      BY <2>2 DEF Undecided
    <2>4. Fits(i)
      <3> HIDE DEF paid
      <3> DEFINE open == Undecided(paid)
      <3> HIDE DEF open
      <3>1. paid \subseteq open /\ open \subseteq Buyer /\ i = [j EXCEPT !.pc = "notify", !.todo = paid, !.open = open]
        BY <2>3 DEF open
      <3>2. paid \subseteq Buyer
        BY DEF paid
      <3> QED BY <1>0, <3>1, <3>2 DEF Fits, Task
    <2> HIDE DEF i
    <2> QED BY <1>1, <2>1, <2>4
  <1>6. CASE CheckPaid(w) \/ CallOperator(w) \/ OperatorRefuses(w)
    <2>1. /\ j.pc \in {"refund", "operator"} /\ j.order \in Buyer /\ j.todo \subseteq j.open
          /\ j.kind \in OnPage \/ j.order \in j.open
      BY <1>0, <1>6 DEF CheckPaid, CallOperator, OperatorRefuses, Fits
    <2>2. CASE End(w)
      BY <1>2, <2>2
    <2>3. CASE ~End(w)
      <3>1. \/ \E l \in {"operator", "handle"} : StepTo(w, l)
            \/ j.kind \notin OnPage /\ \E l \in {"failed", "requested"} : StepTo(w, l)
        BY <1>6, <2>3 DEF CheckPaid, CallOperator, OperatorRefuses, AnswerTo
      <3>2. PICK l \in {"operator", "failed", "handle", "requested"} :
                StepTo(w, l) /\ (l \in {"failed", "requested"} => j.kind \notin OnPage)
        BY <3>1
      <3>3. Fits([j EXCEPT !.pc = l])
        BY <1>0, <2>1, <3>2, PcFits
      <3> QED BY <1>3, <3>2, <3>3
    <2> QED BY <2>2, <2>3
  <1>7. CASE Refresh(w)
    <2> DEFINE date == at[j.order]
               places == kept[j.order]
               i == [j EXCEPT !.pc = "claim", !.seen = date, !.held = places]
    <2>1. date \in Dates /\ places \in Int /\ task' = [task EXCEPT ![w] = i]
      BY <1>0, <1>7 DEF Refresh, IInv, Types, Fits
    <2> HIDE DEF date, places
    <2>2. Fits(i)
      BY <1>0, <1>7, <2>1 DEF Refresh, Fits, Task, Dates
    <2> HIDE DEF i
    <2> QED BY <1>1, <2>1, <2>2
  <1>8. CASE Claim(w) \/ Invalidate(w)
    <2>1. /\ j.pc \in {"claim", "tickets"} /\ j.order \in Buyer /\ j.todo \subseteq j.open
          /\ j.kind \in OnPage \/ j.order \in j.open
      BY <1>0, <1>8 DEF Claim, Invalidate, Fits
    <2>2. \/ StepTo(w, "tickets")
          \/ End(w)
          \/ j.kind \notin OnPage /\ StepTo(w, "requested")
      BY <1>8 DEF Claim, Invalidate, AnswerTo
    <2>3. Fits([j EXCEPT !.pc = "tickets"])
      BY <1>0, <2>1, PcFits
    <2>4. j.kind \notin OnPage => Fits([j EXCEPT !.pc = "requested"])
      BY <1>0, <2>1, PcFits
    <2> QED BY <1>2, <1>3, <2>2, <2>3, <2>4
  <1>9. CASE RecordRefund(w)
    <2>1. j.todo \subseteq j.open
      BY <1>0, <1>9 DEF RecordRefund, Fits
    <2>2. End(w) \/ StepTo(w, "notify") \/ StepTo(w, "next")
      BY <1>9 DEF RecordRefund
    <2>3. Fits([j EXCEPT !.pc = "notify"]) /\ Fits([j EXCEPT !.pc = "next"])
      BY <1>0, <2>1, PcFits
    <2> QED BY <1>2, <1>3, <2>2, <2>3
  <1>10. CASE NextDue(w) \/ \E o \in Buyer : Notify(w, o)
    <2>1. j.todo \subseteq j.open /\ j.todo \subseteq Buyer
      BY <1>0, <1>10 DEF NextDue, Notify, Fits, Task
    <2>2. \/ End(w)
          \/ \E o \in j.todo :
                 task' = [task EXCEPT ![w] = [j EXCEPT !.pc = "refund", !.order = o, !.todo = j.todo \ {o}]]
      <3>1. CASE NextDue(w)
        BY <3>1 DEF NextDue, IInv, Types
      <3>2. ASSUME NEW o \in Buyer, Notify(w, o)
            PROVE  o \in j.todo /\ task' =
                       [task EXCEPT ![w] = [j EXCEPT !.pc = "refund", !.order = o, !.todo = j.todo \ {o}]]
        <4> DEFINE i == [j EXCEPT !.todo = j.todo \ {o}, !.order = o, !.pc = "refund"]
        <4>1. o \in j.todo /\ task' = [task EXCEPT ![w] = i]
          BY <3>2 DEF Notify, IInv, Types
        <4>2. i = [j EXCEPT !.pc = "refund", !.order = o, !.todo = j.todo \ {o}]
          BY <1>0 DEF Fits, Task
        <4> QED BY <4>1, <4>2
      <3> QED BY <1>10, <3>1, <3>2
    <2>3. ASSUME NEW o \in j.todo
          PROVE  Fits([j EXCEPT !.pc = "refund", !.order = o, !.todo = j.todo \ {o}])
      <3> DEFINE rest == j.todo \ {o}
      <3>1. rest \subseteq j.open /\ rest \subseteq Buyer /\ o \in Buyer /\ o \in j.open
        BY <2>1
      <3> HIDE DEF rest
      <3>2. Fits([j EXCEPT !.pc = "refund", !.order = o, !.todo = rest])
        BY <1>0, <3>1 DEF Fits, Task
      <3> QED BY <3>2 DEF rest
    <2> QED BY <1>1, <1>2, <2>2, <2>3
  <1>11. ASSUME NEW o \in Buyer, Sweep(w, o) PROVE Goal
    <2> DEFINE rest == j.todo \ {o}
               i == [j EXCEPT !.todo = rest]
    <2>1. task' = [task EXCEPT ![w] = i] /\ j.pc = "sweep" /\ rest \subseteq Buyer
      BY <1>0, <1>11 DEF Sweep, Fits, Task
    <2> HIDE DEF rest
    <2>2. Fits(i)
      BY <1>0, <2>1 DEF Fits, Task
    <2> HIDE DEF i
    <2> QED BY <1>1, <2>1, <2>2
  <1> QED BY <1>4, <1>5, <1>6, <1>7, <1>8, <1>9, <1>10, <1>11 DEF Continue

-----------------------------------------------------------------------------
(* The orders.                                                             *)

Orders == /\ decision \in [Buyer -> Decisions] /\ at \in [Buyer -> Dates]
          /\ valid \in [Buyer -> Nat] /\ kept \in [Buyer -> Int] /\ asked \in [Buyer -> Nat]
          /\ returned \subseteq Buyer /\ by_hand \subseteq returned
          /\ webhooks \subseteq Buyer /\ parts \subseteq Buyer
          /\ MovedAway

LEMMA OrdersStep == ASSUME IInv, [CancellationNext]_cancelVars PROVE Orders'
  <1> USE DEF IInv, Types, MovedAway, Orders, Decisions, Dates,
              eventVars, ticketVars, moneyVars, history
  <1>1. ASSUME NEW w \in Staff, task[w].pc \notin {"idle", "sweep", "notify", "next"}
        PROVE  task[w].order \in Buyer
    BY <1>1 DEF FoundOpen
  <1>2. ASSUME NEW w \in Staff, move_to_replacement(w) PROVE Orders'
    <2>1. task[w].order \in Buyer
      BY <1>1, <1>2 DEF move_to_replacement
    <2> QED BY <1>2, <2>1 DEF move_to_replacement
  <1>3. ASSUME NEW w \in Staff, RecordRefund(w) PROVE Orders'
    <2>1. task[w].order \in Buyer
      BY <1>1, <1>3 DEF RecordRefund
    <2> QED BY <1>3, <2>1 DEF RecordRefund
  <1>4. ASSUME NEW w \in Staff, CallOperator(w) \/ Invalidate(w) PROVE Orders'
    <2>1. task[w].order \in Buyer
      BY <1>1, <1>4 DEF CallOperator, Invalidate
    <2>2. CASE CallOperator(w)
      BY <2>1, <2>2 DEF CallOperator, Returns
    <2>3. CASE Invalidate(w)
      BY <2>1, <2>3 DEF Invalidate
    <2> QED BY <1>4, <2>2, <2>3
  <1>5. ASSUME NEW w \in Staff,
               \/ create_order(w) \/ ListPaid(w) \/ AllNotified(w) \/ CheckPaid(w)
               \/ OperatorRefuses(w) \/ Refresh(w) \/ NextDue(w) \/ LoseJob(w)
               \/ CancelEvent(w) \/ process_decision_deadlines(w)
        PROVE  Orders'
    <2>1. UNCHANGED <<decision, at, valid, kept, asked, returned, webhooks, parts, by_hand>>
      BY <1>5 DEF create_order, ListPaid, AllNotified, CheckPaid, OperatorRefuses, Refresh,
                  NextDue, LoseJob, CancelEvent, process_decision_deadlines
    <2> QED BY <2>1
  <1>6. ASSUME NEW w \in Staff, NEW o \in Buyer,
               \/ Sweep(w, o) \/ Notify(w, o) \/ LoadEvent(w, o) \/ choose_refund(w, o)
               \/ refund_now(w, o) \/ ChooseMove(w, o) \/ refund_view(w, o)
        PROVE  Orders'
    <2>1. UNCHANGED <<decision, at, valid, kept, asked, returned, webhooks, parts, by_hand>>
      BY <1>6 DEF Sweep, Notify, LoadEvent, choose_refund, refund_now, ChooseMove, refund_view
    <2> QED BY <2>1
  <1>7. ASSUME NEW w \in Staff, NEW o \in Buyer, ReceiveRefund(w, o) \/ ReceivePart(w, o)
        PROVE  Orders'
    BY <1>7 DEF ReceiveRefund, ReceivePart
  <1>8. ASSUME NEW o \in Buyer, PayOrder(o) \/ UseTicket(o) PROVE Orders'
    <2>1. UNCHANGED <<decision, at, kept, asked, returned, webhooks, parts, by_hand>>
      BY <1>8 DEF PayOrder, UseTicket
    <2>2. \E n \in Nat : valid' = [valid EXCEPT ![o] = n]
      <3>1. CASE PayOrder(o)
        BY <3>1, QuantityAssumption DEF PayOrder
      <3>2. CASE UseTicket(o)
        <4>1. valid[o] - 1 \in Nat /\ valid' = [valid EXCEPT ![o] = valid[o] - 1]
          BY <3>2 DEF UseTicket
        <4> QED BY <4>1
      <3> QED BY <1>8, <3>1, <3>2
    <2> QED BY <2>1, <2>2
  <1>9. ASSUME NEW o \in Buyer, expire_order(o) PROVE Orders'
    BY <1>9 DEF expire_order
  <1>10. CASE cancel_view
    <2>1. UNCHANGED <<at, valid, kept, asked, returned, webhooks, parts, by_hand>>
      BY <1>10 DEF cancel_view
    <2>2. \A o \in Buyer : decision'[o] = decision[o] \/ decision'[o] = "AWAITING"
      BY <1>10 DEF cancel_view
    <2>3. decision' \in [Buyer -> Decisions]
      BY <1>10 DEF cancel_view
    <2> QED BY <2>1, <2>2, <2>3
  <1>11. CASE DeadlinePasses
    BY <1>11 DEF DeadlinePasses
  <1>12. CASE UNCHANGED cancelVars
    BY <1>12 DEF cancelVars
  <1>13. ASSUME NEW w \in Staff, Claim(w) PROVE Orders'
    <2>1. task[w].order \in Buyer
      BY <1>1, <1>13 DEF Claim
    <2> QED BY <1>13, <2>1 DEF Claim
  <1>14. ASSUME NEW w \in Staff, apply_partial_refund(w) PROVE Orders'
    <2>1. task[w].order \in Buyer /\ task[w].n \in Nat
      BY <1>1, <1>14 DEF apply_partial_refund, Task
    <2>2. UNCHANGED <<decision, at, returned, webhooks, parts, by_hand>>
      BY <1>14 DEF apply_partial_refund
    <2>3. valid' \in [Buyer -> Nat] /\ kept' \in [Buyer -> Int] /\ asked' \in [Buyer -> Nat]
      BY <1>14, <2>1 DEF apply_partial_refund
    <2> QED BY <2>2, <2>3
  <1>15. ASSUME NEW w \in Staff, NEW o \in Buyer, refund_tickets(w, o) PROVE Orders'
    <2>1. PICK n \in 1..valid[o] :
              /\ asked' = [asked EXCEPT ![o] = n]
              /\ returned' = IF n = kept[o] THEN returned \cup {o} ELSE returned
              /\ by_hand' = IF n = kept[o] THEN by_hand \cup {o} ELSE by_hand
              /\ parts' = IF BuyerProvider[o] = "DEMO" THEN parts ELSE parts \cup {o}
      BY <1>15 DEF refund_tickets
    <2>2. UNCHANGED <<decision, at, valid, kept, webhooks>>
      BY <1>15 DEF refund_tickets
    <2>3. n \in Nat
      BY <2>1
    <2> QED BY <2>1, <2>2, <2>3
  <1> QED
    BY <1>2, <1>3, <1>4, <1>5, <1>6, <1>7, <1>8, <1>9, <1>10, <1>11, <1>12, <1>13, <1>14, <1>15
    DEF CancellationNext, Continue, Cron

LEMMA JobsStep ==
    ASSUME IInv, [CancellationNext]_cancelVars
    PROVE  task' \in [Staff -> Task] /\ \A v \in Staff : Fits(task'[v])
  <1>1. CASE \E w \in Staff : Continue(w) \/ LoseJob(w)
    BY <1>1, Continuations
  <1>2. CASE \E w \in Staff :
                \/ CancelEvent(w)
                \/ \E o \in Buyer : \/ LoadEvent(w, o) \/ ReceiveRefund(w, o) \/ choose_refund(w, o)
                                    \/ refund_now(w, o) \/ ChooseMove(w, o) \/ refund_view(w, o)
                                    \/ refund_tickets(w, o) \/ ReceivePart(w, o)
                \/ process_decision_deadlines(w)
    BY <1>2, Beginnings
  <1>3. CASE \/ \E o \in Buyer : PayOrder(o) \/ expire_order(o) \/ UseTicket(o)
             \/ cancel_view \/ DeadlinePasses \/ UNCHANGED cancelVars
    <2>1. task' = task
      BY <1>3 DEF PayOrder, expire_order, UseTicket, cancel_view, DeadlinePasses, cancelVars
    <2> QED BY <2>1, JobsFit DEF IInv, Types
  <1> QED BY <1>1, <1>2, <1>3 DEF CancellationNext, Cron

LEMMA JobsFitNext ==
    ASSUME Orders', task' \in [Staff -> Task], \A v \in Staff : Fits(task'[v])
    PROVE  IInv'
  BY DEF Orders, IInv, Types, FoundOpen, Fits

LEMMA Invariance == CancellationSpec => []IInv
  <1>1. IInv /\ [CancellationNext]_cancelVars => IInv'
    BY OrdersStep, JobsStep, JobsFitNext
  <1> QED BY InitIInv, <1>1, PTL DEF CancellationSpec

\* A decision to keep the tickets stands: with any number of orders, threads
\* and lost jobs, and however they interleave, only a job that had found the
\* order undecided writes another decision over it (request_refund).
THEOREM KeptTicketsStay == CancellationSpec => KeptMeansKept
  <1> DEFINE Kept == \A o \in Buyer : (decision[o] = "MOVED" /\ decision'[o] # "MOVED") =>
                         \E w \in Staff : task[w].order = o /\ o \in task[w].open
  <1>1. IInv /\ [CancellationNext]_cancelVars => [Kept]_decision
    <2> SUFFICES ASSUME IInv, CancellationNext, NEW o \in Buyer, decision[o] = "MOVED",
                        decision'[o] # "MOVED"
                 PROVE  \E w \in Staff : task[w].order = o /\ o \in task[w].open
      BY DEF cancelVars
    <2>1. ~cancel_view
      BY DEF cancel_view, IInv, Types, MovedAway
    <2>2. \A w \in Staff : ~move_to_replacement(w)
      <3> SUFFICES ASSUME NEW w \in Staff, move_to_replacement(w) PROVE FALSE
        OBVIOUS
      <3> QED BY DEF move_to_replacement, IInv, Types
    <2>3. PICK w \in Staff : RecordRefund(w)
      <3>1. decision' # decision
        OBVIOUS
      <3>2. ASSUME NEW w \in Staff, Continue(w), ~RecordRefund(w) PROVE UNCHANGED decision
        BY <2>2, <3>2
        DEF Continue, create_order, ListPaid, AllNotified, CheckPaid, CallOperator,
            OperatorRefuses, Refresh, Claim, Invalidate, apply_partial_refund, NextDue, Sweep,
            Notify
      <3>3. ASSUME NEW w \in Staff, NEW x \in Buyer,
                   \/ LoseJob(w) \/ CancelEvent(w) \/ LoadEvent(w, x) \/ ReceiveRefund(w, x)
                   \/ choose_refund(w, x) \/ refund_now(w, x) \/ ChooseMove(w, x)
                   \/ refund_view(w, x) \/ refund_tickets(w, x) \/ ReceivePart(w, x)
            PROVE  UNCHANGED decision
        BY <3>3
        DEF LoseJob, CancelEvent, LoadEvent, ReceiveRefund, choose_refund, refund_now, ChooseMove,
            refund_view, refund_tickets, ReceivePart
      <3>4. CASE \/ \E x \in Buyer : PayOrder(x) \/ expire_order(x) \/ UseTicket(x)
                 \/ Cron \/ DeadlinePasses
        BY <3>4 DEF PayOrder, expire_order, UseTicket, Cron, process_decision_deadlines, DeadlinePasses
      <3> QED BY <2>1, <3>1, <3>2, <3>3, <3>4 DEF CancellationNext
    <2>4. task[w].order = o
      BY <2>3 DEF RecordRefund, IInv, Types
    <2>5. task[w].order \in task[w].open
      BY <2>3 DEF RecordRefund, IInv, FoundOpen
    <2> QED BY <2>4, <2>5
  <1> QED BY <1>1, Invariance, PTL DEF CancellationSpec, KeptMeansKept

\* The groups of variables, expanded in every proof below.
USE DEF eventVars, ticketVars, moneyVars, history

-----------------------------------------------------------------------------
(* Types.                                                                  *)

LEMMA PlacesAreSummed ==
    ASSUME NEW S
    PROVE  /\ MapThenSumSet(LAMBDA o : Quantity[o], S) = SumOver(Quantity, S)
           /\ MapThenSumSet(LAMBDA o : kept[o], S) = SumOver(kept, S)
  BY DEF MapThenSumSet, MapThenFoldSet, SumOver, IsSum, Chosen

LEMMA PlacesCount ==
    ASSUME NEW S \in SUBSET Buyer
    PROVE  Summable(Quantity, S) /\ SumOver(Quantity, S) \in Int
  <1>1. Summable(Quantity, S)
    BY BuyersAssumption, QuantityAssumption, FS_Subset DEF Summable
  <1>2. QED
    BY <1>1, SumType

\* The parts of CancellationTypeOK that IInv does not say.
MoreTypes ==
    /\ event_status \in {"PUBLISHED", "CANCELLED"}
    /\ status \in [Buyer -> BuyerStatus]
    /\ \A o \in Buyer : valid[o] <= Quantity[o]
    /\ sold \in [Dates -> Int]
    /\ webhooks \subseteq returned /\ lost \in 0..MaxLost

\* Tickets that are being refunded are valid ones, those of places that were
\* not given back yet; and no ticket goes back before the order is paid.
AmountsOf(o) ==
    /\ kept[o] <= Quantity[o] /\ asked[o] <= kept[o]
    /\ status[o] = "PAID" => valid[o] <= kept[o]
    /\ status[o] \notin {"PAID", "REFUNDED"} => kept[o] = Quantity[o]
    /\ asked[o] > 0 => status[o] = "PAID"
Amounts == \A o \in Buyer : AmountsOf(o)

LEMMA TypedByAll == IInv /\ MoreTypes /\ Amounts => CancellationTypeOK
  <1> SUFFICES ASSUME IInv, MoreTypes, Amounts PROVE CancellationTypeOK
    OBVIOUS
  <1>1. ASSUME NEW o \in Buyer
        PROVE  /\ valid[o] \in 0..Quantity[o] /\ kept[o] \in 0..Quantity[o]
               /\ asked[o] \in 0..kept[o]
    <2>1. /\ valid[o] \in Nat /\ kept[o] \in Int /\ asked[o] \in Nat /\ Quantity[o] \in Nat
          /\ valid[o] <= Quantity[o] /\ kept[o] <= Quantity[o] /\ asked[o] <= kept[o]
      BY QuantityAssumption DEF IInv, Types, MoreTypes, Amounts, AmountsOf
    <2> QED BY <2>1
  <1> QED BY <1>1 DEF IInv, Types, MoreTypes, CancellationTypeOK, Dates

LEMMA InitMoreTypes == CancellationInit => MoreTypes
  <1> SUFFICES ASSUME CancellationInit PROVE MoreTypes
    OBVIOUS
  <1>1. MapThenSumSet(LAMBDA o : Quantity[o], Early) \in Int
    BY PlacesAreSummed, PlacesCount, BuyersAssumption
  <1>2. sold \in [Dates -> Int]
    BY <1>1 DEF CancellationInit, Dates
  <1>3. status \in [Buyer -> BuyerStatus]
    BY DEF CancellationInit, BuyerStatus
  <1>4. \A o \in Buyer : valid[o] <= Quantity[o]
    BY QuantityAssumption DEF CancellationInit
  <1>5. webhooks \subseteq returned /\ event_status = "PUBLISHED" /\ lost = 0
    BY DEF CancellationInit
  <1>6. QED
    BY <1>2, <1>3, <1>4, <1>5, BuyersAssumption DEF MoreTypes

LEMMA OrderOfJob ==
    ASSUME IInv, NEW w \in Staff, task[w].pc \notin {"idle", "sweep", "notify", "next"}
    PROVE  /\ task[w].order \in Buyer /\ task[w].n \in Nat
           /\ task[w].seen \in Dates /\ task[w].held \in Int
  BY DEF IInv, Types, FoundOpen, Task, Dates

LEMMA MoreTypesStep == ASSUME IInv, MoreTypes, [CancellationNext]_cancelVars PROVE MoreTypes'
  <1> USE DEF MoreTypes
  <1>0. webhooks \subseteq returned /\ valid \in [Buyer -> Nat] /\ Quantity \in [Buyer -> Nat]
        /\ MaxLost \in Nat /\ kept \in [Buyer -> Int]
    BY QuantityAssumption, BuyersAssumption DEF IInv, Types
  <1>1. ASSUME NEW w \in Staff, create_order(w) PROVE MoreTypes'
    <2>1. task[w].order \in Buyer
      BY <1>1, OrderOfJob DEF create_order
    <2>2. sold' \in [Dates -> Int]
      BY <1>0, <1>1, <2>1 DEF create_order, Dates
    <2>3. status' \in [Buyer -> BuyerStatus]
      BY <1>1, <2>1 DEF create_order, BuyerStatus
    <2>4. QED
      BY <1>1, <2>2, <2>3 DEF create_order
  <1>2. ASSUME NEW w \in Staff, Claim(w) PROVE MoreTypes'
    <2>1. task[w].order \in Buyer /\ task[w].seen \in Dates
      BY <1>2, OrderOfJob DEF Claim
    <2>2. sold' \in [Dates -> Int]
      BY <1>0, <1>2, <2>1, OrderOfJob DEF Claim, Dates
    <2>3. status' \in [Buyer -> BuyerStatus]
      BY <1>2, <2>1 DEF Claim, BuyerStatus
    <2>4. QED
      BY <1>2, <2>2, <2>3 DEF Claim
  <1>3. ASSUME NEW w \in Staff, move_to_replacement(w) PROVE MoreTypes'
    <2>1. task[w].order \in Buyer /\ task[w].n \in Nat
      BY <1>3, OrderOfJob DEF move_to_replacement
    <2>2. sold' \in [Dates -> Int]
      BY <1>0, <1>3, <2>1 DEF move_to_replacement, Dates
    <2>3. QED
      BY <1>3, <2>2 DEF move_to_replacement
  <1>4. ASSUME NEW w \in Staff, Invalidate(w) PROVE MoreTypes'
    <2>1. \A o \in Buyer : valid'[o] = valid[o] \/ valid'[o] = 0
      BY <1>0, <1>4 DEF Invalidate
    <2>2. QED
      BY <1>0, <1>4, <2>1 DEF Invalidate
  <1>5. ASSUME NEW w \in Staff, CallOperator(w) PROVE MoreTypes'
    BY <1>0, <1>5 DEF CallOperator, Returns
  <1>6. ASSUME NEW w \in Staff,
               \/ AllNotified(w) \/ CheckPaid(w) \/ ListPaid(w)
               \/ OperatorRefuses(w) \/ Refresh(w) \/ NextDue(w) \/ RecordRefund(w)
               \/ CancelEvent(w) \/ process_decision_deadlines(w)
        PROVE  MoreTypes'
    <2>1. UNCHANGED <<status, valid, sold, webhooks, returned, lost>>
      BY <1>6 DEF AllNotified, CheckPaid, ListPaid, OperatorRefuses, Refresh, NextDue, RecordRefund,
                  CancelEvent, process_decision_deadlines
    <2>2. event_status' \in {"PUBLISHED", "CANCELLED"}
      BY <1>6 DEF AllNotified, CheckPaid, ListPaid, OperatorRefuses, Refresh, NextDue, RecordRefund,
                  CancelEvent, process_decision_deadlines
    <2>3. QED
      BY <2>1, <2>2
  <1>7. ASSUME NEW w \in Staff, NEW o \in Buyer,
               \/ Notify(w, o) \/ LoadEvent(w, o) \/ choose_refund(w, o)
               \/ refund_now(w, o) \/ ChooseMove(w, o) \/ refund_view(w, o)
               \/ ReceivePart(w, o)
        PROVE  MoreTypes'
    <2>1. UNCHANGED <<status, valid, sold, webhooks, returned, lost, event_status>>
      BY <1>7 DEF Notify, LoadEvent, choose_refund, refund_now, ChooseMove, refund_view, ReceivePart
    <2>2. QED
      BY <2>1
  <1>8. ASSUME NEW w \in Staff, NEW o \in Buyer, ReceiveRefund(w, o) PROVE MoreTypes'
    BY <1>8 DEF ReceiveRefund
  <1>9. ASSUME NEW w \in Staff, NEW o \in Buyer, Sweep(w, o) PROVE MoreTypes'
    <2>1. sold' \in [Dates -> Int]
      BY <1>0, <1>9 DEF Sweep, Release, Dates
    <2>2. status' \in [Buyer -> BuyerStatus]
      BY <1>9 DEF Sweep, BuyerStatus
    <2>3. QED
      BY <1>9, <2>1, <2>2 DEF Sweep
  <1>10. ASSUME NEW o \in Buyer, PayOrder(o) PROVE MoreTypes'
    <2>1. sold' \in [Dates -> Int]
      BY <1>0, <1>10 DEF PayOrder, Dates
    <2>2. status' \in [Buyer -> BuyerStatus]
      BY <1>10 DEF PayOrder, BuyerStatus
    <2>3. \A x \in Buyer : valid'[x] <= Quantity[x]
      BY <1>0, <1>10 DEF PayOrder
    <2>4. QED
      BY <1>10, <2>1, <2>2, <2>3 DEF PayOrder
  <1>11. ASSUME NEW o \in Buyer, expire_order(o) PROVE MoreTypes'
    <2>1. sold' \in [Dates -> Int]
      BY <1>0, <1>11 DEF expire_order, Release, Dates
    <2>2. status' \in [Buyer -> BuyerStatus]
      BY <1>11 DEF expire_order, BuyerStatus
    <2>3. QED
      BY <1>11, <2>1, <2>2 DEF expire_order
  <1>12. ASSUME NEW o \in Buyer, UseTicket(o) PROVE MoreTypes'
    <2>1. \A x \in Buyer : valid'[x] = valid[x] \/ valid'[x] = valid[x] - 1
      BY <1>0, <1>12 DEF UseTicket
    <2>2. \A x \in Buyer : valid[x] \in Nat /\ Quantity[x] \in Nat
      BY <1>0
    <2>3. \A x \in Buyer : valid'[x] <= Quantity[x]
      BY <2>1, <2>2
    <2>4. QED
      BY <1>12, <2>3 DEF UseTicket
  <1>13. CASE cancel_view
    <2> DEFINE unpaid == {o \in Buyer : status[o] = "PENDING" /\ at[o] = "old"}
               given == MapThenSumSet(LAMBDA o : Quantity[o], unpaid)
    <2>1. given \in Int
      BY PlacesAreSummed, PlacesCount
    <2>2. sold' = [sold EXCEPT !["old"] = @ - given] /\ event_status' = "CANCELLED"
          /\ UNCHANGED <<valid, returned, webhooks, lost>>
      BY <1>13 DEF cancel_view
    <2>3. status' \in [Buyer -> BuyerStatus]
      BY <1>13 DEF cancel_view, BuyerStatus
    <2> HIDE DEF given
    <2>4. sold' \in [Dates -> Int]
      BY <2>1, <2>2 DEF Dates
    <2>5. QED
      BY <2>2, <2>3, <2>4
  <1>14. ASSUME NEW w \in Staff, LoseJob(w) PROVE MoreTypes'
    BY <1>0, <1>14 DEF LoseJob
  <1>15. CASE DeadlinePasses \/ UNCHANGED cancelVars
    BY <1>15 DEF DeadlinePasses, cancelVars
  <1>16. ASSUME NEW w \in Staff, apply_partial_refund(w) PROVE MoreTypes'
    <2>1. task[w].order \in Buyer /\ task[w].n \in Nat /\ task[w].seen \in Dates
      BY <1>16, OrderOfJob DEF apply_partial_refund
    <2>2. sold' \in [Dates -> Int]
      BY <1>16, <2>1 DEF apply_partial_refund, Dates
    <2>3. status' \in [Buyer -> BuyerStatus]
      BY <1>16, <2>1 DEF apply_partial_refund, BuyerStatus
    <2>4. ASSUME NEW x \in Buyer PROVE valid'[x] <= Quantity[x]
      <3>1. valid'[x] = valid[x] \/ valid'[x] = 0 \/ valid'[x] = valid[x] - task[w].n
        BY <1>0, <1>16, <2>1 DEF apply_partial_refund
      <3>2. valid[x] \in Nat /\ Quantity[x] \in Nat /\ valid[x] <= Quantity[x]
        BY <1>0
      <3> QED BY <2>1, <3>1, <3>2
    <2>5. QED
      BY <1>16, <2>2, <2>3, <2>4 DEF apply_partial_refund
  <1>17. ASSUME NEW w \in Staff, NEW o \in Buyer, refund_tickets(w, o) PROVE MoreTypes'
    <2>1. UNCHANGED <<status, valid, sold, webhooks, lost, event_status>>
          /\ returned \subseteq returned'
      BY <1>17 DEF refund_tickets
    <2>2. QED
      BY <1>0, <2>1
  <1>18. QED
    BY <1>1, <1>2, <1>3, <1>4, <1>5, <1>6, <1>7, <1>8, <1>9, <1>10, <1>11, <1>12, <1>13, <1>14,
       <1>15, <1>16, <1>17
    DEF CancellationNext, Continue, Cron

LEMMA InitAmounts == CancellationInit => Amounts
  BY QuantityAssumption DEF CancellationInit, Amounts, AmountsOf

LEMMA AmountsStep == ASSUME IInv, MoreTypes, Amounts, [CancellationNext]_cancelVars PROVE Amounts'
  <1> SUFFICES ASSUME NEW x \in Buyer PROVE AmountsOf(x)'
    BY DEF Amounts
  <1>0. /\ AmountsOf(x) /\ valid \in [Buyer -> Nat] /\ kept \in [Buyer -> Int]
        /\ asked \in [Buyer -> Nat] /\ Quantity \in [Buyer -> Nat]
        /\ status \in [Buyer -> BuyerStatus] /\ valid[x] <= Quantity[x]
    BY QuantityAssumption DEF IInv, Types, MoreTypes, Amounts
  <1>1. PICK v, k, a, q \in Int :
            /\ v = valid[x] /\ k = kept[x] /\ a = asked[x] /\ q = Quantity[x]
            /\ v >= 0 /\ a >= 0 /\ k <= q /\ a <= k
            /\ status[x] = "PAID" => v <= k
            /\ status[x] \notin {"PAID", "REFUNDED"} => k = q
            /\ a > 0 => status[x] = "PAID"
    BY <1>0 DEF AmountsOf
  <1>2. ASSUME UNCHANGED <<valid, kept, asked>>,
               \/ status'[x] = status[x]
               \/ status[x] \notin {"PAID", "REFUNDED"} /\ status'[x] # "PAID"
        PROVE  AmountsOf(x)'
    BY <1>1, <1>2 DEF AmountsOf
  <1>3. ASSUME NEW w \in Staff,
               \/ AllNotified(w) \/ CheckPaid(w) \/ CallOperator(w) \/ ListPaid(w)
               \/ OperatorRefuses(w) \/ Refresh(w) \/ NextDue(w) \/ RecordRefund(w)
               \/ CancelEvent(w) \/ process_decision_deadlines(w) \/ LoseJob(w)
               \/ move_to_replacement(w)
        PROVE  AmountsOf(x)'
    <2>1. UNCHANGED <<valid, kept, asked, status>>
      BY <1>3 DEF AllNotified, CheckPaid, CallOperator, ListPaid, OperatorRefuses, Refresh, NextDue,
                  RecordRefund, CancelEvent, process_decision_deadlines, LoseJob, move_to_replacement
    <2>2. QED
      BY <1>2, <2>1
  <1>4. ASSUME NEW w \in Staff, NEW o \in Buyer,
               \/ Notify(w, o) \/ LoadEvent(w, o) \/ choose_refund(w, o)
               \/ refund_now(w, o) \/ ChooseMove(w, o) \/ refund_view(w, o)
               \/ ReceivePart(w, o) \/ ReceiveRefund(w, o)
        PROVE  AmountsOf(x)'
    <2>1. UNCHANGED <<valid, kept, asked, status>>
      BY <1>4 DEF Notify, LoadEvent, choose_refund, refund_now, ChooseMove, refund_view,
                  ReceivePart, ReceiveRefund
    <2>2. QED
      BY <1>2, <2>1
  <1>5. ASSUME NEW w \in Staff, create_order(w) PROVE AmountsOf(x)'
    <2>1. UNCHANGED <<valid, kept, asked>> /\ (status'[x] = status[x]
              \/ (status[x] = "NONE" /\ status'[x] = "PENDING"))
      BY <1>0, <1>5 DEF create_order
    <2>2. QED
      BY <1>2, <2>1
  <1>6. ASSUME NEW w \in Staff, NEW o \in Buyer, Sweep(w, o) PROVE AmountsOf(x)'
    <2>1. UNCHANGED <<valid, kept, asked>> /\ (status'[x] = status[x]
              \/ (status[x] = "PENDING" /\ status'[x] = "CANCELLED"))
      BY <1>0, <1>6 DEF Sweep
    <2>2. QED
      BY <1>2, <2>1
  <1>7. ASSUME NEW o \in Buyer, expire_order(o) PROVE AmountsOf(x)'
    <2>1. UNCHANGED <<valid, kept, asked>> /\ (status'[x] = status[x]
              \/ (status[x] = "PENDING" /\ status'[x] = "EXPIRED"))
      BY <1>0, <1>7 DEF expire_order
    <2>2. QED
      BY <1>2, <2>1
  <1>8. CASE cancel_view
    <2>1. UNCHANGED <<valid, kept, asked>> /\ (status'[x] = status[x]
              \/ (status[x] = "PENDING" /\ status'[x] = "CANCELLED"))
      BY <1>0, <1>8 DEF cancel_view
    <2>2. QED
      BY <1>2, <2>1
  <1>9. ASSUME NEW o \in Buyer, PayOrder(o) PROVE AmountsOf(x)'
    <2>1. CASE o = x
      <3>1. /\ status[x] \in {"PENDING", "EXPIRED"} /\ status'[x] = "PAID" /\ valid'[x] = q
            /\ kept' = kept /\ asked' = asked
        BY <1>0, <1>1, <1>9, <2>1 DEF PayOrder
      <3>2. QED
        BY <1>1, <3>1 DEF AmountsOf
    <2>2. CASE o # x
      <3>1. status'[x] = status[x] /\ valid'[x] = valid[x] /\ kept' = kept /\ asked' = asked
        BY <1>0, <1>9, <2>2 DEF PayOrder
      <3>2. QED
        BY <1>1, <3>1 DEF AmountsOf
    <2>3. QED
      BY <2>1, <2>2
  <1>10. ASSUME NEW o \in Buyer, UseTicket(o) PROVE AmountsOf(x)'
    <2>1. /\ status' = status /\ kept' = kept /\ asked' = asked
          /\ valid'[x] = v \/ valid'[x] = v - 1
      BY <1>0, <1>1, <1>10 DEF UseTicket
    <2>2. QED
      BY <1>1, <2>1 DEF AmountsOf
  <1>11. ASSUME NEW w \in Staff, Claim(w) PROVE AmountsOf(x)'
    <2>1. CASE status[task[w].order] = "PAID" /\ task[w].order = x
      <3>1. status'[x] = "REFUNDED" /\ kept'[x] = 0 /\ asked'[x] = 0
        BY <1>0, <1>11, <2>1 DEF Claim
      <3>2. QED
        BY <1>1, <3>1 DEF AmountsOf
    <2>2. CASE ~(status[task[w].order] = "PAID" /\ task[w].order = x)
      <3>1. status'[x] = status[x] /\ kept'[x] = kept[x] /\ asked'[x] = asked[x] /\ valid' = valid
        BY <1>0, <1>11, <2>2 DEF Claim
      <3>2. QED
        BY <1>1, <3>1 DEF AmountsOf
    <2>3. QED
      BY <2>1, <2>2
  <1>12. ASSUME NEW w \in Staff, Invalidate(w) PROVE AmountsOf(x)'
    <2>1. /\ status' = status /\ kept' = kept /\ asked' = asked
          /\ valid'[x] = v \/ valid'[x] = 0
      BY <1>0, <1>1, <1>12 DEF Invalidate
    <2>2. QED
      BY <1>1, <2>1 DEF AmountsOf
  <1>13. ASSUME NEW w \in Staff, NEW o \in Buyer, refund_tickets(w, o) PROVE AmountsOf(x)'
    <2>1. CASE o = x
      <3>1. PICK n \in 1..valid[x] : asked' = [asked EXCEPT ![x] = n]
        BY <1>13, <2>1 DEF refund_tickets
      <3>2. UNCHANGED <<status, kept, valid>> /\ status[x] = "PAID"
        BY <1>13, <2>1 DEF refund_tickets
      <3>3. n \in Int /\ n <= v /\ asked'[x] = n
        BY <1>0, <1>1, <3>1
      <3>4. QED
        BY <1>1, <3>2, <3>3 DEF AmountsOf
    <2>2. CASE o # x
      <3>1. UNCHANGED <<status, kept, valid>> /\ asked'[x] = asked[x]
        BY <1>0, <1>13, <2>2 DEF refund_tickets
      <3>2. QED
        BY <1>1, <3>1 DEF AmountsOf
    <2>3. QED
      BY <2>1, <2>2
  <1>14. ASSUME NEW w \in Staff, apply_partial_refund(w) PROVE AmountsOf(x)'
    <2>1. PICK n \in Int : n = task[w].n /\ n > 0
      BY <1>14, OrderOfJob DEF apply_partial_refund
    <2>2. CASE task[w].order = x /\ a = n
      <3>1. /\ asked'[x] = 0 /\ kept'[x] = k - n
            /\ valid'[x] = IF v < n THEN 0 ELSE v - n
            /\ status'[x] = IF k <= n /\ status[x] = "PAID" THEN "REFUNDED" ELSE status[x]
        BY <1>0, <1>1, <1>14, <2>1, <2>2 DEF apply_partial_refund
      <3>2. status[x] = "PAID" /\ n <= k
        BY <1>1, <2>1, <2>2
      <3>3. CASE k <= n
        BY <1>1, <2>1, <3>1, <3>2, <3>3 DEF AmountsOf
      <3>4. CASE ~(k <= n)
        <4>1. status'[x] = "PAID"
          BY <3>1, <3>2, <3>4
        <4>2. valid'[x] <= k - n
          BY <1>1, <2>1, <3>1, <3>2, <3>4
        <4>3. QED
          BY <1>1, <2>1, <3>1, <3>2, <4>1, <4>2 DEF AmountsOf
      <3>5. QED
        BY <3>3, <3>4
    <2>3. CASE ~(task[w].order = x /\ a = n)
      <3>1. /\ status'[x] = status[x] /\ kept'[x] = kept[x] /\ asked'[x] = asked[x]
            /\ valid'[x] = valid[x]
        BY <1>0, <1>1, <1>14, <2>1, <2>3 DEF apply_partial_refund
      <3>2. QED
        BY <1>1, <3>1 DEF AmountsOf
    <2>4. QED
      BY <2>2, <2>3
  <1>15. CASE DeadlinePasses \/ UNCHANGED cancelVars
    <2>1. UNCHANGED <<valid, kept, asked, status>>
      BY <1>15 DEF DeadlinePasses, cancelVars
    <2>2. QED
      BY <1>2, <2>1
  <1>16. QED
    BY <1>3, <1>4, <1>5, <1>6, <1>7, <1>8, <1>9, <1>10, <1>11, <1>12, <1>13, <1>14, <1>15
    DEF CancellationNext, Continue, Cron

LEMMA TypesAlways == CancellationSpec => [](IInv /\ MoreTypes /\ Amounts)
  <1>1. IInv /\ MoreTypes /\ Amounts /\ [CancellationNext]_cancelVars => MoreTypes' /\ Amounts'
    BY MoreTypesStep, AmountsStep
  <1>2. QED
    BY <1>1, InitMoreTypes, InitAmounts, Invariance, PTL DEF CancellationSpec

\* Every variable keeps its type; an order has no more valid tickets than it
\* was made for and never more tickets in a refund than places left, and Stripe
\* reports no refund of an order it has not made.
THEOREM CancellationTypes == CancellationSpec => []CancellationTypeOK
  BY TypedByAll, TypesAlways, PTL

-----------------------------------------------------------------------------
(* What a step makes of the jobs.                                          *)

\* What kind of job takes which steps.
KindOfStep(j) ==
    /\ j.pc \in {"idle", "buy", "move"} => j.kind = "one"
    /\ j.pc \in {"sweep", "notify"} => j.kind = "cancel"
    /\ j.pc = "next" => j.kind = "deadline"
    /\ j.kind = "webhook" => j.pc \in {"handle", "claim", "tickets"}
    /\ j.kind = "page" => j.pc \in {"refund", "operator", "handle", "claim", "tickets"}
    /\ j.pc = "idle" => j.todo = {}
    /\ j.n = 0 \/ j.pc = "move" \/ j.kind \in OnPage

\* What an order's state says.
OrderStands(o) ==
    /\ at[o] = "new" => status[o] \in {"PAID", "REFUNDED"} /\ decision[o] # "AWAITING"
    /\ decision[o] # "NONE" => event_status = "CANCELLED"
    /\ (used = {} /\ status[o] = "PAID") => valid[o] = kept[o]
    /\ decision[o] = "REFUND_REQUESTED" => o \in returned

\* What a job knows of its order, whoever else is at work.
JobStands(j) ==
    /\ KindOfStep(j)
    /\ j.pc = "move" => status[j.order] \in {"PAID", "REFUNDED"}
    /\ j.pc = "tickets" => status[j.order] = "REFUNDED"
    /\ (j.pc \in {"handle", "claim", "tickets", "requested"} /\ j.kind \notin OnPage) =>
           j.order \in returned
    /\ j.pc \notin {"idle", "sweep", "notify", "next"} => j.order \notin j.todo
    /\ (j.pc \notin {"idle", "buy"} /\ j.kind \notin OnPage) => event_status = "CANCELLED"

Stands == (\A o \in Buyer : OrderStands(o)) /\ (\A w \in Staff : JobStands(task[w]))

\* Jobs run one at a time.
Alone == \A v, w \in Staff : task[v].pc # "idle" /\ task[w].pc # "idle" => v = w

\* What the job that runs alone knows.
AloneKnows(j) ==
    /\ j.pc = "claim" => j.seen = at[j.order] /\ j.held = kept[j.order]
    /\ j.pc = "move" => status[j.order] = "PAID" /\ (used = {} => j.n = kept[j.order])

Serial == ~concurrent => Alone /\ \A w \in Staff : AloneKnows(task[w])

Returning(j, o) == /\ j.order = o /\ j.kind \notin OnPage
                   /\ j.pc \in {"handle", "claim", "tickets", "requested"}

\* An order whose money a job of the cancellation returned is recorded so, or is
\* about to be.
Recorded == \A o \in returned \ by_hand :
    decision[o] = "REFUND_REQUESTED" \/ \E w \in Staff : Returning(task[w], o)

\* Such jobs refund, or let keep, no order whose money one of them returned.
Clean(j) ==
    /\ j.pc = "sweep" => \A o \in Buyer : decision[o] = "NONE"
    /\ j.pc # "sweep" => \A o \in j.todo : decision[o] # "REFUND_REQUESTED"
    /\ j.kind \notin OnPage =>
           /\ j.pc \in {"refund", "operator"} => decision[j.order] # "REFUND_REQUESTED"
           /\ j.pc \in {"refund", "operator", "failed", "move"} => j.order \notin returned \ by_hand

MoneyFollows == (~concurrent /\ lost = 0) => Recorded /\ \A w \in Staff : Clean(task[w])

\* The jobs that cancel the event.
Cancels(w) == task[w].kind = "cancel"
OneCancels ==
    /\ \A v, w \in Staff : Cancels(v) /\ Cancels(w) => v = w
    /\ listed => event_status = "CANCELLED" /\ \A w \in Staff : task[w].pc # "sweep"

\* Until the paid orders are listed the sweep has the unpaid ones before it;
\* after that only late orders are unpaid, and the paid ones were told or will be.
Told ==
    (event_status = "CANCELLED" /\ lost = 0) => \A o \in Buyer \ late :
        /\ status[o] = "PENDING" =>
              \E w \in Staff : task[w].pc = "sweep" /\ o \in task[w].todo
        /\ (listed /\ status[o] = "PAID" /\ at[o] = "old" /\ o \notin told) =>
              \E w \in Staff : Cancels(w) /\ o \in task[w].todo

\* The job keeps what it knows; it takes the next order of its list.
Keeps(w) == /\ task'[w].kind = task[w].kind /\ task'[w].todo = task[w].todo
            /\ task'[w].order = task[w].order /\ task'[w].seen = task[w].seen
            /\ task'[w].n = task[w].n
Takes(w) == \E o \in task[w].todo :
    /\ task'[w].pc = "refund" /\ task'[w].kind = task[w].kind
    /\ task'[w].order = o /\ task'[w].todo = task[w].todo \ {o} /\ task'[w].n = task[w].n
BeginsAs(w, l, k, todo) ==
    /\ task[w].pc = "idle" /\ (concurrent \/ \A v \in Staff : task[v].pc = "idle")
    /\ task'[w].pc = l /\ task'[w].kind = k /\ task'[w].todo = todo
    /\ l # "move" /\ k \notin OnPage => task'[w].n = 0

Begins(w) ==
    \/ CancelEvent(w) \/ process_decision_deadlines(w)
    \/ \E o \in Buyer : \/ LoadEvent(w, o) \/ ReceiveRefund(w, o) \/ choose_refund(w, o)
                        \/ refund_now(w, o) \/ ChooseMove(w, o) \/ refund_view(w, o)
                        \/ refund_tickets(w, o) \/ ReceivePart(w, o)
Outside ==
    \/ \E o \in Buyer : PayOrder(o) \/ expire_order(o) \/ UseTicket(o)
    \/ cancel_view \/ DeadlinePasses \/ UNCHANGED cancelVars

LEMMA StepOf ==
    ASSUME [CancellationNext]_cancelVars
    PROVE  Outside \/ \E w \in Staff : Continue(w) \/ LoseJob(w) \/ Begins(w)
  BY DEF CancellationNext, Cron, Outside, Begins

\* Staff may ask Stripe for some tickets without any job that goes on.
LEMMA TicketsJob ==
    ASSUME NEW w \in Staff, NEW o \in Buyer, refund_tickets(w, o)
    PROVE  \/ task' = task
           \/ \E n \in 1..valid[o] :
                  task' = [task EXCEPT ![w] = [NoTask EXCEPT !.pc = "handle", !.kind = "page",
                                                             !.order = o, !.n = n]]
  BY DEF refund_tickets

LEMMA OutsideJobs == ASSUME Outside PROVE task' = task /\ lost' = lost /\ concurrent' = concurrent
  BY DEF Outside, PayOrder, expire_order, UseTicket, cancel_view, DeadlinePasses, cancelVars

LEMMA OthersRest ==
    ASSUME IInv, NEW w \in Staff, Continue(w) \/ LoseJob(w) \/ Begins(w)
    PROVE  \A v \in Staff \ {w} : task'[v] = task[v]
  <1>1. ASSUME NEW j, task' = [task EXCEPT ![w] = j] PROVE \A v \in Staff \ {w} : task'[v] = task[v]
    BY <1>1 DEF IInv, Types
  <1>2. ASSUME NEW l, StepTo(w, l) \/ End(w) PROVE \A v \in Staff \ {w} : task'[v] = task[v]
    BY <1>1, <1>2 DEF StepTo, End
  <1>3. ASSUME NEW l, NEW k, NEW o, NEW todo, Begin(w, l, k, o, todo)
        PROVE  \A v \in Staff \ {w} : task'[v] = task[v]
    BY <1>1, <1>3 DEF Begin
  <1>4. CASE LoseJob(w)
    BY <1>2, <1>4 DEF LoseJob
  <1>5. CASE Begins(w)
    <2>1. ASSUME NEW o \in Buyer, refund_tickets(w, o) \/ ReceivePart(w, o)
          PROVE  \A v \in Staff \ {w} : task'[v] = task[v]
      BY <1>1, <2>1, TicketsJob DEF ReceivePart
    <2>2. QED
      BY <1>1, <1>3, <1>5, <2>1
      DEF Begins, CancelEvent, process_decision_deadlines, LoadEvent, ReceiveRefund, choose_refund,
          refund_now, ChooseMove, refund_view
  <1>6. CASE create_order(w) \/ AllNotified(w) \/ move_to_replacement(w) \/ apply_partial_refund(w)
    BY <1>2, <1>6 DEF create_order, AllNotified, move_to_replacement, apply_partial_refund
  <1>7. CASE CheckPaid(w) \/ CallOperator(w) \/ OperatorRefuses(w)
    BY <1>2, <1>7 DEF CheckPaid, CallOperator, OperatorRefuses, AnswerTo
  <1>8. CASE Claim(w) \/ Invalidate(w) \/ RecordRefund(w)
    BY <1>2, <1>8 DEF Claim, Invalidate, RecordRefund, AnswerTo
  <1>9. CASE Refresh(w)
    BY <1>9 DEF Refresh, IInv, Types
  <1>10. CASE ListPaid(w)
    BY <1>10 DEF ListPaid, IInv, Types
  <1>11. CASE NextDue(w)
    BY <1>2, <1>11 DEF NextDue, IInv, Types
  <1>12. ASSUME NEW o \in Buyer, Sweep(w, o) \/ Notify(w, o)
         PROVE  \A v \in Staff \ {w} : task'[v] = task[v]
    BY <1>12 DEF Sweep, Notify, IInv, Types
  <1>13. QED
    BY <1>4, <1>5, <1>6, <1>7, <1>8, <1>9, <1>10, <1>11, <1>12 DEF Continue

\* What the operator said goes back to where the refund was asked for.
JobAnswers(w, l) == \/ task[w].kind \in OnPage /\ task'[w] = NoTask
                    \/ task[w].kind \notin OnPage /\ Keeps(w) /\ task'[w].pc = l

\* How a job goes on.
LEMMA JobAfter ==
    ASSUME IInv, NEW w \in Staff
    PROVE  /\ (create_order(w) \/ AllNotified(w) \/ move_to_replacement(w) \/ LoseJob(w)
               \/ apply_partial_refund(w)) => task'[w] = NoTask
           /\ apply_partial_refund(w) => task[w].pc = "claim"
           /\ CheckPaid(w) => /\ task[w].pc = "refund"
                              /\ \/ task'[w].pc = "operator" /\ Keeps(w)
                                 \/ JobAnswers(w, "failed")
           /\ CallOperator(w) => /\ task[w].pc = "operator"
                                 /\ \/ task'[w].pc = "handle" /\ Keeps(w)
                                    \/ JobAnswers(w, "requested")
           /\ OperatorRefuses(w) => JobAnswers(w, "failed") /\ task[w].pc = "operator"
           /\ Refresh(w) => /\ task'[w].pc = "claim" /\ task'[w].seen = at[task[w].order]
                            /\ task'[w].held = kept[task[w].order]
                            /\ task'[w].kind = task[w].kind /\ task'[w].todo = task[w].todo
                            /\ task'[w].order = task[w].order /\ task[w].pc = "handle"
                            /\ task'[w].n = task[w].n
           /\ Claim(w) => /\ task[w].pc = "claim"
                          /\ \/ Keeps(w) /\ task'[w].pc = "tickets" /\ status[task[w].order] = "PAID"
                             \/ JobAnswers(w, "requested")
           /\ Invalidate(w) => task[w].pc = "tickets" /\ JobAnswers(w, "requested")
           /\ RecordRefund(w) => /\ task[w].pc \in {"requested", "failed"}
                                 /\ \/ task[w].kind = "one" /\ task'[w] = NoTask
                                    \/ /\ task[w].kind # "one" /\ Keeps(w)
                                       /\ task'[w].pc = IF task[w].kind = "cancel" THEN "notify"
                                                        ELSE "next"
  <1> DEFINE j == task[w]
  <1>0. task \in [Staff -> Task] /\ j \in Task
    BY DEF IInv, Types
  <1>1. ASSUME NEW l, StepTo(w, l) PROVE task'[w].pc = l /\ Keeps(w)
    <2>1. task'[w] = [j EXCEPT !.pc = l]
      BY <1>0, <1>1 DEF StepTo
    <2>2. QED
      BY <1>0, <2>1 DEF Task, Keeps
  <1>2. ASSUME End(w) PROVE task'[w] = NoTask
    BY <1>0, <1>2 DEF End
  <1>3. /\ (create_order(w) \/ AllNotified(w) \/ move_to_replacement(w) \/ LoseJob(w)
            \/ apply_partial_refund(w)) => task'[w] = NoTask
        /\ apply_partial_refund(w) => j.pc = "claim"
    BY <1>2 DEF create_order, AllNotified, move_to_replacement, LoseJob, apply_partial_refund
  <1>8. ASSUME NEW l, AnswerTo(w, l) PROVE JobAnswers(w, l)
    BY <1>1, <1>2, <1>8 DEF AnswerTo, JobAnswers, OnPage
  <1>4. CheckPaid(w) => /\ j.pc = "refund"
                        /\ (task'[w].pc = "operator" /\ Keeps(w)) \/ JobAnswers(w, "failed")
    BY <1>1, <1>8 DEF CheckPaid
  <1>5. CallOperator(w) => /\ j.pc = "operator"
                           /\ (task'[w].pc = "handle" /\ Keeps(w)) \/ JobAnswers(w, "requested")
    BY <1>1, <1>8 DEF CallOperator
  <1>6. OperatorRefuses(w) => JobAnswers(w, "failed") /\ j.pc = "operator"
    BY <1>8 DEF OperatorRefuses
  <1>7. ASSUME Refresh(w)
        PROVE  /\ task'[w].pc = "claim" /\ task'[w].seen = at[j.order]
               /\ task'[w].held = kept[j.order]
               /\ task'[w].kind = j.kind /\ task'[w].todo = j.todo
               /\ task'[w].order = j.order /\ j.pc = "handle" /\ task'[w].n = j.n
    <2> DEFINE date == at[j.order]
               places == kept[j.order]
    <2>1. task'[w] = [j EXCEPT !.pc = "claim", !.seen = date, !.held = places] /\ j.pc = "handle"
      BY <1>0, <1>7 DEF Refresh
    <2> HIDE DEF date, places
    <2>2. /\ task'[w].pc = "claim" /\ task'[w].seen = date /\ task'[w].held = places
          /\ task'[w].kind = j.kind /\ task'[w].todo = j.todo /\ task'[w].order = j.order
          /\ task'[w].n = j.n
      BY <1>0, <2>1 DEF Task
    <2>3. QED
      BY <2>1, <2>2 DEF date, places
  <1>9. ASSUME Claim(w)
        PROVE  /\ j.pc = "claim"
               /\ \/ Keeps(w) /\ task'[w].pc = "tickets" /\ status[j.order] = "PAID"
                  \/ JobAnswers(w, "requested")
    BY <1>1, <1>8, <1>9 DEF Claim
  <1>10. ASSUME Invalidate(w)
         PROVE  j.pc = "tickets" /\ JobAnswers(w, "requested")
    BY <1>8, <1>10 DEF Invalidate
  <1>11. ASSUME RecordRefund(w)
         PROVE  /\ j.pc \in {"requested", "failed"}
                /\ \/ j.kind = "one" /\ task'[w] = NoTask
                   \/ /\ j.kind # "one" /\ Keeps(w)
                      /\ task'[w].pc = IF j.kind = "cancel" THEN "notify" ELSE "next"
    BY <1>1, <1>2, <1>11 DEF RecordRefund
  <1>12. QED
    BY <1>3, <1>4, <1>5, <1>6, <1>7, <1>9, <1>10, <1>11

LEMMA JobTakes ==
    ASSUME IInv, NEW w \in Staff
    PROVE  /\ NextDue(w) => task[w].pc = "next" /\ (Takes(w) \/ task'[w] = NoTask)
           /\ \A o \in Buyer : Notify(w, o) =>
                  task[w].pc = "notify" /\ Takes(w) /\ task'[w].todo = task[w].todo \ {o}
           /\ \A o \in Buyer : Sweep(w, o) =>
                  /\ task[w].pc = "sweep" /\ task'[w].pc = "sweep"
                  /\ task'[w].kind = task[w].kind /\ task'[w].todo = task[w].todo \ {o}
                  /\ task'[w].n = task[w].n
           /\ ListPaid(w) =>
                  /\ task[w].pc = "sweep" /\ task[w].todo = {}
                  /\ task'[w].pc = "notify" /\ task'[w].kind = task[w].kind
                  /\ task'[w].n = task[w].n
                  /\ task'[w].todo = {o \in Buyer : status[o] = "PAID" /\ at[o] = "old"}
  <1> DEFINE j == task[w]
  <1>0. task \in [Staff -> Task] /\ j \in Task
    BY DEF IInv, Types
  <1>1. ASSUME NEW o, o \in j.todo, NEW i, task' = [task EXCEPT ![w] = i],
               i = [j EXCEPT !.pc = "refund", !.order = o, !.todo = @ \ {o}]
        PROVE  Takes(w) /\ task'[w].todo = j.todo \ {o}
    <2>1. task'[w] = i
      BY <1>0, <1>1
    <2>2. /\ i.pc = "refund" /\ i.kind = j.kind /\ i.order = o /\ i.todo = j.todo \ {o}
          /\ i.n = j.n
      BY <1>0, <1>1 DEF Task
    <2>3. QED
      BY <1>1, <2>1, <2>2 DEF Takes
  <1>2. ASSUME NextDue(w) PROVE j.pc = "next" /\ (Takes(w) \/ task'[w] = NoTask)
    <2>1. CASE j.todo = {}
      BY <1>0, <1>2, <2>1 DEF NextDue, End
    <2>2. CASE j.todo # {}
      <3>1. PICK o \in j.todo :
                task' = [task EXCEPT ![w] = [j EXCEPT !.pc = "refund", !.order = o, !.todo = @ \ {o}]]
        BY <1>0, <1>2, <2>2 DEF NextDue
      <3>2. QED
        BY <1>1, <1>2, <3>1 DEF NextDue
    <2>3. QED
      BY <2>1, <2>2
  <1>3. ASSUME NEW o \in Buyer, Notify(w, o)
        PROVE  j.pc = "notify" /\ Takes(w) /\ task'[w].todo = j.todo \ {o}
    <2> DEFINE i == [j EXCEPT !.todo = @ \ {o}, !.order = o, !.pc = "refund"]
    <2>1. o \in j.todo /\ task' = [task EXCEPT ![w] = i] /\ j.pc = "notify"
      BY <1>0, <1>3 DEF Notify
    <2>2. i = [j EXCEPT !.pc = "refund", !.order = o, !.todo = @ \ {o}]
      BY <1>0 DEF Task
    <2> HIDE DEF i
    <2>3. QED
      BY <1>1, <2>1, <2>2
  <1>4. ASSUME NEW o \in Buyer, Sweep(w, o)
        PROVE  /\ j.pc = "sweep" /\ task'[w].pc = "sweep"
               /\ task'[w].kind = j.kind /\ task'[w].todo = j.todo \ {o}
               /\ task'[w].n = j.n
    <2>1. task'[w] = [j EXCEPT !.todo = @ \ {o}] /\ j.pc = "sweep"
      BY <1>0, <1>4 DEF Sweep
    <2>2. QED
      BY <1>0, <2>1 DEF Task
  <1>5. ASSUME ListPaid(w)
        PROVE  /\ j.pc = "sweep" /\ j.todo = {}
               /\ task'[w].pc = "notify" /\ task'[w].kind = j.kind /\ task'[w].n = j.n
               /\ task'[w].todo = {o \in Buyer : status[o] = "PAID" /\ at[o] = "old"}
    <2> DEFINE paid == {o \in Buyer : status[o] = "PAID" /\ at[o] = "old"}
               found == Undecided(paid)
    <2>1. /\ task'[w] = [j EXCEPT !.pc = "notify", !.todo = paid, !.open = found]
          /\ j.pc = "sweep" /\ j.todo = {}
      BY <1>0, <1>5 DEF ListPaid
    <2> HIDE DEF paid, found
    <2>2. /\ task'[w].pc = "notify" /\ task'[w].kind = j.kind /\ task'[w].todo = paid
          /\ task'[w].n = j.n
      BY <1>0, <2>1 DEF Task
    <2>3. QED
      BY <2>1, <2>2 DEF paid
  <1>6. QED
    BY <1>2, <1>3, <1>4, <1>5

\* How a job begins.
LEMMA JobBegins ==
    ASSUME IInv, NEW w \in Staff
    PROVE  /\ CancelEvent(w) =>
                  BeginsAs(w, "sweep", "cancel", {o \in Buyer : status[o] = "PENDING"})
           /\ process_decision_deadlines(w) => BeginsAs(w, "next", "deadline", Due)
           /\ \A o \in Buyer :
                  /\ LoadEvent(w, o) => BeginsAs(w, "buy", "one", {}) /\ task'[w].order = o
                  /\ ReceiveRefund(w, o) =>
                         BeginsAs(w, "handle", "webhook", {}) /\ task'[w].order = o
                  /\ choose_refund(w, o) \/ refund_now(w, o) =>
                         BeginsAs(w, "refund", "one", {}) /\ task'[w].order = o
                  /\ ChooseMove(w, o) =>
                         /\ BeginsAs(w, "move", "one", {}) /\ task'[w].order = o
                         /\ task'[w].n = valid[o]
                  /\ refund_view(w, o) =>
                         BeginsAs(w, "refund", "page", {}) /\ task'[w].order = o
                  /\ ReceivePart(w, o) =>
                         BeginsAs(w, "handle", "webhook", {}) /\ task'[w].order = o
                  /\ refund_tickets(w, o) =>
                         /\ \/ BeginsAs(w, "handle", "page", {}) /\ task'[w].order = o
                            \/ task'[w] = task[w]
                         /\ task[w].pc = "idle" /\ (concurrent \/ \A v \in Staff : task[v].pc = "idle")
  <1>0. task \in [Staff -> Task]
    BY DEF IInv, Types
  <1>1. ASSUME NEW l, NEW k, NEW o, NEW todo, Begin(w, l, k, o, todo)
        PROVE  BeginsAs(w, l, k, todo) /\ task'[w].order = o
    <2> DEFINE open == Undecided(todo \cup {o})
               i == [NoTask EXCEPT !.pc = l, !.kind = k, !.order = o, !.todo = todo, !.open = open]
    <2>1. task'[w] = i /\ task[w].pc = "idle" /\ (concurrent \/ \A v \in Staff : task[v].pc = "idle")
      BY <1>0, <1>1 DEF Begin, Starts
    <2> HIDE DEF open
    <2>2. i.pc = l /\ i.kind = k /\ i.order = o /\ i.todo = todo /\ i.n = 0
      BY DEF NoTask
    <2> HIDE DEF i
    <2>3. QED
      BY <2>1, <2>2 DEF BeginsAs
  <1>2. ASSUME NEW o \in Buyer, ChooseMove(w, o)
        PROVE  BeginsAs(w, "move", "one", {}) /\ task'[w].order = o /\ task'[w].n = valid[o]
    <2> DEFINE i == [NoTask EXCEPT !.pc = "move", !.order = o, !.n = valid[o]]
    <2>1. task'[w] = i /\ task[w].pc = "idle" /\ (concurrent \/ \A v \in Staff : task[v].pc = "idle")
      BY <1>0, <1>2 DEF ChooseMove, Starts
    <2>2. i.pc = "move" /\ i.kind = "one" /\ i.order = o /\ i.todo = {} /\ i.n = valid[o]
      BY DEF NoTask
    <2> HIDE DEF i
    <2>3. QED
      BY <2>1, <2>2 DEF BeginsAs
  <1>3. CancelEvent(w) => BeginsAs(w, "sweep", "cancel", {o \in Buyer : status[o] = "PENDING"})
    BY <1>1 DEF CancelEvent
  <1>4. process_decision_deadlines(w) => BeginsAs(w, "next", "deadline", Due)
    BY <1>1 DEF process_decision_deadlines
  <1>5. ASSUME NEW o \in Buyer
        PROVE  /\ LoadEvent(w, o) => BeginsAs(w, "buy", "one", {}) /\ task'[w].order = o
               /\ ReceiveRefund(w, o) =>
                      BeginsAs(w, "handle", "webhook", {}) /\ task'[w].order = o
               /\ choose_refund(w, o) \/ refund_now(w, o) =>
                      BeginsAs(w, "refund", "one", {}) /\ task'[w].order = o
               /\ refund_view(w, o) =>
                      BeginsAs(w, "refund", "page", {}) /\ task'[w].order = o
    BY <1>1 DEF LoadEvent, ReceiveRefund, choose_refund, refund_now, refund_view
  <1>6. ASSUME NEW o \in Buyer, NEW k \in OnPage, NEW n, Starts(w),
               task' = [task EXCEPT ![w] = [NoTask EXCEPT !.pc = "handle", !.kind = k,
                                                          !.order = o, !.n = n]]
        PROVE  BeginsAs(w, "handle", k, {}) /\ task'[w].order = o
    <2> DEFINE i == [NoTask EXCEPT !.pc = "handle", !.kind = k, !.order = o, !.n = n]
    <2>1. task'[w] = i /\ task[w].pc = "idle" /\ (concurrent \/ \A v \in Staff : task[v].pc = "idle")
      BY <1>0, <1>6 DEF Starts
    <2>2. i.pc = "handle" /\ i.kind = k /\ i.order = o /\ i.todo = {}
      BY DEF NoTask
    <2> HIDE DEF i
    <2>3. QED
      BY <2>1, <2>2 DEF BeginsAs
  <1>7. ASSUME NEW o \in Buyer, ReceivePart(w, o)
        PROVE  BeginsAs(w, "handle", "webhook", {}) /\ task'[w].order = o
    BY <1>6, <1>7 DEF ReceivePart, OnPage
  <1>8. ASSUME NEW o \in Buyer, refund_tickets(w, o)
        PROVE  /\ \/ BeginsAs(w, "handle", "page", {}) /\ task'[w].order = o
                  \/ task'[w] = task[w]
               /\ task[w].pc = "idle" /\ (concurrent \/ \A v \in Staff : task[v].pc = "idle")
    <2>1. Starts(w)
      BY <1>8 DEF refund_tickets
    <2>2. task[w].pc = "idle" /\ (concurrent \/ \A v \in Staff : task[v].pc = "idle")
      BY <2>1 DEF Starts
    <2>3. CASE task' = task
      BY <2>2, <2>3
    <2>4. CASE task' # task
      <3>1. PICK n \in 1..valid[o] :
                task' = [task EXCEPT ![w] = [NoTask EXCEPT !.pc = "handle", !.kind = "page",
                                                           !.order = o, !.n = n]]
        BY <1>8, <2>4, TicketsJob
      <3>2. QED
        BY <1>6, <2>1, <2>2, <3>1 DEF OnPage
    <2>5. QED
      BY <2>3, <2>4
  <1>9. QED
    BY <1>2, <1>3, <1>4, <1>5, <1>7, <1>8

-----------------------------------------------------------------------------
(* What the orders and the jobs say of each other.                         *)

\* No payment is taken back but by a refund, and nothing that happened is
\* forgotten.
LEMMA OrdersMove ==
    ASSUME IInv, MoreTypes, [CancellationNext]_cancelVars
    PROVE  /\ used \subseteq used' /\ returned \subseteq returned' /\ by_hand \subseteq by_hand'
           /\ event_status = "CANCELLED" => event_status' = "CANCELLED"
           /\ \A o \in Buyer : /\ status[o] = "PAID" => status'[o] \in {"PAID", "REFUNDED"}
                               /\ status[o] = "REFUNDED" => status'[o] = "REFUNDED"
  <1> DEFINE Goal == /\ used \subseteq used' /\ returned \subseteq returned' /\ by_hand \subseteq by_hand'
                     /\ event_status = "CANCELLED" => event_status' = "CANCELLED"
                     /\ \A o \in Buyer : /\ status[o] = "PAID" => status'[o] \in {"PAID", "REFUNDED"}
                                         /\ status[o] = "REFUNDED" => status'[o] = "REFUNDED"
  <1> USE DEF MoreTypes
  <1>1. ASSUME NEW w \in Staff, Continue(w) PROVE Goal
    <2>1. CASE create_order(w)
      BY <2>1 DEF create_order
    <2>2. CASE CallOperator(w)
      BY <2>2 DEF CallOperator, Returns
    <2>3. CASE Claim(w) \/ apply_partial_refund(w)
      BY <2>3 DEF Claim, apply_partial_refund
    <2>4. ASSUME NEW o \in Buyer, Sweep(w, o) PROVE Goal
      BY <2>4 DEF Sweep
    <2>5. CASE \/ ListPaid(w) \/ AllNotified(w) \/ CheckPaid(w) \/ OperatorRefuses(w) \/ Refresh(w)
               \/ Invalidate(w) \/ RecordRefund(w) \/ move_to_replacement(w) \/ NextDue(w)
               \/ \E o \in Buyer : Notify(w, o)
      <3>1. UNCHANGED <<used, returned, by_hand, event_status, status>>
        BY <2>5 DEF ListPaid, AllNotified, CheckPaid, OperatorRefuses, Refresh, Invalidate, RecordRefund,
                    move_to_replacement, NextDue, Notify
      <3>2. QED
        BY <3>1
    <2>6. QED
      BY <1>1, <2>1, <2>2, <2>3, <2>4, <2>5 DEF Continue
  <1>2. ASSUME NEW w \in Staff, LoseJob(w) \/ Begins(w) PROVE Goal
    <2>1. ASSUME NEW o \in Buyer, refund_tickets(w, o) PROVE Goal
      BY <2>1 DEF refund_tickets
    <2>2. CASE ~\E o \in Buyer : refund_tickets(w, o)
      <3>1. UNCHANGED <<used, returned, by_hand, status>> /\ event_status' \in {event_status, "CANCELLED"}
        BY <1>2, <2>2
        DEF LoseJob, Begins, CancelEvent, process_decision_deadlines, LoadEvent, ReceiveRefund,
            choose_refund, refund_now, ChooseMove, refund_view, ReceivePart
      <3>2. QED
        BY <3>1
    <2>3. QED
      BY <2>1, <2>2
  <1>3. CASE Outside
    <2>1. ASSUME NEW o \in Buyer, PayOrder(o) \/ expire_order(o) \/ UseTicket(o) PROVE Goal
      BY <2>1 DEF PayOrder, expire_order, UseTicket
    <2>2. CASE cancel_view
      BY <2>2 DEF cancel_view
    <2>3. CASE DeadlinePasses \/ UNCHANGED cancelVars
      BY <2>3 DEF DeadlinePasses, cancelVars
    <2>4. QED
      BY <1>3, <2>1, <2>2, <2>3 DEF Outside
  <1>4. QED
    BY <1>1, <1>2, <1>3, StepOf

\* Who decides, and who moves.
LEMMA DecisionsMove ==
    ASSUME [CancellationNext]_cancelVars
    PROVE  \/ decision' = decision /\ at' = at
           \/ cancel_view
           \/ \E w \in Staff : RecordRefund(w) \/ move_to_replacement(w)
  <1>1. ASSUME NEW w \in Staff, Continue(w) \/ LoseJob(w) \/ Begins(w),
               ~RecordRefund(w), ~move_to_replacement(w)
        PROVE  decision' = decision /\ at' = at
    BY <1>1 DEF Continue, LoseJob, Begins, create_order, CallOperator, Claim, Sweep, ListPaid,
                AllNotified, CheckPaid, OperatorRefuses, Refresh, Invalidate, NextDue, Notify,
                apply_partial_refund, Returns,
                CancelEvent, process_decision_deadlines, LoadEvent, ReceiveRefund,
                choose_refund, refund_now, ChooseMove, refund_view, refund_tickets, ReceivePart
  <1>2. ASSUME Outside, ~cancel_view PROVE decision' = decision /\ at' = at
    BY <1>2 DEF Outside, PayOrder, expire_order, UseTicket, DeadlinePasses, cancelVars
  <1>3. QED
    BY <1>1, <1>2, StepOf

\* Who changes the tickets of an order that is paid.
LEMMA TicketsMove ==
    ASSUME MoreTypes, IInv, [CancellationNext]_cancelVars
    PROVE  \/ /\ valid' = valid
              /\ \A o \in Buyer : status'[o] = "PAID" => status[o] = "PAID" /\ kept'[o] = kept[o]
           \/ \E o \in Buyer : PayOrder(o) \/ UseTicket(o)
           \/ \E w \in Staff : Invalidate(w) \/ apply_partial_refund(w)
  <1> USE DEF MoreTypes
  <1> DEFINE Same == /\ valid' = valid
                     /\ \A o \in Buyer : status'[o] = "PAID" => status[o] = "PAID" /\ kept'[o] = kept[o]
  <1>1. ASSUME NEW w \in Staff,
               \/ LoseJob(w) \/ Begins(w)
               \/ ListPaid(w) \/ AllNotified(w) \/ CheckPaid(w) \/ OperatorRefuses(w) \/ Refresh(w)
               \/ RecordRefund(w) \/ move_to_replacement(w) \/ NextDue(w) \/ CallOperator(w)
               \/ \E o \in Buyer : Notify(w, o)
        PROVE  Same
    <2>1. UNCHANGED <<valid, status, kept>>
      BY <1>1 DEF LoseJob, Begins, CallOperator, ListPaid,
                AllNotified, CheckPaid, OperatorRefuses, Refresh, NextDue, Notify, RecordRefund,
                CancelEvent, process_decision_deadlines, LoadEvent, ReceiveRefund,
                choose_refund, refund_now, ChooseMove, refund_view, refund_tickets, ReceivePart, move_to_replacement
    <2>2. QED
      BY <2>1
  <1>2. ASSUME NEW w \in Staff, create_order(w) PROVE Same
    BY <1>2 DEF create_order
  <1>3. ASSUME NEW w \in Staff, Claim(w) PROVE Same
    BY <1>3 DEF Claim, IInv, Types
  <1>4. ASSUME NEW w \in Staff, NEW o \in Buyer, Sweep(w, o) PROVE Same
    BY <1>4 DEF Sweep
  <1>5. ASSUME NEW o \in Buyer, expire_order(o) PROVE Same
    BY <1>5 DEF expire_order
  <1>6. CASE cancel_view \/ DeadlinePasses \/ UNCHANGED cancelVars
    BY <1>6 DEF cancel_view, DeadlinePasses, cancelVars
  <1>7. QED
    BY <1>1, <1>2, <1>3, <1>4, <1>5, <1>6, StepOf DEF Continue, Outside

LEMMA OrdersStand ==
    ASSUME IInv, MoreTypes, Amounts, Stands, [CancellationNext]_cancelVars, NEW o \in Buyer
    PROVE  OrderStands(o)'
  <1>0. /\ at \in [Buyer -> Dates] /\ decision \in [Buyer -> Decisions]
        /\ valid \in [Buyer -> Nat] /\ status \in [Buyer -> BuyerStatus]
        /\ OrderStands(o) /\ \A w \in Staff : JobStands(task[w])
    BY DEF IInv, Types, Stands, MoreTypes
  <1>1. at'[o] = "new" => status'[o] \in {"PAID", "REFUNDED"} /\ decision'[o] # "AWAITING"
    <2>1. CASE decision' = decision /\ at' = at
      BY <1>0, <2>1, OrdersMove DEF OrderStands
    <2>2. CASE cancel_view
      BY <1>0, <2>2, OrdersMove DEF OrderStands, cancel_view
    <2>3. ASSUME NEW w \in Staff, RecordRefund(w)
          PROVE at'[o] = "new" => status'[o] \in {"PAID", "REFUNDED"} /\ decision'[o] # "AWAITING"
      BY <1>0, <2>3, OrdersMove DEF OrderStands, RecordRefund
    <2>4. ASSUME NEW w \in Staff, move_to_replacement(w)
          PROVE at'[o] = "new" => status'[o] \in {"PAID", "REFUNDED"} /\ decision'[o] # "AWAITING"
      <3>1. status' = status /\ task[w].pc = "move"
        BY <2>4 DEF move_to_replacement
      <3>2. status[task[w].order] \in {"PAID", "REFUNDED"}
        BY <1>0, <3>1 DEF JobStands
      <3>3. QED
        BY <1>0, <2>4, <3>1, <3>2 DEF OrderStands, move_to_replacement
    <2>5. QED
      BY <2>1, <2>2, <2>3, <2>4, DecisionsMove
  <1>2. decision'[o] # "NONE" => event_status' = "CANCELLED"
    <2>1. CASE decision' = decision /\ at' = at
      BY <1>0, <2>1, OrdersMove DEF OrderStands
    <2>2. CASE cancel_view
      BY <2>2 DEF cancel_view
    <2>3. ASSUME NEW w \in Staff, RecordRefund(w) PROVE event_status' = "CANCELLED"
      <3>1. task[w].pc \in {"requested", "failed"}
        BY <2>3 DEF RecordRefund
      <3>2. event_status = "CANCELLED"
        BY <1>0, <3>1 DEF JobStands, KindOfStep, OnPage
      <3>3. QED
        BY <3>2, OrdersMove
    <2>4. ASSUME NEW w \in Staff, move_to_replacement(w) PROVE event_status' = "CANCELLED"
      <3>1. task[w].pc = "move"
        BY <2>4 DEF move_to_replacement
      <3>2. event_status = "CANCELLED"
        BY <1>0, <3>1 DEF JobStands, KindOfStep, OnPage
      <3>3. QED
        BY <3>2, OrdersMove
    <2>5. QED
      BY <2>1, <2>2, <2>3, <2>4, DecisionsMove
  <1>3. (used' = {} /\ status'[o] = "PAID") => valid'[o] = kept'[o]
    <2>0. used' = {} => used = {}
      BY OrdersMove
    <2>1. CASE /\ valid' = valid
               /\ \A x \in Buyer : status'[x] = "PAID" => status[x] = "PAID" /\ kept'[x] = kept[x]
      BY <1>0, <2>0, <2>1 DEF OrderStands
    <2>2. ASSUME NEW x \in Buyer, PayOrder(x)
          PROVE  (used' = {} /\ status'[o] = "PAID") => valid'[o] = kept'[o]
      <3>1. kept[x] = Quantity[x] /\ kept' = kept
        BY <2>2 DEF PayOrder, Amounts, AmountsOf
      <3>2. QED
        BY <1>0, <2>2, <3>1 DEF OrderStands, PayOrder
    <2>3. ASSUME NEW x \in Buyer, UseTicket(x) PROVE used' # {}
      BY <2>3 DEF UseTicket
    <2>4. ASSUME NEW w \in Staff, Invalidate(w)
          PROVE  (used' = {} /\ status'[o] = "PAID") => valid'[o] = kept'[o]
      <3>1. status' = status /\ kept' = kept /\ task[w].pc = "tickets"
        BY <2>4 DEF Invalidate
      <3>2. status[task[w].order] = "REFUNDED"
        BY <1>0, <3>1 DEF JobStands
      <3>3. QED
        BY <1>0, <2>0, <2>4, <3>1, <3>2 DEF OrderStands, Invalidate
    <2>5. ASSUME NEW w \in Staff, apply_partial_refund(w), used' = {}, status'[o] = "PAID"
          PROVE  valid'[o] = kept'[o]
      <3>1. /\ task[w].order \in Buyer /\ task[w].n \in Nat /\ kept \in [Buyer -> Int]
            /\ kept[o] \in Int /\ asked[o] \in Nat /\ asked[o] <= kept[o] /\ used = {}
        BY <2>0, <2>5, OrderOfJob DEF apply_partial_refund, IInv, Types, Amounts, AmountsOf
      <3>2. CASE task[w].order = o /\ asked[o] = task[w].n
        <4>1. /\ kept'[o] = kept[o] - task[w].n
              /\ valid'[o] = IF valid[o] < task[w].n THEN 0 ELSE valid[o] - task[w].n
              /\ status[o] = "PAID"
          BY <1>0, <2>5, <3>1, <3>2 DEF apply_partial_refund
        <4>2. valid[o] = kept[o]
          BY <1>0, <3>1, <4>1 DEF OrderStands
        <4>3. QED
          BY <3>1, <3>2, <4>1, <4>2
      <3>3. CASE ~(task[w].order = o /\ asked[o] = task[w].n)
        <4>1. kept'[o] = kept[o] /\ valid'[o] = valid[o] /\ status'[o] = status[o]
          BY <1>0, <2>5, <3>1, <3>3 DEF apply_partial_refund
        <4>2. QED
          BY <1>0, <2>5, <3>1, <4>1 DEF OrderStands
      <3>4. QED
        BY <3>2, <3>3
    <2>6. QED
      BY <2>1, <2>2, <2>3, <2>4, <2>5, TicketsMove
  <1>4. decision'[o] = "REFUND_REQUESTED" => o \in returned'
    <2>0. returned \subseteq returned'
      BY OrdersMove
    <2>1. CASE decision' = decision /\ at' = at
      BY <1>0, <2>0, <2>1 DEF OrderStands
    <2>2. CASE cancel_view
      BY <1>0, <2>0, <2>2 DEF OrderStands, cancel_view
    <2>3. ASSUME NEW w \in Staff, RecordRefund(w)
          PROVE  decision'[o] = "REFUND_REQUESTED" => o \in returned'
      <3>1. task[w].pc = "requested" => task[w].order \in returned
        BY <1>0 DEF JobStands, KindOfStep, OnPage
      <3>2. QED
        BY <1>0, <2>0, <2>3, <3>1 DEF OrderStands, RecordRefund
    <2>4. ASSUME NEW w \in Staff, move_to_replacement(w)
          PROVE  decision'[o] = "REFUND_REQUESTED" => o \in returned'
      BY <1>0, <2>0, <2>4 DEF OrderStands, move_to_replacement
    <2>5. QED
      BY <2>1, <2>2, <2>3, <2>4, DecisionsMove
  <1>5. QED
    BY <1>1, <1>2, <1>3, <1>4 DEF OrderStands

\* What a job knows is not undone by others.
LEMMA JobRests ==
    ASSUME IInv, MoreTypes, [CancellationNext]_cancelVars,
           NEW v \in Staff, JobStands(task[v]), task'[v] = task[v]
    PROVE  JobStands(task[v])'
  <1>1. task[v].pc \in {"move", "tickets"} => task[v].order \in Buyer
    BY OrderOfJob
  <1>2. KindOfStep(task'[v])
    BY DEF JobStands
  <1>3. QED
    BY <1>1, <1>2, OrdersMove DEF JobStands

LEMMA BlankStands == KindOfStep(NoTask) /\ NoTask.pc = "idle"
  BY BlankFits DEF KindOfStep

LEMMA JobEnds ==
    ASSUME NEW w \in Staff, task'[w] = NoTask
    PROVE  JobStands(task[w])'
  BY BlankStands DEF JobStands

LEMMA JobBeginsStands ==
    ASSUME IInv, MoreTypes, Stands, [CancellationNext]_cancelVars, NEW w \in Staff, Begins(w)
    PROVE  JobStands(task[w])'
  <1>0. \A o \in Buyer : OrderStands(o)
    BY DEF Stands
  <1>1. CASE CancelEvent(w)
    <2>1. event_status' = "CANCELLED"
      BY <1>1 DEF CancelEvent
    <2>2. QED
      BY <1>1, <2>1, JobBegins DEF BeginsAs, JobStands, KindOfStep, OnPage
  <1>2. CASE process_decision_deadlines(w)
    <2>1. event_status' = "CANCELLED"
      BY <1>0, <1>2, OrdersMove DEF process_decision_deadlines, Due, OrderStands
    <2>2. QED
      BY <1>2, <2>1, JobBegins DEF BeginsAs, JobStands, KindOfStep, OnPage
  <1>3. ASSUME NEW o \in Buyer, LoadEvent(w, o) PROVE JobStands(task[w])'
    BY <1>3, JobBegins DEF BeginsAs, JobStands, KindOfStep, OnPage
  <1>4. ASSUME NEW o \in Buyer, ReceiveRefund(w, o) PROVE JobStands(task[w])'
    BY <1>4, JobBegins DEF BeginsAs, JobStands, KindOfStep, OnPage
  <1>5. ASSUME NEW o \in Buyer, choose_refund(w, o) \/ refund_now(w, o) PROVE JobStands(task[w])'
    <2>1. decision[o] # "NONE"
      BY <1>5 DEF choose_refund, refund_now
    <2>2. event_status' = "CANCELLED"
      BY <1>0, <2>1, OrdersMove DEF OrderStands
    <2>3. QED
      BY <1>5, <2>2, JobBegins DEF BeginsAs, JobStands, KindOfStep, OnPage
  <1>6. ASSUME NEW o \in Buyer, ChooseMove(w, o) PROVE JobStands(task[w])'
    <2>1. decision[o] # "NONE" /\ status[o] = "PAID" /\ status' = status
      BY <1>6 DEF ChooseMove
    <2>2. event_status' = "CANCELLED"
      BY <1>0, <2>1, OrdersMove DEF OrderStands
    <2>3. QED
      BY <1>6, <2>1, <2>2, JobBegins DEF BeginsAs, JobStands, KindOfStep, OnPage
  <1>7. ASSUME NEW o \in Buyer, refund_view(w, o) \/ ReceivePart(w, o) PROVE JobStands(task[w])'
    BY <1>7, JobBegins DEF BeginsAs, JobStands, KindOfStep, OnPage
  <1>8. ASSUME NEW o \in Buyer, refund_tickets(w, o) PROVE JobStands(task[w])'
    <2>1. CASE task'[w] = task[w]
      BY <2>1, JobRests DEF Stands
    <2>2. CASE BeginsAs(w, "handle", "page", {}) /\ task'[w].order = o
      BY <2>2 DEF BeginsAs, JobStands, KindOfStep, OnPage
    <2>3. QED
      BY <1>8, <2>1, <2>2, JobBegins
  <1>9. QED
    BY <1>1, <1>2, <1>3, <1>4, <1>5, <1>6, <1>7, <1>8 DEF Begins

LEMMA JobGoesOnStands ==
    ASSUME IInv, MoreTypes, Stands, [CancellationNext]_cancelVars, NEW w \in Staff, Continue(w)
    PROVE  JobStands(task[w])'
  <1>0. JobStands(task[w]) /\ returned \subseteq returned'
        /\ (event_status = "CANCELLED" => event_status' = "CANCELLED")
    BY OrdersMove DEF Stands
  <1>1. CASE create_order(w) \/ AllNotified(w) \/ move_to_replacement(w) \/ apply_partial_refund(w)
    BY <1>1, JobAfter, JobEnds
  <1>2. CASE CheckPaid(w) \/ OperatorRefuses(w)
    <2>1. CASE task'[w] = NoTask
      BY <2>1, JobEnds
    <2>2. CASE task'[w] # NoTask
      BY <1>0, <1>2, <2>2, JobAfter DEF JobStands, KindOfStep, Keeps, JobAnswers, OnPage
    <2>3. QED
      BY <2>1, <2>2
  <1>3. CASE CallOperator(w)
    <2>1. task[w].order \in returned'
      BY <1>3 DEF CallOperator, Returns
    <2>2. CASE task'[w] = NoTask
      BY <2>2, JobEnds
    <2>3. CASE task'[w] # NoTask
      BY <1>0, <1>3, <2>1, <2>3, JobAfter DEF JobStands, KindOfStep, Keeps, JobAnswers, OnPage
    <2>4. QED
      BY <2>2, <2>3
  <1>4. CASE Refresh(w)
    BY <1>0, <1>4, JobAfter DEF JobStands, KindOfStep, OnPage
  <1>5. CASE Claim(w)
    <2>1. CASE task'[w] = NoTask
      BY <2>1, JobEnds
    <2>2. CASE task'[w].pc = "requested" /\ Keeps(w) /\ task[w].kind \notin OnPage
      BY <1>0, <1>5, <2>2, JobAfter DEF JobStands, KindOfStep, Keeps, OnPage
    <2>3. CASE task'[w].pc = "tickets" /\ Keeps(w) /\ status[task[w].order] = "PAID"
      <3>1. task[w].pc = "claim" /\ task[w].order \in Buyer
        BY <1>5, OrderOfJob DEF Claim
      <3>2. status'[task[w].order] = "REFUNDED"
        BY <1>5, <2>3, <3>1 DEF Claim, MoreTypes
      <3>3. QED
        BY <1>0, <2>3, <3>1, <3>2 DEF JobStands, KindOfStep, Keeps, OnPage
    <2>4. QED
      BY <1>5, <2>1, <2>2, <2>3, JobAfter DEF JobAnswers
  <1>6. CASE Invalidate(w)
    <2>1. CASE task'[w] = NoTask
      BY <2>1, JobEnds
    <2>2. CASE task'[w].pc = "requested" /\ Keeps(w) /\ task[w].kind \notin OnPage
      BY <1>0, <1>6, <2>2, JobAfter DEF JobStands, KindOfStep, Keeps, OnPage
    <2>3. QED
      BY <1>6, <2>1, <2>2, JobAfter DEF JobAnswers
  <1>7. CASE RecordRefund(w)
    <2>1. CASE task'[w] = NoTask
      BY <2>1, JobEnds
    <2>2. CASE /\ task[w].pc \in {"requested", "failed"} /\ task[w].kind # "one" /\ Keeps(w)
               /\ task'[w].pc = IF task[w].kind = "cancel" THEN "notify" ELSE "next"
      <3>1. task[w].kind \in {"one", "cancel", "deadline", "webhook", "page"}
        BY DEF IInv, Types, Task, Kinds
      <3>2. QED
        BY <1>0, <2>2, <3>1 DEF JobStands, KindOfStep, Keeps, OnPage
    <2>3. QED
      BY <1>7, <2>1, <2>2, JobAfter
  <1>8. CASE NextDue(w) \/ \E o \in Buyer : Notify(w, o)
    <2>1. CASE task'[w] = NoTask
      BY <2>1, JobEnds
    <2>2. CASE Takes(w) /\ task[w].pc \in {"next", "notify"}
      BY <1>0, <2>2 DEF JobStands, KindOfStep, Takes, OnPage
    <2>3. QED
      BY <1>8, <2>1, <2>2, JobTakes
  <1>9. ASSUME NEW o \in Buyer, Sweep(w, o) PROVE JobStands(task[w])'
    BY <1>0, <1>9, JobTakes DEF JobStands, KindOfStep, OnPage
  <1>10. CASE ListPaid(w)
    BY <1>0, <1>10, JobTakes DEF JobStands, KindOfStep, OnPage
  <1>11. QED
    BY <1>1, <1>2, <1>3, <1>4, <1>5, <1>6, <1>7, <1>8, <1>9, <1>10 DEF Continue

LEMMA StandsStep ==
    IInv /\ MoreTypes /\ Amounts /\ Stands /\ [CancellationNext]_cancelVars => Stands'
  <1> SUFFICES ASSUME IInv, MoreTypes, Amounts, Stands, [CancellationNext]_cancelVars PROVE Stands'
    OBVIOUS
  <1>1. \A o \in Buyer : OrderStands(o)'
    BY OrdersStand
  <1>2. ASSUME NEW v \in Staff PROVE JobStands(task[v])'
    <2>0. JobStands(task[v])
      BY DEF Stands
    <2>1. CASE Outside
      BY <2>0, <2>1, OutsideJobs, JobRests
    <2>2. ASSUME NEW w \in Staff, Continue(w) \/ LoseJob(w) \/ Begins(w), w # v
          PROVE  JobStands(task[v])'
      BY <2>0, <2>2, OthersRest, JobRests
    <2>3. CASE Continue(v)
      BY <2>3, JobGoesOnStands
    <2>4. CASE LoseJob(v)
      BY <2>4, JobAfter, JobEnds
    <2>5. CASE Begins(v)
      BY <2>5, JobBeginsStands
    <2>6. QED
      BY <2>1, <2>2, <2>3, <2>4, <2>5, StepOf
  <1>3. QED
    BY <1>1, <1>2 DEF Stands

LEMMA InitStands == CancellationInit => Stands
  <1> SUFFICES ASSUME CancellationInit PROVE Stands
    OBVIOUS
  <1>1. ASSUME NEW o \in Buyer PROVE OrderStands(o)
    BY DEF CancellationInit, OrderStands
  <1>2. ASSUME NEW w \in Staff PROVE JobStands(task[w])
    BY BlankStands DEF CancellationInit, JobStands
  <1>3. QED
    BY <1>1, <1>2 DEF Stands

-----------------------------------------------------------------------------
(* Jobs that run one at a time.                                            *)

LEMMA ConcurrentIsFixed == ASSUME [CancellationNext]_cancelVars PROVE concurrent' = concurrent
  <1>1. ASSUME NEW w \in Staff, Continue(w) \/ LoseJob(w) \/ Begins(w)
        PROVE  concurrent' = concurrent
    BY <1>1 DEF Continue, LoseJob, Begins, create_order, CallOperator, Claim, Sweep, ListPaid,
                AllNotified, CheckPaid, OperatorRefuses, Refresh, Invalidate, NextDue, Notify,
                apply_partial_refund, Returns,
                CancelEvent, process_decision_deadlines, LoadEvent, ReceiveRefund,
                choose_refund, refund_now, ChooseMove, refund_view, refund_tickets, ReceivePart, RecordRefund, move_to_replacement
  <1>2. QED
    BY <1>1, OutsideJobs, StepOf

\* A job that acts was alone at work, or nobody was and it begins.
LEMMA ActsAlone ==
    ASSUME IInv, Alone, ~concurrent, NEW w \in Staff, Continue(w) \/ LoseJob(w) \/ Begins(w)
    PROVE  \A v \in Staff \ {w} : task[v].pc = "idle" /\ task'[v].pc = "idle"
  <1>1. CASE Begins(w)
    <2>1. \A v \in Staff : task[v].pc = "idle"
      BY <1>1, JobBegins DEF BeginsAs, Begins
    <2>2. QED
      BY <2>1, OthersRest
  <1>2. CASE Continue(w) \/ LoseJob(w)
    <2>1. task[w].pc # "idle"
      BY <1>2, JobTakes, JobAfter
      DEF Continue, LoseJob, create_order, AllNotified, move_to_replacement
    <2>2. QED
      BY <2>1, OthersRest DEF Alone
  <1>3. QED
    BY <1>1, <1>2

LEMMA BlankKnows == ASSUME NEW w \in Staff, task[w].pc = "idle" PROVE AloneKnows(task[w])
  BY DEF AloneKnows

LEMMA SerialStep ==
    ASSUME IInv, MoreTypes, Stands, Serial, [CancellationNext]_cancelVars
    PROVE  Serial'
  <1> SUFFICES ASSUME ~concurrent, Alone, \A w \in Staff : AloneKnows(task[w])
               PROVE  Alone' /\ \A w \in Staff : AloneKnows(task[w])'
    BY ConcurrentIsFixed DEF Serial
  <1>1. CASE Outside
    <2>0. used' = {} => used = {}
      BY OrdersMove
    <2>1. task' = task /\ at' = at /\ kept' = kept
      BY <1>1, OutsideJobs
      DEF Outside, PayOrder, expire_order, UseTicket, cancel_view, DeadlinePasses, cancelVars
    <2>2. Alone'
      BY <2>1 DEF Alone
    <2>3. ASSUME NEW v \in Staff PROVE AloneKnows(task[v])'
      <3>1. CASE task[v].pc = "move"
        <4>1. task[v].order \in Buyer /\ status[task[v].order] = "PAID"
          BY <3>1, OrderOfJob DEF AloneKnows
        <4>2. status'[task[v].order] = "PAID"
          <5>1. CASE cancel_view
            BY <1>1, <3>1, <5>1 DEF cancel_view
          <5>2. ASSUME NEW o \in Buyer, PayOrder(o) \/ expire_order(o) \/ UseTicket(o)
                PROVE  status'[task[v].order] = "PAID"
            BY <4>1, <5>2 DEF PayOrder, expire_order, UseTicket, MoreTypes
          <5>3. CASE DeadlinePasses \/ UNCHANGED cancelVars
            BY <4>1, <5>3 DEF DeadlinePasses, cancelVars
          <5>4. QED
            BY <1>1, <5>1, <5>2, <5>3 DEF Outside
        <4>3. QED
          BY <2>0, <2>1, <3>1, <4>2 DEF AloneKnows
      <3>2. CASE task[v].pc # "move"
        BY <2>1, <3>2 DEF AloneKnows
      <3>3. QED
        BY <3>1, <3>2
    <2>4. QED
      BY <2>2, <2>3
  <1>2. ASSUME NEW w \in Staff, Continue(w) \/ LoseJob(w) \/ Begins(w)
        PROVE  Alone' /\ \A v \in Staff : AloneKnows(task[v])'
    <2>1. \A v \in Staff \ {w} : task[v].pc = "idle" /\ task'[v].pc = "idle"
      BY <1>2, ActsAlone
    <2>2. Alone'
      BY <2>1 DEF Alone
    <2>3. ASSUME task'[w].pc = "claim"
          PROVE  task'[w].seen = at'[task'[w].order] /\ task'[w].held = kept'[task'[w].order]
      <3>1. Refresh(w)
        BY <1>2, <2>3, JobAfter, JobTakes, JobBegins, BlankFits
        DEF Continue, Begins, BeginsAs, Takes, JobAnswers
      <3>2. QED
        BY <3>1, JobAfter DEF Refresh
    <2>4. ASSUME task'[w].pc = "move"
          PROVE  /\ status'[task'[w].order] = "PAID"
                 /\ used' = {} => task'[w].n = kept'[task'[w].order]
      <3>1. PICK o \in Buyer : ChooseMove(w, o)
        BY <1>2, <2>4, JobAfter, JobTakes, JobBegins, BlankFits
        DEF Continue, Begins, BeginsAs, Takes, JobAnswers
      <3>2. /\ task'[w].order = o /\ task'[w].n = valid[o]
            /\ status[o] = "PAID" /\ UNCHANGED <<used, status, kept>>
        BY <3>1, JobBegins DEF ChooseMove
      <3>3. used = {} => valid[o] = kept[o]
        BY <3>2 DEF Stands, OrderStands
      <3>4. QED
        BY <3>2, <3>3
    <2>5. ASSUME NEW v \in Staff PROVE AloneKnows(task[v])'
      BY <2>1, <2>3, <2>4 DEF AloneKnows
    <2>6. QED
      BY <2>2, <2>5
  <1>3. QED
    BY <1>1, <1>2, StepOf

LEMMA InitSerial == CancellationInit => Serial
  <1> SUFFICES ASSUME CancellationInit PROVE Serial
    OBVIOUS
  <1>1. \A w \in Staff : task[w].pc = "idle"
    BY BlankFits DEF CancellationInit
  <1>2. QED
    BY <1>1, BlankKnows DEF Serial, Alone

-----------------------------------------------------------------------------
(* The money.                                                              *)

LEMMA LostOnlyGrows ==
    ASSUME IInv, MoreTypes, [CancellationNext]_cancelVars, lost' = 0
    PROVE  lost = 0 /\ \A w \in Staff : ~LoseJob(w)
  <1>1. lost \in Nat
    BY BuyersAssumption DEF MoreTypes
  <1>2. ASSUME NEW w \in Staff, LoseJob(w) PROVE FALSE
    BY <1>1, <1>2 DEF LoseJob
  <1>3. ASSUME NEW w \in Staff, Continue(w) \/ Begins(w) PROVE lost' = lost
    BY <1>3 DEF Continue, Begins, create_order, CallOperator, Claim, Sweep, ListPaid,
                AllNotified, CheckPaid, OperatorRefuses, Refresh, Invalidate, NextDue, Notify,
                apply_partial_refund, Returns,
                CancelEvent, process_decision_deadlines, LoadEvent, ReceiveRefund,
                choose_refund, refund_now, ChooseMove, refund_view, refund_tickets, ReceivePart, RecordRefund, move_to_replacement
  <1>4. QED
    BY <1>2, <1>3, OutsideJobs, StepOf

\* Who returns money.
LEMMA ReturnsMove ==
    ASSUME [CancellationNext]_cancelVars
    PROVE  \/ returned' = returned /\ by_hand' = by_hand
           \/ \E w \in Staff : CallOperator(w) \/ \E o \in Buyer : refund_tickets(w, o)
  <1>1. ASSUME NEW w \in Staff, Continue(w) \/ LoseJob(w) \/ Begins(w), ~CallOperator(w),
               \A o \in Buyer : ~refund_tickets(w, o)
        PROVE  returned' = returned /\ by_hand' = by_hand
    BY <1>1 DEF Continue, LoseJob, Begins, create_order, Claim, Sweep, ListPaid,
                AllNotified, CheckPaid, OperatorRefuses, Refresh, Invalidate, NextDue, Notify,
                apply_partial_refund,
                CancelEvent, process_decision_deadlines, LoadEvent, ReceiveRefund,
                choose_refund, refund_now, ChooseMove, refund_view, ReceivePart, RecordRefund, move_to_replacement
  <1>2. CASE Outside
    BY <1>2 DEF Outside, PayOrder, expire_order, UseTicket, cancel_view, DeadlinePasses, cancelVars
  <1>3. QED
    BY <1>1, <1>2, StepOf

\* A job that is idle has nothing to do.
LEMMA IdleIsClean == ASSUME NEW w \in Staff, JobStands(task[w]), task[w].pc = "idle" PROVE Clean(task[w])
  BY DEF JobStands, KindOfStep, Clean

\* With all jobs idle, the returned money is on record.
LEMMA AllIdle ==
    ASSUME Recorded, \A w \in Staff : task[w].pc = "idle"
    PROVE  \A o \in returned \ by_hand : decision[o] = "REFUND_REQUESTED"
  BY DEF Recorded, Returning

LEMMA OutsideMoney ==
    ASSUME IInv, MoreTypes, Stands, ~concurrent, Alone, Recorded,
           \A w \in Staff : Clean(task[w]), Outside
    PROVE  Recorded' /\ \A w \in Staff : Clean(task[w])'
  <1>1. task' = task /\ returned' = returned /\ by_hand' = by_hand
    BY OutsideJobs
    DEF Outside, PayOrder, expire_order, UseTicket, cancel_view, DeadlinePasses, cancelVars
  <1>2. CASE cancel_view
    <2>1. \A w \in Staff : task[w].pc = "idle"
      BY <1>2 DEF cancel_view
    <2>2. \A o \in Buyer : decision[o] = "NONE"
      BY <1>2 DEF cancel_view, Stands, OrderStands
    <2>3. returned \ by_hand = {}
      BY <2>1, <2>2, AllIdle DEF IInv, Types
    <2>4. Recorded'
      BY <1>1, <2>3 DEF Recorded
    <2>5. ASSUME NEW w \in Staff PROVE Clean(task[w])'
      BY <1>1, <2>1 DEF Stands, JobStands, KindOfStep, Clean
    <2>6. QED
      BY <2>4, <2>5
  <1>3. CASE ~cancel_view
    <2>1. decision' = decision
      BY <1>3 DEF Outside, PayOrder, expire_order, UseTicket, DeadlinePasses, cancelVars
    <2>2. QED
      BY <1>1, <2>1 DEF Recorded, Returning, Clean
  <1>4. QED
    BY <1>2, <1>3

LEMMA BeginsMoney ==
    ASSUME IInv, MoreTypes, Stands, ~concurrent, Recorded, NEW w \in Staff, Begins(w)
    PROVE  Recorded' /\ Clean(task[w])'
  <1>1. \A v \in Staff : task[v].pc = "idle"
    BY JobBegins DEF Begins, BeginsAs
  <1>2. decision' = decision /\ returned' \ by_hand' \subseteq returned \ by_hand
    <2>1. ASSUME NEW o \in Buyer, refund_tickets(w, o)
          PROVE  decision' = decision /\ returned' \ by_hand' \subseteq returned \ by_hand
      BY <2>1 DEF refund_tickets
    <2>2. QED
      BY <2>1
      DEF Begins, CancelEvent, process_decision_deadlines, LoadEvent, ReceiveRefund,
          choose_refund, refund_now, ChooseMove, refund_view, ReceivePart
  <1>3. \A o \in returned \ by_hand : decision[o] = "REFUND_REQUESTED"
    BY <1>1, AllIdle
  <1>4. Recorded'
    BY <1>2, <1>3 DEF Recorded
  <1>5. CASE CancelEvent(w)
    <2>1. \A o \in Buyer : decision[o] = "NONE"
      BY <1>5 DEF CancelEvent, Stands, OrderStands
    <2>2. task'[w].pc = "sweep"
      BY <1>5, JobBegins DEF BeginsAs
    <2>3. QED
      BY <1>2, <1>4, <2>1, <2>2 DEF Clean
  <1>6. CASE process_decision_deadlines(w)
    <2>1. task'[w].pc = "next" /\ task'[w].todo = Due
      BY <1>6, JobBegins DEF BeginsAs
    <2>2. \A o \in Due : decision[o] = "AWAITING"
      BY DEF Due
    <2>3. QED
      BY <1>2, <1>4, <2>1, <2>2 DEF Clean
  <1>7. ASSUME NEW o \in Buyer, LoadEvent(w, o) \/ ReceiveRefund(w, o) \/ ReceivePart(w, o)
        PROVE  Clean(task[w])'
    <2>1. task'[w].pc \in {"buy", "handle"} /\ task'[w].todo = {}
      BY <1>7, JobBegins DEF BeginsAs
    <2>2. QED
      BY <2>1 DEF Clean
  <1>10. ASSUME NEW o \in Buyer, refund_view(w, o) \/ refund_tickets(w, o) PROVE Clean(task[w])'
    <2>1. \/ task'[w].pc \in {"refund", "handle"} /\ task'[w].kind = "page" /\ task'[w].todo = {}
          \/ task'[w] = task[w] /\ task[w].pc = "idle" /\ task[w].todo = {}
      BY <1>10, JobBegins DEF BeginsAs, Stands, JobStands, KindOfStep
    <2>2. QED
      BY <2>1 DEF Clean, OnPage
  <1>8. ASSUME NEW o \in Buyer, choose_refund(w, o) \/ refund_now(w, o) \/ ChooseMove(w, o)
        PROVE  Clean(task[w])'
    <2>1. task'[w].pc \in {"refund", "move"} /\ task'[w].todo = {} /\ task'[w].order = o
      BY <1>8, JobBegins DEF BeginsAs
    <2>2. decision[o] # "REFUND_REQUESTED"
      BY <1>8 DEF choose_refund, refund_now, ChooseMove
    <2>3. o \notin returned \ by_hand
      BY <1>3, <2>2
    <2>4. QED
      BY <1>2, <2>1, <2>2, <2>3 DEF Clean
  <1>9. QED
    BY <1>4, <1>5, <1>6, <1>7, <1>8, <1>10 DEF Begins

\* Only the job at work is returning money.
LEMMA ReturnedByOne ==
    ASSUME Recorded, NEW w \in Staff, \A v \in Staff \ {w} : task[v].pc = "idle",
           NEW o \in returned \ by_hand
    PROVE  decision[o] = "REFUND_REQUESTED" \/ Returning(task[w], o)
  BY DEF Recorded, Returning

LEMMA ContinueMoney ==
    ASSUME IInv, MoreTypes, Stands, Recorded, NEW w \in Staff, Clean(task[w]), Continue(w),
           \A v \in Staff \ {w} : task[v].pc = "idle"
    PROVE  Recorded' /\ Clean(task[w])'
  <1> DEFINE Goal == Recorded' /\ Clean(task[w])'
  <1>0. /\ JobStands(task[w]) /\ decision \in [Buyer -> Decisions] /\ returned \subseteq Buyer
        /\ task[w].todo \subseteq Buyer
    BY DEF Stands, IInv, Types, Task
  <1>1. ASSUME NEW o \in returned \ by_hand
        PROVE  decision[o] = "REFUND_REQUESTED" \/ Returning(task[w], o)
    BY <1>1, ReturnedByOne
  <1>2. ASSUME task'[w] = NoTask PROVE Clean(task[w])'
    BY <1>2, BlankFits DEF Clean
  <1>3. ASSUME UNCHANGED <<decision, returned, by_hand>>,
               task[w].pc \notin {"handle", "claim", "tickets", "requested"}
        PROVE  Recorded'
    <2>1. \A o \in returned \ by_hand : decision[o] = "REFUND_REQUESTED"
      BY <1>1, <1>3 DEF Returning
    <2>2. QED
      BY <1>3, <2>1 DEF Recorded
  <1>4. CASE create_order(w) \/ AllNotified(w)
    <2>1. UNCHANGED <<decision, returned, by_hand>> /\ task[w].pc \in {"buy", "notify"}
      BY <1>4 DEF create_order, AllNotified
    <2>2. QED
      BY <1>2, <1>3, <1>4, <2>1, JobAfter
  <1>5. CASE CheckPaid(w) \/ OperatorRefuses(w)
    <2>1. UNCHANGED <<decision, returned, by_hand>> /\ task[w].pc \in {"refund", "operator"}
      BY <1>5 DEF CheckPaid, OperatorRefuses
    <2>2. \/ task'[w].pc \in {"operator", "failed"} /\ Keeps(w)
          \/ task'[w] = NoTask
      BY <1>5, JobAfter DEF JobAnswers
    <2>3. Clean(task[w])'
      BY <1>2, <2>1, <2>2 DEF Clean, Keeps
    <2>4. QED
      BY <1>3, <2>1, <2>3
  <1>6. CASE CallOperator(w)
    <2>1. /\ decision' = decision /\ task[w].pc = "operator"
          /\ returned' = returned \cup {task[w].order}
          /\ by_hand \subseteq by_hand' /\ by_hand' \subseteq by_hand \cup {task[w].order}
          /\ task[w].kind = "page" => task[w].order \in by_hand'
      BY <1>6 DEF CallOperator, Returns
    <2>2. task[w].kind # "webhook"
      BY <1>0, <2>1 DEF JobStands, KindOfStep
    <2>3. \A o \in returned \ by_hand : decision[o] = "REFUND_REQUESTED"
      BY <1>1, <2>1 DEF Returning
    <2>4. CASE task[w].kind = "page"
      <3>1. Recorded'
        BY <2>1, <2>3, <2>4 DEF Recorded
      <3>2. Clean(task[w])'
        <4>1. \/ task'[w].pc = "handle" /\ Keeps(w)
              \/ task'[w] = NoTask
          BY <1>6, <2>4, JobAfter DEF JobAnswers, OnPage
        <4>2. QED
          BY <1>2, <2>1, <4>1 DEF Clean, Keeps
      <3>3. QED
        BY <3>1, <3>2
    <2>5. CASE task[w].kind # "page"
      <3>1. task'[w].pc \in {"handle", "requested"} /\ Keeps(w) /\ task[w].kind \notin OnPage
        BY <1>6, <2>2, <2>5, JobAfter DEF JobAnswers, OnPage
      <3>2. Returning(task'[w], task[w].order)
        BY <3>1 DEF Returning, Keeps
      <3>3. Recorded'
        BY <2>1, <2>3, <3>2 DEF Recorded
      <3>4. Clean(task[w])'
        BY <2>1, <3>1 DEF Clean, Keeps
      <3>5. QED
        BY <3>3, <3>4
    <2>6. QED
      BY <2>4, <2>5
  <1>7. CASE Refresh(w) \/ Claim(w) \/ Invalidate(w) \/ apply_partial_refund(w)
    <2>1. UNCHANGED <<decision, returned, by_hand>> /\ task[w].pc \in {"handle", "claim", "tickets"}
      BY <1>7 DEF Refresh, Claim, Invalidate, apply_partial_refund
    <2>2. CASE apply_partial_refund(w)
      <3>1. task[w].n > 0 /\ task[w].kind \in OnPage
        <4>1. task[w].n > 0 /\ task[w].pc = "claim"
          BY <2>2 DEF apply_partial_refund
        <4>2. QED
          BY <1>0, <4>1 DEF JobStands, KindOfStep
      <3>2. \A o \in returned \ by_hand : decision[o] = "REFUND_REQUESTED"
        BY <1>1, <3>1 DEF Returning
      <3>3. Recorded'
        BY <2>1, <3>2 DEF Recorded
      <3>4. QED
        BY <1>2, <2>2, <3>3, JobAfter
    <2>3. CASE ~apply_partial_refund(w)
      <3>1. \/ task[w].kind \in OnPage /\ task'[w] = NoTask
            \/ /\ task'[w].pc \in {"claim", "tickets", "requested"} /\ task'[w].kind = task[w].kind
               /\ task'[w].order = task[w].order /\ task'[w].todo = task[w].todo
        BY <1>7, <2>3, JobAfter DEF Keeps, JobAnswers
      <3>2. ASSUME NEW o \in returned \ by_hand
            PROVE  decision[o] = "REFUND_REQUESTED" \/ Returning(task'[w], o)
        BY <1>1, <3>1, <3>2 DEF Returning
      <3>3. Recorded'
        BY <2>1, <3>2 DEF Recorded
      <3>4. Clean(task[w])'
        BY <1>2, <2>1, <3>1 DEF Clean
      <3>5. QED
        BY <3>3, <3>4
    <2>4. QED
      BY <2>2, <2>3
  <1>8. CASE RecordRefund(w)
    <2>1. /\ returned' = returned /\ by_hand' = by_hand /\ task[w].pc \in {"requested", "failed"}
          /\ task[w].order \in Buyer /\ task[w].kind \notin OnPage
      BY <1>0, <1>8, OrderOfJob DEF RecordRefund, JobStands, KindOfStep, OnPage
    <2>2. \A o \in Buyer : o # task[w].order => decision'[o] = decision[o]
      BY <1>0, <1>8, <2>1 DEF RecordRefund
    <2>3. task[w].pc = "requested" => decision'[task[w].order] = "REFUND_REQUESTED"
      BY <1>0, <1>8, <2>1 DEF RecordRefund
    <2>4. task[w].pc = "failed" => task[w].order \notin returned \ by_hand
      BY <2>1 DEF Clean
    <2>5. ASSUME NEW o \in returned \ by_hand PROVE decision'[o] = "REFUND_REQUESTED"
      <3>1. CASE o = task[w].order
        BY <2>1, <2>3, <2>4, <3>1
      <3>2. CASE o # task[w].order
        BY <1>0, <1>1, <2>2, <3>2 DEF Returning
      <3>3. QED
        BY <3>1, <3>2
    <2>6. Recorded'
      BY <2>1, <2>5 DEF Recorded
    <2>7. Clean(task[w])'
      <3>1. CASE task'[w] = NoTask
        BY <1>2, <3>1
      <3>2. CASE task'[w].pc \in {"notify", "next"} /\ task'[w].todo = task[w].todo
        <4>1. task[w].order \notin task[w].todo
          BY <1>0, <2>1 DEF JobStands
        <4>2. \A o \in task[w].todo : decision'[o] # "REFUND_REQUESTED"
          BY <1>0, <2>1, <2>2, <4>1 DEF Clean
        <4>3. QED
          BY <3>2, <4>2 DEF Clean
      <3>3. QED
        BY <1>8, <3>1, <3>2, JobAfter DEF Keeps
    <2>8. QED
      BY <2>6, <2>7
  <1>9. CASE move_to_replacement(w)
    <2>1. /\ returned' = returned /\ by_hand' = by_hand /\ task[w].pc = "move"
          /\ task[w].order \notin returned \ by_hand
      BY <1>0, <1>9 DEF move_to_replacement, Clean, JobStands, KindOfStep, OnPage
    <2>2. \A o \in returned \ by_hand : decision'[o] = decision[o]
      BY <1>0, <1>9, <2>1 DEF move_to_replacement
    <2>3. \A o \in returned \ by_hand : decision[o] = "REFUND_REQUESTED"
      BY <1>1, <2>1 DEF Returning
    <2>4. Recorded'
      BY <2>1, <2>2, <2>3 DEF Recorded
    <2>5. QED
      BY <1>2, <1>9, <2>4, JobAfter
  <1>10. CASE NextDue(w) \/ \E o \in Buyer : Notify(w, o)
    <2>1. UNCHANGED <<decision, returned, by_hand>> /\ task[w].pc \in {"next", "notify"}
      BY <1>10 DEF NextDue, Notify
    <2>2. CASE task'[w] = NoTask
      BY <1>2, <1>3, <2>1, <2>2
    <2>3. CASE Takes(w)
      <3>1. PICK o \in task[w].todo :
                /\ task'[w].pc = "refund" /\ task'[w].order = o
                /\ task'[w].todo = task[w].todo \ {o}
        BY <2>3 DEF Takes
      <3>2. \A x \in task[w].todo : decision[x] # "REFUND_REQUESTED"
        BY <2>1 DEF Clean
      <3>3. o \notin returned \ by_hand
        BY <1>1, <2>1, <3>2 DEF Returning
      <3>4. Clean(task[w])'
        BY <2>1, <3>1, <3>2, <3>3 DEF Clean
      <3>5. QED
        BY <1>3, <2>1, <3>4
    <2>4. QED
      BY <1>10, <2>2, <2>3, JobTakes
  <1>11. ASSUME NEW o \in Buyer, Sweep(w, o) PROVE Goal
    <2>1. UNCHANGED <<decision, returned, by_hand>> /\ task[w].pc = "sweep"
      BY <1>11 DEF Sweep
    <2>2. task'[w].pc = "sweep"
      BY <1>11, JobTakes
    <2>3. Clean(task[w])'
      BY <2>1, <2>2 DEF Clean
    <2>4. QED
      BY <1>3, <2>1, <2>3
  <1>12. CASE ListPaid(w)
    <2>1. UNCHANGED <<decision, returned, by_hand>> /\ task[w].pc = "sweep"
      BY <1>12 DEF ListPaid
    <2>2. task'[w].pc = "notify" /\ task'[w].todo \subseteq Buyer
      BY <1>12, JobTakes
    <2>3. Clean(task[w])'
      BY <2>1, <2>2 DEF Clean
    <2>4. QED
      BY <1>3, <2>1, <2>3
  <1>13. QED
    BY <1>4, <1>5, <1>6, <1>7, <1>8, <1>9, <1>10, <1>11, <1>12 DEF Continue

LEMMA MoneyStep ==
    ASSUME IInv, MoreTypes, Amounts, Stands, Serial, MoneyFollows, [CancellationNext]_cancelVars
    PROVE  MoneyFollows'
  <1> SUFFICES ASSUME ~concurrent, lost = 0, Alone, Recorded, \A w \in Staff : Clean(task[w]),
                      \A w \in Staff : ~LoseJob(w)
               PROVE  Recorded' /\ \A w \in Staff : Clean(task[w])'
    BY ConcurrentIsFixed, LostOnlyGrows DEF MoneyFollows, Serial
  <1>1. CASE Outside
    BY <1>1, OutsideMoney
  <1>2. ASSUME NEW w \in Staff, Continue(w) \/ Begins(w)
        PROVE  Recorded' /\ \A v \in Staff : Clean(task[v])'
    <2>1. \A v \in Staff \ {w} : task[v].pc = "idle" /\ task'[v].pc = "idle"
      BY <1>2, ActsAlone
    <2>2. \A v \in Staff : JobStands(task[v])'
      BY StandsStep DEF Stands
    <2>3. ASSUME NEW v \in Staff \ {w} PROVE Clean(task[v])'
      BY <2>1, <2>2 DEF JobStands, KindOfStep, Clean
    <2>4. Recorded' /\ Clean(task[w])'
      BY <1>2, <2>1, ContinueMoney, BeginsMoney
    <2>5. QED
      BY <2>3, <2>4
  <1>3. QED
    BY <1>1, <1>2, StepOf

LEMMA InitMoney == CancellationInit => MoneyFollows
  <1> SUFFICES ASSUME CancellationInit PROVE MoneyFollows
    OBVIOUS
  <1>1. \A w \in Staff : task[w] = NoTask
    BY DEF CancellationInit
  <1>2. returned = {}
    BY DEF CancellationInit
  <1>3. \A w \in Staff : Clean(task[w])
    BY <1>1, BlankFits DEF Clean
  <1>4. QED
    BY <1>2, <1>3 DEF MoneyFollows, Recorded

LEMMA MoneyAlways ==
    CancellationSpec => [](IInv /\ MoreTypes /\ Amounts /\ Stands /\ Serial /\ MoneyFollows)
  <1> DEFINE All == Stands /\ Serial /\ MoneyFollows
  <1>1. CancellationInit => All
    BY InitStands, InitSerial, InitMoney
  <1>2. IInv /\ MoreTypes /\ Amounts /\ All /\ [CancellationNext]_cancelVars => All'
    BY StandsStep, SerialStep, MoneyStep
  <1>3. QED
    BY <1>1, <1>2, TypesAlways, PTL DEF CancellationSpec

\* Whatever the buyers decide, whoever is refused and whatever Stripe reports
\* late: as long as jobs neither interleave nor die, the decision on record
\* tells who has the money (orders/cancellation.py request_refund,
\* choose_refund, move_to_replacement); of an order refunded on its own page
\* (orders/admin.py refund_view) it only says where it was asked for.
THEOREM DecisionTellsMoneyAlways == CancellationSpec => []DecisionTellsMoney
  <1>1. ASSUME Stands, Serial, MoneyFollows PROVE DecisionTellsMoney
    <2> SUFFICES ASSUME ~concurrent, lost = 0, NEW o \in Buyer
                 PROVE  /\ decision[o] = "REFUND_REQUESTED" => o \in returned
                        /\ decision[o] \in {"MOVED", "REFUND_FAILED"} =>
                               \/ o \notin returned \/ o \in by_hand
                               \/ \E w \in Staff : task[w].order = o /\ task[w].pc \notin {"idle", "refund"}
      BY DEF DecisionTellsMoney
    <2>1. decision[o] = "REFUND_REQUESTED" => o \in returned
      BY <1>1 DEF Stands, OrderStands
    <2>2. ASSUME o \in returned \ by_hand, decision[o] # "REFUND_REQUESTED"
          PROVE  \E w \in Staff : task[w].order = o /\ task[w].pc \notin {"idle", "refund"}
      BY <1>1, <2>2 DEF MoneyFollows, Recorded, Returning
    <2>3. QED
      BY <2>1, <2>2
  <1>2. QED
    BY <1>1, MoneyAlways, PTL

-----------------------------------------------------------------------------
(* Who is told.                                                            *)

LEMMA CancelsMove ==
    ASSUME IInv, Stands, [CancellationNext]_cancelVars, NEW w \in Staff
    PROVE  /\ Cancels(w)' => Cancels(w) \/ CancelEvent(w)
           /\ task'[w].pc = "sweep" => task[w].pc = "sweep" \/ CancelEvent(w)
  <1> DEFINE Goal == /\ task'[w].kind = "cancel" => task[w].kind = "cancel" \/ CancelEvent(w)
                     /\ task'[w].pc = "sweep" => task[w].pc = "sweep" \/ CancelEvent(w)
  <1>1. ASSUME Continue(w) \/ LoseJob(w) \/ Begins(w) PROVE Goal
    BY <1>1, JobAfter, JobTakes, JobBegins, BlankFits
    DEF Continue, Begins, BeginsAs, Takes, Keeps, JobAnswers
  <1>2. ASSUME task'[w] = task[w] PROVE Goal
    BY <1>2
  <1>3. Goal
    BY <1>1, <1>2, StepOf, OutsideJobs, OthersRest
  <1>4. QED
    BY <1>3 DEF Cancels

\* A job that cancels has seen the event cancelled.
LEMMA CancelsAfter ==
    ASSUME Stands, NEW w \in Staff, Cancels(w) \/ task[w].pc = "sweep"
    PROVE  Cancels(w) /\ event_status = "CANCELLED"
  BY DEF Stands, JobStands, KindOfStep, Cancels, OnPage

LEMMA ListedMoves ==
    ASSUME [CancellationNext]_cancelVars
    PROVE  listed' = listed \/ cancel_view \/ \E w \in Staff : ListPaid(w)
  <1>1. ASSUME NEW w \in Staff, Continue(w) \/ LoseJob(w) \/ Begins(w), ~ListPaid(w)
        PROVE  listed' = listed
    BY <1>1 DEF Continue, LoseJob, Begins, create_order, CallOperator, Claim, Sweep,
                AllNotified, CheckPaid, OperatorRefuses, Refresh, Invalidate, NextDue, Notify,
                apply_partial_refund, Returns,
                CancelEvent, process_decision_deadlines, LoadEvent, ReceiveRefund,
                choose_refund, refund_now, ChooseMove, refund_view, refund_tickets, ReceivePart, RecordRefund, move_to_replacement
  <1>2. CASE Outside /\ ~cancel_view
    BY <1>2 DEF Outside, PayOrder, expire_order, UseTicket, DeadlinePasses, cancelVars
  <1>3. QED
    BY <1>1, <1>2, StepOf

LEMMA OneCancelsStep ==
    ASSUME IInv, MoreTypes, Stands, OneCancels, [CancellationNext]_cancelVars
    PROVE  OneCancels'
  <1>1. ASSUME NEW v \in Staff, NEW w \in Staff, Cancels(v)', Cancels(w)' PROVE v = w
    <2>1. CASE CancelEvent(v)
      <3>1. ~Cancels(w) /\ event_status = "PUBLISHED"
        BY <2>1, CancelsAfter DEF CancelEvent
      <3>2. w # v => task'[w] = task[w]
        BY <2>1, OthersRest DEF Begins
      <3>3. QED
        BY <1>1, <3>1, <3>2 DEF Cancels
    <2>2. CASE CancelEvent(w)
      <3>1. ~Cancels(v) /\ event_status = "PUBLISHED"
        BY <2>2, CancelsAfter DEF CancelEvent
      <3>2. w # v => task'[v] = task[v]
        BY <2>2, OthersRest DEF Begins
      <3>3. QED
        BY <1>1, <3>1, <3>2 DEF Cancels
    <2>3. QED
      BY <1>1, <2>1, <2>2, CancelsMove DEF OneCancels
  <1>2. ASSUME listed'
        PROVE  event_status' = "CANCELLED" /\ \A w \in Staff : task'[w].pc # "sweep"
    <2>1. CASE listed
      BY <2>1, OrdersMove, CancelsMove DEF OneCancels, CancelEvent
    <2>2. CASE cancel_view
      <3>1. event_status = "PUBLISHED" /\ event_status' = "CANCELLED" /\ task' = task
        BY <2>2 DEF cancel_view
      <3>2. QED
        BY <3>1, CancelsAfter
    <2>3. ASSUME NEW w \in Staff, ListPaid(w)
          PROVE  event_status' = "CANCELLED" /\ \A v \in Staff : task'[v].pc # "sweep"
      <3>1. task[w].pc = "sweep" /\ task'[w].pc = "notify"
        BY <2>3, JobTakes
      <3>2. Cancels(w) /\ event_status' = "CANCELLED"
        BY <3>1, CancelsAfter, OrdersMove
      <3>3. \A v \in Staff \ {w} : task[v].pc # "sweep" /\ task'[v] = task[v]
        BY <2>3, <3>2, CancelsAfter, OthersRest DEF Continue, OneCancels
      <3>4. QED
        BY <3>1, <3>2, <3>3
    <2>4. QED
      BY <1>2, <2>1, <2>2, <2>3, ListedMoves
  <1>3. QED
    BY <1>1, <1>2 DEF OneCancels

\* Orders become unpaid when they are made, and are paid only by a payment.
LEMMA StatusMoves ==
    ASSUME IInv, MoreTypes, [CancellationNext]_cancelVars, NEW o \in Buyer, o \notin late'
    PROVE  /\ o \notin late
           /\ (event_status = "CANCELLED" /\ status'[o] = "PENDING") => status[o] = "PENDING"
           /\ (status'[o] = "PAID" /\ status[o] # "PAID") =>
                  status[o] = "PENDING" \/ (status[o] = "EXPIRED" /\ ~listed)
           /\ (status'[o] = "PAID" /\ status[o] # "PAID") => listed' = listed
  <1> USE DEF MoreTypes
  <1> DEFINE Goal ==
           /\ o \notin late
           /\ (event_status = "CANCELLED" /\ status'[o] = "PENDING") => status[o] = "PENDING"
           /\ (status'[o] = "PAID" /\ status[o] # "PAID") =>
                  status[o] = "PENDING" \/ (status[o] = "EXPIRED" /\ ~listed)
           /\ (status'[o] = "PAID" /\ status[o] # "PAID") => listed' = listed
  <1>1. ASSUME NEW w \in Staff,
               \/ LoseJob(w) \/ Begins(w)
               \/ ListPaid(w) \/ AllNotified(w) \/ CheckPaid(w) \/ OperatorRefuses(w) \/ Refresh(w)
               \/ RecordRefund(w) \/ move_to_replacement(w) \/ NextDue(w) \/ CallOperator(w)
               \/ Invalidate(w) \/ \E x \in Buyer : Notify(w, x)
        PROVE  Goal
    <2>1. UNCHANGED <<late, status>>
      BY <1>1 DEF LoseJob, Begins, CallOperator, ListPaid, Invalidate,
                AllNotified, CheckPaid, OperatorRefuses, Refresh, NextDue, Notify, RecordRefund,
                CancelEvent, process_decision_deadlines, LoadEvent, ReceiveRefund,
                choose_refund, refund_now, ChooseMove, refund_view, refund_tickets, ReceivePart, move_to_replacement
    <2>2. QED
      BY <2>1
  <1>2. ASSUME NEW w \in Staff, create_order(w) PROVE Goal
    BY <1>2 DEF create_order
  <1>3. ASSUME NEW w \in Staff, Claim(w) PROVE Goal
    BY <1>3 DEF Claim
  <1>10. ASSUME NEW w \in Staff, apply_partial_refund(w) PROVE Goal
    BY <1>10 DEF apply_partial_refund
  <1>4. ASSUME NEW w \in Staff, NEW x \in Buyer, Sweep(w, x) PROVE Goal
    BY <1>4 DEF Sweep
  <1>5. ASSUME NEW x \in Buyer, PayOrder(x) PROVE Goal
    BY <1>5 DEF PayOrder
  <1>6. ASSUME NEW x \in Buyer, expire_order(x) \/ UseTicket(x) PROVE Goal
    BY <1>6 DEF expire_order, UseTicket
  <1>7. CASE cancel_view
    BY <1>7 DEF cancel_view
  <1>8. CASE DeadlinePasses \/ UNCHANGED cancelVars
    BY <1>8 DEF DeadlinePasses, cancelVars
  <1>9. QED
    BY <1>1, <1>2, <1>3, <1>4, <1>5, <1>6, <1>7, <1>8, <1>10, StepOf
    DEF Continue, Outside

\* Buyers who were told stay told, and no order goes back to the old date.
LEMMA ToldMoves ==
    ASSUME IInv, [CancellationNext]_cancelVars
    PROVE  told \subseteq told' /\ \A o \in Buyer : at'[o] = "old" => at[o] = "old"
  <1>1. told \subseteq told'
    <2>1. ASSUME NEW w \in Staff, Continue(w) \/ LoseJob(w) \/ Begins(w)
          PROVE  told \subseteq told'
      BY <2>1 DEF Continue, LoseJob, Begins, create_order, CallOperator, Claim, Sweep, ListPaid,
                AllNotified, CheckPaid, OperatorRefuses, Refresh, Invalidate, NextDue, Notify,
                apply_partial_refund, Returns,
                CancelEvent, process_decision_deadlines, LoadEvent, ReceiveRefund,
                choose_refund, refund_now, ChooseMove, refund_view, refund_tickets, ReceivePart, RecordRefund, move_to_replacement
    <2>2. CASE Outside
      BY <2>2 DEF Outside, PayOrder, expire_order, UseTicket, cancel_view, DeadlinePasses, cancelVars
    <2>3. QED
      BY <2>1, <2>2, StepOf
  <1>2. ASSUME NEW o \in Buyer, at'[o] = "old" PROVE at[o] = "old"
    BY <1>2, DecisionsMove DEF cancel_view, RecordRefund, move_to_replacement, IInv, Types
  <1>3. QED
    BY <1>1, <1>2

\* The unpaid orders the sweep has before it.
LEMMA SweepGoesOn ==
    ASSUME IInv, MoreTypes, Stands, Told, [CancellationNext]_cancelVars, lost = 0,
           \A w \in Staff : ~LoseJob(w),
           event_status' = "CANCELLED", NEW o \in Buyer, o \notin late', status'[o] = "PENDING"
    PROVE  \E w \in Staff : task'[w].pc = "sweep" /\ o \in task'[w].todo
  <1>1. CASE event_status # "CANCELLED"
    <2>1. cancel_view \/ \E w \in Staff : CancelEvent(w)
      <3>1. ASSUME NEW w \in Staff, Continue(w) \/ LoseJob(w) \/ Begins(w), ~CancelEvent(w)
            PROVE  event_status' = event_status
        BY <3>1 DEF Continue, LoseJob, Begins, create_order, CallOperator, Claim, Sweep, ListPaid,
                AllNotified, CheckPaid, OperatorRefuses, Refresh, Invalidate, NextDue, Notify,
                apply_partial_refund, Returns,
                process_decision_deadlines, LoadEvent, ReceiveRefund,
                choose_refund, refund_now, ChooseMove, refund_view, refund_tickets, ReceivePart, RecordRefund, move_to_replacement
      <3>2. ASSUME Outside, ~cancel_view PROVE event_status' = event_status
        BY <3>2 DEF Outside, PayOrder, expire_order, UseTicket, DeadlinePasses, cancelVars
      <3>3. QED
        BY <1>1, <3>1, <3>2, StepOf
    <2>2. CASE cancel_view
      <3>1. status[o] = "PENDING" /\ at[o] # "old"
        BY <2>2 DEF cancel_view
      <3>2. at[o] = "old"
        BY <3>1 DEF Stands, OrderStands, IInv, Types, Dates
      <3>3. QED
        BY <3>1, <3>2
    <2>3. ASSUME NEW w \in Staff, CancelEvent(w)
          PROVE  task'[w].pc = "sweep" /\ o \in task'[w].todo
      <3>1. status[o] = "PENDING"
        BY <2>3 DEF CancelEvent
      <3>2. QED
        BY <2>3, <3>1, JobBegins DEF BeginsAs
    <2>4. QED
      BY <2>1, <2>2, <2>3
  <1>2. CASE event_status = "CANCELLED"
    <2>1. status[o] = "PENDING" /\ o \notin late
      BY <1>2, StatusMoves
    <2>2. PICK w \in Staff : task[w].pc = "sweep" /\ o \in task[w].todo
      BY <1>2, <2>1 DEF Told
    <2>3. CASE task'[w] = task[w]
      BY <2>2, <2>3
    <2>4. CASE \E x \in Buyer : Sweep(w, x)
      <3>1. PICK x \in Buyer : Sweep(w, x)
        BY <2>4
      <3>2. x # o
        BY <2>1, <3>1 DEF Sweep, MoreTypes
      <3>3. QED
        BY <2>2, <3>1, <3>2, JobTakes
    <2>5. CASE ListPaid(w)
      BY <2>2, <2>5, JobTakes
    <2>6. CASE Continue(w) /\ ~ListPaid(w) /\ ~\E x \in Buyer : Sweep(w, x)
      BY <2>2, <2>6, JobAfter, JobTakes
      DEF Continue, create_order, AllNotified, move_to_replacement, Claim, Invalidate, RecordRefund
    <2>7. CASE Begins(w)
      BY <2>2, <2>7, JobBegins DEF Begins, BeginsAs
    <2>8. QED
      BY <2>3, <2>4, <2>5, <2>6, <2>7, StepOf, OthersRest, OutsideJobs
  <1>3. QED
    BY <1>1, <1>2

\* The paid orders that the job has still to tell.
LEMMA TellingGoesOn ==
    ASSUME IInv, MoreTypes, Stands, OneCancels, Told, [CancellationNext]_cancelVars, lost = 0,
           \A w \in Staff : ~LoseJob(w),
           event_status' = "CANCELLED", NEW o \in Buyer, o \notin late',
           listed', status'[o] = "PAID", at'[o] = "old", o \notin told'
    PROVE  \E w \in Staff : Cancels(w)' /\ o \in task'[w].todo
  <1>0. o \notin told /\ at[o] = "old" /\ o \notin late
    BY ToldMoves, StatusMoves
  <1>1. CASE listed
    <2>1. event_status = "CANCELLED" /\ \A w \in Staff : task[w].pc # "sweep"
      BY <1>1 DEF OneCancels
    <2>2. status[o] = "PAID"
      BY <1>0, <1>1, <2>1, StatusMoves DEF Told
    <2>3. PICK w \in Staff : Cancels(w) /\ o \in task[w].todo
      BY <1>0, <1>1, <2>1, <2>2 DEF Told
    <2>4. KindOfStep(task[w])
      BY DEF Stands, JobStands
    <2>5. CASE task'[w] = task[w]
      BY <2>3, <2>5 DEF Cancels
    <2>6. ASSUME NEW x \in Buyer, Notify(w, x) PROVE Cancels(w)' /\ o \in task'[w].todo
      <3>1. x # o
        BY <2>6 DEF Notify
      <3>2. QED
        BY <2>3, <2>6, <3>1, JobTakes DEF Takes, Cancels
    <2>7. CASE CheckPaid(w) \/ CallOperator(w) \/ OperatorRefuses(w) \/ Refresh(w)
      BY <2>3, <2>7, JobAfter DEF Keeps, Cancels, JobAnswers, OnPage
    <2>8. CASE Claim(w) \/ Invalidate(w)
      BY <2>3, <2>8, JobAfter DEF Keeps, Cancels, JobAnswers, OnPage
    <2>9. CASE RecordRefund(w)
      BY <2>3, <2>9, JobAfter DEF Keeps, Cancels
    <2>10. ~create_order(w) /\ ~move_to_replacement(w) /\ ~AllNotified(w) /\ ~NextDue(w)
           /\ ~ListPaid(w) /\ ~\E x \in Buyer : Sweep(w, x)
      BY <2>1, <2>3, <2>4
      DEF KindOfStep, Cancels, create_order, move_to_replacement, AllNotified, NextDue, ListPaid,
          Sweep
    <2>13. ~apply_partial_refund(w)
      <3>1. task[w].pc = "claim" => task[w].n = 0
        BY <2>3, <2>4 DEF KindOfStep, Cancels, OnPage
      <3>2. apply_partial_refund(w) => task[w].pc = "claim" /\ task[w].n > 0
        BY DEF apply_partial_refund
      <3>3. task[w].n = 0 => ~(task[w].n > 0)
        OBVIOUS
      <3>4. QED
        BY <3>1, <3>2, <3>3
    <2>11. ~Begins(w)
      BY <2>3, <2>4, JobBegins DEF Begins, BeginsAs, KindOfStep, Cancels
    <2>12. QED
      BY <2>5, <2>6, <2>7, <2>8, <2>9, <2>10, <2>11, <2>13, StepOf, OthersRest,
         OutsideJobs DEF Continue
  <1>2. CASE ~listed
    <2>1. status[o] = "PAID"
      BY <1>2, StatusMoves
    <2>2. CASE cancel_view
      BY <1>0, <2>1, <2>2 DEF cancel_view
    <2>3. ASSUME NEW w \in Staff, ListPaid(w) PROVE Cancels(w)' /\ o \in task'[w].todo
      <3>1. Cancels(w)
        BY <2>3, JobTakes, CancelsAfter
      <3>2. QED
        BY <1>0, <2>1, <2>3, <3>1, JobTakes DEF Cancels
    <2>4. QED
      BY <1>2, <2>2, <2>3, ListedMoves
  <1>3. QED
    BY <1>1, <1>2

LEMMA ToldStep ==
    ASSUME IInv, MoreTypes, Stands, OneCancels, Told, [CancellationNext]_cancelVars
    PROVE  Told'
  <1> SUFFICES ASSUME event_status' = "CANCELLED", lost' = 0, NEW o \in Buyer, o \notin late'
               PROVE  /\ status'[o] = "PENDING" =>
                            \E w \in Staff : task'[w].pc = "sweep" /\ o \in task'[w].todo
                      /\ (listed' /\ status'[o] = "PAID" /\ at'[o] = "old" /\ o \notin told') =>
                            \E w \in Staff : Cancels(w)' /\ o \in task'[w].todo
    BY DEF Told
  <1>1. lost = 0 /\ \A w \in Staff : ~LoseJob(w)
    BY LostOnlyGrows
  <1>2. QED
    BY <1>1, SweepGoesOn, TellingGoesOn

LEMMA InitTold == CancellationInit => OneCancels /\ Told
  <1> SUFFICES ASSUME CancellationInit PROVE OneCancels /\ Told
    OBVIOUS
  <1>1. \A w \in Staff : task[w] = NoTask
    BY DEF CancellationInit
  <1>2. listed = FALSE /\ event_status = "PUBLISHED"
    BY DEF CancellationInit
  <1>3. QED
    BY <1>1, <1>2, BlankFits DEF OneCancels, Told, Cancels

LEMMA ToldAlways == CancellationSpec => [](OneCancels /\ Told)
  <1>1. IInv /\ MoreTypes /\ Stands /\ OneCancels /\ Told /\ [CancellationNext]_cancelVars =>
            (OneCancels /\ Told)'
    BY OneCancelsStep, ToldStep
  <1>2. QED
    BY <1>1, InitTold, MoneyAlways, PTL DEF CancellationSpec

\* Nobody is forgotten, however payments, expiry, the sweep and other jobs
\* interleave: once the job that cancels is done, every order still paid for
\* the old date was told, but for orders and payments that come after the event
\* was cancelled (orders/cancellation.py cancel_event_for_buyers).
THEOREM EveryBuyerToldAlways == CancellationSpec => []EveryBuyerTold
  <1>1. OneCancels /\ Told => EveryBuyerTold
    BY DEF OneCancels, Told, EveryBuyerTold, Cancels
  <1>2. QED
    BY <1>1, ToldAlways, PTL

-----------------------------------------------------------------------------
(* The places.                                                             *)

Holders(date) == {o \in Buyer : Holding(o) /\ at[o] = date}

\* Both counters are the places of the orders there.
Counted == (~concurrent /\ used = {}) =>
    \A date \in Dates : sold[date] = SumOver(kept, Holders(date))

LEMMA KeptCount ==
    ASSUME IInv, NEW S \in SUBSET Buyer
    PROVE  Summable(kept, S) /\ SumOver(kept, S) \in Int
  <1>1. Summable(kept, S)
    BY BuyersAssumption, FS_Subset DEF Summable, IInv, Types
  <1>2. QED
    BY <1>1, SumType

\* One more holds places, or one less.
LEMMA OneMore ==
    ASSUME IInv, NEW S \in SUBSET Buyer, NEW o \in Buyer
    PROVE  /\ SumOver(kept, S) \in Int /\ kept[o] \in Int
           /\ o \notin S => SumOver(kept, S \cup {o}) = SumOver(kept, S) + kept[o]
           /\ o \in S => SumOver(kept, S \ {o}) = SumOver(kept, S) - kept[o]
  <1>1. Summable(kept, S) /\ SumOver(kept, S) \in Int /\ kept[o] \in Int
    BY KeptCount DEF IInv, Types
  <1>2. o \notin S => SumOver(kept, S \cup {o}) = SumOver(kept, S) + kept[o]
    BY <1>1, SumAdd
  <1>3. ASSUME o \in S PROVE SumOver(kept, S \ {o}) = SumOver(kept, S) - kept[o]
    <2> DEFINE T == S \ {o}
    <2>1. SumOver(kept, S) = kept[o] + SumOver(kept, T)
      BY <1>1, <1>3, SumTake
    <2>2. SumOver(kept, T) \in Int
      BY KeptCount
    <2> HIDE DEF T
    <2>3. SumOver(kept, T) = SumOver(kept, S) - kept[o]
      BY <1>1, <2>1, <2>2
    <2>4. QED
      BY <2>3 DEF T
  <1>4. QED
    BY <1>1, <1>2, <1>3

LEMMA HoldersAreBuyers == \A date \in Dates : Holders(date) \in SUBSET Buyer
  BY DEF Holders

LEMMA FiniteHolders ==
    ASSUME NEW S \in SUBSET Buyer PROVE IsFiniteSet(S)
  BY BuyersAssumption, FS_Subset

\* An order takes places on the old date, or gives back those it has.
LEMMA TakesPlaces ==
    ASSUME IInv, MoreTypes, NEW o \in Buyer, at[o] = "old", ~Holding(o), at' = at, kept' = kept,
           status' = [status EXCEPT ![o] = "PENDING"] \/ status' = [status EXCEPT ![o] = "PAID"],
           sold' = [sold EXCEPT !["old"] = @ + kept[o]],
           \A date \in Dates : sold[date] = SumOver(kept, Holders(date))
    PROVE  \A date \in Dates : sold'[date] = SumOver(kept', Holders(date)')
  <1>1. o \notin Holders("old") /\ Holders("old")' = Holders("old") \cup {o}
    BY DEF Holders, Holding, MoreTypes
  <1>2. Holders("new")' = Holders("new")
    BY DEF Holders, Holding, MoreTypes
  <1>3. sold'["old"] = sold["old"] + kept[o] /\ sold'["new"] = sold["new"]
    BY DEF MoreTypes, Dates
  <1>4. SumOver(kept, Holders("old")') = SumOver(kept, Holders("old")) + kept[o]
    BY <1>1, OneMore, HoldersAreBuyers DEF Dates
  <1>5. QED
    BY <1>2, <1>3, <1>4 DEF Dates

LEMMA GivesPlaces ==
    ASSUME IInv, MoreTypes, NEW o \in Buyer, Holding(o), at' = at, at[o] \in Dates,
           \A x \in Buyer \ {o} : kept'[x] = kept[x],
           \/ status' = [status EXCEPT ![o] = "EXPIRED"]
           \/ status' = [status EXCEPT ![o] = "CANCELLED"]
           \/ status' = [status EXCEPT ![o] = "REFUNDED"],
           sold' = [sold EXCEPT ![at[o]] = @ - kept[o]],
           \A date \in Dates : sold[date] = SumOver(kept, Holders(date))
    PROVE  \A date \in Dates : sold'[date] = SumOver(kept', Holders(date)')
  <1>1. PICK d \in Dates : at[o] = d
    OBVIOUS
  <1>2. status'[o] \notin {"PENDING", "PAID"} /\ \A x \in Buyer \ {o} : status'[x] = status[x]
    BY DEF MoreTypes
  <1>3. o \in Holders(d) /\ Holders(d)' = Holders(d) \ {o}
    BY <1>1, <1>2 DEF Holders, Holding
  <1>4. \A date \in Dates : date # d => Holders(date)' = Holders(date) /\ o \notin Holders(date)
    BY <1>1, <1>2 DEF Holders, Holding
  <1>5. sold'[d] = sold[d] - kept[o] /\ \A date \in Dates : date # d => sold'[date] = sold[date]
    BY <1>1 DEF MoreTypes
  <1>6. SumOver(kept, Holders(d) \ {o}) = SumOver(kept, Holders(d)) - kept[o]
    BY <1>1, <1>3, OneMore, HoldersAreBuyers
  <1>7. ASSUME NEW S \in SUBSET Buyer, o \notin S PROVE SumOver(kept', S) = SumOver(kept, S)
    BY <1>7, SumSame, FiniteHolders
  <1>8. ASSUME NEW date \in Dates
        PROVE  SumOver(kept', Holders(date)') = SumOver(kept, Holders(date)')
    <2>1. PICK S \in SUBSET Buyer : S = Holders(date)'
      BY <1>3, <1>4, HoldersAreBuyers
    <2>2. o \notin S
      BY <2>1, <1>3, <1>4
    <2>3. QED
      BY <1>7, <2>1, <2>2
  <1>9. QED
    BY <1>3, <1>4, <1>5, <1>6, <1>8

\* An order keeps fewer places.
LEMMA GivesSome ==
    ASSUME IInv, MoreTypes, NEW o \in Buyer, Holding(o), at' = at, at[o] \in Dates, NEW n \in Nat,
           kept' = [kept EXCEPT ![o] = @ - n], status' = status,
           sold' = [sold EXCEPT ![at[o]] = @ - n],
           \A date \in Dates : sold[date] = SumOver(kept, Holders(date))
    PROVE  \A date \in Dates : sold'[date] = SumOver(kept', Holders(date)')
  <1>1. PICK d \in Dates : at[o] = d
    OBVIOUS
  <1>2. \A date \in Dates : Holders(date)' = Holders(date) /\ Holders(date) \in SUBSET Buyer
    BY DEF Holders, Holding
  <1>3. o \in Holders(d) /\ \A date \in Dates : date # d => o \notin Holders(date)
    BY <1>1 DEF Holders, Holding
  <1>4. sold'[d] = sold[d] - n /\ \A date \in Dates : date # d => sold'[date] = sold[date]
    BY <1>1 DEF MoreTypes
  <1>5. PICK G : G = kept'
    OBVIOUS
  <1>9. /\ G[o] = kept[o] - n /\ kept[o] \in Int /\ G[o] \in Int
        /\ \A x \in Buyer : x # o => G[x] = kept[x]
    BY <1>5 DEF IInv, Types
  <1>6. SumOver(G, Holders(d)) = SumOver(kept, Holders(d)) - n
    <2>1. PICK S \in SUBSET Buyer : S = Holders(d)
      BY <1>2
    <2>2. o \in S
      BY <1>3, <2>1
    <2>3. Summable(kept, S) /\ SumOver(kept, S) \in Int
      BY KeptCount
    <2>4. Summable(G, S)
      BY <1>9, <2>3 DEF Summable
    <2>5. SumOver(G, S) = SumOver(kept, S) - kept[o] + G[o]
      BY <1>9, <2>2, <2>3, <2>4, SumChange
    <2>6. SumOver(G, S) = SumOver(kept, S) - n
      BY <1>9, <2>3, <2>5
    <2>7. QED
      BY <2>1, <2>6
  <1>7. ASSUME NEW date \in Dates, date # d
        PROVE  SumOver(G, Holders(date)) = SumOver(kept, Holders(date))
    <2>1. PICK S \in SUBSET Buyer : S = Holders(date)
      BY <1>2
    <2>2. o \notin S
      BY <1>3, <1>7, <2>1
    <2>4. IsFiniteSet(S) /\ \A x \in S : G[x] = kept[x]
      BY <1>9, <2>2, FiniteHolders
    <2>3. SumOver(G, S) = SumOver(kept, S)
      BY <2>4, SumSame
    <2>5. QED
      BY <2>1, <2>3
  <1>8. QED
    BY <1>2, <1>4, <1>5, <1>6, <1>7

LEMMA UsedOnlyGrows ==
    ASSUME IInv, MoreTypes, [CancellationNext]_cancelVars, used' = {}
    PROVE  used = {}
  BY OrdersMove

LEMMA CountedStep ==
    ASSUME IInv, MoreTypes, Amounts, Stands, Serial, Counted, [CancellationNext]_cancelVars
    PROVE  Counted'
  <1> DEFINE Goal == \A date \in Dates : sold'[date] = SumOver(kept', Holders(date)')
  <1> SUFFICES ASSUME ~concurrent, used = {}, used' = {},
                      \A date \in Dates : sold[date] = SumOver(kept, Holders(date))
               PROVE  Goal
    BY ConcurrentIsFixed, UsedOnlyGrows DEF Counted
  <1>0. /\ \A w \in Staff : AloneKnows(task[w]) /\ JobStands(task[w])
        /\ \A o \in Buyer : OrderStands(o) /\ at[o] \in Dates
        /\ status \in [Buyer -> BuyerStatus] /\ kept \in [Buyer -> Int]
        /\ \A o \in Buyer : status[o] \notin {"PAID", "REFUNDED"} => kept[o] = Quantity[o]
    BY DEF Serial, Stands, IInv, Types, MoreTypes, Amounts, AmountsOf
  <1>1. ASSUME UNCHANGED <<sold, at, kept>>, \A o \in Buyer : Holding(o)' = Holding(o) PROVE Goal
    <2>1. \A date \in Dates : Holders(date)' = Holders(date)
      BY <1>1 DEF Holders
    <2>2. QED
      BY <1>1, <2>1
  <1>2. ASSUME NEW o \in Buyer, status[o] \notin {"PAID", "REFUNDED"} PROVE at[o] = "old"
    BY <1>0, <1>2 DEF OrderStands, Dates
  <1>3. ASSUME UNCHANGED <<sold, at, kept, status>> PROVE Goal
    BY <1>1, <1>3 DEF Holding
  <1>4. ASSUME NEW w \in Staff, create_order(w) PROVE Goal
    <2> DEFINE o == task[w].order
    <2>1. o \in Buyer
      BY <1>4, OrderOfJob DEF create_order
    <2>2. CASE UNCHANGED <<sold, at, kept, status>>
      BY <1>3, <2>2
    <2>3. CASE /\ status[o] = "NONE" /\ status' = [status EXCEPT ![o] = "PENDING"]
               /\ sold' = [sold EXCEPT !["old"] = @ + Quantity[o]] /\ at' = at
               /\ kept' = kept
      <3>1. at[o] = "old" /\ ~Holding(o) /\ Quantity[o] = kept[o]
        BY <1>0, <1>2, <2>1, <2>3 DEF Holding
      <3> HIDE DEF o
      <3>2. QED
        BY <2>1, <2>3, <3>1, TakesPlaces
    <2>4. QED
      BY <1>4, <2>2, <2>3 DEF create_order
  <1>5. ASSUME NEW o \in Buyer, PayOrder(o) PROVE Goal
    <2>1. CASE status[o] = "PENDING"
      <3>1. \A x \in Buyer : Holding(x)' = Holding(x)
        BY <1>0, <1>5, <2>1 DEF PayOrder, Holding
      <3>2. QED
        BY <1>1, <1>5, <2>1, <3>1 DEF PayOrder
    <2>2. CASE status[o] = "EXPIRED"
      <3>1. at[o] = "old" /\ ~Holding(o) /\ Quantity[o] = kept[o]
        BY <1>0, <1>2, <2>2 DEF Holding
      <3>2. status' = [status EXCEPT ![o] = "PAID"] /\ at' = at /\ kept' = kept
            /\ sold' = [sold EXCEPT !["old"] = @ + kept[o]]
        BY <1>5, <2>2, <3>1 DEF PayOrder
      <3>3. QED
        BY <3>1, <3>2, TakesPlaces
    <2>3. QED
      BY <1>5, <2>1, <2>2 DEF PayOrder
  <1>6. ASSUME NEW o \in Buyer, expire_order(o) PROVE Goal
    <2>1. at[o] = "old" /\ Holding(o) /\ Quantity[o] = kept[o]
      BY <1>0, <1>2, <1>6 DEF expire_order, Holding
    <2>2. status' = [status EXCEPT ![o] = "EXPIRED"] /\ at' = at /\ kept' = kept
          /\ sold' = [sold EXCEPT ![at[o]] = @ - kept[o]]
      BY <1>6, <2>1 DEF expire_order, Release
    <2>3. QED
      BY <2>1, <2>2, GivesPlaces DEF Dates
  <1>7. ASSUME NEW w \in Staff, NEW o \in Buyer, Sweep(w, o) PROVE Goal
    <2>1. CASE status[o] = "PENDING"
      <3>1. at[o] = "old" /\ Holding(o) /\ Quantity[o] = kept[o]
        BY <1>0, <1>2, <2>1 DEF Holding
      <3>2. status' = [status EXCEPT ![o] = "CANCELLED"] /\ at' = at /\ kept' = kept
            /\ sold' = [sold EXCEPT ![at[o]] = @ - kept[o]]
        BY <1>7, <2>1, <3>1 DEF Sweep, Release
      <3>3. QED
        BY <3>1, <3>2, GivesPlaces DEF Dates
    <2>2. CASE status[o] # "PENDING"
      BY <1>3, <1>7, <2>2 DEF Sweep
    <2>3. QED
      BY <2>1, <2>2
  <1>8. ASSUME NEW w \in Staff, Claim(w) PROVE Goal
    <2> DEFINE o == task[w].order
    <2>1. o \in Buyer /\ task[w].seen = at[o] /\ task[w].held = kept[o]
      BY <1>0, <1>8, OrderOfJob DEF Claim, AloneKnows
    <2>2. CASE status[o] = "PAID"
      <3>1. /\ status' = [status EXCEPT ![o] = "REFUNDED"] /\ at' = at /\ Holding(o)
            /\ sold' = [sold EXCEPT ![at[o]] = @ - kept[o]]
            /\ kept' = [kept EXCEPT ![o] = 0]
        BY <1>8, <2>1, <2>2 DEF Claim, Holding
      <3> HIDE DEF o
      <3>2. \A x \in Buyer \ {o} : kept'[x] = kept[x]
        BY <1>0, <3>1
      <3>3. QED
        BY <1>0, <2>1, <3>1, <3>2, GivesPlaces
    <2>3. CASE status[o] # "PAID"
      BY <1>3, <1>8, <2>3 DEF Claim
    <2>4. QED
      BY <2>2, <2>3
  <1>14. ASSUME NEW w \in Staff, apply_partial_refund(w) PROVE Goal
    <2>1. PICK o \in Buyer, n \in Nat : o = task[w].order /\ n = task[w].n
      BY <1>14, OrderOfJob DEF apply_partial_refund
    <2>2. n > 0 /\ task[w].seen = at[o] /\ at' = at
      BY <1>0, <1>14, <2>1 DEF apply_partial_refund, AloneKnows
    <2>3. CASE asked[o] # n
      BY <1>3, <1>14, <2>1, <2>3 DEF apply_partial_refund
    <2>4. CASE asked[o] = n
      <3>1. status[o] = "PAID" /\ n <= kept[o] /\ kept[o] \in Int /\ Holding(o)
        BY <1>0, <2>2, <2>4 DEF Amounts, AmountsOf, Holding
      <3>2. /\ sold' = [sold EXCEPT ![at[o]] = @ - n] /\ kept' = [kept EXCEPT ![o] = @ - n]
            /\ status' = IF kept[o] <= n THEN [status EXCEPT ![o] = "REFUNDED"] ELSE status
        BY <1>14, <2>1, <2>2, <2>4, <3>1 DEF apply_partial_refund
      <3>3. CASE kept[o] <= n
        <4>1. kept[o] = n
          BY <3>1, <3>3
        <4>2. \A x \in Buyer \ {o} : kept'[x] = kept[x]
          BY <1>0, <3>2
        <4>3. QED
          BY <1>0, <2>2, <3>1, <3>2, <3>3, <4>1, <4>2, GivesPlaces
      <3>4. CASE ~(kept[o] <= n)
        BY <1>0, <2>2, <3>1, <3>2, <3>4, GivesSome
      <3>5. QED
        BY <3>3, <3>4
    <2>5. QED
      BY <2>3, <2>4
  <1>9. ASSUME NEW w \in Staff, move_to_replacement(w) PROVE Goal
    <2> DEFINE o == task[w].order
    <2>1. /\ o \in Buyer /\ status[o] = "PAID" /\ task[w].n = kept[o]
          /\ status' = status /\ kept' = kept
      BY <1>0, <1>9, OrderOfJob DEF move_to_replacement, AloneKnows, JobStands
    <2>2. CASE UNCHANGED <<sold, at>>
      BY <1>3, <2>1, <2>2
    <2>3. CASE /\ decision[o] = "AWAITING" /\ at' = [at EXCEPT ![o] = "new"]
               /\ sold' = [old |-> sold["old"] - kept[o], new |-> sold["new"] + task[w].n]
      <3>1. at[o] = "old" /\ Holding(o)
        BY <1>0, <2>1, <2>3 DEF OrderStands, Dates, Holding
      <3>2. sold'["old"] = sold["old"] - kept[o] /\ sold'["new"] = sold["new"] + kept[o]
        BY <2>1, <2>3, <3>1
      <3> HIDE DEF o
      <3>3. /\ o \in Holders("old") /\ Holders("old")' = Holders("old") \ {o}
            /\ o \notin Holders("new") /\ Holders("new")' = Holders("new") \cup {o}
        <4>1. \A x \in Buyer : Holding(x)' = Holding(x)
          BY <2>1 DEF Holding
        <4>2. at \in [Buyer -> Dates]
          BY DEF IInv, Types
        <4>3. QED
          BY <2>1, <2>3, <3>1, <4>1, <4>2 DEF Holders
      <3>4. /\ SumOver(kept, Holders("old")') = SumOver(kept, Holders("old")) - kept[o]
            /\ SumOver(kept, Holders("new")') = SumOver(kept, Holders("new")) + kept[o]
        BY <2>1, <3>3, OneMore, HoldersAreBuyers DEF Dates
      <3>5. QED
        BY <2>1, <3>2, <3>4 DEF Dates
    <2>4. QED
      BY <1>9, <2>2, <2>3 DEF move_to_replacement
  <1>10. CASE cancel_view
    <2> DEFINE unpaid == {o \in Buyer : status[o] = "PENDING" /\ at[o] = "old"}
               stay == Holders("old") \ unpaid
    <2>1. /\ status' = [o \in Buyer |-> IF o \in unpaid THEN "CANCELLED" ELSE status[o]]
          /\ at' = at /\ kept' = kept
      BY <1>10 DEF cancel_view
    <2>2. sold' = [sold EXCEPT !["old"] = @ - SumOver(Quantity, unpaid)]
      BY <1>10, PlacesAreSummed DEF cancel_view
    <2>3. unpaid \subseteq Holders("old") /\ Holders("old")' = stay /\ Holders("new")' = Holders("new")
      BY <2>1 DEF Holders, Holding
    <2>9. unpaid \in SUBSET Buyer /\ \A o \in unpaid : Quantity[o] = kept[o]
      BY <1>0
    <2> HIDE DEF unpaid
    <2>10. SumOver(Quantity, unpaid) = SumOver(kept, unpaid)
      BY <2>9, SumSame, FiniteHolders
    <2>4. SumOver(kept, Holders("old")) = SumOver(kept, unpaid) + SumOver(kept, stay)
      BY <2>3, SumSplit, KeptCount, HoldersAreBuyers DEF Dates
    <2>5. SumOver(kept, unpaid) \in Int /\ SumOver(kept, stay) \in Int
      <3>1. unpaid \in SUBSET Buyer /\ stay \in SUBSET Buyer
        BY <2>3, HoldersAreBuyers DEF Dates
      <3>2. QED
        BY <3>1, KeptCount
    <2> HIDE DEF stay
    <2>6. sold'["old"] = sold["old"] - SumOver(kept, unpaid) /\ sold'["new"] = sold["new"]
      BY <2>2, <2>10 DEF MoreTypes, Dates
    <2>7. sold'["old"] = SumOver(kept, stay)
      BY <2>4, <2>5, <2>6 DEF Dates
    <2>8. QED
      BY <2>1, <2>3, <2>6, <2>7 DEF Dates
  <1>11. ASSUME NEW w \in Staff,
               \/ LoseJob(w) \/ Begins(w)
               \/ ListPaid(w) \/ AllNotified(w) \/ CheckPaid(w) \/ OperatorRefuses(w) \/ Refresh(w)
               \/ RecordRefund(w) \/ NextDue(w) \/ CallOperator(w)
               \/ Invalidate(w) \/ \E x \in Buyer : Notify(w, x)
         PROVE  Goal
    <2>1. UNCHANGED <<sold, at, kept, status>>
      BY <1>11 DEF LoseJob, Begins, CallOperator, ListPaid, Invalidate,
                AllNotified, CheckPaid, OperatorRefuses, Refresh, NextDue, Notify, RecordRefund,
                CancelEvent, process_decision_deadlines, LoadEvent, ReceiveRefund,
                choose_refund, refund_now, ChooseMove, refund_view, refund_tickets, ReceivePart
    <2>2. QED
      BY <1>3, <2>1
  <1>12. CASE DeadlinePasses \/ UNCHANGED cancelVars \/ \E o \in Buyer : UseTicket(o)
    <2>1. UNCHANGED <<sold, at, kept, status>>
      BY <1>12 DEF DeadlinePasses, cancelVars, UseTicket
    <2>2. QED
      BY <1>3, <2>1
  <1>13. QED
    BY <1>4, <1>5, <1>6, <1>7, <1>8, <1>9, <1>10, <1>11, <1>12, <1>14, StepOf
    DEF Continue, Outside

LEMMA InitCounted == CancellationInit => Counted
  <1> SUFFICES ASSUME CancellationInit PROVE Counted
    OBVIOUS
  <1>1. Holders("old") = Early /\ Holders("new") = {} /\ kept = Quantity
    BY BuyersAssumption DEF CancellationInit, Holders, Holding
  <1>2. sold["old"] = SumOver(Quantity, Early) /\ sold["new"] = 0
    BY PlacesAreSummed DEF CancellationInit
  <1>3. SumOver(Quantity, {}) = 0
    BY SumEmpty
  <1>4. QED
    BY <1>1, <1>2, <1>3 DEF Counted, Dates

\* However many orders are made, paid late, given up, moved or refunded, whole
\* or in part and by whoever, and wherever a job dies, each date has counted
\* out the places of the orders there (cancellation.py move_to_replacement,
\* payments.py mark_order_refunded, apply_partial_refund).
THEOREM PlacesFollowOrdersAlways == CancellationSpec => []PlacesFollowOrders
  <1>1. Counted => PlacesFollowOrders
    <2>1. \A date \in Dates : PlacesAt(date) = SumOver(kept, Holders(date))
      BY PlacesAreSummed DEF PlacesAt, Holders
    <2>2. QED
      BY <2>1 DEF Counted, PlacesFollowOrders, Dates
  <1>2. IInv /\ MoreTypes /\ Amounts /\ Stands /\ Serial /\ Counted /\ [CancellationNext]_cancelVars
            => Counted'
    BY CountedStep
  <1>3. QED
    BY <1>1, <1>2, InitCounted, MoneyAlways, PTL DEF CancellationSpec
===============================================================================
