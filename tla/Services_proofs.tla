--------------------------- MODULE Services_proofs ---------------------------
(***************************************************************************)
(* Theorems about the components that MCServices runs: the two outboxes,   *)
(* the pools of an event, the form it is edited with, the halls, the       *)
(* documents of the seating editor, and the layouts with the maps that are *)
(* made from them.  Each has an invariant of its own, for every value of   *)
(* its constants.                                                          *)
(***************************************************************************)
EXTENDS EventCalendar, EmailOutbox, PoolActivation, EventEditing, HallRooms, SeatSelection,
        SeatingLayouts, FiniteSums, SequenceTheorems, WellFoundedInduction, TLAPS

(***************************************************************************)
(* What is due, in order.                                                  *)
(***************************************************************************)

\* Some sequence has the rows of a finite set in order.
Sorted(q, S) ==
    /\ q \in [1..Cardinality(S) -> S]
    /\ \A i, j \in 1..Cardinality(S) : i < j => q[i] < q[j]

LEMMA GreatestExists ==
    ASSUME NEW S, IsFiniteSet(S)
    PROVE  (S \subseteq Nat /\ S # {}) => \E x \in S : \A y \in S : y <= x
<1> DEFINE Greatest(U) == \E x \in U : \A y \in U : y <= x
           B == {U \in SUBSET S : U # {} /\ U \subseteq Nat /\ ~Greatest(U)}
<1>1. ASSUME B # {} PROVE FALSE
  <2>1. \E U \in B : \A V \in B : V \subseteq U => V = U
    <3>1. B \subseteq SUBSET S /\ B # {} /\ IsFiniteSet(S)
      BY <1>1
    <3> HIDE DEF B
    <3> QED
      BY <3>1, SmallestSubset
  <2>2. PICK U \in B : \A V \in B : V \subseteq U => V = U
    BY <2>1
  <2>3. PICK x \in U : TRUE
    OBVIOUS
  <2> DEFINE V == U \ {x}
  <2>4. V # {}
    <3>1. V = {} => \A y \in U : y <= x
      OBVIOUS
    <3> QED
      BY <3>1
  <2>5. Greatest(V)
    <3>1. V \in SUBSET S /\ V # U /\ V \subseteq Nat /\ V \subseteq U
      OBVIOUS
    <3>2. V \notin B
      BY <2>2, <3>1
    <3> QED
      BY <2>4, <3>1, <3>2
  <2>6. PICK m \in V : \A y \in V : y <= m
    BY <2>5
  <2>7. U \subseteq Nat /\ x \in Nat /\ m \in Nat
    OBVIOUS
  <2>8. CASE x <= m
    BY <2>6, <2>7, <2>8
  <2>9. CASE m <= x
    BY <2>6, <2>7, <2>9
  <2> QED
    BY <2>7, <2>8, <2>9
<1> QED
  BY <1>1

LEMMA Appended ==
    ASSUME NEW U, NEW x \in U, NEW n \in Nat, Cardinality(U) = n + 1, Cardinality(U \ {x}) = n,
           NEW q, Sorted(q, U \ {x})
    PROVE  (U \subseteq Nat /\ \A y \in U : y <= x) => \E p : Sorted(p, U)
<1> DEFINE p == [i \in 1..(n + 1) |-> IF i = n + 1 THEN x ELSE q[i]]
<1>1. \A i \in 1..n : q[i] \in U /\ q[i] # x
  BY DEF Sorted
<1>2. \A i, j \in 1..n : i < j => q[i] < q[j]
  BY DEF Sorted
<1>3. p \in [1..(n + 1) -> U]
  BY <1>1
<1>4. ASSUME U \subseteq Nat, \A y \in U : y <= x, NEW i \in 1..(n + 1), NEW j \in 1..(n + 1),
             i < j
      PROVE  p[i] < p[j]
  <2>1. i \in 1..n /\ p[i] = q[i]
    BY <1>4
  <2>2. CASE j = n + 1
    <3>1. p[j] = x
      BY <2>2
    <3>2. q[i] \in Nat /\ x \in Nat /\ q[i] <= x /\ q[i] # x
      BY <1>1, <1>4, <2>1
    <3>3. q[i] < x
      BY <3>2
    <3> QED
      BY <2>1, <3>1, <3>3
  <2>3. CASE j # n + 1
    <3>1. j \in 1..n /\ p[j] = q[j]
      BY <2>3
    <3> QED
      BY <1>2, <1>4, <2>1, <3>1
  <2> QED
    BY <2>2, <2>3
<1> HIDE DEF p
<1> QED
  BY <1>3, <1>4 DEF Sorted

LEMMA OrderExists ==
    ASSUME NEW S, IsFiniteSet(S)
    PROVE  S \subseteq Nat => \E q : Sorted(q, S)
<1> DEFINE B == {U \in SUBSET S : U \subseteq Nat /\ ~\E q : Sorted(q, U)}
<1>1. ASSUME B # {} PROVE FALSE
  <2>1. \E U \in B : \A V \in B : V \subseteq U => V = U
    <3>1. B \subseteq SUBSET S /\ B # {} /\ IsFiniteSet(S)
      BY <1>1
    <3> HIDE DEF B
    <3> QED
      BY <3>1, SmallestSubset
  <2>2. PICK U \in B : \A V \in B : V \subseteq U => V = U
    BY <2>1
  <2>3. IsFiniteSet(U)
    BY FS_Subset
  <2>4. U # {}
    <3>1. Sorted([i \in 1..0 |-> 0], {})
      BY FS_EmptySet DEF Sorted
    <3> QED
      BY <3>1
  <2>5. \E x \in U : \A y \in U : y <= x
    BY <2>3, <2>4, GreatestExists
  <2>6. PICK x \in U : \A y \in U : y <= x
    BY <2>5
  <2>7. (U \ {x}) \in SUBSET S /\ (U \ {x}) # U /\ (U \ {x}) \subseteq U /\ (U \ {x}) \subseteq Nat
    OBVIOUS
  <2>8. (U \ {x}) \notin B
    BY <2>2, <2>7
  <2>9. PICK q : Sorted(q, U \ {x})
    BY <2>7, <2>8
  <2>10. Cardinality(U) \in Nat /\ Cardinality(U \ {x}) \in Nat
         /\ Cardinality(U \ {x}) = Cardinality(U) - 1
    BY <2>3, FS_RemoveElement, FS_CardinalityType
  <2>11. PICK n \in Nat : Cardinality(U \ {x}) = n /\ Cardinality(U) = n + 1
    BY <2>10
  <2>12. U \subseteq Nat /\ ~\E p : Sorted(p, U)
    OBVIOUS
  <2> QED
    BY <2>6, <2>9, <2>11, <2>12, Appended
<1> QED
  BY <1>1

\* InOrder has what it says: every row once, the oldest first.
LEMMA InOrderSorted ==
    ASSUME NEW S, IsFiniteSet(S)
    PROVE  S \subseteq Nat => Sorted(InOrder(S), S)
  BY OrderExists DEF InOrder, Sorted

LEMMA OneInOrder == ASSUME NEW x \in Nat PROVE InOrder({x})[1] = x /\ Cardinality({x}) = 1
<1>1. IsFiniteSet({x}) /\ Cardinality({x}) = 1
  BY FS_Singleton
<1>2. InOrder({x}) \in [1..1 -> {x}]
  BY <1>1, InOrderSorted DEF Sorted
<1> QED
  BY <1>1, <1>2

(***************************************************************************)
(* The calendar outbox.                                                    *)
(***************************************************************************)

CalendarTask == [action : {"UPSERT", "CANCEL"}, status : {"PENDING", "DONE", "FAILED"},
                 attempts : Nat]

TasksTyped ==
    /\ tasks \in Seq(CalendarTask)
    /\ \A i \in DOMAIN tasks : tasks[i].status = "PENDING" => tasks[i].attempts < MAX_TRIES

CalendarTypes ==
    /\ row \in Row /\ desk \in [Desk -> Row \cup {NoRow}]
    /\ TasksTyped
    /\ sync = [pc |-> sync.pc, queue |-> sync.queue, new |-> sync.new]
    /\ sync.pc \in {"idle", "call", "save_id", "done", "error"}
    /\ sync.new \in Entry \cup {NoEntry}
    /\ google \subseteq Entry /\ created \in 0..MaxTasks
    /\ places \in 0..MaxPlaces /\ calendar_faults \in Nat
    /\ overwritten \in BOOLEAN /\ muddled \in BOOLEAN /\ overtaken \in BOOLEAN
    /\ owes \in [Desk -> {"none", "UPSERT", "CANCEL"}]
    /\ latest \subseteq Desk /\ \A d, e \in latest : d = e /\ owes[d] # "none"

Undisturbed == ~overtaken /\ ~overwritten /\ ~muddled /\ calendar_faults = 0

\* The row has the status that the task still owed for it is about, or else the
\* last one queued ...
Meant(action) == IF action = "UPSERT" THEN "PUBLISHED" ELSE "CANCELLED"
Owed == \A d \in latest : row.status = Meant(owes[d])
Queued == row.status = IF tasks = <<>> THEN "DRAFT" ELSE Meant(tasks[Len(tasks)].action)
LastMeant == IF latest = {} THEN Queued ELSE Owed

Shows(action) == google = IF action = "UPSERT" THEN {row.calendar_event_id} ELSE {}

\* ... tasks are settled in turn, k of them so far, the cron job is busy with
\* the next one on a copy that is right, and what the last one that is done
\* wanted is what the calendar shows.
InTurn(k) ==
    /\ \A i \in DOMAIN tasks : tasks[i].status = "PENDING" <=> i > k
    /\ sync.pc # "idle" => k < Len(tasks) /\ Len(sync.queue) = 1 /\ Current.id = k + 1
    /\ sync.pc = "call" => Current.entry = row.calendar_event_id
    /\ sync.pc \in {"idle", "call", "error"} =>
           /\ google \subseteq {row.calendar_event_id}
           /\ k = 0 => google = {}
           /\ (k > 0 /\ tasks[k].status = "DONE") => Shows(tasks[k].action)
    /\ sync.pc = "save_id" => tasks[k + 1].action = "UPSERT" /\ google = {sync.new}
    /\ sync.pc = "done" => Shows(tasks[k + 1].action)

InStep == Undisturbed => LastMeant /\ \E k \in 0..Len(tasks) : InTurn(k)

CalendarInv == CalendarTypes /\ InStep

LEMMA CalendarIsRight == ASSUME CalendarInv PROVE CalendarShowsEvent
<1> SUFFICES ASSUME \A d \in Desk : owes[d] = "none",
                    \A i \in DOMAIN tasks : tasks[i].status = "DONE", sync.pc = "idle",
                    Undisturbed
             PROVE  /\ row.status = "PUBLISHED" => google = {row.calendar_event_id}
                    /\ row.status \in {"DRAFT", "CANCELLED"} => google = {}
  BY DEF CalendarShowsEvent, Undisturbed
<1>1. tasks \in Seq(CalendarTask) /\ Queued
  BY DEF CalendarInv, CalendarTypes, TasksTyped, InStep, LastMeant
<1>2. PICK k \in 0..Len(tasks) : InTurn(k)
  BY DEF CalendarInv, InStep
<1>3. k = Len(tasks)
  BY <1>1, <1>2 DEF InTurn
<1>4. CASE tasks = <<>>
  BY <1>1, <1>2, <1>3, <1>4 DEF InTurn, Queued
<1>5. CASE tasks # <<>>
  <2>1. Len(tasks) > 0 /\ tasks[Len(tasks)] \in CalendarTask /\ tasks[Len(tasks)].status = "DONE"
    BY <1>1, <1>5
  <2>2. Shows(tasks[Len(tasks)].action)
    BY <1>2, <1>3, <2>1 DEF InTurn
  <2> QED
    BY <1>1, <1>5, <2>1, <2>2 DEF Queued, Meant, Shows, CalendarTask
<1> QED
  BY <1>4, <1>5

LEMMA CalendarStart == CalendarInit => CalendarInv
<1> SUFFICES ASSUME CalendarInit PROVE CalendarInv
  OBVIOUS
<1>1. /\ row = [status |-> "DRAFT", sold_total |-> 0, calendar_event_id |-> NoEntry]
      /\ desk = [d \in Desk |-> NoRow] /\ tasks = <<>>
      /\ sync.pc = "idle" /\ sync.new = NoEntry
      /\ sync = [pc |-> sync.pc, queue |-> sync.queue, new |-> sync.new]
      /\ google = {} /\ created = 0 /\ places = 0 /\ calendar_faults = 0
      /\ overwritten = FALSE /\ muddled = FALSE /\ overtaken = FALSE
      /\ owes = [d \in Desk |-> "none"] /\ latest = {}
  BY DEF CalendarInit, NoJob
<1>2. row \in Row /\ row.status = "DRAFT"
  BY <1>1, CalendarAssumption DEF Row
<1>3. CalendarTypes
  <2>1. TasksTyped
    BY <1>1 DEF TasksTyped
  <2>2. created \in 0..MaxTasks /\ places \in 0..MaxPlaces /\ calendar_faults \in Nat
    BY <1>1, CalendarAssumption
  <2>3. desk \in [Desk -> Row \cup {NoRow}]
    BY <1>1
  <2> QED
    BY <1>1, <1>2, <2>1, <2>2, <2>3 DEF CalendarTypes
<1>4. LastMeant /\ InTurn(0) /\ 0 \in 0..Len(tasks)
  BY <1>1, <1>2 DEF LastMeant, Queued, InTurn
<1> QED
  BY <1>3, <1>4 DEF CalendarInv, InStep

\* Staff add a task.
LEMMA Enqueued ==
    ASSUME CalendarInv, NEW action \in {"UPSERT", "CANCEL"}, enqueue_calendar_sync(action),
           UNCHANGED <<sync, google>>,
           Undisturbed' => /\ Undisturbed
                           /\ row'.calendar_event_id = row.calendar_event_id
                           /\ IF latest' = {} THEN row'.status = Meant(action) ELSE Owed'
    PROVE  TasksTyped' /\ InStep'
<1> DEFINE task == [action |-> action, status |-> "PENDING", attempts |-> 0]
<1>1. task \in CalendarTask /\ task.status = "PENDING" /\ task.attempts = 0
      /\ task.action = action
  BY DEF CalendarTask
<1>2. tasks' = Append(tasks, task) /\ tasks \in Seq(CalendarTask)
  BY DEF enqueue_calendar_sync, CalendarInv, CalendarTypes, TasksTyped
<1> HIDE DEF task
<1>3. /\ tasks' \in Seq(CalendarTask) /\ Len(tasks') = Len(tasks) + 1 /\ Len(tasks) \in Nat
      /\ tasks'[Len(tasks) + 1] = task
      /\ \A i \in 1..Len(tasks) : tasks'[i] = tasks[i]
  BY <1>1, <1>2
<1>4. DOMAIN tasks = 1..Len(tasks) /\ DOMAIN tasks' = 1..Len(tasks')
  BY <1>2, <1>3
<1>5. \A i \in DOMAIN tasks' : tasks'[i].status = "PENDING" => tasks'[i].attempts < MAX_TRIES
  BY <1>1, <1>3, <1>4, CalendarAssumption DEF CalendarInv, CalendarTypes, TasksTyped
<1>6. ASSUME Undisturbed'
      PROVE  LastMeant' /\ \E k \in 0..Len(tasks') : InTurn(k)'
  <2>1. Undisturbed /\ row'.calendar_event_id = row.calendar_event_id
    BY <1>6
  <2>2. PICK k \in 0..Len(tasks) : InTurn(k)
    BY <2>1 DEF CalendarInv, InStep
  <2>3. LastMeant'
    <3>1. latest' = {} => Queued'
      BY <1>1, <1>3, <1>6 DEF Queued
    <3> QED
      BY <1>6, <3>1 DEF LastMeant
  <2>4. k \in 0..Len(tasks')
    BY <1>3
  <2>5. \A i \in DOMAIN tasks' : tasks'[i].status = "PENDING" <=> i > k
    BY <1>1, <1>3, <1>4, <2>2 DEF InTurn
  <2>6. k > 0 => tasks'[k] = tasks[k]
    BY <1>3
  <2>7. sync.pc # "idle" => k < Len(tasks') /\ tasks'[k + 1] = tasks[k + 1]
    BY <1>3, <2>2 DEF InTurn
  <2>8. InTurn(k)'
    BY <2>1, <2>2, <2>5, <2>6, <2>7 DEF InTurn, Shows, Current
  <2> QED
    BY <2>3, <2>4, <2>8
<1> QED
  BY <1>3, <1>5, <1>6 DEF TasksTyped, InStep

\* Nothing happens to the tasks that are queued.
LEMMA StaysInTurn ==
    ASSUME CalendarInv, UNCHANGED <<sync, google, tasks>>,
           Undisturbed' => /\ Undisturbed
                           /\ row'.calendar_event_id = row.calendar_event_id
                           /\ LastMeant => LastMeant'
    PROVE  InStep'
<1> SUFFICES ASSUME Undisturbed'
             PROVE  LastMeant' /\ \E k \in 0..Len(tasks') : InTurn(k)'
  BY DEF InStep
<1>1. Undisturbed /\ row'.calendar_event_id = row.calendar_event_id
  OBVIOUS
<1>2. PICK k \in 0..Len(tasks) : InTurn(k)
  BY <1>1 DEF CalendarInv, InStep
<1>3. LastMeant'
  BY <1>1 DEF CalendarInv, InStep
<1>4. InTurn(k)'
  BY <1>1, <1>2 DEF InTurn, Shows, Current
<1> QED
  BY <1>3, <1>4

LEMMA SameMeant ==
    ASSUME UNCHANGED <<tasks, owes, latest>>, row'.status = row.status
    PROVE  LastMeant => LastMeant'
  BY DEF LastMeant, Queued, Owed

\* Staff and buyers change the row.
LEMMA StaffTypes ==
    ASSUME CalendarTypes, NEW d \in Desk,
           \/ LoadRow(d) \/ publish_event(d) \/ cancel_event(d)
           \/ QueueTask(d) \/ LoseDesk(d) \/ save_model(d) \/ publish_and_redirect(d)
    PROVE  /\ row' \in Row /\ desk' \in [Desk -> Row \cup {NoRow}] /\ places' = places
           /\ owes' \in [Desk -> {"none", "UPSERT", "CANCEL"}]
           /\ latest' \subseteq Desk /\ \A x, y \in latest' : x = y /\ owes'[x] # "none"
           /\ overwritten' \in BOOLEAN /\ overtaken' \in BOOLEAN /\ calendar_faults' \in Nat
           /\ UNCHANGED <<sync, google, created, muddled>>
<1>1. PICK o \in [Desk -> {"none", "UPSERT", "CANCEL"}] : o = owes
  BY DEF CalendarTypes
<1>2. ASSUME LoadRow(d) \/ QueueTask(d) \/ LoseDesk(d)
      PROVE  /\ row' \in Row /\ desk' \in [Desk -> Row \cup {NoRow}]
             /\ overtaken' \in BOOLEAN /\ overwritten' = overwritten
             /\ UNCHANGED <<owes, latest>> \/ /\ owes' = [owes EXCEPT ![d] = "none"]
                                               /\ latest' = latest \ {d}
  BY <1>2 DEF LoadRow, QueueTask, LoseDesk, CalendarTypes, oweVars
<1>3. ASSUME publish_event(d) \/ cancel_event(d)
      PROVE  /\ row' \in Row /\ desk' \in [Desk -> Row \cup {NoRow}]
             /\ UNCHANGED <<overtaken, overwritten>>
             /\ latest' = {d}
             /\ \E action \in {"UPSERT", "CANCEL"} : owes' = [owes EXCEPT ![d] = action]
  BY <1>3 DEF publish_event, cancel_event, Owes, Leaves, CalendarTypes, Row
<1>4. ASSUME save_model(d) \/ publish_and_redirect(d)
      PROVE  /\ row' \in Row /\ desk' \in [Desk -> Row \cup {NoRow}]
             /\ UNCHANGED <<overtaken, owes>> /\ overwritten' \in BOOLEAN
             /\ latest' \in {latest, {}}
  <2>1. desk[d] \in Row
    BY <1>4 DEF save_model, publish_and_redirect, NoRow, CalendarTypes
  <2>2. [desk[d] EXCEPT !.status = "PUBLISHED"] \in Row
    BY <2>1 DEF Row
  <2> QED
    BY <1>4, <2>1, <2>2 DEF save_model, publish_and_redirect, SaveWhole, Leaves, CalendarTypes
<1>5. /\ owes' \in [Desk -> {"none", "UPSERT", "CANCEL"}]
      /\ latest' \subseteq Desk /\ \A x, y \in latest' : x = y /\ owes'[x] # "none"
  BY <1>1, <1>2, <1>3, <1>4 DEF CalendarTypes
<1>6. UNCHANGED <<sync, google, created, muddled, places>> /\ calendar_faults' \in Nat
  BY DEF LoadRow, publish_event, cancel_event, QueueTask, LoseDesk, save_model,
         publish_and_redirect, SaveWhole, googleVars, CalendarTypes
<1> QED
  BY <1>2, <1>3, <1>4, <1>5, <1>6 DEF CalendarTypes

LEMMA StaffTasks ==
    ASSUME CalendarInv, NEW d \in Desk,
           \/ LoadRow(d) \/ publish_event(d) \/ cancel_event(d)
           \/ QueueTask(d) \/ LoseDesk(d) \/ save_model(d) \/ publish_and_redirect(d)
    PROVE  TasksTyped' /\ InStep'
<1>1. CalendarTypes /\ TasksTyped
  BY DEF CalendarInv, CalendarTypes
<1>2. UNCHANGED <<sync, google, muddled>>
  BY <1>1, StaffTypes
<1>3. ASSUME UNCHANGED tasks PROVE TasksTyped'
  BY <1>1, <1>3 DEF TasksTyped
<1>4. CASE LoadRow(d)
  BY <1>2, <1>3, <1>4, StaysInTurn, SameMeant DEF LoadRow, oweVars, Undisturbed
<1>5. CASE publish_event(d) \/ cancel_event(d)
  <2>1. PICK action \in {"UPSERT", "CANCEL"} :
            row' = [row EXCEPT !.status = Meant(action)] /\ Owes(d, action)
    BY <1>5 DEF publish_event, cancel_event, Meant
  <2>2. /\ UNCHANGED <<tasks, overtaken, overwritten, calendar_faults>> /\ latest' = {d}
        /\ owes'[d] = action
    BY <1>1, <1>5, <2>1 DEF publish_event, cancel_event, Owes, CalendarTypes
  <2>3. row'.status = Meant(action) /\ row'.calendar_event_id = row.calendar_event_id
    BY <1>1, <2>1 DEF CalendarTypes, Row
  <2>4. LastMeant'
    BY <2>2, <2>3 DEF LastMeant, Owed
  <2> QED
    BY <1>2, <1>3, <2>2, <2>3, <2>4, StaysInTurn DEF Undisturbed
<1>6. CASE QueueTask(d)
  <2>1. PICK action \in {"UPSERT", "CANCEL"} : action = owes[d]
    BY <1>1, <1>6 DEF QueueTask, CalendarTypes
  <2>2. /\ enqueue_calendar_sync(action) /\ latest' = latest \ {d}
        /\ overtaken' = (overtaken \/ latest = {}) /\ owes' = [owes EXCEPT ![d] = "none"]
        /\ UNCHANGED <<row, overwritten, calendar_faults>>
    BY <1>6, <2>1 DEF QueueTask
  <2>3. ASSUME Undisturbed'
        PROVE  /\ Undisturbed
               /\ IF latest' = {} THEN row'.status = Meant(action) ELSE Owed'
    <3>1. Undisturbed /\ latest # {}
      BY <1>1, <1>2, <2>2, <2>3 DEF Undisturbed, CalendarTypes
    <3>2. Owed
      BY <3>1 DEF CalendarInv, InStep, LastMeant
    <3>3. CASE latest' = {}
      <4>1. d \in latest
        BY <2>2, <3>1, <3>3
      <4> QED
        BY <2>1, <2>2, <3>1, <3>2, <3>3, <4>1 DEF Owed
    <3>4. CASE latest' # {}
      <4>1. \A e \in latest' : e \in latest /\ owes'[e] = owes[e]
        BY <1>1, <2>2 DEF CalendarTypes
      <4> QED
        BY <2>2, <3>1, <3>2, <3>4, <4>1 DEF Owed
    <3> QED
      BY <3>3, <3>4
  <2> QED
    BY <1>2, <2>2, <2>3, Enqueued
<1>7. CASE LoseDesk(d)
  <2>1. ~Undisturbed'
    BY <1>1, <1>7 DEF LoseDesk, Undisturbed, CalendarTypes
  <2> QED
    BY <1>3, <1>7, <2>1 DEF LoseDesk, InStep
<1>8. ASSUME NEW new, SaveWhole(d, new), new.status # "PUBLISHED" => new = desk[d],
             new.calendar_event_id = desk[d].calendar_event_id
      PROVE  TasksTyped' /\ InStep'
  <2>1. /\ row' = new /\ overwritten' = (overwritten \/ row # desk[d])
        /\ UNCHANGED <<owes, overtaken, calendar_faults>>
    BY <1>8 DEF SaveWhole
  <2>2. Undisturbed' => Undisturbed /\ row'.calendar_event_id = row.calendar_event_id
                        /\ row = desk[d]
    BY <1>1, <1>2, <1>8, <2>1 DEF Undisturbed, CalendarTypes
  <2>3. CASE new.status = "PUBLISHED"
    <3>1. row'.status = Meant("UPSERT") /\ enqueue_calendar_sync("UPSERT") /\ latest' = {}
      BY <1>8, <2>1, <2>3 DEF SaveWhole, Meant
    <3> QED
      BY <1>2, <2>2, <3>1, Enqueued
  <2>4. CASE new.status # "PUBLISHED"
    <3>1. UNCHANGED <<tasks, latest>> /\ row' = desk[d]
      BY <1>8, <2>1, <2>4 DEF SaveWhole
    <3>2. Undisturbed' => (LastMeant => LastMeant')
      BY <2>1, <2>2, <3>1, SameMeant
    <3> QED
      BY <1>2, <1>3, <2>2, <3>1, <3>2, StaysInTurn
  <2> QED
    BY <2>3, <2>4
<1>9. CASE save_model(d)
  BY <1>8, <1>9 DEF save_model
<1>10. CASE publish_and_redirect(d)
  <2>1. PICK new : /\ new = [desk[d] EXCEPT !.status = "PUBLISHED"]
                   /\ new.status = "PUBLISHED"
                   /\ new.calendar_event_id = desk[d].calendar_event_id
    <3>1. PICK old \in Row : old = desk[d]
      BY <1>1, <1>10 DEF publish_and_redirect, NoRow, CalendarTypes
    <3>2. PICK new : new = [old EXCEPT !.status = "PUBLISHED"]
      OBVIOUS
    <3>3. new.status = "PUBLISHED" /\ new.calendar_event_id = old.calendar_event_id
      BY <3>1, <3>2 DEF Row
    <3> QED
      BY <3>1, <3>2, <3>3
  <2>2. SaveWhole(d, new)
    BY <1>10, <2>1 DEF publish_and_redirect
  <2> QED
    BY <1>8, <2>1, <2>2
<1> QED
  BY <1>4, <1>5, <1>6, <1>7, <1>9, <1>10

LEMMA StaffStep ==
    ASSUME CalendarInv,
           \/ \E d \in Desk : \/ LoadRow(d) \/ publish_event(d) \/ cancel_event(d)
                              \/ QueueTask(d) \/ LoseDesk(d) \/ save_model(d)
                              \/ publish_and_redirect(d)
           \/ Sell \/ GiveBack
    PROVE  CalendarInv'
<1>1. CalendarTypes
  BY DEF CalendarInv
<1>2. CASE Sell \/ GiveBack
  <2>1. PICK n \in 0..MaxPlaces : n = row.sold_total
    BY <1>1 DEF CalendarTypes, Row
  <2>2. PICK new \in {n + 1, n - 1} :
            row' = [row EXCEPT !.sold_total = new] /\ new \in 0..MaxPlaces
    BY <1>2, <2>1, CalendarAssumption DEF Sell, GiveBack
  <2>3. /\ places' \in 0..MaxPlaces
        /\ UNCHANGED <<desk, owes, tasks, sync, google, created, overwritten, muddled, latest,
                       overtaken, calendar_faults>>
    BY <1>1, <1>2, CalendarAssumption DEF Sell, GiveBack, CalendarTypes, googleVars, oweVars
  <2>4. /\ row' \in Row /\ row'.status = row.status
        /\ row'.calendar_event_id = row.calendar_event_id
    BY <1>1, <2>2 DEF CalendarTypes, Row
  <2>5. InStep'
    BY <2>3, <2>4, StaysInTurn, SameMeant DEF Undisturbed
  <2> QED
    BY <1>1, <2>3, <2>4, <2>5 DEF CalendarInv, CalendarTypes, TasksTyped
<1>3. ASSUME NEW d \in Desk,
             \/ LoadRow(d) \/ publish_event(d) \/ cancel_event(d)
             \/ QueueTask(d) \/ LoseDesk(d) \/ save_model(d) \/ publish_and_redirect(d)
      PROVE  CalendarInv'
  <2>1. TasksTyped' /\ InStep'
    BY <1>3, StaffTasks
  <2>2. /\ row' \in Row /\ desk' \in [Desk -> Row \cup {NoRow}] /\ places' = places
        /\ owes' \in [Desk -> {"none", "UPSERT", "CANCEL"}]
        /\ latest' \subseteq Desk /\ \A x, y \in latest' : x = y /\ owes'[x] # "none"
        /\ overwritten' \in BOOLEAN /\ overtaken' \in BOOLEAN /\ calendar_faults' \in Nat
        /\ UNCHANGED <<sync, google, created, muddled>>
    BY <1>1, <1>3, StaffTypes
  <2> QED
    BY <1>1, <2>1, <2>2 DEF CalendarInv, CalendarTypes
<1> QED
  BY <1>2, <1>3

\* The cron job lists what is due: all of it, but then two tasks at most once.
LEMMA ListStep == ASSUME CalendarInv, ListTasks PROVE CalendarInv'
<1> DEFINE listed == [n \in 1..Cardinality(DueTasks) |->
                         [id |-> InOrder(DueTasks)[n], entry |-> row.calendar_event_id]]
<1>1. CalendarTypes /\ TasksTyped
  BY DEF CalendarInv, CalendarTypes
<1>2. /\ sync.pc = "idle" /\ DueTasks # {}
      /\ sync' = [sync EXCEPT !.pc = "call", !.queue = listed]
      /\ muddled' = (muddled \/ Cardinality(DueTasks) > 1)
      /\ UNCHANGED <<row, desk, tasks, google, created, places, overwritten, calendar_faults>>
      /\ UNCHANGED <<owes, latest, overtaken>>
  BY DEF ListTasks, googleVars, oweVars
<1> HIDE DEF listed
<1>3. /\ sync'.pc = "call" /\ sync'.queue = listed /\ sync'.new = sync.new
      /\ sync' = [pc |-> sync'.pc, queue |-> sync'.queue, new |-> sync'.new]
  BY <1>1, <1>2 DEF CalendarTypes
<1>4. CalendarTypes'
  BY <1>1, <1>2, <1>3 DEF CalendarTypes, TasksTyped
<1>5. ASSUME Undisturbed'
      PROVE  LastMeant' /\ \E k \in 0..Len(tasks') : InTurn(k)'
  <2>1. Undisturbed /\ ~(Cardinality(DueTasks) > 1)
    BY <1>2, <1>5 DEF Undisturbed
  <2>2. PICK k \in 0..Len(tasks) : InTurn(k)
    BY <2>1 DEF CalendarInv, InStep
  <2>3. DOMAIN tasks = 1..Len(tasks) /\ Len(tasks) \in Nat
    BY <1>1 DEF TasksTyped
  <2>4. \A i \in 1..Len(tasks) : i \in DueTasks <=> i > k
    BY <1>1, <2>2, <2>3 DEF TasksTyped, InTurn, DueTasks
  <2>5. DueTasks \subseteq 1..Len(tasks)
    BY <2>3 DEF DueTasks
  <2>6. DueTasks = {k + 1} /\ k + 1 \in 1..Len(tasks)
    <3>1. IsFiniteSet(DueTasks)
      <4>1. IsFiniteSet(1..Len(tasks))
        BY <2>3, FS_Interval
      <4> QED
        BY <2>5, <4>1, FS_Subset
    <3>2. Cardinality(DueTasks) = 1
      BY <1>2, <2>1, <3>1, FS_CardinalityType, FS_EmptySet
    <3>3. PICK x : DueTasks = {x}
      BY <3>1, <3>2, FS_Singleton
    <3>4. x \in 1..Len(tasks) /\ x > k
      BY <2>4, <2>5, <3>3
    <3>5. k + 1 \in 1..Len(tasks) /\ k + 1 > k
      BY <2>3, <3>4
    <3> QED
      BY <2>4, <3>3, <3>5
  <2>7. InOrder(DueTasks)[1] = k + 1 /\ Cardinality(DueTasks) = 1
    <3>1. k + 1 \in Nat
      BY <2>3
    <3> QED
      BY <2>6, <3>1, OneInOrder
  <2>8. Len(listed) = 1 /\ listed[1].id = k + 1 /\ listed[1].entry = row.calendar_event_id
        /\ Head(listed) = listed[1]
    BY <2>7 DEF listed
  <2>9. InTurn(k)'
    BY <1>2, <1>3, <2>2, <2>3, <2>6, <2>8 DEF InTurn, Shows, Current
  <2>10. LastMeant'
    BY <1>2, <2>1, SameMeant DEF CalendarInv, InStep
  <2> QED
    BY <1>2, <2>9, <2>10
<1> QED
  BY <1>4, <1>5 DEF CalendarInv, InStep

LEMMA Answers ==
    ASSUME CalendarTypes, NEW pc, NEW new, Answer(pc, new)
    PROVE  /\ sync' = [pc |-> sync'.pc, queue |-> sync'.queue, new |-> sync'.new]
           /\ sync'.pc = pc /\ sync'.queue = sync.queue /\ sync'.new = new
  BY DEF Answer, CalendarTypes

\* Google is called, or the new entry is kept in the row.
LEMMA CallStep ==
    ASSUME CalendarInv, Patch \/ Insert \/ DeleteEntry \/ CallFails \/ SaveId
    PROVE  CalendarInv'
<1>1. CalendarTypes /\ TasksTyped
  BY DEF CalendarInv, CalendarTypes
<1>2. UNCHANGED <<desk, tasks, places, overwritten, muddled, owes, latest, overtaken>>
  BY DEF Patch, Insert, DeleteEntry, CallFails, SaveId, googleVars, oweVars
<1>3. /\ sync' = [pc |-> sync'.pc, queue |-> sync'.queue, new |-> sync'.new]
      /\ sync'.pc \in {"done", "error", "save_id"} /\ sync'.queue = sync.queue
      /\ sync'.new \in Entry \cup {NoEntry}
      /\ google' \subseteq Entry /\ created' \in 0..MaxTasks /\ calendar_faults' \in Nat
      /\ row' \in Row /\ row'.status = row.status
  <2>1. CASE Patch \/ DeleteEntry \/ CallFails
    BY <1>1, <2>1, Answers DEF Patch, DeleteEntry, CallFails, googleVars, CalendarTypes
  <2>2. CASE Insert
    <3>1. created + 1 \in Entry
      BY <1>1, <2>2, CalendarAssumption DEF Insert, CalendarTypes, Entry
    <3>2. google' \subseteq Entry /\ created' \in 0..MaxTasks /\ calendar_faults' \in Nat
          /\ row' = row
      BY <1>1, <2>2, <3>1 DEF Insert, CalendarTypes, Entry
    <3> QED
      BY <1>1, <2>2, <3>1, <3>2, Answers DEF Insert, CalendarTypes
  <2>3. CASE SaveId
    BY <1>1, <2>3, Answers DEF SaveId, googleVars, CalendarTypes, Row
  <2> QED
    BY <2>1, <2>2, <2>3
<1>4. CalendarTypes'
  BY <1>1, <1>2, <1>3 DEF CalendarTypes, TasksTyped
<1>5. ASSUME Undisturbed'
      PROVE  LastMeant' /\ \E k \in 0..Len(tasks') : InTurn(k)'
  <2>1. Undisturbed
    <3>1. calendar_faults' = calendar_faults \/ calendar_faults' = calendar_faults + 1
      BY DEF Patch, Insert, DeleteEntry, CallFails, SaveId
    <3> QED
      BY <1>1, <1>2, <1>5, <3>1 DEF Undisturbed, CalendarTypes
  <2>2. PICK k \in 0..Len(tasks) : InTurn(k)
    BY <2>1 DEF CalendarInv, InStep
  <2>3. LastMeant'
    BY <1>2, <1>3, <2>1, SameMeant DEF CalendarInv, InStep
  <2>4. Current' = Current
    BY <1>3 DEF Current
  <2>5. \A i \in DOMAIN tasks' : tasks'[i].status = "PENDING" <=> i > k
    BY <1>2, <2>2 DEF InTurn
  <2>6. k < Len(tasks) /\ Len(sync.queue) = 1 /\ Current.id = k + 1
    BY <2>2 DEF InTurn, Patch, Insert, DeleteEntry, CallFails, SaveId
  <2>7. sync.pc = "call" =>
            /\ Current.entry = row.calendar_event_id /\ google \subseteq {row.calendar_event_id}
            /\ Action = tasks[k + 1].action
            /\ k = 0 => google = {}
            /\ (k > 0 /\ tasks[k].status = "DONE") => Shows(tasks[k].action)
    BY <2>2, <2>6 DEF InTurn, Action
  <2>8. /\ sync'.pc = "error" =>
               /\ google' \subseteq {row'.calendar_event_id}
               /\ k = 0 => google' = {}
               /\ (k > 0 /\ tasks[k].status = "DONE") => Shows(tasks[k].action)'
        /\ sync'.pc = "save_id" => tasks[k + 1].action = "UPSERT" /\ google' = {sync'.new}
        /\ sync'.pc = "done" => Shows(tasks[k + 1].action)'
    <3>1. CASE Patch
      BY <1>1, <1>2, <2>7, <3>1, Answers DEF Patch, Shows, googleVars
    <3>2. CASE Insert
      <4>1. google = {}
        BY <1>1, <2>7, <3>2, CalendarAssumption DEF Insert, CalendarTypes, Entry
      <4>2. calendar_faults' = 0 /\ calendar_faults = 0
        BY <1>5, <2>1 DEF Undisturbed
      <4>3. Answer("save_id", created + 1) /\ google' = google \cup {created + 1}
        BY <3>2, <4>2 DEF Insert
      <4> QED
        BY <1>1, <2>7, <3>2, <4>1, <4>3, Answers DEF Insert
    <3>3. CASE DeleteEntry
      <4>1. Current.entry \in google \cup {NoEntry} => google' = {}
        BY <1>1, <2>7, <3>3, CalendarAssumption DEF DeleteEntry, CalendarTypes, Entry
      <4>2. Current.entry \notin google \cup {NoEntry} => google' = google
        BY <3>3 DEF DeleteEntry
      <4> QED
        BY <1>1, <1>2, <2>7, <3>3, <4>1, <4>2, Answers DEF DeleteEntry, Shows
    <3>4. CASE CallFails
      BY <1>1, <1>2, <2>7, <3>4, Answers DEF CallFails, Shows, googleVars
    <3>5. CASE SaveId
      <4>1. google' = {sync.new} /\ tasks[k + 1].action = "UPSERT" /\ sync'.pc = "done"
        BY <1>1, <2>2, <3>5, Answers DEF SaveId, InTurn, googleVars
      <4>2. row'.calendar_event_id = sync.new
        BY <1>1, <3>5 DEF SaveId, CalendarTypes, Row
      <4> QED
        BY <1>2, <4>1, <4>2 DEF Shows
    <3> QED
      BY <3>1, <3>2, <3>3, <3>4, <3>5
  <2>9. InTurn(k)'
    BY <1>2, <1>3, <2>4, <2>5, <2>6, <2>8 DEF InTurn, Shows
  <2> QED
    BY <1>2, <2>3, <2>9
<1> QED
  BY <1>4, <1>5 DEF CalendarInv, InStep

\* What becomes of the task that is done or has failed.
LEMMA SettledTask ==
    ASSUME CalendarInv, SaveTask, NEW c, c = Current.id, c \in DOMAIN tasks
    PROVE  \E task \in CalendarTask :
               /\ tasks' = [tasks EXCEPT ![c] = task]
               /\ task.action = tasks[c].action
               /\ task.status = IF sync.pc = "done" THEN "DONE"
                                ELSE IF tasks[c].attempts + 1 >= MAX_TRIES THEN "FAILED"
                                ELSE tasks[c].status
               /\ task.attempts = tasks[c].attempts + 1
<1> DEFINE n == tasks[c].attempts + 1
           s == IF sync.pc = "done" THEN "DONE"
                ELSE IF n >= MAX_TRIES THEN "FAILED" ELSE tasks[c].status
<1>1. TasksTyped
  BY DEF CalendarInv, CalendarTypes
<1>2. PICK old \in CalendarTask : old = tasks[c]
  BY <1>1 DEF TasksTyped
<1>3. n \in Nat /\ s \in {"PENDING", "DONE", "FAILED"}
  BY <1>2 DEF CalendarTask
<1>4. tasks' = [tasks EXCEPT ![c].attempts = n, ![c].status = s]
  BY DEF SaveTask
<1> HIDE DEF n, s
<1> DEFINE task == [old EXCEPT !.attempts = n, !.status = s]
<1>5. task \in CalendarTask /\ task.action = old.action /\ task.status = s /\ task.attempts = n
  BY <1>3 DEF CalendarTask
<1>6. tasks' = [tasks EXCEPT ![c] = task]
  BY <1>1, <1>2, <1>4 DEF TasksTyped
<1> HIDE DEF task
<1> QED
  BY <1>2, <1>5, <1>6 DEF n, s

\* The task is settled, or stays as it was to be tried again.
LEMMA SettleStep == ASSUME CalendarInv, SaveTask PROVE CalendarInv'
<1>1. CalendarTypes /\ TasksTyped
  BY DEF CalendarInv, CalendarTypes
<1>2. /\ UNCHANGED <<row, desk, google, created, places, overwritten, muddled, calendar_faults>>
      /\ UNCHANGED <<owes, latest, overtaken>>
      /\ sync.pc \in {"done", "error"}
      /\ sync' = [NoJob EXCEPT !.pc = IF Len(sync.queue) = 1 THEN "idle" ELSE "call",
                               !.queue = Tail(sync.queue)]
  BY DEF SaveTask, googleVars, oweVars
<1>3. /\ sync' = [pc |-> sync'.pc, queue |-> sync'.queue, new |-> sync'.new]
      /\ sync'.pc = IF Len(sync.queue) = 1 THEN "idle" ELSE "call"
      /\ sync'.queue = Tail(sync.queue) /\ sync'.new = NoEntry
  BY <1>2 DEF NoJob
<1>4. TasksTyped'
  <2>1. CASE Current.id \in DOMAIN tasks
    <3>1. PICK c : c = Current.id
      OBVIOUS
    <3>2. PICK task \in CalendarTask :
              /\ tasks' = [tasks EXCEPT ![c] = task]
              /\ task.status = IF sync.pc = "done" THEN "DONE"
                               ELSE IF tasks[c].attempts + 1 >= MAX_TRIES THEN "FAILED"
                               ELSE tasks[c].status
              /\ task.attempts = tasks[c].attempts + 1
      BY <2>1, <3>1, SettledTask
    <3>3. tasks[c].attempts + 1 \in Nat
      <4>1. tasks[c] \in CalendarTask
        BY <1>1, <2>1, <3>1 DEF TasksTyped
      <4> QED
        BY <4>1 DEF CalendarTask
    <3>4. task.status = "PENDING" => task.attempts < MAX_TRIES
      BY <3>2, <3>3, CalendarAssumption
    <3> QED
      BY <1>1, <2>1, <3>1, <3>2, <3>4 DEF TasksTyped
  <2>2. CASE Current.id \notin DOMAIN tasks
    <3>1. tasks' = tasks
      BY <1>1, <2>2 DEF SaveTask, TasksTyped
    <3> QED
      BY <1>1, <3>1 DEF TasksTyped
  <2> QED
    BY <2>1, <2>2
<1>5. CalendarTypes'
  BY <1>1, <1>2, <1>3, <1>4 DEF CalendarTypes
<1>6. ASSUME Undisturbed'
      PROVE  LastMeant' /\ \E k \in 0..Len(tasks') : InTurn(k)'
  <2>1. Undisturbed
    BY <1>2, <1>6 DEF Undisturbed
  <2>2. PICK k \in 0..Len(tasks) : InTurn(k)
    BY <2>1 DEF CalendarInv, InStep
  <2>3. k < Len(tasks) /\ Len(sync.queue) = 1 /\ Current.id = k + 1
    BY <1>2, <2>2 DEF InTurn
  <2>4. k + 1 \in DOMAIN tasks /\ Len(tasks) \in Nat /\ DOMAIN tasks = 1..Len(tasks)
    BY <1>1, <2>3 DEF TasksTyped
  <2>5. PICK task \in CalendarTask :
            /\ tasks' = [tasks EXCEPT ![k + 1] = task]
            /\ task.action = tasks[k + 1].action
            /\ task.status = IF sync.pc = "done" THEN "DONE"
                             ELSE IF tasks[k + 1].attempts + 1 >= MAX_TRIES THEN "FAILED"
                             ELSE tasks[k + 1].status
    BY <2>3, <2>4, SettledTask
  <2>6. /\ Len(tasks') = Len(tasks) /\ DOMAIN tasks' = DOMAIN tasks /\ tasks'[k + 1] = task
        /\ \A i \in DOMAIN tasks : i # k + 1 => tasks'[i] = tasks[i]
    BY <1>1, <2>4, <2>5 DEF TasksTyped
  <2>7. LastMeant'
    <3>1. tasks # <<>> /\ Len(tasks) \in DOMAIN tasks /\ tasks' # <<>>
      BY <1>1, <2>4, <2>6 DEF TasksTyped
    <3>2. tasks'[Len(tasks)].action = tasks[Len(tasks)].action
      BY <2>5, <2>6, <3>1
    <3> QED
      BY <1>2, <2>1, <2>6, <3>1, <3>2 DEF LastMeant, Queued, Owed, CalendarInv, InStep
  <2>8. sync'.pc = "idle"
    BY <1>3, <2>3
  <2>9. CASE task.status = "PENDING"
    <3>1. sync.pc = "error"
      BY <1>2, <2>5, <2>9
    <3>2. k > 0 => tasks'[k] = tasks[k]
      BY <2>4, <2>6
    <3>3. \A i \in DOMAIN tasks' : tasks'[i].status = "PENDING" <=> i > k
      BY <2>2, <2>4, <2>6, <2>9 DEF InTurn
    <3>4. InTurn(k)'
      BY <1>2, <2>2, <2>8, <3>1, <3>2, <3>3 DEF InTurn, Shows
    <3> QED
      BY <2>6, <2>7, <3>4
  <2>10. CASE task.status # "PENDING"
    <3>1. \A i \in DOMAIN tasks' : tasks'[i].status = "PENDING" <=> i > k + 1
      BY <2>2, <2>4, <2>6, <2>10 DEF InTurn
    <3>2. google \subseteq {row.calendar_event_id}
      BY <1>2, <2>2 DEF InTurn, Shows
    <3>3. task.status = "DONE" => sync.pc = "done"
      <4>1. tasks[k + 1].status = "PENDING"
        BY <2>2, <2>4 DEF InTurn
      <4> QED
        BY <1>2, <2>5, <4>1
    <3>4. task.status = "DONE" => Shows(tasks[k + 1].action)
      BY <2>2, <3>3 DEF InTurn
    <3>5. k + 1 \in 0..Len(tasks') /\ k + 1 # 0
      BY <2>4, <2>6
    <3>6. InTurn(k + 1)'
      BY <1>2, <2>5, <2>6, <2>8, <3>1, <3>2, <3>4, <3>5 DEF InTurn, Shows
    <3> QED
      BY <2>7, <3>5, <3>6
  <2> QED
    BY <2>9, <2>10
<1> QED
  BY <1>5, <1>6 DEF CalendarInv, InStep

LEMMA CalendarStep == CalendarInv /\ [CalendarNext]_eventRowVars => CalendarInv'
<1> SUFFICES ASSUME CalendarInv, [CalendarNext]_eventRowVars PROVE CalendarInv'
  OBVIOUS
<1>1. CASE LoseSync
  <2>1. /\ UNCHANGED <<row, desk, tasks, google, created, places, overwritten, muddled>>
        /\ UNCHANGED <<owes, latest, overtaken>>
        /\ calendar_faults' = calendar_faults + 1 /\ sync' = NoJob
    BY <1>1 DEF LoseSync, googleVars, oweVars
  <2>2. CalendarTypes'
    BY <2>1 DEF CalendarInv, CalendarTypes, TasksTyped, NoJob
  <2>3. ~Undisturbed'
    BY <2>1 DEF CalendarInv, CalendarTypes, Undisturbed
  <2> QED
    BY <2>2, <2>3 DEF CalendarInv, InStep
<1>2. CASE UNCHANGED eventRowVars
  <2>1. CalendarTypes'
    BY <1>2 DEF CalendarInv, CalendarTypes, TasksTyped, eventRowVars
  <2>2. InStep'
    BY <1>2, StaysInTurn, SameMeant DEF eventRowVars, Undisturbed
  <2> QED
    BY <2>1, <2>2 DEF CalendarInv
<1> QED
  BY <1>1, <1>2, StaffStep, ListStep, CallStep, SettleStep DEF CalendarNext, SyncStep

LEMMA CalendarInvHolds == CalendarSpec => []CalendarInv
  BY CalendarStart, CalendarStep, PTL DEF CalendarSpec

\* With every task done the calendar shows the event once if it is published
\* and not at all if it is cancelled (events/calendar.py).
THEOREM CalendarAlwaysShowsEvent == CalendarSpec => []CalendarShowsEvent
<1>1. CalendarInv => CalendarShowsEvent
  BY CalendarIsRight
<1> QED
  BY <1>1, CalendarInvHolds, PTL

\* Only the change form loses a sale, and only a request that loaded the event
\* before brings it back (events/admin.py save_model, events/services.py).
THEOREM WritesAlwaysMeant == CalendarSpec => RowWritesMeant
<1> DEFINE LostSale == \E d \in Desk :
                           /\ row' \in {desk[d], [desk[d] EXCEPT !.status = "PUBLISHED"]}
                           /\ row # desk[d]
           LoadedBefore == \E d \in Desk : desk[d] # NoRow /\ desk[d].status # "CANCELLED"
<1>1. ASSUME CalendarInv, CalendarNext
      PROVE  /\ row'.sold_total - row.sold_total # places' - places => LostSale
             /\ (row.status = "CANCELLED" /\ row'.status # "CANCELLED") => LoadedBefore
  <2>1. row \in Row /\ desk \in [Desk -> Row \cup {NoRow}] /\ places \in Int
    BY <1>1 DEF CalendarInv, CalendarTypes
  <2>2. row.sold_total \in Int
    BY <2>1 DEF Row
  <2> DEFINE Goal == /\ row'.sold_total - row.sold_total # places' - places => LostSale
                     /\ (row.status = "CANCELLED" /\ row'.status # "CANCELLED") => LoadedBefore
  <2>3. ASSUME row'.sold_total = row.sold_total, row'.status = row.status, places' = places
        PROVE  Goal
    BY <2>1, <2>2, <2>3
  <2>4. ASSUME NEW d \in Desk, LoadRow(d) \/ QueueTask(d) \/ LoseDesk(d) PROVE Goal
    BY <2>3, <2>4 DEF LoadRow, QueueTask, LoseDesk
  <2>5. ASSUME NEW d \in Desk, publish_event(d) PROVE Goal
    <3>1. desk[d] # NoRow /\ desk[d].status # "CANCELLED"
      BY <2>5 DEF publish_event, NoRow
    <3>2. row'.sold_total = row.sold_total /\ places' = places
      BY <2>1, <2>5 DEF publish_event, Row
    <3> QED
      BY <2>1, <2>2, <3>1, <3>2
  <2>6. ASSUME NEW d \in Desk, cancel_event(d) PROVE Goal
    <3>1. row'.sold_total = row.sold_total /\ places' = places /\ row'.status = "CANCELLED"
      BY <2>1, <2>6 DEF cancel_event, Row
    <3> QED
      BY <2>1, <2>2, <3>1
  <2>7. ASSUME NEW d \in Desk, save_model(d) \/ publish_and_redirect(d) PROVE Goal
    <3>1. /\ row' \in {desk[d], [desk[d] EXCEPT !.status = "PUBLISHED"]} /\ places' = places
          /\ desk[d] # NoRow
      BY <2>7 DEF save_model, publish_and_redirect, SaveWhole, NoRow
    <3>2. CASE row = desk[d]
      <4>1. row'.sold_total = row.sold_total
        BY <2>1, <3>1, <3>2 DEF Row
      <4>2. row.status = "CANCELLED" => row' = row
        BY <2>1, <2>7, <3>2 DEF save_model, publish_and_redirect, SaveWhole
      <4> QED
        BY <2>1, <2>2, <3>1, <4>1, <4>2
    <3>3. CASE row # desk[d]
      <4>1. LostSale
        BY <3>1, <3>3
      <4>2. (row.status = "CANCELLED" /\ row'.status # "CANCELLED") => desk[d].status # "CANCELLED"
        BY <2>7 DEF save_model, publish_and_redirect, SaveWhole
      <4> QED
        BY <3>1, <4>1, <4>2
    <3> QED
      BY <3>2, <3>3
  <2>8. ASSUME Sell \/ GiveBack PROVE Goal
    <3>1. row'.sold_total - row.sold_total = places' - places /\ row'.status = row.status
      BY <2>1, <2>2, <2>8 DEF Sell, GiveBack, Row
    <3> QED
      BY <3>1
  <2>9. ASSUME SaveId PROVE Goal
    <3>1. row'.sold_total = row.sold_total /\ row'.status = row.status /\ places' = places
      BY <2>1, <2>9 DEF SaveId, Row
    <3> QED
      BY <2>3, <3>1
  <2>10. ASSUME ListTasks \/ Patch \/ Insert \/ DeleteEntry \/ CallFails \/ SaveTask \/ LoseSync
         PROVE  Goal
    BY <2>3, <2>10 DEF ListTasks, Patch, Insert, DeleteEntry, CallFails, SaveTask, LoseSync
  <2> QED
    BY <1>1, <2>4, <2>5, <2>6, <2>7, <2>8, <2>9, <2>10 DEF CalendarNext, SyncStep
<1>2. ASSUME CalendarInv, [CalendarNext]_eventRowVars
      PROVE  [/\ row'.sold_total - row.sold_total # places' - places => LostSale
              /\ (row.status = "CANCELLED" /\ row'.status # "CANCELLED") => LoadedBefore]_row
  BY <1>1, <1>2 DEF eventRowVars
<1> QED
  BY <1>2, CalendarInvHolds, PTL DEF CalendarSpec, RowWritesMeant

TaskCopy == [id : Nat, entry : Entry \cup {NoEntry}]

\* The cron job has copies of different tasks, none of them settled yet.
Listed(q) ==
    /\ q \in Seq(TaskCopy)
    /\ \A i \in 1..Len(q) : q[i].id \in DOMAIN tasks /\ tasks[q[i].id].status = "PENDING"
    /\ \A i, j \in 1..Len(q) : i # j => q[i].id # q[j].id

CalendarCounts ==
    /\ google \subseteq 1..created
    /\ \A i \in DOMAIN tasks : tasks[i].attempts <= MAX_TRIES
    /\ Listed(sync.queue) /\ (sync.pc # "idle" => sync.queue # <<>>)

LEMMA NothingListed == Listed(<<>>)
  BY DEF Listed

LEMMA CalendarCountsStart == CalendarInit => CalendarCounts
<1> SUFFICES ASSUME CalendarInit PROVE CalendarCounts
  OBVIOUS
<1>1. tasks = <<>> /\ google = {} /\ sync.pc = "idle" /\ sync.queue = <<>>
  BY DEF CalendarInit, NoJob
<1> QED
  BY <1>1, NothingListed DEF CalendarCounts

\* Tasks are only added.
LEMMA CountsEnqueued ==
    ASSUME CalendarInv, CalendarCounts, NEW action, enqueue_calendar_sync(action),
           UNCHANGED <<sync, google, created>>
    PROVE  CalendarCounts'
<1>1. PICK task : task = [action |-> action, status |-> "PENDING", attempts |-> 0]
  OBVIOUS
<1>2. task.attempts = 0
  BY <1>1
<1>3. tasks' = Append(tasks, task) /\ tasks \in Seq(CalendarTask)
  BY <1>1 DEF enqueue_calendar_sync, CalendarInv, CalendarTypes, TasksTyped
<1>4. /\ DOMAIN tasks = 1..Len(tasks) /\ Len(tasks) \in Nat
      /\ DOMAIN tasks' = 1..(Len(tasks) + 1)
      /\ tasks'[Len(tasks) + 1] = task /\ \A i \in 1..Len(tasks) : tasks'[i] = tasks[i]
  BY <1>3
<1>5. \A i \in DOMAIN tasks' : tasks'[i].attempts <= MAX_TRIES
  BY <1>2, <1>4, CalendarAssumption DEF CalendarCounts
<1>6. \A i \in DOMAIN tasks : i \in DOMAIN tasks' /\ tasks'[i] = tasks[i]
  BY <1>4
<1>7. Listed(sync.queue)'
  BY <1>6 DEF CalendarCounts, Listed
<1> QED
  BY <1>5, <1>7 DEF CalendarCounts

LEMMA CountsListed == ASSUME CalendarInv, CalendarCounts, ListTasks PROVE CalendarCounts'
<1>1. PICK due : due = DueTasks
  OBVIOUS
<1>2. tasks \in Seq(CalendarTask) /\ DOMAIN tasks = 1..Len(tasks) /\ Len(tasks) \in Nat
  BY DEF CalendarInv, CalendarTypes, TasksTyped
<1>3. due \subseteq 1..Len(tasks) /\ \A i \in due : tasks[i].status = "PENDING"
  BY <1>1, <1>2 DEF DueTasks
<1>4. IsFiniteSet(due) /\ due \subseteq Nat /\ Cardinality(due) \in Nat /\ Cardinality(due) # 0
  <2>1. IsFiniteSet(1..Len(tasks))
    BY <1>2, FS_Interval
  <2>2. IsFiniteSet(due)
    BY <1>3, <2>1, FS_Subset
  <2> QED
    BY <1>1, <1>3, <2>2, FS_CardinalityType, FS_EmptySet DEF ListTasks
<1>5. PICK n \in Nat, e \in Entry \cup {NoEntry} :
          n = Cardinality(due) /\ e = row.calendar_event_id
  <2>1. row.calendar_event_id \in Entry \cup {NoEntry}
    BY DEF CalendarInv, CalendarTypes, Row
  <2> QED
    BY <1>4, <2>1
<1>6. PICK o : o = InOrder(due)
  OBVIOUS
<1>7. /\ n # 0 /\ o \in [1..n -> due] /\ \A i, j \in 1..n : i < j => o[i] < o[j]
      /\ \A i \in 1..n : o[i] \in due /\ o[i] \in Nat
  <2>1. Sorted(InOrder(due), due)
    BY <1>4, InOrderSorted
  <2>2. o \in [1..n -> due] /\ \A i, j \in 1..n : i < j => o[i] < o[j]
    BY <1>5, <1>6, <2>1 DEF Sorted
  <2> QED
    BY <1>4, <1>5, <2>2
<1>8. PICK q : q = [i \in 1..n |-> [id |-> o[i], entry |-> e]]
  OBVIOUS
<1>9. \A i \in 1..n : q[i] \in TaskCopy /\ q[i].id = o[i]
  <2>1. \A i \in 1..n : [id |-> o[i], entry |-> e] \in TaskCopy
    BY <1>7 DEF TaskCopy
  <2> QED
    BY <1>8, <2>1
<1>10. q \in Seq(TaskCopy) /\ Len(q) = n /\ q # <<>>
  <2>1. q \in [1..n -> TaskCopy]
    BY <1>8, <1>9
  <2> QED
    BY <1>7, <2>1
<1>11. /\ sync' = [sync EXCEPT !.pc = "call", !.queue = q]
       /\ UNCHANGED <<tasks, google, created>>
  BY <1>1, <1>5, <1>6, <1>8 DEF ListTasks, googleVars
<1>12. sync'.queue = q
  BY <1>11 DEF CalendarInv, CalendarTypes
<1>13. \A i, j \in 1..n : i # j => q[i].id # q[j].id
  <2> SUFFICES ASSUME NEW i \in 1..n, NEW j \in 1..n, i # j PROVE o[i] # o[j]
    BY <1>9
  <2>1. o[i] \in Nat /\ o[j] \in Nat /\ (i < j \/ j < i)
    BY <1>7
  <2> QED
    BY <1>7, <2>1
<1>14. Listed(q)'
  BY <1>2, <1>3, <1>7, <1>9, <1>10, <1>11, <1>13 DEF Listed
<1> QED
  BY <1>10, <1>11, <1>12, <1>14 DEF CalendarCounts

LEMMA CountsCalled ==
    ASSUME CalendarInv, CalendarCounts, Patch \/ Insert \/ DeleteEntry \/ CallFails \/ SaveId
    PROVE  CalendarCounts'
<1>1. tasks' = tasks
  BY DEF Patch, Insert, DeleteEntry, CallFails, SaveId
<1>2. sync'.queue = sync.queue /\ sync.queue # <<>>
  BY Answers DEF Patch, Insert, DeleteEntry, CallFails, SaveId, CalendarInv, CalendarCounts
<1>3. google' \subseteq 1..created'
  <2>1. google \subseteq 1..created /\ created \in Nat
    BY DEF CalendarCounts, CalendarInv, CalendarTypes
  <2>2. CASE Insert
    BY <2>1, <2>2 DEF Insert
  <2>3. CASE ~Insert
    BY <2>1, <2>3 DEF Patch, DeleteEntry, CallFails, SaveId, googleVars
  <2> QED
    BY <2>2, <2>3
<1>4. Listed(sync.queue)'
  BY <1>1, <1>2 DEF CalendarCounts, Listed
<1> QED
  BY <1>1, <1>2, <1>3, <1>4 DEF CalendarCounts

LEMMA CountsSettled == ASSUME CalendarInv, CalendarCounts, SaveTask PROVE CalendarCounts'
<1>1. PICK q \in Seq(TaskCopy) : q = sync.queue /\ q # <<>>
  BY DEF SaveTask, CalendarCounts, Listed
<1>2. /\ Len(q) \in Nat /\ 1 \in 1..Len(q) /\ Head(q) = q[1]
      /\ Tail(q) \in Seq(TaskCopy) /\ Len(Tail(q)) = Len(q) - 1
      /\ \A i \in 1..(Len(q) - 1) : Tail(q)[i] = q[i + 1]
  BY <1>1
<1>3. PICK c : c = Current.id /\ c = q[1].id
  BY <1>1, <1>2 DEF Current
<1>4. /\ \A i \in 1..Len(q) : q[i].id \in DOMAIN tasks /\ tasks[q[i].id].status = "PENDING"
      /\ \A i, j \in 1..Len(q) : i # j => q[i].id # q[j].id
  BY <1>1 DEF CalendarCounts, Listed
<1>5. c \in DOMAIN tasks /\ tasks[c].status = "PENDING"
  BY <1>2, <1>3, <1>4
<1>6. PICK task \in CalendarTask :
          tasks' = [tasks EXCEPT ![c] = task] /\ task.attempts = tasks[c].attempts + 1
  BY <1>3, <1>5, SettledTask
<1>7. task.attempts <= MAX_TRIES
  <2>1. tasks[c] \in CalendarTask /\ tasks[c].attempts < MAX_TRIES
    BY <1>5 DEF CalendarInv, CalendarTypes, TasksTyped
  <2> QED
    BY <1>6, <2>1, CalendarAssumption DEF CalendarTask
<1>8. /\ DOMAIN tasks' = DOMAIN tasks /\ tasks'[c] = task
      /\ \A i \in DOMAIN tasks : i # c => tasks'[i] = tasks[i]
  BY <1>5, <1>6
<1>9. \A i \in DOMAIN tasks' : tasks'[i].attempts <= MAX_TRIES
  BY <1>7, <1>8 DEF CalendarCounts
<1>10. Listed(Tail(q))'
  <2>1. ASSUME NEW i \in 1..(Len(q) - 1)
        PROVE  /\ Tail(q)[i].id \in DOMAIN tasks' /\ tasks'[Tail(q)[i].id].status = "PENDING"
               /\ \A j \in 1..(Len(q) - 1) : i # j => Tail(q)[i].id # Tail(q)[j].id
    <3>1. i + 1 \in 1..Len(q) /\ i + 1 # 1 /\ Tail(q)[i] = q[i + 1]
      BY <1>2
    <3>2. q[i + 1].id # c
      BY <1>2, <1>3, <1>4, <3>1
    <3>3. ASSUME NEW j \in 1..(Len(q) - 1), i # j PROVE Tail(q)[i].id # Tail(q)[j].id
      <4>1. j + 1 \in 1..Len(q) /\ j + 1 # i + 1 /\ Tail(q)[j] = q[j + 1]
        BY <1>2, <3>3
      <4> QED
        BY <1>4, <3>1, <4>1
    <3> QED
      BY <1>4, <1>8, <3>1, <3>2, <3>3
  <2> QED
    BY <1>2, <2>1 DEF Listed
<1>11. /\ sync'.queue = Tail(q)
       /\ sync'.pc = IF Len(q) = 1 THEN "idle" ELSE "call"
       /\ UNCHANGED <<google, created>>
  BY <1>1 DEF SaveTask, NoJob, googleVars
<1>12. sync'.pc # "idle" => Tail(q) # <<>>
  <2>1. Len(q) # 1 => Len(Tail(q)) # 0
    BY <1>2
  <2> QED
    BY <1>11, <2>1
<1> QED
  BY <1>9, <1>10, <1>11, <1>12 DEF CalendarCounts, Listed

LEMMA CalendarCountsStep ==
    ASSUME CalendarInv, CalendarCounts, [CalendarNext]_eventRowVars
    PROVE  CalendarCounts'
<1>1. ASSUME UNCHANGED <<tasks, sync, google, created>> PROVE CalendarCounts'
  BY <1>1 DEF CalendarCounts, Listed
<1>2. ASSUME NEW d \in Desk, LoadRow(d) \/ publish_event(d) \/ cancel_event(d) \/ LoseDesk(d)
      PROVE  CalendarCounts'
  BY <1>1, <1>2 DEF LoadRow, publish_event, cancel_event, LoseDesk, googleVars
<1>5. ASSUME NEW d \in Desk, QueueTask(d) \/ save_model(d) \/ publish_and_redirect(d)
      PROVE  CalendarCounts'
  <2>1. UNCHANGED <<sync, google, created>>
    BY <1>5 DEF QueueTask, save_model, publish_and_redirect, SaveWhole, googleVars
  <2>2. UNCHANGED tasks \/ \E action \in {"UPSERT", owes[d]} : enqueue_calendar_sync(action)
    BY <1>5 DEF QueueTask, save_model, publish_and_redirect, SaveWhole
  <2> QED
    BY <1>1, <2>1, <2>2, CountsEnqueued
<1>3. CASE Sell \/ GiveBack \/ UNCHANGED eventRowVars
  BY <1>1, <1>3 DEF Sell, GiveBack, eventRowVars, googleVars
<1>4. CASE LoseSync
  <2>1. UNCHANGED <<tasks, google, created>> /\ sync'.queue = <<>> /\ sync'.pc = "idle"
    BY <1>4 DEF LoseSync, googleVars, NoJob
  <2> QED
    BY <2>1, NothingListed DEF CalendarCounts, Listed
<1> QED
  BY <1>2, <1>3, <1>4, <1>5, CountsListed, CountsCalled, CountsSettled DEF CalendarNext, SyncStep

\* Whatever staff, buyers and the cron job do to it in between, the row holds a
\* status, sales and an entry it can have, no task is tried more often than
\* MAX_ATTEMPTS, and only entries that were created exist.
THEOREM CalendarTypesHold == CalendarSpec => []CalendarTypeOK
<1>1. CalendarInv /\ CalendarCounts => CalendarTypeOK
  <2> SUFFICES ASSUME CalendarInv, CalendarCounts PROVE CalendarTypeOK
    OBVIOUS
  <2>1. \A i \in DOMAIN tasks : /\ tasks[i].status \in {"PENDING", "DONE", "FAILED"}
                                /\ tasks[i].attempts \in Nat /\ tasks[i].attempts <= MAX_TRIES
    <3>1. \A i \in DOMAIN tasks : tasks[i] \in CalendarTask
      BY DEF CalendarInv, CalendarTypes, TasksTyped
    <3> QED
      BY <3>1 DEF CalendarTask, CalendarCounts
  <2>2. \A i \in DOMAIN tasks : tasks[i].attempts \in 0..MAX_TRIES
    BY <2>1, CalendarAssumption
  <2> QED
    BY <2>1, <2>2 DEF CalendarInv, CalendarTypes, CalendarCounts, CalendarTypeOK
<1>2. CalendarInv /\ CalendarCounts /\ [CalendarNext]_eventRowVars => (CalendarInv /\ CalendarCounts)'
  BY CalendarStep, CalendarCountsStep
<1> QED
  BY <1>1, <1>2, CalendarStart, CalendarCountsStart, PTL DEF CalendarSpec

(***************************************************************************)
(* The e-mail queue.                                                       *)
(***************************************************************************)

MailCopy == [id : Mail, attempts : Nat]

DifferentRows(q) == \A i, j \in 1..Len(q) : i # j => q[i].id # q[j].id
InQueue(q, m) == \E i \in 1..Len(q) : q[i].id = m

MailTypes ==
    /\ mail \in [Mail -> [status : MailStatus, attempts : Nat]]
    /\ sender \in [Sender -> [pc : {"idle", "read", "send", "sent", "unsent"},
                             queue : Seq(MailCopy)]]
    /\ delivered \in [Mail -> Nat]

QueuesFit ==
    /\ \A s \in Sender : /\ DifferentRows(sender[s].queue)
                         /\ sender[s].pc = "idle" <=> sender[s].queue = <<>>
    /\ Len(sender["web"].queue) <= 1 /\ sender["cron"].pc # "read"

\* A sender that has read the copy is going to send it, or has sent it.
Holds(s, m) == sender[s].pc # "read" /\ InQueue(sender[s].queue, m)
Accepted1(m) == \E s \in Sender : sender[s].pc = "sent" /\ Head1(s).id = m

MailFine(m) ==
    /\ ~(Holds("web", m) /\ Holds("cron", m))
    /\ (\E s \in Sender : Holds(s, m)) => mail[m].status = "PENDING"
    /\ delivered[m] = IF mail[m].status = "SENT" \/ Accepted1(m) THEN 1 ELSE 0

MailInv == MailTypes /\ QueuesFit /\ \A m \in Mail \ raced : MailFine(m)

LEMMA FineIsOneCopy == ASSUME MailInv PROVE OneCopy
  BY DEF MailInv, MailFine, Accepted1, OneCopy

LEMMA MailStart == MailInit => MailInv
<1> SUFFICES ASSUME MailInit PROVE MailInv
  OBVIOUS
<1>1. /\ \A m \in Mail : mail[m] = [status |-> "NONE", attempts |-> 0] /\ delivered[m] = 0
      /\ \A s \in Sender : sender[s].pc = "idle" /\ sender[s].queue = <<>>
  BY DEF MailInit, Resting
<1>2. MailTypes
  <2>1. mail \in [Mail -> [status : MailStatus, attempts : Nat]]
    BY DEF MailInit, MailStatus
  <2>2. Resting \in [pc : {"idle", "read", "send", "sent", "unsent"}, queue : Seq(MailCopy)]
    BY DEF Resting
  <2> QED
    BY <2>1, <2>2 DEF MailInit, MailTypes
<1>3. "web" \in Sender /\ "cron" \in Sender
  BY DEF Sender
<1>4. QueuesFit
  BY <1>1, <1>3 DEF QueuesFit, DifferentRows
<1>5. \A m \in Mail : MailFine(m)
  BY <1>1, <1>3 DEF MailFine, Holds, InQueue, Accepted1
<1> QED
  BY <1>2, <1>4, <1>5 DEF MailInv

\* E-mails a step is not about.
LEMMA OtherMail ==
    ASSUME MailInv, NEW m \in Mail, m \notin raced,
           \A s \in Sender : Holds(s, m)' => Holds(s, m),
           Accepted1(m)' <=> Accepted1(m),
           mail'[m].status = mail[m].status, delivered'[m] = delivered[m]
    PROVE  MailFine(m)'
<1>1. MailFine(m) /\ "web" \in Sender /\ "cron" \in Sender
  BY DEF MailInv, Sender
<1> QED
  BY <1>1 DEF MailFine

LEMMA QueueParts ==
    ASSUME NEW q \in Seq(MailCopy), q # <<>>, DifferentRows(q)
    PROVE  /\ Head(q) = q[1] /\ Head(q) \in MailCopy /\ InQueue(q, Head(q).id)
           /\ Tail(q) \in Seq(MailCopy) /\ DifferentRows(Tail(q)) /\ Len(Tail(q)) = Len(q) - 1
           /\ \A m : InQueue(Tail(q), m) <=> (InQueue(q, m) /\ m # Head(q).id)
           /\ \A m : InQueue(q, m) => m \in Mail
<1>1. /\ Len(q) \in Nat /\ Len(q) >= 1 /\ 1 \in 1..Len(q)
      /\ Tail(q) \in Seq(MailCopy) /\ Len(Tail(q)) = Len(q) - 1
      /\ \A i \in 1..(Len(q) - 1) : Tail(q)[i] = q[i + 1]
  OBVIOUS
<1>2. Head(q) = q[1] /\ \A i \in 1..Len(q) : q[i] \in MailCopy /\ q[i].id \in Mail
  <2>1. Head(q) = q[1] /\ \A i \in 1..Len(q) : q[i] \in MailCopy
    OBVIOUS
  <2> QED
    BY <2>1 DEF MailCopy
<1>3. DifferentRows(Tail(q))
  <2> SUFFICES ASSUME NEW i \in 1..(Len(q) - 1), NEW j \in 1..(Len(q) - 1), i # j
               PROVE  Tail(q)[i].id # Tail(q)[j].id
    BY <1>1 DEF DifferentRows
  <2>1. i + 1 \in 1..Len(q) /\ j + 1 \in 1..Len(q) /\ i + 1 # j + 1
    BY <1>1
  <2> QED
    BY <1>1, <2>1 DEF DifferentRows
<1>4. ASSUME NEW m PROVE InQueue(Tail(q), m) <=> (InQueue(q, m) /\ m # Head(q).id)
  <2>1. ASSUME NEW i \in 1..(Len(q) - 1), Tail(q)[i].id = m
        PROVE  InQueue(q, m) /\ m # Head(q).id
    <3>1. i + 1 \in 1..Len(q) /\ i + 1 # 1
      BY <1>1
    <3> QED
      BY <1>1, <1>2, <2>1, <3>1 DEF InQueue, DifferentRows
  <2>2. ASSUME NEW i \in 1..Len(q), q[i].id = m, m # Head(q).id
        PROVE  InQueue(Tail(q), m)
    <3>1. i # 1
      BY <1>2, <2>2
    <3>2. i - 1 \in 1..(Len(q) - 1) /\ (i - 1) + 1 = i
      BY <1>1, <3>1
    <3> QED
      BY <1>1, <2>2, <3>2 DEF InQueue
  <2> QED
    BY <1>1, <2>1, <2>2 DEF InQueue
<1> QED
  BY <1>1, <1>2, <1>3, <1>4 DEF InQueue

\* Rows taken: copies of different rows.
LEMMA QueuesKept ==
    ASSUME QueuesFit, NEW s \in Sender,
           sender'[s].pc = "idle" <=> sender'[s].queue = <<>>, DifferentRows(sender'[s].queue),
           s = "web" => Len(sender'[s].queue) <= 1, s = "cron" => sender'[s].pc # "read",
           \A r \in Sender : r # s => sender'[r] = sender[r]
    PROVE  QueuesFit'
<1>1. \A r \in Sender : /\ DifferentRows(sender'[r].queue)
                        /\ sender'[r].pc = "idle" <=> sender'[r].queue = <<>>
  BY DEF QueuesFit
<1>2. Len(sender'["web"].queue) <= 1 /\ sender'["cron"].pc # "read"
  BY DEF QueuesFit, Sender
<1> QED
  BY <1>1, <1>2 DEF QueuesFit, DifferentRows

LEMMA RowsCopied ==
    ASSUME MailTypes, NEW rows \in Seq(Mail),
           \A i, j \in 1..Len(rows) : i # j => rows[i] # rows[j]
    PROVE  /\ Copies(rows) \in Seq(MailCopy) /\ Len(Copies(rows)) = Len(rows)
           /\ DifferentRows(Copies(rows))
           /\ \A m : InQueue(Copies(rows), m) <=> m \in ToSet(rows)
<1>1. \A i \in 1..Len(rows) : rows[i] \in Mail /\ mail[rows[i]].attempts \in Nat
  BY DEF MailTypes
<1>2. \A i \in 1..Len(rows) : [id |-> rows[i], attempts |-> mail[rows[i]].attempts] \in MailCopy
  BY <1>1 DEF MailCopy
<1>3. /\ Copies(rows) = [i \in 1..Len(rows) |->
                            [id |-> rows[i], attempts |-> mail[rows[i]].attempts]]
      /\ Len(rows) \in Nat
  BY DEF Copies
<1>4. Copies(rows) \in Seq(MailCopy) /\ Len(Copies(rows)) = Len(rows)
  BY <1>2, <1>3
<1>5. \A i \in 1..Len(rows) : Copies(rows)[i].id = rows[i]
  BY <1>3
<1> QED
  BY <1>4, <1>5 DEF DifferentRows, InQueue, ToSet

LEMMA BatchTaken ==
    ASSUME MailTypes
    PROVE  /\ Batch \in Seq(Mail)
           /\ \A i, j \in 1..Len(Batch) : i # j => Batch[i] # Batch[j]
           /\ \A m \in ToSet(Batch) : m \in Mail /\ Waiting(m)
<1> DEFINE due == {m \in Mail : Waiting(m)}
           n == Cardinality(due)
           k == IF n < BatchLimit THEN n ELSE BatchLimit
<1>1. IsFiniteSet(due) /\ due \subseteq Nat /\ due \subseteq Mail
  <2>1. IsFiniteSet(Mail)
    BY MailAssumption, FS_Interval DEF Mail
  <2> QED
    BY <2>1, FS_Subset, MailAssumption DEF Mail
<1>2. n \in Nat
  BY <1>1, FS_CardinalityType
<1>3. Sorted(InOrder(due), due)
  BY <1>1, InOrderSorted
<1>4. k \in 0..n
  BY <1>2, MailAssumption
<1>5. Batch = SubSeq(InOrder(due), 1, k)
  BY DEF Batch, Oldest
<1>6. \A m \in due : m \in Mail /\ Waiting(m)
  OBVIOUS
<1> HIDE DEF due, n, k
<1>7. InOrder(due) \in [1..n -> due] /\ \A i, j \in 1..n : i < j => InOrder(due)[i] < InOrder(due)[j]
  BY <1>3 DEF Sorted, n
<1>8. Batch \in Seq(due) /\ Len(Batch) = k /\ \A i \in 1..k : Batch[i] = InOrder(due)[i]
  BY <1>2, <1>4, <1>5, <1>7
<1>9. ASSUME NEW i \in 1..k, NEW j \in 1..k, i # j PROVE Batch[i] # Batch[j]
  <2>1. i \in 1..n /\ j \in 1..n
    BY <1>2, <1>4
  <2>2. InOrder(due)[i] \in Nat /\ InOrder(due)[j] \in Nat
    BY <1>1, <1>7, <2>1
  <2>3. InOrder(due)[i] < InOrder(due)[j] \/ InOrder(due)[j] < InOrder(due)[i]
    BY <1>7, <1>9, <2>1
  <2> QED
    BY <1>8, <2>2, <2>3
<1>10. \A i \in 1..k : Batch[i] \in due
  BY <1>8
<1>11. Batch \in Seq(Mail)
  BY <1>6, <1>8
<1> QED
  BY <1>6, <1>8, <1>9, <1>10, <1>11 DEF ToSet

\* An e-mail is committed; its thread has yet to read it.
LEMMA QueueStep == ASSUME MailInv, NEW m \in Mail, _queue_email(m) PROVE MailInv'
<1> DEFINE copy == [id |-> m, attempts |-> 0]
           fresh == [status |-> "PENDING", attempts |-> 0]
<1>1. copy \in MailCopy /\ fresh \in [status : MailStatus, attempts : Nat]
      /\ fresh.status = "PENDING"
  BY DEF MailCopy, MailStatus
<1>2. /\ sender["web"].pc = "idle" /\ mail[m].status = "NONE"
      /\ mail' = [mail EXCEPT ![m] = fresh]
      /\ sender' = [sender EXCEPT !["web"].pc = "read", !["web"].queue = <<copy>>]
      /\ delivered' = delivered /\ raced' = raced
  <2>1. m >= m
    BY MailAssumption DEF Mail
  <2> QED
    BY <2>1 DEF _queue_email
<1> HIDE DEF copy, fresh
<1>3. <<copy>> \in Seq(MailCopy) /\ DifferentRows(<<copy>>) /\ Len(<<copy>>) = 1 /\ <<copy>> # <<>>
  BY <1>1 DEF DifferentRows
<1>4. /\ sender'["web"].pc = "read" /\ sender'["web"].queue = <<copy>>
      /\ sender'["cron"] = sender["cron"]
      /\ \A k \in Mail : k # m => mail'[k] = mail[k]
      /\ mail'[m].status = "PENDING"
  BY <1>1, <1>2 DEF MailInv, MailTypes, Sender
<1>5. MailTypes'
  BY <1>1, <1>2, <1>3 DEF MailInv, MailTypes
<1>6. QueuesFit'
  <2>1. /\ "web" \in Sender /\ QueuesFit
        /\ sender'["web"].pc = "idle" <=> sender'["web"].queue = <<>>
        /\ DifferentRows(sender'["web"].queue) /\ Len(sender'["web"].queue) <= 1
        /\ \A r \in Sender : r # "web" => sender'[r] = sender[r]
    BY <1>3, <1>4 DEF MailInv, Sender
  <2> QED
    BY <2>1, QueuesKept
<1>7. ASSUME NEW k \in Mail, k \notin raced PROVE MailFine(k)'
  <2>1. MailFine(k) /\ ~Holds("web", k)'
    BY <1>4, <1>7 DEF MailInv, Holds
  <2>2. Holds("cron", k)' <=> Holds("cron", k)
    BY <1>4 DEF Holds
  <2>3. Accepted1(k)' <=> Accepted1(k)
    BY <1>2, <1>4 DEF Accepted1, Head1, Sender
  <2>4. CASE k = m
    <3>1. ~Holds("cron", k) /\ ~Accepted1(k)'
      <4>1. ~Holds("cron", k) /\ ~Holds("web", k)
        BY <1>2, <2>1, <2>4 DEF MailFine, Sender
      <4>2. ASSUME NEW s \in Sender, sender[s].pc = "sent" PROVE Holds(s, Head1(s).id)
        <5>1. sender[s].queue \in Seq(MailCopy) /\ sender[s].queue # <<>>
              /\ DifferentRows(sender[s].queue)
          BY <4>2 DEF MailInv, MailTypes, QueuesFit
        <5> QED
          BY <4>2, <5>1, QueueParts DEF Holds, Head1
      <4>3. ~Accepted1(k)
        BY <4>1, <4>2 DEF Accepted1, Sender
      <4> QED
        BY <2>3, <4>1, <4>3
    <3> QED
      BY <1>2, <1>4, <2>1, <2>2, <2>3, <2>4, <3>1 DEF MailFine, Sender
  <2>5. CASE k # m
    BY <1>2, <1>4, <2>1, <2>2, <2>3, <2>5 DEF MailFine, Sender
  <2> QED
    BY <2>4, <2>5
<1> QED
  BY <1>2, <1>5, <1>6, <1>7 DEF MailInv

\* The thread that wrote the copy reads it.
LEMMA SendNowStep == ASSUME MailInv, send_now PROVE MailInv'
<1>1. PICK m : m = Head1("web").id
  OBVIOUS
<1>2. sender["web"].queue \in Seq(MailCopy) /\ sender["web"].queue # <<>> /\ "web" \in Sender
      /\ "cron" \in Sender /\ sender["web"].pc = "read"
  BY DEF send_now, MailInv, MailTypes, QueuesFit, Sender
<1>3. m \in Mail
  <2>1. Head1("web") \in MailCopy
    BY <1>2 DEF Head1
  <2> QED
    BY <1>1, <2>1 DEF MailCopy
<1>4. /\ <<m>> \in Seq(Mail) /\ Len(<<m>>) = 1 /\ ToSet(<<m>>) = {m}
      /\ \A i, j \in 1..Len(<<m>>) : i # j => <<m>>[i] # <<m>>[j]
  BY <1>3 DEF ToSet
<1>5. PICK q \in Seq(MailCopy) :
          /\ q = Copies(<<m>>) /\ Len(q) = 1 /\ DifferentRows(q) /\ \A k : InQueue(q, k) <=> k = m
  BY <1>4, RowsCopied DEF MailInv
<1>6. mail' = mail /\ delivered' = delivered
  BY DEF send_now
<1>7. CASE Waiting(m)
  <2>1. /\ sender' = [sender EXCEPT !["web"].pc = "send", !["web"].queue = q]
        /\ raced' = IF m \in Held("cron") THEN raced \cup {m} ELSE raced
    BY <1>1, <1>5, <1>7 DEF send_now
  <2>2. /\ sender'["web"].pc = "send" /\ sender'["web"].queue = q
        /\ sender'["cron"] = sender["cron"]
    BY <2>1 DEF MailInv, MailTypes, Sender
  <2>3. MailTypes'
    BY <1>6, <2>1 DEF MailInv, MailTypes
  <2>4. QueuesFit'
    <3>1. q # <<>> /\ Len(q) <= 1 /\ DifferentRows(q)
      BY <1>5
    <3>2. /\ QueuesFit
          /\ sender'["web"].pc = "idle" <=> sender'["web"].queue = <<>>
          /\ DifferentRows(sender'["web"].queue) /\ Len(sender'["web"].queue) <= 1
          /\ \A r \in Sender : r # "web" => sender'[r] = sender[r]
      BY <2>2, <3>1 DEF MailInv, Sender
    <3> QED
      BY <1>2, <3>2, QueuesKept
  <2>5. ASSUME NEW k \in Mail, k \notin raced' PROVE MailFine(k)'
    <3>1. MailFine(k)
      BY <2>1, <2>5 DEF MailInv
    <3>2. (Holds("web", k)' <=> k = m) /\ (Holds("cron", k)' <=> Holds("cron", k))
      BY <1>5, <2>2 DEF Holds
    <3>3. Accepted1(k)' <=> Accepted1(k)
      BY <1>2, <2>2 DEF Accepted1, Head1, Sender
    <3>4. k = m => ~Holds("cron", k)
      <4>1. Holds("cron", k) => k \in Held("cron")
        <5>1. sender["cron"].queue \in Seq(MailCopy)
          BY <1>2 DEF MailInv, MailTypes
        <5> QED
          BY <5>1 DEF Holds, InQueue, Held, ToSet
      <4> QED
        BY <2>1, <2>5, <4>1
    <3> QED
      BY <1>6, <1>7, <3>1, <3>2, <3>3, <3>4 DEF MailFine, Waiting, Sender
  <2> QED
    BY <2>3, <2>4, <2>5 DEF MailInv
<1>8. CASE ~Waiting(m)
  <2>1. sender' = [sender EXCEPT !["web"] = Resting] /\ raced' = raced
    BY <1>1, <1>8 DEF send_now
  <2>2. /\ sender'["web"].pc = "idle" /\ sender'["web"].queue = <<>>
        /\ sender'["cron"] = sender["cron"]
    BY <2>1 DEF MailInv, MailTypes, Sender, Resting
  <2>3. MailTypes'
    <3>1. Resting \in [pc : {"idle", "read", "send", "sent", "unsent"}, queue : Seq(MailCopy)]
      BY DEF Resting
    <3> QED
      BY <1>6, <2>1, <3>1 DEF MailInv, MailTypes
  <2>4. QueuesFit'
    <3>1. DifferentRows(<<>>) /\ Len(<<>>) = 0
      BY DEF DifferentRows
    <3> QED
      BY <2>2, <3>1 DEF MailInv, QueuesFit, Sender
  <2>5. ASSUME NEW k \in Mail, k \notin raced PROVE MailFine(k)'
    <3>1. \A s \in Sender : Holds(s, k)' => Holds(s, k)
      BY <2>2 DEF Holds, InQueue, Sender
    <3>2. Accepted1(k)' <=> Accepted1(k)
      BY <1>2, <2>2 DEF Accepted1, Head1, Sender
    <3> QED
      BY <1>6, <2>5, <3>1, <3>2, OtherMail
  <2> QED
    BY <2>1, <2>3, <2>4, <2>5 DEF MailInv
<1> QED
  BY <1>7, <1>8

\* The cron job takes a batch.
LEMMA TakeStep == ASSUME MailInv, send_pending_emails PROVE MailInv'
<1>1. /\ sender["cron"].pc = "idle" /\ Batch # <<>>
      /\ sender' = [sender EXCEPT !["cron"].pc = "send", !["cron"].queue = Copies(Batch)]
      /\ raced' = raced \cup (ToSet(Batch) \cap (IF sender["web"].pc = "read" THEN {}
                                                  ELSE Held("web")))
      /\ mail' = mail /\ delivered' = delivered
  BY DEF send_pending_emails
<1>2. PICK batch : batch = Batch
  OBVIOUS
<1>3. /\ batch \in Seq(Mail) /\ batch # <<>>
      /\ \A i, j \in 1..Len(batch) : i # j => batch[i] # batch[j]
      /\ \A m \in ToSet(batch) : m \in Mail /\ Waiting(m)
  BY <1>1, <1>2, BatchTaken DEF MailInv
<1>4. PICK q \in Seq(MailCopy) :
          /\ q = Copies(batch) /\ Len(q) = Len(batch) /\ DifferentRows(q)
          /\ \A m : InQueue(q, m) <=> m \in ToSet(batch)
  BY <1>3, RowsCopied DEF MailInv
<1>5. q # <<>> /\ DifferentRows(q)
  BY <1>3, <1>4
<1>6. "cron" \in Sender /\ "web" \in Sender
  BY DEF Sender
<1>7. sender' = [sender EXCEPT !["cron"].pc = "send", !["cron"].queue = q]
  BY <1>1, <1>2, <1>4
<1>8. /\ sender'["cron"].pc = "send" /\ sender'["cron"].queue = q
      /\ sender'["web"] = sender["web"]
      /\ \A r \in Sender : r # "cron" => sender'[r] = sender[r]
  BY <1>6, <1>7 DEF MailInv, MailTypes
<1>9. MailTypes'
  <2>1. sender' \in [Sender -> [pc : {"idle", "read", "send", "sent", "unsent"},
                               queue : Seq(MailCopy)]]
    BY <1>7 DEF MailInv, MailTypes
  <2> QED
    BY <1>1, <2>1 DEF MailInv, MailTypes
<1>10. QueuesFit'
  <2>1. /\ QueuesFit
        /\ sender'["cron"].pc = "idle" <=> sender'["cron"].queue = <<>>
        /\ DifferentRows(sender'["cron"].queue) /\ sender'["cron"].pc # "read"
        /\ "cron" # "web"
    BY <1>5, <1>8 DEF MailInv
  <2> QED
    BY <1>6, <1>8, <2>1, QueuesKept
<1>11. ASSUME NEW m \in Mail, m \notin raced' PROVE MailFine(m)'
  <2>1. MailFine(m)
    BY <1>1, <1>11 DEF MailInv
  <2>2. Holds("web", m)' <=> Holds("web", m)
    BY <1>8 DEF Holds
  <2>3. Holds("cron", m)' <=> m \in ToSet(batch)
    BY <1>4, <1>8 DEF Holds
  <2>4. Accepted1(m)' <=> Accepted1(m)
    BY <1>1, <1>8 DEF Accepted1, Head1, Sender
  <2>5. m \in ToSet(batch) => ~Holds("web", m)
    <3>1. Holds("web", m) => m \in Held("web") /\ sender["web"].pc # "read"
      <4>1. sender["web"].queue \in Seq(MailCopy)
        BY <1>6 DEF MailInv, MailTypes
      <4> QED
        BY <4>1 DEF Holds, InQueue, Held, ToSet
    <3> QED
      BY <1>1, <1>2, <1>11, <3>1
  <2>6. m \in ToSet(batch) => mail[m].status = "PENDING"
    BY <1>3 DEF Waiting
  <2> QED
    BY <1>1, <2>1, <2>2, <2>3, <2>4, <2>5, <2>6 DEF MailFine, Sender
<1> QED
  BY <1>9, <1>10, <1>11 DEF MailInv

\* A sender at work, on the first copy of its queue.
LEMMA AtWork ==
    ASSUME MailInv, NEW s \in Sender, sender[s].pc \in {"send", "sent", "unsent"}
    PROVE  LET q == sender[s].queue IN
           /\ q \in Seq(MailCopy) /\ q # <<>> /\ DifferentRows(q) /\ Head1(s) = Head(q)
           /\ Head(q) \in MailCopy /\ Head(q).id \in Mail /\ Holds(s, Head(q).id)
<1>1. sender[s].queue \in Seq(MailCopy) /\ sender[s].queue # <<>> /\ DifferentRows(sender[s].queue)
  BY DEF MailInv, MailTypes, QueuesFit
<1>2. Head(sender[s].queue) \in MailCopy /\ InQueue(sender[s].queue, Head(sender[s].queue).id)
  BY <1>1, QueueParts
<1> QED
  BY <1>1, <1>2 DEF Head1, Holds, MailCopy

LEMMA SendStep == ASSUME MailInv, NEW s \in Sender, Send(s) PROVE MailInv'
<1>1. PICK m : m = Head1(s).id
  OBVIOUS
<1>2. sender[s].pc = "send" /\ m \in Mail /\ Holds(s, m)
  BY <1>1, AtWork DEF Send
<1>3. PICK accepted \in BOOLEAN, answered \in BOOLEAN :
          /\ ~answered => accepted
          /\ raced' = IF answered THEN raced ELSE raced \cup {m}
          /\ delivered' = IF accepted THEN [delivered EXCEPT ![m] = @ + 1] ELSE delivered
          /\ sender' = [sender EXCEPT ![s].pc = IF accepted /\ answered THEN "sent" ELSE "unsent"]
  BY <1>1 DEF Send
<1>4. mail' = mail
  BY DEF Send
<1>5. PICK pc \in {"sent", "unsent"} :
          sender' = [sender EXCEPT ![s].pc = pc] /\ (pc = "sent" <=> accepted /\ answered)
  BY <1>3
<1>6. /\ sender'[s].pc = pc /\ sender'[s].queue = sender[s].queue
      /\ \A r \in Sender : r # s => sender'[r] = sender[r]
  BY <1>5 DEF MailInv, MailTypes
<1>7. MailTypes'
  <2>1. sender' \in [Sender -> [pc : {"idle", "read", "send", "sent", "unsent"},
                               queue : Seq(MailCopy)]]
    BY <1>5 DEF MailInv, MailTypes
  <2>2. delivered' \in [Mail -> Nat]
    <3>1. delivered \in [Mail -> Nat] /\ delivered[m] + 1 \in Nat
      BY <1>2 DEF MailInv, MailTypes
    <3> QED
      BY <1>3, <3>1
  <2> QED
    BY <1>4, <2>1, <2>2 DEF MailInv, MailTypes
<1>8. QueuesFit'
  <2>1. \A r \in Sender : /\ sender'[r].queue = sender[r].queue
                          /\ sender'[r].pc = "idle" <=> sender[r].pc = "idle"
                          /\ sender'[r].pc = "read" <=> sender[r].pc = "read"
    BY <1>2, <1>6
  <2> QED
    BY <2>1 DEF MailInv, QueuesFit, Sender
<1>9. ASSUME NEW k \in Mail, k \notin raced' PROVE MailFine(k)'
  <2>1. MailFine(k) /\ k \notin raced
    BY <1>3, <1>9 DEF MailInv
  <2>2. \A r \in Sender : Holds(r, k)' <=> Holds(r, k)
    BY <1>2, <1>6 DEF Holds
  <2>3. Head1(s)' = Head1(s) /\ \A r \in Sender : r # s => Head1(r)' = Head1(r)
    BY <1>6 DEF Head1
  <2>4. CASE k = m
    <3>1. answered
      BY <1>3, <1>9, <2>4
    <3>2. ~Accepted1(k)
      <4> SUFFICES ASSUME NEW r \in Sender, sender[r].pc = "sent", Head1(r).id = k PROVE FALSE
        BY DEF Accepted1
      <4>1. Holds(r, k) /\ r # s
        BY <1>2, AtWork
      <4> QED
        BY <1>2, <2>1, <2>4, <4>1 DEF MailFine, Sender
    <3>3. mail[k].status = "PENDING" /\ delivered[k] = 0
      BY <1>2, <2>1, <2>4, <3>2 DEF MailFine
    <3>4. Accepted1(k)' <=> accepted
      <4>1. pc = "sent" <=> accepted
        BY <1>5, <3>1
      <4>2. \A r \in Sender : r # s => ~(sender[r].pc = "sent" /\ Head1(r).id = k)
        BY <3>2 DEF Accepted1
      <4> QED
        BY <1>1, <1>6, <2>3, <2>4, <4>1, <4>2 DEF Accepted1
    <3>5. delivered'[k] = IF accepted THEN 1 ELSE 0
      BY <1>2, <1>3, <2>4, <3>3 DEF MailInv, MailTypes
    <3> QED
      BY <1>4, <2>1, <2>2, <3>3, <3>4, <3>5 DEF MailFine, Sender
  <2>5. CASE k # m
    <3>1. Accepted1(k)' <=> Accepted1(k)
      BY <1>1, <1>2, <1>6, <2>3, <2>5 DEF Accepted1
    <3>2. delivered'[k] = delivered[k]
      BY <1>3, <2>5 DEF MailInv, MailTypes
    <3> QED
      BY <1>4, <2>1, <2>2, <3>1, <3>2, OtherMail
  <2> QED
    BY <2>4, <2>5
<1> QED
  BY <1>7, <1>8, <1>9 DEF MailInv

\* The copy is saved, and the sender goes on to the next copy.
LEMMA SaveMailStep == ASSUME MailInv, NEW s \in Sender, SaveSent(s) \/ SaveUnsent(s) PROVE MailInv'
<1>1. sender[s].pc \in {"sent", "unsent"} /\ raced' = raced /\ delivered' = delivered
      /\ Finished(s)
  BY DEF SaveSent, SaveUnsent
<1>2. PICK q \in Seq(MailCopy), m \in Mail :
          /\ q = sender[s].queue /\ m = Head1(s).id /\ m = Head(q).id
          /\ q # <<>> /\ DifferentRows(q) /\ Head(q) \in MailCopy
  BY <1>1, AtWork
<1>3. PICK new \in [status : MailStatus, attempts : Nat] :
          /\ mail' = [mail EXCEPT ![m] = new]
          /\ new.status \in IF sender[s].pc = "sent" THEN {"SENT"} ELSE {"PENDING", "FAILED"}
  <2>1. Head1(s).attempts + 1 \in Nat
    BY <1>1, AtWork DEF MailCopy
  <2> DEFINE copy(status) == [status |-> status, attempts |-> Head1(s).attempts + 1]
  <2>2. \A status \in MailStatus : /\ copy(status) \in [status : MailStatus, attempts : Nat]
                                   /\ copy(status).status = status
    BY <2>1
  <2>3. \E status \in MailStatus :
            /\ mail' = [mail EXCEPT ![m] = copy(status)]
            /\ status \in IF sender[s].pc = "sent" THEN {"SENT"} ELSE {"PENDING", "FAILED"}
    BY <1>2 DEF SaveSent, SaveUnsent, MailStatus
  <2> HIDE DEF copy
  <2> QED
    BY <2>2, <2>3
<1>4. PICK rest \in Seq(MailCopy) :
          /\ rest = Tail(q) /\ DifferentRows(rest) /\ Len(rest) = Len(q) - 1
          /\ \A k : InQueue(rest, k) <=> (InQueue(q, k) /\ k # m)
  <2>1. /\ Tail(q) \in Seq(MailCopy) /\ DifferentRows(Tail(q)) /\ Len(Tail(q)) = Len(q) - 1
        /\ \A k : InQueue(Tail(q), k) <=> (InQueue(q, k) /\ k # Head(q).id)
    BY <1>2, QueueParts
  <2> QED
    BY <1>2, <2>1
<1>5. PICK pc \in {"idle", "send"} : pc = IF rest = <<>> THEN "idle" ELSE "send"
  OBVIOUS
<1>6. sender' = [sender EXCEPT ![s] = [pc |-> pc, queue |-> rest]]
  BY <1>1, <1>2, <1>4, <1>5 DEF Finished
<1>7. /\ sender'[s].pc = pc /\ sender'[s].queue = rest
      /\ \A r \in Sender : r # s => sender'[r] = sender[r]
  BY <1>6 DEF MailInv, MailTypes
<1>8. MailTypes'
  <2>1. [pc |-> pc, queue |-> rest] \in
            [pc : {"idle", "read", "send", "sent", "unsent"}, queue : Seq(MailCopy)]
    OBVIOUS
  <2> QED
    BY <1>1, <1>3, <1>6, <2>1 DEF MailInv, MailTypes
<1>9. QueuesFit'
  <2>1. Len(q) <= 1 => Len(rest) <= 1
    BY <1>4
  <2>2. /\ QueuesFit
        /\ sender'[s].pc = "idle" <=> sender'[s].queue = <<>>
        /\ DifferentRows(sender'[s].queue) /\ sender'[s].pc # "read"
    BY <1>4, <1>5, <1>7 DEF MailInv
  <2>3. s = "web" => Len(sender'[s].queue) <= 1
    BY <1>2, <1>7, <2>1 DEF MailInv, QueuesFit
  <2> QED
    BY <1>7, <2>2, <2>3, QueuesKept
<1>10. ASSUME NEW k \in Mail, k \notin raced PROVE MailFine(k)'
  <2>1. MailFine(k)
    BY <1>10 DEF MailInv
  <2>2. /\ Holds(s, k)' <=> (Holds(s, k) /\ k # m)
        /\ \A r \in Sender : r # s => (Holds(r, k)' <=> Holds(r, k))
    BY <1>1, <1>2, <1>4, <1>5, <1>7 DEF Holds
  <2>3. Accepted1(k)' <=> \E r \in Sender \ {s} : sender[r].pc = "sent" /\ Head1(r).id = k
    BY <1>5, <1>7 DEF Accepted1, Head1
  <2>4. CASE k = m
    <3>1. Holds(s, m)
      BY <1>1, <1>2, AtWork
    <3>2. \A r \in Sender : r # s => ~Holds(r, k)
      BY <2>1, <2>4, <3>1 DEF MailFine, Sender
    <3>3. ~Accepted1(k)'
      <4>1. ASSUME NEW r \in Sender, r # s, sender[r].pc = "sent", Head1(r).id = k PROVE FALSE
        BY <3>2, <4>1, AtWork
      <4> QED
        BY <2>3, <4>1
    <3>4. delivered[k] = IF sender[s].pc = "sent" THEN 1 ELSE 0
      <4>1. mail[k].status = "PENDING"
        BY <2>1, <2>4, <3>1 DEF MailFine
      <4>2. Accepted1(k) <=> sender[s].pc = "sent"
        BY <1>2, <2>3, <2>4, <3>3 DEF Accepted1
      <4> QED
        BY <2>1, <4>1, <4>2 DEF MailFine
    <3>5. mail'[k].status = "SENT" <=> sender[s].pc = "sent"
      BY <1>2, <1>3, <2>4 DEF MailInv, MailTypes
    <3>6. \A r \in Sender : ~Holds(r, k)'
      BY <2>2, <2>4, <3>2
    <3> QED
      BY <1>1, <3>3, <3>4, <3>5, <3>6 DEF MailFine, Sender
  <2>5. CASE k # m
    <3>1. Accepted1(k)' <=> Accepted1(k)
      BY <1>2, <2>3, <2>5 DEF Accepted1
    <3>2. mail'[k] = mail[k]
      BY <1>2, <1>3, <2>5 DEF MailInv, MailTypes
    <3> QED
      BY <1>1, <1>10, <2>2, <3>1, <3>2, OtherMail
  <2> QED
    BY <2>4, <2>5
<1> QED
  BY <1>1, <1>8, <1>9, <1>10 DEF MailInv

LEMMA LoseSenderStep == ASSUME MailInv, NEW s \in Sender, LoseSender(s) PROVE MailInv'
<1>1. /\ sender[s].pc # "idle" /\ sender' = [sender EXCEPT ![s] = Resting]
      /\ raced' = IF sender[s].pc = "sent" THEN raced \cup {Head1(s).id} ELSE raced
      /\ mail' = mail /\ delivered' = delivered
  BY DEF LoseSender
<1>2. /\ sender'[s].pc = "idle" /\ sender'[s].queue = <<>>
      /\ \A r \in Sender : r # s => sender'[r] = sender[r]
  BY <1>1 DEF MailInv, MailTypes, Resting
<1>3. MailTypes'
  <2>1. Resting \in [pc : {"idle", "read", "send", "sent", "unsent"}, queue : Seq(MailCopy)]
    BY DEF Resting
  <2> QED
    BY <1>1, <2>1 DEF MailInv, MailTypes
<1>4. QueuesFit'
  <2>1. DifferentRows(<<>>) /\ Len(<<>>) <= 1
    BY DEF DifferentRows
  <2>2. /\ QueuesFit
        /\ sender'[s].pc = "idle" <=> sender'[s].queue = <<>>
        /\ DifferentRows(sender'[s].queue) /\ sender'[s].pc # "read" /\ Len(sender'[s].queue) <= 1
    BY <1>2, <2>1 DEF MailInv
  <2> QED
    BY <1>2, <2>2, QueuesKept
<1>5. ASSUME NEW k \in Mail, k \notin raced' PROVE MailFine(k)'
  <2>1. k \notin raced
    BY <1>1, <1>5
  <2>2. \A r \in Sender : Holds(r, k)' => Holds(r, k)
    BY <1>2 DEF Holds, InQueue
  <2>3. Accepted1(k)' <=> Accepted1(k)
    BY <1>1, <1>2, <1>5 DEF Accepted1, Head1
  <2> QED
    BY <1>1, <2>1, <2>2, <2>3, OtherMail
<1> QED
  BY <1>3, <1>4, <1>5 DEF MailInv

LEMMA MailStep == MailInv /\ [MailNext]_mailVars => MailInv'
<1> SUFFICES ASSUME MailInv, [MailNext]_mailVars PROVE MailInv'
  OBVIOUS
<1>1. CASE UNCHANGED mailVars
  BY <1>1 DEF mailVars, MailInv, MailTypes, QueuesFit, MailFine, Holds, Accepted1, Head1
<1> QED
  BY <1>1, QueueStep, TakeStep, SendNowStep, SendStep, SaveMailStep, LoseSenderStep
     DEF MailNext, SenderStep

\* A buyer gets an e-mail once, unless both senders hold its copy, a sender dies
\* before it saves or the server's answer is lost (tickets/sending.py).
THEOREM OneCopyAlways == MailSpec => []OneCopy
<1>1. MailInv => OneCopy
  BY FineIsOneCopy
<1> QED
  BY <1>1, MailStart, MailStep, PTL DEF MailSpec

\* Copies are of rows that may be tried once more, and no fault is too many.
MayBeTried(q) == \A i \in 1..Len(q) : q[i].attempts < MAX_ATTEMPTS
TriesCounted(m) == /\ mail[m].attempts <= MAX_ATTEMPTS
                   /\ mail[m].status = "FAILED" => mail[m].attempts = MAX_ATTEMPTS
MailCounts ==
    /\ \A m \in Mail : TriesCounted(m)
    /\ \A s \in Sender : MayBeTried(sender[s].queue)
    /\ mail_faults \in 0..MaxMailFaults

LEMMA MailCountsStart == MailInit => MailCounts
<1> SUFFICES ASSUME MailInit PROVE MailCounts
  OBVIOUS
<1>1. /\ \A m \in Mail : mail[m] = [status |-> "NONE", attempts |-> 0]
      /\ \A s \in Sender : sender[s].queue = <<>>
      /\ mail_faults = 0
  BY DEF MailInit, Resting
<1>2. \A m \in Mail : mail[m].attempts = 0 /\ mail[m].status = "NONE"
  BY <1>1
<1>3. \A s \in Sender : Len(sender[s].queue) = 0
  BY <1>1
<1> QED
  BY <1>1, <1>2, <1>3, MailAssumption DEF MailCounts, TriesCounted, MayBeTried

LEMMA WaitingCopies ==
    ASSUME MailTypes, NEW rows \in Seq(Mail),
           \A i \in 1..Len(rows) : mail[rows[i]].attempts < MAX_ATTEMPTS
    PROVE  MayBeTried(Copies(rows))
<1>1. Copies(rows) = [i \in 1..Len(rows) |-> [id |-> rows[i], attempts |-> mail[rows[i]].attempts]]
      /\ Len(rows) \in Nat
  BY DEF Copies
<1>2. Len(Copies(rows)) = Len(rows)
  BY <1>1
<1>3. \A i \in 1..Len(rows) : Copies(rows)[i].attempts = mail[rows[i]].attempts
  BY <1>1
<1> QED
  BY <1>2, <1>3 DEF MayBeTried

\* A step that leaves the other rows and the other sender alone.
LEMMA CountsKept ==
    ASSUME MailInv, MailCounts, NEW s \in Sender, MayBeTried(sender'[s].queue),
           \A r \in Sender : r # s => sender'[r] = sender[r],
           \A m \in Mail : TriesCounted(m)', mail_faults' \in 0..MaxMailFaults
    PROVE  MailCounts'
<1>1. \A r \in Sender : MayBeTried(sender'[r].queue)
  BY DEF MailCounts
<1> QED
  BY <1>1 DEF MailCounts, MayBeTried

LEMMA SaveCounts ==
    ASSUME MailInv, MailCounts, NEW s \in Sender, SaveSent(s) \/ SaveUnsent(s)
    PROVE  MailCounts'
<1>1. sender[s].pc \in {"sent", "unsent"} /\ mail_faults' = mail_faults /\ Finished(s)
  BY DEF SaveSent, SaveUnsent
<1>2. PICK q \in Seq(MailCopy), m \in Mail, c \in MailCopy :
          /\ q = sender[s].queue /\ c = Head1(s) /\ c = Head(q) /\ m = c.id /\ q # <<>>
  BY <1>1, AtWork
<1>3. /\ Len(q) \in Nat /\ 1 \in 1..Len(q) /\ c = q[1]
      /\ Tail(q) \in Seq(MailCopy) /\ Len(Tail(q)) = Len(q) - 1
      /\ \A i \in 1..(Len(q) - 1) : Tail(q)[i] = q[i + 1]
  BY <1>2
<1>4. MayBeTried(q)
  BY <1>2 DEF MailCounts
<1>5. c.attempts \in Nat /\ c.attempts < MAX_ATTEMPTS
  BY <1>3, <1>4 DEF MayBeTried, MailCopy
<1>6. MayBeTried(Tail(q))
  <2> SUFFICES ASSUME NEW i \in 1..Len(Tail(q)) PROVE Tail(q)[i].attempts < MAX_ATTEMPTS
    BY DEF MayBeTried
  <2>1. i + 1 \in 1..Len(q) /\ Tail(q)[i] = q[i + 1]
    BY <1>3
  <2> QED
    BY <1>4, <2>1 DEF MayBeTried
<1>7. PICK new \in [status : MailStatus, attempts : Nat] :
          /\ mail' = [mail EXCEPT ![m] = new] /\ new.attempts = c.attempts + 1
          /\ new.status = "FAILED" => new.attempts >= MAX_ATTEMPTS
  <2> DEFINE copy(status) == [status |-> status, attempts |-> c.attempts + 1]
  <2>1. \A status \in MailStatus : /\ copy(status) \in [status : MailStatus, attempts : Nat]
                                   /\ copy(status).status = status
                                   /\ copy(status).attempts = c.attempts + 1
    BY <1>5
  <2>2. \E status \in MailStatus : /\ mail' = [mail EXCEPT ![m] = copy(status)]
                                   /\ status = "FAILED" => c.attempts + 1 >= MAX_ATTEMPTS
    <3>1. CASE SaveSent(s)
      <4>1. mail' = [mail EXCEPT ![m] = copy("SENT")]
        BY <1>2, <3>1 DEF SaveSent
      <4> QED
        BY <4>1 DEF MailStatus
    <3>2. CASE SaveUnsent(s)
      <4>1. PICK status : status = IF c.attempts + 1 >= MAX_ATTEMPTS THEN "FAILED" ELSE "PENDING"
        OBVIOUS
      <4>2. mail' = [mail EXCEPT ![m] = copy(status)]
        BY <1>2, <3>2, <4>1 DEF SaveUnsent
      <4>3. status \in MailStatus /\ (status = "FAILED" => c.attempts + 1 >= MAX_ATTEMPTS)
        BY <4>1 DEF MailStatus
      <4> QED
        BY <4>2, <4>3
    <3> QED
      BY <3>1, <3>2
  <2> HIDE DEF copy
  <2> QED
    BY <2>1, <2>2
<1>8. \A k \in Mail : TriesCounted(k)'
  <2>1. new.attempts <= MAX_ATTEMPTS /\ (new.status = "FAILED" => new.attempts = MAX_ATTEMPTS)
    BY <1>5, <1>7, MailAssumption
  <2>2. mail'[m] = new /\ \A k \in Mail : k # m => mail'[k] = mail[k]
    BY <1>7 DEF MailInv, MailTypes
  <2> QED
    BY <2>1, <2>2 DEF MailCounts, TriesCounted
<1>9. PICK rest, pc : rest = Tail(q) /\ sender' = [sender EXCEPT ![s] = [pc |-> pc, queue |-> rest]]
  BY <1>1, <1>2 DEF Finished
<1>10. sender'[s].queue = rest /\ \A r \in Sender : r # s => sender'[r] = sender[r]
  BY <1>9 DEF MailInv, MailTypes
<1>11. mail_faults' \in 0..MaxMailFaults
  BY <1>1 DEF MailCounts
<1> QED
  BY <1>6, <1>8, <1>9, <1>10, <1>11, CountsKept

LEMMA MailCountsStep == ASSUME MailInv, MailCounts, [MailNext]_mailVars PROVE MailCounts'
<1>1. ASSUME mail' = mail PROVE \A m \in Mail : TriesCounted(m)'
  BY <1>1 DEF MailCounts, TriesCounted
<1>2. ASSUME NEW m \in Mail, _queue_email(m) PROVE MailCounts'
  <2>1. PICK copy : copy = [id |-> m, attempts |-> 0]
    OBVIOUS
  <2>2. PICK fresh : fresh = [status |-> "PENDING", attempts |-> 0]
    OBVIOUS
  <2>3. copy.attempts = 0 /\ fresh.attempts = 0 /\ fresh.status = "PENDING"
    BY <2>1, <2>2
  <2>4. /\ mail' = [mail EXCEPT ![m] = fresh] /\ mail_faults' = mail_faults
        /\ sender' = [sender EXCEPT !["web"].pc = "read", !["web"].queue = <<copy>>]
    BY <1>2, <2>1, <2>2 DEF _queue_email
  <2>5. /\ sender'["web"].queue = <<copy>> /\ \A r \in Sender : r # "web" => sender'[r] = sender[r]
        /\ mail'[m] = fresh /\ \A k \in Mail : k # m => mail'[k] = mail[k]
    BY <2>4 DEF MailInv, MailTypes, Sender
  <2>6. MayBeTried(<<copy>>)
    BY <2>3, MailAssumption DEF MayBeTried
  <2>7. \A k \in Mail : TriesCounted(k)'
    BY <2>3, <2>5, MailAssumption DEF MailCounts, TriesCounted
  <2>8. "web" \in Sender /\ mail_faults' \in 0..MaxMailFaults
    BY <2>4 DEF Sender, MailCounts
  <2> QED
    BY <2>5, <2>6, <2>7, <2>8, CountsKept
<1>3. ASSUME send_now PROVE MailCounts'
  <2>1. PICK m : m = Head1("web").id
    OBVIOUS
  <2>2. "web" \in Sender /\ sender["web"].queue \in Seq(MailCopy) /\ sender["web"].queue # <<>>
    BY <1>3 DEF send_now, MailInv, MailTypes, QueuesFit, Sender
  <2>3. m \in Mail
    <3>1. Head1("web") \in MailCopy
      BY <2>2 DEF Head1
    <3> QED
      BY <2>1, <3>1 DEF MailCopy
  <2>4. mail' = mail /\ mail_faults' \in 0..MaxMailFaults
    BY <1>3 DEF send_now, MailCounts
  <2>5. PICK q : /\ MayBeTried(q)
                 /\ sender'["web"].queue = q /\ \A r \in Sender : r # "web" => sender'[r] = sender[r]
    <3>1. CASE Waiting(m)
      <4>1. <<m>> \in Seq(Mail) /\ \A i \in 1..Len(<<m>>) : mail[<<m>>[i]].attempts < MAX_ATTEMPTS
        BY <2>3, <3>1 DEF Waiting
      <4>2. MayBeTried(Copies(<<m>>))
        BY <4>1, WaitingCopies DEF MailInv
      <4>3. PICK q : q = Copies(<<m>>)
        OBVIOUS
      <4>4. sender' = [sender EXCEPT !["web"].pc = "send", !["web"].queue = q]
        BY <1>3, <2>1, <3>1, <4>3 DEF send_now
      <4>5. sender'["web"].queue = q /\ \A r \in Sender : r # "web" => sender'[r] = sender[r]
        BY <2>2, <4>4 DEF MailInv, MailTypes
      <4> QED
        BY <4>2, <4>3, <4>5
    <3>2. CASE ~Waiting(m)
      <4>1. sender' = [sender EXCEPT !["web"] = Resting]
        BY <1>3, <2>1, <3>2 DEF send_now
      <4>2. sender'["web"].queue = <<>> /\ \A r \in Sender : r # "web" => sender'[r] = sender[r]
        BY <2>2, <4>1 DEF MailInv, MailTypes, Resting
      <4>3. MayBeTried(<<>>)
        BY DEF MayBeTried
      <4> QED
        BY <4>2, <4>3
    <3> QED
      BY <3>1, <3>2
  <2> QED
    BY <1>1, <2>2, <2>4, <2>5, CountsKept
<1>4. ASSUME send_pending_emails PROVE MailCounts'
  <2>1. PICK q : q = Copies(Batch)
    OBVIOUS
  <2>2. MayBeTried(q)
    <3>1. Batch \in Seq(Mail) /\ \A m \in ToSet(Batch) : Waiting(m)
      BY BatchTaken DEF MailInv
    <3>2. \A i \in 1..Len(Batch) : Batch[i] \in ToSet(Batch)
      BY <3>1 DEF ToSet
    <3>3. \A i \in 1..Len(Batch) : mail[Batch[i]].attempts < MAX_ATTEMPTS
      BY <3>1, <3>2 DEF Waiting
    <3> QED
      BY <2>1, <3>1, <3>3, WaitingCopies DEF MailInv
  <2>3. /\ sender' = [sender EXCEPT !["cron"].pc = "send", !["cron"].queue = q]
        /\ mail' = mail /\ mail_faults' = mail_faults
    BY <1>4, <2>1 DEF send_pending_emails
  <2>4. /\ "cron" \in Sender /\ sender'["cron"].queue = q
        /\ \A r \in Sender : r # "cron" => sender'[r] = sender[r]
    BY <2>3 DEF MailInv, MailTypes, Sender
  <2>5. mail_faults' \in 0..MaxMailFaults
    BY <2>3 DEF MailCounts
  <2> QED
    BY <1>1, <2>2, <2>3, <2>4, <2>5, CountsKept
<1>5. ASSUME NEW s \in Sender, Send(s) PROVE MailCounts'
  <2>1. PICK pc : sender' = [sender EXCEPT ![s].pc = pc]
    BY <1>5 DEF Send
  <2>2. mail' = mail /\ mail_faults' \in 0..MaxMailFaults
    <3>1. mail_faults \in 0..MaxMailFaults
      BY DEF MailCounts
    <3>2. mail_faults' = mail_faults \/ (mail_faults < MaxMailFaults /\ mail_faults' = mail_faults + 1)
      BY <1>5 DEF Send
    <3> QED
      BY <1>5, <3>1, <3>2, MailAssumption DEF Send
  <2>3. /\ sender'[s].queue = sender[s].queue
        /\ \A r \in Sender : r # s => sender'[r] = sender[r]
    BY <2>1 DEF MailInv, MailTypes
  <2>4. MayBeTried(sender'[s].queue)
    BY <2>3 DEF MailCounts
  <2> QED
    BY <1>1, <2>2, <2>3, <2>4, CountsKept
<1>6. ASSUME NEW s \in Sender, LoseSender(s) PROVE MailCounts'
  <2>1. /\ sender' = [sender EXCEPT ![s] = Resting] /\ mail' = mail
        /\ mail_faults < MaxMailFaults /\ mail_faults' = mail_faults + 1
    BY <1>6 DEF LoseSender
  <2>2. sender'[s].queue = <<>> /\ \A r \in Sender : r # s => sender'[r] = sender[r]
    BY <2>1 DEF MailInv, MailTypes, Resting
  <2>3. MayBeTried(<<>>)
    BY DEF MayBeTried
  <2>4. mail_faults' \in 0..MaxMailFaults
    BY <2>1, MailAssumption DEF MailCounts
  <2> QED
    BY <1>1, <2>1, <2>2, <2>3, <2>4, CountsKept
<1>7. CASE UNCHANGED mailVars
  BY <1>7 DEF mailVars, MailCounts, TriesCounted, MayBeTried
<1> QED
  BY <1>2, <1>3, <1>4, <1>5, <1>6, <1>7, SaveCounts DEF MailNext, SenderStep

\* No interleaving of the two senders tries an e-mail more often than
\* MAX_ATTEMPTS or writes a status that the outbox does not have.
THEOREM MailTypesHold == MailSpec => []MailTypeOK
<1>1. MailInv /\ MailCounts => MailTypeOK
  <2> SUFFICES ASSUME MailInv, MailCounts PROVE MailTypeOK
    OBVIOUS
  <2>1. \A m \in Mail : mail[m].status \in MailStatus /\ mail[m].attempts \in Nat
    BY DEF MailInv, MailTypes
  <2>2. \A m \in Mail : mail[m].attempts \in 0..MAX_ATTEMPTS
    BY <2>1, MailAssumption DEF MailCounts, TriesCounted
  <2>3. \A s \in Sender : sender[s].pc \in {"idle", "read", "send", "sent", "unsent"}
    BY DEF MailInv, MailTypes
  <2> QED
    BY <2>1, <2>2, <2>3 DEF MailCounts, TriesCounted, MailTypeOK
<1>2. MailInv /\ MailCounts /\ [MailNext]_mailVars => (MailInv /\ MailCounts)'
  BY MailStep, MailCountsStep
<1> QED
  BY <1>1, <1>2, MailStart, MailCountsStart, PTL DEF MailSpec

(***************************************************************************)
(* Pools.                                                                  *)
(***************************************************************************)

\* The first element of a set of numbers, as `earliest among' finds it.
LEMMA FirstIsLeast ==
    ASSUME NEW S \in SUBSET Nat, S # {}
    PROVE  First(S) \in S /\ \A i \in S : First(S) <= i
<1>1. PICK x \in S : \A y \in S : ~(<<y, x>> \in OpToRel(<, Nat))
  BY NatLessThanWellFounded, WFMin
<1>2. ASSUME NEW y \in S, y < x PROVE FALSE
  <2>1. <<y, x>> \in {ss \in Nat \X Nat : ss[1] < ss[2]}
    BY <1>2
  <2>2. <<y, x>> \in OpToRel(<, Nat)
    BY <2>1, Zenon DEF OpToRel
  <2> QED
    BY <1>1, <2>2, Zenon
<1>3. \A y \in S : x <= y
  BY <1>2
<1> QED
  BY <1>3 DEF First

PoolTypes ==
    /\ clock \in 0..(Horizon + 1)
    /\ pool \in [Index -> TicketPool]
    /\ sold_count \in [Index -> 0..Capacity]
    /\ manual \in [Index -> ManualStatus]
    /\ chosen \in [Shopper -> 0..Pools]
    /\ overrides \in Nat

PoolsSorted == \A i, j \in Index : i < j => NotAfter(pool[i].start, pool[j].start)
Hands == overrides = 0 => \A i \in Index : manual[i] = "AUTO"
StartFirst == \A i \in Index : NotAfter(pool[i].start, pool[i].end)

\* Pool k could have its turn: no earlier one waits for its date, but that the
\* one before it lets it start.
Linked(k) == \A i \in 1..k : DateTrigger(i) \/ (i > 1 /\ pool[i - 1].on_sellout = "ACTIVATE_NEXT")

\* A pool that has sold, or is about to, has had its turn.
Opened ==
    (overrides = 0 /\ StartFirst) =>
        /\ \A k \in Index : sold_count[k] > 0 => Linked(k)
        /\ \A b \in Shopper : chosen[b] # 0 => Linked(chosen[b])

PoolInv == PoolTypes /\ PoolsSorted /\ Hands /\ Opened

LEMMA ActiveInTurn ==
    ASSUME PoolInv, overrides = 0, StartFirst, NEW j \in Active
    PROVE  Linked(j)
<1>1. j \in Index /\ PoolStatus(j) = "ACTIVE" /\ manual[j] = "AUTO"
  BY DEF Active, pools_with_status, PoolInv, Hands
<1>2. ASSUME NEW k \in Index, pool[k].start # NoDate, clock >= pool[k].start
      PROVE  Linked(k)
  <2> SUFFICES ASSUME NEW i \in 1..k PROVE DateTrigger(i)
    BY DEF Linked
  <2>1. i \in Index /\ (i = k \/ NotAfter(pool[i].start, pool[k].start))
    BY PoolsAssumption DEF Index, PoolInv, PoolsSorted
  <2>2. {pool[i].start, pool[k].start} \subseteq Nat \cup {NoDate} /\ clock \in Nat
    BY <2>1, PoolsAssumption DEF PoolInv, PoolTypes, TicketPool, Instant
  <2> QED
    BY <2>1, <2>2, <1>2, PoolsAssumption DEF NotAfter, DateTrigger
<1>3. CASE OwnStatus(j) = "ACTIVE"
  <2>1. DateTrigger(j)
    BY <1>1, <1>3 DEF OwnStatus
  <2>2. CASE pool[j].start = NoDate
    BY <2>1, <2>2 DEF DateTrigger, Linked
  <2>3. CASE pool[j].start # NoDate
    BY <2>1, <2>3, <1>1, <1>2 DEF DateTrigger
  <2> QED
    BY <2>2, <2>3
<1>4. CASE Cascade(j)
  <2>1. /\ j > 1 /\ j - 1 \in Index /\ Exhausted(OwnStatus(j - 1))
        /\ pool[j - 1].on_sellout = "ACTIVATE_NEXT"
        /\ manual[j - 1] = "AUTO"
    BY <1>1, <1>4, PoolsAssumption DEF Cascade, Index, PoolInv, Hands
  <2>2. \/ sold_count[j - 1] >= Capacity
        \/ pool[j - 1].end # NoDate /\ clock > pool[j - 1].end
    BY <2>1 DEF OwnStatus, Exhausted
  <2>3. Linked(j - 1)
    <3>1. CASE sold_count[j - 1] >= Capacity
      BY <3>1, <2>1, PoolsAssumption DEF PoolInv, PoolTypes, Opened
    <3>2. CASE pool[j - 1].end # NoDate /\ clock > pool[j - 1].end
      <4>1. NotAfter(pool[j - 1].start, pool[j - 1].end)
        BY <2>1 DEF StartFirst
      <4>2. {pool[j - 1].start, pool[j - 1].end} \subseteq Nat \cup {NoDate} /\ clock \in Nat
        BY <2>1, PoolsAssumption DEF PoolInv, PoolTypes, TicketPool, Instant
      <4>3. pool[j - 1].start # NoDate /\ clock >= pool[j - 1].start
        BY <4>1, <4>2, <3>2, PoolsAssumption DEF NotAfter
      <4> QED
        BY <4>3, <2>1, <1>2
    <3> QED
      BY <2>2, <3>1, <3>2
  <2> QED
    BY <2>1, <2>3, <1>1 DEF Linked, Index
<1> QED
  BY <1>1, <1>3, <1>4 DEF PoolStatus

LEMMA FirstActive ==
    ASSUME get_active_pool # 0
    PROVE  get_active_pool \in Active /\ \A i \in Active : get_active_pool <= i
<1>1. Active \in SUBSET Nat
  BY DEF Active, Index
<1>2. Active # {}
  BY DEF get_active_pool, First
<1> QED
  BY <1>1, <1>2, FirstIsLeast DEF get_active_pool

LEMMA NoActive ==
    ASSUME Active = {} PROVE get_active_pool = 0
  BY DEF get_active_pool, First

LEMMA TurnsTaken == PoolInv => PoolsTakeTurns
<1> SUFFICES ASSUME PoolInv, overrides = 0, StartFirst,
                    NEW n \in 1..(get_active_pool - 1), ~Exhausted(PoolStatus(n))
             PROVE  FALSE
  <2>1. get_active_pool \in 0..Pools
    BY FirstActive, NoActive, PoolsAssumption DEF Active, Index
  <2>2. \A i \in 1..(get_active_pool - 1) : pools_with_status[i] = PoolStatus(i)
    BY <2>1, PoolsAssumption DEF pools_with_status, Index
  <2> QED
    BY <2>2 DEF PoolsTakeTurns, StartFirst
<1> DEFINE g == get_active_pool
           S == {i \in 1..(g - 1) : ~Exhausted(PoolStatus(i))}
           m == First(S)
<1>1. g \in Active /\ (\A i \in Active : g <= i) /\ g \in 1..Pools
  <2>1. g # 0
    <3>1. g = 0 => 1..(g - 1) = {}
      OBVIOUS
    <3> QED BY <3>1
  <2> QED
    BY <2>1, FirstActive DEF Active, Index
<1>2. Linked(g)
  BY <1>1, ActiveInTurn
<1>3. S \in SUBSET Nat /\ n \in S
  OBVIOUS
<1>4. m \in S /\ \A i \in S : m <= i
  BY <1>3, FirstIsLeast
<1>5. m \in Index /\ m < g /\ m \notin Active /\ ~Exhausted(PoolStatus(m)) /\ manual[m] = "AUTO"
  BY <1>1, <1>4, PoolsAssumption DEF Index, PoolInv, Hands
<1>6. PoolStatus(m) # "ACTIVE"
  BY <1>5 DEF Active, pools_with_status
<1>7. OwnStatus(m) = "DRAFT" /\ ~Cascade(m) /\ ~DateTrigger(m)
  BY <1>5, <1>6 DEF PoolStatus, OwnStatus, Exhausted
<1>8. m > 1 /\ pool[m - 1].on_sellout = "ACTIVATE_NEXT"
  BY <1>1, <1>2, <1>4, <1>7 DEF Linked
<1>9. m - 1 \in 1..(g - 1) /\ m - 1 \notin S
  BY <1>1, <1>4, <1>8
<1>10. Exhausted(OwnStatus(m - 1))
  BY <1>9 DEF PoolStatus, Exhausted
<1> QED
  BY <1>7, <1>8, <1>10 DEF Cascade

LEMMA PoolStart == PoolInit => PoolInv
<1> SUFFICES ASSUME PoolInit PROVE PoolInv
  OBVIOUS
<1>1. PoolTypes
  BY PoolsAssumption DEF PoolInit, PoolTypes, ManualStatus
<1>2. PoolsSorted /\ Hands /\ Opened
  BY PoolsAssumption DEF PoolInit, PoolsSorted, Hands, Opened
<1> QED
  BY <1>1, <1>2 DEF PoolInv

\* What has had its turn keeps it, as time passes.
LEMMA StaysLinked ==
    ASSUME PoolInv, PoolNext, NEW k \in 0..Pools, Linked(k)
    PROVE  Linked(k)'
<1>1. pool' = pool /\ clock \in Nat /\ clock' \in Nat /\ clock' >= clock
  BY PoolsAssumption DEF PoolNext, PoolInv, PoolTypes, Tick, set_pool_manual_status, FindPool, Reserve,
     GiveBackPlace
<1>2. ASSUME NEW i \in 1..k, DateTrigger(i) PROVE DateTrigger(i)'
  <2>1. i \in Index
    BY PoolsAssumption DEF Index
  <2>2. pool[i].start \in Nat \cup {NoDate}
    BY <2>1, PoolsAssumption DEF PoolInv, PoolTypes, TicketPool, Instant
  <2> QED
    BY <1>1, <1>2, <2>2, PoolsAssumption DEF DateTrigger
<1> QED
  BY <1>1, <1>2 DEF Linked

LEMMA PoolStep ==
    ASSUME PoolInv, PoolNext
    PROVE  PoolInv'
<1>1. CASE Tick
  <2>1. PoolTypes' /\ PoolsSorted' /\ Hands'
    BY <1>1, PoolsAssumption DEF Tick, PoolInv, PoolTypes, PoolsSorted, Hands
  <2>2. Opened'
    BY <1>1, StaysLinked DEF Tick, PoolInv, PoolTypes, Opened, StartFirst, Index
  <2> QED
    BY <2>1, <2>2 DEF PoolInv
<1>2. ASSUME NEW i \in Index, NEW s \in ManualStatus, set_pool_manual_status(i, s)
      PROVE  PoolInv'
  <2>1. PoolTypes' /\ PoolsSorted' /\ overrides' # 0
    BY <1>2, PoolsAssumption DEF set_pool_manual_status, PoolInv, PoolTypes, PoolsSorted
  <2> QED
    BY <2>1 DEF PoolInv, Hands, Opened
<1>3. ASSUME NEW i \in Index, GiveBackPlace(i)
      PROVE  PoolInv'
  <2>1. PoolTypes' /\ PoolsSorted' /\ Hands'
    BY <1>3, PoolsAssumption DEF GiveBackPlace, PoolInv, PoolTypes, PoolsSorted, Hands
  <2>2. \A k \in Index : sold_count'[k] > 0 => sold_count[k] > 0
    BY <1>3, PoolsAssumption DEF GiveBackPlace, PoolInv, PoolTypes
  <2>3. Opened'
    BY <1>3, <2>2, StaysLinked DEF GiveBackPlace, PoolInv, PoolTypes, Opened, StartFirst, Index
  <2> QED
    BY <2>1, <2>3 DEF PoolInv
<1>4. ASSUME NEW b \in Shopper, FindPool(b)
      PROVE  PoolInv'
  <2>1. get_active_pool \in 0..Pools /\ (get_active_pool # 0 => get_active_pool \in Active)
    BY FirstActive, PoolsAssumption DEF Active, Index
  <2>2. PoolTypes' /\ PoolsSorted' /\ Hands'
    BY <1>4, <2>1 DEF FindPool, PoolInv, PoolTypes, PoolsSorted, Hands
  <2>3. Opened'
    <3>1. ASSUME NEW k, Linked(k) PROVE Linked(k)'
      BY <1>4, <3>1 DEF FindPool, Linked, DateTrigger
    <3>2. ASSUME overrides = 0, StartFirst, NEW c \in Shopper, NEW k \in 0..Pools,
                 k = chosen'[c], k # 0
          PROVE  Linked(k)
      <4>1. CASE c = b /\ k = get_active_pool
        BY <4>1, <2>1, <3>2, ActiveInTurn
      <4>2. CASE k = chosen[c]
        BY <4>2, <3>2 DEF PoolInv, Opened
      <4> QED
        BY <4>1, <4>2, <3>2, <1>4 DEF FindPool, PoolInv, PoolTypes
    <3>3. chosen' \in [Shopper -> 0..Pools]
      BY <2>2 DEF PoolTypes
    <3>4. ASSUME overrides = 0, StartFirst
          PROVE  /\ \A k \in Index : sold_count[k] > 0 => Linked(k)'
                 /\ \A c \in Shopper, k \in 0..Pools : k = chosen'[c] /\ k # 0 => Linked(k)'
      BY <3>4, <3>1, <3>2 DEF PoolInv, Opened
    <3> QED
      BY <3>3, <3>4, <1>4 DEF FindPool, Opened, StartFirst
  <2> QED
    BY <2>2, <2>3 DEF PoolInv
<1>5. ASSUME NEW b \in Shopper, Reserve(b)
      PROVE  PoolInv'
  <2>1. chosen[b] \in Index
    BY <1>5 DEF Reserve, PoolInv, PoolTypes, Index
  <2>2. PoolTypes' /\ PoolsSorted' /\ Hands'
    BY <1>5, <2>1, PoolsAssumption DEF Reserve, PoolInv, PoolTypes, PoolsSorted, Hands
  <2>3. \A k \in Index : sold_count'[k] > 0 => sold_count[k] > 0 \/ k = chosen[b]
    BY <1>5, <2>1, PoolsAssumption DEF Reserve, PoolInv, PoolTypes
  <2>4. \A c \in Shopper : chosen'[c] # 0 => chosen'[c] = chosen[c]
    BY <1>5 DEF Reserve, PoolInv, PoolTypes
  <2>5. Opened'
    BY <1>5, <2>1, <2>3, <2>4 DEF Reserve, PoolInv, Opened, StartFirst, Linked, DateTrigger
  <2> QED
    BY <2>2, <2>5 DEF PoolInv
<1> QED
  BY <1>1, <1>2, <1>3, <1>4, <1>5 DEF PoolNext

LEMMA PoolInvHolds == PoolSpec => []PoolInv
<1>1. PoolInv /\ UNCHANGED poolVars => PoolInv'
  BY DEF poolVars, PoolInv, PoolTypes, PoolsSorted, Hands, Opened, StartFirst, Linked, DateTrigger
<1> QED
  BY <1>1, PoolStart, PoolStep, PTL DEF PoolSpec

\* (PoolActivation) The pool buyers get is the first that is neither sold out
\* nor closed, for any number of pools of any dates and any length of sales.
THEOREM PoolsAlwaysTakeTurns == PoolSpec => []PoolsTakeTurns
  BY PoolInvHolds, TurnsTaken, PTL

\* (PoolActivation) An event whose sales are CLOSED sells no more, as time
\* passes and places are taken.
THEOREM ClosedStaysClosed == PoolSpec => ClosedIsFinal
<1> DEFINE Final == (get_sales_state = "CLOSED" /\ manual' = manual
                     /\ \A i \in Index : sold_count'[i] >= sold_count[i])
                        => get_sales_state' \in {"CLOSED", "SOLD_OUT"}
<1>1. PoolInv /\ [PoolNext]_poolVars => [Final]_poolVars
  <2> SUFFICES ASSUME PoolInv, PoolNext, get_sales_state = "CLOSED", manual' = manual,
                      \A i \in Index : sold_count'[i] >= sold_count[i],
                      get_sales_state' # "SOLD_OUT"
               PROVE  get_sales_state' = "CLOSED"
    OBVIOUS
  <2>1. pool' = pool /\ clock \in Nat /\ clock' \in Nat /\ clock' >= clock
    BY PoolsAssumption DEF PoolNext, PoolInv, PoolTypes, Tick, set_pool_manual_status, FindPool,
       Reserve, GiveBackPlace
  <2>2. clock >= 1 /\ ~(\A i \in Index : sold_count'[i] >= Capacity)
    BY <2>1, PoolsAssumption DEF get_sales_state
  <2>3. CASE clock > Horizon
    BY <2>1, <2>2, <2>3, PoolsAssumption DEF get_sales_state
  <2>4. CASE clock <= Horizon
    <3>1. /\ Active = {}
          /\ \A i \in Index : pools_with_status[i] # "DRAFT"
      BY <2>1, <2>2, <2>4, PoolsAssumption DEF get_sales_state
    <3>2. \A i \in Index : PoolStatus(i) \notin {"ACTIVE", "DRAFT"}
      BY <3>1 DEF Active, pools_with_status
    <3>3. ASSUME NEW i \in Index
          PROVE  PoolStatus(i)' \notin {"ACTIVE", "DRAFT"}
      <4>1. {sold_count[i], sold_count'[i], Capacity} \subseteq Int
            /\ sold_count'[i] >= sold_count[i] /\ pool[i].end \in Nat \cup {NoDate}
        <5>1. PoolTypes'
          BY PoolStep DEF PoolInv
        <5> QED
          BY <5>1, PoolsAssumption DEF PoolInv, PoolTypes, TicketPool, Instant
      <4>2. OwnStatus(i) \in {"SOLD_OUT", "CLOSED"}
        BY <3>2 DEF PoolStatus, OwnStatus
      <4>3. \/ manual[i] = "FORCED_CLOSED" \/ sold_count[i] >= Capacity
            \/ pool[i].end # NoDate /\ clock > pool[i].end
        BY <4>2 DEF OwnStatus
      <4>4. OwnStatus(i)' \in {"SOLD_OUT", "CLOSED"}
        BY <4>1, <4>3, <2>1, PoolsAssumption DEF OwnStatus
      <4> QED
        BY <4>4 DEF PoolStatus
    <3>4. Active' = {} /\ ~(\E i \in Index : pools_with_status'[i] = "DRAFT")
      BY <3>3 DEF Active, pools_with_status
    <3> QED
      BY <3>4, <2>1, <2>2, PoolsAssumption DEF get_sales_state
  <2> QED
    BY <2>1, <2>3, <2>4, PoolsAssumption
<1> QED
  BY <1>1, PoolInvHolds, PTL DEF PoolSpec, ClosedIsFinal

\* The statuses of pools and their counters stay what they may be: nobody
\* oversells a pool, however many requests have found it active.
THEOREM PoolTypesHold == PoolSpec => []PoolTypeOK
<1>1. PoolInv => PoolTypeOK
  BY DEF PoolInv, PoolTypes, PoolTypeOK
<1> QED
  BY <1>1, PoolInvHolds, PTL

(***************************************************************************)
(* Forms.                                                                  *)
(***************************************************************************)

PoolRecord == [start : PoolDate, end : PoolDate, capacity : Nat, sold : Nat]
PoolTable == [PoolId -> PoolRecord \cup {NoPool}]

EventRow == [start : ConcertDays, gates : Int, end : Int, sales_start : PoolDate,
             sales_end : PoolDate, capacity : Nat, sold : Nat,
             status : {"DRAFT", "PUBLISHED"}]
EventFits(e) ==
    e \in EventRow /\ e.gates <= start_at(e.start) /\ start_at(e.start) < e.end

FormFits(f) ==
    /\ EventFits(f.event)
    /\ f.listed \in PoolTable /\ f.rows \in PoolForms /\ f.changed \subseteq PoolId

EditTypes ==
    /\ EventFits(happening)
    /\ pools \in PoolTable
    /\ \A p \in Existing(pools) : pools[p].sold <= pools[p].capacity
    /\ form = [w \in Clerk |-> form[w]]
    /\ \A w \in Clerk : form[w] # NoForm => FormFits(form[w])
    /\ buyer \in [Buyers -> ConcertDays \cup {NoBuyer, Meanwhile}] /\ unasked \subseteq Buyers
    /\ {copied, crossed} \subseteq BOOLEAN

SalesEnd == happening.sales_end = online_sales_cutoff(happening.start)

\* Rows of a form, or of the table, that say the same of the dates.
SameDates(a, b) ==
    /\ a = NoPool <=> b = NoPool
    /\ a # NoPool => a.start = b.start /\ a.end = b.end

\* A form is alone, what it does not change is as its rows have it, and the
\* buyers it is not to tell have nothing to be told, or could not be listed.
FormStands(w) ==
    LET f == form[w] IN
    /\ EndBy(f.rows, f.event.start) /\ Apart(f.rows)
    /\ \A p \in PoolId \ f.changed : SameDates(pools[p], f.rows[p])
    /\ \/ f.event.start = happening.start
       \/ f.confirmed
       \/ \A i \in Paid : buyer[i] = Meanwhile
       \/ ~f.listable /\ happening.start < f.event.start

OneForm == ~crossed => \A v, w \in Clerk : form[v] # NoForm /\ form[w] # NoForm => v = w
FormsStand == ~crossed => \A w \in Clerk : form[w] # NoForm => FormStands(w)

EditInv == EditTypes /\ SalesEnd /\ OneForm /\ FormsStand /\ PoolsStayApart /\ BuyersKnowDate

-----------------------------------------------------------------------------

LEMMA DatesDecide ==
    ASSUME NEW a, NEW b, \A p \in PoolId : SameDates(a[p], b[p])
    PROVE  /\ Apart(a) <=> Apart(b)
           /\ \A day : EndBy(a, day) <=> EndBy(b, day)
<1>1. \A p \in PoolId : /\ a[p] # NoPool <=> b[p] # NoPool
                        /\ a[p] # NoPool => a[p].start = b[p].start /\ a[p].end = b[p].end
  BY DEF SameDates
<1>2. Existing(a) = Existing(b) /\ DatedPools(a) = DatedPools(b)
  BY <1>1 DEF Existing, DatedPools
<1>3. Apart(a) <=> Apart(b)
  BY <1>1, <1>2 DEF Apart, DatedPools, Existing
<1>4. ASSUME NEW day PROVE EndBy(a, day) <=> EndBy(b, day)
  BY <1>1, <1>2 DEF EndBy, Existing
<1> QED
  BY <1>3, <1>4

LEMMA CapacityIsNat ==
    ASSUME NEW ps, \A p \in Existing(ps) : ps[p].capacity \in Nat
    PROVE  CapacityOf(ps) \in Nat
<1> DEFINE S == Existing(ps)
           Own(g) == g = [s \in SUBSET S |-> IF s = {} THEN 0
                  ELSE ps[CHOOSE x \in s : TRUE].capacity + g[s \ {CHOOSE x \in s : TRUE}]]
           F == [p \in S |-> ps[p].capacity]
           c == CHOOSE g : Own(g)
<1>0. IsFiniteSet(S)
  BY EditingAssumption, FS_Subset DEF Existing
<1>1. ASSUME NEW g PROVE IsSum(g, F, S) <=> Own(g)
  <2>1. ASSUME NEW s \in SUBSET S, s # {}
        PROVE  F[CHOOSE x \in s : TRUE] = ps[CHOOSE x \in s : TRUE].capacity
    <3>1. (CHOOSE x \in s : TRUE) \in s
      BY <2>1
    <3> QED
      BY <3>1
  <2> HIDE DEF F, S
  <2> QED
    BY <2>1 DEF IsSum, Chosen
<1>2. CapacityOf(ps) = c[S]
  BY DEF CapacityOf, MapThenSumSet, MapThenFoldSet
<1>3. \A x \in S : F[x] \in Nat
  OBVIOUS
<1> HIDE DEF Own, F, S
<1>4. \E g : Own(g)
  BY <1>0, <1>1, SumExists
<1>5. Own(c)
  BY <1>4
<1> HIDE DEF c
<1>6. IsSum(c, F, S) /\ S \in SUBSET S
  BY <1>1, <1>5
<1>7. c[S] = SumOver(F, S)
  BY <1>0, <1>6, SumOverIs
<1> QED
  BY <1>0, <1>2, <1>3, <1>7, SumNat

LEMMA TableCapacity ==
    ASSUME NEW ps \in PoolTable
    PROVE  CapacityOf(ps) \in Nat
<1>1. \A p \in Existing(ps) : ps[p].capacity \in Nat
  BY DEF PoolTable, PoolRecord, Existing
<1> QED
  BY <1>1, CapacityIsNat

LEMMA DaysAreDates == ASSUME NEW day \in ConcertDays PROVE day \in Nat /\ day \in PoolDate
  BY EditingAssumption DEF PoolDate

LEMMA LeastExists ==
    ASSUME NEW S, IsFiniteSet(S), S # {}
    PROVE  S \subseteq Int => Min(S) \in S
<1> DEFINE Least(U) == \E x \in U : \A y \in U : x <= y
           B == {U \in SUBSET S : U # {} /\ U \subseteq Int /\ ~Least(U)}
<1>1. ASSUME B # {} PROVE FALSE
  <2>1. \E U \in B : \A V \in B : V \subseteq U => V = U
    <3>1. B \subseteq SUBSET S /\ B # {} /\ IsFiniteSet(S)
      BY <1>1
    <3> HIDE DEF B
    <3> QED
      BY <3>1, SmallestSubset
  <2>2. PICK U \in B : \A V \in B : V \subseteq U => V = U
    BY <2>1
  <2>3. PICK x \in U : TRUE
    OBVIOUS
  <2> DEFINE V == U \ {x}
  <2>4. V # {}
    <3>1. V = {} => \A y \in U : x <= y
      OBVIOUS
    <3> QED
      BY <3>1
  <2>5. Least(V)
    <3>1. V \in SUBSET S /\ V # U /\ V \subseteq Int /\ V \subseteq U
      OBVIOUS
    <3>2. V \notin B
      BY <2>2, <3>1
    <3> QED
      BY <2>4, <3>1, <3>2
  <2>6. PICK m \in V : \A y \in V : m <= y
    BY <2>5
  <2>7. U \subseteq Int /\ x \in Int /\ m \in Int
    OBVIOUS
  <2>8. CASE x <= m
    BY <2>6, <2>7, <2>8
  <2>9. CASE m <= x
    BY <2>6, <2>7, <2>9
  <2> QED
    BY <2>7, <2>8, <2>9
<1>2. S \subseteq Int => Least(S)
  BY <1>1
<1> QED
  BY <1>2 DEF Min

\* What save_related makes of an event.
LEMMA Related ==
    ASSUME NEW e, EventFits(e), NEW ps \in PoolTable
    PROVE  LET after == save_related(e, ps) IN
           EventFits(after) /\ after.start = e.start /\ after.sold = e.sold
           /\ after.sales_end = online_sales_cutoff(e.start)
<1> DEFINE x == IF PoolStarts(ps) = {} THEN e.sales_start ELSE Min(PoolStarts(ps))
           z == IF Existing(ps) = {} THEN e.capacity ELSE CapacityOf(ps)
<1>1. z \in Nat
  BY TableCapacity DEF EventFits, EventRow
<1>2. x \in PoolDate
  <2>1. IsFiniteSet(Existing(ps))
    BY EditingAssumption, FS_Subset DEF Existing
  <2> DEFINE f == [p \in Existing(ps) |-> ps[p].start]
  <2>2. IsFiniteSet({ps[p].start : p \in Existing(ps)})
    <3>1. f \in Surjection(Existing(ps), {ps[p].start : p \in Existing(ps)})
      BY DEF Surjection
    <3> QED
      BY <2>1, <3>1, FS_Surjection
  <2>3. IsFiniteSet(PoolStarts(ps))
    BY <2>2, FS_Subset DEF PoolStarts
  <2>4. PoolStarts(ps) \subseteq Int
    BY DEF PoolStarts, PoolTable, PoolRecord, PoolDate, Existing
  <2>5. CASE PoolStarts(ps) = {}
    BY <2>5 DEF EventFits, EventRow
  <2>6. CASE PoolStarts(ps) # {}
    BY <2>3, <2>4, <2>6, LeastExists DEF PoolDate
  <2> QED
    BY <2>5, <2>6
<1>3. save_related(e, ps) = [e EXCEPT !.sales_start = x,
                                !.sales_end = online_sales_cutoff(e.start), !.capacity = z]
  BY DEF save_related
<1>4. online_sales_cutoff(e.start) \in PoolDate
  <2>1. e.start \in ConcertDays
    BY DEF EventFits, EventRow
  <2>2. e.start \in Nat
    BY <2>1, EditingAssumption
  <2> QED
    BY <2>2 DEF PoolDate, online_sales_cutoff
<1> HIDE DEF x, z
<1> QED
  BY <1>1, <1>2, <1>3, <1>4 DEF EventFits, EventRow

LEMMA Saved ==
    ASSUME NEW e, EventFits(e)
    PROVE  EventFits(EventSave(e)) /\ EventSave(e).start = e.start /\ EventSave(e).sold = e.sold
<1>0. e.sales_end \in PoolDate /\ e.start \in PoolDate
  BY DaysAreDates DEF EventFits, EventRow
<1>1. Earlier(e.sales_end, online_sales_cutoff(e.start)) \in PoolDate
  BY <1>0 DEF Earlier, online_sales_cutoff
<1> QED
  BY <1>1 DEF EventFits, EventRow, EventSave

LEMMA Derived ==
    ASSUME NEW e, EventFits(e), NEW ps \in PoolTable
    PROVE  LET after == save_related(EventSave(e), ps) IN
           EventFits(after) /\ after.start = e.start /\ after.sold = e.sold
           /\ after.sales_end = online_sales_cutoff(e.start)
  BY Saved, Related

LEMMA Hours ==
    ASSUME NEW day \in ConcertDays, NEW times \in Times
    PROVE  times.gates \in Int /\ EndAt(day, times) \in Int /\ day \in Int
<1>1. times \in [gates : Int, end : Int] /\ day \in Nat
  BY EditingAssumption
<1>2. times.gates \in Int /\ times.end \in Int
  BY <1>1
<1> QED
  BY <1>1, <1>2 DEF EndAt

LEMMA EventFitsForm ==
    ASSUME NEW e, EventFits(e), NEW day \in ConcertDays, NEW times \in Times,
           EventAdminForm(day, times)
    PROVE  LET f == [e EXCEPT !.start = day, !.gates = times.gates, !.end = EndAt(day, times)] IN
           EventFits(f) /\ f.start = day
<1>1. times.gates \in Int /\ EndAt(day, times) \in Int /\ day \in Int
  BY Hours
<1> QED
  BY <1>1 DEF EventFits, EventRow, EventAdminForm

LEMMA EditStart == EditInit => EditInv
<1> SUFFICES ASSUME NEW rows \in PoolForms, NEW day \in ConcertDays, NEW times \in Times,
                    LET made == [p \in PoolId |-> IF rows[p] = NoPool THEN NoPool ELSE PoolRow(rows, p, 0)] IN
        /\ Existing(made) # {} /\ CapacityOf(made) <= CLUB_MAX_CAPACITY
        /\ EndBy(made, day) /\ Apart(made) /\ EventAdminForm(day, times)
        /\ pools = made
        /\ happening = save_related([start |-> day, gates |-> times.gates, end |-> EndAt(day, times),
                                     sales_start |-> day, sales_end |-> day,
                                     capacity |-> 1, sold |-> 0, status |-> "DRAFT"], made)
        /\ form = [w \in Clerk |-> NoForm]
        /\ buyer = [i \in Buyers |-> NoBuyer] /\ unasked = {}
        /\ copied = FALSE /\ crossed = FALSE /\ saves = 0
             PROVE  EditInv
  BY DEF EditInit
<1>1. pools \in PoolTable /\ \A p \in Existing(pools) : pools[p].sold = 0
  BY EditingAssumption DEF PoolTable, PoolRecord, PoolRow, Existing
<1>2. EventFits(happening) /\ SalesEnd /\ happening.start = day
  <2>1. times.gates \in Int /\ EndAt(day, times) \in Int /\ day \in Int
    BY Hours
  <2> DEFINE e == [start |-> day, gates |-> times.gates, end |-> EndAt(day, times),
                   sales_start |-> day, sales_end |-> day,
                   capacity |-> 1, sold |-> 0, status |-> "DRAFT"]
  <2>2. EventFits(e) /\ e.start = day
    BY <2>1 DEF EventFits, EventRow, EventAdminForm, PoolDate
  <2> HIDE DEF e
  <2>3. happening = save_related(e, pools)
    BY DEF e
  <2> QED
    BY <1>1, <2>2, <2>3, Related DEF SalesEnd
<1>3. EditTypes
  <2>1. \A p \in Existing(pools) : pools[p].sold <= pools[p].capacity
    BY <1>1 DEF PoolTable, PoolRecord, Existing
  <2>2. buyer \in [Buyers -> ConcertDays \cup {NoBuyer, Meanwhile}]
    OBVIOUS
  <2> QED
    BY <1>1, <1>2, <2>1, <2>2 DEF EditTypes
<1>4. PoolsStayApart /\ BuyersKnowDate
  BY <1>2, EditingAssumption DEF PoolsStayApart, BuyersKnowDate, Paid, SalesEnd, online_sales_cutoff
<1> QED
  BY <1>2, <1>3, <1>4 DEF EditInv, OneForm, FormsStand

-----------------------------------------------------------------------------
(* The steps.                                                              *)

LEMMA RowsTyped ==
    ASSUME NEW rows \in PoolForms, NEW p \in PoolId, rows[p] # NoPool, NEW sold \in Nat
    PROVE  PoolRow(rows, p, sold) \in PoolRecord
           /\ PoolRow(rows, p, sold).start = rows[p].start
           /\ PoolRow(rows, p, sold).end = rows[p].end
           /\ PoolRow(rows, p, sold).capacity = rows[p].capacity
<1>1. rows \in [PoolId -> [start : PoolDate, end : PoolDate, capacity : Nat] \cup {NoPool}]
  BY EditingAssumption
<1>2. rows[p] \in [start : PoolDate, end : PoolDate, capacity : Nat]
  BY <1>1
<1> QED
  BY <1>2 DEF PoolRow, PoolRecord

LEMMA NotARecord == \A r \in PoolRecord : r # NoPool
  BY EditingAssumption DEF PoolRecord

\* Pools that pass with the new day and fail with the old: the day is later.
LEMMA LaterDay ==
    ASSUME EditInv, NEW rows \in PoolForms, NEW day \in ConcertDays,
           TicketPoolFormSet(rows, day), ~TicketPoolFormSet(rows, happening.start)
    PROVE  happening.start < day
<1>1. EndBy(rows, day) /\ ~EndBy(rows, happening.start)
  BY DEF TicketPoolFormSet
<1>2. PICK p \in Existing(rows) : rows[p].end # Never /\ ~(rows[p].end <= happening.start)
                                /\ rows[p].end <= day
  BY <1>1 DEF EndBy, online_sales_cutoff
<1>3. rows \in [PoolId -> [start : PoolDate, end : PoolDate, capacity : Nat] \cup {NoPool}]
  BY EditingAssumption
<1>4. rows[p].end \in PoolDate
  BY <1>2, <1>3 DEF Existing
<1>5. PICK e \in Int : e = rows[p].end
  BY <1>2, <1>4 DEF PoolDate
<1>6. happening.start \in Int /\ day \in Int
  BY DaysAreDates DEF EditInv, EditTypes, EventFits, EventRow
<1> QED
  BY <1>2, <1>5, <1>6

\* A form that was just checked stands.
LEMMA PostedStands ==
    ASSUME EditInv, NEW w \in Clerk, NEW rows \in PoolForms, NEW day \in ConcertDays,
           NEW times \in Times, NEW confirmed \in BOOLEAN,
           changeform_view(w, rows, day, times, confirmed)
    PROVE  EditInv'
<1> DEFINE event == [happening EXCEPT !.start = day, !.gates = times.gates,
                                      !.end = EndAt(day, times)]
           f == [pc |-> "save", event |-> event, listed |-> pools, rows |-> rows,
                 changed |-> Changed(rows), listable |-> Listable(rows),
                 confirmed |-> confirmed /\ Listable(rows)]
<1>1. /\ form[w] = NoForm /\ ~crossed
      /\ EventAdminForm(day, times) /\ TicketPoolFormSet(rows, day)
      /\ (Paid # {} /\ Listable(rows) /\ Changes(rows, day, times)) => confirmed
      /\ form' = [form EXCEPT ![w] = f]
      /\ crossed' = (\E v \in Clerk : form[v] # NoForm)
      /\ UNCHANGED <<happening, pools, buyer, unasked, copied, saves>>
  BY DEF changeform_view, Loads, Posted
<1>2. EventFits(event) /\ event.start = day
  BY <1>1, EventFitsForm DEF EditInv, EditTypes
<1> HIDE DEF event
<1>3. FormFits(f)
  BY <1>2 DEF FormFits, EditInv, EditTypes, Changed
<1>4. /\ form' = [v \in Clerk |-> IF v = w THEN f ELSE form[v]]
      /\ \A v \in Clerk : form'[v] = IF v = w THEN f ELSE form[v]
  BY <1>1 DEF EditInv, EditTypes
<1>5. EditTypes'
  <2>1. form' = [v \in Clerk |-> form'[v]]
    BY <1>4
  <2>2. \A v \in Clerk : form'[v] # NoForm => FormFits(form'[v])
    BY <1>3, <1>4 DEF EditInv, EditTypes
  <2>3. crossed' \in BOOLEAN
    BY <1>1
  <2> QED
    BY <1>1, <2>1, <2>2, <2>3 DEF EditInv, EditTypes, Existing
<1>6. SalesEnd' /\ PoolsStayApart' /\ BuyersKnowDate'
  BY <1>1 DEF EditInv, SalesEnd, PoolsStayApart, BuyersKnowDate, EndBy, Existing, Apart, DatedPools,
     Paid
<1>7. OneForm'
  BY <1>1, <1>4 DEF OneForm
<1>8. FormsStand'
  <2> SUFFICES ASSUME ~crossed' PROVE FormStands(w)'
    BY <1>1, <1>4 DEF FormsStand
  <2>1. EndBy(rows, day) /\ Apart(rows)
    BY <1>1 DEF TicketPoolFormSet
  <2>2. ASSUME NEW p \in PoolId \ Changed(rows) PROVE SameDates(pools[p], rows[p])
    <3>1. CASE pools[p] = NoPool \/ rows[p] = NoPool
      BY <2>2, <3>1 DEF Changed, SameDates
    <3>2. CASE pools[p] # NoPool /\ rows[p] # NoPool
      <4>1. PoolRow(rows, p, pools[p].sold) = pools[p]
        BY <2>2, <3>2 DEF Changed
      <4>2. pools[p].sold \in Nat
        BY <3>2 DEF EditInv, EditTypes, PoolTable, PoolRecord
      <4>3. pools[p].start = rows[p].start /\ pools[p].end = rows[p].end
        BY <3>2, <4>1, <4>2, RowsTyped
      <4> QED
        BY <3>2, <4>3 DEF SameDates
    <3> QED
      BY <3>1, <3>2
  <2>3. \/ day = happening.start \/ (confirmed /\ Listable(rows)) \/ Paid = {}
        \/ ~Listable(rows) /\ happening.start < day
    <3>1. Listable(rows) => day = happening.start \/ confirmed \/ Paid = {}
      BY <1>1 DEF Changes
    <3>2. ~Listable(rows) => happening.start < day
      BY <1>1, LaterDay DEF Listable
    <3> QED
      BY <3>1, <3>2
  <2>4. /\ form'[w] = f /\ f.event = event /\ f.rows = rows /\ f.changed = Changed(rows)
        /\ f.listable = Listable(rows) /\ f.confirmed = (confirmed /\ Listable(rows))
    BY <1>4
  <2> HIDE DEF f
  <2> QED
    BY <1>1, <1>2, <2>1, <2>2, <2>3, <2>4 DEF FormStands, SameDates, EndBy, Existing, Apart,
       DatedPools, Paid
<1> QED
  BY <1>5, <1>6, <1>7, <1>8 DEF EditInv

LEMMA SavedRow ==
    ASSUME NEW fields \in PoolRecord, NEW day \in ConcertDays
    PROVE  LET saved == TicketPoolSave(fields, day) IN
           /\ saved \in PoolRecord /\ saved.start = fields.start
           /\ (fields.end # Never => fields.end <= day) => saved.end = fields.end
<1>1. fields.end \in PoolDate /\ day \in PoolDate /\ day \in Nat
  BY DaysAreDates DEF PoolRecord
<1>2. Earlier(fields.end, day) \in PoolDate
  BY <1>1 DEF Earlier
<1>3. fields.end # Never /\ fields.end <= day => Earlier(fields.end, day) = fields.end
  BY <1>1 DEF Earlier, PoolDate
<1> QED
  BY <1>2, <1>3 DEF PoolRecord, TicketPoolSave, online_sales_cutoff

\* A form that stands leaves the dates that its rows have.
LEMMA SaveFormStep ==
    ASSUME EditInv, NEW w \in Clerk, SaveForm(w)
    PROVE  EditInv'
<1> DEFINE f == form[w]
           event == save_related(EventSave(f.event), f.listed)
           put(p) == IF f.rows[p] = NoPool THEN NoPool
                     ELSE TicketPoolSave(PoolRow(f.rows, p, IF f.listed[p] = NoPool THEN 0
                                                     ELSE f.listed[p].sold), event.start)
           after == [p \in PoolId |-> IF p \in f.changed THEN put(p) ELSE pools[p]]
           Accepts == /\ \A p \in Existing(after) : after[p].sold <= after[p].capacity
                      /\ happening' = event
                      /\ pools' = after
                      /\ buyer' = [i \in Buyers |-> IF f.confirmed /\ i \in Paid THEN event.start
                                                    ELSE buyer[i]]
                      /\ unasked' = IF f.confirmed THEN {} ELSE IF f.listable THEN unasked ELSE Paid
                      /\ copied' = FALSE
           Refuses == UNCHANGED <<happening, pools, buyer, unasked, copied>>
<1>1. /\ f # NoForm /\ form' = [form EXCEPT ![w] = NoForm] /\ crossed' = crossed
      /\ Accepts \/ Refuses
  BY DEF SaveForm
<1>2. FormFits(f)
  BY <1>1 DEF EditInv, EditTypes
<1>3. /\ form' = [v \in Clerk |-> form'[v]] /\ form'[w] = NoForm
      /\ \A v \in Clerk \ {w} : form'[v] = form[v]
  BY <1>1 DEF EditInv, EditTypes
<1>4. EventFits(event) /\ event.start = f.event.start
      /\ event.sales_end = online_sales_cutoff(event.start) /\ event.start \in ConcertDays
  <2>1. EventFits(event) /\ event.start = f.event.start
        /\ event.sales_end = online_sales_cutoff(event.start)
    BY <1>2, Derived DEF FormFits
  <2> QED
    BY <2>1 DEF EventFits, EventRow
<1>5. OneForm' /\ FormsStand'
  BY <1>1, <1>3 DEF EditInv, OneForm, FormsStand
<1>6. CASE Refuses
  <2>1. EditTypes'
    BY <1>1, <1>3, <1>6 DEF EditInv, EditTypes, Existing
  <2>2. SalesEnd' /\ PoolsStayApart' /\ BuyersKnowDate'
    BY <1>1, <1>6 DEF EditInv, SalesEnd, PoolsStayApart, BuyersKnowDate, EndBy, Existing, Apart,
       DatedPools, Paid
  <2> QED
    BY <1>5, <2>1, <2>2 DEF EditInv
<1>7. CASE Accepts
  <2>1. ASSUME NEW p \in PoolId, f.rows[p] # NoPool
        PROVE  /\ put(p) \in PoolRecord /\ put(p).start = f.rows[p].start
               /\ (f.rows[p].end # Never => f.rows[p].end <= event.start) =>
                      put(p).end = f.rows[p].end
    <3> DEFINE sold == IF f.listed[p] = NoPool THEN 0 ELSE f.listed[p].sold
               fields == PoolRow(f.rows, p, sold)
    <3>1. sold \in Nat
      BY <1>2 DEF FormFits, PoolTable, PoolRecord
    <3>2. put(p) = TicketPoolSave(fields, event.start)
      BY <2>1
    <3> HIDE DEF sold
    <3>3. fields \in PoolRecord /\ fields.start = f.rows[p].start /\ fields.end = f.rows[p].end
      BY <1>2, <2>1, <3>1, RowsTyped DEF FormFits
    <3> HIDE DEF fields, put, event, f
    <3> QED
      BY <1>4, <3>2, <3>3, SavedRow
  <2>2. after \in PoolTable
    <3>1. \A p \in PoolId : put(p) \in PoolRecord \cup {NoPool}
      BY <2>1
    <3> HIDE DEF put
    <3> QED
      BY <3>1 DEF PoolTable, EditInv, EditTypes
  <2>3. EditTypes'
    <3>1. /\ buyer' \in [Buyers -> ConcertDays \cup {NoBuyer, Meanwhile}]
          /\ unasked' \subseteq Buyers
      BY <1>4, <1>7 DEF EditInv, EditTypes, Paid
    <3> HIDE DEF event, after
    <3>2. \A v \in Clerk : form'[v] # NoForm => FormFits(form'[v])
      BY <1>3 DEF EditInv, EditTypes
    <3> QED
      BY <1>1, <1>3, <1>4, <1>7, <2>2, <3>1, <3>2 DEF EditInv, EditTypes
  <2>4. SalesEnd'
    BY <1>4, <1>7 DEF SalesEnd
  <2>5. ASSUME ~crossed PROVE FormStands(w)
    BY <1>1, <2>5 DEF EditInv, FormsStand
  <2>6. ASSUME ~crossed
        PROVE  Apart(after) /\ EndBy(after, event.start)
    <3>1. EndBy(f.rows, event.start) /\ Apart(f.rows)
          /\ \A p \in PoolId \ f.changed : SameDates(pools[p], f.rows[p])
      BY <1>4, <2>5, <2>6 DEF FormStands
    <3>2. ASSUME NEW p \in PoolId PROVE SameDates(after[p], f.rows[p])
      <4>1. CASE p \notin f.changed
        BY <3>1, <4>1
      <4>2. CASE p \in f.changed /\ f.rows[p] = NoPool
        BY <4>2 DEF SameDates
      <4>3. CASE p \in f.changed /\ f.rows[p] # NoPool
        <5>1. after[p] = put(p)
          BY <4>3
        <5>2. f.rows[p].end # Never => f.rows[p].end <= event.start
          BY <3>1, <4>3 DEF EndBy, Existing, online_sales_cutoff
        <5> HIDE DEF after, put, event
        <5> QED
          BY <2>1, <4>3, <5>1, <5>2, NotARecord DEF SameDates
      <4> QED
        BY <4>1, <4>2, <4>3
    <3> HIDE DEF after, f, event
    <3> QED
      BY <3>1, <3>2, DatesDecide
  <2>7. PoolsStayApart'
    <3>1. SalesEnd' => happening'.sales_end <= online_sales_cutoff(happening'.start)
      BY <1>4, <1>7, DaysAreDates DEF SalesEnd, online_sales_cutoff
    <3> HIDE DEF after, event
    <3> QED
      BY <1>1, <1>7, <2>4, <2>6, <3>1 DEF PoolsStayApart, EndBy, Existing, Apart, DatedPools
  <2>8. BuyersKnowDate'
    <3> SUFFICES ASSUME ~crossed, NEW i \in Paid'
                 PROVE  \/ buyer'[i] \in {event.start, Meanwhile}
                        \/ i \in unasked' /\ buyer'[i] < event.start
      BY <1>1, <1>7 DEF BuyersKnowDate
    <3>1. i \in Buyers /\ buyer'[i] # NoBuyer
      BY DEF Paid, Buyers
    <3>2. CASE f.confirmed /\ i \in Paid
      BY <1>7, <3>1, <3>2
    <3>3. CASE ~(f.confirmed /\ i \in Paid)
      <4>1. buyer'[i] = buyer[i] /\ i \in Paid /\ ~f.confirmed
        BY <1>7, <3>1, <3>3 DEF Paid
      <4>2. \/ f.event.start = happening.start \/ buyer[i] = Meanwhile
            \/ ~f.listable /\ happening.start < f.event.start
        BY <2>5, <4>1 DEF FormStands
      <4>3. \/ buyer[i] \in {happening.start, Meanwhile}
            \/ i \in unasked /\ buyer[i] < happening.start
        BY <4>1 DEF EditInv, BuyersKnowDate
      <4>4. i \in unasked => i \in unasked'
        BY <1>7, <4>1
      <4>5. CASE f.event.start = happening.start \/ buyer[i] = Meanwhile
        BY <1>4, <4>1, <4>3, <4>4, <4>5
      <4>6. CASE ~f.listable /\ happening.start < f.event.start /\ buyer[i] # Meanwhile
        <5>1. i \in unasked'
          BY <1>7, <4>1, <4>6
        <5>2. PICK known \in ConcertDays : known = buyer[i]
          BY <3>1, <4>1, <4>6 DEF EditInv, EditTypes
        <5>3. known \in Int /\ happening.start \in Int /\ event.start \in Int
          BY <1>4, DaysAreDates DEF EditInv, EditTypes, EventFits, EventRow
        <5>4. known <= happening.start /\ happening.start < event.start
          BY <1>4, <4>3, <4>6, <5>2, <5>3
        <5> HIDE DEF event
        <5> QED
          BY <4>1, <5>1, <5>2, <5>3, <5>4
      <4> QED
        BY <4>2, <4>5, <4>6
    <3> QED
      BY <3>2, <3>3
  <2> QED
    BY <1>5, <2>3, <2>4, <2>7, <2>8 DEF EditInv
<1> QED
  BY <1>1, <1>6, <1>7

LEMMA SellStep ==
    ASSUME EditInv, NEW i \in Buyers, NEW p \in PoolId, SellTicket(i, p)
    PROVE  EditInv'
<1>1. pools[p] \in PoolRecord /\ happening \in EventRow
  BY DEF SellTicket, EditInv, EditTypes, PoolTable, EventFits
<1>2. /\ pools' \in PoolTable /\ EventFits(happening') /\ happening'.start = happening.start
      /\ happening'.sales_end = happening.sales_end
  BY <1>1 DEF SellTicket, EditInv, EditTypes, PoolTable, PoolRecord, EventFits, EventRow
<1>3. ASSUME NEW q \in PoolId
      PROVE  SameDates(pools'[q], pools[q]) /\ (pools'[q] # NoPool => pools'[q].sold <= pools'[q].capacity)
  <2>1. CASE q # p
    BY <2>1 DEF SellTicket, EditInv, EditTypes, PoolTable, Existing, SameDates
  <2>2. CASE q = p
    <3>1. pools'[p] = [pools[p] EXCEPT !.sold = @ + 1]
      BY DEF SellTicket, EditInv, EditTypes, PoolTable
    <3>2. pools'[p] \in PoolRecord /\ pools'[p].start = pools[p].start
          /\ pools'[p].end = pools[p].end /\ pools'[p].capacity = pools[p].capacity
          /\ pools'[p].sold = pools[p].sold + 1
      BY <1>1, <3>1 DEF PoolRecord
    <3>3. pools[p].sold < pools[p].capacity /\ pools[p].sold \in Nat /\ pools[p].capacity \in Nat
      BY <1>1 DEF SellTicket, PoolRecord
    <3> QED
      BY <2>2, <1>1, <3>2, <3>3, NotARecord DEF SameDates
  <2> QED
    BY <2>1, <2>2
<1>4. /\ form' = form /\ crossed' = crossed /\ copied' = copied /\ unasked' = unasked
      /\ buyer' = [buyer EXCEPT ![i] = IF \A w \in Clerk : form[w] = NoForm
                                       THEN happening.start ELSE Meanwhile]
  BY DEF SellTicket
<1>5. buyer' \in [Buyers -> ConcertDays \cup {NoBuyer, Meanwhile}]
  BY <1>1, <1>4 DEF EditInv, EditTypes, EventRow
<1>6. EditTypes'
  BY <1>2, <1>3, <1>4, <1>5 DEF EditInv, EditTypes, Existing
<1>7. SalesEnd' /\ OneForm'
  BY <1>2, <1>4 DEF EditInv, SalesEnd, OneForm
<1>8. PoolsStayApart'
  <2>1. /\ Apart(pools') <=> Apart(pools)
        /\ \A day : EndBy(pools', day) <=> EndBy(pools, day)
    BY <1>3, DatesDecide
  <2> QED
    BY <1>2, <1>4, <2>1 DEF EditInv, PoolsStayApart, Apart, EndBy, Existing, DatedPools
<1>9. \A k \in Paid' : k \in Buyers /\ ((k \in Paid /\ buyer'[k] = buyer[k]) \/ k = i)
  BY <1>4 DEF EditInv, EditTypes, Paid
<1>10. buyer'[i] = IF \A w \in Clerk : form[w] = NoForm THEN happening.start ELSE Meanwhile
  BY <1>4 DEF EditInv, EditTypes
<1>11. BuyersKnowDate'
  BY <1>2, <1>4, <1>9, <1>10 DEF EditInv, BuyersKnowDate
<1>12. FormsStand'
  <2> SUFFICES ASSUME ~crossed, NEW w \in Clerk, form[w] # NoForm PROVE FormStands(w)'
    BY <1>4 DEF FormsStand
  <2> DEFINE f == form[w]
  <2>1. FormStands(w)
    BY DEF EditInv, FormsStand
  <2>2. \A q \in PoolId \ f.changed : SameDates(pools'[q], f.rows[q])
    BY <1>3, <2>1 DEF FormStands, SameDates
  <2>3. \/ f.event.start = happening'.start
        \/ f.confirmed
        \/ \A k \in Paid' : buyer'[k] = Meanwhile
        \/ ~f.listable /\ happening'.start < f.event.start
    BY <1>2, <1>9, <1>10, <2>1 DEF FormStands
  <2>4. EndBy(f.rows, f.event.start) /\ Apart(f.rows)
    BY <2>1 DEF FormStands
  <2> QED
    BY <1>4, <2>2, <2>3, <2>4 DEF FormStands, SameDates, EndBy, Existing, Apart, DatedPools
<1> QED
  BY <1>6, <1>7, <1>8, <1>11, <1>12 DEF EditInv

LEMMA CopyStep ==
    ASSUME EditInv, NEW day \in ConcertDays, copy_event_for_new_date(day)
    PROVE  EditInv'
<1> DEFINE made == [p \in PoolId |-> IF pools[p] = NoPool THEN NoPool
                     ELSE [pools[p] EXCEPT !.start = 0, !.end = online_sales_cutoff(day),
                                           !.sold = 0]]
           shift == 24 * (day - happening.start)
           size == Max({CapacityOf(pools), 1})
           event == [start |-> day, gates |-> happening.gates + shift,
                     end |-> happening.end + shift,
                     sales_start |-> 0, sales_end |-> online_sales_cutoff(day),
                     capacity |-> size, sold |-> 0, status |-> "DRAFT"]
<1>1. /\ \A w \in Clerk : form[w] = NoForm
      /\ happening' = [event EXCEPT !.status = happening.status]
      /\ pools' = made
      /\ buyer' = [i \in Buyers |-> NoBuyer] /\ unasked' = {}
      /\ copied' = TRUE /\ form' = form /\ crossed' = crossed
  BY DEF copy_event_for_new_date
<1>2. size \in Nat
  <2>1. CapacityOf(pools) \in Nat
    BY TableCapacity DEF EditInv, EditTypes
  <2>2. \E x \in {CapacityOf(pools), 1} : \A y \in {CapacityOf(pools), 1} : x >= y
    BY <2>1
  <2> QED
    BY <2>1, <2>2 DEF Max
<1>3. ASSUME NEW p \in PoolId, pools[p] # NoPool
      PROVE  /\ made[p] \in PoolRecord /\ made[p].end = day /\ made[p].sold = 0
  <2>1. pools[p] \in PoolRecord /\ day \in PoolDate
    BY <1>3, DaysAreDates DEF EditInv, EditTypes, PoolTable
  <2>2. PICK x \in PoolDate : x = 0
    BY DEF PoolDate
  <2>3. PICK n \in Nat : n = 0
    OBVIOUS
  <2>4. made[p] = [pools[p] EXCEPT !.start = x, !.end = day, !.sold = n]
    BY <1>3, <2>2, <2>3 DEF online_sales_cutoff
  <2>5. PICK r \in PoolRecord : r = pools[p]
    BY <2>1
  <2>6. PICK d \in PoolDate : d = day
    BY <2>1
  <2> DEFINE new == [r EXCEPT !.start = x, !.end = d, !.sold = n]
  <2>7. new \in PoolRecord /\ new.end = d /\ new.sold = n
    BY DEF PoolRecord
  <2>8. made[p] = new
    BY <2>4, <2>5, <2>6
  <2> HIDE DEF made, new
  <2> QED
    BY <2>3, <2>6, <2>7, <2>8
<1>4. pools' \in PoolTable /\ (\A p \in Existing(pools') : pools'[p].sold = 0 /\ pools'[p].end = day)
  <2>1. \A p \in PoolId : pools[p] = NoPool => made[p] = NoPool
    OBVIOUS
  <2> HIDE DEF made
  <2>2. made = [p \in PoolId |-> made[p]]
    BY DEF made
  <2> QED
    BY <1>1, <1>3, <2>1, <2>2 DEF PoolTable, Existing
<1>5. EventFits(happening') /\ happening'.start = day /\ happening'.sales_end = day
  <2>1. happening.start \in Nat /\ day \in Nat /\ day \in PoolDate /\ happening.gates \in Int
        /\ happening.end \in Int /\ happening.status \in {"DRAFT", "PUBLISHED"}
        /\ happening.gates <= start_at(happening.start) /\ start_at(happening.start) < happening.end
    BY DaysAreDates DEF EditInv, EditTypes, EventFits, EventRow
  <2>2. /\ happening.gates + shift \in Int /\ happening.end + shift \in Int
        /\ happening.gates + shift <= start_at(day) /\ start_at(day) < happening.end + shift
    BY <2>1 DEF start_at
  <2> HIDE DEF shift, size
  <2>3. event \in EventRow
    BY <1>2, <2>1, <2>2 DEF EventRow, online_sales_cutoff, PoolDate
  <2>4. happening' \in EventRow /\ happening'.start = day /\ happening'.sales_end = day
        /\ happening'.gates = happening.gates + shift /\ happening'.end = happening.end + shift
    BY <1>1, <2>1, <2>3 DEF EventRow, online_sales_cutoff
  <2> QED
    BY <2>2, <2>4 DEF EventFits
<1> HIDE DEF made, event
<1>6. EditTypes'
  <2>1. \A p \in Existing(pools') : pools'[p].sold <= pools'[p].capacity
    BY <1>4 DEF PoolTable, PoolRecord, Existing
  <2> QED
    BY <1>1, <1>4, <1>5, <2>1 DEF EditInv, EditTypes, Existing
<1>7. SalesEnd' /\ OneForm' /\ FormsStand' /\ BuyersKnowDate'
  BY <1>1, <1>5 DEF SalesEnd, OneForm, FormsStand, BuyersKnowDate, Paid, online_sales_cutoff
<1>8. PoolsStayApart'
  BY <1>1, <1>4, <1>5, DaysAreDates DEF PoolsStayApart, EndBy, online_sales_cutoff, Existing
<1> QED
  BY <1>6, <1>7, <1>8 DEF EditInv

LEMMA PublishStep ==
    ASSUME EditInv, Publish
    PROVE  EditInv'
<1>1. /\ happening' = [happening EXCEPT !.status = "PUBLISHED"]
      /\ UNCHANGED <<pools, form, buyer, unasked, copied, crossed>>
  BY DEF Publish
<1>2. EventFits(happening') /\ happening'.start = happening.start
      /\ happening'.sales_end = happening.sales_end
  BY <1>1 DEF EditInv, EditTypes, EventFits, EventRow
<1>3. EditTypes'
  BY <1>1, <1>2 DEF EditInv, EditTypes, Existing
<1>4. SalesEnd' /\ OneForm' /\ BuyersKnowDate'
  BY <1>1, <1>2 DEF EditInv, SalesEnd, OneForm, BuyersKnowDate, Paid
<1>5. PoolsStayApart' /\ FormsStand'
  BY <1>1, <1>2 DEF EditInv, PoolsStayApart, FormsStand, FormStands, EndBy, Existing, Apart,
     DatedPools, Paid, SameDates
<1> QED
  BY <1>3, <1>4, <1>5 DEF EditInv

LEMMA EditInvHolds == EditSpec => []EditInv
<1>1. ASSUME EditInv, EditNext PROVE EditInv'
  BY <1>1, PostedStands, SaveFormStep, SellStep, CopyStep, PublishStep DEF EditNext
<1>2. EditInv /\ UNCHANGED editVars => EditInv'
  BY DEF editVars, EditInv, EditTypes, SalesEnd, OneForm, FormsStand, FormStands, PoolsStayApart,
     BuyersKnowDate, EndBy, Existing, Apart, DatedPools, Paid, SameDates
<1> QED
  BY <1>1, <1>2, EditStart, PTL DEF EditSpec

\* (EventEditing) The hours of an event stay in order and its pools within
\* their capacity, whatever staff save and however often it is copied.
THEOREM EditTypesHold == EditSpec => []EditTypeOK
<1>1. EditInv => EditTypeOK
  BY DEF EditInv, EditTypes, EditTypeOK, EventFits, EventRow, PoolTable, PoolRecord, Existing
<1> QED
  BY <1>1, EditInvHolds, PTL

\* (EventEditing) No pool sells on the concert's day and no two at once, for any
\* forms and dates, unless two forms met or the event is a copy.
THEOREM PoolsAlwaysApart == EditSpec => []PoolsStayApart
  BY EditInvHolds, PTL DEF EditInv

\* (EventEditing) No paid order's concert moves behind its buyer's back, for any
\* number of orders and clerks.
THEOREM BuyersAlwaysKnow == EditSpec => []BuyersKnowDate
  BY EditInvHolds, PTL DEF EditInv

(***************************************************************************)
(* Halls.                                                                  *)
(***************************************************************************)


\* What a request works on once it has loaded a room.
RoomJob == [pc : {"save", "refresh"}, room : RoomId, row : RoomRow, wish : Overrides,
            refresh : BOOLEAN, whole : BOOLEAN]

RoomTypes ==
    /\ rooms \in [RoomId -> RoomRow \cup {NoRoom}]
    /\ drawing \in [RoomId -> SUBSET Element]
    /\ saving \in [Owner -> RoomJob \cup {NoRequest}]
    /\ wishes \in [RoomId -> Overrides]
    /\ behind \in [RoomId -> BOOLEAN] /\ met \in [RoomId -> BOOLEAN]

\* The technical model holds nothing drawn by hand, and the geometry is drawn
\* with the overrides beside it, whichever base it was drawn from.
ByHand(wanted) == {DrawnByHand(c) : c \in ToSet(wanted.custom)}
Technical(base) == \A e \in base : ~e.custom
Coherent(room) ==
    /\ Technical(room.base)
    /\ {e \in room.geometry : e.custom} = ByHand(room.overrides)
    /\ \A e \in room.geometry : ~e.custom => e.id \notin room.overrides.hidden

RowsCoherent == \A r \in RoomId : rooms[r] # NoRoom => Coherent(rooms[r])

\* As long as no two requests met on it, a room is drawn as the owner wished.
AsWished(r) ==
    /\ rooms[r].overrides = wishes[r]
    /\ rooms[r].geometry = apply_overrides(rooms[r].base, wishes[r])
    /\ ~behind[r] => drawing[r] = rooms[r].geometry
RoomsAsWished == \A r \in RoomId : (rooms[r] # NoRoom /\ ~met[r]) => AsWished(r)

\* One request at a time works on such a room ...
OneAtATime ==
    \A r \in RoomId : ~met[r] => \A v, w \in Owner : (WorksOn(v, r) /\ WorksOn(w, r)) => v = w

\* ... and what it has made of the room is what it will find accepted.
Prepared(job) ==
    /\ job.row.overrides = job.wish
    /\ job.row.geometry = apply_overrides(job.row.base, job.wish)
    /\ (job.pc = "save" /\ ~job.whole) => job.row.base = rooms[job.room].base
    /\ job.pc = "refresh" => job.row.geometry = rooms[job.room].geometry
Ready(job) ==
    /\ rooms[job.room] # NoRoom /\ Coherent(job.row)
    /\ ~met[job.room] => Prepared(job)
JobsPrepared == \A w \in Owner : saving[w] # NoRequest => Ready(saving[w])

RoomsInv == RoomTypes /\ RowsCoherent /\ RoomsAsWished /\ OneAtATime /\ JobsPrepared

LEMMA RoomsKeepWishes == ASSUME RoomsInv PROVE HallKeepsWishes
  BY DEF RoomsInv, RowsCoherent, RoomsAsWished, AsWished, Coherent, ByHand, HallKeepsWishes

LEMMA SequenceElements ==
    ASSUME NEW S, NEW q \in Seq(S)
    PROVE  ToSet(q) \subseteq S
<1>1. \A i \in DOMAIN q : q[i] \in S
  OBVIOUS
<1> QED
  BY <1>1 DEF ToSet

LEMMA HandDrawn ==
    ASSUME NEW wanted \in Overrides
    PROVE  /\ ByHand(wanted) \subseteq Element
           /\ \A e \in ByHand(wanted) : e.custom
<1>1. ToSet(wanted.custom) \subseteq [id : STRING, kind : STRING]
  BY SequenceElements DEF Overrides
<1>2. \A c \in [id : STRING, kind : STRING] : DrawnByHand(c) \in Element /\ DrawnByHand(c).custom
  BY DEF DrawnByHand, Element
<1> QED
  BY <1>1, <1>2 DEF ByHand

LEMMA WhatIsDrawn ==
    ASSUME NEW base \in SUBSET Element, Technical(base), NEW wanted \in Overrides
    PROVE  /\ apply_overrides(base, wanted) \in SUBSET Element
           /\ {e \in apply_overrides(base, wanted) : e.custom} = ByHand(wanted)
           /\ \A e \in apply_overrides(base, wanted) :
                  ~e.custom => e.id \notin wanted.hidden
<1>1. apply_overrides(base, wanted)
          = {e \in base : e.id \notin wanted.hidden} \cup ByHand(wanted)
  BY DEF apply_overrides, ByHand
<1> QED
  BY <1>1, HandDrawn DEF Technical

LEMMA DrawnRow ==
    ASSUME NEW base \in SUBSET Element, Technical(base), NEW wanted \in Overrides
    PROVE  RoomOf(base, wanted) \in RoomRow /\ Coherent(RoomOf(base, wanted))
<1> DEFINE geometry == apply_overrides(base, wanted)
           fields == [base |-> base, overrides |-> wanted, geometry |-> geometry]
<1>1. fields = RoomOf(base, wanted)
  BY DEF RoomOf
<1>2. /\ geometry \in SUBSET Element
      /\ {e \in geometry : e.custom} = ByHand(wanted)
      /\ \A e \in geometry : ~e.custom => e.id \notin wanted.hidden
  BY WhatIsDrawn
<1> HIDE DEF geometry
<1>3. fields \in RoomRow /\ fields.base = base /\ fields.overrides = wanted /\ fields.geometry = geometry
  BY <1>2 DEF RoomRow
<1> HIDE DEF fields
<1> QED
  BY <1>1, <1>2, <1>3 DEF Coherent

LEMMA PlainHall == NoOverrides \in Overrides /\ ByHand(NoOverrides) = {}
<1>1. NoOverrides \in Overrides /\ NoOverrides.custom = <<>>
  BY DEF NoOverrides, Overrides
<1> QED
  BY <1>1 DEF ByHand, ToSet

LEMMA ConvertedHall ==
    ASSUME NEW export \in Exports
    PROVE  convert_hall(export) \in SUBSET Element /\ Technical(convert_hall(export))
<1>1. \A e \in export : e.id \in STRING
  BY HallAssumption
<1>2. \A e \in export, key \in {"obstacles", "entrances", "context"} :
          Drawn(e, key) \in Element /\ ~Drawn(e, key).custom
  BY <1>1 DEF Drawn, Element
<1>3. \A geometry : _owner_view(export, geometry) \subseteq geometry
  BY DEF _owner_view
<1> DEFINE solid == {x \in export : x.category \in BLOCKING /\ x.drawn}
           doors == {x \in export : x.category = "entrances" /\ x.drawn}
           around == {x \in export :
                        \/ x.category \in {"context_rooms", "barrier"}
                        \/ x.category = "overhead" /\ x.drawn /\ x.id \notin HIDDEN_OVERHEAD}
           all == {Drawn(e, "obstacles") : e \in solid} \cup {Drawn(e, "entrances") : e \in doors}
                  \cup {Drawn(e, "context") : e \in around}
<1>4. \A e \in all : e \in Element /\ ~e.custom
  BY <1>2
<1>5. convert_hall(export) \subseteq all
  BY <1>3 DEF convert_hall
<1> QED
  BY <1>4, <1>5 DEF Technical

LEMMA CleanedOverrides ==
    ASSUME NEW data \in Overrides, NEW base
    PROVE  clean_overrides(data, base) \in Overrides
  BY DEF clean_overrides, Overrides

LEMMA RoomsStart == RoomsInit => RoomsInv
<1> SUFFICES ASSUME RoomsInit PROVE RoomsInv
  OBVIOUS
<1>1. PICK export \in Exports, data \in Posts \cup {NoOverrides} :
          LET base == convert_hall(export)
              wanted == clean_overrides(data, base)
          IN /\ rooms = [r \in RoomId |-> IF r = FirstRoom THEN RoomOf(base, wanted) ELSE NoRoom]
             /\ drawing = [r \in RoomId |-> IF r = FirstRoom THEN apply_overrides(base, wanted)
                                            ELSE {}]
             /\ wishes = [r \in RoomId |-> IF r = FirstRoom THEN wanted ELSE NoOverrides]
  BY DEF RoomsInit
<1> DEFINE base == convert_hall(export)
           wanted == clean_overrides(data, base)
<1>2. base \in SUBSET Element /\ Technical(base)
  BY ConvertedHall
<1>3. wanted \in Overrides
  BY CleanedOverrides, PlainHall, HallAssumption
<1>4. /\ saving = [w \in Owner |-> NoRequest] /\ behind = [r \in RoomId |-> FALSE]
      /\ met = [r \in RoomId |-> FALSE]
      /\ rooms = [r \in RoomId |-> IF r = FirstRoom THEN RoomOf(base, wanted) ELSE NoRoom]
      /\ drawing = [r \in RoomId |-> IF r = FirstRoom THEN apply_overrides(base, wanted)
                                     ELSE {}]
      /\ wishes = [r \in RoomId |-> IF r = FirstRoom THEN wanted ELSE NoOverrides]
  BY <1>1 DEF RoomsInit
<1> HIDE DEF base, wanted
<1>5. RoomOf(base, wanted) \in RoomRow /\ Coherent(RoomOf(base, wanted))
      /\ apply_overrides(base, wanted) \in SUBSET Element
  BY <1>2, <1>3, DrawnRow, WhatIsDrawn
<1>6. RoomTypes
  BY <1>3, <1>4, <1>5, PlainHall DEF RoomTypes
<1>7. RowsCoherent /\ OneAtATime /\ JobsPrepared
  BY <1>4, <1>5 DEF RowsCoherent, OneAtATime, JobsPrepared, WorksOn, NoRequest
<1>8. RoomsAsWished
  BY <1>4, HallAssumption DEF RoomsAsWished, AsWished, RoomOf
<1> QED
  BY <1>6, <1>7, <1>8 DEF RoomsInv

LEMMA LoadStep ==
    ASSUME RoomsInv, NEW w \in Owner, NEW r \in RoomId, NEW fields \in RoomRow,
           NEW wish \in Overrides, NEW refresh \in BOOLEAN, NEW whole \in BOOLEAN,
           Coherent(fields), fields.base # rooms[r].base => whole,
           ~met[r] => fields.overrides = wish /\ fields.geometry = apply_overrides(fields.base, wish),
           LoadRoom(w, r, fields, wish, refresh, whole)
    PROVE  RoomsInv'
<1> DEFINE job == [pc |-> "save", room |-> r, row |-> fields, wish |-> wish, refresh |-> refresh,
                   whole |-> whole]
<1>1. /\ saving[w].pc = "idle" /\ rooms[r] # NoRoom
      /\ saving' = [saving EXCEPT ![w] = job]
      /\ met' = [met EXCEPT ![r] = @ \/ \E v \in Owner : WorksOn(v, r)]
      /\ rooms' = rooms /\ drawing' = drawing /\ wishes' = wishes /\ behind' = behind
  BY DEF LoadRoom
<1>2. job \in RoomJob /\ job.pc = "save" /\ job.room = r /\ job.row = fields /\ job.wish = wish
      /\ job.whole = whole
  BY DEF RoomJob
<1> HIDE DEF job
<1>3. \A q \in RoomId : ~met'[q] => ~met[q] /\ (q = r => \A v \in Owner : ~WorksOn(v, r))
  BY <1>1 DEF RoomsInv, RoomTypes
<1>4. /\ saving'[w] = job
      /\ \A v \in Owner : v # w => saving'[v] = saving[v]
  BY <1>1 DEF RoomsInv, RoomTypes
<1>5. RoomTypes'
  <2>1. saving' \in [Owner -> RoomJob \cup {NoRequest}]
    BY <1>1, <1>2 DEF RoomsInv, RoomTypes
  <2>2. met' \in [RoomId -> BOOLEAN]
    BY <1>1 DEF RoomsInv, RoomTypes
  <2> QED
    BY <1>1, <2>1, <2>2 DEF RoomsInv, RoomTypes
<1>6. RowsCoherent'
  BY <1>1 DEF RoomsInv, RowsCoherent
<1>7. RoomsAsWished'
  BY <1>1, <1>3 DEF RoomsInv, RoomsAsWished, AsWished
<1>8. OneAtATime'
  BY <1>2, <1>3, <1>4 DEF RoomsInv, OneAtATime, WorksOn
<1>9. JobsPrepared'
  <2>1. Ready(job)'
    BY <1>1, <1>2, <1>3 DEF Ready, Prepared
  <2>2. ASSUME NEW v \in Owner, NEW other \in RoomJob, other = saving[v]
        PROVE  Ready(other)'
    <3>1. other # NoRequest /\ other.room \in RoomId
      BY DEF RoomJob, NoRequest
    <3>2. Ready(other)
      BY <2>2, <3>1 DEF RoomsInv, JobsPrepared
    <3> QED
      BY <1>1, <1>3, <3>1, <3>2 DEF Ready, Prepared
  <2>3. \A v \in Owner : saving[v] # NoRequest => saving[v] \in RoomJob
    BY DEF RoomsInv, RoomTypes
  <2> QED
    BY <1>4, <2>1, <2>2, <2>3 DEF JobsPrepared
<1> QED
  BY <1>5, <1>6, <1>7, <1>8, <1>9 DEF RoomsInv

LEMMA SaveStep ==
    ASSUME RoomsInv, NEW w \in Owner, SaveRoom(w)
    PROVE  RoomsInv'
<1>1. PICK job : job = saving[w]
  OBVIOUS
<1>2. job \in RoomJob /\ job # NoRequest /\ job.pc = "save"
  BY <1>1 DEF SaveRoom, RoomsInv, RoomTypes, RoomJob, NoRequest
<1>3. job.room \in RoomId /\ job.row \in RoomRow /\ job.wish \in Overrides
      /\ job.whole \in BOOLEAN
  BY <1>2 DEF RoomJob
<1>4. PICK r \in RoomId : r = job.room
  BY <1>3
<1>5. rooms[r] \in RoomRow /\ rooms[r] # NoRoom /\ Coherent(job.row) /\ Coherent(rooms[r])
      /\ (~met[r] => Prepared(job))
  BY <1>1, <1>2, <1>4 DEF RoomsInv, RoomTypes, RowsCoherent, JobsPrepared, Ready
<1>6. PICK old \in RoomRow, fields \in RoomRow : old = rooms[r] /\ fields = job.row
  BY <1>3, <1>5
<1> DEFINE mixed == [fields EXCEPT !.base = old.base]
           new == IF job.whole THEN fields ELSE mixed
<1>7. /\ new \in RoomRow /\ new.overrides = fields.overrides /\ new.geometry = fields.geometry
      /\ new.base = IF job.whole THEN fields.base ELSE old.base
  BY DEF RoomRow
<1>8. /\ rooms' = [rooms EXCEPT ![r] = new]
      /\ wishes' = [wishes EXCEPT ![r] = job.wish]
      /\ behind' = [behind EXCEPT ![r] = TRUE]
      /\ saving' = [saving EXCEPT ![w] = IF job.refresh THEN [job EXCEPT !.pc = "refresh"]
                                         ELSE NoRequest]
      /\ drawing' = drawing /\ met' = met
  BY <1>1, <1>4, <1>6 DEF SaveRoom
<1> HIDE DEF mixed, new
<1>9. Coherent(new) /\ new # NoRoom
  BY <1>5, <1>6, <1>7, HallAssumption DEF Coherent
<1> DEFINE later == [job EXCEPT !.pc = "refresh"]
<1>10. /\ later \in RoomJob /\ later.pc = "refresh" /\ later.room = r /\ later.row = fields
       /\ later.wish = job.wish /\ later.whole = job.whole
  BY <1>2, <1>4, <1>6 DEF RoomJob
<1>11. saving' = [saving EXCEPT ![w] = IF job.refresh THEN later ELSE NoRequest]
  BY <1>8
<1> HIDE DEF later
<1>12. /\ rooms'[r] = new /\ wishes'[r] = job.wish
       /\ \A q \in RoomId : q # r => /\ rooms'[q] = rooms[q] /\ wishes'[q] = wishes[q]
                                     /\ behind'[q] = behind[q]
       /\ behind'[r]
       /\ saving'[w] \in {later, NoRequest}
       /\ \A v \in Owner : v # w => saving'[v] = saving[v]
  BY <1>8, <1>11 DEF RoomsInv, RoomTypes
<1>13. RoomTypes'
  <2>1. rooms' \in [RoomId -> RoomRow \cup {NoRoom}] /\ wishes' \in [RoomId -> Overrides]
    BY <1>3, <1>7, <1>8 DEF RoomsInv, RoomTypes
  <2>2. behind' \in [RoomId -> BOOLEAN] /\ met' \in [RoomId -> BOOLEAN]
    BY <1>8 DEF RoomsInv, RoomTypes
  <2>3. saving' \in [Owner -> RoomJob \cup {NoRequest}]
    BY <1>10, <1>11 DEF RoomsInv, RoomTypes
  <2> QED
    BY <1>8, <2>1, <2>2, <2>3 DEF RoomsInv, RoomTypes
<1>14. RowsCoherent'
  BY <1>9, <1>12 DEF RoomsInv, RowsCoherent
<1>15. RoomsAsWished'
  <2>1. ~met[r] => new.overrides = job.wish /\ new.geometry = apply_overrides(new.base, job.wish)
    BY <1>2, <1>3, <1>4, <1>5, <1>6, <1>7 DEF Prepared
  <2> QED
    BY <1>8, <1>12, <2>1 DEF RoomsInv, RoomsAsWished, AsWished
<1>16. OneAtATime'
  <2>1. \A v \in Owner, q \in RoomId : WorksOn(v, q)' => WorksOn(v, q)
    BY <1>1, <1>2, <1>4, <1>10, <1>12 DEF WorksOn, NoRequest, RoomJob
  <2> QED
    BY <1>8, <2>1 DEF RoomsInv, OneAtATime
<1>17. JobsPrepared'
  <2>1. Ready(later)'
    BY <1>5, <1>6, <1>7, <1>8, <1>9, <1>10, <1>12 DEF Ready, Prepared
  <2>2. ASSUME NEW v \in Owner, NEW other \in RoomJob, other = saving[v], v # w
        PROVE  Ready(other)'
    <3>1. other # NoRequest /\ other.room \in RoomId /\ other.pc # "idle"
      BY DEF RoomJob, NoRequest
    <3>2. Ready(other)
      BY <2>2, <3>1 DEF RoomsInv, JobsPrepared
    <3>3. other.room = r => met[r]
      <4>1. WorksOn(w, r)
        BY <1>1, <1>2, <1>4 DEF WorksOn
      <4>2. other.room = r => WorksOn(v, r)
        BY <2>2, <3>1 DEF WorksOn
      <4> QED
        BY <2>2, <4>1, <4>2 DEF RoomsInv, OneAtATime
    <3> QED
      BY <1>8, <1>9, <1>12, <3>1, <3>2, <3>3 DEF Ready, Prepared
  <2>3. \A v \in Owner : saving[v] # NoRequest => saving[v] \in RoomJob
    BY DEF RoomsInv, RoomTypes
  <2> QED
    BY <1>12, <2>1, <2>2, <2>3 DEF JobsPrepared
<1> QED
  BY <1>13, <1>14, <1>15, <1>16, <1>17 DEF RoomsInv

\* A request is over, its maps redrawn or not.
LEMMA EndStep ==
    ASSUME RoomsInv, NEW w \in Owner, refresh_maps(w) \/ LoseSave(w)
    PROVE  RoomsInv'
<1>1. PICK job : job = saving[w]
  OBVIOUS
<1>2. job \in RoomJob /\ job # NoRequest /\ job.pc = "refresh"
  BY <1>1 DEF refresh_maps, LoseSave, RoomsInv, RoomTypes, RoomJob, NoRequest
<1>3. job.room \in RoomId /\ job.row \in RoomRow
  BY <1>2 DEF RoomJob
<1>4. PICK r \in RoomId : r = job.room
  BY <1>3
<1>5. job.row.geometry \in SUBSET Element
  BY <1>3 DEF RoomRow
<1>6. rooms[r] # NoRoom /\ (~met[r] => job.row.geometry = rooms[r].geometry)
  BY <1>1, <1>2, <1>4 DEF RoomsInv, JobsPrepared, Ready, Prepared
<1>7. /\ rooms' = rooms /\ wishes' = wishes /\ met' = met
      /\ saving' = [saving EXCEPT ![w] = NoRequest]
      /\ \/ /\ drawing' = [drawing EXCEPT ![r] = job.row.geometry]
            /\ behind' = [behind EXCEPT ![r] = FALSE]
         \/ drawing' = drawing /\ behind' = behind
  BY <1>1, <1>4 DEF refresh_maps, LoseSave
<1>8. /\ saving'[w] = NoRequest
      /\ \A v \in Owner : v # w => saving'[v] = saving[v]
  BY <1>7 DEF RoomsInv, RoomTypes
<1>9. RoomTypes'
  <2>1. drawing' \in [RoomId -> SUBSET Element]
    BY <1>5, <1>7 DEF RoomsInv, RoomTypes
  <2>2. behind' \in [RoomId -> BOOLEAN]
    BY <1>7 DEF RoomsInv, RoomTypes
  <2> QED
    BY <1>7, <2>1, <2>2 DEF RoomsInv, RoomTypes
<1>10. RowsCoherent'
  BY <1>7 DEF RoomsInv, RowsCoherent
<1>11. RoomsAsWished'
  BY <1>6, <1>7 DEF RoomsInv, RoomTypes, RoomsAsWished, AsWished
<1>12. OneAtATime'
  <2>1. \A v \in Owner, q \in RoomId : WorksOn(v, q)' => WorksOn(v, q)
    BY <1>8 DEF WorksOn, NoRequest
  <2> QED
    BY <1>7, <2>1 DEF RoomsInv, OneAtATime
<1>13. JobsPrepared'
  BY <1>7, <1>8 DEF RoomsInv, JobsPrepared, Ready, Prepared
<1> QED
  BY <1>9, <1>10, <1>11, <1>12, <1>13 DEF RoomsInv

LEMMA RoomCopyStep ==
    ASSUME RoomsInv, NEW r \in RoomId, NEW copy \in RoomId, room_copy_view(r, copy)
    PROVE  RoomsInv'
<1>1. /\ rooms[r] # NoRoom /\ rooms[copy] = NoRoom
      /\ rooms' = [rooms EXCEPT ![copy] = rooms[r]]
      /\ wishes' = [wishes EXCEPT ![copy] = wishes[r]]
      /\ met' = [met EXCEPT ![copy] = met[r]]
      /\ drawing' = [drawing EXCEPT ![copy] = rooms[r].geometry]
      /\ saving' = saving /\ behind' = behind
  BY DEF room_copy_view
<1>2. rooms[r] \in RoomRow /\ rooms[r].geometry \in SUBSET Element
  BY <1>1 DEF RoomsInv, RoomTypes, RoomRow
<1>3. \A w \in Owner : WorksOn(w, copy) => FALSE
  BY <1>1 DEF RoomsInv, JobsPrepared, Ready, WorksOn, NoRequest
<1>4. RoomTypes'
  <2>1. rooms' \in [RoomId -> RoomRow \cup {NoRoom}] /\ drawing' \in [RoomId -> SUBSET Element]
    BY <1>1, <1>2 DEF RoomsInv, RoomTypes
  <2>2. met' \in [RoomId -> BOOLEAN] /\ wishes' \in [RoomId -> Overrides]
    BY <1>1 DEF RoomsInv, RoomTypes
  <2> QED
    BY <1>1, <2>1, <2>2 DEF RoomsInv, RoomTypes
<1>5. RowsCoherent'
  BY <1>1 DEF RoomsInv, RoomTypes, RowsCoherent
<1>6. RoomsAsWished'
  BY <1>1 DEF RoomsInv, RoomTypes, RoomsAsWished, AsWished
<1>7. OneAtATime'
  BY <1>1, <1>3 DEF RoomsInv, RoomTypes, OneAtATime, WorksOn
<1>8. JobsPrepared'
  BY <1>1 DEF RoomsInv, RoomTypes, RoomJob, JobsPrepared, Ready, Prepared
<1> QED
  BY <1>4, <1>5, <1>6, <1>7, <1>8 DEF RoomsInv

LEMMA RoomsStep == RoomsInv /\ [RoomsNext]_roomVars => RoomsInv'
<1> SUFFICES ASSUME RoomsInv, [RoomsNext]_roomVars PROVE RoomsInv'
  OBVIOUS
<1>1. ASSUME NEW w \in Owner, NEW r \in RoomId, NEW refresh \in BOOLEAN, NEW data \in Posts,
             save_overrides(w, r, data, refresh)
      PROVE  RoomsInv'
  <2> DEFINE wanted == clean_overrides(data, rooms[r].base)
  <2>1. wanted \in Overrides
    BY CleanedOverrides, HallAssumption
  <2>2. /\ rooms[r] \in RoomRow /\ rooms[r].base \in SUBSET Element /\ Technical(rooms[r].base)
    BY <1>1 DEF save_overrides, RoomsInv, RoomTypes, RowsCoherent, Coherent, RoomRow
  <2>3. LoadRoom(w, r, RoomOf(rooms[r].base, wanted), wanted, refresh, FALSE)
    BY <1>1 DEF save_overrides
  <2> HIDE DEF wanted
  <2> DEFINE fields == RoomOf(rooms[r].base, wanted)
  <2>4. fields \in RoomRow /\ Coherent(fields)
    BY <2>1, <2>2, DrawnRow
  <2>5. fields.base = rooms[r].base /\ fields.overrides = wanted
        /\ fields.geometry = apply_overrides(fields.base, wanted)
    BY DEF RoomOf
  <2> HIDE DEF fields
  <2> QED
    BY <2>1, <2>3, <2>4, <2>5, LoadStep DEF fields
<1>2. ASSUME NEW w \in Owner, NEW r \in RoomId, NEW refresh \in BOOLEAN,
             reset_room(w, r, refresh)
      PROVE  RoomsInv'
  <2> DEFINE base == rooms[r].base
             fields == RoomOf(base, NoOverrides)
  <2>1. /\ rooms[r] \in RoomRow /\ base \in SUBSET Element /\ Technical(base)
    BY <1>2 DEF reset_room, LoadRoom, RoomsInv, RoomTypes, RowsCoherent, Coherent, RoomRow
  <2> HIDE DEF base
  <2>2. apply_overrides(base, NoOverrides) = base
    <3>1. apply_overrides(base, NoOverrides)
              = {e \in base : e.id \notin NoOverrides.hidden} \cup ByHand(NoOverrides)
      BY DEF apply_overrides, ByHand
    <3>2. NoOverrides.hidden = {}
      BY DEF NoOverrides
    <3> QED
      BY <3>1, <3>2, PlainHall
  <2>3. fields \in RoomRow /\ Coherent(fields)
    BY <2>1, PlainHall, DrawnRow
  <2>4. fields.base = base /\ fields.overrides = NoOverrides
        /\ fields.geometry = apply_overrides(fields.base, NoOverrides)
    BY DEF RoomOf
  <2>5. [fields EXCEPT !.geometry = base] = fields
    BY <2>2 DEF RoomOf
  <2>6. LoadRoom(w, r, fields, NoOverrides, refresh, FALSE)
    BY <1>2, <2>5 DEF reset_room, base
  <2> HIDE DEF fields
  <2> QED
    BY <2>3, <2>4, <2>6, PlainHall, LoadStep DEF base
<1>3. ASSUME NEW w \in Owner, NEW r \in RoomId, NEW refresh \in BOOLEAN,
             NEW export \in Exports, import_hall(w, r, export, refresh)
      PROVE  RoomsInv'
  <2> DEFINE fields == RoomOf(convert_hall(export), rooms[r].overrides)
  <2>1. /\ rooms[r].overrides \in Overrides /\ wishes[r] \in Overrides
        /\ ~met[r] => rooms[r].overrides = wishes[r]
    BY <1>3 DEF import_hall, LoadRoom, RoomsInv, RoomTypes, RoomsAsWished, AsWished, RoomRow
  <2>2. fields \in RoomRow /\ Coherent(fields)
    BY <2>1, ConvertedHall, DrawnRow
  <2>3. /\ fields.overrides = rooms[r].overrides
        /\ fields.geometry = apply_overrides(fields.base, rooms[r].overrides)
    BY DEF RoomOf
  <2>4. LoadRoom(w, r, fields, wishes[r], refresh, TRUE)
    BY <1>3 DEF import_hall
  <2> HIDE DEF fields
  <2> QED
    BY <2>1, <2>2, <2>3, <2>4, LoadStep
<1>4. CASE UNCHANGED roomVars
  BY <1>4 DEF roomVars, RoomsInv, RoomTypes, RowsCoherent, RoomsAsWished, AsWished, OneAtATime,
              WorksOn, JobsPrepared, Ready, Prepared
<1> QED
  BY <1>1, <1>2, <1>3, <1>4, SaveStep, EndStep, RoomCopyStep DEF RoomsNext

\* Room.geometry is "base + overrides" (seating/room.py): whatever is imported,
\* posted and drawn again, the owner's changes are drawn, and unless two
\* requests worked on a room at once they are those accepted last, on every
\* map redrawn since.
THEOREM HallAlwaysKeepsWishes == RoomsSpec => []HallKeepsWishes
<1>1. RoomsSpec => []RoomsInv
  BY RoomsStart, RoomsStep, PTL DEF RoomsSpec
<1>2. RoomsInv => HallKeepsWishes
  BY RoomsKeepWishes
<1> QED
  BY <1>1, <1>2, PTL

\* No room, and no request for one, holds more drawn by hand than fits.
FewByHand(drawn) == Len(drawn.overrides.custom) <= MAX_CUSTOM
RoomCounts ==
    /\ loads \in 0..MaxRoomSaves
    /\ \A r \in RoomId : rooms[r] # NoRoom => FewByHand(rooms[r])
    /\ \A w \in Owner : saving[w] # NoRequest => FewByHand(saving[w].row)

LEMMA CleanedIsFew ==
    ASSUME NEW base, NEW data, Len(data.custom) <= MAX_CUSTOM, NEW old
    PROVE  FewByHand(RoomOf(base, clean_overrides(data, old)))
  BY DEF FewByHand, RoomOf, clean_overrides

LEMMA RoomCountsStart == RoomsInit => RoomCounts
<1> SUFFICES ASSUME RoomsInit PROVE RoomCounts
  OBVIOUS
<1>1. PICK export \in Exports, data \in Posts \cup {NoOverrides} :
          /\ Accepted(data, convert_hall(export))
          /\ rooms = [r \in RoomId |-> IF r = FirstRoom
                          THEN RoomOf(convert_hall(export), clean_overrides(data, convert_hall(export)))
                          ELSE NoRoom]
  BY DEF RoomsInit
<1>2. FewByHand(RoomOf(convert_hall(export), clean_overrides(data, convert_hall(export))))
  BY <1>1, CleanedIsFew DEF Accepted
<1>3. saving = [w \in Owner |-> NoRequest] /\ loads = 0
  BY DEF RoomsInit
<1> QED
  BY <1>1, <1>2, <1>3, HallAssumption DEF RoomCounts

LEMMA CountsLoaded ==
    ASSUME RoomsInv, RoomCounts, NEW w \in Owner, NEW r \in RoomId, NEW fields, FewByHand(fields),
           NEW wish, NEW refresh, NEW whole, LoadRoom(w, r, fields, wish, refresh, whole)
    PROVE  RoomCounts'
<1> DEFINE job == [pc |-> "save", room |-> r, row |-> fields, wish |-> wish, refresh |-> refresh,
                   whole |-> whole]
<1>1. /\ saving' = [saving EXCEPT ![w] = job] /\ job.row = fields
      /\ rooms' = rooms /\ loads < MaxRoomSaves /\ loads' = loads + 1
  BY DEF LoadRoom
<1> HIDE DEF job
<1>2. saving'[w].row = fields /\ \A v \in Owner : v # w => saving'[v] = saving[v]
  BY <1>1 DEF RoomsInv, RoomTypes
<1>3. loads' \in 0..MaxRoomSaves
  BY <1>1, HallAssumption DEF RoomCounts
<1> QED
  BY <1>1, <1>2, <1>3 DEF RoomCounts, FewByHand

LEMMA CountsSaved == ASSUME RoomsInv, RoomCounts, NEW w \in Owner, SaveRoom(w) PROVE RoomCounts'
<1>1. PICK job : job = saving[w]
  OBVIOUS
<1>2. job \in RoomJob /\ job # NoRequest
  BY <1>1 DEF SaveRoom, RoomsInv, RoomTypes, RoomJob, NoRequest
<1>3. PICK r \in RoomId : r = job.room
  BY <1>2 DEF RoomJob
<1>4. PICK fields \in RoomRow : fields = job.row
  BY <1>2 DEF RoomJob
<1> DEFINE mixed == [fields EXCEPT !.base = rooms[r].base]
           new == IF job.whole THEN fields ELSE mixed
           later == [job EXCEPT !.pc = "refresh"]
<1>5. new.overrides = fields.overrides /\ later.row = fields
  BY <1>2, <1>4 DEF RoomRow, RoomJob
<1>6. /\ rooms' = [rooms EXCEPT ![r] = new] /\ loads' = loads
      /\ saving' = [saving EXCEPT ![w] = IF job.refresh THEN later ELSE NoRequest]
  BY <1>1, <1>3, <1>4 DEF SaveRoom
<1> HIDE DEF mixed, new, later
<1>7. /\ rooms'[r] = new /\ \A q \in RoomId : q # r => rooms'[q] = rooms[q]
      /\ saving'[w] \in {later, NoRequest} /\ \A v \in Owner : v # w => saving'[v] = saving[v]
  BY <1>6 DEF RoomsInv, RoomTypes
<1>8. FewByHand(fields)
  BY <1>1, <1>2, <1>4 DEF RoomCounts
<1>9. FewByHand(new) /\ FewByHand(later.row)
  BY <1>5, <1>8 DEF FewByHand
<1>10. \A q \in RoomId : rooms'[q] # NoRoom => FewByHand(rooms'[q])
  BY <1>7, <1>9 DEF RoomCounts
<1>11. \A v \in Owner : saving'[v] # NoRequest => FewByHand(saving'[v].row)
  BY <1>7, <1>9 DEF RoomCounts
<1> QED
  BY <1>6, <1>10, <1>11 DEF RoomCounts, FewByHand

LEMMA RoomCountsStep == RoomsInv /\ RoomCounts /\ [RoomsNext]_roomVars => RoomCounts'
<1> SUFFICES ASSUME RoomsInv, RoomCounts, [RoomsNext]_roomVars PROVE RoomCounts'
  OBVIOUS
<1>1. ASSUME NEW w \in Owner, NEW r \in RoomId, NEW refresh \in BOOLEAN, NEW data \in Posts,
             save_overrides(w, r, data, refresh)
      PROVE  RoomCounts'
  <2>1. PICK wanted : wanted = clean_overrides(data, rooms[r].base)
    OBVIOUS
  <2>2. PICK fields : fields = RoomOf(rooms[r].base, wanted)
    OBVIOUS
  <2>3. FewByHand(fields) /\ LoadRoom(w, r, fields, wanted, refresh, FALSE)
    BY <1>1, <2>1, <2>2, CleanedIsFew DEF save_overrides, Accepted
  <2> QED
    BY <2>3, CountsLoaded
<1>2. ASSUME NEW w \in Owner, NEW r \in RoomId, NEW refresh \in BOOLEAN,
             reset_room(w, r, refresh)
      PROVE  RoomCounts'
  <2>1. PICK fields : fields = [RoomOf(rooms[r].base, NoOverrides) EXCEPT !.geometry = rooms[r].base]
    OBVIOUS
  <2>2. fields.overrides.custom = <<>>
    BY <2>1 DEF RoomOf, NoOverrides
  <2>3. LoadRoom(w, r, fields, NoOverrides, refresh, FALSE)
    BY <1>2, <2>1 DEF reset_room
  <2>4. FewByHand(fields)
    BY <2>2, HallAssumption DEF FewByHand
  <2> QED
    BY <2>3, <2>4, CountsLoaded
<1>3. ASSUME NEW w \in Owner, NEW r \in RoomId, NEW refresh \in BOOLEAN,
             NEW export \in Exports, import_hall(w, r, export, refresh)
      PROVE  RoomCounts'
  <2>1. PICK fields : fields = RoomOf(convert_hall(export), rooms[r].overrides)
    OBVIOUS
  <2>2. fields.overrides = rooms[r].overrides /\ rooms[r] # NoRoom
        /\ LoadRoom(w, r, fields, wishes[r], refresh, TRUE)
    BY <1>3, <2>1 DEF RoomOf, import_hall, LoadRoom
  <2>3. FewByHand(fields)
    BY <2>2 DEF RoomCounts, FewByHand
  <2> QED
    BY <2>2, <2>3, CountsLoaded
<1>4. ASSUME NEW w \in Owner, refresh_maps(w) \/ LoseSave(w) PROVE RoomCounts'
  <2>1. rooms' = rooms /\ loads' = loads /\ saving' = [saving EXCEPT ![w] = NoRequest]
    BY <1>4 DEF refresh_maps, LoseSave
  <2>2. \A v \in Owner : saving'[v] # NoRequest => saving'[v] = saving[v]
    BY <2>1 DEF RoomsInv, RoomTypes
  <2> QED
    BY <2>1, <2>2 DEF RoomCounts, FewByHand
<1>5. ASSUME NEW r \in RoomId, NEW copy \in RoomId, room_copy_view(r, copy) PROVE RoomCounts'
  <2>1. /\ rooms[r] # NoRoom /\ rooms' = [rooms EXCEPT ![copy] = rooms[r]]
        /\ loads' = loads /\ saving' = saving
    BY <1>5 DEF room_copy_view
  <2>2. \A q \in RoomId : rooms'[q] = rooms[q] \/ rooms'[q] = rooms[r]
    BY <2>1 DEF RoomsInv, RoomTypes
  <2> QED
    BY <2>1, <2>2 DEF RoomCounts, FewByHand
<1>6. CASE UNCHANGED roomVars
  BY <1>6 DEF roomVars, RoomCounts, FewByHand
<1> QED
  BY <1>1, <1>2, <1>3, <1>4, <1>5, <1>6, CountsSaved DEF RoomsNext

\* Whichever requests meet, no room holds more elements drawn by hand than the
\* editor accepts, nor anything drawn under a key that maps do not know.
THEOREM RoomTypesHold == RoomsSpec => []RoomsTypeOK
<1>1. RoomsInv /\ RoomCounts => RoomsTypeOK
  <2> SUFFICES ASSUME RoomsInv, RoomCounts PROVE RoomsTypeOK
    OBVIOUS
  <2>1. \A w \in Owner : saving[w].pc \in {"idle", "save", "refresh"}
    BY DEF RoomsInv, RoomTypes, RoomJob, NoRequest
  <2>2. \A r \in RoomId : rooms[r] # NoRoom => rooms[r].geometry \in SUBSET Element
    BY DEF RoomsInv, RoomTypes, RoomRow
  <2>3. \A e \in Element : e.key \in {"obstacles", "entrances", "context"}
    BY DEF Element
  <2> QED
    BY <2>1, <2>2, <2>3 DEF RoomCounts, FewByHand, RoomsTypeOK
<1>2. RoomsInv /\ RoomCounts /\ [RoomsNext]_roomVars => (RoomsInv /\ RoomCounts)'
  BY RoomsStep, RoomCountsStep
<1> QED
  BY <1>1, <1>2, RoomsStart, RoomCountsStart, PTL DEF RoomsSpec

(***************************************************************************)
(* Documents of the seating editor.                                        *)
(***************************************************************************)

\* A seat is a pair of numbers.
LEMMA SeatsOfDocument ==
    ASSUME NEW d \in Document
    PROVE  /\ \A s \in Seats(d) : /\ s[1] \in Sellable(d) /\ s[1] \in Nat /\ s[2] \in Nat
                                  /\ s[2] \in DOMAIN d.objects[s[1]].seats /\ s = <<s[1], s[2]>>
                                  /\ SeatAt(d, s) \in DocumentSeat
           /\ \A i \in Sellable(d) : \A j \in DOMAIN d.objects[i].seats : <<i, j>> \in Seats(d)
<1>1. \A i \in DOMAIN d.objects : i \in Nat /\ d.objects[i] \in DocumentObject
  BY DEF Document
<1>2. \A i \in DOMAIN d.objects : \A j \in DOMAIN d.objects[i].seats :
          j \in Nat /\ d.objects[i].seats[j] \in DocumentSeat
  BY <1>1 DEF DocumentObject
<1>3. ASSUME NEW s \in Seats(d)
      PROVE  /\ s[1] \in Sellable(d) /\ s[1] \in Nat /\ s[2] \in Nat
             /\ s[2] \in DOMAIN d.objects[s[1]].seats /\ s = <<s[1], s[2]>>
             /\ SeatAt(d, s) \in DocumentSeat
  <2>1. PICK i \in Sellable(d) : s \in {i} \X DOMAIN d.objects[i].seats
    BY DEF Seats
  <2>2. PICK j \in DOMAIN d.objects[i].seats : s = <<i, j>>
    BY <2>1
  <2> QED
    BY <1>1, <1>2, <2>2 DEF Sellable, SeatAt
<1>4. ASSUME NEW i \in Sellable(d), NEW j \in DOMAIN d.objects[i].seats
      PROVE  <<i, j>> \in Seats(d)
  <2>1. <<i, j>> \in {i} \X DOMAIN d.objects[i].seats
    OBVIOUS
  <2> QED
    BY <2>1 DEF Seats
<1> QED
  BY <1>3, <1>4

\* A sequence has finitely many places.
LEMMA FiniteDomain ==
    ASSUME NEW S, NEW q \in Seq(S)
    PROVE  IsFiniteSet(DOMAIN q)
<1>1. Len(q) \in Nat /\ DOMAIN q = 1..Len(q)
  OBVIOUS
<1>2. IsFiniteSet(1..Len(q))
  BY <1>1, FS_Interval
<1> QED
  BY <1>1, <1>2

LEMMA FirstPlace ==
    ASSUME NEW S, NEW q \in Seq(S), q # <<>>
    PROVE  1 \in DOMAIN q
<1>1. Len(q) \in Nat /\ DOMAIN q = 1..Len(q) /\ Len(q) # 0
  OBVIOUS
<1> QED
  BY <1>1

\* Documents have finitely many seats.
LEMMA SeatsFinite ==
    ASSUME NEW d \in Document
    PROVE  IsFiniteSet(Seats(d)) /\ Cardinality(Seats(d)) \in Nat
<1> DEFINE chairs == [i \in Sellable(d) |-> {i} \X DOMAIN d.objects[i].seats]
           S == {chairs[i] : i \in Sellable(d)}
<1>1. d.objects \in Seq(DocumentObject)
  BY DEF Document
<1>2. IsFiniteSet(DOMAIN d.objects)
  BY <1>1, FiniteDomain
<1>3. IsFiniteSet(Sellable(d))
  BY <1>2, FS_Subset DEF Sellable
<1>4. chairs \in Surjection(Sellable(d), S)
  BY DEF Surjection
<1>5. IsFiniteSet(S)
  BY <1>3, <1>4, FS_Surjection
<1>6. ASSUME NEW i \in Sellable(d) PROVE IsFiniteSet(chairs[i])
  <2>1. d.objects[i] \in DocumentObject
    BY <1>1 DEF Sellable
  <2>2. d.objects[i].seats \in Seq(DocumentSeat)
    BY <2>1 DEF DocumentObject
  <2>3a. IsFiniteSet(DOMAIN d.objects[i].seats)
    BY <2>2, FiniteDomain
  <2>3. IsFiniteSet({i} \X DOMAIN d.objects[i].seats)
    BY <2>3a, FS_Singleton, FS_Product
  <2> QED
    BY <2>3
<1>7. \A T \in S : IsFiniteSet(T)
  BY <1>6
<1>8. Seats(d) = UNION S
  BY DEF Seats
<1>9. IsFiniteSet(UNION S)
  <2> HIDE DEF S
  <2> QED
    BY <1>5, <1>7, FS_UNION
<1> QED
  BY <1>8, <1>9, FS_CardinalityType

\* strip leaves the text, and leaves what is not padded alone.
LEMMA StrippedLabel ==
    ASSUME NEW l \in DocumentLabel
    PROVE  /\ strip(l) \in DocumentLabel /\ strip(l).text = l.text /\ strip(l).look # "padded"
           /\ l.look # "padded" => strip(l) = l
BY DEF strip, DocumentLabel

\* A seat keeps all but the padding of its label.
LEMMA CleanedSeat ==
    ASSUME NEW s \in DocumentSeat
    PROVE  /\ CleanSeat(s) \in DocumentSeat
           /\ CleanSeat(s).id = s.id /\ CleanSeat(s).disabled = s.disabled
           /\ CleanSeat(s).label.text = s.label.text /\ CleanSeat(s).label.look # "padded"
           /\ s.label.look # "padded" => CleanSeat(s) = s
<1>1. s.label \in DocumentLabel
  BY DEF DocumentSeat
<1>2. PICK l \in DocumentLabel : l = strip(s.label) /\ l.text = s.label.text /\ l.look # "padded"
                                 /\ (s.label.look # "padded" => l = s.label)
  BY <1>1, StrippedLabel
<1>3. CleanSeat(s) = [s EXCEPT !.label = l]
  BY <1>2 DEF CleanSeat
<1>4. CleanSeat(s) \in DocumentSeat /\ CleanSeat(s).label = l
      /\ CleanSeat(s).id = s.id /\ CleanSeat(s).disabled = s.disabled
  BY <1>3 DEF DocumentSeat
<1>5. s.label.look # "padded" => CleanSeat(s) = s
  BY <1>2, <1>3 DEF DocumentSeat
<1> QED
  BY <1>2, <1>4, <1>5

\* Nothing is left for clean_layout to do with an object.
CleanedAlready(o) ==
    o.type # "zone" =>
        /\ o.label.look # "padded" /\ o.sell_mode # "unset"
        /\ \A j \in DOMAIN o.seats : o.seats[j].label.look # "padded"

\* What clean_layout makes of an object.
LEMMA CleanedObject ==
    ASSUME NEW o \in DocumentObject
    PROVE  /\ CleanObject(o) \in DocumentObject /\ CleanedAlready(CleanObject(o))
           /\ CleanObject(o).id = o.id /\ CleanObject(o).type = o.type
           /\ CleanObject(o).drawn = o.drawn /\ CleanObject(o).category = o.category
           /\ CleanObject(o).label.text = o.label.text
           /\ DOMAIN CleanObject(o).seats = DOMAIN o.seats
           /\ o.type # "zone" =>
                  /\ CleanObject(o).sell_mode = Mode(o)
                  /\ \A j \in DOMAIN o.seats : CleanObject(o).seats[j] = CleanSeat(o.seats[j])
<1>2. CASE o.type = "zone"
  <2>1. CleanObject(o) = o
    BY <1>2 DEF CleanObject
  <2> QED
    BY <1>2, <2>1 DEF CleanedAlready
<1>3. CASE o.type # "zone"
  <2> DEFINE clean == [j \in DOMAIN o.seats |-> CleanSeat(o.seats[j])]
  <2>1. /\ o.seats \in Seq(DocumentSeat) /\ o.label \in DocumentLabel
        /\ \A j \in DOMAIN o.seats : o.seats[j] \in DocumentSeat
    BY DEF DocumentObject
  <2>2. Len(o.seats) \in Nat /\ DOMAIN o.seats = 1..Len(o.seats)
    BY <2>1
  <2>3. \A j \in DOMAIN o.seats : CleanSeat(o.seats[j]) \in DocumentSeat
    BY <2>1, CleanedSeat
  <2>4. clean \in [1..Len(o.seats) -> DocumentSeat]
    BY <2>2, <2>3
  <2>5. PICK q \in Seq(DocumentSeat) : q = clean
    <3> HIDE DEF clean
    <3> QED
      BY <2>2, <2>4, SeqDef
  <2>6. PICK l \in DocumentLabel : l = strip(o.label) /\ l.text = o.label.text /\ l.look # "padded"
    BY <2>1, StrippedLabel
  <2>7. PICK m \in SELL_MODES : m = Mode(o)
    BY DEF Mode, SELL_MODES, DocumentObject
  <2>8. CleanObject(o) = [o EXCEPT !.label = l, !.sell_mode = m, !.seats = q]
    BY <1>3, <2>5, <2>6, <2>7 DEF CleanObject
  <2>9. /\ CleanObject(o) \in DocumentObject
        /\ CleanObject(o).id = o.id /\ CleanObject(o).type = o.type
        /\ CleanObject(o).drawn = o.drawn /\ CleanObject(o).category = o.category
        /\ CleanObject(o).label = l /\ CleanObject(o).sell_mode = m /\ CleanObject(o).seats = q
    BY <2>8 DEF DocumentObject
  <2>10. DOMAIN q = DOMAIN o.seats /\ \A j \in DOMAIN o.seats : q[j] = CleanSeat(o.seats[j])
    BY <2>5
  <2>11. CleanedAlready(CleanObject(o))
    <3>1. \A j \in DOMAIN q : q[j].label.look # "padded"
      BY <2>1, <2>10, CleanedSeat
    <3>2. m # "unset"
      BY <2>7 DEF SELL_MODES
    <3> QED
      BY <2>6, <2>9, <3>1, <3>2 DEF CleanedAlready
  <2> QED
    BY <1>3, <2>6, <2>7, <2>9, <2>10, <2>11
<1> QED
  BY <1>2, <1>3

\* clean_layout leaves alone what it has left once.
LEMMA CleanedOnce ==
    ASSUME NEW o \in DocumentObject, CleanedAlready(o)
    PROVE  CleanObject(o) = o
<1>1. CASE o.type = "zone"
  BY <1>1 DEF CleanObject
<1>2. CASE o.type # "zone"
  <2>1. /\ o.seats \in Seq(DocumentSeat) /\ o.label \in DocumentLabel
        /\ \A j \in DOMAIN o.seats : o.seats[j] \in DocumentSeat
    BY DEF DocumentObject
  <2>2. strip(o.label) = o.label
    BY <1>2, <2>1, StrippedLabel DEF CleanedAlready
  <2>3. Mode(o) = o.sell_mode
    BY <1>2 DEF Mode, CleanedAlready
  <2>4. \A j \in DOMAIN o.seats : CleanSeat(o.seats[j]) = o.seats[j]
    BY <1>2, <2>1, CleanedSeat DEF CleanedAlready
  <2>5. [j \in DOMAIN o.seats |-> CleanSeat(o.seats[j])] = [j \in DOMAIN o.seats |-> o.seats[j]]
    BY <2>4
  <2>6. [j \in DOMAIN o.seats |-> o.seats[j]] = o.seats
    BY <2>1
  <2>7. CleanObject(o) = [o EXCEPT !.label = o.label, !.sell_mode = o.sell_mode, !.seats = o.seats]
    BY <1>2, <2>2, <2>3, <2>5, <2>6 DEF CleanObject
  <2> QED
    BY <2>7 DEF DocumentObject
<1> QED
  BY <1>1, <1>2

LEMMA CleanedDocument ==
    ASSUME NEW d \in Document
    PROVE  /\ clean_layout(d) \in Document /\ clean_layout(d).zones = d.zones
           /\ DOMAIN clean_layout(d).objects = DOMAIN d.objects
           /\ \A i \in DOMAIN d.objects : /\ d.objects[i] \in DocumentObject
                                          /\ clean_layout(d).objects[i] = CleanObject(d.objects[i])
           /\ clean_layout(clean_layout(d)) = clean_layout(d)
<1> DEFINE clean == [i \in DOMAIN d.objects |-> CleanObject(d.objects[i])]
<1>1. /\ d.objects \in Seq(DocumentObject)
      /\ \A i \in DOMAIN d.objects : d.objects[i] \in DocumentObject
  BY DEF Document
<1>2. Len(d.objects) \in Nat /\ DOMAIN d.objects = 1..Len(d.objects)
  BY <1>1
<1>3. \A i \in DOMAIN d.objects : CleanObject(d.objects[i]) \in DocumentObject
  BY <1>1, CleanedObject
<1>4. clean \in [1..Len(d.objects) -> DocumentObject]
  BY <1>2, <1>3
<1>5. PICK q \in Seq(DocumentObject) : q = clean
  <2> HIDE DEF clean
  <2> QED
    BY <1>2, <1>4, SeqDef
<1>6. clean_layout(d) = [d EXCEPT !.objects = q]
  BY <1>5 DEF clean_layout
<1>7. /\ clean_layout(d) \in Document /\ clean_layout(d).zones = d.zones
      /\ clean_layout(d).objects = q
  BY <1>6 DEF Document
<1>8. DOMAIN q = DOMAIN d.objects /\ \A i \in DOMAIN d.objects : q[i] = CleanObject(d.objects[i])
  BY <1>5
<1>9. clean_layout(clean_layout(d)) = clean_layout(d)
  <2>1. PICK e \in Document : e = clean_layout(d)
    BY <1>7
  <2>2. \A i \in DOMAIN q : CleanObject(q[i]) = q[i]
    BY <1>1, <1>8, CleanedObject, CleanedOnce
  <2>3. [i \in DOMAIN q |-> CleanObject(q[i])] = q
    <3>1. [i \in DOMAIN q |-> CleanObject(q[i])] = [i \in DOMAIN q |-> q[i]]
      BY <2>2
    <3> QED
      BY <3>1
  <2>4. e.objects = q
    BY <1>7, <2>1
  <2>5. clean_layout(e) = [e EXCEPT !.objects = e.objects]
    BY <2>3, <2>4 DEF clean_layout
  <2>6. clean_layout(e) = e
    BY <2>5 DEF Document
  <2> QED
    BY <2>1, <2>6
<1> QED
  BY <1>1, <1>7, <1>8, <1>9

\* clean_layout moves no seat, and takes none in or out.
LEMMA CleanedSeats ==
    ASSUME NEW d \in Document
    PROVE  /\ Sellable(clean_layout(d)) = Sellable(d) /\ Codes(clean_layout(d)) = Codes(d)
           /\ Seats(clean_layout(d)) = Seats(d) /\ OnSale(clean_layout(d)) = OnSale(d)
           /\ \A s \in Seats(d) : SeatAt(clean_layout(d), s) = CleanSeat(SeatAt(d, s))
<1>1. PICK e \in Document : e = clean_layout(d)
  BY CleanedDocument
<1>2. /\ e.zones = d.zones /\ DOMAIN e.objects = DOMAIN d.objects
      /\ \A i \in DOMAIN d.objects : /\ d.objects[i] \in DocumentObject
                                     /\ e.objects[i] = CleanObject(d.objects[i])
  BY <1>1, CleanedDocument
<1>3. \A i \in DOMAIN d.objects : e.objects[i].type = d.objects[i].type
                               /\ DOMAIN e.objects[i].seats = DOMAIN d.objects[i].seats
  BY <1>2, CleanedObject
<1>4. Sellable(e) = Sellable(d)
  BY <1>2, <1>3 DEF Sellable
<1>5. Codes(e) = Codes(d)
  BY <1>2 DEF Codes
<1>6. Seats(e) = Seats(d)
  <2>1. \A i \in Sellable(d) : {i} \X DOMAIN e.objects[i].seats = {i} \X DOMAIN d.objects[i].seats
    BY <1>3 DEF Sellable
  <2>2. {{i} \X DOMAIN e.objects[i].seats : i \in Sellable(d)}
            = {{i} \X DOMAIN d.objects[i].seats : i \in Sellable(d)}
    BY <2>1
  <2> QED
    BY <1>4, <2>2 DEF Seats
<1>7. ASSUME NEW s \in Seats(d)
      PROVE  /\ SeatAt(e, s) = CleanSeat(SeatAt(d, s))
             /\ SeatAt(e, s).disabled = SeatAt(d, s).disabled
  <2>1. /\ s[1] \in DOMAIN d.objects /\ d.objects[s[1]].type # "zone"
        /\ s[2] \in DOMAIN d.objects[s[1]].seats /\ SeatAt(d, s) \in DocumentSeat
    BY SeatsOfDocument DEF Sellable
  <2>2. e.objects[s[1]].seats[s[2]] = CleanSeat(d.objects[s[1]].seats[s[2]])
    BY <1>2, <2>1, CleanedObject
  <2>3. SeatAt(e, s) = CleanSeat(SeatAt(d, s))
    BY <2>2 DEF SeatAt
  <2> QED
    BY <2>1, <2>3, CleanedSeat
<1>8. OnSale(e) = OnSale(d)
  BY <1>6, <1>7 DEF OnSale
<1> QED
  BY <1>1, <1>4, <1>5, <1>6, <1>7, <1>8

\* An object stays valid.
LEMMA CleanedObjectValid ==
    ASSUME NEW o \in DocumentObject, NEW codes, ObjectValid(o, codes)
    PROVE  ObjectValid(CleanObject(o), codes)
<1>1. PICK c \in DocumentObject : c = CleanObject(o)
  BY CleanedObject
<1>2. /\ c.type = o.type /\ c.drawn = o.drawn /\ c.category = o.category
      /\ c.label.text = o.label.text /\ DOMAIN c.seats = DOMAIN o.seats
      /\ o.type # "zone" =>
             /\ c.sell_mode = Mode(o)
             /\ \A j \in DOMAIN o.seats : c.seats[j] = CleanSeat(o.seats[j])
  BY <1>1, CleanedObject
<1>3. o.drawn /\ ~Empty(o.label)
  BY DEF ObjectValid
<1>4. c.drawn /\ ~Empty(c.label)
  BY <1>2, <1>3 DEF Empty
<1>5. ASSUME o.type # "zone"
      PROVE  /\ Mode(c) \in SELL_MODES
             /\ c.type = "row" => Mode(c) = "SEATS"
             /\ codes # {} => c.category \in codes \cup {""}
             /\ c.seats # <<>>
             /\ \A j \in DOMAIN c.seats : ~Empty(c.seats[j].label)
             /\ IsInjective([j \in DOMAIN c.seats |-> c.seats[j].label.text])
  <2>1. /\ Mode(o) \in SELL_MODES
        /\ o.type = "row" => Mode(o) = "SEATS"
        /\ codes # {} => o.category \in codes \cup {""}
        /\ o.seats # <<>>
        /\ \A j \in DOMAIN o.seats : ~Empty(o.seats[j].label)
        /\ IsInjective([j \in DOMAIN o.seats |-> o.seats[j].label.text])
    BY <1>5 DEF ObjectValid
  <2>2. Mode(c) = Mode(o)
    BY <1>2, <1>5, <2>1 DEF Mode, SELL_MODES
  <2>3. o.seats \in Seq(DocumentSeat) /\ c.seats \in Seq(DocumentSeat)
        /\ \A j \in DOMAIN o.seats : o.seats[j] \in DocumentSeat
    BY DEF DocumentObject
  <2>4. \A j \in DOMAIN o.seats : c.seats[j].label.text = o.seats[j].label.text
    BY <1>2, <1>5, <2>3, CleanedSeat
  <2>5. c.seats # <<>>
    <3>1. 1 \in DOMAIN o.seats
      BY <2>1, <2>3, FirstPlace
    <3>2. 1 \in DOMAIN c.seats
      BY <1>2, <3>1
    <3> QED
      BY <2>3, <3>2
  <2>6. \A j \in DOMAIN c.seats : ~Empty(c.seats[j].label)
    BY <1>2, <2>1, <2>4 DEF Empty
  <2>7. [j \in DOMAIN c.seats |-> c.seats[j].label.text] = [j \in DOMAIN o.seats |-> o.seats[j].label.text]
    BY <1>2, <2>4
  <2>8. (c.type = "row" => Mode(c) = "SEATS") /\ (codes # {} => c.category \in codes \cup {""})
    BY <1>2, <2>1, <2>2
  <2> QED
    BY <2>1, <2>2, <2>5, <2>6, <2>7, <2>8
<1>6. ObjectValid(c, codes)
  BY <1>2, <1>4, <1>5 DEF ObjectValid
<1> QED
  BY <1>1, <1>6

\* What is stored is accepted as it is.
LEMMA StoredIsValid ==
    ASSUME NEW d \in Document, validate_layout(d)
    PROVE  validate_layout(clean_layout(d))
<1>1. PICK e \in Document : e = clean_layout(d)
  BY CleanedDocument
<1>2. /\ e.zones = d.zones /\ DOMAIN e.objects = DOMAIN d.objects
      /\ \A i \in DOMAIN d.objects : /\ d.objects[i] \in DocumentObject
                                     /\ e.objects[i] = CleanObject(d.objects[i])
  BY <1>1, CleanedDocument
<1>3. /\ Sellable(e) = Sellable(d) /\ Codes(e) = Codes(d)
      /\ Seats(e) = Seats(d) /\ OnSale(e) = OnSale(d)
      /\ \A s \in Seats(d) : SeatAt(e, s) = CleanSeat(SeatAt(d, s))
  BY <1>1, CleanedSeats
<1>4. /\ Len(d.objects) <= MAX_OBJECTS /\ _validate_zones(d.zones)
      /\ IsInjective([i \in DOMAIN d.objects |-> d.objects[i].id])
      /\ \A i \in DOMAIN d.objects : ObjectValid(d.objects[i], Codes(d))
      /\ Labelled(d) /\ IsInjective([s \in Seats(d) |-> SeatAt(d, s).id])
      /\ Cardinality(Seats(d)) <= MAX_SEATS_TOTAL /\ OnSale(d) # {}
  BY DEF validate_layout
<1>5. Len(e.objects) <= MAX_OBJECTS
  <2>1. d.objects \in Seq(DocumentObject) /\ e.objects \in Seq(DocumentObject)
    BY DEF Document
  <2> QED
    BY <1>2, <1>4, <2>1
<1>6. IsInjective([i \in DOMAIN e.objects |-> e.objects[i].id])
  <2>1. \A i \in DOMAIN d.objects : e.objects[i].id = d.objects[i].id
    BY <1>2, CleanedObject
  <2>2. [i \in DOMAIN e.objects |-> e.objects[i].id] = [i \in DOMAIN d.objects |-> d.objects[i].id]
    BY <1>2, <2>1
  <2> QED
    BY <1>4, <2>2
<1>7. \A i \in DOMAIN e.objects : ObjectValid(e.objects[i], Codes(e))
  BY <1>2, <1>3, <1>4, CleanedObjectValid
<1>8. Labelled(e)
  <2>1. \A i \in Sellable(d) : /\ Bucket(e.objects[i]) = Bucket(d.objects[i])
                               /\ e.objects[i].label.text = d.objects[i].label.text
    BY <1>2, CleanedObject DEF Sellable, Bucket
  <2>2. [i \in Sellable(e) |-> <<Bucket(e.objects[i]), e.objects[i].label.text>>]
            = [i \in Sellable(d) |-> <<Bucket(d.objects[i]), d.objects[i].label.text>>]
    BY <1>3, <2>1
  <2> QED
    BY <1>4, <2>2 DEF Labelled
<1>9. IsInjective([s \in Seats(e) |-> SeatAt(e, s).id])
  <2>1. \A s \in Seats(d) : SeatAt(e, s).id = SeatAt(d, s).id
    BY <1>3, SeatsOfDocument, CleanedSeat
  <2>2. [s \in Seats(e) |-> SeatAt(e, s).id] = [s \in Seats(d) |-> SeatAt(d, s).id]
    BY <1>3, <2>1
  <2> QED
    BY <1>4, <2>2
<1>10. validate_layout(e)
  BY <1>2, <1>3, <1>4, <1>5, <1>6, <1>7, <1>8, <1>9 DEF validate_layout
<1> QED
  BY <1>1, <1>10

(***************************************************************************)
(* The rows of a document.                                                 *)
(***************************************************************************)

\* The fields of a row.
LEMMA RowFields ==
    ASSUME NEW d, NEW s \in OnSale(d)
    PROVE  LET r == expand_seats(d)[s]
               o == d.objects[s[1]]
           IN /\ r.seat_key = SeatAt(d, s).id /\ r.group_key = o.id /\ r.group_kind = Bucket(o)
              /\ r.group_label = o.label /\ r.seat_label = SeatAt(d, s).label
              /\ r.sell_mode = o.sell_mode /\ r.category = o.category
              /\ r.price_percent = zone_percents(d, o.category)
              /\ r.sort_index = Cardinality(UpTo(d, s))
BY DEF expand_seats, SeatRow

\* Rows are distinguished by their keys.
LEMMA KeysApart ==
    ASSUME NEW d, validate_layout(d), NEW s \in OnSale(d), NEW t \in OnSale(d),
           expand_seats(d)[s].seat_key = expand_seats(d)[t].seat_key
    PROVE  s = t
<1>1. SeatAt(d, s).id = SeatAt(d, t).id
  BY RowFields
<1>2. s \in Seats(d) /\ t \in Seats(d)
  BY DEF OnSale
<1>3. IsInjective([u \in Seats(d) |-> SeatAt(d, u).id])
  BY DEF validate_layout
<1> QED
  BY <1>1, <1>2, <1>3 DEF IsInjective

\* Rows print as different places.
LEMMA PlacesApart ==
    ASSUME NEW d \in Document, validate_layout(d), NEW s \in OnSale(d), NEW t \in OnSale(d),
           expand_seats(d)[s].group_kind = expand_seats(d)[t].group_kind,
           expand_seats(d)[s].group_label = expand_seats(d)[t].group_label,
           expand_seats(d)[s].seat_label = expand_seats(d)[t].seat_label
    PROVE  s = t
<1>1. /\ Bucket(d.objects[s[1]]) = Bucket(d.objects[t[1]])
      /\ d.objects[s[1]].label = d.objects[t[1]].label
      /\ SeatAt(d, s).label = SeatAt(d, t).label
  BY RowFields
<1>2. /\ s \in Seats(d) /\ s[1] \in Sellable(d) /\ s[2] \in DOMAIN d.objects[s[1]].seats
      /\ s = <<s[1], s[2]>>
      /\ t \in Seats(d) /\ t[1] \in Sellable(d) /\ t[2] \in DOMAIN d.objects[t[1]].seats
      /\ t = <<t[1], t[2]>>
  BY SeatsOfDocument DEF OnSale
<1>3. s[1] = t[1]
  <2>1. IsInjective([i \in Sellable(d) |-> <<Bucket(d.objects[i]), d.objects[i].label.text>>])
    BY DEF validate_layout, Labelled
  <2> QED
    BY <1>1, <1>2, <2>1 DEF IsInjective
<1>4. s[2] = t[2]
  <2>1. ObjectValid(d.objects[s[1]], Codes(d)) /\ d.objects[s[1]].type # "zone"
    BY <1>2 DEF validate_layout, Sellable
  <2>2. IsInjective([j \in DOMAIN d.objects[s[1]].seats |-> d.objects[s[1]].seats[j].label.text])
    BY <2>1 DEF ObjectValid
  <2>3. d.objects[s[1]].seats[s[2]].label = d.objects[s[1]].seats[t[2]].label
    BY <1>1, <1>3 DEF SeatAt
  <2> QED
    BY <1>2, <1>3, <2>2, <2>3 DEF IsInjective
<1> QED
  BY <1>2, <1>3, <1>4

\* Of two seats the one drawn later has more seats up to it.
LEMMA DrawnBefore ==
    ASSUME NEW d \in Document, NEW s \in Seats(d), NEW t \in Seats(d),
           s[1] < t[1] \/ (s[1] = t[1] /\ s[2] < t[2])
    PROVE  Cardinality(UpTo(d, s)) < Cardinality(UpTo(d, t))
<1>1. \A u \in Seats(d) : u[1] \in Nat /\ u[2] \in Nat
  BY SeatsOfDocument
<1>2. UpTo(d, s) \subseteq UpTo(d, t)
  BY <1>1 DEF UpTo
<1>3. t \in UpTo(d, t) /\ t \notin UpTo(d, s)
  BY <1>1 DEF UpTo
<1>4. IsFiniteSet(UpTo(d, t))
  <2>1. UpTo(d, t) \subseteq Seats(d)
    BY DEF UpTo
  <2> QED
    BY <2>1, SeatsFinite, FS_Subset
<1>5. UpTo(d, s) # UpTo(d, t)
  BY <1>3
<1> QED
  BY <1>2, <1>4, <1>5, FS_Subset, FS_CardinalityType

LEMMA IndexesApart ==
    ASSUME NEW d \in Document, NEW s \in OnSale(d), NEW t \in OnSale(d),
           expand_seats(d)[s].sort_index = expand_seats(d)[t].sort_index
    PROVE  s = t
<1>1. Cardinality(UpTo(d, s)) = Cardinality(UpTo(d, t))
  BY RowFields
<1>2. /\ s \in Seats(d) /\ s[1] \in Nat /\ s[2] \in Nat /\ s = <<s[1], s[2]>>
      /\ t \in Seats(d) /\ t[1] \in Nat /\ t[2] \in Nat /\ t = <<t[1], t[2]>>
  BY SeatsOfDocument DEF OnSale
<1>3. Cardinality(UpTo(d, s)) \in Nat /\ Cardinality(UpTo(d, t)) \in Nat
  <2>1. UpTo(d, s) \subseteq Seats(d) /\ UpTo(d, t) \subseteq Seats(d)
    BY DEF UpTo
  <2>2. IsFiniteSet(UpTo(d, s)) /\ IsFiniteSet(UpTo(d, t))
    BY <2>1, SeatsFinite, FS_Subset
  <2> QED
    BY <2>2, FS_CardinalityType
<1>4. ~(s[1] < t[1] \/ (s[1] = t[1] /\ s[2] < t[2]))
  BY <1>1, <1>2, <1>3, DrawnBefore
<1>5. ~(t[1] < s[1] \/ (t[1] = s[1] /\ t[2] < s[2]))
  BY <1>1, <1>2, <1>3, DrawnBefore
<1> QED
  BY <1>2, <1>4, <1>5

\* A seat costs what the legend says of its zone.
LEMMA LegendPrices ==
    ASSUME NEW d, NEW s \in OnSale(d), NEW base \in Int
    PROVE  zone_price(base, expand_seats(d)[s].price_percent) =
               IF expand_seats(d)[s].category \in DOMAIN zone_prices(d, base)
               THEN zone_prices(d, base)[expand_seats(d)[s].category] ELSE base
<1>1. PICK c, p : /\ c = expand_seats(d)[s].category /\ p = expand_seats(d)[s].price_percent
                  /\ p = zone_percents(d, c)
  BY RowFields
<1>2. DOMAIN zone_prices(d, base) = Codes(d)
      /\ \A code \in Codes(d) : zone_prices(d, base)[code] = zone_price(base, zone_percents(d, code))
  BY DEF zone_prices
<1>3. c \notin Codes(d) => p = 100
  BY <1>1 DEF zone_percents
<1>4. p = 100 => zone_price(base, p) = base
  BY DEF zone_price
<1>5. zone_price(base, p) = IF c \in Codes(d) THEN zone_prices(d, base)[c] ELSE base
  BY <1>1, <1>2, <1>3, <1>4
<1> QED
  BY <1>1, <1>2, <1>5

\* A group has finitely many keys.
LEMMA KeysFinite ==
    ASSUME NEW rows, NEW group, IsFiniteSet(DOMAIN rows)
    PROVE  IsFiniteSet(GroupKeys(rows, group))
<1> DEFINE key == [s \in Group(rows, group) |-> rows[s].seat_key]
<1>1. IsFiniteSet(Group(rows, group))
  BY FS_Subset DEF Group
<1>2. key \in Surjection(Group(rows, group), GroupKeys(rows, group))
  BY DEF Surjection, GroupKeys
<1> QED
  BY <1>1, <1>2, FS_Surjection

\* Rows with different keys: each seat within reach is in some selection.
LEMMA SomeSelection ==
    ASSUME NEW rows, NEW blocked, NEW s \in DOMAIN rows, IsFiniteSet(DOMAIN rows),
           \A a, b \in DOMAIN rows : rows[a].seat_key = rows[b].seat_key => a = b,
           \A a \in DOMAIN rows : rows[a].sell_mode \in SELL_MODES,
           rows[s].seat_key \notin blocked,
           WithinReach(rows, blocked, rows[s].group_key)
    PROVE  \E basket \in SUBSET ({rows[a].seat_key : a \in DOMAIN rows} \ blocked) :
               rows[s].seat_key \in basket /\ ~selection_problem(rows, blocked, basket)
<1> DEFINE g == rows[s].group_key
           key == rows[s].seat_key
<1>1. GroupMode(rows, g) \in SELL_MODES
  <2>1. \E a \in DOMAIN rows : rows[a].group_key = g
    OBVIOUS
  <2>2. (CHOOSE a \in DOMAIN rows : rows[a].group_key = g) \in DOMAIN rows
    BY <2>1
  <2> QED
    BY <2>2 DEF GroupMode
<1>2. CASE GroupMode(rows, g) # "TABLE" /\ max_tickets_per_order > 0
  <2> DEFINE basket == {key}
             seats == {a \in DOMAIN rows : rows[a].seat_key \in basket}
             groups == {rows[a].group_key : a \in seats}
             whole == {h \in groups : GroupKeys(rows, h) \ blocked \subseteq basket}
             tables == {h \in whole : GroupMode(rows, h) \in {"TABLE", "BOTH"}}
             single == {a \in seats : rows[a].group_key \notin tables}
  <2>1. seats = {s}
    OBVIOUS
  <2>2. groups = {g}
    BY <2>1
  <2>3. single \subseteq {s}
    BY <2>1
  <2>4. Cardinality(single) <= 1
    <3>1. single = {} \/ single = {s}
      BY <2>3
    <3> HIDE DEF single
    <3>2. CASE single = {}
      <4>1. Cardinality(single) = 0
        BY <3>2, FS_EmptySet
      <4> QED
        BY <4>1
    <3>3. CASE single = {s}
      <4>1. Cardinality(single) = 1
        BY <3>3, FS_Singleton
      <4> QED
        BY <4>1
    <3> QED
      BY <3>1, <3>2, <3>3
  <2>5. Cardinality(single) \in Nat
    BY <2>3, FS_Singleton, FS_Subset, FS_CardinalityType
  <2>6. Cardinality(single) <= max_tickets_per_order
    <3> HIDE DEF single
    <3> QED
      BY <1>2, <2>4, <2>5, SelectionAssumption
  <2>7. Cardinality(basket) = 1
    BY FS_Singleton
  <2>8. ~(Cardinality(basket) > MAX_SEATS_PER_ORDER)
    <3> HIDE DEF basket
    <3> QED
      BY <2>7, SelectionAssumption
  <2>9. ~\E h \in groups \ whole : GroupMode(rows, h) = "TABLE"
    BY <1>2, <2>2
  <2>10. ~(Cardinality(single) > max_tickets_per_order)
    <3> HIDE DEF single
    <3> QED
      BY <2>5, <2>6, SelectionAssumption
  <2>11. ~selection_problem(rows, blocked, basket)
    BY <2>8, <2>9, <2>10 DEF selection_problem
  <2> QED
    BY <2>11
<1>3. CASE /\ GroupMode(rows, g) # "SEATS"
           /\ Cardinality(GroupKeys(rows, g) \ blocked) <= MAX_SEATS_PER_ORDER
  <2> DEFINE basket == GroupKeys(rows, g) \ blocked
             seats == {a \in DOMAIN rows : rows[a].seat_key \in basket}
             groups == {rows[a].group_key : a \in seats}
             whole == {h \in groups : GroupKeys(rows, h) \ blocked \subseteq basket}
             tables == {h \in whole : GroupMode(rows, h) \in {"TABLE", "BOTH"}}
             single == {a \in seats : rows[a].group_key \notin tables}
  <2>1. key \in basket
    BY DEF GroupKeys, Group
  <2>2. \A a \in seats : rows[a].group_key = g
    BY DEF GroupKeys, Group
  <2>3. groups \subseteq {g} /\ g \in groups
    BY <2>1, <2>2
  <2>4. whole = {g}
    BY <2>3
  <2>5. g \in tables
    BY <1>1, <1>3, <2>4 DEF SELL_MODES
  <2>6. single = {}
    BY <2>2, <2>5
  <2>7. Cardinality(single) = 0
    BY <2>6, FS_EmptySet
  <2>8. ~(Cardinality(single) > max_tickets_per_order)
    <3> HIDE DEF single
    <3> QED
      BY <2>7, SelectionAssumption
  <2>9. ~(Cardinality(basket) > MAX_SEATS_PER_ORDER)
    <3>1. IsFiniteSet(GroupKeys(rows, g))
      BY KeysFinite
    <3>2. IsFiniteSet(basket)
      BY <3>1, FS_Subset
    <3>3. Cardinality(basket) \in Nat
      BY <3>2, FS_CardinalityType
    <3>4. Cardinality(basket) <= MAX_SEATS_PER_ORDER
      BY <1>3
    <3> HIDE DEF basket
    <3> QED
      BY <3>3, <3>4, SelectionAssumption
  <2>10. ~\E h \in groups \ whole : GroupMode(rows, h) = "TABLE"
    BY <2>3, <2>4
  <2>11. ~selection_problem(rows, blocked, basket)
    BY <2>1, <2>8, <2>9, <2>10 DEF selection_problem
  <2>12. basket \subseteq {rows[a].seat_key : a \in DOMAIN rows} \ blocked
    BY DEF GroupKeys, Group
  <2> QED
    BY <2>1, <2>11, <2>12
<1> QED
  BY <1>2, <1>3 DEF WithinReach

\* The rows that d stands for can be sold.
CanBeSold(d) ==
    LET rows == expand_seats(d)
    IN /\ RowsApart(rows) /\ SeatsReachable(rows)
       /\ \A base \in PoolPrices : PricedAsDrawn(rows, base, zone_prices(d, base))

LEMMA AcceptedCanBeSold ==
    ASSUME NEW d \in Document, validate_layout(d)
    PROVE  CanBeSold(clean_layout(d))
<1>1. PICK e \in Document : e = clean_layout(d)
  BY CleanedDocument
<1>2. validate_layout(e)
  BY <1>1, StoredIsValid
<1> DEFINE rows == expand_seats(e)
           keys == {rows[s].seat_key : s \in DOMAIN rows}
<1>3. DOMAIN rows = OnSale(e)
  BY DEF expand_seats
<1>4. IsInjective([s \in DOMAIN rows |-> rows[s].seat_key])
  BY <1>2, <1>3, KeysApart DEF IsInjective
<1>5. IsInjective([s \in DOMAIN rows |->
                       <<rows[s].group_kind, rows[s].group_label, rows[s].seat_label>>])
  <2> SUFFICES ASSUME NEW s \in DOMAIN rows, NEW t \in DOMAIN rows,
                      rows[s].group_kind = rows[t].group_kind,
                      rows[s].group_label = rows[t].group_label,
                      rows[s].seat_label = rows[t].seat_label
               PROVE  s = t
    BY DEF IsInjective
  <2> QED
    BY <1>2, <1>3, PlacesApart
<1>6. IsInjective([s \in DOMAIN rows |-> rows[s].sort_index])
  BY <1>3, IndexesApart DEF IsInjective
<1>7. ASSUME NEW base \in PoolPrices
      PROVE  PricedAsDrawn(rows, base, zone_prices(e, base))
  BY <1>3, LegendPrices, SelectionAssumption DEF PricedAsDrawn
<1>8. IsFiniteSet(DOMAIN rows)
  BY <1>3, SeatsFinite, FS_Subset DEF OnSale
<1>9. \A s \in DOMAIN rows : rows[s].sell_mode \in SELL_MODES
  <2> SUFFICES ASSUME NEW s \in DOMAIN rows PROVE rows[s].sell_mode \in SELL_MODES
    OBVIOUS
  <2>1. s[1] \in DOMAIN d.objects /\ d.objects[s[1]].type # "zone"
    BY <1>1, <1>3, CleanedSeats, SeatsOfDocument DEF OnSale, Sellable
  <2>2. e.objects[s[1]].sell_mode = Mode(d.objects[s[1]])
    BY <1>1, <2>1, CleanedDocument, CleanedObject
  <2>3. Mode(d.objects[s[1]]) \in SELL_MODES
    BY <2>1 DEF validate_layout, ObjectValid
  <2>4. rows[s].sell_mode = e.objects[s[1]].sell_mode
    BY <1>3, RowFields
  <2> QED
    BY <2>2, <2>3, <2>4
<1>10. \A a, b \in DOMAIN rows : rows[a].seat_key = rows[b].seat_key => a = b
  BY <1>2, <1>3, KeysApart
<1>11. SeatsReachable(rows)
  <2> HIDE DEF rows
  <2> QED
    BY <1>8, <1>9, <1>10, SomeSelection DEF SeatsReachable
<1>12. RowsApart(rows)
  BY <1>4, <1>5, <1>6 DEF RowsApart
<1> QED
  BY <1>1, <1>7, <1>11, <1>12 DEF CanBeSold

\* What an accepted layout stands for, for every document the editor can send:
\* rows with different keys, places and indexes, prices as in the legend, each
\* seat within reach in some selection, and a form that is accepted again.
THEOREM AcceptedLayoutsAlwaysSell ==
    ASSUME document \in Document
    PROVE  AcceptedLayoutsSell
<1> SUFFICES ASSUME validate_layout(document) PROVE AcceptedLayoutsSell
  BY DEF AcceptedLayoutsSell
<1>1. PICK d \in Document : d = document /\ validate_layout(d)
  OBVIOUS
<1>2. PICK e \in Document : e = clean_layout(d)
  BY CleanedDocument
<1>3. validate_layout(e) /\ clean_layout(e) = e
  BY <1>1, <1>2, StoredIsValid, CleanedDocument
<1>4. layout_counts(e).seats = Cardinality(OnSale(d))
  BY <1>2, CleanedSeats DEF layout_counts, expand_seats
<1>5. CanBeSold(e)
  BY <1>1, <1>2, AcceptedCanBeSold
<1> QED
  BY <1>1, <1>2, <1>3, <1>4, <1>5 DEF AcceptedLayoutsSell, CanBeSold

(***************************************************************************)
(* Layouts and the maps made from them.                                    *)
(***************************************************************************)

\* Layouts, maps and requests are records, whatever documents look like.
IsLayout(lay) == lay = [data |-> lay.data, room |-> lay.room, version |-> lay.version]
IsMap(map) == map = [data |-> map.data, room |-> map.room, keys |-> map.keys]
RequestFits(request) ==
    /\ request.pc = "store" =>
           /\ request = [pc |-> "store", version |-> request.version, put |-> request.put]
           /\ IsLayout(request.put)
    /\ request.pc = "sync" =>
           request = [pc |-> "sync", put |-> request.put, todo |-> request.todo]
    /\ request.pc = "redraw" =>
           /\ request = [pc |-> "redraw", event |-> request.event, put |-> request.put,
                         todo |-> request.todo]
           /\ request.event \in Concert
LayoutTypes ==
    /\ IsLayout(layout)
    /\ seat_map = [e \in Concert |-> seat_map[e]]
    /\ \A e \in Concert : seat_map[e] # NoMap => IsMap(seat_map[e])
    /\ sold_seats = [e \in Concert |-> sold_seats[e]]
    /\ gone = [e \in Concert |-> gone[e]]
    /\ snatched = [e \in Concert |-> snatched[e]]
    /\ upcoming \subseteq Concert
    /\ tab = [w \in Editor |-> tab[w]]
    /\ \A w \in Editor : RequestFits(tab[w])
    /\ overlapped \in BOOLEAN /\ broken \in BOOLEAN

\* One redraws an event at a time; what it is about to delete and somebody holds
\* was snatched since it was planned, and so was all that is gone.
SeatsKept ==
    /\ \A v, w \in Editor : (/\ tab[v].pc = "redraw" /\ tab[w].pc = "redraw"
                            /\ tab[v].event = tab[w].event) => v = w
    /\ \A w \in Editor : tab[w].pc = "redraw" =>
           \A k \in sold_seats[tab[w].event] : k \in Keys(tab[w].put.data) \/ k \in snatched[tab[w].event]
    /\ \A e \in Concert : gone[e] \subseteq snatched[e]

\* As long as no request met another, one is at work at a time, on a document
\* its editor has seen, or carrying over or attaching what the layout is.
OneRequest ==
    ~overlapped =>
        /\ \A v, w \in Editor : (Busy(v) /\ Busy(w)) => v = w
        /\ \A w \in Editor :
               /\ tab[w].pc = "store" => tab[w].version = layout.version
               /\ tab[w].pc \in {"sync", "redraw", "attach"} => tab[w].put = layout

\* And as long as none died, events follow that it has carried over.
Follows(e) == seat_map[e].data = layout.data /\ seat_map[e].room = layout.room
CarriedOver ==
    Orderly => \A e \in upcoming_maps \ refused :
                   (\A w \in Editor : tab[w].pc \in {"sync", "redraw"} => e \notin tab[w].todo) =>
                       Follows(e)

LayoutInv == LayoutTypes /\ SeatsKept /\ OneRequest /\ CarriedOver

LEMMA LayoutsFollow == ASSUME LayoutInv PROVE MapsFollowLayout
<1>1. ASSUME Orderly, \A w \in Editor : ~Busy(w), NEW e \in upcoming_maps \ refused
      PROVE  Follows(e)
  <2>1. \A w \in Editor : tab[w].pc \notin {"sync", "redraw"}
    BY <1>1 DEF Busy
  <2> QED
    BY <1>1, <2>1 DEF LayoutInv, CarriedOver
<1> QED
  BY <1>1 DEF LayoutInv, SeatsKept, Orderly, Follows, MapsFollowLayout

\* No redraw begins or ends, and no seat is sold or freed.
LEMMA SeatsStay ==
    ASSUME SeatsKept, UNCHANGED seatVars,
           \A v \in Editor : tab'[v].pc = "redraw" => tab'[v] = tab[v]
    PROVE  SeatsKept'
<1>1. UNCHANGED <<sold_seats, gone, snatched>>
  BY DEF seatVars
<1> QED
  BY <1>1 DEF SeatsKept

LEMMA LayoutStart == LayoutInit => LayoutInv
<1> SUFFICES ASSUME LayoutInit PROVE LayoutInv
  OBVIOUS
<1> DEFINE room == CHOOSE h \in Halls : TRUE
           data == clean_layout(FirstDraft)
<1>1. /\ layout = [data |-> data, room |-> room, version |-> 1]
      /\ seat_map = [e \in Concert |-> IF e \in Attached THEN MapOf(layout) ELSE NoMap]
      /\ sold_seats = [e \in Concert |-> {}] /\ gone = sold_seats /\ snatched = sold_seats
      /\ upcoming = Concert
      /\ tab = [w \in Editor |-> Closed] /\ refused = {} /\ overlapped = FALSE /\ broken = FALSE
  BY DEF LayoutInit
<1> HIDE DEF room, data
<1>2. IsLayout(layout)
  BY <1>1 DEF IsLayout
<1>3. IsMap(MapOf(layout)) /\ MapOf(layout).data = layout.data /\ MapOf(layout).room = layout.room
  BY DEF MapOf, IsMap
<1>4. \A w \in Editor : tab[w].pc = "closed"
  BY <1>1 DEF Closed
<1>5. LayoutTypes
  BY <1>1, <1>2, <1>3, <1>4 DEF LayoutTypes, RequestFits
<1>6. SeatsKept
  BY <1>1, <1>4 DEF SeatsKept
<1>7. OneRequest
  BY <1>4 DEF OneRequest, Busy
<1>8. CarriedOver
  BY <1>1, <1>3 DEF CarriedOver, Follows, upcoming_maps
<1> QED
  BY <1>5, <1>6, <1>7, <1>8 DEF LayoutInv

\* A tab that is not at work changes, and stays out of work.
LEMMA TabStep ==
    ASSUME LayoutInv, NEW w \in Editor, NEW new, tab' = [tab EXCEPT ![w] = new],
           new.pc \in {"open", "asked", "closed"},
           tab[w].pc \notin {"sync", "redraw"} \/ tab[w].todo = {} \/ broken',
           broken' \in BOOLEAN, broken => broken',
           UNCHANGED <<layout, seat_map, seatVars, upcoming, refused, overlapped>>
    PROVE  LayoutInv'
<1>1. tab'[w] = new /\ \A v \in Editor : v # w => tab'[v] = tab[v]
  BY DEF LayoutInv, LayoutTypes
<1>2. RequestFits(new)
  BY DEF RequestFits
<1>3. LayoutTypes'
  BY <1>1, <1>2 DEF LayoutInv, LayoutTypes, seatVars
<1>4. SeatsKept'
  BY <1>1, SeatsStay DEF LayoutInv
<1>5. OneRequest'
  BY <1>1 DEF LayoutInv, OneRequest, Busy
<1>6. CarriedOver'
  <2> SUFFICES ASSUME Orderly', NEW e \in upcoming_maps \ refused,
                      \A v \in Editor : tab'[v].pc \in {"sync", "redraw"} => e \notin tab'[v].todo
               PROVE  Follows(e)
    BY DEF CarriedOver, upcoming_maps, Follows
  <2>1. Orderly
    BY DEF Orderly
  <2>2. tab[w].pc \in {"sync", "redraw"} => e \notin tab[w].todo
    BY DEF Orderly
  <2> QED
    BY <1>1, <2>1, <2>2 DEF LayoutInv, CarriedOver
<1> QED
  BY <1>3, <1>4, <1>5, <1>6 DEF LayoutInv

\* A tab gets to work; it remembers what it has loaded.
LEMMA WorkStep ==
    ASSUME LayoutInv, NEW w \in Editor, NEW job, Works(w, job), Quiet, ~Busy(w),
           RequestFits(job), job.pc \in {"store", "attach"},
           job.pc = "store" => job.version = layout.version,
           job.pc = "attach" => job.put = layout
    PROVE  LayoutInv'
<1>1. /\ tab' = [tab EXCEPT ![w] = job]
      /\ overlapped' = (overlapped \/ \E v \in Editor \ {w} : Busy(v))
      /\ UNCHANGED <<layout, seat_map, seatVars, upcoming, refused, broken>>
  BY DEF Works, Quiet
<1>2. tab'[w] = job /\ \A v \in Editor : v # w => tab'[v] = tab[v]
  BY <1>1 DEF LayoutInv, LayoutTypes
<1>3. LayoutTypes'
  BY <1>1, <1>2 DEF LayoutInv, LayoutTypes, seatVars
<1>4. SeatsKept'
  BY <1>1, <1>2, SeatsStay DEF LayoutInv
<1>5. OneRequest'
  <2>1. ~overlapped' => ~overlapped /\ \A v \in Editor : v # w => ~Busy(v)
    BY <1>1
  <2> QED
    BY <1>1, <1>2, <2>1 DEF LayoutInv, OneRequest, Busy
<1>6. CarriedOver'
  <2> SUFFICES ASSUME Orderly', NEW e \in upcoming_maps \ refused,
                      \A v \in Editor : tab'[v].pc \in {"sync", "redraw"} => e \notin tab'[v].todo
               PROVE  Follows(e)
    BY <1>1 DEF CarriedOver, upcoming_maps, Follows
  <2>1. Orderly
    BY <1>1 DEF Orderly
  <2>2. tab[w].pc \notin {"sync", "redraw"}
    BY DEF Busy
  <2> QED
    BY <1>2, <2>1, <2>2 DEF LayoutInv, CarriedOver
<1> QED
  BY <1>3, <1>4, <1>5, <1>6 DEF LayoutInv

\* Another row is stored, and all upcoming events are to follow it.
LEMMA StoreStep == ASSUME LayoutInv, NEW w \in Editor, save_layout(w) PROVE LayoutInv'
<1> DEFINE stored == [tab[w].put EXCEPT !.version = layout.version + 1]
           job == [pc |-> "sync", put |-> stored, todo |-> upcoming_maps]
<1>1. /\ tab[w].pc = "store" /\ layout' = stored /\ tab' = [tab EXCEPT ![w] = job]
      /\ UNCHANGED <<seat_map, seatVars, upcoming, refused, overlapped, broken>>
  BY DEF save_layout
<1>2. IsLayout(stored)
  <2> PICK put : put = tab[w].put
    OBVIOUS
  <2>1. put = [data |-> put.data, room |-> put.room, version |-> put.version]
    BY <1>1 DEF LayoutInv, LayoutTypes, RequestFits, IsLayout
  <2>2. stored = [data |-> put.data, room |-> put.room, version |-> layout.version + 1]
    BY <2>1
  <2> QED
    BY <2>2 DEF IsLayout
<1> HIDE DEF stored
<1>3. job.pc = "sync" /\ job.put = stored /\ job.todo = upcoming_maps /\ RequestFits(job)
  BY DEF RequestFits
<1> HIDE DEF job
<1>4. tab'[w] = job /\ \A v \in Editor : v # w => tab'[v] = tab[v]
  BY <1>1 DEF LayoutInv, LayoutTypes
<1>5. LayoutTypes'
  BY <1>1, <1>2, <1>3, <1>4 DEF LayoutInv, LayoutTypes, seatVars
<1>6. SeatsKept'
  BY <1>1, <1>3, <1>4, SeatsStay DEF LayoutInv
<1>7. OneRequest'
  <2>1. Busy(w) /\ \A v \in Editor : Busy(v)' => Busy(v)
    BY <1>1, <1>4 DEF Busy
  <2>2. ~overlapped => \A v \in Editor : v # w => ~Busy(v)
    BY <2>1 DEF LayoutInv, OneRequest
  <2> QED
    BY <1>1, <1>3, <1>4, <2>1, <2>2 DEF OneRequest, Busy
<1>8. CarriedOver'
  BY <1>1, <1>3, <1>4 DEF CarriedOver, upcoming_maps
<1> QED
  BY <1>5, <1>6, <1>7, <1>8 DEF LayoutInv

\* One event is planned, or refuses.
LEMMA PlanStep ==
    ASSUME LayoutInv, NEW w \in Editor, NEW e \in Concert, sync_event_map(w, e)
    PROVE  LayoutInv'
<1> PICK put, todo : tab[w] = [pc |-> "sync", put |-> put, todo |-> todo]
  BY DEF sync_event_map, LayoutInv, LayoutTypes, RequestFits
<1> DEFINE fits == _sync_plan(e, put.data).conflicts = {}
           redraw == [pc |-> "redraw", event |-> e, put |-> put, todo |-> todo]
           left == [pc |-> "sync", put |-> put, todo |-> todo \ {e}]
<1>1. /\ fits => /\ tab' = [tab EXCEPT ![w] = redraw] /\ UNCHANGED refused
                 /\ snatched' = [snatched EXCEPT ![e] = gone[e]]
      /\ ~fits => /\ tab' = [tab EXCEPT ![w] = left]
                  /\ refused' = refused \cup {e} /\ UNCHANGED snatched
      /\ ~Redrawing(e)
      /\ UNCHANGED <<layout, seat_map, sold_seats, gone, upcoming, overlapped, broken>>
  BY DEF sync_event_map
<1>2. fits => \A k \in sold_seats[e] : k \in Keys(put.data)
  BY DEF _sync_plan
<1>3. PICK job : job = IF fits THEN redraw ELSE left
  OBVIOUS
<1>4. /\ job.put = put /\ RequestFits(job)
      /\ fits => job.pc = "redraw" /\ job.event = e /\ job.todo = todo
      /\ ~fits => job.pc = "sync" /\ job.todo = todo \ {e}
  BY <1>3 DEF RequestFits
<1>5. tab'[w] = job /\ \A v \in Editor : v # w => tab'[v] = tab[v]
  BY <1>1, <1>3 DEF LayoutInv, LayoutTypes
<1>6. tab' = [v \in Editor |-> tab'[v]]
  BY <1>1 DEF LayoutInv, LayoutTypes
<1>7. /\ snatched' = [f \in Concert |-> snatched'[f]]
      /\ \A f \in Concert : snatched'[f] = IF fits /\ f = e THEN gone[f] ELSE snatched[f]
  BY <1>1 DEF LayoutInv, LayoutTypes
<1> HIDE DEF fits, redraw, left
<1>8. LayoutTypes'
  BY <1>1, <1>4, <1>5, <1>6, <1>7 DEF LayoutInv, LayoutTypes
<1>9. SeatsKept'
  <2>1. \A v \in Editor : (v # w /\ tab[v].pc = "redraw") => tab[v].event # e /\ tab[v].event \in Concert
    BY <1>1 DEF Redrawing, LayoutInv, LayoutTypes, RequestFits
  <2>2. \A f \in Concert : gone'[f] \subseteq snatched'[f]
    BY <1>1, <1>7 DEF LayoutInv, SeatsKept
  <2>3. \A u, v \in Editor : (/\ tab'[v].pc = "redraw" /\ tab'[u].pc = "redraw"
                              /\ tab'[v].event = tab'[u].event) => v = u
    BY <1>4, <1>5, <2>1 DEF LayoutInv, SeatsKept
  <2>4. ASSUME NEW v \in Editor, tab'[v].pc = "redraw", NEW k \in sold_seats'[tab'[v].event]
        PROVE  k \in Keys(tab'[v].put.data) \/ k \in snatched'[tab'[v].event]
    <3>1. CASE v = w
      BY <1>1, <1>2, <1>4, <1>5, <2>4, <3>1
    <3>2. CASE v # w
      BY <1>1, <1>5, <1>7, <2>1, <2>4, <3>2 DEF LayoutInv, SeatsKept
    <3> QED
      BY <3>1, <3>2
  <2> QED
    BY <2>2, <2>3, <2>4 DEF SeatsKept
<1>10. OneRequest'
  <2>1. job.pc \in {"sync", "redraw"} /\ job.put = tab[w].put /\ tab[w].pc = "sync"
    BY <1>4
  <2> QED
    BY <1>1, <1>5, <2>1 DEF LayoutInv, OneRequest, Busy
<1>11. CarriedOver'
  <2> SUFFICES ASSUME Orderly, NEW f \in upcoming, seat_map[f] # NoMap, f \notin refused',
                      \A v \in Editor : tab'[v].pc \in {"sync", "redraw"} => f \notin tab'[v].todo
               PROVE  Follows(f)
    BY <1>1 DEF CarriedOver, upcoming_maps, Follows, Orderly
  <2>1. f \in upcoming_maps \ refused
    BY <1>1 DEF upcoming_maps
  <2>2. f \notin todo
    BY <1>1, <1>4, <1>5
  <2>3. \A v \in Editor : tab[v].pc \in {"sync", "redraw"} => f \notin tab[v].todo
    BY <1>5, <2>2
  <2> QED
    BY <2>1, <2>3 DEF LayoutInv, CarriedOver
<1> QED
  BY <1>8, <1>9, <1>10, <1>11 DEF LayoutInv

\* Its map is drawn anew.
LEMMA ReplaceStep ==
    ASSUME LayoutInv, NEW w \in Editor, ReplaceSeats(w)
    PROVE  LayoutInv'
<1> PICK e, put, todo : tab[w] = [pc |-> "redraw", event |-> e, put |-> put, todo |-> todo]
  BY DEF ReplaceSeats, LayoutInv, LayoutTypes, RequestFits
<1> PICK map : map = MapOf(put)
  OBVIOUS
<1> PICK job : job = [pc |-> "sync", put |-> put, todo |-> todo \ {e}]
  OBVIOUS
<1>1. /\ tab' = [tab EXCEPT ![w] = job]
      /\ seat_map' = [seat_map EXCEPT ![e] = map] /\ refused' = refused \ {e}
      /\ gone' = [gone EXCEPT ![e] = gone[e] \cup (sold_seats[e] \ map.keys)]
      /\ sold_seats' = [sold_seats EXCEPT ![e] = sold_seats[e] \cap map.keys]
      /\ snatched' = [snatched EXCEPT ![e] = snatched[e] \cap gone'[e]]
      /\ UNCHANGED <<layout, upcoming, overlapped, broken>>
  BY DEF ReplaceSeats
<1>2. e \in Concert
  <2>1. RequestFits(tab[w]) /\ tab[w].pc = "redraw" /\ tab[w].event = e
    BY DEF LayoutInv, LayoutTypes
  <2> QED
    BY <2>1 DEF RequestFits
<1>3. job.pc = "sync" /\ job.put = put /\ job.todo = todo \ {e} /\ RequestFits(job)
  BY DEF RequestFits
<1>4. tab'[w] = job /\ \A v \in Editor : v # w => tab'[v] = tab[v]
  BY <1>1 DEF LayoutInv, LayoutTypes
<1>5. tab' = [v \in Editor |-> tab'[v]]
  BY <1>1 DEF LayoutInv, LayoutTypes
<1>6. IsMap(map) /\ map.keys = Keys(put.data) /\ map.data = put.data /\ map.room = put.room
  BY DEF MapOf, IsMap
<1>7. /\ seat_map' = [f \in Concert |-> seat_map'[f]]
      /\ \A f \in Concert : seat_map'[f] = IF f = e THEN map ELSE seat_map[f]
  BY <1>1, <1>2 DEF LayoutInv, LayoutTypes
<1>8. /\ sold_seats' = [f \in Concert |-> sold_seats'[f]]
      /\ \A f \in Concert : f # e => sold_seats'[f] = sold_seats[f]
      /\ gone' = [f \in Concert |-> gone'[f]]
      /\ \A f \in Concert : f # e => gone'[f] = gone[f]
      /\ gone'[e] = gone[e] \cup (sold_seats[e] \ map.keys)
  BY <1>1, <1>2 DEF LayoutInv, LayoutTypes
<1>9. /\ snatched' = [f \in Concert |-> snatched'[f]]
      /\ \A f \in Concert : f # e => snatched'[f] = snatched[f]
      /\ snatched'[e] = snatched[e] \cap gone'[e]
  BY <1>1, <1>2 DEF LayoutInv, LayoutTypes
<1>10. LayoutTypes'
  BY <1>1, <1>3, <1>4, <1>5, <1>6, <1>7, <1>8, <1>9 DEF LayoutInv, LayoutTypes
<1>11. SeatsKept'
  <2>1. \A v \in Editor : (v # w /\ tab[v].pc = "redraw") => tab[v].event # e
    BY DEF LayoutInv, SeatsKept
  <2>2. \A v \in Editor : tab'[v].pc = "redraw" =>
            v # w /\ tab'[v] = tab[v] /\ tab[v].event # e /\ tab[v].event \in Concert
    BY <1>3, <1>4, <2>1 DEF LayoutInv, LayoutTypes, RequestFits
  <2>3. \A k \in sold_seats[e] : k \in map.keys \/ k \in snatched[e]
    BY <1>6 DEF LayoutInv, SeatsKept
  <2>4. \A f \in Concert : gone'[f] \subseteq snatched'[f]
    BY <1>8, <1>9, <2>3 DEF LayoutInv, SeatsKept
  <2> QED
    BY <1>8, <1>9, <2>2, <2>4 DEF LayoutInv, SeatsKept
<1>12. OneRequest'
  BY <1>1, <1>3, <1>4 DEF LayoutInv, OneRequest, Busy
<1>13. CarriedOver'
  <2> SUFFICES ASSUME Orderly, NEW f \in upcoming, seat_map'[f] # NoMap, f \notin refused',
                      \A v \in Editor : tab'[v].pc \in {"sync", "redraw"} => f \notin tab'[v].todo
               PROVE  seat_map'[f].data = layout.data /\ seat_map'[f].room = layout.room
    BY <1>1 DEF CarriedOver, upcoming_maps, Follows, Orderly
  <2>1. put = layout
    BY DEF LayoutInv, OneRequest, Orderly
  <2>2. f \in Concert
    BY DEF LayoutInv, LayoutTypes
  <2>3. CASE f = e
    BY <1>6, <1>7, <2>1, <2>2, <2>3
  <2>4. CASE f # e
    <3>1. f \in upcoming_maps \ refused
      BY <1>1, <1>7, <2>2, <2>4 DEF upcoming_maps
    <3>2. \A v \in Editor : tab[v].pc \in {"sync", "redraw"} => f \notin tab[v].todo
      BY <1>3, <1>4, <2>4
    <3> QED
      BY <1>7, <2>2, <2>4, <3>1, <3>2 DEF LayoutInv, CarriedOver, Follows
  <2> QED
    BY <2>3, <2>4
<1> QED
  BY <1>10, <1>11, <1>12, <1>13 DEF LayoutInv

\* A layout is attached, as it was loaded.
LEMMA AttachStep ==
    ASSUME LayoutInv, NEW w \in Editor, attach_layout(w)
    PROVE  LayoutInv'
<1> PICK e : e = tab[w].event
  OBVIOUS
<1> PICK map : map = MapOf(tab[w].put)
  OBVIOUS
<1> DEFINE fits == sold_seats[e] \cup gone[e] = {}
<1>1. /\ tab[w].pc = "attach" /\ tab' = [tab EXCEPT ![w] = Closed]
      /\ fits => seat_map' = [seat_map EXCEPT ![e] = map] /\ refused' = refused \ {e}
      /\ ~fits => UNCHANGED <<seat_map, refused>>
      /\ UNCHANGED <<layout, seatVars, upcoming, overlapped, broken>>
  BY DEF attach_layout
<1>2. IsMap(map) /\ map.data = tab[w].put.data /\ map.room = tab[w].put.room
  BY DEF MapOf, IsMap
<1>3. /\ seat_map' = [f \in Concert |-> IF fits /\ f = e THEN map ELSE seat_map[f]]
      /\ \A f \in Concert : seat_map'[f] = IF fits /\ f = e THEN map ELSE seat_map[f]
  BY <1>1 DEF LayoutInv, LayoutTypes
<1>4. tab'[w] = Closed /\ Closed.pc = "closed" /\ \A v \in Editor : v # w => tab'[v] = tab[v]
  BY <1>1 DEF LayoutInv, LayoutTypes, Closed
<1>5. LayoutTypes'
  BY <1>1, <1>2, <1>3, <1>4 DEF LayoutInv, LayoutTypes, RequestFits, seatVars
<1>6. SeatsKept'
  BY <1>1, <1>4, SeatsStay DEF LayoutInv
<1>7. OneRequest'
  BY <1>1, <1>4 DEF LayoutInv, OneRequest, Busy
<1>8. CarriedOver'
  <2> SUFFICES ASSUME Orderly, NEW f \in upcoming, seat_map'[f] # NoMap, f \notin refused',
                      \A v \in Editor : tab'[v].pc \in {"sync", "redraw"} => f \notin tab'[v].todo
               PROVE  seat_map'[f].data = layout.data /\ seat_map'[f].room = layout.room
    BY <1>1 DEF CarriedOver, upcoming_maps, Follows, Orderly
  <2>1. tab[w].put = layout
    BY <1>1 DEF LayoutInv, OneRequest, Orderly
  <2>2. f \in Concert
    BY DEF LayoutInv, LayoutTypes
  <2>3. CASE fits /\ f = e
    BY <1>1, <1>2, <1>3, <2>1, <2>2, <2>3
  <2>4. CASE ~(fits /\ f = e)
    <3>1. f \in upcoming_maps \ refused
      BY <1>1, <1>3, <2>2, <2>4 DEF upcoming_maps
    <3>2. \A v \in Editor : tab[v].pc \in {"sync", "redraw"} => f \notin tab[v].todo
      BY <1>1, <1>4
    <3> QED
      BY <1>3, <2>2, <2>4, <3>1, <3>2 DEF LayoutInv, CarriedOver, Follows
  <2> QED
    BY <2>3, <2>4
<1> QED
  BY <1>5, <1>6, <1>7, <1>8 DEF LayoutInv

\* The hall is redrawn on all maps that are upcoming.
LEMMA RedrawnStep == ASSUME LayoutInv, HallRedrawn PROVE LayoutInv'
<1>1. /\ seat_map' = [e \in Concert |-> IF e \in upcoming_maps
                          THEN [seat_map[e] EXCEPT !.room = layout.room] ELSE seat_map[e]]
      /\ UNCHANGED <<layout, seatVars, upcoming, tab, refused, overlapped, broken>>
  BY DEF HallRedrawn
<1>2. ASSUME NEW e \in Concert, e \in upcoming_maps
      PROVE  /\ seat_map'[e].data = seat_map[e].data /\ seat_map'[e].room = layout.room
             /\ seat_map'[e].keys = seat_map[e].keys /\ IsMap(seat_map'[e])
  <2> PICK data, room, keys : seat_map[e] = [data |-> data, room |-> room, keys |-> keys]
    BY <1>2 DEF LayoutInv, LayoutTypes, IsMap, upcoming_maps
  <2> PICK hall : hall = layout.room
    OBVIOUS
  <2>1. seat_map'[e] = [data |-> data, room |-> hall, keys |-> keys]
    BY <1>1, <1>2
  <2> QED
    BY <2>1 DEF IsMap
<1>3. \A e \in Concert : e \notin upcoming_maps => seat_map'[e] = seat_map[e]
  BY <1>1
<1>4. LayoutTypes'
  <2>1. seat_map' = [e \in Concert |-> seat_map'[e]]
    BY <1>1
  <2> QED
    BY <1>1, <1>2, <1>3, <2>1 DEF LayoutInv, LayoutTypes, seatVars
<1>5. SeatsKept'
  BY <1>1, SeatsStay DEF LayoutInv
<1>6. OneRequest'
  BY <1>1 DEF LayoutInv, OneRequest, Busy
<1>7. CarriedOver'
  <2>1. \A e \in upcoming_maps' : e \in upcoming_maps
    BY <1>1, <1>3 DEF upcoming_maps, LayoutInv, LayoutTypes
  <2>2. \A e \in upcoming_maps : e \in Concert
    BY DEF upcoming_maps, LayoutInv, LayoutTypes
  <2> QED
    BY <1>1, <1>2, <2>1, <2>2 DEF LayoutInv, CarriedOver, Follows, Orderly
<1> QED
  BY <1>4, <1>5, <1>6, <1>7 DEF LayoutInv

\* Archived or taken back, while nobody is at work or else they have met.
LEMMA ArchivedStep == ASSUME LayoutInv, archive_view PROVE LayoutInv'
<1>1. /\ layout' = [layout EXCEPT !.version = @ + 1]
      /\ overlapped' = \E w \in Editor : Busy(w)
      /\ ~overlapped
      /\ UNCHANGED <<seat_map, seatVars, upcoming, tab, refused, broken>>
  BY DEF archive_view, MoreWork, Orderly
<1>2. IsLayout(layout') /\ layout'.data = layout.data /\ layout'.room = layout.room
  <2> PICK data, room, version : layout = [data |-> data, room |-> room, version |-> version]
    BY DEF LayoutInv, LayoutTypes, IsLayout
  <2> PICK next : next = layout.version + 1
    OBVIOUS
  <2>1. layout' = [data |-> data, room |-> room, version |-> next]
    BY <1>1
  <2> QED
    BY <2>1 DEF IsLayout
<1>3. LayoutTypes'
  BY <1>1, <1>2 DEF LayoutInv, LayoutTypes, seatVars
<1>4. SeatsKept'
  BY <1>1, SeatsStay DEF LayoutInv
<1>5. OneRequest'
  BY <1>1 DEF OneRequest, Busy
<1>6. CarriedOver'
  BY <1>1, <1>2 DEF LayoutInv, CarriedOver, Follows, Orderly, upcoming_maps
<1> QED
  BY <1>3, <1>4, <1>5, <1>6 DEF LayoutInv

\* Buyers and time touch neither layout nor maps; only what leaves the event's
\* row alone takes a seat under a redraw.
LEMMA OutsideStep ==
    ASSUME LayoutInv, NEW e \in Concert,
           \/ EventPasses(e)
           \/ \E k \in SeatsAtRisk : TakeSeat(e, k) \/ FreeSeat(e, k) \/ MoveSeat(e, k)
    PROVE  LayoutInv'
<1>1. UNCHANGED <<layout, seat_map, tab, refused, overlapped, broken>>
  BY DEF EventPasses, TakeSeat, FreeSeat, MoveSeat
<1>2. upcoming' \subseteq upcoming
  BY DEF EventPasses, TakeSeat, FreeSeat, MoveSeat
<1>3. /\ sold_seats' = [f \in Concert |-> sold_seats'[f]]
      /\ gone' = [f \in Concert |-> gone'[f]]
      /\ snatched' = [f \in Concert |-> snatched'[f]]
  BY DEF LayoutInv, LayoutTypes, EventPasses, TakeSeat, FreeSeat, MoveSeat, seatVars
<1>4. LayoutTypes'
  BY <1>1, <1>2, <1>3 DEF LayoutInv, LayoutTypes
<1> DEFINE SeatsOnly ==
             /\ \A f \in Concert : gone'[f] \subseteq gone[f] /\ snatched[f] \subseteq snatched'[f]
             /\ \A f \in Concert : \A k \in sold_seats'[f] :
                    k \in sold_seats[f] \/ ~Redrawing(f) \/ k \in snatched'[f]
<1>5. SeatsOnly
  <2>1. CASE EventPasses(e)
    BY <2>1 DEF EventPasses, seatVars
  <2>2. ASSUME NEW k \in SeatsAtRisk, TakeSeat(e, k) PROVE SeatsOnly
    <3>1. /\ \A f \in Concert : f # e => sold_seats'[f] = sold_seats[f]
          /\ ~Redrawing(e) /\ UNCHANGED <<gone, snatched>>
      BY <2>2 DEF LayoutInv, LayoutTypes, TakeSeat
    <3> QED
      BY <3>1
  <2>3. ASSUME NEW k \in SeatsAtRisk, FreeSeat(e, k) PROVE SeatsOnly
    <3>1. /\ \A f \in Concert : sold_seats'[f] \subseteq sold_seats[f] /\ gone'[f] \subseteq gone[f]
          /\ UNCHANGED snatched
      BY <2>3 DEF LayoutInv, LayoutTypes, FreeSeat
    <3> QED
      BY <3>1
  <2>4. ASSUME NEW k \in SeatsAtRisk, MoveSeat(e, k) PROVE SeatsOnly
    <3>1. UNCHANGED gone /\ \A f \in Concert : f # e => sold_seats'[f] = sold_seats[f] /\ snatched'[f] = snatched[f]
      BY <2>4 DEF LayoutInv, LayoutTypes, MoveSeat
    <3>2. /\ sold_seats'[e] \subseteq sold_seats[e] \cup {k} /\ snatched[e] \subseteq snatched'[e]
          /\ k \in sold_seats'[e] => k \in sold_seats[e] \/ ~Redrawing(e) \/ k \in snatched'[e]
      BY <2>4 DEF LayoutInv, LayoutTypes, MoveSeat
    <3> QED
      BY <3>1, <3>2
  <2> QED
    BY <2>1, <2>2, <2>3, <2>4
<1>6. SeatsKept'
  <2>1. \A w \in Editor : tab[w].pc = "redraw" => tab[w].event \in Concert /\ Redrawing(tab[w].event)
    BY DEF Redrawing, LayoutInv, LayoutTypes, RequestFits
  <2>2. ASSUME NEW w \in Editor, tab[w].pc = "redraw", NEW k \in sold_seats'[tab[w].event]
        PROVE  k \in Keys(tab[w].put.data) \/ k \in snatched'[tab[w].event]
    BY <1>5, <2>1, <2>2 DEF LayoutInv, SeatsKept
  <2>3. \A f \in Concert : gone'[f] \subseteq snatched'[f]
    BY <1>5 DEF LayoutInv, SeatsKept
  <2> QED
    BY <1>1, <2>2, <2>3 DEF LayoutInv, SeatsKept
<1>7. OneRequest'
  BY <1>1 DEF LayoutInv, OneRequest, Busy
<1>8. CarriedOver'
  BY <1>1, <1>2 DEF LayoutInv, CarriedOver, Follows, Orderly, upcoming_maps
<1> QED
  BY <1>4, <1>6, <1>7, <1>8 DEF LayoutInv

\* An editor's step, but for those with lemmas of their own.
LEMMA EditorStep ==
    ASSUME LayoutInv, NEW w \in Editor,
           \/ editor_view(w) \/ Confirm(w) \/ EndSave(w) \/ LoseRequest(w)
           \/ \E d \in Drafts : data_view(w, d)
           \/ \E hall \in Halls : layout_room_view(w, hall)
           \/ \E e \in Concert : event_map_view(w, e)
    PROVE  LayoutInv'
<1>0. broken \in BOOLEAN /\ IsLayout(layout)
  BY DEF LayoutInv, LayoutTypes
<1> DEFINE opened == [pc |-> "open", version |-> layout.version]
           done == [pc |-> "open", version |-> tab[w].put.version]
           answer == Answered(w)
<1>1. CASE editor_view(w)
  <2>1. tab' = [tab EXCEPT ![w] = opened] /\ opened.pc = "open" /\ Quiet
        /\ tab[w].pc \notin {"sync", "redraw"}
        /\ UNCHANGED overlapped
    BY <1>1 DEF editor_view, Busy
  <2> HIDE DEF opened
  <2> QED
    BY <1>0, <2>1, TabStep DEF Quiet
<1>2. CASE EndSave(w)
  <2>1. tab' = [tab EXCEPT ![w] = done] /\ done.pc = "open" /\ tab[w].todo = {} /\ Quiet
        /\ UNCHANGED overlapped
    BY <1>2 DEF EndSave
  <2> HIDE DEF done
  <2> QED
    BY <1>0, <2>1, TabStep DEF Quiet
<1>3. CASE LoseRequest(w)
  <2>1. tab' = [tab EXCEPT ![w] = Closed] /\ Closed.pc = "closed" /\ broken'
        /\ broken' \in BOOLEAN
        /\ UNCHANGED <<layout, seat_map, seatVars, upcoming, refused, overlapped>>
    BY <1>3 DEF LoseRequest, Closed
  <2> QED
    BY <2>1, TabStep
<1>4. CASE Confirm(w)
  <2>1. /\ tab[w].pc = "asked" /\ tab[w].version = layout.version /\ Quiet
        /\ Works(w, answer) /\ ~Busy(w)
    BY <1>4 DEF Confirm, Busy
  <2>2. answer.pc = "store" /\ answer.version = layout.version /\ RequestFits(answer)
    <3> PICK data, room, version : layout = [data |-> data, room |-> room, version |-> version]
      BY <1>0 DEF IsLayout
    <3> PICK new : new = clean_layout(tab[w].draft)
      OBVIOUS
    <3> PICK seen : seen = tab[w].version
      OBVIOUS
    <3> PICK put : put = [data |-> new, room |-> room, version |-> version]
      OBVIOUS
    <3>1. answer = [pc |-> "store", version |-> seen, put |-> put]
      BY DEF Answered
    <3>2. IsLayout(put)
      BY DEF IsLayout
    <3> HIDE DEF answer
    <3> QED
      BY <2>1, <3>1, <3>2 DEF RequestFits
  <2> HIDE DEF answer
  <2> QED
    BY <2>1, <2>2, WorkStep
<1>5. ASSUME NEW d \in Drafts, data_view(w, d) PROVE LayoutInv'
  <2> DEFINE asked == [pc |-> "asked", version |-> tab[w].version, draft |-> d]
             job == [pc |-> "store", version |-> tab[w].version,
                     put |-> [layout EXCEPT !.data = clean_layout(d)]]
  <2>1. /\ tab[w].pc = "open" /\ tab[w].version = layout.version /\ Quiet /\ ~Busy(w)
        /\ \/ tab' = [tab EXCEPT ![w] = asked] /\ UNCHANGED overlapped
           \/ Works(w, job)
    <3>1. \/ tab' = [tab EXCEPT ![w] = [pc |-> "asked", version |-> @.version, draft |-> d]]
             /\ UNCHANGED overlapped
          \/ Works(w, job)
      BY <1>5 DEF data_view
    <3> QED
      BY <1>5, <3>1 DEF data_view, Busy
  <2>2. asked.pc = "asked"
    OBVIOUS
  <2>3. job.pc = "store" /\ job.version = layout.version /\ RequestFits(job)
    <3> PICK data, room, version : layout = [data |-> data, room |-> room, version |-> version]
      BY <1>0 DEF IsLayout
    <3> PICK new : new = clean_layout(d)
      OBVIOUS
    <3> PICK seen : seen = tab[w].version
      OBVIOUS
    <3> PICK put : put = [data |-> new, room |-> room, version |-> version]
      OBVIOUS
    <3>1. job = [pc |-> "store", version |-> seen, put |-> put]
      OBVIOUS
    <3>2. IsLayout(put)
      BY DEF IsLayout
    <3> HIDE DEF job
    <3> QED
      BY <2>1, <3>1, <3>2 DEF RequestFits
  <2> HIDE DEF asked, job
  <2>4. CASE Works(w, job)
    BY <2>1, <2>3, <2>4, WorkStep
  <2>5. CASE tab' = [tab EXCEPT ![w] = asked] /\ UNCHANGED overlapped
    <3>1. tab[w].pc \notin {"sync", "redraw"}
      BY <2>1
    <3> QED
      BY <1>0, <2>1, <2>2, <2>5, <3>1, TabStep DEF Quiet
  <2> QED
    BY <2>1, <2>4, <2>5
<1>6. ASSUME NEW hall \in Halls, layout_room_view(w, hall) PROVE LayoutInv'
  <2> DEFINE job == [pc |-> "store", version |-> layout.version,
                     put |-> [layout EXCEPT !.room = hall]]
  <2>1. Works(w, job) /\ Quiet /\ ~Busy(w)
    BY <1>6 DEF layout_room_view, Busy
  <2>2. job.pc = "store" /\ job.version = layout.version /\ RequestFits(job)
    <3> PICK data, room, version : layout = [data |-> data, room |-> room, version |-> version]
      BY <1>0 DEF IsLayout
    <3> PICK put : put = [data |-> data, room |-> hall, version |-> version]
      OBVIOUS
    <3>1. job = [pc |-> "store", version |-> version, put |-> put]
      OBVIOUS
    <3>2. IsLayout(put)
      BY DEF IsLayout
    <3>3. layout.version = version
      OBVIOUS
    <3> HIDE DEF job
    <3> QED
      BY <3>1, <3>2, <3>3 DEF RequestFits
  <2> HIDE DEF job
  <2> QED
    BY <2>1, <2>2, WorkStep
<1>7. ASSUME NEW e \in Concert, event_map_view(w, e) PROVE LayoutInv'
  <2> DEFINE job == [pc |-> "attach", event |-> e, put |-> layout]
  <2>1. Works(w, job) /\ Quiet /\ ~Busy(w)
    BY <1>7 DEF event_map_view
  <2>2. job.pc = "attach" /\ job.put = layout /\ RequestFits(job)
    BY DEF RequestFits
  <2> HIDE DEF job
  <2> QED
    BY <2>1, <2>2, WorkStep
<1> QED
  BY <1>1, <1>2, <1>3, <1>4, <1>5, <1>6, <1>7

\* Every step, and the one that changes nothing.
LEMMA LayoutStep == ASSUME LayoutInv, [LayoutNext]_layoutVars PROVE LayoutInv'
<1>1. ASSUME NEW w \in Editor,
             \/ editor_view(w) \/ Confirm(w) \/ EndSave(w) \/ LoseRequest(w)
             \/ \E d \in Drafts : data_view(w, d)
             \/ \E hall \in Halls : layout_room_view(w, hall)
             \/ \E e \in Concert : event_map_view(w, e)
      PROVE  LayoutInv'
  BY <1>1, EditorStep
<1>2. ASSUME NEW w \in Editor, save_layout(w) PROVE LayoutInv'
  BY <1>2, StoreStep
<1>3. ASSUME NEW w \in Editor, attach_layout(w) PROVE LayoutInv'
  BY <1>3, AttachStep
<1>4. ASSUME NEW w \in Editor, NEW e \in Concert, sync_event_map(w, e) PROVE LayoutInv'
  BY <1>4, PlanStep
<1>9. ASSUME NEW w \in Editor, ReplaceSeats(w) PROVE LayoutInv'
  BY <1>9, ReplaceStep
<1>5. CASE archive_view
  BY <1>5, ArchivedStep
<1>6. CASE HallRedrawn
  BY <1>6, RedrawnStep
<1>7. ASSUME NEW e \in Concert,
             \/ EventPasses(e)
             \/ \E k \in SeatsAtRisk : TakeSeat(e, k) \/ FreeSeat(e, k) \/ MoveSeat(e, k)
      PROVE  LayoutInv'
  BY <1>7, OutsideStep
<1>8. CASE UNCHANGED layoutVars
  BY <1>8 DEF layoutVars, seatVars, LayoutInv, LayoutTypes, SeatsKept, OneRequest, CarriedOver, Follows,
              Orderly, Busy, upcoming_maps
<1> QED
  BY <1>1, <1>2, <1>3, <1>4, <1>5, <1>6, <1>7, <1>8, <1>9 DEF LayoutNext

\* What a layout shows is what its upcoming events sell, and no seat that was
\* held or sold when a redraw was planned goes with it, only one that a swap or a
\* move takes under it: for any number of editors, events, rooms and documents.
THEOREM MapsAlwaysFollow == LayoutSpec => []MapsFollowLayout
<1> QED
  BY LayoutStart, LayoutStep, LayoutsFollow, PTL DEF LayoutSpec

\* No save replaces a document that its editor has not seen.
THEOREM SavesAlwaysSeen == LayoutSpec => SavesSeen
<1>1. ASSUME LayoutInv, [LayoutNext]_layoutVars, NEW w \in Editor,
             tab[w].pc = "store", ~overlapped
      PROVE  tab[w].version = layout.version
  BY <1>1 DEF LayoutInv, OneRequest
<1>2. ASSUME LayoutInv, [LayoutNext]_layoutVars
      PROVE  [\A w \in Editor : (tab[w].pc = "store" /\ layout' # layout /\ tab'[w] # tab[w]) =>
                  overlapped \/ tab[w].version = layout.version]_layoutVars
  BY <1>1, <1>2
<1> QED
  BY <1>2, LayoutStart, LayoutStep, PTL DEF LayoutSpec, SavesSeen

\* What is stored, and what an event sells by, is a draft that was accepted,
\* drawn in one of the halls, and whoever is about to store finds a version left.
ValidDrafts == {d \in Drafts : validate_layout(d)}
FromDraft(data) == \E d \in ValidDrafts : data = clean_layout(d)
Shown(lay) == FromDraft(lay.data) /\ lay.room \in Halls
MapKnown(map) == FromDraft(map.data) /\ map.room \in Halls /\ map.keys = Keys(map.data)
RequestKnown(request) ==
    /\ request.pc = "asked" => request.draft \in ValidDrafts
    /\ request.pc \in {"store", "sync", "redraw", "attach"} => Shown(request.put)
Storing == {w \in Editor : tab[w].pc = "store"}

LayoutKnown ==
    /\ Shown(layout)
    /\ \A w \in Editor : RequestKnown(tab[w])
    /\ \A e \in Concert : seat_map[e] # NoMap => MapKnown(seat_map[e])
    /\ refused \subseteq Concert
VersionsLeft ==
    /\ layout.version \in Nat \ {0}
    /\ layout.version + Cardinality(Storing) <= MaxVersions
LayoutCounts == LayoutKnown /\ VersionsLeft

LEMMA LayoutCountsStart == LayoutInit => LayoutCounts
<1> SUFFICES ASSUME LayoutInit PROVE LayoutCounts
  OBVIOUS
<1> DEFINE room == CHOOSE h \in Halls : TRUE
           data == clean_layout(FirstDraft)
<1>1. FromDraft(data) /\ room \in Halls
  BY LayoutsAssumption DEF FromDraft, ValidDrafts
<1>2. /\ layout = [data |-> data, room |-> room, version |-> 1]
      /\ seat_map = [e \in Concert |-> IF e \in Attached THEN MapOf(layout) ELSE NoMap]
      /\ tab = [w \in Editor |-> Closed] /\ refused = {}
  BY DEF LayoutInit
<1> HIDE DEF room, data
<1>3. Shown(layout) /\ layout.version = 1 /\ MapKnown(MapOf(layout))
  BY <1>1, <1>2 DEF Shown, MapKnown, MapOf
<1>4. \A w \in Editor : tab[w].pc = "closed"
  BY <1>2 DEF Closed
<1>5. LayoutKnown
  BY <1>2, <1>3, <1>4 DEF LayoutKnown, RequestKnown
<1>6. Cardinality(Storing) = 0
  <2>1. Storing = {}
    BY <1>4 DEF Storing
  <2> QED
    BY <2>1, FS_EmptySet
<1> QED
  BY <1>3, <1>5, <1>6, LayoutsAssumption DEF LayoutCounts, VersionsLeft

\* How many are about to store, as one tab changes.
LEMMA StoringChanges ==
    ASSUME LayoutInv, NEW w \in Editor, NEW new, tab' = [tab EXCEPT ![w] = new]
    PROVE  /\ Cardinality(Storing) \in Nat /\ Cardinality(Storing)' \in Nat
           /\ new.pc # "store" => Cardinality(Storing)' <= Cardinality(Storing)
           /\ (new.pc # "store" /\ tab[w].pc = "store") =>
                  Cardinality(Storing)' = Cardinality(Storing) - 1
           /\ Cardinality(Storing)' <= Cardinality(Storing) + 1
<1>1. PICK before, after : before = Storing /\ after = Storing'
  OBVIOUS
<1>2. \A v \in Editor : tab'[v] = IF v = w THEN new ELSE tab[v]
  BY DEF LayoutInv, LayoutTypes
<1>3. IsFiniteSet(before) /\ IsFiniteSet(after)
  BY <1>1, LayoutsAssumption, FS_Subset DEF Storing
<1>4. Cardinality(before) \in Nat /\ Cardinality(after) \in Nat
  BY <1>3, FS_CardinalityType
<1>5. new.pc # "store" => after = before \ {w}
  BY <1>1, <1>2 DEF Storing
<1>6. new.pc = "store" => after = before \cup {w}
  BY <1>1, <1>2 DEF Storing
<1>7. tab[w].pc = "store" <=> w \in before
  BY <1>1 DEF Storing
<1>8. Cardinality(before \ {w}) = IF w \in before THEN Cardinality(before) - 1 ELSE Cardinality(before)
  BY <1>3, FS_RemoveElement
<1>9. Cardinality(before \cup {w}) = IF w \in before THEN Cardinality(before) ELSE Cardinality(before) + 1
  BY <1>3, FS_AddElement
<1>10. /\ Cardinality(before) = Cardinality(Storing)
       /\ Cardinality(after) = Cardinality(Storing)'
  BY <1>1
<1>11. /\ new.pc # "store" => Cardinality(after) <= Cardinality(before)
       /\ (new.pc # "store" /\ tab[w].pc = "store") => Cardinality(after) = Cardinality(before) - 1
       /\ Cardinality(after) <= Cardinality(before) + 1
  <2>1. PICK n, m : n = Cardinality(before) /\ m = Cardinality(after)
    OBVIOUS
  <2>2. CASE new.pc = "store"
    <3>1. m = IF w \in before THEN n ELSE n + 1
      BY <1>6, <1>9, <2>1, <2>2
    <3>2. n \in Nat /\ m \in Nat
      BY <1>4, <2>1
    <3>3. m <= n + 1
      BY <3>1, <3>2
    <3> QED
      BY <2>1, <2>2, <3>3
  <2>3. CASE new.pc # "store"
    <3>1. m = IF w \in before THEN n - 1 ELSE n
      BY <1>5, <1>8, <2>1, <2>3
    <3>2. n \in Nat /\ m \in Nat
      BY <1>4, <2>1
    <3>3. m <= n /\ m <= n + 1 /\ (w \in before => m = n - 1)
      BY <3>1, <3>2
    <3> QED
      BY <1>7, <2>1, <3>3
  <2> QED
    BY <2>2, <2>3
<1> QED
  BY <1>4, <1>10, <1>11

\* A tab changes, and gets to store only where a version is left.
LEMMA CountsTab ==
    ASSUME LayoutInv, LayoutCounts, NEW w \in Editor, NEW new, tab' = [tab EXCEPT ![w] = new],
           RequestKnown(new), new.pc = "store" => MoreSaves, UNCHANGED layout
    PROVE  /\ Shown(layout)' /\ VersionsLeft'
           /\ \A v \in Editor : RequestKnown(tab'[v])
<1>1. \A v \in Editor : tab'[v] = IF v = w THEN new ELSE tab[v]
  BY DEF LayoutInv, LayoutTypes
<1>2. \A v \in Editor : RequestKnown(tab'[v])
  BY <1>1 DEF LayoutCounts, LayoutKnown
<1>3. Shown(layout)'
  BY DEF LayoutCounts, LayoutKnown, Shown
<1>4. PICK before, after : before = Cardinality(Storing) /\ after = Cardinality(Storing)'
  OBVIOUS
<1>5. before \in Nat /\ after \in Nat /\ (new.pc # "store" => after <= before) /\ after <= before + 1
  BY <1>4, StoringChanges
<1>6. MoreSaves => layout.version + before < MaxVersions
  BY <1>4 DEF MoreSaves, Storing
<1>7. layout.version \in Nat \ {0} /\ layout.version + before <= MaxVersions /\ layout'.version = layout.version
  BY <1>4 DEF LayoutCounts, VersionsLeft
<1>8. layout.version + after <= MaxVersions
  BY <1>5, <1>6, <1>7, LayoutsAssumption
<1> QED
  BY <1>2, <1>3, <1>4, <1>7, <1>8 DEF VersionsLeft

\* Everything but the tabs stays.
LEMMA CountsQuiet ==
    ASSUME LayoutInv, LayoutCounts, NEW w \in Editor, NEW new, tab' = [tab EXCEPT ![w] = new],
           RequestKnown(new), new.pc = "store" => MoreSaves,
           UNCHANGED <<layout, seat_map, refused>>
    PROVE  LayoutCounts'
<1>1. /\ Shown(layout)' /\ VersionsLeft' /\ \A v \in Editor : RequestKnown(tab'[v])
  BY CountsTab
<1> QED
  BY <1>1 DEF LayoutCounts, LayoutKnown

LEMMA CountsOutside ==
    ASSUME LayoutCounts, UNCHANGED <<layout, tab, refused>>,
           \A e \in Concert : seat_map'[e] # NoMap => MapKnown(seat_map'[e])
    PROVE  LayoutCounts'
  BY DEF LayoutCounts, LayoutKnown, VersionsLeft, Shown, Storing

LEMMA LayoutChanged ==
    ASSUME IsLayout(layout), NEW new
    PROVE  /\ [layout EXCEPT !.data = new].data = new
           /\ [layout EXCEPT !.data = new].room = layout.room
           /\ [layout EXCEPT !.room = new].room = new
           /\ [layout EXCEPT !.room = new].data = layout.data
           /\ [layout EXCEPT !.version = new].version = new
           /\ [layout EXCEPT !.version = new].data = layout.data
           /\ [layout EXCEPT !.version = new].room = layout.room
<1>1. PICK data, room, version : layout = [data |-> data, room |-> room, version |-> version]
  BY DEF IsLayout
<1> QED
  BY <1>1

\* A request takes up its work.
LEMMA CountsWork ==
    ASSUME LayoutInv, LayoutCounts, NEW w \in Editor, NEW job, Works(w, job), Quiet,
           Shown(job.put), job.pc = "store" => MoreSaves, job.pc # "asked"
    PROVE  LayoutCounts'
<1>1. tab' = [tab EXCEPT ![w] = job] /\ UNCHANGED <<layout, seat_map, refused>>
  BY DEF Works, Quiet
<1>2. RequestKnown(job)
  BY DEF RequestKnown
<1> QED
  BY <1>1, <1>2, CountsQuiet

\* The editor's steps that leave layout and maps alone.
LEMMA CountsEditor ==
    ASSUME LayoutInv, LayoutCounts, NEW w \in Editor,
           \/ editor_view(w) \/ Confirm(w) \/ EndSave(w) \/ LoseRequest(w)
           \/ \E d \in Drafts : data_view(w, d)
           \/ \E hall \in Halls : layout_room_view(w, hall)
           \/ \E e \in Concert : event_map_view(w, e)
    PROVE  LayoutCounts'
<1>0. IsLayout(layout) /\ Shown(layout)
  BY DEF LayoutInv, LayoutTypes, LayoutCounts, LayoutKnown
<1>2. CASE editor_view(w)
  <2>1. PICK new : new = [pc |-> "open", version |-> layout.version]
    OBVIOUS
  <2>2. tab' = [tab EXCEPT ![w] = new] /\ new.pc = "open" /\ UNCHANGED <<layout, seat_map, refused>>
    BY <1>2, <2>1 DEF editor_view, Quiet
  <2>3. RequestKnown(new) /\ new.pc # "store"
    BY <2>1 DEF RequestKnown, Closed
  <2> QED
    BY <2>2, <2>3, CountsQuiet
<1>3. CASE EndSave(w)
  <2>1. PICK new : new = [pc |-> "open", version |-> tab[w].put.version]
    OBVIOUS
  <2>2. tab' = [tab EXCEPT ![w] = new] /\ new.pc = "open" /\ UNCHANGED <<layout, seat_map, refused>>
    BY <1>3, <2>1 DEF EndSave, Quiet
  <2>3. RequestKnown(new) /\ new.pc # "store"
    BY <2>1 DEF RequestKnown, Closed
  <2> QED
    BY <2>2, <2>3, CountsQuiet
<1>4. CASE LoseRequest(w)
  <2>1. tab' = [tab EXCEPT ![w] = Closed] /\ Closed.pc = "closed"
        /\ UNCHANGED <<layout, seat_map, refused>>
    BY <1>4 DEF LoseRequest, Closed
  <2>3. RequestKnown(Closed) /\ Closed.pc # "store"
    BY <2>1 DEF RequestKnown, Closed
  <2> QED
    BY <2>1, <2>3, CountsQuiet
<1>5. CASE Confirm(w)
  <2>1. PICK job : job = Answered(w)
    OBVIOUS
  <2>2. tab[w].draft \in ValidDrafts
    BY <1>5 DEF Confirm, LayoutCounts, LayoutKnown, RequestKnown
  <2>3. PICK new : new = clean_layout(tab[w].draft)
    OBVIOUS
  <2>4. FromDraft(new)
    BY <2>2, <2>3 DEF FromDraft
  <2>5. PICK put : put = [layout EXCEPT !.data = new]
    OBVIOUS
  <2>6. job.put = put /\ job.pc = "store"
    BY <2>1, <2>3, <2>5 DEF Answered
  <2>7. Shown(job.put)
    BY <1>0, <2>4, <2>5, <2>6, LayoutChanged DEF Shown
  <2> QED
    BY <1>5, <2>1, <2>6, <2>7, CountsWork DEF Confirm
<1>6. ASSUME NEW d \in Drafts, data_view(w, d) PROVE LayoutCounts'
  <2>1. PICK asked : asked = [pc |-> "asked", version |-> tab[w].version, draft |-> d]
    OBVIOUS
  <2>2. PICK new : new = clean_layout(d)
    OBVIOUS
  <2>3. PICK put : put = [layout EXCEPT !.data = new]
    OBVIOUS
  <2>4. PICK job : job = [pc |-> "store", version |-> tab[w].version, put |-> put]
    OBVIOUS
  <2>5. \/ tab' = [tab EXCEPT ![w] = [pc |-> "asked", version |-> tab[w].version, draft |-> d]]
        \/ Works(w, job)
    BY <1>6, <2>2, <2>3, <2>4 DEF data_view
  <2>6. CASE Works(w, job)
    <3>1. FromDraft(new) /\ job.put = put /\ job.pc = "store"
      BY <1>6, <2>2, <2>4 DEF data_view, FromDraft, ValidDrafts
    <3>2. Shown(job.put)
      BY <1>0, <2>3, <3>1, LayoutChanged DEF Shown
    <3> QED
      BY <1>6, <2>6, <3>1, <3>2, CountsWork DEF data_view
  <2>7. CASE tab' = [tab EXCEPT ![w] = asked]
    <3>1. RequestKnown(asked) /\ asked.pc = "asked"
      BY <1>6, <2>1 DEF data_view, ValidDrafts, RequestKnown
    <3> QED
      BY <1>6, <2>7, <3>1, CountsQuiet DEF data_view, Quiet
  <2> QED
    BY <2>1, <2>5, <2>6, <2>7
<1>7. ASSUME NEW hall \in Halls, layout_room_view(w, hall) PROVE LayoutCounts'
  <2>1. PICK put : put = [layout EXCEPT !.room = hall]
    OBVIOUS
  <2>2. PICK job : job = [pc |-> "store", version |-> layout.version, put |-> put]
    OBVIOUS
  <2>3. Shown(job.put) /\ job.pc = "store"
    BY <1>0, <2>1, <2>2, LayoutChanged DEF Shown
  <2> QED
    BY <1>7, <2>1, <2>2, <2>3, CountsWork DEF layout_room_view
<1>8. ASSUME NEW e \in Concert, event_map_view(w, e) PROVE LayoutCounts'
  <2>1. PICK job : job = [pc |-> "attach", event |-> e, put |-> layout]
    OBVIOUS
  <2>2. Shown(job.put) /\ job.pc = "attach"
    BY <1>0, <2>1
  <2> QED
    BY <1>8, <2>1, <2>2, CountsWork DEF event_map_view
<1> QED
  BY <1>2, <1>3, <1>4, <1>5, <1>6, <1>7, <1>8

LEMMA CountsStored == ASSUME LayoutInv, LayoutCounts, NEW w \in Editor, save_layout(w) PROVE LayoutCounts'
<1>1. PICK put : put = tab[w].put
  OBVIOUS
<1>2. IsLayout(put) /\ Shown(put) /\ tab[w].pc = "store"
  BY <1>1 DEF save_layout, LayoutInv, LayoutTypes, RequestFits, LayoutCounts, LayoutKnown, RequestKnown
<1>3. PICK stored : stored = [put EXCEPT !.version = layout.version + 1]
  OBVIOUS
<1>4. stored.version = layout.version + 1 /\ Shown(stored)
  <2>1. PICK data, room, version : put = [data |-> data, room |-> room, version |-> version]
    BY <1>2 DEF IsLayout
  <2> QED
    BY <1>2, <1>3, <2>1 DEF Shown
<1>5. PICK job : job = [pc |-> "sync", put |-> stored, todo |-> upcoming_maps]
  OBVIOUS
<1>6. /\ layout' = stored /\ tab' = [tab EXCEPT ![w] = job]
      /\ job.pc = "sync" /\ job.put = stored /\ UNCHANGED <<seat_map, refused>>
  BY <1>1, <1>3, <1>5 DEF save_layout
<1>7. \A v \in Editor : tab'[v] = IF v = w THEN job ELSE tab[v]
  BY <1>6 DEF LayoutInv, LayoutTypes
<1>8. LayoutKnown'
  <2>1. RequestKnown(job)
    BY <1>4, <1>6 DEF RequestKnown
  <2>2. \A v \in Editor : RequestKnown(tab'[v])
    BY <1>7, <2>1 DEF LayoutCounts, LayoutKnown
  <2> QED
    BY <1>4, <1>6, <2>2 DEF LayoutCounts, LayoutKnown
<1>9. VersionsLeft'
  <2>1. PICK before, after : before = Cardinality(Storing) /\ after = Cardinality(Storing)'
    OBVIOUS
  <2>2. before \in Nat /\ after \in Nat /\ after = before - 1
    BY <1>2, <1>6, <2>1, StoringChanges
  <2>3. layout.version \in Nat \ {0} /\ layout.version + before <= MaxVersions
    BY <2>1 DEF LayoutCounts, VersionsLeft
  <2>4. layout.version + 1 \in Nat \ {0} /\ (layout.version + 1) + after <= MaxVersions
    BY <2>2, <2>3, LayoutsAssumption
  <2>5. layout'.version = layout.version + 1
    BY <1>4, <1>6
  <2> QED
    BY <2>1, <2>4, <2>5 DEF VersionsLeft
<1> QED
  BY <1>8, <1>9 DEF LayoutCounts

\* A map made anew is drawn in a hall.
LEMMA CountsMapped ==
    ASSUME LayoutInv, LayoutCounts, NEW w \in Editor,
           attach_layout(w) \/ ReplaceSeats(w) \/ \E e \in Concert : sync_event_map(w, e)
    PROVE  LayoutCounts'
<1>1. PICK put : put = tab[w].put
  OBVIOUS
<1>2. Shown(put)
  BY <1>1 DEF attach_layout, ReplaceSeats, sync_event_map, LayoutCounts, LayoutKnown, RequestKnown
<1>3. PICK map : map = MapOf(put)
  OBVIOUS
<1>4. MapKnown(map)
  BY <1>2, <1>3 DEF MapOf, Shown, MapKnown
<1>5. PICK e : seat_map' = seat_map \/ seat_map' = [seat_map EXCEPT ![e] = map]
  BY <1>1, <1>3 DEF attach_layout, ReplaceSeats, sync_event_map
<1>6. \A f \in Concert : seat_map'[f] = seat_map[f] \/ seat_map'[f] = map
  BY <1>5 DEF LayoutInv, LayoutTypes
<1>7. \A f \in Concert : seat_map'[f] # NoMap => MapKnown(seat_map'[f])
  BY <1>4, <1>6 DEF LayoutCounts, LayoutKnown
<1>8. refused' \subseteq Concert /\ layout' = layout
  BY DEF attach_layout, ReplaceSeats, sync_event_map, LayoutCounts, LayoutKnown
<1>9. PICK new : tab' = [tab EXCEPT ![w] = new] /\ RequestKnown(new) /\ new.pc # "store"
  <2>1. CASE attach_layout(w)
    <3>1. PICK job : job = Closed
      OBVIOUS
    <3>2. job.pc = "closed" /\ tab' = [tab EXCEPT ![w] = job]
      BY <2>1, <3>1 DEF attach_layout, Closed
    <3>3. RequestKnown(job)
      BY <3>2 DEF RequestKnown
    <3> QED
      BY <3>2, <3>3
  <2>2. CASE ReplaceSeats(w)
    <3>1. PICK todo : todo = tab[w].todo \ {tab[w].event}
      OBVIOUS
    <3>2. PICK job : job = [pc |-> "sync", put |-> put, todo |-> todo]
      OBVIOUS
    <3>3. tab' = [tab EXCEPT ![w] = job]
      BY <1>1, <2>2, <3>1, <3>2 DEF ReplaceSeats
    <3>4. job.pc = "sync" /\ job.put = put
      BY <3>2
    <3>5. RequestKnown(job)
      BY <1>2, <3>4 DEF RequestKnown
    <3> QED
      BY <3>3, <3>4, <3>5
  <2>3. ASSUME NEW f \in Concert, sync_event_map(w, f)
        PROVE  \E job : tab' = [tab EXCEPT ![w] = job] /\ RequestKnown(job) /\ job.pc # "store"
    <3>1. PICK todo : tab[w] = [pc |-> "sync", put |-> put, todo |-> todo]
      BY <1>1, <2>3 DEF sync_event_map, LayoutInv, LayoutTypes, RequestFits
    <3>2. PICK plan, left : /\ plan = [pc |-> "redraw", event |-> f, put |-> put, todo |-> todo]
                            /\ left = [pc |-> "sync", put |-> put, todo |-> todo \ {f}]
      OBVIOUS
    <3>3. tab' = [tab EXCEPT ![w] = plan] \/ tab' = [tab EXCEPT ![w] = left]
      BY <2>3, <3>1, <3>2 DEF sync_event_map
    <3>4. PICK job : job \in {plan, left} /\ tab' = [tab EXCEPT ![w] = job]
      BY <3>3
    <3>5. job.pc \in {"redraw", "sync"} /\ job.put = put
      BY <3>4, <3>2
    <3>6. RequestKnown(job) /\ job.pc # "store"
      BY <1>2, <3>5 DEF RequestKnown
    <3>7. tab' = [tab EXCEPT ![w] = job]
      BY <3>4
    <3> QED
      BY <3>6, <3>7
  <2> QED
    BY <2>1, <2>2, <2>3
<1>10. /\ Shown(layout)' /\ VersionsLeft' /\ \A v \in Editor : RequestKnown(tab'[v])
  BY <1>8, <1>9, CountsTab
<1> QED
  BY <1>7, <1>8, <1>10 DEF LayoutCounts, LayoutKnown

LEMMA CountsArchived == ASSUME LayoutInv, LayoutCounts, archive_view PROVE LayoutCounts'
<1>1. PICK stored : stored = [layout EXCEPT !.version = layout.version + 1]
  OBVIOUS
<1>2. /\ layout' = stored /\ UNCHANGED <<seat_map, tab, refused>> /\ MoreSaves
  BY <1>1 DEF archive_view
<1>3. stored.version = layout.version + 1 /\ Shown(stored)
  BY <1>1, LayoutChanged DEF LayoutInv, LayoutTypes, LayoutCounts, LayoutKnown, Shown
<1>4. PICK n : n = Cardinality(Storing)
  OBVIOUS
<1>5. n = Cardinality(Storing)' /\ n \in Nat
  <2>1. Storing' = Storing
    BY <1>2 DEF Storing
  <2>2. IsFiniteSet(Storing)
    BY LayoutsAssumption, FS_Subset DEF Storing
  <2> QED
    BY <1>4, <2>1, <2>2, FS_CardinalityType
<1>6. layout.version \in Nat \ {0} /\ layout.version + n < MaxVersions
  BY <1>2, <1>4 DEF MoreSaves, Storing, LayoutCounts, VersionsLeft
<1>7. layout.version + 1 \in Nat \ {0} /\ (layout.version + 1) + n <= MaxVersions
  BY <1>5, <1>6, LayoutsAssumption
<1>8. VersionsLeft'
  BY <1>2, <1>3, <1>5, <1>7 DEF VersionsLeft
<1> QED
  BY <1>2, <1>3, <1>8 DEF LayoutCounts, LayoutKnown

LEMMA CountsRedrawn == ASSUME LayoutInv, LayoutCounts, HallRedrawn PROVE LayoutCounts'
<1>1. PICK room : room = layout.room
  OBVIOUS
<1>2. room \in Halls
  BY <1>1 DEF LayoutCounts, LayoutKnown, Shown
<1>3. ASSUME NEW e \in Concert, seat_map'[e] # NoMap PROVE MapKnown(seat_map'[e])
  <2>1. CASE e \in upcoming_maps
    <3>1. IsMap(seat_map[e])
      BY <2>1 DEF upcoming_maps, LayoutInv, LayoutTypes
    <3>2. PICK data, old, keys : seat_map[e] = [data |-> data, room |-> old, keys |-> keys]
      BY <3>1 DEF IsMap
    <3>3. seat_map'[e] = [data |-> data, room |-> room, keys |-> keys]
      BY <1>1, <2>1, <3>2 DEF HallRedrawn
    <3>4. MapKnown(seat_map[e])
      BY <2>1 DEF upcoming_maps, LayoutInv, LayoutTypes, LayoutCounts, LayoutKnown
    <3> QED
      BY <1>2, <3>2, <3>3, <3>4 DEF MapKnown
  <2>2. CASE e \notin upcoming_maps
    <3>1. seat_map'[e] = seat_map[e]
      BY <2>2 DEF HallRedrawn
    <3> QED
      BY <1>3, <3>1 DEF LayoutCounts, LayoutKnown
  <2> QED
    BY <2>1, <2>2
<1> QED
  BY <1>3, CountsOutside DEF HallRedrawn

LEMMA LayoutCountsStep == ASSUME LayoutInv, LayoutCounts, [LayoutNext]_layoutVars PROVE LayoutCounts'
<1>1. CASE \E e \in Concert :
              \/ EventPasses(e)
              \/ \E k \in SeatsAtRisk : TakeSeat(e, k) \/ FreeSeat(e, k) \/ MoveSeat(e, k)
  <2>1. UNCHANGED <<layout, tab, refused, seat_map>>
    BY <1>1 DEF EventPasses, TakeSeat, FreeSeat, MoveSeat
  <2> QED
    BY <2>1, CountsOutside DEF LayoutCounts, LayoutKnown
<1>2. CASE UNCHANGED layoutVars
  BY <1>2, CountsOutside DEF layoutVars, LayoutCounts, LayoutKnown
<1>3. ASSUME NEW w \in Editor,
             \/ editor_view(w) \/ Confirm(w) \/ EndSave(w) \/ LoseRequest(w)
             \/ \E d \in Drafts : data_view(w, d)
             \/ \E hall \in Halls : layout_room_view(w, hall)
             \/ \E e \in Concert : event_map_view(w, e)
      PROVE  LayoutCounts'
  BY <1>3, CountsEditor
<1>4. ASSUME NEW w \in Editor,
             attach_layout(w) \/ ReplaceSeats(w) \/ \E e \in Concert : sync_event_map(w, e)
      PROVE  LayoutCounts'
  BY <1>4, CountsMapped
<1>5. ASSUME NEW w \in Editor, save_layout(w) PROVE LayoutCounts'
  BY <1>5, CountsStored
<1>6. CASE archive_view \/ HallRedrawn
  BY <1>6, CountsArchived, CountsRedrawn
<1> QED
  BY <1>1, <1>2, <1>3, <1>4, <1>5, <1>6 DEF LayoutNext

LEMMA LayoutCountsHold == LayoutSpec => [](LayoutInv /\ LayoutCounts)
<1>1. LayoutInv /\ LayoutCounts /\ [LayoutNext]_layoutVars => (LayoutInv /\ LayoutCounts)'
  BY LayoutStep, LayoutCountsStep
<1> QED
  BY <1>1, LayoutStart, LayoutCountsStart, PTL DEF LayoutSpec

\* However requests meet or die, what is stored is a document that some editor
\* drew, cleaned, in a hall there is; and no version is used twice.
THEOREM LayoutTypesHold == LayoutSpec => []LayoutTypeOK
<1>1. LayoutInv /\ LayoutCounts => LayoutTypeOK
  <2> SUFFICES ASSUME LayoutInv, LayoutCounts PROVE LayoutTypeOK
    OBVIOUS
  <2>1. PICK n : n = Cardinality(Storing)
    OBVIOUS
  <2>2. n \in Nat
    <3>1. IsFiniteSet(Storing)
      BY LayoutsAssumption, FS_Subset DEF Storing
    <3> QED
      BY <2>1, <3>1, FS_CardinalityType
  <2>3. layout.version \in 1..MaxVersions
    BY <2>1, <2>2, LayoutsAssumption DEF LayoutCounts, VersionsLeft
  <2>4. layout.data \in StoredDrafts /\ layout.room \in Halls
    BY DEF LayoutCounts, LayoutKnown, Shown, FromDraft, ValidDrafts, StoredDrafts
  <2>5. \A e \in Concert : seat_map[e] # NoMap => seat_map[e].room \in Halls
    BY DEF LayoutCounts, LayoutKnown, MapKnown
  <2> QED
    BY <2>3, <2>4, <2>5 DEF LayoutCounts, LayoutKnown, LayoutInv, LayoutTypes, LayoutTypeOK
<1> QED
  BY <1>1, LayoutCountsHold, PTL

\* (sync_event_map, attach_layout) What an event sells by its map, whichever
\* requests made that map, is what an accepted document stands for: its seats
\* are those drawn, and their rows can be sold.
MapsCanSell ==
    \A e \in Concert : seat_map[e] # NoMap =>
        /\ seat_map[e].keys = Keys(seat_map[e].data)
        /\ validate_layout(seat_map[e].data) /\ CanBeSold(seat_map[e].data)

\* However editors, copies of the hall and dying requests interleave, every
\* event with a map has rows that are told apart, cost what the legend says and
\* can be bought.
THEOREM MapsAlwaysSell == LayoutSpec => []MapsCanSell
<1>1. LayoutCounts => MapsCanSell
  <2> SUFFICES ASSUME LayoutCounts, NEW e \in Concert, seat_map[e] # NoMap
               PROVE  /\ seat_map[e].keys = Keys(seat_map[e].data)
                      /\ validate_layout(seat_map[e].data) /\ CanBeSold(seat_map[e].data)
    BY DEF MapsCanSell
  <2>1. MapKnown(seat_map[e])
    BY DEF LayoutCounts, LayoutKnown
  <2>2. PICK d \in ValidDrafts : seat_map[e].data = clean_layout(d)
    BY <2>1 DEF MapKnown, FromDraft
  <2>3. d \in Document /\ validate_layout(d)
    BY LayoutsAssumption DEF ValidDrafts
  <2>4. validate_layout(clean_layout(d)) /\ CanBeSold(clean_layout(d))
    BY <2>3, StoredIsValid, AcceptedCanBeSold
  <2> QED
    BY <2>1, <2>2, <2>4 DEF MapKnown
<1> QED
  BY <1>1, LayoutCountsHold, PTL
=============================================================================
