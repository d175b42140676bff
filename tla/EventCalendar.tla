--------------------------- MODULE EventCalendar ---------------------------
(***************************************************************************)
(* The row of one event, which staff publish, edit and cancel while it     *)
(* sells, and its entry in Google Calendar, which the cron job keeps in    *)
(* step through a queue of tasks.  Staff work on the row as they loaded    *)
(* it; the cron job on copies of the row it lists with the tasks.          *)
(***************************************************************************)
EXTENDS Queues, Integers

CONSTANTS
    Desk,               \* requests of staff that may be under way at once
    MaxTasks,           \* rows of the calendar outbox
    MaxPlaces,          \* places of the event
    MAX_TRIES,          \* MAX_ATTEMPTS of calendar.py
    MaxCalendarFaults,  \* cron jobs that die, answers of Google that are lost
    NoEntry             \* an empty calendar_event_id

ASSUME CalendarAssumption ==
    /\ MaxTasks \in Nat /\ MaxPlaces \in Nat /\ MaxCalendarFaults \in Nat
    /\ MAX_TRIES \in Nat \ {0} /\ NoEntry \notin Nat

VARIABLES
    row,                \* events: status, sold_total, calendar_event_id
    desk,               \* the row as a request of staff has loaded it
    owes,               \* the task a request has yet to queue, its status saved
    tasks,              \* calendar_outbox, in order of creation
    sync,               \* the cron job: its step and the copies left to do
    google,             \* the entries that exist
    created,            \* entries ever created
    places,             \* history: places really sold
    overwritten,        \* history: a whole row was saved over a newer one
    muddled,            \* history: two tasks listed together
    latest,             \* history: who owes the task of the newest status
    overtaken,          \* history: the task of an older status was queued after it
    calendar_faults

eventRowVars == <<row, desk, owes, tasks, sync, google, created, places, overwritten, muddled,
                  latest, overtaken, calendar_faults>>
googleVars == <<google, created>>
oweVars == <<owes, latest, overtaken>>

Entry == 1..MaxTasks
Row == [status : {"DRAFT", "PUBLISHED", "CANCELLED"}, sold_total : 0..MaxPlaces,
        calendar_event_id : Entry \cup {NoEntry}]
NoRow == [status |-> "NONE"]
NoJob == [pc |-> "idle", queue |-> <<>>, new |-> NoEntry]

CalendarInit ==
    /\ row = [status |-> "DRAFT", sold_total |-> 0, calendar_event_id |-> NoEntry]
    /\ desk = [d \in Desk |-> NoRow]
    /\ owes = [d \in Desk |-> "none"] /\ latest = {} /\ overtaken = FALSE
    /\ tasks = <<>>
    /\ sync = NoJob
    /\ google = {} /\ created = 0
    /\ places = 0
    /\ overwritten = FALSE /\ muddled = FALSE
    /\ calendar_faults = 0

Leaves(d) == desk' = [desk EXCEPT ![d] = NoRow]
enqueue_calendar_sync(action) ==
    /\ Len(tasks) < MaxTasks
    /\ tasks' = Append(tasks, [action |-> action, status |-> "PENDING", attempts |-> 0])

\* Bound: every request under way finds a row for its task.
RoomForTask ==
    Len(tasks) + Cardinality({d \in Desk : desk[d] # NoRow \/ owes[d] # "none"}) < MaxTasks

-----------------------------------------------------------------------------
(* Staff and buyers.                                                       *)

LoadRow(d) ==
    /\ desk[d] = NoRow /\ owes[d] = "none" /\ RoomForTask
    /\ desk' = [desk EXCEPT ![d] = row]
    /\ UNCHANGED <<row, tasks, sync, googleVars, places, overwritten, muddled, oweVars,
                   calendar_faults>>

\* From the list of events the status is saved in one transaction and its task
\* queued in the next.
Owes(d, action) ==
    /\ owes' = [owes EXCEPT ![d] = action]
    /\ latest' = {d}
    /\ Leaves(d)

\* The checks are of the loaded row; only the status is saved.
publish_event(d) ==
    /\ desk[d].status = "DRAFT"
    /\ row' = [row EXCEPT !.status = "PUBLISHED"]
    /\ Owes(d, "UPSERT")
    /\ UNCHANGED <<tasks, sync, googleVars, places, overwritten, muddled, overtaken,
                   calendar_faults>>

\* Slip: the whole row is saved, not only the status.
cancel_whole_row(d) ==
    /\ desk[d].status \in {"DRAFT", "PUBLISHED"}
    /\ row' = [desk[d] EXCEPT !.status = "CANCELLED"]
    /\ Owes(d, "CANCEL")
    /\ UNCHANGED <<tasks, sync, googleVars, places, overwritten, muddled, overtaken,
                   calendar_faults>>

cancel_event(d) ==
    /\ desk[d].status \in {"DRAFT", "PUBLISHED"}
    /\ row' = [row EXCEPT !.status = "CANCELLED"]
    /\ Owes(d, "CANCEL")
    /\ UNCHANGED <<tasks, sync, googleVars, places, overwritten, muddled, overtaken,
                   calendar_faults>>

QueueTask(d) ==
    /\ owes[d] # "none"
    /\ enqueue_calendar_sync(owes[d])
    /\ owes' = [owes EXCEPT ![d] = "none"]
    /\ latest' = latest \ {d}
    /\ overtaken' = (overtaken \/ latest = {})
    /\ UNCHANGED <<row, desk, sync, googleVars, places, overwritten, muddled, calendar_faults>>

LoseDesk(d) ==
    /\ owes[d] # "none" /\ calendar_faults < MaxCalendarFaults
    /\ calendar_faults' = calendar_faults + 1
    /\ owes' = [owes EXCEPT ![d] = "none"]
    /\ latest' = latest \ {d}
    /\ UNCHANGED <<row, desk, tasks, sync, googleVars, places, overwritten, muddled, overtaken>>

\* The change form saves the row and queues its task in one transaction.
SaveWhole(d, new) ==
    /\ row' = new
    /\ overwritten' = (overwritten \/ row # desk[d])
    /\ IF new.status = "PUBLISHED"
       THEN enqueue_calendar_sync("UPSERT") /\ latest' = {}
       ELSE UNCHANGED <<tasks, latest>>
    /\ Leaves(d)
    /\ UNCHANGED <<owes, sync, googleVars, places, muddled, overtaken, calendar_faults>>

\* save_model writes every field as it was loaded ...
save_model(d) == desk[d] # NoRow /\ SaveWhole(d, desk[d])

\* ... and its button publishes the draft it has just saved.
publish_and_redirect(d) ==
    desk[d].status = "DRAFT" /\ SaveWhole(d, [desk[d] EXCEPT !.status = "PUBLISHED"])

\* Buyers take and give back places with UPDATE ... sold_total +- 1.
Sell ==
    /\ row.status = "PUBLISHED" /\ row.sold_total < MaxPlaces /\ places < MaxPlaces
    /\ row' = [row EXCEPT !.sold_total = @ + 1]
    /\ places' = places + 1
    /\ UNCHANGED <<desk, oweVars, tasks, sync, googleVars, overwritten, muddled, calendar_faults>>

GiveBack ==
    /\ row.sold_total > 0 /\ places > 0
    /\ row' = [row EXCEPT !.sold_total = @ - 1]
    /\ places' = places - 1
    /\ UNCHANGED <<desk, oweVars, tasks, sync, googleVars, overwritten, muddled, calendar_faults>>

-----------------------------------------------------------------------------
(* process_calendar_outbox.                                                *)

DueTasks == {i \in DOMAIN tasks : tasks[i].status = "PENDING" /\ tasks[i].attempts < MAX_TRIES}

\* The list is read once, each task with a copy of the event.
ListTasks ==
    /\ sync.pc = "idle" /\ DueTasks # {}
    /\ sync' = [sync EXCEPT !.pc = "call", !.queue = [n \in 1..Cardinality(DueTasks) |->
                    [id |-> InOrder(DueTasks)[n], entry |-> row.calendar_event_id]]]
    /\ muddled' = (muddled \/ Cardinality(DueTasks) > 1)
    /\ UNCHANGED <<row, desk, oweVars, tasks, googleVars, places, overwritten, calendar_faults>>

Current == Head(sync.queue)
Action == tasks[Current.id].action

\* upsert_event patches the entry the copy names, or inserts a new one;
\* cancel_event deletes it, or does nothing.  Patching or deleting what does
\* not exist fails.
Answer(pc, new) == sync' = [sync EXCEPT !.pc = pc, !.new = new]

Patch ==
    /\ sync.pc = "call" /\ Action = "UPSERT" /\ Current.entry # NoEntry
    /\ Answer(IF Current.entry \in google THEN "done" ELSE "error", NoEntry)
    /\ UNCHANGED <<row, desk, oweVars, tasks, googleVars, places, overwritten, muddled,
                   calendar_faults>>

Insert ==
    /\ sync.pc = "call" /\ Action = "UPSERT" /\ Current.entry = NoEntry
    /\ created < MaxTasks
    /\ created' = created + 1
    /\ google' = google \cup {created + 1}
    /\ \/ Answer("save_id", created + 1) /\ UNCHANGED calendar_faults
       \/ /\ calendar_faults < MaxCalendarFaults
          /\ calendar_faults' = calendar_faults + 1
          /\ Answer("error", NoEntry)
    /\ UNCHANGED <<row, desk, oweVars, tasks, places, overwritten, muddled>>

\* Slip: the entry is never deleted.
ForgetEntry ==
    /\ sync.pc = "call" /\ Action = "CANCEL"
    /\ Answer("done", NoEntry)
    /\ UNCHANGED <<row, desk, oweVars, tasks, googleVars, places, overwritten, muddled,
                   calendar_faults>>

DeleteEntry ==
    /\ sync.pc = "call" /\ Action = "CANCEL"
    /\ Answer(IF Current.entry \in google \cup {NoEntry} THEN "done" ELSE "error", NoEntry)
    /\ google' = google \ {Current.entry}
    /\ UNCHANGED <<row, desk, oweVars, tasks, created, places, overwritten, muddled,
                   calendar_faults>>

CallFails ==
    /\ sync.pc = "call"
    /\ Answer("error", NoEntry)
    /\ UNCHANGED <<row, desk, oweVars, tasks, googleVars, places, overwritten, muddled,
                   calendar_faults>>

SaveId ==
    /\ sync.pc = "save_id"
    /\ row' = [row EXCEPT !.calendar_event_id = sync.new]
    /\ Answer("done", NoEntry)
    /\ UNCHANGED <<desk, oweVars, tasks, googleVars, places, overwritten, muddled, calendar_faults>>

\* Slip: a task that fails is tried for ever.
SaveEndless ==
    /\ sync.pc \in {"done", "error"}
    /\ tasks' = [tasks EXCEPT ![Current.id].status = IF sync.pc = "done" THEN "DONE" ELSE @]
    /\ sync' = [NoJob EXCEPT !.pc = IF Len(sync.queue) = 1 THEN "idle" ELSE "call",
                             !.queue = Tail(sync.queue)]
    /\ UNCHANGED <<row, desk, oweVars, googleVars, places, overwritten, muddled, calendar_faults>>

SaveTask ==
    /\ sync.pc \in {"done", "error"}
    /\ tasks' = [tasks EXCEPT ![Current.id].attempts = @ + 1,
           ![Current.id].status = IF sync.pc = "done" THEN "DONE"
               ELSE IF tasks[Current.id].attempts + 1 >= MAX_TRIES THEN "FAILED" ELSE @]
    /\ sync' = [NoJob EXCEPT !.pc = IF Len(sync.queue) = 1 THEN "idle" ELSE "call",
                             !.queue = Tail(sync.queue)]
    /\ UNCHANGED <<row, desk, oweVars, googleVars, places, overwritten, muddled, calendar_faults>>

LoseSync ==
    /\ sync.pc # "idle" /\ calendar_faults < MaxCalendarFaults
    /\ calendar_faults' = calendar_faults + 1
    /\ sync' = NoJob
    /\ UNCHANGED <<row, desk, oweVars, tasks, googleVars, places, overwritten, muddled>>

SyncStep == Patch \/ Insert \/ DeleteEntry \/ CallFails \/ SaveId \/ SaveTask

CalendarNext ==
    \/ \E d \in Desk : \/ LoadRow(d) \/ publish_event(d) \/ cancel_event(d)
                       \/ QueueTask(d) \/ LoseDesk(d) \/ save_model(d) \/ publish_and_redirect(d)
    \/ Sell \/ GiveBack
    \/ ListTasks \/ SyncStep \/ LoseSync

CalendarSpec == CalendarInit /\ [][CalendarNext]_eventRowVars
CalendarFairness == WF_eventRowVars(ListTasks) /\ WF_eventRowVars(SyncStep)

-----------------------------------------------------------------------------

CalendarTypeOK ==
    /\ row \in Row /\ desk \in [Desk -> Row \cup {NoRow}]
    /\ owes \in [Desk -> {"none", "UPSERT", "CANCEL"}] /\ latest \in SUBSET Desk
    /\ \A i \in DOMAIN tasks : /\ tasks[i].status \in {"PENDING", "DONE", "FAILED"}
                               /\ tasks[i].attempts \in 0..MAX_TRIES
    /\ google \subseteq 1..created

\* Of all that writes the event's row only the change form, which saves it as
\* it was loaded, can lose a sale (events/admin.py save_model); and a cancelled
\* event comes back only through a request that loaded it before, as checks are
\* of the loaded row.
RowWritesMeant ==
    [][/\ row'.sold_total - row.sold_total # places' - places =>
              \E d \in Desk : /\ row' \in {desk[d], [desk[d] EXCEPT !.status = "PUBLISHED"]}
                              /\ row # desk[d]
       /\ (row.status = "CANCELLED" /\ row'.status # "CANCELLED") =>
              \E d \in Desk : desk[d] # NoRow /\ desk[d].status # "CANCELLED"]_row

\* With every task queued and done the calendar shows the event once if it is
\* published and not at all if it is cancelled, whatever calls failed and were
\* repeated, and however the requests that saved a status and queued its task
\* met, as long as the newest status was queued last.  Exceptions: a task of an
\* older status was queued after it, two tasks were listed together (the second
\* does not see the entry of the first), a fault hit the job or a request that
\* still owed its task, or the form overwrote the row.
CalendarShowsEvent ==
    (/\ \A d \in Desk : owes[d] = "none"
     /\ \A i \in DOMAIN tasks : tasks[i].status = "DONE"
     /\ sync.pc = "idle"
     /\ ~overtaken /\ ~overwritten /\ ~muddled /\ calendar_faults = 0) =>
        /\ row.status = "PUBLISHED" => google = {row.calendar_event_id}
        /\ row.status \in {"DRAFT", "CANCELLED"} => google = {}
=============================================================================
