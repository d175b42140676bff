---------------------------- MODULE OfflineGate ----------------------------
(***************************************************************************)
(* Scanners at the gate (templates/checkin/scanner.html) and the server    *)
(* they ask.  A scan whose answer does not arrive is decided on the        *)
(* scanner, with the list of tickets it fetched before, and queued; the    *)
(* queue is sent later, one scan at a time.  The list and the queue        *)
(* survive a reload of the page, the marks a scanner makes in its list do  *)
(* not.  The network is whether an answer arrives.                         *)
(***************************************************************************)
EXTENDS Naturals, Sequences, SequencesExt, FiniteSets

CONSTANTS
    Guest,          \* the tickets
    Scanner,
    MaxQueue,       \* scans a scanner has queued
    MaxTroubles,    \* reloads, undone entries, refused scans and lost lists, together
    MaxFetches,     \* answers with a list that are under way to a scanner
    NoGuest

ASSUME GateAssumption == {MaxQueue, MaxTroubles} \subseteq Nat

VARIABLES
    gate_open,      \* gate_must_be_open lets requests through
    shut_out,       \* scanners that show gate_closed.html, which scans and sends nothing
    admission,      \* tickets.status on the server
    list,           \* tickets a scanner's list shows as ISSUED
    stored,         \* the same in localStorage
    queue,          \* offlineQueue, in memory and in localStorage
    scan,           \* the scan a scanner is busy with
    flushing,       \* flushQueue: the answer on its way, if any
    fetched,        \* lists under way to a scanner
    entries,        \* tickets on the screen with an "undo" button
    inside, marked, excused, troubles
        \* history: tickets let in and not undone; tickets let in offline since
        \* the list was last replaced; tickets whose queued scan the server has
        \* answered without carrying it out, or undone while the answer to
        \* another scan of them was on its way

gateVars == <<gate_open, shut_out, admission, list, stored, queue, scan, flushing, fetched,
              entries, inside, marked, excused, troubles>>
lists == <<list, stored, fetched>>

Admission == {"ISSUED", "CHECKED_IN", "REFUNDED"}
NoScan == [pc |-> "idle", ticket |-> NoGuest, valid |-> FALSE, replaced |-> FALSE]

GateInit ==
    /\ gate_open = TRUE /\ shut_out = {}
    /\ admission = [g \in Guest |-> "ISSUED"]
    /\ list = [d \in Scanner |-> Guest] /\ stored = list
    /\ queue = [d \in Scanner |-> <<>>]
    /\ scan = [d \in Scanner |-> NoScan]
    /\ flushing = [d \in Scanner |-> "idle"]
    /\ fetched = [d \in Scanner |-> {}]
    /\ entries = [d \in Scanner |-> {}]
    /\ inside = {}
    /\ marked = [d \in Scanner |-> {}]
    /\ excused = {}
    /\ troubles = 0

Trouble == troubles < MaxTroubles /\ troubles' = troubles + 1
Valid == {g \in Guest : admission[g] = "ISSUED"}
Green(d, g) == /\ entries' = [entries EXCEPT ![d] = @ \cup {g}]
               /\ inside' = inside \cup {g}

-----------------------------------------------------------------------------
(* The server.                                                             *)

\* check_in_by_token and check_in_by_short_code: one conditional UPDATE.
Attempt(g) == IF admission[g] = "ISSUED" THEN [admission EXCEPT ![g] = "CHECKED_IN"]
                                         ELSE admission

\* A ticket is refunded, elsewhere.
RefundGuest(g) ==
    /\ admission[g] = "ISSUED"
    /\ admission' = [admission EXCEPT ![g] = "REFUNDED"]
    /\ UNCHANGED <<gate_open, shut_out, lists, queue, scan, flushing, entries, inside, marked,
                   excused, troubles>>

\* The event ends or is cancelled: every request is now answered 403, in JSON.
CloseGate ==
    /\ gate_open
    /\ gate_open' = FALSE
    /\ UNCHANGED <<shut_out, admission, lists, queue, scan, flushing, entries, inside, marked,
                   excused, troubles>>

-----------------------------------------------------------------------------
(* A scan.                                                                 *)

\* onScan with the server reached: its verdict, or the news that the gate is
\* closed, is on the way back.
ScanOnline(d, g) ==
    /\ scan[d].pc = "idle" /\ d \notin shut_out
    /\ admission' = IF gate_open THEN Attempt(g) ELSE admission
    /\ scan' = [scan EXCEPT ![d] = [NoScan EXCEPT !.pc = "answer", !.ticket = g,
                    !.valid = gate_open /\ admission[g] = "ISSUED"]]
    /\ UNCHANGED <<gate_open, shut_out, lists, queue, flushing, entries, inside, marked, excused,
                   troubles>>

\* showResult.
ShowAnswer(d) ==
    /\ scan[d].pc = "answer"
    /\ IF scan[d].valid THEN Green(d, scan[d].ticket) ELSE UNCHANGED <<entries, inside>>
    /\ scan' = [scan EXCEPT ![d] = NoScan]
    /\ UNCHANGED <<gate_open, shut_out, admission, lists, queue, flushing, marked, excused,
                   troubles>>

\* handleOfflineScan, because there is no network or the answer is lost: the
\* list is read before the token is hashed ...
LookUp(d, g) ==
    /\ \/ scan[d].pc = "idle" /\ d \notin shut_out
       \/ scan[d].pc = "answer" /\ scan[d].ticket = g
    /\ Len(queue[d]) < MaxQueue
    /\ scan' = [scan EXCEPT ![d] = [pc |-> "offline", ticket |-> g, valid |-> g \in list[d],
                                    replaced |-> FALSE]]
    /\ UNCHANGED <<gate_open, shut_out, admission, lists, queue, flushing, entries, inside,
                   marked, excused,
                   troubles>>

\* Slip: the ticket is not marked as used.
LetInUnmarked(d) ==
    LET g == scan[d].ticket IN
    /\ scan[d].pc = "offline"
    /\ IF scan[d].valid
       THEN /\ queue' = [queue EXCEPT ![d] = Append(@, g)]
            /\ marked' = IF scan[d].replaced THEN marked ELSE [marked EXCEPT ![d] = @ \cup {g}]
            /\ Green(d, g)
       ELSE UNCHANGED <<queue, marked, entries, inside>>
    /\ scan' = [scan EXCEPT ![d] = NoScan]
    /\ UNCHANGED <<gate_open, shut_out, admission, lists, flushing, excused, troubles>>

\* ... and the ticket found there is marked in that list, even if another has
\* taken its place, and queued.
LetInOffline(d) ==
    LET g == scan[d].ticket IN
    /\ scan[d].pc = "offline"
    /\ IF scan[d].valid
       THEN /\ queue' = [queue EXCEPT ![d] = Append(@, g)]
            /\ list' = IF scan[d].replaced THEN list ELSE [list EXCEPT ![d] = @ \ {g}]
            /\ marked' = IF scan[d].replaced THEN marked ELSE [marked EXCEPT ![d] = @ \cup {g}]
            /\ Green(d, g)
       ELSE UNCHANGED <<queue, list, marked, entries, inside>>
    /\ scan' = [scan EXCEPT ![d] = NoScan]
    /\ UNCHANGED <<gate_open, shut_out, admission, stored, fetched, flushing, excused, troubles>>

\* Undo, from the screen: one conditional UPDATE, whose answer may be lost.
undo_entry(d, g) ==
    /\ gate_open /\ Trouble
    /\ g \in entries[d] /\ admission[g] = "CHECKED_IN"
    /\ admission' = [admission EXCEPT ![g] = "ISSUED"]
    /\ inside' = inside \ {g}
    /\ \/ entries' = [entries EXCEPT ![d] = @ \ {g}]
       \/ UNCHANGED entries
    /\ excused' = IF \E v \in Scanner : scan[v].ticket = g /\ scan[v].pc = "answer"
                  THEN excused \cup {g} ELSE excused
    /\ UNCHANGED <<gate_open, shut_out, lists, queue, scan, flushing, marked>>

-----------------------------------------------------------------------------
(* The list and the queue.                                                 *)

\* applyManifest: the lists asked for arrive in any order.
ApplyManifest(d, tickets) ==
    /\ tickets \in fetched[d]
    /\ fetched' = [fetched EXCEPT ![d] = @ \ {tickets}]
    /\ list' = [list EXCEPT ![d] = tickets]
    /\ stored' = [stored EXCEPT ![d] = tickets]
    /\ marked' = [marked EXCEPT ![d] = {}]
    /\ scan' = [scan EXCEPT ![d].replaced = scan[d].pc = "offline"]
    /\ UNCHANGED <<gate_open, shut_out, admission, queue, flushing, entries, inside, excused,
                   troubles>>

LoseFetch(d, tickets) ==
    /\ tickets \in fetched[d]
    /\ Trouble
    /\ fetched' = [fetched EXCEPT ![d] = @ \ {tickets}]
    /\ UNCHANGED <<gate_open, shut_out, admission, list, stored, queue, scan, flushing, entries,
                   inside,
                   marked, excused>>

\* flushQueue: the first scan reaches the server, which carries it out, or
\* answers that the gate is closed or that it failed.
SendHead(d) ==
    /\ queue[d] # <<>> /\ flushing[d] = "idle" /\ d \notin shut_out
    /\ \/ /\ gate_open
          /\ admission' = Attempt(Head(queue[d]))
          /\ flushing' = [flushing EXCEPT ![d] = "done"]
          /\ UNCHANGED troubles
       \/ /\ Trouble
          /\ flushing' = [flushing EXCEPT ![d] = "refused"]
          /\ UNCHANGED admission
       \/ /\ ~gate_open
          /\ flushing' = [flushing EXCEPT ![d] = "refused"]
          /\ UNCHANGED <<admission, troubles>>
    /\ UNCHANGED <<gate_open, shut_out, lists, queue, scan, entries, inside, marked, excused>>

\* Slip: the scan is forgotten when its answer is lost.
ForgetHead(d) ==
    /\ flushing[d] # "idle"
    /\ flushing' = [flushing EXCEPT ![d] = "idle"]
    /\ queue' = [queue EXCEPT ![d] = Tail(@)]
    /\ UNCHANGED <<gate_open, shut_out, admission, lists, scan, entries, inside, marked, excused,
                   troubles>>

\* The answer is lost: the scan stays at the head and is sent again later.
KeepHead(d) ==
    /\ flushing[d] # "idle"
    /\ flushing' = [flushing EXCEPT ![d] = "idle"]
    /\ UNCHANGED <<gate_open, shut_out, admission, lists, queue, scan, entries, inside, marked,
                   excused,
                   troubles>>

\* Slip: flushQueue does not go on after a refusal.
RemoveDone(d) ==
    /\ flushing[d] = "done"
    /\ flushing' = [flushing EXCEPT ![d] = "idle"]
    /\ queue' = [queue EXCEPT ![d] = Tail(@)]
    /\ fetched' = IF Len(queue[d]) = 1 /\ gate_open /\ Cardinality(fetched[d]) < MaxFetches
                  THEN [fetched EXCEPT ![d] = @ \cup {Valid}] ELSE fetched
    /\ UNCHANGED <<gate_open, shut_out, admission, list, stored, scan, entries, inside, marked,
                   excused,
                   troubles>>

\* Any answer removes it; with the queue empty the list is fetched again, if
\* the gate is open.
RemoveHead(d) ==
    /\ flushing[d] # "idle"
    /\ flushing' = [flushing EXCEPT ![d] = "idle"]
    /\ queue' = [queue EXCEPT ![d] = Tail(@)]
    /\ excused' = IF flushing[d] = "refused" THEN excused \cup {Head(queue[d])} ELSE excused
    /\ fetched' = IF Len(queue[d]) = 1 /\ gate_open /\ Cardinality(fetched[d]) < MaxFetches
                  THEN [fetched EXCEPT ![d] = @ \cup {Valid}] ELSE fetched
    /\ UNCHANGED <<gate_open, shut_out, admission, list, stored, scan, entries, inside, marked,
                   troubles>>

\* The page is loaded again: what it had in memory and on its way is gone.  With
\* the gate open the stored list and the queue come back and a new list is
\* fetched; with the gate closed another page comes, which leaves them alone.
Reload(d) ==
    /\ Trouble
    /\ shut_out' = IF gate_open THEN shut_out ELSE shut_out \cup {d}
    /\ list' = [list EXCEPT ![d] = stored[d]]
    /\ scan' = [scan EXCEPT ![d] = NoScan]
    /\ flushing' = [flushing EXCEPT ![d] = "idle"]
    /\ fetched' = [fetched EXCEPT ![d] = IF gate_open THEN {Valid} ELSE {}]
    /\ entries' = [entries EXCEPT ![d] = {}]
    /\ marked' = [marked EXCEPT ![d] = {}]
    /\ UNCHANGED <<gate_open, admission, stored, queue, inside, excused>>

-----------------------------------------------------------------------------

GateNext ==
    \/ CloseGate
    \/ \E g \in Guest : RefundGuest(g)
    \/ \E d \in Scanner :
          \/ ShowAnswer(d) \/ LetInOffline(d)
          \/ SendHead(d) \/ KeepHead(d) \/ RemoveHead(d) \/ Reload(d)
          \/ \E g \in Guest : ScanOnline(d, g) \/ LookUp(d, g) \/ undo_entry(d, g)
          \/ \E tickets \in fetched[d] : ApplyManifest(d, tickets) \/ LoseFetch(d, tickets)

GateSpec == GateInit /\ [][GateNext]_gateVars

\* The scanner tries every 15 seconds, and answers get through now and then.
GateFairness == \A d \in Scanner : WF_gateVars(SendHead(d)) /\ SF_gateVars(RemoveHead(d))

-----------------------------------------------------------------------------

GateTypeOK ==
    /\ admission \in [Guest -> Admission]
    /\ \A d \in Scanner : /\ list[d] \subseteq Guest /\ stored[d] \subseteq Guest
                          /\ queue[d] \in Seq(Guest) /\ Len(queue[d]) <= MaxQueue
                          /\ flushing[d] # "idle" => queue[d] # <<>>
                          /\ scan[d].pc \in {"idle", "answer", "offline"}
    /\ shut_out \subseteq Scanner /\ (gate_open => shut_out = {})
    /\ troubles \in 0..MaxTroubles

\* Nobody let in is forgotten: whatever answers are lost, pages reloaded and
\* tickets undone, a ticket a scanner has let in is used up on the server, or
\* refunded, or still in the queue that a scanner keeps (one loaded again after
\* the gate has closed keeps it for good).  The exceptions are the scanner's: a
\* queued scan answered while the gate is closed or the server fails is
\* dropped, and an undo may hit a newer admission than the one on the screen.
NoEntryForgotten ==
    \A g \in inside \ excused :
        \/ admission[g] # "ISSUED"
        \/ \E d \in Scanner : g \in ToSet(queue[d])

\* "a second offline scan is caught immediately" (scanner.html:175), as long as
\* the list in which the ticket was marked has not been replaced.
SecondScanCaught ==
    [][\A d \in Scanner :
           Len(queue'[d]) > Len(queue[d]) => queue'[d][Len(queue'[d])] \notin marked[d]]_queue
=============================================================================
