------------------------- MODULE OfflineGate_proofs -------------------------
(***************************************************************************)
(* Proofs about OfflineGate, for any number of tickets and scanners, any   *)
(* length of the queues and any number of lost answers and reloads: nobody *)
(* let in is forgotten, and a second offline scan is caught.               *)
(***************************************************************************)
EXTENDS OfflineGate, SequenceTheorems, TLAPS

Scan == [pc : {"idle", "answer", "offline"}, ticket : Guest \cup {NoGuest},
         valid : BOOLEAN, replaced : BOOLEAN]

GateTypes ==
    /\ admission \in [Guest -> Admission]
    /\ list \in [Scanner -> SUBSET Guest]
    /\ stored \in [Scanner -> SUBSET Guest]
    /\ fetched \in [Scanner -> SUBSET (SUBSET Guest)]
    /\ queue \in [Scanner -> Seq(Guest)]
    /\ flushing \in [Scanner -> {"idle", "done", "refused"}]
    /\ scan \in [Scanner -> Scan]
    /\ entries \in [Scanner -> SUBSET Guest]
    /\ marked \in [Scanner -> SUBSET Guest]
    /\ inside \subseteq Guest

\* What is on its way is about something.
FlushBusy == \A d \in Scanner : /\ flushing[d] # "idle" => queue[d] # <<>>
                                /\ scan[d].pc # "idle" => scan[d].ticket \in Guest

\* A scanner's marks are in no list of its own, and a ticket found valid in a
\* list is in it still, or the list is a new one without marks.
MarksApart ==
    \A d \in Scanner :
        /\ marked[d] \cap list[d] = {}
        /\ (scan[d].pc = "offline" /\ scan[d].valid) =>
               IF scan[d].replaced THEN marked[d] = {} ELSE scan[d].ticket \in list[d]

\* An admission whose answer is on its way stands, or was undone meanwhile.
AnswersStand ==
    \A d \in Scanner :
        (scan[d].pc = "answer" /\ scan[d].valid /\ scan[d].ticket \notin excused) =>
            admission[scan[d].ticket] # "ISSUED"

\* The scans of a queue that the server has not carried out yet.
Unsent(d) == ToSet(IF flushing[d] = "done" THEN Tail(queue[d]) ELSE queue[d])

EntriesKept ==
    \A g \in inside \ excused : admission[g] = "ISSUED" => \E d \in Scanner : g \in Unsent(d)

GateInv == GateTypes /\ FlushBusy /\ MarksApart /\ AnswersStand /\ EntriesKept

-----------------------------------------------------------------------------
(* Queues.                                                                 *)

LEMMA HeadAndTail ==
    ASSUME NEW q \in Seq(Guest), q # <<>>
    PROVE  /\ Head(q) \in Guest /\ Tail(q) \in Seq(Guest)
           /\ ToSet(q) = {Head(q)} \cup ToSet(Tail(q))
<1>1. /\ Head(q) = q[1] /\ Head(q) \in Guest
      /\ Tail(q) \in Seq(Guest)
      /\ Len(Tail(q)) = Len(q) - 1
      /\ \A i \in 1..Len(Tail(q)) : Tail(q)[i] = q[i + 1]
      /\ Len(q) \in Nat /\ Len(q) >= 1
  BY HeadTailProperties, LenProperties, EmptySeq
<1>2. DOMAIN q = 1..Len(q) /\ DOMAIN Tail(q) = 1..Len(Tail(q))
  BY <1>1, LenProperties
<1>3. ASSUME NEW i \in DOMAIN q PROVE q[i] \in {Head(q)} \cup ToSet(Tail(q))
  <2>1. CASE i = 1
    BY <2>1, <1>1
  <2>2. CASE i # 1
    <3>1. i - 1 \in DOMAIN Tail(q) /\ Tail(q)[i - 1] = q[i]
      BY <2>2, <1>1, <1>2, <1>3
    <3> QED BY <3>1 DEF ToSet
  <2> QED BY <2>1, <2>2
<1>4. ASSUME NEW i \in DOMAIN Tail(q) PROVE Tail(q)[i] \in ToSet(q)
  <2>1. i + 1 \in DOMAIN q /\ Tail(q)[i] = q[i + 1]
    BY <1>1, <1>2
  <2> QED BY <2>1 DEF ToSet
<1>5. Head(q) \in ToSet(q)
  BY <1>1, <1>2 DEF ToSet
<1> QED BY <1>1, <1>3, <1>4, <1>5 DEF ToSet

LEMMA AppendAdds ==
    ASSUME NEW q \in Seq(Guest), NEW g \in Guest
    PROVE  /\ Append(q, g) \in Seq(Guest) /\ Append(q, g) # <<>>
           /\ Len(Append(q, g)) = Len(q) + 1 /\ Append(q, g)[Len(q) + 1] = g
           /\ ToSet(Append(q, g)) = ToSet(q) \cup {g}
<1>1. /\ Append(q, g) \in Seq(Guest) /\ Append(q, g) # <<>>
      /\ Len(Append(q, g)) = Len(q) + 1
      /\ \A i \in 1..Len(q) : Append(q, g)[i] = q[i]
      /\ Append(q, g)[Len(q) + 1] = g
      /\ Len(q) \in Nat
  BY AppendProperties, LenProperties
<1>2. DOMAIN q = 1..Len(q) /\ DOMAIN Append(q, g) = 1..(Len(q) + 1)
  BY <1>1, LenProperties
<1>3. ASSUME NEW i \in DOMAIN Append(q, g) PROVE Append(q, g)[i] \in ToSet(q) \cup {g}
  <2>1. CASE i = Len(q) + 1
    BY <2>1, <1>1
  <2>2. CASE i \in 1..Len(q)
    BY <2>2, <1>1, <1>2 DEF ToSet
  <2> QED BY <2>1, <2>2, <1>1, <1>2
<1>4. ASSUME NEW i \in DOMAIN q PROVE q[i] \in ToSet(Append(q, g))
  <2>1. i \in DOMAIN Append(q, g) /\ Append(q, g)[i] = q[i]
    BY <1>1, <1>2
  <2> QED BY <2>1 DEF ToSet
<1>5. g \in ToSet(Append(q, g))
  <2>1. Len(q) + 1 \in DOMAIN Append(q, g)
    BY <1>1, <1>2
  <2> QED BY <2>1, <1>1 DEF ToSet
<1> QED BY <1>1, <1>3, <1>4, <1>5 DEF ToSet

\* A scan that is queued is still to be sent, also behind one that is done.
LEMMA QueuedIsUnsent ==
    ASSUME NEW q \in Seq(Guest), NEW g \in Guest, NEW done \in BOOLEAN, done => q # <<>>
    PROVE  ToSet(IF done THEN Tail(Append(q, g)) ELSE Append(q, g))
               = ToSet(IF done THEN Tail(q) ELSE q) \cup {g}
<1>1. CASE ~done
  BY <1>1, AppendAdds
<1>2. CASE done
  <2>1. Tail(Append(q, g)) = Append(Tail(q), g) /\ Tail(q) \in Seq(Guest)
    BY <1>2, HeadTailAppend, HeadAndTail
  <2> QED BY <2>1, <1>2, AppendAdds
<1> QED BY <1>1, <1>2

-----------------------------------------------------------------------------
(* Types.                                                                  *)

LEMMA InitGateInv == GateInit => GateInv
<1> SUFFICES ASSUME GateInit PROVE GateInv
  OBVIOUS
<1>1. GateTypes
  <2>1. <<>> \in Seq(Guest)
    BY EmptySeq
  <2> QED BY <2>1 DEF GateInit, GateTypes, Scan, NoScan, Admission
<1>2. FlushBusy
  BY DEF GateInit, FlushBusy, NoScan
<1>3. MarksApart /\ AnswersStand
  BY DEF GateInit, MarksApart, AnswersStand, NoScan
<1>4. EntriesKept
  BY DEF GateInit, EntriesKept
<1> QED BY <1>1, <1>2, <1>3, <1>4 DEF GateInv

LEMMA SetUpdated ==
    ASSUME NEW S, NEW f \in [Scanner -> SUBSET S], NEW d \in Scanner, NEW e \in SUBSET S
    PROVE  [f EXCEPT ![d] = e] \in [Scanner -> SUBSET S]
OBVIOUS

LEMMA GuestAdded ==
    ASSUME NEW f \in [Scanner -> SUBSET Guest], NEW d \in Scanner, NEW g \in Guest
    PROVE  /\ [f EXCEPT ![d] = f[d] \cup {g}] \in [Scanner -> SUBSET Guest]
           /\ [f EXCEPT ![d] = f[d] \ {g}] \in [Scanner -> SUBSET Guest]
<1>1. f[d] \cup {g} \in SUBSET Guest /\ f[d] \ {g} \in SUBSET Guest
  OBVIOUS
<1> QED BY <1>1, SetUpdated

LEMMA ListReplaced ==
    ASSUME NEW s \in Scan, NEW b \in BOOLEAN
    PROVE  [s EXCEPT !.replaced = b] \in Scan
BY DEF Scan

LEMMA TypesStep == ASSUME GateInv, [GateNext]_gateVars PROVE GateTypes' /\ FlushBusy'
<1> USE DEF GateInv, GateTypes, FlushBusy, Scan, lists
<1>0. NoScan \in Scan /\ NoScan.pc = "idle"
  BY DEF NoScan
<1>1. CASE CloseGate
  BY <1>1 DEF CloseGate
<1>2. ASSUME NEW g \in Guest, RefundGuest(g) PROVE GateTypes' /\ FlushBusy'
  BY <1>2 DEF RefundGuest, Admission
<1>3. ASSUME NEW d \in Scanner, NEW g \in Guest, ScanOnline(d, g) PROVE GateTypes' /\ FlushBusy'
  <2>1. admission' \in [Guest -> Admission]
    BY <1>3 DEF ScanOnline, Attempt, Admission
  <2> DEFINE s == [NoScan EXCEPT !.pc = "answer", !.ticket = g,
                                 !.valid = gate_open /\ admission[g] = "ISSUED"]
  <2>2. s \in Scan /\ s.ticket \in Guest
    BY DEF NoScan
  <2>3. scan' = [scan EXCEPT ![d] = s]
    BY <1>3 DEF ScanOnline
  <2> HIDE DEF s
  <2>4. UNCHANGED <<list, stored, fetched, queue, flushing, entries, inside, marked>>
    BY <1>3 DEF ScanOnline
  <2>5. GateTypes'
    BY <2>1, <2>2, <2>3, <2>4
  <2>6. FlushBusy'
    BY <2>2, <2>3, <2>4
  <2> QED BY <2>5, <2>6
<1>4. ASSUME NEW d \in Scanner, ShowAnswer(d) PROVE GateTypes' /\ FlushBusy'
  <2> DEFINE g == scan[d].ticket
  <2>1. g \in Guest /\ scan' = [scan EXCEPT ![d] = NoScan]
    BY <1>4 DEF ShowAnswer
  <2> HIDE DEF g
  <2>2. entries' \in [Scanner -> SUBSET Guest] /\ inside' \subseteq Guest
    <3>1. entries' = [entries EXCEPT ![d] = entries[d] \cup {g}] \/ entries' = entries
      BY <1>4 DEF ShowAnswer, Green, g
    <3>2. inside' = inside \cup {g} \/ inside' = inside
      BY <1>4 DEF ShowAnswer, Green, g
    <3>3. [entries EXCEPT ![d] = entries[d] \cup {g}] \in [Scanner -> SUBSET Guest]
      BY <2>1, GuestAdded
    <3>4. entries' \in [Scanner -> SUBSET Guest]
      BY <3>1, <3>3
    <3> QED BY <2>1, <3>2, <3>4
  <2>3. scan' \in [Scanner -> Scan] /\ FlushBusy'
    BY <1>0, <1>4, <2>1 DEF ShowAnswer
  <2> QED BY <1>4, <2>2, <2>3 DEF ShowAnswer
<1>5. ASSUME NEW d \in Scanner, NEW g \in Guest, LookUp(d, g) PROVE GateTypes' /\ FlushBusy'
  BY <1>5 DEF LookUp
<1>6. ASSUME NEW d \in Scanner, LetInOffline(d) PROVE GateTypes' /\ FlushBusy'
  <2> DEFINE g == scan[d].ticket
  <2>1. g \in Guest /\ scan' = [scan EXCEPT ![d] = NoScan]
    BY <1>6 DEF LetInOffline
  <2>2. Append(queue[d], g) \in Seq(Guest) /\ Append(queue[d], g) # <<>>
    BY <2>1, AppendAdds
  <2>3. queue' = [queue EXCEPT ![d] = Append(queue[d], g)] \/ queue' = queue
    BY <1>6 DEF LetInOffline
  <2>4. list' = [list EXCEPT ![d] = list[d] \ {g}] \/ list' = list
    BY <1>6 DEF LetInOffline
  <2>5. marked' = [marked EXCEPT ![d] = marked[d] \cup {g}] \/ marked' = marked
    BY <1>6 DEF LetInOffline
  <2>6. entries' = [entries EXCEPT ![d] = entries[d] \cup {g}] \/ entries' = entries
    BY <1>6 DEF LetInOffline, Green
  <2>7. inside' = inside \cup {g} \/ inside' = inside
    BY <1>6 DEF LetInOffline, Green
  <2>8. UNCHANGED <<admission, stored, fetched, flushing>>
    BY <1>6 DEF LetInOffline
  <2> HIDE DEF g
  <2>9. queue' \in [Scanner -> Seq(Guest)] /\ \A v \in Scanner : queue'[v] = <<>> => queue[v] = <<>>
    BY <2>2, <2>3
  <2>10. scan' \in [Scanner -> Scan] /\ FlushBusy'
    BY <1>0, <2>1, <2>8, <2>9
  <2>11. /\ list' \in [Scanner -> SUBSET Guest] /\ marked' \in [Scanner -> SUBSET Guest]
         /\ entries' \in [Scanner -> SUBSET Guest] /\ inside' \subseteq Guest
    <3>1. /\ [list EXCEPT ![d] = list[d] \ {g}] \in [Scanner -> SUBSET Guest]
          /\ [marked EXCEPT ![d] = marked[d] \cup {g}] \in [Scanner -> SUBSET Guest]
          /\ [entries EXCEPT ![d] = entries[d] \cup {g}] \in [Scanner -> SUBSET Guest]
      BY <2>1, GuestAdded
    <3>2. list' \in [Scanner -> SUBSET Guest] /\ marked' \in [Scanner -> SUBSET Guest]
      BY <2>4, <2>5, <3>1
    <3>3. entries' \in [Scanner -> SUBSET Guest]
      BY <2>6, <3>1
    <3>4. inside' \subseteq Guest
      BY <2>1, <2>7
    <3> QED BY <3>2, <3>3, <3>4
  <2> QED BY <2>8, <2>9, <2>10, <2>11
<1>7. ASSUME NEW d \in Scanner, NEW g \in Guest, undo_entry(d, g) PROVE GateTypes' /\ FlushBusy'
  <2>1. admission' = [admission EXCEPT ![g] = "ISSUED"] /\ inside' = inside \ {g}
    BY <1>7 DEF undo_entry
  <2>2. entries' = [entries EXCEPT ![d] = entries[d] \ {g}] \/ entries' = entries
    BY <1>7 DEF undo_entry
  <2>3. UNCHANGED <<list, stored, fetched, queue, scan, flushing, marked>>
    BY <1>7 DEF undo_entry
  <2>4. entries' \in [Scanner -> SUBSET Guest]
    <3>1. [entries EXCEPT ![d] = entries[d] \ {g}] \in [Scanner -> SUBSET Guest]
      BY GuestAdded
    <3> QED BY <2>2, <3>1
  <2>5. admission' \in [Guest -> Admission] /\ inside' \subseteq Guest
    BY <2>1 DEF Admission
  <2> QED BY <2>3, <2>4, <2>5
<1>8. ASSUME NEW d \in Scanner, NEW tickets \in fetched[d], ApplyManifest(d, tickets)
      PROVE GateTypes' /\ FlushBusy'
  <2> DEFINE s == [scan[d] EXCEPT !.replaced = (scan[d].pc = "offline")]
  <2>1. s \in Scan /\ s.pc = scan[d].pc /\ s.ticket = scan[d].ticket
    <3>1. scan[d] \in Scan /\ (scan[d].pc = "offline") \in BOOLEAN
      OBVIOUS
    <3>2. s \in Scan
      BY <3>1, ListReplaced
    <3> QED BY <3>1, <3>2
  <2>2. scan' = [scan EXCEPT ![d] = s]
    BY <1>8 DEF ApplyManifest
  <2> HIDE DEF s
  <2>3. scan' \in [Scanner -> Scan] /\ FlushBusy'
    <3>1. \A v \in Scanner : scan'[v].pc = scan[v].pc /\ scan'[v].ticket = scan[v].ticket
      BY <2>1, <2>2
    <3>2. UNCHANGED <<queue, flushing>>
      BY <1>8 DEF ApplyManifest
    <3>3. scan' \in [Scanner -> Scan]
      BY <2>1, <2>2
    <3> QED BY <3>1, <3>2, <3>3
  <2>4. tickets \subseteq Guest
    OBVIOUS
  <2> QED BY <1>8, <2>3, <2>4 DEF ApplyManifest
<1>9. ASSUME NEW d \in Scanner, NEW tickets \in fetched[d], LoseFetch(d, tickets)
      PROVE GateTypes' /\ FlushBusy'
  BY <1>9 DEF LoseFetch
<1>10. ASSUME NEW d \in Scanner, SendHead(d) PROVE GateTypes' /\ FlushBusy'
  <2>1. admission' \in [Guest -> Admission]
    BY <1>10 DEF SendHead, Attempt, Admission
  <2> QED BY <1>10, <2>1 DEF SendHead
<1>11. ASSUME NEW d \in Scanner, KeepHead(d) PROVE GateTypes' /\ FlushBusy'
  BY <1>11 DEF KeepHead
<1>12. ASSUME NEW d \in Scanner, RemoveHead(d) PROVE GateTypes' /\ FlushBusy'
  <2>1. Tail(queue[d]) \in Seq(Guest)
    BY <1>12, HeadAndTail DEF RemoveHead
  <2>2. fetched' \in [Scanner -> SUBSET (SUBSET Guest)]
    BY <1>12 DEF RemoveHead, Valid
  <2> QED BY <1>12, <2>1, <2>2 DEF RemoveHead
<1>13. ASSUME NEW d \in Scanner, Reload(d) PROVE GateTypes' /\ FlushBusy'
  <2>1. fetched' \in [Scanner -> SUBSET (SUBSET Guest)]
    BY <1>13 DEF Reload, Valid
  <2> QED BY <1>13, <1>0, <2>1 DEF Reload
<1>14. CASE UNCHANGED gateVars
  BY <1>14 DEF gateVars
<1> QED
  BY <1>1, <1>2, <1>3, <1>4, <1>5, <1>6, <1>7, <1>8, <1>9, <1>10, <1>11, <1>12, <1>13, <1>14
  DEF GateNext

-----------------------------------------------------------------------------
(* The lists of the scanners.                                              *)

LEMMA MarksStep == ASSUME GateInv, [GateNext]_gateVars PROVE MarksApart'
<1> USE DEF GateInv, GateTypes, FlushBusy, Scan, MarksApart, lists
<1>0. NoScan.pc = "idle"
  BY DEF NoScan
<1>1. CASE CloseGate
  BY <1>1 DEF CloseGate
<1>2. ASSUME NEW g \in Guest, RefundGuest(g) PROVE MarksApart'
  BY <1>2 DEF RefundGuest
<1>3. ASSUME NEW d \in Scanner, NEW g \in Guest, ScanOnline(d, g) PROVE MarksApart'
  <2>1. scan'[d].pc = "answer" /\ \A v \in Scanner \ {d} : scan'[v] = scan[v]
    BY <1>3 DEF ScanOnline, NoScan
  <2> QED BY <1>3, <2>1 DEF ScanOnline
<1>4. ASSUME NEW d \in Scanner, ShowAnswer(d) PROVE MarksApart'
  BY <1>4, <1>0 DEF ShowAnswer
<1>5. ASSUME NEW d \in Scanner, NEW g \in Guest, LookUp(d, g) PROVE MarksApart'
  BY <1>5 DEF LookUp
<1>6. ASSUME NEW d \in Scanner, LetInOffline(d) PROVE MarksApart'
  BY <1>6, <1>0 DEF LetInOffline
<1>7. ASSUME NEW d \in Scanner, NEW g \in Guest, undo_entry(d, g) PROVE MarksApart'
  BY <1>7 DEF undo_entry
<1>8. ASSUME NEW d \in Scanner, NEW tickets \in fetched[d], ApplyManifest(d, tickets)
      PROVE MarksApart'
  BY <1>8 DEF ApplyManifest
<1>9. ASSUME NEW d \in Scanner, NEW tickets \in fetched[d], LoseFetch(d, tickets)
      PROVE MarksApart'
  BY <1>9 DEF LoseFetch
<1>10. ASSUME NEW d \in Scanner, SendHead(d) PROVE MarksApart'
  BY <1>10 DEF SendHead
<1>11. ASSUME NEW d \in Scanner, KeepHead(d) \/ RemoveHead(d) PROVE MarksApart'
  BY <1>11 DEF KeepHead, RemoveHead
<1>12. ASSUME NEW d \in Scanner, Reload(d) PROVE MarksApart'
  BY <1>12, <1>0 DEF Reload
<1>13. CASE UNCHANGED gateVars
  BY <1>13 DEF gateVars
<1> QED
  BY <1>1, <1>2, <1>3, <1>4, <1>5, <1>6, <1>7, <1>8, <1>9, <1>10, <1>11, <1>12, <1>13
  DEF GateNext

-----------------------------------------------------------------------------
(* The tickets on the server.                                              *)

\* Only the undo button makes a used ticket valid again, and what the server
\* did for a scanner before that is known to have been undone.
LEMMA AnswersStep == ASSUME GateInv, [GateNext]_gateVars PROVE AnswersStand'
<1> USE DEF GateInv, GateTypes, FlushBusy, Scan, AnswersStand, lists
<1>0. NoScan.pc = "idle"
  BY DEF NoScan
<1>1. CASE CloseGate
  BY <1>1 DEF CloseGate
<1>2. ASSUME NEW g \in Guest, RefundGuest(g) PROVE AnswersStand'
  BY <1>2 DEF RefundGuest
<1>3. ASSUME NEW d \in Scanner, NEW g \in Guest, ScanOnline(d, g) PROVE AnswersStand'
  <2>1. /\ scan'[d].ticket = g /\ scan'[d].valid = (gate_open /\ admission[g] = "ISSUED")
        /\ \A v \in Scanner \ {d} : scan'[v] = scan[v]
    BY <1>3 DEF ScanOnline, NoScan
  <2>2. \A h \in Guest : admission[h] # "ISSUED" => admission'[h] # "ISSUED"
    BY <1>3 DEF ScanOnline, Attempt
  <2>3. scan'[d].valid => admission'[g] # "ISSUED"
    BY <1>3, <2>1 DEF ScanOnline, Attempt
  <2> QED BY <1>3, <2>1, <2>2, <2>3 DEF ScanOnline
<1>4. ASSUME NEW d \in Scanner, ShowAnswer(d) PROVE AnswersStand'
  BY <1>4, <1>0 DEF ShowAnswer
<1>5. ASSUME NEW d \in Scanner, NEW g \in Guest, LookUp(d, g) PROVE AnswersStand'
  BY <1>5 DEF LookUp
<1>6. ASSUME NEW d \in Scanner, LetInOffline(d) PROVE AnswersStand'
  BY <1>6, <1>0 DEF LetInOffline
<1>7. ASSUME NEW d \in Scanner, NEW g \in Guest, undo_entry(d, g) PROVE AnswersStand'
  BY <1>7 DEF undo_entry
<1>8. ASSUME NEW d \in Scanner, NEW tickets \in fetched[d], ApplyManifest(d, tickets)
      PROVE AnswersStand'
  BY <1>8 DEF ApplyManifest
<1>9. ASSUME NEW d \in Scanner, NEW tickets \in fetched[d], LoseFetch(d, tickets)
      PROVE AnswersStand'
  BY <1>9 DEF LoseFetch
<1>10. ASSUME NEW d \in Scanner, SendHead(d) PROVE AnswersStand'
  <2>1. \A h \in Guest : admission[h] # "ISSUED" => admission'[h] # "ISSUED"
    BY <1>10 DEF SendHead, Attempt
  <2> QED BY <1>10, <2>1 DEF SendHead
<1>11. ASSUME NEW d \in Scanner, KeepHead(d) \/ RemoveHead(d) PROVE AnswersStand'
  BY <1>11 DEF KeepHead, RemoveHead
<1>12. ASSUME NEW d \in Scanner, Reload(d) PROVE AnswersStand'
  BY <1>12, <1>0 DEF Reload
<1>13. CASE UNCHANGED gateVars
  BY <1>13 DEF gateVars
<1> QED
  BY <1>1, <1>2, <1>3, <1>4, <1>5, <1>6, <1>7, <1>8, <1>9, <1>10, <1>11, <1>12, <1>13
  DEF GateNext

\* What keeps or enlarges the sets on the right keeps the entries.
LEMMA EntriesStay ==
    ASSUME GateInv,
           \A h \in Guest : admission'[h] = "ISSUED" => admission[h] = "ISSUED",
           inside' \ excused' \subseteq inside \ excused,
           \A v \in Scanner : Unsent(v) \subseteq Unsent(v)'
    PROVE  EntriesKept'
BY DEF GateInv, GateTypes, EntriesKept

LEMMA EntriesStep == ASSUME GateInv, [GateNext]_gateVars PROVE EntriesKept'
<1> USE DEF GateInv, GateTypes, FlushBusy, Scan, lists
<1>1. CASE CloseGate
  BY <1>1, EntriesStay DEF CloseGate, Unsent
<1>2. ASSUME NEW g \in Guest, RefundGuest(g) PROVE EntriesKept'
  BY <1>2, EntriesStay DEF RefundGuest, Unsent
<1>3. ASSUME NEW d \in Scanner, NEW g \in Guest, ScanOnline(d, g) PROVE EntriesKept'
  <2>1. \A h \in Guest : admission'[h] = "ISSUED" => admission[h] = "ISSUED"
    BY <1>3 DEF ScanOnline, Attempt
  <2> QED BY <1>3, <2>1, EntriesStay DEF ScanOnline, Unsent
<1>4. ASSUME NEW d \in Scanner, ShowAnswer(d) PROVE EntriesKept'
  <2>1. CASE scan[d].valid
    <3>1. inside' = inside \cup {scan[d].ticket} /\ UNCHANGED <<admission, excused>>
      BY <1>4, <2>1 DEF ShowAnswer, Green
    <3>2. \A v \in Scanner : Unsent(v)' = Unsent(v)
      BY <1>4 DEF ShowAnswer, Unsent
    <3>3. scan[d].ticket \notin excused => admission[scan[d].ticket] # "ISSUED"
      BY <1>4, <2>1 DEF ShowAnswer, AnswersStand
    <3> QED BY <3>1, <3>2, <3>3 DEF EntriesKept
  <2>2. CASE ~scan[d].valid
    BY <1>4, <2>2, EntriesStay DEF ShowAnswer, Unsent
  <2> QED BY <2>1, <2>2
<1>5. ASSUME NEW d \in Scanner, NEW g \in Guest, LookUp(d, g) PROVE EntriesKept'
  BY <1>5, EntriesStay DEF LookUp, Unsent
<1>6. ASSUME NEW d \in Scanner, LetInOffline(d) PROVE EntriesKept'
  <2> DEFINE g == scan[d].ticket
  <2>1. CASE scan[d].valid
    <3>1. g \in Guest /\ queue' = [queue EXCEPT ![d] = Append(queue[d], g)]
      BY <1>6, <2>1 DEF LetInOffline
    <3>2. UNCHANGED <<admission, excused, flushing>> /\ inside' = inside \cup {g}
      BY <1>6, <2>1 DEF LetInOffline, Green
    <3>3. Unsent(d)' = Unsent(d) \cup {g}
      <4>1. (flushing[d] = "done") \in BOOLEAN /\ (flushing[d] = "done" => queue[d] # <<>>)
        OBVIOUS
      <4>2. ToSet(IF flushing[d] = "done" THEN Tail(Append(queue[d], g)) ELSE Append(queue[d], g))
                = ToSet(IF flushing[d] = "done" THEN Tail(queue[d]) ELSE queue[d]) \cup {g}
        <5> DEFINE done == flushing[d] = "done"
        <5>1. queue[d] \in Seq(Guest) /\ g \in Guest /\ done \in BOOLEAN /\ (done => queue[d] # <<>>)
          BY <3>1, <4>1
        <5> HIDE DEF done, g
        <5>2. ToSet(IF done THEN Tail(Append(queue[d], g)) ELSE Append(queue[d], g))
                = ToSet(IF done THEN Tail(queue[d]) ELSE queue[d]) \cup {g}
          BY <5>1, QueuedIsUnsent
        <5> QED BY <5>2 DEF done
      <4>3. queue'[d] = Append(queue[d], g)
        BY <3>1
      <4> QED BY <4>2, <4>3, <3>2 DEF Unsent
    <3>4. \A v \in Scanner \ {d} : Unsent(v)' = Unsent(v)
      BY <3>1, <3>2 DEF Unsent
    <3> QED BY <3>2, <3>3, <3>4 DEF EntriesKept
  <2>2. CASE ~scan[d].valid
    BY <1>6, <2>2, EntriesStay DEF LetInOffline, Unsent
  <2> QED BY <2>1, <2>2
<1>7. ASSUME NEW d \in Scanner, NEW g \in Guest, undo_entry(d, g) PROVE EntriesKept'
  <2>1. \A v \in Scanner : Unsent(v)' = Unsent(v)
    BY <1>7 DEF undo_entry, Unsent
  <2>2. /\ inside' = inside \ {g} /\ excused \subseteq excused'
        /\ \A h \in Guest \ {g} : admission'[h] = admission[h]
    BY <1>7 DEF undo_entry
  <2> QED BY <2>1, <2>2 DEF EntriesKept
<1>8. ASSUME NEW d \in Scanner, NEW tickets \in fetched[d], ApplyManifest(d, tickets)
      PROVE EntriesKept'
  BY <1>8, EntriesStay DEF ApplyManifest, Unsent
<1>9. ASSUME NEW d \in Scanner, NEW tickets \in fetched[d], LoseFetch(d, tickets)
      PROVE EntriesKept'
  BY <1>9, EntriesStay DEF LoseFetch, Unsent
<1>10. ASSUME NEW d \in Scanner, SendHead(d) PROVE EntriesKept'
  <2>1. \A v \in Scanner \ {d} : Unsent(v)' = Unsent(v)
    BY <1>10 DEF SendHead, Unsent
  <2>2. /\ Head(queue[d]) \in Guest /\ Unsent(d) \subseteq ToSet(queue[d])
        /\ ToSet(queue[d]) = {Head(queue[d])} \cup ToSet(Tail(queue[d]))
    BY <1>10, HeadAndTail DEF SendHead, Unsent
  <2>3. CASE flushing'[d] = "done"
    <3>1. admission' = Attempt(Head(queue[d])) /\ Unsent(d)' = ToSet(Tail(queue[d]))
      BY <1>10, <2>3 DEF SendHead, Unsent
    <3>2. admission'[Head(queue[d])] # "ISSUED"
      BY <2>2, <3>1 DEF Attempt
    <3>3. \A h \in Guest : admission'[h] = "ISSUED" => admission[h] = "ISSUED"
      BY <3>1 DEF Attempt
    <3>4. UNCHANGED <<inside, excused>>
      BY <1>10 DEF SendHead
    <3>5. ASSUME NEW h \in inside \ excused, admission'[h] = "ISSUED"
          PROVE  \E v \in Scanner : h \in Unsent(v)'
      <4>1. h \in Guest /\ admission[h] = "ISSUED" /\ h # Head(queue[d])
        BY <3>2, <3>3, <3>5
      <4>2. PICK v \in Scanner : h \in Unsent(v)
        BY <4>1, <3>5 DEF EntriesKept
      <4> QED BY <2>1, <2>2, <3>1, <4>1, <4>2
    <3> QED BY <3>4, <3>5 DEF EntriesKept
  <2>4. CASE flushing'[d] # "done"
    <3>1. admission' = admission /\ Unsent(d)' = ToSet(queue[d])
      BY <1>10, <2>4 DEF SendHead, Unsent
    <3>2. UNCHANGED <<inside, excused>>
      BY <1>10 DEF SendHead
    <3>3. \A v \in Scanner : Unsent(v) \subseteq Unsent(v)'
      BY <2>1, <2>2, <3>1
    <3> QED BY <3>1, <3>2, <3>3, EntriesStay
  <2> QED BY <2>3, <2>4
<1>11. ASSUME NEW d \in Scanner, KeepHead(d) PROVE EntriesKept'
  <2>1. \A v \in Scanner \ {d} : Unsent(v)' = Unsent(v)
    BY <1>11 DEF KeepHead, Unsent
  <2>2. Unsent(d) \subseteq ToSet(queue[d]) /\ Unsent(d)' = ToSet(queue[d])
    BY <1>11, HeadAndTail DEF KeepHead, Unsent
  <2> QED BY <1>11, <2>1, <2>2, EntriesStay DEF KeepHead
<1>12. ASSUME NEW d \in Scanner, RemoveHead(d) PROVE EntriesKept'
  <2>1. \A v \in Scanner \ {d} : Unsent(v)' = Unsent(v)
    BY <1>12 DEF RemoveHead, Unsent
  <2>2. Unsent(d)' = ToSet(Tail(queue[d]))
    BY <1>12 DEF RemoveHead, Unsent
  <2>3. ToSet(queue[d]) = {Head(queue[d])} \cup ToSet(Tail(queue[d]))
    BY <1>12, HeadAndTail DEF RemoveHead
  <2>4. CASE flushing[d] = "refused"
    <3>1. excused' = excused \cup {Head(queue[d])} /\ Unsent(d) = ToSet(queue[d])
      BY <1>12, <2>4 DEF RemoveHead, Unsent
    <3>2. UNCHANGED <<admission, inside>>
      BY <1>12 DEF RemoveHead
    <3>3. ASSUME NEW h \in inside' \ excused', admission'[h] = "ISSUED"
          PROVE  \E v \in Scanner : h \in Unsent(v)'
      <4>1. h \in inside \ excused /\ admission[h] = "ISSUED" /\ h # Head(queue[d])
        BY <3>1, <3>2, <3>3
      <4>2. PICK v \in Scanner : h \in Unsent(v)
        BY <4>1 DEF EntriesKept
      <4>3. h \in Unsent(v)'
        <5>1. CASE v = d
          BY <5>1, <2>2, <2>3, <3>1, <4>1, <4>2
        <5>2. CASE v # d
          BY <5>2, <2>1, <4>2
        <5> QED BY <5>1, <5>2
      <4> QED BY <4>3
    <3> QED BY <3>3 DEF EntriesKept
  <2>5. CASE flushing[d] # "refused"
    <3>1. flushing[d] = "done" /\ excused' = excused
      BY <1>12, <2>5 DEF RemoveHead
    <3>2. Unsent(d)' = Unsent(d)
      BY <2>2, <3>1 DEF Unsent
    <3> QED BY <1>12, <2>1, <3>1, <3>2, EntriesStay DEF RemoveHead
  <2> QED BY <2>4, <2>5
<1>13. ASSUME NEW d \in Scanner, Reload(d) PROVE EntriesKept'
  <2>1. \A v \in Scanner \ {d} : Unsent(v)' = Unsent(v)
    BY <1>13 DEF Reload, Unsent
  <2>2. Unsent(d) \subseteq ToSet(queue[d]) /\ Unsent(d)' = ToSet(queue[d])
    BY <1>13, HeadAndTail DEF Reload, Unsent
  <2> QED BY <1>13, <2>1, <2>2, EntriesStay DEF Reload
<1>14. CASE UNCHANGED gateVars
  BY <1>14, EntriesStay DEF gateVars, Unsent
<1> QED
  BY <1>1, <1>2, <1>3, <1>4, <1>5, <1>6, <1>7, <1>8, <1>9, <1>10, <1>11, <1>12, <1>13, <1>14
  DEF GateNext

-----------------------------------------------------------------------------

LEMMA GateInvHolds == GateSpec => []GateInv
<1>1. GateInv /\ [GateNext]_gateVars => GateInv'
  BY TypesStep, MarksStep, AnswersStep, EntriesStep DEF GateInv
<1> QED BY InitGateInv, <1>1, PTL DEF GateSpec

\* Nobody let in is forgotten: with any number of scanners and tickets, and
\* however many answers, lists and pages are lost, a ticket a scanner showed as
\* valid is used up or refunded on the server or waits in a queue, but for the
\* scans the server refused and the admissions undone (flushQueue, undo_entry).
THEOREM EntriesNeverForgotten == GateSpec => []NoEntryForgotten
<1>1. GateInv => NoEntryForgotten
  <2> SUFFICES ASSUME GateInv, NEW g \in inside \ excused, admission[g] = "ISSUED"
               PROVE  \E d \in Scanner : g \in ToSet(queue[d])
    BY DEF NoEntryForgotten
  <2>1. PICK d \in Scanner : g \in Unsent(d)
    BY DEF GateInv, EntriesKept
  <2>2. queue[d] \in Seq(Guest) /\ (flushing[d] = "done" => queue[d] # <<>>)
    BY DEF GateInv, GateTypes, FlushBusy
  <2>3. Unsent(d) \subseteq ToSet(queue[d])
    BY <2>2, HeadAndTail DEF Unsent
  <2> QED BY <2>1, <2>3
<1> QED BY <1>1, GateInvHolds, PTL

\* A scanner without network lets nobody in twice on one list: what it queues
\* is no ticket it has marked in the list it has (handleOfflineScan).
THEOREM SecondScansCaught == GateSpec => SecondScanCaught
<1> DEFINE Caught == \A d \in Scanner :
        Len(queue'[d]) > Len(queue[d]) => queue'[d][Len(queue'[d])] \notin marked[d]
<1>1. GateInv /\ [GateNext]_gateVars => [Caught]_queue
  <2> SUFFICES ASSUME GateInv, GateNext, queue' # queue, NEW d \in Scanner,
                      Len(queue'[d]) > Len(queue[d])
               PROVE  queue'[d][Len(queue'[d])] \notin marked[d]
    BY DEF gateVars
  <2>1. \E v \in Scanner : LetInOffline(v) \/ RemoveHead(v)
    BY DEF GateNext, CloseGate, RefundGuest, ShowAnswer, SendHead, KeepHead, Reload, ScanOnline,
           LookUp, undo_entry, ApplyManifest, LoseFetch
  <2>2. PICK v \in Scanner : LetInOffline(v) \/ RemoveHead(v)
    BY <2>1
  <2>3. queue \in [Scanner -> Seq(Guest)] /\ Len(queue[d]) \in Nat
    BY LenProperties DEF GateInv, GateTypes
  <2>4. CASE RemoveHead(v)
    <3>1. queue[v] # <<>> /\ queue' = [queue EXCEPT ![v] = Tail(queue[v])]
      BY <2>4 DEF RemoveHead, GateInv, FlushBusy
    <3>2. Len(queue'[d]) <= Len(queue[d])
      BY <2>3, <3>1, HeadTailProperties
    <3> QED BY <2>3, <3>2
  <2>5. CASE LetInOffline(v)
    <3> DEFINE g == scan[v].ticket
    <3>1. scan[v].pc = "offline" /\ scan[v].valid /\ queue' = [queue EXCEPT ![v] = Append(queue[v], g)]
      BY <2>5 DEF LetInOffline
    <3>2. g \in Guest /\ g \notin marked[v]
      BY <3>1 DEF GateInv, FlushBusy, MarksApart
    <3>3. v = d
      BY <2>3, <3>1
    <3>4. queue'[d][Len(queue'[d])] = g
      BY <2>3, <3>1, <3>2, <3>3, AppendAdds
    <3> QED BY <3>2, <3>3, <3>4
  <2> QED BY <2>2, <2>4, <2>5
<1> QED BY <1>1, GateInvHolds, PTL DEF GateSpec, SecondScanCaught

-----------------------------------------------------------------------------
(* The bounds of a scanner.                                                *)

\* A page that shows the gate closed was loaded after it had closed.
DoorShut == shut_out \subseteq Scanner /\ (gate_open => shut_out = {})

LEMMA DoorStep == ASSUME DoorShut, [GateNext]_gateVars PROVE DoorShut'
<1>1. ASSUME NEW d \in Scanner, Reload(d) PROVE DoorShut'
  BY <1>1 DEF Reload, DoorShut
<1>2. CASE CloseGate
  BY <1>2 DEF CloseGate, DoorShut
<1>3. CASE UNCHANGED <<gate_open, shut_out>>
  BY <1>3 DEF DoorShut
<1>4. UNCHANGED <<gate_open, shut_out>> \/ CloseGate \/ \E d \in Scanner : Reload(d)
  BY DEF GateNext, gateVars, RefundGuest, ShowAnswer, LetInOffline, SendHead, KeepHead, RemoveHead,
         ScanOnline, LookUp, undo_entry, ApplyManifest, LoseFetch
<1> QED BY <1>1, <1>2, <1>3, <1>4

\* A scanner has room left for the scan it is deciding.
GateCounts ==
    /\ \A d \in Scanner : /\ Len(queue[d]) <= MaxQueue
                          /\ scan[d].pc = "offline" => Len(queue[d]) < MaxQueue
    /\ troubles \in 0..MaxTroubles

LEMMA InitGateCounts == GateInit => GateCounts
<1> SUFFICES ASSUME GateInit PROVE GateCounts
  OBVIOUS
<1>1. \A d \in Scanner : queue[d] = <<>> /\ scan[d].pc = "idle"
  BY DEF GateInit, NoScan
<1>2. Len(<<>>) = 0 /\ troubles = 0
  BY DEF GateInit
<1> QED BY <1>1, <1>2, GateAssumption DEF GateCounts

\* Queues and scans that stay, or grow shorter and end.
LEMMA QueuesShrink ==
    ASSUME GateInv, GateCounts, troubles' = troubles \/ Trouble,
           \A d \in Scanner : /\ queue'[d] = queue[d] \/ (queue[d] # <<>> /\ queue'[d] = Tail(queue[d]))
                              /\ scan'[d].pc = "offline" =>
                                     scan[d].pc = "offline" \/ Len(queue[d]) < MaxQueue
    PROVE  GateCounts'
<1>1. troubles' \in 0..MaxTroubles
  BY GateAssumption DEF GateCounts, Trouble
<1>2. ASSUME NEW d \in Scanner
      PROVE  Len(queue[d]) \in Nat /\ Len(queue'[d]) \in Nat /\ Len(queue'[d]) <= Len(queue[d])
  <2>1. queue[d] \in Seq(Guest)
    BY DEF GateInv, GateTypes
  <2>2. Len(queue[d]) \in Nat
    BY <2>1, LenProperties
  <2>3. queue[d] # <<>> => Len(Tail(queue[d])) = Len(queue[d]) - 1 /\ Len(queue[d]) # 0
    BY <2>1, HeadTailProperties, EmptySeq
  <2>4. CASE queue'[d] = queue[d]
    BY <2>2, <2>4
  <2>5. CASE queue[d] # <<>> /\ queue'[d] = Tail(queue[d])
    <3>1. Len(queue'[d]) = Len(queue[d]) - 1 /\ Len(queue[d]) # 0
      BY <2>3, <2>5
    <3> QED BY <2>2, <3>1
  <2> QED BY <2>4, <2>5
<1> QED BY <1>1, <1>2, GateAssumption DEF GateCounts

LEMMA GateCountsStep == GateInv /\ GateCounts /\ [GateNext]_gateVars => GateCounts'
<1> SUFFICES ASSUME GateInv, GateCounts, [GateNext]_gateVars PROVE GateCounts'
  OBVIOUS
<1>1. ASSUME UNCHANGED <<queue, scan>>, troubles' = troubles \/ Trouble PROVE GateCounts'
  BY <1>1, QueuesShrink
<1>2. CASE UNCHANGED gateVars
  BY <1>1, <1>2 DEF gateVars
<1>3. CASE CloseGate \/ \E g \in Guest : RefundGuest(g)
  BY <1>1, <1>3 DEF CloseGate, RefundGuest
<1>4. ASSUME NEW d \in Scanner, NEW g \in Guest, undo_entry(d, g) PROVE GateCounts'
  BY <1>1, <1>4 DEF undo_entry, Trouble
<1>5. ASSUME NEW d \in Scanner, NEW tickets, LoseFetch(d, tickets) PROVE GateCounts'
  BY <1>1, <1>5 DEF LoseFetch, Trouble
<1>6. ASSUME NEW d \in Scanner, SendHead(d) \/ KeepHead(d) PROVE GateCounts'
  BY <1>1, <1>6 DEF SendHead, KeepHead, Trouble
<1>7. ASSUME NEW d \in Scanner, NEW s, scan' = [scan EXCEPT ![d] = s],
             s.pc = "offline" => scan[d].pc = "offline" \/ Len(queue[d]) < MaxQueue,
             queue' = queue, troubles' = troubles \/ Trouble
      PROVE  GateCounts'
  <2>1. \A v \in Scanner : scan'[v] = IF v = d THEN s ELSE scan[v]
    BY <1>7 DEF GateInv, GateTypes
  <2> QED BY <1>7, <2>1, QueuesShrink
<1>8. ASSUME NEW d \in Scanner, ShowAnswer(d) \/ Reload(d) PROVE GateCounts'
  BY <1>7, <1>8 DEF ShowAnswer, Reload, NoScan, Trouble
<1>9. ASSUME NEW d \in Scanner, NEW g \in Guest, ScanOnline(d, g) PROVE GateCounts'
  <2>1. PICK s : s = [NoScan EXCEPT !.pc = "answer", !.ticket = g,
                          !.valid = gate_open /\ admission[g] = "ISSUED"]
    OBVIOUS
  <2>2. scan' = [scan EXCEPT ![d] = s] /\ s.pc = "answer" /\ queue' = queue /\ troubles' = troubles
    BY <1>9, <2>1 DEF ScanOnline, NoScan
  <2> QED BY <1>7, <2>2
<1>10. ASSUME NEW d \in Scanner, NEW g \in Guest, LookUp(d, g) PROVE GateCounts'
  <2>1. PICK s : s = [pc |-> "offline", ticket |-> g, valid |-> g \in list[d], replaced |-> FALSE]
    OBVIOUS
  <2>2. scan' = [scan EXCEPT ![d] = s] /\ Len(queue[d]) < MaxQueue /\ queue' = queue
        /\ troubles' = troubles
    BY <1>10, <2>1 DEF LookUp
  <2> QED BY <1>7, <2>2
<1>11. ASSUME NEW d \in Scanner, NEW tickets, ApplyManifest(d, tickets) PROVE GateCounts'
  <2>1. PICK s : s = [scan[d] EXCEPT !.replaced = (scan[d].pc = "offline")]
    OBVIOUS
  <2>2. s.pc = scan[d].pc
    BY <2>1 DEF GateInv, GateTypes, Scan
  <2>3. scan' = [scan EXCEPT ![d] = s] /\ queue' = queue /\ troubles' = troubles
    BY <1>11, <2>1 DEF ApplyManifest
  <2> QED BY <1>7, <2>2, <2>3
<1>12. ASSUME NEW d \in Scanner, RemoveHead(d) PROVE GateCounts'
  <2>1. /\ queue' = [queue EXCEPT ![d] = Tail(queue[d])] /\ queue[d] # <<>>
        /\ scan' = scan /\ troubles' = troubles
    BY <1>12 DEF RemoveHead, GateInv, FlushBusy
  <2>2. \A v \in Scanner : queue'[v] = IF v = d THEN Tail(queue[d]) ELSE queue[v]
    BY <2>1 DEF GateInv, GateTypes
  <2> QED BY <2>1, <2>2, QueuesShrink
<1>13. ASSUME NEW d \in Scanner, LetInOffline(d) PROVE GateCounts'
  <2>1. PICK g : g = scan[d].ticket
    OBVIOUS
  <2>2. /\ scan[d].pc = "offline" /\ scan' = [scan EXCEPT ![d] = NoScan] /\ troubles' = troubles
        /\ queue' = queue \/ queue' = [queue EXCEPT ![d] = Append(queue[d], g)]
    BY <1>13, <2>1 DEF LetInOffline
  <2>3. CASE queue' = queue
    BY <1>7, <2>2, <2>3 DEF NoScan
  <2>4. CASE queue' = [queue EXCEPT ![d] = Append(queue[d], g)]
    <3>1. g \in Guest /\ queue[d] \in Seq(Guest)
      BY <2>1, <2>2 DEF GateInv, GateTypes, FlushBusy
    <3>2. Len(Append(queue[d], g)) = Len(queue[d]) + 1 /\ Len(queue[d]) \in Nat
      BY <3>1, AppendAdds, LenProperties
    <3>3. \A v \in Scanner :
              /\ queue'[v] = IF v = d THEN Append(queue[d], g) ELSE queue[v]
              /\ scan'[v] = IF v = d THEN NoScan ELSE scan[v]
      BY <2>2, <2>4 DEF GateInv, GateTypes
    <3>4. Len(queue[d]) < MaxQueue /\ MaxQueue \in Nat
      BY <2>2, GateAssumption DEF GateCounts
    <3>5. Len(queue'[d]) = Len(queue[d]) + 1
      BY <3>2, <3>3
    <3>6. Len(queue'[d]) <= MaxQueue
      BY <3>2, <3>4, <3>5
    <3>7. scan'[d].pc # "offline"
      BY <3>3 DEF NoScan
    <3> QED BY <2>2, <3>3, <3>6, <3>7 DEF GateCounts
  <2> QED BY <2>2, <2>3, <2>4
<1> QED
  BY <1>2, <1>3, <1>4, <1>5, <1>6, <1>8, <1>9, <1>10, <1>11, <1>12, <1>13 DEF GateNext

\* No order of answers, lists and reloads leaves a scanner sending from an empty
\* queue, or queueing more than it has room for.
THEOREM GateTypesHold == GateSpec => []GateTypeOK
<1>1. GateInv /\ GateCounts /\ DoorShut => GateTypeOK
  <2> SUFFICES ASSUME GateInv, GateCounts, DoorShut PROVE GateTypeOK
    OBVIOUS
  <2>1. /\ admission \in [Guest -> Admission]
        /\ \A d \in Scanner : /\ list[d] \subseteq Guest /\ stored[d] \subseteq Guest
                              /\ queue[d] \in Seq(Guest)
                              /\ scan[d].pc \in {"idle", "answer", "offline"}
    BY DEF GateInv, GateTypes, Scan
  <2> QED BY <2>1 DEF GateInv, FlushBusy, GateCounts, DoorShut, GateTypeOK
<1>2. GateInv /\ GateCounts /\ DoorShut /\ [GateNext]_gateVars => (GateInv /\ GateCounts /\ DoorShut)'
  BY TypesStep, MarksStep, AnswersStep, EntriesStep, GateCountsStep, DoorStep DEF GateInv
<1>3. GateInit => DoorShut
  BY DEF GateInit, DoorShut
<1> QED BY <1>1, <1>2, <1>3, InitGateInv, InitGateCounts, PTL DEF GateSpec
=============================================================================
