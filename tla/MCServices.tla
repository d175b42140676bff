----------------------------- MODULE MCServices -----------------------------
(***************************************************************************)
(* The smaller components of the system, one run for all of them: a        *)
(* behaviour is a behaviour of one of them, the others stay as they start. *)
(***************************************************************************)
EXTENDS EventCancellation, EmailOutbox, EventCalendar, OfflineGate, PoolActivation,
        SeatSelection, SeatingLayouts, HallRooms, EventEditing, TLC

CONSTANTS o1, o2, p1, p2
MCQuantity == (o1 :> 1) @@ (o2 :> 2)
MCProvider == (o1 :> "DEMO") @@ (o2 :> "STRIPE")
MCPlaces == [old |-> 3, new |-> 2]

\* Bounds: pools with both dates sell for some time; the last has both or none.
FewPools == /\ \A i \in Dated(pool) : pool[i].start < pool[i].end
            /\ pool[Pools].start = NoDate <=> pool[Pools].end = NoDate
Undated == [i \in Index |-> [start |-> NoDate, end |-> NoDate, on_sellout |-> "PAUSE"]]

-----------------------------------------------------------------------------
(* Documents: one object out of many next to one out of few.               *)

Label(text, look) == [text |-> text, look |-> look]
Seat(id, label, disabled) == [id |-> id, label |-> label, disabled |-> disabled]
Thing(id, type, label, drawn, mode, category, seats) ==
    [id |-> id, type |-> type, label |-> label, drawn |-> drawn, sell_mode |-> mode,
     category |-> category, seats |-> seats]

One == Label("1", "plain")
FewSeats == {<<>>, <<Seat("k1", One, FALSE)>>, <<Seat("k1", One, TRUE)>>,
             <<Seat("k1", One, FALSE), Seat("k2", Label("2", "plain"), FALSE)>>,
             <<Seat("k1", One, FALSE), Seat("k2", Label("1", "padded"), FALSE)>>,
             <<Seat("k1", One, TRUE), Seat("k3", Label("2", "padded"), FALSE)>>,
             <<Seat("k1", One, FALSE), Seat("k2", Label("2", "plain"), FALSE),
               Seat("k3", Label("3", "plain"), FALSE)>>}
Firsts == {Thing("t1", type, label, TRUE, mode, category, seats) :
              type \in {"table", "row"}, label \in {One, Label("", "plain")},
              mode \in {"unset", "TABLE", "BOTH"}, category \in {"", "A"}, seats \in FewSeats}
          \cup {Thing("t1", "zone", One, drawn, "unset", "", <<>>) : drawn \in BOOLEAN}
Seconds == {Thing(id, type, label, TRUE, "SEATS", "", <<Seat(key, One, FALSE)>>) :
               id \in {"t1", "t2"}, type \in {"table", "row"},
               label \in {Label("1", "capitals"), Label("2", "plain")}, key \in {"k1", "k3"}}
ZoneLists == {<<>>, <<[code |-> "A", percent |-> 120]>>, <<[code |-> "A", percent |-> 999]>>,
              <<[code |-> "A", percent |-> 80], [code |-> "A", percent |-> 120]>>}
MCDocuments == {[zones |-> zones, objects |-> <<first, second>>] :
                   zones \in ZoneLists, first \in Firsts, second \in Seconds}
               \cup {[zones |-> <<>>, objects |-> <<first>>] : first \in Firsts}

Drawing(label, seats) ==
    [zones |-> <<>>, objects |-> <<Thing("t1", "table", label, TRUE, "SEATS", "", seats)>>]
Large == Drawing(Label("1", "padded"),
                 <<Seat("k1", One, FALSE), Seat("k2", Label("2", "plain"), FALSE)>>)
MCDrafts == {Large, Drawing(One, <<Seat("k1", One, FALSE)>>)}

-----------------------------------------------------------------------------
(* Halls: the bar comes and goes with the exports, and so does the desk    *)
(* that the owner may have drawn.                                          *)

Piece(id, category, beyond) ==
    [id |-> id, category |-> category, drawn |-> TRUE, beyond |-> beyond]
NorthWall == Piece("north", "walls", FALSE)
Bar == Piece("bar", "fixtures", FALSE)
FirstExport == {NorthWall, Bar, Piece("street", "walls", FALSE), Piece("door", "entrances", FALSE)}
MCExports == {FirstExport,
              {NorthWall, [Bar EXCEPT !.beyond = TRUE], Piece("desk", "overhead", FALSE),
               Piece("booth", "overhead", FALSE)},
              {Bar, Piece("gate", "entrances", FALSE), Piece("pit", "barrier", TRUE)}}

Item(id, kind) == [id |-> id, kind |-> kind]
MCPosts == {[hidden |-> {"bar"}, custom |-> <<Item("desk", "obstacle")>>],
            [hidden |-> {"desk"}, custom |-> <<Item("rail", "area")>>],
            [hidden |-> {}, custom |-> <<Item("rail", "area"), Item("rail", "overhead")>>]}

-----------------------------------------------------------------------------
(* Forms: tiers one after the other, one pool, an overlap, an open pool.   *)

Tier(start, end, capacity) == [start |-> start, end |-> end, capacity |-> capacity]
Form(first, second) == (p1 :> first) @@ (p2 :> second)
MCForms == {Form(Tier(0, 1, 1), Tier(1, 2, 1)), Form(Tier(0, 2, 2), NoPool),
            Form(Tier(0, 2, 1), Tier(1, 2, 1)), Form(Tier(Never, Never, 1), Tier(0, 1, 1)),
            Form(NoPool, Tier(0, 1, 1))}
MCTimes == {[gates |-> 43, end |-> 27], [gates |-> 67, end |-> 51], [gates |-> 69, end |-> 75]}
Simple == [p \in PoolId |-> IF p = p1 THEN [start |-> 0, end |-> 2, capacity |-> 2, sold |-> 0]
                            ELSE NoPool]

-----------------------------------------------------------------------------

VARIABLE component

servicesVars == <<component, cancelVars, mailVars, eventRowVars, gateVars, poolVars,
                  layoutVars, roomVars, editVars>>

\* Components that do not run start in one way only.
ServicesInit ==
    /\ component \in {"cancellation", "mail", "calendar", "gate", "pools", "documents",
                      "layouts", "halls", "editing"}
    /\ CancellationInit /\ (component # "cancellation" => concurrent = FALSE)
    /\ MailInit
    /\ CalendarInit
    /\ GateInit
    /\ PoolInit /\ (component # "pools" => pool = Undated) /\ FewPools
    /\ LayoutInit
    /\ RoomsInit
    /\ component # "halls" => rooms[FirstRoom] = RoomOf(convert_hall(FirstExport), NoOverrides)
    /\ EditInit /\ (component # "editing" => happening.start = 2 /\ pools = Simple)
    /\ IF component = "documents" THEN DocumentInit ELSE document = [zones |-> <<>>, objects |-> <<>>]

ServicesNext ==
    \/ component = "cancellation" /\ CancellationNext
       /\ UNCHANGED <<component, mailVars, eventRowVars, gateVars, poolVars,
                      layoutVars, roomVars, editVars>>
    \/ component = "mail" /\ MailNext
       /\ UNCHANGED <<component, cancelVars, eventRowVars, gateVars, poolVars,
                      layoutVars, roomVars, editVars>>
    \/ component = "calendar" /\ CalendarNext
       /\ UNCHANGED <<component, cancelVars, mailVars, gateVars, poolVars,
                      layoutVars, roomVars, editVars>>
    \/ component = "gate" /\ GateNext
       /\ UNCHANGED <<component, cancelVars, mailVars, eventRowVars, poolVars,
                      layoutVars, roomVars, editVars>>
    \/ component = "pools" /\ PoolNext
       /\ UNCHANGED <<component, cancelVars, mailVars, eventRowVars, gateVars,
                      layoutVars, roomVars, editVars>>
    \/ component = "layouts" /\ LayoutNext
       /\ UNCHANGED <<component, cancelVars, mailVars, eventRowVars, gateVars, poolVars,
                      roomVars, editVars>>
    \/ component = "halls" /\ RoomsNext
       /\ UNCHANGED <<component, cancelVars, mailVars, eventRowVars, gateVars, poolVars, layoutVars,
                      editVars>>
    \/ component = "editing" /\ EditNext
       /\ UNCHANGED <<component, cancelVars, mailVars, eventRowVars, gateVars, poolVars,
                      layoutVars, roomVars>>

\* What is fair of a component that does not run is never enabled.
ServicesSpec ==
    /\ ServicesInit /\ [][ServicesNext]_servicesVars
    /\ CancellationFairness /\ MailFairness /\ CalendarFairness /\ GateFairness

ServicesTypeOK ==
    /\ CancellationTypeOK /\ MailTypeOK /\ CalendarTypeOK /\ GateTypeOK
    /\ PoolTypeOK /\ LayoutTypeOK /\ RoomsTypeOK /\ EditTypeOK

\* Nothing waits for ever, whatever dies or fails on the way: a buyer asked
\* about a cancelled event who does not answer is refunded or told so; "the
\* outbox row guarantees a cron retry" (tickets/sending.py), and rows that keep
\* failing do not keep younger ones from being sent; calendar tasks are done or
\* given up; and scans queued on a scanner reach the server, unless its page was
\* loaded again after the gate had closed.  There is always a later time with
\* nothing left to do.
NothingWaitsForever ==
    []<>(/\ \A o \in Buyer : decision[o] # "AWAITING"
         /\ \A m \in Mail : mail[m].status # "PENDING"
         /\ \A i \in DOMAIN tasks : tasks[i].status # "PENDING"
         /\ \A d \in Scanner \ shut_out : queue[d] = <<>>)
=============================================================================
