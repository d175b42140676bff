--------------------------- MODULE SeatingLayouts ---------------------------
(***************************************************************************)
(* One layout of the library, edited by several people, and the upcoming   *)
(* events that sell their seats by it.  A saved layout is carried over to  *)
(* them one transaction at a time; a version sent with each save guards    *)
(* against the changes of somebody else.                                   *)
(***************************************************************************)
EXTENDS LayoutDocuments, FiniteSets

CONSTANTS
    Editor,         \* browser tabs
    Concert,        \* events
    Attached,       \* those that sell by the layout at first
    Drafts,         \* documents that editors draw
    FirstDraft,     \* what its first save stored; before it no event can use the layout
    Halls,          \* rooms and versions of rooms
    MaxVersions,    \* times the layout is written
    NoMap           \* an event without a seat map

ASSUME LayoutsAssumption ==
    /\ IsFiniteSet(Editor) /\ Halls # {} /\ MaxVersions \in Nat \ {0}
    /\ Drafts \subseteq Document /\ FirstDraft \in Drafts /\ validate_layout(FirstDraft)

VARIABLES
    layout,         \* seating_layouts: data, room and updated_at
    seat_map,       \* event_seat_map and the keys of event_seats
    sold_seats,     \* held or sold seats of each event
    gone,           \* seats that orders still hold, but whose rows a redraw has deleted
    snatched,       \* history: those, and the ones swaps and moves took under a redraw
    upcoming,       \* events that have neither started nor been cancelled
    tab,            \* the editors
    refused,        \* history: events whose last update was refused
    overlapped, broken
                    \* history: two requests met; a request died half way

seatVars == <<sold_seats, gone, snatched>>
layoutVars == <<document, layout, seat_map, seatVars, upcoming, tab, refused, overlapped,
                broken>>

StoredDrafts == {clean_layout(d) : d \in Drafts}

Keys(d) == LET rows == expand_seats(d) IN {rows[i].seat_key : i \in DOMAIN rows}
MapOf(lay) == [data |-> lay.data, room |-> lay.room, keys |-> Keys(lay.data)]

Closed == [pc |-> "closed"]
Busy(w) == tab[w].pc \in {"store", "sync", "redraw", "attach"}

\* A redraw holds the row of its event from the plan to the commit.
Redrawing(e) == \E w \in Editor : tab[w].pc = "redraw" /\ tab[w].event = e

LayoutInit ==
    /\ layout = [data |-> clean_layout(FirstDraft), room |-> CHOOSE h \in Halls : TRUE,
                 version |-> 1]
    /\ seat_map = [e \in Concert |-> IF e \in Attached THEN MapOf(layout) ELSE NoMap]
    /\ sold_seats = [e \in Concert |-> {}] /\ gone = sold_seats /\ snatched = sold_seats
    /\ upcoming = Concert
    /\ tab = [w \in Editor |-> Closed]
    /\ refused = {} /\ overlapped = FALSE /\ broken = FALSE

\* A request gets to work on the layout as it loads it.
Works(w, job) ==
    /\ tab' = [tab EXCEPT ![w] = job]
    /\ overlapped' = (overlapped \/ \E v \in Editor \ {w} : Busy(v))

\* Bounds: how often the layout is written, and once requests have met, one has
\* died or a seat was taken under a redraw no new one begins.
MoreSaves == layout.version + Cardinality({w \in Editor : tab[w].pc = "store"}) < MaxVersions
Orderly == ~overlapped /\ ~broken
MoreWork == Orderly /\ \A e \in Concert : snatched[e] = {}

Quiet == UNCHANGED <<document, layout, seat_map, seatVars, upcoming, refused, broken>>

upcoming_maps == {e \in upcoming : seat_map[e] # NoMap}

\* What a stored document would do to an event, and to all that it affects.
_sync_plan(e, d) == [event |-> e, conflicts |-> sold_seats[e] \ Keys(d)]
propagation_preview(d) == {_sync_plan(e, clean_layout(d)) : e \in upcoming_maps}

-----------------------------------------------------------------------------
(* seating/admin.py.                                                       *)

editor_view(w) ==
    /\ ~Busy(w) /\ MoreWork
    /\ tab' = [tab EXCEPT ![w] = [pc |-> "open", version |-> layout.version]]
    /\ Quiet /\ UNCHANGED overlapped

\* The first save asks for confirmation if events are affected.  Refused
\* saves, stale or invalid, leave the tab as it is.
data_view(w, d) ==
    /\ tab[w].pc = "open" /\ MoreSaves /\ MoreWork
    /\ tab[w].version = layout.version
    /\ validate_layout(d)
    /\ IF propagation_preview(d) # {}
       THEN /\ tab' = [tab EXCEPT ![w] = [pc |-> "asked", version |-> @.version, draft |-> d]]
            /\ UNCHANGED overlapped
       ELSE Works(w, [pc |-> "store", version |-> tab[w].version, 
                      put |-> [layout EXCEPT !.data = clean_layout(d)]])
    /\ Quiet

Answered(w) ==
    [pc |-> "store", version |-> tab[w].version,
     put |-> [layout EXCEPT !.data = clean_layout(tab[w].draft)]]

\* Slip: the version is not looked at again.
ConfirmUnseen(w) ==
    /\ tab[w].pc = "asked" /\ MoreSaves /\ MoreWork
    /\ Works(w, Answered(w))
    /\ Quiet

\* The confirmed save passes the same checks again.
Confirm(w) ==
    /\ tab[w].pc = "asked" /\ MoreSaves /\ MoreWork
    /\ tab[w].version = layout.version
    /\ Works(w, Answered(w))
    /\ Quiet

\* Another hall, for the layout as it is; no version is sent with it, and the
\* page is loaded again afterwards.
layout_room_view(w, hall) ==
    /\ tab[w].pc = "open" /\ MoreSaves /\ MoreWork
    /\ hall # layout.room
    /\ Works(w, [pc |-> "store", version |-> layout.version,
                 put |-> [layout EXCEPT !.room = hall]])
    /\ Quiet

\* Archived or taken back: only updated_at changes here.
archive_view ==
    /\ MoreSaves /\ MoreWork
    /\ layout' = [layout EXCEPT !.version = @ + 1]
    /\ overlapped' = \E w \in Editor : Busy(w)
    /\ UNCHANGED <<document, seat_map, seatVars, upcoming, tab, refused, broken>>

\* save_layout writes the whole row, then the upcoming events are listed.
save_layout(w) ==
    LET stored == [tab[w].put EXCEPT !.version = layout.version + 1] IN
    /\ tab[w].pc = "store"
    /\ layout' = stored
    /\ tab' = [tab EXCEPT ![w] = [pc |-> "sync", put |-> stored, todo |-> upcoming_maps]]
    /\ UNCHANGED <<document, seat_map, seatVars, upcoming, refused, overlapped, broken>>

\* Slip: the first event that refuses ends the request.
SyncUntilRefused(w, e) ==
    /\ tab[w].pc = "sync" /\ e \in tab[w].todo /\ ~Redrawing(e)
    /\ IF _sync_plan(e, tab[w].put.data).conflicts = {}
       THEN /\ tab' = [tab EXCEPT ![w] =
                       [pc |-> "redraw", event |-> e, put |-> @.put, todo |-> @.todo]]
            /\ snatched' = [snatched EXCEPT ![e] = gone[e]]
            /\ UNCHANGED refused
       ELSE /\ tab' = [tab EXCEPT ![w].todo = {}]
            /\ refused' = refused \cup {e}
            /\ UNCHANGED snatched
    /\ UNCHANGED <<document, layout, seat_map, sold_seats, gone, upcoming, overlapped, broken>>

\* sync_event_map, with the layout as this request saved it: it locks the event
\* and reads its seats; refused if one that somebody holds would disappear.
sync_event_map(w, e) ==
    /\ tab[w].pc = "sync" /\ e \in tab[w].todo /\ ~Redrawing(e)
    /\ IF _sync_plan(e, tab[w].put.data).conflicts = {}
       THEN /\ tab' = [tab EXCEPT ![w] =
                       [pc |-> "redraw", event |-> e, put |-> @.put, todo |-> @.todo]]
            /\ snatched' = [snatched EXCEPT ![e] = gone[e]]
            /\ UNCHANGED refused
       ELSE /\ tab' = [tab EXCEPT ![w].todo = @ \ {e}]
            /\ refused' = refused \cup {e}
            /\ UNCHANGED snatched
    /\ UNCHANGED <<document, layout, seat_map, sold_seats, gone, upcoming, overlapped, broken>>

\* Then the rows are deleted by their keys, whoever holds them by now, and the
\* others follow the layout.
ReplaceSeats(w) ==
    LET e == tab[w].event
        new == MapOf(tab[w].put) IN
    /\ tab[w].pc = "redraw"
    /\ seat_map' = [seat_map EXCEPT ![e] = new]
    /\ gone' = [gone EXCEPT ![e] = @ \cup (sold_seats[e] \ new.keys)]
    /\ sold_seats' = [sold_seats EXCEPT ![e] = @ \cap new.keys]
    /\ snatched' = [snatched EXCEPT ![e] = @ \cap gone'[e]]
    /\ refused' = refused \ {e}
    /\ tab' = [tab EXCEPT ![w] = [pc |-> "sync", put |-> @.put, todo |-> @.todo \ {e}]]
    /\ UNCHANGED <<document, layout, upcoming, overlapped, broken>>

\* The answer carries the new version to the tab.
EndSave(w) ==
    /\ tab[w].pc = "sync" /\ tab[w].todo = {}
    /\ tab' = [tab EXCEPT ![w] = [pc |-> "open", version |-> tab[w].put.version]]
    /\ Quiet /\ UNCHANGED overlapped

\* A manager attaches the layout to an event: it is loaded ...
event_map_view(w, e) ==
    /\ ~Busy(w) /\ MoreWork /\ e \in upcoming
    /\ Works(w, [pc |-> "attach", event |-> e, put |-> layout])
    /\ Quiet

\* ... and its seats are made, if none is sold by then.
attach_layout(w) ==
    LET e == tab[w].event IN
    /\ tab[w].pc = "attach" /\ ~Redrawing(e)
    /\ IF sold_seats[e] \cup gone[e] = {}
       THEN seat_map' = [seat_map EXCEPT ![e] = MapOf(tab[w].put)] /\ refused' = refused \ {e}
       ELSE UNCHANGED <<seat_map, refused>>
    /\ tab' = [tab EXCEPT ![w] = Closed]
    /\ UNCHANGED <<document, layout, seatVars, upcoming, overlapped, broken>>

\* The hall of the layout has been redrawn, and is put on the upcoming maps.
HallRedrawn ==
    /\ MoreWork
    /\ seat_map' = [e \in Concert |-> IF e \in upcoming_maps
                        THEN [seat_map[e] EXCEPT !.room = layout.room] ELSE seat_map[e]]
    /\ UNCHANGED <<document, layout, seatVars, upcoming, tab, refused, overlapped, broken>>

\* A request dies between two transactions, or in one that is rolled back.
LoseRequest(w) ==
    /\ tab[w].pc \in {"sync", "redraw"}
    /\ tab' = [tab EXCEPT ![w] = Closed]
    /\ broken' = TRUE
    /\ UNCHANGED <<document, layout, seat_map, seatVars, upcoming, refused, overlapped>>

-----------------------------------------------------------------------------
(* Buyers and time.                                                        *)

\* A seat that every draft has never stands in the way, and is not followed.
SeatsAtRisk == {k \in UNION {Keys(d) : d \in StoredDrafts} : \E d \in StoredDrafts : k \notin Keys(d)}

\* Orders that begin or end count their places in the event's row before they
\* touch the seats, so they wait for a redraw.
TakeSeat(e, k) ==
    /\ seat_map[e] # NoMap /\ ~Redrawing(e) /\ k \in seat_map[e].keys \ sold_seats[e]
    /\ sold_seats' = [sold_seats EXCEPT ![e] = @ \cup {k}]
    /\ UNCHANGED <<document, layout, seat_map, gone, snatched, upcoming, tab, refused, overlapped,
                   broken>>

FreeSeat(e, k) ==
    /\ ~Redrawing(e)
    /\ \/ k \in sold_seats[e] /\ sold_seats' = [sold_seats EXCEPT ![e] = @ \ {k}] /\ UNCHANGED gone
       \/ k \in gone[e] /\ gone' = [gone EXCEPT ![e] = @ \ {k}] /\ UNCHANGED sold_seats
    /\ UNCHANGED <<document, layout, seat_map, snatched, upcoming, tab, refused, overlapped,
                   broken>>

\* A buyer's swap and the staff's move leave the event's row alone; from a seat
\* that is not followed to k, or from k to one.
MoveSeat(e, k) ==
    /\ seat_map[e] # NoMap /\ MoreWork
    /\ \/ /\ k \in seat_map[e].keys \ sold_seats[e]
          /\ sold_seats' = [sold_seats EXCEPT ![e] = @ \cup {k}]
          /\ snatched' = IF Redrawing(e) THEN [snatched EXCEPT ![e] = @ \cup {k}] ELSE snatched
       \/ /\ k \in sold_seats[e]
          /\ sold_seats' = [sold_seats EXCEPT ![e] = @ \ {k}]
          /\ UNCHANGED snatched
    /\ UNCHANGED <<document, layout, seat_map, gone, upcoming, tab, refused, overlapped, broken>>

\* Bound: one event passes, or is cancelled.
EventPasses(e) ==
    /\ upcoming = Concert /\ MoreWork
    /\ upcoming' = upcoming \ {e}
    /\ UNCHANGED <<document, layout, seat_map, seatVars, tab, refused, overlapped, broken>>

LayoutNext ==
    \/ \E w \in Editor :
          \/ editor_view(w) \/ Confirm(w) \/ save_layout(w) \/ EndSave(w) \/ attach_layout(w)
          \/ ReplaceSeats(w) \/ LoseRequest(w)
          \/ \E d \in Drafts : data_view(w, d)
          \/ \E hall \in Halls : layout_room_view(w, hall)
          \/ \E e \in Concert : sync_event_map(w, e) \/ event_map_view(w, e)
    \/ archive_view \/ HallRedrawn
    \/ \E e \in Concert : \/ EventPasses(e)
                          \/ \E k \in SeatsAtRisk :
                                 TakeSeat(e, k) \/ FreeSeat(e, k) \/ MoveSeat(e, k)

LayoutSpec == LayoutInit /\ [][LayoutNext]_layoutVars

-----------------------------------------------------------------------------

LayoutTypeOK ==
    /\ layout.version \in 1..MaxVersions /\ layout.room \in Halls
    /\ layout.data \in StoredDrafts
    /\ \A e \in Concert : seat_map[e] = NoMap \/ seat_map[e].room \in Halls
    /\ refused \subseteq Concert /\ upcoming \subseteq Concert

\* What the layout shows is what its upcoming events sell, but for events that
\* refused, as long as no request meets another or dies half way; and whatever
\* happens, no seat that was held or sold when a redraw was planned goes with
\* it: only one that a swap or a move takes between the plan and the deletion.
MapsFollowLayout ==
    /\ (~overlapped /\ ~broken /\ \A w \in Editor : ~Busy(w)) =>
           \A e \in upcoming_maps \ refused :
               seat_map[e].data = layout.data /\ seat_map[e].room = layout.room
    /\ \A e \in Concert : gone[e] \subseteq snatched[e]

\* A save never replaces a document its editor has not seen, however long the
\* tab or the question stays open; but for what another request stores after
\* this one has compared the versions (seating/admin.py:238).
SavesSeen ==
    [][\A w \in Editor : (tab[w].pc = "store" /\ layout' # layout /\ tab'[w] # tab[w]) =>
           overlapped \/ tab[w].version = layout.version]_layoutVars
=============================================================================
