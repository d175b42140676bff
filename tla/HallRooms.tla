----------------------------- MODULE HallRooms -----------------------------
(***************************************************************************)
(* The hall and its versions: what is drawn of the technical model, what   *)
(* the owner hides or adds, and the drawing on the upcoming seat maps.     *)
(* Shapes are left out: an element is drawn or not, and lies beyond the    *)
(* north wall or not.  Requests load a room, save it and redraw the maps   *)
(* in statements of their own.                                             *)
(***************************************************************************)
EXTENDS Naturals, Sequences, SequencesExt

CONSTANTS
    NORTH_WALL_ID, HIDDEN_WALLS, HIDDEN_OVERHEAD, SHOWN_ENTRANCES,
    Exports,        \* files of the technical model: sets of elements
    Posts,          \* what the room editor may send
    MAX_CUSTOM,
    Owner,          \* requests and runs of import_hall
    RoomId, FirstRoom,
    MaxRoomSaves,   \* bound: times a room is loaded to be saved, none once
                    \* two requests have met
    NoRoom

Element == [id : STRING, key : {"obstacles", "entrances", "context"}, custom : BOOLEAN]
Overrides == [hidden : SUBSET STRING, custom : Seq([id : STRING, kind : STRING])]
RoomRow == [base : SUBSET Element, overrides : Overrides, geometry : SUBSET Element]

ASSUME HallAssumption ==
    /\ Exports \subseteq
           SUBSET [id : STRING, category : STRING, drawn : BOOLEAN, beyond : BOOLEAN]
    /\ Posts \subseteq Overrides
    /\ FirstRoom \in RoomId /\ NoRoom \notin RoomRow
    /\ {MAX_CUSTOM, MaxRoomSaves} \subseteq Nat

VARIABLES
    rooms,          \* seating_room: base_geometry, overrides, geometry
    drawing,        \* room_snapshot of the upcoming maps of each room's layouts
    saving,        \* the requests
    wishes,         \* history: the overrides accepted last
    behind,         \* history: rooms saved without redrawing the maps
    met,            \* history: rooms on which two requests have worked at once
    loads           \* times a room was loaded to be saved

roomVars == <<rooms, drawing, saving, wishes, behind, met, loads>>

BLOCKING == {"walls", "columns", "stage", "stairs", "platforms", "fixtures"}
CUSTOM_KINDS == {"overhead", "obstacle", "area"}
NoOverrides == [hidden |-> {}, custom |-> <<>>]

\* Ids of elements of the technical model, by the key they are drawn under.
Drawn(e, key) == [id |-> e.id, key |-> key, custom |-> FALSE]

\* The hall ends at the north wall, if the file has one.
_owner_view(export, geometry) ==
    LET beyond == {e.id : e \in {x \in export : x.beyond /\ x.category # "barrier"}} \ {NORTH_WALL_ID}
        Kept(e) == CASE e.key = "obstacles" -> e.id \notin HIDDEN_WALLS /\ e.id \notin beyond
                     [] e.key = "entrances" -> e.id \in SHOWN_ENTRANCES
                     [] e.key = "context" -> e.id \notin beyond
    IN IF \E e \in geometry : e.key = "obstacles" /\ e.id = NORTH_WALL_ID
       THEN {e \in geometry : Kept(e)} ELSE geometry

convert_hall(export) ==
    _owner_view(export,
        {Drawn(e, "obstacles") : e \in {x \in export : x.category \in BLOCKING /\ x.drawn}}
        \cup {Drawn(e, "entrances") : e \in {x \in export : x.category = "entrances" /\ x.drawn}}
        \cup {Drawn(e, "context") : e \in {x \in export :
                 \/ x.category \in {"context_rooms", "barrier"}
                 \/ x.category = "overhead" /\ x.drawn /\ x.id \notin HIDDEN_OVERHEAD}})

element_ids(geometry) == {e.id : e \in geometry}

DrawnByHand(item) ==
    [id |-> item.id, key |-> IF item.kind = "obstacle" THEN "obstacles" ELSE "context",
     custom |-> TRUE]

apply_overrides(base, overrides) ==
    {e \in base : e.id \notin overrides.hidden} \cup {DrawnByHand(c) : c \in ToSet(overrides.custom)}

\* The refusals of clean_overrides; Accepted(data, base) = FALSE is its ValidationError.
Accepted(data, base) ==
    /\ Len(data.custom) <= MAX_CUSTOM
    /\ \A i \in DOMAIN data.custom :
           /\ data.custom[i].id \notin element_ids(base)
           /\ data.custom[i].kind \in CUSTOM_KINDS
           /\ \A j \in 1..(i - 1) : data.custom[j].id # data.custom[i].id

clean_overrides(data, base) ==
    [hidden |-> data.hidden \cap element_ids(base), custom |-> data.custom]

-----------------------------------------------------------------------------

NoRequest == [pc |-> "idle"]
WorksOn(w, r) == saving[w].pc # "idle" /\ saving[w].room = r

RoomOf(base, overrides) ==
    [base |-> base, overrides |-> overrides, geometry |-> apply_overrides(base, overrides)]

\* A hall imported some time ago, with what the owner has made of it since.
RoomsInit ==
    /\ \E export \in Exports, data \in Posts \cup {NoOverrides} :
           LET base == convert_hall(export)
               overrides == clean_overrides(data, base)
           IN /\ Accepted(data, base)
              /\ rooms = [r \in RoomId |-> IF r = FirstRoom THEN RoomOf(base, overrides) ELSE NoRoom]
              /\ drawing = [r \in RoomId |-> IF r = FirstRoom THEN apply_overrides(base, overrides)
                                             ELSE {}]
              /\ wishes = [r \in RoomId |-> IF r = FirstRoom THEN overrides ELSE NoOverrides]
    /\ saving = [w \in Owner |-> NoRequest]
    /\ behind = [r \in RoomId |-> FALSE] /\ met = [r \in RoomId |-> FALSE] /\ loads = 0

\* The request has made `row' of the room it loaded; `refresh' is its
\* checkbox, `wish' what the owner will find accepted.
LoadRoom(w, r, row, wish, refresh, whole) ==
    /\ saving[w].pc = "idle" /\ rooms[r] # NoRoom
    /\ loads < MaxRoomSaves /\ \A q \in RoomId : ~met[q]
    /\ loads' = loads + 1
    /\ saving' = [saving EXCEPT ![w] =
           [pc |-> "save", room |-> r, row |-> row, wish |-> wish, refresh |-> refresh,
            whole |-> whole]]
    /\ met' = [met EXCEPT ![r] = @ \/ \E v \in Owner : WorksOn(v, r)]
    /\ UNCHANGED <<rooms, drawing, wishes, behind>>

\* Refused posts change nothing.
save_overrides(w, r, data, refresh) ==
    LET overrides == clean_overrides(data, rooms[r].base) IN
    /\ rooms[r] # NoRoom /\ Accepted(data, rooms[r].base)
    /\ LoadRoom(w, r, RoomOf(rooms[r].base, overrides), overrides, refresh, FALSE)

reset_room(w, r, refresh) ==
    LoadRoom(w, r, [RoomOf(rooms[r].base, NoOverrides) EXCEPT !.geometry = rooms[r].base], NoOverrides, refresh, FALSE)

\* Slip: the owner's changes are not drawn until the next save.
ImportPlain(w, r, export, refresh) ==
    LoadRoom(w, r, [RoomOf(convert_hall(export), rooms[r].overrides) EXCEPT
                     !.geometry = convert_hall(export)], wishes[r], refresh, TRUE)

\* A new export; the owner's changes stay, and are not cleaned again.
import_hall(w, r, export, refresh) ==
    LoadRoom(w, r, RoomOf(convert_hall(export), rooms[r].overrides), wishes[r], refresh, TRUE)

\* The room editor writes overrides and geometry, import_hall the whole row.
SaveRoom(w) ==
    LET job == saving[w] r == job.room IN
    /\ job.pc = "save"
    /\ rooms' = [rooms EXCEPT ![r] = IF job.whole THEN job.row ELSE [job.row EXCEPT !.base = rooms[r].base]]
    /\ wishes' = [wishes EXCEPT ![r] = job.wish]
    /\ behind' = [behind EXCEPT ![r] = TRUE]
    /\ saving' = [saving EXCEPT ![w] = IF job.refresh THEN [job EXCEPT !.pc = "refresh"] ELSE NoRequest]
    /\ UNCHANGED <<drawing, met, loads>>

\* Maps of events that are over or cancelled keep theirs.
refresh_maps(w) ==
    LET job == saving[w] IN
    /\ job.pc = "refresh"
    /\ drawing' = [drawing EXCEPT ![job.room] = job.row.geometry]
    /\ behind' = [behind EXCEPT ![job.room] = FALSE]
    /\ saving' = [saving EXCEPT ![w] = NoRequest]
    /\ UNCHANGED <<rooms, wishes, met, loads>>

\* A request dies between its statements.
LoseSave(w) ==
    /\ saving[w].pc = "refresh"
    /\ saving' = [saving EXCEPT ![w] = NoRequest]
    /\ UNCHANGED <<rooms, drawing, wishes, behind, met, loads>>

\* A version of the hall, with the changes it has now; no map shows it yet.
room_copy_view(r, copy) ==
    /\ rooms[r] # NoRoom /\ rooms[copy] = NoRoom
    /\ rooms' = [rooms EXCEPT ![copy] = rooms[r]]
    /\ wishes' = [wishes EXCEPT ![copy] = wishes[r]]
    /\ met' = [met EXCEPT ![copy] = met[r]]
    /\ drawing' = [drawing EXCEPT ![copy] = rooms[r].geometry]
    /\ UNCHANGED <<saving, behind, loads>>

RoomsNext ==
    \/ \E w \in Owner, r \in RoomId, refresh \in BOOLEAN :
          \/ \E data \in Posts : save_overrides(w, r, data, refresh)
          \/ reset_room(w, r, refresh)
          \/ \E export \in Exports : import_hall(w, r, export, refresh)
    \/ \E w \in Owner : SaveRoom(w) \/ refresh_maps(w) \/ LoseSave(w)
    \/ \E r, copy \in RoomId : room_copy_view(r, copy)

RoomsSpec == RoomsInit /\ [][RoomsNext]_roomVars

-----------------------------------------------------------------------------

RoomsTypeOK ==
    /\ loads \in 0..MaxRoomSaves
    /\ \A w \in Owner : saving[w].pc \in {"idle", "save", "refresh"}
    /\ \A r \in RoomId : rooms[r] # NoRoom =>
           /\ Len(rooms[r].overrides.custom) <= MAX_CUSTOM
           /\ \A e \in rooms[r].geometry : e.key \in {"obstacles", "entrances", "context"}

\* "Room.geometry (read by every map, editor and validator) = base +
\* overrides", and "overrides survive a re-import" (seating/room.py): what the
\* owner drew last is drawn, what the owner hid is not, and maps redrawn since
\* show just that; unless two requests worked on the room at once.  Whatever
\* they do, the overrides of a room are always those its geometry is drawn with.
HallKeepsWishes ==
    \A r \in RoomId : rooms[r] # NoRoom =>
        LET room == rooms[r] IN
        /\ {e \in room.geometry : e.custom} = {DrawnByHand(c) : c \in ToSet(room.overrides.custom)}
        /\ \A e \in room.geometry : ~e.custom => e.id \notin room.overrides.hidden
        /\ ~met[r] =>
               /\ room.geometry = apply_overrides(room.base, wishes[r])
               /\ ~behind[r] => drawing[r] = room.geometry
=============================================================================
