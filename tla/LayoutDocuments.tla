-------------------------- MODULE LayoutDocuments --------------------------
(***************************************************************************)
(* The document the seating editor sends: what validate_layout accepts,    *)
(* what clean_layout makes of it, and the rows of EventSeat it stands for. *)
(* Sizes and positions are one field, `drawn': within limits or not.  A    *)
(* label is a text and its look: padded with spaces, or in capitals.  A    *)
(* seat is the number of its object and its own number there.              *)
(***************************************************************************)
EXTENDS Integers, Sequences, FiniteSets, Functions

CONSTANTS
    MAX_OBJECTS, MAX_SEATS_TOTAL, MAX_ZONES,
    ZONE_PERCENT,       \* percentages a zone may have
    Documents           \* documents that editors send

SELL_MODES == {"SEATS", "TABLE", "BOTH"}

DocumentLabel == [text : STRING, look : {"plain", "padded", "capitals"}]
DocumentSeat == [id : STRING, label : DocumentLabel, disabled : BOOLEAN]
DocumentObject ==
    [id : STRING, type : {"table", "row", "zone"}, label : DocumentLabel, drawn : BOOLEAN,
     sell_mode : SELL_MODES \cup {"unset"}, category : STRING, seats : Seq(DocumentSeat)]
Document == [zones : Seq([code : STRING, percent : Int]), objects : Seq(DocumentObject)]

ASSUME DocumentsAssumption ==
    /\ Documents \subseteq Document
    /\ {MAX_OBJECTS, MAX_SEATS_TOTAL, MAX_ZONES} \subseteq Nat /\ ZONE_PERCENT \subseteq Int

VARIABLE document       \* one of them, as it arrives

strip(label) == IF label.look = "padded" THEN [label EXCEPT !.look = "plain"] ELSE label
Empty(label) == label.text = ""

Sellable(d) == {i \in DOMAIN d.objects : d.objects[i].type # "zone"}
Bucket(o) == IF o.type = "row" THEN "ROW" ELSE "TABLE"
Codes(d) == {d.zones[i].code : i \in DOMAIN d.zones}

Seats(d) == UNION {{i} \X DOMAIN d.objects[i].seats : i \in Sellable(d)}
SeatAt(d, s) == d.objects[s[1]].seats[s[2]]
OnSale(d) == {s \in Seats(d) : ~SeatAt(d, s).disabled}

_validate_zones(zones) ==
    /\ Len(zones) <= MAX_ZONES
    /\ IsInjective([i \in DOMAIN zones |-> zones[i].code])
    /\ \A i \in DOMAIN zones : zones[i].percent \in ZONE_PERCENT

\* A key that is not sent counts as its default.
Mode(o) == IF o.sell_mode = "unset" THEN "SEATS" ELSE o.sell_mode

ObjectValid(o, codes) ==
    /\ o.drawn /\ ~Empty(o.label)
    /\ o.type # "zone" =>
        /\ Mode(o) \in SELL_MODES
        /\ o.type = "row" => Mode(o) = "SEATS"
        /\ codes # {} => o.category \in codes \cup {""}
        /\ o.seats # <<>>
        /\ \A j \in DOMAIN o.seats : ~Empty(o.seats[j].label)
        /\ IsInjective([j \in DOMAIN o.seats |-> o.seats[j].label.text])

\* Labels are compared without spaces and case, tables and rows apart.
Labelled(d) ==
    IsInjective([i \in Sellable(d) |-> <<Bucket(d.objects[i]), d.objects[i].label.text>>])

\* Slip: seat ids are compared within a table only.
ValidatePerTable(d) ==
    /\ Len(d.objects) <= MAX_OBJECTS
    /\ _validate_zones(d.zones)
    /\ IsInjective([i \in DOMAIN d.objects |-> d.objects[i].id])
    /\ \A i \in DOMAIN d.objects :
           /\ ObjectValid(d.objects[i], Codes(d))
           /\ IsInjective([j \in DOMAIN d.objects[i].seats |-> d.objects[i].seats[j].id])
    /\ Labelled(d)
    /\ Cardinality(Seats(d)) <= MAX_SEATS_TOTAL
    /\ OnSale(d) # {}

validate_layout(d) ==
    /\ Len(d.objects) <= MAX_OBJECTS
    /\ _validate_zones(d.zones)
    /\ IsInjective([i \in DOMAIN d.objects |-> d.objects[i].id])
    /\ \A i \in DOMAIN d.objects : ObjectValid(d.objects[i], Codes(d))
    /\ Labelled(d)
    /\ IsInjective([s \in Seats(d) |-> SeatAt(d, s).id])
    /\ Cardinality(Seats(d)) <= MAX_SEATS_TOTAL
    /\ OnSale(d) # {}

CleanSeat(seat) == [seat EXCEPT !.label = strip(@)]
CleanObject(o) ==
    IF o.type = "zone" THEN o
    ELSE [o EXCEPT !.label = strip(@), !.sell_mode = Mode(o),
                   !.seats = [j \in DOMAIN @ |-> CleanSeat(@[j])]]

\* Of a document that has been accepted.
clean_layout(d) == [d EXCEPT !.objects = [i \in DOMAIN @ |-> CleanObject(@[i])]]

zone_percents(d, code) ==
    IF code \in Codes(d)
    THEN d.zones[CHOOSE i \in DOMAIN d.zones : d.zones[i].code = code].percent ELSE 100

\* The seats drawn up to s, with those that have been taken out.
UpTo(d, s) == {t \in Seats(d) : t[1] < s[1] \/ (t[1] = s[1] /\ t[2] <= s[2])}

\* The row a seat on sale stands for; sort_index numbers the rows as drawn.
SeatRow(d, s) ==
    LET o == d.objects[s[1]]
    IN [seat_key |-> SeatAt(d, s).id, group_key |-> o.id, group_kind |-> Bucket(o),
        group_label |-> o.label, seat_label |-> SeatAt(d, s).label,
        sell_mode |-> o.sell_mode, category |-> o.category,
        price_percent |-> zone_percents(d, o.category),
        sort_index |-> Cardinality(UpTo(d, s))]

expand_seats(d) == [s \in OnSale(d) |-> SeatRow(d, s)]

layout_counts(d) ==
    [seats |-> Cardinality(DOMAIN expand_seats(d)), tables |-> Cardinality(Sellable(d))]

DocumentInit == document \in Documents
=============================================================================
