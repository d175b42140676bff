--------------------------- MODULE SeatSelection ---------------------------
(***************************************************************************)
(* What a buyer may choose on a seat map and what it costs: the rows of an *)
(* accepted layout, some of them blocked by staff.  Prices are in grosze.  *)
(***************************************************************************)
EXTENDS LayoutDocuments

CONSTANTS
    MAX_SEATS_PER_ORDER, max_tickets_per_order,
    PoolPrices      \* price_gross of pools

ASSUME SelectionAssumption ==
    /\ MAX_SEATS_PER_ORDER \in Nat \ {0} /\ max_tickets_per_order \in Nat
    /\ PoolPrices \subseteq Int

\* Other zones than the base are rounded to whole zloty.
zone_price(base, percent) ==
    IF percent = 100 THEN base ELSE 100 * ((base * percent + 5000) \div 10000)

\* The legend of the buyer's map.
zone_prices(d, base) == [code \in Codes(d) |-> zone_price(base, zone_percents(d, code))]

\* The rows of a group, their keys, and the rule one of them has.
Group(rows, group) == {s \in DOMAIN rows : rows[s].group_key = group}
GroupKeys(rows, group) == {rows[s].seat_key : s \in Group(rows, group)}
GroupMode(rows, group) == rows[CHOOSE s \in DOMAIN rows : rows[s].group_key = group].sell_mode

\* A table sold as a whole goes with all its seats that are not blocked; whole
\* tables do not count against the limit of single seats.
selection_problem(rows, blocked, chosen) ==
    LET seats == {s \in DOMAIN rows : rows[s].seat_key \in chosen}
        groups == {rows[s].group_key : s \in seats}
        whole == {g \in groups : GroupKeys(rows, g) \ blocked \subseteq chosen}
        tables == {g \in whole : GroupMode(rows, g) \in {"TABLE", "BOTH"}}
        single == {s \in seats : rows[s].group_key \notin tables}
    IN \/ chosen = {} \/ Cardinality(chosen) > MAX_SEATS_PER_ORDER
       \/ \E g \in groups \ whole : GroupMode(rows, g) = "TABLE"
       \/ Cardinality(single) > max_tickets_per_order

-----------------------------------------------------------------------------

\* A seat can be bought alone, or with all that is left of its table, which
\* may be too large: validate_layout does not know MAX_SEATS_PER_ORDER.
WithinReach(rows, blocked, group) ==
    \/ GroupMode(rows, group) # "TABLE" /\ max_tickets_per_order > 0
    \/ /\ GroupMode(rows, group) # "SEATS"
       /\ Cardinality(GroupKeys(rows, group) \ blocked) <= MAX_SEATS_PER_ORDER

\* Rows are distinguished by key (the constraint event_seat_unique_key), by the
\* place they print as, and by position on the map.
RowsApart(rows) ==
    /\ IsInjective([s \in DOMAIN rows |-> rows[s].seat_key])
    /\ IsInjective([s \in DOMAIN rows |->
                       <<rows[s].group_kind, rows[s].group_label, rows[s].seat_label>>])
    /\ IsInjective([s \in DOMAIN rows |-> rows[s].sort_index])

\* Seats cost what the map's legend says of their zone.
PricedAsDrawn(rows, base, legend) ==
    \A s \in DOMAIN rows :
        zone_price(base, rows[s].price_percent) =
            IF rows[s].category \in DOMAIN legend THEN legend[rows[s].category] ELSE base

\* Whatever staff block, some selection buys each seat within reach.
SeatsReachable(rows) ==
    LET keys == {rows[s].seat_key : s \in DOMAIN rows} IN
    \A blocked \in SUBSET keys : \A s \in DOMAIN rows :
        (rows[s].seat_key \notin blocked /\ WithinReach(rows, blocked, rows[s].group_key)) =>
            \E chosen \in SUBSET (keys \ blocked) :
                rows[s].seat_key \in chosen /\ ~selection_problem(rows, blocked, chosen)

\* Whatever the editor sends, what is stored can be sold: the rows of every
\* event that gets an accepted layout are told apart, as many as were drawn, cost
\* what the legend says and can be bought unless their table is too large; and a
\* stored layout is accepted as it is when it is saved, copied or moved again.
AcceptedLayoutsSell ==
    validate_layout(document) =>
        LET stored == clean_layout(document)
            rows == expand_seats(stored)
        IN /\ validate_layout(stored) /\ clean_layout(stored) = stored
           /\ RowsApart(rows)
           /\ layout_counts(stored).seats = Cardinality(OnSale(document))
           /\ \A base \in PoolPrices : PricedAsDrawn(rows, base, zone_prices(stored, base))
           /\ SeatsReachable(rows)
=============================================================================
