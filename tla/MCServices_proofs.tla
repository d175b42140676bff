-------------------------- MODULE MCServices_proofs --------------------------
(***************************************************************************)
(* What is proved of each smaller component, said of the specification the *)
(* run checks: a step of one leaves the others as they are, so that every  *)
(* behaviour of MCServices is a behaviour of each of them.                 *)
(***************************************************************************)
EXTENDS MCServices, Services_proofs, EventCancellation_proofs, OfflineGate_proofs

-----------------------------------------------------------------------------
(* Every behaviour is one of each component.                               *)

LEMMA ServicesStart ==
    ServicesInit => /\ CancellationInit /\ MailInit /\ CalendarInit /\ GateInit
                    /\ PoolInit /\ LayoutInit /\ RoomsInit /\ EditInit
  BY DEF ServicesInit

\* No action of a component touches what another one keeps.
LEMMA ServicesStep ==
    ASSUME [ServicesNext]_servicesVars
    PROVE  /\ [CancellationNext]_cancelVars /\ [MailNext]_mailVars
           /\ [CalendarNext]_eventRowVars /\ [GateNext]_gateVars
           /\ [PoolNext]_poolVars /\ [LayoutNext]_layoutVars
           /\ [RoomsNext]_roomVars /\ [EditNext]_editVars
<1>1. CASE ServicesNext
  BY <1>1 DEF ServicesNext
<1>2. CASE UNCHANGED servicesVars
  BY <1>2 DEF servicesVars
<1> QED
  BY <1>1, <1>2

THEOREM ServicesAreComponents ==
    ServicesSpec => /\ CancellationSpec /\ MailSpec /\ CalendarSpec /\ GateSpec
                    /\ PoolSpec /\ LayoutSpec /\ RoomsSpec /\ EditSpec
<1>1. ServicesSpec => CancellationSpec /\ MailSpec
  BY ServicesStart, ServicesStep, PTL DEF ServicesSpec, CancellationSpec, MailSpec
<1>2. ServicesSpec => CalendarSpec /\ GateSpec
  BY ServicesStart, ServicesStep, PTL DEF ServicesSpec, CalendarSpec, GateSpec
<1>3. ServicesSpec => PoolSpec /\ LayoutSpec
  BY ServicesStart, ServicesStep, PTL DEF ServicesSpec, PoolSpec, LayoutSpec
<1>4. ServicesSpec => RoomsSpec /\ EditSpec
  BY ServicesStart, ServicesStep, PTL DEF ServicesSpec, RoomsSpec, EditSpec
<1> QED
  BY <1>1, <1>2, <1>3, <1>4

\* Whatever the components do, all of them keep their types.
THEOREM ServicesKeepTypes == ServicesSpec => []ServicesTypeOK
<1>1. (/\ CancellationTypeOK /\ MailTypeOK /\ CalendarTypeOK /\ GateTypeOK
       /\ PoolTypeOK /\ LayoutTypeOK /\ RoomsTypeOK /\ EditTypeOK) => ServicesTypeOK
  BY DEF ServicesTypeOK
<1> QED
  BY <1>1, ServicesAreComponents, CancellationTypes, MailTypesHold, CalendarTypesHold, GateTypesHold,
     PoolTypesHold, LayoutTypesHold, RoomTypesHold, EditTypesHold, PTL

\* What each component promises of its states: the invariants of the run.
THEOREM ServicesKeepPromises ==
    ServicesSpec => [](/\ PlacesFollowOrders /\ DecisionTellsMoney /\ EveryBuyerTold
                       /\ OneCopy /\ CalendarShowsEvent /\ NoEntryForgotten /\ PoolsTakeTurns
                       /\ MapsFollowLayout /\ HallKeepsWishes /\ PoolsStayApart /\ BuyersKnowDate)
  BY ServicesAreComponents, PlacesFollowOrdersAlways, DecisionTellsMoneyAlways, EveryBuyerToldAlways,
     OneCopyAlways, CalendarAlwaysShowsEvent, EntriesNeverForgotten, PoolsAlwaysTakeTurns,
     MapsAlwaysFollow, HallAlwaysKeepsWishes, PoolsAlwaysApart, BuyersAlwaysKnow, PTL

\* What each component promises of its steps: kept tickets, rows written back,
\* second scans, closed events and saves of layouts.
THEOREM ServicesKeepSteps ==
    ServicesSpec => KeptMeansKept /\ RowWritesMeant /\ SecondScanCaught /\ ClosedIsFinal /\ SavesSeen
<1>1. ServicesSpec => /\ CancellationSpec /\ CalendarSpec /\ GateSpec /\ PoolSpec /\ LayoutSpec
  BY ServicesAreComponents
<1> QED
  BY <1>1, KeptTicketsStay, WritesAlwaysMeant, SecondScansCaught, ClosedStaysClosed, SavesAlwaysSeen

-----------------------------------------------------------------------------
(* The document that arrives.                                              *)

LEMMA DocumentTyped == ServicesInit => document \in Document
<1>1. DocumentInit => document \in Document
  BY DocumentsAssumption DEF DocumentInit
<1>2. [zones |-> <<>>, objects |-> <<>>] \in Document
  BY DEF Document
<1> QED
  BY <1>1, <1>2 DEF ServicesInit

LEMMA DocumentStays == ASSUME [LayoutNext]_layoutVars PROVE document' = document
<1>1. ASSUME NEW w \in Editor,
             \/ editor_view(w) \/ Confirm(w) \/ save_layout(w) \/ EndSave(w) \/ attach_layout(w)
             \/ ReplaceSeats(w) \/ LoseRequest(w)
      PROVE  document' = document
  BY <1>1 DEF editor_view, Confirm, save_layout, EndSave, attach_layout, ReplaceSeats, LoseRequest,
              Quiet
<1>2. ASSUME NEW w \in Editor,
             \/ \E d \in Drafts : data_view(w, d)
             \/ \E hall \in Halls : layout_room_view(w, hall)
             \/ \E e \in Concert : sync_event_map(w, e) \/ event_map_view(w, e)
      PROVE  document' = document
  BY <1>2 DEF data_view, layout_room_view, sync_event_map, event_map_view, Quiet
<1>3. CASE archive_view \/ HallRedrawn
  BY <1>3 DEF archive_view, HallRedrawn
<1>4. ASSUME NEW e \in Concert,
             \/ EventPasses(e)
             \/ \E k \in SeatsAtRisk : TakeSeat(e, k) \/ FreeSeat(e, k) \/ MoveSeat(e, k)
      PROVE  document' = document
  BY <1>4 DEF EventPasses, TakeSeat, FreeSeat, MoveSeat
<1>5. CASE UNCHANGED layoutVars
  BY <1>5 DEF layoutVars
<1> QED
  BY <1>1, <1>2, <1>3, <1>4, <1>5 DEF LayoutNext

\* What the editor sends, whichever document it is, is accepted only if its
\* stored form can be sold (validate_layout, clean_layout, expand_seats).
THEOREM ServicesSellLayouts == ServicesSpec => []AcceptedLayoutsSell
<1>1. document \in Document /\ [ServicesNext]_servicesVars => (document \in Document)'
  BY ServicesStep, DocumentStays
<1>2. document \in Document => AcceptedLayoutsSell
  BY AcceptedLayoutsAlwaysSell
<1> QED
  BY <1>1, <1>2, DocumentTyped, PTL DEF ServicesSpec
=============================================================================
