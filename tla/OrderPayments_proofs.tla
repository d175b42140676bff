------------------------ MODULE OrderPayments_proofs ------------------------
(***************************************************************************)
(* Theorems about OrderPayments for every set of orders, pools, workers    *)
(* and provider events: places and the refinement of TicketInventory, then *)
(* the handling of webhooks.                                               *)
(***************************************************************************)
EXTENDS OrderPayments, FiniteSetTheorems, TLAPS

-----------------------------------------------------------------------------
(* The inductive invariant.                                                *)

\* An order row names its pool from the moment it exists.
RowsOK == \A o \in Order : status[o] # "NONE" => pool[o] \in Pool

\* An event the provider knows is about an existing order.
EventsOK == \A e \in ProviderEvent :
    kind[e] # "NONE" => about[e] \in Order /\ status[about[e]] # "NONE"

\* What a worker has in memory at each point of its request.
JobsOK == \A w \in Worker :
    /\ job[w].pc = "reserve" => job[w].pool \in Pool
    /\ job[w].pc \in {"checkout", "save_session", "refund"} \cup Handling =>
          job[w].order \in Order /\ status[job[w].order] # "NONE"
    /\ job[w].pc = "save_session" => job[w].event \in ProviderEvent
    /\ job[w].pc \in Handling =>
          /\ job[w].event \in ProviderEvent
          /\ kind[job[w].event] \notin {"NONE", "open"}
          /\ about[job[w].event] = job[w].order

IInv == TypeOK /\ RowsOK /\ EventsOK /\ JobsOK /\ NoOversell

-----------------------------------------------------------------------------
(* Sets of claims and their sizes.                                         *)

\* All the units of an order, claimed by one holder.
UnitClaims(o, x) == Units(o) \X {x}

LEMMA UnionSize ==
    ASSUME NEW A, NEW B, IsFiniteSet(A), IsFiniteSet(B), A \cap B = {}
    PROVE  Cardinality(A \cup B) = Cardinality(A) + Cardinality(B)
  <1>1. Cardinality(A \cup B) = Cardinality(A) + Cardinality(B) - Cardinality({})
    BY FS_Union
  <1>2. Cardinality(A) \in Nat /\ Cardinality(B) \in Nat
    BY FS_CardinalityType
  <1>3. QED
    BY <1>1, <1>2, FS_EmptySet

LEMMA DifferenceSize ==
    ASSUME NEW A, NEW B, IsFiniteSet(A), B \subseteq A
    PROVE  Cardinality(A \ B) = Cardinality(A) - Cardinality(B)
  <1>1. A \cap B = B
    OBVIOUS
  <1>2. QED
    BY <1>1, FS_Difference

LEMMA QuantityType ==
    ASSUME NEW o \in Order
    PROVE  Quantity(o) \in Nat /\ IsFiniteSet(Units(o))
  <1>1. Units(o) \in SUBSET Ticket
    BY DEF Units
  <1>2. IsFiniteSet(Units(o))
    BY <1>1, FiniteTickets, FS_Subset
  <1>3. QED
    BY <1>2, FS_CardinalityType DEF Quantity

\* However many holders there are, one of them claims an order's quantity.
LEMMA UnitClaimsSize ==
    ASSUME NEW o \in Order, NEW x
    PROVE  /\ IsFiniteSet(UnitClaims(o, x))
           /\ Cardinality(UnitClaims(o, x)) = Quantity(o)
  <1>1. IsFiniteSet(Units(o)) /\ Quantity(o) \in Nat
    BY QuantityType
  <1>2. IsFiniteSet({x}) /\ Cardinality({x}) = 1
    BY FS_Singleton
  <1>3. /\ IsFiniteSet(Units(o) \X {x})
        /\ Cardinality(Units(o) \X {x}) = Cardinality(Units(o)) * Cardinality({x})
    BY <1>1, <1>2, FS_Product
  <1>4. QED
    BY <1>1, <1>2, <1>3 DEF UnitClaims, Quantity

FiniteClaims ==
    /\ IsFiniteSet(Claims) /\ Cardinality(Claims) \in Nat
    /\ \A p \in Pool : IsFiniteSet(ClaimsIn(p)) /\ Cardinality(ClaimsIn(p)) \in Nat

LEMMA ClaimsFinite == FiniteClaims
  <1>1. IsFiniteSet(Worker \cup {None})
    BY FiniteTickets, FS_AddElement
  <1>2. IsFiniteSet(Ticket \X (Worker \cup {None}))
    BY <1>1, FiniteTickets, FS_Product
  <1>3. Claims \in SUBSET (Ticket \X (Worker \cup {None}))
    BY DEF Claims
  <1>4. IsFiniteSet(Claims)
    BY <1>2, <1>3, FS_Subset
  <1>5. ASSUME NEW p \in Pool PROVE IsFiniteSet(ClaimsIn(p))
    <2>1. ClaimsIn(p) \in SUBSET Claims
      BY DEF ClaimsIn
    <2>2. QED
      BY <2>1, <1>4, FS_Subset
  <1>6. QED
    BY <1>4, <1>5, FS_CardinalityType DEF FiniteClaims

LEMMA ClaimsFiniteNext == FiniteClaims'
  BY ClaimsFinite, PTL

-----------------------------------------------------------------------------
(* The four ways a step changes the claims, and why each keeps NoOversell. *)

\* Claims are dropped and the counters stay: crashes, and every step that
\* has nothing to do with places.
LEMMA FewerClaims ==
    ASSUME TypeOK, NoOversell, UNCHANGED <<pool, sold_count, sold_total>>,
           \A t \in Ticket, x \in Worker \cup {None} : Claimed(t, x)' => Claimed(t, x)
    PROVE  NoOversell'
  <1>1. Claims' \subseteq Claims
    BY DEF Claims
  <1>2. ASSUME NEW p \in Pool PROVE ClaimsIn(p)' \subseteq ClaimsIn(p)
    BY <1>1 DEF ClaimsIn
  <1>3. Cardinality(Claims') <= Cardinality(Claims)
    BY <1>1, ClaimsFinite, FS_Subset DEF FiniteClaims
  <1>4. \A p \in Pool : Cardinality(ClaimsIn(p)') <= Cardinality(ClaimsIn(p))
    BY <1>2, ClaimsFinite, FS_Subset DEF FiniteClaims
  <1>5. sold_count \in [Pool -> Nat] /\ sold_total \in Nat
    BY DEF TypeOK
  <1>6. QED
    BY <1>3, <1>4, <1>5, ClaimsFinite, ClaimsFiniteNext, CapacityType
       DEF NoOversell, FiniteClaims

\* An order's places are taken in its pool, after both counters were tested.
LEMMA MoreClaims ==
    ASSUME TypeOK, NoOversell, NEW o \in Order, NEW p \in Pool,
           NEW x \in Worker \cup {None},
           pool'[o] = p, \A d \in Order \ {o} : pool'[d] = pool[d],
           Fits(o, p), Reserve(o, p),
           \A t \in Ticket, y \in Worker \cup {None} :
              Claimed(t, y)' => \/ Claimed(t, y) /\ (OrderOf[t] = o => pool[o] = p)
                                \/ OrderOf[t] = o /\ y = x
    PROVE  NoOversell'
  <1> DEFINE New == UnitClaims(o, x)
  <1>1. /\ IsFiniteSet(New)
        /\ Cardinality(New) = Quantity(o)
        /\ Quantity(o) \in Nat
    BY UnitClaimsSize, QuantityType
  <1>2. sold_count \in [Pool -> Nat] /\ sold_total \in Nat
    BY DEF TypeOK
  <1>3. ASSUME NEW A, NEW B, IsFiniteSet(A), IsFiniteSet(B), B \subseteq A \cup New
        PROVE  Cardinality(B) <= Cardinality(A) + Quantity(o)
    <2>1. /\ IsFiniteSet(A \cup New)
          /\ Cardinality(A \cup New) =
                Cardinality(A) + Cardinality(New) - Cardinality(A \cap New)
      BY <1>1, <1>3, FS_Union
    <2>2. IsFiniteSet(A \cap New)
      BY <1>3, FS_Intersection
    <2>3. /\ Cardinality(A) \in Nat /\ Cardinality(B) \in Nat
          /\ Cardinality(A \cap New) \in Nat
      BY <1>3, <2>2, FS_CardinalityType
    <2>4. Cardinality(B) <= Cardinality(A \cup New)
      BY <2>1, <1>3, FS_Subset
    <2>5. QED
      BY <1>1, <2>1, <2>3, <2>4
  <1>4. Claims' \subseteq Claims \cup New
    BY DEF Claims, UnitClaims, Units
  <1>5. ClaimsIn(p)' \subseteq ClaimsIn(p) \cup New
    <2>1. SUFFICES ASSUME NEW c \in Claims', pool'[OrderOf[c[1]]] = p, c \notin New
                   PROVE  c \in ClaimsIn(p)
      BY DEF ClaimsIn
    <2>2. c \in Claims /\ c[1] \in Ticket /\ (OrderOf[c[1]] = o => pool[o] = p)
      BY <2>1 DEF Claims, UnitClaims, Units
    <2>3. OrderOf[c[1]] \in Order
      BY <2>2, OrderOfType
    <2>4. pool[OrderOf[c[1]]] = p
      BY <2>1, <2>2, <2>3
    <2>5. QED
      BY <2>2, <2>4 DEF ClaimsIn
  <1>6. ASSUME NEW q \in Pool, q # p PROVE ClaimsIn(q)' \subseteq ClaimsIn(q)
    <2>1. SUFFICES ASSUME NEW c \in Claims', pool'[OrderOf[c[1]]] = q
                   PROVE  c \in ClaimsIn(q)
      BY DEF ClaimsIn
    <2>2. c \in Ticket \X (Worker \cup {None}) /\ Claimed(c[1], c[2])'
      BY <2>1 DEF Claims
    <2>3. OrderOf[c[1]] \in Order /\ OrderOf[c[1]] # o
      BY <2>1, <2>2, <1>6, OrderOfType
    <2>4. c \in Claims
      BY <2>2, <2>3 DEF Claims
    <2>5. QED
      BY <2>1, <2>3, <2>4 DEF ClaimsIn
  <1>7. Cardinality(Claims') <= Cardinality(Claims) + Quantity(o)
    BY <1>3, <1>4, ClaimsFinite, ClaimsFiniteNext DEF FiniteClaims
  <1>8. Cardinality(ClaimsIn(p)') <= Cardinality(ClaimsIn(p)) + Quantity(o)
    BY <1>3, <1>5, ClaimsFinite, ClaimsFiniteNext DEF FiniteClaims
  <1>9. \A q \in Pool : q # p => Cardinality(ClaimsIn(q)') <= Cardinality(ClaimsIn(q))
    BY <1>6, ClaimsFinite, FS_Subset DEF FiniteClaims
  <1>10. /\ sold_total' = sold_total + Quantity(o)
         /\ sold_total' <= EventCapacity
         /\ sold_count' [p] = sold_count[p] + Quantity(o)
         /\ sold_count' [p] <= PoolCapacity[p]
         /\ \A q \in Pool : q # p => sold_count' [q] = sold_count[q]
    BY <1>1, <1>2 DEF Fits, Reserve
  <1>11. Cardinality(Claims') <= sold_total'
    BY <1>1, <1>2, <1>7, <1>10, ClaimsFinite, ClaimsFiniteNext DEF NoOversell, FiniteClaims
  <1>12. ASSUME NEW q \in Pool
         PROVE  /\ Cardinality(ClaimsIn(q)') <= sold_count'[q]
                /\ sold_count'[q] <= PoolCapacity[q]
    <2>1. CASE q = p
      BY <2>1, <1>1, <1>2, <1>8, <1>10, ClaimsFinite, ClaimsFiniteNext
         DEF NoOversell, FiniteClaims
    <2>2. CASE q # p
      BY <2>2, <1>2, <1>9, <1>10, ClaimsFinite, ClaimsFiniteNext, CapacityType
         DEF NoOversell, FiniteClaims
    <2>3. QED
      BY <2>1, <2>2
  <1>13. QED
    BY <1>10, <1>11, <1>12 DEF NoOversell

\* A live order's places are all counted, in its pool and in the event.
LEMMA LiveIsCounted ==
    ASSUME TypeOK, NoOversell, NEW o \in Order, status[o] \in Live, pool[o] \in Pool
    PROVE  /\ UnitClaims(o, None) \subseteq Claims
           /\ UnitClaims(o, None) \subseteq ClaimsIn(pool[o])
           /\ Quantity(o) <= Cardinality(Claims)
           /\ Quantity(o) <= Cardinality(ClaimsIn(pool[o]))
           /\ Quantity(o) <= sold_total
           /\ Quantity(o) <= sold_count[pool[o]]
  <1>1. UnitClaims(o, None) \subseteq Claims
    BY DEF UnitClaims, Units, Claims, Claimed
  <1>2. UnitClaims(o, None) \subseteq ClaimsIn(pool[o])
    BY <1>1 DEF UnitClaims, Units, ClaimsIn
  <1>3. Cardinality(UnitClaims(o, None)) = Quantity(o) /\ Quantity(o) \in Nat
    BY UnitClaimsSize, QuantityType
  <1>4. Quantity(o) <= Cardinality(Claims)
    BY <1>1, <1>3, ClaimsFinite, FS_Subset DEF FiniteClaims
  <1>5. Quantity(o) <= Cardinality(ClaimsIn(pool[o]))
    BY <1>2, <1>3, ClaimsFinite, FS_Subset DEF FiniteClaims
  <1>6. sold_total \in Nat /\ sold_count[pool[o]] \in Nat
    BY DEF TypeOK
  <1>7. QED
    BY <1>1, <1>2, <1>3, <1>4, <1>5, <1>6, ClaimsFinite DEF NoOversell, FiniteClaims

\* A live order is released in the transaction that ends its life.
LEMMA ReleasedClaims ==
    ASSUME TypeOK, NoOversell, NEW o \in Order, status[o] \in Live, pool[o] \in Pool,
           pool' = pool, release_capacity(o),
           \A t \in Ticket, y \in Worker \cup {None} :
              Claimed(t, y)' => Claimed(t, y) /\ ~(OrderOf[t] = o /\ y = None)
    PROVE  NoOversell'
  <1> DEFINE p == pool[o]
             Old == UnitClaims(o, None)
  <1>1. /\ Old \subseteq Claims /\ Old \subseteq ClaimsIn(p)
        /\ Quantity(o) <= sold_total /\ Quantity(o) <= sold_count[p]
    BY LiveIsCounted
  <1>2. Cardinality(Old) = Quantity(o) /\ Quantity(o) \in Nat
    BY UnitClaimsSize, QuantityType
  <1>3. sold_count \in [Pool -> Nat] /\ sold_total \in Nat
    BY DEF TypeOK
  <1>4. Claims' \subseteq Claims \ Old
    BY DEF Claims, UnitClaims, Units
  <1>5. ASSUME NEW q \in Pool PROVE ClaimsIn(q)' \subseteq ClaimsIn(q) \ Old
    BY <1>4 DEF ClaimsIn
  <1>6. ClaimsIn(p)' \subseteq ClaimsIn(p) \ Old
    BY <1>5
  <1>7. ASSUME NEW A, NEW B, IsFiniteSet(A), Old \subseteq A, B \subseteq A \ Old
        PROVE  Cardinality(B) <= Cardinality(A) - Quantity(o)
    <2>1. IsFiniteSet(A \ Old)
      BY <1>7, FS_Difference
    <2>2. Cardinality(B) <= Cardinality(A \ Old)
      BY <2>1, <1>7, FS_Subset
    <2>3. QED
      BY <2>2, <1>2, <1>7, DifferenceSize
  <1>8. Cardinality(Claims') <= Cardinality(Claims) - Quantity(o)
    BY <1>1, <1>4, <1>7, ClaimsFinite DEF FiniteClaims
  <1>9. Cardinality(ClaimsIn(p)') <= Cardinality(ClaimsIn(p)) - Quantity(o)
    BY <1>1, <1>6, <1>7, ClaimsFinite DEF FiniteClaims
  <1>10. /\ sold_total' = sold_total - Quantity(o)
         /\ sold_count' [p] = sold_count[p] - Quantity(o)
         /\ \A q \in Pool : q # p => sold_count' [q] = sold_count[q]
    BY <1>3 DEF release_capacity
  <1>11. Cardinality(Claims') <= sold_total' /\ sold_total' <= EventCapacity
    BY <1>2, <1>3, <1>8, <1>10, ClaimsFinite, ClaimsFiniteNext, CapacityType
       DEF NoOversell, FiniteClaims
  <1>12. ASSUME NEW q \in Pool
         PROVE  /\ Cardinality(ClaimsIn(q)') <= sold_count'[q]
                /\ sold_count'[q] <= PoolCapacity[q]
    <2>1. CASE q = p
      BY <2>1, <1>2, <1>3, <1>9, <1>10, ClaimsFinite, ClaimsFiniteNext, CapacityType
         DEF NoOversell, FiniteClaims
    <2>2. CASE q # p
      <3>1. ClaimsIn(q)' \subseteq ClaimsIn(q)
        BY <1>5
      <3>2. Cardinality(ClaimsIn(q)') <= Cardinality(ClaimsIn(q))
        BY <3>1, ClaimsFinite, FS_Subset DEF FiniteClaims
      <3>3. QED
        BY <2>2, <3>2, <1>3, <1>10, ClaimsFinite, ClaimsFiniteNext, CapacityType
           DEF NoOversell, FiniteClaims
    <2>3. QED
      BY <2>1, <2>2
  <1>13. QED
    BY <1>11, <1>12 DEF NoOversell

\* The claim a worker held for a late-paid order passes to the order itself.
LEMMA PassedClaims ==
    ASSUME TypeOK, NoOversell, NEW o \in Order, NEW w \in Worker,
           job[w].pc = "pay_late", job[w].order = o, pool[o] \in Pool,
           UNCHANGED <<pool, sold_count, sold_total>>,
           \A t \in Ticket, y \in Worker \cup {None} :
              Claimed(t, y)' => \/ Claimed(t, y) /\ ~(OrderOf[t] = o /\ y = w)
                                \/ OrderOf[t] = o /\ y = None
    PROVE  NoOversell'
  <1> DEFINE Old == UnitClaims(o, w)
             New == UnitClaims(o, None)
  <1>1. /\ IsFiniteSet(Old) /\ Cardinality(Old) = Quantity(o)
        /\ IsFiniteSet(New) /\ Cardinality(New) = Quantity(o)
        /\ Quantity(o) \in Nat
    BY UnitClaimsSize, QuantityType
  <1>2. sold_count \in [Pool -> Nat] /\ sold_total \in Nat
    BY DEF TypeOK
  <1>3. Old \subseteq Claims /\ Old \subseteq ClaimsIn(pool[o])
    BY DEF UnitClaims, Units, Claims, ClaimsIn, Claimed
  <1>4. Claims' \subseteq (Claims \ Old) \cup New
    BY DEF Claims, UnitClaims, Units
  <1>5. ClaimsIn(pool[o])' \subseteq (ClaimsIn(pool[o]) \ Old) \cup New
    BY <1>4 DEF ClaimsIn
  <1>6. ASSUME NEW q \in Pool, q # pool[o] PROVE ClaimsIn(q)' \subseteq ClaimsIn(q)
    BY <1>4, <1>6 DEF ClaimsIn, UnitClaims, Units
  <1>7. ASSUME NEW A, NEW B, IsFiniteSet(A), IsFiniteSet(B), Old \subseteq A,
               B \subseteq (A \ Old) \cup New
        PROVE  Cardinality(B) <= Cardinality(A)
    <2>0. IsFiniteSet(A \ Old)
      BY <1>7, FS_Difference
    <2>1. Cardinality(A \ Old) = Cardinality(A) - Quantity(o)
      BY <1>1, <1>7, DifferenceSize
    <2>2. /\ IsFiniteSet((A \ Old) \cup New)
          /\ Cardinality((A \ Old) \cup New) =
                Cardinality(A \ Old) + Cardinality(New) - Cardinality((A \ Old) \cap New)
      BY <1>1, <2>0, FS_Union
    <2>3. IsFiniteSet((A \ Old) \cap New)
      BY <2>0, FS_Intersection
    <2>4. /\ Cardinality(A) \in Nat /\ Cardinality(B) \in Nat
          /\ Cardinality((A \ Old) \cap New) \in Nat
      BY <1>7, <2>3, FS_CardinalityType
    <2>5. Cardinality(B) <= Cardinality((A \ Old) \cup New)
      BY <2>2, <1>7, FS_Subset
    <2>6. QED
      BY <1>1, <2>1, <2>2, <2>4, <2>5
  <1>8. Cardinality(Claims') <= Cardinality(Claims)
    BY <1>3, <1>4, <1>7, ClaimsFinite, ClaimsFiniteNext DEF FiniteClaims
  <1>9. ASSUME NEW q \in Pool
        PROVE  Cardinality(ClaimsIn(q)') <= Cardinality(ClaimsIn(q))
    <2>1. CASE q = pool[o]
      BY <2>1, <1>3, <1>5, <1>7, ClaimsFinite, ClaimsFiniteNext DEF FiniteClaims
    <2>2. CASE q # pool[o]
      BY <2>2, <1>6, ClaimsFinite, FS_Subset DEF FiniteClaims
    <2>3. QED
      BY <2>1, <2>2
  <1>10. QED
    BY <1>2, <1>8, <1>9, ClaimsFinite, ClaimsFiniteNext, CapacityType
       DEF NoOversell, FiniteClaims

-----------------------------------------------------------------------------
(* Every step keeps the invariant.                                         *)

\* The vocabulary of the state and of the steps, expanded in every proof below.
USE DEF orderVars, capacityVars, providerVars, OrderStatus, Unpaid, Live,
        EventKind, RecordStatus, Handling, Pc, Idle, Goto, Done

LEMMA ChoosePoolStep ==
    ASSUME IInv, NEW w \in Worker, NEW p \in Pool, ChoosePool(w, p)
    PROVE  IInv'
  <1> USE DEF IInv
  <1>4. TypeOK'
    <2>1. job[w] \in Job
      BY DEF TypeOK
    <2>2. job' \in [Worker -> Job]
      BY <2>1 DEF ChoosePool, TypeOK, Job
    <2>3. QED
      BY <2>2, CrashesType DEF ChoosePool, TypeOK
  <1>5. RowsOK'
    BY NoneIsFresh DEF ChoosePool, TypeOK, RowsOK
  <1>6. EventsOK'
    BY NoneIsFresh DEF ChoosePool, TypeOK, EventsOK, JobsOK
  <1>7. JobsOK'
    BY NoneIsFresh DEF ChoosePool, TypeOK, JobsOK, EventsOK, Job
  <1>8. \A t \in Ticket, x \in Worker \cup {None} : Claimed(t, x)' => Claimed(t, x)
    BY NoneIsFresh, OrderOfType DEF ChoosePool, TypeOK, Job, Claimed
  <1>9. NoOversell'
    BY <1>8, FewerClaims DEF ChoosePool
  <1>10. QED
    BY <1>4, <1>5, <1>6, <1>7, <1>9

LEMMA CreateOrderStep ==
    ASSUME IInv, NEW w \in Worker, NEW o \in Order, CreateOrder(w, o)
    PROVE  IInv'
  <1> USE DEF IInv
  <1>1. PICK p \in Pool : p = job[w].pool
    BY DEF CreateOrder, JobsOK
  <1>2. Quantity(o) \in Nat
    BY QuantityType
  <1>4. TypeOK'
    <2>1. job[w] \in Job
      BY DEF TypeOK
    <2>2. job' \in [Worker -> Job]
      BY <2>1, <1>1 DEF CreateOrder, TypeOK, Job
    <2>3. QED
      BY <2>2, <1>1, <1>2 DEF CreateOrder, Reserve, TypeOK
  <1>5. RowsOK'
    BY <1>1, NoneIsFresh DEF CreateOrder, Reserve, TypeOK, RowsOK
  <1>6. EventsOK'
    BY <1>1, NoneIsFresh DEF CreateOrder, Reserve, TypeOK, EventsOK, JobsOK
  <1>7. JobsOK'
    BY <1>1, NoneIsFresh DEF CreateOrder, Reserve, TypeOK, JobsOK, EventsOK, Job
  <1>8. ASSUME NEW t \in Ticket, NEW y \in Worker \cup {None}, Claimed(t, y)'
        PROVE  (Claimed(t, y) /\ OrderOf[t] # o) \/ (OrderOf[t] = o /\ y = None)
    <2>1. OrderOf[t] \in Order
      BY OrderOfType
    <2>2. CASE y = None
      BY <1>8, <2>1, <2>2, NoneIsFresh DEF CreateOrder, TypeOK, Claimed
    <2>3. CASE y \in Worker
      <3>1. y # None /\ job'[y].pc = "pay_late" /\ job'[y].order = OrderOf[t]
        BY <1>8, <2>3, NoneIsFresh DEF Claimed
      <3>2. y # w /\ job[y] = job'[y]
        BY <2>3, <3>1 DEF CreateOrder, TypeOK, Job
      <3>3. status[OrderOf[t]] # "NONE"
        BY <2>3, <3>1, <3>2 DEF JobsOK
      <3>4. status[o] = "NONE"
        BY DEF CreateOrder
      <3>5. QED
        BY <2>3, <3>1, <3>2, <3>3, <3>4 DEF Claimed
    <2>4. QED
      BY <2>2, <2>3
  <1>9. NoOversell'
    <2>1. Fits(o, p) /\ Reserve(o, p)
      BY <1>1 DEF CreateOrder, Fits, Reserve
    <2>2. pool'[o] = p /\ \A d \in Order \ {o} : pool'[d] = pool[d]
      BY <1>1 DEF CreateOrder, TypeOK
    <2>3. None \in Worker \cup {None}
      OBVIOUS
    <2>4. QED
      BY <1>8, <2>1, <2>2, <2>3, MoreClaims
  <1>10. QED
    BY <1>4, <1>5, <1>6, <1>7, <1>9

LEMMA RefuseOrderStep ==
    ASSUME IInv, NEW w \in Worker, NEW o \in Order, RefuseOrder(w, o)
    PROVE  IInv'
  <1> USE DEF IInv
  <1>4. TypeOK'
    BY CrashesType DEF RefuseOrder, TypeOK, Job
  <1>5. RowsOK'
    BY NoneIsFresh DEF RefuseOrder, TypeOK, RowsOK
  <1>6. EventsOK'
    BY NoneIsFresh DEF RefuseOrder, TypeOK, EventsOK, JobsOK
  <1>7. JobsOK'
    BY NoneIsFresh DEF RefuseOrder, TypeOK, JobsOK, EventsOK, Job
  <1>8. \A t \in Ticket, x \in Worker \cup {None} : Claimed(t, x)' => Claimed(t, x)
    BY NoneIsFresh, OrderOfType DEF RefuseOrder, TypeOK, Job, Claimed
  <1>9. NoOversell'
    BY <1>8, FewerClaims DEF RefuseOrder
  <1>10. QED
    BY <1>4, <1>5, <1>6, <1>7, <1>9

LEMMA OpenOrderPageStep ==
    ASSUME IInv, NEW w \in Worker, NEW o \in Order, OpenOrderPage(w, o)
    PROVE  IInv'
  <1> USE DEF IInv
  <1>4. TypeOK'
    <2>1. job[w] \in Job
      BY DEF TypeOK
    <2>2. job' \in [Worker -> Job]
      BY <2>1 DEF OpenOrderPage, TypeOK, Job
    <2>3. QED
      BY <2>2, CrashesType DEF OpenOrderPage, TypeOK
  <1>5. RowsOK'
    BY NoneIsFresh DEF OpenOrderPage, TypeOK, RowsOK
  <1>6. EventsOK'
    BY NoneIsFresh DEF OpenOrderPage, TypeOK, EventsOK, JobsOK
  <1>7. JobsOK'
    BY NoneIsFresh DEF OpenOrderPage, TypeOK, JobsOK, EventsOK, Job
  <1>8. \A t \in Ticket, x \in Worker \cup {None} : Claimed(t, x)' => Claimed(t, x)
    BY NoneIsFresh, OrderOfType DEF OpenOrderPage, TypeOK, Job, Claimed
  <1>9. NoOversell'
    BY <1>8, FewerClaims DEF OpenOrderPage
  <1>10. QED
    BY <1>4, <1>5, <1>6, <1>7, <1>9

LEMMA StartDemoCheckoutStep ==
    ASSUME IInv, NEW w \in Worker, StartDemoCheckout(w)
    PROVE  IInv'
  <1> USE DEF IInv
  <1>4. TypeOK'
    BY CrashesType DEF StartDemoCheckout, TypeOK, Job
  <1>5. RowsOK'
    BY NoneIsFresh DEF StartDemoCheckout, TypeOK, RowsOK
  <1>6. EventsOK'
    BY NoneIsFresh DEF StartDemoCheckout, TypeOK, EventsOK, JobsOK
  <1>7. JobsOK'
    BY NoneIsFresh DEF StartDemoCheckout, TypeOK, JobsOK, EventsOK, Job
  <1>8. \A t \in Ticket, x \in Worker \cup {None} : Claimed(t, x)' => Claimed(t, x)
    BY NoneIsFresh, OrderOfType DEF StartDemoCheckout, TypeOK, Job, Claimed
  <1>9. NoOversell'
    BY <1>8, FewerClaims DEF StartDemoCheckout
  <1>10. QED
    BY <1>4, <1>5, <1>6, <1>7, <1>9

LEMMA CreateSessionStep ==
    ASSUME IInv, NEW w \in Worker, NEW e \in ProviderEvent, CreateSession(w, e)
    PROVE  IInv'
  <1> USE DEF IInv
  <1>4. TypeOK'
    <2>0. job[w].order \in Order
      BY DEF CreateSession, JobsOK
    <2>1. job[w] \in Job
      BY DEF TypeOK
    <2>2. job' \in [Worker -> Job]
      BY <2>1 DEF CreateSession, TypeOK, Job
    <2>3. QED
      BY <2>2, <2>0, CrashesType DEF CreateSession, Emit, TypeOK
  <1>5. RowsOK'
    BY NoneIsFresh DEF CreateSession, Emit, TypeOK, RowsOK
  <1>6. EventsOK'
    BY NoneIsFresh DEF CreateSession, Emit, TypeOK, EventsOK, JobsOK
  <1>7. JobsOK'
    BY NoneIsFresh DEF CreateSession, Emit, TypeOK, JobsOK, EventsOK, Job
  <1>8. \A t \in Ticket, x \in Worker \cup {None} : Claimed(t, x)' => Claimed(t, x)
    BY NoneIsFresh, OrderOfType DEF CreateSession, Emit, TypeOK, Job, Claimed
  <1>9. NoOversell'
    BY <1>8, FewerClaims DEF CreateSession
  <1>10. QED
    BY <1>4, <1>5, <1>6, <1>7, <1>9

LEMMA SaveSessionStep ==
    ASSUME IInv, NEW w \in Worker, SaveSession(w)
    PROVE  IInv'
  <1> USE DEF IInv
  <1>4. TypeOK'
    BY CrashesType DEF SaveSession, TypeOK, Job
  <1>5. RowsOK'
    BY NoneIsFresh DEF SaveSession, TypeOK, RowsOK
  <1>6. EventsOK'
    BY NoneIsFresh DEF SaveSession, TypeOK, EventsOK, JobsOK
  <1>7. JobsOK'
    BY NoneIsFresh DEF SaveSession, TypeOK, JobsOK, EventsOK, Job
  <1>8. \A t \in Ticket, x \in Worker \cup {None} : Claimed(t, x)' => Claimed(t, x)
    BY NoneIsFresh, OrderOfType DEF SaveSession, TypeOK, Job, Claimed
  <1>9. NoOversell'
    BY <1>8, FewerClaims DEF SaveSession
  <1>10. QED
    BY <1>4, <1>5, <1>6, <1>7, <1>9

LEMMA RequestRefundStep ==
    ASSUME IInv, NEW w \in Worker, NEW o \in Order, RequestRefund(w, o)
    PROVE  IInv'
  <1> USE DEF IInv
  <1>4. TypeOK'
    <2>1. job[w] \in Job
      BY DEF TypeOK
    <2>2. job' \in [Worker -> Job]
      BY <2>1 DEF RequestRefund, TypeOK, Job
    <2>3. QED
      BY <2>2, CrashesType DEF RequestRefund, TypeOK
  <1>5. RowsOK'
    BY NoneIsFresh DEF RequestRefund, TypeOK, RowsOK
  <1>6. EventsOK'
    BY NoneIsFresh DEF RequestRefund, TypeOK, EventsOK, JobsOK
  <1>7. JobsOK'
    BY NoneIsFresh DEF RequestRefund, TypeOK, JobsOK, EventsOK, Job
  <1>8. \A t \in Ticket, x \in Worker \cup {None} : Claimed(t, x)' => Claimed(t, x)
    BY NoneIsFresh, OrderOfType DEF RequestRefund, TypeOK, Job, Claimed
  <1>9. NoOversell'
    BY <1>8, FewerClaims DEF RequestRefund
  <1>10. QED
    BY <1>4, <1>5, <1>6, <1>7, <1>9

LEMMA ProviderRefundStep ==
    ASSUME IInv, NEW w \in Worker, NEW e \in ProviderEvent, ProviderRefund(w, e)
    PROVE  IInv'
  <1> USE DEF IInv
  <1>4. TypeOK'
    BY CrashesType DEF ProviderRefund, Emit, TypeOK, Job
  <1>5. RowsOK'
    BY NoneIsFresh DEF ProviderRefund, Emit, TypeOK, RowsOK
  <1>6. EventsOK'
    BY NoneIsFresh DEF ProviderRefund, Emit, TypeOK, EventsOK, JobsOK
  <1>7. JobsOK'
    BY NoneIsFresh DEF ProviderRefund, Emit, TypeOK, JobsOK, EventsOK, Job
  <1>8. \A t \in Ticket, x \in Worker \cup {None} : Claimed(t, x)' => Claimed(t, x)
    BY NoneIsFresh, OrderOfType DEF ProviderRefund, Emit, TypeOK, Job, Claimed
  <1>9. NoOversell'
    BY <1>8, FewerClaims DEF ProviderRefund
  <1>10. QED
    BY <1>4, <1>5, <1>6, <1>7, <1>9

LEMMA RefundRefusedStep ==
    ASSUME IInv, NEW w \in Worker, RefundRefused(w)
    PROVE  IInv'
  <1> USE DEF IInv
  <1>4. TypeOK'
    BY CrashesType DEF RefundRefused, TypeOK, Job
  <1>5. RowsOK'
    BY NoneIsFresh DEF RefundRefused, TypeOK, RowsOK
  <1>6. EventsOK'
    BY NoneIsFresh DEF RefundRefused, TypeOK, EventsOK, JobsOK
  <1>7. JobsOK'
    BY NoneIsFresh DEF RefundRefused, TypeOK, JobsOK, EventsOK, Job
  <1>8. \A t \in Ticket, x \in Worker \cup {None} : Claimed(t, x)' => Claimed(t, x)
    BY NoneIsFresh, OrderOfType DEF RefundRefused, TypeOK, Job, Claimed
  <1>9. NoOversell'
    BY <1>8, FewerClaims DEF RefundRefused
  <1>10. QED
    BY <1>4, <1>5, <1>6, <1>7, <1>9

LEMMA ReceiveWebhookStep ==
    ASSUME IInv, NEW w \in Worker, NEW e \in ProviderEvent, ReceiveWebhook(w, e)
    PROVE  IInv'
  <1> USE DEF IInv
  <1>4. TypeOK'
    BY CrashesType DEF ReceiveWebhook, TypeOK, Job
  <1>5. RowsOK'
    BY NoneIsFresh DEF ReceiveWebhook, TypeOK, RowsOK
  <1>6. EventsOK'
    BY NoneIsFresh DEF ReceiveWebhook, TypeOK, EventsOK, JobsOK
  <1>7. JobsOK'
    BY NoneIsFresh DEF ReceiveWebhook, TypeOK, JobsOK, EventsOK, Job
  <1>8. \A t \in Ticket, x \in Worker \cup {None} : Claimed(t, x)' => Claimed(t, x)
    BY NoneIsFresh, OrderOfType DEF ReceiveWebhook, TypeOK, Job, Claimed
  <1>9. NoOversell'
    BY <1>8, FewerClaims DEF ReceiveWebhook
  <1>10. QED
    BY <1>4, <1>5, <1>6, <1>7, <1>9

LEMMA ClaimPaidStep ==
    ASSUME IInv, NEW w \in Worker, ClaimPaid(w)
    PROVE  IInv'
  <1> USE DEF IInv
  <1>4. TypeOK'
    BY CrashesType DEF ClaimPaid, TypeOK, Job
  <1>5. RowsOK'
    BY NoneIsFresh DEF ClaimPaid, TypeOK, RowsOK
  <1>6. EventsOK'
    BY NoneIsFresh DEF ClaimPaid, TypeOK, EventsOK, JobsOK
  <1>7. JobsOK'
    BY NoneIsFresh DEF ClaimPaid, TypeOK, JobsOK, EventsOK, Job
  <1>8. \A t \in Ticket, x \in Worker \cup {None} : Claimed(t, x)' => Claimed(t, x)
    BY NoneIsFresh, OrderOfType DEF ClaimPaid, TypeOK, Job, Claimed
  <1>9. NoOversell'
    BY <1>8, FewerClaims DEF ClaimPaid
  <1>10. QED
    BY <1>4, <1>5, <1>6, <1>7, <1>9

LEMMA RefreshClaimedStep ==
    ASSUME IInv, NEW w \in Worker, RefreshClaimed(w)
    PROVE  IInv'
  <1> USE DEF IInv
  <1>4. TypeOK'
    <2>0. job[w].order \in Order
      BY DEF RefreshClaimed, JobsOK
    <2>1. job[w] \in Job
      BY DEF TypeOK
    <2>2. job' \in [Worker -> Job]
      BY <2>1, <2>0 DEF RefreshClaimed, TypeOK, Job
    <2>3. QED
      BY <2>2, <2>0, CrashesType DEF RefreshClaimed, TypeOK
  <1>5. RowsOK'
    BY NoneIsFresh DEF RefreshClaimed, TypeOK, RowsOK
  <1>6. EventsOK'
    BY NoneIsFresh DEF RefreshClaimed, TypeOK, EventsOK, JobsOK
  <1>7. JobsOK'
    BY NoneIsFresh DEF RefreshClaimed, TypeOK, JobsOK, EventsOK, Job
  <1>8. \A t \in Ticket, x \in Worker \cup {None} : Claimed(t, x)' => Claimed(t, x)
    BY NoneIsFresh, OrderOfType DEF RefreshClaimed, TypeOK, Job, Claimed
  <1>9. NoOversell'
    BY <1>8, FewerClaims DEF RefreshClaimed
  <1>10. QED
    BY <1>4, <1>5, <1>6, <1>7, <1>9

LEMMA RefreshUnclaimedStep ==
    ASSUME IInv, NEW w \in Worker, RefreshUnclaimed(w)
    PROVE  IInv'
  <1> USE DEF IInv
  <1>4. TypeOK'
    BY CrashesType DEF RefreshUnclaimed, TypeOK, Job
  <1>5. RowsOK'
    BY NoneIsFresh DEF RefreshUnclaimed, TypeOK, RowsOK
  <1>6. EventsOK'
    BY NoneIsFresh DEF RefreshUnclaimed, TypeOK, EventsOK, JobsOK
  <1>7. JobsOK'
    BY NoneIsFresh DEF RefreshUnclaimed, TypeOK, JobsOK, EventsOK, Job
  <1>8. \A t \in Ticket, x \in Worker \cup {None} : Claimed(t, x)' => Claimed(t, x)
    BY NoneIsFresh, OrderOfType DEF RefreshUnclaimed, TypeOK, Job, Claimed
  <1>9. NoOversell'
    BY <1>8, FewerClaims DEF RefreshUnclaimed
  <1>10. QED
    BY <1>4, <1>5, <1>6, <1>7, <1>9

LEMMA RereserveStep ==
    ASSUME IInv, NEW w \in Worker, Rereserve(w)
    PROVE  IInv'
  <1> USE DEF IInv
  <1>0. PICK o \in Order : o = job[w].order
    BY DEF Rereserve, JobsOK
  <1>1. o = job[w].order /\ pool[o] \in Pool
    BY <1>0 DEF Rereserve, JobsOK, RowsOK
  <1>3. PICK p \in Pool : p = pool[o]
    BY <1>1
  <1>2. Quantity(o) \in Nat
    BY <1>1, QuantityType
  <1>4. TypeOK'
    BY <1>1, <1>2 DEF Rereserve, Reserve, TypeOK, Job
  <1>5. RowsOK'
    BY <1>0, <1>1, NoneIsFresh DEF Rereserve, Reserve, TypeOK, RowsOK
  <1>6. EventsOK'
    BY <1>0, <1>1, NoneIsFresh DEF Rereserve, Reserve, TypeOK, EventsOK, JobsOK
  <1>7. JobsOK'
    <2>1. ASSUME NEW v \in Worker
          PROVE  /\ job'[v].pc \in Pc
                 /\ job'[v].pc \in Handling => job[v].pc \in Handling
                 /\ job'[v].pc \notin Handling => job'[v].pc = job[v].pc
                 /\ job'[v].order = job[v].order
                 /\ job'[v].event = job[v].event
                 /\ job'[v].pool = job[v].pool
      BY DEF Rereserve, TypeOK, Job
    <2>2. UNCHANGED <<status, kind, about>>
      BY DEF Rereserve
    <2>3. QED
      BY <2>1, <2>2 DEF JobsOK
  <1>8. CASE Fits(o, p)
    <2>1. Fits(o, p) /\ Reserve(o, p) /\ pool' = pool
      BY <1>0, <1>3, <1>8 DEF Rereserve, Fits, Reserve
    <2>2. ASSUME NEW t \in Ticket, NEW y \in Worker \cup {None}, Claimed(t, y)'
          PROVE  Claimed(t, y) \/ (OrderOf[t] = o /\ y = w)
      <3>1. CASE y = None
        BY <3>1, <2>2, NoneIsFresh DEF Rereserve, Claimed
      <3>2. CASE y = w
        <4>1. job'[w].order = job[w].order
          BY DEF Rereserve, TypeOK, Job
        <4>2. QED
          BY <3>2, <4>1, <1>0, <2>2, NoneIsFresh DEF Claimed
      <3>3. CASE y \in Worker \ {w}
        <4>1. job'[y] = job[y]
          BY <3>3 DEF Rereserve, TypeOK
        <4>2. QED
          BY <3>3, <4>1, <2>2, NoneIsFresh DEF Claimed
      <3>4. QED
        BY <3>1, <3>2, <3>3
    <2>3. NoOversell'
      BY <1>3, <2>1, <2>2, MoreClaims
    <2>4. QED
      BY <1>4, <1>5, <1>6, <1>7, <2>3
  <1>9. CASE ~Fits(o, p)
    <2>1. \A t \in Ticket, x \in Worker \cup {None} : Claimed(t, x)' => Claimed(t, x)
      BY <1>0, <1>3, <1>9, NoneIsFresh DEF Rereserve, TypeOK, Job, Claimed, Fits
    <2>2. UNCHANGED <<pool, sold_count, sold_total>>
      BY <1>0, <1>3, <1>9 DEF Rereserve, Fits
    <2>3. NoOversell'
      BY <2>1, <2>2, FewerClaims
    <2>4. QED
      BY <1>4, <1>5, <1>6, <1>7, <2>3
  <1>10. QED
    BY <1>8, <1>9

LEMMA PayLateStep ==
    ASSUME IInv, NEW w \in Worker, PayLate(w)
    PROVE  IInv'
  <1> USE DEF IInv
  <1> DEFINE o == job[w].order
  <1>1. o \in Order /\ pool[o] \in Pool
    BY DEF PayLate, JobsOK, RowsOK
  <1>4. TypeOK'
    <2>1. job[w] \in Job
      BY DEF TypeOK
    <2>2. job' \in [Worker -> Job]
      BY <2>1, <1>1, SMTT(40) DEF PayLate, TypeOK, Job
    <2>3. QED
      BY <2>2, <1>1 DEF PayLate, TypeOK
  <1>5. RowsOK'
    BY <1>1, NoneIsFresh DEF PayLate, TypeOK, RowsOK
  <1>6. EventsOK'
    BY <1>1, NoneIsFresh DEF PayLate, TypeOK, EventsOK, JobsOK
  <1>7. JobsOK'
    BY <1>1, NoneIsFresh DEF PayLate, TypeOK, JobsOK, EventsOK, Job
  <1>8. ASSUME NEW t \in Ticket, NEW y \in Worker \cup {None}, Claimed(t, y)'
        PROVE  \/ Claimed(t, y) /\ ~(OrderOf[t] = o /\ y = w)
               \/ OrderOf[t] = o /\ y = None
    BY <1>8, OrderOfType, NoneIsFresh DEF PayLate, TypeOK, Job, Claimed
  <1>9. NoOversell'
    BY <1>1, <1>8, PassedClaims DEF PayLate
  <1>10. QED
    BY <1>4, <1>5, <1>6, <1>7, <1>9

LEMMA CheckTicketsStep ==
    ASSUME IInv, NEW w \in Worker, CheckTickets(w)
    PROVE  IInv'
  <1> USE DEF IInv
  <1>4. TypeOK'
    BY CrashesType DEF CheckTickets, TypeOK, Job
  <1>5. RowsOK'
    BY NoneIsFresh DEF CheckTickets, TypeOK, RowsOK
  <1>6. EventsOK'
    BY NoneIsFresh DEF CheckTickets, TypeOK, EventsOK, JobsOK
  <1>7. JobsOK'
    BY NoneIsFresh DEF CheckTickets, TypeOK, JobsOK, EventsOK, Job
  <1>8. \A t \in Ticket, x \in Worker \cup {None} : Claimed(t, x)' => Claimed(t, x)
    BY NoneIsFresh, OrderOfType DEF CheckTickets, TypeOK, Job, Claimed
  <1>9. NoOversell'
    BY <1>8, FewerClaims DEF CheckTickets
  <1>10. QED
    BY <1>4, <1>5, <1>6, <1>7, <1>9

LEMMA CreateTicketsStep ==
    ASSUME IInv, NEW w \in Worker, CreateTickets(w)
    PROVE  IInv'
  <1> USE DEF IInv
  <1>4. TypeOK'
    <2>0. job[w].event \in ProviderEvent
      BY DEF CreateTickets, JobsOK
    <2>1. job[w] \in Job
      BY DEF TypeOK
    <2>2. job' \in [Worker -> Job]
      BY <2>1, SMTT(40) DEF CreateTickets, TypeOK, Job
    <2>3. QED
      BY <2>2, <2>0, CrashesType DEF CreateTickets, TypeOK
  <1>5. RowsOK'
    BY NoneIsFresh DEF CreateTickets, TypeOK, RowsOK
  <1>6. EventsOK'
    BY NoneIsFresh DEF CreateTickets, TypeOK, EventsOK, JobsOK
  <1>7. JobsOK'
    BY NoneIsFresh DEF CreateTickets, TypeOK, JobsOK, EventsOK, Job
  <1>8. \A t \in Ticket, x \in Worker \cup {None} : Claimed(t, x)' => Claimed(t, x)
    BY NoneIsFresh, OrderOfType DEF CreateTickets, TypeOK, Job, Claimed
  <1>9. NoOversell'
    BY <1>8, FewerClaims DEF CreateTickets
  <1>10. QED
    BY <1>4, <1>5, <1>6, <1>7, <1>9

LEMMA FailPaymentStep ==
    ASSUME IInv, NEW w \in Worker, FailPayment(w)
    PROVE  IInv'
  <1> USE DEF IInv
  <1>0. PICK o \in Order : o = job[w].order
    BY DEF FailPayment, JobsOK
  <1>1. o = job[w].order /\ pool[o] \in Pool
    BY <1>0 DEF FailPayment, JobsOK, RowsOK
  <1>2. Quantity(o) \in Nat
    BY <1>1, QuantityType
  <1>3. status[o] \in Live => Quantity(o) <= sold_total /\ Quantity(o) <= sold_count[pool[o]]
    BY <1>1, LiveIsCounted
  <1>4. TypeOK'
    BY <1>1, <1>2, <1>3 DEF FailPayment, release_capacity, TypeOK, Job
  <1>5. RowsOK'
    BY <1>0, <1>1, NoneIsFresh DEF FailPayment, release_capacity, TypeOK, RowsOK
  <1>6. EventsOK'
    BY <1>0, <1>1, NoneIsFresh DEF FailPayment, release_capacity, TypeOK, EventsOK, JobsOK
  <1>7. JobsOK'
    BY <1>0, <1>1, NoneIsFresh DEF FailPayment, release_capacity, TypeOK, JobsOK, EventsOK, Job
  <1>8. CASE status[o] \in Unpaid
    <2>1. release_capacity(o) /\ pool' = pool /\ status[o] \in Live
      BY <1>0, <1>8 DEF FailPayment, release_capacity
    <2>2. ASSUME NEW t \in Ticket, NEW y \in Worker \cup {None}, Claimed(t, y)'
          PROVE  Claimed(t, y) /\ ~(OrderOf[t] = o /\ y = None)
      BY <1>0, <1>8, <2>2, OrderOfType, NoneIsFresh DEF FailPayment, TypeOK, Job, Claimed
    <2>3. NoOversell'
      BY <1>1, <2>1, <2>2, ReleasedClaims
    <2>4. QED
      BY <1>4, <1>5, <1>6, <1>7, <2>3
  <1>9. CASE ~(status[o] \in Unpaid)
    <2>1. \A t \in Ticket, x \in Worker \cup {None} : Claimed(t, x)' => Claimed(t, x)
      BY <1>0, <1>9, NoneIsFresh, OrderOfType DEF FailPayment, TypeOK, Job, Claimed
    <2>2. UNCHANGED <<pool, sold_count, sold_total>>
      BY <1>0, <1>9 DEF FailPayment
    <2>3. NoOversell'
      BY <2>1, <2>2, FewerClaims
    <2>4. QED
      BY <1>4, <1>5, <1>6, <1>7, <2>3
  <1>10. QED
    BY <1>8, <1>9

LEMMA RefundOrderStep ==
    ASSUME IInv, NEW w \in Worker, RefundOrder(w)
    PROVE  IInv'
  <1> USE DEF IInv
  <1>0. PICK o \in Order : o = job[w].order
    BY DEF RefundOrder, JobsOK
  <1>1. o = job[w].order /\ pool[o] \in Pool
    BY <1>0 DEF RefundOrder, JobsOK, RowsOK
  <1>2. Quantity(o) \in Nat
    BY <1>1, QuantityType
  <1>3. status[o] \in Live => Quantity(o) <= sold_total /\ Quantity(o) <= sold_count[pool[o]]
    BY <1>1, LiveIsCounted
  <1>4. TypeOK'
    BY <1>1, <1>2, <1>3 DEF RefundOrder, release_capacity, TypeOK, Job
  <1>5. RowsOK'
    BY <1>0, <1>1, NoneIsFresh DEF RefundOrder, release_capacity, TypeOK, RowsOK
  <1>6. EventsOK'
    BY <1>0, <1>1, NoneIsFresh DEF RefundOrder, release_capacity, TypeOK, EventsOK, JobsOK
  <1>7. JobsOK'
    BY <1>0, <1>1, NoneIsFresh DEF RefundOrder, release_capacity, TypeOK, JobsOK, EventsOK, Job
  <1>8. CASE status[o] = "PAID"
    <2>1. release_capacity(o) /\ pool' = pool /\ status[o] \in Live
      BY <1>0, <1>8 DEF RefundOrder, release_capacity
    <2>2. ASSUME NEW t \in Ticket, NEW y \in Worker \cup {None}, Claimed(t, y)'
          PROVE  Claimed(t, y) /\ ~(OrderOf[t] = o /\ y = None)
      BY <1>0, <1>8, <2>2, OrderOfType, NoneIsFresh DEF RefundOrder, TypeOK, Job, Claimed
    <2>3. NoOversell'
      BY <1>1, <2>1, <2>2, ReleasedClaims
    <2>4. QED
      BY <1>4, <1>5, <1>6, <1>7, <2>3
  <1>9. CASE ~(status[o] = "PAID")
    <2>1. \A t \in Ticket, x \in Worker \cup {None} : Claimed(t, x)' => Claimed(t, x)
      BY <1>0, <1>9, NoneIsFresh, OrderOfType DEF RefundOrder, TypeOK, Job, Claimed
    <2>2. UNCHANGED <<pool, sold_count, sold_total>>
      BY <1>0, <1>9 DEF RefundOrder
    <2>3. NoOversell'
      BY <2>1, <2>2, FewerClaims
    <2>4. QED
      BY <1>4, <1>5, <1>6, <1>7, <2>3
  <1>10. QED
    BY <1>8, <1>9

LEMMA InvalidateTicketsStep ==
    ASSUME IInv, NEW w \in Worker, InvalidateTickets(w)
    PROVE  IInv'
  <1> USE DEF IInv
  <1>4. TypeOK'
    BY CrashesType DEF InvalidateTickets, TypeOK, Job
  <1>5. RowsOK'
    BY NoneIsFresh DEF InvalidateTickets, TypeOK, RowsOK
  <1>6. EventsOK'
    BY NoneIsFresh DEF InvalidateTickets, TypeOK, EventsOK, JobsOK
  <1>7. JobsOK'
    BY NoneIsFresh DEF InvalidateTickets, TypeOK, JobsOK, EventsOK, Job
  <1>8. \A t \in Ticket, x \in Worker \cup {None} : Claimed(t, x)' => Claimed(t, x)
    BY NoneIsFresh, OrderOfType DEF InvalidateTickets, TypeOK, Job, Claimed
  <1>9. NoOversell'
    BY <1>8, FewerClaims DEF InvalidateTickets
  <1>10. QED
    BY <1>4, <1>5, <1>6, <1>7, <1>9

LEMMA FinishStep ==
    ASSUME IInv, NEW w \in Worker, Finish(w)
    PROVE  IInv'
  <1> USE DEF IInv
  <1>4. TypeOK'
    BY CrashesType DEF Finish, TypeOK, Job
  <1>5. RowsOK'
    BY NoneIsFresh DEF Finish, TypeOK, RowsOK
  <1>6. EventsOK'
    BY NoneIsFresh DEF Finish, TypeOK, EventsOK, JobsOK
  <1>7. JobsOK'
    BY NoneIsFresh DEF Finish, TypeOK, JobsOK, EventsOK, Job
  <1>8. \A t \in Ticket, x \in Worker \cup {None} : Claimed(t, x)' => Claimed(t, x)
    BY NoneIsFresh, OrderOfType DEF Finish, TypeOK, Job, Claimed
  <1>9. NoOversell'
    BY <1>8, FewerClaims DEF Finish
  <1>10. QED
    BY <1>4, <1>5, <1>6, <1>7, <1>9

LEMMA CrashStep ==
    ASSUME IInv, NEW w \in Worker, Crash(w)
    PROVE  IInv'
  <1> USE DEF IInv
  <1>4. TypeOK'
    BY CrashesType DEF Crash, TypeOK, Job
  <1>5. RowsOK'
    BY NoneIsFresh DEF Crash, TypeOK, RowsOK
  <1>6. EventsOK'
    BY NoneIsFresh DEF Crash, TypeOK, EventsOK, JobsOK
  <1>7. JobsOK'
    BY NoneIsFresh DEF Crash, TypeOK, JobsOK, EventsOK, Job
  <1>8. \A t \in Ticket, x \in Worker \cup {None} : Claimed(t, x)' => Claimed(t, x)
    BY NoneIsFresh, OrderOfType DEF Crash, TypeOK, Job, Claimed
  <1>9. NoOversell'
    BY <1>8, FewerClaims DEF Crash
  <1>10. QED
    BY <1>4, <1>5, <1>6, <1>7, <1>9

LEMMA DemoPaymentStep ==
    ASSUME IInv, NEW o \in Order, NEW e \in ProviderEvent, NEW k \in EventKind, DemoPayment(o, e, k)
    PROVE  IInv'
  <1> USE DEF IInv
  <1>4. TypeOK'
    BY CrashesType DEF DemoPayment, Emit, TypeOK, Job
  <1>5. RowsOK'
    BY NoneIsFresh DEF DemoPayment, Emit, TypeOK, RowsOK
  <1>6. EventsOK'
    BY NoneIsFresh DEF DemoPayment, Emit, TypeOK, EventsOK, JobsOK
  <1>7. JobsOK'
    BY NoneIsFresh DEF DemoPayment, Emit, TypeOK, JobsOK, EventsOK, Job
  <1>8. \A t \in Ticket, x \in Worker \cup {None} : Claimed(t, x)' => Claimed(t, x)
    BY NoneIsFresh, OrderOfType DEF DemoPayment, Emit, TypeOK, Job, Claimed
  <1>9. NoOversell'
    BY <1>8, FewerClaims DEF DemoPayment
  <1>10. QED
    BY <1>4, <1>5, <1>6, <1>7, <1>9

LEMMA SessionPaidStep ==
    ASSUME IInv, NEW e \in ProviderEvent, SessionPaid(e)
    PROVE  IInv'
  <1> USE DEF IInv
  <1>4. TypeOK'
    BY CrashesType DEF SessionPaid, TypeOK, Job
  <1>5. RowsOK'
    BY NoneIsFresh DEF SessionPaid, TypeOK, RowsOK
  <1>6. EventsOK'
    BY NoneIsFresh DEF SessionPaid, TypeOK, EventsOK, JobsOK
  <1>7. JobsOK'
    BY NoneIsFresh DEF SessionPaid, TypeOK, JobsOK, EventsOK, Job
  <1>8. \A t \in Ticket, x \in Worker \cup {None} : Claimed(t, x)' => Claimed(t, x)
    BY NoneIsFresh, OrderOfType DEF SessionPaid, TypeOK, Job, Claimed
  <1>9. NoOversell'
    BY <1>8, FewerClaims DEF SessionPaid
  <1>10. QED
    BY <1>4, <1>5, <1>6, <1>7, <1>9

LEMMA SessionExpiredStep ==
    ASSUME IInv, NEW e \in ProviderEvent, SessionExpired(e)
    PROVE  IInv'
  <1> USE DEF IInv
  <1>4. TypeOK'
    BY CrashesType DEF SessionExpired, TypeOK, Job
  <1>5. RowsOK'
    BY NoneIsFresh DEF SessionExpired, TypeOK, RowsOK
  <1>6. EventsOK'
    BY NoneIsFresh DEF SessionExpired, TypeOK, EventsOK, JobsOK
  <1>7. JobsOK'
    BY NoneIsFresh DEF SessionExpired, TypeOK, JobsOK, EventsOK, Job
  <1>8. \A t \in Ticket, x \in Worker \cup {None} : Claimed(t, x)' => Claimed(t, x)
    BY NoneIsFresh, OrderOfType DEF SessionExpired, TypeOK, Job, Claimed
  <1>9. NoOversell'
    BY <1>8, FewerClaims DEF SessionExpired
  <1>10. QED
    BY <1>4, <1>5, <1>6, <1>7, <1>9

LEMMA GiveUpStep ==
    ASSUME IInv, NEW o \in Order, NEW s \in {"EXPIRED", "CANCELLED"}, GiveUp(o, s)
    PROVE  IInv'
  <1> USE DEF IInv
  <1>1. pool[o] \in Pool
    BY DEF GiveUp, RowsOK
  <1>2. Quantity(o) \in Nat
    BY <1>1, QuantityType
  <1>3. status[o] \in Live => Quantity(o) <= sold_total /\ Quantity(o) <= sold_count[pool[o]]
    BY <1>1, LiveIsCounted
  <1>4. TypeOK'
    BY <1>1, <1>2, <1>3 DEF GiveUp, release_capacity, TypeOK, Job
  <1>5. RowsOK'
    BY <1>1, NoneIsFresh DEF GiveUp, release_capacity, TypeOK, RowsOK
  <1>6. EventsOK'
    BY <1>1, NoneIsFresh DEF GiveUp, release_capacity, TypeOK, EventsOK, JobsOK
  <1>7. JobsOK'
    BY <1>1, NoneIsFresh DEF GiveUp, release_capacity, TypeOK, JobsOK, EventsOK, Job
  <1>8. ASSUME NEW t \in Ticket, NEW y \in Worker \cup {None}, Claimed(t, y)'
        PROVE  Claimed(t, y) /\ ~(OrderOf[t] = o /\ y = None)
    BY <1>8, OrderOfType, NoneIsFresh DEF GiveUp, TypeOK, Job, Claimed
  <1>9. NoOversell'
    BY <1>1, <1>8, ReleasedClaims DEF GiveUp
  <1>10. QED
    BY <1>4, <1>5, <1>6, <1>7, <1>9

\* Before the sale nobody claims anything and the counters are zero.
LEMMA InitialInv == Init => IInv
  <1> SUFFICES ASSUME Init PROVE IInv
    OBVIOUS
  <1>1. TypeOK
    BY CrashesType DEF Init, TypeOK, Job
  <1>2. RowsOK /\ EventsOK /\ JobsOK
    BY DEF Init, RowsOK, EventsOK, JobsOK
  <1>3. \A t \in Ticket, x \in Worker \cup {None} : ~Claimed(t, x)
    BY OrderOfType DEF Init, Claimed
  <1>4. Claims = {} /\ \A p \in Pool : ClaimsIn(p) = {}
    BY <1>3 DEF Claims, ClaimsIn
  <1>5. Cardinality({}) = 0
    BY FS_EmptySet
  <1>6. NoOversell
    <2>1. sold_total = 0 /\ EventCapacity >= 0
      BY CapacityType DEF Init
    <2>2. \A p \in Pool : sold_count[p] = 0 /\ PoolCapacity[p] >= 0
      BY CapacityType DEF Init
    <2>3. QED
      BY <1>4, <1>5, <2>1, <2>2, CapacityType DEF NoOversell
  <1>7. QED
    BY <1>1, <1>2, <1>6 DEF IInv

\* A step that changes no variable.
LEMMA StutterStep == ASSUME IInv, UNCHANGED vars PROVE IInv'
  <1> USE DEF IInv, vars
  <1>1. TypeOK'
    BY DEF TypeOK
  <1>2. RowsOK' /\ EventsOK' /\ JobsOK'
    BY DEF RowsOK, EventsOK, JobsOK
  <1>3. \A t \in Ticket, x \in Worker \cup {None} : Claimed(t, x)' => Claimed(t, x)
    BY DEF Claimed
  <1>4. NoOversell'
    BY <1>3, FewerClaims
  <1>5. QED
    BY <1>1, <1>2, <1>4

LEMMA WorkerStep ==
    ASSUME IInv, NEW w \in Worker, Buy(w) \/ Refund(w) \/ Handle(w) \/ Crash(w)
    PROVE  IInv'
  <1>1. CASE Buy(w)
    BY <1>1, ChoosePoolStep, CreateOrderStep, RefuseOrderStep, OpenOrderPageStep,
       StartDemoCheckoutStep, CreateSessionStep, SaveSessionStep DEF Buy
  <1>2. CASE Refund(w)
    BY <1>2, RequestRefundStep, ProviderRefundStep, RefundRefusedStep DEF Refund
  <1>3. CASE Handle(w)
    BY <1>3, ClaimPaidStep, RefreshClaimedStep, RefreshUnclaimedStep, RereserveStep,
       PayLateStep, CheckTicketsStep, CreateTicketsStep, FailPaymentStep,
       RefundOrderStep, InvalidateTicketsStep, FinishStep DEF Handle
  <1>4. CASE Crash(w)
    BY <1>4, CrashStep
  <1>5. QED
    BY <1>1, <1>2, <1>3, <1>4

LEMMA Inductive == IInv /\ [Next]_vars => IInv'
  <1> SUFFICES ASSUME IInv, [Next]_vars PROVE IInv'
    OBVIOUS
  <1>1. ASSUME NEW w \in Worker, Buy(w) \/ Refund(w) \/ Handle(w) \/ Crash(w)
        PROVE  IInv'
    BY <1>1, WorkerStep
  <1>2. ASSUME NEW w \in Worker, NEW e \in ProviderEvent, ReceiveWebhook(w, e)
        PROVE  IInv'
    BY <1>2, ReceiveWebhookStep
  <1>3. ASSUME NEW o \in Order, ExpireOrder(o) \/ CancelUnpaid(o)
        PROVE  IInv'
    BY <1>3, GiveUpStep DEF ExpireOrder, CancelUnpaid
  <1>4. CASE Provider
    BY <1>4, DemoPaymentStep, SessionPaidStep, SessionExpiredStep DEF Provider
  <1>5. CASE UNCHANGED vars
    BY <1>5, StutterStep
  <1>6. QED
    BY <1>1, <1>2, <1>3, <1>4, <1>5 DEF Next

\* Every reachable state satisfies the invariant.
LEMMA Invariance == Spec => []IInv
  BY InitialInv, Inductive, PTL DEF Spec

-----------------------------------------------------------------------------
(* What follows for every sale.                                            *)

\* Statuses, counters, webhook records and the memory of request threads keep
\* their types: in particular sold_count and sold_total never go negative,
\* whatever releases race (services.py, release_capacity).
THEOREM TypeCorrect == Spec => []TypeOK
  <1>1. IInv => TypeOK
    BY DEF IInv
  <1>2. QED
    BY <1>1, Invariance, PTL

\* However many buyers, webhook deliveries, cron runs and crashes interleave,
\* the places claimed never exceed the counters, nor the counters the capacity.
THEOREM NeverOversold == Spec => []NoOversell
  <1>1. IInv => NoOversell
    BY DEF IInv
  <1>2. QED
    BY <1>1, Invariance, PTL

-----------------------------------------------------------------------------
(* The counters implement TicketInventory: an order holds its places       *)
(* exactly while it is live, takes them all at once and gives them all     *)
(* back at once, and the places held never exceed the capacity.            *)

\* The refinement mapping of Inventory.
Holding == [o \in Order |-> IF status[o] \in Live THEN pool[o] ELSE None]

-----------------------------------------------------------------------------
(* The places held are among the places claimed, which are counted.        *)

LEMMA HeldIsClaimed ==
    ASSUME NEW H, H \subseteq Ticket, NEW C, IsFiniteSet(C), H \X {None} \subseteq C
    PROVE  Cardinality(H) <= Cardinality(C)
  <1>1. IsFiniteSet(H)
    BY FiniteTickets, FS_Subset
  <1>2. IsFiniteSet({None}) /\ Cardinality({None}) = 1
    BY FS_Singleton
  <1>3. /\ IsFiniteSet(H \X {None})
        /\ Cardinality(H \X {None}) = Cardinality(H) * Cardinality({None})
    BY <1>1, <1>2, FS_Product
  <1>4. Cardinality(H) \in Nat
    BY <1>1, FS_CardinalityType
  <1>5. Cardinality(H \X {None}) <= Cardinality(C)
    BY FS_Subset
  <1>6. QED
    BY <1>2, <1>3, <1>4, <1>5

\* Both modules take Cardinality from FiniteSets.
LEMMA SameCardinality == \A S : Inventory!Cardinality(S) = Cardinality(S)
  BY DEF Inventory!Cardinality, Cardinality

LEMMA CapacityKept == IInv => Inventory!WithinCapacity
  <1> SUFFICES ASSUME IInv PROVE Inventory!WithinCapacity
    OBVIOUS
  <1> USE DEF IInv
  <1>1. \A t \in Ticket : /\ OrderOf[t] \in Order
                          /\ Holding[OrderOf[t]] # None => Claimed(t, None)
                          /\ Holding[OrderOf[t]] # None =>
                                pool[OrderOf[t]] = Holding[OrderOf[t]]
    BY OrderOfType DEF Holding, Claimed
  <1>2. sold_count \in [Pool -> Nat] /\ sold_total \in Nat
    BY DEF TypeOK
  <1>3. ASSUME NEW p \in Pool
        PROVE  Cardinality({t \in Ticket : Holding[OrderOf[t]] = p}) <= PoolCapacity[p]
    <2> DEFINE H == {t \in Ticket : Holding[OrderOf[t]] = p}
    <2>1. H \X {None} \subseteq ClaimsIn(p)
      BY <1>1, NoneIsFresh DEF ClaimsIn, Claims
    <2>2. Cardinality(H) <= Cardinality(ClaimsIn(p))
      BY <2>1, HeldIsClaimed, ClaimsFinite DEF FiniteClaims
    <2>3. Cardinality(H) \in Nat
      BY FiniteTickets, FS_Subset, FS_CardinalityType
    <2>4. QED
      BY <2>2, <2>3, <1>2, ClaimsFinite, CapacityType DEF NoOversell, FiniteClaims
  <1>4. Cardinality({t \in Ticket : Holding[OrderOf[t]] # None}) <= EventCapacity
    <2> DEFINE H == {t \in Ticket : Holding[OrderOf[t]] # None}
    <2>1. H \X {None} \subseteq Claims
      BY <1>1 DEF Claims
    <2>2. Cardinality(H) <= Cardinality(Claims)
      BY <2>1, HeldIsClaimed, ClaimsFinite DEF FiniteClaims
    <2>3. Cardinality(H) \in Nat
      BY FiniteTickets, FS_Subset, FS_CardinalityType
    <2>4. QED
      BY <2>2, <2>3, <1>2, ClaimsFinite, CapacityType DEF NoOversell, FiniteClaims
  <1>5. QED
    BY <1>3, <1>4, SameCardinality 
       DEF Inventory!WithinCapacity, Inventory!HeldIn, Inventory!Held, Holding

LEMMA CapacityKeptNext == IInv' => Inventory!WithinCapacity'
  BY CapacityKept, PTL

-----------------------------------------------------------------------------
(* Every step takes, gives or leaves places alone.                         *)

\* CreateOrder and PayLate take an order's places, FailPayment, RefundOrder
\* and GiveUp give them back, and every other step stutters.
LEMMA RefinementStep ==
    ASSUME IInv, [Next]_vars
    PROVE  Inventory!Next \/ UNCHANGED Holding
  <1> USE DEF IInv
  <1>w. Inventory!WithinCapacity'
    BY Inductive, CapacityKeptNext
  <1>1. ASSUME NEW w \in Worker, NEW p \in Pool, ChoosePool(w, p)
        PROVE  Inventory!Next \/ UNCHANGED Holding
    BY <1>1 DEF ChoosePool, Holding
  <1>2. ASSUME NEW w \in Worker, NEW o \in Order, CreateOrder(w, o)
        PROVE  Inventory!Next \/ UNCHANGED Holding
    <2>1. PICK p \in Pool : p = job[w].pool
      BY <1>2 DEF CreateOrder, JobsOK
    <2>2. /\ status[o] = "NONE" /\ status'[o] = "CREATED" /\ pool'[o] = p
          /\ \A c \in Order \ {o} : status'[c] = status[c] /\ pool'[c] = pool[c]
      BY <1>2, <2>1 DEF CreateOrder, TypeOK
    <2>3. Holding[o] = None /\ Holding' = [Holding EXCEPT ![o] = p]
      BY <2>2 DEF Holding
    <2>4. QED
      BY <2>3, <1>w DEF Inventory!Next, Inventory!Take, Holding
  <1>3. ASSUME NEW w \in Worker, NEW o \in Order, RefuseOrder(w, o)
        PROVE  Inventory!Next \/ UNCHANGED Holding
    BY <1>3 DEF RefuseOrder, Holding
  <1>4. ASSUME NEW w \in Worker, NEW o \in Order, OpenOrderPage(w, o)
        PROVE  Inventory!Next \/ UNCHANGED Holding
    BY <1>4 DEF OpenOrderPage, Holding
  <1>5. ASSUME NEW w \in Worker, StartDemoCheckout(w)
        PROVE  Inventory!Next \/ UNCHANGED Holding
    <2>1. /\ pool' = pool
          /\ \A c \in Order : status'[c] \in Live <=> status[c] \in Live
      BY <1>5 DEF StartDemoCheckout, TypeOK
    <2>2. QED
      BY <2>1 DEF Holding
  <1>6. ASSUME NEW w \in Worker, NEW e \in ProviderEvent, CreateSession(w, e)
        PROVE  Inventory!Next \/ UNCHANGED Holding
    BY <1>6 DEF CreateSession, Holding
  <1>7. ASSUME NEW w \in Worker, SaveSession(w)
        PROVE  Inventory!Next \/ UNCHANGED Holding
    <2>1. /\ pool' = pool
          /\ \A c \in Order : status'[c] \in Live <=> status[c] \in Live
      BY <1>7 DEF SaveSession, TypeOK
    <2>2. QED
      BY <2>1 DEF Holding
  <1>8. ASSUME NEW w \in Worker, NEW o \in Order, RequestRefund(w, o)
        PROVE  Inventory!Next \/ UNCHANGED Holding
    BY <1>8 DEF RequestRefund, Holding
  <1>9. ASSUME NEW w \in Worker, NEW e \in ProviderEvent, ProviderRefund(w, e)
        PROVE  Inventory!Next \/ UNCHANGED Holding
    BY <1>9 DEF ProviderRefund, Holding
  <1>10. ASSUME NEW w \in Worker, RefundRefused(w)
        PROVE  Inventory!Next \/ UNCHANGED Holding
    BY <1>10 DEF RefundRefused, Holding
  <1>11. ASSUME NEW w \in Worker, ClaimPaid(w)
        PROVE  Inventory!Next \/ UNCHANGED Holding
    <2>1. /\ pool' = pool
          /\ \A c \in Order : status'[c] \in Live <=> status[c] \in Live
      BY <1>11 DEF ClaimPaid, TypeOK
    <2>2. QED
      BY <2>1 DEF Holding
  <1>12. ASSUME NEW w \in Worker, RefreshClaimed(w)
        PROVE  Inventory!Next \/ UNCHANGED Holding
    BY <1>12 DEF RefreshClaimed, Holding
  <1>13. ASSUME NEW w \in Worker, RefreshUnclaimed(w)
        PROVE  Inventory!Next \/ UNCHANGED Holding
    BY <1>13 DEF RefreshUnclaimed, Holding
  <1>14. ASSUME NEW w \in Worker, Rereserve(w)
        PROVE  Inventory!Next \/ UNCHANGED Holding
    BY <1>14 DEF Rereserve, Holding
  <1>15. ASSUME NEW w \in Worker, PayLate(w)
        PROVE  Inventory!Next \/ UNCHANGED Holding
    <2>1. PICK o \in Order : o = job[w].order /\ pool[o] \in Pool
      BY <1>15 DEF PayLate, JobsOK, RowsOK
    <2>2. CASE status[o] = "EXPIRED"
      <3>1. PICK p \in Pool : p = pool[o]
        BY <2>1
      <3>2. /\ status'[o] = "PAID" /\ pool' = pool
            /\ \A c \in Order \ {o} : status'[c] = status[c]
        BY <1>15, <2>1, <2>2 DEF PayLate, TypeOK
      <3>3. Holding[o] = None /\ Holding' = [Holding EXCEPT ![o] = p]
        BY <2>2, <3>1, <3>2 DEF Holding
      <3>4. QED
        BY <3>3, <1>w DEF Inventory!Next, Inventory!Take, Holding
    <2>3. CASE status[o] # "EXPIRED"
      BY <1>15, <2>1, <2>3 DEF PayLate, Holding
    <2>4. QED
      BY <2>2, <2>3
  <1>16. ASSUME NEW w \in Worker, CheckTickets(w)
        PROVE  Inventory!Next \/ UNCHANGED Holding
    BY <1>16 DEF CheckTickets, Holding
  <1>17. ASSUME NEW w \in Worker, CreateTickets(w)
        PROVE  Inventory!Next \/ UNCHANGED Holding
    BY <1>17 DEF CreateTickets, Holding
  <1>18. ASSUME NEW w \in Worker, FailPayment(w)
        PROVE  Inventory!Next \/ UNCHANGED Holding
    <2>0. PICK o \in Order : o = job[w].order
      BY <1>18 DEF FailPayment, JobsOK
    <2>1. CASE status' = status
      BY <1>18, <2>1 DEF FailPayment, Holding
    <2>2. CASE status' # status
      <3>1. status[o] \in Live /\ status'[o] \notin Live /\ pool[o] \in Pool
        BY <1>18, <2>0, <2>2 DEF FailPayment, TypeOK, RowsOK
      <3>2. /\ \A c \in Order \ {o} : status'[c] = status[c]
            /\ pool' = pool
        BY <1>18, <2>0, <2>2 DEF FailPayment, TypeOK
      <3>3. Holding[o] # None /\ Holding' = [Holding EXCEPT ![o] = None]
        BY <3>1, <3>2, NoneIsFresh DEF Holding
      <3>4. QED
        BY <3>3 DEF Inventory!Next, Inventory!Give, Holding
    <2>3. QED
      BY <2>1, <2>2
  <1>19. ASSUME NEW w \in Worker, RefundOrder(w)
        PROVE  Inventory!Next \/ UNCHANGED Holding
    <2>0. PICK o \in Order : o = job[w].order
      BY <1>19 DEF RefundOrder, JobsOK
    <2>1. CASE status' = status
      BY <1>19, <2>1 DEF RefundOrder, Holding
    <2>2. CASE status' # status
      <3>1. status[o] \in Live /\ status'[o] \notin Live /\ pool[o] \in Pool
        BY <1>19, <2>0, <2>2 DEF RefundOrder, TypeOK, RowsOK
      <3>2. /\ \A c \in Order \ {o} : status'[c] = status[c]
            /\ pool' = pool
        BY <1>19, <2>0, <2>2 DEF RefundOrder, TypeOK
      <3>3. Holding[o] # None /\ Holding' = [Holding EXCEPT ![o] = None]
        BY <3>1, <3>2, NoneIsFresh DEF Holding
      <3>4. QED
        BY <3>3 DEF Inventory!Next, Inventory!Give, Holding
    <2>3. QED
      BY <2>1, <2>2
  <1>20. ASSUME NEW w \in Worker, InvalidateTickets(w)
        PROVE  Inventory!Next \/ UNCHANGED Holding
    BY <1>20 DEF InvalidateTickets, Holding
  <1>21. ASSUME NEW w \in Worker, Finish(w)
        PROVE  Inventory!Next \/ UNCHANGED Holding
    BY <1>21 DEF Finish, Holding
  <1>22. ASSUME NEW w \in Worker, Crash(w)
        PROVE  Inventory!Next \/ UNCHANGED Holding
    BY <1>22 DEF Crash, Holding
  <1>23. ASSUME NEW w \in Worker, NEW e \in ProviderEvent, ReceiveWebhook(w, e)
        PROVE  Inventory!Next \/ UNCHANGED Holding
    BY <1>23 DEF ReceiveWebhook, Holding
  <1>24. ASSUME NEW o \in Order, NEW s \in {"EXPIRED", "CANCELLED"}, GiveUp(o, s)
        PROVE  Inventory!Next \/ UNCHANGED Holding
    <2>1. CASE status' = status
      BY <1>24, <2>1 DEF GiveUp, Holding
    <2>2. CASE status' # status
      <3>1. status[o] \in Live /\ status'[o] \notin Live /\ pool[o] \in Pool
        BY <1>24, <2>2 DEF GiveUp, TypeOK, RowsOK
      <3>2. /\ \A c \in Order \ {o} : status'[c] = status[c]
            /\ pool' = pool
        BY <1>24, <2>2 DEF GiveUp, TypeOK
      <3>3. Holding[o] # None /\ Holding' = [Holding EXCEPT ![o] = None]
        BY <3>1, <3>2, NoneIsFresh DEF Holding
      <3>4. QED
        BY <3>3 DEF Inventory!Next, Inventory!Give, Holding
    <2>3. QED
      BY <2>1, <2>2
  <1>25. ASSUME NEW o \in Order, NEW e \in ProviderEvent,
               NEW k \in {"payment.succeeded", "payment.failed"}, DemoPayment(o, e, k)
        PROVE  Inventory!Next \/ UNCHANGED Holding
    BY <1>25 DEF DemoPayment, Holding
  <1>26. ASSUME NEW e \in ProviderEvent, SessionPaid(e)
        PROVE  Inventory!Next \/ UNCHANGED Holding
    BY <1>26 DEF SessionPaid, Holding
  <1>27. ASSUME NEW e \in ProviderEvent, SessionExpired(e)
        PROVE  Inventory!Next \/ UNCHANGED Holding
    BY <1>27 DEF SessionExpired, Holding
  <1>28. CASE UNCHANGED vars
    BY <1>28 DEF vars, Holding
  <1>29. ASSUME NEW w \in Worker, Buy(w)
        PROVE  Inventory!Next \/ UNCHANGED Holding
    BY <1>29, <1>1, <1>2, <1>3, <1>4, <1>5, <1>6, <1>7 DEF Buy
  <1>30. ASSUME NEW w \in Worker, Refund(w)
        PROVE  Inventory!Next \/ UNCHANGED Holding
    BY <1>30, <1>8, <1>9, <1>10 DEF Refund
  <1>31. ASSUME NEW w \in Worker, Handle(w)
        PROVE  Inventory!Next \/ UNCHANGED Holding
    BY <1>31, <1>11, <1>12, <1>13, <1>14, <1>15, <1>16, <1>17, <1>18, <1>19, <1>20, <1>21 DEF Handle
  <1>32. CASE Provider
    BY <1>32, <1>25, <1>26, <1>27 DEF Provider
  <1>33. ASSUME NEW o \in Order, ExpireOrder(o) \/ CancelUnpaid(o)
        PROVE  Inventory!Next \/ UNCHANGED Holding
    BY <1>33, <1>24 DEF ExpireOrder, CancelUnpaid
  <1>34. QED
    BY <1>29, <1>30, <1>31, <1>22, <1>23, <1>32, <1>33, <1>28 DEF Next

\* Whatever the provider, the cron job, the buyers and crashes do, the orders
\* table and its counters (services.py, payments.py) implement the inventory.
THEOREM ImplementsTheInventory == Spec => ImplementsInventory
  <1>1. Init => Inventory!Init
    BY DEF Init, Inventory!Init
  <1>2. IInv /\ [Next]_vars => [Inventory!Next]_Holding
    BY RefinementStep
  <1>3. QED
    BY <1>1, <1>2, Invariance, PTL DEF Spec, ImplementsInventory, Inventory!Spec, Holding

\* What buyers are promised: the tickets of all orders that are waiting for
\* payment or paid always fit into their pools and into the event.
THEOREM PlacesHeldFit == Spec => []Inventory!WithinCapacity
  BY CapacityKept, Invariance, PTL

(***************************************************************************)
(* The handling of webhooks: an event is handled once, an order changes    *)
(* its status only as models.py allows, tickets exist only for paid        *)
(* orders, a payment is ignored only for a reason, a paid order gets its   *)
(* tickets, and no place is lost.                                          *)
(***************************************************************************)

\* The vocabulary of the state and of the steps, expanded in every proof below.
USE DEF orderVars, capacityVars, providerVars, OrderStatus, Unpaid, Live,
        EventKind, RecordStatus, Handling, Pc, Idle, Goto, Done

-----------------------------------------------------------------------------
(* An event is handled once.                                               *)

\* A worker begins to handle an event only by recording it, and an event on
\* record is never recorded again.
LEMMA HandledOnceStep ==
    ASSUME IInv, HandledOnce, [Next]_vars
    PROVE  HandledOnce'
  <1> USE DEF IInv
  <1>1. ASSUME NEW w \in Worker, NEW p \in Pool, ChoosePool(w, p)
        PROVE  HandledOnce'
    <2>1. \A v \in Worker, d \in ProviderEvent : Handles(v, d)' => Handles(v, d)
      BY <1>1, NoneIsFresh DEF ChoosePool, Handles, TypeOK, Job
    <2>2. processing_status' = processing_status
      BY <1>1 DEF ChoosePool
    <2>3. QED
      BY <2>1, <2>2 DEF HandledOnce
  <1>2. ASSUME NEW w \in Worker, NEW o \in Order, CreateOrder(w, o)
        PROVE  HandledOnce'
    <2>1. \A v \in Worker, d \in ProviderEvent : Handles(v, d)' => Handles(v, d)
      BY <1>2, NoneIsFresh DEF CreateOrder, Handles, TypeOK, Job
    <2>2. processing_status' = processing_status
      BY <1>2 DEF CreateOrder
    <2>3. QED
      BY <2>1, <2>2 DEF HandledOnce
  <1>3. ASSUME NEW w \in Worker, NEW o \in Order, RefuseOrder(w, o)
        PROVE  HandledOnce'
    <2>1. \A v \in Worker, d \in ProviderEvent : Handles(v, d)' => Handles(v, d)
      BY <1>3, NoneIsFresh DEF RefuseOrder, Handles, TypeOK, Job
    <2>2. processing_status' = processing_status
      BY <1>3 DEF RefuseOrder
    <2>3. QED
      BY <2>1, <2>2 DEF HandledOnce
  <1>4. ASSUME NEW w \in Worker, NEW o \in Order, OpenOrderPage(w, o)
        PROVE  HandledOnce'
    <2>1. \A v \in Worker, d \in ProviderEvent : Handles(v, d)' => Handles(v, d)
      BY <1>4, NoneIsFresh DEF OpenOrderPage, Handles, TypeOK, Job
    <2>2. processing_status' = processing_status
      BY <1>4 DEF OpenOrderPage
    <2>3. QED
      BY <2>1, <2>2 DEF HandledOnce
  <1>5. ASSUME NEW w \in Worker, StartDemoCheckout(w)
        PROVE  HandledOnce'
    <2>1. \A v \in Worker, d \in ProviderEvent : Handles(v, d)' => Handles(v, d)
      BY <1>5, NoneIsFresh DEF StartDemoCheckout, Handles, TypeOK, Job
    <2>2. processing_status' = processing_status
      BY <1>5 DEF StartDemoCheckout
    <2>3. QED
      BY <2>1, <2>2 DEF HandledOnce
  <1>6. ASSUME NEW w \in Worker, NEW e \in ProviderEvent, CreateSession(w, e)
        PROVE  HandledOnce'
    <2>1. \A v \in Worker, d \in ProviderEvent : Handles(v, d)' => Handles(v, d)
      BY <1>6, NoneIsFresh DEF CreateSession, Emit, Handles, TypeOK, Job
    <2>2. processing_status' = processing_status
      BY <1>6 DEF CreateSession, Emit
    <2>3. QED
      BY <2>1, <2>2 DEF HandledOnce
  <1>7. ASSUME NEW w \in Worker, SaveSession(w)
        PROVE  HandledOnce'
    <2>1. \A v \in Worker, d \in ProviderEvent : Handles(v, d)' => Handles(v, d)
      BY <1>7, NoneIsFresh DEF SaveSession, Handles, TypeOK, Job
    <2>2. processing_status' = processing_status
      BY <1>7 DEF SaveSession
    <2>3. QED
      BY <2>1, <2>2 DEF HandledOnce
  <1>8. ASSUME NEW w \in Worker, NEW o \in Order, RequestRefund(w, o)
        PROVE  HandledOnce'
    <2>1. \A v \in Worker, d \in ProviderEvent : Handles(v, d)' => Handles(v, d)
      BY <1>8, NoneIsFresh DEF RequestRefund, Handles, TypeOK, Job
    <2>2. processing_status' = processing_status
      BY <1>8 DEF RequestRefund
    <2>3. QED
      BY <2>1, <2>2 DEF HandledOnce
  <1>9. ASSUME NEW w \in Worker, NEW e \in ProviderEvent, ProviderRefund(w, e)
        PROVE  HandledOnce'
    <2>1. \A v \in Worker, d \in ProviderEvent : Handles(v, d)' => Handles(v, d)
      BY <1>9, NoneIsFresh DEF ProviderRefund, Emit, Handles, TypeOK, Job
    <2>2. processing_status' = processing_status
      BY <1>9 DEF ProviderRefund, Emit
    <2>3. QED
      BY <2>1, <2>2 DEF HandledOnce
  <1>10. ASSUME NEW w \in Worker, RefundRefused(w)
        PROVE  HandledOnce'
    <2>1. \A v \in Worker, d \in ProviderEvent : Handles(v, d)' => Handles(v, d)
      BY <1>10, NoneIsFresh DEF RefundRefused, Handles, TypeOK, Job
    <2>2. processing_status' = processing_status
      BY <1>10 DEF RefundRefused
    <2>3. QED
      BY <2>1, <2>2 DEF HandledOnce
  <1>11. ASSUME NEW w \in Worker, ClaimPaid(w)
        PROVE  HandledOnce'
    <2>1. \A v \in Worker, d \in ProviderEvent : Handles(v, d)' => Handles(v, d)
      BY <1>11, NoneIsFresh DEF ClaimPaid, Handles, TypeOK, Job
    <2>2. processing_status' = processing_status
      BY <1>11 DEF ClaimPaid
    <2>3. QED
      BY <2>1, <2>2 DEF HandledOnce
  <1>12. ASSUME NEW w \in Worker, RefreshClaimed(w)
        PROVE  HandledOnce'
    <2>1. \A v \in Worker, d \in ProviderEvent : Handles(v, d)' => Handles(v, d)
      BY <1>12, NoneIsFresh DEF RefreshClaimed, Handles, TypeOK, Job
    <2>2. processing_status' = processing_status
      BY <1>12 DEF RefreshClaimed
    <2>3. QED
      BY <2>1, <2>2 DEF HandledOnce
  <1>13. ASSUME NEW w \in Worker, RefreshUnclaimed(w)
        PROVE  HandledOnce'
    <2>1. \A v \in Worker, d \in ProviderEvent : Handles(v, d)' => Handles(v, d)
      BY <1>13, NoneIsFresh DEF RefreshUnclaimed, Handles, TypeOK, Job
    <2>2. processing_status' = processing_status
      BY <1>13 DEF RefreshUnclaimed
    <2>3. QED
      BY <2>1, <2>2 DEF HandledOnce
  <1>14. ASSUME NEW w \in Worker, Rereserve(w)
        PROVE  HandledOnce'
    <2>1. \A v \in Worker, d \in ProviderEvent : Handles(v, d)' => Handles(v, d)
      BY <1>14, NoneIsFresh DEF Rereserve, Handles, TypeOK, Job
    <2>2. processing_status' = processing_status
      BY <1>14 DEF Rereserve
    <2>3. QED
      BY <2>1, <2>2 DEF HandledOnce
  <1>15. ASSUME NEW w \in Worker, PayLate(w)
        PROVE  HandledOnce'
    <2>1. \A v \in Worker, d \in ProviderEvent : Handles(v, d)' => Handles(v, d)
      BY <1>15, NoneIsFresh DEF PayLate, Handles, TypeOK, Job
    <2>2. processing_status' = processing_status
      BY <1>15 DEF PayLate
    <2>3. QED
      BY <2>1, <2>2 DEF HandledOnce
  <1>16. ASSUME NEW w \in Worker, CheckTickets(w)
        PROVE  HandledOnce'
    <2>1. \A v \in Worker, d \in ProviderEvent : Handles(v, d)' => Handles(v, d)
      BY <1>16, NoneIsFresh DEF CheckTickets, Handles, TypeOK, Job
    <2>2. processing_status' = processing_status
      BY <1>16 DEF CheckTickets
    <2>3. QED
      BY <2>1, <2>2 DEF HandledOnce
  <1>17. ASSUME NEW w \in Worker, CreateTickets(w)
        PROVE  HandledOnce'
    <2>1. \A v \in Worker, d \in ProviderEvent : Handles(v, d)' => Handles(v, d)
      BY <1>17, NoneIsFresh DEF CreateTickets, Handles, TypeOK, Job
    <2>2. processing_status' = processing_status
      BY <1>17 DEF CreateTickets
    <2>3. QED
      BY <2>1, <2>2 DEF HandledOnce
  <1>18. ASSUME NEW w \in Worker, FailPayment(w)
        PROVE  HandledOnce'
    <2>1. \A v \in Worker, d \in ProviderEvent : Handles(v, d)' => Handles(v, d)
      BY <1>18, NoneIsFresh DEF FailPayment, Handles, TypeOK, Job
    <2>2. processing_status' = processing_status
      BY <1>18 DEF FailPayment
    <2>3. QED
      BY <2>1, <2>2 DEF HandledOnce
  <1>19. ASSUME NEW w \in Worker, RefundOrder(w)
        PROVE  HandledOnce'
    <2>1. \A v \in Worker, d \in ProviderEvent : Handles(v, d)' => Handles(v, d)
      BY <1>19, NoneIsFresh DEF RefundOrder, Handles, TypeOK, Job
    <2>2. processing_status' = processing_status
      BY <1>19 DEF RefundOrder
    <2>3. QED
      BY <2>1, <2>2 DEF HandledOnce
  <1>20. ASSUME NEW w \in Worker, InvalidateTickets(w)
        PROVE  HandledOnce'
    <2>1. \A v \in Worker, d \in ProviderEvent : Handles(v, d)' => Handles(v, d)
      BY <1>20, NoneIsFresh DEF InvalidateTickets, Handles, TypeOK, Job
    <2>2. processing_status' = processing_status
      BY <1>20 DEF InvalidateTickets
    <2>3. QED
      BY <2>1, <2>2 DEF HandledOnce
  <1>21. ASSUME NEW w \in Worker, Finish(w)
        PROVE  HandledOnce'
    <2>1. Handles(w, job[w].event) /\ job[w].event \in ProviderEvent
      BY <1>21 DEF Finish, Handles, JobsOK
    <2>2. \A v \in Worker, d \in ProviderEvent :
             Handles(v, d)' => v # w /\ Handles(v, d) /\ d # job[w].event
      BY <1>21, <2>1 DEF Finish, HandledOnce, Handles, TypeOK, Job
    <2>3. \A d \in ProviderEvent :
             d # job[w].event => processing_status'[d] = processing_status[d]
      BY <1>21, <2>1 DEF Finish, TypeOK
    <2>4. QED
      BY <2>2, <2>3 DEF HandledOnce
  <1>22. ASSUME NEW w \in Worker, Crash(w)
        PROVE  HandledOnce'
    <2>1. \A v \in Worker, d \in ProviderEvent : Handles(v, d)' => Handles(v, d)
      BY <1>22, NoneIsFresh DEF Crash, Handles, TypeOK, Job
    <2>2. processing_status' = processing_status
      BY <1>22 DEF Crash
    <2>3. QED
      BY <2>1, <2>2 DEF HandledOnce
  <1>23. ASSUME NEW w \in Worker, NEW e \in ProviderEvent, ReceiveWebhook(w, e)
        PROVE  HandledOnce'
    <2>1. CASE processing_status[e] = "NONE"
      <3>1. \A v \in Worker : ~Handles(v, e)
        BY <2>1 DEF HandledOnce
      <3>2. \A v \in Worker, d \in ProviderEvent :
               Handles(v, d)' <=> (v = w /\ d = e) \/ (v # w /\ Handles(v, d))
        BY <1>23, <2>1 DEF ReceiveWebhook, Handles, TypeOK, Job
      <3>3. \A d \in ProviderEvent : processing_status'[d] =
               IF d = e THEN "RECEIVED" ELSE processing_status[d]
        BY <1>23, <2>1 DEF ReceiveWebhook, TypeOK
      <3>4. QED
        BY <3>1, <3>2, <3>3 DEF HandledOnce
    <2>2. CASE processing_status[e] # "NONE"
      BY <1>23, <2>2 DEF ReceiveWebhook, HandledOnce, Handles
    <2>3. QED
      BY <2>1, <2>2
  <1>24. ASSUME NEW o \in Order, NEW s \in {"EXPIRED", "CANCELLED"}, GiveUp(o, s)
        PROVE  HandledOnce'
    <2>1. \A v \in Worker, d \in ProviderEvent : Handles(v, d)' => Handles(v, d)
      BY <1>24, NoneIsFresh DEF GiveUp, Handles, TypeOK, Job
    <2>2. processing_status' = processing_status
      BY <1>24 DEF GiveUp
    <2>3. QED
      BY <2>1, <2>2 DEF HandledOnce
  <1>25. ASSUME NEW o \in Order, NEW e \in ProviderEvent,
               NEW k \in {"payment.succeeded", "payment.failed"}, DemoPayment(o, e, k)
        PROVE  HandledOnce'
    <2>1. \A v \in Worker, d \in ProviderEvent : Handles(v, d)' => Handles(v, d)
      BY <1>25, NoneIsFresh DEF DemoPayment, Emit, Handles, TypeOK, Job
    <2>2. processing_status' = processing_status
      BY <1>25 DEF DemoPayment, Emit
    <2>3. QED
      BY <2>1, <2>2 DEF HandledOnce
  <1>26. ASSUME NEW e \in ProviderEvent, SessionPaid(e)
        PROVE  HandledOnce'
    <2>1. \A v \in Worker, d \in ProviderEvent : Handles(v, d)' => Handles(v, d)
      BY <1>26, NoneIsFresh DEF SessionPaid, Handles, TypeOK, Job
    <2>2. processing_status' = processing_status
      BY <1>26 DEF SessionPaid
    <2>3. QED
      BY <2>1, <2>2 DEF HandledOnce
  <1>27. ASSUME NEW e \in ProviderEvent, SessionExpired(e)
        PROVE  HandledOnce'
    <2>1. \A v \in Worker, d \in ProviderEvent : Handles(v, d)' => Handles(v, d)
      BY <1>27, NoneIsFresh DEF SessionExpired, Handles, TypeOK, Job
    <2>2. processing_status' = processing_status
      BY <1>27 DEF SessionExpired
    <2>3. QED
      BY <2>1, <2>2 DEF HandledOnce
  <1>28. CASE UNCHANGED vars
    BY <1>28 DEF vars, HandledOnce, Handles
  <1>29. ASSUME NEW w \in Worker, Buy(w)
        PROVE  HandledOnce'
    BY <1>29, <1>1, <1>2, <1>3, <1>4, <1>5, <1>6, <1>7 DEF Buy
  <1>30. ASSUME NEW w \in Worker, Refund(w)
        PROVE  HandledOnce'
    BY <1>30, <1>8, <1>9, <1>10 DEF Refund
  <1>31. ASSUME NEW w \in Worker, Handle(w)
        PROVE  HandledOnce'
    BY <1>31, <1>11, <1>12, <1>13, <1>14, <1>15, <1>16, <1>17, <1>18, <1>19, <1>20, <1>21 DEF Handle
  <1>32. CASE Provider
    BY <1>32, <1>25, <1>26, <1>27 DEF Provider
  <1>33. ASSUME NEW o \in Order, ExpireOrder(o) \/ CancelUnpaid(o)
        PROVE  HandledOnce'
    BY <1>33, <1>24 DEF ExpireOrder, CancelUnpaid
  <1>34. QED
    BY <1>29, <1>30, <1>31, <1>22, <1>23, <1>32, <1>33, <1>28 DEF Next

\* However often the providers deliver an event and whoever receives it, one
\* request handles it, with its record still RECEIVED (payments.py,
\* process_webhook: the unique record is what makes webhooks idempotent).
THEOREM EventsHandledOnce == Spec => []HandledOnce
  <1>1. Init => HandledOnce
    BY DEF Init, HandledOnce, Handles
  <1>2. IInv /\ HandledOnce /\ [Next]_vars => HandledOnce'
    BY HandledOnceStep
  <1>3. QED
    BY <1>1, <1>2, Invariance, PTL DEF Spec

-----------------------------------------------------------------------------
(* Orders follow the table of transitions.                                 *)

\* Money can only have been paid for an order that has been at checkout.
PaymentsOK ==
    /\ \A o \in Order : checkout_url[o] # None => status[o] \notin {"NONE", "CREATED"}
    /\ \A e \in ProviderEvent : kind[e] = "payment.succeeded" =>
                                    status[about[e]] \notin {"NONE", "CREATED"}

\* What a step may do to the status of an order.
Onward(o) == status'[o] # status[o] =>
    \/ <<status[o], status'[o]>> \in {<<"NONE", "CREATED">>, <<"CREATED", "FAILED">>}
    \/ status[o] # "NONE" /\ status'[o] \in ORDER_TRANSITIONS[status[o]]

\* mark_order_paid accepts an order still CREATED, but is never given one.
LEMMA OnwardStep ==
    ASSUME IInv, PaymentsOK, [Next]_vars
    PROVE  \A c \in Order : Onward(c)
  <1> USE DEF IInv
  <1>1. ASSUME NEW w \in Worker, NEW p \in Pool, ChoosePool(w, p)
        PROVE  \A c \in Order : Onward(c)
    BY <1>1 DEF ChoosePool, Onward
  <1>2. ASSUME NEW w \in Worker, NEW o \in Order, CreateOrder(w, o)
        PROVE  \A c \in Order : Onward(c)
    BY <1>2 DEF CreateOrder, Onward, ORDER_TRANSITIONS, TypeOK
  <1>3. ASSUME NEW w \in Worker, NEW o \in Order, RefuseOrder(w, o)
        PROVE  \A c \in Order : Onward(c)
    BY <1>3 DEF RefuseOrder, Onward
  <1>4. ASSUME NEW w \in Worker, NEW o \in Order, OpenOrderPage(w, o)
        PROVE  \A c \in Order : Onward(c)
    BY <1>4 DEF OpenOrderPage, Onward
  <1>5. ASSUME NEW w \in Worker, StartDemoCheckout(w)
        PROVE  \A c \in Order : Onward(c)
    BY <1>5 DEF StartDemoCheckout, Onward, ORDER_TRANSITIONS, TypeOK
  <1>6. ASSUME NEW w \in Worker, NEW e \in ProviderEvent, CreateSession(w, e)
        PROVE  \A c \in Order : Onward(c)
    BY <1>6 DEF CreateSession, Onward
  <1>7. ASSUME NEW w \in Worker, SaveSession(w)
        PROVE  \A c \in Order : Onward(c)
    BY <1>7 DEF SaveSession, Onward, ORDER_TRANSITIONS, TypeOK
  <1>8. ASSUME NEW w \in Worker, NEW o \in Order, RequestRefund(w, o)
        PROVE  \A c \in Order : Onward(c)
    BY <1>8 DEF RequestRefund, Onward
  <1>9. ASSUME NEW w \in Worker, NEW e \in ProviderEvent, ProviderRefund(w, e)
        PROVE  \A c \in Order : Onward(c)
    BY <1>9 DEF ProviderRefund, Onward
  <1>10. ASSUME NEW w \in Worker, RefundRefused(w)
        PROVE  \A c \in Order : Onward(c)
    BY <1>10 DEF RefundRefused, Onward
  <1>11. ASSUME NEW w \in Worker, ClaimPaid(w)
        PROVE  \A c \in Order : Onward(c)
    BY <1>11 DEF ClaimPaid, Onward, ORDER_TRANSITIONS, TypeOK, JobsOK, PaymentsOK
  <1>12. ASSUME NEW w \in Worker, RefreshClaimed(w)
        PROVE  \A c \in Order : Onward(c)
    BY <1>12 DEF RefreshClaimed, Onward
  <1>13. ASSUME NEW w \in Worker, RefreshUnclaimed(w)
        PROVE  \A c \in Order : Onward(c)
    BY <1>13 DEF RefreshUnclaimed, Onward
  <1>14. ASSUME NEW w \in Worker, Rereserve(w)
        PROVE  \A c \in Order : Onward(c)
    BY <1>14 DEF Rereserve, Onward
  <1>15. ASSUME NEW w \in Worker, PayLate(w)
        PROVE  \A c \in Order : Onward(c)
    BY <1>15 DEF PayLate, Onward, ORDER_TRANSITIONS, TypeOK
  <1>16. ASSUME NEW w \in Worker, CheckTickets(w)
        PROVE  \A c \in Order : Onward(c)
    BY <1>16 DEF CheckTickets, Onward
  <1>17. ASSUME NEW w \in Worker, CreateTickets(w)
        PROVE  \A c \in Order : Onward(c)
    BY <1>17 DEF CreateTickets, Onward
  <1>18. ASSUME NEW w \in Worker, FailPayment(w)
        PROVE  \A c \in Order : Onward(c)
    BY <1>18 DEF FailPayment, Onward, ORDER_TRANSITIONS, TypeOK
  <1>19. ASSUME NEW w \in Worker, RefundOrder(w)
        PROVE  \A c \in Order : Onward(c)
    BY <1>19 DEF RefundOrder, Onward, ORDER_TRANSITIONS, TypeOK
  <1>20. ASSUME NEW w \in Worker, InvalidateTickets(w)
        PROVE  \A c \in Order : Onward(c)
    BY <1>20 DEF InvalidateTickets, Onward
  <1>21. ASSUME NEW w \in Worker, Finish(w)
        PROVE  \A c \in Order : Onward(c)
    BY <1>21 DEF Finish, Onward
  <1>22. ASSUME NEW w \in Worker, Crash(w)
        PROVE  \A c \in Order : Onward(c)
    BY <1>22 DEF Crash, Onward
  <1>23. ASSUME NEW w \in Worker, NEW e \in ProviderEvent, ReceiveWebhook(w, e)
        PROVE  \A c \in Order : Onward(c)
    BY <1>23 DEF ReceiveWebhook, Onward
  <1>24. ASSUME NEW o \in Order, NEW s \in {"EXPIRED", "CANCELLED"}, GiveUp(o, s)
        PROVE  \A c \in Order : Onward(c)
    BY <1>24 DEF GiveUp, Onward, ORDER_TRANSITIONS, TypeOK
  <1>25. ASSUME NEW o \in Order, NEW e \in ProviderEvent,
               NEW k \in {"payment.succeeded", "payment.failed"}, DemoPayment(o, e, k)
        PROVE  \A c \in Order : Onward(c)
    BY <1>25 DEF DemoPayment, Onward
  <1>26. ASSUME NEW e \in ProviderEvent, SessionPaid(e)
        PROVE  \A c \in Order : Onward(c)
    BY <1>26 DEF SessionPaid, Onward
  <1>27. ASSUME NEW e \in ProviderEvent, SessionExpired(e)
        PROVE  \A c \in Order : Onward(c)
    BY <1>27 DEF SessionExpired, Onward
  <1>28. CASE UNCHANGED vars
    BY <1>28 DEF vars, Onward
  <1>29. ASSUME NEW w \in Worker, Buy(w)
        PROVE  \A c \in Order : Onward(c)
    BY <1>29, <1>1, <1>2, <1>3, <1>4, <1>5, <1>6, <1>7 DEF Buy
  <1>30. ASSUME NEW w \in Worker, Refund(w)
        PROVE  \A c \in Order : Onward(c)
    BY <1>30, <1>8, <1>9, <1>10 DEF Refund
  <1>31. ASSUME NEW w \in Worker, Handle(w)
        PROVE  \A c \in Order : Onward(c)
    BY <1>31, <1>11, <1>12, <1>13, <1>14, <1>15, <1>16, <1>17, <1>18, <1>19, <1>20, <1>21 DEF Handle
  <1>32. CASE Provider
    BY <1>32, <1>25, <1>26, <1>27 DEF Provider
  <1>33. ASSUME NEW o \in Order, ExpireOrder(o) \/ CancelUnpaid(o)
        PROVE  \A c \in Order : Onward(c)
    BY <1>33, <1>24 DEF ExpireOrder, CancelUnpaid
  <1>34. QED
    BY <1>29, <1>30, <1>31, <1>22, <1>23, <1>32, <1>33, <1>28 DEF Next

\* A session is paid only through the URL stored with the order, a demo
\* payment is made only on the page of an order PAYMENT_PENDING.
LEMMA PaymentsOKStep ==
    ASSUME IInv, PaymentsOK, [Next]_vars
    PROVE  PaymentsOK'
  <1> USE DEF IInv
  <1>1. ASSUME NEW w \in Worker, NEW p \in Pool, ChoosePool(w, p)
        PROVE  PaymentsOK'
    BY <1>1, NoneIsFresh DEF ChoosePool, PaymentsOK, TypeOK, EventsOK, JobsOK
  <1>2. ASSUME NEW w \in Worker, NEW o \in Order, CreateOrder(w, o)
        PROVE  PaymentsOK'
    <2>1. \A c \in Order : status[c] \notin {"NONE", "CREATED"} =>
                               status'[c] \notin {"NONE", "CREATED"}
      BY <1>2 DEF CreateOrder, TypeOK
    <2>2. QED
      BY <1>2, <2>1, NoneIsFresh DEF CreateOrder, PaymentsOK, TypeOK, EventsOK, JobsOK
  <1>3. ASSUME NEW w \in Worker, NEW o \in Order, RefuseOrder(w, o)
        PROVE  PaymentsOK'
    BY <1>3, NoneIsFresh DEF RefuseOrder, PaymentsOK, TypeOK, EventsOK, JobsOK
  <1>4. ASSUME NEW w \in Worker, NEW o \in Order, OpenOrderPage(w, o)
        PROVE  PaymentsOK'
    BY <1>4, NoneIsFresh DEF OpenOrderPage, PaymentsOK, TypeOK, EventsOK, JobsOK
  <1>5. ASSUME NEW w \in Worker, StartDemoCheckout(w)
        PROVE  PaymentsOK'
    <2>1. \A c \in Order : status[c] \notin {"NONE", "CREATED"} =>
                               status'[c] \notin {"NONE", "CREATED"}
      BY <1>5 DEF StartDemoCheckout, TypeOK
    <2>2. QED
      BY <1>5, <2>1, NoneIsFresh DEF StartDemoCheckout, PaymentsOK, TypeOK, EventsOK, JobsOK
  <1>6. ASSUME NEW w \in Worker, NEW e \in ProviderEvent, CreateSession(w, e)
        PROVE  PaymentsOK'
    BY <1>6, NoneIsFresh DEF CreateSession, Emit, PaymentsOK, TypeOK, EventsOK, JobsOK
  <1>7. ASSUME NEW w \in Worker, SaveSession(w)
        PROVE  PaymentsOK'
    <2>1. \A c \in Order : status[c] \notin {"NONE", "CREATED"} =>
                               status'[c] \notin {"NONE", "CREATED"}
      BY <1>7 DEF SaveSession, TypeOK
    <2>2. QED
      BY <1>7, <2>1, NoneIsFresh DEF SaveSession, PaymentsOK, TypeOK, EventsOK, JobsOK
  <1>8. ASSUME NEW w \in Worker, NEW o \in Order, RequestRefund(w, o)
        PROVE  PaymentsOK'
    BY <1>8, NoneIsFresh DEF RequestRefund, PaymentsOK, TypeOK, EventsOK, JobsOK
  <1>9. ASSUME NEW w \in Worker, NEW e \in ProviderEvent, ProviderRefund(w, e)
        PROVE  PaymentsOK'
    BY <1>9, NoneIsFresh DEF ProviderRefund, Emit, PaymentsOK, TypeOK, EventsOK, JobsOK
  <1>10. ASSUME NEW w \in Worker, RefundRefused(w)
        PROVE  PaymentsOK'
    BY <1>10, NoneIsFresh DEF RefundRefused, PaymentsOK, TypeOK, EventsOK, JobsOK
  <1>11. ASSUME NEW w \in Worker, ClaimPaid(w)
        PROVE  PaymentsOK'
    <2>1. \A c \in Order : status[c] \notin {"NONE", "CREATED"} =>
                               status'[c] \notin {"NONE", "CREATED"}
      BY <1>11 DEF ClaimPaid, TypeOK
    <2>2. QED
      BY <1>11, <2>1, NoneIsFresh DEF ClaimPaid, PaymentsOK, TypeOK, EventsOK, JobsOK
  <1>12. ASSUME NEW w \in Worker, RefreshClaimed(w)
        PROVE  PaymentsOK'
    BY <1>12, NoneIsFresh DEF RefreshClaimed, PaymentsOK, TypeOK, EventsOK, JobsOK
  <1>13. ASSUME NEW w \in Worker, RefreshUnclaimed(w)
        PROVE  PaymentsOK'
    BY <1>13, NoneIsFresh DEF RefreshUnclaimed, PaymentsOK, TypeOK, EventsOK, JobsOK
  <1>14. ASSUME NEW w \in Worker, Rereserve(w)
        PROVE  PaymentsOK'
    BY <1>14, NoneIsFresh DEF Rereserve, PaymentsOK, TypeOK, EventsOK, JobsOK
  <1>15. ASSUME NEW w \in Worker, PayLate(w)
        PROVE  PaymentsOK'
    <2>1. \A c \in Order : status[c] \notin {"NONE", "CREATED"} =>
                               status'[c] \notin {"NONE", "CREATED"}
      BY <1>15 DEF PayLate, TypeOK
    <2>2. QED
      BY <1>15, <2>1, NoneIsFresh DEF PayLate, PaymentsOK, TypeOK, EventsOK, JobsOK
  <1>16. ASSUME NEW w \in Worker, CheckTickets(w)
        PROVE  PaymentsOK'
    BY <1>16, NoneIsFresh DEF CheckTickets, PaymentsOK, TypeOK, EventsOK, JobsOK
  <1>17. ASSUME NEW w \in Worker, CreateTickets(w)
        PROVE  PaymentsOK'
    BY <1>17, NoneIsFresh DEF CreateTickets, PaymentsOK, TypeOK, EventsOK, JobsOK
  <1>18. ASSUME NEW w \in Worker, FailPayment(w)
        PROVE  PaymentsOK'
    <2>1. \A c \in Order : status[c] \notin {"NONE", "CREATED"} =>
                               status'[c] \notin {"NONE", "CREATED"}
      BY <1>18 DEF FailPayment, TypeOK
    <2>2. QED
      BY <1>18, <2>1, NoneIsFresh DEF FailPayment, PaymentsOK, TypeOK, EventsOK, JobsOK
  <1>19. ASSUME NEW w \in Worker, RefundOrder(w)
        PROVE  PaymentsOK'
    <2>1. \A c \in Order : status[c] \notin {"NONE", "CREATED"} =>
                               status'[c] \notin {"NONE", "CREATED"}
      BY <1>19 DEF RefundOrder, TypeOK
    <2>2. QED
      BY <1>19, <2>1, NoneIsFresh DEF RefundOrder, PaymentsOK, TypeOK, EventsOK, JobsOK
  <1>20. ASSUME NEW w \in Worker, InvalidateTickets(w)
        PROVE  PaymentsOK'
    BY <1>20, NoneIsFresh DEF InvalidateTickets, PaymentsOK, TypeOK, EventsOK, JobsOK
  <1>21. ASSUME NEW w \in Worker, Finish(w)
        PROVE  PaymentsOK'
    BY <1>21, NoneIsFresh DEF Finish, PaymentsOK, TypeOK, EventsOK, JobsOK
  <1>22. ASSUME NEW w \in Worker, Crash(w)
        PROVE  PaymentsOK'
    BY <1>22, NoneIsFresh DEF Crash, PaymentsOK, TypeOK, EventsOK, JobsOK
  <1>23. ASSUME NEW w \in Worker, NEW e \in ProviderEvent, ReceiveWebhook(w, e)
        PROVE  PaymentsOK'
    BY <1>23, NoneIsFresh DEF ReceiveWebhook, PaymentsOK, TypeOK, EventsOK, JobsOK
  <1>24. ASSUME NEW o \in Order, NEW s \in {"EXPIRED", "CANCELLED"}, GiveUp(o, s)
        PROVE  PaymentsOK'
    <2>1. \A c \in Order : status[c] \notin {"NONE", "CREATED"} =>
                               status'[c] \notin {"NONE", "CREATED"}
      BY <1>24 DEF GiveUp, TypeOK
    <2>2. QED
      BY <1>24, <2>1, NoneIsFresh DEF GiveUp, PaymentsOK, TypeOK, EventsOK, JobsOK
  <1>25. ASSUME NEW o \in Order, NEW e \in ProviderEvent,
               NEW k \in {"payment.succeeded", "payment.failed"}, DemoPayment(o, e, k)
        PROVE  PaymentsOK'
    BY <1>25, NoneIsFresh DEF DemoPayment, Emit, PaymentsOK, TypeOK, EventsOK, JobsOK
  <1>26. ASSUME NEW e \in ProviderEvent, SessionPaid(e)
        PROVE  PaymentsOK'
    BY <1>26, NoneIsFresh DEF SessionPaid, PaymentsOK, TypeOK, EventsOK, JobsOK
  <1>27. ASSUME NEW e \in ProviderEvent, SessionExpired(e)
        PROVE  PaymentsOK'
    BY <1>27, NoneIsFresh DEF SessionExpired, PaymentsOK, TypeOK, EventsOK, JobsOK
  <1>28. CASE UNCHANGED vars
    BY <1>28 DEF vars, PaymentsOK
  <1>29. ASSUME NEW w \in Worker, Buy(w)
        PROVE  PaymentsOK'
    BY <1>29, <1>1, <1>2, <1>3, <1>4, <1>5, <1>6, <1>7 DEF Buy
  <1>30. ASSUME NEW w \in Worker, Refund(w)
        PROVE  PaymentsOK'
    BY <1>30, <1>8, <1>9, <1>10 DEF Refund
  <1>31. ASSUME NEW w \in Worker, Handle(w)
        PROVE  PaymentsOK'
    BY <1>31, <1>11, <1>12, <1>13, <1>14, <1>15, <1>16, <1>17, <1>18, <1>19, <1>20, <1>21 DEF Handle
  <1>32. CASE Provider
    BY <1>32, <1>25, <1>26, <1>27 DEF Provider
  <1>33. ASSUME NEW o \in Order, ExpireOrder(o) \/ CancelUnpaid(o)
        PROVE  PaymentsOK'
    BY <1>33, <1>24 DEF ExpireOrder, CancelUnpaid
  <1>34. QED
    BY <1>29, <1>30, <1>31, <1>22, <1>23, <1>32, <1>33, <1>28 DEF Next

\* Orders move only along ORDER_TRANSITIONS (models.py), or from CREATED to
\* FAILED, although no conditional UPDATE consults that table: in particular
\* nothing leaves CANCELLED or REFUNDED, and PAID leads to REFUNDED only.
THEOREM OrdersFollowTable == Spec => TransitionsFollowTable
  <1>1. Init => PaymentsOK
    BY DEF Init, PaymentsOK
  <1>2. IInv /\ PaymentsOK /\ [Next]_vars => PaymentsOK'
    BY PaymentsOKStep
  <1>3. ASSUME IInv, PaymentsOK, [Next]_vars
        PROVE  [\A o \in Order : status'[o] # status[o] =>
                   \/ <<status[o], status'[o]>> \in {<<"NONE", "CREATED">>, <<"CREATED", "FAILED">>}
                   \/ status[o] # "NONE" /\ status'[o] \in ORDER_TRANSITIONS[status[o]]]_status
    BY <1>3, OnwardStep DEF Onward
  <1>4. QED
    BY <1>1, <1>2, <1>3, Invariance, PTL DEF Spec, TransitionsFollowTable

-----------------------------------------------------------------------------
(* Tickets exist only for paid orders.                                     *)

Settled == {"PAID", "REFUNDED"}

\* Where a worker stands in mark_order_paid tells how far its order has come,
\* and an event with tickets is one that has been delivered.
JobsPaid ==
    /\ \A w \in Worker :
          /\ job[w].pc \in {"claimed", "issue", "create_tickets"} =>
                status[job[w].order] \in Settled
          /\ job[w].pc \in {"rereserve", "pay_late"} =>
                status[job[w].order] \in Settled \cup {"EXPIRED"}
    /\ \A e \in ProviderEvent : batch[e] # "NONE" => kind[e] \notin {"NONE", "open"}

\* A paid order stays paid or refunded, an expired one can only be paid; so
\* what a worker has seen of its order is never undone.
LEMMA JobsPaidStep ==
    ASSUME IInv, PaymentsOK, JobsPaid, [Next]_vars
    PROVE  JobsPaid'
  <1> USE DEF IInv
  <1>s. \A c \in Order : /\ status[c] \in Settled => status'[c] \in Settled
                         /\ status[c] = "EXPIRED" => status'[c] \in Settled \cup {"EXPIRED"}
    BY OnwardStep DEF Onward, ORDER_TRANSITIONS, Settled
  <1>1. ASSUME NEW w \in Worker, NEW p \in Pool, ChoosePool(w, p)
        PROVE  JobsPaid'
    BY <1>1, <1>s, NoneIsFresh DEF ChoosePool, JobsPaid, Settled, TypeOK, Job, JobsOK
  <1>2. ASSUME NEW w \in Worker, NEW o \in Order, CreateOrder(w, o)
        PROVE  JobsPaid'
    BY <1>2, <1>s, NoneIsFresh DEF CreateOrder, JobsPaid, Settled, TypeOK, Job, JobsOK
  <1>3. ASSUME NEW w \in Worker, NEW o \in Order, RefuseOrder(w, o)
        PROVE  JobsPaid'
    BY <1>3, <1>s, NoneIsFresh DEF RefuseOrder, JobsPaid, Settled, TypeOK, Job, JobsOK
  <1>4. ASSUME NEW w \in Worker, NEW o \in Order, OpenOrderPage(w, o)
        PROVE  JobsPaid'
    BY <1>4, <1>s, NoneIsFresh DEF OpenOrderPage, JobsPaid, Settled, TypeOK, Job, JobsOK
  <1>5. ASSUME NEW w \in Worker, StartDemoCheckout(w)
        PROVE  JobsPaid'
    BY <1>5, <1>s, NoneIsFresh DEF StartDemoCheckout, JobsPaid, Settled, TypeOK, Job, JobsOK
  <1>6. ASSUME NEW w \in Worker, NEW e \in ProviderEvent, CreateSession(w, e)
        PROVE  JobsPaid'
    BY <1>6, <1>s, NoneIsFresh DEF CreateSession, Emit, JobsPaid, Settled, TypeOK, Job, JobsOK
  <1>7. ASSUME NEW w \in Worker, SaveSession(w)
        PROVE  JobsPaid'
    BY <1>7, <1>s, NoneIsFresh DEF SaveSession, JobsPaid, Settled, TypeOK, Job, JobsOK
  <1>8. ASSUME NEW w \in Worker, NEW o \in Order, RequestRefund(w, o)
        PROVE  JobsPaid'
    BY <1>8, <1>s, NoneIsFresh DEF RequestRefund, JobsPaid, Settled, TypeOK, Job, JobsOK
  <1>9. ASSUME NEW w \in Worker, NEW e \in ProviderEvent, ProviderRefund(w, e)
        PROVE  JobsPaid'
    BY <1>9, <1>s, NoneIsFresh DEF ProviderRefund, Emit, JobsPaid, Settled, TypeOK, Job, JobsOK
  <1>10. ASSUME NEW w \in Worker, RefundRefused(w)
        PROVE  JobsPaid'
    BY <1>10, <1>s, NoneIsFresh DEF RefundRefused, JobsPaid, Settled, TypeOK, Job, JobsOK
  <1>11. ASSUME NEW w \in Worker, ClaimPaid(w)
        PROVE  JobsPaid'
    BY <1>11, <1>s, NoneIsFresh DEF ClaimPaid, JobsPaid, Settled, TypeOK, Job, JobsOK
  <1>12. ASSUME NEW w \in Worker, RefreshClaimed(w)
        PROVE  JobsPaid'
    BY <1>12, <1>s, NoneIsFresh DEF RefreshClaimed, JobsPaid, Settled, TypeOK, Job, JobsOK
  <1>13. ASSUME NEW w \in Worker, RefreshUnclaimed(w)
        PROVE  JobsPaid'
    BY <1>13, <1>s, NoneIsFresh DEF RefreshUnclaimed, JobsPaid, Settled, TypeOK, Job, JobsOK
  <1>14. ASSUME NEW w \in Worker, Rereserve(w)
        PROVE  JobsPaid'
    BY <1>14, <1>s, NoneIsFresh DEF Rereserve, JobsPaid, Settled, TypeOK, Job, JobsOK
  <1>15. ASSUME NEW w \in Worker, PayLate(w)
        PROVE  JobsPaid'
    BY <1>15, <1>s, NoneIsFresh DEF PayLate, JobsPaid, Settled, TypeOK, Job, JobsOK
  <1>16. ASSUME NEW w \in Worker, CheckTickets(w)
        PROVE  JobsPaid'
    BY <1>16, <1>s, NoneIsFresh DEF CheckTickets, JobsPaid, Settled, TypeOK, Job, JobsOK
  <1>17. ASSUME NEW w \in Worker, CreateTickets(w)
        PROVE  JobsPaid'
    BY <1>17, <1>s, NoneIsFresh DEF CreateTickets, JobsPaid, Settled, TypeOK, Job, JobsOK
  <1>18. ASSUME NEW w \in Worker, FailPayment(w)
        PROVE  JobsPaid'
    BY <1>18, <1>s, NoneIsFresh DEF FailPayment, JobsPaid, Settled, TypeOK, Job, JobsOK
  <1>19. ASSUME NEW w \in Worker, RefundOrder(w)
        PROVE  JobsPaid'
    BY <1>19, <1>s, NoneIsFresh DEF RefundOrder, JobsPaid, Settled, TypeOK, Job, JobsOK
  <1>20. ASSUME NEW w \in Worker, InvalidateTickets(w)
        PROVE  JobsPaid'
    BY <1>20, <1>s, NoneIsFresh DEF InvalidateTickets, JobsPaid, Settled, TypeOK, Job, JobsOK
  <1>21. ASSUME NEW w \in Worker, Finish(w)
        PROVE  JobsPaid'
    BY <1>21, <1>s, NoneIsFresh DEF Finish, JobsPaid, Settled, TypeOK, Job, JobsOK
  <1>22. ASSUME NEW w \in Worker, Crash(w)
        PROVE  JobsPaid'
    BY <1>22, <1>s, NoneIsFresh DEF Crash, JobsPaid, Settled, TypeOK, Job, JobsOK
  <1>23. ASSUME NEW w \in Worker, NEW e \in ProviderEvent, ReceiveWebhook(w, e)
        PROVE  JobsPaid'
    BY <1>23, <1>s, NoneIsFresh DEF ReceiveWebhook, JobsPaid, Settled, TypeOK, Job, JobsOK
  <1>24. ASSUME NEW o \in Order, NEW s \in {"EXPIRED", "CANCELLED"}, GiveUp(o, s)
        PROVE  JobsPaid'
    BY <1>24, <1>s, NoneIsFresh DEF GiveUp, JobsPaid, Settled, TypeOK, Job, JobsOK
  <1>25. ASSUME NEW o \in Order, NEW e \in ProviderEvent,
               NEW k \in {"payment.succeeded", "payment.failed"}, DemoPayment(o, e, k)
        PROVE  JobsPaid'
    BY <1>25, <1>s, NoneIsFresh DEF DemoPayment, Emit, JobsPaid, Settled, TypeOK, Job, JobsOK
  <1>26. ASSUME NEW e \in ProviderEvent, SessionPaid(e)
        PROVE  JobsPaid'
    BY <1>26, <1>s, NoneIsFresh DEF SessionPaid, JobsPaid, Settled, TypeOK, Job, JobsOK
  <1>27. ASSUME NEW e \in ProviderEvent, SessionExpired(e)
        PROVE  JobsPaid'
    BY <1>27, <1>s, NoneIsFresh DEF SessionExpired, JobsPaid, Settled, TypeOK, Job, JobsOK
  <1>28. CASE UNCHANGED vars
    BY <1>28 DEF vars, JobsPaid
  <1>29. ASSUME NEW w \in Worker, Buy(w)
        PROVE  JobsPaid'
    BY <1>29, <1>1, <1>2, <1>3, <1>4, <1>5, <1>6, <1>7 DEF Buy
  <1>30. ASSUME NEW w \in Worker, Refund(w)
        PROVE  JobsPaid'
    BY <1>30, <1>8, <1>9, <1>10 DEF Refund
  <1>31. ASSUME NEW w \in Worker, Handle(w)
        PROVE  JobsPaid'
    BY <1>31, <1>11, <1>12, <1>13, <1>14, <1>15, <1>16, <1>17, <1>18, <1>19, <1>20, <1>21 DEF Handle
  <1>32. CASE Provider
    BY <1>32, <1>25, <1>26, <1>27 DEF Provider
  <1>33. ASSUME NEW o \in Order, ExpireOrder(o) \/ CancelUnpaid(o)
        PROVE  JobsPaid'
    BY <1>33, <1>24 DEF ExpireOrder, CancelUnpaid
  <1>34. QED
    BY <1>29, <1>30, <1>31, <1>22, <1>23, <1>32, <1>33, <1>28 DEF Next

\* Tickets are created for an order seen PAID, and no order leaves PAID but
\* by being refunded.
LEMMA TicketsOnlyForPaidStep ==
    ASSUME IInv, PaymentsOK, JobsPaid, TicketsOnlyForPaid, [Next]_vars
    PROVE  TicketsOnlyForPaid'
  <1> USE DEF IInv
  <1>s. \A c \in Order : /\ status[c] \in Settled => status'[c] \in Settled
                         /\ status[c] = "EXPIRED" => status'[c] \in Settled \cup {"EXPIRED"}
    BY OnwardStep DEF Onward, ORDER_TRANSITIONS, Settled
  <1>1. ASSUME NEW w \in Worker, NEW p \in Pool, ChoosePool(w, p)
        PROVE  TicketsOnlyForPaid'
    BY <1>1, <1>s DEF ChoosePool, TicketsOnlyForPaid, HasTickets, JobsPaid, JobsOK, Settled, TypeOK
  <1>2. ASSUME NEW w \in Worker, NEW o \in Order, CreateOrder(w, o)
        PROVE  TicketsOnlyForPaid'
    BY <1>2, <1>s DEF CreateOrder, TicketsOnlyForPaid, HasTickets, JobsPaid, JobsOK, Settled, TypeOK
  <1>3. ASSUME NEW w \in Worker, NEW o \in Order, RefuseOrder(w, o)
        PROVE  TicketsOnlyForPaid'
    BY <1>3, <1>s DEF RefuseOrder, TicketsOnlyForPaid, HasTickets, JobsPaid, JobsOK, Settled, TypeOK
  <1>4. ASSUME NEW w \in Worker, NEW o \in Order, OpenOrderPage(w, o)
        PROVE  TicketsOnlyForPaid'
    BY <1>4, <1>s DEF OpenOrderPage, TicketsOnlyForPaid, HasTickets, JobsPaid, JobsOK, Settled, TypeOK
  <1>5. ASSUME NEW w \in Worker, StartDemoCheckout(w)
        PROVE  TicketsOnlyForPaid'
    BY <1>5, <1>s DEF StartDemoCheckout, TicketsOnlyForPaid, HasTickets, JobsPaid, JobsOK, Settled, TypeOK
  <1>6. ASSUME NEW w \in Worker, NEW e \in ProviderEvent, CreateSession(w, e)
        PROVE  TicketsOnlyForPaid'
    BY <1>6, <1>s DEF CreateSession, Emit, TicketsOnlyForPaid, HasTickets, JobsPaid, JobsOK, Settled, TypeOK
  <1>7. ASSUME NEW w \in Worker, SaveSession(w)
        PROVE  TicketsOnlyForPaid'
    BY <1>7, <1>s DEF SaveSession, TicketsOnlyForPaid, HasTickets, JobsPaid, JobsOK, Settled, TypeOK
  <1>8. ASSUME NEW w \in Worker, NEW o \in Order, RequestRefund(w, o)
        PROVE  TicketsOnlyForPaid'
    BY <1>8, <1>s DEF RequestRefund, TicketsOnlyForPaid, HasTickets, JobsPaid, JobsOK, Settled, TypeOK
  <1>9. ASSUME NEW w \in Worker, NEW e \in ProviderEvent, ProviderRefund(w, e)
        PROVE  TicketsOnlyForPaid'
    BY <1>9, <1>s DEF ProviderRefund, Emit, TicketsOnlyForPaid, HasTickets, JobsPaid, JobsOK, Settled, TypeOK
  <1>10. ASSUME NEW w \in Worker, RefundRefused(w)
        PROVE  TicketsOnlyForPaid'
    BY <1>10, <1>s DEF RefundRefused, TicketsOnlyForPaid, HasTickets, JobsPaid, JobsOK, Settled, TypeOK
  <1>11. ASSUME NEW w \in Worker, ClaimPaid(w)
        PROVE  TicketsOnlyForPaid'
    BY <1>11, <1>s DEF ClaimPaid, TicketsOnlyForPaid, HasTickets, JobsPaid, JobsOK, Settled, TypeOK
  <1>12. ASSUME NEW w \in Worker, RefreshClaimed(w)
        PROVE  TicketsOnlyForPaid'
    BY <1>12, <1>s DEF RefreshClaimed, TicketsOnlyForPaid, HasTickets, JobsPaid, JobsOK, Settled, TypeOK
  <1>13. ASSUME NEW w \in Worker, RefreshUnclaimed(w)
        PROVE  TicketsOnlyForPaid'
    BY <1>13, <1>s DEF RefreshUnclaimed, TicketsOnlyForPaid, HasTickets, JobsPaid, JobsOK, Settled, TypeOK
  <1>14. ASSUME NEW w \in Worker, Rereserve(w)
        PROVE  TicketsOnlyForPaid'
    BY <1>14, <1>s DEF Rereserve, TicketsOnlyForPaid, HasTickets, JobsPaid, JobsOK, Settled, TypeOK
  <1>15. ASSUME NEW w \in Worker, PayLate(w)
        PROVE  TicketsOnlyForPaid'
    BY <1>15, <1>s DEF PayLate, TicketsOnlyForPaid, HasTickets, JobsPaid, JobsOK, Settled, TypeOK
  <1>16. ASSUME NEW w \in Worker, CheckTickets(w)
        PROVE  TicketsOnlyForPaid'
    BY <1>16, <1>s DEF CheckTickets, TicketsOnlyForPaid, HasTickets, JobsPaid, JobsOK, Settled, TypeOK
  <1>17. ASSUME NEW w \in Worker, CreateTickets(w)
        PROVE  TicketsOnlyForPaid'
    BY <1>17, <1>s DEF CreateTickets, TicketsOnlyForPaid, HasTickets, JobsPaid, JobsOK, Settled, TypeOK
  <1>18. ASSUME NEW w \in Worker, FailPayment(w)
        PROVE  TicketsOnlyForPaid'
    BY <1>18, <1>s DEF FailPayment, TicketsOnlyForPaid, HasTickets, JobsPaid, JobsOK, Settled, TypeOK
  <1>19. ASSUME NEW w \in Worker, RefundOrder(w)
        PROVE  TicketsOnlyForPaid'
    BY <1>19, <1>s DEF RefundOrder, TicketsOnlyForPaid, HasTickets, JobsPaid, JobsOK, Settled, TypeOK
  <1>20. ASSUME NEW w \in Worker, InvalidateTickets(w)
        PROVE  TicketsOnlyForPaid'
    BY <1>20, <1>s DEF InvalidateTickets, TicketsOnlyForPaid, HasTickets, JobsPaid, JobsOK, Settled, TypeOK
  <1>21. ASSUME NEW w \in Worker, Finish(w)
        PROVE  TicketsOnlyForPaid'
    BY <1>21, <1>s DEF Finish, TicketsOnlyForPaid, HasTickets, JobsPaid, JobsOK, Settled, TypeOK
  <1>22. ASSUME NEW w \in Worker, Crash(w)
        PROVE  TicketsOnlyForPaid'
    BY <1>22, <1>s DEF Crash, TicketsOnlyForPaid, HasTickets, JobsPaid, JobsOK, Settled, TypeOK
  <1>23. ASSUME NEW w \in Worker, NEW e \in ProviderEvent, ReceiveWebhook(w, e)
        PROVE  TicketsOnlyForPaid'
    BY <1>23, <1>s DEF ReceiveWebhook, TicketsOnlyForPaid, HasTickets, JobsPaid, JobsOK, Settled, TypeOK
  <1>24. ASSUME NEW o \in Order, NEW s \in {"EXPIRED", "CANCELLED"}, GiveUp(o, s)
        PROVE  TicketsOnlyForPaid'
    BY <1>24, <1>s DEF GiveUp, TicketsOnlyForPaid, HasTickets, JobsPaid, JobsOK, Settled, TypeOK
  <1>25. ASSUME NEW o \in Order, NEW e \in ProviderEvent,
               NEW k \in {"payment.succeeded", "payment.failed"}, DemoPayment(o, e, k)
        PROVE  TicketsOnlyForPaid'
    BY <1>25, <1>s DEF DemoPayment, Emit, TicketsOnlyForPaid, HasTickets, JobsPaid, JobsOK, Settled, TypeOK
  <1>26. ASSUME NEW e \in ProviderEvent, SessionPaid(e)
        PROVE  TicketsOnlyForPaid'
    BY <1>26, <1>s DEF SessionPaid, TicketsOnlyForPaid, HasTickets, JobsPaid, JobsOK, Settled, TypeOK
  <1>27. ASSUME NEW e \in ProviderEvent, SessionExpired(e)
        PROVE  TicketsOnlyForPaid'
    BY <1>27, <1>s DEF SessionExpired, TicketsOnlyForPaid, HasTickets, JobsPaid, JobsOK, Settled, TypeOK
  <1>28. CASE UNCHANGED vars
    BY <1>28 DEF vars, TicketsOnlyForPaid, HasTickets
  <1>29. ASSUME NEW w \in Worker, Buy(w)
        PROVE  TicketsOnlyForPaid'
    BY <1>29, <1>1, <1>2, <1>3, <1>4, <1>5, <1>6, <1>7 DEF Buy
  <1>30. ASSUME NEW w \in Worker, Refund(w)
        PROVE  TicketsOnlyForPaid'
    BY <1>30, <1>8, <1>9, <1>10 DEF Refund
  <1>31. ASSUME NEW w \in Worker, Handle(w)
        PROVE  TicketsOnlyForPaid'
    BY <1>31, <1>11, <1>12, <1>13, <1>14, <1>15, <1>16, <1>17, <1>18, <1>19, <1>20, <1>21 DEF Handle
  <1>32. CASE Provider
    BY <1>32, <1>25, <1>26, <1>27 DEF Provider
  <1>33. ASSUME NEW o \in Order, ExpireOrder(o) \/ CancelUnpaid(o)
        PROVE  TicketsOnlyForPaid'
    BY <1>33, <1>24 DEF ExpireOrder, CancelUnpaid
  <1>34. QED
    BY <1>29, <1>30, <1>31, <1>22, <1>23, <1>32, <1>33, <1>28 DEF Next

\* No interleaving issues tickets for an order that was never paid, although
\* issue_tickets_for_order (tickets/services.py) trusts a status read earlier.
THEOREM TicketsFollowPayment == Spec => []TicketsOnlyForPaid
  <1>1. Init => PaymentsOK /\ JobsPaid /\ TicketsOnlyForPaid
    BY DEF Init, PaymentsOK, JobsPaid, TicketsOnlyForPaid, HasTickets
  <1>2. IInv /\ PaymentsOK /\ JobsPaid /\ TicketsOnlyForPaid /\ [Next]_vars =>
           PaymentsOK' /\ JobsPaid' /\ TicketsOnlyForPaid'
    BY PaymentsOKStep, JobsPaidStep, TicketsOnlyForPaidStep
  <1>3. QED
    BY <1>1, <1>2, Invariance, PTL DEF Spec

-----------------------------------------------------------------------------
(* Ignored payments and tickets to come: the invariant.                    *)

\* Up to the issuing of tickets mark_order_paid handles payments only.
Paying == {"claimed", "unclaimed", "rereserve", "pay_late", "issue", "create_tickets"}

JobsPay ==
    \A w \in Worker : job[w].pc \in Paying => kind[job[w].event] = "payment.succeeded"

\* What is on record has been delivered.
RecordsOK ==
    \A e \in ProviderEvent :
        processing_status[e] # "NONE" => kind[e] \notin {"NONE", "open"}

\* A payment that is about to be ignored, or has been, belongs to an order that
\* had stopped waiting.
NotWaiting(o) == status[o] \notin Unpaid \cup {"NONE"}

IgnoredOK ==
    /\ \A w \in Worker :
          (/\ job[w].pc \in {"unclaimed", "rereserve", "ignored"}
           /\ kind[job[w].event] = "payment.succeeded") => NotWaiting(job[w].order)
    /\ \A e \in ProviderEvent :
          (kind[e] = "payment.succeeded" /\ processing_status[e] = "IGNORED") =>
              NotWaiting(about[e])

\* A payment that has been taken: on record, and past every point at which it
\* might still be ignored.
Accepted(d) ==
    /\ kind[d] = "payment.succeeded"
    /\ processing_status[d] \in {"RECEIVED", "PROCESSED"}
    /\ \A w \in Worker :
          Handles(w, d) => job[w].pc \in {"claimed", "issue", "create_tickets", "processed"}

SettledByPayment ==
    \A o \in Order : status[o] \in Settled =>
        \E d \in ProviderEvent : about[d] = o /\ Accepted(d)

\* A worker that will issue the tickets of an order, unless it has some.
WillIssue(w, o) ==
    /\ job[w].order = o
    /\ \/ job[w].pc \in {"claimed", "create_tickets"}
       \/ job[w].pc = "issue" /\ job[w].seen = "PAID"

TicketsUnderway ==
    crashes = 0 => \A o \in Order :
        status[o] = "PAID" => HasTickets(o) \/ \E w \in Worker : WillIssue(w, o)

IInvPaid == IInv /\ HandledOnce /\ PaymentsOK /\ JobsPaid
IInvTickets == JobsPay /\ RecordsOK /\ IgnoredOK /\ SettledByPayment /\ TicketsUnderway

-----------------------------------------------------------------------------
(* What one step does to a worker, an event and an order.                  *)

SameWork(w) == job'[w].event = job[w].event /\ job'[w].order = job[w].order

\* A step inside process_webhook.
HandlerMove(w) ==
    LET o == job[w].order
        payment == kind[job[w].event] = "payment.succeeded"
        from == job[w].pc
        to == job'[w].pc
    IN
    /\ SameWork(w)
    /\ \/ from = "handle" /\ payment /\ to = "claimed" /\ status'[o] = "PAID"
       \/ from = "handle" /\ payment /\ to = "unclaimed" /\ NotWaiting(o)
       \/ from = "handle" /\ ~payment /\ to \in {"processed", "ignored", "invalidate"}
       \/ from = "claimed" /\ to = "issue" /\ job'[w].seen = status[o]
       \/ from = "unclaimed" /\ to \in {"rereserve", "ignored"}
       \/ from = "rereserve" /\ to \in {"pay_late", "ignored"}
       \/ from = "pay_late" /\ to = "claimed"
       \/ from = "issue" /\ to = "create_tickets"
       \/ from = "issue" /\ to = "processed" /\ (job[w].seen = "PAID" => HasTickets(o))
       \/ from = "create_tickets" /\ to = "processed" /\ batch'[job[w].event] # "NONE"
       \/ from = "invalidate" /\ to = "processed"

\* Any step of a worker; only one that dies leaves a claimed order without tickets.
WorkerMove(w) ==
    \/ job'[w] = job[w]
    \/ /\ job'[w].pc \notin Handling
       /\ crashes' = 0 => job[w].pc \notin {"claimed", "issue", "create_tickets"}
    \/ /\ job[w].pc = "idle" /\ job'[w].pc = "handle"
       /\ processing_status[job'[w].event] = "NONE"
    \/ HandlerMove(w)

Closes(w, e, l) == Handles(w, e) /\ job[w].pc = l

\* A record goes from RECEIVED to its result; what an event says once it has
\* been delivered, and the tickets issued by it, stay.
EventMove(e) ==
    /\ \/ processing_status'[e] = processing_status[e]
       \/ /\ processing_status[e] = "NONE" /\ processing_status'[e] = "RECEIVED"
          /\ kind[e] \notin {"NONE", "open"}
       \/ processing_status'[e] = "PROCESSED" /\ \E w \in Worker : Closes(w, e, "processed")
       \/ processing_status'[e] = "IGNORED" /\ \E w \in Worker : Closes(w, e, "ignored")
    /\ kind[e] # "NONE" => about'[e] = about[e]
    /\ kind[e] \notin {"NONE", "open"} => kind'[e] = kind[e]
    /\ (kind'[e] = "payment.succeeded" /\ kind[e] # "payment.succeeded") =>
           kind[e] \in {"NONE", "open"}
    /\ batch[e] # "NONE" => batch'[e] # "NONE"

\* An order settles by a payment that is being handled, and never waits again.
OrderMove(o) ==
    /\ NotWaiting(o) => NotWaiting(o)'
    /\ status'[o] \in Settled =>
           \/ status[o] \in Settled /\ (status'[o] = "PAID" => status[o] = "PAID")
           \/ \E w \in Worker : /\ job[w].order = o /\ job[w].pc \in {"handle", "pay_late"}
                                /\ job'[w].pc = "claimed" /\ HandlerMove(w)

Moves ==
    /\ \A w \in Worker : WorkerMove(w)
    /\ \A e \in ProviderEvent : EventMove(e)
    /\ \A o \in Order : OrderMove(o)
    /\ crashes' = 0 => crashes = 0

\* Every step is such a move, whatever else it does.
LEMMA StepsMove ==
    ASSUME IInvPaid, [Next]_vars
    PROVE  Moves
  <1> USE DEF IInvPaid, IInv
  <1> USE DEF Moves, WorkerMove, HandlerMove, SameWork, EventMove, OrderMove, NotWaiting, Settled
  <1>1. ASSUME NEW w \in Worker, NEW p \in Pool, ChoosePool(w, p)
        PROVE  Moves
    BY <1>1, NoneIsFresh DEF ChoosePool, TypeOK, Job, JobsOK, JobsPaid, EventsOK
  <1>2. ASSUME NEW w \in Worker, NEW o \in Order, CreateOrder(w, o)
        PROVE  Moves
    BY <1>2, NoneIsFresh DEF CreateOrder, TypeOK, Job, JobsOK, JobsPaid, EventsOK
  <1>3. ASSUME NEW w \in Worker, NEW o \in Order, RefuseOrder(w, o)
        PROVE  Moves
    BY <1>3, NoneIsFresh DEF RefuseOrder, TypeOK, Job, JobsOK, JobsPaid, EventsOK
  <1>4. ASSUME NEW w \in Worker, NEW o \in Order, OpenOrderPage(w, o)
        PROVE  Moves
    BY <1>4, NoneIsFresh DEF OpenOrderPage, TypeOK, Job, JobsOK, JobsPaid, EventsOK
  <1>5. ASSUME NEW w \in Worker, StartDemoCheckout(w)
        PROVE  Moves
    BY <1>5, NoneIsFresh DEF StartDemoCheckout, TypeOK, Job, JobsOK, JobsPaid, EventsOK
  <1>6. ASSUME NEW w \in Worker, NEW e \in ProviderEvent, CreateSession(w, e)
        PROVE  Moves
    BY <1>6, NoneIsFresh DEF CreateSession, Emit, TypeOK, Job, JobsOK, JobsPaid, EventsOK
  <1>7. ASSUME NEW w \in Worker, SaveSession(w)
        PROVE  Moves
    BY <1>7, NoneIsFresh DEF SaveSession, TypeOK, Job, JobsOK, JobsPaid, EventsOK
  <1>8. ASSUME NEW w \in Worker, NEW o \in Order, RequestRefund(w, o)
        PROVE  Moves
    BY <1>8, NoneIsFresh DEF RequestRefund, TypeOK, Job, JobsOK, JobsPaid, EventsOK
  <1>9. ASSUME NEW w \in Worker, NEW e \in ProviderEvent, ProviderRefund(w, e)
        PROVE  Moves
    BY <1>9, NoneIsFresh DEF ProviderRefund, Emit, TypeOK, Job, JobsOK, JobsPaid, EventsOK
  <1>10. ASSUME NEW w \in Worker, RefundRefused(w)
        PROVE  Moves
    BY <1>10, NoneIsFresh DEF RefundRefused, TypeOK, Job, JobsOK, JobsPaid, EventsOK
  <1>11. ASSUME NEW w \in Worker, ClaimPaid(w)
        PROVE  Moves
    BY <1>11, NoneIsFresh DEF ClaimPaid, TypeOK, Job, JobsOK, JobsPaid, EventsOK
  <1>12. ASSUME NEW w \in Worker, RefreshClaimed(w)
        PROVE  Moves
    BY <1>12, NoneIsFresh DEF RefreshClaimed, TypeOK, Job, JobsOK, JobsPaid, EventsOK
  <1>13. ASSUME NEW w \in Worker, RefreshUnclaimed(w)
        PROVE  Moves
    BY <1>13, NoneIsFresh DEF RefreshUnclaimed, TypeOK, Job, JobsOK, JobsPaid, EventsOK
  <1>14. ASSUME NEW w \in Worker, Rereserve(w)
        PROVE  Moves
    BY <1>14, NoneIsFresh DEF Rereserve, TypeOK, Job, JobsOK, JobsPaid, EventsOK
  <1>15. ASSUME NEW w \in Worker, PayLate(w)
        PROVE  Moves
    BY <1>15, NoneIsFresh DEF PayLate, TypeOK, Job, JobsOK, JobsPaid, EventsOK
  <1>16. ASSUME NEW w \in Worker, CheckTickets(w)
        PROVE  Moves
    BY <1>16, NoneIsFresh DEF CheckTickets, HasTickets, TypeOK, Job, JobsOK, JobsPaid, EventsOK
  <1>17. ASSUME NEW w \in Worker, CreateTickets(w)
        PROVE  Moves
    BY <1>17, NoneIsFresh DEF CreateTickets, TypeOK, Job, JobsOK, JobsPaid, EventsOK
  <1>18. ASSUME NEW w \in Worker, FailPayment(w)
        PROVE  Moves
    BY <1>18, NoneIsFresh DEF FailPayment, TypeOK, Job, JobsOK, JobsPaid, EventsOK
  <1>19. ASSUME NEW w \in Worker, RefundOrder(w)
        PROVE  Moves
    BY <1>19, NoneIsFresh DEF RefundOrder, TypeOK, Job, JobsOK, JobsPaid, EventsOK
  <1>20. ASSUME NEW w \in Worker, InvalidateTickets(w)
        PROVE  Moves
    BY <1>20, NoneIsFresh DEF InvalidateTickets, TypeOK, Job, JobsOK, JobsPaid, EventsOK
  <1>21. ASSUME NEW w \in Worker, Finish(w)
        PROVE  Moves
    BY <1>21, NoneIsFresh DEF Finish, Closes, Handles, TypeOK, Job, JobsOK, JobsPaid, EventsOK
  <1>22. ASSUME NEW w \in Worker, Crash(w)
        PROVE  Moves
    BY <1>22, NoneIsFresh DEF Crash, TypeOK, Job, JobsOK, JobsPaid, EventsOK
  <1>23. ASSUME NEW w \in Worker, NEW e \in ProviderEvent, ReceiveWebhook(w, e)
        PROVE  Moves
    BY <1>23, NoneIsFresh DEF ReceiveWebhook, TypeOK, Job, JobsOK, JobsPaid, EventsOK
  <1>24. ASSUME NEW o \in Order, NEW s \in {"EXPIRED", "CANCELLED"}, GiveUp(o, s)
        PROVE  Moves
    BY <1>24, NoneIsFresh DEF GiveUp, TypeOK, Job, JobsOK, JobsPaid, EventsOK
  <1>25. ASSUME NEW o \in Order, NEW e \in ProviderEvent,
               NEW k \in {"payment.succeeded", "payment.failed"}, DemoPayment(o, e, k)
        PROVE  Moves
    BY <1>25, NoneIsFresh DEF DemoPayment, Emit, TypeOK, Job, JobsOK, JobsPaid, EventsOK
  <1>26. ASSUME NEW e \in ProviderEvent, SessionPaid(e)
        PROVE  Moves
    BY <1>26, NoneIsFresh DEF SessionPaid, TypeOK, Job, JobsOK, JobsPaid, EventsOK
  <1>27. ASSUME NEW e \in ProviderEvent, SessionExpired(e)
        PROVE  Moves
    BY <1>27, NoneIsFresh DEF SessionExpired, TypeOK, Job, JobsOK, JobsPaid, EventsOK
  <1>28. CASE UNCHANGED vars
    BY <1>28 DEF vars
  <1>29. ASSUME NEW w \in Worker, Buy(w)
        PROVE  Moves
    BY <1>29, <1>1, <1>2, <1>3, <1>4, <1>5, <1>6, <1>7 DEF Buy
  <1>30. ASSUME NEW w \in Worker, Refund(w)
        PROVE  Moves
    BY <1>30, <1>8, <1>9, <1>10 DEF Refund
  <1>31. ASSUME NEW w \in Worker, Handle(w)
        PROVE  Moves
    BY <1>31, <1>11, <1>12, <1>13, <1>14, <1>15, <1>16, <1>17, <1>18, <1>19, <1>20, <1>21 DEF Handle
  <1>32. CASE Provider
    BY <1>32, <1>25, <1>26, <1>27 DEF Provider
  <1>33. ASSUME NEW o \in Order, ExpireOrder(o) \/ CancelUnpaid(o)
        PROVE  Moves
    BY <1>33, <1>24 DEF ExpireOrder, CancelUnpaid
  <1>34. QED
    BY <1>29, <1>30, <1>31, <1>22, <1>23, <1>32, <1>33, <1>28 DEF Next

-----------------------------------------------------------------------------
(* The invariant is kept.                                                  *)

\* What a worker handles has been delivered, so it says the same afterwards.
LEMMA WorkStays ==
    ASSUME IInvPaid, Moves, NEW w \in Worker, job[w].pc \in Handling
    PROVE  LET d == job[w].event IN
           /\ d \in ProviderEvent /\ job[w].order \in Order /\ about[d] = job[w].order
           /\ kind'[d] = kind[d] /\ about'[d] = about[d]
           /\ processing_status[d] = "RECEIVED"
  BY DEF IInvPaid, IInv, JobsOK, HandledOnce, Handles, Moves, EventMove

LEMMA JobsPayStep ==
    ASSUME IInvPaid, JobsPay, Moves
    PROVE  JobsPay'
  <1> SUFFICES ASSUME NEW w \in Worker, job'[w].pc \in Paying
               PROVE  kind'[job'[w].event] = "payment.succeeded"
    BY DEF JobsPay
  <1>1. WorkerMove(w)
    BY DEF Moves
  <1>2. CASE job'[w] = job[w]
    BY <1>2, WorkStays DEF JobsPay, Paying
  <1>3. CASE HandlerMove(w)
    BY <1>3, WorkStays DEF HandlerMove, SameWork, JobsPay, Paying
  <1>4. QED
    BY <1>1, <1>2, <1>3 DEF WorkerMove, Paying

LEMMA RecordsOKStep ==
    ASSUME IInvPaid, RecordsOK, Moves
    PROVE  RecordsOK'
  BY DEF IInvPaid, IInv, JobsOK, RecordsOK, Moves, EventMove, Closes, Handles

LEMMA IgnoredOKStep ==
    ASSUME IInvPaid, RecordsOK, IgnoredOK, Moves
    PROVE  IgnoredOK'
  <1>1. ASSUME NEW o \in Order, NotWaiting(o)
        PROVE  NotWaiting(o)'
    BY <1>1 DEF Moves, OrderMove
  <1>2. ASSUME NEW w \in Worker, job'[w].pc \in {"unclaimed", "rereserve", "ignored"},
               kind'[job'[w].event] = "payment.succeeded"
        PROVE  NotWaiting(job[w].order)'
    <2>1. WorkerMove(w)
      BY DEF Moves
    <2>2. CASE job'[w] = job[w]
      BY <1>1, <1>2, <2>2, WorkStays DEF IgnoredOK, NotWaiting
    <2>3. CASE HandlerMove(w)
      <3>1. NotWaiting(job[w].order) /\ job[w].order \in Order
        BY <1>2, <2>3, WorkStays DEF HandlerMove, SameWork, IgnoredOK
      <3>2. QED
        BY <1>1, <2>3, <3>1 DEF HandlerMove, SameWork, NotWaiting
    <2>4. QED
      BY <1>2, <2>1, <2>2, <2>3 DEF WorkerMove
  <1>3. ASSUME NEW e \in ProviderEvent, kind'[e] = "payment.succeeded",
               processing_status'[e] = "IGNORED"
        PROVE  NotWaiting(about[e])'
    <2>1. EventMove(e)
      BY DEF Moves
    <2>2. CASE processing_status[e] = "IGNORED"
      <3>1. kind[e] = "payment.succeeded" /\ about'[e] = about[e]
        BY <1>3, <2>1, <2>2 DEF EventMove, RecordsOK
      <3>2. NotWaiting(about[e]) /\ about[e] \in Order
        BY <2>2, <3>1 DEF IgnoredOK, IInvPaid, IInv, EventsOK
      <3>3. QED
        BY <1>1, <3>1, <3>2 DEF NotWaiting
    <2>3. ASSUME NEW w \in Worker, Closes(w, e, "ignored")
          PROVE  NotWaiting(about[e])'
      <3>1. /\ kind[e] = "payment.succeeded" /\ about'[e] = about[e]
            /\ about[e] = job[w].order /\ about[e] \in Order
        BY <1>3, <2>3, WorkStays DEF Closes, Handles
      <3>2. NotWaiting(about[e])
        BY <2>3, <3>1 DEF IgnoredOK, Closes, Handles
      <3>3. QED
        BY <1>1, <3>1, <3>2 DEF NotWaiting
    <2>4. QED
      BY <1>3, <2>1, <2>2, <2>3 DEF EventMove
  <1>4. QED
    BY <1>2, <1>3 DEF IgnoredOK

\* An accepted payment is never handled again, nor given up.
LEMMA AcceptedStays ==
    ASSUME IInvPaid, Moves, NEW d \in ProviderEvent, Accepted(d)
    PROVE  Accepted(d)' /\ about'[d] = about[d]
  <1>1. EventMove(d)
    BY DEF Moves
  <1>2. /\ kind'[d] = "payment.succeeded" /\ about'[d] = about[d]
        /\ processing_status'[d] \in {"RECEIVED", "PROCESSED"}
    BY <1>1 DEF EventMove, Accepted, Closes
  <1>3. ASSUME NEW w \in Worker, Handles(w, d)'
        PROVE  job'[w].pc \in {"claimed", "issue", "create_tickets", "processed"}
    <2>1. WorkerMove(w)
      BY DEF Moves
    <2>2. CASE job'[w] = job[w]
      BY <1>3, <2>2 DEF Accepted, Handles
    <2>3. CASE HandlerMove(w)
      BY <1>3, <2>3 DEF HandlerMove, SameWork, Accepted, Handles
    <2>4. QED
      BY <1>3, <2>1, <2>2, <2>3 DEF WorkerMove, Accepted, Handles
  <1>4. QED
    BY <1>2, <1>3 DEF Accepted

\* A payment that has just been taken is handled by nobody else.
LEMMA AcceptedByClaim ==
    ASSUME IInvPaid, JobsPay, Moves, NEW w \in Worker, HandlerMove(w),
           job[w].pc \in {"handle", "pay_late"}, job'[w].pc = "claimed",
           NEW d, d = job[w].event
    PROVE  Accepted(d)'
  <1>1. /\ d \in ProviderEvent /\ kind'[d] = kind[d] /\ processing_status[d] = "RECEIVED"
        /\ Handles(w, d)
    BY WorkStays DEF Handles
  <1>2. kind[d] = "payment.succeeded"
    BY DEF HandlerMove, JobsPay, Paying
  <1>3. \A v \in Worker \ {w} : ~Handles(v, d)
    BY <1>1 DEF IInvPaid, HandledOnce
  <1>4. processing_status'[d] \in {"RECEIVED", "PROCESSED"}
    BY <1>1, <1>3 DEF Moves, EventMove, Closes
  <1>5. ASSUME NEW v \in Worker, v # w, Handles(v, d)'
        PROVE  FALSE
    <2>1. WorkerMove(v) /\ ~Handles(v, d)
      BY <1>3, <1>5 DEF Moves
    <2>2. CASE HandlerMove(v)
      BY <1>5, <2>1, <2>2 DEF HandlerMove, SameWork, Handles
    <2>3. QED
      BY <1>1, <1>5, <2>1, <2>2 DEF WorkerMove, Handles
  <1>6. QED
    BY <1>1, <1>2, <1>4, <1>5 DEF Accepted

LEMMA SettledByPaymentStep ==
    ASSUME IInvPaid, JobsPay, SettledByPayment, Moves
    PROVE  SettledByPayment'
  <1> SUFFICES ASSUME NEW o \in Order, status'[o] \in Settled
               PROVE  \E d \in ProviderEvent : about'[d] = o /\ Accepted(d)'
    BY DEF SettledByPayment
  <1>1. CASE status[o] \in Settled
    <2>1. PICK d \in ProviderEvent : about[d] = o /\ Accepted(d)
      BY <1>1 DEF SettledByPayment
    <2>2. QED
      BY <2>1, AcceptedStays
  <1>2. ASSUME NEW w \in Worker, job[w].order = o, job[w].pc \in {"handle", "pay_late"},
               job'[w].pc = "claimed", HandlerMove(w)
        PROVE  \E d \in ProviderEvent : about'[d] = o /\ Accepted(d)'
    <2>1. job[w].event \in ProviderEvent /\ about'[job[w].event] = o
      BY <1>2, WorkStays
    <2>2. QED
      BY <1>2, <2>1, AcceptedByClaim
  <1>3. QED
    BY <1>1, <1>2 DEF Moves, OrderMove

\* Tickets are never deleted.
LEMMA TicketsStay ==
    ASSUME IInvPaid, Moves, NEW o \in Order, HasTickets(o)
    PROVE  HasTickets(o)'
  <1>1. PICK e \in ProviderEvent : about[e] = o /\ batch[e] # "NONE"
    BY DEF HasTickets
  <1>2. EventMove(e) /\ kind[e] # "NONE"
    BY <1>1 DEF Moves, IInvPaid, JobsPaid
  <1>3. QED
    BY <1>1, <1>2 DEF EventMove, HasTickets

LEMMA TicketsUnderwayStep ==
    ASSUME IInvPaid, TicketsUnderway, Moves
    PROVE  TicketsUnderway'
  <1> SUFFICES ASSUME crashes' = 0, NEW o \in Order, status'[o] = "PAID"
               PROVE  HasTickets(o)' \/ \E w \in Worker : WillIssue(w, o)'
    BY DEF TicketsUnderway
  <1>1. ASSUME NEW w \in Worker, job[w].order = o, job'[w].pc = "claimed", HandlerMove(w)
        PROVE  WillIssue(w, o)'
    BY <1>1 DEF WillIssue, HandlerMove, SameWork
  <1>2. CASE status[o] = "PAID"
    <2>1. CASE HasTickets(o)
      BY <2>1, TicketsStay
    <2>2. ASSUME NEW w \in Worker, WillIssue(w, o)
          PROVE  HasTickets(o)' \/ WillIssue(w, o)'
      <3>1. WorkerMove(w) /\ job[w].pc \in Handling /\ job[w].order = o
        BY <2>2 DEF Moves, WillIssue
      <3>2. CASE job'[w] = job[w]
        BY <2>2, <3>2 DEF WillIssue
      <3>3. CASE HandlerMove(w)
        <4>1. CASE job[w].pc = "create_tickets"
          <5>1. batch'[job[w].event] # "NONE"
            BY <3>3, <4>1 DEF HandlerMove
          <5>2. job[w].event \in ProviderEvent /\ about'[job[w].event] = o
            BY <3>1, WorkStays
          <5>3. QED
            BY <5>1, <5>2 DEF HasTickets
        <4>2. CASE job[w].pc \in {"claimed", "issue"}
          BY <1>2, <2>2, <3>1, <3>3, <4>2, TicketsStay DEF HandlerMove, SameWork, WillIssue
        <4>3. QED
          BY <2>2, <4>1, <4>2 DEF WillIssue
      <3>4. QED
        BY <2>2, <3>1, <3>2, <3>3 DEF WorkerMove, WillIssue
    <2>3. crashes = 0
      BY DEF Moves
    <2>4. QED
      BY <1>2, <2>1, <2>2, <2>3 DEF TicketsUnderway
  <1>3. QED
    BY <1>1, <1>2 DEF Moves, OrderMove, Settled

-----------------------------------------------------------------------------
(* The theorems.                                                           *)

LEMMA TicketsInvariance == Spec => [](IInvPaid /\ IInvTickets)
  <1>1. Init => HandledOnce /\ PaymentsOK /\ JobsPaid /\ IInvTickets
    BY DEF Init, HandledOnce, Handles, PaymentsOK, JobsPaid, IInvTickets, JobsPay, Paying,
           RecordsOK, IgnoredOK, SettledByPayment, Settled, TicketsUnderway
  <1>2. ASSUME IInvPaid, IInvTickets, [Next]_vars
        PROVE  HandledOnce' /\ PaymentsOK' /\ JobsPaid' /\ IInvTickets'
    <2>1. Moves
      BY <1>2, StepsMove
    <2>2. HandledOnce' /\ PaymentsOK' /\ JobsPaid'
      BY <1>2, HandledOnceStep, PaymentsOKStep, JobsPaidStep DEF IInvPaid
    <2>3. JobsPay' /\ RecordsOK' /\ IgnoredOK' /\ SettledByPayment' /\ TicketsUnderway'
      BY <1>2, <2>1, JobsPayStep, RecordsOKStep, IgnoredOKStep, SettledByPaymentStep,
         TicketsUnderwayStep DEF IInvTickets
    <2>4. QED
      BY <2>2, <2>3 DEF IInvTickets
  <1>3. QED
    BY <1>1, <1>2, Invariance, PTL DEF Spec, IInvPaid

\* mark_order_paid (payments.py) ignores a payment only if its order no longer
\* waits for one, and if that order is paid, because another payment was taken:
\* money is never refused for want of a retry.
THEOREM IgnoredPaymentsHaveReason == Spec => []IgnoredForAReason
  <1>1. IInvPaid /\ IInvTickets => IgnoredForAReason
    <2> SUFFICES ASSUME IInvPaid, IgnoredOK, SettledByPayment, NEW e \in ProviderEvent,
                        kind[e] = "payment.succeeded", processing_status[e] = "IGNORED"
                 PROVE  /\ status[about[e]] \notin Unpaid
                        /\ status[about[e]] \in {"PAID", "REFUNDED"} =>
                              \E d \in Payments(about[e]) \ {e} :
                                  processing_status[d] \in {"RECEIVED", "PROCESSED"}
      BY DEF IInvTickets, IgnoredForAReason
    <2>1. NotWaiting(about[e]) /\ about[e] \in Order
      BY DEF IgnoredOK, IInvPaid, IInv, EventsOK
    <2>2. ASSUME status[about[e]] \in Settled
          PROVE  \E d \in Payments(about[e]) \ {e} :
                     processing_status[d] \in {"RECEIVED", "PROCESSED"}
      <3>1. PICK d \in ProviderEvent : about[d] = about[e] /\ Accepted(d)
        BY <2>1, <2>2 DEF SettledByPayment
      <3>2. QED
        BY <3>1 DEF Accepted, Payments
    <2>3. QED
      BY <2>1, <2>2 DEF NotWaiting, Settled
  <1>2. QED
    BY <1>1, TicketsInvariance, PTL

\* As long as no worker died, a paid order has its tickets or a worker handling
\* a payment of it: no path through mark_order_paid ends without issuing them.
THEOREM PaidOrdersGetTickets == Spec => []PaidHasTickets
  <1>1. IInvPaid /\ IInvTickets => PaidHasTickets
    <2> SUFFICES ASSUME IInvPaid, JobsPay, NEW o \in Order, NEW w \in Worker, WillIssue(w, o)
                 PROVE  \E e \in Payments(o) : Handles(w, e)
      BY DEF IInvTickets, TicketsUnderway, PaidHasTickets
    <2>1. job[w].pc \in Handling /\ job[w].order = o /\ kind[job[w].event] = "payment.succeeded"
      BY DEF WillIssue, JobsPay, Paying
    <2>2. job[w].event \in ProviderEvent /\ about[job[w].event] = o
      BY <2>1 DEF IInvPaid, IInv, JobsOK
    <2>3. QED
      BY <2>1, <2>2 DEF Payments, Handles
  <1>2. QED
    BY <1>1, TicketsInvariance, PTL

-----------------------------------------------------------------------------
(* No place is lost.                                                       *)

\* As far as NoLostPlaces promises anything: nobody died, and the provider
\* confirmed each order's payment at most once.
Quiet == crashes = 0 /\ \A o \in Order : \A d, e \in Payments(o) : d = e

Exact ==
    /\ \A p \in Pool : Cardinality(ClaimsIn(p)) = sold_count[p]
    /\ Cardinality(Claims) = sold_total

\* Nobody else revives an order while a worker takes its places back.
LateWaits ==
    \A w \in Worker :
        job[w].pc \in {"rereserve", "pay_late"} => status[job[w].order] = "EXPIRED"

IInvPlaces == Quiet => Exact /\ LateWaits

-----------------------------------------------------------------------------
(* What one step does to the claims.                                       *)

Holds(w) == job[w].pc = "pay_late"

SameHolder(w) == /\ Holds(w)' = Holds(w)
                 /\ Holds(w) => job'[w].order = job[w].order

SameLife(o) == (status'[o] \in Live) = (status[o] \in Live)

KeepsClaims ==
    /\ UNCHANGED <<pool, sold_count, sold_total>>
    /\ \A w \in Worker : SameHolder(w)
    /\ \A o \in Order : SameLife(o)

\* create_order takes the places of a new order.
Takes(o, p) ==
    /\ status[o] = "NONE" /\ status'[o] \in Live
    /\ Reserve(o, p)
    /\ pool' = [pool EXCEPT ![o] = p]
    /\ \A w \in Worker : SameHolder(w)
    /\ \A d \in Order \ {o} : SameLife(d)

\* _try_rereserve takes those of a late-paid one, on the worker's account.
TakesBack(w, o) ==
    /\ job[w].order = o /\ ~Holds(w) /\ Holds(w)' /\ job'[w].order = o
    /\ Reserve(o, pool[o]) /\ pool[o] \in Pool
    /\ pool' = pool
    /\ \A v \in Worker \ {w} : SameHolder(v)
    /\ \A d \in Order : SameLife(d)

\* The order becomes PAID and has them itself.
Passes(w, o) ==
    /\ job[w].order = o /\ Holds(w) /\ ~Holds(w)' /\ pool[o] \in Pool
    /\ status[o] = "EXPIRED" => status'[o] \in Live
    /\ UNCHANGED <<pool, sold_count, sold_total>>
    /\ \A v \in Worker \ {w} : SameHolder(v)
    /\ \A d \in Order \ {o} : SameLife(d)

Releases(o) ==
    /\ status[o] \in Live /\ status'[o] \notin Live
    /\ release_capacity(o) /\ pool[o] \in Pool
    /\ pool' = pool
    /\ \A w \in Worker : SameHolder(w)
    /\ \A d \in Order \ {o} : SameLife(d)

\* A worker comes to take places back when it has just found the order EXPIRED.
LateMove(w) ==
    job'[w].pc \in {"rereserve", "pay_late"} =>
        /\ SameWork(w)
        /\ \/ job[w].pc \in {"rereserve", "pay_late"}
           \/ status[job[w].order] = "EXPIRED"

ExpiredMove(o) ==
    status[o] = "EXPIRED" =>
        \/ status'[o] = "EXPIRED"
        \/ \E w \in Worker : /\ job[w].order = o /\ job[w].pc = "pay_late"
                             /\ job'[w].pc = "claimed"

PlacesMove ==
    /\ \A w \in Worker : LateMove(w)
    /\ \A o \in Order : ExpiredMove(o)
    /\ \/ crashes' # 0
       \/ KeepsClaims
       \/ \E o \in Order, p \in Pool : Takes(o, p)
       \/ \E w \in Worker, o \in Order : TakesBack(w, o) \/ Passes(w, o)
       \/ \E o \in Order : Releases(o)

LEMMA StepsMovePlaces ==
    ASSUME IInv, [Next]_vars
    PROVE  PlacesMove
  <1> USE DEF IInv
  <1> USE DEF PlacesMove, LateMove, SameWork, ExpiredMove, SameLife, SameHolder, Holds
  <1>1. ASSUME NEW w \in Worker, NEW p \in Pool, ChoosePool(w, p)
        PROVE  PlacesMove
    BY <1>1, NoneIsFresh DEF ChoosePool, TypeOK, Job, JobsOK, RowsOK, KeepsClaims
  <1>2. ASSUME NEW w \in Worker, NEW o \in Order, CreateOrder(w, o)
        PROVE  PlacesMove
    <2>1. job[w].pool \in Pool /\ job[w] \in Job
      BY <1>2 DEF CreateOrder, JobsOK, TypeOK
    <2>2. /\ job'[w].pc = "checkout" /\ job[w].pc = "reserve"
          /\ \A v \in Worker \ {w} : job'[v] = job[v]
      BY <1>2, <2>1 DEF CreateOrder, TypeOK, Job
    <2>3. /\ status[o] = "NONE" /\ status'[o] = "CREATED"
          /\ \A d \in Order \ {o} : status'[d] = status[d]
      BY <1>2 DEF CreateOrder, TypeOK
    <2>4. Reserve(o, job[w].pool) /\ pool' = [pool EXCEPT ![o] = job[w].pool]
      BY <1>2 DEF CreateOrder
    <2>5. \A v \in Worker : SameHolder(v) /\ LateMove(v)
      BY <2>2
    <2>6. Takes(o, job[w].pool)
      BY <2>3, <2>4, <2>5 DEF Takes
    <2>7. \A d \in Order : ExpiredMove(d)
      BY <2>3
    <2> HIDE DEF LateMove, ExpiredMove, SameLife, SameHolder, Holds
    <2>8. QED
      BY <2>1, <2>5, <2>6, <2>7
  <1>3. ASSUME NEW w \in Worker, NEW o \in Order, RefuseOrder(w, o)
        PROVE  PlacesMove
    BY <1>3, NoneIsFresh DEF RefuseOrder, TypeOK, Job, JobsOK, RowsOK, KeepsClaims
  <1>4. ASSUME NEW w \in Worker, NEW o \in Order, OpenOrderPage(w, o)
        PROVE  PlacesMove
    BY <1>4, NoneIsFresh DEF OpenOrderPage, TypeOK, Job, JobsOK, RowsOK, KeepsClaims
  <1>5. ASSUME NEW w \in Worker, StartDemoCheckout(w)
        PROVE  PlacesMove
    BY <1>5, NoneIsFresh DEF StartDemoCheckout, TypeOK, Job, JobsOK, RowsOK, KeepsClaims
  <1>6. ASSUME NEW w \in Worker, NEW e \in ProviderEvent, CreateSession(w, e)
        PROVE  PlacesMove
    BY <1>6, NoneIsFresh DEF CreateSession, Emit, TypeOK, Job, JobsOK, RowsOK, KeepsClaims
  <1>7. ASSUME NEW w \in Worker, SaveSession(w)
        PROVE  PlacesMove
    BY <1>7, NoneIsFresh DEF SaveSession, TypeOK, Job, JobsOK, RowsOK, KeepsClaims
  <1>8. ASSUME NEW w \in Worker, NEW o \in Order, RequestRefund(w, o)
        PROVE  PlacesMove
    BY <1>8, NoneIsFresh DEF RequestRefund, TypeOK, Job, JobsOK, RowsOK, KeepsClaims
  <1>9. ASSUME NEW w \in Worker, NEW e \in ProviderEvent, ProviderRefund(w, e)
        PROVE  PlacesMove
    BY <1>9, NoneIsFresh DEF ProviderRefund, Emit, TypeOK, Job, JobsOK, RowsOK, KeepsClaims
  <1>10. ASSUME NEW w \in Worker, RefundRefused(w)
        PROVE  PlacesMove
    BY <1>10, NoneIsFresh DEF RefundRefused, TypeOK, Job, JobsOK, RowsOK, KeepsClaims
  <1>11. ASSUME NEW w \in Worker, ClaimPaid(w)
        PROVE  PlacesMove
    BY <1>11, NoneIsFresh DEF ClaimPaid, TypeOK, Job, JobsOK, RowsOK, KeepsClaims
  <1>12. ASSUME NEW w \in Worker, RefreshClaimed(w)
        PROVE  PlacesMove
    BY <1>12, NoneIsFresh DEF RefreshClaimed, TypeOK, Job, JobsOK, RowsOK, KeepsClaims
  <1>13. ASSUME NEW w \in Worker, RefreshUnclaimed(w)
        PROVE  PlacesMove
    BY <1>13, NoneIsFresh DEF RefreshUnclaimed, TypeOK, Job, JobsOK, RowsOK, KeepsClaims
  <1>14. ASSUME NEW w \in Worker, Rereserve(w)
        PROVE  PlacesMove
    <2> DEFINE o == job[w].order
    <2>1. o \in Order /\ pool[o] \in Pool /\ job[w] \in Job
      BY <1>14 DEF Rereserve, JobsOK, RowsOK, TypeOK
    <2>2. /\ job[w].pc = "rereserve" /\ job'[w].pc \in {"pay_late", "ignored"}
          /\ job'[w].event = job[w].event /\ job'[w].order = o
          /\ \A v \in Worker \ {w} : job'[v] = job[v]
      BY <1>14, <2>1 DEF Rereserve, TypeOK, Job
    <2>3. status' = status /\ pool' = pool
      BY <1>14 DEF Rereserve
    <2>4. /\ \A v \in Worker : LateMove(v)
          /\ \A d \in Order : ExpiredMove(d) /\ SameLife(d)
          /\ \A v \in Worker \ {w} : SameHolder(v)
      BY <2>2, <2>3
    <2>5. \/ Reserve(o, pool[o]) /\ job'[w].pc = "pay_late"
          \/ UNCHANGED capacityVars /\ job'[w].pc = "ignored"
      BY <1>14, <2>1 DEF Rereserve, TypeOK, Job
    <2>6. TakesBack(w, o) \/ KeepsClaims
      BY <2>1, <2>2, <2>3, <2>4, <2>5 DEF TakesBack, KeepsClaims
    <2> HIDE DEF LateMove, ExpiredMove, SameLife, SameHolder, Holds, o
    <2>7. QED
      BY <2>1, <2>4, <2>6
  <1>15. ASSUME NEW w \in Worker, PayLate(w)
        PROVE  PlacesMove
    BY <1>15, NoneIsFresh, QuantityType DEF PayLate, TypeOK, Job, JobsOK, RowsOK, Takes, TakesBack, Passes, Releases
  <1>16. ASSUME NEW w \in Worker, CheckTickets(w)
        PROVE  PlacesMove
    BY <1>16, NoneIsFresh DEF CheckTickets, TypeOK, Job, JobsOK, RowsOK, KeepsClaims
  <1>17. ASSUME NEW w \in Worker, CreateTickets(w)
        PROVE  PlacesMove
    BY <1>17, NoneIsFresh DEF CreateTickets, TypeOK, Job, JobsOK, RowsOK, KeepsClaims
  <1>18. ASSUME NEW w \in Worker, FailPayment(w)
        PROVE  PlacesMove
    <2> DEFINE o == job[w].order
    <2>1. o \in Order /\ pool[o] \in Pool /\ job[w] \in Job
      BY <1>18 DEF FailPayment, JobsOK, RowsOK, TypeOK
    <2>2. /\ job[w].pc = "handle" /\ job'[w].pc \in {"processed", "ignored", "invalidate"}
          /\ \A v \in Worker \ {w} : job'[v] = job[v]
      BY <1>18, <2>1 DEF FailPayment, TypeOK, Job
    <2>3. pool' = pool /\ \A d \in Order \ {o} : status'[d] = status[d]
      BY <1>18 DEF FailPayment, TypeOK
    <2>4. \/ /\ status[o] \in Unpaid /\ release_capacity(o)
             /\ status'[o] \in {"FAILED", "REFUNDED"}
          \/ status'[o] = status[o] /\ UNCHANGED capacityVars
      BY <1>18, <2>1 DEF FailPayment, TypeOK
    <2>5. \A v \in Worker : LateMove(v) /\ SameHolder(v)
      BY <2>2
    <2>6. \A d \in Order : ExpiredMove(d)
      BY <2>3, <2>4
    <2>7. Releases(o) \/ KeepsClaims
      BY <2>1, <2>3, <2>4, <2>5 DEF Releases, KeepsClaims
    <2> HIDE DEF LateMove, ExpiredMove, SameLife, SameHolder, Holds, o
    <2>8. QED
      BY <2>1, <2>5, <2>6, <2>7
  <1>19. ASSUME NEW w \in Worker, RefundOrder(w)
        PROVE  PlacesMove
    <2> DEFINE o == job[w].order
    <2>1. o \in Order /\ pool[o] \in Pool /\ job[w] \in Job
      BY <1>19 DEF RefundOrder, JobsOK, RowsOK, TypeOK
    <2>2. /\ job[w].pc = "handle" /\ job'[w].pc \in {"processed", "ignored", "invalidate"}
          /\ \A v \in Worker \ {w} : job'[v] = job[v]
      BY <1>19, <2>1 DEF RefundOrder, TypeOK, Job
    <2>3. pool' = pool /\ \A d \in Order \ {o} : status'[d] = status[d]
      BY <1>19 DEF RefundOrder, TypeOK
    <2>4. \/ /\ status[o] = "PAID" /\ release_capacity(o)
             /\ status'[o] \in {"FAILED", "REFUNDED"}
          \/ status'[o] = status[o] /\ UNCHANGED capacityVars
      BY <1>19, <2>1 DEF RefundOrder, TypeOK
    <2>5. \A v \in Worker : LateMove(v) /\ SameHolder(v)
      BY <2>2
    <2>6. \A d \in Order : ExpiredMove(d)
      BY <2>3, <2>4
    <2>7. Releases(o) \/ KeepsClaims
      BY <2>1, <2>3, <2>4, <2>5 DEF Releases, KeepsClaims
    <2> HIDE DEF LateMove, ExpiredMove, SameLife, SameHolder, Holds, o
    <2>8. QED
      BY <2>1, <2>5, <2>6, <2>7
  <1>20. ASSUME NEW w \in Worker, InvalidateTickets(w)
        PROVE  PlacesMove
    BY <1>20, NoneIsFresh DEF InvalidateTickets, TypeOK, Job, JobsOK, RowsOK, KeepsClaims
  <1>21. ASSUME NEW w \in Worker, Finish(w)
        PROVE  PlacesMove
    BY <1>21, NoneIsFresh DEF Finish, TypeOK, Job, JobsOK, RowsOK, KeepsClaims
  <1>22. ASSUME NEW w \in Worker, Crash(w)
        PROVE  PlacesMove
    BY <1>22, NoneIsFresh DEF Crash, TypeOK, Job, JobsOK, RowsOK, KeepsClaims
  <1>23. ASSUME NEW w \in Worker, NEW e \in ProviderEvent, ReceiveWebhook(w, e)
        PROVE  PlacesMove
    BY <1>23, NoneIsFresh DEF ReceiveWebhook, TypeOK, Job, JobsOK, RowsOK, KeepsClaims
  <1>24. ASSUME NEW o \in Order, NEW s \in {"EXPIRED", "CANCELLED"}, GiveUp(o, s)
        PROVE  PlacesMove
    BY <1>24, NoneIsFresh, QuantityType DEF GiveUp, release_capacity, TypeOK, Job, JobsOK, RowsOK, Takes, TakesBack, Passes, Releases
  <1>25. ASSUME NEW o \in Order, NEW e \in ProviderEvent,
               NEW k \in {"payment.succeeded", "payment.failed"}, DemoPayment(o, e, k)
        PROVE  PlacesMove
    BY <1>25, NoneIsFresh DEF DemoPayment, Emit, TypeOK, Job, JobsOK, RowsOK, KeepsClaims
  <1>26. ASSUME NEW e \in ProviderEvent, SessionPaid(e)
        PROVE  PlacesMove
    BY <1>26, NoneIsFresh DEF SessionPaid, TypeOK, Job, JobsOK, RowsOK, KeepsClaims
  <1>27. ASSUME NEW e \in ProviderEvent, SessionExpired(e)
        PROVE  PlacesMove
    BY <1>27, NoneIsFresh DEF SessionExpired, TypeOK, Job, JobsOK, RowsOK, KeepsClaims
  <1>28. CASE UNCHANGED vars
    BY <1>28 DEF vars, KeepsClaims
  <1>29. ASSUME NEW w \in Worker, Buy(w)
        PROVE  PlacesMove
    BY <1>29, <1>1, <1>2, <1>3, <1>4, <1>5, <1>6, <1>7 DEF Buy
  <1>30. ASSUME NEW w \in Worker, Refund(w)
        PROVE  PlacesMove
    BY <1>30, <1>8, <1>9, <1>10 DEF Refund
  <1>31. ASSUME NEW w \in Worker, Handle(w)
        PROVE  PlacesMove
    BY <1>31, <1>11, <1>12, <1>13, <1>14, <1>15, <1>16, <1>17, <1>18, <1>19, <1>20, <1>21 DEF Handle
  <1>32. CASE Provider
    BY <1>32, <1>25, <1>26, <1>27 DEF Provider
  <1>33. ASSUME NEW o \in Order, ExpireOrder(o) \/ CancelUnpaid(o)
        PROVE  PlacesMove
    BY <1>33, <1>24 DEF ExpireOrder, CancelUnpaid
  <1>34. QED
    BY <1>29, <1>30, <1>31, <1>22, <1>23, <1>32, <1>33, <1>28 DEF Next

-----------------------------------------------------------------------------
(* The counters stay exact.                                                *)

\* The claims an order drops and those it gains are what its pool's counter,
\* and the event's, change by.
LEMMA ClaimsExchanged ==
    ASSUME TypeOK, Exact, NEW o \in Order, NEW p \in Pool, NEW Old, NEW New,
           pool'[o] = p, \A d \in Order \ {o} : pool'[d] = pool[d],
           Old \subseteq Claims, IsFiniteSet(New), New \cap Claims = {},
           \A c \in Old \cup New : c[1] \in Ticket /\ OrderOf[c[1]] = o,
           Claims' = (Claims \ Old) \cup New,
           pool[o] = p \/ \A c \in Claims : OrderOf[c[1]] # o,
           sold_total' = sold_total + Cardinality(New) - Cardinality(Old),
           sold_count'[p] = sold_count[p] + Cardinality(New) - Cardinality(Old),
           \A q \in Pool \ {p} : sold_count'[q] = sold_count[q]
    PROVE  Exact'
  <1>1. ASSUME NEW A, IsFiniteSet(A), Old \subseteq A, New \cap A = {}
        PROVE  Cardinality((A \ Old) \cup New) =
                   Cardinality(A) + Cardinality(New) - Cardinality(Old)
    <2>1. Cardinality(A \ Old) = Cardinality(A) - Cardinality(Old) /\ IsFiniteSet(Old)
      BY <1>1, DifferenceSize, FS_Subset
    <2>2. IsFiniteSet(A \ Old) /\ (A \ Old) \cap New = {}
      BY <1>1, FS_Difference
    <2>3. Cardinality((A \ Old) \cup New) = Cardinality(A \ Old) + Cardinality(New)
      BY <2>2, UnionSize
    <2>4. Cardinality(A) \in Nat /\ Cardinality(Old) \in Nat /\ Cardinality(New) \in Nat
      BY <1>1, <2>1, FS_CardinalityType
    <2>5. QED
      BY <2>1, <2>3, <2>4
  <1>2. Cardinality(Claims') = Cardinality(Claims) + Cardinality(New) - Cardinality(Old)
    BY <1>1, ClaimsFinite DEF FiniteClaims
  <1>3. \A c \in Claims : c[1] \in Ticket /\ OrderOf[c[1]] \in Order
    BY OrderOfType DEF Claims
  <1>4. Old \subseteq ClaimsIn(p)
    BY DEF ClaimsIn
  <1>5. New \cap ClaimsIn(p) = {} /\ IsFiniteSet(ClaimsIn(p))
    BY ClaimsFinite DEF ClaimsIn, FiniteClaims
  <1>6. ClaimsIn(p)' = (ClaimsIn(p) \ Old) \cup New
    <2>1. ClaimsIn(p)' = {c \in Claims' : pool'[OrderOf[c[1]]] = p}
      BY DEF ClaimsIn
    <2>2. \A c \in New : pool'[OrderOf[c[1]]] = p
      OBVIOUS
    <2>3. \A c \in Claims : pool'[OrderOf[c[1]]] = p <=> pool[OrderOf[c[1]]] = p
      BY <1>3
    <2>4. QED
      BY <2>1, <2>2, <2>3 DEF ClaimsIn
  <1>7. Cardinality(ClaimsIn(p)') =
            Cardinality(ClaimsIn(p)) + Cardinality(New) - Cardinality(Old)
    BY <1>1, <1>4, <1>5, <1>6
  <1>8. ASSUME NEW q \in Pool \ {p} PROVE ClaimsIn(q)' = ClaimsIn(q)
    <2>1. ClaimsIn(q)' = {c \in Claims' : pool'[OrderOf[c[1]]] = q}
      BY DEF ClaimsIn
    <2>2. \A c \in New : pool'[OrderOf[c[1]]] # q
      OBVIOUS
    <2>3. \A c \in Old : pool[OrderOf[c[1]]] # q
      BY <1>3
    <2>4. \A c \in Claims : pool'[OrderOf[c[1]]] = q <=> pool[OrderOf[c[1]]] = q
      BY <1>3
    <2>5. QED
      BY <2>1, <2>2, <2>3, <2>4 DEF ClaimsIn
  <1>9. QED
    BY <1>2, <1>7, <1>8 DEF Exact

\* What a claim becomes, one unit and one holder at a time.
LEMMA ClaimStays ==
    ASSUME NEW t \in Ticket, SameLife(OrderOf[t])
    PROVE  Claimed(t, None)' <=> Claimed(t, None)
  BY NoneIsFresh DEF Claimed, SameLife

LEMMA HeldStays ==
    ASSUME NEW t \in Ticket, NEW w \in Worker, SameHolder(w)
    PROVE  Claimed(t, w)' <=> Claimed(t, w)
  BY NoneIsFresh DEF Claimed, SameHolder, Holds

LEMMA ClaimsAre ==
    ASSUME NEW t \in Ticket, NEW x \in Worker \cup {None}
    PROVE  /\ <<t, x>> \in Claims <=> Claimed(t, x)
           /\ <<t, x>> \in Claims' <=> Claimed(t, x)'
  BY DEF Claims

LEMMA SameClaims == ASSUME Exact, KeepsClaims PROVE Exact'
  <1>1. \A t \in Ticket, x \in Worker \cup {None} : Claimed(t, x)' <=> Claimed(t, x)
    BY ClaimStays, HeldStays, OrderOfType DEF KeepsClaims
  <1>2. Claims' = Claims
    BY <1>1 DEF Claims
  <1>3. \A p \in Pool : ClaimsIn(p)' = ClaimsIn(p)
    BY <1>2 DEF ClaimsIn, KeepsClaims
  <1>4. QED
    BY <1>2, <1>3 DEF Exact, KeepsClaims

LEMMA TakesExact ==
    ASSUME TypeOK, JobsOK, Exact, NEW o \in Order, NEW p \in Pool, Takes(o, p)
    PROVE  Exact'
  <1> DEFINE New == UnitClaims(o, None)
  <1>1. IsFiniteSet(New) /\ Cardinality(New) = Quantity(o) /\ Quantity(o) \in Nat
    BY UnitClaimsSize, QuantityType
  <1>2. \A c \in New : c = <<c[1], None>> /\ c[1] \in Ticket /\ OrderOf[c[1]] = o
    BY DEF UnitClaims, Units
  <1>3. \A c \in Claims : OrderOf[c[1]] # o
    BY NoneIsFresh DEF Claims, Claimed, Takes, JobsOK
  <1>4. \A t \in Ticket : OrderOf[t] # o =>
            \A x \in Worker \cup {None} : Claimed(t, x)' <=> Claimed(t, x)
    BY ClaimStays, HeldStays, OrderOfType DEF Takes
  <1>5. \A t \in Ticket : OrderOf[t] = o => Claimed(t, None)'
    BY DEF Claimed, Takes
  <1>6. \A t \in Ticket, w \in Worker : OrderOf[t] = o => ~Claimed(t, w)'
    <2>1. ASSUME NEW t \in Ticket, NEW w \in Worker, OrderOf[t] = o, Claimed(t, w)'
          PROVE  FALSE
      <3>1. Claimed(t, w)
        BY <2>1, HeldStays DEF Takes
      <3>2. <<t, w>> \in Claims
        BY <3>1, ClaimsAre
      <3>3. QED
        BY <1>3, <2>1, <3>2
    <2>2. QED
      BY <2>1
  <1>7. Claims' = Claims \cup New
    <2>1. ASSUME NEW t \in Ticket, NEW x \in Worker \cup {None}
          PROVE  <<t, x>> \in Claims' <=> <<t, x>> \in Claims \cup New
      <3>1. <<t, x>> \in New <=> OrderOf[t] = o /\ x = None
        BY DEF UnitClaims, Units
      <3>2. OrderOf[t] = o => <<t, x>> \notin Claims
        BY <1>3
      <3>3. QED
        BY <1>4, <1>5, <1>6, <3>1, <3>2, ClaimsAre
    <2>2. Claims' \subseteq Ticket \X (Worker \cup {None})
      BY DEF Claims
    <2>3. Claims \cup New \subseteq Ticket \X (Worker \cup {None})
      BY DEF Claims, UnitClaims, Units
    <2>4. QED
      BY <2>1, <2>2, <2>3
  <1>8. /\ pool'[o] = p /\ \A d \in Order \ {o} : pool'[d] = pool[d]
        /\ sold_total' = sold_total + Cardinality(New) - Cardinality({})
        /\ sold_count'[p] = sold_count[p] + Cardinality(New) - Cardinality({})
        /\ \A q \in Pool \ {p} : sold_count'[q] = sold_count[q]
    <2>1. sold_total \in Nat /\ sold_count \in [Pool -> Nat] /\ Cardinality({}) = 0
      BY FS_EmptySet DEF TypeOK
    <2>2. QED
      BY <1>1, <2>1 DEF Takes, Reserve, TypeOK
  <1>9. New \cap Claims = {}
    BY <1>2, <1>3
  <1> HIDE DEF New
  <1>10. Claims' = (Claims \ {}) \cup New
    BY <1>7
  <1>11. QED
    BY <1>1, <1>2, <1>3, <1>8, <1>9, <1>10, ClaimsExchanged

LEMMA TakesBackExact ==
    ASSUME TypeOK, Exact, NEW o \in Order, NEW w \in Worker, TakesBack(w, o)
    PROVE  Exact'
  <1> DEFINE New == UnitClaims(o, w)
             p == pool[o]
  <1>1. IsFiniteSet(New) /\ Cardinality(New) = Quantity(o) /\ Quantity(o) \in Nat
    BY UnitClaimsSize, QuantityType
  <1>2. \A c \in New : c = <<c[1], w>> /\ c[1] \in Ticket /\ OrderOf[c[1]] = o
    BY DEF UnitClaims, Units
  <1>3. \A t \in Ticket : ~Claimed(t, w)
    BY NoneIsFresh DEF Claimed, TakesBack, Holds
  <1>4. \A t \in Ticket, x \in (Worker \ {w}) \cup {None} : Claimed(t, x)' <=> Claimed(t, x)
    BY ClaimStays, HeldStays, OrderOfType DEF TakesBack
  <1>5. \A t \in Ticket : Claimed(t, w)' <=> OrderOf[t] = o
    BY NoneIsFresh DEF Claimed, TakesBack, Holds
  <1>7. Claims' = Claims \cup New
    <2>1. ASSUME NEW t \in Ticket, NEW x \in Worker \cup {None}
          PROVE  <<t, x>> \in Claims' <=> <<t, x>> \in Claims \cup New
      <3>1. <<t, x>> \in New <=> OrderOf[t] = o /\ x = w
        BY DEF UnitClaims, Units
      <3>2. QED
        BY <1>3, <1>4, <1>5, <3>1, ClaimsAre
    <2>2. Claims' \subseteq Ticket \X (Worker \cup {None})
      BY DEF Claims
    <2>3. Claims \cup New \subseteq Ticket \X (Worker \cup {None})
      BY DEF Claims, UnitClaims, Units
    <2>4. QED
      BY <2>1, <2>2, <2>3
  <1>8. /\ p \in Pool /\ pool'[o] = p /\ \A d \in Order \ {o} : pool'[d] = pool[d]
        /\ sold_total' = sold_total + Cardinality(New) - Cardinality({})
        /\ sold_count'[p] = sold_count[p] + Cardinality(New) - Cardinality({})
        /\ \A q \in Pool \ {p} : sold_count'[q] = sold_count[q]
    <2>1. sold_total \in Nat /\ sold_count \in [Pool -> Nat] /\ Cardinality({}) = 0
      BY FS_EmptySet DEF TypeOK
    <2>2. QED
      BY <1>1, <2>1 DEF TakesBack, Reserve, TypeOK
  <1>9. New \cap Claims = {}
    BY <1>2, <1>3 DEF Claims
  <1> HIDE DEF New
  <1>10. Claims' = (Claims \ {}) \cup New
    BY <1>7
  <1>11. QED
    BY <1>1, <1>2, <1>8, <1>9, <1>10, ClaimsExchanged

LEMMA PassesExact ==
    ASSUME TypeOK, Exact, NEW o \in Order, NEW w \in Worker, Passes(w, o),
           status[o] = "EXPIRED"
    PROVE  Exact'
  <1> DEFINE Old == UnitClaims(o, w)
             New == UnitClaims(o, None)
             p == pool[o]
  <1>1. /\ IsFiniteSet(New) /\ Cardinality(New) = Quantity(o)
        /\ Cardinality(Old) = Quantity(o) /\ Quantity(o) \in Nat
    BY UnitClaimsSize, QuantityType
  <1>2. \A c \in Old \cup New : c[1] \in Ticket /\ OrderOf[c[1]] = o
    BY DEF UnitClaims, Units
  <1>3. \A t \in Ticket : OrderOf[t] = o => ~Claimed(t, None) /\ Claimed(t, None)'
    BY NoneIsFresh DEF Claimed, Passes
  <1>4. /\ \A t \in Ticket, x \in Worker \ {w} : Claimed(t, x)' <=> Claimed(t, x)
        /\ \A t \in Ticket : OrderOf[t] # o => (Claimed(t, None)' <=> Claimed(t, None))
    BY ClaimStays, HeldStays, OrderOfType DEF Passes
  <1>5. \A t \in Ticket : (Claimed(t, w) <=> OrderOf[t] = o) /\ ~Claimed(t, w)'
    BY NoneIsFresh DEF Claimed, Passes, Holds
  <1>6. \A t \in Ticket, x \in Worker \cup {None} :
            /\ <<t, x>> \in Old <=> OrderOf[t] = o /\ x = w
            /\ <<t, x>> \in New <=> OrderOf[t] = o /\ x = None
    BY DEF UnitClaims, Units
  <1>7. Claims' = (Claims \ Old) \cup New
    <2>1. ASSUME NEW t \in Ticket, NEW x \in Worker \cup {None}
          PROVE  <<t, x>> \in Claims' <=> <<t, x>> \in (Claims \ Old) \cup New
      BY <1>3, <1>4, <1>5, <1>6, ClaimsAre, NoneIsFresh
    <2>2. Claims' \subseteq Ticket \X (Worker \cup {None})
      BY DEF Claims
    <2>3. (Claims \ Old) \cup New \subseteq Ticket \X (Worker \cup {None})
      BY DEF Claims, UnitClaims, Units
    <2>4. QED
      BY <2>1, <2>2, <2>3
  <1>8. /\ p \in Pool /\ pool'[o] = p /\ \A d \in Order \ {o} : pool'[d] = pool[d]
        /\ sold_total' = sold_total + Cardinality(New) - Cardinality(Old)
        /\ sold_count'[p] = sold_count[p] + Cardinality(New) - Cardinality(Old)
        /\ \A q \in Pool \ {p} : sold_count'[q] = sold_count[q]
    BY <1>1 DEF Passes, TypeOK
  <1>9. Old \subseteq Claims
    BY <1>5 DEF Claims, UnitClaims, Units
  <1>10. New \cap Claims = {}
    BY <1>3 DEF Claims, UnitClaims, Units
  <1> HIDE DEF New, Old
  <1>11. QED
    BY <1>1, <1>2, <1>7, <1>8, <1>9, <1>10, ClaimsExchanged

LEMMA ReleasesExact ==
    ASSUME TypeOK, Exact, NEW o \in Order, Releases(o)
    PROVE  Exact'
  <1> DEFINE Old == UnitClaims(o, None)
             p == pool[o]
  <1>1. Cardinality(Old) = Quantity(o) /\ Quantity(o) \in Nat
    BY UnitClaimsSize, QuantityType
  <1>2. \A c \in Old : c[1] \in Ticket /\ OrderOf[c[1]] = o
    BY DEF UnitClaims, Units
  <1>3. \A t \in Ticket : OrderOf[t] = o => Claimed(t, None) /\ ~Claimed(t, None)'
    BY NoneIsFresh DEF Claimed, Releases
  <1>4. /\ \A t \in Ticket, x \in Worker : Claimed(t, x)' <=> Claimed(t, x)
        /\ \A t \in Ticket : OrderOf[t] # o => (Claimed(t, None)' <=> Claimed(t, None))
    BY ClaimStays, HeldStays, OrderOfType DEF Releases
  <1>5. Claims' = Claims \ Old
    <2>1. ASSUME NEW t \in Ticket, NEW x \in Worker \cup {None}
          PROVE  <<t, x>> \in Claims' <=> <<t, x>> \in Claims \ Old
      <3>1. <<t, x>> \in Old <=> OrderOf[t] = o /\ x = None
        BY DEF UnitClaims, Units
      <3>2. QED
        BY <1>3, <1>4, <3>1, ClaimsAre, NoneIsFresh
    <2>2. Claims' \subseteq Ticket \X (Worker \cup {None})
      BY DEF Claims
    <2>3. Claims \ Old \subseteq Ticket \X (Worker \cup {None})
      BY DEF Claims
    <2>4. QED
      BY <2>1, <2>2, <2>3
  <1>6. /\ p \in Pool /\ pool'[o] = p /\ \A d \in Order \ {o} : pool'[d] = pool[d]
        /\ sold_total' = sold_total + Cardinality({}) - Cardinality(Old)
        /\ sold_count'[p] = sold_count[p] + Cardinality({}) - Cardinality(Old)
        /\ \A q \in Pool \ {p} : sold_count'[q] = sold_count[q]
    <2>1. sold_total \in Nat /\ sold_count \in [Pool -> Nat] /\ Cardinality({}) = 0
      BY FS_EmptySet DEF TypeOK
    <2>2. QED
      BY <1>1, <2>1 DEF Releases, release_capacity, TypeOK
  <1>7. Old \subseteq Claims
    BY <1>3 DEF Claims, UnitClaims, Units
  <1> HIDE DEF Old
  <1>8. /\ Claims' = (Claims \ Old) \cup {} /\ {} \cap Claims = {} /\ IsFiniteSet({})
        /\ \A c \in Old \cup {} : c[1] \in Ticket /\ OrderOf[c[1]] = o
    BY <1>2, <1>5, FS_EmptySet
  <1>9. QED
    BY <1>6, <1>7, <1>8, ClaimsExchanged

-----------------------------------------------------------------------------
(* The invariant and the theorem.                                          *)

LEMMA QuietBefore ==
    ASSUME IInvPaid, Moves, Quiet'
    PROVE  Quiet
  <1>1. crashes = 0
    BY DEF Quiet, Moves
  <1>2. ASSUME NEW o \in Order, NEW d \in Payments(o) PROVE d \in Payments(o)'
    BY DEF Payments, Moves, EventMove
  <1>3. QED
    BY <1>1, <1>2 DEF Quiet

LEMMA LateWaitsStep ==
    ASSUME IInvPaid, JobsPay, Moves, PlacesMove, Quiet, LateWaits
    PROVE  LateWaits'
  <1> SUFFICES ASSUME NEW w \in Worker, job'[w].pc \in {"rereserve", "pay_late"}
               PROVE  status'[job'[w].order] = "EXPIRED"
    BY DEF LateWaits
  <1> DEFINE o == job[w].order
  <1>1. LateMove(w) /\ WorkerMove(w)
    BY DEF PlacesMove, Moves
  <1>2. job'[w].order = o /\ status[o] = "EXPIRED"
    BY <1>1 DEF LateMove, SameWork, LateWaits
  <1>3. job[w].pc \in Paying
    BY <1>1 DEF WorkerMove, HandlerMove, Paying
  <1>4. o \in Order /\ job[w].event \in Payments(o) /\ Handles(w, job[w].event)
    BY <1>3, WorkStays DEF Paying, JobsPay, Payments, Handles
  <1>5. ASSUME NEW v \in Worker, job[v].order = o, job[v].pc = "pay_late",
               job'[v].pc = "claimed"
        PROVE  FALSE
    <2>1. job[v].event \in Payments(o) /\ Handles(v, job[v].event)
      BY <1>4, <1>5, WorkStays DEF Paying, JobsPay, Payments, Handles
    <2>2. job[v].event = job[w].event
      BY <1>4, <2>1 DEF Quiet
    <2>3. v = w
      BY <1>4, <2>1, <2>2 DEF IInvPaid, HandledOnce, Payments
    <2>4. QED
      BY <1>5, <2>3
  <1>6. ExpiredMove(o)
    BY <1>4 DEF PlacesMove
  <1>7. QED
    BY <1>2, <1>5, <1>6 DEF ExpiredMove

LEMMA ExactStep ==
    ASSUME IInvPaid, Quiet, Quiet', Exact, LateWaits, PlacesMove
    PROVE  Exact'
  <1>1. TypeOK /\ JobsOK
    BY DEF IInvPaid, IInv
  <1>2. crashes' = 0
    BY DEF Quiet
  <1>3. CASE KeepsClaims
    BY <1>3, SameClaims
  <1>4. ASSUME NEW o \in Order, NEW p \in Pool, Takes(o, p) PROVE Exact'
    BY <1>1, <1>4, TakesExact
  <1>5. ASSUME NEW w \in Worker, NEW o \in Order, TakesBack(w, o) PROVE Exact'
    BY <1>1, <1>5, TakesBackExact
  <1>6. ASSUME NEW w \in Worker, NEW o \in Order, Passes(w, o) PROVE Exact'
    <2>1. status[o] = "EXPIRED"
      BY <1>6 DEF Passes, Holds, LateWaits
    <2>2. QED
      BY <1>1, <1>6, <2>1, PassesExact
  <1>7. ASSUME NEW o \in Order, Releases(o) PROVE Exact'
    BY <1>1, <1>7, ReleasesExact
  <1>8. QED
    BY <1>2, <1>3, <1>4, <1>5, <1>6, <1>7 DEF PlacesMove

LEMMA PlacesInvariance == Spec => [](IInvPaid /\ IInvPlaces)
  <1>1. ASSUME Init PROVE IInvPlaces
    <2>1. \A t \in Ticket, x \in Worker \cup {None} : ~Claimed(t, x)
      BY <1>1, OrderOfType DEF Init, Claimed
    <2>2. Claims = {} /\ \A p \in Pool : ClaimsIn(p) = {}
      BY <2>1 DEF Claims, ClaimsIn
    <2>3. QED
      BY <1>1, <2>2, FS_EmptySet DEF Init, IInvPlaces, Exact, LateWaits
  <1>2. ASSUME IInvPaid, IInvTickets, IInvPlaces, [Next]_vars
        PROVE  IInvPlaces'
    <2> SUFFICES ASSUME Quiet' PROVE Exact' /\ LateWaits'
      BY DEF IInvPlaces
    <2>1. Moves /\ PlacesMove /\ JobsPay
      BY <1>2, StepsMove, StepsMovePlaces DEF IInvPaid, IInvTickets
    <2>2. Quiet /\ Exact /\ LateWaits
      BY <1>2, <2>1, QuietBefore DEF IInvPlaces
    <2>3. QED
      BY <1>2, <2>1, <2>2, ExactStep, LateWaitsStep
  <1>3. QED
    BY <1>1, <1>2, TicketsInvariance, PTL DEF Spec

\* As long as nobody died and each order's payment was confirmed once, every
\* place counted as sold is claimed by a live order, or by a worker reviving a
\* late-paid one: whatever buyers, webhooks, cron runs and staff do at once,
\* release_capacity and _try_rereserve (services.py, payments.py) leave no place
\* taken by nobody.
THEOREM PlacesNeverLost == Spec => []NoLostPlaces
  <1>1. IInvPlaces => NoLostPlaces
    BY DEF IInvPlaces, Quiet, Exact, NoLostPlaces
  <1>2. QED
    BY <1>1, PlacesInvariance, PTL
=============================================================================
