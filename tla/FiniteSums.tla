----------------------------- MODULE FiniteSums -----------------------------
(***************************************************************************)
(* Sums over finite sets, and what a proof needs to know of them.  The     *)
(* models write a sum with MapThenSumSet, whose definition picks the       *)
(* elements one after the other; here it is shown that the order does not  *)
(* matter.                                                                 *)
(***************************************************************************)
EXTENDS Integers, FiniteSetTheorems, TLAPS

Chosen(T) == CHOOSE x \in T : TRUE

\* g has the sum of F over every subset of S, taken in the order of Chosen.
IsSum(g, F, S) ==
    g = [T \in SUBSET S |-> IF T = {} THEN 0 ELSE F[Chosen(T)] + g[T \ {Chosen(T)}]]

SumOver(F, S) == (CHOOSE g : IsSum(g, F, S))[S]

Summable(F, S) == IsFiniteSet(S) /\ \A x \in S : F[x] \in Int

LEMMA ChosenIn == ASSUME NEW T, T # {} PROVE Chosen(T) \in T
  BY DEF Chosen

\* A set of subsets of a finite set has a smallest one.
LEMMA SmallestSubset ==
    ASSUME NEW S, IsFiniteSet(S), NEW B, B \subseteq SUBSET S, B # {}
    PROVE  \E U \in B : \A V \in B : V \subseteq U => V = U
  <1>1. IsWellFoundedOn(StrictSubsetOrdering(S), SUBSET S)
    BY FS_StrictSubsetOrderingWellFounded, FS_FiniteSubsetsOfFinite
  <1>2. PICK U \in B : \A V \in B : ~(<<V, U>> \in StrictSubsetOrdering(S))
    BY <1>1, WFMin
  <1>3. ASSUME NEW V \in B, V \subseteq U, V # U PROVE FALSE
    <2>1. <<V, U>> \in StrictSubsetOrdering(S)
      BY <1>3 DEF StrictSubsetOrdering
    <2>2. QED
      BY <1>2, <2>1
  <1>4. QED
    BY <1>3

\* One step of the recursion.
LEMMA Unfold ==
    ASSUME NEW g, NEW F, NEW S, IsSum(g, F, S), NEW T \in SUBSET S
    PROVE  g[T] = IF T = {} THEN 0 ELSE F[Chosen(T)] + g[T \ {Chosen(T)}]
  BY DEF IsSum

\* Two sums agree wherever both are defined.
LEMMA SumsAgree ==
    ASSUME NEW g, NEW h, NEW F, NEW S, NEW T \in SUBSET S, IsFiniteSet(T),
           IsSum(g, F, S), IsSum(h, F, T)
    PROVE  \A U \in SUBSET T : g[U] = h[U]
  <1> DEFINE B == {U \in SUBSET T : g[U] # h[U]}
  <1> SUFFICES ASSUME B # {} PROVE FALSE
    OBVIOUS
  <1>1. PICK U \in B : \A V \in B : V \subseteq U => V = U
    <2>1. B \subseteq SUBSET T
      OBVIOUS
    <2> HIDE DEF B
    <2>2. QED
      BY <2>1, SmallestSubset
  <1>2. /\ g[U] = IF U = {} THEN 0 ELSE F[Chosen(U)] + g[U \ {Chosen(U)}]
        /\ h[U] = IF U = {} THEN 0 ELSE F[Chosen(U)] + h[U \ {Chosen(U)}]
    <2>1. U \in SUBSET S /\ U \in SUBSET T
      OBVIOUS
    <2>2. QED
      BY <2>1, Unfold
  <1>3. U # {}
    BY <1>2
  <1>4. U \ {Chosen(U)} \subseteq U /\ U \ {Chosen(U)} # U
    BY <1>3, ChosenIn
  <1>5. g[U \ {Chosen(U)}] = h[U \ {Chosen(U)}]
    BY <1>1, <1>4
  <1>6. QED
    BY <1>2, <1>5

\* The recursive definition of a sum defines one.
LEMMA SumExists ==
    ASSUME NEW F, NEW S, IsFiniteSet(S)
    PROVE  \E g : IsSum(g, F, S)
  <1> DEFINE B == {T \in SUBSET S : ~\E g : IsSum(g, F, T)}
             v(T) == (CHOOSE g : IsSum(g, F, T))[T]
  <1> SUFFICES ASSUME B # {} PROVE FALSE
    OBVIOUS
  <1>1. PICK U \in B : \A V \in B : V \subseteq U => V = U
    <2>1. B \subseteq SUBSET S
      OBVIOUS
    <2> HIDE DEF B
    <2>2. QED
      BY <2>1, SmallestSubset
  <1>2. U \in SUBSET S /\ IsFiniteSet(U) /\ ~\E g : IsSum(g, F, U)
    BY FS_Subset
  <1> DEFINE w == [T \in SUBSET U |->
                     IF T = {} THEN 0
                     ELSE IF T = U THEN F[Chosen(U)] + v(U \ {Chosen(U)}) ELSE v(T)]
  <1>3. ASSUME NEW T \in SUBSET U, T # U
        PROVE  IsSum(CHOOSE g : IsSum(g, F, T), F, T)
    <2>1. T \notin B
      BY <1>1, <1>3
    <2>2. \E g : IsSum(g, F, T)
      BY <2>1, <1>2
    <2>3. QED
      BY <2>2
  <1>4. v({}) = 0 \/ U = {}
    <2>1. ASSUME U # {} PROVE v({}) = 0
      BY <1>3, <2>1, Unfold
    <2>2. QED
      BY <2>1
  <1>5. ASSUME NEW T \in SUBSET U, T # U, T # {}
        PROVE  v(T) = F[Chosen(T)] + v(T \ {Chosen(T)})
    <2> DEFINE R == T \ {Chosen(T)}
               g == CHOOSE g : IsSum(g, F, T)
               h == CHOOSE h : IsSum(h, F, R)
    <2>1. R \in SUBSET T /\ R \in SUBSET U /\ R # U /\ IsFiniteSet(R)
      BY <1>2, <1>5, ChosenIn, FS_Subset
    <2>2. IsSum(g, F, T) /\ IsSum(h, F, R)
      BY <1>3, <1>5, <2>1
    <2>3. v(T) = g[T] /\ v(R) = h[R]
      OBVIOUS
    <2> HIDE DEF g, h, v
    <2>4. g[R] = h[R]
      BY <2>1, <2>2, SumsAgree
    <2>5. g[T] = F[Chosen(T)] + g[R]
      BY <1>5, <2>2, Unfold
    <2>6. QED
      BY <2>3, <2>4, <2>5
  <1> HIDE DEF v
  <1>6. ASSUME NEW T \in SUBSET U
        PROVE  w[T] = IF T = {} THEN 0 ELSE F[Chosen(T)] + w[T \ {Chosen(T)}]
    <2>1. CASE T = {}
      BY <2>1
    <2>2. CASE T # {}
      <3> DEFINE R == T \ {Chosen(T)}
      <3>1. R \in SUBSET U /\ R # U
        BY <2>2, ChosenIn
      <3>2. w[R] = v(R)
        BY <2>2, <3>1, <1>4
      <3>3. w[T] = F[Chosen(T)] + v(R)
        BY <2>2, <1>5
      <3>4. QED
        BY <2>2, <3>2, <3>3
    <2>3. QED
      BY <2>1, <2>2
  <1>7. IsSum(w, F, U)
    <2>1. w = [T \in SUBSET U |-> w[T]]
      OBVIOUS
    <2> HIDE DEF w
    <2>2. QED
      BY <1>6, <2>1 DEF IsSum
  <1>8. QED
    BY <1>2, <1>7

-----------------------------------------------------------------------------
(* The order of the elements does not matter.                              *)

LEMMA SumsAreIntegers ==
    ASSUME NEW g, NEW F, NEW S, Summable(F, S), IsSum(g, F, S)
    PROVE  \A T \in SUBSET S : g[T] \in Int
  <1> DEFINE B == {T \in SUBSET S : g[T] \notin Int}
  <1> SUFFICES ASSUME B # {} PROVE FALSE
    OBVIOUS
  <1>1. PICK U \in B : \A V \in B : V \subseteq U => V = U
    <2>1. B \subseteq SUBSET S /\ IsFiniteSet(S)
      BY DEF Summable
    <2> HIDE DEF B
    <2>2. QED
      BY <2>1, SmallestSubset
  <1>2. g[U] = IF U = {} THEN 0 ELSE F[Chosen(U)] + g[U \ {Chosen(U)}]
    BY Unfold
  <1>3. U # {}
    BY <1>2
  <1>4. Chosen(U) \in S /\ U \ {Chosen(U)} \in SUBSET S /\ U \ {Chosen(U)} # U
    BY <1>3, ChosenIn
  <1>5. g[U \ {Chosen(U)}] \in Int
    BY <1>1, <1>4
  <1>6. QED
    BY <1>2, <1>3, <1>4, <1>5 DEF Summable

\* Any element may be taken first.
LEMMA TakeAny ==
    ASSUME NEW g, NEW F, NEW S, Summable(F, S), IsSum(g, F, S)
    PROVE  \A T \in SUBSET S : \A x \in T : g[T] = F[x] + g[T \ {x}]
  <1> DEFINE B == {T \in SUBSET S : \E x \in T : g[T] # F[x] + g[T \ {x}]}
  <1> SUFFICES ASSUME B # {} PROVE FALSE
    OBVIOUS
  <1>1. PICK U \in B : \A V \in B : V \subseteq U => V = U
    <2>1. B \subseteq SUBSET S /\ IsFiniteSet(S)
      BY DEF Summable
    <2> HIDE DEF B
    <2>2. QED
      BY <2>1, SmallestSubset
  <1>2. PICK x \in U : g[U] # F[x] + g[U \ {x}]
    OBVIOUS
  <1> DEFINE c == Chosen(U)
  <1>3. c \in U /\ U \in SUBSET S
    BY <1>2, ChosenIn
  <1>4. g[U] = F[c] + g[U \ {c}]
    BY <1>3, Unfold
  <1> HIDE DEF c
  <1>5. x # c
    BY <1>2, <1>4
  <1>6. \A V \in SUBSET U : V # U => \A y \in V : g[V] = F[y] + g[V \ {y}]
    BY <1>1, <1>3
  <1>7. /\ U \ {c} \in SUBSET U /\ U \ {c} # U /\ x \in U \ {c}
        /\ U \ {x} \in SUBSET U /\ U \ {x} # U /\ c \in U \ {x}
    BY <1>3, <1>5
  <1>8. /\ g[U \ {c}] = F[x] + g[(U \ {c}) \ {x}]
        /\ g[U \ {x}] = F[c] + g[(U \ {x}) \ {c}]
    BY <1>6, <1>7
  <1> DEFINE R == (U \ {x}) \ {c}
  <1>9. (U \ {c}) \ {x} = R
    OBVIOUS
  <1>10. F[x] \in Int /\ F[c] \in Int /\ g[R] \in Int
    BY <1>3, SumsAreIntegers DEF Summable
  <1>11. g[U] = F[c] + (F[x] + g[R]) /\ g[U] # F[x] + (F[c] + g[R])
    BY <1>2, <1>4, <1>8, <1>9
  <1> HIDE DEF R, B
  <1>12. QED
    BY <1>10, <1>11

-----------------------------------------------------------------------------
(* What SumOver is.                                                        *)

LEMMA SumOverIs ==
    ASSUME NEW F, NEW S, IsFiniteSet(S), NEW g, IsSum(g, F, S)
    PROVE  \A T \in SUBSET S : g[T] = SumOver(F, T)
  <1> SUFFICES ASSUME NEW T \in SUBSET S PROVE g[T] = SumOver(F, T)
    OBVIOUS
  <1> DEFINE h == CHOOSE h : IsSum(h, F, T)
  <1>1. IsFiniteSet(T)
    BY FS_Subset
  <1>2. IsSum(h, F, T)
    BY <1>1, SumExists
  <1>3. SumOver(F, T) = h[T]
    BY DEF SumOver
  <1> HIDE DEF h
  <1>4. QED
    BY <1>1, <1>2, <1>3, SumsAgree

LEMMA SumEmpty == ASSUME NEW F PROVE SumOver(F, {}) = 0
  <1>1. PICK g : IsSum(g, F, {})
    BY SumExists, FS_EmptySet
  <1>2. g[{}] = SumOver(F, {})
    BY <1>1, SumOverIs, FS_EmptySet
  <1>3. QED
    BY <1>1, <1>2, Unfold

LEMMA SumType ==
    ASSUME NEW F, NEW S, Summable(F, S)
    PROVE  SumOver(F, S) \in Int
  <1>1. PICK g : IsSum(g, F, S)
    BY SumExists DEF Summable
  <1>2. g[S] = SumOver(F, S)
    BY <1>1, SumOverIs DEF Summable
  <1>3. g[S] \in Int
    BY <1>1, SumsAreIntegers
  <1>4. QED
    BY <1>2, <1>3

LEMMA SumTake ==
    ASSUME NEW F, NEW S, Summable(F, S), NEW x \in S
    PROVE  SumOver(F, S) = F[x] + SumOver(F, S \ {x})
  <1>1. PICK g : IsSum(g, F, S)
    BY SumExists DEF Summable
  <1>2. g[S] = F[x] + g[S \ {x}]
    BY <1>1, TakeAny
  <1>3. \A T \in SUBSET S : g[T] = SumOver(F, T)
    BY <1>1, SumOverIs DEF Summable
  <1>4. QED
    BY <1>2, <1>3

LEMMA SumAdd ==
    ASSUME NEW F, NEW S, Summable(F, S), NEW x, x \notin S, F[x] \in Int
    PROVE  SumOver(F, S \cup {x}) = SumOver(F, S) + F[x]
  <1> DEFINE T == S \cup {x}
  <1>1. Summable(F, T)
    BY FS_AddElement DEF Summable
  <1>2. x \in T /\ T \ {x} = S
    OBVIOUS
  <1> HIDE DEF T
  <1>3. SumOver(F, T) = F[x] + SumOver(F, S)
    BY <1>1, <1>2, SumTake
  <1>4. SumOver(F, S) \in Int
    BY SumType
  <1>5. SumOver(F, T) = SumOver(F, S) + F[x]
    BY <1>3, <1>4
  <1>6. QED
    BY <1>5 DEF T

\* Only the terms count.
LEMMA SumSame ==
    ASSUME NEW F, NEW G, NEW S, IsFiniteSet(S), \A x \in S : F[x] = G[x]
    PROVE  SumOver(F, S) = SumOver(G, S)
  <1>1. PICK g : IsSum(g, F, S)
    BY SumExists
  <1>2. \A T \in SUBSET S :
            (IF T = {} THEN 0 ELSE F[Chosen(T)] + g[T \ {Chosen(T)}]) =
            (IF T = {} THEN 0 ELSE G[Chosen(T)] + g[T \ {Chosen(T)}])
    BY ChosenIn
  <1>3. IsSum(g, G, S)
    BY <1>1, <1>2 DEF IsSum
  <1>4. QED
    BY <1>1, <1>3, SumOverIs


\* One term changes.
LEMMA SumChange ==
    ASSUME NEW F, NEW G, NEW S, Summable(F, S), Summable(G, S), NEW x \in S,
           \A y \in S \ {x} : F[y] = G[y]
    PROVE  SumOver(G, S) = SumOver(F, S) - F[x] + G[x]
  <1> DEFINE T == S \ {x}
  <1>1. Summable(F, T) /\ IsFiniteSet(T)
    BY FS_RemoveElement DEF Summable
  <1>2. SumOver(F, T) = SumOver(G, T)
    BY <1>1, SumSame
  <1>3. SumOver(F, S) = F[x] + SumOver(F, T) /\ SumOver(G, S) = G[x] + SumOver(G, T)
    BY SumTake
  <1>4. SumOver(F, T) \in Int /\ F[x] \in Int /\ G[x] \in Int
    BY <1>1, SumType DEF Summable
  <1> HIDE DEF T
  <1>5. QED
    BY <1>2, <1>3, <1>4

\* The sum of a set is that of two parts of it.
LEMMA SumSplit ==
    ASSUME NEW F, NEW S, Summable(F, S)
    PROVE  \A T \in SUBSET S : SumOver(F, S) = SumOver(F, T) + SumOver(F, S \ T)
  <1> DEFINE B == {T \in SUBSET S : SumOver(F, S) # SumOver(F, T) + SumOver(F, S \ T)}
  <1> SUFFICES ASSUME B # {} PROVE FALSE
    OBVIOUS
  <1>0. \A T \in SUBSET S : Summable(F, T) /\ SumOver(F, T) \in Int
    BY FS_Subset, SumType DEF Summable
  <1>1. PICK T \in B : \A V \in B : V \subseteq T => V = T
    <2>1. B \subseteq SUBSET S /\ IsFiniteSet(S)
      BY DEF Summable
    <2> HIDE DEF B
    <2>2. QED
      BY <2>1, SmallestSubset
  <1>2. CASE T = {}
    <2> DEFINE Q == S \ T
    <2>1. Q = S
      BY <1>2
    <2>2. SumOver(F, S) # SumOver(F, T) + SumOver(F, Q)
      OBVIOUS
    <2>3. SumOver(F, S) \in Int /\ SumOver(F, T) = 0
      BY <1>0, <1>2, SumEmpty
    <2> HIDE DEF Q, B
    <2>4. QED
      BY <2>1, <2>2, <2>3
  <1>3. ASSUME NEW x \in T PROVE FALSE
    <2> DEFINE U == T \ {x}
               R == S \ U
               Q == S \ T
    <2>1. U \in SUBSET S /\ U \subseteq T /\ U # T
      BY <1>3
    <2>2. SumOver(F, S) = SumOver(F, U) + SumOver(F, R)
      BY <1>1, <2>1
    <2>3. Summable(F, T) /\ Summable(F, R)
      BY <1>0
    <2>4. x \in R /\ R \ {x} = Q
      BY <1>3
    <2>5. /\ SumOver(F, U) \in Int /\ SumOver(F, Q) \in Int /\ SumOver(F, T) \in Int
          /\ SumOver(F, R) \in Int
      BY <1>0, <2>1
    <2>6. SumOver(F, T) = F[x] + SumOver(F, U)
      BY <1>3, <2>3, SumTake
    <2>7. SumOver(F, S) # SumOver(F, T) + SumOver(F, Q)
      OBVIOUS
    <2>8. F[x] \in Int
      BY <1>3 DEF Summable
    <2> HIDE DEF U, R, Q, B
    <2>9. SumOver(F, R) = F[x] + SumOver(F, Q)
      BY <2>3, <2>4, SumTake
    <2>10. QED
      BY <2>2, <2>5, <2>6, <2>7, <2>8, <2>9
  <1>4. QED
    BY <1>2, <1>3

\* A sum of natural numbers is one, and is not less than the sum of a part.
LEMMA SumNat ==
    ASSUME NEW F, NEW S, IsFiniteSet(S), \A x \in S : F[x] \in Nat
    PROVE  SumOver(F, S) \in Nat
  <1> DEFINE B == {T \in SUBSET S : SumOver(F, T) \notin Nat}
  <1> SUFFICES ASSUME B # {} PROVE FALSE
    <2>1. S \in SUBSET S
      OBVIOUS
    <2>2. QED
      BY <2>1
  <1>1. PICK T \in B : \A V \in B : V \subseteq T => V = T
    <2>1. B \subseteq SUBSET S
      OBVIOUS
    <2> HIDE DEF B
    <2>2. QED
      BY <2>1, SmallestSubset
  <1>2. CASE T = {}
    BY <1>2, SumEmpty
  <1>3. ASSUME NEW x \in T PROVE FALSE
    <2> DEFINE U == T \ {x}
    <2>1. U \in SUBSET S /\ U \subseteq T /\ U # T
      BY <1>3
    <2>2. SumOver(F, U) \in Nat
      BY <1>1, <2>1
    <2>3. Summable(F, T)
      BY FS_Subset DEF Summable
    <2>4. SumOver(F, T) = F[x] + SumOver(F, U)
      BY <1>3, <2>3, SumTake
    <2>5. F[x] \in Nat /\ SumOver(F, T) \notin Nat
      BY <1>3
    <2> HIDE DEF U, B
    <2>6. QED
      BY <2>2, <2>4, <2>5
  <1>4. QED
    BY <1>2, <1>3

LEMMA SumPart ==
    ASSUME NEW F, NEW S, IsFiniteSet(S), \A x \in S : F[x] \in Nat, NEW T \in SUBSET S
    PROVE  SumOver(F, T) <= SumOver(F, S)
  <1> DEFINE Q == S \ T
  <1>1. IsFiniteSet(T) /\ IsFiniteSet(Q) /\ Summable(F, S)
    BY FS_Subset DEF Summable
  <1>2. SumOver(F, S) = SumOver(F, T) + SumOver(F, Q)
    BY <1>1, SumSplit
  <1>3. SumOver(F, T) \in Nat /\ SumOver(F, Q) \in Nat
    BY <1>1, SumNat
  <1> HIDE DEF Q
  <1>4. QED
    BY <1>2, <1>3

\* Counting is summing ones.
LEMMA SumOnes ==
    ASSUME NEW F, NEW S, IsFiniteSet(S), \A x \in S : F[x] = 1
    PROVE  SumOver(F, S) = Cardinality(S)
  <1> DEFINE B == {T \in SUBSET S : SumOver(F, T) # Cardinality(T)}
  <1> SUFFICES ASSUME B # {} PROVE FALSE
    <2>1. S \in SUBSET S
      OBVIOUS
    <2>2. QED
      BY <2>1
  <1>1. PICK T \in B : \A V \in B : V \subseteq T => V = T
    <2>1. B \subseteq SUBSET S
      OBVIOUS
    <2> HIDE DEF B
    <2>2. QED
      BY <2>1, SmallestSubset
  <1>2. CASE T = {}
    BY <1>2, SumEmpty, FS_EmptySet
  <1>3. ASSUME NEW x \in T PROVE FALSE
    <2> DEFINE U == T \ {x}
    <2>1. U \in SUBSET S /\ U \subseteq T /\ U # T
      BY <1>3
    <2>2. SumOver(F, U) = Cardinality(U)
      BY <1>1, <2>1
    <2>3. Summable(F, T) /\ IsFiniteSet(T)
      BY FS_Subset DEF Summable
    <2>4. SumOver(F, T) = F[x] + SumOver(F, U)
      BY <1>3, <2>3, SumTake
    <2>5. F[x] = 1 /\ SumOver(F, T) # Cardinality(T)
      BY <1>3
    <2>6. Cardinality(U) = Cardinality(T) - 1 /\ Cardinality(T) \in Nat
      BY <1>3, <2>3, FS_RemoveElement, FS_CardinalityType
    <2> HIDE DEF U, B
    <2>7. QED
      BY <2>2, <2>4, <2>5, <2>6
  <1>4. QED
    BY <1>2, <1>3

\* Sums over sets apart from one another add up to the sum over all of them.
LEMMA SumUnion ==
    ASSUME NEW F, NEW R, IsFiniteSet(R), NEW P, NEW G,
           Summable(F, UNION {P[r] : r \in R}),
           \A q, r \in R : q # r => P[q] \cap P[r] = {},
           \A r \in R : G[r] = SumOver(F, P[r])
    PROVE  SumOver(G, R) = SumOver(F, UNION {P[r] : r \in R})
  <1> DEFINE all(Q) == UNION {P[r] : r \in Q}
             B == {Q \in SUBSET R : SumOver(G, Q) # SumOver(F, all(Q))}
  <1> SUFFICES ASSUME B # {} PROVE FALSE
    <2>1. R \in SUBSET R
      OBVIOUS
    <2>2. QED
      BY <2>1
  <1>0. \A Q \in SUBSET all(R) : Summable(F, Q) /\ SumOver(F, Q) \in Int
    BY FS_Subset, SumType DEF Summable
  <1>1. PICK T \in B : \A V \in B : V \subseteq T => V = T
    <2>1. B \subseteq SUBSET R
      OBVIOUS
    <2> HIDE DEF B
    <2>2. QED
      BY <2>1, SmallestSubset
  <1>2. CASE T = {}
    <2>1. all(T) = {}
      BY <1>2
    <2>2. SumOver(G, T) # SumOver(F, all(T))
      OBVIOUS
    <2> HIDE DEF all
    <2>3. QED
      BY <1>2, <2>1, <2>2, SumEmpty
  <1>3. ASSUME NEW x \in T PROVE FALSE
    <2> DEFINE U == T \ {x}
               A == all(T)
               C == all(U)
    <2>1. U \in SUBSET R /\ U \subseteq T /\ U # T
      BY <1>3
    <2>2. SumOver(G, U) = SumOver(F, C)
      BY <1>1, <2>1
    <2>3. A \in SUBSET all(R) /\ C \in SUBSET all(R) /\ P[x] \in SUBSET all(R)
      BY <1>3
    <2>4. P[x] \in SUBSET A /\ A \ P[x] = C
      BY <1>3
    <2>5. SumOver(G, T) # SumOver(F, A) /\ x \in R
      BY <1>3
    <2>6. \A r \in T : G[r] \in Int
      <3>1. \A r \in T : P[r] \in SUBSET all(R)
        OBVIOUS
      <3> HIDE DEF all
      <3>2. QED
        BY <1>0, <3>1
    <2>7. Summable(G, T)
      BY <2>6, FS_Subset DEF Summable
    <2> HIDE DEF U, A, C, B, all
    <2>8. SumOver(F, A) = SumOver(F, P[x]) + SumOver(F, C)
      BY <1>0, <2>3, <2>4, SumSplit
    <2>9. SumOver(G, T) = G[x] + SumOver(G, U)
      BY <1>3, <2>7, SumTake DEF U
    <2>10. G[x] = SumOver(F, P[x])
      BY <2>5
    <2>11. QED
      BY <2>2, <2>5, <2>8, <2>9, <2>10
  <1>4. QED
    BY <1>2, <1>3
=============================================================================
