--------------------------- MODULE MCOrderPayments ---------------------------
(***************************************************************************)
(* Small instances of OrderPayments for TLC.                               *)
(***************************************************************************)
EXTENDS OrderPayments, TLC

CONSTANTS o1, o2, t1, t2, t3, p1, p2

\* o1 asks for one place, o2 for two.
MCOrderOf == (t1 :> o1) @@ (t2 :> o2) @@ (t3 :> o2)
MCBothProviders == (o1 :> "STRIPE") @@ (o2 :> "DEMO")
MCDemoOnly == (o1 :> "DEMO") @@ (o2 :> "DEMO")

\* Two places at the event, one of the pools has only one: o1 and o2 cannot
\* both be live, and o2 fits in p1 only.
MCPoolCapacity == [p \in Pool |-> IF p = p1 THEN 2 ELSE 1]

Symmetry == Permutations(Worker) \cup Permutations(ProviderEvent)
=============================================================================
