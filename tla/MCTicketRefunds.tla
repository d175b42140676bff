-------------------------- MODULE MCTicketRefunds --------------------------
EXTENDS SalesReports, TLC
CONSTANTS t1, t2, t3
MCPrice == (t1 :> 1) @@ (t2 :> 1) @@ (t3 :> 2)
=============================================================================
