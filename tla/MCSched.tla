------------------------------ MODULE MCSched ------------------------------
(***************************************************************************)
(* Sched for TLC.                                                          *)
(***************************************************************************)
EXTENDS Sched

CONSTANTS p1, p2, p3, p4

\* The levels are shared, and one process asks for a priority out of range.
MCConfPrio3 == (p1 :> 0) @@ (p2 :> 1) @@ (p3 :> 7)
MCConfPrioCrowd == (p1 :> 0) @@ (p2 :> 0) @@ (p3 :> 0) @@ (p4 :> 7)
=============================================================================
