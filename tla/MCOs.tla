-------------------------------- MODULE MCOs --------------------------------
(***************************************************************************)
(* Os for TLC.                                                             *)
(***************************************************************************)
EXTENDS Os, TLC

CONSTANTS p1, p2, p3, p4

\* Two processes start together, one joins them, and one starts when the first
\* ones may have ended; sizes differ, so that they end in different slots.
MCLoad == <<p1, p2, p3, p4>>
MCStart == (p1 :> 0) @@ (p2 :> 0) @@ (p3 :> 1) @@ (p4 :> 5)
MCSize == (p1 :> 4) @@ (p2 :> 1) @@ (p3 :> 3) @@ (p4 :> 2)
MCPrio == (p1 :> 1) @@ (p2 :> 0) @@ (p3 :> 7) @@ (p4 :> 0)

\* One process that outlives the loader.
MCLoad1 == <<p1>>
MCStart1 == (p1 :> 0)
MCSize1 == (p1 :> 3)
MCPrio1 == (p1 :> 0)
=============================================================================
