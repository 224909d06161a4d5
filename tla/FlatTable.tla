----------------------------- MODULE FlatTable ------------------------------
(***************************************************************************)
(* What a page table promises: one entry per page, which is absent, names  *)
(* a frame or a swap slot, or carries the marker.  Setting the entry of a  *)
(* page succeeds or changes nothing, and touches no other page.  PageTable *)
(* implements it.                                                          *)
(***************************************************************************)
CONSTANTS Pgns, Fpns, SwpOffs

VARIABLE entries

Absent == [kind |-> "absent", of |-> {}]
Marked == [kind |-> "marked", of |-> {}]
InFrame(fpn) == [kind |-> "frame", of |-> fpn]
InSlot(swpoff) == [kind |-> "slot", of |-> swpoff]

Init == entries = [n \in Pgns |-> Absent]

Assign(n, e) == entries' = [entries EXCEPT ![n] = e]
Drop == entries' = [n \in Pgns |-> Absent]

Next ==
    \/ \E n \in Pgns : \/ \E fpn \in Fpns : Assign(n, InFrame(fpn))
                       \/ \E swpoff \in SwpOffs : Assign(n, InSlot(swpoff))
                       \/ Assign(n, Marked)
    \/ Drop

Spec == Init /\ [][Next]_entries
=============================================================================
