---------------------------- MODULE MCPageTable -----------------------------
(***************************************************************************)
(* PageTable for TLC.  Directories have two entries, and the pages differ  *)
(* in the index of the last, of a middle and of the first level.  Frame,   *)
(* device and slot numbers use the lowest and the highest bit of their     *)
(* fields, and so the bits in which the fields overlap.                    *)
(***************************************************************************)
EXTENDS PageTable

MCPgns == {0, 1, 2, 16}
MCFpns == {{0, 12}}
MCSwpTyps == {{0, 4}}
MCSwpOffs == {{0, 7, 20}}
MCGarbage == {0, 31}
=============================================================================
