------------------------------- MODULE MCKmem -------------------------------
(***************************************************************************)
(* Kmem for TLC.  Bytes are named for the process that writes them and     *)
(* nothing orders processes or the indices of a symbol table, so both are  *)
(* interchangeable.  Nothing is claimed after an int overflow, and no more *)
(* of the bytes after a copy beyond the end of a region: behaviours are    *)
(* explored up to there.                                                   *)
(***************************************************************************)
EXTENDS Kmem, TLC

MCCopies == {<<0, 2>>, <<1, 1>>}
Alike == {f @@ g : f \in Permutations(Procs), g \in Permutations(Rgids)}

MCNext == ~overflowed /\ ~trespassed /\ Next
MCSpec == Init /\ [][MCNext]_vars
=============================================================================
