------------------------------ MODULE MCPaging ------------------------------
(***************************************************************************)
(* Paging for TLC.  The processes are alike: nothing orders them, so the   *)
(* runs that check invariants only identify states up to their names.      *)
(***************************************************************************)
EXTENDS Paging

Alike == Permutations(Procs)
=============================================================================
