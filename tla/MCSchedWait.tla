---------------------------- MODULE MCSchedWait ----------------------------
(***************************************************************************)
(* SchedWait for TLC.                                                      *)
(***************************************************************************)
EXTENDS SchedWait, MCSched
=============================================================================
