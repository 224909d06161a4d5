----------------------------- MODULE SchedWait -----------------------------
(***************************************************************************)
(* Sched with a history variable that counts, for each waiting process,    *)
(* the dispatches that went to others since it was queued.                 *)
(***************************************************************************)
EXTENDS Sched

VARIABLE waited

waitvars == <<vars, waited>>

Ready(p) == \E q \in Prios : ReadyAt(p, q)

\* Some CPU that held nothing has a process: get_mlq_proc has dispatched.
Dispatched == \E c \in CPUs : held[c] = NoProc /\ held'[c] # NoProc

WaitInit == Init /\ waited = [p \in Procs |-> 0]
WaitNext ==
    /\ Next
    /\ waited' = [p \in Procs |->
          IF Ready(p) /\ Ready(p)'
          THEN waited[p] + IF Dispatched THEN 1 ELSE 0
          ELSE 0]
WaitSpec == WaitInit /\ [][WaitNext]_waitvars
WaitFairSpec == WaitSpec /\ Fairness

\* The slots of a fresh round that belong to levels other than q: level r has
\* MAX_PRIO - r of them.  A round dispatches at most this often from others.
OthersPerRound(q) ==
    Cardinality({x \in Prios \X (1 .. MAX_PRIO) : x[1] # q /\ x[2] <= MAX_PRIO - x[1]})
\* The other processes of level q, and the rounds it needs for one more.
Peers(p, q) == Cardinality({r \in Procs \ {p} : normalize_prio(ConfPrio[r]) = q})
RoundsFor(k, q) == (k + MAX_PRIO - q) \div (MAX_PRIO - q)

\* The wait of a ready process is bounded, not only finite: with k processes
\* of its own level ahead of it, it sees those k dispatched, what is left of
\* the round under way, and the rounds its level needs.  This is what the slots
\* of get_mlq_proc buy for a level below others that are never empty.
BoundedWait ==
    \A p \in Procs : Ready(p) =>
        LET q == prio[p]
            k == Peers(p, q)
        IN waited[p] <= k + OthersPerRound(q) * (1 + RoundsFor(k, q))
=============================================================================
