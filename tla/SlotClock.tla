----------------------------- MODULE SlotClock -----------------------------
(***************************************************************************)
(* What timer.c promises to the threads attached to it: a clock in lock    *)
(* step.  A device runs in a time slot until it calls next_slot or         *)
(* detach_event; the slot ends once no device runs any more, and then every *)
(* waiting device runs in the next one.  Timer implements this with mutexes *)
(* and condition variables; Os is written on top of it.                    *)
(***************************************************************************)
EXTENDS Integers

CONSTANTS
    Devices,  \* the CPU threads and the loader thread
    MaxTime   \* bound: the clock stays at MaxTime once it gets there

VARIABLES
    time,    \* _time: the number of the time slot
    at,      \* "run" in this slot, "wait" for the next one, or "gone"
    stopped  \* the timer thread has ended

vars == <<time, at, stopped>>

Init ==
    /\ time = 0
    /\ at = [d \in Devices |-> "run"]
    /\ stopped = FALSE

\* next_slot: the device has done its work of this slot.
Arrive(d) ==
    /\ at[d] = "run"
    /\ at' = [at EXCEPT ![d] = "wait"]
    /\ UNCHANGED <<time, stopped>>

\* detach_event: the device leaves for good.
Leave(d) ==
    /\ at[d] = "run"
    /\ at' = [at EXCEPT ![d] = "gone"]
    /\ UNCHANGED <<time, stopped>>

\* One round of timer_routine.
Later(t) == IF t < MaxTime THEN t + 1 ELSE t
Tick ==
    /\ ~stopped
    /\ \A d \in Devices : at[d] # "run"
    /\ time' = Later(time)
    /\ at' = [d \in Devices |-> IF at[d] = "wait" THEN "run" ELSE at[d]]
    /\ UNCHANGED stopped

\* The timer ends only after every device is gone.
Stop ==
    /\ ~stopped
    /\ \A d \in Devices : at[d] = "gone"
    /\ stopped' = TRUE
    /\ UNCHANGED <<time, at>>

Next == Tick \/ Stop \/ \E d \in Devices : Arrive(d) \/ Leave(d)

Spec == Init /\ [][Next]_vars /\ WF_vars(Tick) /\ WF_vars(Stop)
=============================================================================
