------------------------------- MODULE Timer -------------------------------
(***************************************************************************)
(* The timer thread and the devices attached to it: src/src/timer.c.       *)
(*                                                                         *)
(* Each device has two mutexes, each with a condition variable.  The flag  *)
(* done is written under event_lock by its device and under timer_lock by  *)
(* the timer, so no single lock protects it; what does is the protocol.    *)
(* A critical section is therefore two steps here, one that takes the      *)
(* mutex and one that does the work and releases it.                       *)
(*                                                                         *)
(* The devices are the CPU and loader threads, numbered in the order of    *)
(* dev_list; main attaches them all before it starts the timer.            *)
(***************************************************************************)
EXTENDS Integers, FiniteSets

CONSTANTS
    N,           \* number of attached devices
    MaxSlots,    \* bound: next_slot calls of a device before it detaches
    MaxSpurious  \* bound: spurious wake-ups of condition variables

ASSUME TimerAssumption ==
    N \in Nat \ {0} /\ MaxSlots \in Nat /\ MaxSpurious \in Nat

Devices == 1 .. N

VARIABLES
    time,        \* _time
    done, fsh,   \* timer_id_t.done and timer_id_t.fsh
    dpc,         \* where each device thread is
    calls,       \* next_slot calls of each device so far
    signalled,   \* devices that were signalled on timer_cond
    spurious,    \* spurious wake-ups so far
    tpc,         \* where the timer thread is
    temp,        \* the device that the timer's loop has reached
    nfsh,        \* devices that this round has seen finished
    timer_stop,
    main         \* main: "join" the threads, "stop" the timer, "end"

vars == <<time, done, fsh, dpc, calls, signalled, spurious, tpc, temp, nfsh,
          timer_stop, main>>

\* attach_event for every device, then start_timer.
Init ==
    /\ time = 0
    /\ done = [d \in Devices |-> FALSE]
    /\ fsh = [d \in Devices |-> FALSE]
    /\ dpc = [d \in Devices |-> "work"]
    /\ calls = [d \in Devices |-> 0]
    /\ signalled = {}
    /\ spurious = 0
    /\ tpc = "check"
    /\ temp = 1
    /\ nfsh = 0
    /\ timer_stop = FALSE
    /\ main = "join"

\* Who is inside a critical section of device d.
EventLockFree(d) == /\ dpc[d] \notin {"posting", "leaving"}
                    /\ ~(tpc = "looking" /\ temp = d)
TimerLockFree(d) == /\ dpc[d] # "testing"
                    /\ ~(tpc = "clearing" /\ temp = d)

----------------------------------------------------------------------------
(* A device thread                                                          *)

dunchanged == UNCHANGED <<time, temp, nfsh, timer_stop, main>>

\* next_slot: take event_lock ...
PostLock(d) ==
    /\ dpc[d] = "work"
    /\ calls[d] < MaxSlots
    /\ EventLockFree(d)
    /\ dpc' = [dpc EXCEPT ![d] = "posting"]
    /\ dunchanged /\ UNCHANGED <<done, fsh, calls, signalled, spurious, tpc>>

\* A timer that sleeps on the event_cond of d wakes up.
SignalEvent(d) == tpc' = IF tpc = "asleep" /\ temp = d THEN "awake" ELSE tpc

\* ... set done, signal event_cond, release; ...
Post(d) ==
    /\ dpc[d] = "posting"
    /\ done' = [done EXCEPT ![d] = TRUE]
    /\ calls' = [calls EXCEPT ![d] = @ + 1]
    /\ SignalEvent(d)
    /\ dpc' = [dpc EXCEPT ![d] = "posted"]
    /\ dunchanged /\ UNCHANGED <<fsh, signalled, spurious>>

\* ... take timer_lock, for the first time or after a wait; ...
TestLock(d) ==
    /\ dpc[d] \in {"posted", "awake"}
    /\ TimerLockFree(d)
    /\ dpc' = [dpc EXCEPT ![d] = "testing"]
    /\ dunchanged /\ UNCHANGED <<done, fsh, calls, signalled, spurious, tpc>>

\* ... and go on if done is clear, else wait on timer_cond.
Test(d) ==
    /\ dpc[d] = "testing"
    /\ dpc' = [dpc EXCEPT ![d] = IF done[d] THEN "blocked" ELSE "work"]
    /\ dunchanged /\ UNCHANGED <<done, fsh, calls, signalled, spurious, tpc>>

\* pthread_cond_wait comes back after a signal, or spuriously.
Wake(d) ==
    /\ dpc[d] = "blocked"
    /\ d \in signalled
    /\ signalled' = signalled \ {d}
    /\ dpc' = [dpc EXCEPT ![d] = "awake"]
    /\ dunchanged /\ UNCHANGED <<done, fsh, calls, spurious, tpc>>
WakeSpuriously_if(d) ==
    /\ dpc[d] = "blocked"
    /\ d \notin signalled
    /\ spurious < MaxSpurious
    /\ spurious' = spurious + 1
    /\ dpc' = [dpc EXCEPT ![d] = "work"]
    /\ dunchanged /\ UNCHANGED <<done, fsh, calls, signalled, tpc>>
WakeSpuriously(d) ==
    /\ dpc[d] = "blocked"
    /\ d \notin signalled
    /\ spurious < MaxSpurious
    /\ spurious' = spurious + 1
    /\ dpc' = [dpc EXCEPT ![d] = "awake"]
    /\ dunchanged /\ UNCHANGED <<done, fsh, calls, signalled, tpc>>

\* detach_event.
DetachLock(d) ==
    /\ dpc[d] = "work"
    /\ EventLockFree(d)
    /\ dpc' = [dpc EXCEPT ![d] = "leaving"]
    /\ dunchanged /\ UNCHANGED <<done, fsh, calls, signalled, spurious, tpc>>
Detach(d) ==
    /\ dpc[d] = "leaving"
    /\ fsh' = [fsh EXCEPT ![d] = TRUE]
    /\ SignalEvent(d)
    /\ dpc' = [dpc EXCEPT ![d] = "gone"]
    /\ dunchanged /\ UNCHANGED <<done, calls, signalled, spurious>>

----------------------------------------------------------------------------
(* timer_routine                                                            *)

tunchanged == UNCHANGED <<fsh, dpc, calls, spurious, timer_stop, main>>

\* while (!timer_stop)
Check_carry ==
    /\ tpc = "check"
    /\ tpc' = IF timer_stop THEN "exit" ELSE "scan"
    /\ temp' = 1
    /\ tunchanged /\ UNCHANGED <<time, done, signalled, nfsh>>
Check ==
    /\ tpc = "check"
    /\ tpc' = IF timer_stop THEN "exit" ELSE "scan"
    /\ temp' = 1
    /\ nfsh' = 0
    /\ tunchanged /\ UNCHANGED <<time, done, signalled>>

\* First loop: take event_lock of the next device; ...
LookLock ==
    /\ \/ tpc = "scan" /\ temp <= N
       \/ tpc = "awake"
    /\ EventLockFree(temp)
    /\ tpc' = "looking"
    /\ tunchanged /\ UNCHANGED <<time, done, signalled, temp, nfsh>>

\* ... count it if it has done its slot or has finished, else wait for it.
Look ==
    /\ tpc = "looking"
    /\ IF done[temp] \/ fsh[temp]
       THEN /\ nfsh' = nfsh + IF fsh[temp] THEN 1 ELSE 0
            /\ temp' = temp + 1
            /\ tpc' = "scan"
       ELSE tpc' = "asleep" /\ UNCHANGED <<temp, nfsh>>
    /\ tunchanged /\ UNCHANGED <<time, done, signalled>>

LookSpuriously_if ==
    /\ tpc = "asleep"
    /\ spurious < MaxSpurious
    /\ spurious' = spurious + 1
    /\ tpc' = "scan"
    /\ temp' = temp + 1
    /\ UNCHANGED <<time, done, fsh, dpc, calls, signalled, nfsh, timer_stop, main>>
LookSpuriously ==
    /\ tpc = "asleep"
    /\ spurious < MaxSpurious
    /\ spurious' = spurious + 1
    /\ tpc' = "awake"
    /\ UNCHANGED <<time, done, fsh, dpc, calls, signalled, temp, nfsh, timer_stop, main>>

\* _time++
Advance ==
    /\ tpc = "scan"
    /\ temp > N
    /\ time' = time + 1
    /\ temp' = 1
    /\ tpc' = "release"
    /\ tunchanged /\ UNCHANGED <<done, signalled, nfsh>>

\* Second loop: take timer_lock of the next device, clear done and signal.
ClearLock ==
    /\ tpc = "release"
    /\ temp <= N
    /\ TimerLockFree(temp)
    /\ tpc' = "clearing"
    /\ tunchanged /\ UNCHANGED <<time, done, signalled, temp, nfsh>>
Clear_silent ==
    /\ tpc = "clearing"
    /\ done' = [done EXCEPT ![temp] = FALSE]
    /\ temp' = temp + 1
    /\ tpc' = "release"
    /\ tunchanged /\ UNCHANGED <<time, signalled, nfsh>>
Clear ==
    /\ tpc = "clearing"
    /\ done' = [done EXCEPT ![temp] = FALSE]
    /\ signalled' = IF dpc[temp] = "blocked" THEN signalled \cup {temp} ELSE signalled
    /\ temp' = temp + 1
    /\ tpc' = "release"
    /\ tunchanged /\ UNCHANGED <<time, nfsh>>

\* if (fsh == event) break; every device of the list was counted in event.
EndRound_any ==
    /\ tpc = "release"
    /\ temp > N
    /\ tpc' = IF nfsh > 0 THEN "exit" ELSE "check"
    /\ tunchanged /\ UNCHANGED <<time, done, signalled, temp, nfsh>>
EndRound ==
    /\ tpc = "release"
    /\ temp > N
    /\ tpc' = IF nfsh = N THEN "exit" ELSE "check"
    /\ tunchanged /\ UNCHANGED <<time, done, signalled, temp, nfsh>>

----------------------------------------------------------------------------
(* main, from the pthread_join of the device threads on                     *)

munchanged == UNCHANGED <<time, done, fsh, dpc, calls, signalled, spurious,
                          tpc, temp, nfsh>>

\* stop_timer: set timer_stop; join the timer thread and free the list.
StopTimer ==
    /\ main = "join"
    /\ \A d \in Devices : dpc[d] = "gone"
    /\ timer_stop' = TRUE
    /\ main' = "stop"
    /\ munchanged
JoinTimer ==
    /\ main = "stop"
    /\ tpc = "exit"
    /\ main' = "end"
    /\ munchanged /\ UNCHANGED timer_stop

Ended == main = "end" /\ UNCHANGED vars

DeviceStep(d) == PostLock(d) \/ Post(d) \/ TestLock(d) \/ Test(d) \/ Wake(d)
                 \/ DetachLock(d) \/ Detach(d)
TimerStep == Check \/ LookLock \/ Look \/ Advance \/ ClearLock \/ Clear \/ EndRound
MainStep == StopTimer \/ JoinTimer

Next ==
    \/ \E d \in Devices : DeviceStep(d) \/ WakeSpuriously(d)
    \/ TimerStep \/ LookSpuriously
    \/ MainStep \/ Ended

Spec == Init /\ [][Next]_vars

\* Every thread keeps running; nothing makes a spurious wake-up happen.  A device
\* that keeps calling next_slot detaches at the bound.
FairSpec ==
    /\ Spec
    /\ \A d \in Devices : WF_vars(DeviceStep(d))
    /\ WF_vars(TimerStep)
    /\ WF_vars(MainStep)

----------------------------------------------------------------------------
(* Properties                                                               *)

\* The loop of timer_routine stays within dev_list and never counts more
\* finished devices than there are.
TypeOK ==
    /\ time \in Nat
    /\ done \in [Devices -> BOOLEAN]
    /\ fsh \in [Devices -> BOOLEAN]
    /\ dpc \in [Devices -> {"work", "posting", "posted", "testing", "blocked",
                            "awake", "leaving", "gone"}]
    /\ calls \in [Devices -> 0 .. MaxSlots]
    /\ signalled \in SUBSET Devices
    /\ spurious \in 0 .. MaxSpurious
    /\ tpc \in {"check", "scan", "looking", "asleep", "awake", "release",
                "clearing", "exit"}
    /\ temp \in 1 .. N + 1
    /\ nfsh \in 0 .. N
    /\ timer_stop \in BOOLEAN
    /\ main \in {"join", "stop", "end"}

\* A device inside a time slot, from the return of next_slot to its next call
\* or to detach_event.
InSlot(d) == dpc[d] \in {"work", "posting", "leaving"}

\* The timer and a device never write done of the device at the same time,
\* although they do it under two different mutexes (next_slot, timer_routine).
NoRaceOnDone ==
    \A d \in Devices : ~(dpc[d] = "posting" /\ tpc = "clearing" /\ temp = d)

\* Nobody is inside a time slot when the timer increments _time, which the
\* loader reads without a lock (current_time), and a device always
\* works in the slot that the clock shows: none runs ahead, none falls behind.
LockStep ==
    /\ tpc = "scan" /\ temp > N => \A d \in Devices : ~InSlot(d)
    /\ \A d \in Devices : dpc[d] \in {"work", "leaving"} => calls[d] = time

\* Every device that calls next_slot gets into its next slot (no signal of the
\* two condition variables is lost), so that all of them can detach.
NextSlotReturns == \A d \in Devices : dpc[d] = "posted" ~> InSlot(d)

\* The timer implements the lock-step clock.  A device that waits counts as
\* running again from the increment of _time on, before it has been signalled.
Released(d) == tpc \in {"release", "clearing"} /\ temp <= d
at == [d \in Devices |-> IF fsh[d] THEN "gone"
                         ELSE IF done[d] /\ ~Released(d) THEN "wait" ELSE "run"]
Clock == INSTANCE SlotClock WITH MaxTime <- MaxSlots + 1, stopped <- (tpc = "exit")

\* What next_slot, detach_event and timer_routine do is a behaviour of
\* SlotClock, its fairness included.
ImplementsClock == Clock!Spec
=============================================================================
