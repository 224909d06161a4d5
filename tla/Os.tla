--------------------------------- MODULE Os ---------------------------------
(***************************************************************************)
(* The simulator's threads: cpu_routine, ld_routine and main of            *)
(* src/src/os.c, with run of src/src/cpu.c and load of src/src/loader.c,   *)
(* on top of the scheduler (Sched) and of the lock-step clock (SlotClock). *)
(*                                                                         *)
(* The scheduler calls are atomic, because they hold queue_lock; the flag  *)
(* done is read and written without a lock, as a step of its own.  What an *)
(* instruction does to memory is the subject of Paging; here it advances   *)
(* the program counter.                                                    *)
(***************************************************************************)
EXTENDS Integers, Sequences, FiniteSets

CONSTANTS
    Procs, CPUs, NoProc, MAX_PRIO, MAX_QUEUE_SIZE, ConfPrio,  \* as in Sched
    Loader,      \* the loader thread
    LoadOrder,   \* the processes in the order of the configuration file
    start_time,  \* start_time[p] of the configuration file
    code_size,   \* proc->code->size
    TimeSlots,   \* the values of time_slot that configuration files give
    MaxTime      \* bound: as in SlotClock; no start time lies beyond it

ASSUME OsAssumption ==
    /\ NoProc \notin Procs
    /\ MAX_PRIO \in Nat \ {0}
    /\ MAX_QUEUE_SIZE \in Nat \ {0}
    /\ ConfPrio \in [Procs -> Nat]
    /\ Loader \notin CPUs
    /\ LoadOrder \in Seq(Procs)
    /\ \A p \in Procs : \E k \in 1 .. Len(LoadOrder) : LoadOrder[k] = p
    /\ MaxTime \in Nat
    /\ start_time \in [Procs -> 0 .. MaxTime]
    /\ code_size \in [Procs -> Nat]
    /\ TimeSlots \subseteq Int

VARIABLES
    mlq, slot, cur, running_list, prio, held, phase,  \* the scheduler
    time, at, stopped,                                \* the clock
    cpc,        \* where each CPU thread is
    time_left,  \* time_left of each cpu_routine
    pc,         \* proc->pc
    lpc, i,     \* where the loader is, and the next entry of LoadOrder
    done,       \* the loader has added its last process
    time_slot,  \* slots of a process between two dispatches, from the file
    ran         \* ghost: the processes that ran an instruction in this slot

Devices == CPUs \cup {Loader}
S == INSTANCE Sched
Clock == INSTANCE SlotClock

svars == <<mlq, slot, cur, running_list, prio, held, phase>>
cvars == <<time, at, stopped>>
lvars == <<lpc, i, done, time_slot>>
vars == <<svars, cvars, cpc, time_left, pc, lvars, ran>>

Init ==
    /\ S!Init
    /\ Clock!Init
    /\ cpc = [c \in CPUs |-> "top"]
    /\ time_left = [c \in CPUs |-> 0]
    /\ pc = [p \in Procs |-> 0]
    /\ lpc = "start"
    /\ i = 1
    /\ done = FALSE
    /\ time_slot \in TimeSlots
    /\ ran = {}

----------------------------------------------------------------------------
(* cpu_routine                                                              *)

Goto(c, label) == cpc' = [cpc EXCEPT ![c] = label]
AtLabel(c, label) == cpc[c] = label /\ at[c] = "run"

\* proc == NULL: the first get_proc; if it finds nothing the slot is over.
FirstGet(c) ==
    /\ AtLabel(c, "top")
    /\ S!get_proc(c)
    /\ Goto(c, IF held'[c] = NoProc THEN "slot" ELSE "recheck")
    /\ UNCHANGED <<cvars, time_left, pc, lvars, ran>>

\* proc->pc == proc->code->size: remove_proc, free_pcb, get_proc.
Finish_early(c) ==
    /\ AtLabel(c, "top")
    /\ held[c] # NoProc
    /\ pc[held[c]] + 1 >= code_size[held[c]]
    /\ S!remove_proc(c)
    /\ Goto(c, "free")
    /\ UNCHANGED <<cvars, time_left, pc, lvars, ran>>
Finish(c) ==
    /\ AtLabel(c, "top")
    /\ held[c] # NoProc
    /\ pc[held[c]] = code_size[held[c]]
    /\ S!remove_proc(c)
    /\ Goto(c, "free")
    /\ UNCHANGED <<cvars, time_left, pc, lvars, ran>>
Free(c) ==
    /\ AtLabel(c, "free")
    /\ S!free_pcb(c)
    /\ time_left' = [time_left EXCEPT ![c] = 0]
    /\ Goto(c, "get")
    /\ UNCHANGED <<cvars, pc, lvars, ran>>

\* time_left == 0: put_proc, get_proc.
Preempt(c) ==
    /\ AtLabel(c, "top")
    /\ held[c] # NoProc
    /\ pc[held[c]] # code_size[held[c]]
    /\ time_left[c] = 0
    /\ S!put_proc(c)
    /\ Goto(c, "get")
    /\ UNCHANGED <<cvars, time_left, pc, lvars, ran>>

\* The get_proc that follows free_pcb or put_proc.
GetAgain(c) ==
    /\ AtLabel(c, "get")
    /\ S!get_proc(c)
    /\ Goto(c, "recheck")
    /\ UNCHANGED <<cvars, time_left, pc, lvars, ran>>

\* The slice is not over: keep the process.
Keep(c) ==
    /\ AtLabel(c, "top")
    /\ held[c] # NoProc
    /\ pc[held[c]] # code_size[held[c]]
    /\ time_left[c] # 0
    /\ Goto(c, "recheck")
    /\ UNCHANGED <<svars, cvars, time_left, pc, lvars, ran>>

\* "Recheck process status": with no process, stop if the loader is done, else
\* skip the slot.
RecheckEmpty_hasty(c) ==
    /\ AtLabel(c, "recheck")
    /\ held[c] = NoProc
    /\ Goto(c, "detach")
    /\ UNCHANGED <<svars, cvars, time_left, pc, lvars, ran>>
RecheckEmpty(c) ==
    /\ AtLabel(c, "recheck")
    /\ held[c] = NoProc
    /\ Goto(c, IF done THEN "detach" ELSE "slot")
    /\ UNCHANGED <<svars, cvars, time_left, pc, lvars, ran>>

\* run: fetch an instruction, unless the program counter is at the end.
run(p) == pc' = [pc EXCEPT ![p] = IF @ >= code_size[p] THEN @ ELSE @ + 1]

\* With a process, start a slice if none is under way and run one instruction.
Execute_on(c) ==
    /\ AtLabel(c, "recheck")
    /\ held[c] # NoProc
    /\ run(held[c])
    /\ time_left' = [time_left EXCEPT ![c] = (IF @ = 0 THEN time_slot ELSE @) - 1]
    /\ ran' = ran \cup {held[c]}
    /\ Goto(c, IF time_left'[c] > 0 THEN "slot" ELSE "top")
    /\ UNCHANGED <<svars, cvars, lvars>>
Execute_unsliced(c) ==
    /\ AtLabel(c, "recheck")
    /\ held[c] # NoProc
    /\ run(held[c])
    /\ time_left' = [time_left EXCEPT ![c] = @ - 1]
    /\ ran' = ran \cup {held[c]}
    /\ Goto(c, "slot")
    /\ UNCHANGED <<svars, cvars, lvars>>
Execute(c) ==
    /\ AtLabel(c, "recheck")
    /\ held[c] # NoProc
    /\ run(held[c])
    /\ time_left' = [time_left EXCEPT ![c] = (IF @ = 0 THEN time_slot ELSE @) - 1]
    /\ ran' = ran \cup {held[c]}
    /\ Goto(c, "slot")
    /\ UNCHANGED <<svars, cvars, lvars>>

NextSlot(c) ==
    /\ AtLabel(c, "slot")
    /\ Clock!Arrive(c)
    /\ Goto(c, "top")
    /\ UNCHANGED <<svars, time_left, pc, lvars, ran>>

Exit(c) ==
    /\ AtLabel(c, "detach")
    /\ Clock!Leave(c)
    /\ Goto(c, "exit")
    /\ UNCHANGED <<svars, time_left, pc, lvars, ran>>

CpuStep(c) ==
    \/ FirstGet(c) \/ Finish(c) \/ Free(c) \/ Preempt(c) \/ GetAgain(c) \/ Keep(c)
    \/ RecheckEmpty(c) \/ Execute(c) \/ NextSlot(c) \/ Exit(c)

----------------------------------------------------------------------------
(* ld_routine                                                               *)

lunchanged == UNCHANGED <<cpc, time_left, pc, time_slot, ran>>

\* load a process and wait for its start time, ...
LdWait ==
    /\ lpc = "start" /\ at[Loader] = "run"
    /\ i <= Len(LoadOrder)
    /\ time < start_time[LoadOrder[i]]
    /\ Clock!Arrive(Loader)
    /\ lunchanged /\ UNCHANGED <<svars, lvars>>

\* ... add it, ...
LdAdd_last(p) ==
    /\ lpc = "start" /\ at[Loader] = "run"
    /\ i <= Len(LoadOrder) /\ p = LoadOrder[i]
    /\ time >= start_time[p]
    /\ S!add_proc(p)
    /\ lpc' = "slot"
    /\ i' = i + 1
    /\ done' = (i = Len(LoadOrder))
    /\ lunchanged /\ UNCHANGED cvars
LdAdd(p) ==
    /\ lpc = "start" /\ at[Loader] = "run"
    /\ i <= Len(LoadOrder) /\ p = LoadOrder[i]
    /\ time >= start_time[p]
    /\ S!add_proc(p)
    /\ lpc' = "slot"
    /\ i' = i + 1
    /\ lunchanged /\ UNCHANGED <<cvars, done>>

\* ... and let a slot pass before the next one.
LdSlot ==
    /\ lpc = "slot"
    /\ Clock!Arrive(Loader)
    /\ lpc' = "start"
    /\ lunchanged /\ UNCHANGED <<svars, i, done>>

\* After the last one: done = 1; detach_event.
LdDone ==
    /\ lpc = "start" /\ at[Loader] = "run"
    /\ i > Len(LoadOrder)
    /\ done' = TRUE
    /\ lpc' = "detach"
    /\ lunchanged /\ UNCHANGED <<svars, cvars, i>>
LdExit ==
    /\ lpc = "detach"
    /\ Clock!Leave(Loader)
    /\ lpc' = "exit"
    /\ lunchanged /\ UNCHANGED <<svars, i, done>>

LdStep == LdWait \/ LdSlot \/ LdDone \/ LdExit \/ \E p \in Procs : LdAdd(p)

----------------------------------------------------------------------------

\* The timer starts a new slot, or ends when every thread is gone, after which
\* main joins it and returns.
TimerStep ==
    /\ \/ Clock!Tick /\ ran' = {}
       \/ Clock!Stop /\ UNCHANGED ran
    /\ UNCHANGED <<svars, cpc, time_left, pc, lvars>>

Ended == stopped /\ UNCHANGED vars

Next == (\E c \in CPUs : CpuStep(c)) \/ LdStep \/ TimerStep \/ Ended

Spec == Init /\ [][Next]_vars

\* Every thread keeps running: each has its own pthread, and no thread waits for
\* anything but queue_lock, which is held for one call, and the clock, which
\* NextSlotReturns of Timer shows to go on.
FairSpec ==
    /\ Spec
    /\ \A c \in CPUs : WF_vars(CpuStep(c))
    /\ WF_vars(LdStep)
    /\ WF_vars(TimerStep)

----------------------------------------------------------------------------
(* Properties                                                               *)

\* The scheduler and the clock keep their types, and a slice never counts below
\* zero (cpu_routine), unless time_slot is 0 or less: then time_left never gets to
\* 0 again while its process runs.
TypeOK ==
    /\ S!TypeOK
    /\ time \in 0 .. MaxTime
    /\ at \in [Devices -> {"run", "wait", "gone"}]
    /\ stopped \in BOOLEAN
    /\ cpc \in [CPUs -> {"top", "free", "get", "recheck", "slot", "detach", "exit"}]
    /\ time_left \in [CPUs -> Int]
    /\ time_slot \in TimeSlots
    /\ \A c \in CPUs : IF time_slot > 0 THEN time_left[c] \in 0 .. time_slot
                       ELSE time_left[c] <= 0
    /\ pc \in [Procs -> Nat]
    /\ lpc \in {"start", "slot", "detach", "exit"}
    /\ i \in 1 .. Len(LoadOrder) + 1
    /\ done \in BOOLEAN
    /\ ran \in SUBSET Procs

\* A process runs at most one instruction per time slot, even when it is put
\* back by one CPU and dispatched by another within the slot (cpu_routine).
OncePerSlot == [][\A c \in CPUs : Execute(c) => held[c] \notin ran]_vars

\* A process ends after all of its instructions and not before, and whatever a
\* CPU executes is loaded, still in the running list that its system calls
\* search, and not freed (remove_proc and free_pcb in cpu_routine).
RunsToTheEnd ==
    /\ \A p \in Procs :
         /\ pc[p] <= code_size[p]
         /\ phase[p] \in {"removed", "freed"} => pc[p] = code_size[p]
    /\ \A c \in CPUs : cpc[c] = "recheck" /\ held[c] # NoProc =>
         /\ phase[held[c]] = "live"
         /\ S!sched_find_proc_by_pid(held[c]) = held[c]

\* CPUs do not leave work behind: when the last one stops every process of the
\* configuration has been loaded, run and freed.  A CPU finds the queue empty
\* first and reads done later, so this rests on the slot that the loader
\* lets pass between its last add_proc and done = 1.
NoneStranded ==
    (\A c \in CPUs : cpc[c] \in {"detach", "exit"}) =>
        done /\ \A p \in Procs : phase[p] = "freed"

\* Every process of the configuration is loaded and finishes, also with a time_slot
\* of 0, where no process gives up its CPU (cpu_routine, ld_routine).
AllFinish == \A p \in Procs : <>(phase[p] = "freed")

\* os.c: "No process to run, exit".  Once all processes have finished, every CPU
\* thread stops, so that main gets past its pthread_join calls.
AllStop == <>(\A c \in CPUs : cpc[c] = "exit")
=============================================================================
