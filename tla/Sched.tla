------------------------------- MODULE Sched -------------------------------
(***************************************************************************)
(* The multi-level queue scheduler: src/src/sched.c on top of the bounded  *)
(* queues of src/src/queue.c, built with MLQ_SCHED.                         *)
(*                                                                         *)
(* Every operation of the scheduler runs under queue_lock, so each one is  *)
(* one action.  Its callers are the loader thread (add_proc) and the CPU   *)
(* threads (get_proc, put_proc, remove_proc, then free_pcb without the     *)
(* lock); here they call in any order that respects what a CPU holds.      *)
(* Module Os replaces these free callers by the loops of os.c.             *)
(***************************************************************************)
EXTENDS Integers, Sequences, SequencesExt, FiniteSets

CONSTANTS
    Procs,           \* the processes of the configuration file
    CPUs,            \* the CPU threads
    NoProc,          \* the null PCB pointer
    MAX_PRIO,        \* number of priority levels (140 in the code)
    MAX_QUEUE_SIZE,  \* capacity of every queue_t (50 in the code)
    ConfPrio         \* priority the configuration file gives to a process

ASSUME SchedAssumption ==
    /\ NoProc \notin Procs
    /\ MAX_PRIO \in Nat \ {0}
    /\ MAX_QUEUE_SIZE \in Nat \ {0}
    /\ ConfPrio \in [Procs -> Nat]

VARIABLES
    mlq,           \* mlq_ready_queue[prio]: the ready processes of a level
    slot,          \* slot[prio]: dispatches the level has left in this round
    cur,           \* current_mlq_prio: where the next scan starts
    running_list,  \* every process that is loaded and not yet finished
    prio,          \* proc->prio, raw until add_proc clamps it
    held,          \* the local variable proc of each cpu_routine
    phase          \* ghost: where a process is in its life

vars == <<mlq, slot, cur, running_list, prio, held, phase>>

Prios == 0 .. MAX_PRIO - 1
Phases == {"new", "live", "removed", "freed"}

----------------------------------------------------------------------------
(* queue.c                                                                  *)

\* enqueue refuses silently when the queue is full.
enqueue_small(q, p) == IF Len(q) >= MAX_QUEUE_SIZE - 1 THEN q ELSE Append(q, p)
enqueue(q, p) == IF Len(q) >= MAX_QUEUE_SIZE THEN q ELSE Append(q, p)

\* purgequeue removes the first entry for p, if there is one.
purgequeue_last(q, p) ==
    IF q # <<>> /\ Last(q) = p THEN Front(q) ELSE q
purgequeue(q, p) == RemoveFirst(q, p)

----------------------------------------------------------------------------
(* sched.c                                                                  *)

\* reset_mlq_slot: level q may dispatch MAX_PRIO - q processes per round.
slot_from_zero == [q \in Prios |-> MAX_PRIO - 1 - q]
slot_flat == [q \in Prios |-> MAX_PRIO]
reset_mlq_slot == [q \in Prios |-> MAX_PRIO - q]

normalize_unclamped(n) == IF n >= MAX_PRIO THEN MAX_PRIO ELSE n
normalize_prio(n) == IF n >= MAX_PRIO THEN MAX_PRIO - 1 ELSE n

\* The levels with a ready process, and those that also have slots left.
NonEmpty == {q \in Prios : mlq[q] # <<>>}
Eligible == {q \in NonEmpty : slot[q] > 0}
queue_empty == NonEmpty = {}

Init ==
    /\ mlq = [q \in Prios |-> <<>>]
    /\ slot = reset_mlq_slot
    /\ cur = 0
    /\ running_list = <<>>
    /\ prio = ConfPrio
    /\ held = [c \in CPUs |-> NoProc]
    /\ phase = [p \in Procs |-> "new"]

\* The s-th level of a scan, and the first level of the scan that is in S.
Scanned(s) == (cur + s) % MAX_PRIO
FirstScanned(S, q) ==
    \E s \in Prios : /\ q = Scanned(s)
                     /\ q \in S
                     /\ \A t \in 0 .. s - 1 : Scanned(t) \notin S

\* The body that both scans of get_mlq_proc share: take the head of level q,
\* paying with one of the slots in sl.
Dispatch_peek(c, q, sl) ==
    /\ held' = [held EXCEPT ![c] = Head(mlq[q])]
    /\ slot' = [sl EXCEPT ![q] = @ - 1]
    /\ cur' = q
    /\ UNCHANGED mlq
Dispatch(c, q, sl) ==
    /\ held' = [held EXCEPT ![c] = Head(mlq[q])]
    /\ mlq' = [mlq EXCEPT ![q] = Tail(@)]
    /\ slot' = [sl EXCEPT ![q] = @ - 1]
    /\ cur' = IF slot'[q] = 0 \/ mlq'[q] = <<>> THEN (q + 1) % MAX_PRIO ELSE q

\* get_mlq_proc: nothing is ready; or the first scan finds a level; or every
\* ready level is out of slots, and the second scan runs with fresh ones.
GetNothing(c) == queue_empty /\ UNCHANGED <<mlq, slot, cur, held>>
GetEligible(c) ==
    \E q \in Eligible : FirstScanned(Eligible, q) /\ Dispatch(c, q, slot)
GetAfterReset_late(c) ==
    /\ Eligible = {}
    /\ IF \A q \in Prios : slot[q] = 0
       THEN \E q \in NonEmpty : FirstScanned(NonEmpty, q) /\ Dispatch(c, q, reset_mlq_slot)
       ELSE UNCHANGED <<mlq, slot, cur, held>>
GetAfterReset(c) ==
    /\ Eligible = {}
    /\ \E q \in NonEmpty : FirstScanned(NonEmpty, q) /\ Dispatch(c, q, reset_mlq_slot)

get_mlq_proc(c) == GetNothing(c) \/ GetEligible(c) \/ GetAfterReset(c)
get_proc(c) ==
    /\ held[c] = NoProc
    /\ get_mlq_proc(c)
    /\ UNCHANGED <<running_list, prio, phase>>

\* put_mlq_proc: p goes to the end of its level, if there is room.
put_mlq_proc(p) ==
    LET q == normalize_prio(prio[p])
    IN /\ prio' = [prio EXCEPT ![p] = q]
       /\ mlq' = [mlq EXCEPT ![q] = enqueue(@, p)]

\* put_proc: the CPU gives up the process it holds.
put_proc(c) ==
    /\ held[c] # NoProc
    /\ phase[held[c]] = "live"
    /\ put_mlq_proc(held[c])
    /\ held' = [held EXCEPT ![c] = NoProc]
    /\ UNCHANGED <<slot, cur, running_list, phase>>

\* add_mlq_proc: the same, and an entry in the running list.
add_mlq_proc_unlisted(p) == put_mlq_proc(p) /\ UNCHANGED running_list
add_mlq_proc(p) == put_mlq_proc(p) /\ running_list' = enqueue(running_list, p)

\* add_proc: the loader has a process ready.
add_proc(p) ==
    /\ phase[p] = "new"
    /\ add_mlq_proc(p)
    /\ phase' = [phase EXCEPT ![p] = "live"]
    /\ UNCHANGED <<slot, cur, held>>

\* remove_proc: first half of the end of a process.
remove_proc(c) ==
    /\ held[c] # NoProc
    /\ phase[held[c]] = "live"
    /\ running_list' = purgequeue(running_list, held[c])
    /\ phase' = [phase EXCEPT ![held[c]] = "removed"]
    /\ UNCHANGED <<mlq, slot, cur, prio, held>>

\* free_pcb, outside queue_lock: from here on the PCB must not be reachable.
free_pcb(c) ==
    /\ held[c] # NoProc
    /\ phase[held[c]] = "removed"
    /\ phase' = [phase EXCEPT ![held[c]] = "freed"]
    /\ held' = [held EXCEPT ![c] = NoProc]
    /\ UNCHANGED <<mlq, slot, cur, running_list, prio>>

\* sched_find_proc_by_pid: a system call looks its caller up by PID.
sched_find_proc_by_pid(p) ==
    IF p \in ToSet(running_list) THEN p ELSE NoProc

Next ==
    \/ \E p \in Procs : add_proc(p)
    \/ \E c \in CPUs : \/ get_proc(c)
                       \/ put_proc(c)
                       \/ remove_proc(c)
                       \/ free_pcb(c)

Spec == Init /\ [][Next]_vars

\* A CPU thread that holds nothing keeps calling get_proc, and one that holds
\* a process gives it up or ends it: cpu_routine does both once per time slice.
Fairness ==
    \A c \in CPUs : /\ WF_vars(get_proc(c))
                    /\ WF_vars(put_proc(c) \/ remove_proc(c))
                    /\ WF_vars(free_pcb(c))
FairSpec == Spec /\ Fairness

----------------------------------------------------------------------------
(* Properties                                                               *)

\* No queue grows beyond MAX_QUEUE_SIZE, no slot count becomes negative and the
\* scan position stays a level (enqueue, get_mlq_proc).
TypeOK ==
    /\ mlq \in [Prios -> Seq(Procs)]
    /\ \A q \in Prios : Len(mlq[q]) <= MAX_QUEUE_SIZE
    /\ slot \in [Prios -> 0 .. MAX_PRIO]
    /\ cur \in Prios
    /\ running_list \in Seq(Procs)
    /\ Len(running_list) <= MAX_QUEUE_SIZE
    /\ prio \in [Procs -> Nat]
    /\ held \in [CPUs -> Procs \cup {NoProc}]
    /\ phase \in [Procs -> Phases]

HeldBySomeCPU(p) == \E c \in CPUs : held[c] = p
ReadyAt(p, q) == \E i \in 1 .. Len(mlq[q]) : mlq[q][i] = p
Listed(p) == \E i \in 1 .. Len(running_list) : running_list[i] = p

\* No process is dispatched twice: a PCB is held by at most one CPU, occurs at
\* most once in the ready queues, there only at its own level, and never both
\* (get_mlq_proc, put_mlq_proc, add_mlq_proc).
Exclusive ==
    /\ \A c, d \in CPUs : held[c] = held[d] /\ held[c] # NoProc => c = d
    /\ \A q \in Prios : \A i \in 1 .. Len(mlq[q]) :
          /\ prio[mlq[q][i]] = q
          /\ ~HeldBySomeCPU(mlq[q][i])
          /\ \A j \in 1 .. Len(mlq[q]) : mlq[q][i] = mlq[q][j] => i = j

\* After free_pcb nothing points to the PCB any more: no ready queue, no CPU,
\* and not the running list that system calls search (remove_proc, free_pcb).
NoFreedReference ==
    \A p \in Procs : phase[p] = "freed" =>
        /\ ~HeldBySomeCPU(p)
        /\ ~Listed(p)
        /\ \A q \in Prios : ~ReadyAt(p, q)

\* A loaded process that has not ended is always either ready or on a CPU: the
\* silent refusal of enqueue never loses one.  It needs FitsQueues below.
NoneLost ==
    \A p \in Procs : phase[p] = "live" =>
        HeldBySomeCPU(p) \/ \E q \in Prios : ReadyAt(p, q)

\* A live process can look itself up by PID, which every memory system call
\* depends on (sched_find_proc_by_pid).  It needs FitsQueues below.
FoundByPid ==
    \A p \in Procs : phase[p] = "live" => sched_find_proc_by_pid(p) = p

FitsQueues == IsFiniteSet(Procs) /\ Cardinality(Procs) <= MAX_QUEUE_SIZE

\* When the queues are too small a process can be lost, but only by
\* the overflow of its own level: a live process drops out of the ready
\* queues and the CPUs only in a step that finds its level full.
LostOnlyByOverflow ==
    [][\A p \in Procs :
         /\ phase'[p] = "live"
         /\ phase[p] = "new" \/ HeldBySomeCPU(p) \/ \E q \in Prios : ReadyAt(p, q)
         /\ ~ HeldBySomeCPU(p)'
         /\ ~ (\E q \in Prios : ReadyAt(p, q))'
         => Len(mlq[normalize_prio(prio[p])]) = MAX_QUEUE_SIZE]_vars

\* No starvation: a ready process is dispatched, whatever its priority
\* and whatever the others do (get_mlq_proc with its slots).
EveryReadyRuns ==
    \A p \in Procs : (\E q \in Prios : ReadyAt(p, q)) ~> HeldBySomeCPU(p)

\* README.md: "The scheduler picks the lowest-prio queue with slot > 0 and a
\* non-empty queue".  The code starts its scan at current_mlq_prio instead.
LowestPrioFirst ==
    [][\A c \in CPUs : GetEligible(c) =>
          \A q \in Eligible : prio[held'[c]] <= q]_vars
=============================================================================
