------------------------------ MODULE OsProofs ------------------------------
(***************************************************************************)
(* Proofs about Os, for any number of processes, CPUs and levels, any      *)
(* programs and any time_slot: the threads use the scheduler and the clock *)
(* as those modules allow, so what is proved of the scheduler holds here,  *)
(* and from it what the loops of os.c make of it.                          *)
(***************************************************************************)
EXTENDS Os, TLAPS

P == INSTANCE SchedProofs

----------------------------------------------------------------------------
(* The scheduler in Os is the one that SchedProofs is about.                *)

\* The assumptions of Sched hold.
LEMMA Assumed == P!SchedAssumption
  BY OsAssumption DEF P!SchedAssumption

\* get_proc takes the same process.
LEMMA SameGet == ASSUME NEW c PROVE S!get_proc(c) <=> P!get_proc(c)
  BY DEF S!get_proc, P!get_proc, S!get_mlq_proc, P!get_mlq_proc,
         S!GetNothing, P!GetNothing, S!GetEligible, P!GetEligible,
         S!GetAfterReset, P!GetAfterReset, S!Dispatch, P!Dispatch,
         S!queue_empty, P!queue_empty, S!NonEmpty, P!NonEmpty, S!Eligible, P!Eligible,
         S!FirstScanned, P!FirstScanned, S!Scanned, P!Scanned,
         S!reset_mlq_slot, P!reset_mlq_slot, S!Prios, P!Prios

\* put_proc is the same call.
LEMMA SamePut == ASSUME NEW c PROVE S!put_proc(c) <=> P!put_proc(c)
  BY DEF S!put_proc, P!put_proc, S!put_mlq_proc, P!put_mlq_proc,
         S!normalize_prio, P!normalize_prio, S!enqueue, P!enqueue

\* So is add_proc,
LEMMA SameAdd == ASSUME NEW p PROVE S!add_proc(p) <=> P!add_proc(p)
  BY DEF S!add_proc, P!add_proc, S!add_mlq_proc, P!add_mlq_proc, S!put_mlq_proc,
         P!put_mlq_proc, S!normalize_prio, P!normalize_prio, S!enqueue, P!enqueue

\* so is remove_proc,
LEMMA SameRemove == ASSUME NEW c PROVE S!remove_proc(c) <=> P!remove_proc(c)
  BY Zenon DEF S!remove_proc, P!remove_proc, S!purgequeue, P!purgequeue,
         S!RemoveFirst, P!RemoveFirst, S!SelectInSeq, P!SelectInSeq,
         S!RemoveAt, P!RemoveAt, S!Min, P!Min

\* and so is free_pcb.
LEMMA SameFree == ASSUME NEW c PROVE S!free_pcb(c) <=> P!free_pcb(c)
  BY DEF S!free_pcb, P!free_pcb

\* init_scheduler leaves the same state.
LEMMA SameInit == S!Init <=> P!Init
  BY DEF S!Init, P!Init, S!reset_mlq_slot, P!reset_mlq_slot, S!Prios, P!Prios

\* The types are the same.
LEMMA SameType == S!TypeOK <=> P!TypeOK
  BY DEF S!TypeOK, P!TypeOK, S!Prios, P!Prios, S!Phases, P!Phases

\* The same calls make up a step.
LEMMA SameNext == S!Next <=> P!Next
  BY SameGet, SamePut, SameAdd, SameRemove, SameFree DEF S!Next, P!Next

----------------------------------------------------------------------------
(* The loops of os.c call the scheduler and the clock in an order that      *)
(* both allow.                                                              *)

\* Every step is a call of the scheduler or leaves it alone.
LEMMA StepOfSched == [Next]_vars => [S!Next]_svars
<1> SUFFICES ASSUME [Next]_vars PROVE [S!Next]_svars
  OBVIOUS
<1>1. ASSUME NEW c \in CPUs, CpuStep(c) PROVE [S!Next]_svars
  BY <1>1 DEF CpuStep, FirstGet, Finish, Free, Preempt, GetAgain, Keep, RecheckEmpty,
              Execute, NextSlot, Exit, S!Next
<1>2. ASSUME LdStep PROVE [S!Next]_svars
  BY <1>2 DEF LdStep, LdWait, LdSlot, LdDone, LdExit, LdAdd, S!Next
<1>3. ASSUME TimerStep \/ Ended \/ UNCHANGED vars PROVE [S!Next]_svars
  BY <1>3 DEF TimerStep, Ended, vars
<1> QED
  BY <1>1, <1>2, <1>3 DEF Next

\* And of the clock.
LEMMA StepOfClock == [Next]_vars => [Clock!Next]_cvars
<1> SUFFICES ASSUME [Next]_vars PROVE [Clock!Next]_cvars
  OBVIOUS
<1>1. ASSUME NEW c \in CPUs, CpuStep(c) PROVE [Clock!Next]_cvars
  BY <1>1 DEF CpuStep, FirstGet, Finish, Free, Preempt, GetAgain, Keep, RecheckEmpty,
              Execute, NextSlot, Exit, Clock!Next, Devices
<1>2. ASSUME LdStep PROVE [Clock!Next]_cvars
  BY <1>2 DEF LdStep, LdWait, LdSlot, LdDone, LdExit, LdAdd, Clock!Next, Devices
<1>3. ASSUME TimerStep \/ Ended \/ UNCHANGED vars PROVE [Clock!Next]_cvars
  BY <1>3 DEF TimerStep, Ended, vars, Clock!Next
<1> QED
  BY <1>1, <1>2, <1>3 DEF Next

\* The scheduler variables of the threads are a behaviour of Sched: cpu_routine and
\* ld_routine call add_proc, get_proc, put_proc, remove_proc and free_pcb only where
\* Sched allows it, so that nothing proved of Sched is lost in the composition.
THEOREM OsImplementsSched == Spec => S!Spec
<1>1. Init => S!Init
  BY DEF Init
<1>2. [Next]_vars => [S!Next]_(S!vars)
  BY StepOfSched DEF S!vars, svars
<1> QED
  BY <1>1, <1>2, PTL DEF Spec, S!Spec

\* The clock variables are a behaviour of the lock-step clock, the safety part of what
\* timer.c is shown to implement (next_slot and detach_event in os.c).
THEOREM OsUsesClock == Spec => Clock!Init /\ [][Clock!Next]_cvars
<1>1. Init => Clock!Init
  BY DEF Init
<1> QED
  BY <1>1, StepOfClock, PTL DEF Spec

\* The invariant of the scheduler.
LEMMA SchedHolds == Spec => []P!IInv
<1>1. Init => P!Init
  BY SameInit DEF Init
<1>2. P!Init => P!IInv
  BY P!InitInv, Assumed
<1>3. P!IInv /\ [Next]_vars => P!IInv'
  <2>1. [Next]_vars => [P!Next]_(P!vars)
    BY StepOfSched, SameNext DEF P!vars, svars
  <2>2. P!IInv /\ [P!Next]_(P!vars) => P!IInv'
    BY P!NextInv, Assumed
  <2> QED
    BY <2>1, <2>2
<1> QED
  BY <1>1, <1>2, <1>3, PTL DEF Spec

----------------------------------------------------------------------------
(* The inductive invariant of the threads                                   *)

\* What a CPU holds at each place of cpu_routine, and where the clock can meet it.
CpuInv(c) ==
    /\ cpc[c] \in {"get", "detach", "exit"} => held[c] = NoProc
    /\ cpc[c] = "free" => held[c] # NoProc /\ phase[held[c]] = "removed"
    /\ cpc[c] # "free" /\ held[c] # NoProc => phase[held[c]] = "live"
    /\ at[c] = "wait" => cpc[c] = "top"
    /\ at[c] = "gone" => cpc[c] = "exit"
    /\ cpc[c] \in {"detach", "exit"} => done

\* How far each program is, and who still has a process that was removed.
ProcInv(p) ==
    /\ pc[p] <= code_size[p]
    /\ phase[p] \in {"removed", "freed"} => pc[p] = code_size[p]
    /\ phase[p] = "removed" => \E c \in CPUs : held[c] = p

\* What the loader has done.
LoadInv ==
    /\ done => lpc \in {"detach", "exit"}
    /\ lpc \in {"detach", "exit"} => i > Len(LoadOrder)
    /\ \A k \in 1 .. i - 1 : phase[LoadOrder[k]] # "new"

\* A process that has run in this slot stays with its CPU, which has nothing more to do in it.
Resting(c) == cpc[c] = "slot" \/ (cpc[c] = "top" /\ at[c] = "wait")
RanInv == \A p \in ran : \E c \in CPUs : held[c] = p /\ Resting(c)

ThreadInv ==
    /\ TypeOK
    /\ \A c \in CPUs : CpuInv(c)
    /\ \A p \in Procs : ProcInv(p)
    /\ LoadInv
    /\ RanInv

\* get_proc takes a live process or finds every queue empty.
LEMMA GetEffect ==
    ASSUME P!IInv, NEW c \in CPUs, S!get_proc(c)
    PROVE  /\ held[c] = NoProc /\ phase' = phase
           /\ \E p \in Procs \cup {NoProc} : held' = [held EXCEPT ![c] = p]
           /\ held'[c] # NoProc => phase[held'[c]] = "live"
           /\ held'[c] = NoProc => mlq' = mlq /\ S!NonEmpty = {}
<1>1. /\ held[c] = NoProc /\ phase' = phase
      /\ held \in [CPUs -> Procs \cup {NoProc}] /\ NoProc \notin Procs
  BY OsAssumption DEF S!get_proc, P!IInv, P!TypeOK
<1>2. CASE S!GetNothing(c)
  <2>1. held' = [held EXCEPT ![c] = NoProc] /\ mlq' = mlq /\ S!NonEmpty = {}
    BY <1>1, <1>2 DEF S!GetNothing, S!queue_empty
  <2> QED
    BY <1>1, <2>1
<1>3. ASSUME NEW q \in S!NonEmpty, held' = [held EXCEPT ![c] = Head(mlq[q])]
      PROVE  /\ Head(mlq[q]) \in Procs /\ phase[Head(mlq[q])] = "live"
             /\ held'[c] = Head(mlq[q])
  <2>1. q \in P!Prios /\ mlq[q] # <<>> /\ mlq[q] \in Seq(Procs)
    BY DEF S!NonEmpty, S!Prios, P!Prios, P!IInv, P!TypeOK
  <2>2. Head(mlq[q]) \in Procs /\ P!Occurs(mlq[q], Head(mlq[q]))
    BY <2>1, P!TailOccurs, Assumed
  <2> QED
    BY <1>1, <1>3, <2>1, <2>2 DEF P!IInv, P!QueueInv
<1>4. CASE S!GetEligible(c)
  <2>1. PICK q \in S!NonEmpty : held' = [held EXCEPT ![c] = Head(mlq[q])]
    BY <1>4 DEF S!GetEligible, S!Eligible, S!Dispatch
  <2> QED
    BY <1>1, <1>3, <2>1
<1>5. CASE S!GetAfterReset(c)
  <2>1. PICK q \in S!NonEmpty : held' = [held EXCEPT ![c] = Head(mlq[q])]
    BY <1>5 DEF S!GetAfterReset, S!Dispatch
  <2> QED
    BY <1>1, <1>3, <2>1
<1> QED
  BY <1>2, <1>4, <1>5 DEF S!get_proc, S!get_mlq_proc

\* The invariant holds when main has created the threads.
LEMMA ThreadInit == Init => ThreadInv
<1> SUFFICES ASSUME Init PROVE ThreadInv
  OBVIOUS
<1>1. S!TypeOK
  <2>1. P!IInv
    BY P!InitInv, Assumed, SameInit DEF Init
  <2> QED
    BY <2>1, SameType DEF P!IInv
<1>2. /\ phase = [p \in Procs |-> "new"] /\ held = [c \in CPUs |-> NoProc]
      /\ time = 0 /\ at = [d \in Devices |-> "run"] /\ stopped = FALSE
  BY DEF Init, S!Init, Clock!Init
<1>3. TypeOK
  <2>1. \A c \in CPUs : IF time_slot > 0 THEN time_left[c] \in 0 .. time_slot ELSE time_left[c] <= 0
    BY OsAssumption DEF Init
  <2>2. i \in 1 .. Len(LoadOrder) + 1 /\ time \in 0 .. MaxTime
    BY <1>2, OsAssumption DEF Init
  <2>3. /\ cpc \in [CPUs -> {"top", "free", "get", "recheck", "slot", "detach", "exit"}]
        /\ time_left \in [CPUs -> Int] /\ pc \in [Procs -> Nat]
        /\ at \in [Devices -> {"run", "wait", "gone"}]
    BY <1>2 DEF Init
  <2> QED
    BY <1>1, <1>2, <2>1, <2>2, <2>3 DEF Init, TypeOK
<1>4. \A c \in CPUs : CpuInv(c)
  BY <1>2 DEF Init, CpuInv, Devices
<1>5. \A p \in Procs : ProcInv(p)
  BY <1>2, OsAssumption DEF Init, ProcInv
<1>6. LoadInv /\ RanInv
  BY DEF Init, LoadInv, RanInv
<1> QED
  BY <1>1, <1>3, <1>4, <1>5, <1>6 DEF ThreadInv

\* A step of one CPU, which leaves the clock and the loader where they are.
Moves(c) ==
    /\ \E l \in {"top", "free", "get", "recheck", "slot", "detach", "exit"} :
          cpc' = [cpc EXCEPT ![c] = l]
    /\ UNCHANGED <<time, stopped, lpc, i, done, time_slot>>

\* The types of a step of a CPU.
LEMMA CpuType ==
    ASSUME TypeOK, P!IInv', NEW c \in CPUs, CpuStep(c)
    PROVE  TypeOK' /\ Moves(c)
<1>1. S!TypeOK'
  BY SameType DEF P!IInv, S!TypeOK, P!TypeOK, S!Prios, P!Prios, S!Phases, P!Phases
<1>2. Moves(c)
  BY DEF CpuStep, FirstGet, Finish, Free, Preempt, GetAgain, Keep, RecheckEmpty,
         Execute, NextSlot, Exit, Goto, Moves, cvars, lvars, Clock!Arrive, Clock!Leave
<1>3. at' \in [Devices -> {"run", "wait", "gone"}]
  BY DEF TypeOK, CpuStep, FirstGet, Finish, Free, Preempt, GetAgain, Keep, RecheckEmpty,
         Execute, NextSlot, Exit, cvars, Clock!Arrive, Clock!Leave
<1>4. pc' \in [Procs -> Nat] /\ ran' \in SUBSET Procs
  <2>1. CASE Execute(c)
    <3>1. held[c] \in Procs
      BY <2>1 DEF Execute, TypeOK, S!TypeOK
    <3> QED
      BY <2>1, <3>1 DEF Execute, run, TypeOK
  <2>2. CASE ~Execute(c)
    BY <2>2 DEF TypeOK, CpuStep, FirstGet, Finish, Free, Preempt, GetAgain, Keep, RecheckEmpty,
           NextSlot, Exit
  <2> QED
    BY <2>1, <2>2
<1>5. /\ time_left' \in [CPUs -> Int]
      /\ \A d \in CPUs : IF time_slot > 0 THEN time_left'[d] \in 0 .. time_slot
                         ELSE time_left'[d] <= 0
  <2>0. /\ time_slot \in Int /\ time_left \in [CPUs -> Int]
        /\ \A d \in CPUs : IF time_slot > 0 THEN time_left[d] \in 0 .. time_slot
                           ELSE time_left[d] <= 0
    BY OsAssumption DEF TypeOK
  <2>1. CASE Execute(c)
    <3>1. time_left' = [time_left EXCEPT ![c] = (IF time_left[c] = 0 THEN time_slot ELSE time_left[c]) - 1]
      BY <2>1 DEF Execute
    <3> QED
      BY <2>0, <3>1
  <2>2. CASE Free(c)
    <3>1. time_left' = [time_left EXCEPT ![c] = 0]
      BY <2>2 DEF Free
    <3> QED
      BY <2>0, <3>1
  <2>3. CASE ~Execute(c) /\ ~Free(c)
    <3>1. time_left' = time_left
      BY <2>3 DEF CpuStep, FirstGet, Finish, Preempt, GetAgain, Keep, RecheckEmpty, NextSlot, Exit
    <3> QED
      BY <2>0, <3>1
  <2> QED
    BY <2>1, <2>2, <2>3
<1> QED
  BY <1>1, <1>2, <1>3, <1>4, <1>5 DEF TypeOK, Moves

\* The types of a step of the loader or of the timer.
LEMMA OtherType ==
    ASSUME TypeOK, P!IInv', LdStep \/ TimerStep \/ UNCHANGED vars
    PROVE  TypeOK' /\ UNCHANGED <<cpc, time_left, pc, time_slot, held>>
<1>1. S!TypeOK'
  BY SameType DEF P!IInv, S!TypeOK, P!TypeOK, S!Prios, P!Prios, S!Phases, P!Phases
<1>2. UNCHANGED <<cpc, time_left, pc, time_slot, held>>
  BY DEF LdStep, LdWait, LdAdd, LdSlot, LdDone, LdExit, TimerStep, vars, svars, lvars, lunchanged, S!add_proc
<1>3. at' \in [Devices -> {"run", "wait", "gone"}]
  BY DEF TypeOK, LdStep, LdWait, LdAdd, LdSlot, LdDone, LdExit, TimerStep, vars, cvars,
         Clock!Arrive, Clock!Leave, Clock!Tick, Clock!Stop
<1>4. time' \in 0 .. MaxTime
  <2>1. time' = time \/ time' = Clock!Later(time)
    BY DEF LdStep, LdWait, LdAdd, LdSlot, LdDone, LdExit, TimerStep, vars, cvars,
           Clock!Arrive, Clock!Leave, Clock!Tick, Clock!Stop
  <2>2. MaxTime \in Nat /\ time \in 0 .. MaxTime
    BY OsAssumption DEF TypeOK
  <2> QED
    BY <2>1, <2>2 DEF Clock!Later
<1>5. stopped' \in BOOLEAN /\ done' \in BOOLEAN
  BY DEF TypeOK, LdStep, LdWait, LdAdd, LdSlot, LdDone, LdExit, TimerStep, vars, cvars, lvars,
         Clock!Arrive, Clock!Leave, Clock!Tick, Clock!Stop
<1>6. ran' \in SUBSET Procs /\ lpc' \in {"start", "slot", "detach", "exit"}
  BY DEF TypeOK, LdStep, LdWait, LdAdd, LdSlot, LdDone, LdExit, TimerStep, vars, lvars, lunchanged
<1>7. i' \in 1 .. Len(LoadOrder) + 1
  <2>1. Len(LoadOrder) \in Nat /\ i \in 1 .. Len(LoadOrder) + 1
    BY OsAssumption DEF TypeOK
  <2>2. i' = i \/ (i <= Len(LoadOrder) /\ i' = i + 1)
    BY DEF LdStep, LdWait, LdAdd, LdSlot, LdDone, LdExit, TimerStep, vars, lvars
  <2> QED
    BY <2>1, <2>2
<1> QED
  BY <1>1, <1>2, <1>3, <1>4, <1>5, <1>6, <1>7 DEF TypeOK

\* A CPU leaves the others alone, with what they hold.
LEMMA OthersStay ==
    ASSUME P!IInv, TypeOK, NEW c \in CPUs, CpuStep(c), NEW d \in CPUs, d # c
    PROVE  /\ cpc'[d] = cpc[d] /\ held'[d] = held[d] /\ at'[d] = at[d]
           /\ held[d] # NoProc => phase'[held[d]] = phase[held[d]] /\ held[d] # held[c]
<1>0. /\ cpc \in [CPUs -> {"top", "free", "get", "recheck", "slot", "detach", "exit"}]
      /\ held \in [CPUs -> Procs \cup {NoProc}] /\ phase \in [Procs -> P!Phases]
      /\ at \in [Devices -> {"run", "wait", "gone"}] /\ d \in Devices /\ c \in Devices
  BY DEF TypeOK, P!IInv, P!TypeOK, Devices
<1>1. cpc'[d] = cpc[d]
  BY <1>0 DEF CpuStep, FirstGet, Finish, Free, Preempt, GetAgain, Keep, RecheckEmpty,
              Execute, NextSlot, Exit, Goto
<1>2. held'[d] = held[d]
  <2>1. CASE S!get_proc(c)
    BY <1>0, <2>1, GetEffect
  <2>2. CASE ~S!get_proc(c)
    BY <1>0, <2>2 DEF CpuStep, FirstGet, Finish, Free, Preempt, GetAgain, Keep, RecheckEmpty,
              Execute, NextSlot, Exit, svars, S!put_proc, S!remove_proc, S!free_pcb
  <2> QED
    BY <2>1, <2>2
<1>3. at'[d] = at[d]
  BY <1>0 DEF CpuStep, FirstGet, Finish, Free, Preempt, GetAgain, Keep, RecheckEmpty,
              Execute, NextSlot, Exit, cvars, Clock!Arrive, Clock!Leave
<1>4. held[d] # NoProc => held[d] # held[c]
  BY DEF P!IInv, P!HeldInv
<1>5. phase' = phase \/ \E x : phase' = [phase EXCEPT ![held[c]] = x]
  BY DEF CpuStep, FirstGet, Finish, Free, Preempt, GetAgain, Keep, RecheckEmpty,
         Execute, NextSlot, Exit, svars, S!get_proc, S!put_proc, S!remove_proc, S!free_pcb
<1>6. held[d] # NoProc => phase'[held[d]] = phase[held[d]]
  BY <1>0, <1>4, <1>5
<1> QED
  BY <1>1, <1>2, <1>3, <1>4, <1>6

\* What a CPU holds after a step of its own.
LEMMA OwnCpuInv ==
    ASSUME P!IInv, TypeOK, NEW c \in CPUs, CpuInv(c), CpuStep(c)
    PROVE  CpuInv(c)'
<1>0. /\ cpc \in [CPUs -> {"top", "free", "get", "recheck", "slot", "detach", "exit"}]
      /\ held \in [CPUs -> Procs \cup {NoProc}] /\ phase \in [Procs -> P!Phases]
      /\ at \in [Devices -> {"run", "wait", "gone"}] /\ c \in Devices
      /\ NoProc \notin Procs
  BY OsAssumption DEF TypeOK, P!IInv, P!TypeOK, Devices
<1>1. CASE FirstGet(c)
  <2>1. S!get_proc(c) /\ at' = at /\ at[c] = "run" /\ done' = done
        /\ cpc'[c] = IF held'[c] = NoProc THEN "slot" ELSE "recheck"
    BY <1>0, <1>1 DEF FirstGet, Goto, AtLabel, cvars, lvars
  <2> QED
    BY <2>1, GetEffect DEF CpuInv
<1>2. CASE GetAgain(c)
  <2>1. S!get_proc(c) /\ at' = at /\ at[c] = "run" /\ done' = done /\ cpc'[c] = "recheck"
    BY <1>0, <1>2 DEF GetAgain, Goto, AtLabel, cvars, lvars
  <2> QED
    BY <2>1, GetEffect DEF CpuInv
<1>3. CASE Finish(c)
  <2>1. /\ held' = held /\ held[c] # NoProc /\ phase' = [phase EXCEPT ![held[c]] = "removed"]
        /\ at' = at /\ at[c] = "run" /\ done' = done /\ cpc'[c] = "free"
    BY <1>0, <1>3 DEF Finish, S!remove_proc, Goto, AtLabel, cvars, lvars
  <2> QED
    BY <1>0, <2>1 DEF CpuInv
<1>4. CASE Free(c)
  <2>1. /\ held'[c] = NoProc /\ at' = at /\ at[c] = "run" /\ done' = done /\ cpc'[c] = "get"
    BY <1>0, <1>4 DEF Free, S!free_pcb, Goto, AtLabel, cvars, lvars
  <2> QED
    BY <2>1 DEF CpuInv
<1>5. CASE Preempt(c)
  <2>1. /\ held'[c] = NoProc /\ at' = at /\ at[c] = "run" /\ done' = done /\ cpc'[c] = "get"
    BY <1>0, <1>5 DEF Preempt, S!put_proc, Goto, AtLabel, cvars, lvars
  <2> QED
    BY <2>1 DEF CpuInv
<1>6. CASE Keep(c) \/ RecheckEmpty(c) \/ Execute(c)
  <2>1. /\ held' = held /\ phase' = phase /\ at' = at /\ at[c] = "run" /\ done' = done
        /\ cpc[c] \in {"top", "recheck"}
        /\ cpc'[c] \in {"recheck", "slot"} \/ (cpc'[c] = "detach" /\ done /\ held[c] = NoProc)
    BY <1>0, <1>6 DEF Keep, RecheckEmpty, Execute, Goto, AtLabel, svars, cvars, lvars
  <2> QED
    BY <2>1 DEF CpuInv
<1>7. CASE NextSlot(c) \/ Exit(c)
  <2>1. /\ held' = held /\ phase' = phase /\ done' = done
        /\ \/ cpc[c] = "slot" /\ cpc'[c] = "top" /\ at'[c] = "wait"
           \/ cpc[c] = "detach" /\ cpc'[c] = "exit" /\ at'[c] = "gone"
    BY <1>0, <1>7 DEF NextSlot, Exit, Goto, AtLabel, svars, lvars, Clock!Arrive, Clock!Leave
  <2> QED
    BY <2>1 DEF CpuInv
<1> QED
  BY <1>1, <1>2, <1>3, <1>4, <1>5, <1>6, <1>7 DEF CpuStep

\* The CPUs in every step.
LEMMA CpuNext ==
    ASSUME P!IInv, P!IInv', ThreadInv, [Next]_vars
    PROVE  \A d \in CPUs : CpuInv(d)'
<1> SUFFICES ASSUME NEW d \in CPUs PROVE CpuInv(d)'
  OBVIOUS
<1>0. TypeOK /\ CpuInv(d) /\ LoadInv
  BY DEF ThreadInv
<1>1. ASSUME NEW c \in CPUs, CpuStep(c) PROVE CpuInv(d)'
  <2>1. CASE d = c
    BY <1>0, <1>1, <2>1, OwnCpuInv
  <2>2. CASE d # c
    <3>1. done' = done
      BY <1>0, <1>1, CpuType DEF Moves
    <3> QED
      BY <1>0, <1>1, <2>2, <3>1, OthersStay DEF CpuInv
  <2> QED
    BY <2>1, <2>2
<1>2. CASE LdStep
  <2>0. /\ cpc' = cpc /\ held' = held /\ d \in Devices /\ d # Loader
        /\ at \in [Devices -> {"run", "wait", "gone"}]
        /\ held[d] \in Procs \cup {NoProc} /\ phase \in [Procs -> P!Phases]
    BY <1>0, <1>2, OtherType, OsAssumption DEF Devices, TypeOK, P!IInv, P!TypeOK
  <2>1. at'[d] = at[d]
    BY <1>2, <2>0 DEF LdStep, LdWait, LdAdd, LdSlot, LdDone, LdExit, cvars, Clock!Arrive, Clock!Leave
  <2>2. done => done'
    BY <1>2 DEF LdStep, LdWait, LdAdd, LdSlot, LdDone, LdExit, lvars
  <2>3. \A p \in Procs : phase[p] # "new" => phase'[p] = phase[p]
    BY <1>2, <2>0 DEF LdStep, LdWait, LdAdd, LdSlot, LdDone, LdExit, svars, S!add_proc
  <2>4. held[d] # NoProc => phase'[held[d]] = phase[held[d]]
    BY <1>0, <2>0, <2>3 DEF CpuInv
  <2> QED
    BY <1>0, <2>0, <2>1, <2>2, <2>4 DEF CpuInv
<1>3. CASE TimerStep
  <2>1. cpc' = cpc /\ held' = held /\ phase' = phase /\ done' = done /\ d \in Devices
    BY <1>3 DEF TimerStep, svars, lvars, Devices
  <2>2. at'[d] = at[d] \/ at'[d] = "run"
    BY <1>3, <2>1 DEF TimerStep, Clock!Tick, Clock!Stop
  <2> QED
    BY <1>0, <2>1, <2>2 DEF CpuInv
<1>4. CASE UNCHANGED vars
  BY <1>0, <1>4 DEF CpuInv, vars, svars, cvars, lvars
<1> QED
  BY <1>1, <1>2, <1>3, <1>4 DEF Next, Ended

\* The programs in every step.
LEMMA ProcNext ==
    ASSUME P!IInv, P!IInv', ThreadInv, [Next]_vars
    PROVE  \A p \in Procs : ProcInv(p)'
<1> SUFFICES ASSUME NEW p \in Procs PROVE ProcInv(p)'
  OBVIOUS
<1>0. /\ TypeOK /\ ProcInv(p) /\ \A c \in CPUs : CpuInv(c)
      /\ held \in [CPUs -> Procs \cup {NoProc}] /\ phase \in [Procs -> P!Phases]
      /\ pc \in [Procs -> Nat] /\ code_size \in [Procs -> Nat] /\ NoProc \notin Procs
  BY OsAssumption DEF ThreadInv, TypeOK, P!IInv, P!TypeOK
<1>1. ASSUME NEW c \in CPUs, CpuStep(c) PROVE ProcInv(p)'
  <2>0. \A d \in CPUs : d # c => held'[d] = held[d]
    BY <1>0, <1>1, OthersStay
  <2>1. CASE FirstGet(c) \/ GetAgain(c)
    <3>1. S!get_proc(c) /\ pc' = pc
      BY <2>1 DEF FirstGet, GetAgain
    <3>2. held[c] = NoProc /\ phase' = phase
      BY <3>1, GetEffect
    <3> QED
      BY <1>0, <2>0, <3>1, <3>2 DEF ProcInv
  <2>2. CASE Finish(c)
    <3>1. /\ held' = held /\ held[c] \in Procs /\ phase' = [phase EXCEPT ![held[c]] = "removed"]
          /\ pc' = pc /\ pc[held[c]] = code_size[held[c]]
      BY <1>0, <2>2 DEF Finish, S!remove_proc
    <3>2. CASE p = held[c]
      BY <1>0, <3>1, <3>2 DEF ProcInv
    <3>3. CASE p # held[c]
      BY <1>0, <3>1, <3>3 DEF ProcInv
    <3> QED
      BY <3>2, <3>3
  <2>3. CASE Free(c)
    <3>1. /\ held[c] \in Procs /\ phase[held[c]] = "removed" /\ pc' = pc
          /\ phase' = [phase EXCEPT ![held[c]] = "freed"]
      BY <1>0, <2>3 DEF Free, S!free_pcb
    <3>2. CASE p = held[c]
      BY <1>0, <3>1, <3>2 DEF ProcInv
    <3>3. CASE p # held[c]
      BY <1>0, <2>0, <3>1, <3>3 DEF ProcInv
    <3> QED
      BY <3>2, <3>3
  <2>4. CASE Preempt(c)
    <3>1. phase[held[c]] = "live" /\ pc' = pc /\ phase' = phase
      BY <2>4 DEF Preempt, S!put_proc
    <3> QED
      BY <1>0, <2>0, <3>1 DEF ProcInv
  <2>5. CASE Execute(c)
    <3>1. /\ held' = held /\ phase' = phase /\ held[c] \in Procs
          /\ pc' = [pc EXCEPT ![held[c]] = IF pc[held[c]] >= code_size[held[c]] THEN pc[held[c]]
                                           ELSE pc[held[c]] + 1]
      BY <1>0, <2>5 DEF Execute, run, svars
    <3>2. /\ pc'[p] <= code_size[p]
          /\ pc[p] = code_size[p] => pc'[p] = pc[p]
      BY <1>0, <3>1 DEF ProcInv
    <3> QED
      BY <1>0, <3>1, <3>2 DEF ProcInv
  <2>6. CASE Keep(c) \/ RecheckEmpty(c) \/ NextSlot(c) \/ Exit(c)
    <3>1. held' = held /\ phase' = phase /\ pc' = pc
      BY <2>6 DEF Keep, RecheckEmpty, NextSlot, Exit, svars
    <3> QED
      BY <1>0, <3>1 DEF ProcInv
  <2> QED
    BY <1>1, <2>1, <2>2, <2>3, <2>4, <2>5, <2>6 DEF CpuStep
<1>2. CASE LdStep
  <2>1. held' = held /\ pc' = pc
    BY <1>0, <1>2, OtherType
  <2>2. phase'[p] = phase[p] \/ phase'[p] = "live"
    BY <1>0, <1>2 DEF LdStep, LdWait, LdAdd, LdSlot, LdDone, LdExit, svars, S!add_proc
  <2> QED
    BY <1>0, <2>1, <2>2 DEF ProcInv
<1>3. CASE TimerStep \/ UNCHANGED vars
  <2>1. held' = held /\ pc' = pc /\ phase' = phase
    BY <1>3 DEF TimerStep, vars, svars
  <2> QED
    BY <1>0, <2>1 DEF ProcInv
<1> QED
  BY <1>1, <1>2, <1>3 DEF Next, Ended

\* A process that has been loaded stays so.
LEMMA OldStay ==
    ASSUME TypeOK, P!IInv, [Next]_vars, NEW p \in Procs, phase[p] # "new"
    PROVE  phase'[p] # "new"
<1>0. phase \in [Procs -> P!Phases]
  BY DEF P!IInv, P!TypeOK
<1>1. [S!Next]_svars
  BY StepOfSched
<1> QED
  BY <1>0, <1>1 DEF S!Next, svars, S!get_proc, S!put_proc, S!add_proc, S!remove_proc, S!free_pcb

\* The loader in every step.
LEMMA LoadNext ==
    ASSUME P!IInv, P!IInv', ThreadInv, [Next]_vars
    PROVE  LoadInv'
<1>a. TypeOK /\ LoadInv
  BY DEF ThreadInv
<1>b. i \in 1 .. Len(LoadOrder) + 1
  BY <1>a DEF TypeOK
<1>c. phase \in [Procs -> P!Phases]
  BY DEF P!IInv, P!TypeOK
<1>d. LoadOrder \in Seq(Procs) /\ Len(LoadOrder) \in Nat
  BY OsAssumption
<1>0. /\ TypeOK /\ LoadInv /\ Len(LoadOrder) \in Nat /\ i \in 1 .. Len(LoadOrder) + 1
      /\ LoadOrder \in Seq(Procs) /\ phase \in [Procs -> P!Phases]
  BY <1>a, <1>b, <1>c, <1>d
<1>1. \A k \in 1 .. i - 1 : phase'[LoadOrder[k]] # "new"
  <2> SUFFICES ASSUME NEW k \in 1 .. i - 1 PROVE phase'[LoadOrder[k]] # "new"
    OBVIOUS
  <2>1. LoadOrder[k] \in Procs /\ phase[LoadOrder[k]] # "new"
    BY <1>0 DEF LoadInv
  <2> QED
    BY <1>0, <2>1, OldStay
<1>2. CASE UNCHANGED lvars
  BY <1>0, <1>1, <1>2 DEF LoadInv, lvars
<1>3. ASSUME NEW p \in Procs, LdAdd(p) PROVE LoadInv'
  <2>1. /\ lpc = "start" /\ lpc' = "slot" /\ i' = i + 1 /\ done' = done /\ p = LoadOrder[i]
        /\ phase' = [phase EXCEPT ![p] = "live"]
    BY <1>3 DEF LdAdd, S!add_proc
  <2>2. \A k \in 1 .. i' - 1 : phase'[LoadOrder[k]] # "new"
    BY <1>0, <1>1, <2>1
  <2> QED
    BY <1>0, <2>1, <2>2 DEF LoadInv
<1>4. CASE LdSlot \/ LdDone \/ LdExit
  <2>1. /\ i' = i
        /\ \/ lpc = "slot" /\ lpc' = "start" /\ done' = done
           \/ lpc' = "detach" /\ i > Len(LoadOrder)
           \/ lpc = "detach" /\ lpc' = "exit"
    BY <1>4 DEF LdSlot, LdDone, LdExit
  <2> QED
    BY <1>0, <1>1, <2>1 DEF LoadInv
<1>5. CASE LdWait \/ TimerStep \/ UNCHANGED vars \/ \E c \in CPUs : CpuStep(c)
  <2>1. UNCHANGED lvars
    BY <1>5 DEF LdWait, TimerStep, vars, CpuStep, FirstGet, Finish, Free, Preempt, GetAgain, Keep,
                RecheckEmpty, Execute, NextSlot, Exit
  <2> QED
    BY <1>2, <2>1
<1> QED
  BY <1>3, <1>4, <1>5 DEF Next, LdStep, Ended

\* The processes that have run, in every step.
LEMMA RanNext ==
    ASSUME P!IInv, P!IInv', ThreadInv, [Next]_vars
    PROVE  RanInv'
<1>0. /\ TypeOK /\ RanInv /\ ran \subseteq Procs /\ NoProc \notin Procs
      /\ cpc \in [CPUs -> {"top", "free", "get", "recheck", "slot", "detach", "exit"}]
      /\ at \in [Devices -> {"run", "wait", "gone"}] /\ CPUs \subseteq Devices /\ Loader \notin CPUs
  BY OsAssumption DEF ThreadInv, TypeOK, Devices
<1>1. ASSUME NEW c \in CPUs, CpuStep(c) PROVE RanInv'
  <2>1. ASSUME NEW p \in ran PROVE \E d \in CPUs : held'[d] = p /\ Resting(d)'
    <3>1. PICK d \in CPUs : held[d] = p /\ Resting(d)
      BY <1>0 DEF RanInv
    <3>2. CASE d # c
      BY <1>0, <1>1, <3>1, <3>2, OthersStay DEF Resting
    <3>3. CASE d = c
      <4>1. NextSlot(c)
        BY <1>1, <3>1, <3>3 DEF Resting, CpuStep, FirstGet, Finish, Free, Preempt, GetAgain, Keep,
              RecheckEmpty, Execute, NextSlot, Exit, AtLabel
      <4>2. held' = held /\ cpc'[c] = "top" /\ at'[c] = "wait"
        BY <1>0, <4>1 DEF NextSlot, Goto, svars, Clock!Arrive
      <4> QED
        BY <3>1, <3>3, <4>2 DEF Resting
    <3> QED
      BY <3>2, <3>3
  <2>2. CASE Execute(c)
    <3>1. ran' = ran \cup {held[c]} /\ held' = held /\ cpc'[c] = "slot"
      BY <1>0, <2>2 DEF Execute, Goto, svars
    <3> QED
      BY <2>1, <3>1 DEF RanInv, Resting
  <2>3. CASE ~Execute(c)
    <3>1. ran' = ran
      BY <1>1, <2>3 DEF CpuStep, FirstGet, Finish, Free, Preempt, GetAgain, Keep, RecheckEmpty,
                 NextSlot, Exit
    <3> QED
      BY <2>1, <3>1 DEF RanInv
  <2> QED
    BY <2>2, <2>3
<1>2. CASE LdStep
  <2>1. held' = held /\ cpc' = cpc /\ ran' = ran
    BY <1>0, <1>2, OtherType DEF LdStep, LdWait, LdAdd, LdSlot, LdDone, LdExit, lunchanged
  <2>2. \A c \in CPUs : at'[c] = at[c]
    BY <1>0, <1>2 DEF LdStep, LdWait, LdAdd, LdSlot, LdDone, LdExit, cvars, Clock!Arrive, Clock!Leave
  <2> QED
    BY <1>0, <2>1, <2>2 DEF RanInv, Resting
<1>3. CASE TimerStep
  <2>1. held' = held /\ cpc' = cpc /\ (ran' = {} \/ (ran' = ran /\ at' = at))
    BY <1>3 DEF TimerStep, svars, Clock!Stop
  <2> QED
    BY <1>0, <2>1 DEF RanInv, Resting
<1>4. CASE UNCHANGED vars
  BY <1>0, <1>4 DEF vars, svars, cvars, RanInv, Resting
<1> QED
  BY <1>1, <1>2, <1>3, <1>4 DEF Next, Ended

\* The invariant of the threads holds in every state (cpu_routine, ld_routine).
LEMMA ThreadHolds == Spec => []ThreadInv
<1>1. P!IInv /\ P!IInv' /\ ThreadInv /\ [Next]_vars => ThreadInv'
  <2> SUFFICES ASSUME P!IInv, P!IInv', ThreadInv, [Next]_vars PROVE ThreadInv'
    OBVIOUS
  <2>1. TypeOK'
    BY CpuType, OtherType DEF ThreadInv, Next, Ended
  <2> QED
    BY <2>1, CpuNext, ProcNext, LoadNext, RanNext DEF ThreadInv
<1> QED
  BY <1>1, ThreadInit, SchedHolds, PTL DEF Spec

----------------------------------------------------------------------------
(* What follows                                                             *)

\* Every variable of the threads keeps its type: a slice never counts below zero when
\* time_slot is positive, and never above zero otherwise (cpu_routine).
THEOREM OsType == Spec => []TypeOK
<1>1. ThreadInv => TypeOK
  BY DEF ThreadInv
<1> QED
  BY <1>1, ThreadHolds, PTL

\* No process runs two instructions in one time slot, however many CPUs there are and
\* whatever time_slot is (cpu_routine, next_slot).
THEOREM RunsOncePerSlot == Spec => OncePerSlot
<1>1. P!IInv /\ ThreadInv /\ [Next]_vars =>
        [\A c \in CPUs : Execute(c) => held[c] \notin ran]_vars
  <2> SUFFICES ASSUME P!IInv, ThreadInv, NEW c \in CPUs, Execute(c), held[c] \in ran
               PROVE  FALSE
    OBVIOUS
  <2>1. PICK d \in CPUs : held[d] = held[c] /\ Resting(d)
    BY DEF ThreadInv, RanInv
  <2>2. d = c
    BY <2>1 DEF P!IInv, P!HeldInv, Execute
  <2> QED
    BY <2>1, <2>2 DEF Resting, Execute, AtLabel
<1> QED
  BY <1>1, SchedHolds, ThreadHolds, PTL DEF Spec, OncePerSlot

\* If the queues have room for all processes, the scheduler loses none of them in Os.
LEMMA NothingLost ==
    ASSUME S!FitsQueues
    PROVE  Spec => [](P!NoneLost /\ P!FoundByPid)
<1>0. P!FitsQueues
  BY Zenon DEF S!FitsQueues, P!FitsQueues, S!IsFiniteSet, P!IsFiniteSet, S!Cardinality, P!Cardinality
<1>1. Init => P!Init /\ P!Kept
  BY SameInit, P!InitKept, Assumed DEF Init
<1>2. P!IInv /\ P!Kept /\ [Next]_vars => P!Kept'
  <2>1. [Next]_vars => [P!Next]_(P!vars)
    BY StepOfSched, SameNext DEF P!vars, svars
  <2>2. P!IInv /\ P!Kept /\ [P!Next]_(P!vars) => P!Kept'
    BY <1>0, P!NextKept, Assumed
  <2> QED
    BY <2>1, <2>2
<1>3. P!IInv /\ P!Kept => P!NoneLost /\ P!FoundByPid
  <2> SUFFICES ASSUME P!IInv, P!Kept, NEW p \in Procs, phase[p] = "live"
               PROVE  P!sched_find_proc_by_pid(p) = p
    BY DEF P!Kept, P!FoundByPid
  <2>1. running_list \in Seq(Procs) /\ P!Occurs(running_list, p)
    BY DEF P!IInv, P!TypeOK, P!Kept
  <2>2. p \in P!ToSet(running_list)
    BY <2>1 DEF P!ToSet, P!Occurs
  <2> QED
    BY <2>2 DEF P!sched_find_proc_by_pid
<1> QED
  BY <1>1, <1>2, <1>3, SchedHolds, PTL DEF Spec

\* If the queues have room for all processes, each of them runs to its end, no further, and
\* whatever executes can look itself up for its system calls (cpu_routine, run,
\* sched_find_proc_by_pid).
THEOREM ProgramsRunToTheEnd ==
    ASSUME S!FitsQueues
    PROVE  Spec => []RunsToTheEnd
<1>1. ThreadInv /\ P!NoneLost /\ P!FoundByPid => RunsToTheEnd
  <2> SUFFICES ASSUME ThreadInv, P!FoundByPid PROVE RunsToTheEnd
    OBVIOUS
  <2>1. ASSUME NEW c \in CPUs, cpc[c] = "recheck", held[c] # NoProc
        PROVE  /\ phase[held[c]] = "live"
               /\ S!sched_find_proc_by_pid(held[c]) = held[c]
    <3>1. phase[held[c]] = "live"
      BY <2>1 DEF ThreadInv, CpuInv
    <3>2. held[c] \in Procs
      BY <2>1 DEF ThreadInv, TypeOK, S!TypeOK
    <3>3. P!sched_find_proc_by_pid(held[c]) = held[c]
      BY <3>1, <3>2 DEF P!FoundByPid
    <3> QED
      BY <3>1, <3>3 DEF S!sched_find_proc_by_pid, P!sched_find_proc_by_pid, S!ToSet, P!ToSet
  <2> QED
    BY <2>1 DEF ThreadInv, ProcInv, RunsToTheEnd
<1> QED
  BY <1>1, ThreadHolds, NothingLost, PTL

----------------------------------------------------------------------------
(* No process is left behind                                                *)

\* The loader has added its last process in an earlier slot.
Settled ==
    /\ i > Len(LoadOrder)
    /\ lpc \in {"detach", "exit"} \/ (lpc = "start" /\ at[Loader] = "run")

\* A CPU that has found the queues empty and will stop, if it reads done now.
Leaving(c) == cpc[c] \in {"detach", "exit"} \/ (cpc[c] = "recheck" /\ held[c] = NoProc)

\* From then on a process that is ready has a CPU that looks at the queues again.
WorkInv == Settled /\ S!NonEmpty # {} => \E c \in CPUs : ~Leaving(c)

\* A step of a CPU keeps it: whoever puts a process back looks again, and whoever finds
\* nothing has seen the queues empty.
LEMMA WorkCpu ==
    ASSUME P!IInv, ThreadInv, WorkInv, NEW c \in CPUs, CpuStep(c)
    PROVE  WorkInv'
<1>0. /\ TypeOK /\ c \in Devices /\ Loader \in Devices /\ c # Loader
      /\ cpc \in [CPUs -> {"top", "free", "get", "recheck", "slot", "detach", "exit"}]
      /\ at \in [Devices -> {"run", "wait", "gone"}]
  BY OsAssumption DEF ThreadInv, TypeOK, Devices
<1>1. Settled' => Settled
  <2>1. i' = i /\ lpc' = lpc
    BY DEF CpuStep, FirstGet, Finish, Free, Preempt, GetAgain, Keep, RecheckEmpty,
           Execute, NextSlot, Exit, lvars
  <2>2. at'[Loader] = at[Loader]
    BY <1>0 DEF CpuStep, FirstGet, Finish, Free, Preempt, GetAgain, Keep, RecheckEmpty,
                Execute, NextSlot, Exit, cvars, Clock!Arrive, Clock!Leave
  <2> QED
    BY <2>1, <2>2 DEF Settled
<1> SUFFICES ASSUME Settled, S!NonEmpty' # {} PROVE \E d \in CPUs : ~Leaving(d)'
  BY <1>1 DEF WorkInv
<1>2. CASE FirstGet(c) \/ GetAgain(c)
  <2>1. /\ S!get_proc(c)
        /\ cpc'[c] = "slot" \/ cpc'[c] = "recheck"
    BY <1>0, <1>2 DEF FirstGet, GetAgain, Goto
  <2>2. held'[c] # NoProc
    <3> SUFFICES ASSUME held'[c] = NoProc PROVE FALSE
      OBVIOUS
    <3>1. mlq' = mlq /\ S!NonEmpty = {}
      BY <2>1, GetEffect
    <3> QED
      BY <3>1 DEF S!NonEmpty
  <2> QED
    BY <2>1, <2>2 DEF Leaving
<1>3. CASE Finish(c) \/ Free(c) \/ Preempt(c) \/ Execute(c) \/ NextSlot(c)
  <2>1. cpc'[c] \in {"free", "get", "slot", "top"}
    BY <1>0, <1>3 DEF Finish, Free, Preempt, Execute, NextSlot, Goto
  <2> QED
    BY <2>1 DEF Leaving
<1>4. CASE Keep(c)
  <2>1. cpc'[c] = "recheck" /\ held[c] # NoProc /\ held' = held
    BY <1>0, <1>4 DEF Keep, Goto, svars
  <2> QED
    BY <2>1 DEF Leaving
<1>5. CASE RecheckEmpty(c) \/ Exit(c)
  <2>1. mlq' = mlq /\ Leaving(c)
    BY <1>5 DEF RecheckEmpty, Exit, AtLabel, svars, Leaving
  <2>2. PICK d \in CPUs : ~Leaving(d)
    BY <2>1 DEF WorkInv, S!NonEmpty
  <2>3. cpc'[d] = cpc[d] /\ held'[d] = held[d]
    BY <1>0, <2>1, <2>2, OthersStay
  <2> QED
    BY <2>2, <2>3 DEF Leaving
<1> QED
  BY <1>2, <1>3, <1>4, <1>5 DEF CpuStep

\* The other steps keep it as well.  When a slot begins in which the loader sets done, every
\* CPU is at the top of its loop: this is where the slot between the last add_proc and
\* done = 1 is needed.
LEMMA WorkOther ==
    ASSUME CPUs # {}, P!IInv, P!IInv', ThreadInv, WorkInv, LdStep \/ TimerStep \/ UNCHANGED vars
    PROVE  WorkInv'
<1>0. /\ TypeOK /\ LoadInv /\ Loader \in Devices /\ CPUs \subseteq Devices
      /\ at \in [Devices -> {"run", "wait", "gone"}] /\ \A c \in CPUs : CpuInv(c)
      /\ Len(LoadOrder) \in Nat /\ i \in Nat
  BY OsAssumption DEF ThreadInv, TypeOK, Devices
<1>1. held' = held /\ cpc' = cpc
  BY <1>0, OtherType
<1> SUFFICES ASSUME Settled', S!NonEmpty' # {} PROVE \E c \in CPUs : ~Leaving(c)
  BY <1>1 DEF WorkInv, Leaving
<1>2. ASSUME Settled, mlq' = mlq PROVE \E c \in CPUs : ~Leaving(c)
  BY <1>2 DEF WorkInv, S!NonEmpty
<1>3. CASE LdStep
  <2>1. ~LdWait
    <3> SUFFICES ASSUME LdWait PROVE FALSE
      OBVIOUS
    <3>1. i' = i /\ i <= Len(LoadOrder)
      BY DEF LdWait, lvars
    <3> QED
      BY <1>0, <3>1 DEF Settled
  <2>2. ~LdSlot
    <3> SUFFICES ASSUME LdSlot PROVE FALSE
      OBVIOUS
    <3>1. lpc' = "start" /\ at'[Loader] = "wait"
      BY <1>0 DEF LdSlot, Clock!Arrive
    <3> QED
      BY <3>1 DEF Settled
  <2>3. ASSUME NEW p \in Procs PROVE ~LdAdd(p)
    BY DEF LdAdd, Settled
  <2>4. LdDone \/ LdExit
    BY <1>3, <2>1, <2>2, <2>3 DEF LdStep
  <2>5. Settled /\ mlq' = mlq
    BY <1>0, <2>4 DEF LdDone, LdExit, Settled, LoadInv, svars
  <2> QED
    BY <1>2, <2>5
<1>4. CASE TimerStep
  <2>1. mlq' = mlq /\ lpc' = lpc /\ i' = i
    BY <1>4 DEF TimerStep, svars, lvars
  <2>2. CASE Settled
    BY <1>2, <2>1, <2>2
  <2>3. CASE ~Settled
    <3>1. lpc = "start" /\ ~(at' = at)
      BY <2>1, <2>3 DEF Settled
    <3>2. Clock!Tick
      BY <1>4, <3>1 DEF TimerStep, Clock!Stop
    <3>3. \A c \in CPUs : cpc[c] = "top"
      BY <1>0, <3>1, <3>2 DEF Clock!Tick, CpuInv, LoadInv
    <3> QED
      BY <3>3 DEF Leaving
  <2> QED
    BY <2>2, <2>3
<1>5. CASE UNCHANGED vars
  <2>1. Settled /\ mlq' = mlq
    BY <1>5 DEF vars, svars, cvars, lvars, Settled
  <2> QED
    BY <1>2, <2>1
<1> QED
  BY <1>3, <1>4, <1>5

\* When the last CPU stops, every process of the configuration has been loaded, run and
\* freed, if there is a CPU and the queues have room for all processes: a CPU that
\* finds nothing and reads done later leaves nothing behind (cpu_routine, ld_routine).
THEOREM NoneLeftBehind ==
    ASSUME S!FitsQueues, CPUs # {}
    PROVE  Spec => []NoneStranded
<1>1. Init => WorkInv
  BY DEF Init, S!Init, S!NonEmpty, WorkInv
<1>2. P!IInv /\ P!IInv' /\ ThreadInv /\ WorkInv /\ [Next]_vars => WorkInv'
  BY WorkCpu, WorkOther DEF Next, Ended
<1>3. P!NoneLost /\ ThreadInv /\ WorkInv => NoneStranded
  <2> SUFFICES ASSUME P!NoneLost, ThreadInv, WorkInv,
                      \A c \in CPUs : cpc[c] \in {"detach", "exit"}
               PROVE  done /\ \A p \in Procs : phase[p] = "freed"
    BY DEF NoneStranded
  <2>1. /\ done /\ \A c \in CPUs : held[c] = NoProc /\ Leaving(c)
        /\ i > Len(LoadOrder) /\ lpc \in {"detach", "exit"}
    BY DEF ThreadInv, CpuInv, LoadInv, Leaving
  <2>2. S!NonEmpty = {}
    BY <2>1 DEF WorkInv, Settled
  <2>3. ASSUME NEW p \in Procs PROVE phase[p] = "freed"
    <3>1. phase[p] \in {"new", "live", "removed", "freed"} /\ NoProc \notin Procs
      BY OsAssumption DEF ThreadInv, TypeOK, S!TypeOK, S!Phases
    <3>2. phase[p] # "new"
      <4>1. PICK k \in 1 .. Len(LoadOrder) : LoadOrder[k] = p
        BY OsAssumption
      <4>2. k \in 1 .. i - 1
        BY <2>1, OsAssumption DEF ThreadInv, TypeOK
      <4> QED
        BY <4>1, <4>2 DEF ThreadInv, LoadInv
    <3>3. phase[p] # "removed"
      BY <2>1, <3>1 DEF ThreadInv, ProcInv
    <3>4. phase[p] # "live"
      <4> SUFFICES ASSUME phase[p] = "live" PROVE FALSE
        OBVIOUS
      <4>1. PICK q \in P!Prios : P!ReadyAt(p, q)
        BY <2>1, <3>1 DEF P!NoneLost, P!HeldBySomeCPU
      <4>2. mlq[q] # <<>>
        BY <4>1 DEF P!ReadyAt
      <4> QED
        BY <2>2, <4>1, <4>2 DEF S!NonEmpty, S!Prios, P!Prios
    <3> QED
      BY <3>1, <3>2, <3>3, <3>4
  <2> QED
    BY <2>1, <2>3
<1> QED
  BY <1>1, <1>2, <1>3, SchedHolds, ThreadHolds, NothingLost, PTL DEF Spec
=============================================================================
