---------------------------- MODULE TimerProofs ----------------------------
(***************************************************************************)
(* Proofs about Timer, for any number of devices, any number of slots and  *)
(* any number of spurious wake-ups: the protocol keeps the two writers of  *)
(* done apart, keeps the devices in step with _time, and implements the    *)
(* safety part of SlotClock.                                               *)
(***************************************************************************)
EXTENDS Timer, TLAPS

\* The two loops of timer_routine, and the devices the first one is past.
Scanning == tpc \in {"scan", "looking", "asleep", "awake"}
Clearing == tpc \in {"release", "clearing"}
Waiting(d) == dpc[d] \in {"posted", "testing", "blocked", "awake"}

\* What the protocol keeps of one device.  done is set only while the device
\* waits; the timer moves past a device in its first loop only when it waits or
\* is gone; and in its second loop the devices ahead still wait although
\* the clock has already advanced.
DevInv(d) ==
    /\ fsh[d] <=> dpc[d] = "gone"
    /\ done[d] => Waiting(d)
    /\ dpc[d] = "posting" => calls[d] < MaxSlots
    /\ Scanning /\ d < temp => done[d] \/ fsh[d]
    /\ Clearing /\ temp <= d => done[d] \/ fsh[d]
    /\ dpc[d] # "gone" =>
          calls[d] = time + IF done[d] /\ ~(Clearing /\ temp <= d) THEN 1 ELSE 0

\* What the timer keeps: its loop variable is in range where it is used, and
\* nfsh tells whether every device it has passed was finished.
LoopInv ==
    /\ tpc \in {"looking", "asleep", "awake", "clearing"} => temp <= N
    /\ Scanning => nfsh < temp
    /\ Scanning => (nfsh = temp - 1 <=> \A d \in Devices : d < temp => fsh[d])
    /\ Clearing /\ nfsh = N => \A d \in Devices : fsh[d]
    /\ \/ time <= MaxSlots
       \/ time = MaxSlots + 1 /\ (tpc = "exit" \/ (Clearing /\ nfsh = N))

\* How it ends.
EndInv ==
    /\ main # "join" => \A d \in Devices : dpc[d] = "gone"
    /\ timer_stop => main # "join"
    /\ tpc = "exit" => \A d \in Devices : fsh[d]

IInv == TypeOK /\ (\A d \in Devices : DevInv(d)) /\ LoopInv /\ EndInv

\* attach_event and start_timer establish the invariant.
LEMMA InitInv == Init => IInv
<1> SUFFICES ASSUME Init PROVE IInv
  OBVIOUS
<1> USE TimerAssumption DEF Init
<1>1. TypeOK
  <2>1. temp \in 1 .. N + 1 /\ nfsh \in 0 .. N /\ 0 \in 0 .. MaxSlots /\ spurious \in 0 .. MaxSpurious
    OBVIOUS
  <2> QED BY <2>1 DEF TypeOK
<1>2. \A d \in Devices : DevInv(d)
  BY DEF DevInv, Scanning, Clearing
<1>3. LoopInv /\ EndInv
  BY DEF LoopInv, EndInv, Scanning, Clearing
<1> QED BY <1>1, <1>2, <1>3 DEF IInv

\* Devices are numbered from 1 to N.
LEMMA DevicesFact == Devices \subseteq Nat /\ \A d \in Devices : 1 <= d /\ d <= N
  BY TimerAssumption DEF Devices

\* A step of one device leaves the timer and the other devices alone, except
\* that it may wake the timer up.
LEMMA DeviceInv ==
    ASSUME IInv, NEW d \in Devices, DeviceStep(d) \/ WakeSpuriously(d)
    PROVE  IInv'
<1> USE TimerAssumption, DevicesFact
<1>1. /\ time' = time /\ temp' = temp /\ nfsh' = nfsh
      /\ timer_stop' = timer_stop /\ main' = main
      /\ tpc' = tpc \/ (tpc = "asleep" /\ tpc' = "awake")
      /\ \A e \in Devices \ {d} : /\ done'[e] = done[e] /\ fsh'[e] = fsh[e]
                                  /\ dpc'[e] = dpc[e] /\ calls'[e] = calls[e]
  BY DEF IInv, TypeOK, DeviceStep, PostLock, Post, TestLock, Test, Wake, WakeSpuriously,
         DetachLock, Detach, SignalEvent, dunchanged
<1>2. TypeOK'
  <2> USE DEF dunchanged, IInv, TypeOK
  <2>1. CASE PostLock(d)  BY <2>1 DEF PostLock
  <2>2. CASE Post(d)
    <3>1. calls[d] + 1 \in 0 .. MaxSlots
      BY <2>2 DEF Post, DevInv
    <3> QED BY <2>2, <3>1 DEF Post, SignalEvent
  <2>3. CASE TestLock(d)  BY <2>3 DEF TestLock
  <2>4. CASE Test(d)  BY <2>4 DEF Test
  <2>5. CASE Wake(d)  BY <2>5 DEF Wake
  <2>6. CASE WakeSpuriously(d)  BY <2>6 DEF WakeSpuriously
  <2>7. CASE DetachLock(d)  BY <2>7 DEF DetachLock
  <2>8. CASE Detach(d)  BY <2>8 DEF Detach, SignalEvent
  <2> QED BY <2>1, <2>2, <2>3, <2>4, <2>5, <2>6, <2>7, <2>8 DEF DeviceStep
<1>3. (Scanning' <=> Scanning) /\ (Clearing' <=> Clearing)
  BY <1>1 DEF Scanning, Clearing
<1>4. /\ DevInv(d)'
      /\ fsh'[d] # fsh[d] => /\ fsh'[d] /\ dpc[d] = "leaving"
                             /\ ~(Scanning /\ d < temp)
                             /\ ~(Clearing /\ temp <= d)
      /\ dpc[d] = "gone" => FALSE
  <2>0. DevInv(d) /\ calls[d] \in Nat /\ time \in Nat /\ temp \in Nat
    BY DEF IInv, TypeOK
  <2> USE <1>1, <1>3 DEF DevInv, Waiting
  <2>1. CASE PostLock(d)  BY <2>0, <2>1 DEF PostLock, IInv, TypeOK
  <2>2. CASE Post(d)
    <3>1. /\ done'[d] = TRUE /\ fsh'[d] = fsh[d] /\ dpc'[d] = "posted"
          /\ calls'[d] = calls[d] + 1 /\ dpc[d] = "posting"
      BY <2>2 DEF Post, IInv, TypeOK
    <3> QED BY <2>0, <3>1
  <2>3. CASE TestLock(d)  BY <2>0, <2>3 DEF TestLock, IInv, TypeOK
  <2>4. CASE Test(d)
    <3>1. /\ done'[d] = done[d] /\ fsh'[d] = fsh[d] /\ calls'[d] = calls[d]
          /\ dpc[d] = "testing" /\ dpc'[d] = IF done[d] THEN "blocked" ELSE "work"
      BY <2>4 DEF Test, IInv, TypeOK
    <3> QED BY <2>0, <3>1
  <2>5. CASE Wake(d)  BY <2>0, <2>5 DEF Wake, IInv, TypeOK
  <2>6. CASE WakeSpuriously(d)  BY <2>0, <2>6 DEF WakeSpuriously, IInv, TypeOK
  <2>7. CASE DetachLock(d)  BY <2>0, <2>7 DEF DetachLock, IInv, TypeOK
  <2>8. CASE Detach(d)
    <3>1. /\ done'[d] = done[d] /\ fsh'[d] = TRUE /\ dpc'[d] = "gone"
          /\ calls'[d] = calls[d] /\ dpc[d] = "leaving"
      BY <2>8 DEF Detach, IInv, TypeOK
    <3> QED BY <2>0, <3>1
  <2> QED BY <2>1, <2>2, <2>3, <2>4, <2>5, <2>6, <2>7, <2>8 DEF DeviceStep
<1>5. ASSUME NEW e \in Devices, e # d PROVE DevInv(e)'
  BY <1>1, <1>3, <1>5 DEF IInv, DevInv, Waiting
<1>6. LoopInv'
  <2>1. /\ fsh[d] => fsh'[d]
        /\ \A e \in Devices : Scanning /\ e < temp => fsh'[e] = fsh[e]
        /\ \A e \in Devices : fsh[e] => fsh'[e]
    BY <1>1, <1>4 DEF IInv, TypeOK
  <2> QED BY <1>1, <1>3, <2>1 DEF IInv, LoopInv
<1>7. EndInv'
  <2>1. main = "join"
    BY <1>4 DEF IInv, EndInv
  <2>2. tpc # "exit"
    BY <1>4 DEF IInv, EndInv, DevInv
  <2> QED BY <1>1, <2>1, <2>2 DEF IInv, EndInv
<1> QED BY <1>2, <1>4, <1>5, <1>6, <1>7 DEF IInv

\* The steps of the timer.
LEMMA TimerInv ==
    ASSUME IInv, TimerStep \/ LookSpuriously
    PROVE  IInv'
<1> USE TimerAssumption, DevicesFact
<1>0. /\ \A d \in Devices : DevInv(d) /\ calls[d] \in 0 .. MaxSlots
      /\ time \in Nat /\ temp \in 1 .. N + 1 /\ nfsh \in 0 .. N
      /\ LoopInv /\ EndInv /\ TypeOK
  BY DEF IInv, TypeOK
<1>1. CASE Check
  <2>1. /\ tpc = "check" /\ tpc' = (IF timer_stop THEN "exit" ELSE "scan")
        /\ temp' = 1 /\ nfsh' = 0 /\ UNCHANGED <<time, done, signalled>> /\ tunchanged
    BY <1>1 DEF Check
  <2> USE DEF tunchanged
  <2>2. TypeOK'
    BY <1>0, <2>1 DEF TypeOK
  <2>3. \A d \in Devices : DevInv(d)'
    BY <1>0, <2>1 DEF DevInv, Waiting, Scanning, Clearing
  <2>4. LoopInv' /\ EndInv'
    BY <1>0, <2>1 DEF LoopInv, EndInv, Scanning, Clearing, DevInv
  <2> QED BY <2>2, <2>3, <2>4 DEF IInv
<1>2. CASE LookLock \/ LookSpuriously
  <2>1. /\ tpc \in {"scan", "asleep", "awake"} /\ tpc' \in {"looking", "awake"}
        /\ temp <= N
        /\ UNCHANGED <<time, done, fsh, dpc, calls, signalled, temp, nfsh, timer_stop, main>>
        /\ spurious' \in 0 .. MaxSpurious
    BY <1>0, <1>2 DEF LookLock, LookSpuriously, LoopInv, TypeOK, tunchanged
  <2>2. TypeOK'
    BY <1>0, <2>1 DEF TypeOK
  <2>3. \A d \in Devices : DevInv(d)'
    BY <1>0, <2>1 DEF DevInv, Waiting, Scanning, Clearing
  <2>4. LoopInv' /\ EndInv'
    BY <1>0, <2>1 DEF LoopInv, EndInv, Scanning, Clearing
  <2> QED BY <2>2, <2>3, <2>4 DEF IInv
<1>3. CASE Look
  <2>0. tpc = "looking" /\ temp \in Devices /\ UNCHANGED <<time, done, signalled>> /\ tunchanged
    BY <1>0, <1>3 DEF Look, LoopInv, Devices
  <2> USE DEF tunchanged
  <2>1. CASE done[temp] \/ fsh[temp]
    <3>1. /\ nfsh' = nfsh + (IF fsh[temp] THEN 1 ELSE 0) /\ temp' = temp + 1 /\ tpc' = "scan"
          /\ nfsh < temp /\ temp <= N
          /\ nfsh = temp - 1 <=> \A d \in Devices : d < temp => fsh[d]
      BY <1>0, <1>3, <2>0, <2>1 DEF Look, LoopInv, Scanning
    <3>2. TypeOK'
      BY <1>0, <2>0, <3>1 DEF TypeOK
    <3>3. ASSUME NEW d \in Devices PROVE DevInv(d)'
      <4>1. d < temp + 1 => d < temp \/ d = temp
        BY <1>0
      <4> QED BY <1>0, <2>0, <2>1, <3>1, <4>1 DEF DevInv, Waiting, Scanning, Clearing
    <3>4. nfsh' < temp' /\ temp' - 1 = temp
      BY <1>0, <3>1
    <3>5. nfsh' = temp <=> \A d \in Devices : d < temp' => fsh[d]
      <4>1. nfsh' = temp <=> nfsh = temp - 1 /\ fsh[temp]
        BY <1>0, <3>1
      <4>2. \A d \in Devices : d < temp' <=> d < temp \/ d = temp
        BY <1>0, <3>1
      <4> QED BY <2>0, <3>1, <4>1, <4>2
    <3>6. LoopInv' /\ EndInv'
      BY <1>0, <2>0, <3>1, <3>4, <3>5 DEF LoopInv, EndInv, Scanning, Clearing
    <3> QED BY <3>2, <3>3, <3>6 DEF IInv
  <2>2. CASE ~(done[temp] \/ fsh[temp])
    <3>1. tpc' = "asleep" /\ temp' = temp /\ nfsh' = nfsh
      BY <1>3, <2>2 DEF Look
    <3>2. TypeOK'
      BY <1>0, <2>0, <3>1 DEF TypeOK
    <3>3. \A d \in Devices : DevInv(d)'
      BY <1>0, <2>0, <3>1 DEF DevInv, Waiting, Scanning, Clearing
    <3>4. LoopInv' /\ EndInv'
      BY <1>0, <2>0, <3>1 DEF LoopInv, EndInv, Scanning, Clearing, Devices
    <3> QED BY <3>2, <3>3, <3>4 DEF IInv
  <2> QED BY <2>1, <2>2
<1>4. CASE Advance
  <2>1. /\ tpc = "scan" /\ temp > N /\ time' = time + 1 /\ temp' = 1 /\ tpc' = "release"
        /\ UNCHANGED <<done, signalled, nfsh>> /\ tunchanged
    BY <1>4 DEF Advance
  <2> USE DEF tunchanged
  <2>2. TypeOK'
    BY <1>0, <2>1 DEF TypeOK
  <2>3. \A d \in Devices : DevInv(d)'
    BY <1>0, <2>1 DEF DevInv, Waiting, Scanning, Clearing
  <2>4. /\ temp - 1 = N /\ time <= MaxSlots
        /\ nfsh = N <=> \A d \in Devices : fsh[d]
    BY <1>0, <2>1 DEF LoopInv, Scanning, Clearing
  <2>5. nfsh # N => time + 1 <= MaxSlots
    <3> SUFFICES ASSUME nfsh # N PROVE time + 1 <= MaxSlots
      OBVIOUS
    <3>1. PICK d \in Devices : ~fsh[d]
      BY <2>4
    <3>2. calls[d] = time + 1
      BY <1>0, <2>1, <3>1 DEF DevInv, Scanning, Clearing
    <3> QED BY <1>0, <3>2
  <2>6. LoopInv' /\ EndInv'
    BY <1>0, <2>1, <2>4, <2>5 DEF LoopInv, EndInv, Scanning, Clearing
  <2> QED BY <2>2, <2>3, <2>6 DEF IInv
<1>5. CASE ClearLock
  <2>1. /\ tpc = "release" /\ temp <= N /\ tpc' = "clearing"
        /\ UNCHANGED <<time, done, signalled, temp, nfsh>> /\ tunchanged
    BY <1>5 DEF ClearLock
  <2> USE DEF tunchanged
  <2>2. TypeOK'
    BY <1>0, <2>1 DEF TypeOK
  <2>3. \A d \in Devices : DevInv(d)'
    BY <1>0, <2>1 DEF DevInv, Waiting, Scanning, Clearing
  <2>4. LoopInv' /\ EndInv'
    BY <1>0, <2>1 DEF LoopInv, EndInv, Scanning, Clearing
  <2> QED BY <2>2, <2>3, <2>4 DEF IInv
<1>6. CASE Clear
  <2>1. /\ tpc = "clearing" /\ temp <= N /\ tpc' = "release" /\ temp' = temp + 1
        /\ done' = [done EXCEPT ![temp] = FALSE]
        /\ signalled' \in {signalled, signalled \cup {temp}}
        /\ UNCHANGED <<time, nfsh>> /\ tunchanged
    BY <1>0, <1>6 DEF Clear, LoopInv
  <2>2. temp \in Devices
    BY <1>0, <2>1 DEF Devices
  <2> USE DEF tunchanged
  <2>3. TypeOK'
    BY <1>0, <2>1, <2>2 DEF TypeOK
  <2>4. ASSUME NEW d \in Devices PROVE DevInv(d)'
    <3>1. done'[d] = IF d = temp THEN FALSE ELSE done[d]
      BY <1>0, <2>1 DEF TypeOK
    <3>2. temp + 1 <= d <=> temp <= d /\ d # temp
      BY <1>0
    <3>3. DevInv(d) /\ Clearing /\ Clearing' /\ ~Scanning'
      BY <1>0, <2>1 DEF Scanning, Clearing
    <3>4. /\ fsh'[d] = fsh[d] /\ dpc'[d] = dpc[d] /\ calls'[d] = calls[d]
          /\ time' = time /\ temp' = temp + 1
      BY <2>1
    <3>5. CASE d = temp
      <4>1. calls[d] = time \/ dpc[d] = "gone"
        BY <1>0, <3>3, <3>5 DEF DevInv
      <4> QED BY <1>0, <3>1, <3>2, <3>3, <3>4, <3>5, <4>1 DEF DevInv, Waiting
    <3>6. CASE d # temp
      BY <1>0, <3>1, <3>2, <3>3, <3>4, <3>6 DEF DevInv, Waiting
    <3> QED BY <3>5, <3>6
  <2>5. LoopInv' /\ EndInv'
    BY <1>0, <2>1 DEF LoopInv, EndInv, Scanning, Clearing
  <2> QED BY <2>3, <2>4, <2>5 DEF IInv
<1>7. CASE EndRound
  <2>1. /\ tpc = "release" /\ temp > N /\ tpc' = (IF nfsh = N THEN "exit" ELSE "check")
        /\ UNCHANGED <<time, done, signalled, temp, nfsh>> /\ tunchanged
    BY <1>7 DEF EndRound
  <2> USE DEF tunchanged
  <2>2. TypeOK'
    BY <1>0, <2>1 DEF TypeOK
  <2>3. \A d \in Devices : DevInv(d)'
    BY <1>0, <2>1 DEF DevInv, Waiting, Scanning, Clearing
  <2>4. LoopInv' /\ EndInv'
    BY <1>0, <2>1 DEF LoopInv, EndInv, Scanning, Clearing
  <2> QED BY <2>2, <2>3, <2>4 DEF IInv
<1> QED BY <1>1, <1>2, <1>3, <1>4, <1>5, <1>6, <1>7 DEF TimerStep

\* Every step of a device, of the timer and of main keeps the invariant.
LEMMA NextInv == IInv /\ [Next]_vars => IInv'
<1> SUFFICES ASSUME IInv, [Next]_vars PROVE IInv'
  OBVIOUS
<1>1. CASE StopTimer \/ JoinTimer
  <2>1. /\ munchanged /\ main' \in {"stop", "end"} /\ timer_stop' \in BOOLEAN
        /\ \A d \in Devices : dpc[d] = "gone"
    BY <1>1 DEF StopTimer, JoinTimer, IInv, EndInv, TypeOK
  <2>2. TypeOK' /\ \A d \in Devices : DevInv(d)'
    BY <2>1 DEF IInv, TypeOK, munchanged, DevInv, Waiting, Scanning, Clearing
  <2>3. LoopInv' /\ EndInv'
    BY <2>1 DEF IInv, LoopInv, EndInv, munchanged, Scanning, Clearing
  <2> QED BY <2>2, <2>3 DEF IInv
<1>2. CASE Ended \/ UNCHANGED vars
  BY <1>2 DEF Ended, vars, IInv, TypeOK, DevInv, LoopInv, EndInv, Waiting, Scanning, Clearing
<1> QED BY <1>1, <1>2, DeviceInv, TimerInv DEF Next, MainStep

\* The inductive invariant holds in every state of timer.c, for any number of
\* devices, calls and spurious wake-ups (timer_routine, next_slot, detach_event).
THEOREM TimerInvariant == Spec => []IInv
  BY InitInv, NextInv, PTL DEF Spec

\* Every variable of the timer keeps its type; the loop variable of
\* timer_routine never leaves dev_list.
THEOREM TypeCorrect == Spec => []TypeOK
<1>1. IInv => TypeOK
  BY DEF IInv
<1> QED BY <1>1, TimerInvariant, PTL

\* The two writers of done never meet, whatever the number of devices.
THEOREM NoRace == Spec => []NoRaceOnDone
<1>1. IInv => NoRaceOnDone
  BY DevicesFact, TimerAssumption DEF IInv, TypeOK, DevInv, Waiting, Clearing, NoRaceOnDone
<1> QED BY <1>1, TimerInvariant, PTL

\* No device is inside a slot when _time is incremented, and all of them work
\* in the slot it shows.
THEOREM InLockStep == Spec => []LockStep
<1>1. IInv => LockStep
  <2> SUFFICES ASSUME IInv PROVE LockStep
    OBVIOUS
  <2>1. ASSUME tpc = "scan", temp > N, NEW d \in Devices PROVE ~InSlot(d)
    <3>1. DevInv(d) /\ d < temp
      BY <2>1, DevicesFact, TimerAssumption DEF IInv, TypeOK
    <3> QED BY <2>1, <3>1 DEF DevInv, Waiting, Scanning, InSlot
  <2>2. ASSUME NEW d \in Devices, dpc[d] \in {"work", "leaving"} PROVE calls[d] = time
    BY <2>2 DEF IInv, TypeOK, DevInv, Waiting
  <2> QED BY <2>1, <2>2 DEF LockStep
<1> QED BY <1>1, TimerInvariant, PTL

----------------------------------------------------------------------------
(* Timer implements the safety part of SlotClock.                           *)

\* The initial state of timer.c is that of the clock.
LEMMA InitRefines == Init => Clock!Init
  BY DEF Init, Clock!Init, at, Released

\* The steps that the clock does not see.
LEMMA Stutters ==
    ASSUME time' = time, fsh' = fsh, done' = done,
           Clearing' <=> Clearing, temp' = temp,
           tpc' = "exit" <=> tpc = "exit"
    PROVE  UNCHANGED Clock!vars
  BY DEF Clock!vars, at, Released, Clearing

\* Every step of timer.c is a step of the clock or changes nothing it shows.
LEMMA NextRefines == IInv /\ [Next]_vars => [Clock!Next]_(Clock!vars)
<1> SUFFICES ASSUME IInv, [Next]_vars PROVE Clock!Next \/ UNCHANGED Clock!vars
  OBVIOUS
<1> USE TimerAssumption, DevicesFact
<1>0. /\ \A d \in Devices : DevInv(d)
      /\ time \in Nat /\ temp \in 1 .. N + 1 /\ TypeOK /\ LoopInv /\ EndInv
  BY DEF IInv, TypeOK
<1>1. ASSUME NEW d \in Devices, Post(d) PROVE Clock!Arrive(d)
  <2>1. /\ dpc[d] = "posting" /\ done' = [done EXCEPT ![d] = TRUE]
        /\ fsh' = fsh /\ time' = time /\ temp' = temp
        /\ tpc' = tpc \/ (tpc = "asleep" /\ tpc' = "awake")
    BY <1>1 DEF Post, SignalEvent, dunchanged
  <2>2. ~done[d] /\ ~fsh[d] /\ ~Released(d)
    BY <1>0, <2>1 DEF DevInv, Waiting, Released, Clearing
  <2>3. \A e \in Devices : Released(e)' <=> Released(e)
    BY <2>1 DEF Released
  <2>4. /\ \A e \in Devices \ {d} : done'[e] = done[e]
        /\ done'[d] = TRUE
    BY <1>0, <2>1 DEF TypeOK
  <2>5. at[d] = "run" /\ at' = [at EXCEPT ![d] = "wait"]
    BY <2>1, <2>2, <2>3, <2>4 DEF at
  <2> QED BY <2>1, <2>5 DEF Clock!Arrive
<1>2. ASSUME NEW d \in Devices, Detach(d) PROVE Clock!Leave(d)
  <2>1. /\ dpc[d] = "leaving" /\ fsh' = [fsh EXCEPT ![d] = TRUE]
        /\ done' = done /\ time' = time /\ temp' = temp
        /\ tpc' = tpc \/ (tpc = "asleep" /\ tpc' = "awake")
    BY <1>2 DEF Detach, SignalEvent, dunchanged
  <2>2. ~done[d] /\ ~fsh[d]
    BY <1>0, <2>1 DEF DevInv, Waiting
  <2>3. \A e \in Devices : Released(e)' <=> Released(e)
    BY <2>1 DEF Released
  <2>4. /\ \A e \in Devices \ {d} : fsh'[e] = fsh[e]
        /\ fsh'[d] = TRUE
    BY <1>0, <2>1 DEF TypeOK
  <2>5. at[d] = "run" /\ at' = [at EXCEPT ![d] = "gone"]
    BY <2>1, <2>2, <2>3, <2>4 DEF at
  <2> QED BY <2>1, <2>5 DEF Clock!Leave
<1>3. ASSUME NEW d \in Devices,
             PostLock(d) \/ TestLock(d) \/ Test(d) \/ Wake(d) \/ WakeSpuriously(d) \/ DetachLock(d)
      PROVE  UNCHANGED Clock!vars
  BY <1>3, Stutters DEF PostLock, TestLock, Test, Wake, WakeSpuriously, DetachLock,
                        dunchanged, Clearing
<1>4. CASE Check \/ EndRound
  <2>1. /\ time' = time /\ fsh' = fsh /\ done' = done
        /\ tpc # "exit"
        /\ \A d \in Devices : ~Released(d) /\ ~Released(d)'
    BY <1>0, <1>4 DEF Check, EndRound, tunchanged, Released
  <2>2. at' = at
    BY <2>1 DEF at
  <2>3. CASE tpc' = "exit"
    <3>1. \A d \in Devices : fsh[d]
      BY <1>0, <1>4, <2>3 DEF Check, EndRound, EndInv, LoopInv, Clearing, DevInv
    <3>2. \A d \in Devices : at[d] = "gone"
      BY <3>1 DEF at
    <3> QED BY <2>1, <2>2, <2>3, <3>2 DEF Clock!Stop, Clock!Next
  <2>4. CASE tpc' # "exit"
    BY <2>1, <2>2, <2>4 DEF Clock!vars
  <2> QED BY <2>3, <2>4
<1>5. CASE LookLock \/ Look \/ LookSpuriously
  <2>1. /\ time' = time /\ fsh' = fsh /\ done' = done /\ tpc # "exit" /\ tpc' # "exit"
        /\ \A d \in Devices : ~Released(d) /\ ~Released(d)'
    BY <1>5 DEF LookLock, Look, LookSpuriously, tunchanged, Released
  <2> QED BY <2>1 DEF Clock!vars, at
<1>6. CASE Advance
  <2>1. /\ tpc = "scan" /\ temp > N /\ time' = time + 1 /\ temp' = 1 /\ tpc' = "release"
        /\ done' = done /\ fsh' = fsh
    BY <1>6 DEF Advance, tunchanged
  <2>2. \A d \in Devices : (done[d] \/ fsh[d]) /\ ~Released(d) /\ Released(d)'
    BY <1>0, <2>1 DEF DevInv, Scanning, Released
  <2>3. /\ \A d \in Devices : at[d] # "run"
        /\ at' = [d \in Devices |-> IF at[d] = "wait" THEN "run" ELSE at[d]]
    BY <2>1, <2>2 DEF at
  <2>4. time' = Clock!Later(time)
    BY <1>0, <2>1 DEF LoopInv, Clearing, Clock!Later
  <2> QED BY <2>1, <2>3, <2>4 DEF Clock!Tick, Clock!Next
<1>7. CASE ClearLock
  BY <1>7, Stutters DEF ClearLock, tunchanged, Clearing
<1>8. CASE Clear
  <2>1. /\ tpc = "clearing" /\ tpc' = "release" /\ temp' = temp + 1
        /\ done' = [done EXCEPT ![temp] = FALSE] /\ time' = time /\ fsh' = fsh
    BY <1>8 DEF Clear, tunchanged
  <2>2. ASSUME NEW d \in Devices
        PROVE  (done'[d] /\ ~Released(d)') <=> (done[d] /\ ~Released(d))
    <3>1. done'[d] = IF d = temp THEN FALSE ELSE done[d]
      BY <1>0, <2>1 DEF TypeOK
    <3>2. /\ Released(d) <=> temp <= d
          /\ Released(d)' <=> temp + 1 <= d
      BY <2>1 DEF Released
    <3>3. temp + 1 <= d <=> temp <= d /\ d # temp
      BY <1>0
    <3> QED BY <3>1, <3>2, <3>3
  <2>3. at' = at
    BY <2>1, <2>2 DEF at
  <2> QED BY <2>1, <2>3 DEF Clock!vars
<1>9. CASE MainStep \/ Ended \/ UNCHANGED vars
  BY <1>9, Stutters DEF MainStep, StopTimer, JoinTimer, munchanged, Ended, vars, Clearing
<1> QED
  BY <1>1, <1>2, <1>3, <1>4, <1>5, <1>6, <1>7, <1>8, <1>9
     DEF Next, DeviceStep, TimerStep, Clock!Next

\* timer.c implements the lock-step clock, for any number of devices: every
\* step of its mutexes and condition variables is a step of SlotClock or none.
THEOREM TimerImplementsClock == Spec => Clock!Init /\ [][Clock!Next]_(Clock!vars)
  BY InitRefines, NextRefines, TimerInvariant, PTL DEF Spec
=============================================================================
