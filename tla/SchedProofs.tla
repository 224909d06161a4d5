---------------------------- MODULE SchedProofs ----------------------------
(***************************************************************************)
(* Proofs about Sched, for any set of processes and CPUs and any MAX_PRIO  *)
(* and MAX_QUEUE_SIZE.                                                     *)
(***************************************************************************)
EXTENDS Sched, FiniteSetTheorems, TLAPS

----------------------------------------------------------------------------
(* What the queue operations return.                                        *)

NoRepeat(s) == \A i, j \in 1 .. Len(s) : s[i] = s[j] => i = j
Occurs(s, p) == \E i \in 1 .. Len(s) : s[i] = p

\* enqueue appends or, on a full queue, changes nothing.
LEMMA EnqueueFacts ==
    ASSUME NEW s \in Seq(Procs), NEW p \in Procs, Len(s) <= MAX_QUEUE_SIZE
    PROVE  /\ enqueue(s, p) \in Seq(Procs)
           /\ Len(enqueue(s, p)) <= MAX_QUEUE_SIZE
           /\ Len(s) = MAX_QUEUE_SIZE => enqueue(s, p) = s
           /\ Len(s) < MAX_QUEUE_SIZE =>
                /\ Len(enqueue(s, p)) = Len(s) + 1
                /\ \A i \in 1 .. Len(s) : enqueue(s, p)[i] = s[i]
                /\ enqueue(s, p)[Len(s) + 1] = p
  BY SchedAssumption DEF enqueue

\* enqueue adds no other process, drops none, and repeats none.
LEMMA EnqueueOccurs ==
    ASSUME NEW s \in Seq(Procs), NEW p \in Procs, Len(s) <= MAX_QUEUE_SIZE
    PROVE  /\ \A r : Occurs(enqueue(s, p), r) => Occurs(s, r) \/ r = p
           /\ \A r : Occurs(s, r) => Occurs(enqueue(s, p), r)
           /\ Len(s) < MAX_QUEUE_SIZE => Occurs(enqueue(s, p), p)
           /\ NoRepeat(s) /\ ~Occurs(s, p) => NoRepeat(enqueue(s, p))
<1>1. CASE Len(s) = MAX_QUEUE_SIZE
  BY <1>1, EnqueueFacts, SchedAssumption
<1>2. CASE Len(s) < MAX_QUEUE_SIZE
  <2> DEFINE e == enqueue(s, p)
  <2>1. /\ Len(s) \in Nat
        /\ Len(e) = Len(s) + 1
        /\ \A i \in 1 .. Len(s) : e[i] = s[i]
        /\ e[Len(s) + 1] = p
    BY <1>2, SchedAssumption DEF enqueue
  <2> HIDE DEF e
  <2>2. \A r : Occurs(e, r) => Occurs(s, r) \/ r = p
    BY <2>1 DEF Occurs
  <2>3. \A r : Occurs(s, r) => Occurs(e, r)
    BY <2>1 DEF Occurs
  <2>4. Occurs(e, p)
    BY <2>1 DEF Occurs
  <2>5. NoRepeat(s) /\ ~Occurs(s, p) => NoRepeat(e)
    BY <2>1 DEF Occurs, NoRepeat
  <2> QED BY <2>2, <2>3, <2>4, <2>5 DEF e
<1> QED BY <1>1, <1>2, SchedAssumption

\* dequeue takes the head and leaves the others.
LEMMA TailOccurs ==
    ASSUME NEW s \in Seq(Procs), s # <<>>
    PROVE  /\ Head(s) \in Procs
           /\ Tail(s) \in Seq(Procs)
           /\ Len(Tail(s)) <= Len(s)
           /\ Occurs(s, Head(s))
           /\ \A r : Occurs(Tail(s), r) => Occurs(s, r)
           /\ \A r : Occurs(s, r) => r = Head(s) \/ Occurs(Tail(s), r)
           /\ NoRepeat(s) => NoRepeat(Tail(s)) /\ ~Occurs(Tail(s), Head(s))
<1>1. /\ Len(Tail(s)) = Len(s) - 1
      /\ \A i \in 1 .. Len(s) - 1 : Tail(s)[i] = s[i + 1]
      /\ Head(s) = s[1]
      /\ Len(s) \in Nat \ {0}
  OBVIOUS
<1>2. Head(s) \in Procs /\ Tail(s) \in Seq(Procs)
  OBVIOUS
<1> DEFINE t == Tail(s)
<1> HIDE DEF t
<1>3. Occurs(s, Head(s))
  BY <1>1 DEF Occurs
<1>4. ASSUME NEW r, Occurs(t, r) PROVE Occurs(s, r)
  <2>1. PICK i \in 1 .. Len(t) : t[i] = r
    BY <1>4 DEF Occurs
  <2>2. i + 1 \in 1 .. Len(s) /\ s[i + 1] = r
    BY <1>1, <2>1 DEF t
  <2> QED BY <2>2 DEF Occurs
<1>5. ASSUME NEW r, Occurs(s, r), r # Head(s) PROVE Occurs(t, r)
  <2>1. PICK i \in 1 .. Len(s) : s[i] = r
    BY <1>5 DEF Occurs
  <2>2. i - 1 \in 1 .. Len(t) /\ t[i - 1] = r
    BY <1>1, <1>5, <2>1 DEF t
  <2> QED BY <2>2 DEF Occurs
<1>6. NoRepeat(s) => NoRepeat(t)
  BY <1>1 DEF NoRepeat, t
<1>7. NoRepeat(s) => ~Occurs(t, Head(s))
  BY <1>1 DEF NoRepeat, Occurs, t
<1> QED BY <1>1, <1>2, <1>3, <1>4, <1>5, <1>6, <1>7 DEF t

\* purgequeue removes the one entry for p, if any, and nothing else.
LEMMA PurgeOccurs ==
    ASSUME NEW s \in Seq(Procs), NEW p \in Procs, NoRepeat(s)
    PROVE  /\ purgequeue(s, p) \in Seq(Procs)
           /\ Len(purgequeue(s, p)) <= Len(s)
           /\ NoRepeat(purgequeue(s, p))
           /\ \A r : Occurs(purgequeue(s, p), r) <=> Occurs(s, r) /\ r # p
<1>1. CASE ~ \E i \in 1 .. Len(s) : s[i] = p
  BY <1>1 DEF purgequeue, RemoveFirst, Occurs
<1>2. CASE \E i \in 1 .. Len(s) : s[i] = p
  <2>1. PICK k \in 1 .. Len(s) : s[k] = p
    BY <1>2
  <2>2. \A i \in 1 .. Len(s) : s[i] = p => i = k
    BY <2>1 DEF NoRepeat
  <2>3. SelectInSeq(s, LAMBDA v : v = p) = k
    <3> DEFINE I == {i \in 1 .. Len(s) : s[i] = p}
    <3>1. I = {k}
      BY <2>1, <2>2
    <3>2. Min(I) = k
      BY <3>1 DEF Min
    <3> QED BY <3>1, <3>2 DEF SelectInSeq
  <2>4. purgequeue(s, p) = RemoveAt(s, k)
    BY <1>2, <2>3 DEF purgequeue, RemoveFirst
  <2> DEFINE u == RemoveAt(s, k)
  <2>5. /\ u \in Seq(Procs)
        /\ Len(u) = Len(s) - 1
        /\ \A i \in 1 .. Len(s) - 1 : u[i] = IF i < k THEN s[i] ELSE s[i + 1]
    <3> DEFINE a == SubSeq(s, 1, k - 1)
               b == SubSeq(s, k + 1, Len(s))
    <3>1. /\ a \in Seq(Procs)
          /\ Len(a) = k - 1
          /\ \A i \in 1 .. k - 1 : a[i] = s[i]
      OBVIOUS
    <3>2. /\ b \in Seq(Procs)
          /\ Len(b) = Len(s) - k
          /\ \A i \in 1 .. Len(s) - k : b[i] = s[k + i]
      OBVIOUS
    <3>3. u = a \o b
      BY DEF RemoveAt
    <3> HIDE DEF a, b, u
    <3>6. \A i \in 1 .. Len(a) + Len(b) :
            (a \o b)[i] = IF i <= Len(a) THEN a[i] ELSE b[i - Len(a)]
      BY <3>1, <3>2
    <3>4. u \in Seq(Procs) /\ Len(u) = Len(s) - 1
      BY <3>1, <3>2, <3>3
    <3>5. ASSUME NEW i \in 1 .. Len(s) - 1
          PROVE  u[i] = IF i < k THEN s[i] ELSE s[i + 1]
      <4>1. CASE i < k
        <5>1. i \in 1 .. Len(a) + Len(b) /\ i <= Len(a)
          BY <3>1, <3>2, <4>1
        <5>2. u[i] = a[i]
          BY <5>1, <3>3, <3>6
        <5> QED BY <5>2, <4>1, <3>1
      <4>2. CASE i >= k
        <5>1. i - (k - 1) \in 1 .. Len(s) - k /\ k + (i - (k - 1)) = i + 1
          BY <4>2
        <5>2. u[i] = b[i - (k - 1)]
          <6>1. i \in 1 .. Len(a) + Len(b) /\ ~(i <= Len(a))
            BY <3>1, <3>2, <4>2
          <6>2. u[i] = b[i - Len(a)]
            BY <6>1, <3>3, <3>6
          <6> QED BY <6>2, <3>1
        <5>3. b[i - (k - 1)] = s[i + 1]
          BY <5>1, <3>2
        <5> QED BY <5>2, <5>3, <4>2
      <4> QED BY <4>1, <4>2
    <3> QED BY <3>4, <3>5
  <2> QED
    <3> HIDE DEF u
    <3>1. NoRepeat(u)
      <4> SUFFICES ASSUME NEW i \in 1 .. Len(u), NEW j \in 1 .. Len(u), u[i] = u[j]
                   PROVE  i = j
        BY DEF NoRepeat
      <4> DEFINE At(n) == IF n < k THEN n ELSE n + 1
      <4>1. /\ At(i) \in 1 .. Len(s) /\ At(j) \in 1 .. Len(s)
            /\ u[i] = s[At(i)] /\ u[j] = s[At(j)]
        BY <2>5
      <4>2. At(i) = At(j)
        BY <4>1 DEF NoRepeat
      <4> QED BY <4>2
    <3>2. ASSUME NEW r, Occurs(u, r) PROVE Occurs(s, r) /\ r # p
      <4>1. PICK i \in 1 .. Len(s) - 1 : u[i] = r
        BY <3>2, <2>5 DEF Occurs
      <4>2. PICK j \in 1 .. Len(s) : s[j] = r /\ j # k
        <5>1. CASE i < k
          BY <4>1, <5>1, <2>5
        <5>2. CASE i >= k
          <6>1. i + 1 \in 1 .. Len(s) /\ i + 1 # k
            BY <5>2
          <6>2. s[i + 1] = r
            BY <4>1, <5>2, <2>5
          <6> QED BY <6>1, <6>2
        <5> QED BY <5>1, <5>2
      <4> QED BY <4>2, <2>2 DEF Occurs
    <3>3. ASSUME NEW r, Occurs(s, r), r # p PROVE Occurs(u, r)
      <4>1. PICK i \in 1 .. Len(s) : s[i] = r
        BY <3>3 DEF Occurs
      <4>2. i # k
        BY <4>1, <2>1, <3>3
      <4>3. CASE i < k
        BY <4>1, <4>3, <2>5 DEF Occurs
      <4>4. CASE i > k
        <5>1. i - 1 \in 1 .. Len(u) /\ u[i - 1] = s[i]
          BY <4>4, <2>5
        <5> QED BY <5>1, <4>1 DEF Occurs
      <4> QED BY <4>2, <4>3, <4>4
    <3> QED BY <2>4, <2>5, <3>1, <3>2, <3>3 DEF u
<1> QED BY <1>1, <1>2

----------------------------------------------------------------------------
(* The inductive invariant.  Exclusive alone is not inductive: a process    *)
(* taken from a queue must be known to be live and unheld, one that is put  *)
(* back must be known to be in no queue.                                    *)

HeldInv ==
    /\ \A c, d \in CPUs : held[c] = held[d] /\ held[c] # NoProc => c = d
    /\ \A c \in CPUs : held[c] # NoProc => phase[held[c]] \in {"live", "removed"}

QueueInv ==
    \A q \in Prios :
        /\ NoRepeat(mlq[q])
        /\ \A p \in Procs : Occurs(mlq[q], p) =>
              prio[p] = q /\ phase[p] = "live" /\ ~HeldBySomeCPU(p)

ListInv ==
    /\ NoRepeat(running_list)
    /\ \A p \in Procs : Occurs(running_list, p) => phase[p] = "live"

IInv == TypeOK /\ HeldInv /\ QueueInv /\ ListInv

\* The levels are natural numbers, normalize_prio returns one of them, and
\* reset_mlq_slot gives every level a slot.
LEMMA PriosType ==
    /\ \A n \in Nat : normalize_prio(n) \in Prios
    /\ \A q \in Prios : (q + 1) % MAX_PRIO \in Prios
    /\ 0 \in Prios
    /\ reset_mlq_slot \in [Prios -> 1 .. MAX_PRIO]
  BY SchedAssumption DEF Prios, normalize_prio, reset_mlq_slot

\* init_scheduler establishes the invariant.
LEMMA InitInv == Init => IInv
<1> SUFFICES ASSUME Init PROVE IInv
  OBVIOUS
<1> USE SchedAssumption DEF Init
<1>1. TypeOK
  BY PriosType DEF TypeOK, Phases
<1>2. HeldInv
  BY DEF HeldInv
<1>3. QueueInv /\ ListInv
  BY DEF QueueInv, ListInv, NoRepeat, Occurs
<1> QED BY <1>1, <1>2, <1>3 DEF IInv

\* The body of get_mlq_proc, from whichever slots it pays with.
LEMMA DispatchInv ==
    ASSUME IInv, NEW c \in CPUs, held[c] = NoProc,
           NEW q \in NonEmpty, NEW sl \in [Prios -> 0 .. MAX_PRIO], sl[q] > 0,
           Dispatch(c, q, sl), UNCHANGED <<running_list, prio, phase>>
    PROVE  IInv'
<1> DEFINE p == Head(mlq[q])
<1>1. q \in Prios /\ mlq[q] \in Seq(Procs) /\ mlq[q] # <<>>
  BY DEF NonEmpty, IInv, TypeOK
<1>2. /\ p \in Procs
      /\ Tail(mlq[q]) \in Seq(Procs)
      /\ Len(Tail(mlq[q])) <= Len(mlq[q])
      /\ Occurs(mlq[q], p)
      /\ \A r : Occurs(Tail(mlq[q]), r) => Occurs(mlq[q], r)
      /\ NoRepeat(Tail(mlq[q]))
      /\ ~Occurs(Tail(mlq[q]), p)
  BY <1>1, TailOccurs DEF IInv, QueueInv
<1>3. /\ held' = [held EXCEPT ![c] = p]
      /\ mlq' = [mlq EXCEPT ![q] = Tail(mlq[q])]
      /\ slot' = [sl EXCEPT ![q] = sl[q] - 1]
      /\ cur' \in {(q + 1) % MAX_PRIO, q}
      /\ running_list' = running_list /\ prio' = prio /\ phase' = phase
  BY DEF Dispatch
<1>4. /\ prio[p] = q /\ phase[p] = "live" /\ p # NoProc
      /\ \A d \in CPUs : held[d] # p
  BY <1>1, <1>2, SchedAssumption DEF IInv, QueueInv, HeldBySomeCPU
<1> HIDE DEF p
<1>5. TypeOK'
  <2>1. mlq' \in [Prios -> Seq(Procs)] /\ \A r \in Prios : Len(mlq'[r]) <= MAX_QUEUE_SIZE
    <3>1. /\ Len(Tail(mlq[q])) \in Nat /\ Len(mlq[q]) \in Nat
          /\ Len(mlq[q]) <= MAX_QUEUE_SIZE
      BY <1>1, <1>2 DEF IInv, TypeOK
    <3>2. Len(Tail(mlq[q])) <= MAX_QUEUE_SIZE
      BY <1>2, <3>1, SchedAssumption
    <3> QED BY <1>1, <1>2, <1>3, <3>2 DEF IInv, TypeOK
  <2>2. slot' \in [Prios -> 0 .. MAX_PRIO]
    <3>1. sl[q] - 1 \in 0 .. MAX_PRIO
      BY <1>1, SchedAssumption
    <3> QED BY <3>1, <1>3
  <2>3. cur' \in Prios
    BY <1>1, <1>3, PriosType
  <2> QED BY <1>2, <1>3, <2>1, <2>2, <2>3 DEF IInv, TypeOK
<1>6. HeldInv'
  BY <1>3, <1>4 DEF IInv, TypeOK, HeldInv
<1>7. QueueInv'
  <2> SUFFICES ASSUME NEW r \in Prios
               PROVE  /\ NoRepeat(mlq'[r])
                      /\ \A x \in Procs : Occurs(mlq'[r], x) =>
                           prio[x] = r /\ phase[x] = "live" /\ ~HeldBySomeCPU(x)'
    BY <1>3 DEF QueueInv
  <2>1. mlq'[r] = IF r = q THEN Tail(mlq[q]) ELSE mlq[r]
    BY <1>3 DEF IInv, TypeOK
  <2>2. NoRepeat(mlq'[r])
    BY <2>1, <1>2 DEF IInv, QueueInv
  <2>3. ASSUME NEW x \in Procs, Occurs(mlq'[r], x)
        PROVE  prio[x] = r /\ phase[x] = "live" /\ ~HeldBySomeCPU(x)'
    <3>1. Occurs(mlq[r], x)
      BY <2>1, <2>3, <1>2
    <3>2. prio[x] = r /\ phase[x] = "live" /\ ~HeldBySomeCPU(x)
      BY <3>1 DEF IInv, QueueInv
    <3>3. x # p
      BY <3>2, <1>4, <2>1, <2>3, <1>2
    <3>4. ~HeldBySomeCPU(x)'
      BY <3>2, <3>3, <1>3 DEF HeldBySomeCPU, IInv, TypeOK
    <3> QED BY <3>2, <3>4
  <2> QED BY <2>2, <2>3
<1>8. ListInv'
  BY <1>3 DEF IInv, ListInv
<1> QED BY <1>5, <1>6, <1>7, <1>8 DEF IInv

\* A put or an add puts p at the end of its level; p was in no queue before.
LEMMA EnqueueQueueInv ==
    ASSUME TypeOK, QueueInv, NEW p \in Procs,
           \A q \in Prios : ~Occurs(mlq[q], p),
           prio' = [prio EXCEPT ![p] = normalize_prio(prio[p])],
           mlq' = [mlq EXCEPT ![normalize_prio(prio[p])] =
                      enqueue(mlq[normalize_prio(prio[p])], p)],
           phase'[p] = "live", ~HeldBySomeCPU(p)',
           \A r \in Procs \ {p} :
              phase'[r] = phase[r] /\ (HeldBySomeCPU(r)' => HeldBySomeCPU(r))
    PROVE  /\ QueueInv'
           /\ mlq' \in [Prios -> Seq(Procs)]
           /\ \A q \in Prios : Len(mlq'[q]) <= MAX_QUEUE_SIZE
           /\ prio' \in [Procs -> Nat]
<1> DEFINE q == normalize_prio(prio[p])
           e == enqueue(mlq[q], p)
<1>1. q \in Prios /\ q \in Nat
  <2>1. q \in Prios
    BY PriosType DEF TypeOK
  <2> QED BY <2>1, SchedAssumption DEF Prios
<1>2. mlq[q] \in Seq(Procs) /\ Len(mlq[q]) <= MAX_QUEUE_SIZE /\ NoRepeat(mlq[q])
  BY <1>1 DEF TypeOK, QueueInv
<1>3. /\ e \in Seq(Procs) /\ Len(e) <= MAX_QUEUE_SIZE /\ NoRepeat(e)
      /\ \A r : Occurs(e, r) => Occurs(mlq[q], r) \/ r = p
  BY <1>1, <1>2, EnqueueFacts, EnqueueOccurs
<1>4. mlq' = [mlq EXCEPT ![q] = e] /\ prio' = [prio EXCEPT ![p] = q]
  OBVIOUS
<1> HIDE DEF q, e
<1>5. mlq' \in [Prios -> Seq(Procs)] /\ \A r \in Prios : Len(mlq'[r]) <= MAX_QUEUE_SIZE
  BY <1>1, <1>3, <1>4 DEF TypeOK
<1>6. prio' \in [Procs -> Nat]
  BY <1>1, <1>4 DEF TypeOK
<1>7. QueueInv'
  <2> SUFFICES ASSUME NEW r \in Prios
               PROVE  /\ NoRepeat(mlq'[r])
                      /\ \A x \in Procs : Occurs(mlq'[r], x) =>
                           prio'[x] = r /\ phase'[x] = "live" /\ ~HeldBySomeCPU(x)'
    BY DEF QueueInv
  <2>1. mlq'[r] = IF r = q THEN e ELSE mlq[r]
    BY <1>4 DEF TypeOK
  <2>2. NoRepeat(mlq'[r])
    BY <2>1, <1>3 DEF QueueInv
  <2>3. ASSUME NEW x \in Procs, Occurs(mlq'[r], x)
        PROVE  prio'[x] = r /\ phase'[x] = "live" /\ ~HeldBySomeCPU(x)'
    <3>1. CASE x = p
      <4>1. r = q
        BY <2>1, <2>3, <3>1
      <4> QED BY <3>1, <4>1, <1>4 DEF TypeOK
    <3>2. CASE x # p
      <4>1. Occurs(mlq[r], x)
        BY <2>1, <2>3, <3>2, <1>3
      <4> QED BY <4>1, <3>2, <1>4 DEF TypeOK, QueueInv
    <3> QED BY <3>1, <3>2
  <2> QED BY <2>2, <2>3
<1> QED BY <1>5, <1>6, <1>7

\* Every call of the scheduler keeps the invariant.
LEMMA NextInv == IInv /\ [Next]_vars => IInv'
<1> SUFFICES ASSUME IInv, [Next]_vars PROVE IInv'
  OBVIOUS
<1>1. ASSUME NEW p \in Procs, add_proc(p) PROVE IInv'
  <2>1. /\ phase[p] = "new"
        /\ \A q \in Prios : ~Occurs(mlq[q], p)
        /\ ~Occurs(running_list, p)
        /\ \A c \in CPUs : held[c] # p
    BY <1>1, SchedAssumption DEF add_proc, add_mlq_proc, put_mlq_proc, IInv, QueueInv, ListInv, HeldInv
  <2>2. /\ prio' = [prio EXCEPT ![p] = normalize_prio(prio[p])]
        /\ mlq' = [mlq EXCEPT ![normalize_prio(prio[p])] =
                      enqueue(mlq[normalize_prio(prio[p])], p)]
        /\ running_list' = enqueue(running_list, p)
        /\ phase' = [phase EXCEPT ![p] = "live"]
        /\ slot' = slot /\ cur' = cur /\ held' = held
    BY <1>1 DEF add_proc, add_mlq_proc, put_mlq_proc
  <2>3. phase'[p] = "live" /\ \A r \in Procs \ {p} : phase'[r] = phase[r]
    BY <2>2 DEF IInv, TypeOK
  <2>4. /\ QueueInv'
        /\ mlq' \in [Prios -> Seq(Procs)]
        /\ \A q \in Prios : Len(mlq'[q]) <= MAX_QUEUE_SIZE
        /\ prio' \in [Procs -> Nat]
    BY <2>1, <2>2, <2>3, EnqueueQueueInv DEF IInv, HeldBySomeCPU
  <2>5. running_list' \in Seq(Procs) /\ Len(running_list') <= MAX_QUEUE_SIZE
    BY <2>2, EnqueueFacts DEF IInv, TypeOK
  <2>6. TypeOK'
    BY <2>2, <2>4, <2>5 DEF IInv, TypeOK, Phases
  <2>7. HeldInv'
    BY <2>1, <2>2, <2>3 DEF IInv, TypeOK, HeldInv
  <2>8. ListInv'
    BY <2>1, <2>2, <2>3, EnqueueOccurs DEF IInv, TypeOK, ListInv
  <2> QED BY <2>4, <2>6, <2>7, <2>8 DEF IInv
<1>2. ASSUME NEW c \in CPUs, get_proc(c) PROVE IInv'
  <2> USE <1>2 DEF get_proc, get_mlq_proc
  <2>1. CASE GetNothing(c)
    BY <2>1 DEF GetNothing, IInv, TypeOK, HeldInv, QueueInv, ListInv, HeldBySomeCPU
  <2>2. CASE GetEligible(c)
    <3>1. PICK q \in Eligible : Dispatch(c, q, slot)
      BY <2>2 DEF GetEligible
    <3>2. q \in NonEmpty /\ slot[q] > 0 /\ slot \in [Prios -> 0 .. MAX_PRIO]
      BY <3>1 DEF Eligible, IInv, TypeOK
    <3> QED BY <3>1, <3>2, DispatchInv
  <2>3. CASE GetAfterReset(c)
    <3>1. PICK q \in NonEmpty : Dispatch(c, q, reset_mlq_slot)
      BY <2>3 DEF GetAfterReset
    <3>2. reset_mlq_slot \in [Prios -> 0 .. MAX_PRIO] /\ reset_mlq_slot[q] > 0
      BY <3>1, PriosType, SchedAssumption DEF NonEmpty
    <3> QED BY <3>1, <3>2, DispatchInv
  <2> QED BY <2>1, <2>2, <2>3
<1>3. ASSUME NEW c \in CPUs, put_proc(c) PROVE IInv'
  <2>0. PICK p \in Procs : p = held[c]
    BY <1>3 DEF put_proc, put_mlq_proc, IInv, TypeOK
  <2>1. /\ p # NoProc /\ phase[p] = "live"
        /\ \A q \in Prios : ~Occurs(mlq[q], p)
        /\ \A d \in CPUs : held[d] = p => d = c
    BY <1>3, <2>0 DEF put_proc, put_mlq_proc, IInv, TypeOK, QueueInv, HeldInv, HeldBySomeCPU
  <2>2. /\ prio' = [prio EXCEPT ![p] = normalize_prio(prio[p])]
        /\ mlq' = [mlq EXCEPT ![normalize_prio(prio[p])] =
                      enqueue(mlq[normalize_prio(prio[p])], p)]
        /\ held' = [held EXCEPT ![c] = NoProc]
        /\ running_list' = running_list /\ phase' = phase
        /\ slot' = slot /\ cur' = cur
    BY <1>3, <2>0 DEF put_proc, put_mlq_proc
  <2>3. /\ ~HeldBySomeCPU(p)'
        /\ \A r \in Procs : HeldBySomeCPU(r)' => HeldBySomeCPU(r)
    BY <2>1, <2>2, SchedAssumption DEF HeldBySomeCPU, IInv, TypeOK
  <2>4. /\ QueueInv'
        /\ mlq' \in [Prios -> Seq(Procs)]
        /\ \A q \in Prios : Len(mlq'[q]) <= MAX_QUEUE_SIZE
        /\ prio' \in [Procs -> Nat]
    BY <2>1, <2>2, <2>3, EnqueueQueueInv DEF IInv
  <2>5. TypeOK'
    BY <2>2, <2>4 DEF IInv, TypeOK
  <2>6. HeldInv'
    BY <2>2 DEF IInv, TypeOK, HeldInv
  <2>7. ListInv'
    BY <2>2 DEF IInv, ListInv
  <2> QED BY <2>4, <2>5, <2>6, <2>7 DEF IInv
<1>4. ASSUME NEW c \in CPUs, remove_proc(c) PROVE IInv'
  <2> DEFINE p == held[c]
  <2>1. /\ p \in Procs /\ p # NoProc
        /\ \A q \in Prios : ~Occurs(mlq[q], p)
    BY <1>4 DEF remove_proc, IInv, TypeOK, QueueInv, HeldBySomeCPU
  <2>2. /\ running_list' = purgequeue(running_list, p)
        /\ phase' = [phase EXCEPT ![p] = "removed"]
        /\ mlq' = mlq /\ slot' = slot /\ cur' = cur /\ prio' = prio /\ held' = held
    BY <1>4 DEF remove_proc
  <2> HIDE DEF p
  <2>3. /\ running_list' \in Seq(Procs)
        /\ Len(running_list') <= MAX_QUEUE_SIZE
        /\ NoRepeat(running_list')
        /\ \A r : Occurs(running_list', r) => Occurs(running_list, r) /\ r # p
    BY <2>1, <2>2, PurgeOccurs, SchedAssumption DEF IInv, TypeOK, ListInv
  <2>4. TypeOK'
    BY <2>1, <2>2, <2>3 DEF IInv, TypeOK, Phases
  <2>5. HeldInv'
    BY <2>1, <2>2 DEF IInv, TypeOK, HeldInv
  <2>6. QueueInv'
    BY <2>1, <2>2 DEF IInv, TypeOK, QueueInv, HeldBySomeCPU
  <2>7. ListInv'
    BY <2>2, <2>3 DEF IInv, TypeOK, ListInv
  <2> QED BY <2>4, <2>5, <2>6, <2>7 DEF IInv
<1>5. ASSUME NEW c \in CPUs, free_pcb(c) PROVE IInv'
  <2> DEFINE p == held[c]
  <2>1. /\ p \in Procs /\ p # NoProc /\ phase[p] = "removed"
        /\ \A q \in Prios : ~Occurs(mlq[q], p)
        /\ ~Occurs(running_list, p)
        /\ \A d \in CPUs : held[d] = p => d = c
    BY <1>5 DEF free_pcb, IInv, TypeOK, QueueInv, HeldInv, ListInv, HeldBySomeCPU
  <2>2. /\ phase' = [phase EXCEPT ![p] = "freed"]
        /\ held' = [held EXCEPT ![c] = NoProc]
        /\ mlq' = mlq /\ slot' = slot /\ cur' = cur
        /\ running_list' = running_list /\ prio' = prio
    BY <1>5 DEF free_pcb
  <2> HIDE DEF p
  <2>3. TypeOK'
    BY <2>1, <2>2 DEF IInv, TypeOK, Phases
  <2>4. HeldInv'
    BY <2>1, <2>2 DEF IInv, TypeOK, HeldInv
  <2>5. QueueInv'
    BY <2>1, <2>2, SchedAssumption DEF IInv, TypeOK, QueueInv, HeldBySomeCPU
  <2>6. ListInv'
    BY <2>1, <2>2 DEF IInv, TypeOK, ListInv
  <2> QED BY <2>3, <2>4, <2>5, <2>6 DEF IInv
<1>6. ASSUME UNCHANGED vars PROVE IInv'
  BY <1>6 DEF vars, IInv, TypeOK, HeldInv, QueueInv, ListInv, HeldBySomeCPU
<1> QED BY <1>1, <1>2, <1>3, <1>4, <1>5, <1>6 DEF Next

\* The inductive invariant holds in every state of the scheduler, full queues
\* included (get_proc, put_proc, add_proc, remove_proc, free_pcb).
THEOREM SchedInvariant == Spec => []IInv
  BY InitInv, NextInv, PTL DEF Spec

----------------------------------------------------------------------------
(* What follows from it.                                                    *)

\* Every variable of the scheduler keeps its type; no queue grows beyond
\* MAX_QUEUE_SIZE and no slot below 0 (get_mlq_proc, enqueue).
THEOREM TypeCorrect == Spec => []TypeOK
<1>1. IInv => TypeOK
  BY DEF IInv
<1> QED BY <1>1, SchedInvariant, PTL

\* No process is dispatched twice, even when the queues overflow.
THEOREM ExclusiveHolds == Spec => []Exclusive
<1>1. IInv => Exclusive
  <2> SUFFICES ASSUME IInv PROVE Exclusive
    OBVIOUS
  <2>1. ASSUME NEW q \in Prios, NEW i \in 1 .. Len(mlq[q])
        PROVE  /\ prio[mlq[q][i]] = q
               /\ ~HeldBySomeCPU(mlq[q][i])
    <3>1. mlq[q][i] \in Procs
      BY DEF IInv, TypeOK
    <3>2. Occurs(mlq[q], mlq[q][i])
      BY DEF Occurs
    <3> QED BY <3>1, <3>2 DEF IInv, QueueInv
  <2> QED BY <2>1 DEF IInv, HeldInv, QueueInv, NoRepeat, Exclusive
<1> QED BY <1>1, SchedInvariant, PTL

\* After free_pcb no queue, no CPU and no running list refers to the PCB, even
\* when the queues overflow.
THEOREM NoFreedReferenceHolds == Spec => []NoFreedReference
<1>1. IInv => NoFreedReference
  <2> SUFFICES ASSUME IInv, NEW p \in Procs, phase[p] = "freed"
               PROVE  ~HeldBySomeCPU(p) /\ ~Listed(p) /\ \A q \in Prios : ~ReadyAt(p, q)
    BY DEF NoFreedReference
  <2>1. ~HeldBySomeCPU(p)
    BY SchedAssumption DEF IInv, HeldInv, HeldBySomeCPU
  <2>2. ~Listed(p)
    BY DEF IInv, ListInv, Listed, Occurs
  <2>3. \A q \in Prios : ~ReadyAt(p, q)
    BY DEF IInv, QueueInv, ReadyAt, Occurs
  <2> QED BY <2>1, <2>2, <2>3
<1> QED BY <1>1, SchedInvariant, PTL

----------------------------------------------------------------------------
(* Nothing is lost when MAX_QUEUE_SIZE is at least the number of processes. *)

\* A queue without repetition from which p is missing has room for p.
LEMMA RoomFor ==
    ASSUME FitsQueues, NEW s \in Seq(Procs), NoRepeat(s),
           NEW p \in Procs, ~Occurs(s, p)
    PROVE  Len(s) < MAX_QUEUE_SIZE
<1>1. IsFiniteSet(Procs \ {p}) /\ Cardinality(Procs \ {p}) = Cardinality(Procs) - 1
  BY FS_RemoveElement DEF FitsQueues
<1>2. Cardinality(Procs) \in Nat
  BY FS_CardinalityType DEF FitsQueues
<1>3. IsFiniteSet(1 .. Len(s)) /\ Cardinality(1 .. Len(s)) = Len(s)
  <2>1. Len(s) \in Nat /\ Len(s) \in Int /\ 1 \in Int
    OBVIOUS
  <2>2. /\ IsFiniteSet(1 .. Len(s))
        /\ Cardinality(1 .. Len(s)) = IF 1 > Len(s) THEN 0 ELSE Len(s) - 1 + 1
    BY <2>1, FS_Interval, Zenon
  <2> QED BY <2>1, <2>2
<1>4. s \in [1 .. Len(s) -> Procs \ {p}]
  BY DEF Occurs
<1>5. Len(s) <= Cardinality(Procs \ {p})
  <2> SUFFICES ASSUME Cardinality(Procs \ {p}) < Cardinality(1 .. Len(s)) PROVE FALSE
    BY <1>1, <1>2, <1>3
  <2> QED BY <1>1, <1>3, <1>4, FS_PigeonHole DEF NoRepeat
<1> QED BY <1>1, <1>2, <1>5, SchedAssumption DEF FitsQueues

Kept == NoneLost /\ \A p \in Procs : phase[p] = "live" => Occurs(running_list, p)

\* What an enqueue does to Kept: p becomes ready, the others stay where they were.
LEMMA EnqueueKept ==
    ASSUME FitsQueues, IInv, NEW p \in Procs,
           \A q \in Prios : ~Occurs(mlq[q], p),
           mlq' = [mlq EXCEPT ![normalize_prio(prio[p])] =
                      enqueue(mlq[normalize_prio(prio[p])], p)]
    PROVE  /\ \E q \in Prios : Occurs(mlq'[q], p)
           /\ \A r \in Procs, q \in Prios : Occurs(mlq[q], r) => Occurs(mlq'[q], r)
<1> DEFINE q == normalize_prio(prio[p])
<1>1. q \in Prios
  BY PriosType DEF IInv, TypeOK
<1>2. mlq[q] \in Seq(Procs) /\ Len(mlq[q]) <= MAX_QUEUE_SIZE /\ NoRepeat(mlq[q])
  BY <1>1 DEF IInv, TypeOK, QueueInv
<1>3. Len(mlq[q]) < MAX_QUEUE_SIZE
  BY <1>1, <1>2, RoomFor
<1>4. /\ Occurs(enqueue(mlq[q], p), p)
      /\ \A r : Occurs(mlq[q], r) => Occurs(enqueue(mlq[q], p), r)
  BY <1>2, <1>3, EnqueueOccurs
<1>5. mlq' = [mlq EXCEPT ![q] = enqueue(mlq[q], p)]
  OBVIOUS
<1> HIDE DEF q
<1> QED BY <1>1, <1>4, <1>5 DEF IInv, TypeOK

Placed(p) == HeldBySomeCPU(p) \/ \E q \in Prios : Occurs(mlq[q], p)

\* The same for the body of get_mlq_proc: the head moves to the CPU.
LEMMA DispatchKept ==
    ASSUME IInv, NEW c \in CPUs, held[c] = NoProc, NEW q \in NonEmpty, NEW sl,
           Dispatch(c, q, sl), NEW p \in Procs, Placed(p)
    PROVE  Placed(p)'
<1>1. q \in Prios /\ mlq[q] \in Seq(Procs) /\ mlq[q] # <<>>
  BY DEF NonEmpty, IInv, TypeOK
<1>2. \A r : Occurs(mlq[q], r) => r = Head(mlq[q]) \/ Occurs(Tail(mlq[q]), r)
  BY <1>1, TailOccurs
<1>3. held' = [held EXCEPT ![c] = Head(mlq[q])] /\ mlq' = [mlq EXCEPT ![q] = Tail(mlq[q])]
  BY DEF Dispatch
<1>4. CASE HeldBySomeCPU(p)
  BY <1>3, <1>4, SchedAssumption DEF HeldBySomeCPU, Placed, IInv, TypeOK
<1>5. ASSUME NEW r \in Prios, Occurs(mlq[r], p) PROVE Placed(p)'
  <2>1. CASE r = q /\ p = Head(mlq[q])
    BY <1>3, <2>1 DEF HeldBySomeCPU, Placed, IInv, TypeOK
  <2>2. CASE ~(r = q /\ p = Head(mlq[q]))
    <3>1. Occurs(mlq'[r], p)
      BY <1>1, <1>2, <1>3, <1>5, <2>2 DEF IInv, TypeOK
    <3> QED BY <3>1 DEF Placed
  <2> QED BY <2>1, <2>2
<1> QED BY <1>4, <1>5 DEF Placed

\* NoneLost in terms of Placed.
LEMMA PlacedIsNoneLost ==
    NoneLost <=> \A p \in Procs : phase[p] = "live" => Placed(p)
  BY DEF NoneLost, Placed, ReadyAt, Occurs

\* Every call of the scheduler keeps each live process in its place, given room.
LEMMA NextKept == FitsQueues /\ IInv /\ Kept /\ [Next]_vars => Kept'
<1> SUFFICES ASSUME FitsQueues, IInv, Kept, [Next]_vars PROVE Kept'
  OBVIOUS
<1>0. \A r \in Procs : phase[r] = "live" => Placed(r) /\ Occurs(running_list, r)
  BY PlacedIsNoneLost DEF Kept
<1> SUFFICES ASSUME NEW r \in Procs, phase'[r] = "live"
             PROVE  Placed(r)' /\ Occurs(running_list', r)
  BY DEF Kept, NoneLost, Placed, ReadyAt, Occurs
<1>1. ASSUME NEW p \in Procs, add_proc(p) PROVE Placed(r)' /\ Occurs(running_list', r)
  <2>1. /\ phase[p] = "new"
        /\ \A q \in Prios : ~Occurs(mlq[q], p)
        /\ ~Occurs(running_list, p)
    BY <1>1 DEF add_proc, add_mlq_proc, put_mlq_proc, IInv, QueueInv, ListInv
  <2>2. /\ mlq' = [mlq EXCEPT ![normalize_prio(prio[p])] =
                      enqueue(mlq[normalize_prio(prio[p])], p)]
        /\ running_list' = enqueue(running_list, p)
        /\ phase' = [phase EXCEPT ![p] = "live"]
        /\ held' = held
    BY <1>1 DEF add_proc, add_mlq_proc, put_mlq_proc
  <2>3. Len(running_list) < MAX_QUEUE_SIZE
    BY <2>1, RoomFor DEF IInv, TypeOK, ListInv
  <2>4. /\ Occurs(running_list', p)
        /\ Occurs(running_list, r) => Occurs(running_list', r)
    BY <2>2, <2>3, EnqueueOccurs DEF IInv, TypeOK
  <2>5. /\ \E q \in Prios : Occurs(mlq'[q], p)
        /\ \A q \in Prios : Occurs(mlq[q], r) => Occurs(mlq'[q], r)
    BY <2>1, <2>2, EnqueueKept
  <2>6. r = p \/ phase[r] = "live"
    BY <2>2 DEF IInv, TypeOK
  <2> QED BY <1>0, <2>2, <2>4, <2>5, <2>6 DEF Placed, HeldBySomeCPU
<1>2. ASSUME NEW c \in CPUs, get_proc(c) PROVE Placed(r)' /\ Occurs(running_list', r)
  <2>1. held[c] = NoProc /\ running_list' = running_list /\ phase' = phase
    BY <1>2 DEF get_proc, get_mlq_proc
  <2>2. Placed(r) /\ Occurs(running_list, r)
    BY <1>0, <2>1
  <2>3. CASE GetNothing(c)
    BY <2>1, <2>2, <2>3 DEF GetNothing, Placed, HeldBySomeCPU
  <2>4. CASE GetEligible(c)
    <3>1. PICK q \in NonEmpty : Dispatch(c, q, slot)
      BY <2>4 DEF GetEligible, Eligible
    <3> QED BY <3>1, <2>1, <2>2, DispatchKept
  <2>5. CASE GetAfterReset(c)
    <3>1. PICK q \in NonEmpty : Dispatch(c, q, reset_mlq_slot)
      BY <2>5 DEF GetAfterReset
    <3> QED BY <3>1, <2>1, <2>2, DispatchKept
  <2> QED BY <1>2, <2>3, <2>4, <2>5 DEF get_proc, get_mlq_proc
<1>3. ASSUME NEW c \in CPUs, put_proc(c) PROVE Placed(r)' /\ Occurs(running_list', r)
  <2>0. PICK p \in Procs : p = held[c]
    BY <1>3 DEF put_proc, put_mlq_proc, IInv, TypeOK
  <2>1. \A q \in Prios : ~Occurs(mlq[q], p)
    BY <2>0 DEF IInv, QueueInv, HeldBySomeCPU
  <2>2. /\ mlq' = [mlq EXCEPT ![normalize_prio(prio[p])] =
                      enqueue(mlq[normalize_prio(prio[p])], p)]
        /\ held' = [held EXCEPT ![c] = NoProc]
        /\ running_list' = running_list /\ phase' = phase
    BY <1>3, <2>0 DEF put_proc, put_mlq_proc
  <2>3. /\ \E q \in Prios : Occurs(mlq'[q], p)
        /\ \A q \in Prios : Occurs(mlq[q], r) => Occurs(mlq'[q], r)
    BY <2>1, <2>2, EnqueueKept
  <2>4. r # p /\ HeldBySomeCPU(r) => HeldBySomeCPU(r)'
    BY <2>0, <2>2 DEF HeldBySomeCPU, IInv, TypeOK
  <2> QED BY <1>0, <2>2, <2>3, <2>4 DEF Placed
<1>4. ASSUME NEW c \in CPUs, remove_proc(c) PROVE Placed(r)' /\ Occurs(running_list', r)
  <2>0. PICK p \in Procs : p = held[c]
    BY <1>4 DEF remove_proc, IInv, TypeOK
  <2>1. /\ running_list' = purgequeue(running_list, p)
        /\ phase' = [phase EXCEPT ![p] = "removed"]
        /\ mlq' = mlq /\ held' = held
    BY <1>4, <2>0 DEF remove_proc
  <2>2. r # p /\ phase[r] = "live"
    BY <2>1 DEF IInv, TypeOK
  <2>3. Occurs(running_list', r)
    BY <1>0, <2>1, <2>2, PurgeOccurs DEF IInv, TypeOK, ListInv
  <2> QED BY <1>0, <2>1, <2>2, <2>3 DEF Placed, HeldBySomeCPU
<1>5. ASSUME NEW c \in CPUs, free_pcb(c) PROVE Placed(r)' /\ Occurs(running_list', r)
  <2>0. PICK p \in Procs : p = held[c]
    BY <1>5 DEF free_pcb, IInv, TypeOK
  <2>1. /\ phase' = [phase EXCEPT ![p] = "freed"]
        /\ held' = [held EXCEPT ![c] = NoProc]
        /\ mlq' = mlq /\ running_list' = running_list
    BY <1>5, <2>0 DEF free_pcb
  <2>2. r # p /\ phase[r] = "live"
    BY <2>1 DEF IInv, TypeOK
  <2>3. HeldBySomeCPU(r) => HeldBySomeCPU(r)'
    BY <2>0, <2>1, <2>2 DEF HeldBySomeCPU, IInv, TypeOK
  <2> QED BY <1>0, <2>1, <2>2, <2>3 DEF Placed
<1>6. ASSUME UNCHANGED vars PROVE Placed(r)' /\ Occurs(running_list', r)
  BY <1>0, <1>6 DEF vars, Placed, HeldBySomeCPU
<1> QED BY <1>1, <1>2, <1>3, <1>4, <1>5, <1>6 DEF Next

\* Nothing is live when init_scheduler returns.
LEMMA InitKept == Init => Kept
  BY DEF Init, Kept, NoneLost

\* With no more processes than a queue holds, enqueue never drops one: a loaded
\* process stays ready or on a CPU until it ends.
THEOREM NoneLostHolds == ASSUME FitsQueues PROVE Spec => []NoneLost
<1>1. Kept => NoneLost
  BY DEF Kept
<1>2. IInv /\ Kept /\ [Next]_vars => Kept'
  BY NextKept
<1> QED BY <1>1, <1>2, InitKept, SchedInvariant, PTL DEF Spec

\* Under the same condition a live process always finds itself by PID.
THEOREM FoundByPidHolds == ASSUME FitsQueues PROVE Spec => []FoundByPid
<1>1. IInv /\ Kept => FoundByPid
  <2> SUFFICES ASSUME IInv, Kept, NEW p \in Procs, phase[p] = "live"
               PROVE  sched_find_proc_by_pid(p) = p
    BY DEF FoundByPid
  <2>1. running_list \in Seq(Procs) /\ Occurs(running_list, p)
    BY DEF IInv, TypeOK, Kept
  <2>2. p \in ToSet(running_list)
    BY <2>1 DEF ToSet, Occurs
  <2> QED BY <2>2 DEF sched_find_proc_by_pid
<1>2. IInv /\ Kept /\ [Next]_vars => Kept'
  BY NextKept
<1> QED BY <1>1, <1>2, InitKept, SchedInvariant, PTL DEF Spec

----------------------------------------------------------------------------
(* What happens when the queues are too small.                              *)

\* An enqueue drops nobody who is ready, and takes p in unless its level is full.
LEMMA EnqueuePlaces ==
    ASSUME IInv, NEW p \in Procs,
           mlq' = [mlq EXCEPT ![normalize_prio(prio[p])] =
                      enqueue(mlq[normalize_prio(prio[p])], p)]
    PROVE  /\ Len(mlq[normalize_prio(prio[p])]) # MAX_QUEUE_SIZE =>
                \E q \in Prios : Occurs(mlq'[q], p)
           /\ \A r \in Procs, q \in Prios : Occurs(mlq[q], r) => Occurs(mlq'[q], r)
<1> DEFINE q == normalize_prio(prio[p])
<1>1. q \in Prios
  BY PriosType DEF IInv, TypeOK
<1>2. mlq[q] \in Seq(Procs) /\ Len(mlq[q]) <= MAX_QUEUE_SIZE
  BY <1>1 DEF IInv, TypeOK
<1>3. /\ Len(mlq[q]) < MAX_QUEUE_SIZE => Occurs(enqueue(mlq[q], p), p)
      /\ \A r : Occurs(mlq[q], r) => Occurs(enqueue(mlq[q], p), r)
  BY <1>2, EnqueueOccurs
<1>4. Len(mlq[q]) # MAX_QUEUE_SIZE => Len(mlq[q]) < MAX_QUEUE_SIZE
  BY <1>2, SchedAssumption
<1>5. mlq' = [mlq EXCEPT ![q] = enqueue(mlq[q], p)]
  OBVIOUS
<1> HIDE DEF q
<1>6. /\ Len(mlq[q]) # MAX_QUEUE_SIZE => \E r \in Prios : Occurs(mlq'[r], p)
      /\ \A r \in Procs, s \in Prios : Occurs(mlq[s], r) => Occurs(mlq'[s], r)
  BY <1>1, <1>3, <1>4, <1>5 DEF IInv, TypeOK
<1> QED BY <1>6 DEF q

\* A process that is ready or on a CPU stays so in every call, unless it ends, or is put
\* back to a level that is full.
LEMMA NextPlaces ==
    ASSUME IInv, [Next]_vars, NEW p \in Procs, phase'[p] = "live",
           phase[p] = "new" \/ Placed(p),
           Len(mlq[normalize_prio(prio[p])]) # MAX_QUEUE_SIZE
    PROVE  Placed(p)'
<1>0. /\ held \in [CPUs -> Procs \cup {NoProc}] /\ phase \in [Procs -> Phases]
      /\ NoProc \notin Procs
  BY SchedAssumption DEF IInv, TypeOK
<1>1. ASSUME NEW r \in Procs, add_proc(r) PROVE Placed(p)'
  <2>1. /\ mlq' = [mlq EXCEPT ![normalize_prio(prio[r])] =
                      enqueue(mlq[normalize_prio(prio[r])], r)]
        /\ phase' = [phase EXCEPT ![r] = "live"] /\ held' = held
    BY <1>1 DEF add_proc, add_mlq_proc, put_mlq_proc
  <2>2. r = p \/ Placed(p)
    BY <1>0, <2>1
  <2> QED BY <2>1, <2>2, EnqueuePlaces DEF Placed, HeldBySomeCPU
<1>2. ASSUME NEW c \in CPUs, get_proc(c) PROVE Placed(p)'
  <2>1. held[c] = NoProc /\ Placed(p)
    BY <1>2 DEF get_proc
  <2>2. CASE GetNothing(c)
    BY <2>1, <2>2 DEF GetNothing, Placed, HeldBySomeCPU
  <2>3. CASE GetEligible(c)
    <3>1. PICK q \in NonEmpty : Dispatch(c, q, slot)
      BY <2>3 DEF GetEligible, Eligible
    <3> QED BY <2>1, <3>1, DispatchKept
  <2>4. CASE GetAfterReset(c)
    <3>1. PICK q \in NonEmpty : Dispatch(c, q, reset_mlq_slot)
      BY <2>4 DEF GetAfterReset
    <3> QED BY <2>1, <3>1, DispatchKept
  <2> QED BY <1>2, <2>2, <2>3, <2>4 DEF get_proc, get_mlq_proc
<1>3. ASSUME NEW c \in CPUs, put_proc(c) PROVE Placed(p)'
  <2>0. PICK r \in Procs : r = held[c]
    BY <1>0, <1>3 DEF put_proc
  <2>1. /\ mlq' = [mlq EXCEPT ![normalize_prio(prio[r])] =
                      enqueue(mlq[normalize_prio(prio[r])], r)]
        /\ held' = [held EXCEPT ![c] = NoProc] /\ phase' = phase
    BY <1>3, <2>0 DEF put_proc, put_mlq_proc
  <2>2. r # p /\ HeldBySomeCPU(p) => HeldBySomeCPU(p)'
    BY <1>0, <2>0, <2>1 DEF HeldBySomeCPU
  <2> QED BY <2>1, <2>2, EnqueuePlaces DEF Placed
<1>4. ASSUME NEW c \in CPUs, remove_proc(c) PROVE Placed(p)'
  <2>1. mlq' = mlq /\ held' = held /\ phase[held[c]] = "live"
    BY <1>4 DEF remove_proc
  <2>2. Placed(p)
    BY <1>0, <1>4 DEF remove_proc
  <2> QED BY <2>1, <2>2 DEF Placed, HeldBySomeCPU
<1>5. ASSUME NEW c \in CPUs, free_pcb(c) PROVE Placed(p)'
  <2>1. /\ mlq' = mlq /\ held' = [held EXCEPT ![c] = NoProc] /\ held[c] \in Procs
        /\ phase' = [phase EXCEPT ![held[c]] = "freed"]
    BY <1>0, <1>5 DEF free_pcb
  <2>2. p # held[c] /\ phase[p] = "live"
    BY <1>0, <2>1
  <2> QED BY <1>0, <2>1, <2>2 DEF Placed, HeldBySomeCPU
<1>6. ASSUME UNCHANGED vars PROVE Placed(p)'
  BY <1>6 DEF vars, Placed, HeldBySomeCPU
<1> QED BY <1>1, <1>2, <1>3, <1>4, <1>5, <1>6 DEF Next

\* Whatever the size of the queues, a live process is lost only in a call that finds its own
\* level full (enqueue in put_mlq_proc and add_mlq_proc).
THEOREM OnlyOverflowLoses == Spec => LostOnlyByOverflow
<1>1. IInv /\ [Next]_vars =>
        [\A p \in Procs :
           /\ phase'[p] = "live"
           /\ phase[p] = "new" \/ HeldBySomeCPU(p) \/ \E q \in Prios : ReadyAt(p, q)
           /\ ~ HeldBySomeCPU(p)'
           /\ ~ (\E q \in Prios : ReadyAt(p, q))'
           => Len(mlq[normalize_prio(prio[p])]) = MAX_QUEUE_SIZE]_vars
  BY NextPlaces DEF Placed, ReadyAt, Occurs
<1> QED BY <1>1, SchedInvariant, PTL DEF Spec, LostOnlyByOverflow
=============================================================================
