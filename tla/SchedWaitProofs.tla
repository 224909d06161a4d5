-------------------------- MODULE SchedWaitProofs --------------------------
(***************************************************************************)
(* How long a ready process waits, for any finite set of processes.        *)
(*                                                                         *)
(* The bound of BoundedWait is not inductive: the argument is that a ready *)
(* process has a cost, the dispatches that may still come before its own,  *)
(* which every dispatch lowers by one and nothing else raises.             *)
(***************************************************************************)
EXTENDS SchedWait, SchedProofs

----------------------------------------------------------------------------
(* The cost of position i of level q when the levels have the slots sl: the *)
(* processes ahead, the slots of the other levels, and whole rounds of them *)
(* for each time that the slots of q have to be renewed.                    *)

SlotsOf(sl, q) == {x \in Prios \X (1 .. MAX_PRIO) : x[1] # q /\ x[2] <= sl[x[1]]}
RoundsLeft(a, s, m) == IF a < s THEN 0 ELSE (a - s + m) \div m
Cost(i, q, sl) ==
    (i - 1) + Cardinality(SlotsOf(sl, q))
      + OthersPerRound(q) * RoundsLeft(i - 1, sl[q], MAX_PRIO - q)
Pay(sl, r) == [sl EXCEPT ![r] = @ - 1]
Bound(p, q) == Peers(p, q) + OthersPerRound(q) + OthersPerRound(q) * RoundsFor(Peers(p, q), q)

\* Every level has at least one slot in a fresh round.
LEMMA LevelSlots ==
    ASSUME NEW q \in Prios
    PROVE  q \in Nat /\ MAX_PRIO - q \in Nat \ {0} /\ MAX_PRIO - q \in 1 .. MAX_PRIO
  BY SchedAssumption DEF Prios

\* Division by a level's slots: what it returns, one round more, and its order.
LEMMA DivFacts ==
    ASSUME NEW x \in Nat, NEW y \in Nat, NEW m \in Nat \ {0}
    PROVE  /\ x \div m \in Nat
           /\ (x + m) \div m = (x \div m) + 1
           /\ x <= y => x \div m <= y \div m
<1> DEFINE d == x \div m
           e == y \div m
<1>1. d \in Nat /\ e \in Nat
  OBVIOUS
<1>2. m * d <= x /\ x < m * d + m /\ m * e <= y /\ y < m * e + m
  OBVIOUS
<1>3. (x + m) \div m = d + 1
  <2> DEFINE f == (x + m) \div m
  <2>1. f \in Nat /\ m * f <= x + m /\ x + m < m * f + m
    OBVIOUS
  <2> HIDE DEF d, f
  <2>2. ~(f > d + 1)
    <3> SUFFICES ASSUME f >= d + 2 PROVE FALSE
      BY <1>1, <2>1
    <3>1. m * f >= m * (d + 2)
      BY <1>1, <2>1
    <3>2. m * (d + 2) = m * d + m + m
      BY <1>1
    <3> QED BY <1>1, <1>2, <2>1, <3>1, <3>2
  <2>3. ~(f < d + 1)
    <3> SUFFICES ASSUME f <= d PROVE FALSE
      BY <1>1, <2>1
    <3>1. m * f <= m * d
      BY <1>1, <2>1
    <3> QED BY <1>1, <1>2, <2>1, <3>1
  <2> QED BY <1>1, <2>1, <2>2, <2>3 DEF f
<1>4. x <= y => d <= e
  <2> HIDE DEF d, e
  <2> SUFFICES ASSUME x <= y, d >= e + 1 PROVE FALSE
    BY <1>1
  <2>1. m * d >= m * (e + 1)
    BY <1>1
  <2>2. m * (e + 1) = m * e + m
    BY <1>1
  <2> QED BY <1>1, <1>2, <2>1, <2>2
<1> QED BY <1>1, <1>3, <1>4

\* The slots are a finite set of pairs.
LEMMA SlotsFinite ==
    ASSUME NEW q, NEW sl
    PROVE  IsFiniteSet(SlotsOf(sl, q)) /\ Cardinality(SlotsOf(sl, q)) \in Nat
<1>1. IsFiniteSet(Prios) /\ IsFiniteSet(1 .. MAX_PRIO)
  <2>1. 0 \in Int /\ 1 \in Int /\ MAX_PRIO \in Int /\ MAX_PRIO - 1 \in Int
    BY SchedAssumption
  <2> QED BY <2>1, FS_Interval DEF Prios
<1>2. IsFiniteSet(Prios \X (1 .. MAX_PRIO))
  BY <1>1, FS_Product
<1>3. SlotsOf(sl, q) \in SUBSET (Prios \X (1 .. MAX_PRIO))
  BY DEF SlotsOf
<1> QED BY <1>2, <1>3, FS_Subset, FS_CardinalityType

\* OthersPerRound counts the slots that reset_mlq_slot gives to others.
LEMMA FreshSlots ==
    ASSUME NEW q
    PROVE  OthersPerRound(q) = Cardinality(SlotsOf(reset_mlq_slot, q))
<1>1. {x \in Prios \X (1 .. MAX_PRIO) : x[1] # q /\ x[2] <= MAX_PRIO - x[1]} = SlotsOf(reset_mlq_slot, q)
  BY DEF SlotsOf, reset_mlq_slot
<1> QED BY <1>1 DEF OthersPerRound

\* RoundsLeft is a number of rounds; a level that pays with a slot and loses
\* its first process needs as many rounds for the rest; renewing the slots
\* of a level that has none is one of its rounds.
LEMMA RoundsFacts ==
    ASSUME NEW a \in Nat, NEW m \in Nat \ {0}, NEW s \in 0 .. m
    PROVE  /\ RoundsLeft(a, s, m) \in Nat
           /\ a > 0 /\ s > 0 => RoundsLeft(a - 1, s - 1, m) = RoundsLeft(a, s, m)
           /\ RoundsLeft(a, 0, m) = RoundsLeft(a, m, m) + 1
           /\ RoundsLeft(a, s, m) <= (a + m) \div m
<1>1. RoundsLeft(a, s, m) \in Nat
  <2>1. CASE a < s
    BY <2>1 DEF RoundsLeft
  <2>2. CASE a >= s
    <3>1. a - s + m \in Nat
      BY <2>2
    <3>2. (a - s + m) \div m \in Nat
      BY <3>1, DivFacts
    <3> QED BY <2>2, <3>2 DEF RoundsLeft
  <2> QED BY <2>1, <2>2
<1>2. ASSUME a > 0, s > 0 PROVE RoundsLeft(a - 1, s - 1, m) = RoundsLeft(a, s, m)
  <2>1. (a - 1) - (s - 1) + m = a - s + m /\ (a - 1 < s - 1 <=> a < s)
    OBVIOUS
  <2> QED BY <2>1 DEF RoundsLeft
<1>3. RoundsLeft(a, 0, m) = RoundsLeft(a, m, m) + 1
  <2>1. RoundsLeft(a, 0, m) = (a + m) \div m
    BY DEF RoundsLeft
  <2>2. (a + m) \div m = (a \div m) + 1
    BY DivFacts
  <2>3. RoundsLeft(a, m, m) = a \div m
    <3>1. CASE a < m
      BY <3>1 DEF RoundsLeft
    <3>2. CASE a >= m
      <4>1. a - m + m = a
        OBVIOUS
      <4> QED BY <3>2, <4>1 DEF RoundsLeft
    <3> QED BY <3>1, <3>2
  <2> QED BY <2>1, <2>2, <2>3
<1>4. RoundsLeft(a, s, m) <= (a + m) \div m
  <2>1. (a + m) \div m \in Nat
    BY DivFacts
  <2>2. CASE a < s
    BY <2>1, <2>2 DEF RoundsLeft
  <2>3. CASE a >= s
    <3>1. a - s + m \in Nat /\ a + m \in Nat /\ a - s + m <= a + m
      BY <2>3
    <3>2. (a - s + m) \div m <= (a + m) \div m
      BY <3>1, DivFacts
    <3> QED BY <2>3, <3>2 DEF RoundsLeft
  <2> QED BY <2>2, <2>3
<1> QED BY <1>1, <1>2, <1>3, <1>4

\* A level that pays with a slot lowers the slots of the others by one.
LEMMA PaySlot ==
    ASSUME NEW sl \in [Prios -> 0 .. MAX_PRIO], NEW r \in Prios, sl[r] > 0, NEW q \in Prios
    PROVE  /\ r # q => Cardinality(SlotsOf(Pay(sl, r), q)) = Cardinality(SlotsOf(sl, q)) - 1
           /\ r = q => Cardinality(SlotsOf(Pay(sl, r), q)) = Cardinality(SlotsOf(sl, q))
<1> DEFINE pay == Pay(sl, r)
           x == <<r, sl[r]>>
<1>1. ASSUME r # q
      PROVE  Cardinality(SlotsOf(pay, q)) = Cardinality(SlotsOf(sl, q)) - 1
  <2>1. x \in SlotsOf(sl, q)
    <3>1. sl[r] \in 1 .. MAX_PRIO
      BY SchedAssumption
    <3> QED BY <1>1, <3>1 DEF SlotsOf
  <2>2. SlotsOf(pay, q) = SlotsOf(sl, q) \ {x}
    <3>1. ASSUME NEW n \in Prios, NEW j \in 1 .. MAX_PRIO
          PROVE  j <= pay[n] <=> j <= sl[n] /\ <<n, j>> # x
      <4>1. sl[n] \in 0 .. MAX_PRIO /\ j \in Nat /\ sl[n] \in Nat
        BY SchedAssumption
      <4>2. pay[n] = IF n = r THEN sl[n] - 1 ELSE sl[n]
        BY DEF Pay
      <4> QED BY <4>1, <4>2
    <3>2. ASSUME NEW y \in Prios \X (1 .. MAX_PRIO)
          PROVE  y \in SlotsOf(pay, q) <=> y \in SlotsOf(sl, q) /\ y # x
      <4>1. PICK n \in Prios, j \in 1 .. MAX_PRIO : y = <<n, j>>
        OBVIOUS
      <4>2. y[1] = n /\ y[2] = j
        BY <4>1
      <4> HIDE DEF x, pay
      <4> QED BY <4>1, <4>2, <3>1 DEF SlotsOf
    <3>3. SlotsOf(pay, q) \subseteq Prios \X (1 .. MAX_PRIO)
          /\ SlotsOf(sl, q) \subseteq Prios \X (1 .. MAX_PRIO)
      BY DEF SlotsOf
    <3> HIDE DEF x, pay
    <3> QED BY <3>2, <3>3, Zenon
  <2> QED BY <2>1, <2>2, SlotsFinite, FS_RemoveElement
<1>2. ASSUME r = q
      PROVE  SlotsOf(pay, q) = SlotsOf(sl, q)
  <2>1. \A n \in Prios : n # q => pay[n] = sl[n]
    BY <1>2 DEF Pay
  <2> QED BY <2>1 DEF SlotsOf
<1> QED BY <1>1, <1>2

\* The cost is a number.
LEMMA CostType ==
    ASSUME NEW q \in Prios, NEW i \in Nat \ {0}, NEW sl \in [Prios -> 0 .. MAX_PRIO],
           sl[q] <= MAX_PRIO - q
    PROVE  /\ Cost(i, q, sl) \in Nat
           /\ OthersPerRound(q) \in Nat
           /\ RoundsLeft(i - 1, sl[q], MAX_PRIO - q) \in Nat
           /\ OthersPerRound(q) * RoundsLeft(i - 1, sl[q], MAX_PRIO - q) \in Nat
<1>1. OthersPerRound(q) \in Nat /\ Cardinality(SlotsOf(sl, q)) \in Nat
  BY FreshSlots, SlotsFinite
<1>2. i - 1 \in Nat /\ MAX_PRIO - q \in Nat \ {0} /\ sl[q] \in 0 .. MAX_PRIO - q
  BY LevelSlots, SchedAssumption
<1>3. RoundsLeft(i - 1, sl[q], MAX_PRIO - q) \in Nat
  BY <1>2, RoundsFacts
<1>4. OthersPerRound(q) * RoundsLeft(i - 1, sl[q], MAX_PRIO - q) \in Nat
  BY <1>1, <1>3
<1> QED BY <1>1, <1>2, <1>3, <1>4 DEF Cost

\* A dispatch lowers the cost by one: of every process at another level, and of
\* those behind the head of its own, which move up by one.
LEMMA DispatchCost ==
    ASSUME NEW q \in Prios, NEW i \in Nat \ {0}, NEW sl \in [Prios -> 0 .. MAX_PRIO],
           sl[q] <= MAX_PRIO - q, NEW r \in Prios, sl[r] > 0
    PROVE  /\ r # q => Cost(i, q, Pay(sl, r)) = Cost(i, q, sl) - 1
           /\ r = q /\ i > 1 => Cost(i - 1, q, Pay(sl, r)) = Cost(i, q, sl) - 1
<1> DEFINE pay == Pay(sl, r)
           m == MAX_PRIO - q
           n == Cardinality(SlotsOf(sl, q))
           oth == OthersPerRound(q)
           R == RoundsLeft(i - 1, sl[q], m)
<1>1. n \in Nat /\ Cost(i, q, sl) \in Nat /\ oth * R \in Nat
  BY CostType, SlotsFinite
<1>2. ASSUME r # q PROVE Cost(i, q, pay) = Cost(i, q, sl) - 1
  <2>1. pay[q] = sl[q] /\ Cardinality(SlotsOf(pay, q)) = n - 1
    BY <1>2, PaySlot DEF Pay
  <2>2. Cost(i, q, pay) = (i - 1) + (n - 1) + oth * R /\ Cost(i, q, sl) = (i - 1) + n + oth * R
    BY <2>1 DEF Cost
  <2> HIDE DEF n, oth, R
  <2> QED BY <1>1, <2>2
<1>3. ASSUME r = q, i > 1 PROVE Cost(i - 1, q, pay) = Cost(i, q, sl) - 1
  <2>1. pay[q] = sl[q] - 1 /\ Cardinality(SlotsOf(pay, q)) = n
    BY <1>3, PaySlot DEF Pay
  <2>2. i - 1 \in Nat /\ i - 1 > 0 /\ m \in Nat \ {0} /\ sl[q] \in 0 .. m /\ sl[q] > 0
    BY <1>3, LevelSlots, SchedAssumption
  <2>3. RoundsLeft((i - 1) - 1, sl[q] - 1, m) = R
    BY <2>2, RoundsFacts
  <2>4. Cost(i - 1, q, pay) = ((i - 1) - 1) + n + oth * R /\ Cost(i, q, sl) = (i - 1) + n + oth * R
    BY <2>1, <2>3 DEF Cost
  <2> HIDE DEF n, oth, R
  <2> QED BY <1>1, <2>4
<1> QED BY <1>2, <1>3

\* reset_mlq_slot raises the cost of no process at a level without slots.
LEMMA ResetCost ==
    ASSUME NEW q \in Prios, NEW i \in Nat \ {0}, NEW sl \in [Prios -> 0 .. MAX_PRIO], sl[q] = 0
    PROVE  Cost(i, q, reset_mlq_slot) <= Cost(i, q, sl)
<1> DEFINE m == MAX_PRIO - q
           n == Cardinality(SlotsOf(sl, q))
           oth == OthersPerRound(q)
           R == RoundsLeft(i - 1, m, m)
<1>1. i - 1 \in Nat /\ m \in Nat \ {0} /\ m \in 0 .. m /\ n \in Nat /\ oth \in Nat
  BY LevelSlots, SlotsFinite, FreshSlots
<1>2. R \in Nat /\ RoundsLeft(i - 1, 0, m) = R + 1
  BY <1>1, RoundsFacts
<1>3. reset_mlq_slot[q] = m
  BY DEF reset_mlq_slot
<1>4. Cost(i, q, reset_mlq_slot) = (i - 1) + oth + oth * R
  BY <1>3, FreshSlots DEF Cost
<1>5. Cost(i, q, sl) = (i - 1) + n + oth * (R + 1)
  BY <1>2 DEF Cost
<1> HIDE DEF n, oth, R, m
<1>6. oth * (R + 1) = oth * R + oth /\ oth * R \in Nat
  BY <1>1, <1>2
<1> QED BY <1>1, <1>4, <1>5, <1>6

----------------------------------------------------------------------------
(* The bound a process gets when it becomes ready.                          *)

\* The processes ahead of position i in a queue of level q are among the peers
\* of the process there: a queue holds no process twice.
LEMMA AheadArePeers ==
    ASSUME IsFiniteSet(Procs), NEW q \in Prios, NEW s \in Seq(Procs), NoRepeat(s),
           \A j \in 1 .. Len(s) : normalize_prio(ConfPrio[s[j]]) = q,
           NEW i \in 1 .. Len(s)
    PROVE  i - 1 <= Peers(s[i], q) /\ Peers(s[i], q) \in Nat
<1> DEFINE P == {r \in Procs \ {s[i]} : normalize_prio(ConfPrio[r]) = q}
           ahead == [j \in 1 .. i - 1 |-> s[j]]
<1>1. IsFiniteSet(P) /\ Cardinality(P) \in Nat
  <2>1. P \in SUBSET Procs
    OBVIOUS
  <2> QED BY <2>1, FS_Subset, FS_CardinalityType
<1>2. i \in Nat /\ i - 1 \in Nat /\ Len(s) \in Nat
  OBVIOUS
<1>3. IsFiniteSet(1 .. i - 1) /\ Cardinality(1 .. i - 1) = i - 1
  <2>1. 1 \in Int /\ i - 1 \in Int
    BY <1>2
  <2>2. /\ IsFiniteSet(1 .. i - 1)
        /\ Cardinality(1 .. i - 1) = IF 1 > i - 1 THEN 0 ELSE (i - 1) - 1 + 1
    BY <2>1, FS_Interval, Zenon
  <2> QED BY <1>2, <2>2
<1>4. \A j \in 1 .. i - 1 : j \in 1 .. Len(s) /\ j # i
  BY <1>2
<1>5. ahead \in [1 .. i - 1 -> P]
  <2>1. \A j \in 1 .. Len(s) : s[j] \in Procs
    OBVIOUS
  <2> QED BY <1>4, <2>1 DEF NoRepeat
<1>6. \A j, k \in 1 .. i - 1 : j # k => ahead[j] # ahead[k]
  BY <1>4 DEF NoRepeat
<1>7. ~(Cardinality(P) < Cardinality(1 .. i - 1))
  <2> HIDE DEF P, ahead
  <2> QED BY <1>1, <1>3, <1>5, <1>6, FS_PigeonHole
<1>8. Peers(s[i], q) = Cardinality(P)
  BY DEF Peers
<1> HIDE DEF P
<1> QED BY <1>1, <1>2, <1>3, <1>7, <1>8

\* With at most k peers ahead, the cost is within the bound for k peers.
LEMMA EnterCost ==
    ASSUME NEW q \in Prios, NEW i \in Nat \ {0}, NEW sl \in [Prios -> 0 .. MAX_PRIO],
           \A r \in Prios : sl[r] <= MAX_PRIO - r,
           NEW p, Peers(p, q) \in Nat, i - 1 <= Peers(p, q)
    PROVE  Cost(i, q, sl) <= Bound(p, q)
<1> DEFINE m == MAX_PRIO - q
           n == Cardinality(SlotsOf(sl, q))
           oth == OthersPerRound(q)
           k == Peers(p, q)
           R == RoundsLeft(i - 1, sl[q], m)
           N == RoundsFor(k, q)
<1>1. i - 1 \in Nat /\ m \in Nat \ {0} /\ sl[q] \in 0 .. m /\ k \in Nat
  BY LevelSlots, SchedAssumption
<1>2. n \in Nat /\ oth \in Nat /\ n <= oth
  <2>1. SlotsOf(sl, q) \in SUBSET SlotsOf(reset_mlq_slot, q)
    <3>1. \A r \in Prios : reset_mlq_slot[r] = MAX_PRIO - r
      BY DEF reset_mlq_slot
    <3>2. \A r \in Prios : \A j \in 1 .. MAX_PRIO : j <= sl[r] => j <= reset_mlq_slot[r]
      BY <3>1, SchedAssumption DEF Prios
    <3> QED BY <3>2 DEF SlotsOf
  <2>2. n <= Cardinality(SlotsOf(reset_mlq_slot, q))
    BY <2>1, SlotsFinite, FS_Subset
  <2> QED BY <2>2, SlotsFinite, FreshSlots
<1>3. R \in Nat /\ N \in Nat /\ R <= N
  <2>1. R \in Nat /\ R <= (i - 1 + m) \div m
    BY <1>1, RoundsFacts
  <2>2. N = (k + m) \div m
    <3>1. k + MAX_PRIO - q = k + m
      BY <1>1, LevelSlots, SchedAssumption
    <3> QED BY <3>1 DEF RoundsFor
  <2>3. /\ (i - 1 + m) \div m <= (k + m) \div m
        /\ (i - 1 + m) \div m \in Nat /\ (k + m) \div m \in Nat
    <3>1. i - 1 + m \in Nat /\ k + m \in Nat /\ i - 1 + m <= k + m
      BY <1>1
    <3> HIDE DEF k, m
    <3> QED BY <1>1, <3>1, DivFacts
  <2> HIDE DEF k, m, N, R
  <2> QED BY <2>1, <2>2, <2>3
<1>4. oth * R <= oth * N /\ oth * R \in Nat /\ oth * N \in Nat
  <2> HIDE DEF oth, R, N
  <2> QED BY <1>2, <1>3
<1>5. Cost(i, q, sl) = (i - 1) + n + oth * R /\ Bound(p, q) = k + oth + oth * N
  BY DEF Cost, Bound
<1> HIDE DEF m, n, oth, k, R, N
<1> QED BY <1>1, <1>2, <1>4, <1>5 DEF k

----------------------------------------------------------------------------
(* The inductive invariant: what each ready process has waited and may have *)
(* to wait stays within its bound.                                          *)

SlotInv == \A q \in Prios : slot[q] <= MAX_PRIO - q
PrioInv == \A p \in Procs : normalize_prio(prio[p]) = normalize_prio(ConfPrio[p])
CostInv ==
    /\ waited \in [Procs -> Nat]
    /\ \A q \in Prios : \A i \in 1 .. Len(mlq[q]) :
          waited[mlq[q][i]] + Cost(i, q, slot) <= Bound(mlq[q][i], q)
WaitInv == IInv /\ SlotInv /\ PrioInv /\ CostInv

\* Init establishes the invariant: nothing is ready.
LEMMA InitWait == WaitInit => WaitInv
<1> SUFFICES ASSUME WaitInit PROVE WaitInv
  OBVIOUS
<1>1. IInv
  BY InitInv DEF WaitInit
<1>2. SlotInv
  BY SchedAssumption DEF WaitInit, Init, SlotInv, reset_mlq_slot, Prios
<1>3. PrioInv
  BY DEF WaitInit, Init, PrioInv
<1>4. CostInv
  BY DEF WaitInit, Init, CostInv
<1> QED BY <1>1, <1>2, <1>3, <1>4 DEF WaitInv

\* normalize_prio changes a priority once.
LEMMA NormalizeOnce ==
    /\ \A n \in Nat : normalize_prio(normalize_prio(n)) = normalize_prio(n)
    /\ \A q \in Prios : normalize_prio(q) = q
  BY SchedAssumption DEF normalize_prio, Prios

\* A put or an add clamps one priority, the other calls none.
LEMMA NextPrio == IInv /\ PrioInv /\ [Next]_vars => PrioInv'
<1> SUFFICES ASSUME IInv, PrioInv, [Next]_vars PROVE PrioInv'
  OBVIOUS
<1>1. ASSUME NEW p \in Procs, put_mlq_proc(p) PROVE PrioInv'
  <2>1. prio' = [prio EXCEPT ![p] = normalize_prio(prio[p])]
    BY <1>1 DEF put_mlq_proc
  <2>2. prio \in [Procs -> Nat]
    BY DEF IInv, TypeOK
  <2> QED BY <2>1, <2>2, NormalizeOnce DEF PrioInv
<1>2. CASE prio' = prio
  BY <1>2 DEF PrioInv
<1>3. ASSUME NEW p \in Procs, add_proc(p) PROVE PrioInv'
  BY <1>1, <1>3 DEF add_proc, add_mlq_proc
<1>4. ASSUME NEW c \in CPUs, put_proc(c) PROVE PrioInv'
  <2>1. held[c] \in Procs
    BY <1>4 DEF put_proc, IInv, TypeOK
  <2> QED BY <1>1, <1>4, <2>1 DEF put_proc
<1>5. ASSUME NEW c \in CPUs, get_proc(c) \/ remove_proc(c) \/ free_pcb(c) PROVE prio' = prio
  BY <1>5 DEF get_proc, remove_proc, free_pcb
<1>6. ASSUME UNCHANGED vars PROVE prio' = prio
  BY <1>6 DEF vars
<1> QED BY <1>2, <1>3, <1>4, <1>5, <1>6 DEF Next

\* How far the count of a process moves in a step.
LEMMA WaitedStep ==
    ASSUME waited \in [Procs -> Nat], WaitNext
    PROVE  /\ waited' \in [Procs -> Nat]
           /\ \A p \in Procs : /\ waited'[p] <= waited[p] + 1
                               /\ ~Dispatched => waited'[p] <= waited[p]
                               /\ ~Ready(p) => waited'[p] = 0
<1>1. \A p \in Procs :
         waited'[p] = IF Ready(p) /\ Ready(p)'
                      THEN waited[p] + IF Dispatched THEN 1 ELSE 0 ELSE 0
  BY DEF WaitNext
<1>2. waited' = [p \in Procs |-> waited'[p]]
  BY DEF WaitNext
<1>3. \A p \in Procs : waited'[p] \in Nat
  BY <1>1
<1> QED BY <1>1, <1>2, <1>3

\* A process that is in a queue is there at the level of its configured priority.
LEMMA QueueLevels ==
    ASSUME IInv, PrioInv
    PROVE  \A q \in Prios : \A j \in 1 .. Len(mlq[q]) :
              mlq[q][j] \in Procs /\ normalize_prio(ConfPrio[mlq[q][j]]) = q
<1> SUFFICES ASSUME NEW q \in Prios, NEW j \in 1 .. Len(mlq[q])
             PROVE  mlq[q][j] \in Procs /\ normalize_prio(ConfPrio[mlq[q][j]]) = q
  OBVIOUS
<1>1. mlq[q] \in Seq(Procs)
  BY DEF IInv, TypeOK
<1>2. mlq[q][j] \in Procs /\ Occurs(mlq[q], mlq[q][j])
  BY <1>1 DEF Occurs
<1>3. prio[mlq[q][j]] = q
  BY <1>2 DEF IInv, QueueInv
<1> QED BY <1>2, <1>3, NormalizeOnce DEF PrioInv

\* Every position of a queue without repetition is within its bound.
LEMMA PlaceCost ==
    ASSUME IsFiniteSet(Procs), NEW q \in Prios, NEW s \in Seq(Procs), NoRepeat(s),
           \A j \in 1 .. Len(s) : normalize_prio(ConfPrio[s[j]]) = q,
           NEW sl \in [Prios -> 0 .. MAX_PRIO], \A r \in Prios : sl[r] <= MAX_PRIO - r,
           NEW i \in 1 .. Len(s)
    PROVE  /\ Cost(i, q, sl) \in Nat /\ Bound(s[i], q) \in Nat
           /\ Cost(i, q, sl) <= Bound(s[i], q)
<1>1. i - 1 <= Peers(s[i], q) /\ Peers(s[i], q) \in Nat
  BY AheadArePeers
<1>2. i \in Nat \ {0}
  OBVIOUS
<1>3. Bound(s[i], q) \in Nat
  <2>1. OthersPerRound(q) \in Nat /\ MAX_PRIO - q \in Nat \ {0} /\ q \in Nat
    BY FreshSlots, SlotsFinite, LevelSlots
  <2>2. RoundsFor(Peers(s[i], q), q) \in Nat
    <3>1. Peers(s[i], q) + MAX_PRIO - q \in Nat
      BY <1>1, <2>1, SchedAssumption
    <3> QED BY <2>1, <3>1, DivFacts DEF RoundsFor
  <2>3. OthersPerRound(q) * RoundsFor(Peers(s[i], q), q) \in Nat
    BY <2>1, <2>2
  <2> QED BY <1>1, <2>1, <2>3 DEF Bound
<1> QED BY <1>1, <1>2, <1>3, EnterCost, CostType

\* A step without a dispatch: slots stay, and the queues only grow at their ends.
LEMMA QuietCost ==
    ASSUME IsFiniteSet(Procs), WaitInv, WaitNext, IInv', PrioInv', slot' = slot, ~Dispatched,
           \A q \in Prios : \A i \in 1 .. Len(mlq'[q]) :
              \/ i \in 1 .. Len(mlq[q]) /\ mlq'[q][i] = mlq[q][i]
              \/ ~Ready(mlq'[q][i])
    PROVE  SlotInv' /\ CostInv'
<1>1. SlotInv'
  BY DEF SlotInv, WaitInv
<1>2. /\ waited' \in [Procs -> Nat] /\ waited \in [Procs -> Nat]
      /\ \A p \in Procs : /\ waited'[p] <= waited[p]
                          /\ ~Ready(p) => waited'[p] = 0
  BY WaitedStep DEF WaitInv, CostInv
<1>3. ASSUME NEW q \in Prios, NEW i \in 1 .. Len(mlq'[q])
      PROVE  waited'[mlq'[q][i]] + Cost(i, q, slot) <= Bound(mlq'[q][i], q)
  <2> DEFINE p == mlq'[q][i]
  <2>1. p \in Procs
    <3>1. mlq'[q] \in Seq(Procs)
      BY DEF IInv, TypeOK
    <3> QED BY <3>1
  <2>2. Cost(i, q, slot) \in Nat /\ Bound(p, q) \in Nat /\ Cost(i, q, slot) <= Bound(p, q)
    <3>1. mlq'[q] \in Seq(Procs) /\ NoRepeat(mlq'[q])
      BY DEF IInv, TypeOK, QueueInv
    <3>2. \A j \in 1 .. Len(mlq'[q]) : normalize_prio(ConfPrio[mlq'[q][j]]) = q
      <4> SUFFICES ASSUME NEW j \in 1 .. Len(mlq'[q])
                   PROVE  normalize_prio(ConfPrio[mlq'[q][j]]) = q
        OBVIOUS
      <4>1. mlq'[q][j] \in Procs /\ Occurs(mlq'[q], mlq'[q][j])
        BY <3>1 DEF Occurs
      <4>2. prio'[mlq'[q][j]] = q
        BY <4>1 DEF IInv, QueueInv
      <4> QED BY <4>1, <4>2, NormalizeOnce DEF PrioInv
    <3>3. slot \in [Prios -> 0 .. MAX_PRIO] /\ \A r \in Prios : slot[r] <= MAX_PRIO - r
      BY DEF WaitInv, SlotInv, IInv, TypeOK
    <3> QED BY <3>1, <3>2, <3>3, PlaceCost
  <2>3. CASE ~Ready(p)
    <3> HIDE DEF p
    <3>1. waited'[p] = 0
      BY <1>2, <2>1, <2>3
    <3>2. waited'[p] + Cost(i, q, slot) <= Bound(p, q)
      BY <2>2, <3>1
    <3> QED BY <3>2 DEF p
  <2>4. CASE i \in 1 .. Len(mlq[q]) /\ p = mlq[q][i]
    <3>1. waited[p] + Cost(i, q, slot) <= Bound(p, q)
      BY <2>4 DEF WaitInv, CostInv
    <3>2. waited'[p] <= waited[p] /\ waited'[p] \in Nat /\ waited[p] \in Nat
      BY <1>2, <2>1
    <3> HIDE DEF p
    <3>3. waited'[p] + Cost(i, q, slot) <= Bound(p, q)
      BY <2>2, <3>1, <3>2
    <3> QED BY <3>3 DEF p
  <2> QED BY <2>3, <2>4
<1> QED BY <1>1, <1>2, <1>3 DEF CostInv

\* A dispatch from level r: the head of r leaves, the others at r move up, and
\* the slots that it is paid with cost no ready process more than the old ones.
LEMMA DispatchWait ==
    ASSUME IsFiniteSet(Procs), WaitInv, WaitNext, NEW c \in CPUs, NEW r \in NonEmpty,
           NEW sl \in [Prios -> 0 .. MAX_PRIO], sl[r] > 0,
           \A q \in Prios : sl[q] <= MAX_PRIO - q,
           \A q \in NonEmpty : \A i \in 1 .. Len(mlq[q]) : Cost(i, q, sl) <= Cost(i, q, slot),
           Dispatch(c, r, sl)
    PROVE  SlotInv' /\ CostInv'
<1>1. /\ slot' = Pay(sl, r)
      /\ mlq' = [mlq EXCEPT ![r] = Tail(mlq[r])]
      /\ r \in Prios /\ mlq[r] # <<>>
      /\ mlq \in [Prios -> Seq(Procs)] /\ slot \in [Prios -> 0 .. MAX_PRIO]
  BY DEF Dispatch, Pay, NonEmpty, WaitInv, IInv, TypeOK
<1>2. SlotInv'
  <2>1. \A q \in Prios : Pay(sl, r)[q] = IF q = r THEN sl[q] - 1 ELSE sl[q]
    BY <1>1 DEF Pay
  <2>2. \A q \in Prios : Pay(sl, r)[q] <= MAX_PRIO - q
    BY <2>1, SchedAssumption DEF Prios
  <2> QED BY <1>1, <2>2 DEF SlotInv
<1>3. /\ waited' \in [Procs -> Nat] /\ waited \in [Procs -> Nat]
      /\ \A p \in Procs : waited'[p] <= waited[p] + 1
  BY WaitedStep DEF WaitInv, CostInv
<1>4. ASSUME NEW q \in Prios, NEW i \in 1 .. Len(mlq'[q])
      PROVE  waited'[mlq'[q][i]] + Cost(i, q, Pay(sl, r)) <= Bound(mlq'[q][i], q)
  <2> DEFINE j == IF q = r THEN i + 1 ELSE i
             p == mlq[q][j]
  <2>1. mlq[q] \in Seq(Procs) /\ j \in 1 .. Len(mlq[q]) /\ mlq'[q][i] = p /\ q \in NonEmpty
    <3>1. CASE q = r
      <4>1. Len(Tail(mlq[r])) = Len(mlq[r]) - 1 /\ Len(mlq[r]) \in Nat
        BY <1>1
      <4>2. mlq'[q] = Tail(mlq[r]) /\ i \in 1 .. Len(mlq[r]) - 1
        BY <3>1, <1>1, <4>1
      <4>3. Tail(mlq[r])[i] = mlq[r][i + 1] /\ i + 1 \in 1 .. Len(mlq[r])
        BY <1>1, <4>1, <4>2
      <4> QED BY <3>1, <1>1, <4>2, <4>3
    <3>2. CASE q # r
      <4>1. mlq'[q] = mlq[q] /\ mlq[q] \in Seq(Procs)
        BY <3>2, <1>1
      <4>2. mlq[q] # <<>>
        BY <4>1
      <4> QED BY <3>2, <4>1, <4>2 DEF NonEmpty
    <3> QED BY <3>1, <3>2
  <2>2. p \in Procs
    BY <2>1
  <2>3. j \in Nat \ {0} /\ i \in Nat \ {0} /\ (q = r => j = i + 1 /\ j > 1 /\ j - 1 = i) /\ (q # r => j = i)
    <3>1. i \in Nat \ {0}
      <4>1. mlq'[q] \in Seq(Procs)
        BY <1>1
      <4> QED BY <4>1
    <3> QED BY <3>1
  <2>4. waited[p] + Cost(j, q, slot) <= Bound(p, q)
    BY <2>1 DEF WaitInv, CostInv
  <2>5. Cost(j, q, sl) <= Cost(j, q, slot)
    BY <2>1
  <2>6. Cost(i, q, Pay(sl, r)) = Cost(j, q, sl) - 1
    <3> HIDE DEF j, p
    <3>1. CASE q = r
      <4>0. r \in Prios /\ j \in Nat \ {0} /\ sl[q] <= MAX_PRIO - q /\ r = q /\ j > 1
        BY <1>1, <2>3, <3>1
      <4>1. Cost(j - 1, q, Pay(sl, r)) = Cost(j, q, sl) - 1
        BY <4>0, <3>1, DispatchCost
      <4> QED BY <2>3, <3>1, <4>1
    <3>2. CASE q # r
      <4>0. r \in Prios /\ j \in Nat \ {0} /\ sl[q] <= MAX_PRIO - q /\ r # q
        BY <1>1, <2>3, <3>2
      <4>1. Cost(j, q, Pay(sl, r)) = Cost(j, q, sl) - 1
        BY <4>0, DispatchCost
      <4> QED BY <2>3, <3>2, <4>1
    <3> QED BY <3>1, <3>2
  <2>7. /\ Cost(j, q, sl) \in Nat /\ Cost(j, q, slot) \in Nat /\ Bound(p, q) \in Nat
    <3>1. NoRepeat(mlq[q]) /\ IInv /\ PrioInv
      BY DEF WaitInv, IInv, QueueInv
    <3>2. \A k \in 1 .. Len(mlq[q]) : normalize_prio(ConfPrio[mlq[q][k]]) = q
      BY <3>1, QueueLevels
    <3>3. \A k \in Prios : slot[k] <= MAX_PRIO - k
      BY DEF WaitInv, SlotInv
    <3>4. Cost(j, q, sl) \in Nat /\ Cost(j, q, slot) \in Nat
      BY <1>1, <2>3, <3>3, CostType
    <3> HIDE DEF j
    <3>5. Bound(mlq[q][j], q) \in Nat
      BY <2>1, <3>1, <3>2, <3>3, <1>1, PlaceCost
    <3> QED BY <3>4, <3>5
  <2>8. waited'[p] \in Nat /\ waited[p] \in Nat /\ waited'[p] <= waited[p] + 1
    BY <1>3, <2>2
  <2> HIDE DEF j, p
  <2>9. waited'[p] + Cost(i, q, Pay(sl, r)) <= Bound(p, q)
    BY <2>4, <2>5, <2>6, <2>7, <2>8
  <2> QED BY <2>1, <2>9
<1> QED BY <1>1, <1>2, <1>3, <1>4 DEF CostInv

\* What an enqueue does: old positions keep their process, a new one is taken by p.
LEMMA EnqueueQuiet ==
    ASSUME IInv, NEW p \in Procs, \A q \in Prios : ~Occurs(mlq[q], p), put_mlq_proc(p)
    PROVE  \A q \in Prios : \A i \in 1 .. Len(mlq'[q]) :
              \/ i \in 1 .. Len(mlq[q]) /\ mlq'[q][i] = mlq[q][i]
              \/ ~Ready(mlq'[q][i])
<1> DEFINE n == normalize_prio(prio[p])
<1>1. n \in Prios /\ mlq' = [mlq EXCEPT ![n] = enqueue(mlq[n], p)]
      /\ mlq \in [Prios -> Seq(Procs)] /\ Len(mlq[n]) <= MAX_QUEUE_SIZE
  BY PriosType DEF put_mlq_proc, IInv, TypeOK
<1>2. ~Ready(p)
  BY DEF Ready, ReadyAt, Occurs
<1> HIDE DEF n
<1> SUFFICES ASSUME NEW q \in Prios, NEW i \in 1 .. Len(mlq'[q])
             PROVE  \/ i \in 1 .. Len(mlq[q]) /\ mlq'[q][i] = mlq[q][i]
                    \/ ~Ready(mlq'[q][i])
  OBVIOUS
<1>3. CASE q # n
  BY <1>1, <1>3
<1>4. CASE q = n
  <2>1. mlq'[q] = enqueue(mlq[n], p) /\ Len(mlq[n]) \in Nat
    BY <1>1, <1>4
  <2>2. CASE Len(mlq[n]) = MAX_QUEUE_SIZE
    BY <1>1, <1>4, <2>1, <2>2, EnqueueFacts
  <2>3. CASE Len(mlq[n]) < MAX_QUEUE_SIZE
    <3>1. /\ Len(mlq'[q]) = Len(mlq[q]) + 1
          /\ \A k \in 1 .. Len(mlq[q]) : mlq'[q][k] = mlq[q][k]
          /\ mlq'[q][Len(mlq[q]) + 1] = p
      BY <1>1, <1>4, <2>1, <2>3, EnqueueFacts
    <3>2. i \in 1 .. Len(mlq[q]) \/ i = Len(mlq[q]) + 1
      BY <1>4, <2>1, <3>1
    <3> QED BY <1>2, <3>1, <3>2
  <2> QED BY <1>1, <2>1, <2>2, <2>3, SchedAssumption
<1> QED BY <1>3, <1>4

\* Every call of the scheduler keeps the invariant.
LEMMA NextWait ==
    ASSUME IsFiniteSet(Procs), WaitInv, [WaitNext]_waitvars
    PROVE  WaitInv'
<1>1. CASE UNCHANGED waitvars
  <2>1. UNCHANGED vars /\ waited' = waited
    BY <1>1 DEF waitvars
  <2>2. IInv' /\ PrioInv'
    BY <2>1, NextInv, NextPrio DEF WaitInv
  <2>3. SlotInv' /\ CostInv'
    BY <2>1 DEF WaitInv, SlotInv, CostInv, vars
  <2> QED BY <2>2, <2>3 DEF WaitInv
<1>2. CASE WaitNext
  <2> USE <1>2
  <2>1. Next /\ IInv' /\ PrioInv' /\ IInv
    BY NextInv, NextPrio DEF WaitNext, WaitInv
  <2>2. ASSUME slot' = slot, mlq' = mlq, ~Dispatched PROVE SlotInv' /\ CostInv'
    BY <2>1, <2>2, QuietCost
  <2>3. ASSUME NEW p \in Procs, add_proc(p) PROVE SlotInv' /\ CostInv'
    <3>1. /\ slot' = slot /\ held' = held /\ put_mlq_proc(p)
          /\ \A q \in Prios : ~Occurs(mlq[q], p)
      BY <2>1, <2>3 DEF add_proc, add_mlq_proc, IInv, QueueInv
    <3>2. ~Dispatched
      BY <3>1 DEF Dispatched
    <3> QED BY <2>1, <3>1, <3>2, EnqueueQuiet, QuietCost
  <2>4. ASSUME NEW c \in CPUs, put_proc(c) PROVE SlotInv' /\ CostInv'
    <3>1. /\ held[c] \in Procs /\ slot' = slot /\ put_mlq_proc(held[c])
          /\ held' = [held EXCEPT ![c] = NoProc]
          /\ \A q \in Prios : ~Occurs(mlq[q], held[c])
      BY <2>1, <2>4 DEF put_proc, IInv, TypeOK, QueueInv, HeldBySomeCPU
    <3>2. ~Dispatched
      BY <2>1, <3>1 DEF Dispatched, IInv, TypeOK
    <3> QED BY <2>1, <3>1, <3>2, EnqueueQuiet, QuietCost
  <2>5. ASSUME NEW c \in CPUs, remove_proc(c) PROVE SlotInv' /\ CostInv'
    <3>1. slot' = slot /\ mlq' = mlq /\ ~Dispatched
      BY <2>5 DEF remove_proc, Dispatched
    <3> QED BY <2>2, <3>1
  <2>6. ASSUME NEW c \in CPUs, free_pcb(c) PROVE SlotInv' /\ CostInv'
    <3>1. slot' = slot /\ mlq' = mlq /\ ~Dispatched
      BY <2>1, <2>6 DEF free_pcb, Dispatched, IInv, TypeOK
    <3> QED BY <2>2, <3>1
  <2>7. ASSUME NEW c \in CPUs, get_proc(c) PROVE SlotInv' /\ CostInv'
    <3>1. CASE GetNothing(c)
      <4>1. slot' = slot /\ mlq' = mlq /\ ~Dispatched
        BY <3>1 DEF GetNothing, Dispatched
      <4> QED BY <2>2, <4>1
    <3>2. CASE GetEligible(c)
      <4>1. PICK r \in Eligible : Dispatch(c, r, slot)
        BY <3>2 DEF GetEligible
      <4>2. /\ r \in NonEmpty /\ slot[r] > 0 /\ slot \in [Prios -> 0 .. MAX_PRIO]
            /\ \A q \in Prios : slot[q] <= MAX_PRIO - q
        BY <2>1 DEF Eligible, IInv, TypeOK, WaitInv, SlotInv
      <4>3. ASSUME NEW q \in NonEmpty, NEW i \in 1 .. Len(mlq[q])
            PROVE  Cost(i, q, slot) <= Cost(i, q, slot)
        <5>1. q \in Prios /\ mlq[q] \in Seq(Procs)
          BY <2>1 DEF NonEmpty, IInv, TypeOK
        <5>2. i \in Nat \ {0}
          BY <5>1
        <5>3. Cost(i, q, slot) \in Nat
          BY <4>2, <5>1, <5>2, CostType
        <5> QED BY <5>3
      <4> QED BY <4>1, <4>2, <4>3, DispatchWait
    <3>3. CASE GetAfterReset(c)
      <4>1. PICK r \in NonEmpty : Dispatch(c, r, reset_mlq_slot)
        BY <3>3 DEF GetAfterReset
      <4>2. /\ reset_mlq_slot \in [Prios -> 0 .. MAX_PRIO] /\ reset_mlq_slot[r] > 0
            /\ \A q \in Prios : reset_mlq_slot[q] <= MAX_PRIO - q
        <5>1. reset_mlq_slot \in [Prios -> 0 .. MAX_PRIO] /\ reset_mlq_slot[r] > 0
          BY PriosType, SchedAssumption DEF NonEmpty
        <5>2. \A q \in Prios : reset_mlq_slot[q] = MAX_PRIO - q
          BY DEF reset_mlq_slot
        <5> QED BY <5>1, <5>2, LevelSlots
      <4>3. ASSUME NEW q \in NonEmpty, NEW i \in 1 .. Len(mlq[q])
            PROVE  Cost(i, q, reset_mlq_slot) <= Cost(i, q, slot)
        <5>1. q \in Prios /\ mlq[q] \in Seq(Procs) /\ slot \in [Prios -> 0 .. MAX_PRIO]
          BY <2>1 DEF NonEmpty, IInv, TypeOK
        <5>2. i \in Nat \ {0}
          BY <5>1
        <5>3. ~(slot[q] > 0)
          BY <3>3 DEF GetAfterReset, Eligible
        <5>4. slot[q] = 0
          BY <5>1, <5>3, SchedAssumption
        <5> QED BY <5>1, <5>2, <5>4, ResetCost
      <4> QED BY <4>1, <4>2, <4>3, DispatchWait
    <3> QED BY <2>7, <3>1, <3>2, <3>3 DEF get_proc, get_mlq_proc
  <2>8. SlotInv' /\ CostInv'
    BY <2>1, <2>3, <2>4, <2>5, <2>6, <2>7 DEF Next
  <2> QED BY <2>1, <2>8 DEF WaitInv
<1> QED BY <1>1, <1>2

\* The invariant bounds what each process has waited already.
LEMMA WaitBound ==
    ASSUME IsFiniteSet(Procs), WaitInv
    PROVE  BoundedWait
<1> SUFFICES ASSUME NEW p \in Procs, Ready(p)
             PROVE  waited[p] <= Peers(p, prio[p])
                       + OthersPerRound(prio[p]) * (1 + RoundsFor(Peers(p, prio[p]), prio[p]))
  BY DEF BoundedWait
<1>1. PICK q \in Prios : \E i \in 1 .. Len(mlq[q]) : mlq[q][i] = p
  BY DEF Ready, ReadyAt
<1>2. PICK i \in 1 .. Len(mlq[q]) : mlq[q][i] = p
  BY <1>1
<1>3. /\ IInv /\ PrioInv /\ mlq[q] \in Seq(Procs) /\ NoRepeat(mlq[q])
      /\ slot \in [Prios -> 0 .. MAX_PRIO] /\ \A r \in Prios : slot[r] <= MAX_PRIO - r
  BY DEF WaitInv, IInv, TypeOK, QueueInv, SlotInv
<1>4. prio[p] = q
  BY <1>2, <1>3 DEF IInv, QueueInv, Occurs
<1>5. \A j \in 1 .. Len(mlq[q]) : normalize_prio(ConfPrio[mlq[q][j]]) = q
  BY <1>3, QueueLevels
<1>6. Cost(i, q, slot) \in Nat /\ Bound(p, q) \in Nat
  BY <1>2, <1>3, <1>5, PlaceCost
<1>7. waited[p] + Cost(i, q, slot) <= Bound(p, q) /\ waited[p] \in Nat
  BY <1>2 DEF WaitInv, CostInv
<1>8. waited[p] <= Bound(p, q)
  BY <1>6, <1>7
<1> DEFINE oth == OthersPerRound(q)
           k == Peers(p, q)
           N == RoundsFor(k, q)
<1>9. oth \in Nat /\ k \in Nat /\ N \in Nat
  <2>1. oth \in Nat /\ MAX_PRIO - q \in Nat \ {0} /\ q \in Nat
    BY FreshSlots, SlotsFinite, LevelSlots
  <2>2. k \in Nat
    BY <1>2, <1>3, <1>5, AheadArePeers
  <2>3. k + MAX_PRIO - q \in Nat
    BY <2>1, <2>2, SchedAssumption
  <2> QED BY <2>1, <2>2, <2>3, DivFacts DEF RoundsFor
<1>10. Bound(p, q) = k + oth + oth * N
  BY DEF Bound
<1> HIDE DEF oth, k, N
<1>11. oth * (1 + N) = oth + oth * N /\ oth * N \in Nat
  BY <1>9
<1>12. waited[p] <= k + oth * (1 + N)
  BY <1>8, <1>9, <1>10, <1>11
<1> QED BY <1>4, <1>12 DEF oth, k, N

\* The slots of get_mlq_proc bound the wait of every ready process, whatever
\* the number of levels, of CPUs and of processes, and with full queues too.
THEOREM BoundedWaitHolds ==
    ASSUME IsFiniteSet(Procs)
    PROVE  WaitSpec => []BoundedWait
<1>1. WaitInit => WaitInv
  BY InitWait
<1>2. WaitInv /\ [WaitNext]_waitvars => WaitInv'
  BY NextWait
<1>3. WaitInv => BoundedWait
  BY WaitBound
<1> QED BY <1>1, <1>2, <1>3, PTL DEF WaitSpec
=============================================================================
