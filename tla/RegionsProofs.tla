--------------------------- MODULE RegionsProofs ----------------------------
(***************************************************************************)
(* What the lists of free regions keep, for every list and every size:     *)
(* the facts about get_free_vmrg_area and enlist_vm_freerg_list that the   *)
(* proofs about Paging and Kmem rest on.                                   *)
(***************************************************************************)
EXTENDS Regions, TLAPS

Rg == Int \X Int

\* The regions of a list lie between two addresses.
Within(list, lo, hi) == \A j \in 1 .. Len(list) : lo <= list[j][1] /\ list[j][2] <= hi

\* None of them ends before it starts.
Ordered(list) == \A j \in 1 .. Len(list) : list[j][1] <= list[j][2]

\* A region has no address in common with those of a list.
Apart(rg, list) == \A j \in 1 .. Len(list) : ~Overlap(rg, list[j])

\* Nor have two of the list.
Disjoint(list) == \A k \in 1 .. Len(list) : \A j \in 1 .. k - 1 : ~Overlap(list[j], list[k])

----------------------------------------------------------------------------
(* Machine integers                                                         *)

\* Remainders of numbers below twice the divisor.
LEMMA SmallMod ==
    ASSUME NEW a \in Nat, NEW n \in Nat \ {0}, a < 2 * n
    PROVE  a % n = IF a < n THEN a ELSE a - n
BY SMT

\* A uint32_t keeps its value as an int, or becomes negative.
LEMMA Int32Of ==
    ASSUME NEW x \in 0 .. 2 * INT_MAX + 1
    PROVE  Int32(x) = IF x <= INT_MAX THEN x ELSE x - 2 * (INT_MAX + 1)
<1>1. INT_MAX \in Nat
  BY WidthAssumption
<1> DEFINE a == x + INT_MAX + 1  n == 2 * (INT_MAX + 1)
<1>2. a \in Nat /\ n \in Nat \ {0} /\ a < 2 * n
  BY <1>1
<1>3. a % n = IF a < n THEN a ELSE a - n
  BY <1>2, SmallMod
<1> QED
  BY <1>1, <1>2, <1>3 DEF Int32

\* An int is a number.
LEMMA Int32Type ==
    ASSUME NEW x \in Int
    PROVE  Int32(x) \in Int
BY WidthAssumption, SMT DEF Int32

\* What fits an int keeps its value.
LEMMA Int32Small ==
    ASSUME NEW x \in 0 .. INT_MAX
    PROVE  Int32(x) = x
<1>1. INT_MAX \in Nat
  BY WidthAssumption
<1>2. x \in 0 .. 2 * INT_MAX + 1 /\ x <= INT_MAX
  BY <1>1
<1> QED
  BY <1>2, Int32Of

\* The quotient in the number of pages.
LEMMA PagesDiv ==
    ASSUME NEW size \in Nat
    PROVE  LET n == (size + PAGESZ - 1) \div PAGESZ
           IN  n \in Nat /\ size <= n * PAGESZ /\ n * PAGESZ <= size + PAGESZ - 1
<1>1. PAGESZ \in Nat \ {0}
  BY WidthAssumption
<1> DEFINE a == size + PAGESZ - 1  n == a \div PAGESZ
<1>2. a \in Nat /\ a = size + PAGESZ - 1
  BY <1>1
<1> HIDE DEF a
<1>3. n \in Int /\ a = PAGESZ * n + (a % PAGESZ) /\ a % PAGESZ \in 0 .. PAGESZ - 1
  BY <1>1, <1>2, SMT
<1>4. n \in Nat
  BY <1>1, <1>2, SMT
<1> HIDE DEF n
<1>5. n * PAGESZ \in Nat /\ n * PAGESZ = PAGESZ * n
  BY <1>1, <1>4
<1>6. size <= n * PAGESZ /\ n * PAGESZ <= size + PAGESZ - 1
  BY <1>1, <1>2, <1>3, <1>5
<1> QED
  BY <1>4, <1>6 DEF n, a

\* The number of pages is a number, ...
LEMMA PagesType ==
    ASSUME NEW size \in Nat
    PROVE  PagesFor(size) \in Int
<1>1. (size + PAGESZ - 1) \div PAGESZ \in Int
  BY PagesDiv
<1> QED
  BY <1>1, Int32Type DEF PagesFor

\* ... and for a size that fits an int there are enough of them (inc_vma_limit).
LEMMA PagesEnough ==
    ASSUME NEW size \in 0 .. INT_MAX
    PROVE  PagesFor(size) \in Nat /\ size <= PagesFor(size) * PAGESZ
<1> DEFINE n == (size + PAGESZ - 1) \div PAGESZ
<1>1. INT_MAX \in Nat /\ size \in Nat /\ PAGESZ \in Nat \ {0}
  BY WidthAssumption
<1>2. n \in Nat /\ size <= n * PAGESZ /\ n * PAGESZ <= size + PAGESZ - 1
  BY <1>1, PagesDiv
<1> HIDE DEF n
<1>3. n <= INT_MAX
  <2> SUFFICES ASSUME n > INT_MAX PROVE FALSE
    BY <1>1, <1>2
  <2>1. n >= size + 1
    BY <1>1, <1>2
  <2>2. n * PAGESZ >= (size + 1) * PAGESZ
    BY <1>1, <1>2, <2>1, SMT
  <2>3. (size + 1) * PAGESZ = size * PAGESZ + PAGESZ /\ size * PAGESZ >= size
    BY <1>1, SMT
  <2> QED
    BY <1>1, <1>2, <2>2, <2>3, SMT
<1>4. Int32(n) = n
  BY <1>1, <1>2, <1>3, Int32Small
<1>5. PagesFor(size) = n
  BY <1>4 DEF PagesFor, n
<1> QED
  BY <1>2, <1>5

----------------------------------------------------------------------------
(* Lists of regions                                                         *)

\* Lists joined end to end.
LEMMA Joined ==
    ASSUME NEW S, NEW a \in Seq(S), NEW b \in Seq(S)
    PROVE  a \o b \in Seq(S) /\ Len(a \o b) = Len(a) + Len(b)
OBVIOUS

\* Removing a node moves those behind it (RemoveAt).
LEMMA Removed ==
    ASSUME NEW S, NEW list \in Seq(S), NEW k \in 1 .. Len(list)
    PROVE  /\ RemoveAt(list, k) \in Seq(S)
           /\ Len(RemoveAt(list, k)) = Len(list) - 1
           /\ \A j \in 1 .. Len(list) - 1 :
                RemoveAt(list, k)[j] = list[IF j < k THEN j ELSE j + 1]
<1> DEFINE a == SubSeq(list, 1, k - 1)
           b == SubSeq(list, k + 1, Len(list))
<1>1. a \in Seq(S) /\ Len(a) = k - 1 /\ \A j \in 1 .. k - 1 : a[j] = list[j]
  OBVIOUS
<1>2. b \in Seq(S) /\ Len(b) = Len(list) - k /\ \A j \in 1 .. Len(list) - k : b[j] = list[j + k]
  OBVIOUS
<1> HIDE DEF a, b
<1>3. a \o b \in Seq(S) /\ Len(a \o b) = Len(list) - 1
  <2>1. a \o b \in Seq(S) /\ Len(a \o b) = Len(a) + Len(b)
    BY <1>1, <1>2, Joined
  <2>2. Len(list) \in Nat /\ k \in Nat
    OBVIOUS
  <2> QED
    BY <1>1, <1>2, <2>1, <2>2
<1>4. \A j \in 1 .. Len(a) + Len(b) : (a \o b)[j] = IF j <= Len(a) THEN a[j] ELSE b[j - Len(a)]
  BY <1>1, <1>2
<1>5. ASSUME NEW j \in 1 .. Len(list) - 1
      PROVE  (a \o b)[j] = list[IF j < k THEN j ELSE j + 1]
  <2>1. CASE j < k
    BY <1>1, <1>2, <1>4, <2>1
  <2>2. CASE ~(j < k)
    <3>1. (a \o b)[j] = b[j - (k - 1)] /\ j - (k - 1) \in 1 .. Len(list) - k
      BY <1>1, <1>2, <1>4, <2>2
    <3> QED
      BY <1>2, <2>2, <3>1
  <2> QED
    BY <2>1, <2>2, Zenon
<1> QED
  BY <1>3, <1>5 DEF RemoveAt, a, b

\* Both ends of a region are numbers.
LEMMA Ends ==
    ASSUME NEW list \in Seq(Rg)
    PROVE  /\ Len(list) \in Nat
           /\ \A j \in 1 .. Len(list) :
                list[j] \in Rg /\ list[j][1] \in Int /\ list[j][2] \in Int
BY DEF Rg

\* So are those of one that is in no list (struct vm_rg_struct).
LEMMA RgEnds ==
    ASSUME NEW rg \in Rg
    PROVE  rg[1] \in Int /\ rg[2] \in Int
BY DEF Rg

\* The region between two addresses.
LEMMA Pair ==
    ASSUME NEW a \in Int, NEW b \in Int
    PROVE  <<a, b>> \in Rg /\ <<a, b>>[1] = a /\ <<a, b>>[2] = b
BY DEF Rg

\* get_free_vmrg_area leaves of the node it found what lies behind the region it
\* gives out, and the other nodes as they were.
LEMMA CarveNodes ==
    ASSUME NEW list \in Seq(Rg), NEW k \in 1 .. Len(list), NEW size \in Int, Fits(list[k], size)
    PROVE  /\ Carve(list, k, size) \in Seq(Rg)
           /\ Len(Carve(list, k, size)) <= Len(list)
           /\ \A j \in 1 .. Len(Carve(list, k, size)) :
                LET i == IF Len(Carve(list, k, size)) < Len(list) /\ j >= k THEN j + 1 ELSE j
                IN  /\ i \in 1 .. Len(list)
                    /\ Carve(list, k, size)[j] =
                         IF i = k THEN <<list[k][1] + size, list[k][2]>> ELSE list[i]
<1> DEFINE c == Carve(list, k, size)
           rest == <<list[k][1] + size, list[k][2]>>
<1>0. /\ Len(list) \in Nat /\ list[k][1] \in Int /\ list[k][2] \in Int
      /\ list[k][1] + size <= list[k][2]
  BY Ends DEF Fits
<1>1. rest \in Rg
  BY <1>0, Pair
<1>2. CASE c = [list EXCEPT ![k] = rest]
  <2>1. c \in Seq(Rg) /\ Len(c) = Len(list)
    BY <1>1, <1>2
  <2>2. \A j \in 1 .. Len(list) : c[j] = IF j = k THEN rest ELSE list[j]
    BY <1>2
  <2> HIDE DEF c, rest
  <2>3. ASSUME NEW j \in 1 .. Len(c)
        PROVE  LET i == IF Len(c) < Len(list) /\ j >= k THEN j + 1 ELSE j
               IN  i \in 1 .. Len(list) /\ c[j] = IF i = k THEN rest ELSE list[i]
    BY <1>0, <2>1, <2>2
  <2>4. Len(c) <= Len(list)
    BY <1>0, <2>1
  <2> QED
    BY <2>1, <2>3, <2>4, Zenon DEF c, rest
<1>3. CASE c = RemoveAt(list, k)
  <2>1. /\ c \in Seq(Rg) /\ Len(c) = Len(list) - 1
        /\ \A j \in 1 .. Len(list) - 1 : c[j] = list[IF j < k THEN j ELSE j + 1]
    BY <1>3, Removed
  <2> HIDE DEF c, rest
  <2>2. ASSUME NEW j \in 1 .. Len(c)
        PROVE  LET i == IF Len(c) < Len(list) /\ j >= k THEN j + 1 ELSE j
               IN  i \in 1 .. Len(list) /\ c[j] = IF i = k THEN rest ELSE list[i]
    <3>1. j \in 1 .. Len(list) - 1 /\ j \in Nat /\ k \in Nat /\ Len(c) < Len(list)
      BY <1>0, <2>1
    <3>2. CASE j < k
      <4>1. c[j] = list[j] /\ j # k /\ ~(j >= k) /\ j \in 1 .. Len(list)
        BY <2>1, <3>1, <3>2
      <4> QED
        BY <4>1
    <3>3. CASE ~(j < k)
      <4>1. j + 1 # k /\ j >= k /\ j + 1 \in 1 .. Len(list)
        BY <1>0, <3>1, <3>3
      <4>2. c[j] = list[j + 1]
        BY <2>1, <3>1, <3>3
      <4> QED
        BY <3>1, <4>1, <4>2
    <3> QED
      BY <3>2, <3>3, Zenon
  <2>3. Len(c) <= Len(list)
    BY <1>0, <2>1
  <2> QED
    BY <2>1, <2>2, <2>3, Zenon DEF c, rest
<1>4. c = [list EXCEPT ![k] = rest] \/ c = RemoveAt(list, k)
  <2>1. CASE list[k][1] + size < list[k][2]
    BY <2>1 DEF Carve
  <2>2. CASE ~(list[k][1] + size < list[k][2])
    <3>1. list[k][1] + size = list[k][2]
      BY <1>0, <2>2
    <3> QED
      BY <2>2, <3>1, Zenon DEF Carve
  <2> QED
    BY <2>1, <2>2
<1> QED
  BY <1>2, <1>3, <1>4

\* The region given out and what stays free lie where the free ones lay, apart from
\* each other and from whatever was apart from the free ones before.
LEMMA CarveKeeps ==
    ASSUME NEW list \in Seq(Rg), NEW k \in 1 .. Len(list), NEW size \in Nat, Fits(list[k], size),
           NEW lo \in Int, NEW hi \in Int, Within(list, lo, hi), Disjoint(list)
    PROVE  /\ Carve(list, k, size) \in Seq(Rg)
           /\ Within(Carve(list, k, size), lo, hi)
           /\ Disjoint(Carve(list, k, size))
           /\ <<list[k][1], list[k][1] + size>> \in Rg
           /\ lo <= list[k][1] /\ list[k][1] + size <= hi
           /\ Apart(<<list[k][1], list[k][1] + size>>, Carve(list, k, size))
           /\ \A rg \in Rg : Apart(rg, list) =>
                /\ Apart(rg, Carve(list, k, size))
                /\ ~Overlap(rg, <<list[k][1], list[k][1] + size>>)
<1> DEFINE c == Carve(list, k, size)
           I(j) == IF Len(c) < Len(list) /\ j >= k THEN j + 1 ELSE j
           new == <<list[k][1], list[k][1] + size>>
           rest == <<list[k][1] + size, list[k][2]>>
<1>0. size \in Int
  OBVIOUS
<1>1. /\ c \in Seq(Rg) /\ Len(c) <= Len(list) /\ Len(list) \in Nat /\ Len(c) \in Nat
      /\ \A j \in 1 .. Len(c) : I(j) \in 1 .. Len(list) /\ c[j] = IF I(j) = k THEN rest ELSE list[I(j)]
  BY <1>0, CarveNodes, Ends
<1> HIDE DEF c
<1>2. /\ new \in Rg /\ rest \in Rg
      /\ new[1] = list[k][1] /\ new[2] = list[k][1] + size
      /\ rest[1] = list[k][1] + size /\ rest[2] = list[k][2]
      /\ new[2] <= list[k][2]
      /\ \A j \in 1 .. Len(list) : list[j] \in Rg /\ list[j][1] \in Int /\ list[j][2] \in Int
  BY Ends, Pair DEF Fits
<1> HIDE DEF new, rest
<1>3. Within(c, lo, hi) /\ lo <= new[1] /\ new[2] <= hi
  <2>1. lo <= list[k][1] /\ list[k][2] <= hi
    BY DEF Within
  <2>2. lo <= new[1] /\ new[2] <= hi /\ lo <= rest[1] /\ rest[2] <= hi
    BY <1>2, <2>1
  <2>3. ASSUME NEW j \in 1 .. Len(c) PROVE lo <= c[j][1] /\ c[j][2] <= hi
    <3>1. I(j) \in 1 .. Len(list) /\ c[j] = IF I(j) = k THEN rest ELSE list[I(j)]
      BY <1>1
    <3> HIDE DEF I
    <3> QED
      BY <2>2, <3>1 DEF Within
  <2> QED
    BY <2>2, <2>3 DEF Within
<1>4. \A rg \in Rg : ~Overlap(rg, list[k]) => ~Overlap(rg, rest) /\ ~Overlap(rg, new)
  BY <1>2, RgEnds DEF Overlap
<1>5. \A rg \in Rg : ~Overlap(list[k], rg) => ~Overlap(rest, rg) /\ ~Overlap(new, rg)
  BY <1>2, RgEnds DEF Overlap
<1>6. ~Overlap(new, rest)
  BY <1>2 DEF Overlap, Rg
<1>7. \A i, j \in 1 .. Len(list) : i # j => ~Overlap(list[i], list[j])
  <2>1. \A i, j \in 1 .. Len(list) : i < j => ~Overlap(list[i], list[j]) /\ ~Overlap(list[j], list[i])
    BY <1>1, <1>2 DEF Disjoint, Overlap, Rg
  <2> QED
    BY <2>1, <1>1
<1>8. Disjoint(c)
  <2> SUFFICES ASSUME NEW m \in 1 .. Len(c), NEW j \in 1 .. m - 1 PROVE ~Overlap(c[j], c[m])
    BY DEF Disjoint
  <2>1. I(j) \in 1 .. Len(list) /\ I(m) \in 1 .. Len(list) /\ I(j) # I(m) /\ j \in 1 .. Len(c)
    BY <1>1
  <2>2. /\ c[j] = IF I(j) = k THEN rest ELSE list[I(j)]
        /\ c[m] = IF I(m) = k THEN rest ELSE list[I(m)]
    BY <1>1, <2>1
  <2> HIDE DEF I
  <2> QED
    BY <1>2, <1>4, <1>5, <1>7, <2>1, <2>2
<1>9. Apart(new, c)
  <2> SUFFICES ASSUME NEW j \in 1 .. Len(c) PROVE ~Overlap(new, c[j])
    BY DEF Apart
  <2>1. I(j) \in 1 .. Len(list) /\ c[j] = IF I(j) = k THEN rest ELSE list[I(j)]
    BY <1>1
  <2> HIDE DEF I
  <2> QED
    BY <1>2, <1>5, <1>6, <1>7, <2>1
<1>10. ASSUME NEW rg \in Rg, Apart(rg, list)
       PROVE  Apart(rg, c) /\ ~Overlap(rg, new)
  <2>1. ASSUME NEW j \in 1 .. Len(c) PROVE ~Overlap(rg, c[j])
    <3>1. I(j) \in 1 .. Len(list) /\ c[j] = IF I(j) = k THEN rest ELSE list[I(j)]
      BY <1>1
    <3> HIDE DEF I
    <3> QED
      BY <1>4, <1>10, <3>1 DEF Apart
  <2> QED
    BY <2>1, <1>4, <1>10 DEF Apart
<1> QED
  BY <1>1, <1>2, <1>3, <1>8, <1>9, <1>10 DEF c, new

\* A region that is freed joins the list, unless it is empty (enlist_vm_freerg_list).
LEMMA EnlistKeeps ==
    ASSUME NEW list \in Seq(Rg), NEW rg \in Rg, NEW lo \in Int, NEW hi \in Int,
           Within(list, lo, hi), Disjoint(list), Apart(rg, list), lo <= rg[1], rg[2] <= hi
    PROVE  /\ enlist_vm_freerg_list(list, rg) \in Seq(Rg)
           /\ Within(enlist_vm_freerg_list(list, rg), lo, hi)
           /\ Disjoint(enlist_vm_freerg_list(list, rg))
           /\ \A x \in Rg : Apart(x, list) /\ ~Overlap(x, rg) =>
                Apart(x, enlist_vm_freerg_list(list, rg))
<1> DEFINE e == <<rg>> \o list
<1>1. /\ e \in Seq(Rg) /\ Len(e) = Len(list) + 1 /\ Len(list) \in Nat
      /\ \A j \in 1 .. Len(e) : e[j] = IF j = 1 THEN rg ELSE list[j - 1]
  OBVIOUS
<1> HIDE DEF e
<1>2. Within(e, lo, hi)
  <2> SUFFICES ASSUME NEW j \in 1 .. Len(e) PROVE lo <= e[j][1] /\ e[j][2] <= hi
    BY DEF Within
  <2>1. CASE j = 1
    BY <1>1, <2>1
  <2>2. CASE j # 1
    <3>1. e[j] = list[j - 1] /\ j - 1 \in 1 .. Len(list)
      BY <1>1, <2>2
    <3> QED
      BY <3>1 DEF Within
  <2> QED
    BY <2>1, <2>2
<1>3. Disjoint(e)
  <2> SUFFICES ASSUME NEW k \in 1 .. Len(e), NEW j \in 1 .. k - 1 PROVE ~Overlap(e[j], e[k])
    BY DEF Disjoint
  <2>1. e[k] = list[k - 1] /\ k - 1 \in 1 .. Len(list)
    BY <1>1
  <2>2. CASE j = 1
    BY <1>1, <2>1, <2>2 DEF Apart
  <2>3. CASE j # 1
    <3>1. e[j] = list[j - 1] /\ j - 1 \in 1 .. (k - 1) - 1
      BY <1>1, <2>1, <2>3
    <3> QED
      BY <2>1, <3>1 DEF Disjoint
  <2> QED
    BY <2>2, <2>3
<1>4. ASSUME NEW x \in Rg, Apart(x, list), ~Overlap(x, rg) PROVE Apart(x, e)
  <2> SUFFICES ASSUME NEW j \in 1 .. Len(e) PROVE ~Overlap(x, e[j])
    BY DEF Apart
  <2>1. CASE j = 1
    BY <1>1, <1>4, <2>1
  <2>2. CASE j # 1
    <3>1. e[j] = list[j - 1] /\ j - 1 \in 1 .. Len(list)
      BY <1>1, <2>2
    <3> QED
      BY <1>4, <3>1 DEF Apart
  <2> QED
    BY <2>1, <2>2
<1>5. enlist_vm_freerg_list(list, rg) \in {list, e}
  BY DEF enlist_vm_freerg_list, e
<1> QED
  BY <1>1, <1>2, <1>3, <1>4, <1>5

\* Overlap is symmetric.
LEMMA OverlapSym == ASSUME NEW a, NEW b PROVE Overlap(a, b) <=> Overlap(b, a)
BY DEF Overlap

\* What stays free still ends no earlier than it starts (get_free_vmrg_area,
\* enlist_vm_freerg_list).
LEMMA OrderKept ==
    ASSUME NEW list \in Seq(Rg), Ordered(list)
    PROVE  /\ \A k \in 1 .. Len(list), size \in Int :
                Fits(list[k], size) => Ordered(Carve(list, k, size))
           /\ \A rg \in Rg : Ordered(enlist_vm_freerg_list(list, rg))
<1>1. ASSUME NEW k \in 1 .. Len(list), NEW size \in Int, Fits(list[k], size)
      PROVE  Ordered(Carve(list, k, size))
  <2> DEFINE c == Carve(list, k, size)
             rest == <<list[k][1] + size, list[k][2]>>
             I(j) == IF Len(c) < Len(list) /\ j >= k THEN j + 1 ELSE j
  <2>1. \A j \in 1 .. Len(c) : I(j) \in 1 .. Len(list) /\ c[j] = IF I(j) = k THEN rest ELSE list[I(j)]
    BY <1>1, CarveNodes
  <2>2. rest[1] <= rest[2]
    BY <1>1 DEF Fits
  <2> HIDE DEF c, rest, I
  <2>3. \A j \in 1 .. Len(c) : c[j][1] <= c[j][2]
    BY <2>1, <2>2 DEF Ordered
  <2> QED
    BY <2>3 DEF Ordered, c
<1>2. ASSUME NEW rg \in Rg PROVE Ordered(enlist_vm_freerg_list(list, rg))
  <2>1. CASE rg[1] >= rg[2]
    BY <2>1 DEF enlist_vm_freerg_list
  <2>2. CASE ~(rg[1] >= rg[2])
    <3> DEFINE e == <<rg>> \o list
    <3>1. /\ Len(e) = Len(list) + 1 /\ Len(list) \in Nat
          /\ \A j \in 1 .. Len(e) : e[j] = IF j = 1 THEN rg ELSE list[j - 1]
      OBVIOUS
    <3>2. rg[1] <= rg[2]
      BY <2>2, RgEnds
    <3>3. enlist_vm_freerg_list(list, rg) = e
      BY <2>2 DEF enlist_vm_freerg_list
    <3> HIDE DEF e
    <3>4. ASSUME NEW j \in 1 .. Len(e) PROVE e[j][1] <= e[j][2]
      <4>1. CASE j = 1
        BY <3>1, <3>2, <4>1
      <4>2. CASE j # 1
        <5>1. e[j] = list[j - 1] /\ j - 1 \in 1 .. Len(list)
          BY <3>1, <4>2
        <5> QED
          BY <5>1 DEF Ordered
      <4> QED
        BY <4>1, <4>2
    <3> QED
      BY <3>3, <3>4 DEF Ordered
  <2> QED
    BY <2>1, <2>2
<1> QED
  BY <1>1, <1>2

\* A list whose nodes all lie in a set is a list over that set.
LEMMA ListOver ==
    ASSUME NEW S, NEW T, NEW list \in Seq(S), \A j \in 1 .. Len(list) : list[j] \in T
    PROVE  list \in Seq(T)
OBVIOUS
=============================================================================
