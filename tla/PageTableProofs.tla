-------------------------- MODULE PageTableProofs ---------------------------
(***************************************************************************)
(* Proofs about PageTable, for every width of the directories and every    *)
(* set of pages, frames and slots that fit: the tree is closed under its   *)
(* parents, counted and freed whole, and reads as a flat table.            *)
(***************************************************************************)
EXTENDS PageTable, FiniteSetTheorems, SequenceTheorems, TLAPS

\* A number is determined by its quotient and its remainder.
LEMMA DivMod ==
    ASSUME NEW a \in Nat, NEW b \in Nat, D \in Nat \ {0}, a \div D = b \div D, a % D = b % D
    PROVE  a = b
BY SMT

\* Quotients and remainders are naturals.
LEMMA DivNat ==
    ASSUME NEW a \in Nat, D \in Nat \ {0}
    PROVE  a \div D \in Nat /\ a % D \in Nat
BY SMT

\* The path of a page (get_pd_from_pagenum) has five indices.
LEMMA PathType ==
    ASSUME NEW n \in Pgns
    PROVE  get_pd_from_pagenum(n) \in Seq(Nat) /\ Len(get_pd_from_pagenum(n)) = 5
BY PageTableAssumption, DivNat DEF get_pd_from_pagenum

\* Equal tuples are equal in every place.
LEMMA TupleParts ==
    ASSUME NEW a1, NEW a2, NEW a3, NEW a4, NEW a5, NEW b1, NEW b2, NEW b3, NEW b4, NEW b5,
           <<a1, a2, a3, a4, a5>> = <<b1, b2, b3, b4, b5>>
    PROVE  a1 = b1 /\ a2 = b2 /\ a3 = b3 /\ a4 = b4 /\ a5 = b5
OBVIOUS

\* Two pages never share all five indices (get_pd_from_pagenum).
LEMMA PathInjective ==
    ASSUME NEW m \in Pgns, NEW n \in Pgns, get_pd_from_pagenum(m) = get_pd_from_pagenum(n)
    PROVE  m = n
<1> DEFINE M1 == m \div D  M2 == M1 \div D  M3 == M2 \div D  M4 == M3 \div D
           N1 == n \div D  N2 == N1 \div D  N3 == N2 \div D  N4 == N3 \div D
<1>1. m \in Nat /\ n \in Nat /\ D \in Nat \ {0}
  BY PageTableAssumption
<1>2. M1 \in Nat /\ N1 \in Nat
  BY <1>1, DivNat
<1>3. M2 \in Nat /\ N2 \in Nat
  BY <1>1, <1>2, DivNat
<1>4. M3 \in Nat /\ N3 \in Nat
  BY <1>1, <1>3, DivNat
<1>5. M4 \in Nat /\ N4 \in Nat
  BY <1>1, <1>4, DivNat
<1>6. M4 \div D = N4 \div D
  BY PageTableAssumption
<1>7. M4 % D = N4 % D /\ M3 % D = N3 % D /\ M2 % D = N2 % D /\ M1 % D = N1 % D /\ m % D = n % D
  <2>1. get_pd_from_pagenum(m) = <<M4 % D, M3 % D, M2 % D, M1 % D, m % D>>
    BY DEF get_pd_from_pagenum
  <2>2. get_pd_from_pagenum(n) = <<N4 % D, N3 % D, N2 % D, N1 % D, n % D>>
    BY DEF get_pd_from_pagenum
  <2> HIDE DEF M1, M2, M3, M4, N1, N2, N3, N4
  <2>3. <<M4 % D, M3 % D, M2 % D, M1 % D, m % D>> = <<N4 % D, N3 % D, N2 % D, N1 % D, n % D>>
    BY <2>1, <2>2
  <2> QED
    BY <2>3, TupleParts, Zenon
<1> HIDE DEF M4, N4
<1>8. M4 = N4
  BY <1>1, <1>5, <1>6, <1>7, DivMod
<1> HIDE DEF M3, N3
<1>9. M3 = N3
  BY <1>1, <1>4, <1>8, <1>7, DivMod DEF M4, N4
<1> HIDE DEF M2, N2
<1>10. M2 = N2
  BY <1>1, <1>3, <1>9, <1>7, DivMod DEF M3, N3
<1> HIDE DEF M1, N1
<1>11. M1 = N1
  BY <1>1, <1>2, <1>10, <1>7, DivMod DEF M2, N2
<1> QED
  BY <1>1, <1>11, <1>7, DivMod DEF M1, N1

\* The directory at depth k on the way to a page has k indices, the first of its path.
LEMMA DirType ==
    ASSUME NEW n \in Pgns, NEW k \in 0 .. 4
    PROVE  /\ Dir(n, k) \in Seq(Nat) /\ Len(Dir(n, k)) = k
           /\ \A i \in 1 .. k : Dir(n, k)[i] = get_pd_from_pagenum(n)[i]
<1> DEFINE s == get_pd_from_pagenum(n)
<1>1. s \in Seq(Nat) /\ Len(s) = 5
  BY PathType
<1> HIDE DEF s
<1>2. \A i \in 1 .. k : s[i] \in Nat
  <2> TAKE i \in 1 .. k
  <2>1. i \in 1 .. Len(s)
    BY <1>1
  <2> QED
    BY <1>1, <2>1, ElementOfSeq
<1>3. /\ SubSeq(s, 1, k) \in Seq(Nat)
      /\ Len(SubSeq(s, 1, k)) = IF 1 <= k THEN k - 1 + 1 ELSE 0
      /\ \A i \in 1 .. k - 1 + 1 : SubSeq(s, 1, k)[i] = s[1 + i - 1]
  BY <1>2, SubSeqProperties
<1>4. 1 .. k - 1 + 1 = 1 .. k /\ \A i \in 1 .. k : 1 + i - 1 = i
  OBVIOUS
<1>5. /\ SubSeq(s, 1, k) \in Seq(Nat) /\ Len(SubSeq(s, 1, k)) = k
      /\ \A i \in 1 .. k : SubSeq(s, 1, k)[i] = s[i]
  BY <1>3, <1>4
<1> QED
  BY <1>5 DEF Dir, s

\* The directories on the way to a page are prefixes of one another.
LEMMA SubDir ==
    ASSUME NEW n \in Pgns, NEW j \in 0 .. 4, NEW k \in 0 .. j
    PROVE  SubSeq(Dir(n, j), 1, k) = Dir(n, k)
<1>1. k \in 0 .. 4
  OBVIOUS
<1>2. CASE k = 0
  <2>1. SubSeq(Dir(n, j), 1, 0) = <<>>
    BY SubSeqEmpty
  <2>2. SubSeq(get_pd_from_pagenum(n), 1, 0) = <<>>
    BY SubSeqEmpty
  <2> QED
    BY <1>2, <2>1, <2>2 DEF Dir
<1>3. CASE k # 0
  <2> DEFINE s == get_pd_from_pagenum(n)
  <2>1. s \in Seq(Nat) /\ Len(s) = 5
    BY PathType
  <2> HIDE DEF s
  <2>2. 1 \in 1 .. Len(s) /\ j \in 1 .. Len(s) /\ 1 \in 1 .. j - 1 + 1 /\ k \in 1 .. j - 1 + 1
    BY <1>3, <2>1
  <2>3. SubSeq(SubSeq(s, 1, j), 1, k) = SubSeq(s, 1 + 1 - 1, 1 + k - 1)
    BY <2>1, <2>2, SubSeqOfSubSeq
  <2>4. 1 + 1 - 1 = 1 /\ 1 + k - 1 = k
    OBVIOUS
  <2>5. SubSeq(SubSeq(s, 1, j), 1, k) = SubSeq(s, 1, k)
    BY <2>3, <2>4
  <2> QED
    BY <2>5 DEF Dir, s
<1> QED
  BY <1>2, <1>3

\* Directories of different depth differ, and equal ones have the same predecessors.
LEMMA DirEqual ==
    ASSUME NEW m \in Pgns, NEW n \in Pgns, NEW j \in 0 .. 4, NEW k \in 0 .. 4,
           Dir(m, j) = Dir(n, k)
    PROVE  j = k /\ \A i \in 0 .. k : Dir(m, i) = Dir(n, i)
<1>1. j = k
  BY DirType
<1>2. ASSUME NEW i \in 0 .. k PROVE Dir(m, i) = Dir(n, i)
  BY <1>1, SubDir
<1> QED
  BY <1>1, <1>2

\* The PGD is above every page.
LEMMA DirZero ==
    ASSUME NEW n \in Pgns
    PROVE  Dir(n, 0) = <<>>
BY SubSeqEmpty DEF Dir

----------------------------------------------------------------------------

\* A directory is there only if those above it are, the PGD first.
Closed ==
    pgd => /\ <<>> \in dirs
           /\ \A n \in Pgns : \A j \in 0 .. 4 : \A k \in 0 .. j :
                Dir(n, j) \in dirs => Dir(n, k) \in dirs

\* The inductive invariant: finitely many directories, closed and counted.
IInv ==
    /\ TypeOK
    /\ IsFiniteSet(dirs)
    /\ Closed
    /\ pgd => mm64_dir_alloc_count = Cardinality(dirs)
    /\ NothingLeaks

\* The invariant holds when init_mm has allocated the PGD or failed to.
LEMMA IInvInit == Init => IInv
<1> SUFFICES ASSUME Init PROVE IInv
  OBVIOUS
<1>1. TypeOK
  BY PageTableAssumption DEF Init, TypeOK
<1>2. IsFiniteSet(dirs) /\ (pgd => Cardinality(dirs) = 1)
  BY FS_EmptySet, FS_Singleton DEF Init
<1>3. Closed
  <2> SUFFICES ASSUME pgd, NEW n \in Pgns, NEW j \in 0 .. 4, NEW k \in 0 .. j, Dir(n, j) = <<>>
               PROVE  Dir(n, k) = <<>>
    BY DEF Init, Closed
  <2>1. Dir(n, j) = Dir(n, 0)
    BY DirZero
  <2>2. j = 0
    BY <2>1, DirEqual
  <2> QED
    BY <2>2, DirZero
<1> QED
  BY <1>1, <1>2, <1>3 DEF Init, IInv, NothingLeaks

\* A walk (pte_walk) keeps the tree closed and counted, however far it comes.
LEMMA WalkKeeps ==
    ASSUME IInv, NEW n \in Pgns, NEW k \in 0 .. 4, pte_walk(n, k)
    PROVE  /\ IsFiniteSet(dirs') /\ Closed'
           /\ mm64_dir_alloc_count' = Cardinality(dirs') /\ mm64_dir_alloc_count' \in Nat
           /\ dirs' \subseteq {Dir(m, j) : m \in Pgns, j \in 0 .. 4} \cup {<<>>}
           /\ pgd /\ pgd'
<1> DEFINE I == {i \in 1 .. k : Dir(n, i) \notin dirs}
           J == {Dir(n, i) : i \in I}
           f == [i \in I |-> Dir(n, i)]
<1>1. pgd /\ pgd' = pgd
  BY DEF pte_walk
<1>2. dirs' = dirs \cup J /\ dirs \cap J = {}
  BY DEF pte_walk
<1>3. IsFiniteSet(I) /\ Cardinality(I) \in Nat
  <2>1. IsFiniteSet(1 .. k)
    BY FS_Interval
  <2>2. IsFiniteSet(I)
    BY <2>1, FS_Subset, I \in SUBSET (1 .. k)
  <2> QED
    BY <2>2, FS_CardinalityType
<1>4. f \in Bijection(I, J)
  <2>1. \A i, j \in I : f[i] = f[j] => i = j
    BY DirEqual
  <2>2. f \in [I -> J] /\ \A d \in J : \E i \in I : f[i] = d
    OBVIOUS
  <2> QED
    BY <2>1, <2>2 DEF Bijection, Injection, Surjection, IsInjective
<1>5. IsFiniteSet(J) /\ Cardinality(J) = Cardinality(I)
  BY <1>3, <1>4, FS_Bijection DEF ExistsBijection
<1>6. IsFiniteSet(dirs) /\ mm64_dir_alloc_count = Cardinality(dirs) /\ Cardinality(dirs) \in Nat
  BY <1>1, FS_CardinalityType DEF IInv
<1>7. IsFiniteSet(dirs') /\ Cardinality(dirs') = Cardinality(dirs) + Cardinality(I)
  <2> HIDE DEF I, J
  <2>1. /\ IsFiniteSet(dirs \cup J)
        /\ Cardinality(dirs \cup J) = Cardinality(dirs) + Cardinality(J) - Cardinality(dirs \cap J)
    BY <1>5, <1>6, FS_Union
  <2>2. Cardinality(dirs \cap J) = 0
    BY <1>2, FS_EmptySet
  <2> QED
    BY <1>2, <1>3, <1>5, <1>6, <2>1, <2>2
<1>8. mm64_dir_alloc_count' = mm64_dir_alloc_count + Cardinality(I)
  BY DEF pte_walk
<1>9. Closed'
  <2>1. <<>> \in dirs'
    BY <1>1, <1>2 DEF IInv, Closed
  <2>2. ASSUME NEW m \in Pgns, NEW j \in 0 .. 4, NEW i \in 0 .. j, Dir(m, j) \in dirs'
        PROVE  Dir(m, i) \in dirs'
    <3>1. CASE Dir(m, j) \in dirs
      BY <1>1, <1>2, <3>1 DEF IInv, Closed
    <3>2. CASE Dir(m, j) \notin dirs
      <4>1. PICK h \in 1 .. k : Dir(m, j) = Dir(n, h)
        BY <1>2, <2>2, <3>2
      <4>2. h \in 0 .. 4
        OBVIOUS
      <4>3. j = h /\ Dir(m, i) = Dir(n, i)
        BY <4>1, <4>2, DirEqual
      <4>4. CASE i = 0
        BY <4>4, <2>1, DirZero
      <4>5. CASE i # 0
        <5>1. i \in 1 .. k
          BY <4>3, <4>5
        <5> QED
          BY <5>1, <4>3 DEF pte_walk
      <4> QED
        BY <4>4, <4>5
    <3> QED
      BY <3>1, <3>2
  <2> QED
    BY <2>1, <2>2 DEF Closed
<1>10. dirs' \subseteq {Dir(m, j) : m \in Pgns, j \in 0 .. 4} \cup {<<>>}
  <2>1. J \subseteq {Dir(m, j) : m \in Pgns, j \in 0 .. 4}
    <3>1. \A i \in 1 .. k : i \in 0 .. 4
      OBVIOUS
    <3> QED
      BY <3>1
  <2> QED
    BY <1>2, <2>1 DEF IInv, TypeOK
<1> HIDE DEF I, J, f
<1> QED
  BY <1>1, <1>3, <1>6, <1>7, <1>8, <1>9, <1>10

\* What the setters make of a word is a word of 32 bits.
LEMMA WordType ==
    ASSUME NEW v \in SUBSET Bits, NEW fpn, NEW swptyp, NEW swpoff
    PROVE  /\ Mapped(v, fpn) \in SUBSET Bits
           /\ Swapped(v, swptyp, swpoff) \in SUBSET Bits
           /\ pattern \in SUBSET Bits
<1>1. FPN_MASK \subseteq Bits /\ SWPTYP_MASK \subseteq Bits /\ SWPOFF_MASK \subseteq Bits
  BY DEF FPN_MASK, SWPTYP_MASK, SWPOFF_MASK, Bits, GENMASK
<1>2. PRESENT \in Bits /\ SWAPPED \in Bits /\ pattern \subseteq Bits
  BY DEF PRESENT, SWAPPED, RESERVE, pattern, Bits, GENMASK
<1> QED
  BY <1>1, <1>2, Zenon DEF Mapped, Swapped, SETVAL

\* What a setter finds where it stores, cleared or not, is a word of 32 bits (pte_walk).
LEMMA EntryType ==
    ASSUME IInv, NEW n \in Pgns
    PROVE  Entry(n) \in SUBSET Bits
BY DEF IInv, TypeOK, Entry, Cleared, Slots

\* Storing a word keeps the invariant (pte_set_fpn, pte_set_swap, pte_set_entry).
LEMMA StoreKeeps ==
    ASSUME IInv, NEW n \in Pgns, NEW word \in SUBSET Bits, Store(n, word)
    PROVE  IInv'
<1>1. pte_walk(n, 4) /\ 4 \in 0 .. 4
  BY DEF Store
<1>2. pt' \in [Slots -> SUBSET Bits]
  BY DEF Store, Cleared, IInv, TypeOK
<1>3. TypeOK' /\ NothingLeaks'
  <2>1. pgd' \in BOOLEAN
    BY <1>1 DEF pte_walk, IInv, TypeOK
  <2>2. pgd' /\ mm64_dir_alloc_count' \in Nat
    BY <1>1, <1>2, WalkKeeps
  <2>3. dirs' \subseteq {Dir(m, j) : m \in Pgns, j \in 0 .. 4} \cup {<<>>}
    BY <1>1, <1>2, WalkKeeps
  <2>4. pt' \in [Slots -> SUBSET Bits]
    BY <1>2 DEF IInv, TypeOK
  <2> QED
    BY <2>1, <2>2, <2>3, <2>4 DEF TypeOK, NothingLeaks
<1>4. IsFiniteSet(dirs') /\ Closed' /\ mm64_dir_alloc_count' = Cardinality(dirs')
  BY <1>1, <1>2, WalkKeeps
<1> QED
  BY <1>3, <1>4 DEF IInv

\* A walk that gives up half-way keeps the invariant (pte_walk when calloc fails).
LEMMA FailKeeps ==
    ASSUME IInv, NEW n \in Pgns, WalkFails(n)
    PROVE  IInv'
<1>1. PICK k \in 0 .. 3 : pte_walk(n, k)
  BY DEF WalkFails
<1>2. k \in 0 .. 4 /\ pt' = pt
  BY DEF WalkFails
<1>3. TypeOK' /\ NothingLeaks'
  <2>1. pgd' \in BOOLEAN
    BY <1>1 DEF pte_walk, IInv, TypeOK
  <2>2. pgd' /\ mm64_dir_alloc_count' \in Nat
    BY <1>1, <1>2, WalkKeeps
  <2>3. dirs' \subseteq {Dir(m, j) : m \in Pgns, j \in 0 .. 4} \cup {<<>>}
    BY <1>1, <1>2, WalkKeeps
  <2>4. pt' \in [Slots -> SUBSET Bits]
    BY <1>2 DEF IInv, TypeOK
  <2> QED
    BY <2>1, <2>2, <2>3, <2>4 DEF TypeOK, NothingLeaks
<1>4. IsFiniteSet(dirs') /\ Closed' /\ mm64_dir_alloc_count' = Cardinality(dirs')
  BY <1>1, <1>2, WalkKeeps
<1> QED
  BY <1>3, <1>4 DEF IInv

\* In a closed tree every directory has all its predecessors.
LEMMA PrefixClosed ==
    ASSUME IInv, pgd, NEW d \in dirs, NEW k \in 0 .. Len(d)
    PROVE  SubSeq(d, 1, k) \in dirs
<1>1. CASE d = <<>>
  <2>1. k = 0
    BY <1>1
  <2>2. SubSeq(d, 1, 0) = <<>>
    BY SubSeqEmpty
  <2> QED
    BY <1>1, <2>1, <2>2
<1>2. CASE d # <<>>
  <2>1. PICK n \in Pgns, j \in 0 .. 4 : d = Dir(n, j)
    BY <1>2 DEF IInv, TypeOK
  <2>2. k \in 0 .. j
    BY <2>1, DirType
  <2> QED
    BY <2>1, <2>2, SubDir DEF IInv, Closed
<1> QED
  BY <1>1, <1>2

\* The tear-down frees every directory (mm64_destroy_pgd_tree).
LEMMA DestroyKeeps ==
    ASSUME IInv, mm64_destroy_pgd_tree
    PROVE  IInv'
<1>1. dirs' = {}
  BY PrefixClosed DEF mm64_destroy_pgd_tree, mm64_free_dir
<1>2. IsFiniteSet(dirs')
  BY <1>1, FS_EmptySet
<1>3. pgd' = FALSE
  BY DEF mm64_destroy_pgd_tree
<1>4. pt' = pt /\ mm64_dir_alloc_count' = mm64_dir_alloc_count
  BY DEF mm64_destroy_pgd_tree
<1>5. TypeOK'
  <2>1. pgd' \in BOOLEAN
    BY <1>3
  <2>2. pt' \in [Slots -> SUBSET Bits] /\ mm64_dir_alloc_count' \in Nat
    BY <1>4 DEF IInv, TypeOK
  <2> QED
    BY <1>1, <2>1, <2>2 DEF TypeOK
<1> QED
  BY <1>1, <1>2, <1>3, <1>5 DEF IInv, Closed, NothingLeaks

\* Every call on a page table keeps the invariant.
LEMMA IInvNext == IInv /\ [Next]_vars => IInv'
<1> SUFFICES ASSUME IInv, [Next]_vars PROVE IInv'
  OBVIOUS
<1>1. ASSUME NEW n \in Pgns, NEW fpn \in Fpns, pte_set_fpn(n, fpn) PROVE IInv'
  BY <1>1, StoreKeeps, EntryType, WordType DEF pte_set_fpn
<1>2. ASSUME NEW n \in Pgns, NEW swptyp \in SwpTyps, NEW swpoff \in SwpOffs,
             pte_set_swap(n, swptyp, swpoff)
      PROVE  IInv'
  BY <1>2, StoreKeeps, EntryType, WordType DEF pte_set_swap
<1>3. ASSUME NEW n \in Pgns, pte_set_entry(n, pattern) PROVE IInv'
  BY <1>3, StoreKeeps, EntryType, WordType DEF pte_set_entry
<1>4. ASSUME NEW n \in Pgns, WalkFails(n) PROVE IInv'
  BY <1>4, FailKeeps
<1>5. CASE mm64_destroy_pgd_tree
  BY <1>5, DestroyKeeps
<1>6. CASE UNCHANGED vars
  BY <1>6 DEF vars, IInv, TypeOK, Closed, NothingLeaks
<1> QED
  BY <1>1, <1>2, <1>3, <1>4, <1>5, <1>6 DEF Next

\* The invariant holds after every sequence of calls.
LEMMA IInvHolds == Spec => []IInv
BY IInvInit, IInvNext, PTL DEF Spec

\* Directories lie on the way to some page, and entries are words of 32 bits.
THEOREM PageTableType == Spec => []TypeOK
<1>1. IInv => TypeOK
  BY DEF IInv
<1> QED
  BY <1>1, IInvHolds, PTL

\* Every directory is reachable and counted once, whatever calloc does (pte_walk).
THEOREM PageTableCounted == Spec => []TreeCounted
<1>1. IInv => TreeCounted
  BY PrefixClosed DEF IInv, TreeCounted
<1> QED
  BY <1>1, IInvHolds, PTL

\* The tear-down leaves no directory behind (mm64_destroy_pgd_tree).
THEOREM PageTableFreed == Spec => []NothingLeaks
<1>1. IInv => NothingLeaks
  BY DEF IInv
<1> QED
  BY <1>1, IInvHolds, PTL

----------------------------------------------------------------------------

\* At most one of the readers' conditions on a word holds.
LEMMA Conditions ==
    /\ {SWAPPED} # {PRESENT} /\ {} # {PRESENT} /\ {} # {SWAPPED}
    /\ Flags(pattern) = {} /\ Flags({}) = {} /\ pattern # {}
<1>1. SWAPPED # PRESENT
  BY DEF PRESENT, SWAPPED
<1>2. {SWAPPED} # {PRESENT} /\ {} # {PRESENT} /\ {} # {SWAPPED}
  BY <1>1, Zenon
<1>3. Flags(pattern) = {} /\ Flags({}) = {} /\ pattern # {}
  BY DEF Flags, pattern, PRESENT, SWAPPED, RESERVE
<1> QED
  BY <1>2, <1>3

\* What a word with one of the two flags means.
LEMMA FlagMeans ==
    ASSUME NEW w
    PROVE  /\ Flags(w) = {PRESENT} => Meaning(w) = [kind |-> "frame", of |-> GETVAL(w, FPN_MASK, 0)]
           /\ Flags(w) = {SWAPPED} =>
                Meaning(w) = [kind |-> "slot", of |-> GETVAL(w, SWPOFF_MASK, SWPOFF_LOBIT)]
<1>1. CASE Flags(w) = {PRESENT}
  <2>1. ~(Flags(w) = {SWAPPED}) /\ w # {} /\ w # pattern
    BY <1>1, Conditions, Zenon
  <2> QED
    BY <1>1, <2>1, Conditions DEF Meaning
<1>2. CASE Flags(w) = {SWAPPED}
  <2>1. ~(Flags(w) = {PRESENT}) /\ w # {} /\ w # pattern
    BY <1>2, Conditions, Zenon
  <2> QED
    BY <1>2, <2>1, Conditions DEF Meaning
<1> QED
  BY <1>1, <1>2, Zenon

\* The page of a present entry is the frame that pte_set_fpn has stored, whatever the
\* word was before.
LEMMA MappedMeans ==
    ASSUME NEW v \in SUBSET Bits, NEW fpn \in Fpns
    PROVE  Meaning(Mapped(v, fpn)) = Flat!InFrame(fpn)
<1> DEFINE w == Mapped(v, fpn)
<1>0. fpn \in SUBSET (0 .. 12)
  BY PageTableAssumption
<1>1. Flags(w) = {PRESENT}
  BY DEF Flags, Mapped, SETVAL, FPN_MASK, GENMASK, PRESENT, SWAPPED
<1>2. w \cap FPN_MASK = fpn
  <2>1. \A i \in fpn : i + 0 = i
    BY <1>0
  <2> QED
    BY <1>0, <2>1, Zenon DEF Mapped, SETVAL, FPN_MASK, GENMASK
<1>3. GETVAL(w, FPN_MASK, 0) = fpn
  <2>1. \A i \in fpn : i - 0 = i
    BY <1>0
  <2> QED
    BY <1>2, <2>1, Zenon DEF GETVAL
<1> HIDE DEF w
<1>4. Meaning(w) = [kind |-> "frame", of |-> fpn]
  BY <1>1, <1>3, FlagMeans
<1> QED
  BY <1>4 DEF w, Flat!InFrame

\* The same of the slot that pte_set_swap has stored.
LEMMA SwappedMeans ==
    ASSUME NEW v \in SUBSET Bits, NEW swptyp \in SwpTyps, NEW swpoff \in SwpOffs
    PROVE  Meaning(Swapped(v, swptyp, swpoff)) = Flat!InSlot(swpoff)
<1> DEFINE w == Swapped(v, swptyp, swpoff)
           shifted == {i + 5 : i \in swpoff}
<1>0. swpoff \in SUBSET (0 .. 20) /\ shifted \subseteq 5 .. 25
  BY PageTableAssumption
<1>1. Flags(w) = {SWAPPED}
  BY DEF Flags, Swapped, SETVAL, FPN_MASK, SWPTYP_MASK, SWPOFF_MASK, GENMASK, PRESENT, SWAPPED
<1>2. w \cap SWPOFF_MASK = shifted
  BY <1>0 DEF Swapped, SETVAL, SWPOFF_MASK, SWPOFF_LOBIT, GENMASK
<1>3. GETVAL(w, SWPOFF_MASK, SWPOFF_LOBIT) = swpoff
  <2>1. \A i \in swpoff : (i + 5) - 5 = i
    BY <1>0
  <2>2. {i - 5 : i \in shifted} = swpoff
    BY <2>1, Zenon
  <2> QED
    BY <1>2, <2>2, Zenon DEF GETVAL, SWPOFF_LOBIT
<1> HIDE DEF w
<1>4. Meaning(w) = [kind |-> "slot", of |-> swpoff]
  BY <1>1, <1>3, FlagMeans
<1> QED
  BY <1>4 DEF w, Flat!InSlot

\* The marker and the zero word.
LEMMA OthersMean ==
    Meaning(pattern) = Flat!Marked /\ Meaning({}) = Flat!Absent
BY Conditions DEF Meaning, Flat!Marked, Flat!Absent

\* What is read of each page after a store: the word at its page, and what was read
\* before at every other (pte_get_entry).
LEMMA StoreView ==
    ASSUME IInv, NEW n \in Pgns, NEW word, Store(n, word), NEW m \in Pgns
    PROVE  pte_get_entry(m)' = IF m = n THEN word ELSE pte_get_entry(m)
<1> DEFINE s == get_pd_from_pagenum(m)
<1>1. /\ pgd /\ pgd' /\ s \in Slots
      /\ dirs' = dirs \cup {Dir(n, i) : i \in 1 .. 4}
      /\ SubSeq(s, 1, 4) = Dir(m, 4)
  BY DEF Store, pte_walk, Slots, Dir
<1>2. pt'[s] = IF s = get_pd_from_pagenum(n) THEN word
               ELSE IF Dir(m, 4) = Dir(n, 4) THEN Cleared(s) ELSE pt[s]
  BY <1>1 DEF Store
<1>3. Cleared(s) = IF Dir(m, 4) \in dirs THEN pt[s] ELSE {}
  BY <1>1 DEF Cleared
<1>4. pte_get_entry(m)' = IF \A k \in 1 .. 4 : Dir(m, k) \in dirs' THEN pt'[s] ELSE {}
  BY <1>1 DEF pte_get_entry, Dir
<1>5. pte_get_entry(m) = IF \A k \in 1 .. 4 : Dir(m, k) \in dirs THEN pt[s] ELSE {}
  BY <1>1 DEF pte_get_entry
<1>6. CASE m = n
  BY <1>1, <1>2, <1>4, <1>6
<1>7. CASE m # n
  <2>1. s # get_pd_from_pagenum(n)
    BY <1>7, PathInjective
  <2>2. Dir(m, 4) \in dirs => \A k \in 1 .. 4 : Dir(m, k) \in dirs
    BY <1>1 DEF IInv, Closed
  <2>3. CASE Dir(m, 4) \in dirs
    BY <1>1, <1>2, <1>3, <1>4, <1>5, <1>7, <2>1, <2>2, <2>3
  <2>4. CASE Dir(m, 4) \notin dirs
    <3>1. pte_get_entry(m) = {}
      BY <1>5, <2>4
    <3>2. CASE Dir(m, 4) = Dir(n, 4)
      BY <1>2, <1>3, <1>4, <1>7, <2>1, <2>4, <3>1, <3>2
    <3>3. CASE Dir(m, 4) # Dir(n, 4)
      <4>1. \A i \in 1 .. 4 : i \in 0 .. 4 /\ 4 \in 0 .. 4
        OBVIOUS
      <4>2. \A i \in 1 .. 4 : Dir(m, 4) # Dir(n, i)
        BY <3>3, <4>1, DirEqual
      <4>3. Dir(m, 4) \notin dirs'
        BY <1>1, <2>4, <4>2
      <4> QED
        BY <1>4, <1>7, <3>1, <4>3
    <3> QED
      BY <3>2, <3>3
  <2> QED
    BY <2>3, <2>4
<1> QED
  BY <1>6, <1>7

\* A walk for which calloc fails changes nothing that is read.
LEMMA FailView ==
    ASSUME IInv, NEW n \in Pgns, WalkFails(n), NEW m \in Pgns
    PROVE  pte_get_entry(m)' = pte_get_entry(m)
<1>1. PICK h \in 0 .. 3 : pte_walk(n, h)
  BY DEF WalkFails
<1>2. pgd /\ pgd' /\ pt' = pt /\ dirs' = dirs \cup {Dir(n, i) : i \in 1 .. h}
  BY <1>1 DEF WalkFails, pte_walk
<1>3. Dir(m, 4) \in dirs' => Dir(m, 4) \in dirs
  <2>1. \A i \in 1 .. h : i \in 0 .. 4 /\ 4 \in 0 .. 4 /\ i # 4
    OBVIOUS
  <2>2. \A i \in 1 .. h : Dir(m, 4) # Dir(n, i)
    BY <2>1, DirEqual
  <2> QED
    BY <1>2, <2>2
<1>4. Dir(m, 4) \in dirs => \A k \in 1 .. 4 : Dir(m, k) \in dirs
  BY <1>2 DEF IInv, Closed
<1>5. (\A k \in 1 .. 4 : Dir(m, k) \in dirs') <=> (\A k \in 1 .. 4 : Dir(m, k) \in dirs)
  BY <1>2, <1>3, <1>4
<1> QED
  BY <1>2, <1>5 DEF pte_get_entry, Dir

----------------------------------------------------------------------------

\* A new table reads as one whose pages are all absent (init_mm, pte_get_entry).
LEMMA FlatInit == Init => Flat!Init
<1> SUFFICES ASSUME Init, NEW n \in Pgns PROVE pte_get_entry(n) = {}
  BY OthersMean DEF Flat!Init
<1>1. 1 \in 0 .. 4 /\ 1 \in 1 .. 4
  OBVIOUS
<1>2. Len(Dir(n, 1)) = 1
  BY <1>1, DirType
<1>3. Dir(n, 1) # <<>>
  BY <1>2
<1> QED
  BY <1>1, <1>3 DEF Init, pte_get_entry

\* A store is an assignment to one page of the flat table (pte_set_entry).
LEMMA StoreFlat ==
    ASSUME IInv, NEW n \in Pgns, NEW word, Store(n, word)
    PROVE  Flat!Assign(n, Meaning(word))
<1>1. \A m \in Pgns : Meaning(pte_get_entry(m)') =
                        IF m = n THEN Meaning(word) ELSE Meaning(pte_get_entry(m))
  BY StoreView
<1> QED
  BY <1>1 DEF Flat!Assign

\* Every call is a step of the flat table, or changes nothing that is read.
LEMMA FlatNext == IInv /\ [Next]_vars => [Flat!Next]_[n \in Pgns |-> Meaning(pte_get_entry(n))]
<1> DEFINE bar == [n \in Pgns |-> Meaning(pte_get_entry(n))]
<1> SUFFICES ASSUME IInv, [Next]_vars PROVE Flat!Next \/ bar' = bar
  OBVIOUS
<1>1. ASSUME NEW n \in Pgns, NEW fpn \in Fpns, pte_set_fpn(n, fpn) PROVE Flat!Next
  <2>1. Flat!Assign(n, Flat!InFrame(fpn))
    BY <1>1, StoreFlat, EntryType, MappedMeans DEF pte_set_fpn
  <2> QED
    BY <2>1 DEF Flat!Next
<1>2. ASSUME NEW n \in Pgns, NEW swptyp \in SwpTyps, NEW swpoff \in SwpOffs,
             pte_set_swap(n, swptyp, swpoff)
      PROVE  Flat!Next
  <2>1. Flat!Assign(n, Flat!InSlot(swpoff))
    BY <1>2, StoreFlat, EntryType, SwappedMeans DEF pte_set_swap
  <2> QED
    BY <2>1 DEF Flat!Next
<1>3. ASSUME NEW n \in Pgns, pte_set_entry(n, pattern) PROVE Flat!Next
  <2>1. Flat!Assign(n, Flat!Marked)
    BY <1>3, StoreFlat, OthersMean DEF pte_set_entry
  <2> QED
    BY <2>1 DEF Flat!Next
<1>4. ASSUME NEW n \in Pgns, WalkFails(n) PROVE bar' = bar
  <2>1. \A m \in Pgns : pte_get_entry(m)' = pte_get_entry(m)
    BY <1>4, FailView
  <2> QED
    BY <2>1 DEF Meaning
<1>5. CASE mm64_destroy_pgd_tree
  <2>1. \A m \in Pgns : Meaning(pte_get_entry(m)') = Flat!Absent
    BY <1>5, OthersMean DEF mm64_destroy_pgd_tree, pte_get_entry
  <2> QED
    BY <2>1 DEF Flat!Next, Flat!Drop
<1>6. CASE UNCHANGED vars
  BY <1>6 DEF vars, pte_get_entry
<1> QED
  BY <1>1, <1>2, <1>3, <1>4, <1>5, <1>6 DEF Next

\* The five-level tree behaves as a flat table of entries (pte_walk, pte_set_fpn,
\* pte_set_swap, pte_set_entry, pte_get_entry, mm64_destroy_pgd_tree).
THEOREM PageTableImplementsFlat == Spec => ImplementsFlat
BY FlatInit, FlatNext, IInvHolds, PTL DEF Spec, ImplementsFlat, Flat!Spec
=============================================================================
