----------------------------- MODULE PageTable ------------------------------
(***************************************************************************)
(* The page table of src/src/mm64.c: five levels of directories that are   *)
(* allocated when a page below them is first set, and entries whose fields *)
(* share the bits of one word (src/include/mm.h).                          *)
(*                                                                         *)
(* A number stored in an entry is the set of the positions of its one      *)
(* bits.  A directory is named by the indices that lead to it, so the PGD  *)
(* is <<>> and a page table has four.  A table belongs to one process and  *)
(* is only used by the CPU the process is on: a call is one step.          *)
(***************************************************************************)
EXTENDS Integers, Sequences, FiniteSets

CONSTANTS
    D,          \* PAGING64_DIR_ENTRIES (512)
    MAX_PGN,    \* PAGING_MAX_PGN (16384)
    Pgns,       \* the pages that are used
    Fpns,       \* frame numbers
    SwpTyps, SwpOffs,   \* swap devices and slots
    Garbage     \* what memory holds before calloc clears it

GENMASK(h, l) == l .. h
PRESENT == 31
SWAPPED == 30
RESERVE == 29
FPN_MASK == GENMASK(12, 0)
SWPTYP_MASK == GENMASK(4, 0)
SWPTYP_LOBIT == 0
SWPOFF_MASK == GENMASK(25, 5)
SWPOFF_LOBIT == 5
Bits == GENMASK(31, 0)

\* The levels of all pages fit, and frames, devices and slots fit their fields.
ASSUME PageTableAssumption ==
    /\ D \in Nat \ {0} /\ MAX_PGN \in Nat
    /\ Pgns \subseteq 0 .. MAX_PGN - 1
    /\ \A n \in Pgns : ((((n \div D) \div D) \div D) \div D) \div D = 0
    /\ Fpns \subseteq SUBSET (0 .. 12)
    /\ SwpTyps \subseteq SUBSET (0 .. 4)
    /\ SwpOffs \subseteq SUBSET (0 .. 20)
    /\ Garbage \subseteq Bits

VARIABLES
    pgd,     \* mm->pgd is not NULL
    dirs,    \* the directories that are allocated
    pt,      \* the memory of the page tables, by path
    mm64_dir_alloc_count

vars == <<pgd, dirs, pt, mm64_dir_alloc_count>>

----------------------------------------------------------------------------
(* The walk                                                                 *)

\* get_pd_from_pagenum: the five indices of a page.
get_pd_from_pagenum_narrow(n) ==
    LET pmd == n \div D  pud == pmd \div D  p4d == pud \div D  pg == p4d \div D
    IN <<pg % D, p4d % D, pud % D, pud % D, n % D>>
get_pd_from_pagenum(n) ==
    LET pmd == n \div D  pud == pmd \div D  p4d == pud \div D  pg == p4d \div D
    IN <<pg % D, p4d % D, pud % D, pmd % D, n % D>>

Slots == {get_pd_from_pagenum(n) : n \in Pgns}
Dir(n, k) == SubSeq(get_pd_from_pagenum(n), 1, k)

\* init_mm allocates the PGD, and counts it even when calloc has failed.
Init ==
    /\ pgd \in BOOLEAN
    /\ dirs = IF pgd THEN {<<>>} ELSE {}
    /\ pt = [s \in Slots |-> Garbage]
    /\ mm64_dir_alloc_count = 1

\* pte_walk with alloc: afterwards the first k directories below the PGD exist; the
\* walk has ended because they are all there or calloc has failed for the next.
pte_walk_deep(n, k) ==
    /\ pgd
    /\ k < 4 => Dir(n, k + 1) \notin dirs
    /\ dirs' = dirs \cup {Dir(n, i) : i \in 1 .. k + 1}
    /\ mm64_dir_alloc_count' =
         mm64_dir_alloc_count + Cardinality({i \in 1 .. k : Dir(n, i) \notin dirs})
    /\ UNCHANGED pgd
pte_walk_recount(n, k) ==
    /\ pgd
    /\ k < 4 => Dir(n, k + 1) \notin dirs
    /\ dirs' = dirs \cup {Dir(n, i) : i \in 1 .. k}
    /\ mm64_dir_alloc_count' = mm64_dir_alloc_count + k
    /\ UNCHANGED pgd
pte_walk(n, k) ==
    /\ pgd
    /\ k < 4 => Dir(n, k + 1) \notin dirs
    /\ dirs' = dirs \cup {Dir(n, i) : i \in 1 .. k}
    /\ mm64_dir_alloc_count' =
         mm64_dir_alloc_count + Cardinality({i \in 1 .. k : Dir(n, i) \notin dirs})
    /\ UNCHANGED pgd

\* calloc clears a page table when it allocates it.
Cleared_malloc(s) == pt[s]
Cleared(s) == IF SubSeq(s, 1, 4) \in dirs THEN pt[s] ELSE {}

\* The walk has found the entry of page n, in a table that may be new, and the
\* caller stores a word there.
Entry(n) == Cleared(get_pd_from_pagenum(n))
Store(n, word) ==
    /\ pte_walk(n, 4)
    /\ pt' = [s \in Slots |->
                IF s = get_pd_from_pagenum(n) THEN word
                ELSE IF SubSeq(s, 1, 4) = Dir(n, 4) THEN Cleared(s) ELSE pt[s]]

\* Any call that sets an entry gives up where calloc fails, and leaves the
\* directories that it has allocated.
WalkFails(n) ==
    /\ \E k \in 0 .. 3 : pte_walk(n, k)
    /\ UNCHANGED pt

----------------------------------------------------------------------------
(* Entries                                                                  *)

SETVAL(v, value, mask, offst) == (v \ mask) \cup ({i + offst : i \in value} \cap mask)
GETVAL(v, mask, offst) == {i - offst : i \in v \cap mask}

\* What pte_set_swap and pte_set_fpn make of an entry.
Swapped_present(v, swptyp, swpoff) ==
    LET w == (v \ FPN_MASK) \cup {SWAPPED}
    IN SETVAL(SETVAL(w, swptyp, SWPTYP_MASK, SWPTYP_LOBIT), swpoff, SWPOFF_MASK, SWPOFF_LOBIT)
Swapped(v, swptyp, swpoff) ==
    LET w == ((v \ {PRESENT}) \ FPN_MASK) \cup {SWAPPED}
    IN SETVAL(SETVAL(w, swptyp, SWPTYP_MASK, SWPTYP_LOBIT), swpoff, SWPOFF_MASK, SWPOFF_LOBIT)
Mapped(v, fpn) == SETVAL((v \cup {PRESENT}) \ {SWAPPED}, fpn, FPN_MASK, 0)

pte_set_swap(n, swptyp, swpoff) == Store(n, Swapped(Entry(n), swptyp, swpoff))
pte_set_fpn(n, fpn) == Store(n, Mapped(Entry(n), fpn))
pte_set_entry(n, val) == Store(n, val)

\* PAGING_PTE_RESERVE_MASK | 0xDEAD, the value vmap_pgd_memset stores.
pattern == {RESERVE} \cup {0, 2, 3, 5, 7, 9, 10, 11, 12, 14, 15}

\* pte_get_entry: zero when a directory on the way is missing.
pte_get_entry(n) ==
    IF pgd /\ \A k \in 1 .. 4 : Dir(n, k) \in dirs THEN pt[get_pd_from_pagenum(n)] ELSE {}

----------------------------------------------------------------------------

\* mm64_free_dir frees a directory after those below it; what it reaches from the
\* PGD are the directories whose every predecessor exists.
mm64_free_dir_early ==
    {d \in dirs : Len(d) < 4 /\ \A k \in 0 .. Len(d) : SubSeq(d, 1, k) \in dirs}
mm64_free_dir == {d \in dirs : \A k \in 0 .. Len(d) : SubSeq(d, 1, k) \in dirs}

mm64_destroy_pgd_tree ==
    /\ pgd
    /\ pgd' = FALSE
    /\ dirs' = dirs \ mm64_free_dir
    /\ UNCHANGED <<pt, mm64_dir_alloc_count>>

Next ==
    \/ \E n \in Pgns :
         \/ \E fpn \in Fpns : pte_set_fpn(n, fpn)
         \/ \E swptyp \in SwpTyps, swpoff \in SwpOffs : pte_set_swap(n, swptyp, swpoff)
         \/ pte_set_entry(n, pattern)
         \/ WalkFails(n)
    \/ mm64_destroy_pgd_tree

Spec == Init /\ [][Next]_vars

----------------------------------------------------------------------------
(* Properties                                                               *)

\* Directories lie on the way to some page, and entries are words of 32 bits
\* (dir_load_or_alloc, SETVAL).
TypeOK ==
    /\ pgd \in BOOLEAN
    /\ dirs \subseteq {Dir(n, k) : n \in Pgns, k \in 0 .. 4} \cup {<<>>}
    /\ pt \in [Slots -> SUBSET Bits]
    /\ mm64_dir_alloc_count \in Nat

\* Every directory can be reached from the PGD, also when calloc has failed half-way
\* through a walk, and the statistics count each of them once (pte_walk,
\* dir_load_or_alloc).
TreeCounted ==
    pgd => /\ \A d \in dirs : \A k \in 0 .. Len(d) : SubSeq(d, 1, k) \in dirs
           /\ mm64_dir_alloc_count = Cardinality(dirs)

\* A process that has ended leaves no directory behind, at any level and
\* however far its walks came (mm64_destroy_pgd_tree, mm64_free_dir).
NothingLeaks == ~pgd => dirs = {}

\* What the readers of an entry (pg_getpage, free_pcb_memph) make of it: an entry
\* that is both present and swapped, or neither of the four, has no meaning.
Flags(v) == v \cap {PRESENT, SWAPPED}
Meaning(v) ==
    CASE Flags(v) = {PRESENT} -> [kind |-> "frame", of |-> GETVAL(v, FPN_MASK, 0)]
      [] Flags(v) = {SWAPPED} -> [kind |-> "slot", of |-> GETVAL(v, SWPOFF_MASK, SWPOFF_LOBIT)]
      [] v = {} -> [kind |-> "absent", of |-> {}]
      [] v = pattern -> [kind |-> "marked", of |-> {}]
      [] OTHER -> [kind |-> "senseless", of |-> v]

Flat == INSTANCE FlatTable WITH entries <- [n \in Pgns |-> Meaning(pte_get_entry(n))]

\* The tree behaves as a flat table of entries: setting a page changes that page
\* alone, to exactly the frame, slot or marker given, whatever bits the entry
\* held before, and a walk for which memory ran out changes nothing (pte_walk,
\* pte_set_fpn, pte_set_swap, pte_set_entry, pte_get_entry).
ImplementsFlat == Flat!Spec
=============================================================================
