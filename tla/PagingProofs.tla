---------------------------- MODULE PagingProofs ----------------------------
(***************************************************************************)
(* Proofs about Paging, for every number of processes, frames, pages and   *)
(* regions and every page size: first the areas, regions and page lists,   *)
(* then who holds each frame of MEMRAM and what the bytes in it are.       *)
(***************************************************************************)
EXTENDS Paging, RegionsProofs, FiniteSetTheorems

Growing(p) == op[p].at \in {"grab", "rollback", "map"}

Entry == [present : BOOLEAN, swapped : BOOLEAN, reserved : BOOLEAN, fpn : Nat]
Bytes == {<<>>, <<NoProc>>} \cup (Procs \X Rgids \X Nat)
GrowOps == [at : {"grab", "rollback", "map"}, rgids : SUBSET Rgids, size : Nat, old : Nat,
            need : Nat, got : Seq(Frames), pgn : Nat]
Ops == [at : {"new", "idle", "dead"}] \cup [at : {"exit"}, pgn : 0 .. MAX_PGN] \cup GrowOps

\* The types of all variables.
Types ==
    /\ free_fp_list \in Seq(Frames) /\ swp_fp_list \in Seq(Nat)
    /\ storage \in [Frames -> [Offsets -> Bytes]]
    /\ mmvm_lock \in Procs \cup {NoProc}
    /\ sbrk \in [Procs -> 0 .. MaxBrk]
    /\ vm_freerg \in [Procs -> Seq(Rg)]
    /\ stale \in [Procs -> BOOLEAN]
    /\ symrgtbl \in [Procs -> [Rgids -> Rg]]
    /\ pgtbl \in [Procs -> [Pages -> Entry]]
    /\ fifo_pgn \in [Procs -> Seq(Pages)]
    /\ op \in [Procs -> Ops]
    /\ written \in [Procs -> [Rgids -> SUBSET Nat]]
    /\ nwrites \in 0 .. MaxWrites
    /\ undefined \in BOOLEAN

\* Present entries name frames of MEMRAM.
EntryInv == \A p \in Procs, n \in Pages : pgtbl[p][n].present => pgtbl[p][n].fpn \in Frames

\* While an area grows, its regions end at the old limit and the one to come, if the sizes
\* fit an int, below the new limit.
Limit(p) == IF Growing(p) THEN op[p].old ELSE sbrk[p]
GrowInv(p) ==
    Growing(p) => /\ SizesFit => op[p].old + op[p].size <= sbrk[p]
                  /\ Len(op[p].got) <= op[p].need
                  /\ \A r, t \in op[p].rgids : r = t

\* Regions and free regions lie below the limit, in order and apart from each other: the
\* layout of an area whose sizes fit an int.
Layout(p) ==
    /\ Within(vm_freerg[p], 0, Limit(p)) /\ Ordered(vm_freerg[p]) /\ Disjoint(vm_freerg[p])
    /\ \A r \in Rgids :
         /\ 0 <= symrgtbl[p][r][1] /\ symrgtbl[p][r][1] <= symrgtbl[p][r][2]
         /\ symrgtbl[p][r][2] <= Limit(p)
         /\ Apart(symrgtbl[p][r], vm_freerg[p])
    /\ \A r, t \in Rgids : r # t => ~Overlap(symrgtbl[p][r], symrgtbl[p][t])

LayoutInv(p) == SizesFit => Layout(p)

\* The inductive invariant of the areas.
AreaInv == Types /\ EntryInv /\ \A p \in Procs : GrowInv(p) /\ LayoutInv(p)

\* What is left to map lies below the limit.
Left(p) == IF op[p].at = "grab" THEN op[p].need ELSE Len(op[p].got)
RoomInv(p) == Growing(p) => op[p].pgn + Left(p) <= sbrk[p] \div PAGESZ

\* The FIFO list names the pages that are present or marked, each once, and all of them lie
\* below the page that is mapped next.
NextPage(p) == IF Growing(p) THEN op[p].pgn ELSE sbrk[p] \div PAGESZ
FifoInv(p) ==
    /\ \A j, k \in 1 .. Len(fifo_pgn[p]) : fifo_pgn[p][j] = fifo_pgn[p][k] => j = k
    /\ \A k \in 1 .. Len(fifo_pgn[p]) :
         /\ fifo_pgn[p][k] < NextPage(p)
         /\ pgtbl[p][fifo_pgn[p][k]].present \/ pgtbl[p][fifo_pgn[p][k]] = marker
    /\ \A n \in Pages : pgtbl[p][n].present => \E k \in 1 .. Len(fifo_pgn[p]) : fifo_pgn[p][k] = n

\* The inductive invariant of the page lists.
ListInv == AreaInv /\ \A p \in Procs : RoomInv(p) /\ FifoInv(p)

----------------------------------------------------------------------------
(* Calls under way                                                          *)

\* The shape of a call under way.
LEMMA Shape ==
    ASSUME Types, NEW p \in Procs
    PROVE  /\ Growing(p) => op[p] \in GrowOps /\ InFlight(p) = op[p].got
           /\ ~Growing(p) => InFlight(p) = <<>>
           /\ op[p].at = "exit" => op[p].pgn \in 0 .. MAX_PGN
           /\ op[p].at \in {"new", "idle", "grab", "rollback", "map", "exit", "dead"}
<1>1. op[p] \in Ops
  BY DEF Types
<1>2. CASE op[p] \in [at : {"new", "idle", "dead"}]
  BY <1>2 DEF Growing, InFlight
<1>3. CASE op[p] \in [at : {"exit"}, pgn : 0 .. MAX_PGN]
  BY <1>3 DEF Growing, InFlight
<1>4. CASE op[p] \in GrowOps
  BY <1>4 DEF Growing, InFlight, GrowOps
<1> QED
  BY <1>1, <1>2, <1>3, <1>4 DEF Ops

\* The fields of a growing area.
LEMMA GrowFields ==
    ASSUME NEW x \in GrowOps
    PROVE  /\ x.at \in {"grab", "rollback", "map"} /\ x.rgids \subseteq Rgids /\ x.size \in Nat
           /\ x.old \in Nat /\ x.need \in Nat /\ x.got \in Seq(Frames) /\ x.pgn \in Nat
BY DEF GrowOps

\* A call starts, or ends.
LEMMA OpStarts ==
    ASSUME Types, NEW p \in Procs, NEW x \in Ops, op' = [op EXCEPT ![p] = x]
    PROVE  /\ op' \in [Procs -> Ops] /\ op'[p] = x
           /\ \A q \in Procs : q # p => op'[q] = op[q]
BY DEF Types

\* A growing area has other frames in flight ...
LEMMA OpFrames ==
    ASSUME Types, NEW p \in Procs, Growing(p), NEW g \in Seq(Frames),
           op' = [op EXCEPT ![p].got = g]
    PROVE  /\ op' \in [Procs -> Ops] /\ op'[p] \in GrowOps
           /\ op'[p].got = g /\ op'[p].at = op[p].at /\ op'[p].rgids = op[p].rgids
           /\ op'[p].size = op[p].size /\ op'[p].old = op[p].old
           /\ op'[p].need = op[p].need /\ op'[p].pgn = op[p].pgn
           /\ \A q \in Procs : q # p => op'[q] = op[q]
<1>1. op[p] \in GrowOps
  BY Shape
<1> DEFINE x == [op[p] EXCEPT !.got = g]
<1>2. /\ x \in GrowOps /\ x.got = g /\ x.at = op[p].at /\ x.rgids = op[p].rgids
      /\ x.size = op[p].size /\ x.old = op[p].old /\ x.need = op[p].need /\ x.pgn = op[p].pgn
  BY <1>1 DEF GrowOps
<1>3. op' = [op EXCEPT ![p] = x]
  OBVIOUS
<1> HIDE DEF x
<1>4. x \in Ops
  BY <1>2 DEF Ops
<1>5. /\ op' \in [Procs -> Ops] /\ op'[p] = x
      /\ \A q \in Procs : q # p => op'[q] = op[q]
  BY <1>3, <1>4, OpStarts
<1> QED
  BY <1>2, <1>5

\* ... has come to another stage, ...
LEMMA OpStage ==
    ASSUME Types, NEW p \in Procs, Growing(p), NEW a \in {"grab", "rollback", "map"},
           op' = [op EXCEPT ![p].at = a]
    PROVE  /\ op' \in [Procs -> Ops] /\ op'[p] \in GrowOps
           /\ op'[p].got = op[p].got /\ op'[p].at = a /\ op'[p].rgids = op[p].rgids
           /\ op'[p].size = op[p].size /\ op'[p].old = op[p].old
           /\ op'[p].need = op[p].need /\ op'[p].pgn = op[p].pgn
           /\ \A q \in Procs : q # p => op'[q] = op[q]
<1>1. op[p] \in GrowOps
  BY Shape
<1> DEFINE x == [op[p] EXCEPT !.at = a]
<1>2. /\ x \in GrowOps /\ x.got = op[p].got /\ x.at = a /\ x.rgids = op[p].rgids
      /\ x.size = op[p].size /\ x.old = op[p].old /\ x.need = op[p].need /\ x.pgn = op[p].pgn
  BY <1>1 DEF GrowOps
<1>3. op' = [op EXCEPT ![p] = x]
  OBVIOUS
<1> HIDE DEF x
<1>4. x \in Ops
  BY <1>2 DEF Ops
<1>5. /\ op' \in [Procs -> Ops] /\ op'[p] = x
      /\ \A q \in Procs : q # p => op'[q] = op[q]
  BY <1>3, <1>4, OpStarts
<1> QED
  BY <1>2, <1>5

\* ... or goes on to the next page.
LEMMA OpPage ==
    ASSUME Types, NEW p \in Procs, Growing(p), NEW g \in Seq(Frames), NEW n \in Nat,
           op' = [op EXCEPT ![p].got = g, ![p].pgn = n]
    PROVE  /\ op' \in [Procs -> Ops] /\ op'[p] \in GrowOps
           /\ op'[p].got = g /\ op'[p].at = op[p].at /\ op'[p].rgids = op[p].rgids
           /\ op'[p].size = op[p].size /\ op'[p].old = op[p].old
           /\ op'[p].need = op[p].need /\ op'[p].pgn = n
           /\ \A q \in Procs : q # p => op'[q] = op[q]
<1>1. op[p] \in GrowOps
  BY Shape
<1> DEFINE x == [op[p] EXCEPT !.got = g, !.pgn = n]
<1>2. /\ x \in GrowOps /\ x.got = g /\ x.at = op[p].at /\ x.rgids = op[p].rgids
      /\ x.size = op[p].size /\ x.old = op[p].old /\ x.need = op[p].need /\ x.pgn = n
  BY <1>1 DEF GrowOps
<1>3. op' = [op EXCEPT ![p] = x]
  BY DEF Types
<1> HIDE DEF x
<1>4. x \in Ops
  BY <1>2 DEF Ops
<1>5. /\ op' \in [Procs -> Ops] /\ op'[p] = x
      /\ \A q \in Procs : q # p => op'[q] = op[q]
  BY <1>3, <1>4, OpStarts
<1> QED
  BY <1>2, <1>5

\* An area grows by whole pages, enough for a size that fits an int (inc_vma_limit).
LEMMA GrowPages ==
    ASSUME NEW size \in Sizes, PagesFor(size) > 0
    PROVE  /\ size \in Nat /\ PAGESZ \in Nat \ {0}
           /\ PagesFor(size) \in Nat /\ PagesFor(size) * PAGESZ \in Nat
           /\ SizesFit => size <= PagesFor(size) * PAGESZ
<1>1. size \in Nat /\ PAGESZ \in Nat \ {0}
  BY PagingAssumption, WidthAssumption
<1>2. PagesFor(size) \in Int
  BY <1>1, PagesType
<1> DEFINE n == PagesFor(size)
<1>3. SizesFit => size <= n * PAGESZ
  <2>1. SizesFit => size \in 0 .. INT_MAX
    BY DEF SizesFit
  <2> QED
    BY <2>1, PagesEnough
<1> HIDE DEF n
<1>4. n \in Nat /\ n * PAGESZ \in Nat
  <2>1. n \in Nat
    BY <1>2 DEF n
  <2> QED
    BY <1>1, <2>1
<1> QED
  BY <1>1, <1>3, <1>4 DEF n

\* The first frame of a list and the others.
LEMMA HeadTail ==
    ASSUME NEW S, NEW s \in Seq(S), s # <<>>
    PROVE  /\ Head(s) \in S /\ Head(s) = s[1] /\ Tail(s) \in Seq(S) /\ Len(s) \in Nat \ {0}
           /\ Len(Tail(s)) = Len(s) - 1 /\ \A j \in 1 .. Len(s) - 1 : Tail(s)[j] = s[j + 1]
OBVIOUS

\* A frame is put in front of a list (MEMPHY_put_freefp, enlist_pgn_node).
LEMMA Pushed ==
    ASSUME NEW S, NEW s \in Seq(S), NEW x \in S
    PROVE  /\ <<x>> \o s \in Seq(S) /\ Len(s) \in Nat /\ Len(<<x>> \o s) = Len(s) + 1
           /\ (<<x>> \o s)[1] = x /\ \A j \in 1 .. Len(s) : (<<x>> \o s)[j + 1] = s[j]
OBVIOUS

\* A frame is taken into an array (alloc_pages_range).
LEMMA Appended ==
    ASSUME NEW S, NEW s \in Seq(S), NEW x \in S
    PROVE  /\ Append(s, x) \in Seq(S) /\ Len(s) \in Nat /\ Len(Append(s, x)) = Len(s) + 1
           /\ Append(s, x)[Len(s) + 1] = x /\ \A j \in 1 .. Len(s) : Append(s, x)[j] = s[j]
OBVIOUS

----------------------------------------------------------------------------
(* Areas and regions                                                        *)

\* Where the lists, the limit and the call stay, so does the layout of an area.
LEMMA AreaStays ==
    ASSUME NEW q \in Procs, vm_freerg'[q] = vm_freerg[q], symrgtbl'[q] = symrgtbl[q],
           sbrk'[q] = sbrk[q], op'[q] = op[q], GrowInv(q), LayoutInv(q)
    PROVE  GrowInv(q)' /\ LayoutInv(q)'
<1>1. Growing(q)' <=> Growing(q)
  BY DEF Growing
<1>2. Limit(q)' = Limit(q)
  BY <1>1 DEF Limit
<1> QED
  BY <1>1, <1>2 DEF GrowInv, LayoutInv, Layout, SizesFit

\* A step of a call leaves the layout alone while the regions end where they did.
LEMMA LayoutSame ==
    ASSUME NEW p \in Procs, vm_freerg'[p] = vm_freerg[p], symrgtbl'[p] = symrgtbl[p],
           Limit(p)' = Limit(p), LayoutInv(p)
    PROVE  LayoutInv(p)'
BY DEF LayoutInv, Layout, SizesFit

\* A step of one process concerns one area.
LEMMA OneArea ==
    ASSUME AreaInv, NEW p \in Procs, Types', EntryInv',
           \A q \in Procs : q # p =>
              /\ vm_freerg'[q] = vm_freerg[q] /\ symrgtbl'[q] = symrgtbl[q]
              /\ sbrk'[q] = sbrk[q] /\ op'[q] = op[q],
           GrowInv(p)', LayoutInv(p)'
    PROVE  AreaInv'
<1>1. ASSUME NEW q \in Procs, q # p PROVE GrowInv(q)' /\ LayoutInv(q)'
  BY <1>1, AreaStays DEF AreaInv
<1> QED
  BY <1>1 DEF AreaInv

\* The numbers of the layout.
LEMMA LayoutTypes ==
    ASSUME Types, NEW p \in Procs
    PROVE  /\ vm_freerg[p] \in Seq(Rg) /\ Limit(p) \in Nat /\ sbrk[p] \in Nat /\ sbrk[p] \in 0 .. MaxBrk
           /\ \A r \in Rgids : /\ symrgtbl[p][r] \in Rg
                               /\ symrgtbl[p][r][1] \in Int /\ symrgtbl[p][r][2] \in Int
<1>1. sbrk[p] \in 0 .. MaxBrk /\ MaxBrk \in Nat /\ vm_freerg[p] \in Seq(Rg)
  BY PagingAssumption DEF Types
<1>2. Growing(p) => op[p].old \in Nat
  BY Shape, GrowFields
<1>3. \A r \in Rgids : symrgtbl[p][r] \in Rg
  BY DEF Types
<1> QED
  BY <1>1, <1>2, <1>3, RgEnds DEF Limit

\* init_mm gives an area one empty free region.
LEMMA InitMmArea ==
    ASSUME AreaInv, NEW p \in Procs, init_mm(p)
    PROVE  AreaInv'
<1>0. /\ Types /\ EntryInv /\ op[p].at = "new" /\ op' = [op EXCEPT ![p] = Idle]
      /\ vm_freerg' = [vm_freerg EXCEPT ![p] = <<<<0, 0>>>>]
      /\ UNCHANGED <<free_fp_list, swp_fp_list, storage, written, nwrites, mmvm_lock, sbrk, symrgtbl,
                     pgtbl, fifo_pgn, undefined>>
  BY DEF AreaInv, init_mm, At, frames, data, tables
<1>1. Idle \in Ops /\ Idle.at = "idle"
  BY DEF Idle, Ops
<1>2. /\ op' \in [Procs -> Ops] /\ op'[p] = Idle /\ \A q \in Procs : q # p => op'[q] = op[q]
  BY <1>0, <1>1, OpStarts
<1>3. stale' \in [Procs -> BOOLEAN]
  BY <1>0 DEF init_mm, Types
<1>4. <<<<0, 0>>>> \in Seq(Rg)
  BY DEF Rg
<1>5. /\ vm_freerg' \in [Procs -> Seq(Rg)] /\ vm_freerg'[p] = <<<<0, 0>>>>
      /\ \A q \in Procs : q # p => vm_freerg'[q] = vm_freerg[q]
  BY <1>0, <1>4 DEF Types
<1>6. Types' /\ EntryInv'
  BY <1>0, <1>2, <1>3, <1>5 DEF Types, EntryInv
<1>7. Limit(p)' = Limit(p) /\ ~Growing(p)'
  BY <1>0, <1>1, <1>2 DEF Limit, Growing
<1>8. LayoutInv(p)'
  <2> SUFFICES ASSUME SizesFit PROVE Layout(p)'
    BY DEF LayoutInv, SizesFit
  <2> DEFINE list == <<<<0, 0>>>>
  <2>1. Layout(p) /\ Limit(p) \in Nat
    BY <1>0, LayoutTypes DEF AreaInv, LayoutInv
  <2>2. Len(list) = 1 /\ list[1][1] = 0 /\ list[1][2] = 0
    OBVIOUS
  <2> HIDE DEF list
  <2>3. Within(list, 0, Limit(p)) /\ Ordered(list) /\ Disjoint(list)
    BY <2>1, <2>2 DEF Within, Ordered, Disjoint
  <2>4. ASSUME NEW r \in Rgids PROVE Apart(symrgtbl[p][r], list)
    <3>1. 0 <= symrgtbl[p][r][1] /\ symrgtbl[p][r][1] \in Int
      BY <1>0, <2>1, LayoutTypes DEF Layout
    <3>2. ~Overlap(symrgtbl[p][r], list[1])
      BY <2>2, <3>1 DEF Overlap
    <3> QED
      BY <2>2, <3>2 DEF Apart
  <2>5. vm_freerg'[p] = list /\ symrgtbl' = symrgtbl
    BY <1>0, <1>5 DEF list
  <2> QED
    BY <1>7, <2>1, <2>3, <2>4, <2>5 DEF Layout
<1>9. GrowInv(p)'
  BY <1>7 DEF GrowInv
<1> QED
  BY <1>0, <1>2, <1>5, <1>6, <1>8, <1>9, OneArea

\* A region changes hands: one index gets another region, and the list of free regions
\* another form, that fit each other and the rest.
LEMMA RegionChanges ==
    ASSUME AreaInv, NEW p \in Procs, NEW r \in Rgids, NEW rg \in Rg, NEW list \in Seq(Rg),
           symrgtbl' = [symrgtbl EXCEPT ![p][r] = rg], vm_freerg' = [vm_freerg EXCEPT ![p] = list],
           written' = [written EXCEPT ![p][r] = {}],
           UNCHANGED <<free_fp_list, swp_fp_list, storage, nwrites, mmvm_lock, sbrk, stale,
                       pgtbl, fifo_pgn, op, undefined>>,
           SizesFit => /\ Within(list, 0, Limit(p)) /\ Ordered(list) /\ Disjoint(list)
                       /\ 0 <= rg[1] /\ rg[1] <= rg[2] /\ rg[2] <= Limit(p) /\ Apart(rg, list)
                       /\ \A t \in Rgids : t # r =>
                            Apart(symrgtbl[p][t], list) /\ ~Overlap(symrgtbl[p][t], rg)
    PROVE  AreaInv'
<1>0. Types /\ EntryInv /\ GrowInv(p) /\ LayoutInv(p)
  BY DEF AreaInv
<1>1. /\ symrgtbl' \in [Procs -> [Rgids -> Rg]] /\ symrgtbl'[p][r] = rg
      /\ \A t \in Rgids : t # r => symrgtbl'[p][t] = symrgtbl[p][t]
      /\ \A q \in Procs : q # p => symrgtbl'[q] = symrgtbl[q]
  <2>1. symrgtbl \in [Procs -> [Rgids -> Rg]]
    BY <1>0 DEF Types
  <2> QED
    BY <2>1
<1>2. /\ vm_freerg' \in [Procs -> Seq(Rg)] /\ vm_freerg'[p] = list
      /\ \A q \in Procs : q # p => vm_freerg'[q] = vm_freerg[q]
  <2>1. vm_freerg \in [Procs -> Seq(Rg)]
    BY <1>0 DEF Types
  <2> QED
    BY <2>1
<1>3. written' \in [Procs -> [Rgids -> SUBSET Nat]]
  <2>1. written \in [Procs -> [Rgids -> SUBSET Nat]]
    BY <1>0 DEF Types
  <2> QED
    BY <2>1
<1>4. Types' /\ EntryInv'
  BY <1>0, <1>1, <1>2, <1>3 DEF Types, EntryInv
<1>5. Limit(p)' = Limit(p) /\ (Growing(p)' <=> Growing(p))
  BY DEF Limit, Growing
<1>6. GrowInv(p)'
  BY <1>0, <1>5 DEF GrowInv, SizesFit
<1>7. LayoutInv(p)'
  <2> SUFFICES ASSUME SizesFit PROVE Layout(p)'
    BY DEF LayoutInv, SizesFit
  <2>0. Layout(p)
    BY <1>0 DEF LayoutInv
  <2>1. ASSUME NEW t \in Rgids
        PROVE  /\ 0 <= symrgtbl'[p][t][1] /\ symrgtbl'[p][t][1] <= symrgtbl'[p][t][2]
               /\ symrgtbl'[p][t][2] <= Limit(p) /\ Apart(symrgtbl'[p][t], list)
    <3>1. CASE t = r
      BY <1>1, <3>1
    <3>2. CASE t # r
      BY <2>0, <1>1, <3>2 DEF Layout
    <3> QED
      BY <3>1, <3>2
  <2>2. ASSUME NEW s \in Rgids, NEW t \in Rgids, s # t
        PROVE  ~Overlap(symrgtbl'[p][s], symrgtbl'[p][t])
    <3>1. CASE s = r
      BY <1>1, <2>2, <3>1, OverlapSym
    <3>2. CASE t = r
      BY <1>1, <2>2, <3>2
    <3>3. CASE s # r /\ t # r
      BY <2>0, <1>1, <2>2, <3>3 DEF Layout
    <3> QED
      BY <3>1, <3>2, <3>3
  <2> QED
    BY <1>2, <1>5, <2>1, <2>2 DEF Layout
<1>8. \A q \in Procs : q # p =>
        /\ vm_freerg'[q] = vm_freerg[q] /\ symrgtbl'[q] = symrgtbl[q]
        /\ sbrk'[q] = sbrk[q] /\ op'[q] = op[q]
  BY <1>1, <1>2
<1> QED
  BY <1>4, <1>6, <1>7, <1>8, OneArea, Zenon

\* alloc from the free list (__alloc, get_free_vmrg_area).
LEMMA ReuseArea ==
    ASSUME AreaInv, NEW p \in Procs, NEW r \in Rgids, NEW size \in Sizes, AllocReuse(p, r, size)
    PROVE  AreaInv'
<1> DEFINE n == Int32(size)
<1>1. PICK k \in 1 .. Len(vm_freerg[p]) :
        /\ FirstFit(vm_freerg[p], k, n)
        /\ vm_freerg' = [vm_freerg EXCEPT ![p] = Carve(vm_freerg[p], k, n)]
        /\ symrgtbl' = [symrgtbl EXCEPT ![p][r] = <<vm_freerg[p][k][1], vm_freerg[p][k][1] + n>>]
  BY DEF AllocReuse
<1> DEFINE rg == <<vm_freerg[p][k][1], vm_freerg[p][k][1] + n>>
           list == Carve(vm_freerg[p], k, n)
<1>0. /\ Types /\ LayoutInv(p) /\ written' = [written EXCEPT ![p][r] = {}]
      /\ UNCHANGED <<free_fp_list, swp_fp_list, storage, nwrites, mmvm_lock, sbrk, stale,
                     pgtbl, fifo_pgn, op, undefined>>
  BY DEF AreaInv, AllocReuse, frames, tables
<1>9. size \in Nat /\ n \in Int /\ (SizesFit => n \in Nat)
  <2>1. size \in Nat
    BY PagingAssumption
  <2>2. SizesFit => size \in 0 .. INT_MAX
    BY DEF SizesFit
  <2> QED
    BY <2>1, <2>2, Int32Type, Int32Small
<1> HIDE DEF n
<1>2. /\ vm_freerg[p] \in Seq(Rg) /\ Limit(p) \in Int /\ 0 \in Int
      /\ Fits(vm_freerg[p][k], n)
  BY <1>0, <1>1, LayoutTypes DEF FirstFit
<1>3. list \in Seq(Rg)
  BY <1>2, <1>9, CarveNodes
<1>4. rg \in Rg /\ rg[1] = vm_freerg[p][k][1] /\ rg[2] = vm_freerg[p][k][1] + n
  <2>1. vm_freerg[p][k][1] \in Int /\ vm_freerg[p][k][1] + n \in Int
    BY <1>2, <1>9, Ends
  <2> QED
    BY <2>1, Pair
<1>5. vm_freerg' = [vm_freerg EXCEPT ![p] = list] /\ symrgtbl' = [symrgtbl EXCEPT ![p][r] = rg]
  BY <1>1, Zenon
<1>6. ASSUME SizesFit
      PROVE  /\ Within(list, 0, Limit(p)) /\ Ordered(list) /\ Disjoint(list)
             /\ 0 <= rg[1] /\ rg[1] <= rg[2] /\ rg[2] <= Limit(p) /\ Apart(rg, list)
             /\ \A t \in Rgids : t # r =>
                  Apart(symrgtbl[p][t], list) /\ ~Overlap(symrgtbl[p][t], rg)
  <2>0. Layout(p) /\ n \in Nat
    BY <1>0, <1>6, <1>9 DEF LayoutInv
  <2>1. Within(vm_freerg[p], 0, Limit(p)) /\ Ordered(vm_freerg[p]) /\ Disjoint(vm_freerg[p])
    BY <2>0 DEF Layout
  <2>2. Ordered(list)
    BY <1>2, <1>9, <2>1, OrderKept
  <2>3. /\ Within(list, 0, Limit(p)) /\ Disjoint(list)
        /\ 0 <= vm_freerg[p][k][1] /\ vm_freerg[p][k][1] + n <= Limit(p) /\ Apart(rg, list)
        /\ \A x \in Rg : Apart(x, vm_freerg[p]) => Apart(x, list) /\ ~Overlap(x, rg)
    BY <1>2, <2>0, <2>1, CarveKeeps, Zenon
  <2> HIDE DEF rg, list
  <2>4. 0 <= rg[1] /\ rg[1] <= rg[2] /\ rg[2] <= Limit(p)
    <3>1. vm_freerg[p][k][1] \in Int
      BY <1>2, Ends
    <3> QED
      BY <1>4, <2>0, <2>3, <3>1
  <2>5. \A t \in Rgids : t # r => Apart(symrgtbl[p][t], list) /\ ~Overlap(symrgtbl[p][t], rg)
    BY <1>0, <2>0, <2>3, LayoutTypes DEF Layout
  <2> QED
    BY <2>2, <2>3, <2>4, <2>5
<1> HIDE DEF rg, list
<1> QED
  BY <1>0, <1>3, <1>4, <1>5, <1>6, RegionChanges, Zenon

\* free (__free, enlist_vm_freerg_list).
LEMMA FreeArea ==
    ASSUME AreaInv, NEW p \in Procs, NEW r \in Rgids, Free(p, r)
    PROVE  AreaInv'
<1> DEFINE old == symrgtbl[p][r]
           list == enlist_vm_freerg_list(vm_freerg[p], old)
           rg == <<0, 0>>
<1>0. /\ Types /\ LayoutInv(p) /\ written' = [written EXCEPT ![p][r] = {}]
      /\ symrgtbl' = [symrgtbl EXCEPT ![p][r] = rg] /\ vm_freerg' = [vm_freerg EXCEPT ![p] = list]
      /\ UNCHANGED <<free_fp_list, swp_fp_list, storage, nwrites, mmvm_lock, sbrk, stale,
                     pgtbl, fifo_pgn, op, undefined>>
  BY DEF AreaInv, Free, frames, tables
<1>1. /\ vm_freerg[p] \in Seq(Rg) /\ Limit(p) \in Int /\ 0 \in Int /\ 0 <= Limit(p)
      /\ old \in Rg /\ old[1] \in Int /\ old[2] \in Int
  BY <1>0, LayoutTypes
<1>2. rg \in Rg /\ rg[1] = 0 /\ rg[2] = 0
  BY Pair
<1> HIDE DEF old, rg
<1>3. list \in Seq(Rg)
  <2>1. <<old>> \o vm_freerg[p] \in Seq(Rg)
    BY <1>1
  <2> QED
    BY <1>1, <2>1 DEF enlist_vm_freerg_list
<1> HIDE DEF list
<1>4. ASSUME SizesFit
      PROVE  /\ Within(list, 0, Limit(p)) /\ Ordered(list) /\ Disjoint(list)
             /\ 0 <= rg[1] /\ rg[1] <= rg[2] /\ rg[2] <= Limit(p) /\ Apart(rg, list)
             /\ \A t \in Rgids : t # r =>
                  Apart(symrgtbl[p][t], list) /\ ~Overlap(symrgtbl[p][t], rg)
  <2>0. Layout(p)
    BY <1>0, <1>4 DEF LayoutInv
  <2>1. /\ Within(vm_freerg[p], 0, Limit(p)) /\ Ordered(vm_freerg[p]) /\ Disjoint(vm_freerg[p])
        /\ Apart(old, vm_freerg[p]) /\ 0 <= old[1] /\ old[2] <= Limit(p)
    BY <2>0 DEF Layout, old
  <2>2. /\ Within(list, 0, Limit(p)) /\ Disjoint(list)
        /\ \A x \in Rg : Apart(x, vm_freerg[p]) /\ ~Overlap(x, old) => Apart(x, list)
    BY <1>1, <2>1, EnlistKeeps, Zenon DEF list
  <2>3. Ordered(list)
    BY <1>1, <2>1, OrderKept DEF list
  <2>4. 0 <= rg[1] /\ rg[1] <= rg[2] /\ rg[2] <= Limit(p)
    BY <1>1, <1>2
  <2>5. Apart(rg, list)
    <3>1. ASSUME NEW j \in 1 .. Len(list) PROVE ~Overlap(rg, list[j])
      <4>1. 0 <= list[j][1] /\ list[j][1] \in Int
        BY <1>3, <2>2, Ends DEF Within
      <4> QED
        BY <1>2, <4>1 DEF Overlap
    <3> QED
      BY <3>1 DEF Apart
  <2>6. ASSUME NEW t \in Rgids, t # r
        PROVE  Apart(symrgtbl[p][t], list) /\ ~Overlap(symrgtbl[p][t], rg)
    <3>1. /\ symrgtbl[p][t] \in Rg /\ symrgtbl[p][t][1] \in Int /\ 0 <= symrgtbl[p][t][1]
          /\ Apart(symrgtbl[p][t], vm_freerg[p]) /\ ~Overlap(symrgtbl[p][t], old)
      BY <1>0, <2>0, <2>6, LayoutTypes DEF Layout, old
    <3>2. ~Overlap(symrgtbl[p][t], rg)
      BY <1>2, <3>1 DEF Overlap
    <3> QED
      BY <2>2, <3>1, <3>2
  <2> QED
    BY <2>2, <2>3, <2>4, <2>5, <2>6
<1> QED
  BY <1>0, <1>2, <1>3, <1>4, RegionChanges, Zenon

\* An area begins to grow (inc_vma_limit, called by __alloc or by SYSCALL).
LEMMA GrowArea ==
    ASSUME AreaInv, NEW p \in Procs, NEW rgids \in SUBSET Rgids, \A r, t \in rgids : r = t,
           NEW size \in Sizes, op[p].at = "idle", Grow(p, rgids, size),
           mmvm_lock' \in Procs \cup {NoProc}
    PROVE  AreaInv'
<1> DEFINE x == [at |-> "grab", rgids |-> rgids, size |-> size, old |-> sbrk[p],
                 need |-> PagesFor(size), got |-> <<>>, pgn |-> sbrk[p] \div PAGESZ]
           new == sbrk[p] + PagesFor(size) * PAGESZ
<1>0. /\ Types /\ EntryInv /\ LayoutInv(p) /\ PagesFor(size) > 0 /\ new <= MaxBrk
      /\ sbrk' = [sbrk EXCEPT ![p] = new] /\ op' = [op EXCEPT ![p] = x]
      /\ UNCHANGED <<free_fp_list, swp_fp_list, storage, written, nwrites, vm_freerg, stale, symrgtbl,
                     pgtbl, fifo_pgn, undefined>>
  BY DEF AreaInv, Grow, frames, data, tables
<1>1. /\ size \in Nat /\ PAGESZ \in Nat \ {0} /\ MaxBrk \in Nat /\ sbrk[p] \in Nat
      /\ PagesFor(size) \in Nat /\ PagesFor(size) * PAGESZ \in Nat
      /\ SizesFit => size <= PagesFor(size) * PAGESZ
  BY <1>0, PagingAssumption, GrowPages, LayoutTypes
<1>2. sbrk[p] \div PAGESZ \in Nat
  BY <1>1
<1>3. new \in 0 .. MaxBrk /\ (SizesFit => sbrk[p] + size <= new)
  BY <1>0, <1>1
<1>4. <<>> \in Seq(Frames) /\ Len(<<>>) = 0
  OBVIOUS
<1>5. x \in GrowOps
  BY <1>1, <1>2, <1>4 DEF GrowOps
<1>6. /\ x.at = "grab" /\ x.rgids = rgids /\ x.size = size /\ x.old = sbrk[p]
      /\ x.need = PagesFor(size) /\ x.got = <<>>
  OBVIOUS
<1> HIDE DEF x, new
<1>7. /\ op' \in [Procs -> Ops] /\ op'[p] = x /\ \A q \in Procs : q # p => op'[q] = op[q]
  BY <1>0, <1>5, OpStarts DEF Ops
<1>8. /\ sbrk' \in [Procs -> 0 .. MaxBrk] /\ sbrk'[p] = new /\ \A q \in Procs : q # p => sbrk'[q] = sbrk[q]
  BY <1>0, <1>3 DEF Types
<1>9. Types' /\ EntryInv'
  BY <1>0, <1>7, <1>8 DEF Types, EntryInv
<1>10. Limit(p) = sbrk[p] /\ Limit(p)' = sbrk[p] /\ Growing(p)'
  BY <1>6, <1>7 DEF Limit, Growing
<1>11. GrowInv(p)'
  BY <1>1, <1>3, <1>4, <1>6, <1>7, <1>8 DEF GrowInv, SizesFit
<1>12. LayoutInv(p)'
  BY <1>0, <1>10, LayoutSame
<1> QED
  BY <1>0, <1>7, <1>8, <1>9, <1>11, <1>12, OneArea

\* A step within a growing area: frames, stage or page change, and perhaps an entry.
LEMMA GrowStepArea ==
    ASSUME AreaInv, NEW p \in Procs, Growing(p), Growing(p)', op' \in [Procs -> Ops],
           \A q \in Procs : q # p => op'[q] = op[q],
           op'[p].old = op[p].old, op'[p].size = op[p].size, op'[p].need = op[p].need,
           op'[p].rgids = op[p].rgids, Len(op'[p].got) <= op[p].need,
           UNCHANGED <<storage, written, nwrites, mmvm_lock, sbrk, vm_freerg, stale, symrgtbl, undefined>>,
           free_fp_list' \in Seq(Frames), swp_fp_list' \in Seq(Nat),
           fifo_pgn' \in [Procs -> Seq(Pages)], pgtbl' \in [Procs -> [Pages -> Entry]], EntryInv'
    PROVE  AreaInv'
<1>0. Types /\ GrowInv(p) /\ LayoutInv(p)
  BY DEF AreaInv
<1>1. Types'
  BY <1>0 DEF Types
<1>2. Limit(p)' = Limit(p)
  BY DEF Limit
<1>3. GrowInv(p)'
  BY <1>0 DEF GrowInv, SizesFit
<1>4. LayoutInv(p)'
  BY <1>0, <1>2, LayoutSame
<1> QED
  BY <1>1, <1>3, <1>4, OneArea

\* What InGrow stands for.
LEMMA InGrowStays ==
    ASSUME UNCHANGED InGrow
    PROVE  UNCHANGED <<storage, written, nwrites, mmvm_lock, sbrk, vm_freerg, stale, symrgtbl, undefined>>
BY DEF InGrow, data, regions

\* A frame is taken (alloc_pages_range).
LEMMA GrabArea ==
    ASSUME AreaInv, NEW p \in Procs, Grab(p)
    PROVE  AreaInv'
<1> DEFINE g == Append(op[p].got, Head(free_fp_list))
<1>0. /\ Types /\ EntryInv /\ op[p].at = "grab" /\ Len(op[p].got) < op[p].need
      /\ free_fp_list # <<>> /\ op' = [op EXCEPT ![p].got = g]
      /\ free_fp_list' = Tail(free_fp_list)
      /\ UNCHANGED InGrow /\ UNCHANGED <<swp_fp_list, pgtbl, fifo_pgn>>
      /\ free_fp_list \in Seq(Frames)
  BY DEF AreaInv, Grab, At, tables, Types
<1>1. Growing(p) /\ op[p] \in GrowOps
  BY <1>0, Shape DEF Growing
<1>2. /\ op[p].got \in Seq(Frames) /\ op[p].need \in Nat
  BY <1>1, GrowFields
<1>3. Head(free_fp_list) \in Frames /\ free_fp_list' \in Seq(Frames)
  BY <1>0, HeadTail
<1>4. g \in Seq(Frames) /\ Len(op[p].got) \in Nat /\ Len(g) = Len(op[p].got) + 1
  BY <1>2, <1>3, Appended
<1> HIDE DEF g
<1>5. /\ op' \in [Procs -> Ops] /\ op'[p].got = g /\ op'[p].at = op[p].at /\ op'[p].rgids = op[p].rgids
      /\ op'[p].size = op[p].size /\ op'[p].old = op[p].old /\ op'[p].need = op[p].need
      /\ \A q \in Procs : q # p => op'[q] = op[q]
  BY <1>0, <1>1, <1>4, OpFrames
<1>6. Len(op'[p].got) <= op[p].need
  BY <1>0, <1>2, <1>4, <1>5
<1>7. Growing(p)' /\ EntryInv' /\ swp_fp_list' \in Seq(Nat)
      /\ fifo_pgn' \in [Procs -> Seq(Pages)] /\ pgtbl' \in [Procs -> [Pages -> Entry]]
  BY <1>0, <1>5 DEF Growing, EntryInv, Types
<1>8. UNCHANGED <<storage, written, nwrites, mmvm_lock, sbrk, vm_freerg, stale, symrgtbl, undefined>>
  BY <1>0, InGrowStays
<1> QED
  BY <1>1, <1>3, <1>5, <1>6, <1>7, <1>8, GrowStepArea

\* Another stage begins (alloc_pages_range fails, or vmap_page_range starts).
LEMMA StageArea ==
    ASSUME AreaInv, NEW p \in Procs, GrabFail(p) \/ MapStart(p)
    PROVE  AreaInv'
<1>1. PICK a \in {"grab", "rollback", "map"} : op' = [op EXCEPT ![p].at = a]
  BY DEF GrabFail, MapStart
<1>0. /\ Types /\ EntryInv /\ GrowInv(p) /\ op[p].at = "grab"
      /\ UNCHANGED InGrow /\ UNCHANGED <<free_fp_list, swp_fp_list, pgtbl, fifo_pgn>>
  BY DEF AreaInv, GrabFail, MapStart, At, tables, frames
<1>2. Growing(p) /\ op[p] \in GrowOps
  BY <1>0, Shape DEF Growing
<1>3. /\ op' \in [Procs -> Ops] /\ op'[p].got = op[p].got /\ op'[p].at = a /\ op'[p].rgids = op[p].rgids
      /\ op'[p].size = op[p].size /\ op'[p].old = op[p].old /\ op'[p].need = op[p].need
      /\ \A q \in Procs : q # p => op'[q] = op[q]
  BY <1>0, <1>1, <1>2, OpStage
<1>4. Len(op'[p].got) <= op[p].need
  BY <1>0, <1>2, <1>3 DEF GrowInv
<1>5. Growing(p)' /\ EntryInv' /\ swp_fp_list' \in Seq(Nat) /\ free_fp_list' \in Seq(Frames)
      /\ fifo_pgn' \in [Procs -> Seq(Pages)] /\ pgtbl' \in [Procs -> [Pages -> Entry]]
  BY <1>0, <1>3 DEF Growing, EntryInv, Types
<1>6. UNCHANGED <<storage, written, nwrites, mmvm_lock, sbrk, vm_freerg, stale, symrgtbl, undefined>>
  BY <1>0, InGrowStays
<1> QED
  BY <1>2, <1>3, <1>4, <1>5, <1>6, GrowStepArea

\* A frame of a failed growth goes back (alloc_pages_range).
LEMMA RollbackArea ==
    ASSUME AreaInv, NEW p \in Procs, Rollback(p)
    PROVE  AreaInv'
<1> DEFINE g == Tail(op[p].got)
<1>0. /\ Types /\ EntryInv /\ GrowInv(p) /\ op[p].at = "rollback" /\ op[p].got # <<>>
      /\ op' = [op EXCEPT ![p].got = g]
      /\ free_fp_list' = <<Head(op[p].got)>> \o free_fp_list
      /\ UNCHANGED InGrow /\ UNCHANGED <<swp_fp_list, pgtbl, fifo_pgn>>
      /\ free_fp_list \in Seq(Frames)
  BY DEF AreaInv, Rollback, At, tables, Types, put_freefp
<1>1. Growing(p) /\ op[p] \in GrowOps
  BY <1>0, Shape DEF Growing
<1>2. /\ op[p].got \in Seq(Frames) /\ op[p].need \in Nat
  BY <1>1, GrowFields
<1>3. Head(op[p].got) \in Frames /\ g \in Seq(Frames) /\ Len(op[p].got) \in Nat /\ Len(g) = Len(op[p].got) - 1
  BY <1>0, <1>2, HeadTail
<1>4. free_fp_list' \in Seq(Frames)
  BY <1>0, <1>3, Pushed
<1> HIDE DEF g
<1>5. /\ op' \in [Procs -> Ops] /\ op'[p].got = g /\ op'[p].at = op[p].at /\ op'[p].rgids = op[p].rgids
      /\ op'[p].size = op[p].size /\ op'[p].old = op[p].old /\ op'[p].need = op[p].need
      /\ \A q \in Procs : q # p => op'[q] = op[q]
  BY <1>0, <1>1, <1>3, OpFrames
<1>6. Len(op'[p].got) <= op[p].need
  <2>1. Len(op[p].got) <= op[p].need
    BY <1>0, <1>1 DEF GrowInv
  <2> QED
    BY <1>2, <1>3, <1>5, <2>1
<1>7. Growing(p)' /\ EntryInv' /\ swp_fp_list' \in Seq(Nat)
      /\ fifo_pgn' \in [Procs -> Seq(Pages)] /\ pgtbl' \in [Procs -> [Pages -> Entry]]
  BY <1>0, <1>5 DEF Growing, EntryInv, Types
<1>8. UNCHANGED <<storage, written, nwrites, mmvm_lock, sbrk, vm_freerg, stale, symrgtbl, undefined>>
  BY <1>0, InGrowStays
<1> QED
  BY <1>1, <1>4, <1>5, <1>6, <1>7, <1>8, GrowStepArea

\* An entry gets a frame number that fits its field (pte_set_fpn).
LEMMA SetFpn ==
    ASSUME NEW e \in Entry, NEW f \in Frames
    PROVE  /\ set_fpn(e, f) \in Entry /\ set_fpn(e, f).present /\ ~set_fpn(e, f).swapped
           /\ set_fpn(e, f).fpn = f % FPN_LIMIT /\ f % FPN_LIMIT \in Frames
           /\ NumFrames <= FPN_LIMIT => f % FPN_LIMIT = f
<1>1. NumFrames \in Nat /\ FPN_LIMIT \in Nat \ {0} /\ f \in Nat /\ f < NumFrames
  BY PagingAssumption DEF Frames
<1>2. f % FPN_LIMIT \in Nat /\ f % FPN_LIMIT <= f
  BY <1>1, SMT
<1>3. f < FPN_LIMIT => f % FPN_LIMIT = f
  BY <1>1, SMT
<1> DEFINE m == f % FPN_LIMIT
<1>4. m \in Nat /\ m \in Frames
  BY <1>1, <1>2 DEF Frames
<1> HIDE DEF m
<1>5. set_fpn(e, f) = [e EXCEPT !.present = TRUE, !.swapped = FALSE, !.fpn = m]
  BY DEF set_fpn, m
<1>6. /\ set_fpn(e, f) \in Entry /\ set_fpn(e, f).present /\ ~set_fpn(e, f).swapped
      /\ set_fpn(e, f).fpn = m
  BY <1>4, <1>5 DEF Entry
<1> QED
  BY <1>1, <1>3, <1>4, <1>6 DEF m

\* A page gets its frame, or the frame goes back (vmap_page_range).
LEMMA MapArea ==
    ASSUME AreaInv, NEW p \in Procs, MapPage(p) \/ MapFails(p)
    PROVE  AreaInv'
<1> DEFINE g == Tail(op[p].got)  n == op[p].pgn  f == Head(op[p].got)
<1>0. /\ Types /\ EntryInv /\ GrowInv(p) /\ op[p].at = "map" /\ op[p].got # <<>>
      /\ op' = [op EXCEPT ![p].got = g, ![p].pgn = n + 1]
      /\ UNCHANGED InGrow /\ UNCHANGED swp_fp_list
      /\ free_fp_list \in Seq(Frames) /\ fifo_pgn \in [Procs -> Seq(Pages)]
      /\ pgtbl \in [Procs -> [Pages -> Entry]]
  BY DEF AreaInv, MapPage, MapFails, At, frames, Types
<1>1. Growing(p) /\ op[p] \in GrowOps
  BY <1>0, Shape DEF Growing
<1>2. /\ op[p].got \in Seq(Frames) /\ op[p].need \in Nat /\ n \in Nat
  BY <1>1, GrowFields
<1>3. f \in Frames /\ g \in Seq(Frames) /\ Len(op[p].got) \in Nat /\ Len(g) = Len(op[p].got) - 1
  BY <1>0, <1>2, HeadTail
<1>4. /\ free_fp_list' \in Seq(Frames) /\ fifo_pgn' \in [Procs -> Seq(Pages)]
      /\ pgtbl' \in [Procs -> [Pages -> Entry]] /\ EntryInv'
  <2>1. CASE MapPage(p)
    <3>1. /\ n < MAX_PGN /\ pgtbl' = [pgtbl EXCEPT ![p][n] = set_fpn(pgtbl[p][n], f)]
          /\ fifo_pgn' = [fifo_pgn EXCEPT ![p] = <<n>> \o fifo_pgn[p]] /\ free_fp_list' = free_fp_list
      BY <2>1 DEF MapPage, enlist_pgn_node, frames
    <3>2. n \in Pages
      BY <1>2, <3>1, PagingAssumption DEF Pages
    <3>3. fifo_pgn' \in [Procs -> Seq(Pages)]
      <4>1. <<n>> \o fifo_pgn[p] \in Seq(Pages)
        BY <1>0, <3>2, Pushed
      <4> QED
        BY <1>0, <3>1, <4>1
    <3> DEFINE e == set_fpn(pgtbl[p][n], f)
    <3>4. e \in Entry /\ e.fpn \in Frames
      BY <1>0, <1>3, <3>2, SetFpn
    <3> HIDE DEF e, n, f, g
    <3>5. /\ pgtbl' \in [Procs -> [Pages -> Entry]] /\ pgtbl'[p][n] = e
          /\ \A q \in Procs, m \in Pages : (q # p \/ m # n) => pgtbl'[q][m] = pgtbl[q][m]
      BY <1>0, <3>1, <3>2, <3>4 DEF e
    <3>6. EntryInv'
      BY <1>0, <3>4, <3>5 DEF EntryInv
    <3> QED
      BY <1>0, <3>1, <3>3, <3>5, <3>6
  <2>2. CASE MapFails(p)
    <3>1. free_fp_list' = <<f>> \o free_fp_list /\ UNCHANGED <<pgtbl, fifo_pgn>>
      BY <2>2 DEF MapFails, put_freefp, tables
    <3>2. free_fp_list' \in Seq(Frames)
      BY <1>0, <1>3, <3>1, Pushed
    <3> QED
      BY <1>0, <3>1, <3>2 DEF EntryInv
  <2> QED
    BY <2>1, <2>2
<1> HIDE DEF g, n, f
<1>5. n + 1 \in Nat
  BY <1>2
<1>6. /\ op' \in [Procs -> Ops] /\ op'[p].got = g /\ op'[p].at = op[p].at /\ op'[p].rgids = op[p].rgids
      /\ op'[p].size = op[p].size /\ op'[p].old = op[p].old /\ op'[p].need = op[p].need
      /\ \A q \in Procs : q # p => op'[q] = op[q]
  BY <1>0, <1>1, <1>3, <1>5, OpPage
<1>7. Len(op'[p].got) <= op[p].need
  <2>1. Len(op[p].got) <= op[p].need
    BY <1>0, <1>1 DEF GrowInv
  <2> QED
    BY <1>2, <1>3, <1>6, <2>1
<1>8. Growing(p)' /\ swp_fp_list' \in Seq(Nat)
  BY <1>0, <1>6 DEF Growing, Types
<1>9. UNCHANGED <<storage, written, nwrites, mmvm_lock, sbrk, vm_freerg, stale, symrgtbl, undefined>>
  BY <1>0, InGrowStays
<1> QED
  BY <1>1, <1>4, <1>6, <1>7, <1>8, <1>9, GrowStepArea

\* The growth ends and the region, if any, is recorded at the old limit (__alloc).
LEMMA GrowEndArea ==
    ASSUME AreaInv, NEW p \in Procs, GrowEnd(p)
    PROVE  AreaInv'
<1> DEFINE new == <<op[p].old, op[p].old + op[p].size>>
<1>0. /\ Types /\ EntryInv /\ GrowInv(p) /\ LayoutInv(p) /\ op[p].at \in {"map", "rollback"}
      /\ symrgtbl' = [symrgtbl EXCEPT ![p] = NewRegions(p)]
      /\ op' = [op EXCEPT ![p] = Idle]
      /\ mmvm_lock' \in Procs \cup {NoProc}
      /\ UNCHANGED <<free_fp_list, swp_fp_list, storage, nwrites, sbrk, vm_freerg, stale, pgtbl,
                     fifo_pgn, undefined>>
  BY DEF AreaInv, GrowEnd, frames, tables, Types
<1>1. Growing(p) /\ op[p] \in GrowOps
  BY <1>0, Shape DEF Growing
<1>2. /\ op[p].old \in Nat /\ op[p].size \in Nat /\ op[p].rgids \subseteq Rgids
      /\ SizesFit => op[p].old + op[p].size <= sbrk[p]
      /\ sbrk[p] \in Nat /\ \A r, t \in op[p].rgids : r = t
  BY <1>0, <1>1, GrowFields, LayoutTypes DEF GrowInv
<1>3. /\ new \in Rg /\ new[1] = op[p].old /\ new[2] = op[p].old + op[p].size
  BY <1>2, Pair
<1> HIDE DEF new
<1>4. /\ \A r \in Rgids : r \in op[p].rgids => NewRegions(p)[r] = new
      /\ \A r \in Rgids : r \notin op[p].rgids => NewRegions(p)[r] = symrgtbl[p][r]
      /\ NewRegions(p) \in [Rgids -> Rg]
  BY <1>0, <1>3 DEF NewRegions, new, Types
<1>5. /\ symrgtbl' \in [Procs -> [Rgids -> Rg]] /\ symrgtbl'[p] = NewRegions(p)
      /\ \A q \in Procs : q # p => symrgtbl'[q] = symrgtbl[q]
  BY <1>0, <1>4 DEF Types
<1>6. written' \in [Procs -> [Rgids -> SUBSET Nat]]
  <2>1. written \in [Procs -> [Rgids -> SUBSET Nat]]
    BY <1>0 DEF Types
  <2>2. written' = [written EXCEPT ![p] = [r \in Rgids |-> IF r \in op[p].rgids THEN {} ELSE written[p][r]]]
    BY DEF GrowEnd
  <2> QED
    BY <2>1, <2>2
<1>7. Idle \in Ops /\ Idle.at = "idle"
  BY DEF Idle, Ops
<1>8. /\ op' \in [Procs -> Ops] /\ op'[p] = Idle /\ \A q \in Procs : q # p => op'[q] = op[q]
  BY <1>0, <1>7, OpStarts
<1>9. Types' /\ EntryInv'
  BY <1>0, <1>5, <1>6, <1>8 DEF Types, EntryInv
<1>10. ~Growing(p)' /\ Limit(p) = op[p].old /\ Limit(p)' = sbrk[p]
  BY <1>0, <1>1, <1>7, <1>8 DEF Growing, Limit
<1>11. GrowInv(p)'
  BY <1>10 DEF GrowInv
<1>12. LayoutInv(p)'
  <2> SUFFICES ASSUME SizesFit PROVE Layout(p)'
    BY DEF LayoutInv, SizesFit
  <2> DEFINE list == vm_freerg[p]  lim == op[p].old
  <2>0. vm_freerg' = vm_freerg /\ Layout(p) /\ op[p].old + op[p].size <= sbrk[p]
    BY <1>0, <1>2 DEF LayoutInv
  <2>1. /\ Within(list, 0, lim) /\ Ordered(list) /\ Disjoint(list) /\ list \in Seq(Rg)
    BY <1>0, <1>10, <2>0, LayoutTypes DEF Layout
  <2>2. ASSUME NEW j \in 1 .. Len(list)
        PROVE  0 <= list[j][1] /\ list[j][2] <= sbrk[p] /\ ~Overlap(new, list[j])
    <3>1. 0 <= list[j][1] /\ list[j][2] <= lim /\ list[j][2] \in Int
      BY <2>1, Ends DEF Within
    <3> QED
      BY <1>2, <1>3, <2>0, <3>1 DEF Overlap
  <2>3. Within(list, 0, sbrk[p]) /\ Apart(new, list)
    BY <2>2 DEF Within, Apart
  <2>4. ASSUME NEW r \in Rgids
        PROVE  /\ 0 <= symrgtbl[p][r][1] /\ symrgtbl[p][r][1] <= symrgtbl[p][r][2]
               /\ symrgtbl[p][r][2] <= sbrk[p] /\ Apart(symrgtbl[p][r], list)
               /\ ~Overlap(symrgtbl[p][r], new) /\ ~Overlap(new, symrgtbl[p][r])
    <3>1. /\ 0 <= symrgtbl[p][r][1] /\ symrgtbl[p][r][1] <= symrgtbl[p][r][2]
          /\ symrgtbl[p][r][2] <= lim /\ Apart(symrgtbl[p][r], list)
          /\ symrgtbl[p][r][2] \in Int
      BY <1>0, <1>10, <2>0, LayoutTypes DEF Layout
    <3>2. symrgtbl[p][r][2] <= sbrk[p]
      BY <1>2, <2>0, <3>1
    <3>3. ~Overlap(symrgtbl[p][r], new) /\ ~Overlap(new, symrgtbl[p][r])
      BY <1>2, <1>3, <3>1 DEF Overlap
    <3> QED
      BY <3>1, <3>2, <3>3
  <2>5. 0 <= new[1] /\ new[1] <= new[2] /\ new[2] <= sbrk[p]
    BY <1>2, <1>3, <2>0
  <2>6. ASSUME NEW r \in Rgids
        PROVE  /\ 0 <= symrgtbl'[p][r][1] /\ symrgtbl'[p][r][1] <= symrgtbl'[p][r][2]
               /\ symrgtbl'[p][r][2] <= sbrk[p] /\ Apart(symrgtbl'[p][r], list)
    <3>1. CASE r \in op[p].rgids
      BY <1>4, <1>5, <2>3, <2>5, <3>1
    <3>2. CASE r \notin op[p].rgids
      BY <1>4, <1>5, <2>4, <3>2
    <3> QED
      BY <3>1, <3>2
  <2>7. ASSUME NEW r \in Rgids, NEW t \in Rgids, r # t
        PROVE  ~Overlap(symrgtbl'[p][r], symrgtbl'[p][t])
    <3>1. CASE r \in op[p].rgids
      <4>1. t \notin op[p].rgids
        BY <1>2, <2>7, <3>1
      <4> QED
        BY <1>4, <1>5, <2>4, <3>1, <4>1
    <3>2. CASE t \in op[p].rgids
      <4>1. r \notin op[p].rgids
        BY <1>2, <2>7, <3>2
      <4> QED
        BY <1>4, <1>5, <2>4, <3>2, <4>1
    <3>3. CASE r \notin op[p].rgids /\ t \notin op[p].rgids
      <4>1. symrgtbl'[p][r] = symrgtbl[p][r] /\ symrgtbl'[p][t] = symrgtbl[p][t]
        BY <1>4, <1>5, <3>3
      <4> QED
        BY <2>0, <2>7, <4>1 DEF Layout
    <3> QED
      BY <3>1, <3>2, <3>3
  <2> QED
    BY <1>10, <2>0, <2>1, <2>3, <2>6, <2>7 DEF Layout
<1>13. \A q \in Procs : q # p =>
        /\ vm_freerg'[q] = vm_freerg[q] /\ symrgtbl'[q] = symrgtbl[q]
        /\ sbrk'[q] = sbrk[q] /\ op'[q] = op[q]
  BY <1>0, <1>5, <1>8
<1> QED
  BY <1>9, <1>11, <1>12, <1>13, OneArea, Zenon

\* A step that leaves areas, regions and calls alone: writes, marks of SYSMEM_MAP_OP.
LEMMA QuietArea ==
    ASSUME AreaInv, UNCHANGED <<sbrk, vm_freerg, symrgtbl, op>>, Types', EntryInv'
    PROVE  AreaInv'
<1>1. ASSUME NEW q \in Procs PROVE GrowInv(q)' /\ LayoutInv(q)'
  BY <1>1, AreaStays DEF AreaInv
<1> QED
  BY <1>1 DEF AreaInv

\* A byte is written (__write, pg_setval, MEMPHY_write).
LEMMA WriteArea ==
    ASSUME AreaInv, NEW p \in Procs,
           \/ \E r \in Rgids, o \in 0 .. MaxBrk : Write(p, r, o)
           \/ \E f \in Frames, o \in Offsets : SysIoWrite(p, f, o)
    PROVE  AreaInv'
<1>0. /\ Types /\ EntryInv /\ nwrites < MaxWrites /\ nwrites' = nwrites + 1
      /\ UNCHANGED <<free_fp_list, swp_fp_list, mmvm_lock, sbrk, vm_freerg, stale, symrgtbl,
                     pgtbl, fifo_pgn, op, undefined>>
  BY DEF AreaInv, Write, SysIoWrite, frames, regions, tables
<1>1. nwrites' \in 0 .. MaxWrites
  BY <1>0, PagingAssumption DEF Types
<1>2. storage \in [Frames -> [Offsets -> Bytes]] /\ written \in [Procs -> [Rgids -> SUBSET Nat]]
  BY <1>0 DEF Types
<1>3. storage' \in [Frames -> [Offsets -> Bytes]] /\ written' \in [Procs -> [Rgids -> SUBSET Nat]]
  <2>1. ASSUME NEW r \in Rgids, NEW o \in 0 .. MaxBrk, Write(p, r, o)
        PROVE  storage' \in [Frames -> [Offsets -> Bytes]] /\ written' \in [Procs -> [Rgids -> SUBSET Nat]]
    <3> DEFINE f == pg_getpage(p, Address(p, r, o)).fpn  a == Address(p, r, o) % PAGESZ
    <3>1. /\ storage' = [storage EXCEPT ![f][a] = <<p, r, o>>]
          /\ written' = [written EXCEPT ![p][r] = written[p][r] \cup {o}] /\ o \in Nat
      BY <2>1, PagingAssumption DEF Write, pg_setval
    <3>2. <<p, r, o>> \in Bytes
      BY <3>1 DEF Bytes
    <3> HIDE DEF f, a
    <3>3. storage' \in [Frames -> [Offsets -> Bytes]]
      BY <1>2, <3>1, <3>2
    <3>4. written' \in [Procs -> [Rgids -> SUBSET Nat]]
      BY <1>2, <3>1
    <3> QED
      BY <3>3, <3>4
  <2>2. ASSUME NEW f \in Frames, NEW o \in Offsets, SysIoWrite(p, f, o)
        PROVE  storage' \in [Frames -> [Offsets -> Bytes]] /\ written' \in [Procs -> [Rgids -> SUBSET Nat]]
    <3>1. storage' = [storage EXCEPT ![f][o] = <<NoProc>>] /\ written' = written
      BY <2>2 DEF SysIoWrite
    <3>2. <<NoProc>> \in Bytes
      BY DEF Bytes
    <3> QED
      BY <1>2, <3>1, <3>2
  <2> QED
    BY <2>1, <2>2
<1>4. Types' /\ EntryInv'
  BY <1>0, <1>1, <1>3 DEF Types, EntryInv
<1> QED
  BY <1>0, <1>4, QuietArea

\* SYSMEM_MAP_OP marks an entry (vmap_pgd_memset).
LEMMA SysMapArea ==
    ASSUME AreaInv, NEW p \in Procs, NEW n \in Pages, SysMap(p, n)
    PROVE  AreaInv'
<1>0. /\ Types /\ EntryInv /\ pgtbl' = [pgtbl EXCEPT ![p][n] = marker]
      /\ pgtbl \in [Procs -> [Pages -> Entry]]
      /\ UNCHANGED <<free_fp_list, swp_fp_list, storage, written, nwrites, mmvm_lock, sbrk, vm_freerg,
                     stale, symrgtbl, fifo_pgn, op, undefined>>
  BY DEF AreaInv, SysMap, frames, data, regions, Types
<1>1. marker \in Entry /\ ~marker.present
  BY DEF marker, Entry
<1>2. /\ pgtbl' \in [Procs -> [Pages -> Entry]] /\ pgtbl'[p][n] = marker
      /\ \A q \in Procs, m \in Pages : (q # p \/ m # n) => pgtbl'[q][m] = pgtbl[q][m]
  BY <1>0, <1>1
<1>3. Types'
  BY <1>0, <1>2 DEF Types
<1>4. EntryInv'
  BY <1>0, <1>1, <1>2 DEF EntryInv
<1> QED
  BY <1>0, <1>3, <1>4, QuietArea

\* A process ends (free_pcb_memph, free_pcb).
LEMMA ExitArea ==
    ASSUME AreaInv, NEW p \in Procs, ExitStart(p) \/ ExitPage(p) \/ ExitEnd(p)
    PROVE  AreaInv'
<1>0. Types /\ EntryInv /\ LayoutInv(p) /\ MAX_PGN \in Nat
  BY PagingAssumption DEF AreaInv
<1>1. CASE ExitStart(p)
  <2> DEFINE x == [at |-> "exit", pgn |-> 0]
  <2>1. /\ op[p].at = "idle" /\ mmvm_lock' = p /\ op' = [op EXCEPT ![p] = x]
        /\ UNCHANGED <<free_fp_list, swp_fp_list, storage, written, nwrites, sbrk, vm_freerg, stale,
                       symrgtbl, pgtbl, fifo_pgn, undefined>>
    BY <1>1 DEF ExitStart, At, frames, data, regions, tables
  <2>2. x \in Ops /\ x.at = "exit"
    BY <1>0 DEF Ops
  <2> HIDE DEF x
  <2>3. /\ op' \in [Procs -> Ops] /\ op'[p] = x /\ \A q \in Procs : q # p => op'[q] = op[q]
    BY <1>0, <2>1, <2>2, OpStarts
  <2>4. Types' /\ EntryInv'
    BY <1>0, <2>1, <2>3 DEF Types, EntryInv
  <2>5. ~Growing(p)' /\ Limit(p)' = Limit(p)
    BY <2>1, <2>2, <2>3 DEF Growing, Limit
  <2>6. GrowInv(p)' /\ LayoutInv(p)'
    BY <1>0, <2>1, <2>5, LayoutSame DEF GrowInv
  <2> QED
    BY <2>1, <2>3, <2>4, <2>6, OneArea
<1>2. CASE ExitPage(p)
  <2> DEFINE n == op[p].pgn  x == [op[p] EXCEPT !.pgn = n + 1]
  <2>1. /\ op[p].at = "exit" /\ n < MAX_PGN /\ op' = [op EXCEPT ![p] = x]
        /\ UNCHANGED <<storage, written, nwrites, mmvm_lock, sbrk, vm_freerg, stale,
                       symrgtbl, pgtbl, fifo_pgn, undefined>>
    BY <1>2 DEF ExitPage, At, data, regions, tables
  <2>2. op[p] \in [at : {"exit"}, pgn : 0 .. MAX_PGN] /\ n \in 0 .. MAX_PGN
    <3>1. op[p] \in Ops
      BY <1>0 DEF Types
    <3> QED
      BY <2>1, <3>1 DEF Ops, GrowOps
  <2>3. x \in [at : {"exit"}, pgn : 0 .. MAX_PGN] /\ x.at = "exit"
    BY <1>0, <2>1, <2>2
  <2>4. x \in Ops
    BY <2>3 DEF Ops
  <2>5. n \in Pages /\ pgtbl[p][n] \in Entry
    BY <1>0, <2>1, <2>2 DEF Pages, Types
  <2> HIDE DEF x
  <2>6. /\ op' \in [Procs -> Ops] /\ op'[p] = x /\ \A q \in Procs : q # p => op'[q] = op[q]
    BY <1>0, <2>1, <2>4, OpStarts
  <2>7. free_fp_list' \in Seq(Frames) /\ swp_fp_list' \in Seq(Nat)
    <3> DEFINE e == pgtbl[p][n]
    <3>1. /\ free_fp_list' = IF e.present /\ ~e.swapped THEN <<e.fpn>> \o free_fp_list ELSE free_fp_list
          /\ swp_fp_list' = IF e.swapped THEN <<e.fpn>> \o swp_fp_list ELSE swp_fp_list
      BY <1>2 DEF ExitPage, put_freefp
    <3>2. e.fpn \in Nat /\ (e.present => e.fpn \in Frames)
      BY <1>0, <2>5 DEF Entry, EntryInv
    <3>3. free_fp_list \in Seq(Frames) /\ swp_fp_list \in Seq(Nat)
      BY <1>0 DEF Types
    <3> HIDE DEF e
    <3>4. swp_fp_list' \in Seq(Nat)
      BY <3>1, <3>2, <3>3, Pushed
    <3>5. free_fp_list' \in Seq(Frames)
      BY <3>1, <3>2, <3>3, Pushed
    <3> QED
      BY <3>4, <3>5
  <2>8. Types' /\ EntryInv'
    BY <1>0, <2>1, <2>6, <2>7 DEF Types, EntryInv
  <2>9. ~Growing(p)' /\ Limit(p)' = Limit(p)
    BY <2>1, <2>3, <2>6 DEF Growing, Limit
  <2>10. GrowInv(p)' /\ LayoutInv(p)'
    BY <1>0, <2>1, <2>9, LayoutSame DEF GrowInv
  <2> QED
    BY <2>1, <2>6, <2>8, <2>10, OneArea
<1>3. CASE ExitEnd(p)
  <2> DEFINE x == [at |-> "dead"]
  <2>1. /\ op[p].at = "exit" /\ mmvm_lock' = NoProc /\ op' = [op EXCEPT ![p] = x]
        /\ vm_freerg' = [vm_freerg EXCEPT ![p] = <<>>]
        /\ symrgtbl' = [symrgtbl EXCEPT ![p] = [r \in Rgids |-> <<0, 0>>]]
        /\ pgtbl' = [pgtbl EXCEPT ![p] = [n \in Pages |-> Absent]]
        /\ fifo_pgn' = [fifo_pgn EXCEPT ![p] = <<>>]
        /\ written' = [written EXCEPT ![p] = [r \in Rgids |-> {}]] /\ undefined' = stale[p]
        /\ UNCHANGED <<free_fp_list, swp_fp_list, storage, nwrites, sbrk, stale>>
    BY <1>3 DEF ExitEnd, At, frames
  <2>2. x \in Ops /\ x.at = "dead"
    BY DEF Ops
  <2> HIDE DEF x
  <2>3. /\ op' \in [Procs -> Ops] /\ op'[p] = x /\ \A q \in Procs : q # p => op'[q] = op[q]
    BY <1>0, <2>1, <2>2, OpStarts
  <2>4. /\ vm_freerg' \in [Procs -> Seq(Rg)] /\ vm_freerg'[p] = <<>>
        /\ \A q \in Procs : q # p => vm_freerg'[q] = vm_freerg[q]
    BY <1>0, <2>1 DEF Types
  <2>5. <<0, 0>> \in Rg /\ <<0, 0>>[1] = 0 /\ <<0, 0>>[2] = 0
    BY Pair
  <2>6. /\ symrgtbl' \in [Procs -> [Rgids -> Rg]] /\ \A r \in Rgids : symrgtbl'[p][r] = <<0, 0>>
        /\ \A q \in Procs : q # p => symrgtbl'[q] = symrgtbl[q]
    BY <1>0, <2>1, <2>5 DEF Types
  <2>7. Absent \in Entry /\ ~Absent.present
    BY DEF Absent, Entry
  <2>8. /\ pgtbl' \in [Procs -> [Pages -> Entry]] /\ \A n \in Pages : pgtbl'[p][n] = Absent
        /\ \A q \in Procs : q # p => pgtbl'[q] = pgtbl[q]
    BY <1>0, <2>1, <2>7 DEF Types
  <2>9. fifo_pgn' \in [Procs -> Seq(Pages)] /\ written' \in [Procs -> [Rgids -> SUBSET Nat]]
        /\ undefined' \in BOOLEAN
    BY <1>0, <2>1 DEF Types
  <2>10. Types'
    BY <1>0, <2>1, <2>3, <2>4, <2>6, <2>8, <2>9 DEF Types
  <2>11. EntryInv'
    BY <1>0, <2>7, <2>8 DEF EntryInv
  <2>12. ~Growing(p)' /\ Limit(p)' = sbrk[p] /\ sbrk[p] \in Nat
    BY <1>0, <2>1, <2>2, <2>3, LayoutTypes DEF Growing, Limit
  <2>13. GrowInv(p)'
    BY <2>12 DEF GrowInv
  <2>14. LayoutInv(p)'
    <3> DEFINE none == <<>>  rg == <<0, 0>>
    <3>1. Len(none) = 0 /\ vm_freerg'[p] = none /\ rg[1] = 0 /\ rg[2] = 0
          /\ \A r \in Rgids : symrgtbl'[p][r] = rg
      BY <2>4, <2>5, <2>6
    <3> HIDE DEF none, rg
    <3>2. Within(none, 0, sbrk[p]) /\ Ordered(none) /\ Disjoint(none) /\ Apart(rg, none)
      BY <3>1 DEF Within, Ordered, Disjoint, Apart
    <3>3. ~Overlap(rg, rg) /\ 0 <= rg[1] /\ rg[1] <= rg[2] /\ rg[2] <= sbrk[p]
      BY <2>12, <3>1 DEF Overlap
    <3> QED
      BY <2>12, <3>1, <3>2, <3>3 DEF LayoutInv, Layout
  <2>15. \A q \in Procs : q # p =>
          /\ vm_freerg'[q] = vm_freerg[q] /\ symrgtbl'[q] = symrgtbl[q]
          /\ sbrk'[q] = sbrk[q] /\ op'[q] = op[q]
    BY <2>1, <2>3, <2>4, <2>6
  <2> QED
    BY <2>10, <2>11, <2>13, <2>14, <2>15, OneArea, Zenon
<1> QED
  BY <1>1, <1>2, <1>3

\* An allocation follows the uninitialised pointer (get_free_vmrg_area).
LEMMA StaleArea ==
    ASSUME AreaInv, NEW p \in Procs, NEW size \in Sizes, AllocStale(p, size)
    PROVE  AreaInv'
<1>1. /\ Types /\ EntryInv /\ undefined' = TRUE
      /\ UNCHANGED <<free_fp_list, swp_fp_list, storage, written, nwrites, mmvm_lock, sbrk, vm_freerg,
                     stale, symrgtbl, pgtbl, fifo_pgn, op>>
  BY DEF AreaInv, AllocStale, frames, data, regions, tables
<1>2. Types' /\ EntryInv'
  BY <1>1 DEF Types, EntryInv
<1> QED
  BY <1>1, <1>2, QuietArea

\* Areas start empty, and all frames free (MEMPHY_format).
LEMMA AreaInit ==
    ASSUME Init
    PROVE  AreaInv
<1>0. /\ NumFrames \in Nat /\ MAX_PGN \in Nat /\ MaxBrk \in Nat /\ MaxWrites \in Nat
  BY PagingAssumption
<1>1. Formatted \in Seq(Frames) /\ Formatted \in Seq(Nat)
  BY <1>0 DEF Formatted, Frames
<1>2. storage \in [Frames -> [Offsets -> Bytes]]
  BY DEF Init, Bytes
<1> DEFINE rg == <<0, 0>>  none == <<>>  x == [at |-> "new"]
<1>3. /\ rg \in Rg /\ rg[1] = 0 /\ rg[2] = 0 /\ Len(none) = 0 /\ none \in Seq(Rg) /\ none \in Seq(Pages)
      /\ x \in Ops /\ x.at = "new" /\ Absent \in Entry /\ ~Absent.present
  BY Pair DEF Ops, Absent, Entry
<1>4. /\ symrgtbl = [p \in Procs |-> [r \in Rgids |-> rg]] /\ vm_freerg = [p \in Procs |-> none]
      /\ fifo_pgn = [p \in Procs |-> none] /\ op = [p \in Procs |-> x]
  BY DEF Init
<1> HIDE DEF rg, none, x
<1>5. /\ symrgtbl \in [Procs -> [Rgids -> Rg]] /\ vm_freerg \in [Procs -> Seq(Rg)]
      /\ fifo_pgn \in [Procs -> Seq(Pages)] /\ op \in [Procs -> Ops]
  BY <1>3, <1>4
<1>6. Types
  <2>1. /\ mmvm_lock \in Procs \cup {NoProc} /\ sbrk \in [Procs -> 0 .. MaxBrk]
        /\ nwrites \in 0 .. MaxWrites /\ undefined \in BOOLEAN
    <3>1. mmvm_lock = NoProc /\ sbrk = [p \in Procs |-> 0] /\ nwrites = 0 /\ undefined = FALSE
      BY DEF Init
    <3>2. sbrk \in [Procs -> 0 .. MaxBrk]
      BY <1>0, <3>1
    <3>3. nwrites \in 0 .. MaxWrites
      BY <1>0, <3>1
    <3> QED
      BY <3>1, <3>2, <3>3, Zenon
  <2>2. pgtbl \in [Procs -> [Pages -> Entry]] /\ written \in [Procs -> [Rgids -> SUBSET Nat]]
    BY <1>3 DEF Init
  <2>3. stale \in [Procs -> BOOLEAN]
    <3>1. stale = [p \in Procs |-> FALSE]
      BY DEF Init
    <3> QED
      BY <3>1
  <2>4. free_fp_list \in Seq(Frames) /\ swp_fp_list \in Seq(Nat)
    BY <1>1 DEF Init
  <2> QED
    BY <1>2, <1>5, <2>1, <2>2, <2>3, <2>4 DEF Types
<1>7. EntryInv
  BY <1>3 DEF Init, EntryInv
<1>8. ASSUME NEW p \in Procs PROVE GrowInv(p) /\ LayoutInv(p)
  <2>1. /\ op[p].at = "new" /\ vm_freerg[p] = none /\ sbrk[p] = 0 /\ \A r \in Rgids : symrgtbl[p][r] = rg
    BY <1>3, <1>4 DEF Init
  <2>2. ~Growing(p) /\ Limit(p) = 0
    BY <2>1 DEF Growing, Limit
  <2>3. Within(none, 0, 0) /\ Ordered(none) /\ Disjoint(none) /\ Apart(rg, none)
    BY <1>3 DEF Within, Ordered, Disjoint, Apart
  <2>4. ~Overlap(rg, rg) /\ 0 <= rg[1] /\ rg[1] <= rg[2] /\ rg[2] <= 0
    BY <1>3 DEF Overlap
  <2> QED
    BY <2>1, <2>2, <2>3, <2>4 DEF GrowInv, LayoutInv, Layout
<1> QED
  BY <1>6, <1>7, <1>8 DEF AreaInv

\* Every step keeps the areas.
LEMMA AreaNext ==
    ASSUME AreaInv, [Next]_vars
    PROVE  AreaInv'
<1>1. CASE UNCHANGED vars
  <2>1. UNCHANGED <<free_fp_list, swp_fp_list, storage, mmvm_lock, sbrk, vm_freerg, stale, symrgtbl,
                    pgtbl, fifo_pgn, op, written, nwrites, undefined>>
    BY <1>1 DEF vars, frames, regions, tables
  <2>2. Types' /\ EntryInv'
    BY <2>1 DEF AreaInv, Types, EntryInv
  <2> QED
    BY <2>1, <2>2, QuietArea
<1>2. ASSUME NEW p \in Procs, Instruction(p) PROVE AreaInv'
  <2>1. CASE init_mm(p)
    BY <2>1, InitMmArea
  <2>2. CASE ExitStart(p)
    BY <2>2, ExitArea
  <2>3. ASSUME NEW r \in Rgids, Free(p, r) PROVE AreaInv'
    BY <2>3, FreeArea
  <2>4. ASSUME NEW r \in Rgids, NEW n \in Sizes, AllocReuse(p, r, n) PROVE AreaInv'
    BY <2>4, ReuseArea
  <2>5. ASSUME NEW r \in Rgids, NEW n \in Sizes, AllocGrow(p, r, n) PROVE AreaInv'
    <3>1. op[p].at = "idle" /\ Grow(p, {r}, n) /\ mmvm_lock' \in Procs \cup {NoProc}
      BY <2>5 DEF AllocGrow, At
    <3>2. {r} \in SUBSET Rgids /\ \A s, t \in {r} : s = t
      OBVIOUS
    <3> QED
      BY <3>1, <3>2, GrowArea
  <2>6. ASSUME NEW n \in Sizes, SysInc(p, n) PROVE AreaInv'
    <3>1. op[p].at = "idle" /\ Grow(p, {}, n) /\ mmvm_lock' \in Procs \cup {NoProc}
      BY <2>6 DEF SysInc, At, AreaInv, Types
    <3>2. {} \in SUBSET Rgids /\ \A s, t \in {} : s = t
      OBVIOUS
    <3> QED
      BY <3>1, <3>2, GrowArea
  <2>7. ASSUME NEW n \in Sizes, AllocStale(p, n) PROVE AreaInv'
    BY <2>7, StaleArea
  <2>8. ASSUME NEW n \in Pages, SysMap(p, n) PROVE AreaInv'
    BY <2>8, SysMapArea
  <2>9. CASE \/ \E r \in Rgids, o \in 0 .. MaxBrk : Write(p, r, o)
             \/ \E f \in Frames, o \in Offsets : SysIoWrite(p, f, o)
    BY <2>9, WriteArea
  <2> QED
    BY <1>2, <2>1, <2>2, <2>3, <2>4, <2>5, <2>6, <2>7, <2>8, <2>9 DEF Instruction
<1>3. ASSUME NEW p \in Procs, Continue(p) PROVE AreaInv'
  BY <1>3, GrabArea, StageArea, RollbackArea, MapArea, GrowEndArea, ExitArea DEF Continue
<1> QED
  BY <1>1, <1>2, <1>3 DEF Next, Ended

\* The areas of all processes stay well formed.
LEMMA AreaHolds == Spec => []AreaInv
<1>1. Init => AreaInv
  BY AreaInit
<1>2. AreaInv /\ [Next]_vars => AreaInv'
  BY AreaNext
<1> QED
  BY <1>1, <1>2, PTL DEF Spec

\* Only frames of MEMRAM are free, in flight or mapped, and no area outgrows its bound, for
\* every number of processes, frames and pages and whatever sizes the programs ask for, also
\* those that do not fit an int (alloc_pages_range, vmap_page_range, inc_vma_limit).
THEOREM PagingType == Spec => []TypeOK
<1>1. ASSUME AreaInv PROVE TypeOK
  <2>0. Types /\ EntryInv
    BY <1>1 DEF AreaInv
  <2>1. ASSUME NEW p \in Procs
        PROVE  vm_freerg[p] \in Seq(Int \X Int) /\ symrgtbl[p] \in [Rgids -> Int \X Int]
    BY <2>0 DEF Types, Rg
  <2>2. ASSUME NEW p \in Procs
        PROVE  /\ DOMAIN pgtbl[p] = Pages /\ \A n \in Pages : pgtbl[p][n].present => pgtbl[p][n].fpn \in Frames
               /\ op[p].at \in {"new", "idle", "grab", "rollback", "map", "exit", "dead"}
    BY <2>0, Shape DEF Types, EntryInv
  <2>3. ASSUME NEW p \in Procs, Growing(p)
        PROVE  InFlight(p) \in Seq(Frames) /\ Len(InFlight(p)) <= op[p].need
    BY <1>1, <2>0, <2>3, Shape, GrowFields DEF AreaInv, GrowInv
  <2>4. /\ DOMAIN storage = Frames /\ \A f \in Frames : DOMAIN storage[f] = Offsets
        /\ free_fp_list \in Seq(Frames) /\ mmvm_lock \in Procs \cup {NoProc}
        /\ sbrk \in [Procs -> 0 .. MaxBrk] /\ nwrites \in 0 .. MaxWrites /\ undefined \in BOOLEAN
    BY <2>0 DEF Types
  <2> QED
    BY <2>1, <2>2, <2>3, <2>4 DEF TypeOK, Growing
<1> QED
  BY <1>1, AreaHolds, PTL

\* Whatever the programs allocate and free, in whatever order the free lists are carved,
\* no two regions of a process overlap, in use or free, and none reaches beyond the limit
\* of its area, as long as every size that is asked for fits an int (get_free_vmrg_area,
\* __alloc, __free, inc_vma_limit).
THEOREM PagingRegionsDisjoint ==
    ASSUME SizesFit
    PROVE  Spec => []RegionsDisjoint
<1>1. ASSUME AreaInv PROVE RegionsDisjoint
  <2>1. ASSUME NEW p \in Procs
        PROVE  /\ \A r, t \in Rgids : r # t => ~Overlap(symrgtbl[p][r], symrgtbl[p][t])
               /\ \A r \in Rgids : symrgtbl[p][r][2] <= sbrk[p]
               /\ \A k \in 1 .. Len(vm_freerg[p]) :
                    /\ vm_freerg[p][k][2] <= sbrk[p]
                    /\ \A r \in Rgids : ~Overlap(symrgtbl[p][r], vm_freerg[p][k])
                    /\ \A j \in 1 .. k - 1 : ~Overlap(vm_freerg[p][j], vm_freerg[p][k])
    <3>0. Types /\ Layout(p) /\ GrowInv(p)
      BY <1>1 DEF AreaInv, LayoutInv
    <3>1. Limit(p) <= sbrk[p] /\ Limit(p) \in Nat /\ sbrk[p] \in Nat
      BY <3>0, LayoutTypes, Shape, GrowFields DEF Limit, GrowInv
    <3>2. ASSUME NEW r \in Rgids PROVE symrgtbl[p][r][2] <= sbrk[p]
      <4>1. symrgtbl[p][r][2] \in Int /\ symrgtbl[p][r][2] <= Limit(p)
        BY <3>0, LayoutTypes DEF Layout
      <4> QED
        BY <3>1, <4>1
    <3>3. ASSUME NEW k \in 1 .. Len(vm_freerg[p]) PROVE vm_freerg[p][k][2] <= sbrk[p]
      <4>1. vm_freerg[p][k][2] \in Int /\ vm_freerg[p][k][2] <= Limit(p)
        BY <3>0, LayoutTypes, Ends DEF Layout, Within
      <4> QED
        BY <3>1, <4>1
    <3> QED
      BY <3>0, <3>2, <3>3 DEF Layout, Apart, Disjoint
  <2> QED
    BY <2>1 DEF RegionsDisjoint
<1> QED
  BY <1>1, AreaHolds, PTL

----------------------------------------------------------------------------
(* What each step does to calls and tables                                  *)

\* The step concerns one process only.
OthersStay(p) ==
    \A q \in Procs : q # p => /\ op'[q] = op[q] /\ sbrk'[q] = sbrk[q]
                              /\ fifo_pgn'[q] = fifo_pgn[q] /\ pgtbl'[q] = pgtbl[q]

\* The instructions that leave frames and tables alone.
Quiet(p) ==
    \/ init_mm(p) \/ ExitStart(p)
    \/ \E r \in Rgids : \/ Free(p, r)
                        \/ \E o \in 0 .. MaxBrk : Write(p, r, o)
                        \/ \E n \in Sizes : AllocReuse(p, r, n)
    \/ \E n \in Sizes : AllocStale(p, n)
    \/ \E f \in Frames, o \in Offsets : SysIoWrite(p, f, o)

\* They start no growth.
LEMMA QuietStep ==
    ASSUME Types, NEW p \in Procs, Quiet(p)
    PROVE  /\ UNCHANGED <<free_fp_list, swp_fp_list, sbrk, pgtbl, fifo_pgn>> /\ OthersStay(p)
           /\ op'[p] = op[p] \/ (~Growing(p) /\ ~Growing(p)')
           /\ op'[p] = op[p] \/ (op[p].at # "exit" /\ (op'[p].at = "exit" => op'[p].pgn = 0))
           /\ op'[p] = op[p] \/ op'[p].at \in {"idle", "exit"}
<1> DEFINE x == [at |-> "exit", pgn |-> 0]
<1>1. UNCHANGED <<free_fp_list, swp_fp_list, sbrk, pgtbl, fifo_pgn>>
  BY DEF Quiet, init_mm, ExitStart, Free, Write, AllocReuse, AllocStale, SysIoWrite, frames, tables, regions
<1>2. CASE op' = op
  BY <1>1, <1>2 DEF OthersStay
<1>3. CASE init_mm(p)
  <2>1. op[p].at = "new" /\ op' = [op EXCEPT ![p] = Idle]
    BY <1>3 DEF init_mm, At
  <2>2. Idle \in Ops /\ Idle.at = "idle"
    BY DEF Idle, Ops
  <2>3. op'[p] = Idle /\ \A q \in Procs : q # p => op'[q] = op[q]
    BY <2>1, <2>2, OpStarts
  <2> QED
    BY <1>1, <2>1, <2>2, <2>3 DEF OthersStay, Growing
<1>4. CASE ExitStart(p)
  <2>1. op[p].at = "idle" /\ op' = [op EXCEPT ![p] = x]
    BY <1>4 DEF ExitStart, At
  <2>2. x \in Ops /\ x.at = "exit" /\ x.pgn = 0
    BY PagingAssumption DEF Ops
  <2> HIDE DEF x
  <2>3. op'[p] = x /\ \A q \in Procs : q # p => op'[q] = op[q]
    BY <2>1, <2>2, OpStarts
  <2> QED
    BY <1>1, <2>1, <2>2, <2>3 DEF OthersStay, Growing
<1>5. init_mm(p) \/ ExitStart(p) \/ op' = op
  BY DEF Quiet, Free, Write, AllocReuse, AllocStale, SysIoWrite
<1> QED
  BY <1>2, <1>3, <1>4, <1>5

\* An area begins to grow.
LEMMA GrowStep ==
    ASSUME AreaInv, NEW p \in Procs, NEW rgids \in SUBSET Rgids, NEW size \in Sizes,
           op[p].at = "idle", Grow(p, rgids, size)
    PROVE  /\ UNCHANGED <<free_fp_list, swp_fp_list, pgtbl, fifo_pgn>> /\ OthersStay(p)
           /\ Growing(p)' /\ op'[p].at = "grab" /\ op'[p].rgids = rgids
           /\ op'[p].got = <<>> /\ op'[p].need = PagesFor(size)
           /\ op'[p].pgn = sbrk[p] \div PAGESZ /\ sbrk'[p] = sbrk[p] + PagesFor(size) * PAGESZ
           /\ ~Growing(p) /\ PagesFor(size) \in Nat /\ sbrk[p] \in Nat
<1> DEFINE x == [at |-> "grab", rgids |-> rgids, size |-> size, old |-> sbrk[p],
                 need |-> PagesFor(size), got |-> <<>>, pgn |-> sbrk[p] \div PAGESZ]
           new == sbrk[p] + PagesFor(size) * PAGESZ
<1>0. /\ Types /\ sbrk' = [sbrk EXCEPT ![p] = new] /\ op' = [op EXCEPT ![p] = x]
      /\ UNCHANGED <<free_fp_list, swp_fp_list, pgtbl, fifo_pgn>> /\ PagesFor(size) > 0
  BY DEF AreaInv, Grow, frames, tables
<1>1. size \in Nat /\ PAGESZ \in Nat \ {0} /\ sbrk[p] \in Nat /\ PagesFor(size) \in Nat
  BY <1>0, GrowPages, LayoutTypes
<1>2. x \in GrowOps
  BY <1>1 DEF GrowOps
<1>3. /\ x.at = "grab" /\ x.rgids = rgids /\ x.got = <<>> /\ x.need = PagesFor(size)
      /\ x.pgn = sbrk[p] \div PAGESZ
  OBVIOUS
<1> HIDE DEF x, new
<1>4. op'[p] = x /\ \A q \in Procs : q # p => op'[q] = op[q]
  BY <1>0, <1>2, OpStarts DEF Ops
<1>5. sbrk'[p] = new /\ \A q \in Procs : q # p => sbrk'[q] = sbrk[q]
  BY <1>0 DEF Types
<1>6. Growing(p)' /\ ~Growing(p)
  BY <1>3, <1>4 DEF Growing
<1> QED
  BY <1>0, <1>1, <1>3, <1>4, <1>5, <1>6 DEF OthersStay, new

\* It takes a frame, ...
LEMMA GrabStep ==
    ASSUME AreaInv, NEW p \in Procs, Grab(p)
    PROVE  /\ UNCHANGED <<swp_fp_list, sbrk, pgtbl, fifo_pgn>> /\ OthersStay(p)
           /\ Growing(p) /\ Growing(p)' /\ op[p].at = "grab" /\ op'[p].at = "grab"
           /\ op'[p].rgids = op[p].rgids /\ op'[p].need = op[p].need /\ op'[p].pgn = op[p].pgn
           /\ op'[p].got = Append(op[p].got, Head(free_fp_list)) /\ op[p].got \in Seq(Frames)
           /\ free_fp_list \in Seq(Frames) /\ free_fp_list # <<>> /\ free_fp_list' = Tail(free_fp_list)
<1> DEFINE g == Append(op[p].got, Head(free_fp_list))
<1>0. /\ Types /\ op[p].at = "grab" /\ free_fp_list # <<>> /\ op' = [op EXCEPT ![p].got = g]
      /\ free_fp_list' = Tail(free_fp_list) /\ free_fp_list \in Seq(Frames)
      /\ UNCHANGED InGrow /\ UNCHANGED <<swp_fp_list, pgtbl, fifo_pgn>>
  BY DEF AreaInv, Grab, At, tables, Types
<1>1. Growing(p) /\ op[p].got \in Seq(Frames)
  BY <1>0, Shape, GrowFields DEF Growing
<1>2. g \in Seq(Frames)
  BY <1>0, <1>1, HeadTail, Appended
<1> HIDE DEF g
<1>3. /\ op'[p].got = g /\ op'[p].at = op[p].at /\ op'[p].rgids = op[p].rgids
      /\ op'[p].need = op[p].need /\ op'[p].pgn = op[p].pgn /\ \A q \in Procs : q # p => op'[q] = op[q]
  BY <1>0, <1>1, <1>2, OpFrames
<1>4. sbrk' = sbrk
  BY <1>0, InGrowStays
<1> QED
  BY <1>0, <1>1, <1>3, <1>4 DEF OthersStay, Growing, g

\* ... comes to another stage, ...
LEMMA StageStep ==
    ASSUME AreaInv, NEW p \in Procs, GrabFail(p) \/ MapStart(p)
    PROVE  /\ UNCHANGED <<free_fp_list, swp_fp_list, sbrk, pgtbl, fifo_pgn>> /\ OthersStay(p)
           /\ Growing(p) /\ Growing(p)' /\ op[p].at = "grab" /\ op'[p].at \in {"rollback", "map"}
           /\ op'[p].rgids = op[p].rgids /\ op'[p].need = op[p].need /\ op'[p].pgn = op[p].pgn
           /\ op'[p].got = op[p].got
<1>1. PICK a \in {"rollback", "map"} : op' = [op EXCEPT ![p].at = a]
  BY DEF GrabFail, MapStart
<1>0. /\ Types /\ op[p].at = "grab"
      /\ UNCHANGED InGrow /\ UNCHANGED <<free_fp_list, swp_fp_list, pgtbl, fifo_pgn>>
  BY DEF AreaInv, GrabFail, MapStart, At, tables, frames
<1>2. Growing(p) /\ a \in {"grab", "rollback", "map"}
  BY <1>0 DEF Growing
<1>3. /\ op'[p].got = op[p].got /\ op'[p].at = a /\ op'[p].rgids = op[p].rgids
      /\ op'[p].need = op[p].need /\ op'[p].pgn = op[p].pgn /\ \A q \in Procs : q # p => op'[q] = op[q]
  BY <1>0, <1>1, <1>2, OpStage
<1>4. sbrk' = sbrk
  BY <1>0, InGrowStays
<1> QED
  BY <1>0, <1>2, <1>3, <1>4 DEF OthersStay, Growing

\* ... gives a frame back (in a rollback, or for a page that cannot be mapped) ...
LEMMA BackStep ==
    ASSUME AreaInv, NEW p \in Procs, Rollback(p) \/ MapFails(p)
    PROVE  /\ UNCHANGED <<swp_fp_list, sbrk, pgtbl, fifo_pgn>> /\ OthersStay(p)
           /\ Growing(p) /\ Growing(p)' /\ op[p].at # "grab" /\ op'[p].at = op[p].at
           /\ op'[p].rgids = op[p].rgids /\ op'[p].need = op[p].need
           /\ op[p].pgn \in Nat /\ op'[p].pgn \in {op[p].pgn, op[p].pgn + 1}
           /\ op'[p].got = Tail(op[p].got) /\ op[p].got \in Seq(Frames) /\ op[p].got # <<>>
           /\ free_fp_list \in Seq(Frames) /\ free_fp_list' = <<Head(op[p].got)>> \o free_fp_list
<1> DEFINE g == Tail(op[p].got)
<1>0. /\ Types /\ op[p].at \in {"rollback", "map"} /\ op[p].got # <<>>
      /\ free_fp_list' = <<Head(op[p].got)>> \o free_fp_list /\ free_fp_list \in Seq(Frames)
      /\ UNCHANGED InGrow /\ UNCHANGED <<swp_fp_list, pgtbl, fifo_pgn>>
  BY DEF AreaInv, Rollback, MapFails, At, tables, put_freefp, Types
<1>1. Growing(p) /\ op[p].got \in Seq(Frames) /\ op[p].pgn \in Nat
  BY <1>0, Shape, GrowFields DEF Growing
<1>2. g \in Seq(Frames) /\ op[p].pgn + 1 \in Nat
  BY <1>0, <1>1, HeadTail
<1>3. op' = [op EXCEPT ![p].got = g] \/ op' = [op EXCEPT ![p].got = g, ![p].pgn = op[p].pgn + 1]
  BY DEF Rollback, MapFails
<1> HIDE DEF g
<1>4. /\ op'[p].got = g /\ op'[p].at = op[p].at /\ op'[p].rgids = op[p].rgids
      /\ op'[p].need = op[p].need /\ op'[p].pgn \in {op[p].pgn, op[p].pgn + 1}
      /\ \A q \in Procs : q # p => op'[q] = op[q]
  <2>1. CASE op' = [op EXCEPT ![p].got = g]
    BY <1>0, <1>1, <1>2, <2>1, OpFrames
  <2>2. CASE op' = [op EXCEPT ![p].got = g, ![p].pgn = op[p].pgn + 1]
    BY <1>0, <1>1, <1>2, <2>2, OpPage
  <2> QED
    BY <1>3, <2>1, <2>2
<1>5. sbrk' = sbrk
  BY <1>0, InGrowStays
<1> QED
  BY <1>0, <1>1, <1>4, <1>5 DEF OthersStay, Growing, g

\* ... or maps it ...
LEMMA MapStep ==
    ASSUME AreaInv, NEW p \in Procs, MapPage(p)
    PROVE  /\ UNCHANGED <<free_fp_list, swp_fp_list, sbrk>> /\ OthersStay(p)
           /\ Growing(p) /\ Growing(p)' /\ op[p].at = "map" /\ op'[p].at = "map"
           /\ op'[p].rgids = op[p].rgids /\ op'[p].need = op[p].need
           /\ op[p].pgn \in Pages /\ op'[p].pgn = op[p].pgn + 1
           /\ op'[p].got = Tail(op[p].got) /\ op[p].got \in Seq(Frames) /\ op[p].got # <<>>
           /\ fifo_pgn[p] \in Seq(Pages) /\ fifo_pgn'[p] = <<op[p].pgn>> \o fifo_pgn[p]
           /\ pgtbl'[p][op[p].pgn] = set_fpn(pgtbl[p][op[p].pgn], Head(op[p].got))
           /\ \A m \in Pages : m # op[p].pgn => pgtbl'[p][m] = pgtbl[p][m]
<1> DEFINE g == Tail(op[p].got)  n == op[p].pgn  e == set_fpn(pgtbl[p][n], Head(op[p].got))
<1>0. /\ Types /\ op[p].at = "map" /\ op[p].got # <<>> /\ n < MAX_PGN
      /\ op' = [op EXCEPT ![p].got = g, ![p].pgn = n + 1]
      /\ pgtbl' = [pgtbl EXCEPT ![p][n] = e]
      /\ fifo_pgn' = [fifo_pgn EXCEPT ![p] = <<n>> \o fifo_pgn[p]]
      /\ UNCHANGED InGrow /\ UNCHANGED <<free_fp_list, swp_fp_list>>
      /\ fifo_pgn \in [Procs -> Seq(Pages)] /\ pgtbl \in [Procs -> [Pages -> Entry]]
  BY DEF AreaInv, MapPage, At, frames, enlist_pgn_node, Types
<1>1. Growing(p) /\ op[p].got \in Seq(Frames) /\ n \in Nat
  BY <1>0, Shape, GrowFields DEF Growing
<1> HIDE DEF n, e
<1>2. g \in Seq(Frames) /\ n + 1 \in Nat /\ n \in Pages
  <2>1. g \in Seq(Frames)
    BY <1>0, <1>1, HeadTail
  <2> QED
    BY <1>0, <1>1, <2>1, PagingAssumption DEF Pages
<1> HIDE DEF g
<1>3. /\ op'[p].got = g /\ op'[p].at = op[p].at /\ op'[p].rgids = op[p].rgids
      /\ op'[p].need = op[p].need /\ op'[p].pgn = n + 1 /\ \A q \in Procs : q # p => op'[q] = op[q]
  <2>1. op[p] \in GrowOps /\ op \in [Procs -> Ops] /\ n + 1 \in Nat
    BY <1>0, <1>1, <1>2, Shape DEF Types
  <2> DEFINE x == [op[p] EXCEPT !.got = g, !.pgn = n + 1]
  <2>2. /\ x \in GrowOps /\ x.got = g /\ x.at = op[p].at /\ x.rgids = op[p].rgids
        /\ x.need = op[p].need /\ x.pgn = n + 1
    BY <1>2, <2>1 DEF GrowOps
  <2>3. op' = [op EXCEPT ![p] = x]
    BY <1>0, <2>1
  <2> HIDE DEF x
  <2>4. op'[p] = x /\ \A q \in Procs : q # p => op'[q] = op[q]
    BY <2>1, <2>3
  <2> QED
    BY <2>2, <2>4
<1>4. /\ pgtbl'[p][n] = e /\ \A m \in Pages : m # n => pgtbl'[p][m] = pgtbl[p][m]
      /\ \A q \in Procs : q # p => pgtbl'[q] = pgtbl[q]
  BY <1>0, <1>2
<1>5. /\ fifo_pgn[p] \in Seq(Pages) /\ fifo_pgn'[p] = <<n>> \o fifo_pgn[p]
      /\ \A q \in Procs : q # p => fifo_pgn'[q] = fifo_pgn[q]
  BY <1>0
<1>6. sbrk' = sbrk
  BY <1>0, InGrowStays
<1> QED
  BY <1>0, <1>1, <1>2, <1>3, <1>4, <1>5, <1>6 DEF OthersStay, Growing, g, n, e

\* ... until it has none in flight.
LEMMA EndStep ==
    ASSUME AreaInv, NEW p \in Procs, GrowEnd(p)
    PROVE  /\ UNCHANGED <<free_fp_list, swp_fp_list, sbrk, pgtbl, fifo_pgn>> /\ OthersStay(p)
           /\ Growing(p) /\ op[p].at # "grab" /\ op[p].got = <<>> /\ op'[p].at = "idle" /\ ~Growing(p)'
<1>0. /\ Types /\ op[p].at \in {"map", "rollback"} /\ op[p].got = <<>> /\ op' = [op EXCEPT ![p] = Idle]
      /\ UNCHANGED <<free_fp_list, swp_fp_list, sbrk, pgtbl, fifo_pgn>>
  BY DEF AreaInv, GrowEnd, frames, tables
<1>1. Idle \in Ops /\ Idle.at = "idle"
  BY DEF Idle, Ops
<1>2. op'[p] = Idle /\ \A q \in Procs : q # p => op'[q] = op[q]
  BY <1>0, <1>1, OpStarts
<1> QED
  BY <1>0, <1>1, <1>2 DEF OthersStay, Growing

\* SYSMEM_MAP_OP marks one entry.
LEMMA MarkStep ==
    ASSUME AreaInv, NEW p \in Procs, NEW n \in Pages, SysMap(p, n)
    PROVE  /\ UNCHANGED <<free_fp_list, swp_fp_list, sbrk, fifo_pgn, op>> /\ OthersStay(p)
           /\ pgtbl'[p][n] = marker /\ \A m \in Pages : m # n => pgtbl'[p][m] = pgtbl[p][m]
           /\ op[p].at = "idle" /\ ~marker.present /\ ~marker.swapped
<1>1. /\ pgtbl' = [pgtbl EXCEPT ![p][n] = marker] /\ pgtbl \in [Procs -> [Pages -> Entry]]
      /\ UNCHANGED <<free_fp_list, swp_fp_list, sbrk, fifo_pgn, op>> /\ op[p].at = "idle"
  BY DEF AreaInv, SysMap, At, frames, regions, Types
<1>2. ~marker.present /\ ~marker.swapped
  BY DEF marker
<1> QED
  BY <1>1, <1>2 DEF OthersStay

\* The exit of a process returns the frame of one page, ...
LEMMA ExitPageStep ==
    ASSUME AreaInv, NEW p \in Procs, ExitPage(p)
    PROVE  /\ UNCHANGED <<sbrk, pgtbl, fifo_pgn>> /\ OthersStay(p)
           /\ op[p].at = "exit" /\ op'[p].at = "exit" /\ op[p].pgn \in Pages
           /\ op'[p].pgn = op[p].pgn + 1 /\ ~Growing(p) /\ ~Growing(p)'
<1> DEFINE n == op[p].pgn  x == [op[p] EXCEPT !.pgn = n + 1]
<1>0. /\ Types /\ op[p].at = "exit" /\ n < MAX_PGN /\ op' = [op EXCEPT ![p] = x]
      /\ UNCHANGED <<sbrk, pgtbl, fifo_pgn>> /\ MAX_PGN \in Nat
  BY PagingAssumption DEF AreaInv, ExitPage, At, regions, tables
<1>1. op[p] \in [at : {"exit"}, pgn : 0 .. MAX_PGN] /\ n \in 0 .. MAX_PGN
  <2>1. op[p] \in Ops
    BY <1>0 DEF Types
  <2> QED
    BY <1>0, <2>1 DEF Ops, GrowOps
<1>2. x \in [at : {"exit"}, pgn : 0 .. MAX_PGN] /\ x.at = "exit" /\ x.pgn = n + 1
  BY <1>0, <1>1
<1>3. x \in Ops /\ n \in Pages
  BY <1>0, <1>1, <1>2 DEF Ops, Pages
<1> HIDE DEF x, n
<1>4. op'[p] = x /\ \A q \in Procs : q # p => op'[q] = op[q]
  BY <1>0, <1>3, OpStarts
<1> QED
  BY <1>0, <1>2, <1>3, <1>4 DEF OthersStay, Growing, n

\* ... and in the end its tables.
LEMMA ExitEndStep ==
    ASSUME AreaInv, NEW p \in Procs, ExitEnd(p)
    PROVE  /\ UNCHANGED <<free_fp_list, swp_fp_list, sbrk>> /\ OthersStay(p)
           /\ op[p].at = "exit" /\ op'[p].at = "dead" /\ op[p].pgn = MAX_PGN
           /\ ~Growing(p) /\ ~Growing(p)' /\ fifo_pgn'[p] = <<>>
           /\ \A n \in Pages : pgtbl'[p][n] = Absent
           /\ ~Absent.present /\ ~Absent.swapped
<1> DEFINE x == [at |-> "dead"]
<1>0. /\ Types /\ op[p].at = "exit" /\ op[p].pgn = MAX_PGN /\ op' = [op EXCEPT ![p] = x]
      /\ pgtbl' = [pgtbl EXCEPT ![p] = [n \in Pages |-> Absent]]
      /\ fifo_pgn' = [fifo_pgn EXCEPT ![p] = <<>>]
      /\ UNCHANGED <<free_fp_list, swp_fp_list, sbrk>>
      /\ fifo_pgn \in [Procs -> Seq(Pages)] /\ pgtbl \in [Procs -> [Pages -> Entry]]
  BY DEF AreaInv, ExitEnd, At, frames, Types
<1>1. x \in Ops /\ x.at = "dead" /\ ~Absent.present /\ ~Absent.swapped
  BY DEF Ops, Absent
<1> HIDE DEF x
<1>2. op'[p] = x /\ \A q \in Procs : q # p => op'[q] = op[q]
  BY <1>0, <1>1, OpStarts
<1>3. fifo_pgn'[p] = <<>> /\ \A q \in Procs : q # p => fifo_pgn'[q] = fifo_pgn[q]
  BY <1>0
<1>4. /\ \A n \in Pages : pgtbl'[p][n] = Absent
      /\ \A q \in Procs : q # p => pgtbl'[q] = pgtbl[q]
  BY <1>0
<1> QED
  BY <1>0, <1>1, <1>2, <1>3, <1>4 DEF OthersStay, Growing

----------------------------------------------------------------------------
(* The FIFO lists                                                           *)

\* Whole pages more give as many page numbers more (inc_vma_limit).
LEMMA DivGrows ==
    ASSUME NEW a \in Nat, NEW k \in Nat
    PROVE  (a + k * PAGESZ) \div PAGESZ = (a \div PAGESZ) + k
<1>1. PAGESZ \in Nat \ {0}
  BY WidthAssumption
<1> DEFINE d == a \div PAGESZ
<1>2. d \in Nat /\ d * PAGESZ <= a /\ a < (d + 1) * PAGESZ
  BY <1>1, SMT
<1> QED
  BY <1>1, <1>2, SMT

\* The page that is mapped next has a number.
LEMMA NextPageNat ==
    ASSUME Types, NEW p \in Procs
    PROVE  NextPage(p) \in Nat /\ sbrk[p] \div PAGESZ \in Nat
<1>1. sbrk[p] \in Nat /\ PAGESZ \in Nat \ {0}
  BY LayoutTypes, WidthAssumption
<1>2. sbrk[p] \div PAGESZ \in Nat
  BY <1>1
<1> QED
  BY <1>2, Shape, GrowFields DEF NextPage

\* Where tables, limit and call stay, so do the list of pages and the room.
LEMMA ListStays ==
    ASSUME NEW q \in Procs, op'[q] = op[q], sbrk'[q] = sbrk[q], fifo_pgn'[q] = fifo_pgn[q],
           pgtbl'[q] = pgtbl[q], RoomInv(q), FifoInv(q)
    PROVE  RoomInv(q)' /\ FifoInv(q)'
<1>1. /\ Growing(q)' <=> Growing(q)
      /\ Left(q)' = Left(q)
  BY DEF Growing, Left
<1>2. NextPage(q)' = NextPage(q)
  BY <1>1 DEF NextPage
<1> QED
  BY <1>1, <1>2 DEF RoomInv, FifoInv

\* A step of one process concerns its lists only.
LEMMA OneList ==
    ASSUME ListInv, AreaInv', NEW p \in Procs, OthersStay(p), RoomInv(p)', FifoInv(p)'
    PROVE  ListInv'
<1>1. ASSUME NEW q \in Procs, q # p PROVE RoomInv(q)' /\ FifoInv(q)'
  BY <1>1, ListStays DEF ListInv, OthersStay
<1> QED
  BY <1>1 DEF ListInv

\* The list of pages stays right when the page to be mapped next grows.
LEMMA FifoKept ==
    ASSUME Types, NEW p \in Procs, fifo_pgn'[p] = fifo_pgn[p], pgtbl'[p] = pgtbl[p], FifoInv(p),
           NextPage(p)' \in Int, NextPage(p) <= NextPage(p)'
    PROVE  FifoInv(p)'
<1>1. NextPage(p) \in Nat
  BY NextPageNat
<1>2. ASSUME NEW k \in 1 .. Len(fifo_pgn[p]) PROVE fifo_pgn[p][k] < NextPage(p)'
  <2>1. fifo_pgn[p] \in Seq(Pages) /\ MAX_PGN \in Nat
    BY PagingAssumption DEF Types
  <2>2. fifo_pgn[p][k] \in Int
    BY <2>1 DEF Pages
  <2>3. fifo_pgn[p][k] < NextPage(p)
    BY DEF FifoInv
  <2> QED
    BY <1>1, <2>2, <2>3
<1> QED
  BY <1>2 DEF FifoInv

\* The FIFO lists are kept by every step of a growing area.
LEMMA GrowingLists ==
    ASSUME ListInv, AreaInv', NEW p \in Procs,
           Grab(p) \/ GrabFail(p) \/ MapStart(p) \/ Rollback(p) \/ MapFails(p) \/ GrowEnd(p)
    PROVE  ListInv'
<1>0. AreaInv /\ Types /\ RoomInv(p) /\ FifoInv(p) /\ GrowInv(p)
  BY DEF ListInv, AreaInv
<1>1. NextPage(p) \in Nat /\ sbrk[p] \div PAGESZ \in Nat
  BY <1>0, NextPageNat
<1>2. CASE Grab(p)
  <2>1. /\ sbrk' = sbrk /\ pgtbl' = pgtbl /\ fifo_pgn' = fifo_pgn /\ OthersStay(p)
        /\ Growing(p) /\ Growing(p)' /\ op[p].at = "grab" /\ op'[p].at = "grab"
        /\ op'[p].need = op[p].need /\ op'[p].pgn = op[p].pgn
    BY <1>0, <1>2, GrabStep
  <2>2. RoomInv(p)' /\ NextPage(p)' = NextPage(p)
    BY <1>0, <2>1 DEF RoomInv, Left, NextPage
  <2>3. FifoInv(p)'
    BY <1>0, <1>1, <2>1, <2>2, FifoKept
  <2> QED
    BY <2>1, <2>2, <2>3, OneList
<1>3. CASE GrabFail(p) \/ MapStart(p)
  <2>1. /\ sbrk' = sbrk /\ pgtbl' = pgtbl /\ fifo_pgn' = fifo_pgn /\ OthersStay(p)
        /\ Growing(p) /\ Growing(p)' /\ op[p].at = "grab" /\ op'[p].at \in {"rollback", "map"}
        /\ op'[p].need = op[p].need /\ op'[p].pgn = op[p].pgn /\ op'[p].got = op[p].got
    BY <1>0, <1>3, StageStep
  <2>2. /\ op[p].pgn \in Nat /\ op[p].need \in Nat /\ Len(op[p].got) \in Nat
        /\ Len(op[p].got) <= op[p].need /\ op[p].pgn + op[p].need <= sbrk[p] \div PAGESZ
    <3>1. op[p] \in GrowOps
      BY <1>0, <2>1, Shape
    <3>2. op[p].pgn \in Nat /\ op[p].need \in Nat /\ op[p].got \in Seq(Frames)
      BY <3>1, GrowFields
    <3> QED
      BY <1>0, <2>1, <3>2 DEF RoomInv, Left, GrowInv
  <2>3. op[p].pgn + Len(op[p].got) <= sbrk[p] \div PAGESZ
    BY <1>1, <2>2
  <2>4. RoomInv(p)' /\ NextPage(p)' = NextPage(p)
    BY <2>1, <2>3 DEF RoomInv, Left, NextPage
  <2>5. FifoInv(p)'
    BY <1>0, <1>1, <2>1, <2>4, FifoKept
  <2> QED
    BY <2>1, <2>4, <2>5, OneList
<1>4. CASE Rollback(p) \/ MapFails(p)
  <2>1. /\ sbrk' = sbrk /\ pgtbl' = pgtbl /\ fifo_pgn' = fifo_pgn /\ OthersStay(p)
        /\ Growing(p) /\ Growing(p)' /\ op[p].at # "grab" /\ op'[p].at = op[p].at
        /\ op[p].pgn \in Nat /\ op'[p].pgn \in {op[p].pgn, op[p].pgn + 1}
        /\ op'[p].got = Tail(op[p].got) /\ op[p].got \in Seq(Frames) /\ op[p].got # <<>>
    BY <1>0, <1>4, BackStep
  <2>2. Len(op[p].got) \in Nat /\ Len(op'[p].got) = Len(op[p].got) - 1
    BY <2>1, HeadTail
  <2>3. op[p].pgn + Len(op[p].got) <= sbrk[p] \div PAGESZ
    BY <1>0, <2>1 DEF RoomInv, Left
  <2>4. op'[p].pgn + Len(op'[p].got) <= sbrk[p] \div PAGESZ
    BY <1>1, <2>1, <2>2, <2>3
  <2>5. RoomInv(p)'
    BY <2>1, <2>4 DEF RoomInv, Left
  <2>6. NextPage(p) <= NextPage(p)' /\ NextPage(p)' \in Int
    BY <2>1 DEF NextPage
  <2>7. FifoInv(p)'
    BY <1>0, <1>1, <2>1, <2>6, FifoKept
  <2> QED
    BY <2>1, <2>5, <2>7, OneList
<1>5. CASE GrowEnd(p)
  <2>1. /\ sbrk' = sbrk /\ pgtbl' = pgtbl /\ fifo_pgn' = fifo_pgn /\ OthersStay(p)
        /\ Growing(p) /\ op[p].at # "grab" /\ op[p].got = <<>> /\ ~Growing(p)'
    BY <1>0, <1>5, EndStep
  <2>2. op[p].pgn <= sbrk[p] \div PAGESZ
    <3>1. op[p].pgn + Len(op[p].got) <= sbrk[p] \div PAGESZ /\ Len(op[p].got) = 0 /\ op[p].pgn \in Nat
      BY <1>0, <2>1, Shape, GrowFields DEF RoomInv, Left
    <3> QED
      BY <1>1, <3>1
  <2>3. RoomInv(p)' /\ NextPage(p) <= NextPage(p)' /\ NextPage(p)' \in Int
    BY <1>1, <2>1, <2>2 DEF RoomInv, NextPage
  <2>4. FifoInv(p)'
    BY <1>0, <1>1, <2>1, <2>3, FifoKept
  <2> QED
    BY <2>1, <2>3, <2>4, OneList
<1> QED
  BY <1>2, <1>3, <1>4, <1>5

\* A page that is mapped is new to the list (vmap_page_range, enlist_pgn_node).
LEMMA MapLists ==
    ASSUME ListInv, AreaInv', NEW p \in Procs, MapPage(p)
    PROVE  ListInv' /\ ~pgtbl[p][op[p].pgn].present
<1> DEFINE n == op[p].pgn  f == Head(op[p].got)  list == fifo_pgn[p]  new == fifo_pgn'[p]
<1>0. AreaInv /\ Types /\ RoomInv(p) /\ FifoInv(p)
  BY DEF ListInv, AreaInv
<1>1. /\ sbrk' = sbrk /\ OthersStay(p)
      /\ Growing(p) /\ Growing(p)' /\ op[p].at = "map" /\ op'[p].at = "map"
      /\ n \in Pages /\ op'[p].pgn = n + 1
      /\ op'[p].got = Tail(op[p].got) /\ op[p].got \in Seq(Frames) /\ op[p].got # <<>>
      /\ list \in Seq(Pages) /\ new = <<n>> \o list
      /\ pgtbl'[p][n] = set_fpn(pgtbl[p][n], f)
      /\ \A m \in Pages : m # n => pgtbl'[p][m] = pgtbl[p][m]
  BY <1>0, MapStep
<1>2. /\ Len(op[p].got) \in Nat /\ Len(op'[p].got) = Len(op[p].got) - 1 /\ f \in Frames
  BY <1>1, HeadTail
<1>3. pgtbl'[p][n].present
  <2>1. pgtbl[p][n] \in Entry
    BY <1>0, <1>1 DEF Types
  <2> QED
    BY <1>1, <1>2, <2>1, SetFpn
<1>4. n \in Nat /\ MAX_PGN \in Nat /\ \A k \in 1 .. Len(list) : list[k] \in Pages /\ list[k] \in Nat
  <2>1. n \in Nat /\ MAX_PGN \in Nat /\ \A m \in Pages : m \in Nat
    BY <1>1, PagingAssumption DEF Pages
  <2>2. \A k \in 1 .. Len(list) : list[k] \in Pages
    BY <1>1
  <2> QED
    BY <2>1, <2>2
<1>5. /\ \A k \in 1 .. Len(list) : list[k] < n
      /\ \A j, k \in 1 .. Len(list) : list[j] = list[k] => j = k
      /\ \A k \in 1 .. Len(list) : pgtbl[p][list[k]].present \/ pgtbl[p][list[k]] = marker
      /\ \A m \in Pages : pgtbl[p][m].present => \E k \in 1 .. Len(list) : list[k] = m
  BY <1>0, <1>1 DEF FifoInv, NextPage
<1>6. ASSUME pgtbl[p][n].present PROVE FALSE
  <2>1. PICK k \in 1 .. Len(list) : list[k] = n
    BY <1>1, <1>5, <1>6
  <2>2. n < n
    BY <1>5, <2>1
  <2> QED
    BY <1>4, <2>2
<1>7. /\ Len(list) \in Nat /\ Len(new) = Len(list) + 1 /\ new[1] = n
      /\ \A j \in 1 .. Len(list) : new[j + 1] = list[j]
  BY <1>1, Pushed
<1> HIDE DEF n, f, list
<1>8. RoomInv(p)'
  <2>1. n + Len(op[p].got) <= sbrk[p] \div PAGESZ /\ sbrk[p] \div PAGESZ \in Nat
    BY <1>0, <1>1, NextPageNat DEF RoomInv, Left, n
  <2>2. op'[p].pgn + Len(op'[p].got) <= sbrk[p] \div PAGESZ
    BY <1>1, <1>2, <1>4, <2>1
  <2> QED
    BY <1>1, <2>2 DEF RoomInv, Left
<1>9. FifoInv(p)'
  <2>1. ASSUME NEW k \in 1 .. Len(new)
        PROVE  \/ k = 1 /\ new[k] = n
               \/ k # 1 /\ k - 1 \in 1 .. Len(list) /\ new[k] = list[k - 1]
    <3>1. CASE k = 1
      BY <1>7, <3>1
    <3>2. CASE k # 1
      <4>1. k - 1 \in 1 .. Len(list) /\ (k - 1) + 1 = k
        BY <1>7, <3>2
      <4> QED
        BY <1>7, <3>2, <4>1
    <3> QED
      BY <3>1, <3>2
  <2>2. ASSUME NEW j \in 1 .. Len(new), NEW k \in 1 .. Len(new), new[j] = new[k] PROVE j = k
    <3>1. \A i \in 1 .. Len(list) : list[i] # n
      BY <1>4, <1>5
    <3>2. CASE j = 1 \/ k = 1
      BY <2>1, <2>2, <3>1, <3>2
    <3>3. CASE j # 1 /\ k # 1
      <4>1. j - 1 \in 1 .. Len(list) /\ k - 1 \in 1 .. Len(list) /\ list[j - 1] = list[k - 1]
        BY <2>1, <2>2, <3>3
      <4>2. j - 1 = k - 1
        BY <1>5, <4>1
      <4> QED
        BY <1>7, <4>2
    <3> QED
      BY <3>2, <3>3
  <2>3. ASSUME NEW k \in 1 .. Len(new)
        PROVE  new[k] < n + 1 /\ (pgtbl'[p][new[k]].present \/ pgtbl'[p][new[k]] = marker)
    <3>1. CASE k = 1
      BY <1>3, <1>4, <1>7, <3>1
    <3>2. CASE k # 1
      <4>1. k - 1 \in 1 .. Len(list) /\ new[k] = list[k - 1]
        BY <2>1, <3>2
      <4>2. new[k] \in Pages /\ new[k] < n /\ new[k] \in Nat /\ (pgtbl[p][new[k]].present \/ pgtbl[p][new[k]] = marker)
        BY <1>4, <1>5, <4>1
      <4>3. new[k] # n /\ new[k] < n + 1
        BY <1>4, <4>2
      <4> QED
        BY <1>1, <4>2, <4>3
    <3> QED
      BY <3>1, <3>2
  <2>4. ASSUME NEW m \in Pages, pgtbl'[p][m].present PROVE \E k \in 1 .. Len(new) : new[k] = m
    <3>1. CASE m = n
      <4>1. 1 \in 1 .. Len(new)
        BY <1>7
      <4> QED
        BY <1>7, <3>1, <4>1
    <3>2. CASE m # n
      <4>1. PICK k \in 1 .. Len(list) : list[k] = m
        BY <1>1, <1>5, <2>4, <3>2
      <4>2. k + 1 \in 1 .. Len(new) /\ new[k + 1] = m
        BY <1>7, <4>1
      <4> QED
        BY <4>2
    <3> QED
      BY <3>1, <3>2
  <2>5. NextPage(p)' = n + 1
    BY <1>1 DEF NextPage
  <2> QED
    BY <2>2, <2>3, <2>4, <2>5 DEF FifoInv
<1> QED
  BY <1>1, <1>6, <1>8, <1>9, OneList DEF n

\* So they are by the instructions that leave the tables alone, ...
LEMMA QuietLists ==
    ASSUME ListInv, AreaInv', NEW p \in Procs, Quiet(p) \/ ExitPage(p)
    PROVE  ListInv'
<1>0. AreaInv /\ Types /\ RoomInv(p) /\ FifoInv(p)
  BY DEF ListInv, AreaInv
<1>1. /\ sbrk' = sbrk /\ pgtbl' = pgtbl /\ fifo_pgn' = fifo_pgn /\ OthersStay(p)
      /\ op'[p] = op[p] \/ (~Growing(p) /\ ~Growing(p)')
  BY <1>0, QuietStep, ExitPageStep
<1>2. CASE op'[p] = op[p]
  BY <1>0, <1>1, <1>2, ListStays, OneList
<1>3. CASE ~Growing(p) /\ ~Growing(p)'
  <2>1. RoomInv(p)' /\ NextPage(p)' = NextPage(p) /\ NextPage(p) \in Nat
    BY <1>0, <1>1, <1>3, NextPageNat DEF RoomInv, NextPage
  <2>2. FifoInv(p)'
    BY <1>0, <1>1, <2>1, FifoKept
  <2> QED
    BY <1>1, <2>1, <2>2, OneList
<1> QED
  BY <1>1, <1>2, <1>3

\* ... when an area begins to grow, ...
LEMMA GrowLists ==
    ASSUME ListInv, AreaInv', NEW p \in Procs, NEW rgids \in SUBSET Rgids, NEW size \in Sizes,
           op[p].at = "idle", Grow(p, rgids, size)
    PROVE  ListInv'
<1>0. AreaInv /\ Types /\ FifoInv(p)
  BY DEF ListInv, AreaInv
<1>1. /\ pgtbl' = pgtbl /\ fifo_pgn' = fifo_pgn /\ OthersStay(p)
      /\ Growing(p)' /\ op'[p].at = "grab" /\ op'[p].need = PagesFor(size)
      /\ op'[p].pgn = sbrk[p] \div PAGESZ /\ sbrk'[p] = sbrk[p] + PagesFor(size) * PAGESZ
      /\ ~Growing(p) /\ PagesFor(size) \in Nat /\ sbrk[p] \in Nat
  BY <1>0, GrowStep
<1>2. NextPage(p)' = NextPage(p) /\ NextPage(p) \in Nat /\ sbrk[p] \div PAGESZ \in Nat
  BY <1>0, <1>1, NextPageNat DEF NextPage
<1>3. sbrk'[p] \div PAGESZ = (sbrk[p] \div PAGESZ) + PagesFor(size)
  BY <1>1, DivGrows
<1>4. RoomInv(p)'
  <2> DEFINE d == sbrk[p] \div PAGESZ  m == PagesFor(size)
  <2>1. d + m <= d + m
    BY <1>1, <1>2
  <2> HIDE DEF d, m
  <2>2. op'[p].pgn + op'[p].need <= sbrk'[p] \div PAGESZ
    BY <1>1, <1>3, <2>1 DEF d, m
  <2> QED
    BY <1>1, <2>2 DEF RoomInv, Left
<1>5. FifoInv(p)'
  BY <1>0, <1>1, <1>2, FifoKept
<1> QED
  BY <1>1, <1>4, <1>5, OneList

\* ... when SYSMEM_MAP_OP marks a page, in the list or not, ...
LEMMA MarkLists ==
    ASSUME ListInv, AreaInv', NEW p \in Procs, NEW n \in Pages, SysMap(p, n)
    PROVE  ListInv'
<1> DEFINE list == fifo_pgn[p]
<1>0. AreaInv /\ Types /\ FifoInv(p) /\ RoomInv(p)
  BY DEF ListInv, AreaInv
<1>1. /\ sbrk' = sbrk /\ fifo_pgn' = fifo_pgn /\ op' = op /\ OthersStay(p)
      /\ pgtbl'[p][n] = marker /\ \A m \in Pages : m # n => pgtbl'[p][m] = pgtbl[p][m]
      /\ ~marker.present
  BY <1>0, MarkStep
<1>2. NextPage(p)' = NextPage(p) /\ (Growing(p)' <=> Growing(p)) /\ Left(p)' = Left(p)
  BY <1>1 DEF NextPage, Growing, Left
<1>3. RoomInv(p)'
  BY <1>0, <1>1, <1>2 DEF RoomInv
<1>4. \A k \in 1 .. Len(list) : list[k] \in Pages
  <2>1. list \in Seq(Pages)
    BY <1>0 DEF Types
  <2> QED
    BY <2>1
<1>5. FifoInv(p)'
  <2>1. \A k \in 1 .. Len(list) : pgtbl'[p][list[k]].present \/ pgtbl'[p][list[k]] = marker
    BY <1>0, <1>1, <1>4 DEF FifoInv
  <2>2. ASSUME NEW m \in Pages, pgtbl'[p][m].present PROVE \E k \in 1 .. Len(list) : list[k] = m
    <3>1. m # n
      BY <1>1, <2>2
    <3> QED
      BY <1>0, <1>1, <2>2, <3>1 DEF FifoInv
  <2> QED
    BY <1>0, <1>1, <1>2, <2>1, <2>2 DEF FifoInv
<1> QED
  BY <1>1, <1>3, <1>5, OneList

\* ... and when a process has ended.
LEMMA ExitLists ==
    ASSUME ListInv, AreaInv', NEW p \in Procs, ExitEnd(p)
    PROVE  ListInv'
<1>1. /\ OthersStay(p) /\ ~Growing(p)' /\ fifo_pgn'[p] = <<>> /\ \A n \in Pages : pgtbl'[p][n] = Absent
      /\ ~Absent.present
  BY ExitEndStep DEF ListInv
<1> DEFINE none == <<>>
<1>2. Len(none) = 0 /\ fifo_pgn'[p] = none
  BY <1>1
<1> HIDE DEF none
<1>3. RoomInv(p)' /\ FifoInv(p)'
  BY <1>1, <1>2 DEF RoomInv, FifoInv
<1> QED
  BY <1>1, <1>3, OneList

\* Every step keeps the page lists.
LEMMA ListNext ==
    ASSUME ListInv, [Next]_vars
    PROVE  ListInv'
<1>0. AreaInv /\ AreaInv'
  BY AreaNext DEF ListInv
<1>1. CASE UNCHANGED vars
  <2>1. UNCHANGED <<sbrk, pgtbl, fifo_pgn, op>>
    BY <1>1 DEF vars, regions, tables
  <2>2. ASSUME NEW q \in Procs PROVE RoomInv(q)' /\ FifoInv(q)'
    BY <2>1, <2>2, ListStays DEF ListInv
  <2> QED
    BY <1>0, <2>2 DEF ListInv
<1>2. ASSUME NEW p \in Procs, Instruction(p) PROVE ListInv'
  <2>1. CASE Quiet(p)
    BY <1>0, <2>1, QuietLists
  <2>2. ASSUME NEW r \in Rgids, NEW n \in Sizes, AllocGrow(p, r, n) PROVE ListInv'
    <3>1. op[p].at = "idle" /\ Grow(p, {r}, n) /\ {r} \in SUBSET Rgids
      BY <2>2 DEF AllocGrow, At
    <3> QED
      BY <1>0, <3>1, GrowLists
  <2>3. ASSUME NEW n \in Sizes, SysInc(p, n) PROVE ListInv'
    <3>1. op[p].at = "idle" /\ Grow(p, {}, n) /\ {} \in SUBSET Rgids
      BY <2>3 DEF SysInc, At
    <3> QED
      BY <1>0, <3>1, GrowLists
  <2>4. ASSUME NEW n \in Pages, SysMap(p, n) PROVE ListInv'
    BY <1>0, <2>4, MarkLists
  <2> QED
    BY <1>2, <2>1, <2>2, <2>3, <2>4 DEF Instruction, Quiet
<1>3. ASSUME NEW p \in Procs, Continue(p) PROVE ListInv'
  BY <1>0, <1>3, GrowingLists, MapLists, QuietLists, ExitLists DEF Continue
<1> QED
  BY <1>1, <1>2, <1>3 DEF Next, Ended

\* The page lists stay right.
LEMMA ListHolds == Spec => []ListInv
<1>1. ASSUME Init PROVE ListInv
  <2>1. AreaInv
    BY <1>1, AreaInit
  <2>2. ASSUME NEW p \in Procs PROVE RoomInv(p) /\ FifoInv(p)
    <3>1. op[p].at = "new" /\ fifo_pgn[p] = <<>> /\ \A n \in Pages : pgtbl[p][n] = Absent
      BY <1>1 DEF Init
    <3>2. ~Growing(p) /\ ~Absent.present /\ Len(fifo_pgn[p]) = 0
      BY <3>1 DEF Growing, Absent
    <3> QED
      BY <3>1, <3>2 DEF RoomInv, FifoInv
  <2> QED
    BY <2>1, <2>2 DEF ListInv
<1>2. ListInv /\ [Next]_vars => ListInv'
  BY ListNext
<1> QED
  BY <1>1, <1>2, PTL DEF Spec

\* The FIFO list of a process names each page in RAM exactly once, and otherwise only pages
\* that SYSMEM_MAP_OP has marked, whatever part of a growth has failed or is still under way:
\* find_victim_page always picks a page with an entry (vmap_page_range, enlist_pgn_node,
\* vmap_pgd_memset).
THEOREM PagingFifo == Spec => []FifoIsPresent
<1>1. ASSUME ListInv PROVE FifoIsPresent
  <2>1. ASSUME NEW p \in Procs
        PROVE  /\ IsInjective(fifo_pgn[p])
               /\ \A n \in Pages : pgtbl[p][n].present => n \in ToSet(fifo_pgn[p])
               /\ \A n \in ToSet(fifo_pgn[p]) :
                    n \in Pages /\ (pgtbl[p][n].present \/ pgtbl[p][n] = marker)
    <3>1. FifoInv(p) /\ fifo_pgn[p] \in Seq(Pages)
      BY <1>1 DEF ListInv, AreaInv, Types
    <3>2. DOMAIN fifo_pgn[p] = 1 .. Len(fifo_pgn[p]) /\ \A k \in 1 .. Len(fifo_pgn[p]) : fifo_pgn[p][k] \in Pages
      BY <3>1
    <3>3. IsInjective(fifo_pgn[p])
      BY <3>1, <3>2 DEF FifoInv, IsInjective
    <3>4. ToSet(fifo_pgn[p]) = {fifo_pgn[p][k] : k \in 1 .. Len(fifo_pgn[p])}
      BY <3>2 DEF ToSet
    <3> QED
      BY <3>1, <3>2, <3>3, <3>4 DEF FifoInv
  <2> QED
    BY <2>1 DEF FifoIsPresent
<1> QED
  BY <1>1, ListHolds, PTL

----------------------------------------------------------------------------
(* Frames.                                                                  *)

Elts(s) == {s[k] : k \in 1 .. Len(s)}
Distinct(s) == \A j, k \in 1 .. Len(s) : s[j] = s[k] => j = k

\* The frames that are free, those an area has in flight, and the page a frame is mapped to.
FreeFrames == Elts(free_fp_list)
Fly(p) == Elts(InFlight(p))
Maps(p, n, f) == n \in MappedPages(p) /\ pgtbl[p][n].fpn = f

\* No two of them have a frame in common.
Exclusive ==
    /\ \A p \in Procs : \A f \in Fly(p) : f \notin FreeFrames
    /\ \A p, q \in Procs : \A f \in Fly(p) : f \in Fly(q) => p = q
    /\ \A p \in Procs, n \in Pages, f \in Frames :
         Maps(p, n, f) => f \notin FreeFrames /\ \A q \in Procs : f \notin Fly(q)
    /\ \A p, q \in Procs, n, m \in Pages, f \in Frames :
         Maps(p, n, f) /\ Maps(q, m, f) => p = q /\ n = m

\* The inductive invariant of the frames: no list names one twice either, and nothing is
\* ever swapped out.
FrameInv ==
    /\ Exclusive /\ Distinct(free_fp_list) /\ \A p \in Procs : Distinct(InFlight(p))
    /\ swp_fp_list = Formatted /\ \A p \in Procs, n \in Pages : ~pgtbl[p][n].swapped

\* Somebody holds the frame.
Held(f) ==
    \/ f \in FreeFrames
    \/ \E p \in Procs : f \in Fly(p)
    \/ \E p \in Procs, n \in Pages : Maps(p, n, f)

\* A step in which no frame is lost.
KeepsFrames == \A f \in Frames : Held(f) => Held(f)'

----------------------------------------------------------------------------
(* Lists of frames                                                          *)

\* The head of a list leaves it (MEMPHY_get_freefp).
LEMMA TailElts ==
    ASSUME NEW S, NEW s \in Seq(S), s # <<>>, Distinct(s)
    PROVE  /\ Distinct(Tail(s)) /\ Elts(Tail(s)) = Elts(s) \ {Head(s)}
           /\ Head(s) \in Elts(s) /\ Head(s) \in S
<1> DEFINE t == Tail(s)  x == Head(s)
<1>1. /\ x \in S /\ x = s[1] /\ Len(s) \in Nat \ {0} /\ Len(t) = Len(s) - 1
      /\ \A j \in 1 .. Len(s) - 1 : t[j] = s[j + 1]
  BY HeadTail
<1> HIDE DEF t, x
<1>2. \A j \in 1 .. Len(t) : j + 1 \in 1 .. Len(s) /\ t[j] = s[j + 1] /\ j + 1 # 1
  BY <1>1
<1>3. 1 \in 1 .. Len(s)
  BY <1>1
<1>4. ASSUME NEW j \in 1 .. Len(t), NEW k \in 1 .. Len(t), t[j] = t[k] PROVE j = k
  <2>1. j + 1 = k + 1
    BY <1>2, <1>4 DEF Distinct
  <2> QED
    BY <1>1, <2>1
<1>5. ASSUME NEW y \in Elts(t) PROVE y \in Elts(s) /\ y # x
  <2>1. PICK j \in 1 .. Len(t) : y = t[j]
    BY <1>5 DEF Elts
  <2>2. y = s[j + 1] /\ j + 1 \in 1 .. Len(s) /\ j + 1 # 1
    BY <1>2, <2>1
  <2> QED
    BY <1>1, <1>3, <2>2 DEF Elts, Distinct
<1>6. ASSUME NEW y \in Elts(s), y # x PROVE y \in Elts(t)
  <2>1. PICK j \in 1 .. Len(s) : y = s[j]
    BY <1>6 DEF Elts
  <2>2. j # 1
    BY <1>1, <1>6, <2>1
  <2>3. j - 1 \in 1 .. Len(t) /\ (j - 1) + 1 = j
    BY <1>1, <2>2
  <2>4. t[j - 1] = y
    BY <1>2, <2>1, <2>3
  <2> QED
    BY <2>3, <2>4 DEF Elts
<1>7. x \in Elts(s)
  BY <1>1, <1>3 DEF Elts
<1>8. Elts(t) = Elts(s) \ {x}
  BY <1>5, <1>6
<1>9. Distinct(t)
  BY <1>4 DEF Distinct
<1> QED
  BY <1>1, <1>7, <1>8, <1>9 DEF t, x

\* A frame that is put in front is new to the list (MEMPHY_put_freefp).
LEMMA PushElts ==
    ASSUME NEW S, NEW s \in Seq(S), NEW x \in S, x \notin Elts(s), Distinct(s)
    PROVE  Distinct(<<x>> \o s) /\ Elts(<<x>> \o s) = Elts(s) \cup {x}
<1> DEFINE t == <<x>> \o s
<1>1. /\ Len(s) \in Nat /\ Len(t) = Len(s) + 1 /\ t[1] = x /\ \A j \in 1 .. Len(s) : t[j + 1] = s[j]
  BY Pushed
<1> HIDE DEF t
<1>2. ASSUME NEW k \in 1 .. Len(t)
      PROVE  \/ k = 1 /\ t[k] = x
             \/ k - 1 \in 1 .. Len(s) /\ t[k] = s[k - 1] /\ t[k] \in Elts(s) /\ k # 1
  <2>1. CASE k = 1
    BY <1>1, <2>1
  <2>2. CASE k # 1
    <3>1. k - 1 \in 1 .. Len(s) /\ (k - 1) + 1 = k
      BY <1>1, <2>2
    <3>2. t[k] = s[k - 1]
      BY <1>1, <3>1
    <3> QED
      BY <2>2, <3>1, <3>2 DEF Elts
  <2> QED
    BY <2>1, <2>2
<1>3. ASSUME NEW j \in 1 .. Len(t), NEW k \in 1 .. Len(t), t[j] = t[k] PROVE j = k
  <2>1. CASE j = 1 \/ k = 1
    BY <1>2, <1>3, <2>1
  <2>2. CASE j # 1 /\ k # 1
    <3>1. j - 1 \in 1 .. Len(s) /\ k - 1 \in 1 .. Len(s) /\ s[j - 1] = s[k - 1]
      BY <1>2, <1>3, <2>2
    <3>2. j - 1 = k - 1
      BY <3>1 DEF Distinct
    <3> QED
      BY <1>1, <3>2
  <2> QED
    BY <2>1, <2>2
<1>4. ASSUME NEW y \in Elts(t) PROVE y \in Elts(s) \cup {x}
  BY <1>2, <1>4 DEF Elts
<1>5. ASSUME NEW y \in Elts(s) PROVE y \in Elts(t)
  <2>1. PICK j \in 1 .. Len(s) : y = s[j]
    BY <1>5 DEF Elts
  <2>2. j + 1 \in 1 .. Len(t) /\ t[j + 1] = y
    BY <1>1, <2>1
  <2> QED
    BY <2>2 DEF Elts
<1>6. x \in Elts(t)
  <2>1. 1 \in 1 .. Len(t)
    BY <1>1
  <2> QED
    BY <1>1, <2>1 DEF Elts
<1>7. Elts(t) = Elts(s) \cup {x}
  BY <1>4, <1>5, <1>6
<1>8. Distinct(t)
  BY <1>3 DEF Distinct
<1> QED
  BY <1>7, <1>8 DEF t

\* So is one that is put at the end (alloc_pages_range).
LEMMA AppendElts ==
    ASSUME NEW S, NEW s \in Seq(S), NEW x \in S, x \notin Elts(s), Distinct(s)
    PROVE  Distinct(Append(s, x)) /\ Elts(Append(s, x)) = Elts(s) \cup {x}
<1> DEFINE t == Append(s, x)
<1>1. /\ Len(s) \in Nat /\ Len(t) = Len(s) + 1 /\ t[Len(s) + 1] = x /\ \A j \in 1 .. Len(s) : t[j] = s[j]
  BY Appended
<1> HIDE DEF t
<1>2. ASSUME NEW k \in 1 .. Len(t)
      PROVE  \/ k = Len(s) + 1 /\ t[k] = x
             \/ k \in 1 .. Len(s) /\ t[k] = s[k] /\ t[k] \in Elts(s)
  <2>1. k = Len(s) + 1 \/ k \in 1 .. Len(s)
    BY <1>1
  <2> QED
    BY <1>1, <2>1 DEF Elts
<1>3. ASSUME NEW j \in 1 .. Len(t), NEW k \in 1 .. Len(t), t[j] = t[k] PROVE j = k
  BY <1>2, <1>3 DEF Distinct
<1>4. ASSUME NEW y \in Elts(t) PROVE y \in Elts(s) \cup {x}
  BY <1>2, <1>4 DEF Elts
<1>5. ASSUME NEW y \in Elts(s) PROVE y \in Elts(t)
  <2>1. PICK j \in 1 .. Len(s) : y = s[j]
    BY <1>5 DEF Elts
  <2>2. j \in 1 .. Len(t) /\ t[j] = y
    BY <1>1, <2>1
  <2> QED
    BY <2>2 DEF Elts
<1>6. x \in Elts(t)
  <2>1. Len(s) + 1 \in 1 .. Len(t)
    BY <1>1
  <2> QED
    BY <1>1, <2>1 DEF Elts
<1>7. Elts(t) = Elts(s) \cup {x}
  BY <1>4, <1>5, <1>6
<1>8. Distinct(t)
  BY <1>3 DEF Distinct
<1> QED
  BY <1>7, <1>8 DEF t

----------------------------------------------------------------------------
(* Frames change hands                                                      *)

\* A free frame is taken, ...
LEMMA TakeFrame ==
    ASSUME Exclusive, NEW p \in Procs, NEW f, f \in FreeFrames,
           FreeFrames' = FreeFrames \ {f}, Fly(p)' = Fly(p) \cup {f},
           \A q \in Procs : q # p => Fly(q)' = Fly(q),
           \A q \in Procs, n \in Pages, g \in Frames : Maps(q, n, g)' <=> Maps(q, n, g)
    PROVE  Exclusive' /\ KeepsFrames
<1>1. \A q \in Procs : \A g \in Fly(q)' : g \notin FreeFrames'
  BY DEF Exclusive
<1>2. \A q, s \in Procs : \A g \in Fly(q)' : g \in Fly(s)' => q = s
  BY DEF Exclusive
<1>3. \A q \in Procs, n \in Pages, g \in Frames :
        Maps(q, n, g)' => g \notin FreeFrames' /\ \A s \in Procs : g \notin Fly(s)'
  BY DEF Exclusive
<1>4. Exclusive'
  BY <1>1, <1>2, <1>3 DEF Exclusive
<1>5. ASSUME NEW g \in Frames, Held(g) PROVE Held(g)'
  <2>1. CASE g \in FreeFrames
    BY <2>1 DEF Held
  <2>2. ASSUME NEW q \in Procs, g \in Fly(q) PROVE g \in Fly(q)'
    BY <2>2
  <2> QED
    BY <1>5, <2>1, <2>2 DEF Held
<1> QED
  BY <1>4, <1>5 DEF KeepsFrames

\* ... goes back, ...
LEMMA GiveFrame ==
    ASSUME Exclusive, NEW p \in Procs, NEW f, f \in Fly(p),
           FreeFrames' = FreeFrames \cup {f}, Fly(p)' = Fly(p) \ {f},
           \A q \in Procs : q # p => Fly(q)' = Fly(q),
           \A q \in Procs, n \in Pages, g \in Frames : Maps(q, n, g)' <=> Maps(q, n, g)
    PROVE  Exclusive' /\ KeepsFrames
<1>1. \A q \in Procs : \A g \in Fly(q)' : g \notin FreeFrames'
  BY DEF Exclusive
<1>2. \A q, s \in Procs : \A g \in Fly(q)' : g \in Fly(s)' => q = s
  BY DEF Exclusive
<1>3. \A q \in Procs, n \in Pages, g \in Frames :
        Maps(q, n, g)' => g \notin FreeFrames' /\ \A s \in Procs : g \notin Fly(s)'
  BY DEF Exclusive
<1>4. Exclusive'
  BY <1>1, <1>2, <1>3 DEF Exclusive
<1>5. ASSUME NEW g \in Frames, Held(g) PROVE Held(g)'
  <2>1. CASE g = f
    BY <2>1 DEF Held
  <2>2. CASE g # f
    <3>1. ASSUME NEW q \in Procs, g \in Fly(q) PROVE g \in Fly(q)'
      BY <2>2, <3>1
    <3> QED
      BY <1>5, <3>1 DEF Held
  <2> QED
    BY <2>1, <2>2
<1> QED
  BY <1>4, <1>5 DEF KeepsFrames

\* ... is mapped, ...
LEMMA MapFrame ==
    ASSUME Exclusive, NEW p \in Procs, NEW f \in Frames, NEW n \in Pages, f \in Fly(p),
           FreeFrames' = FreeFrames, Fly(p)' = Fly(p) \ {f},
           \A q \in Procs : q # p => Fly(q)' = Fly(q),
           \A q \in Procs, m \in Pages, g \in Frames :
              Maps(q, m, g)' <=> (Maps(q, m, g) \/ (q = p /\ m = n /\ g = f))
    PROVE  Exclusive' /\ KeepsFrames
<1>1. \A q \in Procs : \A g \in Fly(q)' : g \notin FreeFrames'
  BY DEF Exclusive
<1>2. \A q, s \in Procs : \A g \in Fly(q)' : g \in Fly(s)' => q = s
  BY DEF Exclusive
<1>3. \A q \in Procs, m \in Pages, g \in Frames :
        Maps(q, m, g)' => g \notin FreeFrames' /\ \A s \in Procs : g \notin Fly(s)'
  BY DEF Exclusive
<1>4. ASSUME NEW q \in Procs, NEW s \in Procs, NEW k \in Pages, NEW m \in Pages, NEW g \in Frames,
             Maps(q, k, g)', Maps(s, m, g)'
      PROVE  q = s /\ k = m
  <2>1. Maps(q, k, g) \/ (q = p /\ k = n /\ g = f)
    BY <1>4
  <2>2. Maps(s, m, g) \/ (s = p /\ m = n /\ g = f)
    BY <1>4
  <2>3. g # f \/ (~Maps(q, k, g) /\ ~Maps(s, m, g))
    BY DEF Exclusive
  <2> QED
    BY <2>1, <2>2, <2>3 DEF Exclusive
<1>5. Exclusive'
  BY <1>1, <1>2, <1>3, <1>4 DEF Exclusive
<1>6. ASSUME NEW g \in Frames, Held(g) PROVE Held(g)'
  <2>1. CASE g = f
    <3>1. Maps(p, n, g)'
      BY <2>1
    <3> QED
      BY <3>1 DEF Held
  <2>2. CASE g # f
    <3>1. ASSUME NEW q \in Procs, g \in Fly(q) PROVE g \in Fly(q)'
      BY <2>2, <3>1
    <3> QED
      BY <1>6, <3>1 DEF Held
  <2> QED
    BY <2>1, <2>2
<1> QED
  BY <1>5, <1>6 DEF KeepsFrames

\* ... and returned at the end of the process.
LEMMA ReturnFrame ==
    ASSUME Exclusive, NEW p \in Procs, NEW f \in Frames, NEW n \in Pages, Maps(p, n, f),
           FreeFrames' = FreeFrames \cup {f},
           \A q \in Procs : Fly(q)' = Fly(q),
           \A q \in Procs, m \in Pages, g \in Frames :
              Maps(q, m, g)' <=> (Maps(q, m, g) /\ ~(q = p /\ m = n /\ g = f))
    PROVE  Exclusive' /\ KeepsFrames
<1>1. \A q \in Procs : \A g \in Fly(q)' : g \notin FreeFrames'
  BY DEF Exclusive
<1>2. \A q, s \in Procs : \A g \in Fly(q)' : g \in Fly(s)' => q = s
  BY DEF Exclusive
<1>3. ASSUME NEW q \in Procs, NEW m \in Pages, NEW g \in Frames, Maps(q, m, g)'
      PROVE  g \notin FreeFrames' /\ \A s \in Procs : g \notin Fly(s)'
  <2>1. Maps(q, m, g) /\ ~(q = p /\ m = n /\ g = f)
    BY <1>3
  <2>2. g # f
    BY <2>1 DEF Exclusive
  <2> QED
    BY <2>1, <2>2 DEF Exclusive
<1>4. Exclusive'
  BY <1>1, <1>2, <1>3 DEF Exclusive
<1>5. ASSUME NEW g \in Frames, Held(g) PROVE Held(g)'
  <2>1. CASE g = f
    BY <2>1 DEF Held
  <2>2. CASE g # f
    <3>1. ASSUME NEW q \in Procs, NEW m \in Pages, Maps(q, m, g) PROVE Maps(q, m, g)'
      BY <2>2, <3>1
    <3> QED
      BY <1>5, <3>1 DEF Held
  <2> QED
    BY <2>1, <2>2
<1> QED
  BY <1>4, <1>5 DEF KeepsFrames

\* Other steps leave every frame where it is.
LEMMA SameFrames ==
    ASSUME Exclusive, FreeFrames' = FreeFrames, \A q \in Procs : Fly(q)' = Fly(q),
           \A q \in Procs, n \in Pages, g \in Frames : Maps(q, n, g)' <=> Maps(q, n, g)
    PROVE  Exclusive' /\ KeepsFrames
<1>1. Exclusive'
  BY DEF Exclusive
<1>2. ASSUME NEW g \in Frames, Held(g) PROVE Held(g)'
  BY <1>2 DEF Held
<1> QED
  BY <1>1, <1>2 DEF KeepsFrames

----------------------------------------------------------------------------
(* What each step does to the frames                                        *)

\* The frames in flight of a call, at each stage of it.
LEMMA OpShape ==
    ASSUME NEW x \in Ops
    PROVE  /\ x.at \in {"grab", "rollback", "map"} => "got" \in DOMAIN x
           /\ x.at \notin {"grab", "rollback", "map"} => "got" \notin DOMAIN x
<1>1. CASE x \in [at : {"new", "idle", "dead"}]
  BY <1>1
<1>2. CASE x \in [at : {"exit"}, pgn : 0 .. MAX_PGN]
  BY <1>2
<1>3. CASE x \in GrowOps
  BY <1>3 DEF GrowOps
<1> QED
  BY <1>1, <1>2, <1>3 DEF Ops

\* Only a growing area has any.
LEMMA FlightNow ==
    ASSUME Types, Types', NEW p \in Procs
    PROVE  /\ InFlight(p) = IF Growing(p) THEN op[p].got ELSE <<>>
           /\ InFlight(p)' = IF Growing(p)' THEN op'[p].got ELSE <<>>
<1>1. op[p] \in Ops /\ op'[p] \in Ops
  BY DEF Types
<1> QED
  BY <1>1, OpShape DEF InFlight, Growing

\* The frames of the other processes stay where they are.
LEMMA OthersFrames ==
    ASSUME NEW p \in Procs, OthersStay(p), NEW q \in Procs, q # p
    PROVE  /\ InFlight(q)' = InFlight(q) /\ Fly(q)' = Fly(q)
           /\ \A n \in Pages, g \in Frames : Maps(q, n, g)' <=> Maps(q, n, g)
<1>1. op'[q] = op[q] /\ pgtbl'[q] = pgtbl[q]
  BY DEF OthersStay
<1>2. InFlight(q)' = InFlight(q) /\ MappedPages(q)' = MappedPages(q)
  BY <1>1 DEF InFlight, MappedPages
<1> QED
  BY <1>1, <1>2 DEF Fly, Maps

\* A process that is not exiting maps all pages that are present.
LEMMA MapsPresent ==
    ASSUME NEW p \in Procs, NEW n \in Pages, NEW g, op[p].at # "exit"
    PROVE  Maps(p, n, g) <=> pgtbl[p][n].present /\ pgtbl[p][n].fpn = g
BY DEF Maps, MappedPages

\* Nor does a step within a growing area change the pages mapped, unless it maps one.
LEMMA GrowingMaps ==
    ASSUME NEW p \in Procs, op[p].at # "exit", op'[p].at # "exit", pgtbl' = pgtbl, OthersStay(p)
    PROVE  \A q \in Procs, n \in Pages, g \in Frames : Maps(q, n, g)' <=> Maps(q, n, g)
<1>1. ASSUME NEW n \in Pages, NEW g \in Frames PROVE Maps(p, n, g)' <=> Maps(p, n, g)
  BY DEF Maps, MappedPages
<1> QED
  BY <1>1, OthersFrames

\* What is not swapped stays so, and what the lists in flight keep.
LEMMA OneFlight ==
    ASSUME FrameInv, NEW p \in Procs, OthersStay(p), Exclusive', Distinct(free_fp_list'),
           Distinct(InFlight(p))', swp_fp_list' = swp_fp_list,
           \A n \in Pages : ~pgtbl'[p][n].swapped
    PROVE  FrameInv'
<1>1. ASSUME NEW q \in Procs PROVE Distinct(InFlight(q))'
  <2>1. CASE q = p
    BY <2>1
  <2>2. CASE q # p
    <3>1. InFlight(q)' = InFlight(q)
      BY <2>2, OthersFrames
    <3> QED
      BY <3>1 DEF FrameInv, Distinct
  <2> QED
    BY <2>1, <2>2
<1>2. ASSUME NEW q \in Procs, NEW n \in Pages PROVE ~pgtbl'[q][n].swapped
  BY DEF FrameInv, OthersStay
<1>3. swp_fp_list' = Formatted
  BY DEF FrameInv
<1> QED
  BY <1>1, <1>2, <1>3 DEF FrameInv

\* A frame is taken: no other area, free list or page has it (alloc_pages_range).
LEMMA GrabFrames ==
    ASSUME AreaInv, AreaInv', FrameInv, NEW p \in Procs, Grab(p)
    PROVE  FrameInv' /\ KeepsFrames
<1> DEFINE f == Head(free_fp_list)
<1>0. Types /\ Types' /\ Exclusive /\ Distinct(free_fp_list) /\ Distinct(InFlight(p))
  BY DEF AreaInv, FrameInv
<1>1. /\ swp_fp_list' = swp_fp_list /\ pgtbl' = pgtbl /\ OthersStay(p)
      /\ Growing(p) /\ Growing(p)' /\ op[p].at = "grab" /\ op'[p].at = "grab"
      /\ op'[p].got = Append(op[p].got, f) /\ op[p].got \in Seq(Frames)
      /\ free_fp_list \in Seq(Frames) /\ free_fp_list # <<>> /\ free_fp_list' = Tail(free_fp_list)
  BY GrabStep
<1>2. InFlight(p) = op[p].got /\ InFlight(p)' = Append(op[p].got, f)
  BY <1>0, <1>1, FlightNow
<1>3. /\ Distinct(free_fp_list') /\ FreeFrames' = FreeFrames \ {f} /\ f \in FreeFrames /\ f \in Frames
  BY <1>0, <1>1, TailElts DEF FreeFrames
<1> HIDE DEF f
<1>4. f \notin Fly(p)
  BY <1>0, <1>3 DEF Exclusive
<1>5. Distinct(InFlight(p))' /\ Fly(p)' = Fly(p) \cup {f}
  <2>1. f \notin Elts(op[p].got) /\ Distinct(op[p].got)
    BY <1>0, <1>2, <1>4 DEF Fly
  <2>2. Distinct(Append(op[p].got, f)) /\ Elts(Append(op[p].got, f)) = Elts(op[p].got) \cup {f}
    BY <1>1, <1>3, <2>1, AppendElts
  <2> QED
    BY <1>2, <2>2 DEF Fly, Distinct, Elts
<1>6. \A q \in Procs : q # p => Fly(q)' = Fly(q)
  BY <1>1, OthersFrames
<1>7. \A q \in Procs, n \in Pages, g \in Frames : Maps(q, n, g)' <=> Maps(q, n, g)
  BY <1>1, GrowingMaps
<1>8. Exclusive' /\ KeepsFrames
  BY <1>0, <1>3, <1>5, <1>6, <1>7, TakeFrame
<1>9. \A n \in Pages : ~pgtbl'[p][n].swapped
  BY <1>1 DEF FrameInv
<1> QED
  BY <1>1, <1>3, <1>5, <1>8, <1>9, OneFlight

\* A frame goes back to the free list (alloc_pages_range, vmap_page_range).
LEMMA BackFrames ==
    ASSUME AreaInv, AreaInv', FrameInv, NEW p \in Procs, Rollback(p) \/ MapFails(p)
    PROVE  FrameInv' /\ KeepsFrames
<1> DEFINE f == Head(op[p].got)
<1>0. Types /\ Types' /\ Exclusive /\ Distinct(free_fp_list) /\ Distinct(InFlight(p))
  BY DEF AreaInv, FrameInv
<1>1. /\ swp_fp_list' = swp_fp_list /\ pgtbl' = pgtbl /\ OthersStay(p)
      /\ Growing(p) /\ Growing(p)' /\ op'[p].at = op[p].at
      /\ op'[p].got = Tail(op[p].got) /\ op[p].got \in Seq(Frames) /\ op[p].got # <<>>
      /\ free_fp_list \in Seq(Frames) /\ free_fp_list' = <<f>> \o free_fp_list
  BY BackStep
<1>2. InFlight(p) = op[p].got /\ InFlight(p)' = Tail(op[p].got) /\ op[p].at # "exit"
  BY <1>0, <1>1, FlightNow DEF Growing
<1>3. /\ Distinct(Tail(op[p].got)) /\ Elts(Tail(op[p].got)) = Elts(op[p].got) \ {f}
      /\ f \in Elts(op[p].got) /\ f \in Frames
  BY <1>0, <1>1, <1>2, TailElts
<1> HIDE DEF f
<1>4. Distinct(InFlight(p))' /\ Fly(p)' = Fly(p) \ {f} /\ f \in Fly(p)
  BY <1>2, <1>3 DEF Fly, Distinct, Elts
<1>5. f \notin FreeFrames
  BY <1>0, <1>4 DEF Exclusive
<1>6. Distinct(free_fp_list') /\ FreeFrames' = FreeFrames \cup {f}
  BY <1>0, <1>1, <1>3, <1>5, PushElts DEF FreeFrames
<1>7. \A q \in Procs : q # p => Fly(q)' = Fly(q)
  BY <1>1, OthersFrames
<1>8. \A q \in Procs, n \in Pages, g \in Frames : Maps(q, n, g)' <=> Maps(q, n, g)
  BY <1>1, <1>2, GrowingMaps
<1>9. Exclusive' /\ KeepsFrames
  BY <1>0, <1>4, <1>6, <1>7, <1>8, GiveFrame
<1>10. \A n \in Pages : ~pgtbl'[p][n].swapped
  BY <1>1 DEF FrameInv
<1> QED
  BY <1>1, <1>4, <1>6, <1>9, <1>10, OneFlight

\* A frame in flight becomes that of a page which had none (vmap_page_range).
LEMMA MapFrames ==
    ASSUME NumFrames <= FPN_LIMIT, ListInv, AreaInv', FrameInv, NEW p \in Procs, MapPage(p)
    PROVE  FrameInv' /\ KeepsFrames
<1> DEFINE f == Head(op[p].got)  n == op[p].pgn
<1>0. AreaInv /\ Types /\ Types' /\ Exclusive /\ Distinct(free_fp_list) /\ Distinct(InFlight(p))
  BY DEF AreaInv, FrameInv, ListInv
<1>1. /\ free_fp_list' = free_fp_list /\ swp_fp_list' = swp_fp_list /\ OthersStay(p)
      /\ Growing(p) /\ Growing(p)' /\ op[p].at = "map" /\ op'[p].at = "map" /\ n \in Pages
      /\ op'[p].got = Tail(op[p].got) /\ op[p].got \in Seq(Frames) /\ op[p].got # <<>>
      /\ pgtbl'[p][n] = set_fpn(pgtbl[p][n], f)
      /\ \A m \in Pages : m # n => pgtbl'[p][m] = pgtbl[p][m]
  BY <1>0, MapStep
<1>2. ~pgtbl[p][n].present
  BY MapLists
<1>3. InFlight(p) = op[p].got /\ InFlight(p)' = Tail(op[p].got)
  BY <1>0, <1>1, FlightNow
<1>4. /\ Distinct(Tail(op[p].got)) /\ Elts(Tail(op[p].got)) = Elts(op[p].got) \ {f}
      /\ f \in Elts(op[p].got) /\ f \in Frames
  BY <1>0, <1>1, <1>3, TailElts
<1>5. pgtbl'[p][n].present /\ ~pgtbl'[p][n].swapped /\ pgtbl'[p][n].fpn = f
  <2>1. pgtbl[p][n] \in Entry
    BY <1>0, <1>1 DEF Types
  <2> QED
    BY <1>1, <1>4, <2>1, SetFpn
<1> HIDE DEF f, n
<1>6. Distinct(InFlight(p))' /\ Fly(p)' = Fly(p) \ {f} /\ f \in Fly(p)
  BY <1>3, <1>4 DEF Fly, Distinct, Elts
<1>7. \A q \in Procs : q # p => Fly(q)' = Fly(q)
  BY <1>1, OthersFrames
<1>8. ASSUME NEW q \in Procs, NEW m \in Pages, NEW g \in Frames
      PROVE  Maps(q, m, g)' <=> (Maps(q, m, g) \/ (q = p /\ m = n /\ g = f))
  <2>1. CASE q # p
    BY <1>1, <2>1, OthersFrames
  <2>2. CASE q = p /\ m = n
    BY <1>1, <1>2, <1>5, <2>2 DEF Maps, MappedPages
  <2>3. CASE q = p /\ m # n
    BY <1>1, <2>3 DEF Maps, MappedPages
  <2> QED
    BY <2>1, <2>2, <2>3
<1>9. FreeFrames' = FreeFrames /\ Distinct(free_fp_list')
  BY <1>0, <1>1 DEF FreeFrames
<1>10. Exclusive' /\ KeepsFrames
  BY <1>0, <1>1, <1>4, <1>6, <1>7, <1>8, <1>9, MapFrame
<1>11. \A m \in Pages : ~pgtbl'[p][m].swapped
  BY <1>1, <1>5 DEF FrameInv
<1> QED
  BY <1>1, <1>6, <1>9, <1>10, <1>11, OneFlight

\* A step that moves no frame.
LEMMA StillFrames ==
    ASSUME FrameInv, NEW p \in Procs, OthersStay(p), free_fp_list' = free_fp_list,
           swp_fp_list' = swp_fp_list, InFlight(p)' = InFlight(p),
           \A n \in Pages, g \in Frames : Maps(p, n, g)' <=> Maps(p, n, g),
           \A n \in Pages : ~pgtbl'[p][n].swapped
    PROVE  FrameInv' /\ KeepsFrames
<1>1. FreeFrames' = FreeFrames /\ Distinct(free_fp_list')
  BY DEF FreeFrames, FrameInv
<1>2. Fly(p)' = Fly(p) /\ Distinct(InFlight(p))'
  BY DEF Fly, FrameInv, Distinct
<1>3. \A q \in Procs : Fly(q)' = Fly(q)
  BY <1>2, OthersFrames
<1>4. \A q \in Procs, n \in Pages, g \in Frames : Maps(q, n, g)' <=> Maps(q, n, g)
  BY OthersFrames
<1>5. Exclusive' /\ KeepsFrames
  BY <1>1, <1>3, <1>4, SameFrames DEF FrameInv
<1> QED
  BY <1>1, <1>2, <1>5, OneFlight

\* Neither the start, the stages nor the end of a growth move frames.
LEMMA StageFrames ==
    ASSUME AreaInv, AreaInv', FrameInv, NEW p \in Procs,
           \/ \E rgids \in SUBSET Rgids, size \in Sizes : op[p].at = "idle" /\ Grow(p, rgids, size)
           \/ GrabFail(p) \/ MapStart(p) \/ GrowEnd(p)
    PROVE  FrameInv' /\ KeepsFrames
<1>0. Types /\ Types'
  BY DEF AreaInv
<1>1. /\ free_fp_list' = free_fp_list /\ swp_fp_list' = swp_fp_list /\ pgtbl' = pgtbl /\ OthersStay(p)
      /\ op[p].at # "exit" /\ op'[p].at # "exit" /\ InFlight(p)' = InFlight(p)
  <2>1. ASSUME NEW rgids \in SUBSET Rgids, NEW size \in Sizes, op[p].at = "idle", Grow(p, rgids, size)
        PROVE  /\ free_fp_list' = free_fp_list /\ swp_fp_list' = swp_fp_list /\ pgtbl' = pgtbl
               /\ OthersStay(p) /\ op[p].at # "exit" /\ op'[p].at # "exit" /\ InFlight(p)' = InFlight(p)
    <3>1. /\ free_fp_list' = free_fp_list /\ swp_fp_list' = swp_fp_list /\ pgtbl' = pgtbl /\ OthersStay(p)
          /\ Growing(p)' /\ op'[p].at = "grab" /\ op'[p].got = <<>> /\ ~Growing(p)
      BY <2>1, GrowStep
    <3>2. InFlight(p) = <<>> /\ InFlight(p)' = <<>>
      BY <1>0, <3>1, FlightNow
    <3> QED
      BY <2>1, <3>1, <3>2
  <2>2. CASE GrabFail(p) \/ MapStart(p)
    <3>1. /\ free_fp_list' = free_fp_list /\ swp_fp_list' = swp_fp_list /\ pgtbl' = pgtbl /\ OthersStay(p)
          /\ Growing(p) /\ Growing(p)' /\ op[p].at = "grab" /\ op'[p].at \in {"rollback", "map"}
          /\ op'[p].got = op[p].got
      BY <2>2, StageStep
    <3>2. InFlight(p) = op[p].got /\ InFlight(p)' = op[p].got
      BY <1>0, <3>1, FlightNow
    <3> QED
      BY <3>1, <3>2
  <2>3. CASE GrowEnd(p)
    <3>1. /\ free_fp_list' = free_fp_list /\ swp_fp_list' = swp_fp_list /\ pgtbl' = pgtbl /\ OthersStay(p)
          /\ Growing(p) /\ op[p].got = <<>> /\ op'[p].at = "idle" /\ ~Growing(p)'
      BY <2>3, EndStep
    <3>2. InFlight(p) = <<>> /\ InFlight(p)' = <<>> /\ op[p].at # "exit"
      BY <1>0, <3>1, FlightNow DEF Growing
    <3> QED
      BY <3>1, <3>2
  <2> QED
    BY <2>1, <2>2, <2>3
<1>2. \A n \in Pages, g \in Frames : Maps(p, n, g)' <=> Maps(p, n, g)
  BY <1>1, GrowingMaps
<1>3. \A n \in Pages : ~pgtbl'[p][n].swapped
  BY <1>1 DEF FrameInv
<1> QED
  BY <1>1, <1>2, <1>3, StillFrames

\* Nor do the other instructions, the start of an exit among them.
LEMMA QuietFrames ==
    ASSUME AreaInv, AreaInv', FrameInv, NEW p \in Procs, Quiet(p)
    PROVE  FrameInv' /\ KeepsFrames
<1>0. Types /\ Types'
  BY DEF AreaInv
<1>1. /\ free_fp_list' = free_fp_list /\ swp_fp_list' = swp_fp_list /\ pgtbl' = pgtbl /\ OthersStay(p)
      /\ op'[p] = op[p] \/ (~Growing(p) /\ ~Growing(p)')
      /\ op'[p] = op[p] \/ (op[p].at # "exit" /\ (op'[p].at = "exit" => op'[p].pgn = 0))
  BY <1>0, QuietStep
<1>2. InFlight(p)' = InFlight(p)
  BY <1>0, <1>1, FlightNow DEF InFlight
<1>3. ASSUME NEW n \in Pages PROVE n \in MappedPages(p)' <=> n \in MappedPages(p)
  <2>1. n >= 0
    BY PagingAssumption DEF Pages
  <2> QED
    BY <1>1, <2>1 DEF MappedPages
<1>4. \A n \in Pages, g \in Frames : Maps(p, n, g)' <=> Maps(p, n, g)
  BY <1>1, <1>3 DEF Maps
<1>5. \A n \in Pages : ~pgtbl'[p][n].swapped
  BY <1>1 DEF FrameInv
<1> QED
  BY <1>1, <1>2, <1>4, <1>5, StillFrames

\* SYSMEM_MAP_OP over a page loses its frame, and no other (vmap_pgd_memset).
LEMMA MarkFrames ==
    ASSUME AreaInv, AreaInv', FrameInv, NEW p \in Procs, NEW n \in Pages, SysMap(p, n)
    PROVE  /\ FrameInv'
           /\ \A f \in Frames : Held(f) => Held(f)' \/ (pgtbl[p][n].present /\ pgtbl[p][n].fpn = f)
<1>0. Types /\ Types' /\ Exclusive /\ Distinct(free_fp_list) /\ Distinct(InFlight(p))
  BY DEF AreaInv, FrameInv
<1>1. /\ free_fp_list' = free_fp_list /\ swp_fp_list' = swp_fp_list /\ op' = op /\ OthersStay(p)
      /\ pgtbl'[p][n] = marker /\ \A m \in Pages : m # n => pgtbl'[p][m] = pgtbl[p][m]
      /\ op[p].at = "idle" /\ ~marker.present /\ ~marker.swapped
  BY MarkStep
<1>2. InFlight(p)' = InFlight(p) /\ Fly(p)' = Fly(p) /\ FreeFrames' = FreeFrames
  BY <1>1 DEF InFlight, Fly, FreeFrames
<1>3. \A q \in Procs : Fly(q)' = Fly(q)
  BY <1>1, <1>2, OthersFrames
<1>4. ASSUME NEW q \in Procs, NEW m \in Pages, NEW g \in Frames
      PROVE  Maps(q, m, g)' <=> Maps(q, m, g) /\ (q # p \/ m # n)
  <2>1. CASE q # p
    BY <1>1, <2>1, OthersFrames
  <2>2. CASE q = p /\ m = n
    BY <1>1, <2>2 DEF Maps, MappedPages
  <2>3. CASE q = p /\ m # n
    BY <1>1, <2>3 DEF Maps, MappedPages
  <2> QED
    BY <2>1, <2>2, <2>3
<1>5. Exclusive'
  BY <1>0, <1>2, <1>3, <1>4 DEF Exclusive
<1>6. ASSUME NEW f \in Frames, Held(f), ~(pgtbl[p][n].present /\ pgtbl[p][n].fpn = f) PROVE Held(f)'
  <2>1. ~Maps(p, n, f)
    BY <1>6 DEF Maps, MappedPages
  <2>2. ASSUME NEW q \in Procs, NEW m \in Pages, Maps(q, m, f) PROVE Maps(q, m, f)'
    BY <1>4, <2>1, <2>2
  <2> QED
    BY <1>2, <1>3, <1>6, <2>2 DEF Held
<1>7. \A m \in Pages : ~pgtbl'[p][m].swapped
  BY <1>1 DEF FrameInv
<1>8. Distinct(free_fp_list') /\ Distinct(InFlight(p))'
  BY <1>0, <1>1, <1>2 DEF Distinct
<1> QED
  BY <1>1, <1>5, <1>6, <1>7, <1>8, OneFlight

\* free_pcb_memph returns the frame of each page it comes to, once, ...
LEMMA ExitFrames ==
    ASSUME AreaInv, AreaInv', FrameInv, NEW p \in Procs, ExitPage(p)
    PROVE  FrameInv' /\ KeepsFrames
<1> DEFINE n == op[p].pgn  f == pgtbl[p][n].fpn
<1>0. Types /\ Types' /\ EntryInv /\ Exclusive /\ Distinct(free_fp_list) /\ Distinct(InFlight(p))
  BY DEF AreaInv, FrameInv
<1>1. /\ pgtbl' = pgtbl /\ OthersStay(p) /\ op[p].at = "exit" /\ op'[p].at = "exit" /\ n \in Pages
      /\ op'[p].pgn = n + 1 /\ ~Growing(p) /\ ~Growing(p)'
  BY ExitPageStep
<1>2. /\ free_fp_list' = IF pgtbl[p][n].present /\ ~pgtbl[p][n].swapped THEN <<f>> \o free_fp_list
                         ELSE free_fp_list
      /\ swp_fp_list' = IF pgtbl[p][n].swapped THEN <<f>> \o swp_fp_list ELSE swp_fp_list
  BY DEF ExitPage, put_freefp
<1>3. ~pgtbl[p][n].swapped /\ swp_fp_list' = swp_fp_list
  BY <1>1, <1>2 DEF FrameInv
<1>4. InFlight(p)' = InFlight(p) /\ Fly(p)' = Fly(p)
  BY <1>0, <1>1, FlightNow DEF Fly
<1>5. \A q \in Procs : Fly(q)' = Fly(q)
  BY <1>1, <1>4, OthersFrames
<1>6. ASSUME NEW m \in Pages PROVE m \in MappedPages(p)' <=> m \in MappedPages(p) /\ m # n
  <2>1. m \in Int /\ n \in Int
    BY <1>1, PagingAssumption DEF Pages
  <2>2. m >= n + 1 <=> m >= n /\ m # n
    BY <2>1
  <2> QED
    BY <1>1, <2>2 DEF MappedPages
<1>7. \A m \in Pages : ~pgtbl'[p][m].swapped
  BY <1>1 DEF FrameInv
<1>8. Distinct(InFlight(p))'
  BY <1>0, <1>4 DEF Distinct
<1>9. CASE ~pgtbl[p][n].present
  <2>1. free_fp_list' = free_fp_list
    BY <1>2, <1>9
  <2>2. n \notin MappedPages(p)
    BY <1>9 DEF MappedPages
  <2>3. \A m \in Pages, g \in Frames : Maps(p, m, g)' <=> Maps(p, m, g)
    BY <1>1, <1>6, <2>2 DEF Maps
  <2> QED
    BY <1>1, <1>3, <1>4, <1>7, <2>1, <2>3, StillFrames
<1>10. CASE pgtbl[p][n].present
  <2>1. f \in Frames /\ free_fp_list' = <<f>> \o free_fp_list /\ free_fp_list \in Seq(Frames)
    BY <1>0, <1>1, <1>2, <1>3, <1>10 DEF EntryInv, Types
  <2>2. Maps(p, n, f)
    <3>1. n >= n
      BY <1>1, PagingAssumption DEF Pages
    <3> QED
      BY <1>1, <1>10, <3>1 DEF Maps, MappedPages
  <2>3. f \notin FreeFrames
    BY <1>0, <1>1, <2>1, <2>2 DEF Exclusive
  <2>4. Distinct(free_fp_list') /\ FreeFrames' = FreeFrames \cup {f}
    BY <1>0, <2>1, <2>3, PushElts DEF FreeFrames
  <2>5. ASSUME NEW q \in Procs, NEW m \in Pages, NEW g \in Frames
        PROVE  Maps(q, m, g)' <=> (Maps(q, m, g) /\ ~(q = p /\ m = n /\ g = f))
    <3>1. CASE q # p
      BY <1>1, <3>1, OthersFrames
    <3>2. CASE q = p
      BY <1>1, <1>6, <3>2 DEF Maps
    <3> QED
      BY <3>1, <3>2
  <2> HIDE DEF n, f
  <2>6. Exclusive' /\ KeepsFrames
    BY <1>0, <1>1, <1>5, <2>1, <2>2, <2>4, <2>5, ReturnFrame
  <2> QED
    BY <1>1, <1>3, <1>7, <1>8, <2>4, <2>6, OneFlight
<1> QED
  BY <1>9, <1>10

\* ... and when it is through, there is none left to lose with the table.
LEMMA ExitEndFrames ==
    ASSUME AreaInv, AreaInv', FrameInv, NEW p \in Procs, ExitEnd(p)
    PROVE  FrameInv' /\ KeepsFrames
<1>0. Types /\ Types'
  BY DEF AreaInv
<1>1. /\ free_fp_list' = free_fp_list /\ swp_fp_list' = swp_fp_list /\ OthersStay(p)
      /\ op[p].at = "exit" /\ op[p].pgn = MAX_PGN /\ ~Growing(p) /\ ~Growing(p)'
      /\ \A n \in Pages : pgtbl'[p][n] = Absent
      /\ ~Absent.present /\ ~Absent.swapped
  BY ExitEndStep
<1>2. InFlight(p)' = InFlight(p)
  BY <1>0, <1>1, FlightNow
<1>3. ASSUME NEW n \in Pages PROVE n \notin MappedPages(p) /\ n \notin MappedPages(p)'
  <2>1. ~(n >= MAX_PGN)
    BY PagingAssumption DEF Pages
  <2> QED
    BY <1>1, <2>1 DEF MappedPages
<1>4. \A n \in Pages, g \in Frames : Maps(p, n, g)' <=> Maps(p, n, g)
  BY <1>3 DEF Maps
<1>5. \A n \in Pages : ~pgtbl'[p][n].swapped
  BY <1>1
<1> QED
  BY <1>1, <1>2, <1>4, <1>5, StillFrames

\* A step loses no frame unless it is SYSMEM_MAP_OP over the page the frame is mapped to.
LosesByMap ==
    \A f \in Frames : Held(f) => \/ Held(f)'
                                 \/ \E p \in Procs, n \in Pages :
                                      SysMap(p, n) /\ pgtbl[p][n].present /\ pgtbl[p][n].fpn = f

\* Every step keeps the frames apart.
LEMMA FrameNext ==
    ASSUME NumFrames <= FPN_LIMIT, ListInv, FrameInv, [Next]_vars
    PROVE  FrameInv' /\ LosesByMap
<1>0. AreaInv /\ AreaInv'
  BY AreaNext DEF ListInv
<1>1. CASE UNCHANGED vars
  <2>1. UNCHANGED <<free_fp_list, swp_fp_list, pgtbl, op>>
    BY <1>1 DEF vars, frames, tables
  <2>2. FreeFrames' = FreeFrames /\ \A q \in Procs : InFlight(q)' = InFlight(q) /\ Fly(q)' = Fly(q)
    BY <2>1 DEF FreeFrames, InFlight, Fly
  <2>3. \A q \in Procs, n \in Pages, g \in Frames : Maps(q, n, g)' <=> Maps(q, n, g)
    BY <2>1 DEF Maps, MappedPages
  <2>4. Exclusive' /\ KeepsFrames
    BY <2>2, <2>3, SameFrames DEF FrameInv
  <2>5. \A q \in Procs : Distinct(InFlight(q))'
    BY <2>2 DEF FrameInv, Distinct
  <2>6. FrameInv'
    BY <2>1, <2>4, <2>5 DEF FrameInv
  <2> QED
    BY <2>4, <2>6 DEF KeepsFrames, LosesByMap
<1>2. ASSUME NEW p \in Procs, Instruction(p) PROVE FrameInv' /\ LosesByMap
  <2>1. CASE Quiet(p)
    BY <1>0, <2>1, QuietFrames DEF KeepsFrames, LosesByMap
  <2>2. ASSUME NEW r \in Rgids, NEW n \in Sizes, AllocGrow(p, r, n) PROVE FrameInv' /\ LosesByMap
    <3>1. op[p].at = "idle" /\ Grow(p, {r}, n) /\ {r} \in SUBSET Rgids
      BY <2>2 DEF AllocGrow, At
    <3> QED
      BY <1>0, <3>1, StageFrames DEF KeepsFrames, LosesByMap
  <2>3. ASSUME NEW n \in Sizes, SysInc(p, n) PROVE FrameInv' /\ LosesByMap
    <3>1. op[p].at = "idle" /\ Grow(p, {}, n) /\ {} \in SUBSET Rgids
      BY <2>3 DEF SysInc, At
    <3> QED
      BY <1>0, <3>1, StageFrames DEF KeepsFrames, LosesByMap
  <2>4. ASSUME NEW n \in Pages, SysMap(p, n) PROVE FrameInv' /\ LosesByMap
    BY <1>0, <2>4, MarkFrames DEF LosesByMap
  <2> QED
    BY <1>2, <2>1, <2>2, <2>3, <2>4 DEF Instruction, Quiet
<1>3. ASSUME NEW p \in Procs, Continue(p) PROVE FrameInv' /\ LosesByMap
  <2>1. FrameInv' /\ KeepsFrames
    BY <1>0, <1>3, GrabFrames, StageFrames, BackFrames, MapFrames, ExitFrames, ExitEndFrames DEF Continue
  <2> QED
    BY <2>1 DEF KeepsFrames, LosesByMap
<1> QED
  BY <1>1, <1>2, <1>3 DEF Next, Ended

\* All frames are free in the beginning (MEMPHY_format).
LEMMA FrameInit ==
    ASSUME Init
    PROVE  FrameInv
<1>0. NumFrames \in Nat
  BY PagingAssumption
<1>1. Len(Formatted) = NumFrames /\ \A k \in 1 .. NumFrames : Formatted[k] = k - 1
  BY <1>0 DEF Formatted
<1>2. Distinct(Formatted)
  BY <1>0, <1>1 DEF Distinct
<1>3. ASSUME NEW p \in Procs
      PROVE  /\ InFlight(p) = <<>> /\ Fly(p) = {} /\ Distinct(InFlight(p))
             /\ \A n \in Pages : n \notin MappedPages(p) /\ ~pgtbl[p][n].swapped
  <2>1. op[p] = [at |-> "new"] /\ \A n \in Pages : pgtbl[p][n] = Absent
    BY DEF Init
  <2>2. ~Absent.present /\ ~Absent.swapped
    BY DEF Absent
  <2>3. InFlight(p) = <<>>
    BY <2>1 DEF InFlight
  <2>4. Fly(p) = {} /\ Distinct(InFlight(p))
    BY <2>3 DEF Fly, Elts, Distinct
  <2> QED
    BY <2>1, <2>2, <2>3, <2>4 DEF MappedPages
<1>4. Exclusive
  BY <1>3 DEF Exclusive, Maps
<1> QED
  BY <1>2, <1>3, <1>4 DEF FrameInv, Init

\* The frames of all processes stay apart.
LEMMA FrameHolds ==
    ASSUME NumFrames <= FPN_LIMIT
    PROVE  Spec => [](ListInv /\ FrameInv)
<1>1. Init => FrameInv
  BY FrameInit
<1>2. ListInv /\ FrameInv /\ [Next]_vars => FrameInv'
  BY FrameNext
<1> QED
  BY <1>1, <1>2, ListHolds, PTL DEF Spec

----------------------------------------------------------------------------
(* How many hold a frame                                                    *)

\* A set with at most one element.
LEMMA AtMostOne ==
    ASSUME NEW S, \A x, y \in S : x = y
    PROVE  /\ S = {} => Cardinality(S) = 0
           /\ S # {} => Cardinality(S) = 1
<1>1. CASE S = {}
  BY <1>1, FS_EmptySet
<1>2. CASE S # {}
  <2>1. PICK x : x \in S
    BY <1>2
  <2>2. S = {x}
    BY <2>1
  <2> QED
    BY <1>2, <2>2, FS_Singleton
<1> QED
  BY <1>1, <1>2

\* A list without repetition is no longer than there are frames.
LEMMA FewFrames ==
    ASSUME NEW s \in Seq(Frames), Distinct(s)
    PROVE  Len(s) \in Nat /\ Len(s) <= NumFrames
<1>0. NumFrames \in Nat /\ Len(s) \in Nat
  BY PagingAssumption
<1>1. IsFiniteSet(1 .. Len(s)) /\ Cardinality(1 .. Len(s)) = Len(s)
  <2>1. IsFiniteSet(1 .. Len(s)) /\ Cardinality(1 .. Len(s)) = IF 1 > Len(s) THEN 0 ELSE Len(s) - 1 + 1
    BY <1>0, FS_Interval
  <2> QED
    BY <1>0, <2>1
<1>2. IsFiniteSet(Frames) /\ Cardinality(Frames) = NumFrames
  <2>1. 0 \in Int /\ NumFrames - 1 \in Int
    BY <1>0
  <2>2. /\ IsFiniteSet(0 .. NumFrames - 1)
        /\ Cardinality(0 .. NumFrames - 1) = IF 0 > NumFrames - 1 THEN 0 ELSE (NumFrames - 1) - 0 + 1
    BY <2>1, FS_Interval
  <2> QED
    BY <1>0, <2>2 DEF Frames
<1>3. s \in [1 .. Len(s) -> Frames]
  OBVIOUS
<1>4. ASSUME NumFrames < Len(s) PROVE FALSE
  <2>1. Cardinality(Frames) < Cardinality(1 .. Len(s))
    BY <1>1, <1>2, <1>4
  <2>2. \E x, y \in 1 .. Len(s) : x # y /\ s[x] = s[y]
    BY <1>1, <1>2, <1>3, <2>1, FS_PigeonHole
  <2> QED
    BY <2>2 DEF Distinct
<1> QED
  BY <1>0, <1>4

\* The number of places says who holds a frame.
PlacesInv == \A f \in Frames : /\ Places(f) \in {0, 1}
                               /\ Held(f) => Places(f) = 1
                               /\ ~Held(f) => Places(f) = 0

\* At most one holds it.
LEMMA PlacesCount ==
    ASSUME AreaInv, FrameInv
    PROVE  PlacesInv
<1> SUFFICES ASSUME NEW f \in Frames
             PROVE  Places(f) \in {0, 1} /\ (Held(f) => Places(f) = 1) /\ (~Held(f) => Places(f) = 0)
  BY DEF PlacesInv
<1>0. Types /\ Exclusive /\ Distinct(free_fp_list)
  BY DEF AreaInv, FrameInv
<1> DEFINE A == {k \in 1 .. Len(free_fp_list) : free_fp_list[k] = f}
           B == {x \in Procs \X (1 .. NumFrames) :
                   x[2] <= Len(InFlight(x[1])) /\ InFlight(x[1])[x[2]] = f}
           C == {x \in Procs \X Pages : x[2] \in MappedPages(x[1]) /\ pgtbl[x[1]][x[2]].fpn = f}
<1>1. Places(f) = Cardinality(A) + Cardinality(B) + Cardinality(C)
  BY DEF Places, Count
<1>2. (f \in FreeFrames <=> A # {}) /\ \A j, k \in A : j = k
  BY <1>0 DEF FreeFrames, Elts, Distinct
<1>3. ASSUME NEW p \in Procs
      PROVE  /\ InFlight(p) \in Seq(Frames) /\ Len(InFlight(p)) \in Nat
             /\ Len(InFlight(p)) <= NumFrames /\ Distinct(InFlight(p))
  <2>1. InFlight(p) \in Seq(Frames)
    <3>1. CASE Growing(p)
      <4>1. op[p] \in GrowOps /\ InFlight(p) = op[p].got
        BY <1>0, <3>1, Shape
      <4> QED
        BY <4>1, GrowFields
    <3>2. CASE ~Growing(p)
      <4>1. InFlight(p) = <<>>
        BY <1>0, <3>2, Shape
      <4> QED
        BY <4>1
    <3> QED
      BY <3>1, <3>2
  <2>2. Distinct(InFlight(p))
    BY DEF FrameInv
  <2> QED
    BY <2>1, <2>2, FewFrames
<1>4. ASSUME NEW x \in B PROVE x[1] \in Procs /\ x[2] \in 1 .. Len(InFlight(x[1])) /\ InFlight(x[1])[x[2]] = f /\ x = <<x[1], x[2]>>
  <2>1. x[1] \in Procs /\ x[2] \in 1 .. NumFrames /\ x[2] <= Len(InFlight(x[1])) /\ InFlight(x[1])[x[2]] = f /\ x = <<x[1], x[2]>>
    OBVIOUS
  <2> QED
    BY <1>3, <2>1, PagingAssumption
<1>5. ASSUME NEW x \in B PROVE f \in Fly(x[1])
  BY <1>4 DEF Fly, Elts
<1>6. ASSUME NEW p \in Procs, f \in Fly(p) PROVE B # {}
  <2>1. PICK k \in 1 .. Len(InFlight(p)) : InFlight(p)[k] = f
    BY <1>6 DEF Fly, Elts
  <2>2. k \in 1 .. NumFrames /\ k <= Len(InFlight(p))
    BY <1>3, PagingAssumption
  <2>3. <<p, k>> \in B
    BY <2>1, <2>2
  <2> QED
    BY <2>3
<1>7. ASSUME NEW x \in B, NEW y \in B PROVE x = y
  <2>1. x[1] = y[1]
    BY <1>0, <1>4, <1>5 DEF Exclusive
  <2>2. x[2] = y[2]
    BY <1>3, <1>4, <2>1 DEF Distinct
  <2> QED
    BY <1>4, <2>1, <2>2
<1>8. ASSUME NEW x \in C PROVE x[1] \in Procs /\ x[2] \in Pages /\ Maps(x[1], x[2], f) /\ x = <<x[1], x[2]>>
  BY DEF Maps
<1>9. ASSUME NEW p \in Procs, NEW n \in Pages, Maps(p, n, f) PROVE C # {}
  <2>1. <<p, n>> \in C
    BY <1>9 DEF Maps
  <2> QED
    BY <2>1
<1>10. ASSUME NEW x \in C, NEW y \in C PROVE x = y
  <2>1. x[1] = y[1] /\ x[2] = y[2]
    BY <1>0, <1>8 DEF Exclusive
  <2> QED
    BY <1>8, <2>1
<1> HIDE DEF A, B, C
<1>11. /\ (A = {} => Cardinality(A) = 0) /\ (A # {} => Cardinality(A) = 1)
       /\ (B = {} => Cardinality(B) = 0) /\ (B # {} => Cardinality(B) = 1)
       /\ (C = {} => Cardinality(C) = 0) /\ (C # {} => Cardinality(C) = 1)
  BY <1>2, <1>7, <1>10, AtMostOne
<1>12. Held(f) <=> A # {} \/ B # {} \/ C # {}
  BY <1>2, <1>4, <1>5, <1>6, <1>8, <1>9 DEF Held
<1>13. ~(A # {} /\ B # {}) /\ ~(A # {} /\ C # {}) /\ ~(B # {} /\ C # {})
  BY <1>0, <1>2, <1>4, <1>5, <1>8 DEF Exclusive
<1> QED
  BY <1>1, <1>11, <1>12, <1>13

\* The count is right in every state.
LEMMA PlacesHold ==
    ASSUME NumFrames <= FPN_LIMIT
    PROVE  Spec => [](ListInv /\ FrameInv /\ PlacesInv)
<1>1. ListInv /\ FrameInv => PlacesInv
  BY PlacesCount DEF ListInv
<1> QED
  BY <1>1, FrameHolds, PTL

\* Whatever areas grow at the same time, with mmvm_lock or without it, run out of frames or
\* outgrow the page table, and whatever processes end meanwhile: no frame is handed out
\* twice, as long as every frame number fits the field of an entry (alloc_pages_range,
\* vmap_page_range, free_pcb_memph).
THEOREM FramesExclusive ==
    ASSUME NumFrames <= FPN_LIMIT
    PROVE  Spec => []FrameExclusive
<1>1. ASSUME FrameInv, PlacesInv PROVE FrameExclusive
  <2>1. \A f \in Frames : Places(f) <= 1
    BY <1>1 DEF PlacesInv
  <2>2. NumFrames \in Nat
    BY PagingAssumption
  <2>3. DOMAIN Formatted = 1 .. NumFrames /\ \A k \in 1 .. NumFrames : Formatted[k] = k - 1
    BY DEF Formatted
  <2>4. IsInjective(Formatted)
    BY <2>2, <2>3 DEF IsInjective
  <2> QED
    BY <1>1, <2>1, <2>4 DEF FrameExclusive, FrameInv
<1> QED
  BY <1>1, PlacesHold, PTL

\* And none is ever lost, except by SYSMEM_MAP_OP over the page it is mapped to
\* (alloc_pages_range, vmap_page_range, free_pcb_memph, vmap_pgd_memset).
THEOREM FramesLostOnlyByMap ==
    ASSUME NumFrames <= FPN_LIMIT
    PROVE  Spec => LostOnlyByMap
<1>1. ASSUME ListInv, FrameInv, PlacesInv, PlacesInv', [Next]_vars
      PROVE  [\A f \in Frames : Places(f) = 1 /\ Places(f)' = 0 =>
                \E p \in Procs, n \in Pages :
                   SysMap(p, n) /\ pgtbl[p][n].present /\ pgtbl[p][n].fpn = f]_vars
  <2>1. LosesByMap
    BY <1>1, FrameNext
  <2>2. ASSUME NEW f \in Frames, Places(f) = 1, Places(f)' = 0
        PROVE  \E p \in Procs, n \in Pages :
                 SysMap(p, n) /\ pgtbl[p][n].present /\ pgtbl[p][n].fpn = f
    <3>1. Held(f)
      BY <1>1, <2>2 DEF PlacesInv
    <3>2. ~Held(f)'
      BY <1>1, <2>2 DEF PlacesInv
    <3> QED
      BY <2>1, <3>1, <3>2 DEF LosesByMap
  <2> QED
    BY <2>2
<1> QED
  BY <1>1, PlacesHold, PTL DEF Spec, LostOnlyByMap

----------------------------------------------------------------------------
(* mmvm_lock and the bytes of the regions                                   *)

\* The calls that hold mmvm_lock over several steps: an allocation that grows the area, and
\* the return of frames at the end of a process.
Locks(p) == op[p].at = "exit" \/ (Growing(p) /\ op[p].rgids # {})
LockInv == \A p \in Procs : Locks(p) => mmvm_lock = p

\* A byte that was written: within its region, on a page in RAM, and unchanged but for a
\* physical write.
GoodByte(p, r, o) ==
    /\ o < symrgtbl[p][r][2] - symrgtbl[p][r][1]
    /\ pg_getpage(p, Address(p, r, o)).present
    /\ pg_getval(p, Address(p, r, o)) \in {<<p, r, o>>, <<NoProc>>}
DataInv == \A p \in Procs, r \in Rgids : \A o \in written[p][r] : GoodByte(p, r, o)

\* Only the process of the step may take or release the lock.
LEMMA LockKept ==
    ASSUME LockInv, NEW p \in Procs, \A q \in Procs : q # p => op'[q] = op[q],
           \/ mmvm_lock' = mmvm_lock /\ (Locks(p)' => Locks(p))
           \/ mmvm_lock = NoProc /\ mmvm_lock' = p
           \/ mmvm_lock' = NoProc /\ Locks(p) /\ ~Locks(p)'
    PROVE  LockInv'
<1>1. \A q \in Procs : q # p => (Locks(q)' <=> Locks(q))
  BY DEF Locks, Growing
<1>2. NoProc \notin Procs
  BY PagingAssumption
<1> QED
  BY <1>1, <1>2 DEF LockInv

\* Every step keeps the lock with the call that took it.
LEMMA LockNext ==
    ASSUME AreaInv, LockInv, [Next]_vars
    PROVE  LockInv'
<1>0. Types
  BY DEF AreaInv
<1>1. CASE UNCHANGED vars
  <2>1. op' = op /\ mmvm_lock' = mmvm_lock
    BY <1>1 DEF vars
  <2> QED
    BY <2>1 DEF LockInv, Locks, Growing
<1>2. ASSUME NEW p \in Procs, Instruction(p) PROVE LockInv'
  <2>1. CASE ExitStart(p)
    <3>1. OthersStay(p) /\ mmvm_lock = NoProc /\ mmvm_lock' = p
      BY <1>0, <2>1, QuietStep DEF Quiet, ExitStart
    <3> QED
      BY <3>1, LockKept DEF OthersStay
  <2>2. CASE Quiet(p) /\ ~ExitStart(p)
    <3>1. /\ OthersStay(p) /\ mmvm_lock' = mmvm_lock
      BY <1>0, <2>2, QuietStep DEF Quiet, init_mm, Free, Write, AllocReuse, AllocStale, SysIoWrite
    <3>2. op'[p] = op[p] \/ op'[p] = Idle
      BY <1>0, <2>2 DEF Quiet, init_mm, Free, Write, AllocReuse, AllocStale, SysIoWrite, Types
    <3>3. Locks(p)' => Locks(p)
      BY <3>2 DEF Locks, Growing, Idle
    <3> QED
      BY <3>1, <3>3, LockKept DEF OthersStay
  <2>3. ASSUME NEW r \in Rgids, NEW n \in Sizes, AllocGrow(p, r, n) PROVE LockInv'
    <3>1. op[p].at = "idle" /\ Grow(p, {r}, n) /\ {r} \in SUBSET Rgids /\ mmvm_lock = NoProc /\ mmvm_lock' = p
      BY <2>3 DEF AllocGrow, At
    <3>2. OthersStay(p)
      BY <3>1, GrowStep
    <3> QED
      BY <3>1, <3>2, LockKept DEF OthersStay
  <2>4. ASSUME NEW n \in Sizes, SysInc(p, n) PROVE LockInv'
    <3>1. op[p].at = "idle" /\ Grow(p, {}, n) /\ {} \in SUBSET Rgids /\ mmvm_lock' = mmvm_lock
      BY <2>4 DEF SysInc, At
    <3>2. OthersStay(p) /\ op'[p].at = "grab" /\ op'[p].rgids = {}
      BY <3>1, GrowStep
    <3>3. ~Locks(p)'
      BY <3>2 DEF Locks
    <3> QED
      BY <3>1, <3>2, <3>3, LockKept DEF OthersStay
  <2>5. ASSUME NEW n \in Pages, SysMap(p, n) PROVE LockInv'
    <3>1. op' = op /\ mmvm_lock' = mmvm_lock
      BY <2>5 DEF SysMap
    <3> QED
      BY <3>1 DEF LockInv, Locks, Growing
  <2> QED
    BY <1>2, <2>1, <2>2, <2>3, <2>4, <2>5 DEF Instruction, Quiet
<1>3. ASSUME NEW p \in Procs, Continue(p) PROVE LockInv'
  <2>1. CASE Grab(p) \/ GrabFail(p) \/ MapStart(p) \/ Rollback(p) \/ MapPage(p) \/ MapFails(p)
    <3>1. mmvm_lock' = mmvm_lock
      BY <2>1 DEF Grab, GrabFail, MapStart, Rollback, MapPage, MapFails, InGrow
    <3>2. OthersStay(p) /\ Growing(p) /\ Growing(p)' /\ op'[p].rgids = op[p].rgids
      BY <2>1, GrabStep, StageStep, BackStep, MapStep
    <3>3. Locks(p)' => Locks(p)
      BY <3>2 DEF Locks, Growing
    <3> QED
      BY <3>1, <3>2, <3>3, LockKept DEF OthersStay
  <2>2. CASE GrowEnd(p)
    <3>1. OthersStay(p) /\ Growing(p) /\ op'[p].at = "idle" /\ ~Growing(p)'
      BY <2>2, EndStep
    <3>2. mmvm_lock' = IF op[p].rgids # {} THEN NoProc ELSE mmvm_lock
      BY <2>2 DEF GrowEnd
    <3>3. ~Locks(p)' /\ (op[p].rgids # {} => Locks(p))
      BY <3>1 DEF Locks
    <3> QED
      BY <3>1, <3>2, <3>3, LockKept DEF OthersStay
  <2>3. CASE ExitPage(p)
    <3>1. OthersStay(p) /\ op[p].at = "exit" /\ mmvm_lock' = mmvm_lock
      BY <2>3, ExitPageStep DEF ExitPage
    <3> QED
      BY <3>1, LockKept DEF OthersStay, Locks
  <2>4. CASE ExitEnd(p)
    <3>1. OthersStay(p) /\ op[p].at = "exit" /\ op'[p].at = "dead" /\ ~Growing(p)' /\ mmvm_lock' = NoProc
      BY <2>4, ExitEndStep DEF ExitEnd
    <3>2. Locks(p) /\ ~Locks(p)'
      BY <3>1 DEF Locks
    <3> QED
      BY <3>1, <3>2, LockKept DEF OthersStay
  <2> QED
    BY <1>3, <2>1, <2>2, <2>3, <2>4 DEF Continue
<1> QED
  BY <1>1, <1>2, <1>3 DEF Next, Ended

\* An address lies on the page and at the offset it is divided into (PAGING_PGN, PAGING_OFFST).
LEMMA SameAddress ==
    ASSUME NEW a \in Nat, NEW b \in Nat, a \div PAGESZ = b \div PAGESZ, a % PAGESZ = b % PAGESZ
    PROVE  a = b
<1>1. PAGESZ \in Nat \ {0}
  BY WidthAssumption
<1>2. a = PAGESZ * (a \div PAGESZ) + (a % PAGESZ) /\ b = PAGESZ * (b \div PAGESZ) + (b % PAGESZ)
  BY <1>1, SMT
<1> QED
  BY <1>2

\* The page and the offset of an address.
LEMMA AddressParts ==
    ASSUME NEW a \in Nat
    PROVE  a % PAGESZ \in Offsets
<1>1. PAGESZ \in Nat \ {0}
  BY WidthAssumption
<1>2. a % PAGESZ \in Nat /\ a % PAGESZ < PAGESZ
  BY <1>1, SMT
<1> DEFINE m == a % PAGESZ
<1> HIDE DEF m
<1>3. m \in Nat /\ m < PAGESZ
  BY <1>2 DEF m
<1>4. m \in 0 .. PAGESZ - 1
  BY <1>1, <1>3
<1> QED
  BY <1>4 DEF m, Offsets

\* Below PageLimit an address has a page number that fits the int of pg_getpage.
LEMMA PageNumber ==
    ASSUME NEW a \in Nat, a < PageLimit
    PROVE  Int32(a \div PAGESZ) = a \div PAGESZ
<1>1. PAGESZ \in Nat \ {0} /\ INT_MAX \in Nat
  BY WidthAssumption
<1> DEFINE d == a \div PAGESZ
<1>2. d \in Nat /\ d * PAGESZ <= a
  BY <1>1, SMT
<1> HIDE DEF d
<1>3. d < INT_MAX + 1
  <2>1. d * PAGESZ < (INT_MAX + 1) * PAGESZ
    BY <1>1, <1>2 DEF PageLimit
  <2>2. d >= INT_MAX + 1 => d * PAGESZ >= (INT_MAX + 1) * PAGESZ
    BY <1>1, <1>2, SMT
  <2>3. d * PAGESZ \in Nat /\ (INT_MAX + 1) * PAGESZ \in Nat
    BY <1>1, <1>2
  <2> QED
    BY <1>1, <1>2, <2>1, <2>2, <2>3
<1>4. d \in 0 .. INT_MAX
  BY <1>1, <1>2, <1>3
<1> QED
  BY <1>4, Int32Small DEF d

\* Where a byte lies that was written: in a frame that its process maps.
LEMMA BytePlace ==
    ASSUME SizesFit, MaxBrk <= PageLimit, AreaInv, NEW p \in Procs, NEW r \in Rgids, NEW o \in Nat,
           o < symrgtbl[p][r][2] - symrgtbl[p][r][1],
           pg_getpage(p, Address(p, r, o)).present
    PROVE  /\ Address(p, r, o) \in Nat
           /\ Address(p, r, o) \div PAGESZ \in Pages /\ Address(p, r, o) % PAGESZ \in Offsets
           /\ pg_getpage(p, Address(p, r, o)) = pgtbl[p][Address(p, r, o) \div PAGESZ]
           /\ pg_getpage(p, Address(p, r, o)).fpn \in Frames
<1> DEFINE a == Address(p, r, o)
<1>0. Types /\ EntryInv /\ Layout(p) /\ GrowInv(p)
  BY DEF AreaInv, LayoutInv
<1>1. a \in Nat /\ a < Limit(p)
  BY <1>0, LayoutTypes DEF Layout, Address
<1> HIDE DEF a
<1>2. Limit(p) <= sbrk[p]
  <2>1. CASE Growing(p)
    <3>1. op[p].old \in Nat /\ op[p].size \in Nat
      BY <1>0, <2>1, Shape, GrowFields
    <3> QED
      BY <1>0, <2>1, <3>1, LayoutTypes DEF GrowInv, Limit
  <2> QED
    BY <1>0, <2>1, LayoutTypes DEF Limit
<1>3. a < PageLimit
  <2>1. MaxBrk \in Nat /\ PageLimit \in Nat
    BY PagingAssumption, WidthAssumption DEF PageLimit
  <2> QED
    BY <1>0, <1>1, <1>2, <2>1, LayoutTypes
<1>4. ~Absent.present
  BY DEF Absent
<1>5. Int32(a \div PAGESZ) = a \div PAGESZ
  BY <1>1, <1>3, PageNumber
<1>6. a \div PAGESZ \in Pages /\ pg_getpage(p, a) = pgtbl[p][a \div PAGESZ]
  BY <1>4, <1>5 DEF pg_getpage, a
<1>7. pg_getpage(p, a).fpn \in Frames
  BY <1>0, <1>6 DEF EntryInv, a
<1> QED
  BY <1>1, <1>6, <1>7, AddressParts DEF a

\* A byte stays when its region, its page and the contents of RAM do.
LEMMA ByteStays ==
    ASSUME NEW q \in Procs, NEW s \in Rgids, NEW o, GoodByte(q, s, o),
           symrgtbl'[q][s] = symrgtbl[q][s], storage' = storage,
           \A n \in Pages : pgtbl[q][n].present => pgtbl'[q][n] = pgtbl[q][n]
    PROVE  GoodByte(q, s, o)'
<1>1. Address(q, s, o)' = Address(q, s, o)
  BY DEF Address
<1> DEFINE a == Address(q, s, o)
<1> HIDE DEF a
<1>2. ~Absent.present
  BY DEF Absent
<1>3. pg_getpage(q, a).present
  BY DEF GoodByte, a
<1>4. pg_getpage(q, a)' = pg_getpage(q, a)
  BY <1>1, <1>2, <1>3 DEF pg_getpage, a
<1>5. pg_getval(q, a)' = pg_getval(q, a)
  BY <1>1, <1>4 DEF pg_getval, a
<1> QED
  BY <1>1, <1>4, <1>5 DEF GoodByte, a

\* A step without a write: the bytes of a region are forgotten, or it keeps them.
LEMMA DataKept ==
    ASSUME DataInv, storage' = storage,
           \A q \in Procs, s \in Rgids :
              \/ written'[q][s] = {}
              \/ /\ written'[q][s] = written[q][s] /\ symrgtbl'[q][s] = symrgtbl[q][s]
                 /\ \A n \in Pages : pgtbl[q][n].present => pgtbl'[q][n] = pgtbl[q][n]
    PROVE  DataInv'
<1>1. ASSUME NEW q \in Procs, NEW s \in Rgids, NEW o \in written'[q][s] PROVE GoodByte(q, s, o)'
  <2>1. /\ written'[q][s] = written[q][s] /\ symrgtbl'[q][s] = symrgtbl[q][s]
        /\ \A n \in Pages : pgtbl[q][n].present => pgtbl'[q][n] = pgtbl[q][n]
    BY <1>1
  <2>2. GoodByte(q, s, o)
    BY <1>1, <2>1 DEF DataInv
  <2> QED
    BY <2>1, <2>2, ByteStays
<1> QED
  BY <1>1 DEF DataInv

\* A byte is written where no other variable has one (__write, pg_setval).
LEMMA WriteData ==
    ASSUME SizesFit, MaxBrk <= PageLimit, AreaInv, FrameInv, LockInv, DataInv,
           NEW p \in Procs, NEW r \in Rgids, NEW o \in 0 .. MaxBrk, Write(p, r, o)
    PROVE  DataInv'
<1> DEFINE a == Address(p, r, o)  f == pg_getpage(p, a).fpn
<1>0. /\ Types /\ EntryInv /\ Exclusive /\ o \in Nat /\ NoProc \notin Procs
      /\ \A q \in Procs : Layout(q)
  BY PagingAssumption DEF AreaInv, FrameInv, LayoutInv
<1>1. /\ mmvm_lock = NoProc /\ o < symrgtbl[p][r][2] - symrgtbl[p][r][1] /\ pg_getpage(p, a).present
      /\ storage' = [storage EXCEPT ![f][a % PAGESZ] = <<p, r, o>>]
      /\ written' = [written EXCEPT ![p][r] = written[p][r] \cup {o}]
      /\ UNCHANGED <<symrgtbl, pgtbl, sbrk>>
  <2>1. symrgtbl[p][r][1] <= symrgtbl[p][r][2] /\ symrgtbl[p][r][1] \in Int /\ symrgtbl[p][r][2] \in Int
    BY <1>0, LayoutTypes DEF Layout
  <2>2. Inside(symrgtbl[p][r], o)
    BY DEF Write, InRegion
  <2>3. o < symrgtbl[p][r][2] - symrgtbl[p][r][1]
    BY <2>1, <2>2 DEF Inside
  <2> QED
    BY <2>3 DEF Write, pg_setval, tables, regions
<1>2. \A q \in Procs : op[q].at # "exit"
  BY <1>0, <1>1 DEF LockInv, Locks
<1>3. /\ a \in Nat /\ a \div PAGESZ \in Pages /\ a % PAGESZ \in Offsets
      /\ pg_getpage(p, a) = pgtbl[p][a \div PAGESZ] /\ f \in Frames
  BY <1>0, <1>1, BytePlace
<1>4. /\ storage'[f][a % PAGESZ] = <<p, r, o>>
      /\ \A g \in Frames, c \in Offsets : (g # f \/ c # a % PAGESZ) => storage'[g][c] = storage[g][c]
  <2> DEFINE c0 == a % PAGESZ
  <2>1. storage \in [Frames -> [Offsets -> Bytes]] /\ c0 \in Offsets /\ f \in Frames
        /\ storage' = [storage EXCEPT ![f][c0] = <<p, r, o>>]
    BY <1>0, <1>1, <1>3 DEF Types
  <2> HIDE DEF f, a, c0
  <2> QED
    BY <2>1 DEF c0
<1>5. written \in [Procs -> [Rgids -> SUBSET Nat]]
  BY <1>0 DEF Types
<1>6. ASSUME NEW q \in Procs, NEW s \in Rgids, NEW z \in written'[q][s]
      PROVE  (q = p /\ s = r /\ z = o) \/ (z \in written[q][s] /\ z \in Nat)
  BY <1>1, <1>5, <1>6
<1>7. Maps(p, a \div PAGESZ, f)
  BY <1>1, <1>2, <1>3 DEF Maps, MappedPages
<1> HIDE DEF a, f
<1>8. ASSUME NEW q \in Procs, NEW s \in Rgids, NEW z \in written'[q][s] PROVE GoodByte(q, s, z)'
  <2> DEFINE b == Address(q, s, z)
  <2>1. Address(q, s, z)' = b /\ pg_getpage(q, b)' = pg_getpage(q, b) /\ Address(p, r, o)' = a
    BY <1>1 DEF Address, pg_getpage, a
  <2>2. CASE q = p /\ s = r /\ z = o
    <3>1. b = a /\ pg_getval(q, b)' = <<p, r, o>>
      BY <1>1, <1>4, <2>1, <2>2 DEF pg_getval, a, f
    <3> QED
      BY <1>1, <2>1, <2>2, <3>1 DEF GoodByte, a
  <2>3. CASE z \in written[q][s] /\ z \in Nat /\ ~(q = p /\ s = r /\ z = o)
    <3> DEFINE g == pg_getpage(q, b).fpn
    <3>1. GoodByte(q, s, z)
      BY <2>3 DEF DataInv
    <3>2. /\ z < symrgtbl[q][s][2] - symrgtbl[q][s][1] /\ pg_getpage(q, b).present
          /\ storage[g][b % PAGESZ] \in {<<q, s, z>>, <<NoProc>>}
      BY <3>1 DEF GoodByte, pg_getval
    <3>3. /\ b \in Nat /\ b \div PAGESZ \in Pages /\ b % PAGESZ \in Offsets
          /\ pg_getpage(q, b) = pgtbl[q][b \div PAGESZ] /\ g \in Frames
      BY <1>0, <2>3, <3>2, BytePlace
    <3>4. Maps(q, b \div PAGESZ, g)
      BY <1>2, <3>2, <3>3 DEF Maps, MappedPages
    <3>5. pg_getval(q, b)' = storage'[g][b % PAGESZ]
      BY <2>1 DEF pg_getval
    <3>6. b = Address(q, s, z)
      OBVIOUS
    <3> HIDE DEF b, g
    <3>7. ASSUME g = f, b % PAGESZ = a % PAGESZ PROVE FALSE
      <4>1. q = p /\ b \div PAGESZ = a \div PAGESZ
        BY <1>0, <1>3, <1>7, <3>3, <3>4, <3>7 DEF Exclusive
      <4>2. b = a
        BY <1>3, <3>3, <3>7, <4>1, SameAddress
      <4>3. /\ symrgtbl[p][r][1] + o = symrgtbl[p][s][1] + z
            /\ o < symrgtbl[p][r][2] - symrgtbl[p][r][1] /\ z < symrgtbl[p][s][2] - symrgtbl[p][s][1]
        BY <1>1, <3>2, <3>6, <4>1, <4>2 DEF Address, a
      <4>4. /\ symrgtbl[p][r][1] \in Int /\ symrgtbl[p][r][2] \in Int
            /\ symrgtbl[p][s][1] \in Int /\ symrgtbl[p][s][2] \in Int
        BY <1>0, LayoutTypes
      <4>5. CASE s # r
        <5>1. ~Overlap(symrgtbl[p][r], symrgtbl[p][s])
          BY <1>0, <4>5 DEF Layout
        <5>2. Overlap(symrgtbl[p][r], symrgtbl[p][s])
          BY <1>0, <2>3, <4>3, <4>4 DEF Overlap
        <5> QED
          BY <5>1, <5>2
      <4>6. CASE s = r
        <5>1. z = o
          BY <1>0, <2>3, <4>3, <4>4, <4>6
        <5> QED
          BY <2>3, <4>1, <4>6, <5>1
      <4> QED
        BY <4>5, <4>6
    <3>8. storage'[g][b % PAGESZ] = storage[g][b % PAGESZ]
      BY <1>4, <3>3, <3>7
    <3>9. pg_getval(q, b)' \in {<<q, s, z>>, <<NoProc>>}
      BY <3>2, <3>5, <3>8
    <3> QED
      BY <1>1, <2>1, <3>2, <3>6, <3>9 DEF GoodByte, b
  <2> QED
    BY <1>6, <1>8, <2>2, <2>3
<1> QED
  BY <1>8 DEF DataInv

\* A physical write may hit any byte, and is recognised (SYSMEM_IO_WRITE).
LEMMA IoData ==
    ASSUME SizesFit, MaxBrk <= PageLimit, AreaInv, DataInv, NEW p \in Procs,
           NEW f \in Frames, NEW c \in Offsets, SysIoWrite(p, f, c)
    PROVE  DataInv'
<1>0. Types
  BY DEF AreaInv
<1>1. /\ storage' = [storage EXCEPT ![f][c] = <<NoProc>>]
      /\ UNCHANGED <<symrgtbl, pgtbl, written>>
  BY DEF SysIoWrite, tables, regions
<1>2. \A g \in Frames, d \in Offsets : storage'[g][d] \in {storage[g][d], <<NoProc>>}
  <2>1. storage \in [Frames -> [Offsets -> Bytes]]
    BY <1>0 DEF Types
  <2> QED
    BY <1>1, <2>1
<1>3. ASSUME NEW q \in Procs, NEW s \in Rgids, NEW z \in written'[q][s] PROVE GoodByte(q, s, z)'
  <2> DEFINE b == Address(q, s, z)  g == pg_getpage(q, b).fpn
  <2>1. Address(q, s, z)' = b /\ pg_getpage(q, b)' = pg_getpage(q, b)
    BY <1>1 DEF Address, pg_getpage
  <2>2. z \in written[q][s] /\ z \in Nat
    BY <1>0, <1>1, <1>3 DEF Types
  <2>3. GoodByte(q, s, z)
    BY <2>2 DEF DataInv
  <2>4. /\ z < symrgtbl[q][s][2] - symrgtbl[q][s][1] /\ pg_getpage(q, b).present
        /\ storage[g][b % PAGESZ] \in {<<q, s, z>>, <<NoProc>>}
    BY <2>3 DEF GoodByte, pg_getval
  <2>5. b % PAGESZ \in Offsets /\ g \in Frames
    BY <1>0, <2>2, <2>4, BytePlace
  <2>6. pg_getval(q, b)' = storage'[g][b % PAGESZ]
    BY <2>1 DEF pg_getval
  <2>7. b = Address(q, s, z)
    OBVIOUS
  <2> HIDE DEF b, g
  <2>8. pg_getval(q, b)' \in {<<q, s, z>>, <<NoProc>>}
    BY <1>2, <2>4, <2>5, <2>6
  <2> QED
    BY <1>1, <2>1, <2>4, <2>7, <2>8 DEF GoodByte, b
<1> QED
  BY <1>3 DEF DataInv

\* Every step keeps the bytes that were written.
LEMMA DataNext ==
    ASSUME NumFrames <= FPN_LIMIT, "MAP" \notin DirectOps, SizesFit, MaxBrk <= PageLimit,
           ListInv, FrameInv, LockInv, DataInv, [Next]_vars
    PROVE  DataInv'
<1>0. AreaInv /\ AreaInv' /\ Types
  BY AreaNext DEF ListInv, AreaInv
<1>1. ASSUME storage' = storage, written' = written, symrgtbl' = symrgtbl, pgtbl' = pgtbl PROVE DataInv'
  BY <1>1, DataKept
<1>2. ASSUME NEW p \in Procs, NEW r \in Rgids, storage' = storage, pgtbl' = pgtbl,
             NEW rg, symrgtbl' = [symrgtbl EXCEPT ![p][r] = rg], written' = [written EXCEPT ![p][r] = {}]
      PROVE  DataInv'
  <2>1. symrgtbl \in [Procs -> [Rgids -> Rg]] /\ written \in [Procs -> [Rgids -> SUBSET Nat]]
    BY <1>0 DEF Types
  <2>2. ASSUME NEW q \in Procs, NEW s \in Rgids
        PROVE  written'[q][s] = {} \/ (written'[q][s] = written[q][s] /\ symrgtbl'[q][s] = symrgtbl[q][s])
    BY <1>2, <2>1
  <2> QED
    BY <1>2, <2>2, DataKept
<1>3. ASSUME NEW p \in Procs, Instruction(p) PROVE DataInv'
  <2>1. ASSUME NEW r \in Rgids, NEW o \in 0 .. MaxBrk, Write(p, r, o) PROVE DataInv'
    BY <1>0, <2>1, WriteData
  <2>2. ASSUME NEW f \in Frames, NEW o \in Offsets, SysIoWrite(p, f, o) PROVE DataInv'
    BY <1>0, <2>2, IoData
  <2>3. ASSUME NEW n \in Pages, SysMap(p, n) PROVE DataInv'
    BY <2>3 DEF SysMap
  <2>4. CASE init_mm(p) \/ ExitStart(p)
    BY <1>1, <2>4 DEF init_mm, ExitStart, data, tables, regions
  <2>5. ASSUME NEW n \in Sizes, AllocStale(p, n) \/ SysInc(p, n) PROVE DataInv'
    BY <1>1, <2>5 DEF AllocStale, SysInc, Grow, data, tables, regions
  <2>6. ASSUME NEW r \in Rgids, NEW n \in Sizes, AllocGrow(p, r, n) PROVE DataInv'
    BY <1>1, <2>6 DEF AllocGrow, Grow, data, tables, regions
  <2>7. ASSUME NEW r \in Rgids, Free(p, r) PROVE DataInv'
    BY <1>2, <2>7 DEF Free, tables
  <2>8. ASSUME NEW r \in Rgids, NEW n \in Sizes, AllocReuse(p, r, n) PROVE DataInv'
    BY <1>2, <2>8 DEF AllocReuse, tables
  <2> QED
    BY <1>3, <2>1, <2>2, <2>3, <2>4, <2>5, <2>6, <2>7, <2>8 DEF Instruction
<1>4. ASSUME NEW p \in Procs, Continue(p) PROVE DataInv'
  <2>1. CASE Grab(p) \/ GrabFail(p) \/ MapStart(p) \/ Rollback(p) \/ MapFails(p) \/ ExitPage(p)
    BY <1>1, <2>1
    DEF Grab, GrabFail, MapStart, Rollback, MapFails, ExitPage, InGrow, data, tables, regions
  <2>2. CASE MapPage(p)
    <3>1. storage' = storage /\ written' = written /\ symrgtbl' = symrgtbl
      BY <2>2 DEF MapPage, InGrow, data, regions
    <3>2. ~pgtbl[p][op[p].pgn].present
      BY <1>0, <2>2, MapLists
    <3>3. OthersStay(p) /\ \A m \in Pages : m # op[p].pgn => pgtbl'[p][m] = pgtbl[p][m]
      BY <1>0, <2>2, MapStep
    <3>4. \A q \in Procs, n \in Pages : pgtbl[q][n].present => pgtbl'[q][n] = pgtbl[q][n]
      BY <3>2, <3>3 DEF OthersStay
    <3> QED
      BY <3>1, <3>4, DataKept
  <2>3. CASE GrowEnd(p)
    <3>1. /\ storage' = storage /\ pgtbl' = pgtbl
          /\ symrgtbl' = [symrgtbl EXCEPT ![p] = NewRegions(p)]
          /\ written' = [written EXCEPT ![p] = [r \in Rgids |-> IF r \in op[p].rgids THEN {} ELSE written[p][r]]]
          /\ symrgtbl \in [Procs -> [Rgids -> Rg]] /\ written \in [Procs -> [Rgids -> SUBSET Nat]]
      BY <1>0, <2>3 DEF GrowEnd, tables, Types
    <3>2. \A s \in Rgids : s \notin op[p].rgids => NewRegions(p)[s] = symrgtbl[p][s]
      BY DEF NewRegions
    <3>3. ASSUME NEW q \in Procs, NEW s \in Rgids
          PROVE  written'[q][s] = {} \/ (written'[q][s] = written[q][s] /\ symrgtbl'[q][s] = symrgtbl[q][s])
      BY <3>1, <3>2
    <3> QED
      BY <3>1, <3>3, DataKept
  <2>4. CASE ExitEnd(p)
    <3>1. /\ storage' = storage /\ OthersStay(p)
          /\ symrgtbl' = [symrgtbl EXCEPT ![p] = [r \in Rgids |-> <<0, 0>>]]
          /\ written' = [written EXCEPT ![p] = [r \in Rgids |-> {}]]
          /\ symrgtbl \in [Procs -> [Rgids -> Rg]] /\ written \in [Procs -> [Rgids -> SUBSET Nat]]
      BY <1>0, <2>4, ExitEndStep DEF ExitEnd, Types
    <3>2. ASSUME NEW q \in Procs, NEW s \in Rgids
          PROVE  \/ written'[q][s] = {}
                 \/ /\ written'[q][s] = written[q][s] /\ symrgtbl'[q][s] = symrgtbl[q][s]
                    /\ \A n \in Pages : pgtbl[q][n].present => pgtbl'[q][n] = pgtbl[q][n]
      BY <3>1 DEF OthersStay
    <3> QED
      BY <3>1, <3>2, DataKept
  <2> QED
    BY <1>4, <2>1, <2>2, <2>3, <2>4 DEF Continue
<1>5. CASE UNCHANGED vars
  BY <1>1, <1>5 DEF vars, regions, tables
<1> QED
  BY <1>3, <1>4, <1>5 DEF Next, Ended

\* A process reads back what it wrote last to each of its variables, whatever the others
\* allocate, write and free meanwhile and however their areas grow, as long as frame numbers
\* fit the entries, sizes and page numbers fit the ints of get_free_vmrg_area and pg_getpage,
\* and no program marks its own pages with SYSMEM_MAP_OP (__write, __read, pg_getval,
\* pg_setval, free_pcb_memph).
THEOREM ReadBack ==
    ASSUME NumFrames <= FPN_LIMIT, "MAP" \notin DirectOps, SizesFit, MaxBrk <= PageLimit
    PROVE  Spec => []ReadYourWrites
<1>1. ASSUME Init PROVE LockInv /\ DataInv
  <2>1. \A p \in Procs : ~Locks(p)
    BY <1>1 DEF Init, Locks, Growing
  <2>2. \A p \in Procs, r \in Rgids : written[p][r] = {}
    BY <1>1 DEF Init
  <2> QED
    BY <2>1, <2>2 DEF LockInv, DataInv
<1>2. ListInv /\ LockInv /\ [Next]_vars => LockInv'
  BY LockNext DEF ListInv
<1>3. ListInv /\ FrameInv /\ LockInv /\ DataInv /\ [Next]_vars => DataInv'
  BY DataNext
<1>4. DataInv => ReadYourWrites
  BY DEF DataInv, GoodByte, ReadYourWrites
<1> QED
  BY <1>1, <1>2, <1>3, <1>4, FrameHolds, PTL DEF Spec

----------------------------------------------------------------------------
(* What comes back in the end                                               *)

\* Without SYSMEM_MAP_OP every frame is always held by somebody, and a process that has not
\* started or has ended maps none.
Maplessly == \A p \in Procs : op[p].at \in {"new", "dead"} => \A n \in Pages : ~pgtbl[p][n].present
ReturnInv == (\A f \in Frames : Held(f)) /\ Maplessly

\* Both hold in the beginning (MEMPHY_format).
LEMMA ReturnInit ==
    ASSUME Init
    PROVE  ReturnInv
<1>0. NumFrames \in Nat
  BY PagingAssumption
<1>1. Len(Formatted) = NumFrames /\ \A k \in 1 .. NumFrames : Formatted[k] = k - 1
  BY <1>0 DEF Formatted
<1>2. ASSUME NEW f \in Frames PROVE Held(f)
  <2>1. f + 1 \in 1 .. NumFrames /\ (f + 1) - 1 = f
    BY <1>0 DEF Frames
  <2>2. f + 1 \in 1 .. Len(Formatted) /\ Formatted[f + 1] = f
    BY <1>1, <2>1
  <2>3. f \in Elts(Formatted)
    BY <2>2 DEF Elts
  <2> QED
    BY <2>3 DEF Held, FreeFrames, Init
<1>3. Maplessly
  <2>1. \A p \in Procs, n \in Pages : pgtbl[p][n] = Absent
    BY DEF Init
  <2> QED
    BY <2>1 DEF Maplessly, Absent
<1> QED
  BY <1>2, <1>3 DEF ReturnInv

\* A process that starts or ends gets and leaves an empty table.
LEMMA MaplessNext ==
    ASSUME AreaInv, Maplessly, [Next]_vars
    PROVE  Maplessly'
<1>0. Types
  BY DEF AreaInv
<1>1. CASE UNCHANGED vars
  BY <1>1 DEF vars, tables, Maplessly
<1>2. ASSUME NEW p \in Procs, OthersStay(p),
             op'[p].at \in {"new", "dead"} => \A n \in Pages : ~pgtbl'[p][n].present
      PROVE  Maplessly'
  BY <1>2 DEF OthersStay, Maplessly
<1>3. ASSUME NEW p \in Procs, OthersStay(p), op'[p].at \notin {"new", "dead"}
      PROVE  Maplessly'
  BY <1>2, <1>3
<1>4. ASSUME NEW p \in Procs, Instruction(p) PROVE Maplessly'
  <2>1. CASE Quiet(p)
    <3>1. pgtbl' = pgtbl /\ OthersStay(p) /\ (op'[p] = op[p] \/ op'[p].at \in {"idle", "exit"})
      BY <1>0, <2>1, QuietStep
    <3> QED
      BY <1>2, <3>1 DEF Maplessly
  <2>2. ASSUME NEW rgids \in SUBSET Rgids, NEW n \in Sizes, op[p].at = "idle", Grow(p, rgids, n)
        PROVE  Maplessly'
    BY <1>3, <2>2, GrowStep
  <2>3. ASSUME NEW r \in Rgids, NEW n \in Sizes, AllocGrow(p, r, n) PROVE Maplessly'
    <3>1. op[p].at = "idle" /\ Grow(p, {r}, n) /\ {r} \in SUBSET Rgids
      BY <2>3 DEF AllocGrow, At
    <3> QED
      BY <2>2, <3>1
  <2>4. ASSUME NEW n \in Sizes, SysInc(p, n) PROVE Maplessly'
    <3>1. op[p].at = "idle" /\ Grow(p, {}, n) /\ {} \in SUBSET Rgids
      BY <2>4 DEF SysInc, At
    <3> QED
      BY <2>2, <3>1
  <2>5. ASSUME NEW n \in Pages, SysMap(p, n) PROVE Maplessly'
    <3>1. OthersStay(p) /\ op' = op /\ op[p].at = "idle"
      BY <2>5, MarkStep
    <3> QED
      BY <1>3, <3>1
  <2> QED
    BY <1>4, <2>1, <2>3, <2>4, <2>5 DEF Instruction, Quiet
<1>5. ASSUME NEW p \in Procs, Continue(p) PROVE Maplessly'
  <2>1. CASE Grab(p)
    BY <1>3, <2>1, GrabStep
  <2>2. CASE GrabFail(p) \/ MapStart(p)
    BY <1>3, <2>2, StageStep
  <2>3. CASE Rollback(p) \/ MapFails(p)
    <3>1. OthersStay(p) /\ Growing(p)'
      BY <2>3, BackStep
    <3> QED
      BY <1>3, <3>1 DEF Growing
  <2>4. CASE MapPage(p)
    BY <1>3, <2>4, MapStep
  <2>5. CASE GrowEnd(p)
    BY <1>3, <2>5, EndStep
  <2>6. CASE ExitPage(p)
    BY <1>3, <2>6, ExitPageStep
  <2>7. CASE ExitEnd(p)
    <3>1. OthersStay(p) /\ \A n \in Pages : ~pgtbl'[p][n].present
      BY <2>7, ExitEndStep
    <3> QED
      BY <1>2, <3>1
  <2> QED
    BY <1>5, <2>1, <2>2, <2>3, <2>4, <2>5, <2>6, <2>7 DEF Continue
<1> QED
  BY <1>1, <1>4, <1>5 DEF Next, Ended

\* All of RAM comes back: when every process that was started has ended, each frame is in
\* free_fp_list exactly once, whatever failed half way before, unless a program has used
\* SYSMEM_MAP_OP (alloc_pages_range, vmap_page_range, free_pcb_memph).
THEOREM FramesReturned ==
    ASSUME NumFrames <= FPN_LIMIT, "MAP" \notin DirectOps
    PROVE  Spec => []AllReturned
<1>1. Init => ReturnInv
  BY ReturnInit
<1>2. ASSUME ListInv, FrameInv, ReturnInv, [Next]_vars PROVE ReturnInv'
  <2>1. LosesByMap
    BY <1>2, FrameNext
  <2>2. \A p \in Procs, n \in Pages : ~SysMap(p, n)
    BY DEF SysMap
  <2>3. \A f \in Frames : Held(f)'
    BY <1>2, <2>1, <2>2 DEF LosesByMap, ReturnInv
  <2>4. Maplessly'
    BY <1>2, MaplessNext DEF ListInv, ReturnInv
  <2> QED
    BY <2>3, <2>4 DEF ReturnInv
<1>3. ASSUME ListInv, FrameInv, ReturnInv PROVE AllReturned
  <2> SUFFICES ASSUME \A p \in Procs : op[p].at \in {"new", "dead"}, NEW f \in Frames
               PROVE  Count(free_fp_list, f) = 1
    BY DEF AllReturned
  <2>1. Types
    BY <1>3 DEF ListInv, AreaInv
  <2>2. ASSUME NEW p \in Procs PROVE Fly(p) = {}
    <3>1. ~Growing(p)
      BY DEF Growing
    <3>2. InFlight(p) = <<>>
      BY <2>1, <3>1, Shape
    <3> QED
      BY <3>2 DEF Fly, Elts
  <2>3. \A p \in Procs, n \in Pages : ~Maps(p, n, f)
    BY <1>3 DEF ReturnInv, Maplessly, Maps, MappedPages
  <2>4. f \in FreeFrames
    BY <1>3, <2>2, <2>3 DEF ReturnInv, Held
  <2> DEFINE A == {k \in 1 .. Len(free_fp_list) : free_fp_list[k] = f}
  <2>5. A # {} /\ \A j, k \in A : j = k
    BY <1>3, <2>4 DEF FreeFrames, Elts, FrameInv, Distinct
  <2>6. Count(free_fp_list, f) = Cardinality(A)
    BY DEF Count
  <2> HIDE DEF A
  <2> QED
    BY <2>5, <2>6, AtMostOne
<1>4. ListInv /\ FrameInv /\ ReturnInv /\ [Next]_vars => ReturnInv'
  BY <1>2
<1>5. ListInv /\ FrameInv /\ ReturnInv => AllReturned
  BY <1>3
<1> QED
  BY <1>1, <1>4, <1>5, FrameHolds, PTL DEF Spec

----------------------------------------------------------------------------
(* The page tables are flat tables                                          *)

\* What an entry that is set to a frame, marked or cleared means.
LEMMA Meanings ==
    /\ \A e \in Entry : e.present /\ ~e.swapped => Meaning(e) = [kind |-> "frame", of |-> e.fpn]
    /\ Meaning(marker) = [kind |-> "marked", of |-> {}]
    /\ Meaning(Absent) = [kind |-> "absent", of |-> {}]
<1>1. ~marker.present /\ ~marker.swapped /\ ~Absent.present /\ ~Absent.swapped
      /\ marker.reserved /\ ~Absent.reserved /\ marker # Absent
  BY DEF marker, Absent
<1>2. ASSUME NEW e \in Entry, e.present, ~e.swapped
      PROVE  Meaning(e) = [kind |-> "frame", of |-> e.fpn]
  <2>1. e # Absent /\ e # marker
    BY <1>1, <1>2
  <2> QED
    BY <1>2, <2>1 DEF Meaning
<1>3. Meaning(marker) = [kind |-> "marked", of |-> {}]
  BY <1>1 DEF Meaning
<1>4. Meaning(Absent) = [kind |-> "absent", of |-> {}]
  BY <1>1 DEF Meaning
<1> QED
  BY <1>2, <1>3, <1>4

\* An entry of one page is set, as vmap_page_range and vmap_pgd_memset do.
LEMMA OneEntry ==
    ASSUME NEW p \in Procs, NEW n \in Pages,
           \A m \in Pages : m # n => pgtbl'[p][m] = pgtbl[p][m]
    PROVE  Table(p)!Assign(n, Meaning(pgtbl'[p][n]))
<1>1. Entries(p)' = [m \in Pages |-> Meaning(pgtbl'[p][m])]
  BY DEF Entries, Meaning
<1>2. Entries(p) = [m \in Pages |-> Meaning(pgtbl[p][m])]
  BY DEF Entries
<1>3. Entries(p)' = [Entries(p) EXCEPT ![n] = Meaning(pgtbl'[p][n])]
  BY <1>1, <1>2
<1> QED
  BY <1>3 DEF Table!Assign

\* Each step is a step of the flat table of its process, and no step of another's.
LEMMA FlatStep ==
    ASSUME AreaInv, [Next]_vars, NEW q \in Procs
    PROVE  [Table(q)!Next]_(Entries(q))
<1>0. Types /\ pgtbl \in [Procs -> [Pages -> Entry]]
  BY DEF AreaInv, Types
<1>1. ASSUME pgtbl'[q] = pgtbl[q] PROVE Entries(q)' = Entries(q)
  BY <1>1 DEF Entries, Meaning
<1>2. ASSUME NEW p \in Procs, OthersStay(p), p # q PROVE pgtbl'[q] = pgtbl[q]
  BY <1>2 DEF OthersStay
<1>3. ASSUME NEW p \in Procs, MapPage(p) PROVE Table(q)!Next \/ pgtbl'[q] = pgtbl[q]
  <2>1. CASE p # q
    BY <1>2, <1>3, <2>1, MapStep
  <2>2. CASE p = q
    <3> DEFINE n == op[q].pgn  e == pgtbl[q][n]  f == Head(op[q].got)
    <3>1. /\ n \in Pages /\ op[q].got \in Seq(Frames) /\ op[q].got # <<>>
          /\ pgtbl'[q][n] = set_fpn(e, f) /\ \A m \in Pages : m # n => pgtbl'[q][m] = pgtbl[q][m]
      BY <1>3, <2>2, MapStep
    <3>2. e \in Entry /\ f \in Frames
      BY <1>0, <3>1, HeadTail
    <3>3. /\ set_fpn(e, f) \in Entry /\ set_fpn(e, f).present /\ ~set_fpn(e, f).swapped
          /\ set_fpn(e, f).fpn \in Frames
      BY <3>2, SetFpn
    <3>4. Meaning(pgtbl'[q][n]) = Table(q)!InFrame(set_fpn(e, f).fpn)
      BY <3>1, <3>3, Meanings DEF Table!InFrame
    <3> HIDE DEF n, e, f
    <3>5. Table(q)!Assign(n, Table(q)!InFrame(set_fpn(e, f).fpn))
      BY <3>1, <3>4, OneEntry
    <3> QED
      BY <3>1, <3>3, <3>5 DEF Table!Next
  <2> QED
    BY <2>1, <2>2
<1>4. ASSUME NEW p \in Procs, NEW n \in Pages, SysMap(p, n) PROVE Table(q)!Next \/ pgtbl'[q] = pgtbl[q]
  <2>1. CASE p # q
    BY <1>2, <1>4, <2>1, MarkStep
  <2>2. CASE p = q
    <3>1. pgtbl'[q][n] = marker /\ \A m \in Pages : m # n => pgtbl'[q][m] = pgtbl[q][m]
      BY <1>4, <2>2, MarkStep
    <3>2. Meaning(pgtbl'[q][n]) = Table(q)!Marked
      BY <3>1, Meanings DEF Table!Marked
    <3>3. Table(q)!Assign(n, Table(q)!Marked)
      BY <3>1, <3>2, OneEntry
    <3> QED
      BY <3>3 DEF Table!Next
  <2> QED
    BY <2>1, <2>2
<1>5. ASSUME NEW p \in Procs, ExitEnd(p) PROVE Table(q)!Next \/ pgtbl'[q] = pgtbl[q]
  <2>1. CASE p # q
    BY <1>2, <1>5, <2>1, ExitEndStep
  <2>2. CASE p = q
    <3>1. \A n \in Pages : pgtbl'[q][n] = Absent
      BY <1>5, <2>2, ExitEndStep
    <3>2. \A n \in Pages : Meaning(pgtbl'[q][n]) = Table(q)!Absent
      BY <3>1, Meanings DEF Table!Absent
    <3>3. Entries(q)' = [n \in Pages |-> Meaning(pgtbl'[q][n])]
      BY DEF Entries, Meaning
    <3>4. Table(q)!Drop
      BY <3>2, <3>3 DEF Table!Drop
    <3> QED
      BY <3>4 DEF Table!Next
  <2> QED
    BY <2>1, <2>2
<1>6. CASE UNCHANGED vars
  BY <1>1, <1>6 DEF vars, tables
<1>7. ASSUME NEW p \in Procs, Instruction(p) PROVE Table(q)!Next \/ pgtbl'[q] = pgtbl[q]
  <2>1. CASE Quiet(p)
    BY <1>0, <2>1, QuietStep
  <2>2. ASSUME NEW r \in Rgids, NEW n \in Sizes, AllocGrow(p, r, n) PROVE pgtbl' = pgtbl
    BY <2>2 DEF AllocGrow, Grow, tables
  <2>3. ASSUME NEW n \in Sizes, SysInc(p, n) PROVE pgtbl' = pgtbl
    BY <2>3 DEF SysInc, Grow, tables
  <2> QED
    BY <1>4, <1>7, <2>1, <2>2, <2>3 DEF Instruction, Quiet
<1>8. ASSUME NEW p \in Procs, Continue(p) PROVE Table(q)!Next \/ pgtbl'[q] = pgtbl[q]
  <2>1. ASSUME Grab(p) \/ GrabFail(p) \/ MapStart(p) \/ Rollback(p) \/ MapFails(p) \/ GrowEnd(p) \/ ExitPage(p)
        PROVE  pgtbl' = pgtbl
    BY <2>1, GrabStep, StageStep, BackStep, EndStep, ExitPageStep
  <2> QED
    BY <1>3, <1>5, <1>8, <2>1 DEF Continue
<1> QED
  BY <1>1, <1>6, <1>7, <1>8 DEF Next, Ended

\* The page table of every process behaves as a flat table, for any width of the frame
\* field: a step of the memory system sets one entry of one process to a frame of MEMRAM or
\* to the marker, or drops the table of a process that ends
\* (vmap_page_range, vmap_pgd_memset, free_pcb).
THEOREM PagingTablesAreFlat == Spec => TablesAreFlat
<1>1. Init => \A p \in Procs : Table(p)!Init
  <2> SUFFICES ASSUME Init, NEW p \in Procs PROVE Table(p)!Init
    OBVIOUS
  <2>1. \A n \in Pages : pgtbl[p][n] = Absent
    BY DEF Init
  <2>2. \A n \in Pages : Meaning(pgtbl[p][n]) = Table(p)!Absent
    BY <2>1, Meanings DEF Table!Absent
  <2> QED
    BY <2>2 DEF Table!Init, Entries
<1>2. ListInv /\ [Next]_vars => [\A p \in Procs : [Table(p)!Next]_(Entries(p))]_vars
  BY FlatStep DEF ListInv
<1> QED
  BY <1>1, <1>2, ListHolds, PTL DEF Spec, TablesAreFlat
=============================================================================
