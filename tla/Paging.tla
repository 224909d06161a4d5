------------------------------- MODULE Paging -------------------------------
(***************************************************************************)
(* User memory: the frame lists of src/src/mm-memphy.c, the page tables of *)
(* src/src/mm64.c, the area limit of src/src/mm-vm.c and the regions of    *)
(* src/src/libmem.c.                                                       *)
(*                                                                         *)
(* The library calls (alloc, free, write, free_pcb_memph) hold mmvm_lock   *)
(* from start to end.  A SYSCALL instruction enters the same kernel        *)
(* handlers without it, so the growth of an area is modelled frame by      *)
(* frame: mem_lock only covers one operation on a frame list.              *)
(*                                                                         *)
(* A page table is a function from page numbers to entries and their       *)
(* fields; PageTable shows that the five levels and the bits of an entry   *)
(* implement such a table.                                                 *)
(***************************************************************************)
EXTENDS Regions, FiniteSets

CONSTANTS
    Procs, NoProc,
    Rgids,       \* indices of symrgtbl
    NumFrames,   \* frames of MEMRAM
    MAX_PGN,     \* PAGING_MAX_PGN (16384)
    FPN_LIMIT,   \* values of the frame field of an entry (2^13)
    Sizes,       \* the sizes that the programs allocate: 64 bits in the code, and
                 \* taken small enough for sums of addr_t not to wrap around
    DirectOps,   \* memory operations the programs issue with SYSCALL
    NoRoom,      \* pages for whose directories calloc may fail
    MaxBrk,      \* bound: no area grows beyond this address
    MaxWrites    \* bound: WRITE instructions

ASSUME PagingAssumption ==
    /\ NoProc \notin Procs
    /\ NumFrames \in Nat /\ MAX_PGN \in Nat /\ MaxBrk \in Nat /\ MaxWrites \in Nat
    /\ FPN_LIMIT \in Nat \ {0}
    /\ Sizes \subseteq Nat
    /\ DirectOps \subseteq {"MAP", "INC", "IO_WRITE"}
    /\ NoRoom \subseteq Nat

Frames == 0 .. NumFrames - 1
Pages == 0 .. MAX_PGN - 1
Offsets == 0 .. PAGESZ - 1

VARIABLES
    free_fp_list,  \* free_fp_list of MEMRAM
    swp_fp_list,   \* free_fp_list of the active swap device
    storage,       \* MEMRAM, each byte tagged with the write it comes from
    mmvm_lock,     \* who holds mmvm_lock
    sbrk,          \* vma->sbrk (and vm_end) of each process
    vm_freerg,     \* vma->vm_freerg_list: pairs <<rg_start, rg_end>>
    stale,         \* the list ends in the uninitialised pointer of malloc
    symrgtbl,      \* the region of each region index, <<0, 0>> when unused
    pgtbl,         \* the page table
    fifo_pgn,      \* pages in RAM, the newest first
    op,            \* what each process is in the middle of
    written,       \* ghost: offsets written since the region was allocated
    nwrites,       \* WRITE instructions so far
    undefined      \* the program followed the uninitialised pointer

frames == <<free_fp_list, swp_fp_list>>
regions == <<sbrk, vm_freerg, stale, symrgtbl>>
tables == <<pgtbl, fifo_pgn>>
data == <<storage, written, nwrites>>
vars == <<frames, storage, mmvm_lock, regions, tables, op, written, nwrites, undefined>>

Absent == [present |-> FALSE, swapped |-> FALSE, reserved |-> FALSE, fpn |-> 0]
Idle == [at |-> "idle"]
At(p, label) == ~undefined /\ op[p].at = label

----------------------------------------------------------------------------
(* Frames: mm-memphy.c                                                      *)

\* MEMPHY_format: all frames, in order.
Formatted_one == [k \in 1 .. NumFrames |-> k]
Formatted == [k \in 1 .. NumFrames |-> k - 1]

\* MEMPHY_put_freefp and MEMPHY_get_freefp work at the head of the list.
put_freefp(list, fpn) == <<fpn>> \o list

Init ==
    /\ free_fp_list = Formatted
    /\ swp_fp_list = Formatted
    /\ storage = [f \in Frames |-> [o \in Offsets |-> <<>>]]
    /\ mmvm_lock = NoProc
    /\ sbrk = [p \in Procs |-> 0]
    /\ vm_freerg = [p \in Procs |-> <<>>]
    /\ stale = [p \in Procs |-> FALSE]
    /\ symrgtbl = [p \in Procs |-> [r \in Rgids |-> <<0, 0>>]]
    /\ pgtbl = [p \in Procs |-> [n \in Pages |-> Absent]]
    /\ fifo_pgn = [p \in Procs |-> <<>>]
    /\ op = [p \in Procs |-> [at |-> "new"]]
    /\ written = [p \in Procs |-> [r \in Rgids |-> {}]]
    /\ nwrites = 0
    /\ undefined = FALSE

\* init_mm gives the area one empty free region.  It links it in front of
\* vma0->vm_freerg_list, which nobody has initialised: the pointer is null or
\* whatever the recycled memory holds.
init_mm(p) ==
    /\ At(p, "new")
    /\ vm_freerg' = [vm_freerg EXCEPT ![p] = <<<<0, 0>>>>]
    /\ \E garbage \in BOOLEAN : stale' = [stale EXCEPT ![p] = garbage]
    /\ op' = [op EXCEPT ![p] = Idle]
    /\ UNCHANGED <<frames, data, mmvm_lock, sbrk, symrgtbl, tables, undefined>>

----------------------------------------------------------------------------
(* Page table entries: mm64.c                                               *)

\* pte_set_fpn keeps as many bits of the frame number as the field has.
set_fpn_absent(e, fpn) == [e EXCEPT !.swapped = FALSE, !.fpn = fpn % FPN_LIMIT]
set_fpn(e, fpn) ==
    [e EXCEPT !.present = TRUE, !.swapped = FALSE, !.fpn = fpn % FPN_LIMIT]

\* The marker that vmap_pgd_memset writes: neither present nor swapped.
marker_swapped == [present |-> FALSE, swapped |-> TRUE, reserved |-> TRUE, fpn |-> 0]
marker == [present |-> FALSE, swapped |-> FALSE, reserved |-> TRUE, fpn |-> 0]

----------------------------------------------------------------------------
(* Regions: libmem.c                                                        *)

\* The search, or the removal of a node that is used up, goes on to the
\* uninitialised pointer behind the last node.
LeavesList(p, size) ==
    /\ stale[p]
    /\ \/ NoFit(vm_freerg[p], size)
       \/ LET k == Len(vm_freerg[p]) IN /\ FirstFit(vm_freerg[p], k, size)
                                        /\ vm_freerg[p][k][1] + size = vm_freerg[p][k][2]

\* __alloc, when the free list has room for what an int keeps of the size.  (Nothing
\* checks that r is an index of the table: only such r are modelled.)
AllocReuse(p, r, size) ==
    LET n == Int32(size) IN
    /\ At(p, "idle") /\ mmvm_lock = NoProc
    /\ ~LeavesList(p, n)
    /\ \E k \in 1 .. Len(vm_freerg[p]) :
         /\ FirstFit(vm_freerg[p], k, n)
         /\ vm_freerg' = [vm_freerg EXCEPT ![p] = Carve(@, k, n)]
         /\ symrgtbl' = [symrgtbl EXCEPT ![p][r] =
                           <<vm_freerg[p][k][1], vm_freerg[p][k][1] + n>>]
    /\ written' = [written EXCEPT ![p][r] = {}]
    /\ UNCHANGED <<frames, storage, nwrites, mmvm_lock, sbrk, stale, tables, op, undefined>>

\* __alloc, when it follows the uninitialised pointer; what the program does
\* after that is not described.
AllocStale(p, size) ==
    /\ At(p, "idle") /\ mmvm_lock = NoProc
    /\ LeavesList(p, Int32(size))
    /\ undefined' = TRUE
    /\ UNCHANGED <<frames, data, mmvm_lock, regions, tables, op>>

\* inc_vma_limit, up to the call of alloc_pages_range: whole pages, and the new
\* limit before there are frames for it.  validate_overlap_vm_area refuses a
\* growth by no pages, and by a negative number unless the limit wraps around.
Grow(p, rgids, size) ==
    /\ PagesFor(size) > 0
    /\ sbrk[p] + PagesFor(size) * PAGESZ <= MaxBrk
    /\ sbrk' = [sbrk EXCEPT ![p] = @ + PagesFor(size) * PAGESZ]
    /\ op' = [op EXCEPT ![p] = [at |-> "grab", rgids |-> rgids, size |-> size, old |-> sbrk[p],
                                need |-> PagesFor(size), got |-> <<>>, pgn |-> sbrk[p] \div PAGESZ]]
    /\ UNCHANGED <<frames, data, vm_freerg, stale, symrgtbl, tables, undefined>>

\* __alloc, when it has to grow the area; it keeps mmvm_lock meanwhile.
AllocGrow(p, r, size) ==
    /\ At(p, "idle") /\ mmvm_lock = NoProc
    /\ NoFit(vm_freerg[p], Int32(size)) /\ ~stale[p]
    /\ Grow(p, {r}, size)
    /\ mmvm_lock' = p

\* SYSCALL with SYSMEM_INC_OP: the same without mmvm_lock and for no region.
SysInc(p, size) ==
    /\ At(p, "idle") /\ "INC" \in DirectOps
    /\ Grow(p, {}, size)
    /\ UNCHANGED mmvm_lock

InGrow == <<data, mmvm_lock, regions, undefined>>

\* alloc_pages_range: one more frame, ...
Grab_peek(p) ==
    /\ At(p, "grab") /\ Len(op[p].got) < op[p].need
    /\ free_fp_list # <<>>
    /\ op' = [op EXCEPT ![p].got = Append(@, Head(free_fp_list))]
    /\ UNCHANGED <<InGrow, frames, tables>>
Grab(p) ==
    /\ At(p, "grab") /\ Len(op[p].got) < op[p].need
    /\ free_fp_list # <<>>
    /\ op' = [op EXCEPT ![p].got = Append(@, Head(free_fp_list))]
    /\ free_fp_list' = Tail(free_fp_list)
    /\ UNCHANGED <<InGrow, swp_fp_list, tables>>

\* ... or, when there is none, give back those it has, one at a time.
GrabFail_retry(p) ==
    /\ At(p, "grab") /\ Len(op[p].got) < op[p].need
    /\ free_fp_list = <<>>
    /\ UNCHANGED vars
GrabFail(p) ==
    /\ At(p, "grab") /\ Len(op[p].got) < op[p].need
    /\ free_fp_list = <<>>
    /\ op' = [op EXCEPT ![p].at = "rollback"]
    /\ UNCHANGED <<InGrow, frames, tables>>
Rollback_drop(p) ==
    /\ At(p, "rollback") /\ op[p].got # <<>>
    /\ op' = [op EXCEPT ![p].got = <<>>]
    /\ free_fp_list' = put_freefp(free_fp_list, Head(op[p].got))
    /\ UNCHANGED <<InGrow, swp_fp_list, tables>>
Rollback(p) ==
    /\ At(p, "rollback") /\ op[p].got # <<>>
    /\ op' = [op EXCEPT ![p].got = Tail(@)]
    /\ free_fp_list' = put_freefp(free_fp_list, Head(op[p].got))
    /\ UNCHANGED <<InGrow, swp_fp_list, tables>>

\* vmap_page_range: a page beyond PAGING_MAX_PGN, or one for which calloc fails
\* in the walk, gets no entry, so its frame goes back and the page does not
\* enter the FIFO list.
enlist_pgn_node(list, pgn) == <<pgn>> \o list
MapStart(p) ==
    /\ At(p, "grab") /\ Len(op[p].got) = op[p].need
    /\ op' = [op EXCEPT ![p].at = "map"]
    /\ UNCHANGED <<InGrow, frames, tables>>
MapPage(p) ==
    /\ At(p, "map") /\ op[p].got # <<>> /\ op[p].pgn < MAX_PGN
    /\ op' = [op EXCEPT ![p].got = Tail(@), ![p].pgn = @ + 1]
    /\ pgtbl' = [pgtbl EXCEPT ![p][op[p].pgn] = set_fpn(@, Head(op[p].got))]
    /\ fifo_pgn' = [fifo_pgn EXCEPT ![p] = enlist_pgn_node(@, op[p].pgn)]
    /\ UNCHANGED <<InGrow, frames>>
MapFails_listed(p) ==
    /\ At(p, "map") /\ op[p].got # <<>> /\ (op[p].pgn >= MAX_PGN \/ op[p].pgn \in NoRoom)
    /\ op' = [op EXCEPT ![p].got = Tail(@), ![p].pgn = @ + 1]
    /\ free_fp_list' = put_freefp(free_fp_list, Head(op[p].got))
    /\ fifo_pgn' = [fifo_pgn EXCEPT ![p] = enlist_pgn_node(@, op[p].pgn)]
    /\ UNCHANGED <<InGrow, swp_fp_list, pgtbl>>
MapFails(p) ==
    /\ At(p, "map") /\ op[p].got # <<>> /\ (op[p].pgn >= MAX_PGN \/ op[p].pgn \in NoRoom)
    /\ op' = [op EXCEPT ![p].got = Tail(@), ![p].pgn = @ + 1]
    /\ free_fp_list' = put_freefp(free_fp_list, Head(op[p].got))
    /\ UNCHANGED <<InGrow, swp_fp_list, tables>>

\* What __alloc records when the area has grown.
NewRegions(p) ==
    [r \in Rgids |-> IF r \in op[p].rgids THEN <<op[p].old, op[p].old + op[p].size>>
                    ELSE symrgtbl[p][r]]

\* The end of inc_vma_limit and of __alloc.  vm_map_range has returned 0 or -1,
\* but as an unsigned addr_t, so "< 0" is false either way: the limit is
\* not restored, and __alloc records the region in both cases.
GrowEnd(p) ==
    /\ op[p].at \in {"map", "rollback"} /\ ~undefined
    /\ op[p].got = <<>>
    /\ symrgtbl' = [symrgtbl EXCEPT ![p] = NewRegions(p)]
    /\ written' = [written EXCEPT ![p] = [r \in Rgids |->
          IF r \in op[p].rgids THEN {} ELSE @[r]]]
    /\ mmvm_lock' = IF op[p].rgids # {} THEN NoProc ELSE mmvm_lock
    /\ op' = [op EXCEPT ![p] = Idle]
    /\ UNCHANGED <<frames, storage, nwrites, sbrk, vm_freerg, stale, tables, undefined>>

\* __free: the region becomes unused and free.
Free(p, r) ==
    /\ At(p, "idle") /\ mmvm_lock = NoProc
    /\ symrgtbl[p][r] # <<0, 0>>
    /\ symrgtbl' = [symrgtbl EXCEPT ![p][r] = <<0, 0>>]
    /\ vm_freerg' = [vm_freerg EXCEPT ![p] = enlist_vm_freerg_list(@, symrgtbl[p][r])]
    /\ written' = [written EXCEPT ![p][r] = {}]
    /\ UNCHANGED <<frames, storage, nwrites, mmvm_lock, sbrk, stale, tables, op, undefined>>

----------------------------------------------------------------------------
(* Access                                                                   *)

\* __resolve_rg_addr: the offset lies within the region.
InRegion(p, r, o) == Inside(symrgtbl[p][r], o)
Address(p, r, o) == symrgtbl[p][r][1] + o

\* pg_getpage with pte_get_entry: the page number is an int, a page beyond the
\* table has the zero entry, and a page that is not present is refused.
pg_getpage(p, addr) ==
    LET pgn == Int32(addr \div PAGESZ)
    IN  IF pgn \in Pages THEN pgtbl[p][pgn] ELSE Absent

\* pg_getval and pg_setval, on a page that is present.
pg_getval(p, addr) == storage[pg_getpage(p, addr).fpn][addr % PAGESZ]
pg_setval(p, addr, byte) ==
    storage' = [storage EXCEPT ![pg_getpage(p, addr).fpn][addr % PAGESZ] = byte]

\* __write: the byte is tagged with the variable it is written to.
Write(p, r, o) ==
    /\ At(p, "idle") /\ mmvm_lock = NoProc
    /\ nwrites < MaxWrites
    /\ InRegion(p, r, o)
    /\ pg_getpage(p, Address(p, r, o)).present
    /\ pg_setval(p, Address(p, r, o), <<p, r, o>>)
    /\ written' = [written EXCEPT ![p][r] = @ \cup {o}]
    /\ nwrites' = nwrites + 1
    /\ UNCHANGED <<frames, mmvm_lock, regions, tables, op, undefined>>

\* SYSCALL with SYSMEM_MAP_OP: vmap_pgd_memset overwrites any entry.  (When calloc
\* fails it stops and nothing changes.)
SysMap(p, pgn) ==
    /\ At(p, "idle") /\ "MAP" \in DirectOps
    /\ pgtbl' = [pgtbl EXCEPT ![p][pgn] = marker]
    /\ UNCHANGED <<frames, data, mmvm_lock, regions, fifo_pgn, op, undefined>>

\* SYSCALL with SYSMEM_IO_WRITE: MEMPHY_write to any address of RAM (nothing checks
\* that it is one), a byte that belongs to no variable.
SysIoWrite(p, f, o) ==
    /\ At(p, "idle") /\ "IO_WRITE" \in DirectOps
    /\ nwrites < MaxWrites
    /\ storage' = [storage EXCEPT ![f][o] = <<NoProc>>]
    /\ nwrites' = nwrites + 1
    /\ UNCHANGED <<frames, mmvm_lock, regions, tables, op, written, undefined>>

----------------------------------------------------------------------------
(* The end of a process: free_pcb                                           *)

\* free_pcb_memph goes through the page table under mmvm_lock ...
ExitStart_second(p) ==
    /\ At(p, "idle") /\ mmvm_lock = NoProc
    /\ mmvm_lock' = p
    /\ op' = [op EXCEPT ![p] = [at |-> "exit", pgn |-> 1]]
    /\ UNCHANGED <<frames, data, regions, tables, undefined>>
ExitStart(p) ==
    /\ At(p, "idle") /\ mmvm_lock = NoProc
    /\ mmvm_lock' = p
    /\ op' = [op EXCEPT ![p] = [at |-> "exit", pgn |-> 0]]
    /\ UNCHANGED <<frames, data, regions, tables, undefined>>

\* ... and returns the frame of a present entry, or the slot of a swapped one;
\* the entry itself stays.
ExitPage(p) ==
    /\ At(p, "exit") /\ op[p].pgn < MAX_PGN
    /\ LET e == pgtbl[p][op[p].pgn]
       IN /\ free_fp_list' = IF e.present /\ ~e.swapped
                             THEN put_freefp(free_fp_list, e.fpn) ELSE free_fp_list
          /\ swp_fp_list' = IF e.swapped THEN put_freefp(swp_fp_list, e.fpn) ELSE swp_fp_list
    /\ op' = [op EXCEPT ![p].pgn = @ + 1]
    /\ UNCHANGED <<data, mmvm_lock, regions, tables, undefined>>

\* Then mmvm_lock is released and free_pcb frees the lists and the page table:
\* it walks the whole list of free regions too.
ExitEnd(p) ==
    /\ At(p, "exit") /\ op[p].pgn = MAX_PGN
    /\ mmvm_lock' = NoProc
    /\ op' = [op EXCEPT ![p] = [at |-> "dead"]]
    /\ vm_freerg' = [vm_freerg EXCEPT ![p] = <<>>]
    /\ symrgtbl' = [symrgtbl EXCEPT ![p] = [r \in Rgids |-> <<0, 0>>]]
    /\ pgtbl' = [pgtbl EXCEPT ![p] = [n \in Pages |-> Absent]]
    /\ fifo_pgn' = [fifo_pgn EXCEPT ![p] = <<>>]
    /\ written' = [written EXCEPT ![p] = [r \in Rgids |-> {}]]
    /\ undefined' = stale[p]
    /\ UNCHANGED <<frames, storage, nwrites, sbrk, stale>>

----------------------------------------------------------------------------

\* The instructions that a process may execute, and the steps of one under way.
Instruction(p) ==
    \/ init_mm(p) \/ ExitStart(p)
    \/ \E r \in Rgids : \/ Free(p, r)
                        \/ \E o \in 0 .. MaxBrk : Write(p, r, o)
                        \/ \E n \in Sizes : AllocReuse(p, r, n) \/ AllocGrow(p, r, n)
    \/ \E n \in Sizes : AllocStale(p, n) \/ SysInc(p, n)
    \/ \E n \in Pages : SysMap(p, n)
    \/ \E f \in Frames, o \in Offsets : SysIoWrite(p, f, o)
Continue(p) ==
    \/ Grab(p) \/ GrabFail(p) \/ Rollback(p) \/ MapStart(p) \/ MapPage(p) \/ MapFails(p)
    \/ GrowEnd(p) \/ ExitPage(p) \/ ExitEnd(p)

Ended == (undefined \/ \A p \in Procs : op[p].at = "dead") /\ UNCHANGED vars

Next == (\E p \in Procs : Instruction(p) \/ Continue(p)) \/ Ended

Spec == Init /\ [][Next]_vars

\* A CPU thread goes on with the call it is in; a program may stop issuing calls.
FairSpec == Spec /\ \A p \in Procs : WF_vars(Continue(p))

----------------------------------------------------------------------------
(* Properties                                                               *)

InFlight(p) == IF "got" \in DOMAIN op[p] THEN op[p].got ELSE <<>>

\* Only frames of MEMRAM are free, in flight or mapped, and no area outgrows the
\* bound (alloc_pages_range, vmap_page_range, inc_vma_limit).
TypeOK ==
    /\ free_fp_list \in Seq(Frames)
    /\ DOMAIN storage = Frames /\ \A f \in Frames : DOMAIN storage[f] = Offsets
    /\ mmvm_lock \in Procs \cup {NoProc}
    /\ sbrk \in [Procs -> 0 .. MaxBrk]
    /\ \A p \in Procs :
         /\ vm_freerg[p] \in Seq(Int \X Int)
         /\ symrgtbl[p] \in [Rgids -> Int \X Int]
         /\ DOMAIN pgtbl[p] = Pages
         /\ \A n \in Pages : pgtbl[p][n].present => pgtbl[p][n].fpn \in Frames
         /\ op[p].at \in {"new", "idle", "grab", "rollback", "map", "exit", "dead"}
         /\ op[p].at \in {"grab", "rollback", "map"} =>
              InFlight(p) \in Seq(Frames) /\ Len(InFlight(p)) <= op[p].need
    /\ nwrites \in 0 .. MaxWrites
    /\ undefined \in BOOLEAN

\* The frames that a process maps: while it exits, those not yet given back.
MappedPages(p) ==
    {n \in Pages : pgtbl[p][n].present /\ (op[p].at = "exit" => n >= op[p].pgn)}
Count(s, f) == Cardinality({k \in 1 .. Len(s) : s[k] = f})
Places(f) ==
    Count(free_fp_list, f)
    + Cardinality({x \in Procs \X (1 .. NumFrames) :
                     x[2] <= Len(InFlight(x[1])) /\ InFlight(x[1])[x[2]] = f})
    + Cardinality({x \in Procs \X Pages :
                     x[2] \in MappedPages(x[1]) /\ pgtbl[x[1]][x[2]].fpn = f})

\* No frame is handed out twice: it is free, held by one growing area, or mapped
\* by one page of one process, and the free list of the swap device gets no
\* phantom slots (alloc_pages_range, vmap_page_range, free_pcb_memph).
FrameExclusive ==
    /\ \A f \in Frames : Places(f) <= 1
    /\ IsInjective(swp_fp_list)

\* A frame is lost in no other way than by SYSMEM_MAP_OP over the page it is mapped
\* to: partial allocations, pages beyond the limit, interleaved growth and the
\* end of a process all give their frames back (alloc_pages_range,
\* vmap_page_range, free_pcb_memph, vmap_pgd_memset).
LostOnlyByMap ==
    [][\A f \in Frames : Places(f) = 1 /\ Places(f)' = 0 =>
          \E p \in Procs, n \in Pages :
             SysMap(p, n) /\ pgtbl[p][n].present /\ pgtbl[p][n].fpn = f]_vars

\* All of RAM comes back: when every process that was started has ended, each frame
\* is in the free list, once, however often allocations failed half way and
\* frames were taken and returned in between (alloc_pages_range,
\* vmap_page_range, free_pcb_memph).  It needs programs without SYSMEM_MAP_OP.
AllReturned ==
    (\A p \in Procs : op[p].at \in {"new", "dead"}) =>
        \A f \in Frames : Count(free_fp_list, f) = 1

\* An entry as FlatTable sees it, and the table of a process.
Meaning(e) ==
    CASE e.present /\ ~e.swapped -> [kind |-> "frame", of |-> e.fpn]
      [] e.swapped /\ ~e.present -> [kind |-> "slot", of |-> e.fpn]
      [] e = Absent -> [kind |-> "absent", of |-> {}]
      [] e = marker -> [kind |-> "marked", of |-> {}]
      [] OTHER -> [kind |-> "senseless", of |-> e]
Entries(p) == [n \in Pages |-> Meaning(pgtbl[p][n])]
Table(p) == INSTANCE FlatTable WITH
    Pgns <- Pages, Fpns <- Frames, SwpOffs <- Frames, entries <- Entries(p)

\* Each process has a flat table of its own: a step, of whichever process, sets at
\* most one entry of it, to a frame of MEMRAM or to the marker, or drops the
\* whole table.  This is the table that PageTable implements
\* (vmap_page_range, vmap_pgd_memset, free_pcb).
TablesAreFlat ==
    /\ \A p \in Procs : Table(p)!Init
    /\ [][\A p \in Procs : [Table(p)!Next]_(Entries(p))]_vars

\* The sizes that the programs allocate fit the int of get_free_vmrg_area.
SizesFit == Sizes \subseteq 0 .. INT_MAX

\* The regions of a process and its free regions never overlap and lie
\* below the limit of its area (get_free_vmrg_area, __alloc, __free).  It needs
\* SizesFit: SpaceReserved is about wider sizes.
RegionsDisjoint ==
    \A p \in Procs :
        /\ \A r, t \in Rgids : r # t => ~Overlap(symrgtbl[p][r], symrgtbl[p][t])
        /\ \A r \in Rgids : symrgtbl[p][r][2] <= sbrk[p]
        /\ \A k \in 1 .. Len(vm_freerg[p]) :
             /\ vm_freerg[p][k][2] <= sbrk[p]
             /\ \A r \in Rgids : ~Overlap(symrgtbl[p][r], vm_freerg[p][k])
             /\ \A j \in 1 .. k - 1 : ~Overlap(vm_freerg[p][j], vm_freerg[p][k])

\* A process reads back what it wrote last to a variable, whatever the others
\* allocate, write and free meanwhile, unless a program has overwritten the byte
\* with a physical write of its own (libwrite, libread, SYSMEM_IO_WRITE).  It needs
\* SizesFit, and areas whose page numbers fit the int of pg_getpage.
ReadYourWrites ==
    \A p \in Procs, r \in Rgids : \A o \in written[p][r] :
        /\ pg_getpage(p, Address(p, r, o)).present
        /\ pg_getval(p, Address(p, r, o)) \in {<<p, r, o>>, <<NoProc>>}

\* The FIFO list names each page in RAM once, and no other page unless
\* SYSMEM_MAP_OP has marked it: what find_victim_page picks has an entry
\* (vmap_page_range, vmap_pgd_memset).
FifoIsPresent ==
    \A p \in Procs :
        /\ IsInjective(fifo_pgn[p])
        /\ \A n \in Pages : pgtbl[p][n].present => n \in ToSet(fifo_pgn[p])
        /\ \A n \in ToSet(fifo_pgn[p]) :
              n \in Pages /\ (pgtbl[p][n].present \/ pgtbl[p][n] = marker)

\* A call never keeps mmvm_lock: the handlers it waits for always come to
\* an end, also when RAM runs out.
LockReleased == \A p \in Procs : mmvm_lock = p ~> mmvm_lock # p

\* mm-vm.c: on failure of vm_map_range "Restore VMA limits so subsequent
\* allocations see consistent state", so that no allocation without frames reports
\* success.  README.md: "On a miss, the victim frame is evicted to the active
\* swap", and "the target page is read back".  By either, the pages of a region that
\* has been allocated are in RAM or on swap, as long as its process has a page to
\* evict and there is a slot for it.
AllocBacked ==
    \A p \in Procs, r \in Rgids :
        op[p].at = "idle" /\ fifo_pgn[p] # <<>> /\ swp_fp_list # <<>> =>
            \A a \in symrgtbl[p][r][1] .. symrgtbl[p][r][2] - 1 :
                pg_getpage(p, a).present \/ pg_getpage(p, a).swapped

\* mm-vm.c: inc_vma_limit is to "increase vm area limits to reserve space for new
\* variable", so a region ends at the limit of its area or below.
SpaceReserved == \A p \in Procs, r \in Rgids : symrgtbl[p][r][2] <= sbrk[p]
=============================================================================
