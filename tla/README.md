# A TLA+ model of the operating system simulator

The repository simulates a small operating system: a configuration file names
programs with start times and priorities, a loader thread loads them, CPU
threads execute their instructions one per time slot, a multi-level queue decides
who runs, and the instructions allocate, write and free paged memory that all
processes share.  Everything runs in POSIX threads with mutexes and condition
variables.  The modules here model the build that the Makefile makes: `MLQ_SCHED`,
`MM_PAGING` and `MM64` defined.

Paths are relative to the repository, e.g. `src/sched.c`.

## Inventory

| Component | State | Operations | Talks to | Module |
|---|---|---|---|---|
| Scheduler (`sched.c`, `queue.c`) | 140 ready queues of at most 50 entries, slots per level, scan position, running list; all under `queue_lock` | `add_proc`, `get_proc`, `put_proc`, `remove_proc`, `sched_find_proc_by_pid` | called by CPUs, loader and system calls | `Sched` |
| Timer (`timer.c`) | `_time`; per device `done`, `fsh`, two mutexes, two condition variables | `next_slot`, `detach_event`, `timer_routine`, `stop_timer` | all threads | `Timer`, abstract: `SlotClock` |
| Threads (`os.c`, `cpu.c`, `loader.c`) | per CPU `proc`, `time_left`; `done`; program counters | `cpu_routine`, `ld_routine`, `main`, `run` | scheduler, timer, memory | `Os` |
| Physical memory (`mm-memphy.c`) | free frame list and bytes of MEMRAM and the swap devices, under `mem_lock` | `MEMPHY_get_freefp`, `put_freefp`, `read`, `write` | paging | `Paging` |
| Page tables and areas (`mm64.c`, `mm-vm.c`) | five-level table, area limit, FIFO page list, one set per process | `inc_vma_limit`, `alloc_pages_range`, `vmap_page_range`, `vmap_pgd_memset`, `init_mm`; `pte_set_fpn`, `pte_set_swap`, `pte_set_entry`, `pte_get_entry`, `mm64_destroy_pgd_tree` | physical memory | `Paging`; `PageTable`, abstract: `FlatTable` |
| User memory (`libmem.c`) | symbol table of regions, list of free regions | `alloc`, `free`, `read`, `write`, `free_pcb` under `mmvm_lock` | `SYSCALL 17` into the two above | `Paging`, `Regions` |
| Kernel memory (`libmem.c:501-790`) | byte pool, break, 32 cache pools, under `kmem_lock` | `kmalloc`, cache create and alloc, copies from and to user | user memory (one symbol table, `pg_getval`, `pg_setval`) | `Kmem`, `Regions` |
| Memory system call (`sys_mem.c`) | none | looks the caller up by PID and dispatches MAP, INC, SWP, IO_READ, IO_WRITE | scheduler, paging | in `Paging`, `Kmem` |

What is hard here, and which properties are about it, is listed line by line
under `hazards` in `PROJECT.json`.  The main groups:

* CPUs and the loader share queues and PCBs; a PCB is freed outside the lock.
* The queues are bounded and `enqueue` drops silently.
* `done` of a device is written under two different mutexes, `done` of the loader
  under none.
* Memory is grown frame by frame, by callers that hold `mmvm_lock` and by SYSCALL
  instructions that do not; each can fail half-way.
* One symbol table holds user and kernel regions, one pool serves all processes, and
  its sums are `int`; copies between the two stop where a page or the pool ends.
* The fields of a page table entry share bits, and the directories above it are
  allocated in the middle of a walk that may fail.
* Sizes and offsets of a program have 64 bits; the code keeps sizes, page counts and page
  numbers in an `int` in places.
* Several things only show after long sequences: starvation, fragmentation,
  frames that leak.

## Modules

### Sched: `src/sched.c`, `src/queue.c`

`mlq`, `slot`, `cur`, `running_list` and `prio` are the variables of the code;
`held[c]` is the local variable `proc` of CPU `c`; `phase` is a ghost that records
whether a process is new, live, removed or freed.  Each scheduler call holds
`queue_lock` for its whole body, so it is one action.  `get_proc` has three cases:
nothing is ready, the first scan finds a level with slots, or the slots are reset and
the second scan takes the first level that is not empty.  A queue of the code
is an array with a size, here a sequence.  `free_pcb` is a separate action
because the code calls it after the lock is released.  The callers are free to call
in any order that makes sense for what they hold, which allows more than the
loops of `os.c` do; `Os` restricts them.

`SchedWait` is `Sched` with a history variable `waited`: how many dispatches have gone to
others since a ready process was queued.  `BoundedWait` is stated with it: a process with
`k` others of its level sees those, the rest of the round under way and the rounds its
level needs.  A round is counted by its slots, `MAX_PRIO - r` of them for level `r`.

### Timer and SlotClock: `src/timer.c`

`SlotClock` is what the timer promises: a device runs in a slot until it arrives
(`next_slot`) or leaves (`detach_event`), and the clock ticks when nobody runs.
`Timer` is the code: taking a mutex is one step, the critical section behind it
another, so that the two mutexes of a device can be held at the same time by
different threads.  Condition variables may wake up spuriously.  Devices are
numbered in list order.  The refinement mapping (`at`, `stopped` in `Timer`) regards
a waiting device as running again from the increment of `_time` on, because from
then on nothing can keep it from running.

### Os: `src/os.c`, fetch part of `src/cpu.c`

`Os` instantiates `Sched` and `SlotClock` and puts the loops of `cpu_routine` and
`ld_routine` around them, one action between two shared accesses: `get_proc`,
`remove_proc`, `free_pcb`, `put_proc`, the unsynchronised read of `done`, the
instruction, `next_slot`.  `ran` is a ghost: who executed in this slot.  The effect of
an instruction on memory is not part of this module.  `time` stays at `MaxTime`
when it gets there; nothing distinguishes times after the last start time.

### Paging: `src/mm-memphy.c`, `src/mm64.c`, `src/mm-vm.c`, `src/libmem.c`, `src/sys_mem.c`

`free_fp_list`, `sbrk`, `vm_freerg`, `symrgtbl`, `pgtbl` and `fifo_pgn` are the
variables of the code.  A page table is a function from page numbers to entries
with the fields that the code tests: what `PageTable` shows its tree to be.
`Regions` has the operations on lists of free regions, and the conversions to `int`
(see below).  `op[p]` is the call that process `p` is in the
middle of: `alloc` and the direct `INC` take frames one by one (`Grab`), give
them back when RAM is used up (`GrabFail`, `Rollback`) or map them (`MapPage`,
`MapFails`, for a page beyond the table or
one for whose directory `calloc` fails).  `mmvm_lock` is held by `alloc` and by `free_pcb_memph` across these
steps and not by `INC`.  `alloc` from the free list, `free` and `write` are
one step each: they hold `mmvm_lock` and touch nothing that `INC` of another
process touches, except single frame-list and byte operations.

Two outcomes of undefined or surprising code are modelled as they are:
`inc_vma_limit` tests an unsigned result for `< 0`, so failure is reported as success
(`GrowEnd`); and the last node of a new free list points to whatever `malloc`
returned (`stale`).  A call that follows that pointer sets `undefined`, after
which nothing more is claimed.

An address or a size is an `addr_t` of 64 bits in the code and unbounded here; three places
keep one in an `int` and do so here (`Int32`, with the width that `INT_MAX` gives it): the
size that `get_free_vmrg_area` searches for (`libmem.c:946`), the number of pages by which
`inc_vma_limit` grows an area (`mm-vm.c:108`, `PagesFor`), and the page number of
`pg_getpage` (`libmem.c:234`).  A search with a negative size takes any region that does not
begin too low, and cuts it the wrong way; an inverted region accepts every offset, because its
length is an unsigned difference (`Inside`).  `RegionsDisjoint` and `ReadYourWrites` therefore
need `SizesFit`, no size above `INT_MAX`, as a condition on the programs, and the run
`wide_grow` shows what the code does without it.  A growth by a negative
number of pages is refused by `validate_overlap_vm_area`, or wraps the limit around beyond
any bound of the model.

`storage` holds tags instead of bytes: the variable and offset that were written.
Reads change nothing but a register; `pg_getval` is what a read returns, and
`ReadYourWrites` is stated with it.

### PageTable and FlatTable: `src/mm64.c`, `include/mm.h`, `include/bitops.h`

`FlatTable` is the promise: each page has an entry that is absent, names a frame or a
swap slot, or carries the marker of `vmap_pgd_memset`, and a call sets the entry of
its page or does nothing.  `PageTable` is the code.  A directory is named by the
indices that lead to it, `dirs` is the set of those that are allocated, and `pt` is the
memory of the last level, which holds `Garbage` until `calloc` clears it.  A number in
an entry is the set of its one bits, so that `SETBIT`, `CLRBIT`, `SETVAL` and
`GETVAL` are set operations and fields that share bits do so in the model.  A walk that
allocates ends at the entry (`Store`) or at any level where `calloc` fails
(`WalkFails`), with the directories up to there.  The refinement mapping is
`Meaning(pte_get_entry(n))`: what `pg_getpage` and `free_pcb_memph` read in
the word.  `vmap_pgd_memset` is a sequence of `pte_set_entry`, and stops where one
fails.  `pte_set_swap` is an operation like the others, although no
program reaches its only call.

### Kmem and Regions: `src/libmem.c`

The pool (`kmem_brk`, `kmem_storage`), the cache pools and the symbol tables are the
variables of the code.  `INT_MAX` gives `int` its width: sums wrap, and a `uint32_t`
argument, or the 64-bit size of a user allocation, becomes an `int` (`Int32`).  User memory
is reduced to what `Paging` shows of it: `mapped` addresses hold bytes of their own process;
which pages of a growing area get a frame is left open, so that areas have holes.  The free
list is the one of `Paging` without the uninitialised tail, of which `Kmem` claims
nothing.  `Moved` is how far a copy comes.

SYSCALL 17 reaches user memory past the library, as in `Paging`: `SysInc` grows the area
of the caller, `SysMap` takes one of its pages out of RAM, and `SysIoWrite` overwrites a byte
of RAM, which belongs to whichever process has the frame.  What these two destroy is
no longer `known`.

Two ghosts mark where nothing more is claimed, because the code does not check it:
`overflowed` (a size, a page number, a sum or an `align` does not fit an `int`) and
`trespassed` (a copy went beyond the end of a region; `offset` and `size` are not compared
with it).  `known` is what a program has itself put at an offset of a region.  Nothing in
the code keeps a user area below `KMEM_VBASE`, and the model does not assume it either: an
area that grows beyond the page numbers of an `int` (`PageLimit`, 2^39 bytes in the code)
sets `overflowed`, and `PageLimit` lies below `KMEM_VBASE`.

## Runs

| Run | Question | Result |
|---|---|---|
| `sched` | 3 processes, 2 CPUs, 3 levels, queues of 3: is a process ever shared, lost, freed too early, or kept waiting beyond the bound that the slots set? | no; `EveryReadyRuns` under fairness |
| `sched_overflow` | 4 processes, 2 CPUs, queues of 2 | only overflow loses a process |
| `sched_policy` | does the lowest level go first, as the README says? | violated |
| `timer` | 3 devices, 2 calls each, 1 spurious wake-up | in lock step; implements `SlotClock` |
| `os` | 4 processes, 2 CPUs, a `time_slot` of 0 or 2 | every process runs to its end; `AllFinish` under fairness |
| `os_stop` | does every CPU stop? | violated |
| `frames` | 2 areas, 3 frames, tables of 2 pages, requests of 3 pages, a `calloc` that may fail, direct INC and MAP | frames stay exclusive and are lost only by MAP; the tables are flat tables |
| `data` | 2 processes, 2 variables each, sizes that fit an `int`, 2 writes, physical writes | regions disjoint, writes kept, all frames back at the end |
| `backed` | is an allocated region backed by frames, or its page brought to RAM by evicting another? | violated |
| `wide_grow` | does an area grow by as much as a region needs, when the pages do not fit an `int`? | violated |
| `kmem` | 2 processes, 2 indices each, a pool of 2 bytes, one cache pool, areas of one page of 2 bytes, 4-bit `int`, SYSCALL 17 | no byte given out twice, kernel addresses stay out of user lists, bytes arrive |
| `pte` | 4 pages, directories of 2, `calloc` failing at any level | implements `FlatTable`; directories counted and freed |

Why these bounds are enough to be interesting:

* Sched: with three levels and two CPUs, levels run dry in different orders, so
  the reset happens with some slots left; one process has a priority out of range; in
  `sched_overflow` both a level and the running list overflow.  In `sched` no two processes
  share a level, so the part of `BoundedWait` that counts peers rests on its theorem alone.
* Timer: three devices give every position relative to the one the timer is at, before,
  at and behind; two calls let a fast device post again while the timer still
  releases the others.
* Os: `p4` starts after the others can have ended, so CPUs become idle and are
  used again; slices end before, with and after programs.
* Paging: three frames and two requests of three pages make both requesters
  fail half-way at once; a table of two pages makes a growth cross its limit.  Sizes that are no multiple of the page size let regions share a
  page.  The processes of `data` are alike, so it uses symmetry.  With an `int` of four
  bits, 33 bytes on pages of two are 17 pages, of which one is left.
* Kmem: two bytes let two processes share the pool in every way, through `kmalloc` and
  slots of one cache; 7 is the largest `int`, so a second request overflows, and an
  `align` of 15 is negative; an allocation of 33 bytes grows the area by one page.  One cache
  pool is enough for slots to meet regions of `kmalloc`; that two pools stay apart is the part of
  `PoolDisjoint` that only its theorem covers.  Processes, and the indices of a symbol table,
  are interchangeable.  A copy of two bytes meets a hole at its first or
  second byte and goes beyond a region of one byte.  `MCSpec` stops at the first
  overflow or trespass, after which nothing is claimed.
* PageTable: the pages differ in the index of the last, of a middle and of the first
  level; numbers use the lowest and the highest bits of their fields, and bits in
  which the fields overlap.

Fairness.  Every thread of the code is a pthread of its own and blocks only on
mutexes that are held for a bounded time and on the timer; so weak fairness of
each thread's next step is assumed (`FairSpec` of each module).  Nothing is
assumed of spurious wake-ups, and in `Sched` nothing of `add_proc`; in `Paging`
a program need not issue any call, but a call it has started goes on.  For
`EveryReadyRuns` a CPU gives up what it holds: `cpu_routine` does at the end of a
slice, provided that `time_slot` is not 0.

## Findings

* **Idle CPUs never stop** (`os.c:64`).  A CPU with no process calls `next_slot` and
  `continue` before it looks at `done`, so main never gets past `pthread_join` when
  a CPU is idle at the time the loader ends and no process comes its way any more.
* **Scheduling order** (`sched.c:96`).  The scan starts at `current_mlq_prio`.
* **Failed growth counts as success** (`mm-vm.c:126`, run `backed`).
* **No page replacement** (`libmem.c:249`, run `backed`).  The README promises that a miss
  evicts a victim to swap.  The only code that marks a page as SWAPPED lies behind the test
  for that mark, so it never runs: what does not fit RAM has no page and each access to
  it fails.  A direct `SYSMEM_SWP_OP` copies to a device that nothing reads.
* **Growth narrowed to an `int`** (`mm-vm.c:108`, run `wide_grow`).  An allocation of 2^40 + 1
  bytes grows its area by one page and is recorded in full.  Freed, the region covers
  what later allocations get; with 2^57 + 1 bytes it also contains `KMEM_VBASE`.

Also seen, as the exceptions that the properties name.  `SYSMEM_MAP_OP` over a mapped
page loses its frame for good (`LostOnlyByMap`; `mm64.c:209`, while the README
says that `free_pcb` releases the frames).  A `kmalloc` whose size makes
`kmem_brk + size` exceed `int` succeeds and makes the break negative (`libmem.c:547`), and an
`align` above `INT_MAX` makes slots of negative size (`libmem.c:639`): `overflowed`.
A copy may write beyond its region into the neighbour's (`libmem.c:728`): `trespassed`.
`SYSMEM_IO_WRITE` overwrites a byte of any process.  A size above `INT_MAX` is narrowed when
the free list is searched (`libmem.c:946`): with a free region [512, 812),
`alloc 4294967295` returns [512, 511) and leaves [511, 812) free, which overlaps the region
before it (`SizesFit`).  The free list of a new area ends in the pointer that `malloc` left
in `vm_freerg_list` (`mm64.c:425`), which searches and `free_pcb` follow: `undefined`.  An
entry has 13 bits for a frame number (`mm64.c:165`) and the paging configurations of `input/`
have 2^20 frames: beyond 8192, pages share frames and other frames come back than
were taken (`NumFrames <= FPN_LIMIT`).

Also seen and not checked by a run: `__alloc` does not check that the region index is one
of the table (`libmem.c:89`), nor `MEMPHY_write` that the address is one of the device
(`mm-memphy.c:124`); only valid ones are modelled.  `os-mm.h:122` says that
`mm64_dir_alloc_count` counts "P4D/PUD/PMD/PT pages allocated"; `init_mm` counts the PGD too
(`mm64.c:409`), as `TreeCounted` does.

## Proofs

`SchedProofs`, `SchedWaitProofs`, `TimerProofs`, `PageTableProofs`, `RegionsProofs`,
`KmemProofs`, `PagingProofs` and `OsProofs` are checked by TLAPS, for every value of the
constants.

**Scheduler.**  From `SchedAssumption` (levels and capacity are positive, priorities are
naturals).  `Exclusive` is not inductive: that a process taken from a queue is
not on another CPU needs to be known of every queued process, and that a process
put back is in no queue needs to be known of every held one.  The invariant `IInv`
has three parts: `HeldInv` (what CPUs hold is held once, and is live or removed),
`QueueInv` (no queue repeats; a queued process is live, unheld and at its level)
and `ListInv` (the running list does not repeat and lists live processes only).
Lemmas say what `enqueue`, `Tail` and `purgequeue` do to the members of a
queue.  It gives `TypeOK`, `Exclusive` and `NoFreedReference` whether or not
queues overflow.  With `FitsQueues` (no more processes than a queue holds) a second
invariant, `Kept`, gives `NoneLost` and `FoundByPid`: a queue without
repetition that lacks a process has room for it (`RoomFor`).  Without `FitsQueues`,
`LostOnlyByOverflow` says in which step a process can get lost.

**Waiting.**  `BoundedWaitHolds` assumes only that there are finitely many processes; queues
may overflow.  What a process has waited says nothing of what is still ahead of it, so the
bound is not inductive.  `Cost(i, q, sl)` is what is ahead of position `i` of level `q` when
the levels have the slots `sl`: the processes before it, the slots that other levels have
left, and a whole round of them for each time that level `q` has to wait for fresh slots.
`CostInv` says that what a process has waited plus its cost stays within its bound.
A dispatch lowers the cost of every ready process by one (`DispatchCost`), whether it
comes from another level, which uses up a slot, or from its own, which moves it up.
`reset_mlq_slot` raises no cost (`ResetCost`), because it only happens when level `q`,
which is not empty, has no slots: the fresh round is one of those counted.  Nothing else
moves a process back.  A process that becomes ready starts within the bound: the
processes before it are different peers (`AheadArePeers`, by the pigeonhole principle; this
uses `QueueInv`, and `PrioInv`: a priority is clamped once), and no level has more slots than a
fresh round gives it (`SlotInv`).

**Threads.**  From `OsAssumption` (what `SchedAssumption` says of the scheduler; every
process is in the load order).  `OsProofs` builds on `SchedProofs`, which it instantiates:
every step of a thread is a call of the scheduler or leaves it alone, so the scheduler
variables are a behaviour of `Sched` (`OsImplementsSched`), and the invariants of the
scheduler hold in `Os` without being proved again; likewise for the clock (`OsUsesClock`).
`ThreadInv` adds what the loops make of it: what a CPU holds at each place of
`cpu_routine` and where it can be when a slot ends (`CpuInv`), how far each program is
(`ProcInv`), what the loader has done (`LoadInv`), and that a process that has run stays with
its CPU, which is done with the slot (`RanInv`).  The last one is what `OncePerSlot` needs;
`RunsToTheEnd` needs the first two and, with `FitsQueues`, that a live process finds itself.
`NoneStranded` needs one more, because a CPU reads `done` later than it has looked at the
queues: `WorkInv` says that from the slot on in which the loader sets `done`, a ready process
has a CPU that will look again.  When that slot begins every CPU is at the top of its
loop, which holds because the loader lets a slot pass after its last `add_proc`; afterwards
a CPU that puts a process back looks again itself, and one that finds nothing has seen
all queues empty.  The theorem assumes `FitsQueues` and at least one CPU.

**Timer.**  From `TimerAssumption` (at least one device).  `IInv` ties the flag to the
program counters: `done` is set only while its device waits; every device the
timer has passed in its first loop is done or finished; every device it has yet to
release is still so; and a device has called `next_slot` as often as `_time` says,
plus one while it waits.  It gives `NoRaceOnDone` and `LockStep` for any number of
devices, slots and spurious wake-ups, and the step-by-step refinement of the safety
part of `SlotClock` (`TimerImplementsClock`).

**Page table.**  From `PageTableAssumption` (the pages used fit five levels of `D` entries;
frames, devices and slots fit their bit fields).  `IInv` adds to `TypeOK` and
`NothingLeaks` that there are finitely many directories, that they are as many as
`mm64_dir_alloc_count` says, and that the tree is `Closed`: with a directory come all
those on the way to it.  The count alone is not inductive: a walk adds one for each
directory it lacks, which is right only because those at different depths or on
different paths are different (`DirEqual`, `PathInjective`: quotients and
remainders by `D` determine a page).  `Closed` is also what the refinement
needs: in a tree with holes a walk could uncover a table that a failed one
left, with entries nobody had set.  `MappedMeans` and `SwappedMeans` show that
the bit operations of a setter leave nothing of the word before that a reader
looks at.  The theorems are `TypeOK`, `TreeCounted`, `NothingLeaks` and
`ImplementsFlat`.

**Lists of free regions.**  `RegionsProofs` holds the facts about
`get_free_vmrg_area` and `enlist_vm_freerg_list` that `Kmem` and `Paging` share.  What
a search cuts off lies within a free region, so it is apart from everything the list was
apart from; what stays is within the old list, ordered and disjoint; and a region that is
apart from a list can be put at its front.

**Kernel memory.**  From `KmemAssumption` (kernel addresses lie above those whose page number
fits an `int`; the pool fits an `int` twice).  Sizes are arbitrary, and no bound on the areas is
assumed: an area that leaves the range of page numbers has set `overflowed`.  The
second part came out of the proof: the test
`next_slot + align <= size` of a cache adds an `int` up to the size of the pool to an
`align` up to the size of the pool, so with a pool larger than half of `INT_MAX` the sum
could wrap without `overflowed` saying so.  The pool of the code has 2^16 bytes and
`INT_MAX` is 2^31 - 1.  The properties speak of regions and of the slots
given out; the invariant has to speak of what has not been given out yet.  As long as
nothing has overflowed, `CarvedInv` says that kernel regions and pools have been carved
below `kmem_brk`, `ApartInv` that kernel regions and the rest of each pool do not overlap,
and `UserInv` the same of user regions and free regions, with the bounds that keep a
kernel address out of the free list when `__free` meets a region of either kind.  As long
as no copy has left its region either, `KnownInv` says that what a program has
put at an offset lies within the region and is still there; it needs the first three, so that
a copy into one region leaves the others alone.  It survives `SYSMEM_MAP_OP` and
`SYSMEM_IO_WRITE` because the bytes that they touch are no longer known.  The theorems are `TypeOK`,
`PoolDisjoint`, `KernelBoundary` and `KnownBytes`.

**Areas and page lists.**  From `PagingAssumption` and `WidthAssumption` (sizes and bounds are
naturals, a page has at least one byte).  The types, the page lists and everything about
frames hold for all sizes; that regions are disjoint is proved under `SizesFit`
(`PagingRegionsDisjoint`), and fails without it.  Under `SizesFit` a size keeps its value as an
`int` (`Int32Small`) and the pages that are added hold it (`PagesEnough`).  `RegionsDisjoint` is not inductive because growth is not atomic:
`sbrk` moves at once and the region is entered when the frames are mapped.  `AreaInv`
therefore bounds the regions by the limit from before the call (`Limit`), and keeps the
room between it and `sbrk` for the one region to come (`GrowInv`).  For `FifoIsPresent`,
`ListInv` adds that the page to be mapped next lies above all in the list (`FifoInv`) and
that what is still to be mapped fits below `sbrk` (`RoomInv`): only then is a page
that `vmap_page_range` puts in the list new there.  The theorems hold for every
interleaving of growth with and without `mmvm_lock`, for RAM that runs out, for pages beyond
the table and for `calloc` that fails.

**Frames and bytes.**  The second half of `PagingProofs` goes on from `ListInv`.  Its theorems about frames assume
`NumFrames <= FPN_LIMIT`: a frame number is cut to the bits of its field, and two
frames that differ only above them would be one in the page table.  In the code the
limit is 2^13 frames of 256 bytes.  `FrameInv` says of the free list, the frames that each
growing area has taken, and the pages, that no frame is in two of them nor twice in one;
`PlacesCount` turns that into the count that `FrameExclusive` is stated with, where the
pigeonhole principle shows that no call has more frames in flight than there are.
`LostOnlyByMap` follows step by step: each action but `SysMap` moves a frame from one holder to
another.  `ReadBack` proves `ReadYourWrites` where no program uses `SYSMEM_MAP_OP`, which
takes pages out of the table under the regions that lie on them, where sizes fit an `int`, and
where no area grows beyond the page numbers of an `int` (`MaxBrk <= PageLimit`): then
different addresses are on different pages for `pg_getpage` too (`PageNumber`).  It needs all of the above
and `LockInv` (a call that enters a region at its end holds `mmvm_lock` until then, so no
`free` or `alloc` of the same process comes between): a byte stays because its page keeps
its frame, the frame is mapped nowhere else, and another variable of the process has
other addresses.  `FramesReturned`, also without `SYSMEM_MAP_OP`, looks at the end:
every frame always has a holder, and a process that has ended maps none (`ReturnInv`), so
when all have ended the holder of each is the free list.

**From the tree to the flat table.**  `Paging` has one entry per page where the code has
five levels of directories.  `PagingTablesAreFlat` shows that the table of each process is a
behaviour of `FlatTable` (an instance per process, with `Meaning` as the mapping), and
`PageTableProofs` that the tree implements `FlatTable`: both sides of the abstraction
meet in one specification.  It holds for every width of the frame field, because a number
that is cut to it still names a frame of MEMRAM.

The invariants that these proofs add (the parts of `IInv` of `KmemProofs`, `AreaInv`, `FifoInv`,
`FrameInv`, `DataInv`, `ThreadInv`, `WorkInv`, `CostInv`) have also been model-checked on the instances of the runs.

Only model-checked: all liveness (`EveryReadyRuns`, `NextSlotReturns`, the fairness part
of `ImplementsClock`, `AllFinish`, `LockReleased`), which is out of the prover's reach.  Every
invariant and every action property of a passing run is also a theorem.

## Not modelled

* Parsing of configuration and program files, output, dumps, statistics.
* `mm.c` (32-bit paging): compiled out.  `mem.c`: linked, a stub that nothing calls.
  `paging.c`: not built.
* Sequential memory devices: all devices are created with random access.
* `malloc` failure: the code does not handle it outside the page directories.

## Open questions

The order in which calls take `mmvm_lock`, `mem_lock`, `queue_lock` and `kmem_lock` is not
checked by a run.  It has no cycle: only `mmvm_lock` is ever held while another is taken,
and the others are leaves.
