-------------------------------- MODULE Kmem --------------------------------
(***************************************************************************)
(* Kernel memory of src/src/libmem.c: the byte pool with its bump pointer, *)
(* the cache pools, and the copies between user and kernel regions, next   *)
(* to the user regions that share the symbol table with them.              *)
(*                                                                         *)
(* User memory is what Paging shows it to be: every process has bytes of   *)
(* its own at the addresses that are mapped.  A call is one step: the pool *)
(* is only touched under kmem_lock, bytes of both kinds only under         *)
(* mmvm_lock, and a symbol table only by the one CPU its process is on.    *)
(*                                                                         *)
(* int and uint32_t have the width that INT_MAX gives them.  Nothing is    *)
(* claimed once one of them has lost part of a value (overflowed), nor of  *)
(* areas whose free list ends in the uninitialised pointer that Paging     *)
(* describes.                                                              *)
(***************************************************************************)
EXTENDS Regions

CONSTANTS
    Procs,
    Rgids,        \* indices of symrgtbl
    PoolIds,      \* indices of kmem_pools
    POOL_SIZE,    \* KMEM_POOL_SIZE (2^16)
    VBASE,        \* KMEM_VBASE (2^56)
    Zero,         \* the byte 0; the other bytes are named for who writes them
    Sizes,        \* arguments of alloc and of SYSMEM_INC_OP
    KSizes,       \* size arguments of kmalloc and kmem_cache_create
    Aligns,       \* align arguments of kmem_cache_create
    Copies,       \* pairs of offset and size arguments of the copies
    MaxBrk        \* bound: no user area grows beyond this address

ASSUME KmemAssumption ==
    /\ Zero \notin Procs
    /\ POOL_SIZE \in Nat /\ VBASE \in Nat /\ MaxBrk \in Nat
    /\ 2 * POOL_SIZE <= INT_MAX /\ PageLimit <= VBASE
    /\ Sizes \subseteq Nat
    /\ KSizes \cup Aligns \subseteq 0 .. 2 * INT_MAX + 1
    /\ Copies \subseteq Nat \X Nat

Byte == Procs \cup {Zero}
UserAddrs == 0 .. MaxBrk - 1
PoolOffsets == 0 .. POOL_SIZE - 1

VARIABLES
    symrgtbl,      \* per process and index: [rg, mode]
    sbrk,          \* the limit of the user area
    vm_freerg,     \* its free regions
    mapped,        \* the user addresses on pages that have a frame
    user,          \* the bytes of user memory
    kmem_brk,      \* the bump pointer
    kmem_pools,    \* the cache pools
    kmem_storage,  \* the bytes of the pool
    live,          \* the processes that have not ended
    known,         \* ghost: what a program has put at an offset of a region
    overflowed,    \* ghost: a size, a page number or a sum did not fit an int
    trespassed     \* ghost: a copy has gone beyond the end of a region

uvars == <<sbrk, vm_freerg, mapped>>
kvars == <<kmem_brk, kmem_pools>>
bytes == <<user, kmem_storage>>
vars == <<symrgtbl, uvars, kvars, bytes, live, known, overflowed, trespassed>>

\* The zero state of a descriptor: VMRG_KERNEL_MODE is 0.
Unused == [rg |-> <<0, 0>>, mode |-> "kernel"]
NoPool == [used |-> FALSE, size |-> 0, align |-> 0, storage |-> 0, next_slot |-> 0]
Unknown == "unknown"
Offsets == UserAddrs \cup PoolOffsets
Nothing == [o \in Offsets |-> Unknown]

Init ==
    /\ symrgtbl = [p \in Procs |-> [r \in Rgids |-> Unused]]
    /\ sbrk = [p \in Procs |-> 0]
    /\ vm_freerg = [p \in Procs |-> <<<<0, 0>>>>]
    /\ mapped = [p \in Procs |-> {}]
    /\ user = [p \in Procs |-> [a \in UserAddrs |-> Zero]]
    /\ kmem_brk = 0
    /\ kmem_pools = [k \in PoolIds |-> NoPool]
    /\ kmem_storage = [a \in PoolOffsets |-> Zero]
    /\ live = Procs
    /\ known = [p \in Procs |-> [r \in Rgids |-> Nothing]]
    /\ overflowed = FALSE
    /\ trespassed = FALSE

\* An index of the symbol table gets a new descriptor; its bytes are nobody's yet.
Record(p, r, start, end, mode) ==
    /\ symrgtbl' = [symrgtbl EXCEPT ![p][r] = [rg |-> <<start, end>>, mode |-> mode]]
    /\ known' = [known EXCEPT ![p][r] = Nothing]

----------------------------------------------------------------------------
(* The pool                                                                 *)

kmem_addr_is_kernel(addr) == addr >= VBASE /\ addr < VBASE + POOL_SIZE

\* __kmem_carve: whether it succeeds for an int size, and the bump pointer then.
kmem_carve_ok_late(size) == size > 0 /\ kmem_brk <= POOL_SIZE
kmem_carve_ok(size) == size > 0 /\ Int32(kmem_brk + size) <= POOL_SIZE
kmem_carve(size) ==
    /\ kmem_carve_ok(size)
    /\ kmem_brk' = Int32(kmem_brk + size)
    /\ overflowed' = (overflowed \/ kmem_brk + size > INT_MAX)

libkmem_malloc(p, size, r) ==
    /\ p \in live
    /\ kmem_carve(Int32(size))
    /\ Record(p, r, VBASE + kmem_brk, VBASE + kmem_brk + size, "kernel")
    /\ UNCHANGED <<uvars, kmem_pools, bytes, live, trespassed>>

\* libkmem_cache_pool_create keeps size and align as int; align is not
\* looked at again when it has become negative.
libkmem_cache_pool_create(p, size, align, k) ==
    /\ p \in live
    /\ align # 0
    /\ ~kmem_pools[k].used
    /\ kmem_carve_ok(Int32(size))
    /\ kmem_brk' = Int32(kmem_brk + Int32(size))
    /\ overflowed' = (overflowed \/ kmem_brk + Int32(size) > INT_MAX \/ align > INT_MAX)
    /\ kmem_pools' = [kmem_pools EXCEPT ![k] =
          [used |-> TRUE, size |-> Int32(size), align |-> Int32(align),
           storage |-> VBASE + kmem_brk, next_slot |-> 0]]
    /\ UNCHANGED <<symrgtbl, uvars, bytes, live, known, trespassed>>

\* libkmem_cache_alloc: the next slot of a pool, which any process may use.  The sum
\* of the two ints fits: the first slot is only given out when align is at most size.
libkmem_cache_alloc_tight(p, r, k) ==
    LET pool == kmem_pools[k] IN
    /\ p \in live
    /\ pool.used /\ Int32(pool.next_slot + pool.align) <= pool.size + 1
    /\ kmem_pools' = [kmem_pools EXCEPT ![k].next_slot = Int32(@ + pool.align)]
    /\ Record(p, r, pool.storage + pool.next_slot,
              pool.storage + pool.next_slot + pool.align, "kernel")
    /\ UNCHANGED <<uvars, kmem_brk, bytes, live, overflowed, trespassed>>
libkmem_cache_alloc(p, r, k) ==
    LET pool == kmem_pools[k] IN
    /\ p \in live
    /\ pool.used /\ Int32(pool.next_slot + pool.align) <= pool.size
    /\ kmem_pools' = [kmem_pools EXCEPT ![k].next_slot = Int32(@ + pool.align)]
    /\ Record(p, r, pool.storage + pool.next_slot,
              pool.storage + pool.next_slot + pool.align, "kernel")
    /\ UNCHANGED <<uvars, kmem_brk, bytes, live, overflowed, trespassed>>

----------------------------------------------------------------------------
(* User regions in the same symbol table                                    *)

\* __alloc from the free list, by what an int keeps of the size, ...
AllocReuse(p, r, size) ==
    LET n == Int32(size) IN
    /\ p \in live
    /\ \E k \in 1 .. Len(vm_freerg[p]) :
         /\ FirstFit(vm_freerg[p], k, n)
         /\ vm_freerg' = [vm_freerg EXCEPT ![p] = Carve(@, k, n)]
         /\ Record(p, r, vm_freerg[p][k][1], vm_freerg[p][k][1] + n, "user")
    /\ overflowed' = (overflowed \/ size > INT_MAX)
    /\ UNCHANGED <<sbrk, mapped, kvars, bytes, live, trespassed>>

\* ... or at the end of the area.  inc_vma_limit adds whole pages, as many as an int
\* counts; those for which there is no frame or no directory stay without.
\* Nothing is claimed of what a new frame holds.
Grow(p, size) ==
    LET end == sbrk[p] + PagesFor(size) * PAGESZ IN
    /\ p \in live
    /\ PagesFor(size) > 0 /\ end <= MaxBrk
    /\ sbrk' = [sbrk EXCEPT ![p] = end]
    /\ \E backed \in SUBSET {a \div PAGESZ : a \in sbrk[p] .. end - 1} :
         mapped' = [mapped EXCEPT ![p] = @ \cup {a \in UserAddrs : a \div PAGESZ \in backed}]
    /\ overflowed' = (overflowed \/ size > INT_MAX \/ end > PageLimit)
    /\ UNCHANGED <<vm_freerg, kvars, bytes, live, trespassed>>
AllocGrow(p, r, size) ==
    /\ NoFit(vm_freerg[p], Int32(size))
    /\ Grow(p, size)
    /\ Record(p, r, sbrk[p], sbrk[p] + size, "user")

\* __free: a kernel region is forgotten, a user region becomes free.
Free_any(p, r) ==
    /\ p \in live
    /\ symrgtbl[p][r].rg # <<0, 0>>
    /\ vm_freerg' = [vm_freerg EXCEPT ![p] = enlist_vm_freerg_list(@, symrgtbl[p][r].rg)]
    /\ Record(p, r, 0, 0, "kernel")
    /\ UNCHANGED <<sbrk, mapped, kvars, bytes, live, overflowed, trespassed>>
Free(p, r) ==
    /\ p \in live
    /\ symrgtbl[p][r].rg # <<0, 0>>
    /\ vm_freerg' = IF kmem_addr_is_kernel(symrgtbl[p][r].rg[1]) THEN vm_freerg
                    ELSE [vm_freerg EXCEPT ![p] = enlist_vm_freerg_list(@, symrgtbl[p][r].rg)]
    /\ Record(p, r, 0, 0, "kernel")
    /\ UNCHANGED <<sbrk, mapped, kvars, bytes, live, overflowed, trespassed>>

\* __write with __resolve_rg_addr: within the region, and only a user region.
Write(p, r, o) ==
    LET d == symrgtbl[p][r] IN
    /\ p \in live
    /\ Inside(d.rg, o)
    /\ d.mode = "user"
    /\ d.rg[1] + o \in mapped[p]
    /\ user' = [user EXCEPT ![p][d.rg[1] + o] = p]
    /\ known' = [known EXCEPT ![p][r][o] = p]
    /\ UNCHANGED <<symrgtbl, uvars, kvars, kmem_storage, live, overflowed, trespassed>>

----------------------------------------------------------------------------
(* What SYSCALL 17 does to user memory                                      *)

\* The bytes of a process at some addresses are no longer what it has put there.
Forget(q, addrs) ==
    known' = [known EXCEPT ![q] = [r \in Rgids |-> [o \in Offsets |->
                IF symrgtbl[q][r].rg[1] + o \in addrs THEN Unknown ELSE @[r][o]]]]

\* SYSMEM_INC_OP: the area grows, for no region.
SysInc(p, size) == Grow(p, size) /\ UNCHANGED <<symrgtbl, known>>

\* SYSMEM_MAP_OP: vmap_pgd_memset takes a page of the caller out of RAM.
SysMap(p, n) ==
    LET page == {a \in UserAddrs : a \div PAGESZ = n} IN
    /\ p \in live
    /\ mapped' = [mapped EXCEPT ![p] = @ \ page]
    /\ Forget(p, page)
    /\ UNCHANGED <<symrgtbl, sbrk, vm_freerg, kvars, bytes, live, overflowed, trespassed>>

\* SYSMEM_IO_WRITE: a byte of RAM, which is a byte of whichever process has the frame.
SysIoWrite(p, q, a) ==
    /\ p \in live /\ a \in mapped[q]
    /\ user' = [user EXCEPT ![q][a] = p]
    /\ Forget(q, {a})
    /\ UNCHANGED <<symrgtbl, uvars, kvars, kmem_storage, live, overflowed, trespassed>>

----------------------------------------------------------------------------
(* Copies                                                                   *)

\* What both copies ask of the two descriptors.
MayCopy(p, user_rg, kernel_rg) ==
    /\ p \in live
    /\ \A r \in {user_rg, kernel_rg} : symrgtbl[p][r].rg[1] # symrgtbl[p][r].rg[2]
    /\ kmem_addr_is_kernel(symrgtbl[p][kernel_rg].rg[1])
    /\ symrgtbl[p][user_rg].mode = "user" /\ symrgtbl[p][kernel_rg].mode = "kernel"

\* The loops go on to the end, or to the first byte with no page or outside of
\* the pool; the bytes moved until then stay.
Moved(p, ua, ka, size, n) ==
    /\ n \in 0 .. size
    /\ \A i \in 0 .. n - 1 : ua + i \in mapped[p] /\ kmem_addr_is_kernel(ka + i)
    /\ n = size \/ ~(ua + n \in mapped[p] /\ kmem_addr_is_kernel(ka + n))

\* A copy of n bytes from or to an offset has left its region.
Beyond(p, r, offset, n) == n > 0 /\ symrgtbl[p][r].rg[1] + offset + n > symrgtbl[p][r].rg[2]
Trespass(p, s, d, offset, n) ==
    trespassed' = (trespassed \/ Beyond(p, s, offset, n) \/ Beyond(p, d, offset, n))

\* What the program knows of region r after n bytes have been moved there.
Learn(p, r, offset, n, byte(_)) ==
    known' = [known EXCEPT ![p][r] =
                [o \in Offsets |-> IF o \in offset .. offset + n - 1 THEN byte(o - offset)
                                   ELSE @[o]]]

libkmem_copy_from_user_zero(p, s, d, offset, size) ==
    LET ua == symrgtbl[p][s].rg[1] + offset
        ka == symrgtbl[p][d].rg[1] + offset IN
    /\ MayCopy(p, s, d)
    /\ \E n \in 0 .. size :
         /\ Moved(p, ua, ka, size, n)
         /\ kmem_storage' = [a \in PoolOffsets |->
                IF a + VBASE \in ka .. ka + n - 1
                THEN user[p][symrgtbl[p][s].rg[1] + a + VBASE - ka] ELSE kmem_storage[a]]
         /\ Learn(p, d, offset, n, LAMBDA i : user[p][ua + i])
         /\ Trespass(p, s, d, offset, n)
    /\ UNCHANGED <<symrgtbl, uvars, kvars, user, live, overflowed>>
libkmem_copy_from_user(p, s, d, offset, size) ==
    LET ua == symrgtbl[p][s].rg[1] + offset
        ka == symrgtbl[p][d].rg[1] + offset IN
    /\ MayCopy(p, s, d)
    /\ \E n \in 0 .. size :
         /\ Moved(p, ua, ka, size, n)
         /\ kmem_storage' = [a \in PoolOffsets |->
                IF a + VBASE \in ka .. ka + n - 1
                THEN user[p][ua + a + VBASE - ka] ELSE kmem_storage[a]]
         /\ Learn(p, d, offset, n, LAMBDA i : user[p][ua + i])
         /\ Trespass(p, s, d, offset, n)
    /\ UNCHANGED <<symrgtbl, uvars, kvars, user, live, overflowed>>

libkmem_copy_to_user(p, s, d, offset, size) ==
    LET ka == symrgtbl[p][s].rg[1] + offset
        ua == symrgtbl[p][d].rg[1] + offset IN
    /\ MayCopy(p, d, s)
    /\ \E n \in 0 .. size :
         /\ Moved(p, ua, ka, size, n)
         /\ user' = [user EXCEPT ![p] = [a \in UserAddrs |->
                IF a \in ua .. ua + n - 1 THEN kmem_storage[ka + a - ua - VBASE] ELSE @[a]]]
         /\ Learn(p, d, offset, n, LAMBDA i : kmem_storage[ka + i - VBASE])
         /\ Trespass(p, s, d, offset, n)
    /\ UNCHANGED <<symrgtbl, uvars, kvars, kmem_storage, live, overflowed>>

----------------------------------------------------------------------------

\* free_pcb: user memory goes with the process, kernel memory stays carved.
Exit(p) ==
    /\ p \in live
    /\ live' = live \ {p}
    /\ symrgtbl' = [symrgtbl EXCEPT ![p] = [r \in Rgids |-> Unused]]
    /\ sbrk' = [sbrk EXCEPT ![p] = 0]
    /\ vm_freerg' = [vm_freerg EXCEPT ![p] = <<>>]
    /\ mapped' = [mapped EXCEPT ![p] = {}]
    /\ known' = [known EXCEPT ![p] = [r \in Rgids |-> Nothing]]
    /\ UNCHANGED <<kvars, bytes, overflowed, trespassed>>

\* The instructions of cpu.c that concern memory regions.
Instruction(p) ==
    \/ Exit(p)
    \/ \E r \in Rgids :
         \/ Free(p, r)
         \/ \E size \in Sizes : AllocReuse(p, r, size) \/ AllocGrow(p, r, size)
         \/ \E size \in KSizes : libkmem_malloc(p, size, r)
         \/ \E k \in PoolIds : libkmem_cache_alloc(p, r, k)
         \/ \E o \in UserAddrs : Write(p, r, o)
         \/ \E d \in Rgids, c \in Copies :
              \/ libkmem_copy_from_user(p, r, d, c[1], c[2])
              \/ libkmem_copy_to_user(p, r, d, c[1], c[2])
    \/ \E size \in Sizes : SysInc(p, size)
    \/ \E n \in {a \div PAGESZ : a \in UserAddrs} : SysMap(p, n)
    \/ \E q \in Procs, a \in UserAddrs : SysIoWrite(p, q, a)
    \/ \E k \in PoolIds, size \in KSizes, align \in Aligns :
         libkmem_cache_pool_create(p, size, align, k)

Next == \E p \in Procs : Instruction(p)

Spec == Init /\ [][Next]_vars

----------------------------------------------------------------------------
(* Properties                                                               *)

\* The bump pointer and the slot counters stay within the pool as long as no
\* argument overflows an int (__kmem_carve, libkmem_cache_alloc).
TypeOK ==
    /\ symrgtbl \in [Procs -> [Rgids -> [rg : Int \X Int, mode : {"user", "kernel"}]]]
    /\ sbrk \in [Procs -> 0 .. MaxBrk]
    /\ \A p \in Procs : vm_freerg[p] \in Seq(Int \X Int)
    /\ mapped \in [Procs -> SUBSET UserAddrs]
    /\ user \in [Procs -> [UserAddrs -> Byte]]
    /\ kmem_storage \in [PoolOffsets -> Byte]
    /\ kmem_pools \in [PoolIds -> [used : BOOLEAN, size : Int, align : Int,
                                   storage : Int, next_slot : Int]]
    /\ live \subseteq Procs
    /\ overflowed \in BOOLEAN /\ trespassed \in BOOLEAN
    /\ ~overflowed => /\ kmem_brk \in 0 .. POOL_SIZE
                      /\ \A k \in PoolIds : kmem_pools[k].next_slot \in 0 .. kmem_pools[k].size

\* The kernel regions that programs hold, and the part of a pool not given out yet.
KernelRegions ==
    {x \in Procs \X Rgids : LET d == symrgtbl[x[1]][x[2]] IN d.mode = "kernel" /\ d # Unused}
Rest(k) == <<kmem_pools[k].storage + kmem_pools[k].next_slot,
             kmem_pools[k].storage + kmem_pools[k].size>>
Carved(rg) == VBASE <= rg[1] /\ rg[2] <= VBASE + kmem_brk

\* No byte of kernel memory is given out twice, to whichever process and through
\* kmalloc or a cache pool, or lies outside of what has been carved, unless a
\* size or a sum did not fit an int (__kmem_carve, libkmem_cache_alloc).
PoolDisjoint ==
    ~overflowed =>
        /\ \A x \in KernelRegions : Carved(symrgtbl[x[1]][x[2]].rg)
        /\ \A k \in PoolIds : kmem_pools[k].used => Carved(Rest(k))
        /\ \A x, y \in KernelRegions :
              x # y => ~Overlap(symrgtbl[x[1]][x[2]].rg, symrgtbl[y[1]][y[2]].rg)
        /\ \A x \in KernelRegions, k \in PoolIds :
              kmem_pools[k].used => ~Overlap(symrgtbl[x[1]][x[2]].rg, Rest(k))
        /\ \A j, k \in PoolIds : j # k /\ kmem_pools[j].used /\ kmem_pools[k].used =>
              ~Overlap(Rest(j), Rest(k))

\* The mode of a descriptor tells where its region lies, and no kernel address ever
\* gets into the free list of user memory, where a later alloc would find it,
\* unless a size or a page number did not fit an int (__free,
\* kmem_addr_is_kernel, __resolve_rg_addr).
KernelBoundary ==
    ~overflowed => \A p \in Procs :
        /\ sbrk[p] <= VBASE
        /\ \A r \in Rgids : LET d == symrgtbl[p][r] IN
              \/ d = Unused
              \/ d.mode = "user" /\ 0 <= d.rg[1] /\ d.rg[2] <= sbrk[p]
              \/ d.mode = "kernel" /\ kmem_addr_is_kernel(d.rg[1])
        /\ \A k \in 1 .. Len(vm_freerg[p]) : 0 <= vm_freerg[p][k][1] /\ vm_freerg[p][k][2] <= sbrk[p]

\* The byte that a program finds at an address of its own.
ByteAt(p, a) ==
    IF kmem_addr_is_kernel(a) THEN kmem_storage[a - VBASE]
    ELSE IF a \in mapped[p] THEN user[p][a] ELSE Unknown

\* A program finds in its regions what it has put there, by write or by a copy that may
\* have failed half-way, whatever other programs allocate, free, write and copy;
\* so bytes that are copied to the kernel and back arrive as they were.  Unless
\* some copy went beyond the end of a region, some program has written to the
\* byte of RAM (SYSMEM_IO_WRITE) or its own has marked the page (SYSMEM_MAP_OP)
\* (libkmem_copy_from_user, libkmem_copy_to_user, libwrite).
KnownBytes ==
    ~overflowed /\ ~trespassed =>
        \A p \in live, r \in Rgids : \A o \in Offsets :
            known[p][r][o] # Unknown => ByteAt(p, symrgtbl[p][r].rg[1] + o) = known[p][r][o]
=============================================================================
