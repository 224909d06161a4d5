----------------------------- MODULE KmemProofs -----------------------------
(***************************************************************************)
(* Proofs about Kmem, for every number of processes, regions and pools,    *)
(* every width of an int and every size of the pool that fits one twice.   *)
(***************************************************************************)
EXTENDS Kmem, RegionsProofs

Start(p, r) == symrgtbl[p][r].rg[1]
End(p, r) == symrgtbl[p][r].rg[2]
IsUser(p, r) == symrgtbl[p][r].mode = "user"
IsKernel(p, r) == symrgtbl[p][r].mode = "kernel" /\ symrgtbl[p][r] # Unused

\* The types that TypeOK leaves open.
Types ==
    /\ TypeOK
    /\ kmem_brk \in Int
    /\ vm_freerg \in [Procs -> Seq(Rg)]
    /\ known \in [Procs -> [Rgids -> [Offsets -> Byte \cup {Unknown}]]]

\* A pool in use has been carved, and its first slot was only given out if one fits.
PoolOK(k) ==
    LET pool == kmem_pools[k] IN
    /\ pool.align \in 1 .. INT_MAX /\ pool.size \in 1 .. POOL_SIZE
    /\ pool.next_slot = 0 \/ pool.align <= pool.next_slot
    /\ VBASE <= pool.storage /\ pool.storage + pool.size <= VBASE + kmem_brk

\* The kernel regions have been carved and are not empty.
CarvedInv ==
    /\ \A p \in Procs, r \in Rgids : IsKernel(p, r) =>
         VBASE <= Start(p, r) /\ Start(p, r) < End(p, r) /\ End(p, r) <= VBASE + kmem_brk
    /\ \A k \in PoolIds : kmem_pools[k].used => PoolOK(k)

\* Kernel regions and the rest of each pool do not overlap.
ApartInv ==
    /\ \A p, q \in Procs, r, t \in Rgids :
         IsKernel(p, r) /\ IsKernel(q, t) /\ (p # q \/ r # t) =>
            ~Overlap(symrgtbl[p][r].rg, symrgtbl[q][t].rg)
    /\ \A p \in Procs, r \in Rgids, k \in PoolIds :
         IsKernel(p, r) /\ kmem_pools[k].used => ~Overlap(symrgtbl[p][r].rg, Rest(k))
    /\ \A j, k \in PoolIds : j # k /\ kmem_pools[j].used /\ kmem_pools[k].used =>
         ~Overlap(Rest(j), Rest(k))

\* User regions and free regions lie in the area and do not overlap, and the area ends
\* where page numbers still fit an int.
UserInv ==
    \A p \in Procs :
        /\ Within(vm_freerg[p], 0, sbrk[p]) /\ Disjoint(vm_freerg[p])
        /\ sbrk[p] <= PageLimit
        /\ \A r \in Rgids : IsUser(p, r) =>
             /\ 0 <= Start(p, r) /\ Start(p, r) <= End(p, r) /\ End(p, r) <= sbrk[p]
             /\ Apart(symrgtbl[p][r].rg, vm_freerg[p])
        /\ \A r, t \in Rgids : IsUser(p, r) /\ IsUser(p, t) /\ r # t =>
             ~Overlap(symrgtbl[p][r].rg, symrgtbl[p][t].rg)

\* What a program knows it has put within the region, and finds there.
KnownInv ==
    \A p \in Procs, r \in Rgids : \A o \in Offsets : known[p][r][o] # Unknown =>
        /\ o < End(p, r) - Start(p, r)
        /\ ByteAt(p, Start(p, r) + o) = known[p][r][o]

\* The inductive invariant.
IInv ==
    /\ Types
    /\ ~overflowed => CarvedInv /\ ApartInv /\ UserInv
    /\ ~overflowed /\ ~trespassed => KnownInv

----------------------------------------------------------------------------
(* Records                                                                  *)

\* The limit on addresses lies below kernel memory.
LEMMA LimitNat == PageLimit \in Nat /\ PageLimit <= VBASE
<1>1. INT_MAX \in Nat /\ PAGESZ \in Nat
  BY WidthAssumption
<1>2. (INT_MAX + 1) * PAGESZ \in Nat
  BY <1>1
<1> QED
  BY <1>2, KmemAssumption DEF PageLimit

\* Recording a region keeps the types of the symbol table (Record) ...
LEMMA RecordTypes ==
    ASSUME Types, NEW p \in Procs, NEW r \in Rgids, NEW start \in Int, NEW end \in Int,
           NEW mode \in {"user", "kernel"}, Record(p, r, start, end, mode)
    PROVE  /\ symrgtbl' \in [Procs -> [Rgids -> [rg : Int \X Int, mode : {"user", "kernel"}]]]
           /\ known' \in [Procs -> [Rgids -> [Offsets -> Byte \cup {Unknown}]]]
<1> DEFINE d == [rg |-> <<start, end>>, mode |-> mode]
           Desc == [rg : Int \X Int, mode : {"user", "kernel"}]
<1>1. d \in Desc /\ Nothing \in [Offsets -> Byte \cup {Unknown}]
  BY DEF Nothing
<1>2. symrgtbl \in [Procs -> [Rgids -> Desc]]
  BY DEF Types, TypeOK
<1>3. /\ symrgtbl' = [symrgtbl EXCEPT ![p][r] = d]
      /\ known' = [known EXCEPT ![p][r] = Nothing]
  BY DEF Record
<1> HIDE DEF d, Desc
<1>4. symrgtbl' \in [Procs -> [Rgids -> Desc]]
  BY <1>1, <1>2, <1>3
<1>5. known' \in [Procs -> [Rgids -> [Offsets -> Byte \cup {Unknown}]]]
  BY <1>1, <1>3 DEF Types
<1> QED
  BY <1>4, <1>5 DEF Desc

\* ... changes one descriptor and forgets what was known of it, ...
LEMMA RecordOthers ==
    ASSUME Types, NEW p \in Procs, NEW r \in Rgids, NEW start \in Int, NEW end \in Int,
           NEW mode \in {"user", "kernel"}, Record(p, r, start, end, mode)
    PROVE  /\ \A q \in Procs, t \in Rgids : (p # q \/ r # t) =>
                symrgtbl'[q][t] = symrgtbl[q][t] /\ known'[q][t] = known[q][t]
           /\ \A o \in Offsets : known'[p][r][o] = Unknown
<1>1. \E d : symrgtbl' = [symrgtbl EXCEPT ![p][r] = d]
  BY DEF Record
<1>2. known' = [known EXCEPT ![p][r] = Nothing]
  BY DEF Record
<1>3. /\ symrgtbl \in [Procs -> [Rgids -> [rg : Int \X Int, mode : {"user", "kernel"}]]]
      /\ known \in [Procs -> [Rgids -> [Offsets -> Byte \cup {Unknown}]]]
  BY DEF Types, TypeOK
<1>4. \A q \in Procs, t \in Rgids : (p # q \/ r # t) => symrgtbl'[q][t] = symrgtbl[q][t]
  BY <1>1, <1>3
<1>5. \A q \in Procs, t \in Rgids : (p # q \/ r # t) => known'[q][t] = known[q][t]
  BY <1>2, <1>3
<1>6. \A o \in Offsets : known'[p][r][o] = Unknown
  BY <1>2, <1>3 DEF Nothing
<1> QED
  BY <1>4, <1>5, <1>6

\* ... and gives that one its new bounds and mode.
LEMMA RecordNew ==
    ASSUME Types, NEW p \in Procs, NEW r \in Rgids, NEW start \in Int, NEW end \in Int,
           NEW mode \in {"user", "kernel"}, Record(p, r, start, end, mode)
    PROVE  /\ symrgtbl'[p][r].rg = <<start, end>> /\ symrgtbl'[p][r].mode = mode
           /\ Start(p, r)' = start /\ End(p, r)' = end
<1> DEFINE d == [rg |-> <<start, end>>, mode |-> mode]
<1>1. symrgtbl' = [symrgtbl EXCEPT ![p][r] = d]
  BY DEF Record
<1>2. symrgtbl \in [Procs -> [Rgids -> [rg : Int \X Int, mode : {"user", "kernel"}]]]
  BY DEF Types, TypeOK
<1>3. symrgtbl'[p][r] = d
  BY <1>1, <1>2
<1>4. symrgtbl'[p][r].rg = <<start, end>> /\ symrgtbl'[p][r].mode = mode
  BY <1>3
<1> QED
  BY <1>3, <1>4 DEF Start, End

\* When the bytes stay and no page goes, so does what is known of the other regions.
LEMMA RecordKnown ==
    ASSUME Types, NEW p \in Procs, NEW r \in Rgids, NEW start \in Int, NEW end \in Int,
           NEW mode \in {"user", "kernel"}, Record(p, r, start, end, mode),
           UNCHANGED bytes, \A q \in Procs : mapped[q] \subseteq mapped'[q], KnownInv
    PROVE  KnownInv'
<1> SUFFICES ASSUME NEW q \in Procs, NEW t \in Rgids, NEW o \in Offsets,
                    known'[q][t][o] # Unknown
             PROVE  /\ o < End(q, t)' - Start(q, t)'
                    /\ ByteAt(q, Start(q, t) + o)' = known'[q][t][o]
  BY DEF KnownInv
<1>0. /\ \A u \in Procs, v \in Rgids : (p # u \/ r # v) =>
           symrgtbl'[u][v] = symrgtbl[u][v] /\ known'[u][v] = known[u][v]
      /\ \A x \in Offsets : known'[p][r][x] = Unknown
  BY RecordOthers
<1>1. p # q \/ r # t
  BY <1>0
<1>2. symrgtbl'[q][t] = symrgtbl[q][t] /\ known'[q][t] = known[q][t]
  BY <1>0, <1>1
<1>3. Start(q, t)' = Start(q, t) /\ End(q, t)' = End(q, t)
  BY <1>2 DEF Start, End
<1>4. o < End(q, t) - Start(q, t) /\ ByteAt(q, Start(q, t) + o) = known[q][t][o]
  BY <1>2 DEF KnownInv
<1>5. ByteAt(q, Start(q, t) + o)' = ByteAt(q, Start(q, t) + o)
  BY <1>2, <1>3, <1>4 DEF bytes, ByteAt, kmem_addr_is_kernel
<1> QED
  BY <1>2, <1>3, <1>4, <1>5

\* The bounds of a region are numbers.
LEMMA Located ==
    ASSUME Types, NEW p \in Procs, NEW r \in Rgids
    PROVE  /\ symrgtbl[p][r].rg \in Rg /\ symrgtbl[p][r].mode \in {"user", "kernel"}
           /\ Start(p, r) \in Int /\ End(p, r) \in Int /\ kmem_brk \in Int
<1>1. symrgtbl[p][r] \in [rg : Int \X Int, mode : {"user", "kernel"}]
  BY DEF Types, TypeOK
<1>2. symrgtbl[p][r].rg \in Rg /\ symrgtbl[p][r].mode \in {"user", "kernel"}
  BY <1>1 DEF Rg
<1> QED
  BY <1>2, RgEnds DEF Start, End, Types

----------------------------------------------------------------------------
(* The pool                                                                 *)

\* Where the descriptors, the pools and the user areas stay, so do the invariants on them.
LEMMA LayoutStays ==
    ASSUME UNCHANGED <<symrgtbl, sbrk, vm_freerg, kmem_brk, kmem_pools>>,
           CarvedInv, ApartInv, UserInv
    PROVE  CarvedInv' /\ ApartInv' /\ UserInv'
<1>1. CarvedInv'
  BY DEF CarvedInv, PoolOK, IsKernel, Start, End
<1>2. ApartInv'
  BY DEF ApartInv, IsKernel, Rest
<1>3. UserInv'
  BY DEF UserInv, IsUser, Start, End
<1> QED
  BY <1>1, <1>2, <1>3

\* A pool that is not used stays as it is while the bump pointer moves on.
LEMMA PoolStays ==
    ASSUME Types, NEW k \in PoolIds, PoolOK(k), kmem_pools'[k] = kmem_pools[k],
           kmem_brk' \in Int, kmem_brk <= kmem_brk'
    PROVE  PoolOK(k)'
<1>1. kmem_pools[k].storage \in Int /\ kmem_pools[k].size \in Int /\ kmem_brk \in Int /\ VBASE \in Int
  BY KmemAssumption DEF Types, TypeOK
<1>2. kmem_pools[k].storage + kmem_pools[k].size <= VBASE + kmem_brk'
  BY <1>1 DEF PoolOK
<1> QED
  BY <1>2 DEF PoolOK

\* A new kernel region that overlaps no region and no pool keeps those apart.
LEMMA NewKernelRegion ==
    ASSUME Types, NEW p \in Procs, NEW r \in Rgids, NEW start \in Int, NEW end \in Int,
           Record(p, r, start, end, "kernel"), start < end, VBASE <= start, end <= VBASE + kmem_brk',
           kmem_brk' \in Int, kmem_brk <= kmem_brk', CarvedInv, ApartInv,
           \A q \in Procs, t \in Rgids : IsKernel(q, t) /\ (p # q \/ r # t) =>
              ~Overlap(<<start, end>>, symrgtbl[q][t].rg),
           \A k \in PoolIds : kmem_pools'[k].used => ~Overlap(<<start, end>>, Rest(k)'),
           \A q \in Procs, t \in Rgids, k \in PoolIds :
              IsKernel(q, t) /\ kmem_pools'[k].used => ~Overlap(symrgtbl[q][t].rg, Rest(k)')
    PROVE  /\ \A q \in Procs, t \in Rgids : IsKernel(q, t)' =>
                VBASE <= Start(q, t)' /\ Start(q, t)' < End(q, t)' /\ End(q, t)' <= VBASE + kmem_brk'
           /\ \A q, u \in Procs, s, t \in Rgids :
                IsKernel(q, s)' /\ IsKernel(u, t)' /\ (q # u \/ s # t) =>
                   ~Overlap(symrgtbl'[q][s].rg, symrgtbl'[u][t].rg)
           /\ \A q \in Procs, t \in Rgids, k \in PoolIds :
                IsKernel(q, t)' /\ kmem_pools'[k].used => ~Overlap(symrgtbl'[q][t].rg, Rest(k)')
<1>1. \A q \in Procs, t \in Rgids : (p # q \/ r # t) => symrgtbl'[q][t] = symrgtbl[q][t]
  BY RecordOthers
<1>2. symrgtbl'[p][r].rg = <<start, end>> /\ Start(p, r)' = start /\ End(p, r)' = end
  BY RecordNew
<1>3. \A q \in Procs, t \in Rgids : (p # q \/ r # t) =>
        /\ IsKernel(q, t)' <=> IsKernel(q, t)
        /\ Start(q, t)' = Start(q, t) /\ End(q, t)' = End(q, t)
        /\ symrgtbl'[q][t].rg = symrgtbl[q][t].rg
  BY <1>1 DEF IsKernel, Start, End
<1>4. ASSUME NEW q \in Procs, NEW t \in Rgids, IsKernel(q, t)'
      PROVE  VBASE <= Start(q, t)' /\ Start(q, t)' < End(q, t)' /\ End(q, t)' <= VBASE + kmem_brk'
  <2>1. CASE q = p /\ t = r
    BY <1>2, <2>1
  <2>2. CASE p # q \/ r # t
    <3>1. VBASE <= Start(q, t) /\ Start(q, t) < End(q, t) /\ End(q, t) <= VBASE + kmem_brk
      BY <1>3, <1>4, <2>2 DEF CarvedInv
    <3>2. Start(q, t) \in Int /\ End(q, t) \in Int /\ kmem_brk \in Int /\ VBASE \in Int
      BY KmemAssumption, Located
    <3> QED
      BY <1>3, <2>2, <3>1, <3>2
  <2> QED
    BY <2>1, <2>2
<1>5. ASSUME NEW q \in Procs, NEW u \in Procs, NEW s \in Rgids, NEW t \in Rgids,
             IsKernel(q, s)', IsKernel(u, t)', q # u \/ s # t
      PROVE  ~Overlap(symrgtbl'[q][s].rg, symrgtbl'[u][t].rg)
  <2>1. CASE q = p /\ s = r
    BY <1>2, <1>3, <1>5, <2>1
  <2>2. CASE u = p /\ t = r
    BY <1>2, <1>3, <1>5, <2>2, OverlapSym
  <2>3. CASE (p # q \/ r # s) /\ (p # u \/ r # t)
    BY <1>3, <1>5, <2>3 DEF ApartInv
  <2> QED
    BY <2>1, <2>2, <2>3
<1>6. ASSUME NEW q \in Procs, NEW t \in Rgids, NEW k \in PoolIds,
             IsKernel(q, t)', kmem_pools'[k].used
      PROVE  ~Overlap(symrgtbl'[q][t].rg, Rest(k)')
  BY <1>2, <1>3, <1>6
<1> QED
  BY <1>4, <1>5, <1>6

\* A user area does not notice what happens to kernel regions of other indices.
LEMMA UserStays ==
    ASSUME Types, NEW p \in Procs, NEW r \in Rgids, NEW start \in Int, NEW end \in Int,
           Record(p, r, start, end, "kernel"), UNCHANGED <<sbrk, vm_freerg>>, UserInv
    PROVE  UserInv'
<1>1. \A q \in Procs, t \in Rgids : (p # q \/ r # t) => symrgtbl'[q][t] = symrgtbl[q][t]
  BY RecordOthers
<1>2. symrgtbl'[p][r].mode = "kernel"
  BY RecordNew
<1>3. \A q \in Procs, t \in Rgids : IsUser(q, t)' =>
        /\ IsUser(q, t) /\ symrgtbl'[q][t].rg = symrgtbl[q][t].rg
        /\ Start(q, t)' = Start(q, t) /\ End(q, t)' = End(q, t)
  <2> SUFFICES ASSUME NEW q \in Procs, NEW t \in Rgids, symrgtbl'[q][t].mode = "user"
               PROVE  symrgtbl'[q][t] = symrgtbl[q][t]
    BY DEF IsUser, Start, End
  <2>1. p # q \/ r # t
    BY <1>2
  <2> QED
    BY <1>1, <2>1
<1>4. ASSUME NEW q \in Procs, NEW t \in Rgids, IsUser(q, t)'
      PROVE  /\ 0 <= Start(q, t)' /\ Start(q, t)' <= End(q, t)' /\ End(q, t)' <= sbrk'[q]
             /\ Apart(symrgtbl'[q][t].rg, vm_freerg'[q])
  BY <1>3, <1>4 DEF UserInv
<1>5. ASSUME NEW q \in Procs, NEW s \in Rgids, NEW t \in Rgids, IsUser(q, s)', IsUser(q, t)', s # t
      PROVE  ~Overlap(symrgtbl'[q][s].rg, symrgtbl'[q][t].rg)
  BY <1>3, <1>5 DEF UserInv
<1>6. ASSUME NEW q \in Procs
      PROVE  Within(vm_freerg'[q], 0, sbrk'[q]) /\ Disjoint(vm_freerg'[q]) /\ sbrk'[q] <= PageLimit
  BY DEF UserInv
<1> QED
  BY <1>4, <1>5, <1>6 DEF UserInv

\* Carving a size that fits an int: it has been positive, and the bump pointer moves by
\* it as long as the sum fits (__kmem_carve).
LEMMA CarveFits ==
    ASSUME Types, ~overflowed, NEW size \in KSizes, kmem_carve_ok(Int32(size))
    PROVE  /\ size \in 1 .. INT_MAX /\ Int32(size) = size
           /\ kmem_brk \in 0 .. POOL_SIZE
           /\ kmem_brk + size <= INT_MAX =>
                Int32(kmem_brk + size) = kmem_brk + size /\ kmem_brk + size <= POOL_SIZE
<1>1. /\ size \in 0 .. 2 * INT_MAX + 1 /\ INT_MAX \in Nat /\ POOL_SIZE \in Nat
      /\ 2 * POOL_SIZE <= INT_MAX
  BY KmemAssumption, WidthAssumption
<1>2. size \in 1 .. INT_MAX /\ Int32(size) = size
  BY <1>1, Int32Of DEF kmem_carve_ok
<1>3. kmem_brk \in 0 .. POOL_SIZE
  BY DEF Types, TypeOK
<1>4. kmem_brk + size \in 0 .. 2 * INT_MAX + 1
  BY <1>1, <1>2, <1>3
<1>5. kmem_brk + size <= INT_MAX => Int32(kmem_brk + size) = kmem_brk + size
  BY <1>4, Int32Of
<1> QED
  BY <1>2, <1>3, <1>5 DEF kmem_carve_ok

\* kmalloc keeps the invariant (libkmem_malloc).
LEMMA MallocKeeps ==
    ASSUME IInv, NEW p \in Procs, NEW r \in Rgids, NEW size \in KSizes, libkmem_malloc(p, size, r)
    PROVE  IInv'
<1> DEFINE start == VBASE + kmem_brk  end == VBASE + kmem_brk + size
<1>0. /\ Types /\ Record(p, r, start, end, "kernel") /\ kmem_carve_ok(Int32(size))
      /\ kmem_brk' = Int32(kmem_brk + Int32(size))
      /\ overflowed' = (overflowed \/ kmem_brk + Int32(size) > INT_MAX)
      /\ UNCHANGED <<sbrk, vm_freerg, mapped, kmem_pools, user, kmem_storage, live, trespassed>>
  BY DEF IInv, libkmem_malloc, kmem_carve, uvars, bytes
<1>1. /\ size \in Nat /\ VBASE \in Nat /\ INT_MAX \in Nat /\ POOL_SIZE \in Nat
      /\ kmem_brk \in Int /\ Int32(size) \in Int /\ start \in Int /\ end \in Int
  <2>1. size \in Nat /\ VBASE \in Nat /\ INT_MAX \in Nat /\ POOL_SIZE \in Nat
    BY KmemAssumption, WidthAssumption
  <2>2. kmem_brk \in Int /\ Int32(size) \in Int
    BY <1>0, <2>1, Int32Type DEF Types
  <2> QED
    BY <2>1, <2>2
<1>2. kmem_brk' \in Int
  BY <1>0, <1>1, Int32Type
<1> HIDE DEF start, end
<1>3. ASSUME ~overflowed'
      PROVE  /\ ~overflowed /\ size > 0 /\ kmem_brk \in 0 .. POOL_SIZE
             /\ kmem_brk' = kmem_brk + size /\ kmem_brk' \in 0 .. POOL_SIZE
  <2>1. ~overflowed /\ ~(kmem_brk + Int32(size) > INT_MAX)
    BY <1>0, <1>3
  <2>2. size \in 1 .. INT_MAX /\ Int32(size) = size /\ kmem_brk \in 0 .. POOL_SIZE
    BY <1>0, <2>1, CarveFits
  <2>3. kmem_brk + size <= INT_MAX
    BY <1>1, <2>1, <2>2
  <2>4. Int32(kmem_brk + size) = kmem_brk + size /\ kmem_brk + size <= POOL_SIZE
    BY <1>0, <2>1, <2>3, CarveFits
  <2> QED
    BY <1>0, <1>1, <2>1, <2>2, <2>4
<1>4. Types'
  <2>1. /\ symrgtbl' \in [Procs -> [Rgids -> [rg : Int \X Int, mode : {"user", "kernel"}]]]
        /\ known' \in [Procs -> [Rgids -> [Offsets -> Byte \cup {Unknown}]]]
    BY <1>0, <1>1, RecordTypes
  <2>2. overflowed' \in BOOLEAN
    BY <1>0
  <2>3. ~overflowed' => /\ kmem_brk' \in 0 .. POOL_SIZE
                        /\ \A k \in PoolIds : kmem_pools'[k].next_slot \in 0 .. kmem_pools'[k].size
    BY <1>0, <1>3 DEF Types, TypeOK
  <2>4. TypeOK'
    BY <1>0, <2>1, <2>2, <2>3 DEF Types, TypeOK
  <2> QED
    BY <1>0, <1>2, <2>1, <2>4 DEF Types
<1>5. ASSUME ~overflowed' PROVE CarvedInv' /\ ApartInv' /\ UserInv'
  <2>0. CarvedInv /\ ApartInv /\ UserInv
    BY <1>3, <1>5 DEF IInv
  <2>1. /\ start < end /\ VBASE <= start /\ end <= VBASE + kmem_brk' /\ kmem_brk <= kmem_brk'
        /\ kmem_brk' \in Int
    BY <1>1, <1>3, <1>5 DEF start, end
  <2>2. ASSUME NEW q \in Procs, NEW t \in Rgids, IsKernel(q, t)
        PROVE  ~Overlap(<<start, end>>, symrgtbl[q][t].rg)
    <3>1. End(q, t) <= VBASE + kmem_brk
      BY <2>0, <2>2 DEF CarvedInv
    <3> QED
      BY <1>0, <1>1, <3>1, Located DEF Overlap, End, start
  <2>3. ASSUME NEW k \in PoolIds, kmem_pools[k].used
        PROVE  ~Overlap(<<start, end>>, Rest(k))
    <3>1. kmem_pools[k].storage + kmem_pools[k].size <= VBASE + kmem_brk
      BY <2>0, <2>3 DEF CarvedInv, PoolOK
    <3>2. kmem_pools[k].storage \in Int /\ kmem_pools[k].size \in Int
      BY <1>0 DEF Types, TypeOK
    <3>3. Rest(k)[2] = kmem_pools[k].storage + kmem_pools[k].size
      BY DEF Rest
    <3> QED
      BY <1>1, <3>1, <3>2, <3>3 DEF Overlap, start
  <2>4. kmem_pools' = kmem_pools /\ \A k \in PoolIds : Rest(k)' = Rest(k)
    BY <1>0 DEF Rest
  <2>5. \A q \in Procs, t \in Rgids, k \in PoolIds :
           IsKernel(q, t) /\ kmem_pools[k].used => ~Overlap(symrgtbl[q][t].rg, Rest(k))
    BY <2>0 DEF ApartInv
  <2>6. /\ \A q \in Procs, t \in Rgids : IsKernel(q, t)' =>
             VBASE <= Start(q, t)' /\ Start(q, t)' < End(q, t)' /\ End(q, t)' <= VBASE + kmem_brk'
        /\ \A q, u \in Procs, s, t \in Rgids :
             IsKernel(q, s)' /\ IsKernel(u, t)' /\ (q # u \/ s # t) =>
                ~Overlap(symrgtbl'[q][s].rg, symrgtbl'[u][t].rg)
        /\ \A q \in Procs, t \in Rgids, k \in PoolIds :
             IsKernel(q, t)' /\ kmem_pools'[k].used => ~Overlap(symrgtbl'[q][t].rg, Rest(k)')
    BY <1>0, <1>1, <2>0, <2>1, <2>2, <2>3, <2>4, <2>5, NewKernelRegion
  <2>7. CarvedInv'
    <3>1. ASSUME NEW k \in PoolIds, kmem_pools'[k].used
          PROVE  PoolOK(k)'
      BY <1>0, <1>1, <2>0, <2>1, <3>1, PoolStays DEF CarvedInv
    <3> QED
      BY <2>6, <3>1 DEF CarvedInv
  <2>8. ApartInv'
    BY <2>0, <2>4, <2>6 DEF ApartInv
  <2>9. UserInv'
    BY <1>0, <1>1, <2>0, UserStays
  <2> QED
    BY <2>7, <2>8, <2>9
<1>6. ASSUME ~overflowed', ~trespassed' PROVE KnownInv'
  <2>1. KnownInv
    BY <1>0, <1>3, <1>6 DEF IInv
  <2> QED
    BY <1>0, <1>1, <2>1, RecordKnown DEF bytes
<1> QED
  BY <1>4, <1>5, <1>6 DEF IInv

\* Where descriptors, pages, bytes and knowledge stay, so does what is known.
LEMMA BytesStay ==
    ASSUME UNCHANGED <<symrgtbl, mapped, user, kmem_storage, known>>, KnownInv
    PROVE  KnownInv'
BY DEF KnownInv, ByteAt, Start, End, kmem_addr_is_kernel

\* The fields of a pool are numbers.
LEMMA PoolFields ==
    ASSUME Types, NEW k \in PoolIds
    PROVE  /\ kmem_pools[k] \in [used : BOOLEAN, size : Int, align : Int, storage : Int, next_slot : Int]
           /\ kmem_pools[k].size \in Int /\ kmem_pools[k].align \in Int
           /\ kmem_pools[k].storage \in Int /\ kmem_pools[k].next_slot \in Int
BY DEF Types, TypeOK

\* kmem_cache_create keeps the invariant (libkmem_cache_pool_create).
LEMMA CreateKeeps ==
    ASSUME IInv, NEW p \in Procs, NEW k \in PoolIds, NEW size \in KSizes, NEW align \in Aligns,
           libkmem_cache_pool_create(p, size, align, k)
    PROVE  IInv'
<1> DEFINE new == [used |-> TRUE, size |-> Int32(size), align |-> Int32(align),
                   storage |-> VBASE + kmem_brk, next_slot |-> 0]
<1>0. /\ Types /\ kmem_carve_ok(Int32(size)) /\ align # 0 /\ ~kmem_pools[k].used
      /\ kmem_brk' = Int32(kmem_brk + Int32(size))
      /\ overflowed' = (overflowed \/ kmem_brk + Int32(size) > INT_MAX \/ align > INT_MAX)
      /\ kmem_pools' = [kmem_pools EXCEPT ![k] = new]
      /\ UNCHANGED <<symrgtbl, sbrk, vm_freerg, mapped, user, kmem_storage, live, known, trespassed>>
  BY DEF IInv, libkmem_cache_pool_create, uvars, bytes
<1>1. /\ size \in Nat /\ VBASE \in Nat /\ INT_MAX \in Nat /\ POOL_SIZE \in Nat
      /\ align \in 0 .. 2 * INT_MAX + 1
  BY KmemAssumption, WidthAssumption
<1>2. kmem_brk \in Int /\ Int32(size) \in Int /\ Int32(align) \in Int
  BY <1>0, <1>1, Int32Type DEF Types
<1>3. kmem_brk' \in Int
  BY <1>0, <1>2, Int32Type
<1>4. new \in [used : BOOLEAN, size : Int, align : Int, storage : Int, next_slot : Int]
  BY <1>1, <1>2
<1>5. /\ kmem_pools' \in [PoolIds -> [used : BOOLEAN, size : Int, align : Int, storage : Int, next_slot : Int]]
      /\ kmem_pools'[k] = new /\ \A j \in PoolIds : j # k => kmem_pools'[j] = kmem_pools[j]
  <2> HIDE DEF new
  <2> QED
    BY <1>0, <1>4 DEF Types, TypeOK
<1>6. ASSUME ~overflowed'
      PROVE  /\ ~overflowed /\ size \in 1 .. POOL_SIZE /\ kmem_brk \in 0 .. POOL_SIZE
             /\ kmem_brk' = kmem_brk + size /\ kmem_brk' \in 0 .. POOL_SIZE
             /\ Int32(size) = size /\ Int32(align) = align /\ align \in 1 .. INT_MAX
  <2>1. ~overflowed /\ ~(kmem_brk + Int32(size) > INT_MAX) /\ ~(align > INT_MAX)
    BY <1>0, <1>6
  <2>2. size \in 1 .. INT_MAX /\ Int32(size) = size /\ kmem_brk \in 0 .. POOL_SIZE
    BY <1>0, <2>1, CarveFits
  <2>3. kmem_brk + size <= INT_MAX
    BY <1>1, <2>1, <2>2
  <2>4. Int32(kmem_brk + size) = kmem_brk + size /\ kmem_brk + size <= POOL_SIZE
    BY <1>0, <2>1, <2>3, CarveFits
  <2>5. align \in 1 .. INT_MAX
    BY <1>0, <1>1, <2>1
  <2>6. Int32(align) = align
    BY <1>1, <2>5, Int32Of
  <2> QED
    BY <1>0, <1>1, <2>1, <2>2, <2>4, <2>5, <2>6
<1>7. /\ new.used /\ new.size = Int32(size) /\ new.align = Int32(align)
      /\ new.storage = VBASE + kmem_brk /\ new.next_slot = 0
  OBVIOUS
<1> HIDE DEF new
<1>8. Types'
  <2>1. overflowed' \in BOOLEAN
    BY <1>0
  <2>2. ASSUME ~overflowed', NEW j \in PoolIds
        PROVE  kmem_pools'[j].next_slot \in 0 .. kmem_pools'[j].size
    <3>1. CASE j = k
      BY <1>1, <1>5, <1>6, <1>7, <2>2, <3>1
    <3>2. CASE j # k
      BY <1>5, <1>6, <1>0, <2>2, <3>2 DEF Types, TypeOK
    <3> QED
      BY <3>1, <3>2
  <2>3. TypeOK'
    BY <1>0, <1>5, <1>6, <2>1, <2>2 DEF Types, TypeOK
  <2> QED
    BY <1>0, <1>3, <2>3 DEF Types
<1>9. ASSUME ~overflowed' PROVE CarvedInv' /\ ApartInv' /\ UserInv'
  <2>0. CarvedInv /\ ApartInv /\ UserInv
    BY <1>6, <1>9 DEF IInv
  <2>1. \A q \in Procs, t \in Rgids :
          /\ IsKernel(q, t)' <=> IsKernel(q, t)
          /\ Start(q, t)' = Start(q, t) /\ End(q, t)' = End(q, t)
          /\ symrgtbl'[q][t].rg = symrgtbl[q][t].rg
    BY <1>0 DEF IsKernel, Start, End
  <2>2. kmem_brk <= kmem_brk' /\ kmem_brk' = kmem_brk + size
    BY <1>1, <1>6, <1>9
  <2>3. CarvedInv'
    <3>1. ASSUME NEW j \in PoolIds, kmem_pools'[j].used PROVE PoolOK(j)'
      <4>1. CASE j = k
        <5>1. kmem_pools'[j] = new
          BY <1>5, <4>1
        <5> QED
          BY <1>1, <1>6, <1>7, <1>9, <2>2, <5>1 DEF PoolOK
      <4>2. CASE j # k
        BY <1>0, <1>3, <1>5, <2>0, <2>2, <3>1, <4>2, PoolStays DEF CarvedInv
      <4> QED
        BY <4>1, <4>2
    <3>2. ASSUME NEW q \in Procs, NEW t \in Rgids, IsKernel(q, t)'
          PROVE  VBASE <= Start(q, t)' /\ Start(q, t)' < End(q, t)' /\ End(q, t)' <= VBASE + kmem_brk'
      <4>1. VBASE <= Start(q, t) /\ Start(q, t) < End(q, t) /\ End(q, t) <= VBASE + kmem_brk
        BY <2>0, <2>1, <3>2 DEF CarvedInv
      <4>2. End(q, t) \in Int
        BY <1>0, Located
      <4> QED
        BY <1>1, <1>2, <1>3, <2>1, <2>2, <4>1, <4>2
    <3> QED
      BY <3>1, <3>2 DEF CarvedInv
  <2>4. \A j \in PoolIds : j # k => Rest(j)' = Rest(j)
    BY <1>5 DEF Rest
  <2>5. Rest(k)'[1] = VBASE + kmem_brk
    BY <1>1, <1>2, <1>5, <1>7 DEF Rest
  <2>6. ASSUME NEW q \in Procs, NEW t \in Rgids, IsKernel(q, t)
        PROVE  ~Overlap(symrgtbl[q][t].rg, Rest(k)')
    <3>1. End(q, t) <= VBASE + kmem_brk /\ End(q, t) \in Int
      BY <1>0, <2>0, <2>6, Located DEF CarvedInv
    <3> QED
      BY <1>1, <1>2, <2>5, <3>1 DEF Overlap, End
  <2>7. ASSUME NEW j \in PoolIds, j # k, kmem_pools[j].used
        PROVE  ~Overlap(Rest(j), Rest(k)')
    <3>1. kmem_pools[j].storage + kmem_pools[j].size <= VBASE + kmem_brk
      BY <2>0, <2>7 DEF CarvedInv, PoolOK
    <3>2. Rest(j)[2] = kmem_pools[j].storage + kmem_pools[j].size
      BY DEF Rest
    <3>3. kmem_pools[j].storage \in Int /\ kmem_pools[j].size \in Int
      BY <1>0, PoolFields
    <3> QED
      BY <1>1, <1>2, <2>5, <3>1, <3>2, <3>3 DEF Overlap
  <2>8. ApartInv'
    <3>1. ASSUME NEW q \in Procs, NEW u \in Procs, NEW s \in Rgids, NEW t \in Rgids,
                 IsKernel(q, s)', IsKernel(u, t)', q # u \/ s # t
          PROVE  ~Overlap(symrgtbl'[q][s].rg, symrgtbl'[u][t].rg)
      BY <2>0, <2>1, <3>1 DEF ApartInv
    <3>2. ASSUME NEW q \in Procs, NEW t \in Rgids, NEW j \in PoolIds,
                 IsKernel(q, t)', kmem_pools'[j].used
          PROVE  ~Overlap(symrgtbl'[q][t].rg, Rest(j)')
      <4>1. CASE j = k
        BY <2>1, <2>6, <3>2, <4>1
      <4>2. CASE j # k
        BY <1>5, <2>0, <2>1, <2>4, <3>2, <4>2 DEF ApartInv
      <4> QED
        BY <4>1, <4>2
    <3>3. ASSUME NEW i \in PoolIds, NEW j \in PoolIds, i # j, kmem_pools'[i].used, kmem_pools'[j].used
          PROVE  ~Overlap(Rest(i)', Rest(j)')
      <4>1. CASE j = k
        BY <1>5, <2>4, <2>7, <3>3, <4>1
      <4>2. CASE i = k
        BY <1>5, <2>4, <2>7, <3>3, <4>2, OverlapSym
      <4>3. CASE i # k /\ j # k
        BY <1>5, <2>0, <2>4, <3>3, <4>3 DEF ApartInv
      <4> QED
        BY <4>1, <4>2, <4>3
    <3> QED
      BY <3>1, <3>2, <3>3 DEF ApartInv
  <2>9. UserInv'
    BY <1>0, <2>0 DEF UserInv, IsUser, Start, End
  <2> QED
    BY <2>3, <2>8, <2>9
<1>10. ASSUME ~overflowed', ~trespassed' PROVE KnownInv'
  <2>1. KnownInv
    BY <1>0, <1>6, <1>10 DEF IInv
  <2> QED
    BY <1>0, <2>1, BytesStay
<1> QED
  BY <1>8, <1>9, <1>10 DEF IInv

\* A slot lies in the rest of its pool, and the sum of the ints fits (libkmem_cache_alloc).
LEMMA SlotFits ==
    ASSUME Types, ~overflowed, CarvedInv, NEW k \in PoolIds, kmem_pools[k].used,
           Int32(kmem_pools[k].next_slot + kmem_pools[k].align) <= kmem_pools[k].size
    PROVE  LET pool == kmem_pools[k] IN
           /\ Int32(pool.next_slot + pool.align) = pool.next_slot + pool.align
           /\ pool.next_slot \in Nat /\ pool.align \in Nat \ {0}
           /\ pool.next_slot + pool.align <= pool.size
<1> DEFINE next == kmem_pools[k].next_slot  align == kmem_pools[k].align  size == kmem_pools[k].size
<1>1. INT_MAX \in Nat /\ POOL_SIZE \in Nat /\ 2 * POOL_SIZE <= INT_MAX
  BY KmemAssumption, WidthAssumption
<1>2. /\ next \in 0 .. size /\ align \in 1 .. INT_MAX /\ size \in 1 .. POOL_SIZE
      /\ next = 0 \/ align <= next
  BY DEF Types, TypeOK, CarvedInv, PoolOK
<1> HIDE DEF next, align, size
<1>3. next + align \in 0 .. 2 * INT_MAX + 1 /\ next + align <= INT_MAX
  BY <1>1, <1>2
<1>4. Int32(next + align) = next + align
  BY <1>3, Int32Of
<1>5. Int32(next + align) <= size
  BY DEF next, align, size
<1> QED
  BY <1>2, <1>4, <1>5 DEF next, align, size

\* kmem_cache_alloc keeps the invariant (libkmem_cache_alloc).
LEMMA SlotKeeps ==
    ASSUME IInv, NEW p \in Procs, NEW r \in Rgids, NEW k \in PoolIds, libkmem_cache_alloc(p, r, k)
    PROVE  IInv'
<1> DEFINE pool == kmem_pools[k]
           next == Int32(pool.next_slot + pool.align)
           start == pool.storage + pool.next_slot
           end == pool.storage + pool.next_slot + pool.align
<1>0. /\ Types /\ Record(p, r, start, end, "kernel") /\ pool.used /\ next <= pool.size
      /\ kmem_pools' = [kmem_pools EXCEPT ![k].next_slot = next]
      /\ UNCHANGED <<kmem_brk, overflowed, sbrk, vm_freerg, mapped, user, kmem_storage, live, trespassed>>
  BY DEF IInv, libkmem_cache_alloc, uvars, bytes
<1>1. /\ VBASE \in Nat /\ INT_MAX \in Nat /\ POOL_SIZE \in Nat
      /\ pool.size \in Int /\ pool.align \in Int /\ pool.storage \in Int /\ pool.next_slot \in Int
  BY <1>0, KmemAssumption, WidthAssumption, PoolFields
<1>2. start \in Int /\ end \in Int /\ next \in Int /\ kmem_brk \in Int
  BY <1>0, <1>1, Int32Type DEF Types
<1>3. /\ kmem_pools' \in [PoolIds -> [used : BOOLEAN, size : Int, align : Int, storage : Int, next_slot : Int]]
      /\ kmem_pools'[k] = [pool EXCEPT !.next_slot = next]
      /\ \A j \in PoolIds : j # k => kmem_pools'[j] = kmem_pools[j]
  <2>1. kmem_pools \in [PoolIds -> [used : BOOLEAN, size : Int, align : Int, storage : Int, next_slot : Int]]
    BY <1>0 DEF Types, TypeOK
  <2> HIDE DEF next
  <2> QED
    BY <1>0, <1>2, <2>1
<1>4. /\ kmem_pools'[k].used = pool.used /\ kmem_pools'[k].size = pool.size
      /\ kmem_pools'[k].align = pool.align /\ kmem_pools'[k].storage = pool.storage
      /\ kmem_pools'[k].next_slot = next
  <2>1. pool \in [used : BOOLEAN, size : Int, align : Int, storage : Int, next_slot : Int]
    BY <1>0, PoolFields
  <2> HIDE DEF next, pool
  <2> QED
    BY <1>3, <2>1
<1>5. ASSUME ~overflowed
      PROVE  /\ CarvedInv /\ ApartInv /\ UserInv /\ PoolOK(k)
             /\ next = pool.next_slot + pool.align
             /\ pool.next_slot \in Nat /\ pool.align \in Nat \ {0}
             /\ next <= pool.size
  <2>1. CarvedInv /\ ApartInv /\ UserInv
    BY <1>5 DEF IInv
  <2>2. PoolOK(k)
    BY <1>0, <2>1 DEF CarvedInv
  <2> QED
    BY <1>0, <1>5, <2>1, <2>2, SlotFits
<1> HIDE DEF next, pool, start, end
<1>6. Types'
  <2>1. /\ symrgtbl' \in [Procs -> [Rgids -> [rg : Int \X Int, mode : {"user", "kernel"}]]]
        /\ known' \in [Procs -> [Rgids -> [Offsets -> Byte \cup {Unknown}]]]
    BY <1>0, <1>2, RecordTypes
  <2>2. ASSUME ~overflowed, NEW j \in PoolIds
        PROVE  kmem_pools'[j].next_slot \in 0 .. kmem_pools'[j].size
    <3>1. CASE j = k
      BY <1>1, <1>2, <1>4, <1>5, <2>2, <3>1
    <3>2. CASE j # k
      BY <1>0, <1>3, <2>2, <3>2 DEF Types, TypeOK
    <3> QED
      BY <3>1, <3>2
  <2>3. TypeOK'
    BY <1>0, <1>3, <2>1, <2>2 DEF Types, TypeOK
  <2> QED
    BY <1>0, <2>1, <2>3 DEF Types
<1>7. ASSUME ~overflowed' PROVE CarvedInv' /\ ApartInv' /\ UserInv'
  <2>0. ~overflowed /\ CarvedInv /\ ApartInv /\ UserInv /\ PoolOK(k)
    BY <1>0, <1>5, <1>7
  <2>1. /\ next = pool.next_slot + pool.align /\ pool.next_slot \in Nat /\ pool.align \in Nat \ {0}
        /\ next <= pool.size
    BY <1>5, <2>0
  <2>2. VBASE <= pool.storage /\ pool.storage + pool.size <= VBASE + kmem_brk
    BY <2>0 DEF PoolOK, pool
  <2>3. /\ start < end /\ VBASE <= start /\ end <= VBASE + kmem_brk' /\ kmem_brk <= kmem_brk'
        /\ kmem_brk' \in Int
    BY <1>0, <1>1, <1>2, <2>1, <2>2 DEF start, end
  <2>4. Rest(k) = <<start, pool.storage + pool.size>> /\ Rest(k)' = <<end, pool.storage + pool.size>>
    <3>1. Rest(k) = <<start, pool.storage + pool.size>>
      BY DEF Rest, start, pool
    <3>2. Rest(k)' = <<pool.storage + next, pool.storage + pool.size>>
      BY <1>4 DEF Rest
    <3>3. pool.storage + next = end
      BY <1>1, <2>1 DEF end
    <3> QED
      BY <3>1, <3>2, <3>3
  <2>5. \A j \in PoolIds : j # k => Rest(j)' = Rest(j)
    BY <1>3 DEF Rest
  <2>6. /\ \A rg : Overlap(rg, <<start, end>>) /\ rg \in Rg => Overlap(rg, Rest(k))
        /\ \A rg : Overlap(rg, Rest(k)') /\ rg \in Rg => Overlap(rg, Rest(k))
        /\ ~Overlap(<<start, end>>, Rest(k)')
    BY <1>1, <1>2, <2>1, <2>3, <2>4, RgEnds DEF Overlap, start, end
  <2>7. ASSUME NEW j \in PoolIds, j # k, kmem_pools[j].used
        PROVE  Rest(j) \in Rg /\ ~Overlap(Rest(j), Rest(k))
    <3>1. ~Overlap(Rest(j), Rest(k))
      BY <1>0, <2>0, <2>7 DEF ApartInv, pool
    <3>2. Rest(j) \in Rg
      BY <1>0, PoolFields, Pair DEF Rest
    <3> QED
      BY <3>1, <3>2
  <2>8. ASSUME NEW q \in Procs, NEW t \in Rgids, IsKernel(q, t)
        PROVE  /\ symrgtbl[q][t].rg \in Rg /\ ~Overlap(symrgtbl[q][t].rg, <<start, end>>)
               /\ ~Overlap(symrgtbl[q][t].rg, Rest(k)')
    <3>1. ~Overlap(symrgtbl[q][t].rg, Rest(k))
      BY <1>0, <2>0, <2>8 DEF ApartInv, pool
    <3>2. symrgtbl[q][t].rg \in Rg
      BY <1>0, Located
    <3> QED
      BY <2>6, <3>1, <3>2
  <2>9. ASSUME NEW j \in PoolIds, kmem_pools'[j].used
        PROVE  ~Overlap(<<start, end>>, Rest(j)')
    <3>1. CASE j = k
      BY <2>6, <3>1
    <3>2. CASE j # k
      BY <1>3, <2>5, <2>6, <2>7, <2>9, <3>2, OverlapSym
    <3> QED
      BY <3>1, <3>2
  <2>10. ASSUME NEW q \in Procs, NEW t \in Rgids, NEW j \in PoolIds,
                IsKernel(q, t), kmem_pools'[j].used
         PROVE  ~Overlap(symrgtbl[q][t].rg, Rest(j)')
    <3>1. CASE j = k
      BY <2>8, <2>10, <3>1
    <3>2. CASE j # k
      BY <1>3, <2>0, <2>5, <2>10, <3>2 DEF ApartInv
    <3> QED
      BY <3>1, <3>2
  <2>11. /\ \A q \in Procs, t \in Rgids : IsKernel(q, t)' =>
              VBASE <= Start(q, t)' /\ Start(q, t)' < End(q, t)' /\ End(q, t)' <= VBASE + kmem_brk'
         /\ \A q, u \in Procs, s, t \in Rgids :
              IsKernel(q, s)' /\ IsKernel(u, t)' /\ (q # u \/ s # t) =>
                 ~Overlap(symrgtbl'[q][s].rg, symrgtbl'[u][t].rg)
         /\ \A q \in Procs, t \in Rgids, j \in PoolIds :
              IsKernel(q, t)' /\ kmem_pools'[j].used => ~Overlap(symrgtbl'[q][t].rg, Rest(j)')
    <3>1. \A q \in Procs, t \in Rgids : IsKernel(q, t) /\ (p # q \/ r # t) =>
             ~Overlap(<<start, end>>, symrgtbl[q][t].rg)
      BY <2>8, OverlapSym
    <3> QED
      BY <1>0, <1>2, <2>0, <2>3, <2>9, <2>10, <3>1, NewKernelRegion
  <2>12. CarvedInv'
    <3>1. ASSUME NEW j \in PoolIds, kmem_pools'[j].used PROVE PoolOK(j)'
      <4>1. CASE j = k
        BY <1>0, <1>1, <1>4, <2>0, <2>1, <4>1 DEF PoolOK, pool
      <4>2. CASE j # k
        BY <1>0, <1>3, <2>0, <2>3, <3>1, <4>2, PoolStays DEF CarvedInv
      <4> QED
        BY <4>1, <4>2
    <3> QED
      BY <2>11, <3>1 DEF CarvedInv
  <2>13. ApartInv'
    <3>1. ASSUME NEW i \in PoolIds, NEW j \in PoolIds, i # j, kmem_pools'[i].used, kmem_pools'[j].used
          PROVE  ~Overlap(Rest(i)', Rest(j)')
      <4>1. CASE j = k
        BY <1>3, <2>5, <2>6, <2>7, <3>1, <4>1
      <4>2. CASE i = k
        BY <1>3, <2>5, <2>6, <2>7, <3>1, <4>2, OverlapSym
      <4>3. CASE i # k /\ j # k
        BY <1>3, <2>0, <2>5, <3>1, <4>3 DEF ApartInv
      <4> QED
        BY <4>1, <4>2, <4>3
    <3> QED
      BY <2>11, <3>1 DEF ApartInv
  <2>14. UserInv'
    BY <1>0, <1>2, <2>0, UserStays
  <2> QED
    BY <2>12, <2>13, <2>14
<1>8. ASSUME ~overflowed', ~trespassed' PROVE KnownInv'
  <2>1. KnownInv
    BY <1>0, <1>8 DEF IInv
  <2> QED
    BY <1>0, <1>2, <2>1, RecordKnown DEF bytes
<1> QED
  BY <1>6, <1>7, <1>8 DEF IInv

----------------------------------------------------------------------------
(* User regions                                                             *)

\* The pool does not notice what happens to user regions.
LEMMA KernelStays ==
    ASSUME Types, NEW p \in Procs, NEW r \in Rgids, NEW start \in Int, NEW end \in Int,
           NEW mode \in {"user", "kernel"}, Record(p, r, start, end, mode), ~IsKernel(p, r)',
           UNCHANGED <<kmem_brk, kmem_pools>>, CarvedInv, ApartInv
    PROVE  CarvedInv' /\ ApartInv'
<1>1. \A q \in Procs, t \in Rgids : (p # q \/ r # t) => symrgtbl'[q][t] = symrgtbl[q][t]
  BY RecordOthers
<1>2. ASSUME NEW q \in Procs, NEW t \in Rgids, IsKernel(q, t)'
      PROVE  /\ IsKernel(q, t) /\ symrgtbl'[q][t].rg = symrgtbl[q][t].rg
             /\ Start(q, t)' = Start(q, t) /\ End(q, t)' = End(q, t)
  <2>1. p # q \/ r # t
    BY <1>2
  <2>2. symrgtbl'[q][t] = symrgtbl[q][t]
    BY <1>1, <2>1
  <2> QED
    BY <1>2, <2>2 DEF IsKernel, Start, End
<1>3. CarvedInv'
  <2>1. \A k \in PoolIds : kmem_pools'[k].used => PoolOK(k)'
    BY DEF CarvedInv, PoolOK
  <2> QED
    BY <1>2, <2>1 DEF CarvedInv
<1>4. ApartInv'
  <2>1. kmem_pools' = kmem_pools /\ \A k \in PoolIds : Rest(k)' = Rest(k)
    BY DEF Rest
  <2> QED
    BY <1>2, <2>1 DEF ApartInv
<1> QED
  BY <1>3, <1>4

\* One region and the list of free regions of a process change, and fit each other and
\* the regions that stay.
LEMMA UserChanges ==
    ASSUME Types, NEW p \in Procs, NEW r \in Rgids, NEW start \in Int, NEW end \in Int,
           NEW mode \in {"user", "kernel"}, Record(p, r, start, end, mode), UserInv,
           \A q \in Procs : q # p => sbrk'[q] = sbrk[q] /\ vm_freerg'[q] = vm_freerg[q],
           sbrk[p] \in Int, sbrk'[p] \in Int, sbrk[p] <= sbrk'[p], sbrk'[p] <= PageLimit,
           Within(vm_freerg'[p], 0, sbrk'[p]), Disjoint(vm_freerg'[p]),
           \A t \in Rgids : IsUser(p, t) /\ t # r => Apart(symrgtbl[p][t].rg, vm_freerg'[p]),
           mode = "user" =>
              /\ 0 <= start /\ start <= end /\ end <= sbrk'[p]
              /\ Apart(<<start, end>>, vm_freerg'[p])
              /\ \A t \in Rgids : IsUser(p, t) /\ t # r => ~Overlap(symrgtbl[p][t].rg, <<start, end>>)
    PROVE  UserInv'
<1>1. \A q \in Procs, t \in Rgids : (p # q \/ r # t) => symrgtbl'[q][t] = symrgtbl[q][t]
  BY RecordOthers
<1>2. /\ symrgtbl'[p][r].rg = <<start, end>> /\ symrgtbl'[p][r].mode = mode
      /\ Start(p, r)' = start /\ End(p, r)' = end
  BY RecordNew
<1>3. \A q \in Procs, t \in Rgids : (p # q \/ r # t) =>
        /\ IsUser(q, t)' <=> IsUser(q, t)
        /\ Start(q, t)' = Start(q, t) /\ End(q, t)' = End(q, t)
        /\ symrgtbl'[q][t].rg = symrgtbl[q][t].rg
  BY <1>1 DEF IsUser, Start, End
<1>4. IsUser(p, r)' => mode = "user"
  BY <1>2 DEF IsUser
<1>5. ASSUME NEW q \in Procs
      PROVE  Within(vm_freerg'[q], 0, sbrk'[q]) /\ Disjoint(vm_freerg'[q]) /\ sbrk'[q] <= PageLimit
  BY DEF UserInv
<1>6. ASSUME NEW q \in Procs, NEW t \in Rgids, IsUser(q, t)'
      PROVE  /\ 0 <= Start(q, t)' /\ Start(q, t)' <= End(q, t)' /\ End(q, t)' <= sbrk'[q]
             /\ Apart(symrgtbl'[q][t].rg, vm_freerg'[q])
  <2>1. CASE q # p
    BY <1>3, <1>6, <2>1 DEF UserInv
  <2>2. CASE q = p /\ t = r
    BY <1>2, <1>4, <1>6, <2>2
  <2>3. CASE q = p /\ t # r
    <3>1. 0 <= Start(p, t) /\ Start(p, t) <= End(p, t) /\ End(p, t) <= sbrk[p]
      BY <1>3, <1>6, <2>3 DEF UserInv
    <3>2. End(p, t) \in Int
      BY Located
    <3>3. End(p, t) <= sbrk'[p]
      BY <3>1, <3>2
    <3> QED
      BY <1>3, <1>6, <2>3, <3>1, <3>3
  <2> QED
    BY <2>1, <2>2, <2>3
<1>7. ASSUME NEW q \in Procs, NEW s \in Rgids, NEW t \in Rgids, IsUser(q, s)', IsUser(q, t)', s # t
      PROVE  ~Overlap(symrgtbl'[q][s].rg, symrgtbl'[q][t].rg)
  <2>1. CASE q # p \/ (s # r /\ t # r)
    BY <1>3, <1>7, <2>1 DEF UserInv
  <2>2. CASE q = p /\ s = r
    BY <1>2, <1>3, <1>4, <1>7, <2>2, OverlapSym
  <2>3. CASE q = p /\ t = r
    BY <1>2, <1>3, <1>4, <1>7, <2>3
  <2> QED
    BY <2>1, <2>2, <2>3
<1> QED
  BY <1>5, <1>6, <1>7 DEF UserInv

\* alloc from the free list keeps the invariant (__alloc, get_free_vmrg_area).
LEMMA ReuseKeeps ==
    ASSUME IInv, NEW p \in Procs, NEW r \in Rgids, NEW size \in Sizes, AllocReuse(p, r, size)
    PROVE  IInv'
<1> DEFINE n == Int32(size)
<1>1. PICK k \in 1 .. Len(vm_freerg[p]) :
        /\ FirstFit(vm_freerg[p], k, n)
        /\ vm_freerg' = [vm_freerg EXCEPT ![p] = Carve(vm_freerg[p], k, n)]
        /\ Record(p, r, vm_freerg[p][k][1], vm_freerg[p][k][1] + n, "user")
  BY DEF AllocReuse
<1> DEFINE start == vm_freerg[p][k][1]  end == start + n
           list == Carve(vm_freerg[p], k, n)
<1>0. /\ Types /\ Record(p, r, start, end, "user") /\ Fits(vm_freerg[p][k], n)
      /\ vm_freerg' = [vm_freerg EXCEPT ![p] = list]
      /\ vm_freerg[p] \in Seq(Rg) /\ k \in 1 .. Len(vm_freerg[p]) /\ vm_freerg \in [Procs -> Seq(Rg)]
      /\ UNCHANGED <<sbrk, mapped, kmem_brk, kmem_pools, user, kmem_storage, live, trespassed>>
      /\ overflowed' = (overflowed \/ size > INT_MAX)
  BY <1>1 DEF IInv, Types, AllocReuse, kvars, bytes, FirstFit
<1>8. size \in Nat /\ INT_MAX \in Nat /\ n \in Int
  <2>1. size \in Nat /\ INT_MAX \in Nat
    BY KmemAssumption, WidthAssumption
  <2> QED
    BY <2>1, Int32Type
<1>9. ASSUME ~overflowed' PROVE ~overflowed /\ n \in Nat
  <2>1. ~overflowed /\ ~(size > INT_MAX)
    BY <1>0, <1>9
  <2>2. size \in 0 .. INT_MAX
    BY <1>8, <2>1
  <2> QED
    BY <2>1, <2>2, <1>8, Int32Small
<1> HIDE DEF n
<1>2. start \in Int /\ end \in Int
  BY <1>0, <1>8, Ends
<1>3. list \in Seq(Rg)
  BY <1>0, <1>8, CarveNodes
<1> HIDE DEF start, end, list
<1>4. vm_freerg'[p] = list /\ \A q \in Procs : q # p => vm_freerg'[q] = vm_freerg[q]
  BY <1>0
<1>5. Types'
  <2>1. /\ symrgtbl' \in [Procs -> [Rgids -> [rg : Int \X Int, mode : {"user", "kernel"}]]]
        /\ known' \in [Procs -> [Rgids -> [Offsets -> Byte \cup {Unknown}]]]
    BY <1>0, <1>2, RecordTypes
  <2>2. vm_freerg' \in [Procs -> Seq(Rg)]
    BY <1>0, <1>3
  <2>3. \A q \in Procs : vm_freerg'[q] \in Seq(Int \X Int)
    BY <2>2 DEF Rg
  <2>4. TypeOK'
    BY <1>0, <1>9, <2>1, <2>3 DEF Types, TypeOK
  <2> QED
    BY <1>0, <2>1, <2>2, <2>4 DEF Types
<1>6. ASSUME ~overflowed' PROVE CarvedInv' /\ ApartInv' /\ UserInv'
  <2>0. CarvedInv /\ ApartInv /\ UserInv /\ n \in Nat
    BY <1>6, <1>9 DEF IInv
  <2>1. sbrk' = sbrk /\ sbrk[p] \in Nat
    BY <1>0 DEF Types, TypeOK
  <2>2. Within(vm_freerg[p], 0, sbrk[p]) /\ Disjoint(vm_freerg[p])
    BY <2>0 DEF UserInv
  <2>3. /\ Within(list, 0, sbrk[p]) /\ Disjoint(list)
        /\ 0 <= start /\ end <= sbrk[p] /\ Apart(<<start, end>>, list)
        /\ \A rg \in Rg : Apart(rg, vm_freerg[p]) => Apart(rg, list) /\ ~Overlap(rg, <<start, end>>)
    <3>1. 0 \in Int /\ sbrk[p] \in Int
      BY <2>1
    <3> QED
      BY <1>0, <2>0, <2>2, <3>1, CarveKeeps, Zenon DEF start, end, list
  <2>4. ASSUME NEW t \in Rgids, IsUser(p, t)
        PROVE  Apart(symrgtbl[p][t].rg, list) /\ ~Overlap(symrgtbl[p][t].rg, <<start, end>>)
    <3>1. symrgtbl[p][t].rg \in Rg /\ Apart(symrgtbl[p][t].rg, vm_freerg[p])
      BY <1>0, <2>0, <2>4, Located DEF UserInv
    <3> QED
      BY <2>3, <3>1
  <2>5. start <= end
    BY <1>2, <2>0 DEF end
  <2>6. UserInv'
    <3>1. /\ \A q \in Procs : q # p => sbrk'[q] = sbrk[q] /\ vm_freerg'[q] = vm_freerg[q]
          /\ sbrk[p] \in Int /\ sbrk'[p] \in Int /\ sbrk[p] <= sbrk'[p] /\ sbrk'[p] = sbrk[p]
          /\ sbrk'[p] <= PageLimit
      BY <1>4, <2>0, <2>1 DEF UserInv
    <3>2. Types /\ Record(p, r, start, end, "user") /\ "user" \in {"user", "kernel"}
      BY <1>0
    <3> QED
      BY <1>2, <1>4, <2>0, <2>3, <2>4, <2>5, <3>1, <3>2, UserChanges, Zenon
  <2>7. ~IsKernel(p, r)'
    BY <1>0, <1>2, RecordNew DEF IsKernel
  <2>8. CarvedInv' /\ ApartInv'
    BY <1>0, <1>2, <2>0, <2>7, KernelStays
  <2> QED
    BY <2>6, <2>8
<1>7. ASSUME ~overflowed', ~trespassed' PROVE KnownInv'
  <2>1. KnownInv
    BY <1>0, <1>7, <1>9 DEF IInv
  <2> QED
    BY <1>0, <1>2, <2>1, RecordKnown DEF bytes
<1> QED
  BY <1>5, <1>6, <1>7 DEF IInv

\* The area grows by whole pages.  They are enough for the size asked for, and their numbers
\* fit an int, unless overflowed tells otherwise (inc_vma_limit).
LEMMA Grows ==
    ASSUME Types, NEW p \in Procs, NEW size \in Sizes, Grow(p, size)
    PROVE  /\ size \in Nat /\ overflowed' \in BOOLEAN
           /\ sbrk' \in [Procs -> 0 .. MaxBrk] /\ sbrk[p] \in Nat /\ sbrk'[p] \in Nat
           /\ sbrk[p] <= sbrk'[p] /\ \A q \in Procs : q # p => sbrk'[q] = sbrk[q]
           /\ mapped' \in [Procs -> SUBSET UserAddrs]
           /\ \A q \in Procs : mapped[q] \subseteq mapped'[q]
           /\ ~overflowed' => ~overflowed /\ sbrk[p] + size <= sbrk'[p] /\ sbrk'[p] <= PageLimit
<1> DEFINE n == PagesFor(size)  m == n * PAGESZ
<1>0. /\ n > 0 /\ sbrk[p] + m <= MaxBrk /\ sbrk' = [sbrk EXCEPT ![p] = sbrk[p] + m]
      /\ overflowed' = (overflowed \/ size > INT_MAX \/ sbrk[p] + m > PageLimit)
  BY DEF Grow
<1>1. /\ size \in Nat /\ MaxBrk \in Nat /\ PAGESZ \in Nat /\ INT_MAX \in Nat
      /\ sbrk \in [Procs -> 0 .. MaxBrk] /\ mapped \in [Procs -> SUBSET UserAddrs]
      /\ overflowed \in BOOLEAN
  BY KmemAssumption, WidthAssumption DEF Types, TypeOK
<1>2. n \in Nat
  BY <1>0, <1>1, PagesType
<1>3. size \in 0 .. INT_MAX => size <= m
  BY PagesEnough
<1> HIDE DEF n
<1>4. m \in Nat
  BY <1>1, <1>2
<1>5. PageLimit \in Int
  BY <1>1 DEF PageLimit
<1> HIDE DEF m
<1>6. /\ sbrk' \in [Procs -> 0 .. MaxBrk] /\ sbrk[p] \in Nat /\ sbrk'[p] = sbrk[p] + m
      /\ \A q \in Procs : q # p => sbrk'[q] = sbrk[q]
  BY <1>0, <1>1, <1>4
<1>7. PICK backed : mapped' = [mapped EXCEPT ![p] = @ \cup {a \in UserAddrs : a \div PAGESZ \in backed}]
  BY DEF Grow
<1>8. mapped' \in [Procs -> SUBSET UserAddrs] /\ \A q \in Procs : mapped[q] \subseteq mapped'[q]
  BY <1>1, <1>7
<1>9. overflowed' \in BOOLEAN
  BY <1>0, <1>1
<1>10. ASSUME ~overflowed'
       PROVE  ~overflowed /\ sbrk[p] + size <= sbrk'[p] /\ sbrk'[p] <= PageLimit
  <2>1. ~overflowed /\ ~(size > INT_MAX) /\ ~(sbrk[p] + m > PageLimit)
    BY <1>0, <1>10
  <2>2. size <= m
    BY <1>1, <1>3, <2>1
  <2> QED
    BY <1>1, <1>4, <1>5, <1>6, <2>1, <2>2
<1> QED
  BY <1>1, <1>4, <1>6, <1>8, <1>9, <1>10

\* The free list and the regions of an area that grows stay in it.
LEMMA AreaGrows ==
    ASSUME Types, UserInv, NEW p \in Procs, NEW new \in Int, sbrk[p] \in Int, sbrk[p] <= new
    PROVE  Within(vm_freerg[p], 0, new)
<1>1. vm_freerg[p] \in Seq(Rg)
  BY DEF Types
<1>2. ASSUME NEW j \in 1 .. Len(vm_freerg[p])
      PROVE  0 <= vm_freerg[p][j][1] /\ vm_freerg[p][j][2] <= new
  <2>1. vm_freerg[p][j][2] \in Int /\ 0 <= vm_freerg[p][j][1] /\ vm_freerg[p][j][2] <= sbrk[p]
    BY <1>1, Ends DEF UserInv, Within
  <2> QED
    BY <2>1
<1> QED
  BY <1>2 DEF Within

\* alloc at the end of the area keeps the invariant (__alloc, inc_vma_limit).
LEMMA GrowKeeps ==
    ASSUME IInv, NEW p \in Procs, NEW r \in Rgids, NEW size \in Sizes, AllocGrow(p, r, size)
    PROVE  IInv'
<1> DEFINE start == sbrk[p]  end == start + size
<1>0. /\ Types /\ Record(p, r, start, end, "user") /\ Grow(p, size)
      /\ UNCHANGED <<vm_freerg, kmem_brk, kmem_pools, user, kmem_storage, live, trespassed>>
  BY DEF IInv, AllocGrow, Grow, kvars, bytes
<1>1. /\ size \in Nat /\ overflowed' \in BOOLEAN
      /\ sbrk' \in [Procs -> 0 .. MaxBrk] /\ sbrk[p] \in Nat /\ sbrk'[p] \in Nat
      /\ sbrk[p] <= sbrk'[p] /\ \A q \in Procs : q # p => sbrk'[q] = sbrk[q]
      /\ mapped' \in [Procs -> SUBSET UserAddrs]
      /\ \A q \in Procs : mapped[q] \subseteq mapped'[q]
      /\ ~overflowed' => ~overflowed /\ sbrk[p] + size <= sbrk'[p] /\ sbrk'[p] <= PageLimit
  BY <1>0, Grows
<1>2. start \in Int /\ end \in Int /\ start \in Nat
  BY <1>1
<1> HIDE DEF start, end
<1>5. Types'
  <2>1. /\ symrgtbl' \in [Procs -> [Rgids -> [rg : Int \X Int, mode : {"user", "kernel"}]]]
        /\ known' \in [Procs -> [Rgids -> [Offsets -> Byte \cup {Unknown}]]]
    BY <1>0, <1>2, RecordTypes
  <2>2. TypeOK'
    BY <1>0, <1>1, <2>1 DEF Types, TypeOK
  <2> QED
    BY <1>0, <2>1, <2>2 DEF Types
<1>6. ASSUME ~overflowed' PROVE CarvedInv' /\ ApartInv' /\ UserInv'
  <2>0. CarvedInv /\ ApartInv /\ UserInv
    BY <1>1, <1>6 DEF IInv
  <2>1. /\ sbrk[p] \in Int /\ sbrk'[p] \in Int /\ sbrk[p] <= sbrk'[p]
        /\ 0 <= start /\ start <= end /\ end <= sbrk'[p] /\ sbrk'[p] <= PageLimit
    BY <1>1, <1>2, <1>6 DEF start, end
  <2>2. /\ Within(vm_freerg[p], 0, start) /\ Disjoint(vm_freerg[p])
        /\ vm_freerg[p] \in Seq(Rg)
    BY <1>0, <2>0 DEF UserInv, start, Types
  <2>3. Within(vm_freerg[p], 0, sbrk'[p]) /\ Apart(<<start, end>>, vm_freerg[p])
    <3>1. ASSUME NEW j \in 1 .. Len(vm_freerg[p])
          PROVE  /\ 0 <= vm_freerg[p][j][1] /\ vm_freerg[p][j][2] <= sbrk'[p]
                 /\ ~Overlap(<<start, end>>, vm_freerg[p][j])
      <4>1. vm_freerg[p][j][2] \in Int /\ 0 <= vm_freerg[p][j][1] /\ vm_freerg[p][j][2] <= start
        BY <2>2, Ends DEF Within
      <4> QED
        BY <1>2, <2>1, <4>1 DEF Overlap, start
    <3> QED
      BY <3>1 DEF Within, Apart
  <2>4. ASSUME NEW t \in Rgids, IsUser(p, t)
        PROVE  Apart(symrgtbl[p][t].rg, vm_freerg[p]) /\ ~Overlap(symrgtbl[p][t].rg, <<start, end>>)
    <3>1. Apart(symrgtbl[p][t].rg, vm_freerg[p]) /\ End(p, t) <= start /\ End(p, t) \in Int
      BY <1>0, <2>0, <2>4, Located DEF UserInv, start
    <3> QED
      BY <1>2, <3>1 DEF Overlap, End
  <2>5. vm_freerg' = vm_freerg
    BY <1>0
  <2>6. UserInv'
    <3>1. /\ \A q \in Procs : q # p => sbrk'[q] = sbrk[q] /\ vm_freerg'[q] = vm_freerg[q]
          /\ Types /\ Record(p, r, start, end, "user") /\ "user" \in {"user", "kernel"}
      BY <1>0, <1>1
    <3> QED
      BY <1>2, <2>0, <2>1, <2>2, <2>3, <2>4, <2>5, <3>1, UserChanges, Zenon
  <2>7. ~IsKernel(p, r)'
    BY <1>0, <1>2, RecordNew DEF IsKernel
  <2>8. CarvedInv' /\ ApartInv'
    BY <1>0, <1>2, <2>0, <2>7, KernelStays
  <2> QED
    BY <2>6, <2>8
<1>7. ASSUME ~overflowed', ~trespassed' PROVE KnownInv'
  <2>1. KnownInv
    BY <1>0, <1>1, <1>7 DEF IInv
  <2> QED
    BY <1>0, <1>1, <1>2, <2>1, RecordKnown DEF bytes
<1> QED
  BY <1>5, <1>6, <1>7 DEF IInv

\* free keeps the invariant, whichever kind of region it is (__free, enlist_vm_freerg_list).
LEMMA FreeKeeps ==
    ASSUME IInv, NEW p \in Procs, NEW r \in Rgids, Free(p, r)
    PROVE  IInv'
<1> DEFINE rg == symrgtbl[p][r].rg
           list == enlist_vm_freerg_list(vm_freerg[p], rg)
<1>0. /\ Types /\ Record(p, r, 0, 0, "kernel") /\ rg # <<0, 0>>
      /\ vm_freerg' = IF kmem_addr_is_kernel(rg[1]) THEN vm_freerg
                      ELSE [vm_freerg EXCEPT ![p] = list]
      /\ vm_freerg \in [Procs -> Seq(Rg)]
      /\ UNCHANGED <<sbrk, mapped, kmem_brk, kmem_pools, user, kmem_storage, live, overflowed, trespassed>>
  BY DEF IInv, Types, Free, kvars, bytes
<1>1. rg \in Rg /\ rg[1] \in Int /\ rg[2] \in Int /\ vm_freerg[p] \in Seq(Rg)
  BY <1>0, Located, RgEnds
<1>2. list \in Seq(Rg)
  <2>1. <<rg>> \o vm_freerg[p] \in Seq(Rg)
    <3> HIDE DEF rg
    <3> QED
      BY <1>1
  <2> QED
    BY <1>1, <2>1 DEF enlist_vm_freerg_list
<1>3. symrgtbl'[p][r].rg = <<0, 0>> /\ symrgtbl'[p][r].mode = "kernel"
  <2>1. 0 \in Int /\ "kernel" \in {"user", "kernel"}
    OBVIOUS
  <2> QED
    BY <1>0, <2>1, RecordNew, Zenon
<1>4. ~IsKernel(p, r)'
  <2>1. symrgtbl' = [symrgtbl EXCEPT ![p][r] = Unused]
    BY <1>0 DEF Record, Unused
  <2>2. symrgtbl \in [Procs -> [Rgids -> [rg : Int \X Int, mode : {"user", "kernel"}]]]
    BY <1>0 DEF Types, TypeOK
  <2>3. symrgtbl'[p][r] = Unused
    BY <2>1, <2>2
  <2> QED
    BY <2>3 DEF IsKernel
<1> HIDE DEF list
<1>5. vm_freerg' \in [Procs -> Seq(Rg)] /\ \A q \in Procs : q # p => vm_freerg'[q] = vm_freerg[q]
  BY <1>0, <1>2
<1>6. Types'
  <2>1. /\ symrgtbl' \in [Procs -> [Rgids -> [rg : Int \X Int, mode : {"user", "kernel"}]]]
        /\ known' \in [Procs -> [Rgids -> [Offsets -> Byte \cup {Unknown}]]]
    BY <1>0, RecordTypes
  <2>2. \A q \in Procs : vm_freerg'[q] \in Seq(Int \X Int)
    BY <1>5 DEF Rg
  <2>3. TypeOK'
    BY <1>0, <2>1, <2>2 DEF Types, TypeOK
  <2> QED
    BY <1>0, <1>5, <2>1, <2>3 DEF Types
<1>7. ASSUME ~overflowed' PROVE CarvedInv' /\ ApartInv' /\ UserInv'
  <2>0. CarvedInv /\ ApartInv /\ UserInv
    BY <1>0, <1>7 DEF IInv
  <2>1. CarvedInv' /\ ApartInv'
    <3>1. 0 \in Int /\ "kernel" \in {"user", "kernel"} /\ UNCHANGED <<kmem_brk, kmem_pools>>
      BY <1>0
    <3> QED
      BY <1>0, <1>4, <2>0, <3>1, KernelStays, Zenon
  <2> SUFFICES UserInv'
    BY <2>1
  <2>2. sbrk' = sbrk /\ sbrk[p] \in Int /\ sbrk[p] \in 0 .. MaxBrk
    BY <1>0, KmemAssumption DEF Types, TypeOK
  <2>5. sbrk'[p] <= PageLimit
    BY <2>0, <2>2 DEF UserInv
  <2>3. CASE kmem_addr_is_kernel(rg[1])
    <3>1. vm_freerg' = vm_freerg
      BY <1>0, <2>3
    <3>2. Types /\ Record(p, r, 0, 0, "kernel") /\ UNCHANGED <<sbrk, vm_freerg>> /\ 0 \in Int
      BY <1>0, <3>1
    <3> QED
      BY <2>0, <3>2, UserStays, Zenon
  <2>4. CASE ~kmem_addr_is_kernel(rg[1])
    <3>1. IsUser(p, r)
      <4>1. ASSUME ~IsUser(p, r) PROVE FALSE
        <5>1. symrgtbl[p][r].mode = "kernel" /\ symrgtbl[p][r] # Unused
          BY <1>0, <4>1, Located DEF IsUser, Unused
        <5>2. IsKernel(p, r)
          BY <5>1 DEF IsKernel
        <5>3. VBASE <= Start(p, r) /\ Start(p, r) < End(p, r) /\ End(p, r) <= VBASE + kmem_brk
          BY <2>0, <5>2 DEF CarvedInv
        <5>4. kmem_brk <= POOL_SIZE /\ kmem_brk \in Int /\ VBASE \in Int /\ POOL_SIZE \in Int
          BY <1>0, <1>7, KmemAssumption DEF Types, TypeOK
        <5> QED
          BY <1>0, <2>4, <5>3, <5>4, Located DEF kmem_addr_is_kernel, Start
      <4> QED
        BY <4>1
    <3>2. /\ Within(vm_freerg[p], 0, sbrk[p]) /\ Disjoint(vm_freerg[p]) /\ Apart(rg, vm_freerg[p])
          /\ 0 <= rg[1] /\ rg[2] <= sbrk[p]
      BY <2>0, <3>1 DEF UserInv, Start, End
    <3>3. vm_freerg'[p] = list
      BY <1>0, <2>4
    <3>4. 0 \in Int
      OBVIOUS
    <3>5. /\ Within(list, 0, sbrk[p]) /\ Disjoint(list)
          /\ \A x \in Rg : Apart(x, vm_freerg[p]) /\ ~Overlap(x, rg) => Apart(x, list)
      BY <1>1, <2>2, <3>2, <3>4, EnlistKeeps, Zenon DEF list
    <3>6. ASSUME NEW t \in Rgids, IsUser(p, t), t # r PROVE Apart(symrgtbl[p][t].rg, list)
      <4>1. /\ symrgtbl[p][t].rg \in Rg /\ Apart(symrgtbl[p][t].rg, vm_freerg[p])
            /\ ~Overlap(symrgtbl[p][t].rg, rg)
        BY <1>0, <2>0, <3>1, <3>6, Located DEF UserInv
      <4> QED
        BY <3>5, <4>1
    <3>7. sbrk'[p] \in Int /\ sbrk[p] <= sbrk'[p] /\ \A q \in Procs : sbrk'[q] = sbrk[q]
      BY <2>2
    <3>8. /\ Within(vm_freerg'[p], 0, sbrk'[p]) /\ Disjoint(vm_freerg'[p])
          /\ \A t \in Rgids : IsUser(p, t) /\ t # r => Apart(symrgtbl[p][t].rg, vm_freerg'[p])
      BY <3>3, <3>5, <3>6, <2>2
    <3> HIDE DEF rg
    <3>9. /\ Types /\ Record(p, r, 0, 0, "kernel") /\ "kernel" \in {"user", "kernel"} /\ "kernel" # "user"
          /\ \A q \in Procs : q # p => sbrk'[q] = sbrk[q] /\ vm_freerg'[q] = vm_freerg[q]
      BY <1>0, <1>5, <3>7
    <3> QED
      BY <2>0, <2>2, <2>5, <3>4, <3>7, <3>8, <3>9, UserChanges, Zenon
  <2> QED
    BY <2>3, <2>4
<1>8. ASSUME ~overflowed', ~trespassed' PROVE KnownInv'
  <2>1. KnownInv
    BY <1>0, <1>8 DEF IInv
  <2> QED
    BY <1>0, <2>1, RecordKnown DEF bytes
<1> QED
  BY <1>6, <1>7, <1>8 DEF IInv

\* A process that ends takes its regions with it (free_pcb).
LEMMA ExitKeeps ==
    ASSUME IInv, NEW p \in Procs, Exit(p)
    PROVE  IInv'
<1>0. /\ Types /\ live' = live \ {p}
      /\ symrgtbl' = [symrgtbl EXCEPT ![p] = [r \in Rgids |-> Unused]]
      /\ sbrk' = [sbrk EXCEPT ![p] = 0] /\ vm_freerg' = [vm_freerg EXCEPT ![p] = <<>>]
      /\ mapped' = [mapped EXCEPT ![p] = {}]
      /\ known' = [known EXCEPT ![p] = [r \in Rgids |-> Nothing]]
      /\ UNCHANGED <<kmem_brk, kmem_pools, user, kmem_storage, overflowed, trespassed>>
  BY DEF IInv, Exit, kvars, bytes
<1>1. Unused \in [rg : Int \X Int, mode : {"user", "kernel"}] /\ MaxBrk \in Nat
  BY KmemAssumption DEF Unused
<1>2. /\ symrgtbl' \in [Procs -> [Rgids -> [rg : Int \X Int, mode : {"user", "kernel"}]]]
      /\ \A r \in Rgids : symrgtbl'[p][r] = Unused
      /\ \A q \in Procs : q # p => symrgtbl'[q] = symrgtbl[q]
  <2>1. symrgtbl \in [Procs -> [Rgids -> [rg : Int \X Int, mode : {"user", "kernel"}]]]
    BY <1>0 DEF Types, TypeOK
  <2> QED
    BY <1>0, <1>1, <2>1
<1>3. /\ known' \in [Procs -> [Rgids -> [Offsets -> Byte \cup {Unknown}]]]
      /\ \A r \in Rgids, o \in Offsets : known'[p][r][o] = Unknown
      /\ \A q \in Procs : q # p => known'[q] = known[q]
  <2>1. Nothing \in [Offsets -> Byte \cup {Unknown}] /\ \A o \in Offsets : Nothing[o] = Unknown
    BY DEF Nothing
  <2> QED
    BY <1>0, <2>1 DEF Types
<1>4. /\ vm_freerg' \in [Procs -> Seq(Rg)] /\ vm_freerg'[p] = <<>> /\ sbrk'[p] = 0
      /\ \A q \in Procs : q # p => vm_freerg'[q] = vm_freerg[q] /\ sbrk'[q] = sbrk[q]
  BY <1>0 DEF Types, TypeOK
<1>5. Types'
  <2>1. \A q \in Procs : vm_freerg'[q] \in Seq(Int \X Int)
    BY <1>4 DEF Rg
  <2>2. sbrk' \in [Procs -> 0 .. MaxBrk] /\ mapped' \in [Procs -> SUBSET UserAddrs]
    BY <1>0, <1>1 DEF Types, TypeOK
  <2>3. TypeOK'
    BY <1>0, <1>2, <2>1, <2>2 DEF Types, TypeOK
  <2> QED
    BY <1>0, <1>3, <1>4, <2>3 DEF Types
<1>6. /\ \A r \in Rgids : ~IsKernel(p, r)' /\ ~IsUser(p, r)'
      /\ \A q \in Procs, r \in Rgids : q # p =>
            /\ IsKernel(q, r)' <=> IsKernel(q, r)
            /\ IsUser(q, r)' <=> IsUser(q, r)
            /\ symrgtbl'[q][r].rg = symrgtbl[q][r].rg
            /\ Start(q, r)' = Start(q, r) /\ End(q, r)' = End(q, r)
  <2>1. Unused.mode = "kernel"
    BY DEF Unused
  <2> QED
    BY <1>2, <2>1 DEF IsKernel, IsUser, Start, End
<1>7. ASSUME ~overflowed' PROVE CarvedInv' /\ ApartInv' /\ UserInv'
  <2>0. CarvedInv /\ ApartInv /\ UserInv
    BY <1>0, <1>7 DEF IInv
  <2>1. CarvedInv'
    <3>1. \A k \in PoolIds : kmem_pools'[k].used => PoolOK(k)'
      BY <1>0, <2>0 DEF CarvedInv, PoolOK
    <3>2. \A q \in Procs, r \in Rgids : IsKernel(q, r)' => q # p
      BY <1>6
    <3> QED
      BY <1>0, <1>6, <2>0, <3>1, <3>2 DEF CarvedInv
  <2>2. ApartInv'
    <3>1. kmem_pools' = kmem_pools /\ \A k \in PoolIds : Rest(k)' = Rest(k)
      BY <1>0 DEF Rest
    <3> QED
      BY <1>6, <2>0, <3>1 DEF ApartInv
  <2>3. UserInv'
    <3>1. Within(vm_freerg'[p], 0, sbrk'[p]) /\ Disjoint(vm_freerg'[p]) /\ sbrk'[p] <= PageLimit
      BY <1>4, LimitNat DEF Within, Disjoint
    <3> QED
      BY <1>4, <1>6, <2>0, <3>1 DEF UserInv
  <2> QED
    BY <2>1, <2>2, <2>3
<1>8. ASSUME ~overflowed', ~trespassed' PROVE KnownInv'
  <2>1. KnownInv
    BY <1>0, <1>8 DEF IInv
  <2> SUFFICES ASSUME NEW q \in Procs, NEW t \in Rgids, NEW o \in Offsets, known'[q][t][o] # Unknown
               PROVE  /\ o < End(q, t)' - Start(q, t)'
                      /\ ByteAt(q, Start(q, t) + o)' = known'[q][t][o]
    BY DEF KnownInv
  <2>2. q # p /\ known'[q] = known[q]
    BY <1>3
  <2>3. Start(q, t)' = Start(q, t) /\ End(q, t)' = End(q, t)
    BY <1>6, <2>2
  <2>4. mapped'[q] = mapped[q]
    BY <1>0, <2>2 DEF Types, TypeOK
  <2>5. ByteAt(q, Start(q, t) + o)' = ByteAt(q, Start(q, t) + o)
    BY <1>0, <2>3, <2>4 DEF ByteAt, kmem_addr_is_kernel
  <2> QED
    BY <2>1, <2>2, <2>3, <2>5 DEF KnownInv
<1> QED
  BY <1>5, <1>7, <1>8 DEF IInv

----------------------------------------------------------------------------
(* Bytes                                                                    *)

\* An offset within a region is an address of user memory or of the pool.
LEMMA Places ==
    ASSUME Types, ~overflowed, CarvedInv, UserInv, NEW p \in Procs, NEW r \in Rgids,
           NEW o \in Nat, o < End(p, r) - Start(p, r)
    PROVE  \/ /\ IsUser(p, r) /\ ~kmem_addr_is_kernel(Start(p, r) + o)
              /\ Start(p, r) + o \in UserAddrs
           \/ /\ IsKernel(p, r) /\ kmem_addr_is_kernel(Start(p, r) + o)
              /\ Start(p, r) + o - VBASE \in PoolOffsets
<1>0. /\ MaxBrk \in Nat /\ VBASE \in Nat /\ POOL_SIZE \in Nat /\ PageLimit \in Nat
      /\ PageLimit <= VBASE /\ sbrk[p] \in 0 .. MaxBrk /\ kmem_brk \in 0 .. POOL_SIZE
  BY LimitNat, KmemAssumption DEF Types, TypeOK
<1>1. Start(p, r) \in Int /\ End(p, r) \in Int /\ symrgtbl[p][r].mode \in {"user", "kernel"}
  BY Located
<1>2. CASE IsUser(p, r)
  <2>1. 0 <= Start(p, r) /\ End(p, r) <= sbrk[p] /\ sbrk[p] <= PageLimit
    BY <1>2 DEF UserInv
  <2> QED
    BY <1>0, <1>1, <1>2, <2>1 DEF kmem_addr_is_kernel, UserAddrs
<1>3. CASE IsKernel(p, r)
  <2>1. VBASE <= Start(p, r) /\ End(p, r) <= VBASE + kmem_brk
    BY <1>3 DEF CarvedInv
  <2> QED
    BY <1>0, <1>1, <1>3, <2>1 DEF kmem_addr_is_kernel, PoolOffsets
<1>4. CASE ~IsUser(p, r) /\ ~IsKernel(p, r)
  <2>1. symrgtbl[p][r] = Unused
    BY <1>1, <1>4 DEF IsUser, IsKernel
  <2>2. Unused.rg[1] = 0 /\ Unused.rg[2] = 0
    BY DEF Unused
  <2>3. Start(p, r) = 0 /\ End(p, r) = 0
    BY <2>1, <2>2 DEF Start, End
  <2> QED
    BY <2>3
<1> QED
  BY <1>2, <1>3, <1>4

\* Two regions have no address in common, except that processes have user memory each.
LEMMA ApartAddrs ==
    ASSUME Types, ~overflowed, CarvedInv, ApartInv, UserInv,
           NEW p \in Procs, NEW r \in Rgids, NEW q \in Procs, NEW t \in Rgids, p # q \/ r # t,
           NEW o \in Nat, o < End(p, r) - Start(p, r), NEW u \in Nat, u < End(q, t) - Start(q, t),
           Start(p, r) + o = Start(q, t) + u
    PROVE  p # q /\ IsUser(p, r) /\ IsUser(q, t)
<1>1. Overlap(symrgtbl[p][r].rg, symrgtbl[q][t].rg)
  <2>1. /\ Start(p, r) \in Int /\ End(p, r) \in Int
        /\ Start(q, t) \in Int /\ End(q, t) \in Int
    BY Located
  <2>2. Start(p, r) < End(q, t) /\ Start(q, t) < End(p, r)
    BY <2>1
  <2> QED
    BY <2>2 DEF Overlap, Start, End
<1>2. ~(IsKernel(p, r) /\ IsKernel(q, t))
  BY <1>1 DEF ApartInv
<1>3. ~(p = q /\ IsUser(p, r) /\ IsUser(q, t))
  BY <1>1 DEF UserInv
<1>4. \/ IsUser(p, r) /\ ~kmem_addr_is_kernel(Start(p, r) + o)
      \/ IsKernel(p, r) /\ kmem_addr_is_kernel(Start(p, r) + o)
  BY Places
<1>5. \/ IsUser(q, t) /\ ~kmem_addr_is_kernel(Start(q, t) + u)
      \/ IsKernel(q, t) /\ kmem_addr_is_kernel(Start(q, t) + u)
  BY Places
<1> QED
  BY <1>2, <1>3, <1>4, <1>5

\* A step changes bytes only at offsets N within one region, and there to what the
\* program now knows of them.
ChangesOnly(p, d, N) ==
    /\ N \subseteq Nat /\ \A o \in N : o < End(p, d) - Start(p, d)
    /\ \A q \in Procs, t \in Rgids : (p # q \/ d # t) => known'[q][t] = known[q][t]
    /\ \A o \in Offsets : o \notin N => known'[p][d][o] = known[p][d][o]
    /\ \A o \in N : o \in Offsets =>
         \/ /\ kmem_addr_is_kernel(Start(p, d) + o)
            /\ known'[p][d][o] = kmem_storage'[(Start(p, d) + o) - VBASE]
         \/ /\ ~kmem_addr_is_kernel(Start(p, d) + o) /\ Start(p, d) + o \in mapped[p]
            /\ known'[p][d][o] = user'[p][Start(p, d) + o]
    /\ \A q \in Procs, a \in UserAddrs :
         \/ user'[q][a] = user[q][a]
         \/ q = p /\ \E o \in N : a = Start(p, d) + o
    /\ \A a \in PoolOffsets :
         \/ kmem_storage'[a] = kmem_storage[a]
         \/ \E o \in N : a + VBASE = Start(p, d) + o

\* After such a step everything that is known of any region is still right.
LEMMA BytesChange ==
    ASSUME Types, ~overflowed, CarvedInv, ApartInv, UserInv, KnownInv,
           UNCHANGED <<symrgtbl, mapped>>,
           NEW p \in Procs, NEW d \in Rgids, NEW N, ChangesOnly(p, d, N)
    PROVE  KnownInv'
<1> SUFFICES ASSUME NEW q \in Procs, NEW t \in Rgids, NEW o \in Offsets, known'[q][t][o] # Unknown
             PROVE  /\ o < End(q, t)' - Start(q, t)'
                    /\ ByteAt(q, Start(q, t) + o)' = known'[q][t][o]
  BY DEF KnownInv
<1>0. Start(q, t)' = Start(q, t) /\ End(q, t)' = End(q, t)
  BY DEF Start, End
<1>1. CASE p = q /\ d = t /\ o \in N
  <2> DEFINE a == Start(q, t) + o
  <2>1. a' = a
    BY <1>0
  <2>2. \/ kmem_addr_is_kernel(a) /\ known'[q][t][o] = kmem_storage'[a - VBASE]
        \/ ~kmem_addr_is_kernel(a) /\ a \in mapped[q] /\ known'[q][t][o] = user'[q][a]
    BY <1>1 DEF ChangesOnly
  <2>3. o < End(q, t) - Start(q, t)
    BY <1>1 DEF ChangesOnly
  <2> HIDE DEF a
  <2>4. ByteAt(q, a)' = known'[q][t][o]
    BY <2>1, <2>2 DEF ByteAt, kmem_addr_is_kernel
  <2> QED
    BY <1>0, <2>3, <2>4 DEF a
<1>2. CASE ~(p = q /\ d = t /\ o \in N)
  <2>1. known'[q][t][o] = known[q][t][o]
    BY <1>2 DEF ChangesOnly
  <2>2. o < End(q, t) - Start(q, t) /\ ByteAt(q, Start(q, t) + o) = known[q][t][o]
    BY <2>1 DEF KnownInv
  <2> DEFINE a == Start(q, t) + o
  <2>3. o \in Nat /\ Start(q, t) \in Int /\ Start(p, d) \in Int /\ VBASE \in Int
    BY KmemAssumption, Located DEF Offsets, UserAddrs, PoolOffsets
  <2>4. ASSUME NEW x \in N, a = Start(p, d) + x
        PROVE  p # q /\ IsUser(q, t)
    <3>1. x \in Nat /\ x < End(p, d) - Start(p, d)
      BY DEF ChangesOnly
    <3>2. p # q \/ d # t
      BY <1>2, <2>3, <2>4, <3>1
    <3> QED
      BY <2>2, <2>3, <2>4, <3>1, <3>2, ApartAddrs
  <2>5. \/ IsUser(q, t) /\ ~kmem_addr_is_kernel(a) /\ a \in UserAddrs
        \/ IsKernel(q, t) /\ kmem_addr_is_kernel(a) /\ a - VBASE \in PoolOffsets
    BY <2>2, <2>3, Places
  <2>6. a \in Int
    BY <2>3
  <2> HIDE DEF a
  <2>7. ByteAt(q, a)' = ByteAt(q, a)
    <3>0. a' = a
      BY <1>0 DEF a
    <3>1. CASE IsUser(q, t) /\ ~kmem_addr_is_kernel(a) /\ a \in UserAddrs
      <4>1. user'[q][a] = user[q][a]
        BY <2>4, <3>1 DEF ChangesOnly
      <4> QED
        BY <3>0, <3>1, <4>1 DEF ByteAt, kmem_addr_is_kernel
    <3>2. CASE IsKernel(q, t) /\ kmem_addr_is_kernel(a) /\ a - VBASE \in PoolOffsets
      <4>1. ~IsUser(q, t) /\ (a - VBASE) + VBASE = a
        BY <2>3, <2>6, <3>2 DEF IsUser, IsKernel
      <4>2. kmem_storage'[a - VBASE] = kmem_storage[a - VBASE]
        BY <2>4, <3>2, <4>1 DEF ChangesOnly
      <4> QED
        BY <3>0, <3>2, <4>2 DEF ByteAt, kmem_addr_is_kernel
    <3> QED
      BY <2>5, <3>1, <3>2
  <2> QED
    BY <1>0, <2>1, <2>2, <2>7 DEF a
<1> QED
  BY <1>1, <1>2

\* A write changes one byte within a user region (__write, __resolve_rg_addr).
LEMMA WriteKeeps ==
    ASSUME IInv, NEW p \in Procs, NEW r \in Rgids, NEW o \in UserAddrs, Write(p, r, o)
    PROVE  IInv'
<1> DEFINE a == Start(p, r) + o
<1>0. /\ Types /\ Inside(symrgtbl[p][r].rg, o) /\ IsUser(p, r) /\ a \in mapped[p]
      /\ user' = [user EXCEPT ![p][a] = p] /\ known' = [known EXCEPT ![p][r][o] = p]
      /\ UNCHANGED <<symrgtbl, sbrk, vm_freerg, mapped, kmem_brk, kmem_pools, kmem_storage, live,
                     overflowed, trespassed>>
  BY DEF IInv, Write, uvars, kvars, Start, IsUser
<1>1. /\ user \in [Procs -> [UserAddrs -> Byte]] /\ mapped \in [Procs -> SUBSET UserAddrs]
      /\ known \in [Procs -> [Rgids -> [Offsets -> Byte \cup {Unknown}]]]
      /\ p \in Byte /\ o \in Offsets /\ o \in Nat /\ MaxBrk \in Nat /\ VBASE \in Nat
  <2>1. MaxBrk \in Nat /\ VBASE \in Nat
    BY KmemAssumption
  <2>2. o \in Nat /\ o \in Offsets /\ p \in Byte
    BY <2>1 DEF Byte, Offsets, UserAddrs
  <2> QED
    BY <1>0, <2>1, <2>2 DEF Types, TypeOK
<1>2. a \in UserAddrs
  BY <1>0, <1>1
<1> HIDE DEF a
<1>3. /\ user' \in [Procs -> [UserAddrs -> Byte]] /\ user'[p][a] = p
      /\ \A q \in Procs, b \in UserAddrs : (q # p \/ b # a) => user'[q][b] = user[q][b]
  BY <1>0, <1>1, <1>2
<1>4. /\ known' \in [Procs -> [Rgids -> [Offsets -> Byte \cup {Unknown}]]] /\ known'[p][r][o] = p
      /\ \A q \in Procs, t \in Rgids : (p # q \/ r # t) => known'[q][t] = known[q][t]
      /\ \A u \in Offsets : u # o => known'[p][r][u] = known[p][r][u]
  BY <1>0, <1>1
<1>5. Types'
  <2>1. TypeOK'
    BY <1>0, <1>3 DEF Types, TypeOK
  <2> QED
    BY <1>0, <1>4, <2>1 DEF Types
<1>6. ASSUME ~overflowed' PROVE CarvedInv' /\ ApartInv' /\ UserInv'
  BY <1>0, <1>6, LayoutStays DEF IInv
<1>7. ASSUME ~overflowed', ~trespassed' PROVE KnownInv'
  <2>0. ~overflowed /\ CarvedInv /\ ApartInv /\ UserInv /\ KnownInv
    BY <1>0, <1>7 DEF IInv
  <2>5. o < End(p, r) - Start(p, r)
    <3>1. Start(p, r) <= End(p, r) /\ Start(p, r) \in Int /\ End(p, r) \in Int
      BY <1>0, <2>0, Located DEF UserInv
    <3> QED
      BY <1>0, <3>1 DEF Inside, Start, End
  <2>6. ~kmem_addr_is_kernel(Start(p, r) + o)
    BY <1>0, <1>1, <2>0, <2>5, Places DEF IsUser, IsKernel
  <2>1. /\ ~kmem_addr_is_kernel(Start(p, r) + o) /\ user'[p][Start(p, r) + o] = p
        /\ Start(p, r) + o \in mapped[p]
    BY <1>0, <1>3, <2>6 DEF a
  <2> DEFINE N == {o}
  <2>2. /\ N \subseteq Nat /\ \A u \in N : u < End(p, r) - Start(p, r)
        /\ \A u \in Offsets : u \notin N => known'[p][r][u] = known[p][r][u]
        /\ \A u \in N : /\ ~kmem_addr_is_kernel(Start(p, r) + u) /\ Start(p, r) + u \in mapped[p]
                        /\ known'[p][r][u] = user'[p][Start(p, r) + u]
    BY <1>1, <1>4, <2>1, <2>5
  <2>3. \A q \in Procs, b \in UserAddrs :
           \/ user'[q][b] = user[q][b]
           \/ q = p /\ \E u \in N : b = Start(p, r) + u
    BY <1>3 DEF a
  <2>4. symrgtbl' = symrgtbl /\ \A b \in PoolOffsets :
           \/ kmem_storage'[b] = kmem_storage[b]
           \/ \E u \in N : b + VBASE = Start(p, r) + u
    BY <1>0
  <2> HIDE DEF N
  <2> QED
    <3>1. ChangesOnly(p, r, N)
      BY <1>4, <2>2, <2>3, <2>4, Zenon DEF ChangesOnly
    <3> QED
      BY <1>0, <2>0, <2>4, <3>1, BytesChange
<1> QED
  BY <1>5, <1>6, <1>7 DEF IInv

\* A program learns of n bytes from offset on and of no others (Learn in the copies).
LEMMA Learnt ==
    ASSUME Types, NEW p \in Procs, NEW d \in Rgids, NEW offset \in Nat, NEW n \in Nat, NEW f,
           \A i \in 0 .. n - 1 : f[i] \in Byte,
           known' = [known EXCEPT ![p][d] =
                       [o \in Offsets |-> IF o \in offset .. offset + n - 1 THEN f[o - offset]
                                          ELSE known[p][d][o]]]
    PROVE  /\ known' \in [Procs -> [Rgids -> [Offsets -> Byte \cup {Unknown}]]]
           /\ \A q \in Procs, t \in Rgids : (p # q \/ d # t) => known'[q][t] = known[q][t]
           /\ \A o \in Offsets : o \notin offset .. offset + n - 1 => known'[p][d][o] = known[p][d][o]
           /\ \A o \in Offsets : o \in offset .. offset + n - 1 => known'[p][d][o] = f[o - offset]
<1> DEFINE g == [o \in Offsets |-> IF o \in offset .. offset + n - 1 THEN f[o - offset]
                                   ELSE known[p][d][o]]
<1>0. known \in [Procs -> [Rgids -> [Offsets -> Byte \cup {Unknown}]]]
  BY DEF Types
<1>1. \A o \in offset .. offset + n - 1 : o - offset \in 0 .. n - 1
  OBVIOUS
<1>2. g \in [Offsets -> Byte \cup {Unknown}]
  BY <1>0, <1>1
<1>3. /\ \A o \in Offsets : o \notin offset .. offset + n - 1 => g[o] = known[p][d][o]
      /\ \A o \in Offsets : o \in offset .. offset + n - 1 => g[o] = f[o - offset]
  OBVIOUS
<1>4. known' = [known EXCEPT ![p][d] = g]
  OBVIOUS
<1> HIDE DEF g
<1> QED
  BY <1>0, <1>2, <1>3, <1>4

\* A copy to the kernel, whole or broken off, keeps the invariant (libkmem_copy_from_user).
LEMMA CopyFromKeeps ==
    ASSUME IInv, NEW p \in Procs, NEW s \in Rgids, NEW d \in Rgids, NEW offset \in Nat,
           NEW size \in Nat, libkmem_copy_from_user(p, s, d, offset, size)
    PROVE  IInv'
<1> DEFINE ua == Start(p, s) + offset  ka == Start(p, d) + offset
<1>1. PICK n \in 0 .. size :
        /\ Moved(p, ua, ka, size, n)
        /\ kmem_storage' = [a \in PoolOffsets |->
              IF a + VBASE \in ka .. ka + n - 1 THEN user[p][ua + a + VBASE - ka] ELSE kmem_storage[a]]
        /\ Learn(p, d, offset, n, LAMBDA i : user[p][ua + i])
        /\ Trespass(p, s, d, offset, n)
  BY DEF libkmem_copy_from_user, Start
<1> DEFINE f == [i \in 0 .. n - 1 |-> user[p][ua + i]]
<1>0. /\ Types /\ UNCHANGED <<symrgtbl, sbrk, vm_freerg, mapped, kmem_brk, kmem_pools, user, live, overflowed>>
      /\ n \in Nat
  BY DEF IInv, libkmem_copy_from_user, uvars, kvars
<1>2. /\ Start(p, s) \in Int /\ Start(p, d) \in Int /\ End(p, d) \in Int /\ VBASE \in Nat /\ POOL_SIZE \in Nat
      /\ ua \in Int /\ ka \in Int
  BY <1>0, Located, KmemAssumption
<1>3. \A i \in 0 .. n - 1 : user[p][ua + i] \in Byte /\ kmem_addr_is_kernel(ka + i)
  BY <1>0, <1>1 DEF Moved, Types, TypeOK
<1>4. known' = [known EXCEPT ![p][d] =
                  [o \in Offsets |-> IF o \in offset .. offset + n - 1 THEN f[o - offset]
                                     ELSE known[p][d][o]]]
  <2>1. known' = [known EXCEPT ![p][d] =
                  [o \in Offsets |-> IF o \in offset .. offset + n - 1 THEN user[p][ua + (o - offset)]
                                     ELSE known[p][d][o]]]
    BY <1>1 DEF Learn
  <2>2. \A o \in Offsets : o \in offset .. offset + n - 1 => f[o - offset] = user[p][ua + (o - offset)]
    BY <1>0
  <2> HIDE DEF f, ua, ka
  <2> QED
    BY <2>1, <2>2
<1>5. \A i \in 0 .. n - 1 : f[i] = user[p][ua + i] /\ f[i] \in Byte
  BY <1>3
<1> HIDE DEF f, ua, ka
<1>6. /\ known' \in [Procs -> [Rgids -> [Offsets -> Byte \cup {Unknown}]]]
      /\ \A q \in Procs, t \in Rgids : (p # q \/ d # t) => known'[q][t] = known[q][t]
      /\ \A o \in Offsets : o \notin offset .. offset + n - 1 => known'[p][d][o] = known[p][d][o]
      /\ \A o \in Offsets : o \in offset .. offset + n - 1 => known'[p][d][o] = f[o - offset]
  BY <1>0, <1>4, <1>5, Learnt
<1>7. \A a \in PoolOffsets : kmem_storage'[a] =
          IF a + VBASE - ka \in 0 .. n - 1 THEN f[a + VBASE - ka] ELSE kmem_storage[a]
  <2> SUFFICES ASSUME NEW a \in PoolOffsets
               PROVE  kmem_storage'[a] =
                        IF a + VBASE - ka \in 0 .. n - 1 THEN f[a + VBASE - ka] ELSE kmem_storage[a]
    OBVIOUS
  <2>1. a \in Int
    BY <1>2 DEF PoolOffsets
  <2>2. a + VBASE \in ka .. ka + n - 1 <=> a + VBASE - ka \in 0 .. n - 1
    BY <1>0, <1>2, <2>1
  <2>3. ua + a + VBASE - ka = ua + (a + VBASE - ka)
    BY <1>2, <2>1
  <2> QED
    BY <1>1, <1>5, <2>2, <2>3
<1>8. Types'
  <2>1. kmem_storage' \in [PoolOffsets -> Byte]
    <3>1. kmem_storage \in [PoolOffsets -> Byte]
      BY <1>0 DEF Types, TypeOK
    <3>2. \A a \in PoolOffsets : kmem_storage'[a] \in Byte
      BY <1>5, <1>7, <3>1
    <3> QED
      BY <1>1, <3>2
  <2>2. trespassed' \in BOOLEAN
    BY <1>1 DEF Trespass
  <2>3. TypeOK'
    BY <1>0, <2>1, <2>2 DEF Types, TypeOK
  <2> QED
    BY <1>0, <1>6, <2>3 DEF Types
<1>9. ASSUME ~overflowed' PROVE CarvedInv' /\ ApartInv' /\ UserInv'
  BY <1>0, <1>9, LayoutStays DEF IInv
<1>10. ASSUME ~overflowed', ~trespassed' PROVE KnownInv'
  <2>0. ~overflowed /\ ~trespassed /\ ~Beyond(p, d, offset, n)
    BY <1>0, <1>1, <1>10 DEF Trespass
  <2>1. CarvedInv /\ ApartInv /\ UserInv /\ KnownInv
    BY <2>0 DEF IInv
  <2> DEFINE N == offset .. offset + n - 1
  <2>2. n > 0 => Start(p, d) + offset + n <= End(p, d)
    BY <1>0, <1>2, <2>0 DEF Beyond, Start, End
  <2>3. N \subseteq Nat /\ \A o \in N : o < End(p, d) - Start(p, d)
    BY <1>0, <1>2, <2>2
  <2>4. ASSUME NEW o \in N, o \in Offsets
        PROVE  /\ kmem_addr_is_kernel(Start(p, d) + o)
               /\ known'[p][d][o] = kmem_storage'[(Start(p, d) + o) - VBASE]
    <3> DEFINE b == Start(p, d) + o
    <3>1. o - offset \in 0 .. n - 1 /\ b = ka + (o - offset) /\ b \in Int
      BY <1>0, <1>2, <2>3 DEF ka
    <3>2. kmem_addr_is_kernel(b)
      BY <1>3, <3>1
    <3>3. b - VBASE \in PoolOffsets /\ (b - VBASE) + VBASE - ka = o - offset
      BY <1>2, <3>1, <3>2 DEF kmem_addr_is_kernel, PoolOffsets, ka
    <3> HIDE DEF b
    <3>4. kmem_storage'[b - VBASE] = f[o - offset]
      BY <1>7, <3>1, <3>3
    <3>5. known'[p][d][o] = f[o - offset]
      BY <1>6, <2>4
    <3> QED
      BY <3>2, <3>4, <3>5 DEF b
  <2>5. ASSUME NEW a \in PoolOffsets
        PROVE  \/ kmem_storage'[a] = kmem_storage[a]
               \/ \E o \in N : a + VBASE = Start(p, d) + o
    <3>1. CASE a + VBASE - ka \in 0 .. n - 1
      <4>1. a \in Int
        BY <1>2 DEF PoolOffsets
      <4>2. offset + (a + VBASE - ka) \in N /\ a + VBASE = Start(p, d) + (offset + (a + VBASE - ka))
        BY <1>0, <1>2, <3>1, <4>1 DEF ka
      <4> QED
        BY <4>2
    <3>2. CASE a + VBASE - ka \notin 0 .. n - 1
      BY <1>7, <3>2
    <3> QED
      BY <3>1, <3>2
  <2>6. symrgtbl' = symrgtbl /\ \A q \in Procs, a \in UserAddrs :
           \/ user'[q][a] = user[q][a]
           \/ q = p /\ \E o \in N : a = Start(p, d) + o
    BY <1>0
  <2>7. \A o \in Offsets : o \notin N => known'[p][d][o] = known[p][d][o]
    BY <1>6
  <2> HIDE DEF N
  <2> QED
    <3>1. ChangesOnly(p, d, N)
      BY <1>6, <2>3, <2>4, <2>5, <2>6, <2>7, Zenon DEF ChangesOnly
    <3> QED
      BY <1>0, <2>0, <2>1, <2>6, <3>1, BytesChange
<1> QED
  BY <1>8, <1>9, <1>10 DEF IInv

\* A copy to the user, whole or broken off, keeps the invariant (libkmem_copy_to_user).
LEMMA CopyToKeeps ==
    ASSUME IInv, NEW p \in Procs, NEW s \in Rgids, NEW d \in Rgids, NEW offset \in Nat,
           NEW size \in Nat, libkmem_copy_to_user(p, s, d, offset, size)
    PROVE  IInv'
<1> DEFINE ka == Start(p, s) + offset  ua == Start(p, d) + offset
<1>1. PICK n \in 0 .. size :
        /\ Moved(p, ua, ka, size, n)
        /\ user' = [user EXCEPT ![p] = [a \in UserAddrs |->
              IF a \in ua .. ua + n - 1 THEN kmem_storage[ka + a - ua - VBASE] ELSE user[p][a]]]
        /\ Learn(p, d, offset, n, LAMBDA i : kmem_storage[ka + i - VBASE])
        /\ Trespass(p, s, d, offset, n)
  BY DEF libkmem_copy_to_user, Start
<1> DEFINE f == [i \in 0 .. n - 1 |-> kmem_storage[ka + i - VBASE]]
           new == [a \in UserAddrs |->
              IF a \in ua .. ua + n - 1 THEN kmem_storage[ka + a - ua - VBASE] ELSE user[p][a]]
<1>0. /\ Types /\ n \in Nat
      /\ UNCHANGED <<symrgtbl, sbrk, vm_freerg, mapped, kmem_brk, kmem_pools, kmem_storage, live, overflowed>>
      /\ user' = [user EXCEPT ![p] = new]
  <2>1. user' = [user EXCEPT ![p] = new]
    BY <1>1, Zenon
  <2>2. n \in Nat
    OBVIOUS
  <2> HIDE DEF ua, ka, f, new
  <2> QED
    BY <2>1, <2>2 DEF IInv, libkmem_copy_to_user, uvars, kvars
<1>2. /\ Start(p, s) \in Int /\ Start(p, d) \in Int /\ End(p, d) \in Int /\ VBASE \in Nat /\ POOL_SIZE \in Nat
      /\ ua \in Int /\ ka \in Int /\ MaxBrk \in Nat
  BY <1>0, Located, KmemAssumption
<1>14. IsUser(p, d)
  BY DEF libkmem_copy_to_user, MayCopy, IsUser
<1>3. \A i \in 0 .. n - 1 :
         kmem_storage[ka + i - VBASE] \in Byte /\ ua + i \in UserAddrs /\ ua + i \in mapped[p]
  <2> SUFFICES ASSUME NEW i \in 0 .. n - 1
               PROVE  /\ kmem_storage[ka + i - VBASE] \in Byte
                      /\ ua + i \in UserAddrs /\ ua + i \in mapped[p]
    OBVIOUS
  <2>1. kmem_addr_is_kernel(ka + i) /\ ua + i \in mapped[p]
    BY <1>1 DEF Moved
  <2>2. ka + i - VBASE \in PoolOffsets
    BY <1>2, <2>1 DEF kmem_addr_is_kernel, PoolOffsets
  <2>3. kmem_storage \in [PoolOffsets -> Byte] /\ mapped \in [Procs -> SUBSET UserAddrs]
    BY <1>0 DEF Types, TypeOK
  <2> HIDE DEF ka, ua
  <2> QED
    BY <2>1, <2>2, <2>3
<1>4. known' = [known EXCEPT ![p][d] =
                  [o \in Offsets |-> IF o \in offset .. offset + n - 1 THEN f[o - offset]
                                     ELSE known[p][d][o]]]
  <2>1. known' = [known EXCEPT ![p][d] =
                  [o \in Offsets |-> IF o \in offset .. offset + n - 1
                                     THEN kmem_storage[ka + (o - offset) - VBASE]
                                     ELSE known[p][d][o]]]
    BY <1>1 DEF Learn
  <2>2. \A o \in Offsets : o \in offset .. offset + n - 1 =>
           f[o - offset] = kmem_storage[ka + (o - offset) - VBASE]
    BY <1>0
  <2> HIDE DEF f, ua, ka
  <2> QED
    BY <2>1, <2>2
<1>5. \A i \in 0 .. n - 1 : f[i] = kmem_storage[ka + i - VBASE] /\ f[i] \in Byte
  BY <1>3
<1> HIDE DEF f, ua, ka
<1>6. /\ known' \in [Procs -> [Rgids -> [Offsets -> Byte \cup {Unknown}]]]
      /\ \A q \in Procs, t \in Rgids : (p # q \/ d # t) => known'[q][t] = known[q][t]
      /\ \A o \in Offsets : o \notin offset .. offset + n - 1 => known'[p][d][o] = known[p][d][o]
      /\ \A o \in Offsets : o \in offset .. offset + n - 1 => known'[p][d][o] = f[o - offset]
  BY <1>0, <1>4, <1>5, Learnt
<1>7. \A a \in UserAddrs : new[a] = IF a - ua \in 0 .. n - 1 THEN f[a - ua] ELSE user[p][a]
  <2> SUFFICES ASSUME NEW a \in UserAddrs
               PROVE  new[a] = IF a - ua \in 0 .. n - 1 THEN f[a - ua] ELSE user[p][a]
    OBVIOUS
  <2>1. a \in Int
    BY <1>2 DEF UserAddrs
  <2>2. a \in ua .. ua + n - 1 <=> a - ua \in 0 .. n - 1
    BY <1>0, <1>2, <2>1
  <2>3. ka + a - ua - VBASE = ka + (a - ua) - VBASE
    BY <1>2, <2>1
  <2> QED
    BY <1>5, <2>2, <2>3
<1>8. user \in [Procs -> [UserAddrs -> Byte]]
  BY <1>0 DEF Types, TypeOK
<1>9. new \in [UserAddrs -> Byte]
  <2>1. \A a \in UserAddrs : new[a] \in Byte
    BY <1>5, <1>7, <1>8
  <2> QED
    BY <2>1
<1> HIDE DEF new
<1>10. /\ user' \in [Procs -> [UserAddrs -> Byte]] /\ user'[p] = new
       /\ \A q \in Procs : q # p => user'[q] = user[q]
  BY <1>0, <1>8, <1>9
<1>11. Types'
  <2>1. trespassed' \in BOOLEAN
    BY <1>1 DEF Trespass
  <2>2. TypeOK'
    BY <1>0, <1>10, <2>1 DEF Types, TypeOK
  <2> QED
    BY <1>0, <1>6, <2>2 DEF Types
<1>12. ASSUME ~overflowed' PROVE CarvedInv' /\ ApartInv' /\ UserInv'
  BY <1>0, <1>12, LayoutStays DEF IInv
<1>13. ASSUME ~overflowed', ~trespassed' PROVE KnownInv'
  <2>0. ~overflowed /\ ~trespassed /\ ~Beyond(p, d, offset, n)
    BY <1>0, <1>1, <1>13 DEF Trespass
  <2>1. CarvedInv /\ ApartInv /\ UserInv /\ KnownInv
    BY <2>0 DEF IInv
  <2> DEFINE N == offset .. offset + n - 1
  <2>2. n > 0 => Start(p, d) + offset + n <= End(p, d)
    BY <1>0, <1>2, <2>0 DEF Beyond, Start, End
  <2>3. N \subseteq Nat /\ \A o \in N : o < End(p, d) - Start(p, d)
    BY <1>0, <1>2, <2>2
  <2>4. ASSUME NEW o \in N, o \in Offsets
        PROVE  /\ ~kmem_addr_is_kernel(Start(p, d) + o) /\ Start(p, d) + o \in mapped[p]
               /\ known'[p][d][o] = user'[p][Start(p, d) + o]
    <3> DEFINE b == Start(p, d) + o
    <3>1. o - offset \in 0 .. n - 1 /\ b = ua + (o - offset) /\ b - ua = o - offset /\ b \in Int
      BY <1>0, <1>2, <2>3 DEF ua
    <3>2. b \in UserAddrs /\ b \in mapped[p]
      BY <1>3, <3>1
    <3>3. ~kmem_addr_is_kernel(b)
      BY <1>0, <1>14, <2>0, <2>1, <2>3, Places DEF IsUser, IsKernel
    <3> HIDE DEF b
    <3>4. user'[p][b] = f[o - offset]
      BY <1>7, <1>10, <3>1, <3>2
    <3>5. known'[p][d][o] = f[o - offset]
      BY <1>6, <2>4
    <3> QED
      BY <3>2, <3>3, <3>4, <3>5 DEF b
  <2>5. ASSUME NEW q \in Procs, NEW a \in UserAddrs
        PROVE  \/ user'[q][a] = user[q][a]
               \/ q = p /\ \E o \in N : a = Start(p, d) + o
    <3>1. CASE q = p /\ a - ua \in 0 .. n - 1
      <4>1. a \in Int
        BY <1>2 DEF UserAddrs
      <4>2. offset + (a - ua) \in N /\ a = Start(p, d) + (offset + (a - ua))
        BY <1>0, <1>2, <3>1, <4>1 DEF ua
      <4> QED
        BY <3>1, <4>2
    <3>2. CASE q # p \/ a - ua \notin 0 .. n - 1
      BY <1>7, <1>10, <3>2
    <3> QED
      BY <3>1, <3>2
  <2>6. symrgtbl' = symrgtbl /\ \A a \in PoolOffsets : kmem_storage'[a] = kmem_storage[a]
    BY <1>0
  <2>7. \A o \in Offsets : o \notin N => known'[p][d][o] = known[p][d][o]
    BY <1>6
  <2> HIDE DEF N
  <2> QED
    <3>1. ChangesOnly(p, d, N)
      BY <1>6, <2>3, <2>4, <2>5, <2>6, <2>7, Zenon DEF ChangesOnly
    <3> QED
      BY <1>0, <2>0, <2>1, <2>6, <3>1, BytesChange
<1> QED
  BY <1>11, <1>12, <1>13 DEF IInv

----------------------------------------------------------------------------
(* SYSCALL 17                                                               *)

\* Growing the area for no region keeps the invariant (SYSMEM_INC_OP, inc_vma_limit).
LEMMA SysIncKeeps ==
    ASSUME IInv, NEW p \in Procs, NEW size \in Sizes, SysInc(p, size)
    PROVE  IInv'
<1>0. /\ Types /\ Grow(p, size)
      /\ UNCHANGED <<symrgtbl, known, vm_freerg, kmem_brk, kmem_pools, user, kmem_storage, live, trespassed>>
  BY DEF IInv, SysInc, Grow, kvars, bytes
<1>1. /\ size \in Nat /\ overflowed' \in BOOLEAN
      /\ sbrk' \in [Procs -> 0 .. MaxBrk] /\ sbrk[p] \in Nat /\ sbrk'[p] \in Nat
      /\ sbrk[p] <= sbrk'[p] /\ \A q \in Procs : q # p => sbrk'[q] = sbrk[q]
      /\ mapped' \in [Procs -> SUBSET UserAddrs]
      /\ \A q \in Procs : mapped[q] \subseteq mapped'[q]
      /\ ~overflowed' => ~overflowed /\ sbrk[p] + size <= sbrk'[p] /\ sbrk'[p] <= PageLimit
  BY <1>0, Grows
<1>2. Types'
  <2>1. TypeOK'
    BY <1>0, <1>1 DEF Types, TypeOK
  <2> QED
    BY <1>0, <2>1 DEF Types
<1>3. /\ \A q \in Procs, t \in Rgids :
           /\ IsKernel(q, t)' <=> IsKernel(q, t)
           /\ IsUser(q, t)' <=> IsUser(q, t)
           /\ Start(q, t)' = Start(q, t) /\ End(q, t)' = End(q, t)
      /\ \A k \in PoolIds : Rest(k)' = Rest(k) /\ (PoolOK(k)' <=> PoolOK(k))
  BY <1>0 DEF IsKernel, IsUser, Start, End, Rest, PoolOK
<1>4. ASSUME ~overflowed' PROVE CarvedInv' /\ ApartInv' /\ UserInv'
  <2>0. CarvedInv /\ ApartInv /\ UserInv
    BY <1>1, <1>4 DEF IInv
  <2>1. CarvedInv' /\ ApartInv'
    BY <1>0, <1>3, <2>0 DEF CarvedInv, ApartInv
  <2>2. ASSUME NEW q \in Procs PROVE sbrk[q] \in Int /\ sbrk'[q] \in Int /\ sbrk[q] <= sbrk'[q]
    <3>1. sbrk[q] \in Int /\ sbrk'[q] \in Int
      BY <1>0, <1>1, KmemAssumption DEF Types, TypeOK
    <3> QED
      BY <1>1, <3>1
  <2>3. ASSUME NEW q \in Procs
        PROVE  Within(vm_freerg'[q], 0, sbrk'[q]) /\ Disjoint(vm_freerg'[q]) /\ sbrk'[q] <= PageLimit
    <3>1. Within(vm_freerg[q], 0, sbrk'[q])
      BY <1>0, <2>0, <2>2, AreaGrows
    <3>2. Disjoint(vm_freerg[q]) /\ sbrk[q] <= PageLimit
      BY <2>0 DEF UserInv
    <3>3. sbrk'[q] <= PageLimit
      BY <1>1, <1>4, <3>2
    <3> QED
      BY <1>0, <3>1, <3>2, <3>3
  <2>4. ASSUME NEW q \in Procs, NEW t \in Rgids, IsUser(q, t)'
        PROVE  /\ 0 <= Start(q, t)' /\ Start(q, t)' <= End(q, t)' /\ End(q, t)' <= sbrk'[q]
               /\ Apart(symrgtbl'[q][t].rg, vm_freerg'[q])
    <3>1. /\ 0 <= Start(q, t) /\ Start(q, t) <= End(q, t) /\ End(q, t) <= sbrk[q]
          /\ Apart(symrgtbl[q][t].rg, vm_freerg[q])
      BY <1>3, <2>0, <2>4 DEF UserInv
    <3>2. End(q, t) <= sbrk'[q]
      BY <1>0, <2>2, <3>1, Located
    <3> QED
      BY <1>0, <1>3, <3>1, <3>2
  <2>5. ASSUME NEW q \in Procs, NEW s \in Rgids, NEW t \in Rgids, IsUser(q, s)', IsUser(q, t)', s # t
        PROVE  ~Overlap(symrgtbl'[q][s].rg, symrgtbl'[q][t].rg)
    BY <1>0, <1>3, <2>0, <2>5 DEF UserInv
  <2>6. UserInv'
    BY <2>3, <2>4, <2>5 DEF UserInv
  <2> QED
    BY <2>1, <2>6
<1>5. ASSUME ~overflowed', ~trespassed' PROVE KnownInv'
  <2>1. KnownInv
    BY <1>0, <1>1, <1>5 DEF IInv
  <2> SUFFICES ASSUME NEW q \in Procs, NEW t \in Rgids, NEW o \in Offsets, known'[q][t][o] # Unknown
               PROVE  /\ o < End(q, t)' - Start(q, t)'
                      /\ ByteAt(q, Start(q, t) + o)' = known'[q][t][o]
    BY DEF KnownInv
  <2>2. o < End(q, t) - Start(q, t) /\ ByteAt(q, Start(q, t) + o) = known[q][t][o]
    BY <1>0, <2>1 DEF KnownInv
  <2>3. ByteAt(q, Start(q, t) + o)' = ByteAt(q, Start(q, t) + o)
    BY <1>0, <1>1, <1>3, <2>2 DEF ByteAt, kmem_addr_is_kernel
  <2> QED
    BY <1>0, <1>3, <2>2, <2>3
<1> QED
  BY <1>2, <1>4, <1>5 DEF IInv

\* What is still known after some addresses have been forgotten (Forget).
LEMMA Forgotten ==
    ASSUME Types, NEW q \in Procs, NEW addrs, Forget(q, addrs)
    PROVE  /\ known' \in [Procs -> [Rgids -> [Offsets -> Byte \cup {Unknown}]]]
           /\ \A u \in Procs, t \in Rgids, o \in Offsets : known'[u][t][o] # Unknown =>
                known'[u][t][o] = known[u][t][o] /\ (u # q \/ Start(u, t) + o \notin addrs)
<1> DEFINE new == [r \in Rgids |-> [o \in Offsets |->
                     IF symrgtbl[q][r].rg[1] + o \in addrs THEN Unknown ELSE known[q][r][o]]]
<1>1. known \in [Procs -> [Rgids -> [Offsets -> Byte \cup {Unknown}]]]
  BY DEF Types
<1>2. known' = [known EXCEPT ![q] = new]
  BY DEF Forget
<1>3. new \in [Rgids -> [Offsets -> Byte \cup {Unknown}]]
  BY <1>1
<1>4. \A t \in Rgids, o \in Offsets : new[t][o] # Unknown =>
         new[t][o] = known[q][t][o] /\ Start(q, t) + o \notin addrs
  BY DEF Start
<1> HIDE DEF new
<1>5. known'[q] = new /\ \A u \in Procs : u # q => known'[u] = known[u]
  BY <1>1, <1>2
<1>6. known' \in [Procs -> [Rgids -> [Offsets -> Byte \cup {Unknown}]]]
  BY <1>1, <1>2, <1>3
<1> QED
  BY <1>4, <1>5, <1>6

\* A step that changes the byte or the page at some addresses of a process, and has them
\* forgotten, keeps what is known.
LEMMA ForgetKeeps ==
    ASSUME Types, NEW q \in Procs, NEW addrs, Forget(q, addrs), UNCHANGED <<symrgtbl, kmem_storage>>,
           KnownInv,
           \A u \in Procs, a \in UserAddrs : u # q \/ a \notin addrs =>
              user'[u][a] = user[u][a] /\ (a \in mapped[u] => a \in mapped'[u])
    PROVE  KnownInv'
<1> SUFFICES ASSUME NEW u \in Procs, NEW t \in Rgids, NEW o \in Offsets, known'[u][t][o] # Unknown
             PROVE  /\ o < End(u, t)' - Start(u, t)'
                    /\ ByteAt(u, Start(u, t) + o)' = known'[u][t][o]
  BY DEF KnownInv
<1> DEFINE a == Start(u, t) + o
<1>1. Start(u, t)' = Start(u, t) /\ End(u, t)' = End(u, t)
  BY DEF Start, End
<1>2. known'[u][t][o] = known[u][t][o] /\ (u # q \/ a \notin addrs)
  BY Forgotten
<1>3. o < End(u, t) - Start(u, t) /\ ByteAt(u, a) = known[u][t][o]
  BY <1>2 DEF KnownInv
<1>4. a' = a
  BY <1>1
<1> HIDE DEF a
<1>5. mapped[u] \subseteq UserAddrs
  BY DEF Types, TypeOK
<1>6. kmem_addr_is_kernel(a)' <=> kmem_addr_is_kernel(a)
  BY <1>4 DEF kmem_addr_is_kernel
<1>7. ByteAt(u, a)' = ByteAt(u, a)
  <2>1. CASE kmem_addr_is_kernel(a)
    BY <1>4, <1>6, <2>1 DEF ByteAt
  <2>2. CASE ~kmem_addr_is_kernel(a)
    <3>1. a \in mapped[u]
      BY <1>2, <1>3, <2>2 DEF ByteAt
    <3>2. user'[u][a] = user[u][a] /\ a \in mapped'[u]
      BY <1>2, <1>5, <3>1
    <3> QED
      BY <1>4, <1>6, <2>2, <3>1, <3>2 DEF ByteAt
  <2> QED
    BY <2>1, <2>2
<1> QED
  BY <1>1, <1>2, <1>3, <1>7 DEF a

\* Taking a page out of RAM keeps the invariant (SYSMEM_MAP_OP, vmap_pgd_memset).
LEMMA SysMapKeeps ==
    ASSUME IInv, NEW p \in Procs, NEW n \in {a \div PAGESZ : a \in UserAddrs}, SysMap(p, n)
    PROVE  IInv'
<1> DEFINE page == {a \in UserAddrs : a \div PAGESZ = n}
<1>0. /\ Types /\ mapped' = [mapped EXCEPT ![p] = mapped[p] \ page] /\ Forget(p, page)
      /\ UNCHANGED <<symrgtbl, sbrk, vm_freerg, kmem_brk, kmem_pools, user, kmem_storage, live,
                     overflowed, trespassed>>
  BY DEF IInv, SysMap, kvars, bytes
<1> HIDE DEF page
<1>1. /\ mapped' \in [Procs -> SUBSET UserAddrs] /\ mapped'[p] = mapped[p] \ page
      /\ \A q \in Procs : q # p => mapped'[q] = mapped[q]
  BY <1>0 DEF Types, TypeOK
<1>2. Types'
  <2>1. known' \in [Procs -> [Rgids -> [Offsets -> Byte \cup {Unknown}]]]
    BY <1>0, Forgotten
  <2>2. TypeOK'
    BY <1>0, <1>1 DEF Types, TypeOK
  <2> QED
    BY <1>0, <2>1, <2>2 DEF Types
<1>3. ~overflowed' => CarvedInv' /\ ApartInv' /\ UserInv'
  BY <1>0, LayoutStays DEF IInv
<1>4. ASSUME ~overflowed', ~trespassed' PROVE KnownInv'
  <2>1. KnownInv
    BY <1>0, <1>4 DEF IInv
  <2>2. \A u \in Procs, a \in UserAddrs : u # p \/ a \notin page =>
           user'[u][a] = user[u][a] /\ (a \in mapped[u] => a \in mapped'[u])
    BY <1>0, <1>1
  <2> QED
    BY <1>0, <2>1, <2>2, ForgetKeeps
<1> QED
  BY <1>2, <1>3, <1>4 DEF IInv

\* Writing a byte of RAM keeps the invariant (SYSMEM_IO_WRITE, MEMPHY_write).
LEMMA SysIoWriteKeeps ==
    ASSUME IInv, NEW p \in Procs, NEW q \in Procs, NEW a \in UserAddrs, SysIoWrite(p, q, a)
    PROVE  IInv'
<1>0. /\ Types /\ user' = [user EXCEPT ![q][a] = p] /\ Forget(q, {a})
      /\ UNCHANGED <<symrgtbl, sbrk, vm_freerg, mapped, kmem_brk, kmem_pools, kmem_storage, live,
                     overflowed, trespassed>>
  BY DEF IInv, SysIoWrite, uvars, kvars
<1>1. p \in Byte /\ user \in [Procs -> [UserAddrs -> Byte]]
  BY <1>0 DEF Byte, Types, TypeOK
<1>2. /\ user' \in [Procs -> [UserAddrs -> Byte]]
      /\ \A u \in Procs, b \in UserAddrs : u # q \/ b # a => user'[u][b] = user[u][b]
  BY <1>0, <1>1
<1>3. Types'
  <2>1. known' \in [Procs -> [Rgids -> [Offsets -> Byte \cup {Unknown}]]]
    BY <1>0, Forgotten
  <2>2. TypeOK'
    BY <1>0, <1>2 DEF Types, TypeOK
  <2> QED
    BY <1>0, <2>1, <2>2 DEF Types
<1>4. ~overflowed' => CarvedInv' /\ ApartInv' /\ UserInv'
  BY <1>0, LayoutStays DEF IInv
<1>5. ASSUME ~overflowed', ~trespassed' PROVE KnownInv'
  <2>1. KnownInv
    BY <1>0, <1>5 DEF IInv
  <2>2. \A u \in Procs, b \in UserAddrs : u # q \/ b \notin {a} =>
           user'[u][b] = user[u][b] /\ (b \in mapped[u] => b \in mapped'[u])
    BY <1>0, <1>2
  <2> QED
    BY <1>0, <2>1, <2>2, ForgetKeeps
<1> QED
  BY <1>3, <1>4, <1>5 DEF IInv

----------------------------------------------------------------------------
(* The theorems                                                             *)

\* The state that init_kmem and the first programs find.
LEMMA IInvInit == Init => IInv
<1> SUFFICES ASSUME Init PROVE IInv
  OBVIOUS
<1>0. POOL_SIZE \in Nat /\ INT_MAX \in Nat /\ VBASE \in Nat /\ MaxBrk \in Nat
  BY KmemAssumption, WidthAssumption
<1>1. /\ Unused \in [rg : Int \X Int, mode : {"user", "kernel"}] /\ Unused.mode = "kernel"
      /\ NoPool \in [used : BOOLEAN, size : Int, align : Int, storage : Int, next_slot : Int]
      /\ ~NoPool.used /\ NoPool.next_slot = 0 /\ NoPool.size = 0
      /\ Nothing \in [Offsets -> Byte \cup {Unknown}] /\ \A o \in Offsets : Nothing[o] = Unknown
  BY DEF Unused, NoPool, Nothing
<1>2. <<<<0, 0>>>> \in Seq(Rg) /\ <<<<0, 0>>>> \in Seq(Int \X Int)
  BY DEF Rg
<1>3. /\ Len(<<<<0, 0>>>>) = 1 /\ <<<<0, 0>>>>[1][1] = 0 /\ <<<<0, 0>>>>[1][2] = 0
  OBVIOUS
<1>4. TypeOK
  <2>1. /\ symrgtbl \in [Procs -> [Rgids -> [rg : Int \X Int, mode : {"user", "kernel"}]]]
        /\ kmem_pools \in [PoolIds -> [used : BOOLEAN, size : Int, align : Int,
                                       storage : Int, next_slot : Int]]
    BY <1>1 DEF Init
  <2>2. /\ sbrk \in [Procs -> 0 .. MaxBrk] /\ \A p \in Procs : vm_freerg[p] \in Seq(Int \X Int)
    BY <1>0, <1>2 DEF Init
  <2>5. /\ mapped \in [Procs -> SUBSET UserAddrs] /\ live \subseteq Procs
        /\ overflowed \in BOOLEAN /\ trespassed \in BOOLEAN
    BY DEF Init
  <2>3. user \in [Procs -> [UserAddrs -> Byte]] /\ kmem_storage \in [PoolOffsets -> Byte]
    BY DEF Init, Byte
  <2>4. kmem_brk \in 0 .. POOL_SIZE /\ \A k \in PoolIds : kmem_pools[k].next_slot \in 0 .. kmem_pools[k].size
    BY <1>0, <1>1 DEF Init
  <2> QED
    BY <2>1, <2>2, <2>3, <2>4, <2>5 DEF TypeOK
<1>5. Types
  BY <1>1, <1>2, <1>4 DEF Types, Init
<1>6. /\ \A p \in Procs, r \in Rgids : ~IsKernel(p, r) /\ ~IsUser(p, r)
      /\ \A k \in PoolIds : ~kmem_pools[k].used
  BY <1>1 DEF Init, IsKernel, IsUser
<1>7. CarvedInv /\ ApartInv
  BY <1>6 DEF CarvedInv, ApartInv
<1>8. UserInv
  <2>1. \A p \in Procs : /\ Within(vm_freerg[p], 0, sbrk[p]) /\ Disjoint(vm_freerg[p])
                         /\ sbrk[p] <= PageLimit
    BY <1>3, LimitNat DEF Init, Within, Disjoint
  <2> QED
    BY <1>6, <2>1 DEF UserInv
<1>9. KnownInv
  BY <1>1 DEF Init, KnownInv
<1> QED
  BY <1>5, <1>7, <1>8, <1>9 DEF IInv

\* Every instruction keeps the invariant (cpu.c, libmem.c).
LEMMA IInvNext == IInv /\ [Next]_vars => IInv'
<1> SUFFICES ASSUME IInv, [Next]_vars PROVE IInv'
  OBVIOUS
<1>1. CASE UNCHANGED vars
  <2>1. /\ UNCHANGED <<symrgtbl, sbrk, vm_freerg, mapped, kmem_brk, kmem_pools, user, kmem_storage>>
        /\ UNCHANGED <<live, known, overflowed, trespassed>>
    BY <1>1 DEF vars, uvars, kvars, bytes
  <2>2. Types'
    BY <2>1 DEF IInv, Types, TypeOK
  <2>3. ~overflowed' => CarvedInv' /\ ApartInv' /\ UserInv'
    BY <2>1, LayoutStays DEF IInv
  <2>4. ~overflowed' /\ ~trespassed' => KnownInv'
    BY <2>1, BytesStay DEF IInv
  <2> QED
    BY <2>2, <2>3, <2>4 DEF IInv
<1>2. ASSUME NEW p \in Procs, Instruction(p) PROVE IInv'
  <2>1. CASE Exit(p)
    BY <2>1, ExitKeeps
  <2>2. ASSUME NEW r \in Rgids, Free(p, r) PROVE IInv'
    BY <2>2, FreeKeeps
  <2>3. ASSUME NEW r \in Rgids, NEW size \in Sizes, AllocReuse(p, r, size) PROVE IInv'
    BY <2>3, ReuseKeeps
  <2>4. ASSUME NEW r \in Rgids, NEW size \in Sizes, AllocGrow(p, r, size) PROVE IInv'
    BY <2>4, GrowKeeps
  <2>5. ASSUME NEW r \in Rgids, NEW size \in KSizes, libkmem_malloc(p, size, r) PROVE IInv'
    BY <2>5, MallocKeeps
  <2>6. ASSUME NEW r \in Rgids, NEW k \in PoolIds, libkmem_cache_alloc(p, r, k) PROVE IInv'
    BY <2>6, SlotKeeps
  <2>7. ASSUME NEW r \in Rgids, NEW o \in UserAddrs, Write(p, r, o) PROVE IInv'
    BY <2>7, WriteKeeps
  <2>8. ASSUME NEW r \in Rgids, NEW d \in Rgids, NEW c \in Copies,
               libkmem_copy_from_user(p, r, d, c[1], c[2])
        PROVE  IInv'
    <3>1. c[1] \in Nat /\ c[2] \in Nat
      BY KmemAssumption
    <3> QED
      BY <2>8, <3>1, CopyFromKeeps
  <2>9. ASSUME NEW r \in Rgids, NEW d \in Rgids, NEW c \in Copies,
               libkmem_copy_to_user(p, r, d, c[1], c[2])
        PROVE  IInv'
    <3>1. c[1] \in Nat /\ c[2] \in Nat
      BY KmemAssumption
    <3> QED
      BY <2>9, <3>1, CopyToKeeps
  <2>10. ASSUME NEW k \in PoolIds, NEW size \in KSizes, NEW align \in Aligns,
                libkmem_cache_pool_create(p, size, align, k)
         PROVE  IInv'
    BY <2>10, CreateKeeps
  <2>11. ASSUME NEW size \in Sizes, SysInc(p, size) PROVE IInv'
    BY <2>11, SysIncKeeps
  <2>12. ASSUME NEW n \in {a \div PAGESZ : a \in UserAddrs}, SysMap(p, n) PROVE IInv'
    BY <2>12, SysMapKeeps
  <2>13. ASSUME NEW q \in Procs, NEW a \in UserAddrs, SysIoWrite(p, q, a) PROVE IInv'
    BY <2>13, SysIoWriteKeeps
  <2> QED
    BY <1>2, <2>1, <2>2, <2>3, <2>4, <2>5, <2>6, <2>7, <2>8, <2>9, <2>10, <2>11, <2>12, <2>13
       DEF Instruction
<1> QED
  BY <1>1, <1>2 DEF Next

\* The inductive invariant holds in every state a run can reach.
LEMMA IInvHolds == Spec => []IInv
<1> QED
  BY IInvInit, IInvNext, PTL DEF Spec

\* The bump pointer and every slot counter stay within the pool, and all state within its
\* type, until an argument overflows an int (__kmem_carve, libkmem_cache_alloc).
THEOREM KmemType == Spec => []TypeOK
<1>1. IInv => TypeOK
  BY DEF IInv, Types
<1> QED
  BY <1>1, IInvHolds, PTL

\* Kernel memory is given out once: regions of kmalloc and slots of the cache pools lie in
\* what has been carved and never overlap, whoever holds them (__kmem_carve,
\* libkmem_cache_alloc).
THEOREM KmemPoolDisjoint == Spec => []PoolDisjoint
<1>1. IInv => PoolDisjoint
  <2> SUFFICES ASSUME IInv, ~overflowed
               PROVE  /\ \A x \in KernelRegions : Carved(symrgtbl[x[1]][x[2]].rg)
                      /\ \A k \in PoolIds : kmem_pools[k].used => Carved(Rest(k))
                      /\ \A x, y \in KernelRegions :
                            x # y => ~Overlap(symrgtbl[x[1]][x[2]].rg, symrgtbl[y[1]][y[2]].rg)
                      /\ \A x \in KernelRegions, k \in PoolIds :
                            kmem_pools[k].used => ~Overlap(symrgtbl[x[1]][x[2]].rg, Rest(k))
                      /\ \A j, k \in PoolIds : j # k /\ kmem_pools[j].used /\ kmem_pools[k].used =>
                            ~Overlap(Rest(j), Rest(k))
    BY DEF PoolDisjoint
  <2>0. Types /\ CarvedInv /\ ApartInv
    BY DEF IInv
  <2>1. \A x \in KernelRegions : x[1] \in Procs /\ x[2] \in Rgids /\ IsKernel(x[1], x[2]) /\ x = <<x[1], x[2]>>
    BY DEF KernelRegions, IsKernel
  <2>2. \A x \in KernelRegions : Carved(symrgtbl[x[1]][x[2]].rg)
    BY <2>0, <2>1 DEF CarvedInv, Carved, Start, End
  <2>3. ASSUME NEW k \in PoolIds, kmem_pools[k].used PROVE Carved(Rest(k))
    <3>1. /\ VBASE <= kmem_pools[k].storage
          /\ kmem_pools[k].storage + kmem_pools[k].size <= VBASE + kmem_brk
      BY <2>0, <2>3 DEF CarvedInv, PoolOK
    <3>2. /\ kmem_pools[k].storage \in Int /\ kmem_pools[k].next_slot \in Int /\ VBASE \in Int
          /\ kmem_pools[k].next_slot >= 0
      BY <2>0, PoolFields, KmemAssumption DEF Types, TypeOK
    <3>3. VBASE <= kmem_pools[k].storage + kmem_pools[k].next_slot
      BY <3>1, <3>2
    <3> QED
      BY <3>1, <3>3 DEF Carved, Rest
  <2>4. \A x, y \in KernelRegions :
           x # y => ~Overlap(symrgtbl[x[1]][x[2]].rg, symrgtbl[y[1]][y[2]].rg)
    BY <2>0, <2>1 DEF ApartInv
  <2> QED
    BY <2>0, <2>1, <2>2, <2>3, <2>4 DEF ApartInv
<1> QED
  BY <1>1, IInvHolds, PTL

\* The mode of a descriptor tells on which side its region lies, no user area reaches kernel
\* memory and no free list takes in a kernel address, whatever programs allocate, free and
\* grow, until a size or a page number does not fit an int; no bound on the areas is assumed
\* beyond that (__free, kmem_addr_is_kernel, inc_vma_limit).
THEOREM KmemBoundary == Spec => []KernelBoundary
<1>1. IInv => KernelBoundary
  <2> SUFFICES ASSUME IInv, ~overflowed, NEW p \in Procs
               PROVE  /\ sbrk[p] <= VBASE
                      /\ \A r \in Rgids :
                            \/ symrgtbl[p][r] = Unused
                            \/ /\ symrgtbl[p][r].mode = "user" /\ 0 <= symrgtbl[p][r].rg[1]
                               /\ symrgtbl[p][r].rg[2] <= sbrk[p]
                            \/ symrgtbl[p][r].mode = "kernel" /\ kmem_addr_is_kernel(symrgtbl[p][r].rg[1])
                      /\ \A k \in 1 .. Len(vm_freerg[p]) :
                            0 <= vm_freerg[p][k][1] /\ vm_freerg[p][k][2] <= sbrk[p]
    BY DEF KernelBoundary
  <2>0. Types /\ CarvedInv /\ UserInv
    BY DEF IInv
  <2>1. ASSUME NEW r \in Rgids
        PROVE  \/ symrgtbl[p][r] = Unused
               \/ /\ symrgtbl[p][r].mode = "user" /\ 0 <= symrgtbl[p][r].rg[1]
                  /\ symrgtbl[p][r].rg[2] <= sbrk[p]
               \/ symrgtbl[p][r].mode = "kernel" /\ kmem_addr_is_kernel(symrgtbl[p][r].rg[1])
    <3>1. CASE IsUser(p, r)
      BY <2>0, <3>1 DEF UserInv, Start, End, IsUser
    <3>2. CASE IsKernel(p, r)
      <4>1. VBASE <= Start(p, r) /\ Start(p, r) < End(p, r) /\ End(p, r) <= VBASE + kmem_brk
        BY <2>0, <3>2 DEF CarvedInv
      <4>2. /\ Start(p, r) \in Int /\ End(p, r) \in Int /\ kmem_brk \in 0 .. POOL_SIZE
            /\ VBASE \in Nat /\ POOL_SIZE \in Nat
        BY <2>0, Located, KmemAssumption DEF Types, TypeOK
      <4>3. kmem_addr_is_kernel(Start(p, r))
        BY <4>1, <4>2 DEF kmem_addr_is_kernel
      <4> QED
        BY <3>2, <4>3 DEF IsKernel, Start
    <3>3. CASE ~IsUser(p, r) /\ ~IsKernel(p, r)
      BY <2>0, <3>3, Located DEF IsUser, IsKernel
    <3> QED
      BY <3>1, <3>2, <3>3
  <2>2. \A k \in 1 .. Len(vm_freerg[p]) : 0 <= vm_freerg[p][k][1] /\ vm_freerg[p][k][2] <= sbrk[p]
    BY <2>0 DEF UserInv, Within
  <2>3. sbrk[p] <= VBASE
    <3>1. sbrk[p] \in Int /\ VBASE \in Int /\ sbrk[p] <= PageLimit
      BY <2>0, KmemAssumption DEF UserInv, Types, TypeOK
    <3> QED
      BY <3>1, LimitNat
  <2> QED
    BY <2>1, <2>2, <2>3
<1> QED
  BY <1>1, IInvHolds, PTL

\* A program reads from its regions, user or kernel, what it has written or copied there,
\* whatever the other programs allocate, free, write and copy, until a copy goes beyond the end
\* of a region or a size does not fit an int.  A byte of RAM that some program writes by
\* SYSMEM_IO_WRITE and a page that the program itself marks by SYSMEM_MAP_OP are no longer known
\* (libkmem_copy_from_user, libkmem_copy_to_user, libwrite).
THEOREM KmemKnownBytes == Spec => []KnownBytes
<1>1. IInv => KnownBytes
  <2> SUFFICES ASSUME IInv, ~overflowed, ~trespassed, NEW p \in live, NEW r \in Rgids, NEW o \in Offsets,
                      known[p][r][o] # Unknown
               PROVE  ByteAt(p, symrgtbl[p][r].rg[1] + o) = known[p][r][o]
    BY DEF KnownBytes
  <2>1. KnownInv /\ p \in Procs
    BY DEF IInv, Types, TypeOK
  <2> QED
    BY <2>1 DEF KnownInv, Start
<1> QED
  BY <1>1, IInvHolds, PTL
=============================================================================
