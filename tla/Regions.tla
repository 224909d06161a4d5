------------------------------ MODULE Regions -------------------------------
(***************************************************************************)
(* Lists of free regions, src/src/libmem.c: first fit, cut from the front. *)
(* A region is a pair <<rg_start, rg_end>>, the end exclusive.             *)
(*                                                                         *)
(* Sizes and addresses are addr_t, 64 bits wide, and taken as unbounded;   *)
(* the places where the code keeps one in an int narrow it (Int32).        *)
(***************************************************************************)
EXTENDS Integers, Sequences, SequencesExt

CONSTANTS
    INT_MAX,     \* 2^31 - 1 in the code
    PAGESZ       \* PAGING_PAGESZ (256)

ASSUME WidthAssumption == INT_MAX \in Nat /\ PAGESZ \in Nat \ {0}

\* The int that a sum of ints, or a wider value, becomes.
Int32(x) == ((x + INT_MAX + 1) % (2 * (INT_MAX + 1))) - (INT_MAX + 1)

\* The pages by which inc_vma_limit grows an area: an int.
PagesFor(size) == Int32((size + PAGESZ - 1) \div PAGESZ)

\* Below this address the page numbers fit the int that pg_getpage keeps them in.
PageLimit == (INT_MAX + 1) * PAGESZ

\* enlist_vm_freerg_list refuses an empty region and pushes any other.
enlist_vm_freerg_list(list, rg) == IF rg[1] >= rg[2] THEN list ELSE <<rg>> \o list

\* get_free_vmrg_area gets the size as an int, which may be negative.  The sum is
\* unsigned: below 0 it wraps around to an address that no region reaches.
Fits(rg, size) == 0 <= rg[1] + size /\ rg[1] + size <= rg[2]

\* get_free_vmrg_area on the k-th node, the first that fits: cut the region off
\* its front, or drop the node when nothing is left.  The last node is
\* never dropped but becomes empty.
Carve_short(list, k, size) ==
    IF list[k][1] + size < list[k][2] /\ size > 0
    THEN [list EXCEPT ![k] = <<@[1] + size - 1, @[2]>>]
    ELSE IF k < Len(list) THEN RemoveAt(list, k)
    ELSE [list EXCEPT ![k] = <<@[2], @[2]>>]
Carve(list, k, size) ==
    IF list[k][1] + size < list[k][2] THEN [list EXCEPT ![k] = <<@[1] + size, @[2]>>]
    ELSE IF k < Len(list) THEN RemoveAt(list, k)
    ELSE [list EXCEPT ![k] = <<@[2], @[2]>>]

FirstFit(list, k, size) ==
    /\ Fits(list[k], size)
    /\ \A j \in 1 .. k - 1 : ~Fits(list[j], size)

NoFit(list, size) == \A k \in 1 .. Len(list) : ~Fits(list[k], size)

\* __resolve_rg_addr: the length of the region is an unsigned difference, so one that
\* ends before it starts accepts every offset.
Inside(rg, offset) == rg[2] < rg[1] \/ offset < rg[2] - rg[1]

\* Two regions have an address in common.
Overlap(a, b) == a[1] < b[2] /\ b[1] < a[2]
=============================================================================
