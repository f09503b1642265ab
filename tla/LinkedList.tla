----------------------------- MODULE LinkedList -----------------------------
(***************************************************************************)
(* kernel/src/allocator/linked_list.rs: a first-fit allocator over a list  *)
(* of free regions, each holding its own list node.                        *)
(***************************************************************************)
EXTENDS Heap, Sequences

CONSTANTS
    NodeSize, NodeAlign     \* size_of and align_of ListNode: 16 and 8

(* Alignments are powers of two: of any two, one divides the other. *)
ASSUME ListAssumption ==
    /\ NodeSize \in Nat /\ NodeAlign \in Nat /\ NodeAlign > 0
    /\ HeapSize >= NodeSize /\ NodeSize > 0
    /\ Aligned(HeapStart, NodeAlign) /\ Aligned(NodeSize, NodeAlign)
    /\ \A l \in Layouts : l.align % NodeAlign = 0 \/ NodeAlign % l.align = 0

VARIABLE free               \* the free regions [addr, size], head first

vars == <<free, live>>

Region(a, n) == [addr |-> a, size |-> n]

end_addr(r) == r.addr + r.size

Larger(m, n) == IF m >= n THEN m ELSE n

(* size_align: the layout's alignment raised to a node's, its size padded  *)
(* to that alignment and raised to a node's.                               *)
adjusted_align(l) == Larger(l.align, NodeAlign)

adjusted_size(l) == Larger(align_up(l.size, adjusted_align(l)), NodeSize)

Init ==
    /\ free = <<Region(HeapStart, HeapSize)>>
    /\ live = {}

-----------------------------------------------------------------------------

(* Mutant: any rest is accepted. *)
alloc_from_region_any_rest(r, size, align) ==
    align_up(r.addr, align) + size <= end_addr(r)

(* alloc_from_region: the layout fits, and what it leaves at the end is    *)
(* nothing or can hold a node.                                             *)
alloc_from_region(r, size, align) ==
    LET alloc_end == align_up(r.addr, align) + size
        excess_size == end_addr(r) - alloc_end
    IN  /\ alloc_end <= end_addr(r)
        /\ excess_size = 0 \/ excess_size >= NodeSize

(* find_region: the first suitable region of the list. *)
Found(i, size, align) ==
    /\ i \in 1 .. Len(free)
    /\ alloc_from_region(free[i], size, align)
    /\ \A j \in 1 .. (i - 1) : ~alloc_from_region(free[j], size, align)

Without(i) == SubSeq(free, 1, i - 1) \o SubSeq(free, i + 1, Len(free))

(* Mutant: the rest starts after the layout's own size. *)
AllocUnadjustedEnd(l) ==
    LET size == adjusted_size(l)
        align == adjusted_align(l)
    IN  \E i \in 1 .. Len(free) :
            /\ Found(i, size, align)
            /\ LET alloc_start == align_up(free[i].addr, align)
                   alloc_end == alloc_start + l.size
                   excess_size == end_addr(free[i]) - alloc_end
               IN  /\ free' = IF excess_size > 0 THEN <<Region(alloc_end, excess_size)>> \o Without(i)
                              ELSE Without(i)
                   /\ live' = live \cup {Block(alloc_start, l)}

(* Mutant: the rest is not put back. *)
AllocDropsRest(l) ==
    \E i \in 1 .. Len(free) :
        /\ Found(i, adjusted_size(l), adjusted_align(l))
        /\ free' = Without(i)
        /\ live' = live \cup {Block(align_up(free[i].addr, adjusted_align(l)), l)}

(* alloc; when no region is found it answers null and changes nothing.     *)
(* What lies between the region's start and the aligned start is not put   *)
(* back.                                                                   *)
Alloc(l) ==
    LET size == adjusted_size(l)
        align == adjusted_align(l)
    IN  \E i \in 1 .. Len(free) :
            /\ Found(i, size, align)
            /\ LET alloc_start == align_up(free[i].addr, align)
                   alloc_end == alloc_start + size
                   excess_size == end_addr(free[i]) - alloc_end
               IN  /\ free' = IF excess_size > 0
                              THEN <<Region(alloc_end, excess_size)>> \o Without(i)
                              ELSE Without(i)
                   /\ live' = live \cup {Block(alloc_start, l)}

(* dealloc, of a block in use: its region goes to the front, unmerged. *)
Dealloc(b) ==
    /\ free' = <<Region(b.ptr, adjusted_size(b.layout))>> \o free
    /\ live' = live \ {b}

Next == (\E l \in Layouts : Alloc(l)) \/ (\E b \in live : Dealloc(b))

Spec == Init /\ [][Next]_vars

-----------------------------------------------------------------------------

(* Free regions are not empty and, like the blocks in use, lie in the heap. *)
TypeOK ==
    /\ free \in Seq([addr : HeapBytes, size : 1 .. HeapSize])
    /\ live \subseteq [ptr : HeapBytes, layout : Layouts]

RegionBytes(r) == Extent(r.addr, r.size)

Owned(b) == Extent(b.ptr, adjusted_size(b.layout))

(* add_free_region's assertions never fail: every free region is aligned   *)
(* for a ListNode and large enough to hold one, through any splitting,     *)
(* and lies in the heap (TypeOK).                                          *)
RegionsHoldNodes ==
    /\ TypeOK
    /\ \A i \in 1 .. Len(free) :
           Aligned(free[i].addr, NodeAlign) /\ free[i].size >= NodeSize

(* Free regions and blocks in use share no address, so no list node is     *)
(* ever written into a block in use.                                       *)
NothingShared ==
    /\ \A i, j \in 1 .. Len(free) :
           i # j => RegionBytes(free[i]) \cap RegionBytes(free[j]) = {}
    /\ \A b, c \in live : b # c => Owned(b) \cap Owned(c) = {}
    /\ \A i \in 1 .. Len(free), b \in live : RegionBytes(free[i]) \cap Owned(b) = {}

Known ==
    (UNION {RegionBytes(free[i]) : i \in 1 .. Len(free)})
        \cup (UNION {Owned(b) : b \in live})

(* Memory is lost to alignment only: unless a block aligned beyond a list  *)
(* node is handed out, every address known before a change of the list is  *)
(* known after it.                                                         *)
LossOnlyByAlignment ==
    [][(\A b \in live' \ live : b.layout.align <= NodeAlign) => Known' = Known]_free

Contract == INSTANCE GlobalAlloc

(* The linked-list allocator implements GlobalAlloc. *)
ImplementsGlobalAlloc == Contract!GASpec
=============================================================================
