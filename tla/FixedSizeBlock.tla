--------------------------- MODULE FixedSizeBlock ---------------------------
(***************************************************************************)
(* kernel/src/allocator/fixed_size_block.rs, the kernel's global           *)
(* allocator: a free list per block size, and linked_list_allocator::Heap  *)
(* behind them for new blocks and for layouts no block size covers.        *)
(*                                                                         *)
(* The fallback heap is external.  It is known by its contract: it hands   *)
(* out any range it owns that fits the layout, or fails, and takes ranges  *)
(* back; `heap` is the set of addresses it owns.  (Space the crate keeps   *)
(* for its own rounding only makes it fail sooner.)                        *)
(***************************************************************************)
EXTENDS Heap, Sequences

CONSTANT
    BLOCK_SIZES             \* increasing; powers of two in the code

NumLists == Len(BLOCK_SIZES)

Lists == 1 .. NumLists

ASSUME BlockAssumption ==
    /\ BLOCK_SIZES \in Seq(Nat)
    /\ \A k \in Lists : BLOCK_SIZES[k] > 0
    /\ \A l \in Layouts, k \in Lists :
           l.align <= BLOCK_SIZES[k] => BLOCK_SIZES[k] % l.align = 0

VARIABLES
    list_heads,             \* the free lists, head first
    heap                    \* addresses the fallback heap owns

vars == <<list_heads, heap, live>>

(* Mutant: the alignment is not looked at. *)
list_index_by_size(l) ==
    LET fits == {k \in Lists : BLOCK_SIZES[k] >= l.size}
    IN  IF fits = {} THEN 0 ELSE CHOOSE k \in fits : \A j \in fits : k <= j

(* The index of the first block size the layout fits, 0 if there is none. *)
list_index(l) ==
    LET fits == {k \in Lists : BLOCK_SIZES[k] >= l.size /\ BLOCK_SIZES[k] >= l.align}
    IN  IF fits = {} THEN 0 ELSE CHOOSE k \in fits : \A j \in fits : k <= j

Init ==
    /\ list_heads = [k \in Lists |-> <<>>]
    /\ heap = HeapBytes
    /\ live = {}

-----------------------------------------------------------------------------

(* The addresses at which the fallback heap may place a layout. *)
Places(size, align) ==
    {p \in heap : Aligned(p, align) /\ Extent(p, size) \subseteq heap}

(* fallback_alloc succeeding; when it fails alloc answers null and nothing *)
(* changes.                                                                *)
fallback_alloc(l, size, align) ==
    \E p \in Places(size, align) :
        /\ heap' = heap \ Extent(p, size)
        /\ live' = live \cup {Block(p, l)}
        /\ UNCHANGED list_heads

(* Mutant: the block handed out stays in its list. *)
AllocFromListNotUnlinked(l) ==
    LET k == list_index(l) IN
        /\ k # 0 /\ list_heads[k] # <<>>
        /\ live' = live \cup {Block(Head(list_heads[k]), l)}
        /\ UNCHANGED <<list_heads, heap>>

AllocFromList(l) ==
    LET k == list_index(l) IN
        /\ k # 0 /\ list_heads[k] # <<>>
        /\ list_heads' = [list_heads EXCEPT ![k] = Tail(@)]
        /\ live' = live \cup {Block(Head(list_heads[k]), l)}
        /\ UNCHANGED heap

(* The list is empty: a new block, as large and as aligned as its class. *)
AllocNewBlock(l) ==
    LET k == list_index(l) IN
        /\ k # 0 /\ list_heads[k] = <<>>
        /\ fallback_alloc(l, BLOCK_SIZES[k], BLOCK_SIZES[k])

AllocLarge(l) ==
    /\ list_index(l) = 0
    /\ fallback_alloc(l, l.size, l.align)

Alloc(l) == AllocFromList(l) \/ AllocNewBlock(l) \/ AllocLarge(l)

(* Mutant: the block goes to the list of its size, whatever its alignment. *)
DeallocBySize(b) ==
    LET k == list_index([b.layout EXCEPT !.align = 1]) IN
        /\ \/ /\ k # 0
              /\ list_heads' = [list_heads EXCEPT ![k] = <<b.ptr>> \o @]
              /\ UNCHANGED heap
           \/ /\ k = 0
              /\ heap' = heap \cup Extent(b.ptr, b.layout.size)
              /\ UNCHANGED list_heads
        /\ live' = live \ {b}

(* dealloc of a block in use.  The two assertions compare constants: a     *)
(* ListNode is one pointer, the smallest block size.                       *)
Dealloc(b) ==
    LET k == list_index(b.layout) IN
        /\ \/ /\ k # 0
              /\ list_heads' = [list_heads EXCEPT ![k] = <<b.ptr>> \o @]
              /\ UNCHANGED heap
           \/ /\ k = 0
              /\ heap' = heap \cup Extent(b.ptr, b.layout.size)
              /\ UNCHANGED list_heads
        /\ live' = live \ {b}

Next == (\E l \in Layouts : Alloc(l)) \/ (\E b \in live : Dealloc(b))

Spec == Init /\ [][Next]_vars

-----------------------------------------------------------------------------

(* Free-list heads, the fallback heap and the blocks in use all lie in the *)
(* memory given to init.                                                   *)
TypeOK ==
    /\ list_heads \in [Lists -> Seq(HeapBytes)]
    /\ heap \subseteq HeapBytes
    /\ live \subseteq [ptr : HeapBytes, layout : Layouts]

(* What a block in use occupies: its class's size, not its layout's. *)
Owned(b) ==
    LET k == list_index(b.layout)
    IN  Extent(b.ptr, IF k = 0 THEN b.layout.size ELSE BLOCK_SIZES[k])

(* Free-list entries: <<list, position>>. *)
Entries == UNION {{k} \X (1 .. Len(list_heads[k])) : k \in Lists}

Cached(e) == Extent(list_heads[e[1]][e[2]], BLOCK_SIZES[e[1]])

(* Blocks in use, blocks in free lists and the fallback heap are disjoint. *)
Shareless ==
    /\ \A b \in live : Owned(b) \cap heap = {}
    /\ \A b, c \in live : b # c => Owned(b) \cap Owned(c) = {}
    /\ \A e \in Entries :
        /\ Cached(e) \cap heap = {}
        /\ \A b \in live : Cached(e) \cap Owned(b) = {}
        /\ \A f \in Entries : e # f => Cached(e) \cap Cached(f) = {}

(* Every address given to init is in exactly one place, a block in use, a  *)
(* block in a free list or the fallback heap, in spite of dealloc writing  *)
(* its list nodes into returned blocks: none is shared, none is lost, and  *)
(* none lies elsewhere (TypeOK).                                           *)
HeapPartitioned ==
    /\ TypeOK
    /\ Shareless
    /\ HeapBytes = heap \cup (UNION {Owned(b) : b \in live})
                       \cup (UNION {Cached(e) : e \in Entries})

(* The blocks of class k, in use or free. *)
Class(k) ==
    {b.ptr : b \in {c \in live : list_index(c.layout) = k}}
        \cup {list_heads[k][i] : i \in 1 .. Len(list_heads[k])}

(* A block never changes its size: once carved for a block size it serves  *)
(* that size only, for as long as the kernel runs.                         *)
BlocksKeepTheirSize == [][\A k \in Lists : Class(k) \subseteq Class(k)']_vars

Contract == INSTANCE GlobalAlloc

(* The global allocator implements GlobalAlloc: size, alignment, and no    *)
(* overlap with any block in use.                                          *)
ImplementsGlobalAlloc == Contract!GASpec
=============================================================================
