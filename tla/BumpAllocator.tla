--------------------------- MODULE BumpAllocator ---------------------------
(***************************************************************************)
(* kernel/src/allocator/bump.rs: allocations advance `next`; the memory    *)
(* comes back only when the last allocation is returned.                   *)
(***************************************************************************)
EXTENDS Heap, FiniteSets

VARIABLES
    next,                   \* BumpAllocator::next
    allocations             \* BumpAllocator::allocations

vars == <<next, allocations, live>>

heap_end == HeapStart + HeapSize

Init ==
    /\ next = HeapStart
    /\ allocations = 0
    /\ live = {}

(* Mutant: the block is not counted. *)
AllocUncounted(l) ==
    LET alloc_start == align_up(next, l.align)
    IN  /\ alloc_start + l.size <= heap_end
        /\ next' = alloc_start + l.size
        /\ live' = live \cup {Block(alloc_start, l)}
        /\ UNCHANGED allocations

(* alloc; when the heap's end is passed it answers null and changes nothing. *)
Alloc(l) ==
    LET alloc_start == align_up(next, l.align)
        alloc_end == alloc_start + l.size
    IN  /\ alloc_end <= heap_end
        /\ next' = alloc_end
        /\ allocations' = allocations + 1
        /\ live' = live \cup {Block(alloc_start, l)}

(* Mutant: the heap is reset by every dealloc. *)
DeallocResets(b) ==
    /\ allocations' = allocations - 1
    /\ next' = HeapStart
    /\ live' = live \ {b}

(* dealloc, of a block in use as GlobalAlloc demands. *)
Dealloc(b) ==
    /\ allocations' = allocations - 1
    /\ next' = IF allocations' = 0 THEN HeapStart ELSE next
    /\ live' = live \ {b}

Next == (\E l \in Layouts : Alloc(l)) \/ (\E b \in live : Dealloc(b))

Spec == Init /\ [][Next]_vars

-----------------------------------------------------------------------------

(* `next` never leaves the heap, and the counter never wraps below zero.   *)
TypeOK ==
    /\ next \in HeapStart .. heap_end
    /\ allocations \in Nat
    /\ IsFiniteSet(live)
    /\ live \subseteq [ptr : Nat, layout : Layouts]

(* The counter that decides when the whole heap is free again counts       *)
(* exactly the blocks in use: the reset of `next` happens when the last    *)
(* block is returned, neither sooner nor never.                            *)
CountsLive == allocations = Cardinality(live)

Contract == INSTANCE GlobalAlloc

(* The bump allocator implements GlobalAlloc. *)
ImplementsGlobalAlloc == Contract!GASpec
=============================================================================
