------------------------------- MODULE Heaps -------------------------------
(***************************************************************************)
(* kernel/src/allocator has two allocators beside the global one.  A       *)
(* kernel is built with one of them: the linked list over the whole heap,  *)
(* or the bump allocator over the part of it from BumpStart.               *)
(***************************************************************************)
EXTENDS LinkedList

CONSTANT BumpStart

ASSUME HeapsAssumption == BumpStart \in HeapStart .. (HeapStart + HeapSize)

VARIABLES
    next, allocations,      \* the fields of BumpAllocator
    allocator               \* the one the kernel was built with

heaps_vars == <<free, live, next, allocations, allocator>>

Bump ==
    INSTANCE BumpAllocator
        WITH HeapStart <- BumpStart, HeapSize <- HeapStart + HeapSize - BumpStart

HeapsInit ==
    \/ allocator = "list" /\ Init /\ next = BumpStart /\ allocations = 0
    \/ allocator = "bump" /\ Bump!Init /\ free = <<>>

HeapsNext ==
    \/ allocator = "list" /\ Next /\ UNCHANGED <<next, allocations, allocator>>
    \/ allocator = "bump" /\ Bump!Next /\ UNCHANGED <<free, allocator>>

HeapsSpec == HeapsInit /\ [][HeapsNext]_heaps_vars

-----------------------------------------------------------------------------

(* The counter that decides when the bump allocator's whole heap is free   *)
(* again counts exactly the blocks in use, and `next` never leaves the     *)
(* heap: the reset happens when the last block is returned, neither sooner *)
(* nor never.                                                              *)
BumpCounts == allocator = "bump" => Bump!TypeOK /\ Bump!CountsLive

(* With the linked list, free regions and blocks in use, at the size       *)
(* size_align gave them, share no address: no list node is ever written    *)
(* into a block in use.                                                    *)
ListSharesNothing == allocator = "list" => NothingShared
=============================================================================
