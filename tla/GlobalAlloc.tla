----------------------------- MODULE GlobalAlloc -----------------------------
(***************************************************************************)
(* The contract of core::alloc::GlobalAlloc, which every allocator of the  *)
(* kernel implements: alloc answers null or a block of the heap with the   *)
(* layout's size and alignment that overlaps no block in use; dealloc ends *)
(* the use of a block.  A null answer changes nothing.                     *)
(***************************************************************************)
EXTENDS Regions

CONSTANTS HeapStart, HeapSize, Layouts

VARIABLE live    \* blocks in use: [ptr, layout]

HeapBytes == Extent(HeapStart, HeapSize)

Bytes(b) == Extent(b.ptr, b.layout.size)

GAInit == live = {}

GAAlloc(l) ==
    \E p \in HeapBytes :
        /\ Aligned(p, l.align)
        /\ Extent(p, l.size) \subseteq HeapBytes
        /\ \A b \in live : Extent(p, l.size) \cap Bytes(b) = {}
        /\ live' = live \cup {[ptr |-> p, layout |-> l]}

GADealloc == \E b \in live : live' = live \ {b}

GANext == (\E l \in Layouts : GAAlloc(l)) \/ GADealloc

GASpec == GAInit /\ [][GANext]_live
=============================================================================
