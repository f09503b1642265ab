-------------------------------- MODULE Heap --------------------------------
(* What the allocators of kernel/src/allocator have in common. *)
EXTENDS Regions

CONSTANTS
    HeapStart, HeapSize,    \* the arguments of init
    Layouts                 \* layouts asked for: [size, align], size > 0

ASSUME HeapAssumption ==
    /\ HeapStart \in Nat /\ HeapSize \in Nat
    /\ Layouts \subseteq [size : Nat, align : Nat]
    /\ \A l \in Layouts : l.size > 0 /\ l.align > 0

VARIABLE live               \* blocks handed out and not returned (ghost)

HeapBytes == Extent(HeapStart, HeapSize)

Block(p, l) == [ptr |-> p, layout |-> l]
=============================================================================
