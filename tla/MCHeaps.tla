------------------------------ MODULE MCHeaps ------------------------------
(* A unit is half a list node's alignment.  The heap holds six of the      *)
(* smallest blocks; the layouts have sizes that need padding, that leave a *)
(* rest too small for a node, and an alignment beyond a node's.  The bump  *)
(* allocator's part starts at an odd address: alignment gaps occur, and    *)
(* the heap's end is met with and without them.                            *)
EXTENDS Heaps

MCLayouts ==
    {[size |-> 1, align |-> 1], [size |-> 6, align |-> 2],
     [size |-> 5, align |-> 8]}
=============================================================================
