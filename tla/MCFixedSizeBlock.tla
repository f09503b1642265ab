-------------------------- MODULE MCFixedSizeBlock --------------------------
(* Three block sizes and a heap of seven units; layouts that need the      *)
(* class of their alignment rather than of their size, and one too large   *)
(* for any class.                                                          *)
EXTENDS FixedSizeBlock

MCBlockSizes == <<1, 2, 4>>

MCLayouts ==
    {[size |-> 1, align |-> 1], [size |-> 1, align |-> 2],
     [size |-> 3, align |-> 1], [size |-> 5, align |-> 1]}
=============================================================================
