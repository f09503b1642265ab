------------------------------ MODULE Regions ------------------------------
(* Ranges of addresses, and allocator::align_up. *)
EXTENDS Naturals

(* The addresses of the n units from p on. *)
Extent(p, n) == p .. (p + n - 1)

Aligned(p, align) == p % align = 0

(* allocator::align_up *)
align_up(addr, align) ==
    IF addr % align = 0 THEN addr ELSE addr - (addr % align) + align
=============================================================================
