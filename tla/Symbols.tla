------------------------------ MODULE Symbols -------------------------------
(* kernel/src/meta/symbols.rs: the name that page_fault_handler prints. *)
EXTENDS Naturals

CONSTANT SymbolTable    \* the kernel's symbols [value, size, name], in order

ASSUME SymbolAssumption ==
    \A k \in DOMAIN SymbolTable :
        k \in Nat /\ SymbolTable[k] \in [value : Nat, size : Nat, name : Nat]

NoName == 0             \* st_name 0, and resolve's None

(* A symbol resolve's loop does not skip. *)
matches(sym, offset) == ~(sym.value < offset) /\ ~(sym.value + sym.size > offset)

resolve(offset) ==
    LET matching == {k \in DOMAIN SymbolTable : matches(SymbolTable[k], offset)}
        first == CHOOSE k \in matching : \A l \in matching : k <= l
    IN  IF matching = {} THEN NoName ELSE SymbolTable[first].name

(* The address lies in the symbol's extent. *)
Contains(sym, address) == sym.value <= address /\ address < sym.value + sym.size
=============================================================================
