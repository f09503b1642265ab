-------------------------------- MODULE Apic --------------------------------
(***************************************************************************)
(* kernel/src/interrupts/apic: the local APIC is found, mapped and         *)
(* programmed, then the I/O APIC's redirection entries are rewritten, one  *)
(* 32-bit half at a time.                                                  *)
(*                                                                         *)
(* An address counts units of 16 bytes, the spacing of the local APIC's    *)
(* registers: a page has 256.  The registers are external; a half of a     *)
(* redirection entry is [vector, dmode, masked, rest], rest standing for   *)
(* the delivery mode, the status bits, polarity and trigger mode, or the   *)
(* destination alone.                                                      *)
(***************************************************************************)
EXTENDS Memory, Sequences

CONSTANTS
    LocalBases,         \* what find_local_apic_base may answer: the MSR, flag
                        \* bits included, or a MADT override, without them
    IoBases,            \* what find_io_apic_base may answer
    RedirectionTables,  \* the I/O APIC's entries as the firmware left them
    RedirBase, RegMax   \* the first entry's register, 0x10, and u8::MAX

(* Every I/O APIC has an entry. *)
ASSUME ApicAssumption ==
    /\ LocalBases \subseteq Nat /\ IoBases \subseteq Nat
    /\ RedirBase \in Nat /\ RegMax \in Nat
    /\ \A t \in RedirectionTables :
        /\ t \in Seq([lo : [vector : Nat, dmode : {"Physical", "Logical"},
                             masked : BOOLEAN, rest : Nat], hi : Nat])
        /\ Len(t) > 0

LocalSize == 128        \* 0x800
IoSize == 64            \* 0x400
MsrFlags == 144         \* 0x900: the APIC is enabled, this is the boot processor
MsrEnable == 128        \* 0x800
NoIoApic == 0           \* find_io_apic_base's None

Timer == 32
Keyboard == 33
SpuriousIoApic == 39
SpuriousLocalApic == 40

VARIABLES
    apic_pc,    \* where apic::init stands
    msr,        \* IA32_APIC_BASE
    local, io,  \* LocalApic::mapping, IOApic::mapping
    access,     \* accesses to the local APIC, then entries, so far
    local_regs, \* the local APIC's registers that init writes
    astray,     \* a local APIC access met something else (ghost)
    entries,    \* the entries as the firmware left them (ghost)
    io_regs,    \* the I/O APIC's registers from RedirBase on
    entry       \* the entry read_entry built

apic_vars == <<apic_pc, msr, local, io, access, local_regs, astray, entries, io_regs, entry>>

SVR == 15               \* 0x0F0, SpuriousInterruptVector
LvtTimer == 50          \* 0x320
InitialCount == 56      \* 0x380

(* The accesses of initialize, do_test_stuff and init, in order; a read    *)
(* has no value.                                                           *)
Accesses ==
    <<[offset |-> SVR, value |-> <<255>>],
      [offset |-> LvtTimer, value |-> <<Timer>>],
      [offset |-> InitialCount, value |-> <<0>>],
      [offset |-> 57, value |-> <<>>], [offset |-> LvtTimer, value |-> <<>>],
      [offset |-> 53, value |-> <<>>], [offset |-> 54, value |-> <<>>],
      [offset |-> 2, value |-> <<>>], [offset |-> 3, value |-> <<>>]>>

(* The firmware's local APIC accepts interrupts; its timer is masked. *)
ApicInit ==
    /\ apic_pc = "new"
    /\ msr = 0 /\ access = 0
    /\ local = NoRegion /\ io = NoRegion
    /\ local_regs = [reg \in {SVR, LvtTimer, InitialCount} |->
                        IF reg = SVR THEN 271 ELSE IF reg = LvtTimer THEN 65536 ELSE 0]
    /\ astray = FALSE
    /\ entries = <<>> /\ io_regs = <<>> /\ entry = [lo |-> <<>>, hi |-> 0]

(* An assertion, an expect or an overflow check fails. *)
Panic ==
    /\ pc' = "panic"
    /\ UNCHANGED <<memory_regions, next, page_table, tables, addr, regions, cur, i>>

-----------------------------------------------------------------------------

(* LocalApic::new: find the base, write it to the MSR, map the registers. *)
LocalApicNew ==
    /\ apic_pc = "new"
    /\ \E base \in LocalBases :
        /\ msr' = base
        /\ map_physical_region([phys |-> base, size |-> LocalSize])
    /\ local' = cur'
    /\ apic_pc' = "local"
    /\ UNCHANGED <<io, access, local_regs, astray, entries, io_regs, entry>>

(* Mutant: the flag bits in the mapped address are forgotten. *)
offset_from_start(offset) == virtual_start(local) + offset

offset_to_addr(offset) == virtual_start(local) + offset - MsrFlags

(* The register the hardware has at an offset: at the MSR's page. *)
LocalRegister(offset) == (msr \div PageSize) * PageSize + offset

(* LocalApic::read and write.  The assertions on permissions and on the    *)
(* mapping's end hold for these accesses.  Where no page is mapped,        *)
(* page_fault_handler halts.                                               *)
LocalApicAccess ==
    LET a == Accesses[access + 1]
        at == translate_addr(offset_to_addr(a.offset))
        hit == at = LocalRegister(a.offset) /\ msr % PageSize >= MsrEnable
    IN  /\ apic_pc = "local" /\ pc = "idle" /\ access < Len(Accesses)
        /\ astray' = (astray \/ ~hit)
        /\ IF at = Unmapped
           THEN /\ pc' = "fault"
                /\ UNCHANGED <<access, local_regs>>
           ELSE /\ access' = access + 1
                /\ local_regs' = IF hit /\ a.value # <<>>
                                 THEN [local_regs EXCEPT ![a.offset] = a.value[1]]
                                 ELSE local_regs
                /\ UNCHANGED pc
        /\ UNCHANGED <<memory_regions, next, page_table, tables, addr, regions, cur, i>>
        /\ UNCHANGED <<apic_pc, msr, local, io, entries, io_regs, entry>>

-----------------------------------------------------------------------------

(* IOApic::new up to the mapping; without an I/O APIC, expect panics. *)
IOApicNew ==
    /\ apic_pc = "local" /\ pc = "idle" /\ access = Len(Accesses)
    /\ access' = 0
    /\ \E base \in IoBases :
        IF base = NoIoApic
        THEN Panic /\ UNCHANGED io
        ELSE map_physical_region([phys |-> base, size |-> IoSize]) /\ io' = cur'
    /\ apic_pc' = "io"
    /\ UNCHANGED <<msr, local, local_regs, astray, entries, io_regs, entry>>

(* RedirectionEntry(index).as_u8(), before it is cut to eight bits. *)
RedirectionEntry(index) == RedirBase + index * 2

second_part_redir(reg) == reg + 1

(* IOApic::from_addr after the mapping.  One added to the highest entry's  *)
(* number overflows for 256 entries.                                       *)
IOApicFromAddr ==
    /\ apic_pc = "io" /\ pc = "idle"
    /\ IF ~Aligned(io.phys, PageSize)
       THEN Panic /\ UNCHANGED <<apic_pc, entries, io_regs>>
       ELSE \E t \in RedirectionTables :
            /\ entries' = t
            /\ io_regs' = [reg \in Extent(RedirBase, 2 * Len(t)) |->
                LET e == t[((reg - RedirBase) \div 2) + 1]
                IN  IF (reg - RedirBase) % 2 = 0 THEN e.lo ELSE e.hi]
            /\ IF Len(t) > RegMax
               THEN Panic /\ UNCHANGED apic_pc
               ELSE apic_pc' = "read" /\ UNCHANGED memory_vars
    /\ UNCHANGED <<msr, local, io, access, local_regs, astray, entry>>

(* initialize maps entry 2, and then all of them in order. *)
index == IF access = 0 THEN 2 ELSE access - 1

(* Mutant: the destination is four bits wide whatever the mode. *)
four_bits(dmode, value) == value % 16

(* DestinationField::new *)
DestinationField(dmode, value) == IF dmode = "Physical" THEN value % 16 ELSE value

(* read_entry, and the new vector and mask: map, and the body of           *)
(* map_all_to_spurious_vectors.  It panics when there is no such entry,    *)
(* and when its register's number overflows.                               *)
ReadEntry ==
    LET reg == RedirectionEntry(index) IN
        /\ apic_pc = "read" /\ pc = "idle" /\ access <= Len(entries)
        /\ IF index >= Len(entries) \/ second_part_redir(reg) > RegMax
           THEN Panic /\ UNCHANGED <<apic_pc, entry>>
           ELSE LET lo == io_regs[reg]
                    hi == io_regs[second_part_redir(reg)]
                IN  /\ entry' = [lo |-> [lo EXCEPT !.vector = SpuriousIoApic, !.masked = FALSE],
                                 hi |-> DestinationField(lo.dmode, hi)]
                    /\ apic_pc' = "lo"
                    /\ UNCHANGED memory_vars
        /\ UNCHANGED <<msr, local, io, access, local_regs, astray, entries, io_regs>>

(* write_entry's two writes. *)
WriteLo ==
    /\ apic_pc = "lo"
    /\ io_regs' = [io_regs EXCEPT ![RedirectionEntry(index)] = entry.lo]
    /\ apic_pc' = "hi"
    /\ UNCHANGED <<msr, local, io, access, local_regs, astray, entries, entry>>
    /\ UNCHANGED memory_vars

WriteHi ==
    /\ apic_pc = "hi"
    /\ io_regs' = [io_regs EXCEPT ![second_part_redir(RedirectionEntry(index))] = entry.hi]
    /\ access' = access + 1
    /\ apic_pc' = "read"
    /\ UNCHANGED <<msr, local, io, local_regs, astray, entries, entry>>
    /\ UNCHANGED memory_vars

(* initialize ends with reads of all entries; io and local are published. *)
Publish ==
    /\ apic_pc = "read" /\ pc = "idle" /\ access > Len(entries)
    /\ apic_pc' = "published"
    /\ UNCHANGED <<msr, local, io, access, local_regs, astray, entries, io_regs, entry>>
    /\ UNCHANGED memory_vars

ApicStep ==
    \/ LocalApicNew \/ LocalApicAccess
    \/ IOApicNew \/ IOApicFromAddr \/ ReadEntry \/ WriteLo \/ WriteHi \/ Publish

-----------------------------------------------------------------------------

(* When the base comes from the MSR, every access of init to the local     *)
(* APIC reaches the register it names, though the region is mapped from an *)
(* address that has the MSR's flag bits in it and crosses a page; so the   *)
(* three registers end up with the values that initialize writes.          *)
RegistersReached ==
    msr % PageSize = MsrFlags =>
        /\ ~astray
        /\ apic_pc = "local" => pc # "fault"
        /\ apic_pc \notin {"new", "local"} =>
            /\ local_regs[SVR] = 255
            /\ local_regs[LvtTimer] = Timer
            /\ local_regs[InitialCount] = 0

(* Rewriting the I/O APIC's entries half by half changes nothing of an     *)
(* entry but its vector and its mask: at every moment each half is the     *)
(* firmware's or the intended one, the destination stays what it was       *)
(* unless it is a physical one beyond four bits, and after the last write  *)
(* no entry is left out.                                                   *)
EntriesKept ==
    io_regs # <<>> =>
        \A k \in DOMAIN entries :
            LET reg == RedirBase + 2 * (k - 1)
                old == entries[k]
                new == [old.lo EXCEPT !.vector = SpuriousIoApic, !.masked = FALSE]
            IN  /\ io_regs[reg] \in {old.lo, new}
                /\ old.lo.dmode = "Logical" \/ old.hi < 16 => io_regs[reg + 1] = old.hi
                /\ apic_pc = "published" => io_regs[reg] = new
=============================================================================
