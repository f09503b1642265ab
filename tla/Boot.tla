-------------------------------- MODULE Boot --------------------------------
(***************************************************************************)
(* init of kernel/src/main.rs, and the first sleep of kernel_main: the     *)
(* composition of Memory, Apic, Pci and Symbols.  One CPU runs it, with    *)
(* interrupts off until the APICs are set up.  Inputs (what the tables and *)
(* registers of the machine hold) are chosen where they are read.          *)
(*                                                                         *)
(* The 8259 PIC and the PIT are external: of the PIC it matters whether    *)
(* all its lines are masked, of the PIT its reload count and the edges of  *)
(* its output, which goes to the PIC's line 0 and the I/O APIC's line 2.   *)
(***************************************************************************)
EXTENDS Apic, Pci, Symbols

CONSTANTS
    Requests,           \* regions the ACPI code maps: [phys, size]
    MaxMaps,            \* bound on its calls of map_physical_region
    AmlPciReads,        \* PCI accesses of the AML: [addr, offset]
    Faults              \* page faults: the instruction and stack pointers, [ip, sp]

(* What apic::init asks map_physical_region for. *)
ApicRequests ==
    [phys : LocalBases, size : {LocalSize}] \cup [phys : IoBases, size : {IoSize}]

(* The heap is so far above the page allocator's first page (75 TB in the  *)
(* code) that the pages handed out do not reach it.                        *)
ASSUME BootAssumption ==
    /\ MaxMaps \in Nat
    /\ Requests \subseteq [phys : Nat, size : Nat]
    /\ \A r \in Requests : r.size > 0
    /\ Faults \subseteq [ip : Nat, sp : Nat]
    /\ \E most \in 0 .. HeapFirst :
        /\ \A r \in Requests \cup ApicRequests : page_count(r) <= most
        /\ PagesFirst + (MaxMaps + 2) * most <= HeapFirst

VARIABLES
    phase,              \* where init, or kernel_main after it, stands
    maps,               \* regions the ACPI code mapped so far
    aml,                \* "ok", or "failed": what the AML interpreter answered
    pic_masked,         \* PICS after disable
    interrupt_flag,     \* the CPU takes interrupts
    reload,             \* the PIT's reload count, by bytes: <<low, high>>
    output,             \* the PIT's output
    TIMER,              \* 0, and 1 from the first timer interrupt on
    fault               \* a page fault's pointers and the name printed for it

boot_vars == <<phase, maps, aml, pic_masked, interrupt_flag, reload, output, TIMER, fault>>

vars == <<memory_vars, apic_vars, pci_vars, boot_vars>>

NoFault == [ip |-> 0, sp |-> 0, name |-> NoName]

Init ==
    /\ MemoryInit /\ ApicInit /\ PciInit
    /\ phase = "pit"
    /\ maps = 0 /\ aml = "ok"
    /\ pic_masked = FALSE       \* PICS.initialize leaves the masks as they were
    /\ interrupt_flag = FALSE
    /\ reload = <<0, 0>> /\ output = FALSE
    /\ TIMER = 0
    /\ fault = NoFault

(* The order of init. *)
Advance(from, to) == phase = from /\ phase' = to

-----------------------------------------------------------------------------

BASE_FREQUENCY == 1193182

(* write_reload_count: the two bytes of the count, the low one first. *)
write_reload_count(count) == reload' = <<count % 256, (count \div 256) % 256>>

set_frequency(frequency) == write_reload_count(BASE_FREQUENCY \div frequency)

(* pit::init *)
PitInit ==
    /\ Advance("pit", "heap")
    /\ set_frequency(1000)
    /\ UNCHANGED <<memory_vars, apic_vars, pci_vars>>
    /\ UNCHANGED <<maps, aml, pic_masked, interrupt_flag, output, TIMER, fault>>

InitHeap ==
    /\ phase = "heap" /\ HeapStep
    /\ phase' = IF pc' = "idle" THEN "acpi" ELSE "heap"
    /\ UNCHANGED <<apic_vars, pci_vars>>
    /\ UNCHANGED <<maps, aml, pic_masked, interrupt_flag, reload, output, TIMER, fault>>

(* acpi::init maps tables, and what the AML reads and writes (aml_read,    *)
(* aml_write, parse_table), and drops mappings it does not keep.           *)
AcpiMap ==
    /\ phase = "acpi" /\ maps < MaxMaps
    /\ maps' = maps + 1
    /\ \E r \in Requests : map_physical_region(r)
    /\ UNCHANGED <<apic_vars, pci_vars>>
    /\ UNCHANGED <<phase, aml, pic_masked, interrupt_flag, reload, output, TIMER, fault>>

AcpiDrop ==
    /\ phase = "acpi"
    /\ \E r \in regions : UnmapPhysicalRegion(r)
    /\ UNCHANGED <<apic_vars, pci_vars, boot_vars>>

(* The loops of map_physical_region and unmap_physical_region. *)
MapLoop ==
    /\ MapStep \/ UnmapStep
    /\ UNCHANGED <<apic_vars, pci_vars, boot_vars>>

(* A second access would only overwrite the first one's address. *)
AcpiAmlPci ==
    /\ phase = "acpi" /\ pc = "idle" /\ config_address = <<>>
    /\ \E r \in AmlPciReads : AmlReadPci(r.addr, r.offset)
    /\ UNCHANGED <<memory_vars, apic_vars, boot_vars>>

(* load_acpi or initialize_objects fails, and acpi::init's expect panics. *)
AcpiFails ==
    /\ phase = "acpi" /\ pc = "idle"
    /\ aml' = "failed" /\ Panic
    /\ UNCHANGED <<apic_vars, pci_vars>>
    /\ UNCHANGED <<phase, maps, pic_masked, interrupt_flag, reload, output, TIMER, fault>>

AcpiDone ==
    /\ pc = "idle" /\ Advance("acpi", "apic")
    /\ UNCHANGED <<memory_vars, apic_vars, pci_vars>>
    /\ UNCHANGED <<maps, aml, pic_masked, interrupt_flag, reload, output, TIMER, fault>>

(* apic::init, which has no error to return; the PIC is disabled after it. *)
InitApic ==
    /\ phase = "apic" /\ ApicStep
    /\ UNCHANGED <<pci_vars, boot_vars>>

(* Mutant: as if apic::init had failed. *)
KeepPic ==
    /\ apic_pc = "published" /\ Advance("apic", "enable")
    /\ UNCHANGED <<memory_vars, apic_vars, pci_vars>>
    /\ UNCHANGED <<maps, aml, pic_masked, interrupt_flag, reload, output, TIMER, fault>>

DisablePic ==
    /\ apic_pc = "published" /\ Advance("apic", "enable")
    /\ pic_masked' = TRUE
    /\ UNCHANGED <<memory_vars, apic_vars, pci_vars>>
    /\ UNCHANGED <<maps, aml, interrupt_flag, reload, output, TIMER, fault>>

EnableInterrupts ==
    /\ Advance("enable", "pci")
    /\ interrupt_flag' = TRUE
    /\ \E m \in ConfigSpaces : machine' = m
    /\ UNCHANGED <<memory_vars, apic_vars, config_address, bus, device, found>>
    /\ UNCHANGED <<maps, aml, pic_masked, reload, output, TIMER, fault>>

(* device::init, which is pci::init. *)
InitPci ==
    /\ phase = "pci" /\ (Enumerate \/ NextBus)
    /\ UNCHANGED <<memory_vars, apic_vars, boot_vars>>

InitDone ==
    /\ bus = Buses /\ Advance("pci", "sleep")
    /\ UNCHANGED <<memory_vars, apic_vars, pci_vars>>
    /\ UNCHANGED <<maps, aml, pic_masked, interrupt_flag, reload, output, TIMER, fault>>

-----------------------------------------------------------------------------

(* The local APIC takes interrupts: it is enabled in the MSR, and by the   *)
(* bit 0x100 of the spurious vector register.                              *)
Accepting == msr % PageSize >= MsrEnable /\ (local_regs[SVR] \div 256) % 2 = 1

(* The vectors that a rising edge of the PIT's output raises. *)
Raised ==
    {v \in {Timer} : ~pic_masked}
        \cup {v \in {io_regs[RedirectionEntry(2)].vector} :
                 Accepting /\ ~io_regs[RedirectionEntry(2)].masked}

(* While kernel_main is in sleep's hlt, the PIT's output changes, and the  *)
(* timer's handler counts when its vector is raised.                       *)
PitEdge ==
    /\ phase = "sleep" /\ pc = "idle"
    /\ output' = ~output
    /\ TIMER' = IF output' /\ interrupt_flag /\ Timer \in Raised THEN 1 ELSE TIMER
    /\ UNCHANGED <<memory_vars, apic_vars, pci_vars>>
    /\ UNCHANGED <<phase, maps, aml, pic_masked, interrupt_flag, reload, fault>>

(* page_fault_handler after meta::init: it resolves the stack pointer for  *)
(* the name it prints, and halts.                                          *)
PageFault ==
    /\ phase = "sleep" /\ pc = "idle"
    /\ \E f \in Faults : fault' = [ip |-> f.ip, sp |-> f.sp, name |-> resolve(f.sp)]
    /\ pc' = "fault"
    /\ UNCHANGED <<memory_regions, next, page_table, tables, addr, regions, cur, i>>
    /\ UNCHANGED <<apic_vars, pci_vars>>
    /\ UNCHANGED <<phase, maps, aml, pic_masked, interrupt_flag, reload, output, TIMER>>

(* The hlt_loop of the panic handler and of page_fault_handler. *)
Halted == pc \in {"panic", "fault"} /\ UNCHANGED vars

Step ==
    \/ PitInit \/ InitHeap
    \/ AcpiMap \/ AcpiDrop \/ MapLoop \/ AcpiAmlPci \/ AcpiFails \/ AcpiDone
    \/ InitApic \/ DisablePic \/ EnableInterrupts
    \/ InitPci \/ InitDone

Next == Step \/ PitEdge \/ PageFault \/ Halted

(* The CPU runs init without waiting for anything, and the PIT oscillates. *)
Spec == Init /\ [][Next]_vars /\ WF_vars(Step) /\ WF_vars(PitEdge)

-----------------------------------------------------------------------------

(* The state of every part is well typed, the page tables that map_to adds *)
(* are made of usable frames, and the PIT is given a count for 1000 Hz.    *)
TypeOK ==
    /\ MemoryTypeOK
    /\ phase \in {"pit", "heap", "acpi", "apic", "enable", "pci", "sleep"}
    /\ maps \in 0 .. MaxMaps /\ aml \in {"ok", "failed"}
    /\ apic_pc \in {"new", "local", "io", "read", "lo", "hi", "published"}
    /\ local \in Mappings /\ io \in Mappings
    /\ bus \in 0 .. Buses /\ device \in 0 .. Slots
    /\ fault \in [ip : Nat, sp : Nat, name : Nat]
    /\ phase # "pit" => reload[1] + 256 * reload[2] = 1193

(* init panics only where the machine gives it reason to: the frames run   *)
(* out, the AML fails, there is no I/O APIC or it is not at a page's       *)
(* start, it has fewer than three entries, or more than eight bits can     *)
(* number the registers of (120 in the code).  No page is mapped twice, no *)
(* page to unmap is missing, and no register number overflows before.      *)
PanicsExplained ==
    pc = "panic" =>
        \/ next > 0 /\ allocate_frame(next - 1) = {}
        \/ aml = "failed"
        \/ apic_pc = "io" /\ (io = NoRegion \/ ~Aligned(io.phys, PageSize))
        \/ Len(entries) \in {1, 2}
        \/ RedirBase + 2 * Len(entries) > RegMax + 1

(* Interrupts are enabled last: from then on the PIC is silent, every line *)
(* of the I/O APIC leads to a vector that has a handler of its own (any    *)
(* other meets generic_handler's todo!), and both APICs are published.     *)
InterruptsLast ==
    interrupt_flag =>
        /\ pic_masked /\ apic_pc = "published"
        /\ \A k \in DOMAIN entries :
            LET lo == io_regs[RedirectionEntry(k - 1)] IN
                lo.masked \/ lo.vector \in {Timer, Keyboard, SpuriousIoApic, SpuriousLocalApic}

(* "Function: {:?}": when the instruction that faulted lies in the extent  *)
(* of a symbol that has a name, the name printed is that of such a symbol. *)
FaultNamesFunction ==
    pc = "fault" =>
        \A k \in DOMAIN SymbolTable :
            (Contains(SymbolTable[k], fault.ip) /\ SymbolTable[k].name # NoName) =>
                \E l \in DOMAIN SymbolTable :
                    Contains(SymbolTable[l], fault.ip) /\ SymbolTable[l].name = fault.name

(* init comes to its end, or to a panic or a fault: its loops over pages,  *)
(* entries, devices and buses terminate.                                   *)
BootEnds == <>(phase = "sleep" \/ pc \in {"panic", "fault"})

(* "Halting waits for the timer interrupt": a kernel_main that has come to *)
(* its first sleep sees a timer interrupt, or has a page fault.            *)
TimerWakes == phase = "sleep" ~> (TIMER > 0 \/ pc = "fault")
=============================================================================
