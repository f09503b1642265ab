----------------------------- MODULE BootProofs -----------------------------
(***************************************************************************)
(* The safety properties of init: of the frames and pages, of the APICs'   *)
(* registers, of the devices reported and of what init may panic for; for  *)
(* every memory map, heap, set of requests, redirection table, machine and *)
(* symbol table.                                                           *)
(*                                                                         *)
(* BootInv joins the parts of the invariant that are about memory and the  *)
(* APICs with those about the order of init.  Room bounds the page         *)
(* allocator's addr by the calls made; the devices reported are those that *)
(* the cursor of pci::init has passed.                                     *)
(***************************************************************************)
EXTENDS Boot, MachineProofs

(* The most pages that a request takes, so that the heap is not reached. *)
Bounds(most) ==
    /\ \A r \in Requests \cup ApicRequests : page_count(r) <= most
    /\ PagesFirst + (MaxMaps + 2) * most <= HeapFirst

MostPages == CHOOSE most \in 0 .. HeapFirst : Bounds(most)

(* The calls of map_physical_region so far. *)
Calls == maps + (IF apic_pc = "new" THEN 0 ELSE IF apic_pc = "local" THEN 1 ELSE 2)

Room == addr <= PagesFirst + Calls * MostPages

-----------------------------------------------------------------------------

(* How far init, apic::init in it, and the memory operation in that are. *)
Stage ==
    \/ phase = "pit" /\ apic_pc = "new" /\ pc = "heap"
    \/ phase = "heap" /\ apic_pc = "new" /\ pc \in {"heap", "panic"}
    \/ phase = "acpi" /\ apic_pc = "new" /\ pc \in {"idle", "map", "unmap", "panic"}
    \/ phase = "apic" /\ apic_pc = "new" /\ pc = "idle"
    \/ phase = "apic" /\ apic_pc = "local" /\ pc \in {"idle", "map", "panic", "fault"}
    \/ phase = "apic" /\ apic_pc = "io" /\ pc \in {"idle", "map", "panic"}
    \/ phase = "apic" /\ apic_pc = "read" /\ pc \in {"idle", "panic"}
    \/ phase = "apic" /\ apic_pc \in {"lo", "hi", "published"} /\ pc = "idle"
    \/ phase \in {"enable", "pci"} /\ apic_pc = "published" /\ pc = "idle"
    \/ phase = "sleep" /\ apic_pc = "published" /\ pc \in {"idle", "fault"}

ControlInv ==
    /\ Stage
    /\ phase \in {"enable", "pci", "sleep"} => pic_masked
    /\ interrupt_flag => phase \in {"pci", "sleep"}
    /\ PanicsExplained

-----------------------------------------------------------------------------

(* pci::init starts when the machine's devices are known. *)
PciInv ==
    /\ Reported
    /\ phase \notin {"pci", "sleep"} => machine = <<>> /\ bus = 0 /\ device = 0 /\ found = <<>>
    /\ phase \in {"pci", "sleep"} => machine \in ConfigSpaces

BootInv ==
    /\ TypeOK /\ FrameInv /\ PageInv /\ Room
    /\ ControlInv /\ LocalInv /\ IoInv /\ PciInv

-----------------------------------------------------------------------------

(* A request of ACPI or of apic::init is for some units from an address on. *)
LEMMA RequestFacts ==
    ASSUME NEW r \in Requests \cup ApicRequests
    PROVE  IsRequest(r)
<1>1. CASE r \in Requests  BY <1>1, BootAssumption DEF BootAssumption, IsRequest
<1>2. CASE r \in ApicRequests
  <2>1. (r.phys \in LocalBases \/ r.phys \in IoBases) /\ r.size \in {128, 64}
    BY <1>2 DEF ApicRequests, LocalSize, IoSize
  <2>2. LocalBases \subseteq Nat /\ IoBases \subseteq Nat  BY ApicAssumption DEF ApicAssumption
  <2>3. r.phys \in Nat  BY Zenon, <2>1, <2>2
  <2>4. r.size = 128 \/ r.size = 64  BY <2>1
  <2>5. r.size \in Nat /\ r.size > 0  BY <2>4
  <2>. QED  BY <2>3, <2>5 DEF IsRequest
<1>. QED  BY <1>1, <1>2

(* MostPages bounds every request, and the heap is beyond all of them. *)
LEMMA MostPagesFacts ==
    MostPages \in Nat /\ Bounds(MostPages)
<1>1. \E most \in 0 .. HeapFirst : Bounds(most)  BY BootAssumption DEF BootAssumption, Bounds
<1>2. MostPages \in 0 .. HeapFirst /\ Bounds(MostPages)  BY <1>1 DEF MostPages
<1>. QED  BY <1>2, MemoryAssumption DEF MemoryAssumption

(* More calls may take more pages. *)
LEMMA TimesGrows ==
    ASSUME NEW a \in Nat, NEW b \in Nat, NEW m \in Nat, a <= b
    PROVE  a * m \in Nat /\ (a + 1) * m = a * m + m /\ a * m <= b * m
<1>1. PICK d \in Nat : b = a + d  BY b - a \in Nat, b = a + (b - a)
<1>2. b * m = a * m + d * m /\ a * m \in Nat /\ d * m \in Nat /\ b * m \in Nat  BY <1>1
<1>. QED  BY <1>2

(* The pages handed out do not reach the heap. *)
LEMMA BelowHeap ==
    ASSUME TypeOK, Room
    PROVE  addr <= HeapFirst
<1>1. Calls \in Nat /\ MaxMaps + 2 \in Nat /\ Calls <= MaxMaps + 2
  BY BootAssumption DEF TypeOK, Calls, BootAssumption
<1>2. PagesFirst \in Nat /\ HeapFirst \in Nat /\ addr \in Nat
  BY MemoryAssumption DEF MemoryAssumption, TypeOK, MemoryTypeOK
<1>3. PagesFirst + (MaxMaps + 2) * MostPages <= HeapFirst  BY MostPagesFacts DEF Bounds
<1>4. /\ Calls * MostPages \in Nat /\ (MaxMaps + 2) * MostPages \in Nat
      /\ Calls * MostPages <= (MaxMaps + 2) * MostPages
  BY <1>1, MostPagesFacts, TimesGrows
<1>. QED  BY <1>2, <1>3, <1>4 DEF Room

(* Every step of init does one of these, or leaves the memory alone. *)
LEMMA NextMemory ==
    ASSUME Next \/ UNCHANGED vars
    PROVE  MemoryStep
<1>1. ASSUME ApicStep PROVE MemoryStep
  <2>1. ASSUME LocalApicNew PROVE MemoryStep
    <3>1. PICK b \in LocalBases : map_physical_region([phys |-> b, size |-> LocalSize])
      BY <2>1 DEF LocalApicNew
    <3>2. [phys |-> b, size |-> LocalSize] \in ApicRequests  BY DEF ApicRequests
    <3>. QED  BY <3>1, <3>2, RequestFacts DEF MemoryStep
  <2>2. ASSUME IOApicNew PROVE MemoryStep
    <3>1. PICK b \in IoBases : Panic \/ map_physical_region([phys |-> b, size |-> IoSize])
      BY <2>2 DEF IOApicNew
    <3>2. [phys |-> b, size |-> IoSize] \in ApicRequests  BY DEF ApicRequests
    <3>. QED  BY <3>1, <3>2, RequestFacts DEF MemoryStep, Panic
  <2>3. ASSUME LocalApicAccess PROVE MemoryStep  BY <2>3 DEF LocalApicAccess, MemoryStep
  <2>4. ASSUME IOApicFromAddr PROVE MemoryStep
    BY <2>4 DEF IOApicFromAddr, MemoryStep, Panic, memory_vars
  <2>5. ASSUME ReadEntry PROVE MemoryStep  BY <2>5 DEF ReadEntry, MemoryStep, Panic, memory_vars
  <2>6. ASSUME WriteLo \/ WriteHi \/ Publish PROVE MemoryStep
    BY <2>6 DEF WriteLo, WriteHi, Publish, MemoryStep, memory_vars
  <2>. QED  BY <1>1, <2>1, <2>2, <2>3, <2>4, <2>5, <2>6 DEF ApicStep
<1>2. ASSUME UNCHANGED memory_vars PROVE MemoryStep  BY <1>2 DEF memory_vars, MemoryStep
<1>3. CASE InitHeap  BY <1>3 DEF InitHeap, MemoryStep
<1>4. CASE AcpiMap  BY <1>4, RequestFacts DEF AcpiMap, MemoryStep
<1>5. CASE AcpiDrop  BY <1>5 DEF AcpiDrop, MemoryStep
<1>6. CASE MapLoop  BY <1>6 DEF MapLoop, MemoryStep
<1>7. CASE AcpiFails  BY <1>7 DEF AcpiFails, Panic, MemoryStep
<1>8. CASE InitApic  BY <1>1, <1>8 DEF InitApic
<1>9. CASE PageFault  BY <1>9 DEF PageFault, MemoryStep
<1>10. CASE PitInit \/ AcpiAmlPci \/ AcpiDone \/ DisablePic \/ EnableInterrupts
            \/ InitPci \/ InitDone \/ PitEdge
  BY <1>2, <1>10 DEF PitInit, AcpiAmlPci, AcpiDone, DisablePic, EnableInterrupts,
     InitPci, InitDone, PitEdge
<1>11. CASE Halted \/ UNCHANGED vars  BY <1>2, <1>11 DEF Halted, vars
<1>. QED
  BY <1>3, <1>4, <1>5, <1>6, <1>7, <1>8, <1>9, <1>10, <1>11 DEF Next, Step

-----------------------------------------------------------------------------

(* A panic is the end. *)
LEMMA PanicStops ==
    ASSUME Stage, pc = "panic", Next \/ UNCHANGED vars
    PROVE  UNCHANGED vars
<1>1. phase \in {"heap", "acpi", "apic"} /\ apic_pc \in {"new", "local", "io", "read"}  BY DEF Stage
<1>2. ~InitHeap /\ ~AcpiMap /\ ~AcpiDrop
  BY DEF InitHeap, HeapStep, AcpiMap, map_physical_region, AcpiDrop, UnmapPhysicalRegion
<1>3. ~MapLoop  BY DEF MapLoop, MapStep, UnmapStep
<1>4. ~AcpiAmlPci /\ ~AcpiFails /\ ~AcpiDone  BY DEF AcpiAmlPci, AcpiFails, AcpiDone
<1>5. ~InitApic
  <2>1. ~LocalApicNew  BY DEF LocalApicNew, map_physical_region
  <2>2. ~LocalApicAccess /\ ~IOApicNew  BY DEF LocalApicAccess, IOApicNew
  <2>3. ~IOApicFromAddr /\ ~ReadEntry /\ ~Publish  BY DEF IOApicFromAddr, ReadEntry, Publish
  <2>4. ~WriteLo /\ ~WriteHi  BY <1>1 DEF WriteLo, WriteHi
  <2>. QED  BY <2>1, <2>2, <2>3, <2>4 DEF InitApic, ApicStep
<1>6. ~PitInit /\ ~DisablePic /\ ~EnableInterrupts /\ ~InitPci /\ ~InitDone
  BY <1>1 DEF PitInit, DisablePic, EnableInterrupts, InitPci, InitDone, Advance
<1>7. ~PitEdge /\ ~PageFault  BY DEF PitEdge, PageFault
<1>. QED  BY <1>2, <1>3, <1>4, <1>5, <1>6, <1>7 DEF Next, Step, Halted

(* Whatever init does, it panics only for one of the reasons named. *)
LEMMA PanicsInductive ==
    ASSUME BootInv, Next \/ UNCHANGED vars
    PROVE  PanicsExplained'
<1>1. /\ Stage /\ PanicsExplained /\ MemoryTypeOK /\ PageInv /\ addr <= HeapFirst
  BY BelowHeap DEF BootInv, ControlInv, TypeOK
<1>2. CASE pc = "panic"
  <2>1. UNCHANGED vars  BY <1>1, <1>2, PanicStops
  <2>2. UNCHANGED <<memory_regions, next, pc, aml, apic_pc, io, entries>>
    BY <2>1 DEF vars, memory_vars, boot_vars, apic_vars
  <2>3. PICK n : n = next - 1  OBVIOUS
  <2>4. next > 0 => (allocate_frame(next - 1))' = allocate_frame(next - 1)
    <3>1. next > 0 => n \in Nat  BY <1>1, <2>3 DEF MemoryTypeOK
    <3>2. next > 0 => allocate_frame(n)' = allocate_frame(n)  BY <2>2, <3>1, SameMap
    <3>. QED  BY <2>2, <2>3, <3>2 DEF allocate_frame, nth
  <2>. QED  BY <1>1, <1>2, <2>2, <2>4 DEF PanicsExplained
<1>3. SUFFICES ASSUME pc # "panic", pc' = "panic" PROVE PanicsExplained'
  BY <1>2 DEF PanicsExplained
<1>4. CASE InitHeap
  <2>1. HeapStep  BY <1>4 DEF InitHeap
  <2>. QED  BY <1>1, <1>3, <2>1, MemoryPanics DEF PanicsExplained
<1>5. CASE MapLoop
  <2>1. MapStep  BY <1>1, <1>3, <1>5, UnmapStepPages DEF MapLoop
  <2>. QED  BY <1>1, <1>3, <2>1, MemoryPanics DEF PanicsExplained
<1>6. CASE AcpiFails  BY <1>6 DEF AcpiFails, PanicsExplained
<1>7. CASE InitApic
  <2>1. ApicStep  BY <1>7 DEF InitApic
  <2>2. LocalInv /\ IoInv  BY DEF BootInv
  <2>. QED  BY <1>3, <2>1, <2>2, ApicPanics DEF PanicsExplained
<1>8. ~AcpiMap /\ ~AcpiDrop /\ ~PageFault
  BY <1>3 DEF AcpiMap, map_physical_region, AcpiDrop, UnmapPhysicalRegion, PageFault
<1>9. pc' # pc  BY <1>3
<1>10. ~PitInit /\ ~AcpiAmlPci /\ ~AcpiDone /\ ~DisablePic
  BY <1>9 DEF PitInit, AcpiAmlPci, AcpiDone, DisablePic, memory_vars
<1>11. ~EnableInterrupts /\ ~InitPci /\ ~InitDone /\ ~PitEdge
  BY <1>9 DEF EnableInterrupts, InitPci, InitDone, PitEdge, memory_vars
<1>12. ~Halted /\ ~UNCHANGED vars  BY <1>9 DEF Halted, vars, memory_vars
<1>. QED
  BY <1>4, <1>5, <1>6, <1>7, <1>8, <1>10, <1>11, <1>12 DEF Next, Step

(* A CPU that has halted for good changes nothing. *)
LEMMA NothingMoves ==
    ASSUME Halted \/ UNCHANGED vars
    PROVE  /\ UNCHANGED <<memory_regions, next, page_table, tables, addr, regions, cur, i, pc>>
           /\ UNCHANGED <<apic_pc, msr, local, io, access, local_regs, astray,
                          entries, io_regs, entry>>
           /\ UNCHANGED <<phase, maps, aml, pic_masked, interrupt_flag, reload, fault>>
BY Zenon DEF Halted, vars, memory_vars, apic_vars, boot_vars

(* The order of init. *)
LEMMA StageInductive ==
    ASSUME BootInv, Next \/ UNCHANGED vars
    PROVE  /\ Stage'
           /\ phase' \in {"enable", "pci", "sleep"} => pic_masked'
           /\ interrupt_flag' => phase' \in {"pci", "sleep"}
<1>. DEFINE Goal == /\ Stage'
                    /\ phase' \in {"enable", "pci", "sleep"} => pic_masked'
                    /\ interrupt_flag' => phase' \in {"pci", "sleep"}
<1>1. /\ Stage /\ MemoryTypeOK /\ PageInv /\ addr <= HeapFirst
      /\ phase \in {"enable", "pci", "sleep"} => pic_masked
      /\ interrupt_flag => phase \in {"pci", "sleep"}
  BY BelowHeap DEF BootInv, ControlInv, TypeOK
<1>2. CASE PitInit
  BY <1>1, <1>2 DEF PitInit, Advance, Stage, memory_vars, apic_vars
<1>3. CASE InitHeap
  <2>1. HeapStep /\ pc' \in {"heap", "idle", "panic"}  BY <1>1, <1>3, HeapStepPages DEF InitHeap
  <2>. QED  BY <1>1, <1>3, <2>1 DEF InitHeap, Stage, apic_vars
<1>4. CASE AcpiMap  BY <1>1, <1>4 DEF AcpiMap, map_physical_region, Stage, apic_vars
<1>5. CASE AcpiDrop  BY <1>1, <1>5 DEF AcpiDrop, UnmapPhysicalRegion, Stage, apic_vars, boot_vars
<1>6. CASE MapLoop
  <2>1. UNCHANGED <<phase, apic_pc, pic_masked, interrupt_flag>>
    BY <1>6 DEF MapLoop, apic_vars, boot_vars
  <2>2. CASE MapStep
    <3>1. pc = "map" /\ pc' \in {"map", "idle", "panic"}  BY <1>1, <2>2, MapStepPages DEF MapStep
    <3>. QED  BY <1>1, <2>1, <3>1 DEF Stage
  <2>3. CASE UnmapStep
    <3>1. pc = "unmap" /\ pc' \in {"unmap", "idle"}  BY <1>1, <2>3, UnmapStepPages DEF UnmapStep
    <3>. QED  BY <1>1, <2>1, <3>1 DEF Stage
  <2>. QED  BY <1>6, <2>2, <2>3 DEF MapLoop
<1>7. CASE AcpiAmlPci
  BY <1>1, <1>7 DEF AcpiAmlPci, Stage, memory_vars, apic_vars, boot_vars
<1>8. CASE AcpiFails  BY <1>1, <1>8 DEF AcpiFails, Panic, Stage, apic_vars
<1>9. CASE AcpiDone  BY <1>1, <1>9 DEF AcpiDone, Advance, Stage, memory_vars, apic_vars
<1>10. CASE InitApic
  <2>1. phase = "apic" /\ UNCHANGED <<phase, pic_masked, interrupt_flag>> /\ ApicStep
    BY <1>10 DEF InitApic, boot_vars
  <2>2. CASE LocalApicNew  BY <1>1, <2>1, <2>2 DEF LocalApicNew, map_physical_region, Stage
  <2>3. CASE LocalApicAccess  BY <1>1, <2>1, <2>3 DEF LocalApicAccess, Stage
  <2>4. CASE IOApicNew
    BY <1>1, <2>1, <2>4 DEF IOApicNew, Panic, map_physical_region, Stage
  <2>5. CASE IOApicFromAddr
    <3>1. /\ apic_pc = "io" /\ pc = "idle"
          /\ \/ Panic /\ apic_pc' = apic_pc
             \/ apic_pc' = "read" /\ UNCHANGED memory_vars
      BY <2>5 DEF IOApicFromAddr
    <3>. QED  BY <1>1, <2>1, <3>1 DEF Stage, Panic, memory_vars
  <2>6. CASE ReadEntry
    BY <1>1, <2>1, <2>6 DEF ReadEntry, Panic, Stage, memory_vars
  <2>7. CASE WriteLo \/ WriteHi \/ Publish
    BY <1>1, <2>1, <2>7 DEF WriteLo, WriteHi, Publish, Stage, memory_vars
  <2>. QED  BY <2>1, <2>2, <2>3, <2>4, <2>5, <2>6, <2>7 DEF ApicStep
<1>11. CASE DisablePic
  BY <1>1, <1>11 DEF DisablePic, Advance, Stage, memory_vars, apic_vars
<1>12. CASE EnableInterrupts
  BY <1>1, <1>12 DEF EnableInterrupts, Advance, Stage, memory_vars, apic_vars
<1>13. CASE InitPci
  BY <1>1, <1>13 DEF InitPci, Stage, memory_vars, apic_vars, boot_vars
<1>14. CASE InitDone
  BY <1>1, <1>14 DEF InitDone, Advance, Stage, memory_vars, apic_vars
<1>15. CASE PitEdge  BY <1>1, <1>15 DEF PitEdge, Stage, memory_vars, apic_vars
<1>16. CASE PageFault  BY <1>1, <1>16 DEF PageFault, Stage, apic_vars
<1>17. CASE Halted \/ UNCHANGED vars  BY <1>1, <1>17, NothingMoves DEF Stage
<1>. QED
  BY <1>2, <1>3, <1>4, <1>5, <1>6, <1>7, <1>8, <1>9, <1>10, <1>11, <1>12, <1>13, <1>14,
     <1>15, <1>16, <1>17 DEF Next, Step

(* The calls made bound the pages taken. *)
LEMMA RoomInductive ==
    ASSUME BootInv, Next \/ UNCHANGED vars
    PROVE  Room' /\ maps' \in 0 .. MaxMaps
<1>1. /\ maps \in 0 .. MaxMaps /\ MaxMaps \in Nat /\ addr \in Nat /\ PagesFirst \in Nat
      /\ addr <= PagesFirst + Calls * MostPages /\ Stage
      /\ apic_pc \in {"new", "local", "io", "read", "lo", "hi", "published"}
  <2>1. MaxMaps \in Nat /\ PagesFirst \in Nat
    BY Zenon, BootAssumption, MemoryAssumption DEF BootAssumption, MemoryAssumption
  <2>2. TypeOK /\ Room /\ Stage  BY DEF BootInv, ControlInv
  <2>3. addr <= PagesFirst + Calls * MostPages  BY <2>2 DEF Room
  <2>4. /\ maps \in 0 .. MaxMaps /\ addr \in Nat
        /\ apic_pc \in {"new", "local", "io", "read", "lo", "hi", "published"}
    BY <2>2 DEF TypeOK, MemoryTypeOK
  <2>. QED  BY <2>1, <2>2, <2>3, <2>4
<1>2. Calls \in Nat  BY <1>1 DEF Calls
<1>3. ASSUME addr' = addr, Calls' = Calls PROVE Room'  BY <1>1, <1>3 DEF Room
<1>4. ASSUME NEW r \in Requests \cup ApicRequests, map_physical_region(r), Calls' = Calls + 1
      PROVE  Room'
  <2>1. page_count(r) <= MostPages /\ MostPages \in Nat  BY MostPagesFacts DEF Bounds
  <2>2. page_count(r) \in Nat  BY RequestFacts, CountFacts DEF IsRequest
  <2>3. addr' = addr + page_count(r)  BY <1>4 DEF map_physical_region, allocate_n
  <2>4. (Calls + 1) * MostPages = Calls * MostPages + MostPages /\ Calls * MostPages \in Nat
    BY <1>2, <2>1, TimesGrows
  <2>5. addr' <= PagesFirst + (Calls + 1) * MostPages  BY <1>1, <2>1, <2>2, <2>3, <2>4
  <2>. QED  BY <1>4, <2>5 DEF Room
<1>5. ASSUME UNCHANGED <<addr, maps, apic_pc>> PROVE Room' /\ maps' \in 0 .. MaxMaps
  BY <1>1, <1>3, <1>5 DEF Calls
<1>6. CASE AcpiMap
  <2>1. PICK r \in Requests : map_physical_region(r)  BY <1>6 DEF AcpiMap
  <2>2. maps' = maps + 1 /\ maps < MaxMaps /\ apic_pc' = apic_pc  BY <1>6 DEF AcpiMap, apic_vars
  <2>3. Calls' = Calls + 1 /\ maps' \in 0 .. MaxMaps  BY <1>1, <2>2 DEF Calls
  <2>. QED  BY <1>4, <2>1, <2>3
<1>7. CASE InitApic
  <2>1. maps' = maps /\ ApicStep  BY <1>7 DEF InitApic, boot_vars
  <2>2. CASE LocalApicNew
    <3>1. PICK b \in LocalBases : map_physical_region([phys |-> b, size |-> LocalSize])
      BY <2>2 DEF LocalApicNew
    <3>2. [phys |-> b, size |-> LocalSize] \in ApicRequests  BY DEF ApicRequests
    <3>3. Calls' = Calls + 1  BY <1>1, <2>1, <2>2 DEF LocalApicNew, Calls
    <3>. QED  BY <1>1, <1>4, <2>1, <3>1, <3>2, <3>3
  <2>3. CASE IOApicNew
    <3>1. PICK b \in IoBases : Panic \/ map_physical_region([phys |-> b, size |-> IoSize])
      BY <2>3 DEF IOApicNew
    <3>2. [phys |-> b, size |-> IoSize] \in ApicRequests  BY DEF ApicRequests
    <3>3. Calls' = Calls + 1  BY <1>1, <2>1, <2>3 DEF IOApicNew, Calls
    <3>4. CASE Panic
      <4>1. addr' = addr  BY <3>4 DEF Panic
      <4>2. (Calls + 1) * MostPages = Calls * MostPages + MostPages
            /\ Calls * MostPages \in Nat /\ MostPages \in Nat
        BY <1>2, MostPagesFacts, TimesGrows
      <4>3. addr' <= PagesFirst + (Calls + 1) * MostPages  BY <1>1, <4>1, <4>2
      <4>. QED  BY <1>1, <2>1, <3>3, <4>3 DEF Room
    <3>. QED  BY <1>1, <1>4, <2>1, <3>1, <3>2, <3>3, <3>4
  <2>4. CASE LocalApicAccess \/ IOApicFromAddr \/ ReadEntry \/ WriteLo \/ WriteHi \/ Publish
    <3>1. addr' = addr
      BY <2>4 DEF LocalApicAccess, IOApicFromAddr, ReadEntry, WriteLo, WriteHi, Publish,
         Panic, memory_vars
    <3>2. apic_pc' = apic_pc \/ {apic_pc, apic_pc'} \cap {"new", "local"} = {}
      BY <2>4 DEF LocalApicAccess, IOApicFromAddr, ReadEntry, WriteLo, WriteHi, Publish
    <3>3. Calls' = Calls  BY Zenon, <2>1, <3>2 DEF Calls
    <3>. QED  BY <1>1, <1>3, <2>1, <3>1, <3>3
  <2>. QED  BY <2>1, <2>2, <2>3, <2>4 DEF ApicStep
<1>8. CASE PitInit \/ AcpiAmlPci \/ AcpiDone \/ DisablePic \/ EnableInterrupts
  <2>1. CASE PitInit  BY Zenon, <1>5, <2>1 DEF PitInit, memory_vars, apic_vars
  <2>5. CASE AcpiAmlPci
    BY Zenon, <1>5, <2>5 DEF AcpiAmlPci, memory_vars, apic_vars, boot_vars
  <2>2. CASE AcpiDone  BY Zenon, <1>5, <2>2 DEF AcpiDone, memory_vars, apic_vars
  <2>3. CASE DisablePic  BY Zenon, <1>5, <2>3 DEF DisablePic, memory_vars, apic_vars
  <2>4. CASE EnableInterrupts  BY Zenon, <1>5, <2>4 DEF EnableInterrupts, memory_vars, apic_vars
  <2>. QED  BY <1>8, <2>1, <2>2, <2>3, <2>4, <2>5
<1>9. CASE InitPci \/ InitDone \/ PitEdge \/ PageFault \/ Halted \/ UNCHANGED vars
  BY Zenon, <1>5, <1>9 DEF InitPci, InitDone, PitEdge, PageFault, Halted, vars,
     memory_vars, apic_vars, boot_vars
<1>10. CASE InitHeap \/ AcpiDrop
  BY <1>5, <1>10 DEF InitHeap, HeapStep, AcpiDrop, UnmapPhysicalRegion, apic_vars, boot_vars
<1>11. CASE MapLoop \/ AcpiFails
  <2>1. CASE MapLoop  BY <1>5, <2>1 DEF MapLoop, MapStep, UnmapStep, apic_vars, boot_vars
  <2>2. CASE AcpiFails  BY <1>5, <2>2 DEF AcpiFails, Panic, apic_vars
  <2>. QED  BY <1>11, <2>1, <2>2
<1>. QED
  BY <1>6, <1>7, <1>8, <1>9, <1>10, <1>11 DEF Next, Step

-----------------------------------------------------------------------------

(* The local APIC's mapping and registers, whatever init does. *)
LEMMA LocalInductive ==
    ASSUME BootInv, Next \/ UNCHANGED vars
    PROVE  LocalInv'
<1>1. /\ LocalInv /\ Stage /\ MemoryTypeOK /\ PageInv /\ addr <= HeapFirst
  BY BelowHeap DEF BootInv, ControlInv, TypeOK
<1>2. ASSUME apic_pc # "local", UNCHANGED apic_vars PROVE LocalInv'
  BY <1>1, <1>2 DEF LocalInv, apic_vars
<1>3. CASE InitApic
  <2>1. ApicStep  BY <1>3 DEF InitApic
  <2>. QED  BY <1>1, <2>1, LocalStep
<1>4. CASE MapLoop
  <2>1. UNCHANGED apic_vars  BY <1>4 DEF MapLoop
  <2>2. CASE apic_pc = "local"
    <3>1. MapStep  BY <1>1, <1>4, <2>2 DEF MapLoop, UnmapStep, Stage
    <3>2. /\ pc = "map" /\ pc' \in {"map", "idle", "panic"}
          /\ pc' = "idle" => regions' = regions \cup {cur}
          /\ pc' = "map" => cur' = cur
      BY <1>1, <3>1, MapStepPages DEF MapStep
    <3>3. UNCHANGED <<apic_pc, msr, access, local, io, local_regs, astray>>
      BY <2>1 DEF apic_vars
    <3>4. /\ pc' # "fault"
          /\ pc' = "map" => cur' = local /\ access = 0
          /\ pc' = "idle" => local \in regions'
      BY <1>1, <2>2, <3>2 DEF LocalInv
    <3>. QED  BY <1>1, <2>2, <3>3, <3>4 DEF LocalInv
  <2>. QED  BY <1>2, <2>1, <2>2
<1>5. CASE Halted \/ UNCHANGED vars
  <2>1. UNCHANGED <<pc, cur, regions, apic_pc, msr, access, local, io, local_regs, astray>>
    BY Zenon, <1>5, NothingMoves
  <2>. QED  BY <1>1, <2>1 DEF LocalInv
<1>6. CASE PitInit \/ InitHeap \/ AcpiMap \/ AcpiDrop \/ AcpiAmlPci \/ AcpiFails \/ AcpiDone
  <2>1. phase \in {"pit", "heap", "acpi"} /\ UNCHANGED apic_vars
    BY <1>6 DEF PitInit, InitHeap, AcpiMap, AcpiDrop, AcpiAmlPci, AcpiFails, AcpiDone, Advance
  <2>. QED  BY <1>1, <1>2, <2>1 DEF Stage
<1>7. CASE DisablePic \/ EnableInterrupts \/ InitPci \/ InitDone \/ PitEdge \/ PageFault
  <2>1. (apic_pc = "published" \/ phase \in {"enable", "pci", "sleep"}) /\ UNCHANGED apic_vars
    BY <1>7 DEF DisablePic, EnableInterrupts, InitPci, InitDone, PitEdge, PageFault, Advance
  <2>. QED  BY <1>1, <1>2, <2>1 DEF Stage
<1>. QED
  BY <1>3, <1>4, <1>5, <1>6, <1>7 DEF Next, Step

(* The redirection entries, whatever init does. *)
LEMMA IoInductive ==
    ASSUME BootInv, Next \/ UNCHANGED vars
    PROVE  IoInv'
<1>1. IoInv /\ Stage  BY DEF BootInv, ControlInv
<1>2. pc = "panic" => pc' = "panic"
  BY <1>1, PanicStops DEF vars, memory_vars
<1>3. ASSUME UNCHANGED apic_vars PROVE IoInv'
  <2>1. UNCHANGED <<apic_pc, access, entries, io_regs, entry>>  BY <1>3 DEF apic_vars
  <2>2. index' = index /\ \A l : NewLo(l)' = NewLo(l) /\ NewHi(l)' = NewHi(l)
    BY <2>1 DEF index, NewLo, NewHi
  <2>. QED  BY Zenon, <1>1, <1>2, <2>1, <2>2 DEF IoInv, RedirectionEntry, NewLo, NewHi
<1>4. CASE InitApic
  <2>1. ApicStep  BY <1>4 DEF InitApic
  <2>2. LocalInv  BY DEF BootInv
  <2>. QED  BY <1>1, <2>1, <2>2, IoStep
<1>5. CASE ~InitApic
  <2>1. UNCHANGED apic_vars
    <3>1. CASE PitInit \/ InitHeap \/ AcpiMap \/ AcpiDrop \/ MapLoop \/ AcpiAmlPci
               \/ AcpiFails \/ AcpiDone
      BY <3>1 DEF PitInit, InitHeap, AcpiMap, AcpiDrop, MapLoop, AcpiAmlPci, AcpiFails, AcpiDone
    <3>2. CASE DisablePic \/ EnableInterrupts \/ InitPci \/ InitDone \/ PitEdge \/ PageFault
      BY <3>2 DEF DisablePic, EnableInterrupts, InitPci, InitDone, PitEdge, PageFault
    <3>3. CASE Halted \/ UNCHANGED vars  BY <3>3 DEF Halted, vars
    <3>. QED  BY <1>5, <3>1, <3>2, <3>3 DEF Next, Step
  <2>. QED  BY <1>3, <2>1
<1>. QED  BY <1>4, <1>5

-----------------------------------------------------------------------------

(* The devices reported, whatever init does. *)
LEMMA PciInductive ==
    ASSUME BootInv, Next \/ UNCHANGED vars
    PROVE  PciInv'
<1>1. Stage /\ PciInv /\ Reported  BY DEF BootInv, ControlInv, PciInv
<1>2. ASSUME UNCHANGED <<machine, bus, device, found>>,
             (phase' \in {"pci", "sleep"}) <=> (phase \in {"pci", "sleep"})
      PROVE  PciInv'
  <2>2. Reported'  BY <1>1, <1>2, ReportedStays
  <2>. QED  BY <1>1, <1>2, <2>2 DEF PciInv
<1>3. CASE InitPci
  <2>3. phase = "pci" /\ phase' = phase  BY <1>3 DEF InitPci, boot_vars
  <2>4. Enumerate \/ NextBus  BY <1>3 DEF InitPci
  <2>5. machine' = machine  BY Zenon, <2>4 DEF Enumerate, NextBus
  <2>1. phase = "pci" /\ phase' = phase /\ machine' = machine /\ machine \in ConfigSpaces
    BY <1>1, <2>3, <2>5 DEF PciInv
  <2>2. Reported'
    BY <1>1, <2>1, <2>4, EnumerateInductive, NextBusInductive
  <2>. QED  BY <2>1, <2>2 DEF PciInv
<1>4. CASE EnableInterrupts
  <2>1. /\ phase = "enable" /\ phase' = "pci" /\ machine' \in ConfigSpaces
        /\ UNCHANGED <<bus, device, found>>
    BY <1>4 DEF EnableInterrupts, Advance
  <2>2. bus' = 0 /\ device' = 0 /\ found' = <<>>  BY <1>1, <2>1 DEF PciInv
  <2>3. \A a \in OnBus0' : ~(a.device < device')
    <3>1. \A a \in OnBus0' : a.device \in Nat  BY PciAssumption DEF OnBus0, PciAssumption
    <3>. QED  BY <2>2, <3>1
  <2>4. Buses \in Nat /\ Slots \in Nat  BY PciAssumption DEF PciAssumption
  <2>5. 0 \in 0 .. Buses /\ 0 \in 0 .. Slots /\ ~(0 > 0)  BY <2>4
  <2>6. <<>> \in Seq({Identity(a)' : a \in OnBus0'}) /\ DOMAIN <<>> = {}  OBVIOUS
  <2>7. Reported'  BY Zenon, <2>2, <2>3, <2>5, <2>6 DEF Reported
  <2>. QED  BY <2>1, <2>7 DEF PciInv
<1>5. CASE AcpiAmlPci
  <2>1. UNCHANGED <<machine, bus, device, found, phase>>
    BY <1>5 DEF AcpiAmlPci, AmlReadPci, boot_vars
  <2>. QED  BY <1>2, <2>1
<1>6. CASE PitInit \/ InitHeap \/ AcpiMap \/ AcpiDrop \/ AcpiFails \/ AcpiDone
  <2>1. UNCHANGED <<machine, bus, device, found>>
    BY Zenon, <1>6 DEF PitInit, InitHeap, AcpiMap, AcpiDrop, AcpiFails, AcpiDone, pci_vars
  <2>2. phase \in {"pit", "heap", "acpi"} /\ phase' \in {"heap", "acpi", "apic"}
    BY <1>6 DEF PitInit, InitHeap, AcpiMap, AcpiDrop, AcpiFails, AcpiDone, Advance, boot_vars
  <2>. QED  BY <1>2, <2>1, <2>2
<1>7. CASE MapLoop \/ InitApic \/ DisablePic \/ InitDone
  BY <1>2, <1>7 DEF MapLoop, InitApic, DisablePic, InitDone, Advance, pci_vars, boot_vars
<1>8. CASE PitEdge \/ PageFault \/ Halted \/ UNCHANGED vars
  BY <1>2, <1>8 DEF PitEdge, PageFault, Halted, vars, pci_vars, boot_vars
<1>. QED  BY <1>3, <1>4, <1>5, <1>6, <1>7, <1>8 DEF Next, Step

(* A page fault is recorded with its pointers and a name, or none. *)
LEMMA FaultInductive ==
    ASSUME BootInv, Next \/ UNCHANGED vars
    PROVE  fault' \in [ip : Nat, sp : Nat, name : Nat]
<1>1. fault \in [ip : Nat, sp : Nat, name : Nat]  BY DEF BootInv, TypeOK
<1>2. ASSUME fault' = fault PROVE fault' \in [ip : Nat, sp : Nat, name : Nat]
  BY Zenon, <1>1, <1>2
<1>3. CASE PageFault
  <2>1. PICK f \in Faults : fault' = [ip |-> f.ip, sp |-> f.sp, name |-> resolve(f.sp)]
    BY <1>3 DEF PageFault
  <2>2. f.ip \in Nat /\ f.sp \in Nat  BY BootAssumption DEF BootAssumption
  <2>3. resolve(f.sp) \in Nat  BY Zenon, <2>2, ResolveFacts
  <2>. QED  BY <2>1, <2>2, <2>3
<1>4. CASE PitInit \/ InitHeap \/ AcpiMap \/ AcpiDrop \/ MapLoop \/ AcpiAmlPci \/ AcpiFails
           \/ AcpiDone
  BY <1>2, <1>4 DEF PitInit, InitHeap, AcpiMap, AcpiDrop, MapLoop, AcpiAmlPci, AcpiFails,
     AcpiDone, boot_vars
<1>5. CASE InitApic \/ DisablePic \/ EnableInterrupts \/ InitPci \/ InitDone \/ PitEdge
  BY <1>2, <1>5 DEF InitApic, DisablePic, EnableInterrupts, InitPci, InitDone, PitEdge, boot_vars
<1>6. CASE Halted \/ UNCHANGED vars  BY <1>2, <1>6 DEF Halted, vars, boot_vars
<1>. QED  BY <1>3, <1>4, <1>5, <1>6 DEF Next, Step

(* The rest of the type invariant: the PIT's count is written once, and a  *)
(* mapping that apic::init keeps is one that map_physical_region gave it.  *)
LEMMA RestInductive ==
    ASSUME BootInv, Next \/ UNCHANGED vars, cur' \in Mappings
    PROVE  /\ aml' \in {"ok", "failed"}
           /\ local' \in Mappings /\ io' \in Mappings
           /\ phase' # "pit" => reload'[1] + 256 * reload'[2] = 1193
<1>1. /\ aml \in {"ok", "failed"} /\ local \in Mappings /\ io \in Mappings
      /\ phase # "pit" => reload[1] + 256 * reload[2] = 1193
  BY DEF BootInv, TypeOK
<1>2. ASSUME aml' = aml \/ aml' = "failed", reload' = reload, phase # "pit",
             local' = local \/ local' = cur', io' = io \/ io' = cur'
      PROVE  /\ aml' \in {"ok", "failed"}
             /\ local' \in Mappings /\ io' \in Mappings
             /\ phase' # "pit" => reload'[1] + 256 * reload'[2] = 1193
  BY <1>1, <1>2
<1>3. CASE PitInit
  <2>1. (BASE_FREQUENCY \div 1000) = 1193  BY DEF BASE_FREQUENCY
  <2>2. reload' = <<1193 % 256, (1193 \div 256) % 256>>
    BY <1>3, <2>1 DEF PitInit, set_frequency, write_reload_count
  <2>3. 1193 % 256 = 169 /\ (1193 \div 256) % 256 = 4  OBVIOUS
  <2>4. reload'[1] = 169 /\ reload'[2] = 4  BY <2>2, <2>3
  <2>5. UNCHANGED <<aml, local, io>>  BY <1>3 DEF PitInit, apic_vars
  <2>. QED  BY <1>1, <2>4, <2>5
<1>4. CASE InitApic
  <2>1. phase # "pit" /\ aml' = aml /\ reload' = reload /\ ApicStep
    BY <1>4 DEF InitApic, boot_vars
  <2>2. (local' = local \/ local' = cur') /\ (io' = io \/ io' = cur')
    <3>1. CASE LocalApicNew  BY Zenon, <3>1 DEF LocalApicNew
    <3>2. CASE IOApicNew  BY Zenon, <3>2 DEF IOApicNew
    <3>3. ASSUME UNCHANGED <<local, io>>
          PROVE  (local' = local \/ local' = cur') /\ (io' = io \/ io' = cur')
      BY <3>3
    <3>4. CASE LocalApicAccess  BY Zenon, <3>3, <3>4 DEF LocalApicAccess
    <3>5. CASE IOApicFromAddr  BY <3>3, <3>5 DEF IOApicFromAddr
    <3>6. CASE ReadEntry \/ WriteLo \/ WriteHi \/ Publish
      BY <3>3, <3>6 DEF ReadEntry, WriteLo, WriteHi, Publish
    <3>. QED  BY <2>1, <3>1, <3>2, <3>4, <3>5, <3>6 DEF ApicStep
  <2>. QED  BY <1>2, <2>1, <2>2
<1>5. CASE InitHeap \/ AcpiMap \/ AcpiDrop \/ AcpiFails \/ AcpiDone \/ AcpiAmlPci
  BY Zenon, <1>2, <1>5 DEF InitHeap, AcpiMap, AcpiDrop, AcpiFails, AcpiDone, AcpiAmlPci,
     Advance, apic_vars, boot_vars
<1>6. CASE MapLoop
  <2>1. Stage /\ pc \in {"map", "unmap"}
    BY <1>6 DEF BootInv, ControlInv, MapLoop, MapStep, UnmapStep
  <2>2. phase # "pit"  BY <2>1 DEF Stage
  <2>. QED  BY <1>2, <1>6, <2>2 DEF MapLoop, apic_vars, boot_vars
<1>7. CASE DisablePic \/ EnableInterrupts \/ InitPci \/ InitDone \/ PitEdge \/ PageFault
  BY Zenon, <1>2, <1>7 DEF DisablePic, EnableInterrupts, InitPci, InitDone, PitEdge, PageFault,
     Advance, apic_vars, boot_vars
<1>8. CASE Halted \/ UNCHANGED vars
  BY <1>1, <1>8, NothingMoves
<1>. QED  BY <1>3, <1>4, <1>5, <1>6, <1>7, <1>8 DEF Next, Step

-----------------------------------------------------------------------------

(* kernel_main calls init with nothing mapped, read or reported. *)
LEMMA BootInit ==
    ASSUME Init
    PROVE  BootInv
<1>. USE DEF Init
<1>1. /\ memory_regions \in MemoryMaps /\ next = 0 /\ page_table = <<>> /\ tables = <<>>
      /\ addr = PagesFirst /\ regions = {} /\ cur = NoRegion /\ i = 0 /\ pc = "heap"
  BY DEF MemoryInit
<1>2. /\ apic_pc = "new" /\ msr = 0 /\ access = 0 /\ local = NoRegion /\ io = NoRegion
      /\ DOMAIN local_regs = {SVR, LvtTimer, InitialCount} /\ ~astray
      /\ entries = <<>> /\ io_regs = <<>>
  BY DEF ApicInit
<1>3. machine = <<>> /\ bus = 0 /\ device = 0 /\ found = <<>>  BY DEF PciInit
<1>4. phase = "pit" /\ maps = 0 /\ aml = "ok" /\ ~interrupt_flag /\ fault = NoFault  OBVIOUS
<1>. HIDE DEF Init
<1>5. NoRegion \in Mappings  BY DEF NoRegion, Mappings
<1>6. PagesFirst \in Nat /\ HeapLen \in Nat /\ HeapFirst \in Nat
  BY Zenon, MemoryAssumption DEF MemoryAssumption
<1>7. DOMAIN page_table = {} /\ DOMAIN tables = {}  BY <1>1
<1>8. MemoryTypeOK  BY <1>1, <1>5, <1>6, <1>7 DEF MemoryTypeOK
<1>9. FrameInv  BY <1>7 DEF FrameInv, FramesPrivate
<1>10. PageInv
  <2>1. Extent(HeapFirst, 0) = {}  BY <1>6 DEF Extent
  <2>. QED  BY <1>1, <1>6, <1>7, <2>1 DEF PageInv
<1>11. Room
  <2>1. Calls = 0  BY <1>2, <1>4 DEF Calls
  <2>2. 0 * MostPages = 0  BY MostPagesFacts
  <2>. QED  BY <1>1, <1>6, <2>1, <2>2 DEF Room
<1>12. ControlInv  BY <1>1, <1>2, <1>4 DEF ControlInv, Stage, PanicsExplained
<1>13. LocalInv
  <2>1. PageSize = 256  BY Zenon, MemoryAssumption DEF MemoryAssumption
  <2>2. msr % PageSize = 0  BY <1>2, <2>1
  <2>3. msr % PageSize # MsrFlags  BY <2>2 DEF MsrFlags
  <2>. QED  BY <1>2, <2>3 DEF LocalInv
<1>14. IoInv  BY <1>2 DEF IoInv
<1>15. PciInv
  <2>1. Buses \in Nat /\ Slots \in Nat  BY PciAssumption DEF PciAssumption
  <2>2. \A a \in OnBus0 : a.device \in Nat  BY DEF OnBus0
  <2>3. \A a \in OnBus0 : ~(a.device < device)  BY <1>3, <2>2
  <2>4. 0 \in 0 .. Buses /\ 0 \in 0 .. Slots /\ ~(0 > 0)  BY <2>1
  <2>5. <<>> \in Seq({Identity(a) : a \in OnBus0}) /\ DOMAIN <<>> = {}  OBVIOUS
  <2>6. Reported  BY <1>3, <2>3, <2>4, <2>5 DEF Reported
  <2>. QED  BY <1>3, <1>4, <2>6 DEF PciInv
<1>16. fault \in [ip : Nat, sp : Nat, name : Nat]  BY <1>4 DEF NoFault, NoName
<1>17. TypeOK
  <2>1. bus \in 0 .. Buses /\ device \in 0 .. Slots  BY <1>15 DEF PciInv, Reported
  <2>2. maps \in 0 .. MaxMaps  BY <1>4, BootAssumption DEF BootAssumption
  <2>. QED  BY <1>2, <1>4, <1>5, <1>8, <1>16, <2>1, <2>2 DEF TypeOK
<1>. QED
  BY <1>9, <1>10, <1>11, <1>12, <1>13, <1>14, <1>15, <1>17 DEF BootInv

(* Every step of init keeps all of the invariant. *)
LEMMA BootStep ==
    ASSUME BootInv, Next \/ UNCHANGED vars
    PROVE  BootInv'
<1>1. MemoryTypeOK /\ FrameInv /\ PageInv /\ addr <= HeapFirst
  BY BelowHeap DEF BootInv, TypeOK
<1>2. MemoryTypeOK' /\ FrameInv' /\ PageInv'  BY <1>1, NextMemory, MemoryInductive
<1>3. Stage' /\ ControlInv'  BY StageInductive, PanicsInductive DEF ControlInv
<1>4. Room' /\ maps' \in 0 .. MaxMaps  BY RoomInductive
<1>5. LocalInv' /\ IoInv' /\ PciInv'  BY LocalInductive, IoInductive, PciInductive
<1>6. fault' \in [ip : Nat, sp : Nat, name : Nat]  BY FaultInductive
<1>7. TypeOK'
  <2>1. cur' \in Mappings  BY <1>2 DEF MemoryTypeOK
  <2>2. /\ aml' \in {"ok", "failed"}
        /\ local' \in Mappings /\ io' \in Mappings
        /\ phase' # "pit" => reload'[1] + 256 * reload'[2] = 1193
    BY <2>1, RestInductive
  <2>3. /\ phase' \in {"pit", "heap", "acpi", "apic", "enable", "pci", "sleep"}
        /\ apic_pc' \in {"new", "local", "io", "read", "lo", "hi", "published"}
    BY <1>3 DEF Stage
  <2>4. bus' \in 0 .. Buses /\ device' \in 0 .. Slots  BY <1>5 DEF PciInv, Reported
  <2>. QED  BY <1>2, <1>4, <1>6, <2>2, <2>3, <2>4 DEF TypeOK
<1>. QED  BY <1>2, <1>3, <1>4, <1>5, <1>7 DEF BootInv

(* BootInv holds in every state of init and of the sleep after it. *)
THEOREM BootInductive == Spec => []BootInv
<1>1. Init => BootInv  BY BootInit
<1>2. BootInv /\ [Next]_vars => BootInv'  BY BootStep
<1>. QED  BY <1>1, <1>2, PTL DEF Spec

-----------------------------------------------------------------------------

(* The state of every part of init is well typed, page tables are made of  *)
(* usable frames, and pit::init leaves the count for 1000 Hz.              *)
THEOREM BootTypeCorrect == Spec => []TypeOK
<1>1. BootInv => TypeOK  BY DEF BootInv
<1>. QED  BY <1>1, BootInductive, PTL

(* BootInfoFrameAllocator::allocate_frame hands out no frame twice, to the *)
(* heap or to the page tables.                                             *)
THEOREM FramesArePrivate == Spec => []FramesPrivate
<1>1. BootInv => FramesPrivate  BY DEF BootInv, FrameInv
<1>. QED  BY <1>1, BootInductive, PTL

(* map_physical_region leads to every byte of the region asked for, and    *)
(* unmap_physical_region takes away that region's pages and no others.     *)
THEOREM MappingsAreExact == Spec => []MappingsExact
<1>1. BootInv => MappingsExact  BY PagesLead DEF BootInv, TypeOK
<1>. QED  BY <1>1, BootInductive, PTL

(* init panics only for want of frames, for the AML, or for an I/O APIC    *)
(* that is missing, not at a page's start, too short or too long.          *)
THEOREM PanicsAreExplained == Spec => []PanicsExplained
<1>1. BootInv => PanicsExplained  BY DEF BootInv, ControlInv
<1>. QED  BY <1>1, BootInductive, PTL

(* Every access of apic::init to the local APIC reaches the register it    *)
(* names, when the base comes from the MSR.                                *)
THEOREM RegistersAreReached == Spec => []RegistersReached
<1>1. BootInv => RegistersReached  BY LocalReaches DEF BootInv
<1>. QED  BY <1>1, BootInductive, PTL

(* IOApic::map changes nothing of an entry but its vector and its mask,    *)
(* at every moment between its two writes.                                 *)
THEOREM EntriesAreKept == Spec => []EntriesKept
<1>1. BootInv => EntriesKept  BY IoKeeps DEF BootInv
<1>. QED  BY <1>1, BootInductive, PTL

(* When init enables interrupts, the PIC is masked, both APICs are         *)
(* published, and every line leads to a vector with a handler of its own.  *)
THEOREM InterruptsComeLast == Spec => []InterruptsLast
<1>1. ASSUME BootInv, interrupt_flag
      PROVE  /\ pic_masked /\ apic_pc = "published"
             /\ \A k \in DOMAIN entries :
                 LET lo == io_regs[RedirectionEntry(k - 1)] IN
                     lo.masked \/ lo.vector \in {Timer, Keyboard, SpuriousIoApic, SpuriousLocalApic}
  <2>1. pic_masked /\ phase \in {"pci", "sleep"} /\ Stage  BY <1>1 DEF BootInv, ControlInv
  <2>2. apic_pc = "published"  BY <2>1 DEF Stage
  <2>3. /\ entries \in RedirectionTables /\ access > Len(entries) /\ access \in Nat
        /\ \A k \in DOMAIN entries : k < access => io_regs[RedirectionEntry(k - 1)] = NewLo(k)
    BY Zenon, <1>1, <2>2 DEF BootInv, IoInv, LocalInv
  <2>4. ASSUME NEW k \in DOMAIN entries
        PROVE  io_regs[RedirectionEntry(k - 1)].vector = SpuriousIoApic
    <3>1. k \in 1 .. Len(entries) /\ Len(entries) \in Nat  BY <2>3, TableFacts
    <3>2. entries[k].lo \in [vector : Nat, dmode : {"Physical", "Logical"},
                             masked : BOOLEAN, rest : Nat]
      BY <2>3, <3>1, TableFacts
    <3>3. NewLo(k).vector = SpuriousIoApic  BY <3>2 DEF NewLo
    <3>4. k < access  BY <2>3, <3>1
    <3>. QED  BY <2>3, <3>3, <3>4
  <2>. QED  BY <2>1, <2>2, <2>4
<1>2. BootInv => InterruptsLast  BY <1>1 DEF InterruptsLast
<1>. QED  BY <1>2, BootInductive, PTL

(* pci::init reports the devices of bus 0, each once, in order, with its   *)
(* own identity, although its device counter is not set back.              *)
THEOREM Bus0IsReported == Spec => []ReportsBus0
<1>1. BootInv => ReportsBus0  BY ReportedIsBus0 DEF BootInv, PciInv
<1>. QED  BY <1>1, BootInductive, PTL
=============================================================================
