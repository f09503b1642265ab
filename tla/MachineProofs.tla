---------------------------- MODULE MachineProofs ----------------------------
(***************************************************************************)
(* The machine that init sets up: its devices, the names of its addresses, *)
(* its memory and its APICs.                                               *)
(*                                                                         *)
(* The devices that pci::init reports, for every machine, and the name of  *)
(* an address, for every symbol table.                                     *)
(*                                                                         *)
(* Then the frames and pages of init, for every memory map, heap and       *)
(* request: which frames are in use and which pages lead where.  FrameInv  *)
(* and PageInv are kept by every step that anyone takes on the memory.     *)
(*                                                                         *)
(* Last the APICs' registers, for every base address and redirection       *)
(* table.  The accesses to the local APIC reach its registers while its    *)
(* mapping leads where PageInv says; an entry of the I/O APIC is as it was *)
(* or as intended, by the progress of the loop over the entries.  Both     *)
(* parts are kept by every step of apic::init.                             *)
(***************************************************************************)
EXTENDS Apic, Pci, Symbols, RegionProofs

(* What pci::init has reported: all devices of bus 0 below its cursor. *)
Reported ==
    /\ bus \in 0 .. Buses /\ device \in 0 .. Slots
    /\ bus > 0 => device = Slots
    /\ found \in Seq({Identity(a) : a \in OnBus0})
    /\ \A k \in DOMAIN found :
        /\ found[k].addr.device < device
        /\ \A l \in DOMAIN found : k < l => found[k].addr.device < found[l].addr.device
    /\ \A a \in OnBus0 : a.device < device => \E k \in DOMAIN found : found[k].addr = a

(* The configuration space says who is there, and what. *)
LEMMA PciFacts ==
    ASSUME machine \in ConfigSpaces, NEW a
    PROVE  /\ vendor_id(a) # INVALID <=> a \in DOMAIN machine
           /\ a \in DOMAIN machine => Report(a) = Identity(a)
<1>1. \A o : create_local_bus_address(a, o, TRUE).enabled = TRUE
             /\ create_local_bus_address(a, o, TRUE).addr = a
  BY DEF create_local_bus_address
<1>2. /\ create_local_bus_address(a, 0, TRUE).register = 0
      /\ create_local_bus_address(a, 2, TRUE).register = 0
      /\ create_local_bus_address(a, 10, TRUE).register = 8
  BY DEF create_local_bus_address
<1>3. CASE a \in DOMAIN machine
  <2>1. /\ read_dword(a, 0) = machine[a][0] /\ read_dword(a, 2) = machine[a][0]
        /\ read_dword(a, 10) = machine[a][8]
    BY Zenon, <1>1, <1>2, <1>3 DEF read_dword, ConfigData
  <2>2. /\ vendor_id(a) = machine[a][0][1] /\ device_id(a) = machine[a][0][2]
        /\ read_word(a, 10) = machine[a][8][2]
    BY <2>1 DEF vendor_id, device_id, read_word
  <2>3. vendor_id(a) # INVALID
    BY <1>3, <2>2, PciAssumption DEF PciAssumption, INVALID
  <2>4. Report(a) = Identity(a)  BY <2>2 DEF Report, Identity, class_code, subclass
  <2>. QED  BY <1>3, <2>3, <2>4
<1>4. CASE a \notin DOMAIN machine
  <2>1. read_dword(a, 0) = <<INVALID, INVALID>>  BY Zenon, <1>1, <1>4 DEF read_dword, ConfigData
  <2>2. vendor_id(a) = INVALID  BY <2>1 DEF vendor_id, read_word
  <2>. QED  BY <1>4, <2>2
<1>. QED  BY <1>3, <1>4

(* A device of bus 0 is known by its number. *)
LEMMA OnBus0Facts ==
    ASSUME NEW b \in OnBus0
    PROVE  /\ b.device \in Nat /\ b.device < Slots /\ b = [bus |-> 0, device |-> b.device]
           /\ Identity(b).addr = b
<1>1. Slots \in Nat /\ b \in [bus : {0}, device : 0 .. (Slots - 1)]
  BY PciAssumption DEF OnBus0, PciAssumption
<1>2. b.device \in 0 .. (Slots - 1) /\ b = [bus |-> 0, device |-> b.device]  BY <1>1
<1>3. Identity(b).addr = b  BY Zenon DEF Identity
<1>. QED  BY <1>1, <1>2, <1>3

(* The devices there are the same as long as the machine is. *)
LEMMA SameDevices ==
    ASSUME machine' = machine
    PROVE  OnBus0' = OnBus0 /\ {Identity(a)' : a \in OnBus0'} = {Identity(a) : a \in OnBus0}
<1>1. OnBus0' = OnBus0  BY DEF OnBus0
<1>2. ASSUME NEW a PROVE Identity(a)' = Identity(a)  BY DEF Identity
<1>. QED  BY Zenon, <1>1, <1>2

(* The next device is asked, and reported if it is there. *)
LEMMA EnumerateInductive ==
    ASSUME Reported, machine \in ConfigSpaces, Enumerate
    PROVE  Reported'
<1>1. /\ Reported /\ machine \in ConfigSpaces /\ machine' = machine /\ bus' = bus
      /\ bus \in 0 .. Buses /\ device \in 0 .. Slots /\ device' = device + 1
      /\ bus < Buses /\ device < Slots /\ Buses \in Nat /\ Slots \in Nat
  <2>1. Buses \in Nat /\ Slots \in Nat  BY PciAssumption DEF PciAssumption
  <2>2. bus \in 0 .. Buses /\ device \in 0 .. Slots  BY DEF Reported
  <2>3. /\ machine' = machine /\ bus' = bus /\ device' = device + 1
        /\ bus < Buses /\ device < Slots
    BY Zenon DEF Enumerate
  <2>. QED  BY <2>1, <2>2, <2>3
<1>2. bus = 0
  <2>1. bus > 0 => device = Slots  BY DEF Reported
  <2>. QED  BY <1>1, <2>1
<1>3. PICK a : a = [bus |-> 0, device |-> device]  BY Zenon
<1>4. OnBus0' = OnBus0 /\ {Identity(b)' : b \in OnBus0'} = {Identity(b) : b \in OnBus0}
  BY <1>1, SameDevices
<1>5. \A b \in OnBus0 : /\ b.device \in Nat /\ b = [bus |-> 0, device |-> b.device]
                        /\ Identity(b).addr = b
  BY OnBus0Facts
<1>6. a \in DOMAIN machine <=> a \in OnBus0  BY <1>1, <1>3 DEF OnBus0
<1>. DEFINE Reports == {Identity(b) : b \in OnBus0}
<1>7. found \in Seq(Reports) /\ Len(found) \in Nat /\ DOMAIN found = 1 .. Len(found)
  BY <1>1, SequenceFacts DEF Reported
<1>8. \A k \in DOMAIN found :
        /\ found[k].addr \in OnBus0 /\ found[k].addr.device \in Nat /\ found[k].addr.device < device
        /\ \A l \in DOMAIN found : k < l => found[k].addr.device < found[l].addr.device
  <2>1. \A k \in DOMAIN found : found[k] \in Reports  BY <1>7, SequenceFacts
  <2>. QED  BY <1>1, <1>5, <2>1 DEF Reported
<1>9. \A b \in OnBus0 : b.device < device => \E k \in DOMAIN found : found[k].addr = b
  BY <1>1 DEF Reported
<1>10. device' \in 0 .. Slots /\ device \in Nat  BY <1>1
<1>11. \A b \in OnBus0 : b.device < device' => b.device < device \/ b = a
  BY <1>1, <1>3, <1>5, <1>10
<1>12. CASE a \in OnBus0
  <2>1. found' = Append(found, Identity(a))
    <3>1. vendor_id(a) # INVALID /\ Report(a) = Identity(a)  BY <1>1, <1>6, <1>12, PciFacts
    <3>. QED  BY <1>2, <1>3, <3>1 DEF Enumerate
  <2>2. /\ found' \in Seq(Reports) /\ Len(found') = Len(found) + 1
        /\ \A k \in 1 .. Len(found) : found'[k] = found[k]
        /\ found'[Len(found) + 1] = Identity(a)
    BY <1>7, <1>12, <2>1, AppendFacts
  <2>3. DOMAIN found' = 1 .. (Len(found) + 1)  BY <2>2, SequenceFacts
  <2>4. Identity(a).addr = a /\ a.device = device  BY <1>3, <1>5, <1>12
  <2>5. ASSUME NEW k \in DOMAIN found'
        PROVE  /\ found'[k].addr.device < device'
               /\ \A l \in DOMAIN found' : k < l => found'[k].addr.device < found'[l].addr.device
    BY <1>1, <1>7, <1>8, <1>10, <2>2, <2>3, <2>4
  <2>6. ASSUME NEW b \in OnBus0, b.device < device'
        PROVE  \E k \in DOMAIN found' : found'[k].addr = b
    <3>1. CASE b = a
      <4>1. Len(found) + 1 \in DOMAIN found'  BY <1>7, <2>3
      <4>. QED  BY <2>2, <2>4, <3>1, <4>1
    <3>2. CASE b.device < device
      <4>1. PICK k \in DOMAIN found : found[k].addr = b  BY <1>9, <3>2
      <4>2. k \in DOMAIN found' /\ found'[k] = found[k]  BY <1>7, <2>2, <2>3
      <4>. QED  BY <4>1, <4>2
    <3>. QED  BY <1>11, <2>6, <3>1, <3>2
  <2>7. found' \in Seq({Identity(b)' : b \in OnBus0'})  BY Zenon, <1>4, <2>2
  <2>8. \A b \in OnBus0' : b.device < device' => \E k \in DOMAIN found' : found'[k].addr = b
    BY Zenon, <1>4, <2>6
  <2>9. bus' \in 0 .. Buses /\ (bus' > 0 => device' = Slots)  BY <1>1, <1>2
  <2>. QED  BY Zenon, <1>10, <2>5, <2>7, <2>8, <2>9 DEF Reported
<1>13. CASE a \notin OnBus0
  <2>1. found' = found
    <3>1. vendor_id(a) = INVALID  BY <1>1, <1>6, <1>13, PciFacts
    <3>. QED  BY <1>2, <1>3, <3>1 DEF Enumerate
  <2>2. \A k \in DOMAIN found : found[k].addr.device < device'  BY <1>1, <1>8, <1>10
  <2>3. \A b \in OnBus0 : b.device < device' => \E k \in DOMAIN found : found[k].addr = b
    BY <1>9, <1>11, <1>13
  <2>4. found' \in Seq({Identity(b)' : b \in OnBus0'})  BY Zenon, <1>4, <1>7, <2>1
  <2>5. bus' \in 0 .. Buses /\ (bus' > 0 => device' = Slots)  BY <1>1, <1>2
  <2>. QED  BY Zenon, <1>4, <1>8, <1>10, <2>1, <2>2, <2>3, <2>4, <2>5 DEF Reported
<1>. QED  BY <1>12, <1>13

(* The next bus is begun behind the last device, where nothing is asked. *)
LEMMA NextBusInductive ==
    ASSUME Reported, NextBus
    PROVE  Reported'
<1>1. /\ bus \in 0 .. Buses /\ bus < Buses /\ bus' = bus + 1 /\ Buses \in Nat
      /\ device \in 0 .. Slots /\ device >= Slots /\ Slots \in Nat
      /\ UNCHANGED <<machine, device, found>>
  BY PciAssumption DEF Reported, NextBus, PciAssumption
<1>2. bus' \in 0 .. Buses /\ device' \in 0 .. Slots /\ device' = Slots  BY <1>1
<1>3. OnBus0' = OnBus0 /\ {Identity(a)' : a \in OnBus0'} = {Identity(a) : a \in OnBus0}
  BY <1>1, SameDevices
<1>. QED  BY Zenon, <1>1, <1>2, <1>3 DEF Reported

(* And as long as nothing changes of the devices. *)
LEMMA ReportedStays ==
    ASSUME Reported, UNCHANGED <<machine, bus, device, found>>
    PROVE  Reported'
<1>1. OnBus0' = OnBus0 /\ {Identity(a)' : a \in OnBus0'} = {Identity(a) : a \in OnBus0}
  BY SameDevices
<1>2. bus' = bus /\ device' = device /\ found' = found  OBVIOUS
<1>. QED  BY Zenon, <1>1, <1>2 DEF Reported

(* What has been reported is what was there. *)
LEMMA ReportedIsBus0 ==
    ASSUME Reported
    PROVE  ReportsBus0
<1>1. /\ bus \in 0 .. Buses /\ device \in 0 .. Slots
      /\ bus > 0 => device = Slots
      /\ Buses \in Nat /\ Buses > 0 /\ Slots \in Nat
  BY PciAssumption DEF Reported, PciAssumption
<1>2. \A a \in OnBus0 : a.device \in Nat /\ a.device < Slots  BY OnBus0Facts
<1>3. ASSUME NEW k \in DOMAIN found
      PROVE  found[k].addr \in OnBus0 /\ found[k] = Identity(found[k].addr)
  <2>1. found[k] \in {Identity(a) : a \in OnBus0}  BY SequenceFacts DEF Reported
  <2>2. PICK a \in OnBus0 : found[k] = Identity(a)  BY Zenon, <2>1
  <2>. QED  BY Zenon, <2>2, OnBus0Facts
<1>4. ASSUME NEW k \in DOMAIN found, NEW a \in OnBus0, a.device < found[k].addr.device
      PROVE  \E l \in DOMAIN found : found[l].addr = a
  <2>1. found[k].addr.device \in Nat  BY <1>2, <1>3
  <2>2. found[k].addr.device < device  BY DEF Reported
  <2>3. a.device \in Nat  BY <1>2, Zenon
  <2>4. a.device < device  BY <1>1, <1>4, <2>1, <2>2, <2>3
  <2>. QED  BY <2>4 DEF Reported
<1>5. ASSUME bus = Buses, NEW a \in OnBus0
      PROVE  \E k \in DOMAIN found : found[k].addr = a
  <2>1. a.device < Slots  BY <1>2, Zenon
  <2>2. device = Slots  BY <1>1, <1>5
  <2>. QED  BY <2>1, <2>2 DEF Reported
<1>6. \A k \in DOMAIN found : \A l \in DOMAIN found :
        k < l => found[k].addr.device < found[l].addr.device
  BY DEF Reported
<1>. QED  BY <1>3, <1>4, <1>5, <1>6 DEF ReportsBus0

-----------------------------------------------------------------------------

(* resolve answers with the name of the first symbol it does not skip. *)
LEMMA ResolveFacts ==
    ASSUME NEW sp \in Nat
    PROVE  resolve(sp) \in Nat
<1>. DEFINE matching == {k \in DOMAIN SymbolTable : matches(SymbolTable[k], sp)}
            first == CHOOSE k \in matching : \A l \in matching : k <= l
<1>1. resolve(sp) = IF matching = {} THEN NoName ELSE SymbolTable[first].name  BY DEF resolve
<1>2. matching \subseteq Nat  BY SymbolAssumption DEF SymbolAssumption
<1>. HIDE DEF matching
<1>3. CASE matching = {}
  <2>1. resolve(sp) = NoName  BY <1>1, <1>3
  <2>. QED  BY <2>1 DEF NoName
<1>4. CASE matching # {}
  <2>1. \E k \in matching : \A l \in matching : k <= l  BY Zenon, <1>2, <1>4, LeastElement
  <2>2. first \in matching  BY <2>1, Zenon
  <2>. HIDE DEF first
  <2>3. SymbolTable[first] \in [value : Nat, size : Nat, name : Nat]
    BY <2>2, SymbolAssumption DEF SymbolAssumption, matching
  <2>4. resolve(sp) = SymbolTable[first].name  BY <1>1, <1>4
  <2>. QED  BY <2>3, <2>4
<1>. QED  BY Zenon, <1>3, <1>4

-----------------------------------------------------------------------------

(* The frames that allocate_frame has handed out. *)
Given == UNION {allocate_frame(n) : n \in 0 .. (next - 1)}

FrameInv ==
    /\ \A p \in HeapPages \cap DOMAIN page_table : page_table[p] \in Given
    /\ \A g \in DOMAIN tables : tables[g] \in Given
    /\ FramesPrivate

-----------------------------------------------------------------------------

Pages(r) == Extent(r.virt, r.count)

Apart(r, s) == r.virt + r.count <= s.virt \/ s.virt + s.count <= r.virt

(* The mapping r is for a request, at pages the page allocator gave. *)
Made(r) ==
    /\ r \in Mappings /\ r.size > 0 /\ r.count = page_count(r)
    /\ r.virt + r.count <= addr

(* The first n pages of r lead to the frames asked for. *)
Backed(r, n) ==
    \A k \in 0 .. (n - 1) :
        /\ r.virt + k \in DOMAIN page_table
        /\ page_table[r.virt + k] = (r.phys \div PageSize) + k

(* The pages of all mappings that are in use. *)
InUse == UNION {Pages(r) : r \in regions}

PageInv ==
    /\ \A r \in regions : Made(r) /\ Backed(r, r.count)
    /\ \A r, s \in regions : r # s => Apart(r, s)
    /\ pc = "heap" => /\ i <= HeapLen /\ regions = {}
                      /\ DOMAIN page_table = Extent(HeapFirst, i)
    /\ pc = "idle" => DOMAIN page_table = HeapPages \cup InUse
    /\ pc \in {"map", "unmap"} =>
        /\ Made(cur) /\ i < cur.count
        /\ \A r \in regions : Apart(r, cur)
    /\ pc = "map" => /\ Backed(cur, i)
                     /\ DOMAIN page_table = HeapPages \cup InUse \cup Extent(cur.virt, i)
    /\ pc = "unmap" =>
        DOMAIN page_table = HeapPages \cup InUse \cup Extent(cur.virt + i, cur.count - i)

-----------------------------------------------------------------------------

(* The physical frame of an item of usable_frames. *)
FrameOf(u) == (memory_regions[u.region].start + u.step * PageSize) \div PageSize

(* An item of usable_frames lies in a usable region, at a page's start. *)
LEMMA ItemFacts ==
    ASSUME memory_regions \in MemoryMaps, NEW u \in usable_frames
    PROVE  /\ u.region \in DOMAIN memory_regions /\ u.region \in Nat /\ u.step \in Nat
           /\ memory_regions[u.region].kind = "Usable"
           /\ memory_regions[u.region].start \in Nat /\ memory_regions[u.region].end \in Nat
           /\ memory_regions[u.region].start % 256 = 0
           /\ memory_regions[u.region].end % 256 = 0
           /\ memory_regions[u.region].start + u.step * 256 < memory_regions[u.region].end
           /\ u = [region |-> u.region, step |-> u.step]
<1>1. PICK k \in DOMAIN memory_regions :
        /\ Usable(memory_regions[k])
        /\ u \in [region : {k},
                  step : 0 .. ((memory_regions[k].end - memory_regions[k].start - 1) \div PageSize)]
  BY DEF usable_frames
<1>2. u.region = k /\ u = [region |-> u.region, step |-> u.step]  BY <1>1
<1>. DEFINE s == memory_regions[k].start
            e == memory_regions[k].end
<1>3. k \in Nat /\ s \in Nat /\ e \in Nat /\ s % 256 = 0 /\ e % 256 = 0
  BY <1>1, MemoryAssumption DEF MemoryAssumption, Aligned
<1>4. u.step \in 0 .. ((e - s - 1) \div 256)  BY <1>1, MemoryAssumption DEF MemoryAssumption
<1>. HIDE DEF s, e
<1>5. u.step \in Nat /\ s + u.step * 256 < e  BY <1>3, <1>4
<1>. QED  BY <1>1, <1>2, <1>3, <1>5 DEF s, e, Usable

(* The frame of the j-th page from an aligned address on. *)
LEMMA DivideStep ==
    ASSUME NEW a \in Nat, NEW j \in Nat, a % 256 = 0
    PROVE  a \div 256 \in Nat /\ a = 256 * (a \div 256) /\ (a + j * 256) \div 256 = (a \div 256) + j
OBVIOUS

(* Different items are different frames: the regions do not overlap. *)
LEMMA ItemsApart ==
    ASSUME memory_regions \in MemoryMaps,
           NEW u \in usable_frames, NEW v \in usable_frames, u # v
    PROVE  FrameOf(u) # FrameOf(v)
<1>. DEFINE s(w) == memory_regions[w.region].start
            e(w) == memory_regions[w.region].end
<1>1. \A w \in {u, v} :
        /\ w.region \in DOMAIN memory_regions /\ w.region \in Nat /\ w.step \in Nat
        /\ s(w) \in Nat /\ e(w) \in Nat /\ s(w) % 256 = 0 /\ s(w) + w.step * 256 < e(w)
        /\ w = [region |-> w.region, step |-> w.step]
  BY ItemFacts
<1>. DEFINE q(w) == s(w) \div 256
<1>2. \A w \in {u, v} : FrameOf(w) = q(w) + w.step /\ q(w) \in Nat /\ s(w) = 256 * q(w)
  BY <1>1, MemoryAssumption, DivideStep DEF FrameOf, MemoryAssumption
<1>3. \A k, l \in DOMAIN memory_regions :
        k < l => memory_regions[k].end <= memory_regions[l].start
  BY MemoryAssumption DEF MemoryAssumption
<1>4. u.region < v.region => e(u) <= s(v)  BY <1>1, <1>3
<1>5. v.region < u.region => e(v) <= s(u)  BY <1>1, <1>3
<1>6. u.region = v.region => u.step # v.step /\ q(u) = q(v)  BY <1>1
<1>. HIDE DEF s, e, q
<1>7. CASE u.region = v.region  BY <1>1, <1>2, <1>6, <1>7
<1>8. CASE u.region < v.region  BY <1>1, <1>2, <1>4, <1>8
<1>9. CASE v.region < u.region  BY <1>1, <1>2, <1>5, <1>9
<1>. QED  BY <1>1, <1>7, <1>8, <1>9

(* allocate_frame answers usable frames, at different positions of the     *)
(* cursor different ones.                                                  *)
LEMMA AllocateFacts ==
    ASSUME memory_regions \in MemoryMaps, NEW n \in Nat, NEW f \in allocate_frame(n)
    PROVE  /\ f \in Frames /\ f \in Nat
           /\ \A m \in Nat : \A g \in allocate_frame(m) : n # m => f # g
<1>1. PICK u \in usable_frames : u \in nth(n) /\ f = FrameOf(u)
  BY DEF allocate_frame, nth, FrameOf
<1>2. ASSUME NEW m \in Nat, NEW g \in allocate_frame(m), n # m PROVE f # g
  <2>1. PICK v \in usable_frames : v \in nth(m) /\ g = FrameOf(v)
    BY DEF allocate_frame, nth, FrameOf
  <2>2. u # v  BY <1>1, <1>2, <2>1 DEF nth
  <2>. QED  BY <1>1, <2>1, <2>2, ItemsApart
<1>. DEFINE s == memory_regions[u.region].start
            e == memory_regions[u.region].end
<1>3. /\ u.region \in DOMAIN memory_regions /\ u.step \in Nat
      /\ memory_regions[u.region].kind = "Usable"
      /\ s \in Nat /\ e \in Nat /\ s % 256 = 0 /\ e % 256 = 0 /\ s + u.step * 256 < e
  BY ItemFacts
<1>4. f = (s + u.step * 256) \div 256
  BY <1>1, MemoryAssumption DEF FrameOf, MemoryAssumption
<1>5. Extent(s \div 256, (e - s) \div 256) \subseteq Frames
  BY <1>3, MemoryAssumption DEF Frames, MemoryAssumption
<1>. HIDE DEF s, e
<1>6. f \in Nat /\ f \in Extent(s \div 256, (e - s) \div 256)
  BY <1>3, <1>4 DEF Extent
<1>. QED  BY <1>2, <1>5, <1>6

(* A frame allocate_frame answers now, or at the next call, is a new one. *)
LEMMA FreshFrames ==
    ASSUME memory_regions \in MemoryMaps, next \in Nat, NEW n \in Nat, n >= next
    PROVE  /\ \A f \in allocate_frame(n) : f \notin Given
           /\ Given \subseteq Frames
<1>1. ASSUME NEW f \in allocate_frame(n), f \in Given PROVE FALSE
  <2>1. PICK m \in 0 .. (next - 1) : f \in allocate_frame(m)  BY <1>1 DEF Given
  <2>2. m \in Nat /\ m # n  BY <2>1
  <2>. QED  BY <2>1, <2>2, AllocateFacts
<1>2. ASSUME NEW f \in Given PROVE f \in Frames
  <2>1. PICK m \in 0 .. (next - 1) : f \in allocate_frame(m)  BY DEF Given
  <2>. QED  BY <2>1, AllocateFacts
<1>. QED  BY <1>1, <1>2
-----------------------------------------------------------------------------

(* The bootloader's map stays, so a position of the cursor keeps its frame. *)
LEMMA SameMap ==
    ASSUME memory_regions' = memory_regions
    PROVE  /\ Frames' = Frames
           /\ \A n \in Nat : allocate_frame(n)' = allocate_frame(n)
BY DEF Frames, allocate_frame, nth, usable_frames, Before, Usable

(* As the cursor moves on, more frames have been given, usable ones. *)
LEMMA GivenGrows ==
    ASSUME memory_regions \in MemoryMaps, memory_regions' = memory_regions,
           next \in Nat, next' \in Nat, next' >= next
    PROVE  /\ Given \subseteq Given' /\ Given' \subseteq Frames
           /\ \A n \in Nat : n < next' => allocate_frame(n) \subseteq Given'
<1>1. Given' = UNION {allocate_frame(n) : n \in 0 .. (next' - 1)}
  <2>1. \A n \in 0 .. (next' - 1) : allocate_frame(n)' = allocate_frame(n)  BY SameMap
  <2>. QED  BY Zenon, <2>1 DEF Given
<1>2. \A n \in Nat : n < next' => allocate_frame(n) \subseteq Given'  BY <1>1
<1>3. Given \subseteq Given'
  <2>1. \A n \in 0 .. (next - 1) : allocate_frame(n) \subseteq Given'  BY <1>2
  <2>. QED  BY Zenon, <2>1 DEF Given
<1>4. ASSUME NEW f \in Given' PROVE f \in Frames
  <2>1. PICK n \in 0 .. (next' - 1) : f \in allocate_frame(n)  BY <1>1
  <2>. QED  BY <2>1, AllocateFacts
<1>. QED  BY <1>2, <1>3, <1>4

(* map_to for a page of the heap, whose frame was just allocated, and for  *)
(* another page, whose frame does not matter.                              *)
LEMMA MapToFrames ==
    ASSUME memory_regions \in MemoryMaps, memory_regions' = memory_regions,
           next \in Nat, FrameInv, NEW page, NEW frame, NEW n \in Nat,
           MapTo(page, frame, n),
           \/ n = next /\ page \notin HeapPages
           \/ n = next + 1 /\ frame \in allocate_frame(next)
    PROVE  FrameInv' /\ next' \in Nat /\ next' >= next
<1>1. /\ DOMAIN page_table' = DOMAIN page_table \cup {page} /\ page \notin DOMAIN page_table
      /\ page_table'[page] = frame
      /\ \A p \in DOMAIN page_table : page_table'[p] = page_table[p]
  BY DEF MapTo, Put
<1>2. next' \in Nat /\ next' >= n /\ next' >= next  BY DEF MapTo
<1>3. /\ Given \subseteq Given' /\ Given' \subseteq Frames'
      /\ \A m \in Nat : m < next' => allocate_frame(m) \subseteq Given'
  BY <1>2, GivenGrows, SameMap
<1>4. page \in HeapPages => frame \in Given' /\ frame \notin Given
  BY <1>2, <1>3, FreshFrames
<1>5. \/ tables' = tables
      \/ \E g, f : /\ g \notin DOMAIN tables /\ DOMAIN tables' = DOMAIN tables \cup {g}
                   /\ tables'[g] = f /\ \A h \in DOMAIN tables : tables'[h] = tables[h]
                   /\ f \in Given' /\ f \notin Given
                   /\ page \in HeapPages => f # frame
  <2>1. CASE Group(page) \in DOMAIN tables  BY <2>1 DEF MapTo
  <2>2. CASE Group(page) \notin DOMAIN tables
    <3>1. PICK f \in allocate_frame(n) : tables' = Put(tables, Group(page), f)
      BY <2>2 DEF MapTo
    <3>2. next' = n + 1  BY <2>2 DEF MapTo
    <3>3. f \in Given' /\ f \notin Given  BY <1>2, <1>3, <3>2, FreshFrames
    <3>4. page \in HeapPages => f # frame
      <4>1. n = next + 1 /\ frame \in allocate_frame(next) => f # frame  BY AllocateFacts
      <4>. QED  BY <4>1
    <3>5. /\ DOMAIN tables' = DOMAIN tables \cup {Group(page)} /\ tables'[Group(page)] = f
          /\ \A h \in DOMAIN tables : tables'[h] = tables[h]
      BY <2>2, <3>1 DEF Put
    <3>. QED  BY <2>2, <3>3, <3>4, <3>5
  <2>. QED  BY Zenon, <2>1, <2>2
<1>6. \A p \in HeapPages \cap DOMAIN page_table' :
        /\ page_table'[p] \in Given'
        /\ \/ p = page
           \/ /\ p \in DOMAIN page_table /\ page_table'[p] = page_table[p]
              /\ page_table[p] \in Given
  <2>1. \A p \in HeapPages \cap DOMAIN page_table : page_table[p] \in Given  BY DEF FrameInv
  <2>. QED  BY <1>1, <1>3, <1>4, <2>1
<1>7. \A g \in DOMAIN tables' :
        /\ tables'[g] \in Given'
        /\ \/ g \in DOMAIN tables /\ tables'[g] = tables[g] /\ tables[g] \in Given
           \/ tables'[g] \notin Given /\ (page \in HeapPages => tables'[g] # frame)
  BY Zenon, <1>3, <1>5 DEF FrameInv
<1>8. ASSUME NEW p \in HeapPages \cap DOMAIN page_table', NEW q \in HeapPages \cap DOMAIN page_table',
             p # q
      PROVE  page_table'[p] # page_table'[q]
  BY <1>1, <1>4, <1>6, <1>8 DEF FrameInv, FramesPrivate
<1>9. ASSUME NEW p \in HeapPages \cap DOMAIN page_table', NEW g \in DOMAIN tables'
      PROVE  page_table'[p] # tables'[g]
  BY <1>1, <1>4, <1>6, <1>7 DEF FrameInv, FramesPrivate
<1>10. ASSUME NEW g \in DOMAIN tables', NEW h \in DOMAIN tables', g # h
       PROVE  tables'[g] # tables'[h]
  <2>1. \A a, b \in DOMAIN tables : a # b => tables[a] # tables[b]
    BY DEF FrameInv, FramesPrivate
  <2>2. CASE tables' = tables  BY <1>10, <2>1, <2>2
  <2>3. CASE tables' # tables
    <3>1. PICK a : /\ DOMAIN tables' = DOMAIN tables \cup {a} /\ a \notin DOMAIN tables
                   /\ \A b \in DOMAIN tables : tables'[b] = tables[b]
                   /\ tables'[a] \notin Given
      BY <1>5, <2>3
    <3>2. \A b \in DOMAIN tables : tables[b] \in Given  BY DEF FrameInv
    <3>. QED  BY <1>10, <2>1, <3>1, <3>2
  <2>. QED  BY <2>2, <2>3
<1>11. FramesPrivate'  BY <1>3, <1>6, <1>8, <1>9, <1>10 DEF FramesPrivate, HeapPages
<1>. QED  BY <1>2, <1>6, <1>7, <1>11 DEF FrameInv, HeapPages

(* Where the page table and the cursor's frames stay, or the cursor only   *)
(* moves on, and where a page other than the heap's is unmapped.           *)
LEMMA FramesStay ==
    ASSUME memory_regions \in MemoryMaps, memory_regions' = memory_regions,
           next \in Nat, next' \in Nat, next' >= next, FrameInv, tables' = tables,
           DOMAIN page_table' \subseteq DOMAIN page_table,
           \A p \in DOMAIN page_table' : page_table'[p] = page_table[p]
    PROVE  FrameInv'
<1>1. Given \subseteq Given' /\ Given' \subseteq Frames'  BY GivenGrows, SameMap
<1>2. Frames' = Frames  BY SameMap
<1>3. FramesPrivate'  BY <1>2 DEF FrameInv, FramesPrivate, HeapPages
<1>. QED  BY <1>1, <1>3 DEF FrameInv, HeapPages

-----------------------------------------------------------------------------

(* A request takes a page or more, and its k-th unit is in one of them. *)
LEMMA CountFacts ==
    ASSUME NEW r, r.phys \in Nat, r.size \in Nat, r.size > 0
    PROVE  /\ page_count(r) \in Nat /\ page_count(r) > 0
           /\ \A k \in 0 .. (r.size - 1) :
                ((r.phys % 256) + k) \div 256 \in 0 .. (page_count(r) - 1)
<1>. DEFINE p == r.phys
            n == r.size
            e == align_up(p + n, 256)
<1>1. e \in Nat /\ e >= p + n /\ e % 256 = 0
  <2>1. p + n \in Nat  OBVIOUS
  <2>. HIDE DEF p, n
  <2>2. ASSUME NEW m \in Nat
        PROVE  align_up(m, 256) \in Nat /\ align_up(m, 256) >= m /\ Aligned(align_up(m, 256), 256)
    BY DEF align_up, Aligned
  <2>3. e \in Nat /\ e >= p + n /\ Aligned(e, 256)  BY <2>1, <2>2
  <2>. QED  BY <2>3 DEF Aligned
<1>2. page_count(r) = (e \div 256) - (p \div 256)
  BY MemoryAssumption DEF page_count, end_page, MemoryAssumption
<1>3. p \in Nat /\ n \in Nat /\ n > 0  OBVIOUS
<1>. HIDE DEF p, n, e
<1>4. /\ (e \div 256) - (p \div 256) \in Nat /\ (e \div 256) - (p \div 256) > 0
      /\ \A k \in 0 .. (n - 1) : ((p % 256) + k) \div 256 \in 0 .. ((e \div 256) - (p \div 256) - 1)
  BY <1>1, <1>3
<1>. QED  BY <1>2, <1>4 DEF p, n

(* The k-th unit from an address inside the page v on. *)
LEMMA TranslateFacts ==
    ASSUME NEW v \in Nat, NEW p \in Nat, NEW k \in Nat
    PROVE  LET a == (v * 256) + (p % 256) + k
               q == ((p % 256) + k) \div 256
           IN  /\ q \in Nat /\ a \div 256 = v + q
               /\ ((p \div 256) + q) * 256 + (a % 256) = p + k
OBVIOUS

(* unmap_physical_region's addresses are a page apart. *)
LEMMA PageFacts ==
    ASSUME NEW v \in Nat, NEW p \in Nat, NEW j \in Nat
    PROVE  ((v * 256) + (p % 256) + j * 256) \div 256 = v + j
OBVIOUS

(* A range that grows by a page. *)
LEMMA ExtentNext ==
    ASSUME NEW p \in Nat, NEW n \in Nat
    PROVE  /\ Extent(p, n) \cup {p + n} = Extent(p, n + 1)
           /\ Extent(p, 0) = {}
           /\ p + n \notin Extent(p, n)
BY DEF Extent

(* init_heap maps the heap's pages, one after the other. *)
LEMMA HeapStepPages ==
    ASSUME MemoryTypeOK, PageInv, HeapStep
    PROVE  PageInv' /\ i' \in Nat /\ pc' \in {"heap", "idle", "panic"}
<1>. HeapLen \in Nat /\ HeapFirst \in Nat /\ i \in Nat
  BY MemoryAssumption DEF MemoryAssumption, MemoryTypeOK
<1>1. /\ pc = "heap" /\ i < HeapLen /\ regions = {} /\ regions' = {}
      /\ DOMAIN page_table = Extent(HeapFirst, i)
  BY DEF PageInv, HeapStep
<1>2. CASE /\ \E f : MapTo(HeapFirst + i, f, next + 1)
           /\ i' = (i + 1) % HeapLen
           /\ pc' = IF i + 1 = HeapLen THEN "idle" ELSE "heap"
  <2>1. DOMAIN page_table' = Extent(HeapFirst, i + 1)
    BY <1>1, <1>2, ExtentNext DEF MapTo, Put
  <2>2. CASE i + 1 = HeapLen
    <3>1. DOMAIN page_table' = HeapPages' /\ InUse' = {}
      BY <1>1, <2>1, <2>2 DEF HeapPages, InUse
    <3>2. i' = 0 /\ pc' = "idle"  BY <1>2, <2>2
    <3>. QED  BY <1>1, <3>1, <3>2 DEF PageInv
  <2>3. CASE i + 1 < HeapLen
    <3>1. i' = i + 1 /\ pc' = "heap"  BY <1>2, <2>3
    <3>. QED  BY <1>1, <2>1, <2>3, <3>1 DEF PageInv
  <2>. QED  BY <1>1, <2>2, <2>3
<1>3. CASE pc' = "panic" /\ i' = i
  BY <1>1, <1>3 DEF PageInv
<1>. QED  BY <1>2, <1>3 DEF HeapStep, MapFails

(* A mapping is begun at new pages. *)
LEMMA BeginPages ==
    ASSUME MemoryTypeOK, PageInv, NEW r, r.phys \in Nat, r.size \in Nat, r.size > 0,
           map_physical_region(r)
    PROVE  /\ PageInv' /\ addr' \in Nat /\ i' \in Nat /\ cur' \in Mappings
           /\ addr' = addr + page_count(r)
<1>. DEFINE c == page_count(r)
<1>1. /\ c \in Nat /\ c > 0 /\ page_count(cur') = c  BY CountFacts DEF map_physical_region, page_count, end_page
<1>2. /\ addr \in Nat /\ addr' = addr + c /\ pc = "idle" /\ pc' = "map" /\ i' = 0
      /\ cur' = [phys |-> r.phys, size |-> r.size, virt |-> addr, count |-> c]
      /\ page_table' = page_table /\ regions' = regions
  BY DEF map_physical_region, allocate_n, MemoryTypeOK
<1>. HIDE DEF c
<1>3. cur' \in Mappings /\ Made(cur)'  BY <1>1, <1>2 DEF Mappings, Made
<1>4. ASSUME NEW s \in regions'
      PROVE  Made(s)' /\ Backed(s, s.count)' /\ Apart(s, cur)'
  <2>1. Made(s) /\ Backed(s, s.count)  BY <1>2 DEF PageInv
  <2>2. s.virt \in Nat /\ s.count \in Nat /\ s.virt + s.count <= addr  BY <2>1 DEF Made, Mappings
  <2>3. Made(s)'  BY <1>1, <1>2, <2>1, <2>2 DEF Made
  <2>4. Backed(s, s.count)'  BY <1>2, <2>1 DEF Backed
  <2>5. Apart(s, cur)'  BY <1>2, <2>2 DEF Apart
  <2>. QED  BY <2>3, <2>4, <2>5
<1>5. DOMAIN page_table' = (HeapPages \cup InUse \cup Extent(cur.virt, i))'
  BY Zenon, <1>2, ExtentNext DEF PageInv, InUse, HeapPages
<1>6. \A s, t \in regions' : s # t => Apart(s, t)'  BY <1>2 DEF PageInv, Apart
<1>7. Backed(cur, i)'  BY <1>2 DEF Backed
<1>. QED  BY <1>1, <1>2, <1>3, <1>4, <1>5, <1>6, <1>7 DEF PageInv, c
(* A mapping's next page is mapped, and with its last one it is in use. *)
LEMMA MapStepPages ==
    ASSUME MemoryTypeOK, PageInv, addr <= HeapFirst, MapStep
    PROVE  /\ PageInv' /\ i' \in Nat /\ cur' \in Mappings /\ regions' \subseteq Mappings
           /\ pc' \in {"map", "idle", "panic"}
           /\ pc' = "idle" => regions' = regions \cup {cur}
           /\ pc' = "map" => cur' = cur
           /\ pc' # "idle" => regions' = regions
           /\ cur.virt + i \notin HeapPages
<1>1. /\ pc = "map" /\ Made(cur) /\ i < cur.count /\ Backed(cur, i)
      /\ DOMAIN page_table = HeapPages \cup InUse \cup Extent(cur.virt, i)
      /\ \A r \in regions : Made(r) /\ Backed(r, r.count) /\ Apart(r, cur)
      /\ \A r, s \in regions : r # s => Apart(r, s)
  BY DEF PageInv, MapStep
<1>2. /\ i \in Nat /\ addr \in Nat /\ HeapFirst \in Nat /\ HeapLen \in Nat
      /\ cur \in Mappings /\ cur.virt \in Nat /\ cur.count \in Nat /\ cur.virt + cur.count <= addr
      /\ regions \subseteq Mappings
  BY <1>1, MemoryAssumption DEF MemoryAssumption, MemoryTypeOK, Made, Mappings
<1>3. cur.virt + i \notin HeapPages  BY <1>1, <1>2 DEF HeapPages, Extent
<1>4. NoRegion \in Mappings  BY DEF NoRegion, Mappings
<1>5. addr' = addr /\ memory_regions' = memory_regions  BY DEF MapStep
<1>6. \A r : Made(r) => Made(r)'  BY <1>5 DEF Made
<1>7. CASE MapTo(cur.virt + i, (cur.phys \div PageSize) + i, next)
  <2>1. /\ DOMAIN page_table' = DOMAIN page_table \cup {cur.virt + i}
        /\ page_table'[cur.virt + i] = (cur.phys \div PageSize) + i
        /\ \A p \in DOMAIN page_table : page_table'[p] = page_table[p]
    BY <1>7 DEF MapTo, Put
  <2>2. \A r, n : Backed(r, n) => Backed(r, n)'  BY <2>1 DEF Backed
  <2>3. PICK c, j : c = cur /\ j = i  OBVIOUS
  <2>4. Backed(c, j + 1)'
    <3>1. Backed(c, j)'  BY <1>1, <2>2, <2>3
    <3>2. \A k \in 0 .. (j + 1 - 1) : k \in 0 .. (j - 1) \/ k = j  BY <1>2, <2>3
    <3>3. c.virt + j \in DOMAIN page_table' /\ page_table'[c.virt + j] = (c.phys \div PageSize) + j
      BY <2>1, <2>3
    <3>4. ASSUME NEW k \in 0 .. (j + 1 - 1)
          PROVE  c.virt + k \in DOMAIN page_table' /\ page_table'[c.virt + k] = (c.phys \div PageSize) + k
      <4>1. CASE k = j  BY <3>3, <4>1
      <4>2. CASE k \in 0 .. (j - 1)  BY <3>1, <4>2 DEF Backed
      <4>. QED  BY <3>2, <4>1, <4>2
    <3>. QED  BY <1>2, <2>3, <3>4 DEF Backed
  <2>5. DOMAIN page_table' = HeapPages \cup InUse \cup Extent(c.virt, j + 1)
    BY Zenon, <1>1, <1>2, <2>1, <2>3, ExtentNext
  <2>6. CASE i + 1 = cur.count
    <3>1. regions' = regions \cup {c} /\ cur' = NoRegion /\ i' = 0 /\ pc' = "idle"
      BY <1>7, <2>3, <2>6 DEF MapStep, MapTo, MapFails
    <3>2. InUse' = InUse \cup Pages(c)  BY <3>1 DEF InUse, Pages
    <3>3. DOMAIN page_table' = (HeapPages \cup InUse)'
      BY <2>3, <2>5, <2>6, <3>2 DEF HeapPages, Pages
    <3>4. \A r \in regions' : Made(r)' /\ Backed(r, r.count)'
      BY <1>1, <1>6, <2>2, <2>3, <2>4, <2>6, <3>1
    <3>5. \A r, s \in regions' : r # s => Apart(r, s)
      BY <1>1, <2>3, <3>1 DEF Apart
    <3>. QED  BY <1>2, <1>3, <1>4, <2>3, <3>1, <3>3, <3>4, <3>5 DEF PageInv, Apart
  <2>7. CASE i + 1 # cur.count
    <3>1. regions' = regions /\ cur' = c /\ i' = j + 1 /\ pc' = "map"
      BY <1>1, <1>7, <2>3, <2>7 DEF MapStep, MapTo, MapFails
    <3>2. InUse' = InUse  BY <3>1 DEF InUse, Pages
    <3>3. Backed(cur, i)' /\ Made(cur)'  BY <1>1, <1>6, <2>3, <2>4, <3>1 DEF Backed, Made
    <3>4. DOMAIN page_table' = (HeapPages \cup InUse \cup Extent(cur.virt, i))'
      BY <2>3, <2>5, <3>1, <3>2 DEF HeapPages
    <3>5. \A r \in regions' : Made(r)' /\ Backed(r, r.count)' /\ Apart(r, cur)'
      BY <1>1, <1>6, <2>2, <2>3, <3>1 DEF Apart
    <3>6. i' \in Nat /\ (i < cur.count)'  BY <1>1, <1>2, <2>3, <2>7, <3>1
    <3>. QED  BY <1>1, <1>2, <1>3, <2>3, <3>1, <3>3, <3>4, <3>5, <3>6 DEF PageInv, Apart
  <2>. QED  BY <2>6, <2>7
<1>8. CASE pc' = "panic" /\ UNCHANGED <<page_table, regions, cur, i>>
  <2>1. \A r, n : Backed(r, n) => Backed(r, n)'  BY <1>8 DEF Backed
  <2>. QED  BY <1>1, <1>2, <1>3, <1>6, <1>8, <2>1 DEF PageInv, Apart
<1>. QED  BY <1>7, <1>8 DEF MapStep, MapFails
(* A mapping is taken out of use. *)
LEMMA DropPages ==
    ASSUME MemoryTypeOK, PageInv, NEW r \in regions, UnmapPhysicalRegion(r)
    PROVE  PageInv' /\ i' \in Nat /\ cur' \in Mappings /\ regions' \subseteq Mappings
<1>1. /\ pc = "idle" /\ DOMAIN page_table = HeapPages \cup InUse
      /\ \A s \in regions : Made(s) /\ Backed(s, s.count)
      /\ \A s, t \in regions : s # t => Apart(s, t)
      /\ regions \subseteq Mappings
  BY DEF PageInv, UnmapPhysicalRegion, MemoryTypeOK
<1>2. /\ cur' = r /\ regions' = regions \ {r} /\ i' = 0 /\ pc' = "unmap"
      /\ page_table' = page_table /\ addr' = addr
  BY DEF UnmapPhysicalRegion
<1>3. r.virt \in Nat /\ r.count \in Nat /\ r.count > 0
  BY <1>1, CountFacts DEF Made, Mappings
<1>4. \A s \in regions : Made(s)' /\ Backed(s, s.count)'  BY <1>1, <1>2 DEF Made, Backed
<1>5. InUse = InUse' \cup Extent(r.virt, r.count)  BY <1>2 DEF InUse, Pages
<1>6. Extent(r.virt, r.count) = Extent(cur.virt + i, cur.count - i)'
  BY <1>2, <1>3 DEF Extent
<1>7. DOMAIN page_table' = (HeapPages \cup InUse \cup Extent(cur.virt + i, cur.count - i))'
  BY <1>1, <1>2, <1>5, <1>6 DEF HeapPages
<1>8. Made(cur)' /\ (i < cur.count)'  BY <1>2, <1>3, <1>4 DEF Made
<1>9. \A s \in regions' : Apart(s, cur)'  BY <1>1, <1>2 DEF Apart
<1>. QED  BY <1>1, <1>2, <1>4, <1>7, <1>8, <1>9 DEF PageInv, Apart

(* One of its pages is unmapped: it is mapped, and it is no other's. *)
LEMMA UnmapStepPages ==
    ASSUME MemoryTypeOK, PageInv, addr <= HeapFirst, UnmapStep
    PROVE  /\ PageInv' /\ i' \in Nat /\ cur' \in Mappings
           /\ pc' \in {"unmap", "idle"} /\ regions' = regions
           /\ DOMAIN page_table' \subseteq DOMAIN page_table
           /\ \A p \in DOMAIN page_table' : page_table'[p] = page_table[p]
<1>1. /\ pc = "unmap" /\ Made(cur) /\ i < cur.count
      /\ DOMAIN page_table = HeapPages \cup InUse \cup Extent(cur.virt + i, cur.count - i)
      /\ \A r \in regions : Made(r) /\ Backed(r, r.count) /\ Apart(r, cur)
      /\ \A r, s \in regions : r # s => Apart(r, s)
  BY DEF PageInv, UnmapStep
<1>2. /\ i \in Nat /\ addr \in Nat /\ HeapFirst \in Nat /\ HeapLen \in Nat
      /\ cur \in Mappings /\ cur.virt \in Nat /\ cur.count \in Nat /\ cur.phys \in Nat
      /\ cur.virt + cur.count <= addr
  BY <1>1, MemoryAssumption DEF MemoryAssumption, MemoryTypeOK, Made, Mappings
<1>3. PICK c, j : c = cur /\ j = i  OBVIOUS
<1>. DEFINE page == c.virt + j
<1>4. (virtual_start(cur) + i * PageSize) \div PageSize = page
  <2>1. virtual_start(cur) + i * PageSize = (c.virt * 256) + (c.phys % 256) + j * 256
    BY <1>2, <1>3, MemoryAssumption DEF virtual_start, MemoryAssumption
  <2>2. ((c.virt * 256) + (c.phys % 256) + j * 256) \div 256 = page  BY <1>2, <1>3, PageFacts
  <2>. QED  BY <2>1, <2>2, MemoryAssumption DEF MemoryAssumption
<1>5. page \in DOMAIN page_table  BY <1>1, <1>2, <1>3 DEF Extent
<1>6. /\ page_table' = [p \in DOMAIN page_table \ {page} |-> page_table[p]]
      /\ \/ i + 1 = cur.count /\ cur' = NoRegion /\ i' = 0 /\ pc' = "idle"
         \/ i + 1 # cur.count /\ cur' = c /\ i' = j + 1 /\ pc' = "unmap"
      /\ regions' = regions /\ addr' = addr
  BY Zenon, <1>1, <1>3, <1>4, <1>5 DEF UnmapStep, unmap_count
<1>7. page \notin HeapPages  BY <1>1, <1>2, <1>3 DEF HeapPages, Extent
<1>8. ASSUME NEW r \in regions PROVE page \notin Pages(r)
  <2>1. Apart(r, cur) /\ r.virt \in Nat /\ r.count \in Nat  BY <1>1 DEF Made, Mappings
  <2>. QED  BY <1>1, <1>2, <1>3, <2>1 DEF Apart, Pages, Extent
<1>9. page \notin InUse /\ InUse' = InUse  BY <1>6, <1>8 DEF InUse, Pages
<1>10. Extent(c.virt + j, c.count - j) \ {page} = Extent(c.virt + (j + 1), c.count - (j + 1))
  BY <1>1, <1>2, <1>3 DEF Extent
<1>11. DOMAIN page_table' = HeapPages \cup InUse' \cup Extent(c.virt + (j + 1), c.count - (j + 1))
  <2>1. DOMAIN page_table' = DOMAIN page_table \ {page}  BY <1>6
  <2>. HIDE DEF page
  <2>. QED  BY <1>1, <1>3, <1>7, <1>9, <1>10, <2>1
<1>12. ASSUME NEW r \in regions PROVE Made(r)' /\ Backed(r, r.count)'
  <2>1. Made(r) /\ Backed(r, r.count) /\ r.virt \in Nat /\ r.count \in Nat
    BY <1>1 DEF Made, Mappings
  <2>2. \A k \in 0 .. (r.count - 1) : r.virt + k # page  BY <1>8, <2>1 DEF Pages, Extent
  <2>. HIDE DEF page
  <2>. QED  BY <1>6, <2>1, <2>2 DEF Made, Backed
<1>13. CASE i + 1 = cur.count
  <2>1. Extent(c.virt + (j + 1), c.count - (j + 1)) = {}  BY <1>2, <1>3, <1>13 DEF Extent
  <2>2. NoRegion \in Mappings  BY DEF NoRegion, Mappings
  <2>. QED  BY <1>1, <1>6, <1>11, <1>12, <1>13, <2>1, <2>2 DEF PageInv, HeapPages, Apart
<1>14. CASE i + 1 # cur.count
  <2>1. cur' = c /\ i' = j + 1 /\ pc' = "unmap"  BY <1>6, <1>14
  <2>2. Made(cur)' /\ (i < cur.count)' /\ i' \in Nat  BY <1>1, <1>2, <1>3, <1>6, <1>14, <2>1 DEF Made
  <2>3. DOMAIN page_table' = (HeapPages \cup InUse \cup Extent(cur.virt + i, cur.count - i))'
    BY <1>11, <2>1 DEF HeapPages
  <2>. QED  BY <1>1, <1>2, <1>3, <1>6, <1>12, <2>1, <2>2, <2>3 DEF PageInv, Apart
<1>. QED  BY <1>13, <1>14

(* Panics, faults, and all that does not concern pages. *)
LEMMA PagesStay ==
    ASSUME PageInv, UNCHANGED <<page_table, addr, regions>>,
           pc' \in {"panic", "fault"} \/ UNCHANGED <<cur, i, pc>>
    PROVE  PageInv'
<1>1. \A r : Made(r) => Made(r)'  BY DEF Made
<1>2. \A r, n : Backed(r, n) => Backed(r, n)'  BY DEF Backed
<1>3. InUse' = InUse  BY DEF InUse, Pages
<1>4. CASE pc' \in {"panic", "fault"}  BY <1>1, <1>2, <1>4 DEF PageInv, Apart
<1>5. CASE UNCHANGED <<cur, i, pc>>  BY <1>5, <1>3 DEF PageInv, Apart, Made, Backed, HeapPages
<1>. QED  BY <1>4, <1>5

(* The memory operations panic for want of a frame, and for nothing else. *)
LEMMA MemoryPanics ==
    ASSUME MemoryTypeOK, PageInv, addr <= HeapFirst, HeapStep \/ MapStep, pc' = "panic"
    PROVE  (next > 0 /\ allocate_frame(next - 1) = {})'
<1>1. next \in Nat /\ memory_regions' = memory_regions
  BY DEF MemoryTypeOK, HeapStep, MapStep
<1>2. ASSUME NEW n \in Nat, next' = n + 1, allocate_frame(n) = {}
      PROVE  (next > 0 /\ allocate_frame(next - 1) = {})'
  <2>1. next' - 1 = n /\ next' > 0  BY <1>2
  <2>2. allocate_frame(n)' = {}  BY <1>1, <1>2, SameMap
  <2>3. (next > 0)' /\ (allocate_frame(next - 1))' = {}  BY <2>1, <2>2 DEF allocate_frame, nth
  <2>. QED  BY <2>3
<1>3. ASSUME NEW page, page \notin DOMAIN page_table, NEW n \in Nat, MapFails(page, n)
      PROVE  (next > 0 /\ allocate_frame(next - 1) = {})'
  <2>1. allocate_frame(n) = {} /\ next' = n + 1  BY <1>3 DEF MapFails
  <2>. QED  BY <1>2, <2>1
<1>4. CASE HeapStep
  <2>1. HeapFirst + i \notin DOMAIN page_table
    <3>1. i \in Nat /\ HeapFirst \in Nat /\ DOMAIN page_table = Extent(HeapFirst, i)
      BY <1>4, MemoryAssumption DEF MemoryAssumption, MemoryTypeOK, PageInv, HeapStep
    <3>. QED  BY <3>1, ExtentNext
  <2>2. \/ MapFails(HeapFirst + i, next + 1)
        \/ allocate_frame(next) = {} /\ next' = next + 1
    BY <1>4 DEF HeapStep
  <2>3. next + 1 \in Nat  BY <1>1
  <2>. QED  BY <1>1, <1>2, <1>3, <2>1, <2>2, <2>3
<1>5. CASE MapStep
  <2>1. cur.virt + i \notin DOMAIN page_table
    <3>1. /\ i \in Nat /\ Made(cur) /\ i < cur.count /\ addr \in Nat
          /\ DOMAIN page_table = HeapPages \cup InUse \cup Extent(cur.virt, i)
          /\ \A r \in regions : Made(r) /\ Apart(r, cur)
      BY <1>5 DEF MemoryTypeOK, PageInv, MapStep
    <3>2. cur.virt \in Nat /\ cur.count \in Nat  BY <3>1 DEF Made, Mappings
    <3>3. cur.virt + i \notin HeapPages  BY <1>5, MapStepPages
    <3>4. cur.virt + i \notin Extent(cur.virt, i)  BY Zenon, <3>1, <3>2, ExtentNext
    <3>5. ASSUME NEW r \in regions PROVE cur.virt + i \notin Pages(r)
      <4>1. Apart(r, cur) /\ r.virt \in Nat /\ r.count \in Nat  BY <3>1 DEF Made, Mappings
      <4>. QED  BY <3>1, <3>2, <4>1 DEF Apart, Pages, Extent
    <3>. QED  BY <3>1, <3>3, <3>4, <3>5 DEF InUse
  <2>2. MapFails(cur.virt + i, next)  BY <1>5 DEF MapStep
  <2>. QED  BY <1>1, <1>3, <2>1, <2>2
<1>. QED  BY <1>4, <1>5

-----------------------------------------------------------------------------

(* What may be asked of map_physical_region. *)
IsRequest(r) == r.phys \in Nat /\ r.size \in Nat /\ r.size > 0

(* What is done to the memory state in a step. *)
MemoryStep ==
    \/ HeapStep
    \/ \E r : IsRequest(r) /\ map_physical_region(r)
    \/ \E r \in regions : UnmapPhysicalRegion(r)
    \/ MapStep
    \/ UnmapStep
    \/ /\ UNCHANGED <<memory_regions, next, page_table, tables, addr, regions, cur, i>>
       /\ pc' \in {"panic", "fault"} \/ pc' = pc

(* The frames and the pages, whatever init does. *)
LEMMA MemoryInductive ==
    ASSUME MemoryTypeOK, FrameInv, PageInv, addr <= HeapFirst, MemoryStep
    PROVE  MemoryTypeOK' /\ FrameInv' /\ PageInv'
<1>1. /\ memory_regions \in MemoryMaps /\ next \in Nat /\ i \in Nat /\ addr \in Nat
      /\ cur \in Mappings /\ regions \subseteq Mappings
      /\ pc \in {"heap", "idle", "map", "unmap", "panic", "fault"}
  BY DEF MemoryTypeOK
<1>2. memory_regions' = memory_regions
  BY DEF MemoryStep, HeapStep, map_physical_region, UnmapPhysicalRegion, MapStep, UnmapStep
<1>3. ASSUME next' \in Nat, next' >= next, FrameInv'
      PROVE  \A g \in DOMAIN tables' : tables'[g] \in Frames'
  BY <1>1, <1>2, <1>3, GivenGrows, SameMap DEF FrameInv
<1>4. CASE HeapStep
  <2>1. PageInv' /\ i' \in Nat /\ pc' \in {"heap", "idle", "panic"}  BY <1>4, HeapStepPages
  <2>2. addr' = addr /\ cur' = cur /\ regions' = regions  BY <1>4 DEF HeapStep
  <2>3. /\ FrameInv' /\ next' \in Nat /\ next' >= next
        /\ \A p \in DOMAIN page_table' : page_table'[p] \in Nat
    <3>1. CASE \E f \in allocate_frame(next) : MapTo(HeapFirst + i, f, next + 1)
      <4>1. PICK f \in allocate_frame(next) : MapTo(HeapFirst + i, f, next + 1)  BY <3>1
      <4>2. f \in Nat  BY <1>1, AllocateFacts
      <4>3. \A p \in DOMAIN page_table' : page_table'[p] \in Nat
        BY <4>1, <4>2 DEF MapTo, Put, MemoryTypeOK
      <4>4. FrameInv' /\ next' \in Nat /\ next' >= next
        BY <1>1, <1>2, <4>1, MapToFrames
      <4>. QED  BY <4>3, <4>4
    <3>2. CASE UNCHANGED <<page_table, tables>> /\ next' \in Nat /\ next' >= next
      BY <1>1, <1>2, <3>2, FramesStay DEF MemoryTypeOK
    <3>. QED  BY <1>1, <1>4, <3>1, <3>2 DEF HeapStep, MapFails
  <2>. QED  BY <1>1, <1>2, <1>3, <2>1, <2>2, <2>3 DEF MemoryTypeOK
<1>5. CASE \E r : IsRequest(r) /\ map_physical_region(r)
  <2>1. PICK r : IsRequest(r) /\ map_physical_region(r)  BY <1>5
  <2>2. PageInv' /\ addr' \in Nat /\ i' \in Nat /\ cur' \in Mappings
    BY <2>1, BeginPages DEF IsRequest
  <2>3. UNCHANGED <<page_table, tables, next, regions>> /\ pc' = "map"
    BY <2>1 DEF map_physical_region
  <2>4. FrameInv'  BY <1>1, <1>2, <2>3, FramesStay
  <2>. QED  BY <1>1, <1>2, <1>3, <2>2, <2>3, <2>4 DEF MemoryTypeOK
<1>6. CASE \E r \in regions : UnmapPhysicalRegion(r)
  <2>1. PICK r \in regions : UnmapPhysicalRegion(r)  BY <1>6
  <2>2. PageInv' /\ i' \in Nat /\ cur' \in Mappings /\ regions' \subseteq Mappings
    BY <2>1, DropPages
  <2>3. UNCHANGED <<page_table, tables, next, addr>> /\ pc' = "unmap"
    BY <2>1 DEF UnmapPhysicalRegion
  <2>4. FrameInv'  BY <1>1, <1>2, <2>3, FramesStay
  <2>. QED  BY <1>1, <1>2, <1>3, <2>2, <2>3, <2>4 DEF MemoryTypeOK
<1>7. CASE MapStep
  <2>1. /\ PageInv' /\ i' \in Nat /\ cur' \in Mappings /\ regions' \subseteq Mappings
        /\ pc' \in {"map", "idle", "panic"} /\ cur.virt + i \notin HeapPages
    BY <1>7, MapStepPages
  <2>2. addr' = addr  BY <1>7 DEF MapStep
  <2>3. /\ FrameInv' /\ next' \in Nat /\ next' >= next
        /\ \A p \in DOMAIN page_table' : page_table'[p] \in Nat
    <3>1. CASE MapTo(cur.virt + i, (cur.phys \div PageSize) + i, next)
      <4>1. (cur.phys \div PageSize) + i \in Nat
        BY <1>1, MemoryAssumption DEF Mappings, MemoryAssumption
      <4>2. \A p \in DOMAIN page_table' : page_table'[p] \in Nat
        BY <3>1, <4>1 DEF MapTo, Put, MemoryTypeOK
      <4>3. FrameInv' /\ next' \in Nat /\ next' >= next
        BY <1>1, <1>2, <2>1, <3>1, MapToFrames
      <4>. QED  BY <4>2, <4>3
    <3>2. CASE UNCHANGED <<page_table, tables>> /\ next' \in Nat /\ next' >= next
      BY <1>1, <1>2, <3>2, FramesStay DEF MemoryTypeOK
    <3>. QED  BY <1>1, <1>7, <3>1, <3>2 DEF MapStep, MapFails
  <2>. QED  BY <1>1, <1>2, <1>3, <2>1, <2>2, <2>3 DEF MemoryTypeOK
<1>8. CASE UnmapStep
  <2>1. /\ PageInv' /\ i' \in Nat /\ cur' \in Mappings
        /\ pc' \in {"unmap", "idle"} /\ regions' = regions
        /\ DOMAIN page_table' \subseteq DOMAIN page_table
        /\ \A p \in DOMAIN page_table' : page_table'[p] = page_table[p]
    BY <1>8, UnmapStepPages
  <2>2. UNCHANGED <<next, tables, addr>>  BY <1>8 DEF UnmapStep
  <2>3. FrameInv'  BY <1>1, <1>2, <2>1, <2>2, FramesStay
  <2>4. \A p \in DOMAIN page_table' : page_table'[p] \in Nat  BY <2>1 DEF MemoryTypeOK
  <2>5. next' = next /\ next' \in Nat /\ next' >= next /\ addr' \in Nat  BY <1>1, <2>2
  <2>6. \A g \in DOMAIN tables' : tables'[g] \in Frames'  BY <1>3, <2>3, <2>5
  <2>7. regions' \subseteq Mappings /\ memory_regions' \in MemoryMaps  BY <1>1, <1>2, <2>1
  <2>. QED  BY Zenon, <2>1, <2>3, <2>4, <2>5, <2>6, <2>7 DEF MemoryTypeOK
<1>9. CASE /\ UNCHANGED <<memory_regions, next, page_table, tables, addr, regions, cur, i>>
           /\ pc' \in {"panic", "fault"} \/ pc' = pc
  <2>1. PageInv'  BY <1>9, PagesStay
  <2>2. FrameInv'  BY <1>1, <1>9, FramesStay
  <2>. QED  BY <1>1, <1>3, <1>9, <2>1, <2>2 DEF MemoryTypeOK
<1>. QED  BY <1>4, <1>5, <1>6, <1>7, <1>8, <1>9 DEF MemoryStep

(* A mapping that PageInv describes leads to every unit asked for. *)
LEMMA PagesLead ==
    ASSUME MemoryTypeOK, PageInv
    PROVE  MappingsExact
<1>. PageSize = 256  BY MemoryAssumption DEF MemoryAssumption
<1>1. ASSUME NEW r \in regions, NEW k \in 0 .. (r.size - 1)
      PROVE  translate_addr(virtual_start(r) + k) = r.phys + k
  <2>1. Made(r) /\ Backed(r, r.count)  BY DEF PageInv
  <2>2. /\ r.phys \in Nat /\ r.size \in Nat /\ r.size > 0 /\ r.virt \in Nat
        /\ r.count = page_count(r) /\ k \in Nat
    BY <2>1 DEF Made, Mappings
  <2>3. PICK q : q = ((r.phys % 256) + k) \div 256  OBVIOUS
  <2>4. q \in 0 .. (r.count - 1)  BY <2>2, <2>3, CountFacts
  <2>5. PICK a : a = (r.virt * 256) + (r.phys % 256) + k  OBVIOUS
  <2>6. virtual_start(r) + k = a  BY <2>5 DEF virtual_start
  <2>7. a \div 256 = r.virt + q /\ ((r.phys \div 256) + q) * 256 + (a % 256) = r.phys + k
    BY <2>2, <2>3, <2>5, TranslateFacts
  <2>8. r.virt + q \in DOMAIN page_table /\ page_table[r.virt + q] = (r.phys \div 256) + q
    BY <2>1, <2>4 DEF Backed
  <2>. QED  BY <2>6, <2>7, <2>8 DEF translate_addr
<1>2. pc = "idle" => DOMAIN page_table = HeapPages \cup UNION {Extent(r.virt, r.count) : r \in regions}
  BY DEF PageInv, InUse, Pages
<1>. QED  BY <1>1, <1>2 DEF MappingsExact

-----------------------------------------------------------------------------


(* The local APIC's mapping stays in use, and its accesses do what the     *)
(* comment on RegistersReached says, as far as they have come.             *)
LocalInv ==
    /\ access \in Nat /\ msr \in Nat
    /\ DOMAIN local_regs = {SVR, LvtTimer, InitialCount}
    /\ apic_pc = "new" => access = 0 /\ msr = 0 /\ io = NoRegion /\ ~astray
    /\ apic_pc = "local" =>
        /\ local.phys = msr /\ io = NoRegion
        /\ pc = "map" => cur = local /\ access = 0
        /\ pc = "idle" => local \in regions
    /\ msr % PageSize = MsrFlags =>
        /\ ~astray
        /\ apic_pc = "local" => pc # "fault"
        /\ apic_pc # "local" \/ access > 0 => local_regs[SVR] = 255
        /\ apic_pc # "local" \/ access > 1 => local_regs[LvtTimer] = Timer
        /\ apic_pc # "local" \/ access > 2 => local_regs[InitialCount] = 0

(* What map makes of an entry's halves. *)
NewLo(k) == [entries[k].lo EXCEPT !.vector = SpuriousIoApic, !.masked = FALSE]

NewHi(k) == DestinationField(entries[k].lo.dmode, entries[k].hi)

IoInv ==
    /\ \/ entries = <<>> /\ io_regs = <<>>
       \/ /\ entries \in RedirectionTables
          /\ DOMAIN io_regs = Extent(RedirBase, 2 * Len(entries))
          /\ \A k \in DOMAIN entries :
                /\ io_regs[RedirectionEntry(k - 1)] \in {entries[k].lo, NewLo(k)}
                /\ io_regs[RedirectionEntry(k - 1) + 1] \in {entries[k].hi, NewHi(k)}
    /\ apic_pc \in {"read", "lo", "hi", "published"} =>
        /\ entries # <<>>
        /\ \A k \in DOMAIN entries : k < access => io_regs[RedirectionEntry(k - 1)] = NewLo(k)
    /\ apic_pc \in {"new", "local"} \/ (apic_pc = "io" /\ pc # "panic") => entries = <<>>
    /\ apic_pc = "io" /\ pc # "panic" => access = 0
    /\ apic_pc \in {"lo", "hi"} =>
        /\ index < Len(entries) /\ access <= Len(entries)
        /\ entry = [lo |-> NewLo(index + 1), hi |-> NewHi(index + 1)]
    /\ apic_pc = "hi" => io_regs[RedirectionEntry(index)] = NewLo(index + 1)
    /\ apic_pc = "published" => access > Len(entries)

-----------------------------------------------------------------------------

(* The accesses of apic::init to the local APIC: three writes, then reads. *)
LEMMA AccessFacts ==
    /\ Len(Accesses) = 9
    /\ \A n \in 0 .. 8 :
        /\ Accesses[n + 1].offset \in 0 .. 255
        /\ n = 0 => Accesses[n + 1] = [offset |-> SVR, value |-> <<255>>]
        /\ n = 1 => Accesses[n + 1] = [offset |-> LvtTimer, value |-> <<Timer>>]
        /\ n = 2 => Accesses[n + 1] = [offset |-> InitialCount, value |-> <<0>>]
        /\ n > 2 => Accesses[n + 1].value = <<>>
<1>1. Len(Accesses) = 9  BY DEF Accesses
<1>2. ASSUME NEW n \in 0 .. 8
      PROVE  /\ Accesses[n + 1].offset \in 0 .. 255
             /\ n = 0 => Accesses[n + 1] = [offset |-> SVR, value |-> <<255>>]
             /\ n = 1 => Accesses[n + 1] = [offset |-> LvtTimer, value |-> <<Timer>>]
             /\ n = 2 => Accesses[n + 1] = [offset |-> InitialCount, value |-> <<0>>]
             /\ n > 2 => Accesses[n + 1].value = <<>>
  <2>1. \/ n = 0 \/ n = 1 \/ n = 2 \/ n = 3 \/ n = 4 \/ n = 5 \/ n = 6 \/ n = 7 \/ n = 8
    OBVIOUS
  <2>2. CASE n = 0  BY <2>2 DEF Accesses, SVR, LvtTimer, InitialCount
  <2>3. CASE n = 1  BY <2>3 DEF Accesses, SVR, LvtTimer, InitialCount
  <2>4. CASE n = 2  BY <2>4 DEF Accesses, SVR, LvtTimer, InitialCount
  <2>5. CASE n = 3  BY <2>5 DEF Accesses, SVR, LvtTimer, InitialCount
  <2>6. CASE n = 4  BY <2>6 DEF Accesses, SVR, LvtTimer, InitialCount
  <2>7. CASE n = 5  BY <2>7 DEF Accesses, SVR, LvtTimer, InitialCount
  <2>8. CASE n = 6  BY <2>8 DEF Accesses, SVR, LvtTimer, InitialCount
  <2>9. CASE n = 7  BY <2>9 DEF Accesses, SVR, LvtTimer, InitialCount
  <2>10. CASE n = 8  BY <2>10 DEF Accesses, SVR, LvtTimer, InitialCount
  <2>. QED  BY Zenon, <2>1, <2>2, <2>3, <2>4, <2>5, <2>6, <2>7, <2>8, <2>9, <2>10
<1>. QED  BY Zenon, <1>1, <1>2

(* From a mapping at an address with the MSR's flag bits, an access to an  *)
(* offset leads to that register.                                          *)
LEMMA AccessReaches ==
    ASSUME MemoryTypeOK, PageInv, local \in regions, local.phys = msr,
           msr \in Nat, msr % PageSize = MsrFlags, NEW o \in 0 .. 255
    PROVE  /\ translate_addr(offset_to_addr(o)) = LocalRegister(o)
           /\ LocalRegister(o) # Unmapped
<1>1. Made(local) /\ Backed(local, local.count)  BY DEF PageInv
<1>2. local.virt \in Nat /\ local.count \in Nat /\ local.count > 0
  BY <1>1, CountFacts DEF Made, Mappings
<1>3. local.virt \in DOMAIN page_table /\ page_table[local.virt] = msr \div 256
  <2>1. 0 \in 0 .. (local.count - 1) /\ local.virt + 0 = local.virt
        /\ (msr \div 256) + 0 = msr \div 256 
    BY <1>2
  <2>2. PageSize = 256  BY MemoryAssumption DEF MemoryAssumption
  <2>. QED  BY <1>1, <2>1, <2>2 DEF Backed
<1>4. offset_to_addr(o) = (local.virt * 256) + o
  BY <1>2, MemoryAssumption DEF offset_to_addr, virtual_start, MsrFlags, MemoryAssumption
<1>5. ((local.virt * 256) + o) \div 256 = local.virt /\ ((local.virt * 256) + o) % 256 = o
  BY <1>2
<1>6. translate_addr(offset_to_addr(o)) = (msr \div 256) * 256 + o
  BY <1>3, <1>4, <1>5, MemoryAssumption DEF translate_addr, MemoryAssumption
<1>7. LocalRegister(o) = (msr \div 256) * 256 + o
  BY MemoryAssumption DEF LocalRegister, MemoryAssumption
<1>8. (msr \div 256) * 256 + o # 0 - 1  OBVIOUS
<1>. QED  BY <1>6, <1>7, <1>8 DEF Unmapped

(* The step of an access to the local APIC. *)
LEMMA LocalAccessInductive ==
    ASSUME MemoryTypeOK, PageInv, LocalInv, LocalApicAccess
    PROVE  LocalInv'
<1>1. /\ apic_pc = "local" /\ pc = "idle" /\ access < 9 /\ access \in Nat /\ msr \in Nat
      /\ apic_pc' = "local" /\ msr' = msr /\ local' = local /\ io' = io
      /\ UNCHANGED <<page_table, regions, cur>>
      /\ MemoryTypeOK /\ PageInv /\ local \in regions /\ local.phys = msr /\ io = NoRegion
      /\ DOMAIN local_regs = {SVR, LvtTimer, InitialCount}
  BY Zenon, AccessFacts DEF LocalApicAccess, LocalInv
<1>. DEFINE a == Accesses[access + 1]
            at == translate_addr(offset_to_addr(a.offset))
            hit == at = LocalRegister(a.offset) /\ msr % PageSize >= MsrEnable
<1>2. /\ astray' = (astray \/ ~hit)
      /\ \/ at = Unmapped /\ pc' = "fault" /\ UNCHANGED <<access, local_regs>>
         \/ /\ at # Unmapped /\ access' = access + 1 /\ pc' = pc
            /\ local_regs' = IF hit /\ a.value # <<>>
                             THEN [local_regs EXCEPT ![a.offset] = a.value[1]]
                             ELSE local_regs
  BY DEF LocalApicAccess
<1>3. /\ a.offset \in 0 .. 255
      /\ access = 0 => a = [offset |-> SVR, value |-> <<255>>]
      /\ access = 1 => a = [offset |-> LvtTimer, value |-> <<Timer>>]
      /\ access = 2 => a = [offset |-> InitialCount, value |-> <<0>>]
      /\ access > 2 => a.value = <<>>
  <2>1. access \in 0 .. 8  BY <1>1
  <2>. QED  BY Zenon, <2>1, AccessFacts
<1>4. CASE msr % PageSize = MsrFlags
  <2>1. hit /\ at # Unmapped
    <3>1. at = LocalRegister(a.offset) /\ LocalRegister(a.offset) # Unmapped
      BY Zenon, <1>1, <1>3, <1>4, AccessReaches
    <3>2. msr % PageSize >= MsrEnable  BY <1>4 DEF MsrFlags, MsrEnable
    <3>. QED  BY <3>1, <3>2
  <2>. HIDE DEF a, at, hit
  <2>2. /\ ~astray
        /\ access > 0 => local_regs[SVR] = 255
        /\ access > 1 => local_regs[LvtTimer] = Timer
        /\ access > 2 => local_regs[InitialCount] = 0
    BY <1>1, <1>4 DEF LocalInv
  <2>3. ~astray' /\ access' = access + 1 /\ pc' = "idle"  BY Zenon, <1>1, <1>2, <2>1, <2>2
  <2>4. /\ access \in {0, 1, 2} => local_regs' = [local_regs EXCEPT ![a.offset] = a.value[1]]
        /\ access > 2 => local_regs' = local_regs
    <3>1. <<255>> # <<>> /\ <<Timer>> # <<>> /\ <<0>> # <<>>  OBVIOUS
    <3>. QED  BY <1>2, <1>3, <2>1, <3>1
  <2>5. SVR = 15 /\ LvtTimer = 50 /\ InitialCount = 56  BY DEF SVR, LvtTimer, InitialCount
  <2>6. /\ DOMAIN local_regs' = {SVR, LvtTimer, InitialCount}
        /\ local_regs'[SVR] = 255
        /\ access' > 1 => local_regs'[LvtTimer] = Timer
        /\ access' > 2 => local_regs'[InitialCount] = 0
    <3>1. CASE access = 0  BY <1>1, <1>3, <2>3, <2>4, <2>5, <3>1
    <3>2. CASE access = 1  BY <1>1, <1>3, <2>2, <2>3, <2>4, <2>5, <3>2
    <3>3. CASE access = 2  BY <1>1, <1>3, <2>2, <2>3, <2>4, <2>5, <3>3
    <3>4. CASE access > 2  BY <1>1, <2>2, <2>3, <2>4, <3>4
    <3>. QED  BY <1>1, <3>1, <3>2, <3>3, <3>4
  <2>7. access' \in Nat  BY <1>1, <2>3
  <2>. QED  BY <1>1, <2>3, <2>6, <2>7 DEF LocalInv
<1>5. CASE msr % PageSize # MsrFlags
  <2>. HIDE DEF a, at, hit
  <2>1. DOMAIN local_regs' = {SVR, LvtTimer, InitialCount}  BY <1>1, <1>2
  <2>2. access' \in Nat /\ pc' \in {"idle", "fault"}  BY <1>1, <1>2
  <2>. QED  BY <1>1, <1>5, <2>1, <2>2 DEF LocalInv
<1>. QED  BY <1>4, <1>5

(* A step of apic::init keeps the part about the local APIC. *)
LEMMA LocalStep ==
    ASSUME MemoryTypeOK, PageInv, LocalInv, ApicStep
    PROVE  LocalInv'
<1>1. CASE LocalApicNew
  <2>1. PICK b \in LocalBases :
          msr' = b /\ map_physical_region([phys |-> b, size |-> LocalSize])
    BY <1>1 DEF LocalApicNew
  <2>2. msr' \in Nat /\ cur'.phys = msr' /\ pc' = "map"
    BY <2>1, ApicAssumption DEF ApicAssumption, map_physical_region
  <2>3. /\ apic_pc = "new" /\ apic_pc' = "local" /\ local' = cur'
        /\ UNCHANGED <<io, access, local_regs, astray>>
    BY <1>1 DEF LocalApicNew
  <2>. QED  BY <2>2, <2>3 DEF LocalInv
<1>2. CASE LocalApicAccess  BY <1>2, LocalAccessInductive
<1>3. CASE IOApicNew
  <2>1. /\ apic_pc = "local" /\ access = 9 /\ access' = 0 /\ apic_pc' = "io"
        /\ UNCHANGED <<msr, local, local_regs, astray>>
    BY Zenon, <1>3, AccessFacts DEF IOApicNew
  <2>. QED  BY <2>1 DEF LocalInv
<1>4. CASE IOApicFromAddr \/ ReadEntry \/ WriteLo \/ WriteHi \/ Publish
  <2>1. /\ apic_pc \notin {"new", "local"} /\ apic_pc' \notin {"new", "local"}
        /\ UNCHANGED <<msr, local, local_regs, astray>>
        /\ access' = access \/ access' = access + 1
    BY <1>4 DEF IOApicFromAddr, ReadEntry, WriteLo, WriteHi, Publish
  <2>. QED  BY <2>1 DEF LocalInv
<1>. QED  BY <1>1, <1>2, <1>3, <1>4 DEF ApicStep

(* The accesses made have reached their registers. *)
LEMMA LocalReaches ==
    ASSUME LocalInv
    PROVE  RegistersReached
BY DEF LocalInv, RegistersReached

-----------------------------------------------------------------------------

(* What an I/O APIC's table looks like. *)
LEMMA TableFacts ==
    ASSUME NEW t \in RedirectionTables
    PROVE  /\ Len(t) \in Nat /\ Len(t) > 0 /\ DOMAIN t = 1 .. Len(t) /\ t # <<>>
           /\ \A k \in 1 .. Len(t) :
                /\ t[k].lo \in [vector : Nat, dmode : {"Physical", "Logical"},
                                masked : BOOLEAN, rest : Nat]
                /\ t[k].hi \in Nat
<1>1. t \in Seq([lo : [vector : Nat, dmode : {"Physical", "Logical"},
                       masked : BOOLEAN, rest : Nat], hi : Nat])
      /\ Len(t) > 0
  BY ApicAssumption DEF ApicAssumption
<1>2. Len(t) \in Nat /\ DOMAIN t = 1 .. Len(t)  BY <1>1, SequenceFacts
<1>3. \A k \in 1 .. Len(t) : t[k] \in [lo : [vector : Nat, dmode : {"Physical", "Logical"},
                                           masked : BOOLEAN, rest : Nat], hi : Nat]
  BY Zenon, <1>1, SequenceFacts
<1>. QED  BY <1>1, <1>2, <1>3

(* Rewriting an entry once more changes nothing. *)
LEMMA RewriteFacts ==
    ASSUME NEW lo \in [vector : Nat, dmode : {"Physical", "Logical"}, masked : BOOLEAN, rest : Nat],
           NEW hi \in Nat
    PROVE  LET new == [lo EXCEPT !.vector = SpuriousIoApic, !.masked = FALSE]
           IN  /\ [new EXCEPT !.vector = SpuriousIoApic, !.masked = FALSE] = new
               /\ new.dmode = lo.dmode
               /\ DestinationField(lo.dmode, DestinationField(lo.dmode, hi))
                    = DestinationField(lo.dmode, hi)
<1>1. (hi % 16) % 16 = hi % 16  OBVIOUS
<1>. QED  BY Zenon, <1>1 DEF DestinationField

(* The numbers of the halves of different entries. *)
LEMMA RegisterFacts ==
    ASSUME NEW j \in Nat, NEW k \in Nat
    PROVE  /\ RedirectionEntry(j) = RedirectionEntry(k) => j = k
           /\ RedirectionEntry(j) + 1 = RedirectionEntry(k) + 1 => j = k
           /\ RedirectionEntry(j) # RedirectionEntry(k) + 1
<1>. RedirBase \in Nat  BY ApicAssumption DEF ApicAssumption
<1>. QED  BY DEF RedirectionEntry

(* The entry that a register number belongs to, and which half it is. *)
LEMMA HalfFacts ==
    ASSUME NEW b \in Nat, NEW k \in Nat, k >= 1, NEW reg, reg = b + (k - 1) * 2
    PROVE  /\ ((reg - b) \div 2) + 1 = k /\ (reg - b) % 2 = 0
           /\ (((reg + 1) - b) \div 2) + 1 = k /\ ((reg + 1) - b) % 2 = 1
OBVIOUS

(* from_addr finds the registers as the firmware left them. *)
LEMMA FromAddrInductive ==
    ASSUME LocalInv, IoInv, IOApicFromAddr
    PROVE  IoInv'
<1>1. /\ apic_pc = "io" /\ pc = "idle" /\ entries = <<>> /\ io_regs = <<>> /\ access = 0
      /\ access' = access
  <2>1. apic_pc = "io" /\ pc = "idle" /\ access' = access  BY DEF IOApicFromAddr
  <2>2. entries = <<>> /\ access = 0  BY <2>1 DEF IoInv
  <2>3. entries \notin RedirectionTables  BY <2>2, TableFacts
  <2>. QED  BY <2>1, <2>2, <2>3 DEF IoInv
<1>2. CASE ~Aligned(io.phys, PageSize)
  <2>1. pc' = "panic" /\ UNCHANGED <<apic_pc, entries, io_regs>>
    BY Zenon, <1>2 DEF IOApicFromAddr, Panic
  <2>. QED  BY <1>1, <2>1 DEF IoInv
<1>3. CASE Aligned(io.phys, PageSize)
  <2>1. PICK t \in RedirectionTables :
          /\ entries' = t
          /\ io_regs' = [reg \in Extent(RedirBase, 2 * Len(t)) |->
                LET e == t[((reg - RedirBase) \div 2) + 1]
                IN  IF (reg - RedirBase) % 2 = 0 THEN e.lo ELSE e.hi]
          /\ (Panic /\ apic_pc' = apic_pc) \/ apic_pc' = "read"
    BY Zenon, <1>3 DEF IOApicFromAddr
  <2>2. /\ Len(t) \in Nat /\ Len(t) > 0 /\ DOMAIN t = 1 .. Len(t) /\ t # <<>>  BY TableFacts
  <2>3. DOMAIN io_regs' = Extent(RedirBase, 2 * Len(t))  BY <2>1
  <2>4. ASSUME NEW k \in DOMAIN t
        PROVE  /\ io_regs'[RedirectionEntry(k - 1)] = t[k].lo
               /\ io_regs'[RedirectionEntry(k - 1) + 1] = t[k].hi
    <3>. DEFINE reg == RedirBase + (k - 1) * 2
                second == reg + 1
    <3>1. RedirBase \in Nat /\ k \in Nat /\ k >= 1 /\ k <= Len(t)
      BY <2>2, ApicAssumption DEF ApicAssumption
    <3>2. /\ ((reg - RedirBase) \div 2) + 1 = k /\ (reg - RedirBase) % 2 = 0
          /\ ((second - RedirBase) \div 2) + 1 = k /\ (second - RedirBase) % 2 = 1
      BY <3>1, HalfFacts, Zenon
    <3>3. reg \in Extent(RedirBase, 2 * Len(t)) /\ second \in Extent(RedirBase, 2 * Len(t))
      BY <2>2, <3>1 DEF Extent
    <3>. HIDE DEF reg, second
    <3>4. \A q \in {reg, second} :
            io_regs'[q] = IF (q - RedirBase) % 2 = 0 THEN t[((q - RedirBase) \div 2) + 1].lo
                                                      ELSE t[((q - RedirBase) \div 2) + 1].hi
      BY <2>1, <3>3
    <3>5. io_regs'[reg] = t[k].lo  BY <3>2, <3>4
    <3>6. io_regs'[second] = t[k].hi  BY <3>2, <3>4
    <3>. QED  BY <3>5, <3>6 DEF reg, second, RedirectionEntry
  <2>5. (pc' = "panic" /\ apic_pc' = "io") \/ apic_pc' = "read"  BY <1>1, <2>1 DEF Panic
  <2>6. \A k \in DOMAIN t : ~(k < access')  BY <1>1, <2>2
  <2>. QED  BY Zenon, <2>1, <2>2, <2>3, <2>4, <2>5, <2>6 DEF IoInv
<1>. QED  BY <1>2, <1>3

(* While the entries are rewritten: the state of the registers. *)
LEMMA EntriesFacts ==
    ASSUME LocalInv, IoInv, apic_pc \in {"read", "lo", "hi", "published"}
    PROVE  /\ entries \in RedirectionTables /\ access \in Nat /\ index \in Nat
           /\ Len(entries) \in Nat /\ DOMAIN entries = 1 .. Len(entries)
           /\ DOMAIN io_regs = Extent(RedirBase, 2 * Len(entries))
           /\ \A k \in DOMAIN entries :
                /\ io_regs[RedirectionEntry(k - 1)] \in {entries[k].lo, NewLo(k)}
                /\ io_regs[RedirectionEntry(k - 1) + 1] \in {entries[k].hi, NewHi(k)}
                /\ k < access => io_regs[RedirectionEntry(k - 1)] = NewLo(k)
                /\ k - 1 \in Nat /\ k \in Nat /\ k >= 1
                /\ RedirectionEntry(k - 1) \in DOMAIN io_regs
                /\ RedirectionEntry(k - 1) + 1 \in DOMAIN io_regs
<1>1. IoInv /\ access \in Nat  BY DEF LocalInv
<1>2. /\ entries \in RedirectionTables /\ DOMAIN io_regs = Extent(RedirBase, 2 * Len(entries))
      /\ \A k \in DOMAIN entries :
            /\ io_regs[RedirectionEntry(k - 1)] \in {entries[k].lo, NewLo(k)}
            /\ io_regs[RedirectionEntry(k - 1) + 1] \in {entries[k].hi, NewHi(k)}
            /\ k < access => io_regs[RedirectionEntry(k - 1)] = NewLo(k)
  BY <1>1 DEF IoInv
<1>3. Len(entries) \in Nat /\ DOMAIN entries = 1 .. Len(entries)  BY <1>2, TableFacts
<1>4. index \in Nat  BY <1>1 DEF index
<1>5. RedirBase \in Nat  BY ApicAssumption DEF ApicAssumption
<1>6. ASSUME NEW k \in DOMAIN entries
      PROVE  /\ k - 1 \in Nat /\ k \in Nat /\ k >= 1
             /\ RedirectionEntry(k - 1) \in DOMAIN io_regs
             /\ RedirectionEntry(k - 1) + 1 \in DOMAIN io_regs
  BY <1>2, <1>3, <1>5 DEF RedirectionEntry, Extent
<1>. QED  BY Zenon, <1>1, <1>2, <1>3, <1>4, <1>6

(* read_entry and the new vector. *)
LEMMA ReadInductive ==
    ASSUME LocalInv, IoInv, ReadEntry
    PROVE  IoInv'
<1>1. /\ apic_pc = "read" /\ pc = "idle" /\ access <= Len(entries)
      /\ UNCHANGED <<access, entries, io_regs>>
  BY DEF ReadEntry
<1>2. IoInv  OBVIOUS
<1>. DEFINE reg == RedirectionEntry(index)
<1>3. CASE index >= Len(entries) \/ second_part_redir(reg) > RegMax
  <2>1. apic_pc' = apic_pc  BY <1>3 DEF ReadEntry
  <2>. QED  BY Zenon, <1>1, <1>2, <2>1 DEF IoInv, NewLo, NewHi
<1>4. CASE ~(index >= Len(entries) \/ second_part_redir(reg) > RegMax)
  <2>1. /\ apic_pc' = "lo"
        /\ entry' = [lo |-> [io_regs[reg] EXCEPT !.vector = SpuriousIoApic, !.masked = FALSE],
                     hi |-> DestinationField(io_regs[reg].dmode, io_regs[second_part_redir(reg)])]
    BY <1>4 DEF ReadEntry
  <2>2. PICK k : k = index + 1  OBVIOUS
  <2>3. index \in Nat /\ Len(entries) \in Nat /\ index < Len(entries)
        /\ entries \in RedirectionTables /\ DOMAIN entries = 1 .. Len(entries)
    BY <1>1, <1>4, EntriesFacts
  <2>4. k \in DOMAIN entries /\ k - 1 = index  BY <2>2, <2>3
  <2>5. /\ io_regs[reg] \in {entries[k].lo, NewLo(k)}
        /\ io_regs[reg + 1] \in {entries[k].hi, NewHi(k)}
    BY <1>1, <2>4, EntriesFacts
  <2>6. /\ entries[k].lo \in [vector : Nat, dmode : {"Physical", "Logical"},
                              masked : BOOLEAN, rest : Nat]
        /\ entries[k].hi \in Nat
    BY <2>3, <2>4, TableFacts
  <2>7. [io_regs[reg] EXCEPT !.vector = SpuriousIoApic, !.masked = FALSE] = NewLo(k)
        /\ io_regs[reg].dmode = entries[k].lo.dmode
    <3>1. CASE io_regs[reg] = entries[k].lo  BY <3>1 DEF NewLo
    <3>2. CASE io_regs[reg] = NewLo(k)  BY Zenon, <2>6, <3>2, RewriteFacts DEF NewLo
    <3>. QED  BY <2>5, <3>1, <3>2
  <2>8. DestinationField(io_regs[reg].dmode, io_regs[reg + 1]) = NewHi(k)
    <3>1. DestinationField(entries[k].lo.dmode, NewHi(k)) = NewHi(k)
      BY Zenon, <2>6, RewriteFacts DEF NewHi
    <3>2. DestinationField(entries[k].lo.dmode, entries[k].hi) = NewHi(k)  BY DEF NewHi
    <3>. QED  BY <2>5, <2>7, <3>1, <3>2
  <2>9. entry' = [lo |-> NewLo(k), hi |-> NewHi(k)]
    BY <2>1, <2>7, <2>8 DEF second_part_redir
  <2>10. index' = index /\ NewLo(k)' = NewLo(k) /\ NewHi(k)' = NewHi(k)
    BY <1>1 DEF index, NewLo, NewHi
  <2>11. (entry = [lo |-> NewLo(index + 1), hi |-> NewHi(index + 1)])'
    BY <2>2, <2>9, <2>10 DEF NewLo, NewHi
  <2>12. (index < Len(entries) /\ access <= Len(entries))'  BY <1>1, <2>3, <2>10
  <2>13. \A l : NewLo(l)' = NewLo(l) /\ NewHi(l)' = NewHi(l)  BY <1>1 DEF NewLo, NewHi
  <2>. QED  BY <1>1, <1>2, <2>1, <2>11, <2>12, <2>13 DEF IoInv
<1>. QED  BY <1>3, <1>4

(* write_entry's first write. *)
LEMMA WriteLoInductive ==
    ASSUME LocalInv, IoInv, WriteLo
    PROVE  IoInv'
<1>1. PICK k : k = index + 1  OBVIOUS
<1>2. /\ apic_pc = "lo" /\ apic_pc' = "hi" /\ UNCHANGED <<access, entries, entry>>
      /\ io_regs' = [io_regs EXCEPT ![RedirectionEntry(index)] = entry.lo]
  BY DEF WriteLo
<1>3. /\ index < Len(entries) /\ access <= Len(entries)
      /\ entry = [lo |-> NewLo(k), hi |-> NewHi(k)]
  BY <1>1, <1>2 DEF IoInv
<1>4. index \in Nat /\ Len(entries) \in Nat /\ entries \in RedirectionTables
      /\ DOMAIN entries = 1 .. Len(entries) /\ DOMAIN io_regs = Extent(RedirBase, 2 * Len(entries))
  BY <1>2, EntriesFacts
<1>5. k \in DOMAIN entries /\ k - 1 = index  BY <1>1, <1>3, <1>4
<1>6. DOMAIN io_regs' = DOMAIN io_regs /\ io_regs'[RedirectionEntry(index)] = NewLo(k)
  <2>1. RedirectionEntry(index) \in DOMAIN io_regs  BY <1>2, <1>5, EntriesFacts
  <2>. QED  BY <1>2, <1>3, <2>1
<1>7. ASSUME NEW l \in DOMAIN entries
      PROVE  /\ io_regs'[RedirectionEntry(l - 1)] \in {entries[l].lo, NewLo(l)}
             /\ io_regs'[RedirectionEntry(l - 1) + 1] \in {entries[l].hi, NewHi(l)}
             /\ l < access => io_regs'[RedirectionEntry(l - 1)] = NewLo(l)
  <2>1. /\ io_regs[RedirectionEntry(l - 1)] \in {entries[l].lo, NewLo(l)}
        /\ io_regs[RedirectionEntry(l - 1) + 1] \in {entries[l].hi, NewHi(l)}
        /\ l < access => io_regs[RedirectionEntry(l - 1)] = NewLo(l)
        /\ l - 1 \in Nat /\ l \in Nat
        /\ RedirectionEntry(l - 1) \in DOMAIN io_regs
        /\ RedirectionEntry(l - 1) + 1 \in DOMAIN io_regs
    BY <1>2, EntriesFacts
  <2>2. RedirectionEntry(index) # RedirectionEntry(l - 1) + 1
    BY <1>4, <2>1, RegisterFacts
  <2>3. io_regs'[RedirectionEntry(l - 1) + 1] = io_regs[RedirectionEntry(l - 1) + 1]
    BY <1>2, <2>1, <2>2
  <2>4. CASE l = k  BY <1>5, <1>6, <2>1, <2>3, <2>4
  <2>5. CASE l # k
    <3>1. RedirectionEntry(index) # RedirectionEntry(l - 1)
      <4>1. l - 1 # index  BY <1>1, <1>4, <2>1, <2>5
      <4>. QED  BY <1>4, <2>1, <4>1, RegisterFacts
    <3>2. io_regs'[RedirectionEntry(l - 1)] = io_regs[RedirectionEntry(l - 1)]
      BY <1>2, <2>1, <3>1
    <3>. QED  BY <2>1, <2>3, <3>2
  <2>. QED  BY <2>4, <2>5
<1>8. index' = index /\ \A l : NewLo(l)' = NewLo(l) /\ NewHi(l)' = NewHi(l)
  BY <1>2 DEF index, NewLo, NewHi
<1>9. /\ (entry = [lo |-> NewLo(index + 1), hi |-> NewHi(index + 1)])'
      /\ (io_regs[RedirectionEntry(index)] = NewLo(index + 1))'
  BY <1>1, <1>2, <1>3, <1>6, <1>8 DEF NewLo, NewHi, RedirectionEntry
<1>10. (index < Len(entries) /\ access <= Len(entries))' /\ entries' # <<>>
  BY <1>2, <1>3, <1>4, <1>8, TableFacts
<1>. QED  BY <1>2, <1>4, <1>6, <1>7, <1>8, <1>9, <1>10 DEF IoInv

(* write_entry's second write, after which the next entry is due. *)
LEMMA WriteHiInductive ==
    ASSUME LocalInv, IoInv, WriteHi
    PROVE  IoInv'
<1>1. PICK k : k = index + 1  OBVIOUS
<1>2. /\ apic_pc = "hi" /\ apic_pc' = "read" /\ UNCHANGED <<entries, entry>>
      /\ access' = access + 1
      /\ io_regs' = [io_regs EXCEPT ![RedirectionEntry(index) + 1] = entry.hi]
  BY DEF WriteHi, second_part_redir
<1>3. /\ index < Len(entries)
      /\ entry = [lo |-> NewLo(k), hi |-> NewHi(k)]
      /\ io_regs[RedirectionEntry(index)] = NewLo(k)
  BY <1>1, <1>2 DEF IoInv
<1>4. /\ index \in Nat /\ access \in Nat /\ Len(entries) \in Nat /\ entries \in RedirectionTables
      /\ DOMAIN entries = 1 .. Len(entries) /\ DOMAIN io_regs = Extent(RedirBase, 2 * Len(entries))
  BY <1>2, EntriesFacts
<1>5. k \in DOMAIN entries /\ k - 1 = index  BY <1>1, <1>3, <1>4
<1>6. DOMAIN io_regs' = DOMAIN io_regs /\ io_regs'[RedirectionEntry(index) + 1] = NewHi(k)
  <2>1. RedirectionEntry(index) + 1 \in DOMAIN io_regs  BY <1>2, <1>5, EntriesFacts
  <2>. QED  BY <1>2, <1>3, <2>1
<1>7. ASSUME NEW l \in DOMAIN entries
      PROVE  /\ io_regs'[RedirectionEntry(l - 1)] \in {entries[l].lo, NewLo(l)}
             /\ io_regs'[RedirectionEntry(l - 1) + 1] \in {entries[l].hi, NewHi(l)}
             /\ l < access' => io_regs'[RedirectionEntry(l - 1)] = NewLo(l)
  <2>1. /\ io_regs[RedirectionEntry(l - 1)] \in {entries[l].lo, NewLo(l)}
        /\ io_regs[RedirectionEntry(l - 1) + 1] \in {entries[l].hi, NewHi(l)}
        /\ l < access => io_regs[RedirectionEntry(l - 1)] = NewLo(l)
        /\ l - 1 \in Nat /\ l \in Nat /\ l >= 1
        /\ RedirectionEntry(l - 1) \in DOMAIN io_regs
        /\ RedirectionEntry(l - 1) + 1 \in DOMAIN io_regs
    BY <1>2, EntriesFacts
  <2>2. RedirectionEntry(index) + 1 # RedirectionEntry(l - 1)
    BY <1>4, <2>1, RegisterFacts
  <2>3. io_regs'[RedirectionEntry(l - 1)] = io_regs[RedirectionEntry(l - 1)]
    BY <1>2, <2>1, <2>2
  <2>4. l < access' => l < access \/ l = k
    <3>1. access' > 1 => index = access - 1  BY <1>2, <1>4 DEF index
    <3>. QED  BY <1>1, <1>2, <1>4, <2>1, <3>1
  <2>5. l < access' => io_regs'[RedirectionEntry(l - 1)] = NewLo(l)
    BY <1>3, <1>5, <2>1, <2>3, <2>4
  <2>6. CASE l = k  BY <1>5, <1>6, <2>1, <2>3, <2>5, <2>6
  <2>7. CASE l # k
    <3>1. RedirectionEntry(index) + 1 # RedirectionEntry(l - 1) + 1
      <4>1. l - 1 # index  BY <1>1, <1>4, <2>1, <2>7
      <4>. QED  BY <1>4, <2>1, <4>1, RegisterFacts
    <3>2. io_regs'[RedirectionEntry(l - 1) + 1] = io_regs[RedirectionEntry(l - 1) + 1]
      BY <1>2, <2>1, <3>1
    <3>. QED  BY <2>1, <2>3, <2>5, <3>2
  <2>. QED  BY <2>6, <2>7
<1>8. \A l : NewLo(l)' = NewLo(l) /\ NewHi(l)' = NewHi(l)
  BY <1>2 DEF NewLo, NewHi
<1>9. entries' # <<>>  BY <1>2, <1>4, TableFacts
<1>. QED  BY <1>2, <1>4, <1>6, <1>7, <1>8, <1>9 DEF IoInv

(* A step of apic::init keeps the part about the I/O APIC. *)
LEMMA IoStep ==
    ASSUME LocalInv, IoInv, ApicStep
    PROVE  IoInv'
<1>1. entries = <<>> => io_regs = <<>>
  <2>1. entries = <<>> => entries \notin RedirectionTables  BY TableFacts
  <2>. QED  BY <2>1 DEF IoInv
<1>2. CASE LocalApicNew \/ LocalApicAccess
  <2>1. apic_pc \in {"new", "local"} /\ apic_pc' = "local" /\ UNCHANGED <<entries, io_regs>>
    BY Zenon, <1>2 DEF LocalApicNew, LocalApicAccess
  <2>. QED  BY <1>1, <2>1 DEF IoInv
<1>3. CASE IOApicNew
  <2>1. apic_pc = "local" /\ apic_pc' = "io" /\ access' = 0 /\ UNCHANGED <<entries, io_regs>>
    BY <1>3 DEF IOApicNew
  <2>. QED  BY <1>1, <2>1 DEF IoInv
<1>4. CASE IOApicFromAddr  BY <1>4, FromAddrInductive
<1>5. CASE ReadEntry  BY <1>5, ReadInductive
<1>6. CASE WriteLo  BY <1>6, WriteLoInductive
<1>7. CASE WriteHi  BY <1>7, WriteHiInductive
<1>8. CASE Publish
  <2>1. /\ apic_pc = "read" /\ apic_pc' = "published" /\ access > Len(entries)
        /\ UNCHANGED <<access, entries, io_regs>>
    BY <1>8 DEF Publish
  <2>2. \A l : NewLo(l)' = NewLo(l) /\ NewHi(l)' = NewHi(l)  BY <2>1 DEF NewLo, NewHi
  <2>. QED  BY <2>1, <2>2 DEF IoInv
<1>. QED  BY <1>2, <1>3, <1>4, <1>5, <1>6, <1>7, <1>8 DEF ApicStep

(* Every half of an entry is as the firmware left it or as intended. *)
LEMMA IoKeeps ==
    ASSUME LocalInv, IoInv
    PROVE  EntriesKept
<1>. SUFFICES ASSUME io_regs # <<>>, NEW k \in DOMAIN entries
              PROVE  LET reg == RedirBase + 2 * (k - 1)
                         old == entries[k]
                         new == [old.lo EXCEPT !.vector = SpuriousIoApic, !.masked = FALSE]
                     IN  /\ io_regs[reg] \in {old.lo, new}
                         /\ old.lo.dmode = "Logical" \/ old.hi < 16 => io_regs[reg + 1] = old.hi
                         /\ apic_pc = "published" => io_regs[reg] = new
  BY Zenon DEF EntriesKept
<1>1. /\ entries \in RedirectionTables
      /\ io_regs[RedirectionEntry(k - 1)] \in {entries[k].lo, NewLo(k)}
      /\ io_regs[RedirectionEntry(k - 1) + 1] \in {entries[k].hi, NewHi(k)}
  BY DEF IoInv
<1>2. k \in Nat /\ k <= Len(entries) /\ Len(entries) \in Nat /\ entries[k].hi \in Nat
  BY <1>1, TableFacts
<1>3. RedirBase + 2 * (k - 1) = RedirectionEntry(k - 1)
  BY <1>2, ApicAssumption DEF ApicAssumption, RedirectionEntry
<1>4. ASSUME entries[k].lo.dmode = "Logical" \/ entries[k].hi < 16
      PROVE  NewHi(k) = entries[k].hi
  <2>1. entries[k].hi < 16 => entries[k].hi % 16 = entries[k].hi  BY <1>2
  <2>. QED  BY <1>4, <2>1 DEF NewHi, DestinationField
<1>5. ASSUME apic_pc = "published"
      PROVE  io_regs[RedirectionEntry(k - 1)] = NewLo(k)
  <2>1. access \in Nat /\ access > Len(entries)  BY <1>5 DEF LocalInv, IoInv
  <2>2. k < access  BY <1>2, <2>1
  <2>. QED  BY <1>5, <2>2 DEF IoInv
<1>. QED  BY <1>1, <1>3, <1>4, <1>5 DEF NewLo

-----------------------------------------------------------------------------

(* A positive number up to two is one of these. *)
LEMMA OneOrTwo ==
    ASSUME NEW n \in Nat, n > 0, 2 >= n
    PROVE  n \in {1, 2}
OBVIOUS

(* A new panic of apic::init is explained. *)
LEMMA ApicPanics ==
    ASSUME LocalInv, IoInv, ApicStep, pc # "panic", pc' = "panic"
    PROVE  \/ (apic_pc = "io" /\ (io = NoRegion \/ ~Aligned(io.phys, PageSize)))'
           \/ (Len(entries) \in {1, 2})'
           \/ (RedirBase + 2 * Len(entries) > RegMax + 1)'
<1>. RedirBase \in Nat /\ RegMax \in Nat  BY ApicAssumption DEF ApicAssumption
<1>1. ~LocalApicNew /\ ~LocalApicAccess /\ ~WriteLo /\ ~WriteHi /\ ~Publish
  BY Zenon DEF LocalApicNew, map_physical_region, LocalApicAccess, WriteLo, WriteHi, Publish, memory_vars
<1>2. CASE IOApicNew
  <2>1. io' = io /\ apic_pc' = "io"
    BY <1>2 DEF IOApicNew, map_physical_region
  <2>2. io = NoRegion  BY <1>2 DEF IOApicNew, LocalInv
  <2>. QED  BY <2>1, <2>2
<1>3. CASE IOApicFromAddr
  <2>1. CASE ~Aligned(io.phys, PageSize)
    BY Zenon, <1>3, <2>1 DEF IOApicFromAddr
  <2>2. CASE Aligned(io.phys, PageSize)
    <3>1. PICK t \in RedirectionTables :
            entries' = t /\ (Len(t) > RegMax \/ UNCHANGED memory_vars)
      BY <1>3, <2>2 DEF IOApicFromAddr
    <3>2. Len(entries') \in Nat
      BY <3>1, ApicAssumption, SequenceFacts DEF ApicAssumption
    <3>. QED  BY <3>1, <3>2 DEF memory_vars
  <2>. QED  BY Zenon, <2>1, <2>2
<1>4. CASE ReadEntry
  <2>1. /\ entries' = entries /\ access <= Len(entries)
        /\ index >= Len(entries) \/ second_part_redir(RedirectionEntry(index)) > RegMax
    BY <1>4 DEF ReadEntry, memory_vars
  <2>2. entries \in RedirectionTables /\ access \in Nat
    BY <1>4 DEF ReadEntry, IoInv, LocalInv
  <2>3. Len(entries) \in Nat /\ Len(entries) > 0
    BY <2>2, ApicAssumption, SequenceFacts DEF ApicAssumption
  <2>4. CASE index >= Len(entries)
    <3>1. CASE access = 0
      <4>1. 2 >= Len(entries)  BY <2>4, <3>1 DEF index
      <4>2. Len(entries) \in {1, 2}  BY <2>3, <4>1, OneOrTwo, Zenon
      <4>. QED  BY <2>1, <4>2
    <3>2. CASE access > 0
      <4>1. access - 1 >= Len(entries)  BY <2>4, <3>2 DEF index
      <4>. QED  BY <2>1, <2>2, <2>3, <4>1
    <3>. QED  BY <2>2, <3>1, <3>2
  <2>5. CASE index < Len(entries)
    <3>1. index \in Nat  BY <2>2 DEF index
    <3>2. RedirBase + index * 2 + 1 > RegMax
      BY <2>1, <2>3, <2>5, <3>1 DEF second_part_redir, RedirectionEntry
    <3>. QED  BY <2>1, <2>3, <2>5, <3>1, <3>2
  <2>. QED  BY <2>2, <2>3, <2>4, <2>5 DEF index
<1>. QED  BY <1>1, <1>2, <1>3, <1>4 DEF ApicStep
=============================================================================
