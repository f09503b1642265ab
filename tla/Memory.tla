------------------------------- MODULE Memory -------------------------------
(***************************************************************************)
(* Physical frames and virtual pages: the frame allocator of memory.rs,    *)
(* allocator::init_heap, the page allocator of allocator/page.rs, and the  *)
(* mapping and unmapping of physical regions in device/acpi/handler.rs.    *)
(* Boot composes it with its users.                                        *)
(*                                                                         *)
(* Pages and frames are numbered; an address is a number of units, of      *)
(* which a page has PageSize.  The page table is external                  *)
(* (x86_64::OffsetPageTable): it is a function from mapped pages to        *)
(* frames, and needs a frame of its own for every group of GroupSize pages *)
(* (its three lower levels are one here).                                  *)
(***************************************************************************)
EXTENDS Regions, Integers, FiniteSets

CONSTANTS
    PageSize,           \* 4096 bytes, in units of 16
    MemoryMaps,         \* the bootloader's map is one of these sequences of
                        \* regions [start, end, kind]
    HeapFirst, HeapLen, \* the pages of HEAP_START .. HEAP_START + HEAP_SIZE - 1
    PagesFirst,         \* the page allocator's first page
    GroupSize           \* pages per page table: 512

(* "The passed memory map is valid": page-aligned and without overlaps. *)
ASSUME MemoryAssumption ==
    /\ PageSize = 256 /\ GroupSize \in Nat /\ GroupSize > 0
    /\ HeapFirst \in Nat /\ HeapLen \in Nat /\ PagesFirst \in Nat
    /\ \A map \in MemoryMaps : \A k \in DOMAIN map :
        /\ k \in Nat /\ map[k].start \in Nat /\ map[k].end \in Nat
        /\ Aligned(map[k].start, PageSize) /\ Aligned(map[k].end, PageSize)
        /\ \A l \in DOMAIN map : k < l => map[k].end <= map[l].start

VARIABLES
    memory_regions,     \* BootInfoFrameAllocator::memory_regions
    next,               \* BootInfoFrameAllocator::next
    page_table,         \* mapped pages to frames
    tables,             \* groups that have a table, to the table's frame
    addr,               \* PageAllocatorImpl::addr, as a page number
    regions,            \* mappings handed out and not dropped
    cur, i,             \* the mapping being made or undone, and the loop's count
    pc                  \* "heap", "idle", "map", "unmap", "panic" or "fault"

memory_vars == <<memory_regions, next, page_table, tables, addr, regions, cur, i, pc>>

NoRegion == [phys |-> 0, size |-> 0, virt |-> 0, count |-> 0]

HeapPages == Extent(HeapFirst, HeapLen)

MemoryInit ==
    /\ memory_regions \in MemoryMaps
    /\ next = 0
    /\ page_table = <<>>
    /\ tables = <<>>
    /\ addr = PagesFirst
    /\ regions = {}
    /\ cur = NoRegion /\ i = 0
    /\ pc = "heap"

-----------------------------------------------------------------------------

(* Mutant: no filter on the kind of a region. *)
AnyKind(r) == TRUE

Usable(r) == r.kind = "Usable"

(* The items of usable_frames: the j-th page of the k-th region, in steps  *)
(* of a page from the region's start on, while its end is not reached.     *)
usable_frames ==
    UNION {[region : {k},
            step : 0 .. ((memory_regions[k].end - memory_regions[k].start - 1) \div PageSize)] :
               k \in {l \in DOMAIN memory_regions : Usable(memory_regions[l])}}

(* The items the iterator yields before it yields u. *)
Before(u) ==
    {v \in usable_frames : v.region < u.region \/ (v.region = u.region /\ v.step < u.step)}

(* Mutant: the first frame is handed out twice. *)
nth_off(n) == {u \in usable_frames : Cardinality(Before(u)) = IF n = 0 THEN 0 ELSE n - 1}

(* usable_frames().nth(n): an item, or none. *)
nth(n) == {u \in usable_frames : Cardinality(Before(u)) = n}

(* What allocate_frame answers when the cursor is n; the cursor is one     *)
(* more afterwards, whatever the answer.                                   *)
allocate_frame(n) ==
    {(memory_regions[u.region].start + u.step * PageSize) \div PageSize : u \in nth(n)}

Group(page) == page \div GroupSize

(* The function f with the value y at x as well. *)
Put(f, x, y) == [z \in DOMAIN f \cup {x} |-> IF z = x THEN y ELSE f[z]]

(* map_to succeeds, the cursor being n when it is called. *)
MapTo(page, frame, n) ==
    /\ page \notin DOMAIN page_table
    /\ \/ /\ Group(page) \in DOMAIN tables
          /\ next' = n
          /\ UNCHANGED tables
       \/ /\ Group(page) \notin DOMAIN tables
          /\ next' = n + 1
          /\ \E f \in allocate_frame(n) : tables' = Put(tables, Group(page), f)
    /\ page_table' = Put(page_table, page, frame)

(* map_to fails, and its caller's expect panics. *)
MapFails(page, n) ==
    /\ \/ page \in DOMAIN page_table /\ next' = n
       \/ /\ page \notin DOMAIN page_table /\ Group(page) \notin DOMAIN tables
          /\ allocate_frame(n) = {}
          /\ next' = n + 1
    /\ pc' = "panic"
    /\ UNCHANGED <<page_table, tables>>

-----------------------------------------------------------------------------

(* One round of init_heap's loop; after the last page the heap is ready.   *)
(* Failing, it leaves the pages of earlier rounds mapped.                  *)
HeapStep ==
    /\ pc = "heap" /\ i < HeapLen
    /\ \/ /\ \E f \in allocate_frame(next) : MapTo(HeapFirst + i, f, next + 1)
          /\ i' = (i + 1) % HeapLen
          /\ pc' = IF i + 1 = HeapLen THEN "idle" ELSE "heap"
       \/ /\ allocate_frame(next) # {}
          /\ MapFails(HeapFirst + i, next + 1)
          /\ UNCHANGED i
       \/ /\ allocate_frame(next) = {}
          /\ next' = next + 1
          /\ pc' = "panic"
          /\ UNCHANGED <<page_table, tables, i>>
    /\ UNCHANGED <<memory_regions, addr, regions, cur>>

(* Mutant: a page at a time, whatever was asked for. *)
allocate_one(n) == addr' = addr + 1

(* PageAllocator::allocate_n; the answer is the old addr. *)
allocate_n(n) == addr' = addr + n

(* The page after the last one of a request: its end, aligned up. *)
end_page(r) == align_up(r.phys + r.size, PageSize) \div PageSize

page_count(r) == end_page(r) - (r.phys \div PageSize)

(* map_physical_region up to its loop.  allocate_n's assertion that the    *)
(* count is not 0 holds, as no request is empty.                           *)
map_physical_region(r) ==
    /\ pc = "idle"
    /\ allocate_n(page_count(r))
    /\ cur' = [phys |-> r.phys, size |-> r.size, virt |-> addr, count |-> page_count(r)]
    /\ i' = 0
    /\ pc' = "map"
    /\ UNCHANGED <<memory_regions, next, page_table, tables, regions>>

(* One round of do_map_region's loop; the last one hands the mapping out. *)
MapStep ==
    /\ pc = "map"
    /\ \/ /\ MapTo(cur.virt + i, (cur.phys \div PageSize) + i, next)
          /\ IF i + 1 = cur.count
             THEN /\ regions' = regions \cup {cur}
                  /\ cur' = NoRegion /\ i' = 0 /\ pc' = "idle"
             ELSE i' = i + 1 /\ UNCHANGED <<regions, cur, pc>>
       \/ /\ MapFails(cur.virt + i, next)
          /\ UNCHANGED <<regions, cur, i>>
    /\ UNCHANGED <<memory_regions, addr>>

(* The address handed out with a mapping. *)
virtual_start(r) == r.virt * PageSize + (r.phys % PageSize)

(* Mutant: as many pages as the region is long, not as were mapped. *)
pages_of_length(r) == (r.size + PageSize - 1) \div PageSize

(* mapped_length / 4096 *)
unmap_count(r) == r.count

(* Dropping a mapping calls unmap_physical_region. *)
UnmapPhysicalRegion(r) ==
    /\ pc = "idle"
    /\ cur' = r
    /\ regions' = regions \ {r}
    /\ i' = 0
    /\ pc' = "unmap"
    /\ UNCHANGED <<memory_regions, next, page_table, tables, addr>>

(* One round of its loop, from the page of virtual_start on. *)
UnmapStep ==
    LET page == (virtual_start(cur) + i * PageSize) \div PageSize IN
        /\ pc = "unmap"
        /\ \/ /\ page \in DOMAIN page_table
              /\ page_table' = [p \in DOMAIN page_table \ {page} |-> page_table[p]]
              /\ IF i + 1 = unmap_count(cur)
                 THEN cur' = NoRegion /\ i' = 0 /\ pc' = "idle"
                 ELSE i' = i + 1 /\ UNCHANGED <<cur, pc>>
           \/ /\ page \notin DOMAIN page_table
              /\ pc' = "panic"
              /\ UNCHANGED <<page_table, cur, i>>
        /\ UNCHANGED <<memory_regions, next, tables, addr, regions>>

Unmapped == 0 - 1

(* memory::translate_addr, and the hardware: the physical address behind a *)
(* virtual one, if its page is mapped.                                     *)
translate_addr(a) ==
    IF a \div PageSize \in DOMAIN page_table
    THEN page_table[a \div PageSize] * PageSize + (a % PageSize)
    ELSE Unmapped

-----------------------------------------------------------------------------

(* The frames the bootloader's map calls usable. *)
Frames ==
    UNION {Extent(memory_regions[k].start \div PageSize,
                  (memory_regions[k].end - memory_regions[k].start) \div PageSize) :
               k \in {l \in DOMAIN memory_regions : memory_regions[l].kind = "Usable"}}

Mappings == [phys : Nat, size : Nat, virt : Nat, count : Nat]

(* The state is well typed, and the page tables that map_to adds are made  *)
(* of frames the bootloader calls usable.                                  *)
MemoryTypeOK ==
    /\ memory_regions \in MemoryMaps
    /\ next \in Nat /\ addr \in Nat /\ i \in Nat
    /\ \A p \in DOMAIN page_table : page_table[p] \in Nat
    /\ \A g \in DOMAIN tables : tables[g] \in Frames
    /\ regions \subseteq Mappings /\ cur \in Mappings
    /\ pc \in {"heap", "idle", "map", "unmap", "panic", "fault"}

(* allocate_frame hands out no frame twice: the frames behind the heap's   *)
(* pages and the page tables' own are usable ones and all different.       *)
FramesPrivate ==
    LET heap == HeapPages \cap DOMAIN page_table IN
        /\ \A p \in heap :
            /\ page_table[p] \in Frames
            /\ \A q \in heap : p # q => page_table[p] # page_table[q]
            /\ \A g \in DOMAIN tables : page_table[p] # tables[g]
        /\ \A g, h \in DOMAIN tables : g # h => tables[g] # tables[h]

(* Mappings are exact.  While one is in use its address leads to every     *)
(* unit of the physical region asked for, also across page boundaries; and *)
(* dropping one unmaps all of it and nothing else, so that between calls   *)
(* the mapped pages are the heap's and those of the mappings in use.       *)
MappingsExact ==
    /\ \A r \in regions : \A k \in 0 .. (r.size - 1) :
        translate_addr(virtual_start(r) + k) = r.phys + k
    /\ pc = "idle" =>
        DOMAIN page_table =
            HeapPages \cup UNION {Extent(r.virt, r.count) : r \in regions}
=============================================================================
