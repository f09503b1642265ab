----------------------------- MODULE BlockProofs -----------------------------
(***************************************************************************)
(* The kernel's global allocator implements GlobalAlloc and shares and     *)
(* loses no address, for every heap, every set of layouts and every list   *)
(* of block sizes.  The invariant: blocks in use, free blocks and the      *)
(* fallback heap partition the heap, and every block of a class is aligned *)
(* to the class's size.                                                    *)
(***************************************************************************)
EXTENDS FixedSizeBlock, RegionProofs

-----------------------------------------------------------------------------

(* list_index answers a class the layout fits, or 0. *)
LEMMA IndexFacts ==
    ASSUME NEW l \in Layouts, list_index(l) # 0
    PROVE  /\ list_index(l) \in Lists
           /\ BLOCK_SIZES[list_index(l)] >= l.size
           /\ BLOCK_SIZES[list_index(l)] >= l.align
<1>. DEFINE fits == {k \in Lists : BLOCK_SIZES[k] >= l.size /\ BLOCK_SIZES[k] >= l.align}
<1>1. fits # {}  BY DEF list_index
<1>2. fits \subseteq Nat
  BY BlockAssumption DEF BlockAssumption, Lists, NumLists
<1>3. list_index(l) = CHOOSE k \in fits : \A j \in fits : k <= j
  BY <1>1 DEF list_index
<1>. HIDE DEF fits
<1>4. \E k \in fits : \A j \in fits : k <= j  BY Zenon, <1>1, <1>2, LeastElement
<1>5. list_index(l) \in fits  BY <1>3, <1>4
<1>. QED  BY <1>5 DEF fits

(* The size of the block that serves a layout. *)
BlockSize(l) == IF list_index(l) = 0 THEN l.size ELSE BLOCK_SIZES[list_index(l)]

(* It is no smaller than the layout's. *)
LEMMA SizeFacts ==
    ASSUME NEW l \in Layouts
    PROVE  BlockSize(l) \in Nat /\ l.size \in Nat /\ l.size > 0 /\ BlockSize(l) >= l.size
<1>1. l.size \in Nat /\ l.size > 0  BY HeapAssumption DEF HeapAssumption
<1>2. \A k \in Lists : BLOCK_SIZES[k] \in Nat
  BY BlockAssumption DEF BlockAssumption, Lists, NumLists
<1>. QED  BY <1>1, <1>2, IndexFacts DEF BlockSize

-----------------------------------------------------------------------------

EntriesOf(lists) == UNION {{k} \X (1 .. Len(lists[k])) : k \in Lists}

CachedOf(lists, e) == Extent(lists[e[1]][e[2]], BLOCK_SIZES[e[1]])

(* Where an entry of the lists stood before list k lost its first one. *)
Before(k, e) == IF e[1] = k THEN <<k, e[2] + 1>> ELSE e

(* An entry is a list and a position in it. *)
LEMMA EntryForm ==
    ASSUME NEW lists, NEW e
    PROVE  e \in EntriesOf(lists) <=>
           \E k \in Lists : \E j \in 1 .. Len(lists[k]) : e = <<k, j>>
BY DEF EntriesOf

(* The lists `new` are `old` without the first entry of list k. *)
Unlinked(old, k, new) ==
    /\ <<k, 1>> \in EntriesOf(old)
    /\ old[k][1] = Head(old[k])
    /\ \A e \in EntriesOf(new) :
        /\ Before(k, e) \in EntriesOf(old) /\ Before(k, e) # <<k, 1>>
        /\ CachedOf(new, e) = CachedOf(old, Before(k, e))
        /\ new[e[1]][e[2]] = old[Before(k, e)[1]][Before(k, e)[2]]
        /\ Before(k, e)[1] = e[1]
    /\ \A e, f \in EntriesOf(new) : e # f => Before(k, e) # Before(k, f)
    /\ \A e \in EntriesOf(old) :
        e = <<k, 1>> \/ \E f \in EntriesOf(new) : Before(k, f) = e

(* Taking the first entry of a list off leaves all other entries. *)
LEMMA TailEntries ==
    ASSUME NEW S, NEW old \in [Lists -> Seq(S)], NEW k \in Lists, old[k] # <<>>
    PROVE  LET new == [old EXCEPT ![k] = Tail(@)] IN
           /\ new \in [Lists -> Seq(S)]
           /\ Head(old[k]) \in S
           /\ Unlinked(old, k, new)
<1>. DEFINE new == [old EXCEPT ![k] = Tail(@)]
<1>1. /\ new \in [Lists -> Seq(S)]
      /\ \A j \in Lists \ {k} : new[j] = old[j]
      /\ new[k] = Tail(old[k])
  OBVIOUS
<1>. HIDE DEF new
<1>2. /\ Len(old[k]) \in Nat /\ Len(old[k]) >= 1
      /\ Len(new[k]) = Len(old[k]) - 1
      /\ \A j \in 1 .. Len(new[k]) : new[k][j] = old[k][j + 1]
      /\ old[k][1] = Head(old[k]) /\ Head(old[k]) \in S
  BY <1>1
<1>3. \A j \in Lists : Len(new[j]) \in Nat /\ Len(old[j]) \in Nat  BY <1>1
<1>4. <<k, 1>> \in EntriesOf(old)  BY <1>2, EntryForm
<1>5. ASSUME NEW e \in EntriesOf(new)
      PROVE  /\ Before(k, e) \in EntriesOf(old) /\ Before(k, e) # <<k, 1>>
             /\ new[e[1]][e[2]] = old[Before(k, e)[1]][Before(k, e)[2]]
             /\ e[1] \in Lists /\ Before(k, e)[1] = e[1]
  <2>1. PICK j \in Lists : \E n \in 1 .. Len(new[j]) : e = <<j, n>>  BY EntryForm
  <2>1a. PICK n \in 1 .. Len(new[j]) : e = <<j, n>>  BY <2>1
  <2>2. CASE j = k
    <3>1. Before(k, e) = <<k, n + 1>>  BY <2>1a, <2>2 DEF Before
    <3>2. n \in Nat /\ n >= 1 /\ n + 1 \in 1 .. Len(old[k])  BY <1>2, <2>1a, <2>2
    <3>3. <<k, n + 1>> \in EntriesOf(old)  BY <3>2, EntryForm
    <3>4. <<k, n + 1>> # <<k, 1>>  BY <3>2
    <3>5. new[k][n] = old[k][n + 1]  BY <1>2, <2>1a, <2>2
    <3>6. e[1] = k /\ e[2] = n  BY <2>1a, <2>2
    <3>7. Before(k, e)[1] = k /\ Before(k, e)[2] = n + 1  BY <3>1
    <3>. QED  BY <3>1, <3>3, <3>4, <3>5, <3>6, <3>7
  <2>3. CASE j # k
    <3>1. Before(k, e) = <<j, n>> /\ <<j, n>> # <<k, 1>>  BY <2>1a, <2>3 DEF Before
    <3>2. <<j, n>> \in EntriesOf(old)  BY <1>1, <2>1a, <2>3, EntryForm
    <3>3. new[j] = old[j] /\ e[1] = j /\ e[2] = n  BY <1>1, <2>1a, <2>3
    <3>4. Before(k, e)[1] = j /\ Before(k, e)[2] = n  BY <3>1
    <3>. QED  BY <3>1, <3>2, <3>3, <3>4
  <2>. QED  BY <2>2, <2>3
<1>6. ASSUME NEW e \in EntriesOf(new)
      PROVE  CachedOf(new, e) = CachedOf(old, Before(k, e))
  BY <1>5 DEF CachedOf
<1>7. ASSUME NEW e \in EntriesOf(new), NEW f \in EntriesOf(new), Before(k, e) = Before(k, f)
      PROVE  e = f
  <2>1. PICK j \in Lists : \E n \in 1 .. Len(new[j]) : e = <<j, n>>  BY EntryForm
  <2>2. PICK i \in Lists : \E m \in 1 .. Len(new[i]) : f = <<i, m>>  BY EntryForm
  <2>1a. PICK n \in 1 .. Len(new[j]) : e = <<j, n>>  BY <2>1
  <2>2a. PICK m \in 1 .. Len(new[i]) : f = <<i, m>>  BY <2>2
  <2>3. n \in Nat /\ m \in Nat  BY <1>3
  <2>. QED  BY <1>7, <2>1a, <2>2a, <2>3 DEF Before
<1>8. ASSUME NEW e \in EntriesOf(old), e # <<k, 1>>
      PROVE  \E f \in EntriesOf(new) : Before(k, f) = e
  <2>1. PICK j \in Lists : \E n \in 1 .. Len(old[j]) : e = <<j, n>>  BY EntryForm
  <2>1a. PICK n \in 1 .. Len(old[j]) : e = <<j, n>>  BY <2>1
  <2>2. CASE j = k
    <3>1. n \in Nat /\ n # 1 /\ n - 1 \in 1 .. Len(new[k]) /\ (n - 1) + 1 = n
      BY <1>2, <1>8, <2>1a, <2>2
    <3>2. <<k, n - 1>> \in EntriesOf(new)  BY <3>1, EntryForm
    <3>3. Before(k, <<k, n - 1>>) = e  BY <2>1a, <2>2, <3>1 DEF Before
    <3>. QED  BY <3>2, <3>3
  <2>3. CASE j # k
    <3>1. e \in EntriesOf(new)  BY <1>1, <2>1a, <2>3, EntryForm
    <3>. QED  BY Zenon, <2>1a, <2>3, <3>1 DEF Before
  <2>. QED  BY <2>2, <2>3
<1>9. Unlinked(old, k, new)  BY <1>2, <1>4, <1>5, <1>6, <1>7, <1>8 DEF Unlinked
<1>. QED  BY <1>1, <1>2, <1>9 DEF new

-----------------------------------------------------------------------------

(* Blocks in use, free blocks and the fallback heap: all of the heap, and  *)
(* nothing twice.                                                          *)
Partition(lists, free, used) ==
    /\ lists \in [Lists -> Seq(HeapBytes)]
    /\ free \subseteq HeapBytes
    /\ used \subseteq [ptr : HeapBytes, layout : Layouts]
    /\ \A b \in used : Owned(b) \subseteq HeapBytes /\ Owned(b) \cap free = {}
    /\ \A b, c \in used : b # c => Owned(b) \cap Owned(c) = {}
    /\ \A e \in EntriesOf(lists) :
        /\ CachedOf(lists, e) \subseteq HeapBytes /\ CachedOf(lists, e) \cap free = {}
        /\ \A b \in used : CachedOf(lists, e) \cap Owned(b) = {}
    /\ \A e, f \in EntriesOf(lists) :
        e # f => CachedOf(lists, e) \cap CachedOf(lists, f) = {}
    /\ \A a \in HeapBytes :
        \/ a \in free
        \/ \E b \in used : a \in Owned(b)
        \/ \E e \in EntriesOf(lists) : a \in CachedOf(lists, e)

(* Every block of a class is aligned to the class's size. *)
OnClass(lists, used) ==
    /\ \A e \in EntriesOf(lists) : Aligned(lists[e[1]][e[2]], BLOCK_SIZES[e[1]])
    /\ \A b \in used :
        list_index(b.layout) # 0 => Aligned(b.ptr, BLOCK_SIZES[list_index(b.layout)])

FInv == Partition(list_heads, heap, live) /\ OnClass(list_heads, live)

(* A heap address is a natural number. *)
LEMMA HeapBytesNat == HeapBytes \subseteq Nat
BY HeapAssumption DEF HeapAssumption, HeapBytes, Extent

(* A block in use occupies what its layout's block size says. *)
LEMMA OwnedForm ==
    ASSUME NEW p, NEW l
    PROVE  /\ Owned(Block(p, l)) = Extent(p, BlockSize(l))
           /\ Block(p, l).ptr = p /\ Block(p, l).layout = l
BY DEF Owned, Block, BlockSize

(* A free block taken off its list and into use keeps the partition: it    *)
(* occupies what it occupied in the list.                                  *)
LEMMA ListToUse ==
    ASSUME NEW lists, NEW free, NEW used, Partition(lists, free, used),
           NEW k, NEW new \in [Lists -> Seq(HeapBytes)], Unlinked(lists, k, new),
           NEW b \in [ptr : HeapBytes, layout : Layouts],
           Owned(b) = CachedOf(lists, <<k, 1>>)
    PROVE  /\ Partition(new, free, used \cup {b})
           /\ Owned(b) \subseteq HeapBytes
           /\ \A c \in used : Owned(b) \cap Owned(c) = {}
<1>1. <<k, 1>> \in EntriesOf(lists)  BY DEF Unlinked
<1>2. /\ Owned(b) \subseteq HeapBytes /\ Owned(b) \cap free = {}
      /\ \A c \in used : Owned(b) \cap Owned(c) = {}
      /\ \A e \in EntriesOf(lists) :
           e # <<k, 1>> => CachedOf(lists, e) \cap Owned(b) = {}
  <2>1. \A e \in EntriesOf(lists) :
          e # <<k, 1>> => CachedOf(lists, e) \cap CachedOf(lists, <<k, 1>>) = {}
    BY <1>1 DEF Partition
  <2>2. /\ CachedOf(lists, <<k, 1>>) \subseteq HeapBytes
        /\ CachedOf(lists, <<k, 1>>) \cap free = {}
        /\ \A c \in used : CachedOf(lists, <<k, 1>>) \cap Owned(c) = {}
    BY Zenon, <1>1 DEF Partition
  <2>. QED  BY Zenon, <2>1, <2>2
<1>3. ASSUME NEW c \in used \cup {b}
      PROVE  Owned(c) \subseteq HeapBytes /\ Owned(c) \cap free = {}
  BY Zenon, <1>2 DEF Partition
<1>4. ASSUME NEW c \in used \cup {b}, NEW d \in used \cup {b}, c # d
      PROVE  Owned(c) \cap Owned(d) = {}
  BY Zenon, <1>2, <1>4 DEF Partition
<1>5. ASSUME NEW e \in EntriesOf(new)
      PROVE  /\ CachedOf(new, e) \subseteq HeapBytes /\ CachedOf(new, e) \cap free = {}
             /\ \A c \in used \cup {b} : CachedOf(new, e) \cap Owned(c) = {}
  <2>1. /\ Before(k, e) \in EntriesOf(lists) /\ Before(k, e) # <<k, 1>>
        /\ CachedOf(new, e) = CachedOf(lists, Before(k, e))
    BY DEF Unlinked
  <2>2. CachedOf(new, e) \cap Owned(b) = {}  BY Zenon, <1>2, <2>1
  <2>. QED  BY <2>1, <2>2 DEF Partition
<1>6. ASSUME NEW e \in EntriesOf(new), NEW f \in EntriesOf(new), e # f
      PROVE  CachedOf(new, e) \cap CachedOf(new, f) = {}
  <2>1. /\ Before(k, e) \in EntriesOf(lists) /\ Before(k, f) \in EntriesOf(lists)
        /\ Before(k, e) # Before(k, f)
        /\ CachedOf(new, e) = CachedOf(lists, Before(k, e))
        /\ CachedOf(new, f) = CachedOf(lists, Before(k, f))
    BY <1>6 DEF Unlinked
  <2>. QED  BY <2>1 DEF Partition
<1>7. ASSUME NEW a \in HeapBytes
      PROVE  \/ a \in free
             \/ \E c \in used \cup {b} : a \in Owned(c)
             \/ \E e \in EntriesOf(new) : a \in CachedOf(new, e)
  <2>1. CASE a \in free \/ \E c \in used : a \in Owned(c)  BY <2>1
  <2>2. ASSUME NEW e \in EntriesOf(lists), a \in CachedOf(lists, e)
        PROVE  \/ a \in Owned(b)
               \/ \E f \in EntriesOf(new) : a \in CachedOf(new, f)
    BY Zenon, <2>2 DEF Unlinked
  <2>. QED  BY Zenon, <2>1, <2>2 DEF Partition
<1>8. free \subseteq HeapBytes /\ used \cup {b} \subseteq [ptr : HeapBytes, layout : Layouts]
  BY DEF Partition
<1>9. Partition(new, free, used \cup {b})
  BY <1>3, <1>4, <1>5, <1>6, <1>7, <1>8 DEF Partition
<1>. QED  BY Zenon, <1>2, <1>9

(* A block in use put on a list keeps the partition. *)
LEMMA UseToList ==
    ASSUME NEW lists, NEW free, NEW used, Partition(lists, free, used),
           NEW k, NEW new \in [Lists -> Seq(HeapBytes)], Unlinked(new, k, lists),
           NEW b \in used, Owned(b) = CachedOf(new, <<k, 1>>)
    PROVE  Partition(new, free, used \ {b})
<1>. DEFINE rest == used \ {b}
<1>1. \A e \in EntriesOf(new) :
        \/ CachedOf(new, e) = Owned(b)
        \/ \E f \in EntriesOf(lists) : CachedOf(new, e) = CachedOf(lists, f)
  BY DEF Unlinked
<1>2. /\ Owned(b) \subseteq HeapBytes /\ Owned(b) \cap free = {}
      /\ \A c \in rest : Owned(b) \cap Owned(c) = {} /\ Owned(c) \cap Owned(b) = {}
      /\ \A e \in EntriesOf(lists) :
           CachedOf(lists, e) \cap Owned(b) = {} /\ Owned(b) \cap CachedOf(lists, e) = {}
  BY Zenon DEF Partition
<1>3. ASSUME NEW e \in EntriesOf(new)
      PROVE  /\ CachedOf(new, e) \subseteq HeapBytes /\ CachedOf(new, e) \cap free = {}
             /\ \A c \in rest : CachedOf(new, e) \cap Owned(c) = {}
  <2>1. CASE CachedOf(new, e) = Owned(b)  BY Zenon, <1>2, <2>1
  <2>2. ASSUME NEW f \in EntriesOf(lists), CachedOf(new, e) = CachedOf(lists, f)
        PROVE  /\ CachedOf(new, e) \subseteq HeapBytes /\ CachedOf(new, e) \cap free = {}
               /\ \A c \in rest : CachedOf(new, e) \cap Owned(c) = {}
    BY <2>2 DEF Partition
  <2>. QED  BY <1>1, <2>1, <2>2
<1>4. ASSUME NEW e \in EntriesOf(new), NEW f \in EntriesOf(new), e # f
      PROVE  CachedOf(new, e) \cap CachedOf(new, f) = {}
  <2>1. CASE e = <<k, 1>>
    <3>1. PICK g \in EntriesOf(lists) : Before(k, g) = f  BY <1>4, <2>1 DEF Unlinked
    <3>2. CachedOf(new, f) = CachedOf(lists, g)  BY <3>1 DEF Unlinked
    <3>. QED  BY <1>2, <2>1, <3>2
  <2>2. CASE f = <<k, 1>>
    <3>1. PICK g \in EntriesOf(lists) : Before(k, g) = e  BY <1>4, <2>2 DEF Unlinked
    <3>2. CachedOf(new, e) = CachedOf(lists, g)  BY <3>1 DEF Unlinked
    <3>. QED  BY <1>2, <2>2, <3>2
  <2>3. CASE e # <<k, 1>> /\ f # <<k, 1>>
    <3>1. PICK g \in EntriesOf(lists) : Before(k, g) = e  BY <2>3 DEF Unlinked
    <3>2. PICK h \in EntriesOf(lists) : Before(k, h) = f  BY <2>3 DEF Unlinked
    <3>3. g # h  BY <1>4, <3>1, <3>2
    <3>4. /\ CachedOf(new, e) = CachedOf(lists, g)
          /\ CachedOf(new, f) = CachedOf(lists, h)
      BY <3>1, <3>2 DEF Unlinked
    <3>. QED  BY <3>3, <3>4 DEF Partition
  <2>. QED  BY <2>1, <2>2, <2>3
<1>5. ASSUME NEW a \in HeapBytes
      PROVE  \/ a \in free
             \/ \E c \in rest : a \in Owned(c)
             \/ \E e \in EntriesOf(new) : a \in CachedOf(new, e)
  <2>1. CASE a \in free \/ \E c \in rest : a \in Owned(c)  BY <2>1
  <2>2. CASE a \in Owned(b)  BY <2>2 DEF Unlinked
  <2>3. ASSUME NEW e \in EntriesOf(lists), a \in CachedOf(lists, e)
        PROVE  \E f \in EntriesOf(new) : a \in CachedOf(new, f)
    BY <2>3 DEF Unlinked
  <2>. QED  BY <2>1, <2>2, <2>3 DEF Partition
<1>. QED  BY <1>3, <1>4, <1>5 DEF Partition

(* A range of the fallback heap taken into use keeps the partition. *)
LEMMA HeapToUse ==
    ASSUME NEW lists, NEW free, NEW used, Partition(lists, free, used),
           NEW b \in [ptr : HeapBytes, layout : Layouts], Owned(b) \subseteq free
    PROVE  /\ Partition(lists, free \ Owned(b), used \cup {b})
           /\ Owned(b) \subseteq HeapBytes
           /\ \A c \in used : Owned(b) \cap Owned(c) = {}
<1>1. /\ Owned(b) \subseteq HeapBytes
      /\ \A c \in used : Owned(b) \cap Owned(c) = {}
      /\ \A e \in EntriesOf(lists) : CachedOf(lists, e) \cap Owned(b) = {}
  BY DEF Partition
<1>2. ASSUME NEW c \in used \cup {b}, NEW d \in used \cup {b}, c # d
      PROVE  Owned(c) \cap Owned(d) = {}
  BY <1>1, <1>2 DEF Partition
<1>3. ASSUME NEW a \in HeapBytes
      PROVE  \/ a \in free \ Owned(b)
             \/ \E c \in used \cup {b} : a \in Owned(c)
             \/ \E e \in EntriesOf(lists) : a \in CachedOf(lists, e)
  BY DEF Partition
<1>4. ASSUME NEW c \in used \cup {b}
      PROVE  Owned(c) \subseteq HeapBytes /\ Owned(c) \cap (free \ Owned(b)) = {}
  BY <1>1 DEF Partition
<1>5. ASSUME NEW e \in EntriesOf(lists)
      PROVE  /\ CachedOf(lists, e) \subseteq HeapBytes
             /\ CachedOf(lists, e) \cap (free \ Owned(b)) = {}
             /\ \A c \in used \cup {b} : CachedOf(lists, e) \cap Owned(c) = {}
  BY <1>1 DEF Partition
<1>. QED  BY <1>1, <1>2, <1>3, <1>4, <1>5 DEF Partition

(* A block in use given back to the fallback heap keeps the partition. *)
LEMMA UseToHeap ==
    ASSUME NEW lists, NEW free, NEW used, Partition(lists, free, used), NEW b \in used
    PROVE  Partition(lists, free \cup Owned(b), used \ {b})
<1>1. /\ Owned(b) \subseteq HeapBytes
      /\ \A c \in used \ {b} : Owned(c) \cap Owned(b) = {}
      /\ \A e \in EntriesOf(lists) : CachedOf(lists, e) \cap Owned(b) = {}
  BY DEF Partition
<1>2. ASSUME NEW a \in HeapBytes
      PROVE  \/ a \in free \cup Owned(b)
             \/ \E c \in used \ {b} : a \in Owned(c)
             \/ \E e \in EntriesOf(lists) : a \in CachedOf(lists, e)
  BY DEF Partition
<1>3. ASSUME NEW c \in used \ {b}
      PROVE  Owned(c) \subseteq HeapBytes /\ Owned(c) \cap (free \cup Owned(b)) = {}
  BY <1>1 DEF Partition
<1>4. ASSUME NEW e \in EntriesOf(lists)
      PROVE  /\ CachedOf(lists, e) \subseteq HeapBytes
             /\ CachedOf(lists, e) \cap (free \cup Owned(b)) = {}
             /\ \A c \in used \ {b} : CachedOf(lists, e) \cap Owned(c) = {}
  BY <1>1 DEF Partition
<1>. QED  BY <1>1, <1>2, <1>3, <1>4 DEF Partition

-----------------------------------------------------------------------------

(* What alloc did: a new block p for l, clear of every block in use. *)
Served(l, p) ==
    /\ p \in HeapBytes
    /\ live' = live \cup {Block(p, l)}
    /\ Aligned(p, l.align)
    /\ Owned(Block(p, l)) \subseteq HeapBytes
    /\ \A c \in live : Owned(Block(p, l)) \cap Owned(c) = {}

(* A block aligned to its class's size is aligned as its layout asks. *)
LEMMA ClassAlignment ==
    ASSUME NEW l \in Layouts, list_index(l) # 0, NEW p \in HeapBytes,
           Aligned(p, BLOCK_SIZES[list_index(l)])
    PROVE  Aligned(p, l.align)
<1>. DEFINE n == BLOCK_SIZES[list_index(l)]
<1>1. list_index(l) \in Lists /\ n >= l.align  BY IndexFacts
<1>2. n \in Nat /\ n > 0
  BY <1>1, BlockAssumption DEF BlockAssumption, Lists, NumLists
<1>3. l.align \in Nat /\ l.align > 0  BY HeapAssumption DEF HeapAssumption
<1>4. n % l.align = 0  BY <1>1, <1>2, <1>3, BlockAssumption DEF BlockAssumption
<1>5. p \in Nat  BY HeapBytesNat
<1>. HIDE DEF n
<1>6. Aligned(p, n)  BY DEF n
<1>. QED  BY <1>2, <1>3, <1>4, <1>5, <1>6, AlignedToDivisor

(* alloc from a free list serves the layout and keeps the invariant. *)
LEMMA AllocFromListServes ==
    ASSUME FInv, NEW l \in Layouts, AllocFromList(l)
    PROVE  FInv' /\ \E p \in HeapBytes : Served(l, p)
<1>. DEFINE k == list_index(l)
            p == Head(list_heads[k])
            b == Block(p, l)
            new == [list_heads EXCEPT ![k] = Tail(@)]
<1>1. /\ k # 0 /\ list_heads[k] # <<>>
      /\ list_heads' = new /\ live' = live \cup {b} /\ heap' = heap
  BY DEF AllocFromList
<1>2. k \in Lists /\ BlockSize(l) = BLOCK_SIZES[k]  BY <1>1, IndexFacts DEF BlockSize
<1>3. Partition(list_heads, heap, live) /\ OnClass(list_heads, live)  BY DEF FInv
<1>4. list_heads \in [Lists -> Seq(HeapBytes)]  BY <1>3 DEF Partition
<1>. HIDE DEF k
<1>5. /\ new \in [Lists -> Seq(HeapBytes)] /\ p \in HeapBytes
      /\ Unlinked(list_heads, k, new)
  BY Zenon, <1>1, <1>2, <1>4, TailEntries
<1>6. <<k, 1>> \in EntriesOf(list_heads) /\ list_heads[k][1] = p  BY <1>5 DEF Unlinked
<1>7. Owned(b) = CachedOf(list_heads, <<k, 1>>)
  BY <1>2, <1>6, OwnedForm DEF CachedOf
<1>8. b \in [ptr : HeapBytes, layout : Layouts] /\ b.ptr = p /\ b.layout = l
  BY <1>5 DEF Block
<1>9. Aligned(p, BLOCK_SIZES[k])  BY <1>3, <1>6 DEF OnClass
<1>. HIDE DEF new, p, b
<1>10. /\ Partition(new, heap, live \cup {b})
       /\ Owned(b) \subseteq HeapBytes /\ \A c \in live : Owned(b) \cap Owned(c) = {}
  BY Zenon, <1>3, <1>5, <1>7, <1>8, ListToUse
<1>11. OnClass(new, live \cup {b})
  <2>1. ASSUME NEW e \in EntriesOf(new)
        PROVE  Aligned(new[e[1]][e[2]], BLOCK_SIZES[e[1]])
    <3>1. /\ Before(k, e) \in EntriesOf(list_heads) /\ Before(k, e)[1] = e[1]
          /\ new[e[1]][e[2]] = list_heads[Before(k, e)[1]][Before(k, e)[2]]
      BY <1>5 DEF Unlinked
    <3>. QED  BY <1>3, <3>1 DEF OnClass
  <2>2. ASSUME NEW c \in live \cup {b}, list_index(c.layout) # 0
        PROVE  Aligned(c.ptr, BLOCK_SIZES[list_index(c.layout)])
    BY <1>3, <1>8, <1>9, <2>2 DEF OnClass, k
  <2>. QED  BY <2>1, <2>2 DEF OnClass
<1>12. Aligned(p, l.align)  BY <1>1, <1>5, <1>9, ClassAlignment DEF k
<1>13. FInv'  BY <1>1, <1>10, <1>11 DEF FInv
<1>. QED  BY <1>1, <1>5, <1>10, <1>12, <1>13 DEF Served, b

(* So does alloc from the fallback heap, of a block of the class's size or *)
(* of the layout's own.                                                    *)
LEMMA FallbackServes ==
    ASSUME FInv, NEW l \in Layouts, NEW n, NEW align,
           fallback_alloc(l, n, align), n = BlockSize(l),
           list_index(l) # 0 => align = BLOCK_SIZES[list_index(l)],
           list_index(l) = 0 => align = l.align
    PROVE  FInv' /\ \E p \in HeapBytes : Served(l, p)
<1>1. PICK p \in Places(n, align) :
        /\ heap' = heap \ Extent(p, n)
        /\ live' = live \cup {Block(p, l)}
        /\ list_heads' = list_heads
  BY DEF fallback_alloc
<1>2. p \in heap /\ Aligned(p, align) /\ Extent(p, n) \subseteq heap  BY <1>1 DEF Places
<1>3. Partition(list_heads, heap, live) /\ OnClass(list_heads, live)  BY DEF FInv
<1>4. p \in HeapBytes  BY <1>2, <1>3 DEF Partition
<1>. DEFINE b == Block(p, l)
<1>5. Owned(b) = Extent(p, n)  BY OwnedForm
<1>6. b \in [ptr : HeapBytes, layout : Layouts] /\ b.ptr = p /\ b.layout = l
  BY <1>4 DEF Block
<1>7. live' = live \cup {b}  BY <1>1
<1>. HIDE DEF b
<1>8. /\ Partition(list_heads, heap \ Owned(b), live \cup {b})
      /\ Owned(b) \subseteq HeapBytes /\ \A c \in live : Owned(b) \cap Owned(c) = {}
  <2>1. Owned(b) \subseteq heap  BY <1>2, <1>5
  <2>. QED  BY <1>3, <1>6, <2>1, HeapToUse
<1>9. OnClass(list_heads, live \cup {b})
  <2>1. ASSUME NEW c \in live \cup {b}, list_index(c.layout) # 0
        PROVE  Aligned(c.ptr, BLOCK_SIZES[list_index(c.layout)])
    BY <1>2, <1>3, <1>6, <2>1 DEF OnClass
  <2>. QED  BY <1>3, <2>1 DEF OnClass
<1>10. Aligned(p, l.align)
  <2>1. CASE list_index(l) = 0  BY <1>2, <2>1
  <2>2. CASE list_index(l) # 0  BY <1>2, <1>4, <2>2, ClassAlignment
  <2>. QED  BY <2>1, <2>2
<1>11. FInv'  BY <1>1, <1>5, <1>7, <1>8, <1>9 DEF FInv
<1>. QED  BY <1>4, <1>7, <1>8, <1>10, <1>11 DEF Served, b

(* Every successful alloc serves its layout and keeps the invariant. *)
LEMMA AllocServes ==
    ASSUME FInv, NEW l \in Layouts, Alloc(l)
    PROVE  FInv' /\ \E p \in HeapBytes : Served(l, p)
<1>1. CASE AllocFromList(l)  BY <1>1, AllocFromListServes
<1>2. CASE AllocNewBlock(l)  BY <1>2, FallbackServes DEF AllocNewBlock, BlockSize
<1>3. CASE AllocLarge(l)  BY <1>3, FallbackServes DEF AllocLarge, BlockSize
<1>. QED  BY <1>1, <1>2, <1>3 DEF Alloc

(* dealloc keeps the invariant. *)
LEMMA DeallocKeeps ==
    ASSUME FInv, NEW b \in live, Dealloc(b)
    PROVE  FInv'
<1>. DEFINE k == list_index(b.layout)
            p == b.ptr
            new == [list_heads EXCEPT ![k] = <<p>> \o @]
<1>1. Partition(list_heads, heap, live) /\ OnClass(list_heads, live)  BY DEF FInv
<1>2. list_heads \in [Lists -> Seq(HeapBytes)] /\ b.ptr \in HeapBytes /\ b.layout \in Layouts
  BY <1>1 DEF Partition
<1>3. CASE k # 0
  <2>1. list_heads' = new /\ heap' = heap /\ live' = live \ {b}  BY <1>3 DEF Dealloc
  <2>2. k \in Lists  BY <1>2, <1>3, IndexFacts
  <2>3. Owned(b) = Extent(p, BLOCK_SIZES[k])  BY <1>3 DEF Owned
  <2>4. Aligned(p, BLOCK_SIZES[k])  BY <1>1, <1>3 DEF OnClass
  <2>. HIDE DEF k
  <2>5. /\ new \in [Lists -> Seq(HeapBytes)] /\ new[k] # <<>> /\ Head(new[k]) = p
        /\ Tail(new[k]) = list_heads[k]
    BY <1>2, <2>2, PushFacts
  <2>6. [new EXCEPT ![k] = Tail(@)] = list_heads  BY Zenon, <1>2, <2>2, <2>5
  <2>. HIDE DEF new
  <2>7. Unlinked(new, k, list_heads)  BY Zenon, <2>2, <2>5, <2>6, TailEntries
  <2>8. new[k][1] = p  BY <2>5, <2>7 DEF Unlinked
  <2>9. Owned(b) = CachedOf(new, <<k, 1>>)  BY <2>3, <2>8 DEF CachedOf
  <2>10. Partition(new, heap, live \ {b})  BY <1>1, <2>5, <2>7, <2>9, UseToList
  <2>11. OnClass(new, live \ {b})
    <3>1. ASSUME NEW e \in EntriesOf(new)
          PROVE  Aligned(new[e[1]][e[2]], BLOCK_SIZES[e[1]])
      <4>1. CASE e = <<k, 1>>  BY <2>4, <2>8, <4>1
      <4>2. CASE e # <<k, 1>>
        <5>1. PICK f \in EntriesOf(list_heads) : Before(k, f) = e  BY <2>7, <4>2 DEF Unlinked
        <5>2. list_heads[f[1]][f[2]] = new[e[1]][e[2]] /\ e[1] = f[1]
          BY <2>7, <5>1 DEF Unlinked
        <5>. QED  BY <1>1, <5>2 DEF OnClass
      <4>. QED  BY <4>1, <4>2
    <3>. QED  BY <1>1, <3>1 DEF OnClass
  <2>. QED  BY <2>1, <2>10, <2>11 DEF FInv
<1>4. CASE k = 0
  <2>1. Owned(b) = Extent(b.ptr, b.layout.size)  BY <1>4 DEF Owned
  <2>2. list_heads' = list_heads /\ heap' = heap \cup Owned(b) /\ live' = live \ {b}
    BY <1>4, <2>1 DEF Dealloc
  <2>3. Partition(list_heads, heap \cup Owned(b), live \ {b})  BY <1>1, UseToHeap
  <2>4. OnClass(list_heads, live \ {b})  BY <1>1 DEF OnClass
  <2>. QED  BY <2>2, <2>3, <2>4 DEF FInv
<1>. QED  BY <1>3, <1>4

(* After init the fallback heap owns everything. *)
LEMMA InitFInv == Init => FInv
<1>. SUFFICES ASSUME Init PROVE FInv  OBVIOUS
<1>1. /\ list_heads \in [Lists -> Seq(HeapBytes)]
      /\ \A k \in Lists : Len(list_heads[k]) = 0
      /\ heap = HeapBytes /\ live = {}
  BY DEF Init
<1>2. \A e : e \notin EntriesOf(list_heads)
  <2>1. \A k \in Lists : 1 .. Len(list_heads[k]) = {}  BY <1>1
  <2>. QED  BY <2>1, EntryForm
<1>. QED  BY <1>1, <1>2 DEF FInv, Partition, OnClass

(* alloc and dealloc keep the invariant. *)
LEMMA StepFInv == FInv /\ [Next]_vars => FInv'
<1>. SUFFICES ASSUME FInv, [Next]_vars PROVE FInv'  OBVIOUS
<1>1. ASSUME NEW l \in Layouts, Alloc(l) PROVE FInv'  BY <1>1, AllocServes
<1>2. ASSUME NEW b \in live, Dealloc(b) PROVE FInv'  BY <1>2, DeallocKeeps
<1>3. CASE UNCHANGED vars  BY <1>3 DEF vars, FInv
<1>. QED  BY <1>1, <1>2, <1>3 DEF Next

(* The invariant holds in every state. *)
THEOREM BlockInductive == Spec => []FInv
BY InitFInv, StepFInv, PTL DEF Spec

(* The invariant says that the heap is partitioned. *)
LEMMA FInvPartitions == FInv => HeapPartitioned
<1>. SUFFICES ASSUME FInv PROVE HeapPartitioned  OBVIOUS
<1>1. Entries = EntriesOf(list_heads)  BY DEF Entries, EntriesOf
<1>2. \A e : Cached(e) = CachedOf(list_heads, e)  BY DEF Cached, CachedOf
<1>3. TypeOK /\ Shareless  BY <1>1, <1>2 DEF FInv, Partition, TypeOK, Shareless
<1>. DEFINE used == UNION {Owned(b) : b \in live}
            cached == UNION {Cached(e) : e \in Entries}
<1>4. heap \cup used \cup cached \subseteq HeapBytes
  BY <1>1, <1>2 DEF FInv, Partition
<1>5. HeapBytes \subseteq heap \cup used \cup cached
  BY <1>1, <1>2 DEF FInv, Partition
<1>. QED  BY <1>3, <1>4, <1>5 DEF HeapPartitioned

(* Blocks in use, the free lists and the fallback heap partition the heap  *)
(* in every state the allocator reaches.                                   *)
THEOREM BlockPartitioned == Spec => []HeapPartitioned
BY BlockInductive, FInvPartitions, PTL

(* alloc and dealloc never take a block out of its class. *)
LEMMA StepKeepsClass ==
    ASSUME FInv, Next, NEW k \in Lists
    PROVE  Class(k) \subseteq Class(k)'
<1>1. list_heads \in [Lists -> Seq(HeapBytes)] /\ live \subseteq [ptr : HeapBytes, layout : Layouts]
  BY DEF FInv, Partition
<1>2. ASSUME NEW l \in Layouts, fallback_alloc(l, BlockSize(l), BlockSize(l))
             \/ fallback_alloc(l, l.size, l.align)
      PROVE  Class(k) \subseteq Class(k)'
  BY <1>2 DEF fallback_alloc, Class
<1>3. ASSUME NEW l \in Layouts, AllocFromList(l) PROVE Class(k) \subseteq Class(k)'
  <2>1. CASE list_index(l) # k
    BY <1>1, <1>3, <2>1, IndexFacts DEF AllocFromList, Class
  <2>2. CASE list_index(l) = k
    <3>1. /\ live' = live \cup {Block(Head(list_heads[k]), l)} /\ list_heads[k] # <<>>
          /\ list_heads'[k] = Tail(list_heads[k])
      BY <1>1, <1>3, <2>2 DEF AllocFromList
    <3>2. ASSUME NEW i \in 1 .. Len(list_heads[k]) PROVE list_heads[k][i] \in Class(k)'
      <4>1. CASE i = 1
        <5>1. list_heads[k][i] = Block(Head(list_heads[k]), l).ptr
          BY <1>1, <3>1, <4>1 DEF Block
        <5>2. Block(Head(list_heads[k]), l).layout = l  BY DEF Block
        <5>. QED  BY <2>2, <3>1, <5>1, <5>2 DEF Class
      <4>2. CASE i # 1
        <5>1. /\ i - 1 \in 1 .. Len(list_heads'[k])
              /\ list_heads[k][i] = list_heads'[k][i - 1]
          BY <1>1, <3>1, <4>2
        <5>. QED  BY <5>1 DEF Class
      <4>. QED  BY <4>1, <4>2
    <3>. QED  BY Zenon, <3>1, <3>2 DEF Class
  <2>. QED  BY <2>1, <2>2
<1>4. ASSUME NEW b \in live, Dealloc(b) PROVE Class(k) \subseteq Class(k)'
  <2>1. live' = live \ {b}  BY <1>4 DEF Dealloc
  <2>2. CASE list_index(b.layout) # k
    <3>1. list_heads'[k] = list_heads[k]  BY <1>1, <1>4, <2>2 DEF Dealloc
    <3>. QED  BY <2>1, <2>2, <3>1 DEF Class
  <2>3. CASE list_index(b.layout) = k
    <3>0. k # 0  BY BlockAssumption DEF BlockAssumption, Lists, NumLists
    <3>1. list_heads'[k] = <<b.ptr>> \o list_heads[k]
      BY <1>1, <1>4, <2>3, <3>0 DEF Dealloc
    <3>2. b.ptr \in HeapBytes  BY <1>1
    <3>3. /\ Len(list_heads'[k]) = Len(list_heads[k]) + 1 /\ list_heads'[k][1] = b.ptr
          /\ \A i \in 1 .. Len(list_heads[k]) : list_heads'[k][i + 1] = list_heads[k][i]
          /\ Len(list_heads[k]) \in Nat
      BY <1>1, <3>1, <3>2, PushFacts
    <3>4. b.ptr \in Class(k)'  BY <3>3 DEF Class
    <3>5. ASSUME NEW i \in 1 .. Len(list_heads[k]) PROVE list_heads[k][i] \in Class(k)'
      <4>1. i + 1 \in 1 .. Len(list_heads'[k])  BY <3>3
      <4>. QED  BY <3>3, <4>1 DEF Class
    <3>. QED  BY <2>1, <3>4, <3>5 DEF Class
  <2>. QED  BY <2>2, <2>3
<1>. QED  BY <1>2, <1>3, <1>4 DEF Next, Alloc, AllocNewBlock, AllocLarge, BlockSize

(* A block never leaves its class. *)
THEOREM BlockSizesKept == Spec => BlocksKeepTheirSize
<1>1. FInv /\ [Next]_vars => [\A k \in Lists : Class(k) \subseteq Class(k)']_vars
  BY StepKeepsClass
<1>. QED  BY <1>1, BlockInductive, PTL DEF Spec, BlocksKeepTheirSize

-----------------------------------------------------------------------------

(* The contract speaks of the same addresses. *)
LEMMA SameRegions ==
    /\ \A p, n : Contract!Extent(p, n) = Extent(p, n)
    /\ \A p, n : Contract!Aligned(p, n) = Aligned(p, n)
    /\ Contract!HeapBytes = HeapBytes
BY DEF Extent, Contract!Extent, Aligned, Contract!Aligned, HeapBytes, Contract!HeapBytes

(* Every step of the allocator is one the contract allows. *)
LEMMA StepIsContract ==
    ASSUME FInv, [Next]_vars
    PROVE  [Contract!GANext]_live
<1>1. ASSUME NEW l \in Layouts, Alloc(l) PROVE Contract!GAAlloc(l)
  <2>1. PICK p \in HeapBytes : Served(l, p)  BY <1>1, AllocServes
  <2>2. p \in Nat  BY HeapBytesNat
  <2>3. Extent(p, l.size) \subseteq Owned(Block(p, l))
    BY <2>2, SizeFacts, ExtentFacts, OwnedForm
  <2>4. ASSUME NEW c \in live PROVE Contract!Bytes(c) \subseteq Owned(c)
    <3>1. c.ptr \in Nat /\ c.layout \in Layouts  BY Zenon, HeapBytesNat DEF FInv, Partition
    <3>2. Owned(c) = Extent(c.ptr, BlockSize(c.layout))  BY DEF Owned, BlockSize
    <3>3. Extent(c.ptr, c.layout.size) \subseteq Extent(c.ptr, BlockSize(c.layout))
      BY <3>1, SizeFacts, ExtentFacts
    <3>. QED  BY <3>2, <3>3, SameRegions DEF Contract!Bytes
  <2>5. \A c \in live : Extent(p, l.size) \cap Contract!Bytes(c) = {}
    BY <2>1, <2>3, <2>4 DEF Served
  <2>6. live' = live \cup {[ptr |-> p, layout |-> l]} /\ Aligned(p, l.align)
    BY <2>1 DEF Served, Block
  <2>7. Extent(p, l.size) \subseteq HeapBytes  BY <2>1, <2>3 DEF Served
  <2>. QED  BY <2>5, <2>6, <2>7, SameRegions DEF Contract!GAAlloc
<1>2. ASSUME NEW b \in live, Dealloc(b) PROVE Contract!GADealloc
  BY <1>2 DEF Dealloc, Contract!GADealloc
<1>3. CASE UNCHANGED vars  BY <1>3 DEF vars
<1>. QED  BY <1>1, <1>2, <1>3 DEF Next, Contract!GANext

(* The kernel's global allocator implements GlobalAlloc: every alloc that  *)
(* succeeds has the size and the alignment asked for and overlaps no block *)
(* in use.                                                                 *)
THEOREM BlockImplements == Spec => ImplementsGlobalAlloc
<1>1. Init => Contract!GAInit  BY DEF Init, Contract!GAInit
<1>2. FInv /\ [Next]_vars => [Contract!GANext]_live  BY StepIsContract
<1>. QED  BY <1>1, <1>2, BlockInductive, PTL DEF Spec, ImplementsGlobalAlloc, Contract!GASpec
=============================================================================
