---------------------------- MODULE HeapsProofs ----------------------------
(***************************************************************************)
(* The linked-list allocator implements GlobalAlloc, never trips over its  *)
(* own assertions and loses memory to alignment only, for every heap,      *)
(* every set of layouts and every size and alignment of a list node.  The  *)
(* invariant: free regions and blocks in use are disjoint parts of the     *)
(* heap, and all of them could hold a list node.                           *)
(*                                                                         *)
(* The bump allocator implements it too.  The invariant: blocks in use end *)
(* at or before `next`, and the counter is their number, so a reset of     *)
(* `next` happens only when none is left.                                  *)
(*                                                                         *)
(* Hence so does a kernel built with either.                               *)
(***************************************************************************)
EXTENDS Heaps, RegionProofs, SequenceTheorems, FiniteSetTheorems

(* A sum of multiples of n is one. *)
LEMMA SumIsAligned ==
    ASSUME NEW a \in Nat, NEW b \in Nat, NEW n \in Nat, n > 0,
           Aligned(a, n), Aligned(b, n)
    PROVE  Aligned(a + b, n)
<1>1. PICK q \in Nat : a = n * q + (a % n)
  <2>1. a = n * (a \div n) + (a % n) /\ a \div n \in Nat  OBVIOUS
  <2>. QED  BY Zenon, <2>1
<1>2. PICK r \in Nat : b = n * r + (b % n)
  <2>1. b = n * (b \div n) + (b % n) /\ b \div n \in Nat  OBVIOUS
  <2>. QED  BY <2>1
<1>3. n * q \in Nat /\ n * r \in Nat /\ n * (q + r) = n * q + n * r /\ q + r \in Nat
  OBVIOUS
<1>4. a = n * q /\ b = n * r  BY <1>1, <1>2, <1>3 DEF Aligned
<1>5. a + b \in Nat /\ a + b = n * (q + r)  BY <1>3, <1>4
<1>. QED  BY Zenon, <1>3, <1>5, MultipleIsAligned

(* A region that size_align asks for can hold the layout and a list node,  *)
(* is as aligned as both, and ends where a list node may start.            *)
LEMMA SizeAlign ==
    ASSUME NEW l \in Layouts
    PROVE  /\ l.size \in Nat /\ l.size > 0 /\ l.align \in Nat /\ l.align > 0
           /\ adjusted_align(l) \in Nat /\ adjusted_align(l) > 0
           /\ adjusted_align(l) % NodeAlign = 0 /\ adjusted_align(l) % l.align = 0
           /\ adjusted_size(l) \in Nat
           /\ adjusted_size(l) >= NodeSize /\ adjusted_size(l) >= l.size
           /\ Aligned(adjusted_size(l), NodeAlign)
<1>1. l.size \in Nat /\ l.size > 0 /\ l.align \in Nat /\ l.align > 0
  BY HeapAssumption DEF HeapAssumption
<1>2. /\ NodeSize \in Nat /\ NodeAlign \in Nat /\ NodeAlign > 0
      /\ Aligned(NodeSize, NodeAlign)
      /\ l.align % NodeAlign = 0 \/ NodeAlign % l.align = 0
  BY ListAssumption DEF ListAssumption
<1>. DEFINE align == adjusted_align(l)
            padded == align_up(l.size, align)
<1>3. align \in Nat /\ align > 0  BY <1>1, <1>2 DEF adjusted_align, Larger
<1>4. align % NodeAlign = 0 /\ align % l.align = 0
  <2>1. CASE l.align >= NodeAlign
    <3>1. align = l.align  BY <1>1, <1>2, <2>1 DEF adjusted_align, Larger
    <3>2. l.align % l.align = 0  BY <1>1
    <3>3. CASE l.align % NodeAlign = 0  BY <3>1, <3>2, <3>3
    <3>4. CASE NodeAlign % l.align = 0
      <4>1. l.align = NodeAlign  BY <1>1, <1>2, <2>1, <3>4
      <4>. QED  BY <3>1, <3>2, <4>1
    <3>. QED  BY <1>2, <3>3, <3>4
  <2>2. CASE ~(l.align >= NodeAlign)
    <3>1. align = NodeAlign  BY <2>2 DEF adjusted_align, Larger
    <3>2. NodeAlign % NodeAlign = 0  BY <1>2
    <3>3. l.align % NodeAlign = l.align  BY <1>1, <1>2, <2>2
    <3>. QED  BY <1>1, <1>2, <3>1, <3>2, <3>3
  <2>. QED  BY <2>1, <2>2
<1>. HIDE DEF align
<1>5. padded \in Nat /\ padded >= l.size /\ Aligned(padded, align)
  BY Zenon, <1>1, <1>3, AlignUpFacts
<1>. HIDE DEF padded
<1>6. Aligned(padded, NodeAlign)  BY <1>2, <1>3, <1>4, <1>5, AlignedToDivisor
<1>7. adjusted_size(l) = Larger(padded, NodeSize)  BY DEF adjusted_size, padded, align
<1>8. /\ adjusted_size(l) \in Nat
      /\ adjusted_size(l) >= NodeSize /\ adjusted_size(l) >= l.size
      /\ Aligned(adjusted_size(l), NodeAlign)
  BY <1>1, <1>2, <1>5, <1>6, <1>7 DEF Larger
<1>. QED  BY <1>1, <1>3, <1>4, <1>8 DEF align

-----------------------------------------------------------------------------

(* A region of the heap that can hold a list node. *)
HoldsNode(r) ==
    /\ r \in [addr : Nat, size : Nat]
    /\ Aligned(r.addr, NodeAlign) /\ r.size >= NodeSize
    /\ RegionBytes(r) \subseteq HeapBytes

Apart(list, used) ==
    /\ list \in Seq([addr : Nat, size : Nat])
    /\ used \subseteq [ptr : HeapBytes, layout : Layouts]
    /\ \A i \in 1 .. Len(list) : HoldsNode(list[i])
    /\ \A i, j \in 1 .. Len(list) :
        i # j => RegionBytes(list[i]) \cap RegionBytes(list[j]) = {}
    /\ \A b \in used : Owned(b) \subseteq HeapBytes /\ Aligned(b.ptr, NodeAlign)
    /\ \A b, c \in used : b # c => Owned(b) \cap Owned(c) = {}
    /\ \A i \in 1 .. Len(list), b \in used : RegionBytes(list[i]) \cap Owned(b) = {}

LInv == Apart(free, live)

(* The addresses of all regions of a list. *)
Holds(list) == UNION {RegionBytes(list[i]) : i \in 1 .. Len(list)}

Removed(list, i) == SubSeq(list, 1, i - 1) \o SubSeq(list, i + 1, Len(list))

(* What an element of the list without its i-th was in the list. *)
LEMMA RemoveFacts ==
    ASSUME NEW S, NEW list \in Seq(S), NEW i \in 1 .. Len(list)
    PROVE  /\ Removed(list, i) \in Seq(S) /\ Len(Removed(list, i)) = Len(list) - 1
           /\ \A j \in 1 .. Len(list) - 1 :
                Removed(list, i)[j] = list[IF j < i THEN j ELSE j + 1]
<1>. DEFINE front == SubSeq(list, 1, i - 1)
            back == SubSeq(list, i + 1, Len(list))
<1>1. Len(list) \in Nat /\ i \in Nat /\ 1 <= i /\ i <= Len(list)  OBVIOUS
<1>2. front \in Seq(S) /\ Len(front) = i - 1 /\ \A j \in 1 .. (i - 1) : front[j] = list[j]
  BY <1>1
<1>3. /\ back \in Seq(S) /\ Len(back) = Len(list) - i
      /\ \A j \in 1 .. (Len(list) - i) : back[j] = list[i + j]
  BY <1>1
<1>. HIDE DEF front, back
<1>4. front \o back \in Seq(S) /\ Len(front \o back) = Len(list) - 1
  <2>1. ASSUME NEW s \in Seq(S), NEW t \in Seq(S)
        PROVE  s \o t \in Seq(S) /\ Len(s \o t) = Len(s) + Len(t)
    OBVIOUS
  <2>. QED  BY <1>1, <1>2, <1>3, <2>1
<1>5. ASSUME NEW j \in 1 .. Len(list) - 1
      PROVE  (front \o back)[j] = list[IF j < i THEN j ELSE j + 1]
  <2>1. CASE j < i  BY <1>1, <1>2, <1>3, <2>1
  <2>2. CASE ~(j < i)
    <3>1. (front \o back)[j] = back[j - (i - 1)]  BY <1>1, <1>2, <1>3, <2>2
    <3>2. j - (i - 1) \in 1 .. (Len(list) - i) /\ i + (j - (i - 1)) = j + 1  BY <1>1, <2>2
    <3>. QED  BY <1>3, <2>2, <3>1, <3>2
  <2>. QED  BY Zenon, <2>1, <2>2
<1>. QED  BY Zenon, <1>4, <1>5 DEF Removed, front, back

(* find_region takes a region off the list: the others stay apart, and     *)
(* none overlaps it.                                                       *)
LEMMA TakeOff ==
    ASSUME NEW list, NEW used, Apart(list, used), NEW i \in 1 .. Len(list)
    PROVE  LET rest == Removed(list, i) IN
           /\ Apart(rest, used)
           /\ \A j \in 1 .. Len(rest) : RegionBytes(rest[j]) \cap RegionBytes(list[i]) = {}
           /\ Holds(list) = Holds(rest) \cup RegionBytes(list[i])
<1>. DEFINE rest == Removed(list, i)
            was(j) == IF j < i THEN j ELSE j + 1
<1>1. list \in Seq([addr : Nat, size : Nat]) /\ Len(list) \in Nat /\ i \in Nat  BY DEF Apart
<1>2. /\ rest \in Seq([addr : Nat, size : Nat]) /\ Len(rest) = Len(list) - 1
      /\ \A j \in 1 .. Len(list) - 1 : rest[j] = list[was(j)]
  BY <1>1, RemoveFacts
<1>. HIDE DEF rest
<1>3. ASSUME NEW j \in 1 .. Len(rest)
      PROVE  was(j) \in 1 .. Len(list) /\ was(j) # i /\ rest[j] = list[was(j)]
  <2>1. j \in Nat /\ 1 <= j /\ j <= Len(list) - 1  BY <1>1, <1>2
  <2>2. rest[j] = list[was(j)]  BY <1>2
  <2>3. was(j) \in 1 .. Len(list) /\ was(j) # i  BY <1>1, <2>1
  <2>. QED  BY <2>2, <2>3
<1>4. ASSUME NEW j \in 1 .. Len(rest), NEW k \in 1 .. Len(rest), j # k
      PROVE  was(j) # was(k)
  <2>1. j \in Nat /\ k \in Nat  BY <1>1, <1>2
  <2>. QED  BY <1>1, <1>4, <2>1
<1>5. ASSUME NEW k \in 1 .. Len(list), k # i PROVE \E j \in 1 .. Len(rest) : was(j) = k
  <2>1. CASE k < i
    <3>1. k \in 1 .. Len(rest) /\ was(k) = k  BY <1>1, <1>2, <2>1
    <3>. QED  BY <3>1
  <2>2. CASE ~(k < i)
    <3>1. k - 1 \in 1 .. Len(rest) /\ was(k - 1) = k  BY <1>1, <1>2, <1>5, <2>2
    <3>. QED  BY <3>1
  <2>. QED  BY <2>1, <2>2
<1>. HIDE DEF was
<1>6. \A j \in 1 .. Len(rest) : RegionBytes(rest[j]) \cap RegionBytes(list[i]) = {}
  BY Zenon, <1>3 DEF Apart
<1>7. ASSUME NEW j \in 1 .. Len(rest), NEW k \in 1 .. Len(rest), j # k
      PROVE  RegionBytes(rest[j]) \cap RegionBytes(rest[k]) = {}
  BY Zenon, <1>3, <1>4, <1>7 DEF Apart
<1>8. \A j \in 1 .. Len(rest) :
        HoldsNode(rest[j]) /\ \A b \in used : RegionBytes(rest[j]) \cap Owned(b) = {}
  BY Zenon, <1>3 DEF Apart
<1>9. Apart(rest, used)  BY Zenon, <1>2, <1>7, <1>8 DEF Apart
<1>10. Holds(rest) \cup RegionBytes(list[i]) \subseteq Holds(list)  BY <1>3 DEF Holds
<1>11. ASSUME NEW a \in Holds(list) PROVE a \in Holds(rest) \cup RegionBytes(list[i])
  <2>1. PICK k \in 1 .. Len(list) : a \in RegionBytes(list[k])  BY DEF Holds
  <2>2. CASE k # i
    <3>1. PICK j \in 1 .. Len(rest) : was(j) = k  BY <1>5, <2>2
    <3>. QED  BY <1>3, <2>1, <3>1 DEF Holds
  <2>. QED  BY <2>1, <2>2
<1>. QED  BY <1>6, <1>9, <1>10, <1>11 DEF rest

(* add_free_region puts a region on the list. *)
LEMMA PutOn ==
    ASSUME NEW list, NEW used, Apart(list, used), NEW r, HoldsNode(r),
           \A j \in 1 .. Len(list) : RegionBytes(list[j]) \cap RegionBytes(r) = {},
           \A b \in used : RegionBytes(r) \cap Owned(b) = {}
    PROVE  Apart(<<r>> \o list, used) /\ Holds(<<r>> \o list) = Holds(list) \cup RegionBytes(r)
<1>. DEFINE new == <<r>> \o list
<1>1. list \in Seq([addr : Nat, size : Nat]) /\ Len(list) \in Nat  BY DEF Apart
<1>2. /\ new \in Seq([addr : Nat, size : Nat]) /\ Len(new) = Len(list) + 1 /\ new[1] = r
      /\ \A j \in 1 .. Len(list) : new[j + 1] = list[j]
  BY <1>1, PushFacts DEF HoldsNode
<1>. HIDE DEF new
<1>3. ASSUME NEW j \in 1 .. Len(new)
      PROVE  j = 1 \/ (j - 1 \in 1 .. Len(list) /\ new[j] = list[j - 1])
  <2>1. CASE j # 1
    <3>1. j - 1 \in 1 .. Len(list) /\ (j - 1) + 1 = j  BY <1>1, <1>2, <2>1
    <3>. QED  BY Zenon, <1>2, <3>1
  <2>. QED  BY <2>1
<1>4. ASSUME NEW j \in 1 .. Len(new), NEW k \in 1 .. Len(new), j # k
      PROVE  RegionBytes(new[j]) \cap RegionBytes(new[k]) = {}
  <2>1. CASE j = 1
    <3>1. k - 1 \in 1 .. Len(list) /\ new[k] = list[k - 1]  BY <1>3, <1>4, <2>1
    <3>. QED  BY <1>2, <2>1, <3>1
  <2>2. CASE k = 1
    <3>1. j - 1 \in 1 .. Len(list) /\ new[j] = list[j - 1]  BY <1>3, <1>4, <2>2
    <3>. QED  BY Zenon, <1>2, <2>2, <3>1
  <2>3. CASE j # 1 /\ k # 1
    <3>1. /\ j - 1 \in 1 .. Len(list) /\ new[j] = list[j - 1]
          /\ k - 1 \in 1 .. Len(list) /\ new[k] = list[k - 1]
      BY <1>3, <2>3
    <3>2. j - 1 # k - 1  BY <1>4
    <3>. QED  BY Zenon, <3>1, <3>2 DEF Apart
  <2>. QED  BY <2>1, <2>2, <2>3
<1>5. ASSUME NEW j \in 1 .. Len(new)
      PROVE  HoldsNode(new[j]) /\ \A b \in used : RegionBytes(new[j]) \cap Owned(b) = {}
  BY Zenon, <1>2, <1>3 DEF Apart
<1>6. Apart(new, used)  BY <1>2, <1>4, <1>5 DEF Apart
<1>7. Holds(new) \subseteq Holds(list) \cup RegionBytes(r)  BY <1>2, <1>3 DEF Holds
<1>8. Holds(list) \cup RegionBytes(r) \subseteq Holds(new)
  <2>1. ASSUME NEW j \in 1 .. Len(list) PROVE j + 1 \in 1 .. Len(new) /\ new[j + 1] = list[j]
    BY <1>1, <1>2
  <2>2. 1 \in 1 .. Len(new)  BY <1>1, <1>2
  <2>. QED  BY <1>2, <2>1, <2>2 DEF Holds
<1>. QED  BY <1>6, <1>7, <1>8 DEF new

(* A block clear of all else is taken into use. *)
LEMMA UseBlock ==
    ASSUME NEW list, NEW used, Apart(list, used),
           NEW b \in [ptr : HeapBytes, layout : Layouts],
           Owned(b) \subseteq HeapBytes, Aligned(b.ptr, NodeAlign),
           \A j \in 1 .. Len(list) : RegionBytes(list[j]) \cap Owned(b) = {},
           \A c \in used : Owned(b) \cap Owned(c) = {}
    PROVE  Apart(list, used \cup {b})
<1>1. ASSUME NEW c \in used \cup {b}, NEW d \in used \cup {b}, c # d
      PROVE  Owned(c) \cap Owned(d) = {}
  BY <1>1 DEF Apart
<1>2. ASSUME NEW c \in used \cup {b}
      PROVE  /\ Owned(c) \subseteq HeapBytes /\ Aligned(c.ptr, NodeAlign)
             /\ \A j \in 1 .. Len(list) : RegionBytes(list[j]) \cap Owned(c) = {}
  BY DEF Apart
<1>. QED  BY Zenon, <1>1, <1>2 DEF Apart

-----------------------------------------------------------------------------

(* What alloc does to the region it found: the block lies at its start or, *)
(* for alignment, later; the rest, if any, is a region of its own.         *)
LEMMA SplitFacts ==
    ASSUME NEW r, HoldsNode(r), NEW l \in Layouts,
           alloc_from_region(r, adjusted_size(l), adjusted_align(l))
    PROVE  LET p == align_up(r.addr, adjusted_align(l))
               end == p + adjusted_size(l)
               excess == end_addr(r) - end
               rest == Region(end, excess)
               b == Block(p, l)
           IN  /\ p \in HeapBytes /\ Aligned(p, l.align) /\ Aligned(p, NodeAlign)
               /\ Owned(b) \subseteq RegionBytes(r)
               /\ RegionBytes(rest) \subseteq RegionBytes(r)
               /\ RegionBytes(rest) \cap Owned(b) = {}
               /\ excess > 0 => HoldsNode(rest)
               /\ ~(excess > 0) => RegionBytes(rest) = {}
               /\ l.align <= NodeAlign => RegionBytes(r) = Owned(b) \cup RegionBytes(rest)
<1>. DEFINE align == adjusted_align(l)
            size == adjusted_size(l)
            p == align_up(r.addr, align)
            end == p + size
            excess == end_addr(r) - end
            rest == Region(end, excess)
            b == Block(p, l)
<1>1. NodeSize \in Nat /\ NodeSize > 0 /\ NodeAlign \in Nat /\ NodeAlign > 0
  BY ListAssumption DEF ListAssumption
<1>2. /\ r.addr \in Nat /\ r.size \in Nat /\ Aligned(r.addr, NodeAlign)
      /\ RegionBytes(r) \subseteq HeapBytes
  BY DEF HoldsNode
<1>3. /\ l.align \in Nat /\ l.align > 0 /\ align \in Nat /\ align > 0
      /\ align % NodeAlign = 0 /\ align % l.align = 0
      /\ size \in Nat /\ size >= NodeSize /\ Aligned(size, NodeAlign)
  BY SizeAlign
<1>4. p \in Nat /\ p >= r.addr /\ Aligned(p, align)  BY Zenon, <1>2, <1>3, AlignUpFacts
<1>5. /\ end_addr(r) = r.addr + r.size
      /\ end <= end_addr(r) /\ (excess = 0 \/ excess >= NodeSize)
  BY DEF alloc_from_region, end_addr
<1>6. l.align <= NodeAlign => p = r.addr
  <2>1. SUFFICES ASSUME l.align <= NodeAlign PROVE p = r.addr  OBVIOUS
  <2>2. align = NodeAlign  BY <1>1, <1>3, <2>1 DEF adjusted_align, Larger
  <2>. QED  BY <1>2, <2>2 DEF align_up, Aligned
<1>7. /\ Owned(b) = Extent(p, size)
      /\ RegionBytes(rest) = Extent(end, excess)
      /\ RegionBytes(r) = Extent(r.addr, r.size)
      /\ rest.addr = end /\ rest.size = excess
      /\ rest = [addr |-> end, size |-> excess]
  BY DEF Owned, Block, RegionBytes, Region
<1>. HIDE DEF align, size, p
<1>8. Aligned(p, l.align) /\ Aligned(p, NodeAlign)
  BY <1>1, <1>3, <1>4, AlignedToDivisor
<1>9. Aligned(end, NodeAlign)  BY <1>1, <1>3, <1>4, <1>8, SumIsAligned
<1>10. size > 0  BY <1>1, <1>3
<1>11. /\ end \in Nat /\ excess \in Nat
       /\ p \in Extent(p, size) /\ Extent(p, size) \subseteq Extent(r.addr, r.size)
       /\ Extent(end, excess) \subseteq Extent(r.addr, r.size)
       /\ Extent(end, excess) \cap Extent(p, size) = {}
       /\ excess = 0 => Extent(end, excess) = {}
       /\ p = r.addr => Extent(r.addr, r.size) = Extent(p, size) \cup Extent(end, excess)
  <2>. DEFINE a == r.addr
              s == r.size
  <2>1. p + size <= a + s  BY <1>2, <1>3, <1>4, <1>5
  <2>2. excess = a + s - end  BY <1>2, <1>3, <1>4, <1>5
  <2>3. a \in Nat /\ s \in Nat /\ p >= a  BY <1>2, <1>4
  <2>. HIDE DEF excess, a, s
  <2>4. /\ p + size \in Nat /\ a + s - (p + size) \in Nat
        /\ p \in Extent(p, size) /\ Extent(p, size) \subseteq Extent(a, s)
        /\ Extent(p + size, a + s - (p + size)) \subseteq Extent(a, s)
        /\ Extent(p + size, a + s - (p + size)) \cap Extent(p, size) = {}
        /\ a + s - (p + size) = 0 => Extent(p + size, a + s - (p + size)) = {}
        /\ p = a => Extent(a, s) = Extent(p, size)
                                     \cup Extent(p + size, a + s - (p + size))
    BY <1>3, <1>4, <1>10, <2>1, <2>3 DEF Extent
  <2>. QED  BY <2>2, <2>4 DEF a, s
<1>. HIDE DEF end, excess, rest, b
<1>12. p \in HeapBytes /\ RegionBytes(rest) \subseteq HeapBytes  BY <1>2, <1>7, <1>11
<1>13. excess > 0 => HoldsNode(rest)
  <2>1. excess > 0 => excess >= NodeSize  BY <1>1, <1>5, <1>11
  <2>2. rest \in [addr : Nat, size : Nat]  BY <1>7, <1>11
  <2>. QED  BY <1>7, <1>9, <1>12, <2>1, <2>2 DEF HoldsNode
<1>14. ~(excess > 0) => excess = 0  BY <1>11
<1>. QED  BY <1>6, <1>7, <1>8, <1>11, <1>12, <1>13, <1>14 DEF align, size, p, end, excess, rest, b

(* What alloc did: a new block p for l, clear of every block in use, and   *)
(* nothing lost unless its alignment asks for it.                          *)
Served(l, p) ==
    /\ p \in HeapBytes
    /\ live' = live \cup {Block(p, l)}
    /\ Aligned(p, l.align)
    /\ Owned(Block(p, l)) \subseteq HeapBytes
    /\ \A c \in live : Owned(Block(p, l)) \cap Owned(c) = {}
    /\ l.align <= NodeAlign => Holds(free) = Holds(free') \cup Owned(Block(p, l))

(* alloc serves its layout and keeps the invariant. *)
LEMMA AllocServes ==
    ASSUME LInv, NEW l \in Layouts, Alloc(l)
    PROVE  LInv' /\ \E p \in HeapBytes : Served(l, p)
<1>. DEFINE size == adjusted_size(l)
            align == adjusted_align(l)
<1>1. PICK i \in 1 .. Len(free) :
        /\ alloc_from_region(free[i], size, align)
        /\ LET p == align_up(free[i].addr, align)
               end == p + size
               excess == end_addr(free[i]) - end
           IN  /\ free' = IF excess > 0 THEN <<Region(end, excess)>> \o Without(i)
                          ELSE Without(i)
               /\ live' = live \cup {Block(p, l)}
  BY Zenon DEF Alloc, Found
<1>. DEFINE r == free[i]
            p == align_up(r.addr, align)
            end == p + size
            excess == end_addr(r) - end
            rest == Region(end, excess)
            b == Block(p, l)
            others == Removed(free, i)
<1>2. /\ free' = IF excess > 0 THEN <<rest>> \o others ELSE others
      /\ live' = live \cup {b}
  BY <1>1 DEF Without, Removed
<1>3. Apart(free, live) /\ HoldsNode(r)  BY Zenon DEF LInv, Apart
<1>4. /\ p \in HeapBytes /\ Aligned(p, l.align) /\ Aligned(p, NodeAlign)
      /\ Owned(b) \subseteq RegionBytes(r)
      /\ RegionBytes(rest) \subseteq RegionBytes(r)
      /\ RegionBytes(rest) \cap Owned(b) = {}
      /\ excess > 0 => HoldsNode(rest)
      /\ ~(excess > 0) => RegionBytes(rest) = {}
      /\ l.align <= NodeAlign => RegionBytes(r) = Owned(b) \cup RegionBytes(rest)
  BY Zenon, <1>1, <1>3, SplitFacts
<1>5. b \in [ptr : HeapBytes, layout : Layouts] /\ b.ptr = p  BY <1>4 DEF Block
<1>. HIDE DEF p, excess, rest, b, r, others
<1>6. /\ Apart(others, live)
      /\ \A j \in 1 .. Len(others) : RegionBytes(others[j]) \cap RegionBytes(r) = {}
      /\ Holds(free) = Holds(others) \cup RegionBytes(r)
  BY <1>3, TakeOff DEF others, r
<1>7. RegionBytes(r) \subseteq HeapBytes /\ \A c \in live : RegionBytes(r) \cap Owned(c) = {}
  BY <1>3 DEF Apart, HoldsNode, r
<1>8. Owned(b) \subseteq HeapBytes /\ \A c \in live : Owned(b) \cap Owned(c) = {}
  BY <1>4, <1>7
<1>9. Apart(others, live \cup {b})
  <2>1. \A j \in 1 .. Len(others) : RegionBytes(others[j]) \cap Owned(b) = {}
    BY <1>4, <1>6
  <2>. QED  BY <1>4, <1>5, <1>6, <1>8, <2>1, UseBlock
<1>10. CASE excess > 0
  <2>1. free' = <<rest>> \o others  BY <1>2, <1>10
  <2>2. \A j \in 1 .. Len(others) : RegionBytes(others[j]) \cap RegionBytes(rest) = {}
    BY <1>4, <1>6, <1>10
  <2>3. \A c \in live \cup {b} : RegionBytes(rest) \cap Owned(c) = {}
    BY <1>4, <1>7, <1>10
  <2>4. HoldsNode(rest)  BY <1>4, <1>10
  <2>5. /\ Apart(<<rest>> \o others, live \cup {b})
        /\ Holds(<<rest>> \o others) = Holds(others) \cup RegionBytes(rest)
    BY <1>9, <2>2, <2>3, <2>4, PutOn
  <2>6. l.align <= NodeAlign => Holds(free) = Holds(free') \cup Owned(b)
    BY <1>4, <1>6, <1>10, <2>1, <2>5
  <2>7. LInv'  BY <1>2, <2>1, <2>5 DEF LInv
  <2>. QED  BY <1>2, <1>4, <1>8, <2>6, <2>7 DEF Served, b
<1>11. CASE ~(excess > 0)
  <2>1. free' = others  BY <1>2, <1>11
  <2>2. l.align <= NodeAlign => Holds(free) = Holds(free') \cup Owned(b)
    BY <1>4, <1>6, <1>11, <2>1
  <2>3. LInv'  BY <1>2, <1>9, <2>1 DEF LInv
  <2>. QED  BY <1>2, <1>4, <1>8, <2>2, <2>3 DEF Served, b
<1>. QED  BY <1>10, <1>11

(* dealloc keeps the invariant, and all the memory. *)
LEMMA DeallocKeeps ==
    ASSUME LInv, NEW b \in live, Dealloc(b)
    PROVE  LInv' /\ Holds(free') = Holds(free) \cup Owned(b)
<1>. DEFINE r == Region(b.ptr, adjusted_size(b.layout))
<1>1. free' = <<r>> \o free /\ live' = live \ {b}  BY DEF Dealloc
<1>2. Apart(free, live)  BY DEF LInv
<1>3. b.ptr \in HeapBytes /\ b.layout \in Layouts /\ Aligned(b.ptr, NodeAlign)
      /\ Owned(b) \subseteq HeapBytes
  BY <1>2 DEF Apart
<1>4. b.ptr \in Nat  BY <1>3, HeapAssumption DEF HeapAssumption, HeapBytes, Extent
<1>5. RegionBytes(r) = Owned(b)  BY DEF RegionBytes, Region, Owned
<1>6. HoldsNode(r)
  <2>1. adjusted_size(b.layout) \in Nat /\ adjusted_size(b.layout) >= NodeSize
    BY <1>3, SizeAlign
  <2>2. r \in [addr : Nat, size : Nat] /\ r.addr = b.ptr /\ r.size = adjusted_size(b.layout)
    BY <1>4, <2>1 DEF Region
  <2>. HIDE DEF r
  <2>. QED  BY <1>3, <1>5, <2>1, <2>2 DEF HoldsNode
<1>. HIDE DEF r
<1>7. Apart(free, live \ {b})  BY Zenon, <1>2 DEF Apart
<1>8. /\ \A j \in 1 .. Len(free) : RegionBytes(free[j]) \cap RegionBytes(r) = {}
      /\ \A c \in live \ {b} : RegionBytes(r) \cap Owned(c) = {}
  BY <1>2, <1>5 DEF Apart
<1>9. /\ Apart(<<r>> \o free, live \ {b})
      /\ Holds(<<r>> \o free) = Holds(free) \cup RegionBytes(r)
  BY <1>6, <1>7, <1>8, PutOn
<1>. QED  BY <1>1, <1>5, <1>9 DEF LInv

(* After init one region holds the whole heap. *)
LEMMA InitLInv == Init => LInv
<1>. SUFFICES ASSUME Init PROVE LInv  OBVIOUS
<1>. DEFINE r == Region(HeapStart, HeapSize)
<1>1. free = <<r>> /\ live = {}  BY DEF Init
<1>2. HoldsNode(r)
  BY HeapAssumption, ListAssumption
  DEF HeapAssumption, ListAssumption, HoldsNode, Region, RegionBytes, HeapBytes
<1>. HIDE DEF r
<1>3. r \in [addr : Nat, size : Nat]  BY <1>2 DEF HoldsNode
<1>4. free \in Seq([addr : Nat, size : Nat]) /\ Len(free) = 1 /\ free[1] = r  BY <1>1, <1>3
<1>. QED  BY <1>1, <1>2, <1>4 DEF LInv, Apart

(* alloc and dealloc keep the invariant. *)
LEMMA StepLInv == LInv /\ [Next]_vars => LInv'
<1>. SUFFICES ASSUME LInv, [Next]_vars PROVE LInv'  OBVIOUS
<1>1. ASSUME NEW l \in Layouts, Alloc(l) PROVE LInv'  BY <1>1, AllocServes
<1>2. ASSUME NEW b \in live, Dealloc(b) PROVE LInv'  BY <1>2, DeallocKeeps
<1>3. CASE UNCHANGED vars  BY <1>3 DEF vars, LInv
<1>. QED  BY <1>1, <1>2, <1>3 DEF Next

(* The invariant holds in every state. *)
THEOREM ListInductive == Spec => []LInv
BY InitLInv, StepLInv, PTL DEF Spec

(* What the invariant says of the list. *)
LEMMA LInvFacts == LInv => RegionsHoldNodes /\ NothingShared
<1>. SUFFICES ASSUME LInv PROVE RegionsHoldNodes /\ NothingShared  OBVIOUS
<1>1. NothingShared  BY Zenon DEF LInv, Apart, NothingShared
<1>2. \A i \in 1 .. Len(free) : Aligned(free[i].addr, NodeAlign) /\ free[i].size >= NodeSize
  BY DEF LInv, Apart, HoldsNode
<1>3. ASSUME NEW i \in 1 .. Len(free)
      PROVE  free[i] \in [addr : HeapBytes, size : 1 .. HeapSize]
  <2>. DEFINE a == free[i].addr
              n == free[i].size
  <2>1. /\ free[i] \in [addr : Nat, size : Nat] /\ n >= NodeSize
        /\ RegionBytes(free[i]) \subseteq HeapBytes
    BY Zenon DEF LInv, Apart, HoldsNode
  <2>2. a \in Nat /\ n \in Nat /\ Extent(a, n) \subseteq HeapBytes  BY <2>1 DEF RegionBytes
  <2>. HIDE DEF a, n
  <2>3. n >= 1  BY <2>1, <2>2, ListAssumption DEF ListAssumption
  <2>4. a \in Extent(a, n) /\ a + n - 1 \in Extent(a, n)  BY <2>2, <2>3 DEF Extent
  <2>5. a \in HeapBytes /\ a + n - 1 \in HeapBytes  BY <2>2, <2>4
  <2>6. n \in 1 .. HeapSize
    BY <2>2, <2>3, <2>5, HeapAssumption DEF HeapAssumption, HeapBytes, Extent
  <2>. QED  BY <2>1, <2>5, <2>6 DEF a, n
<1>4. free \in Seq([addr : Nat, size : Nat]) /\ live \subseteq [ptr : HeapBytes, layout : Layouts]
  BY DEF LInv, Apart
<1>5. free \in Seq([addr : HeapBytes, size : 1 .. HeapSize])
  <2>1. Len(free) \in Nat /\ free \in [1 .. Len(free) -> [addr : Nat, size : Nat]]
    BY Zenon, <1>4, LenProperties
  <2>2. free \in [1 .. Len(free) -> [addr : HeapBytes, size : 1 .. HeapSize]]
    BY <1>3, <2>1
  <2>. DEFINE S == [addr : HeapBytes, size : 1 .. HeapSize]
  <2>3. free \in [1 .. Len(free) -> S]  BY <2>2
  <2>. HIDE DEF S
  <2>4. free \in UNION {[1 .. n -> S] : n \in Nat}  BY Zenon, <2>1, <2>3
  <2>5. Seq(S) = UNION {[1 .. n -> S] : n \in Nat}  BY SeqDef, Zenon
  <2>. QED  BY Zenon, <2>4, <2>5 DEF S
<1>. QED  BY <1>1, <1>2, <1>4, <1>5 DEF RegionsHoldNodes, TypeOK

(* Every free region can hold its list node, so add_free_region's          *)
(* assertions never fail, through any splitting.                           *)
THEOREM ListHoldsNodes == Spec => []RegionsHoldNodes
BY ListInductive, LInvFacts, PTL

(* No list node is ever written into a block in use. *)
THEOREM ListNeverShares == Spec => []NothingShared
BY ListInductive, LInvFacts, PTL

(* A change of the list keeps all the memory known, unless it hands out a  *)
(* block aligned beyond a list node.                                       *)
LEMMA StepKeepsKnown ==
    ASSUME LInv, Next, \A b \in live' \ live : b.layout.align <= NodeAlign
    PROVE  Known' = Known
<1>. DEFINE InUse(used) == UNION {Owned(b) : b \in used}
<1>1. Known = Holds(free) \cup InUse(live) /\ Known' = Holds(free') \cup InUse(live')
  BY DEF Known, Holds
<1>2. ASSUME NEW l \in Layouts, Alloc(l) PROVE Known' = Known
  <2>1. PICK p \in HeapBytes : Served(l, p)  BY <1>2, AllocServes
  <2>. DEFINE b == Block(p, l)
  <2>2. /\ live' = live \cup {b} /\ \A c \in live : Owned(b) \cap Owned(c) = {}
        /\ l.align <= NodeAlign => Holds(free) = Holds(free') \cup Owned(b)
    BY <2>1 DEF Served
  <2>3. b.layout = l /\ p \in Owned(b)
    <3>1. p \in Nat  BY HeapAssumption DEF HeapAssumption, HeapBytes, Extent
    <3>2. adjusted_size(l) \in Nat /\ adjusted_size(l) >= l.size /\ l.size \in Nat /\ l.size > 0
      BY SizeAlign
    <3>3. Owned(b) = Extent(p, adjusted_size(l))  BY DEF Owned, Block
    <3>. QED  BY <3>1, <3>2, <3>3, ExtentFacts DEF Block
  <2>. HIDE DEF b
  <2>4. b \notin live  BY <2>2, <2>3
  <2>5. l.align <= NodeAlign  BY <2>2, <2>3, <2>4
  <2>6. InUse(live') = InUse(live) \cup Owned(b)  BY <2>2
  <2>. HIDE DEF InUse
  <2>. QED  BY <1>1, <2>2, <2>5, <2>6
<1>3. ASSUME NEW b \in live, Dealloc(b) PROVE Known' = Known
  <2>1. Holds(free') = Holds(free) \cup Owned(b)  BY <1>3, DeallocKeeps
  <2>2. live' = live \ {b}  BY <1>3 DEF Dealloc
  <2>3. InUse(live) = InUse(live') \cup Owned(b)  BY <2>2
  <2>. HIDE DEF InUse
  <2>. QED  BY <1>1, <2>1, <2>3
<1>. QED  BY <1>2, <1>3 DEF Next

(* The linked list loses memory to alignment only. *)
THEOREM ListLosesByAlignmentOnly == Spec => LossOnlyByAlignment
<1>1. LInv /\ [Next]_vars =>
        [(\A b \in live' \ live : b.layout.align <= NodeAlign) => Known' = Known]_free
  BY StepKeepsKnown DEF vars
<1>. QED  BY <1>1, ListInductive, PTL DEF Spec, LossOnlyByAlignment

-----------------------------------------------------------------------------

(* The contract speaks of the same addresses. *)
LEMMA SameRegions ==
    /\ \A p, n : Contract!Extent(p, n) = Extent(p, n)
    /\ \A p, n : Contract!Aligned(p, n) = Aligned(p, n)
    /\ Contract!HeapBytes = HeapBytes
BY DEF Extent, Contract!Extent, Aligned, Contract!Aligned, HeapBytes, Contract!HeapBytes

(* What a layout asks for is part of what size_align makes of it. *)
LEMMA LayoutWithinBlock ==
    ASSUME NEW b \in [ptr : HeapBytes, layout : Layouts]
    PROVE  Extent(b.ptr, b.layout.size) \subseteq Owned(b)
<1>1. b.ptr \in Nat  BY HeapAssumption DEF HeapAssumption, HeapBytes, Extent
<1>2. /\ b.layout.size \in Nat /\ b.layout.size > 0
      /\ adjusted_size(b.layout) \in Nat /\ adjusted_size(b.layout) >= b.layout.size
  BY SizeAlign
<1>. QED  BY <1>1, <1>2, ExtentFacts DEF Owned

(* Every step of the allocator is one the contract allows. *)
LEMMA StepIsContract ==
    ASSUME LInv, [Next]_vars
    PROVE  [Contract!GANext]_live
<1>1. ASSUME NEW l \in Layouts, Alloc(l) PROVE Contract!GAAlloc(l)
  <2>1. PICK p \in HeapBytes : Served(l, p)  BY <1>1, AllocServes
  <2>2. Block(p, l) \in [ptr : HeapBytes, layout : Layouts]
        /\ Block(p, l).ptr = p /\ Block(p, l).layout = l
    BY DEF Block
  <2>3. Extent(p, l.size) \subseteq Owned(Block(p, l))  BY <2>2, LayoutWithinBlock
  <2>4. ASSUME NEW c \in live PROVE Contract!Bytes(c) \subseteq Owned(c)
    <3>1. c \in [ptr : HeapBytes, layout : Layouts]  BY DEF LInv, Apart
    <3>. QED  BY <3>1, LayoutWithinBlock, SameRegions DEF Contract!Bytes
  <2>5. \A c \in live : Extent(p, l.size) \cap Contract!Bytes(c) = {}
    BY <2>1, <2>3, <2>4 DEF Served
  <2>6. live' = live \cup {[ptr |-> p, layout |-> l]} /\ Aligned(p, l.align)
    BY <2>1 DEF Served, Block
  <2>7. Extent(p, l.size) \subseteq HeapBytes  BY <2>1, <2>3 DEF Served
  <2>. QED  BY <2>5, <2>6, <2>7, SameRegions DEF Contract!GAAlloc
<1>2. ASSUME NEW b \in live, Dealloc(b) PROVE Contract!GADealloc
  BY <1>2 DEF Dealloc, Contract!GADealloc
<1>3. CASE UNCHANGED vars  BY <1>3 DEF vars
<1>. QED  BY <1>1, <1>2, <1>3 DEF Next, Contract!GANext

(* The linked-list allocator implements GlobalAlloc. *)
THEOREM ListImplements == Spec => ImplementsGlobalAlloc
<1>1. Init => Contract!GAInit  BY DEF Init, Contract!GAInit
<1>2. LInv /\ [Next]_vars => [Contract!GANext]_live  BY StepIsContract
<1>. QED  BY <1>1, <1>2, ListInductive, PTL DEF Spec, ImplementsGlobalAlloc, Contract!GASpec

-----------------------------------------------------------------------------

(* The bump allocator, over the part of the heap from BumpStart. *)

End == HeapStart + HeapSize

(* Blocks in use lie between the start and `next`, and are counted. *)
BInv ==
    /\ next \in BumpStart .. End
    /\ allocations \in Nat
    /\ IsFiniteSet(live) /\ allocations = Cardinality(live)
    /\ live \subseteq [ptr : Nat, layout : Layouts]
    /\ \A b \in live : BumpStart <= b.ptr /\ b.ptr + b.layout.size <= next

(* The instance of BumpAllocator speaks of the same things. *)
LEMMA BumpSame ==
    /\ \A a, n : Bump!align_up(a, n) = align_up(a, n)
    /\ \A p, l : Bump!Block(p, l) = Block(p, l)
    /\ \A S : Bump!Cardinality(S) = Cardinality(S)
    /\ \A S : Bump!IsFiniteSet(S) <=> IsFiniteSet(S)
    /\ Bump!heap_end = End
    /\ BumpStart \in Nat /\ End \in Nat /\ HeapStart <= BumpStart /\ BumpStart <= End
<1>1. \A S : Bump!Cardinality(S) = Cardinality(S)  BY DEF Bump!Cardinality, Cardinality
<1>2. \A S : Bump!IsFiniteSet(S) <=> IsFiniteSet(S)  BY DEF Bump!IsFiniteSet, IsFiniteSet
<1>3. \A p, l : Bump!Block(p, l) = Block(p, l)  BY DEF Bump!Block, Block
<1>4. \A a, n : Bump!align_up(a, n) = align_up(a, n)  BY DEF Bump!align_up, align_up
<1>5. /\ Bump!heap_end = End
      /\ BumpStart \in Nat /\ End \in Nat /\ HeapStart <= BumpStart /\ BumpStart <= End
  BY HeapAssumption, HeapsAssumption DEF HeapAssumption, HeapsAssumption, Bump!heap_end, End
<1>. QED  BY <1>1, <1>2, <1>3, <1>4, <1>5

(* What the invariant says in BumpAllocator's terms. *)
LEMMA BInvFacts == BInv => Bump!TypeOK /\ Bump!CountsLive
BY BumpSame DEF BInv, Bump!TypeOK, Bump!CountsLive

(* The new block starts at or after `next`, where no block in use is. *)
LEMMA BumpAllocFresh ==
    ASSUME BInv, NEW l \in Layouts, Bump!Alloc(l)
    PROVE  LET p == align_up(next, l.align) IN
           /\ p \in Nat /\ p >= next /\ Aligned(p, l.align)
           /\ p + l.size <= End /\ next' = p + l.size
           /\ allocations' = allocations + 1
           /\ live' = live \cup {Block(p, l)}
           /\ Block(p, l) \notin live
<1>1. next \in Nat /\ l.align \in Nat /\ l.align > 0 /\ l.size \in Nat /\ l.size > 0
  BY BumpSame, HeapAssumption DEF BInv, HeapAssumption
<1>2. /\ align_up(next, l.align) \in Nat /\ align_up(next, l.align) >= next
      /\ Aligned(align_up(next, l.align), l.align)
  BY Zenon, <1>1, AlignUpFacts
<1>3. Block(align_up(next, l.align), l) \notin live
  BY <1>1, <1>2 DEF BInv, Block
<1>. QED  BY <1>2, <1>3, BumpSame DEF Bump!Alloc

(* After init `next` is the start and nothing is in use. *)
LEMMA InitBInv == Bump!Init => BInv
<1>. SUFFICES ASSUME Bump!Init PROVE BInv  OBVIOUS
<1>1. IsFiniteSet({}) /\ Cardinality({}) = 0  BY FS_EmptySet
<1>. QED  BY <1>1, BumpSame DEF Bump!Init, BInv

(* alloc and dealloc keep the invariant. *)
LEMMA StepBInv == BInv /\ [Bump!Next]_(Bump!vars) => BInv'
<1>. SUFFICES ASSUME BInv, [Bump!Next]_(Bump!vars) PROVE BInv'  OBVIOUS
<1>1. ASSUME NEW l \in Layouts, Bump!Alloc(l) PROVE BInv'
  <2>. DEFINE p == align_up(next, l.align)
  <2>1. /\ p \in Nat /\ p >= next /\ p + l.size <= End
        /\ next' = p + l.size /\ allocations' = allocations + 1
        /\ live' = live \cup {Block(p, l)} /\ Block(p, l) \notin live
    BY <1>1, BumpAllocFresh
  <2>2. IsFiniteSet(live') /\ Cardinality(live') = Cardinality(live) + 1
    BY <2>1, FS_AddElement DEF BInv
  <2>3. l.size \in Nat /\ End \in Nat /\ BumpStart \in Nat
    BY BumpSame, HeapAssumption DEF HeapAssumption
  <2>. HIDE DEF p
  <2>4. next' \in BumpStart .. End /\ next' >= next /\ p >= BumpStart
    BY <2>1, <2>3 DEF BInv
  <2>5. /\ live' \subseteq [ptr : Nat, layout : Layouts]
        /\ \A b \in live' : BumpStart <= b.ptr /\ b.ptr + b.layout.size <= next'
    <3>1. ASSUME NEW b \in live PROVE b.ptr + b.layout.size <= next'
      <4>1. b.ptr \in Nat /\ b.layout.size \in Nat /\ next \in Nat
        BY <2>3, HeapAssumption DEF HeapAssumption, BInv
      <4>. QED  BY <2>3, <2>4, <4>1 DEF BInv
    <3>. QED  BY <2>1, <2>4, <3>1 DEF BInv, Block
  <2>. QED  BY <2>1, <2>2, <2>4, <2>5 DEF BInv
<1>2. ASSUME NEW b \in live, Bump!Dealloc(b) PROVE BInv'
  <2>1. /\ live' = live \ {b} /\ allocations' = allocations - 1
        /\ next' = IF allocations' = 0 THEN BumpStart ELSE next
    BY <1>2 DEF Bump!Dealloc
  <2>2. IsFiniteSet(live') /\ Cardinality(live') = Cardinality(live) - 1
    BY <2>1, FS_RemoveElement DEF BInv
  <2>3. Cardinality(live') \in Nat  BY <2>2, FS_CardinalityType
  <2>4. allocations' \in Nat /\ allocations' = Cardinality(live')
        /\ next' \in BumpStart .. End
    BY <2>1, <2>2, <2>3, BumpSame DEF BInv
  <2>5. CASE allocations' = 0
    <3>1. live' = {}  BY <2>2, <2>4, <2>5, FS_EmptySet
    <3>. QED  BY <3>1, <2>2, <2>4 DEF BInv
  <2>6. CASE allocations' # 0
    BY <2>1, <2>2, <2>4, <2>6 DEF BInv
  <2>. QED  BY <2>5, <2>6
<1>3. CASE UNCHANGED Bump!vars
  BY <1>3 DEF Bump!vars, BInv
<1>. QED  BY <1>1, <1>2, <1>3 DEF Bump!Next

(* The invariant holds in every state. *)
THEOREM BumpInductive == Bump!Spec => []BInv
BY InitBInv, StepBInv, PTL DEF Bump!Spec

(* `next` stays within the heap. *)
THEOREM BumpTypeCorrect == Bump!Spec => []Bump!TypeOK
BY BumpInductive, BInvFacts, PTL

(* The counter is the number of blocks in use. *)
THEOREM BumpCountsLive == Bump!Spec => []Bump!CountsLive
BY BumpInductive, BInvFacts, PTL

(* The contract over the bump allocator's part speaks of the same addresses. *)
LEMMA BumpSameRegions ==
    /\ \A p, n : Bump!Contract!Extent(p, n) = Extent(p, n)
    /\ \A p, n : Bump!Contract!Aligned(p, n) = Aligned(p, n)
    /\ \A b : Bump!Contract!Bytes(b) = Contract!Bytes(b)
    /\ Bump!Contract!HeapBytes = BumpStart .. (End - 1)
    /\ Bump!Contract!HeapBytes \subseteq Contract!HeapBytes
<1>1. \A p, n : Bump!Contract!Extent(p, n) = Extent(p, n)
  BY DEF Bump!Contract!Extent, Extent
<1>2. \A p, n : Bump!Contract!Aligned(p, n) = Aligned(p, n)
  BY DEF Bump!Contract!Aligned, Aligned
<1>3. \A b : Bump!Contract!Bytes(b) = Contract!Bytes(b)
  BY <1>1, SameRegions DEF Bump!Contract!Bytes, Contract!Bytes
<1>4. HeapStart \in Nat /\ HeapSize \in Nat
  BY HeapAssumption DEF HeapAssumption
<1>5. Bump!Contract!HeapBytes = BumpStart .. (End - 1)
  BY <1>1, <1>4, BumpSame DEF Bump!Contract!HeapBytes, Extent, End
<1>6. Contract!HeapBytes = HeapStart .. (End - 1)
  BY <1>4, SameRegions DEF Contract!HeapBytes, Extent, End
<1>7. Bump!Contract!HeapBytes \subseteq Contract!HeapBytes
  BY <1>4, <1>5, <1>6, BumpSame
<1>. QED  BY <1>1, <1>2, <1>3, <1>5, <1>7

(* Every step of the bump allocator is one the contract allows. *)
LEMMA BumpStepIsContract ==
    ASSUME BInv, [Bump!Next]_(Bump!vars)
    PROVE  [Bump!Contract!GANext]_live
<1>1. ASSUME NEW l \in Layouts, Bump!Alloc(l) PROVE Bump!Contract!GAAlloc(l)
  <2>. DEFINE p == align_up(next, l.align)
  <2>1. /\ p \in Nat /\ p >= next /\ Aligned(p, l.align)
        /\ p + l.size <= End
        /\ live' = live \cup {Block(p, l)}
    BY <1>1, BumpAllocFresh
  <2>. HIDE DEF p
  <2>2. /\ l.size \in Nat /\ l.size > 0 /\ next \in Nat /\ BumpStart <= next
        /\ BumpStart \in Nat /\ End \in Nat
    BY BumpSame, HeapAssumption DEF BInv, HeapAssumption
  <2>3. p \in Bump!Contract!HeapBytes /\ Extent(p, l.size) \subseteq Bump!Contract!HeapBytes
    BY <2>1, <2>2, BumpSameRegions DEF Extent
  <2>4. ASSUME NEW b \in live PROVE Extent(p, l.size) \cap Bump!Contract!Bytes(b) = {}
    <3>1. b.ptr \in Nat /\ b.layout.size \in Nat /\ b.ptr + b.layout.size <= next
      BY HeapAssumption DEF BInv, HeapAssumption
    <3>2. Bump!Contract!Bytes(b) = Extent(b.ptr, b.layout.size)
      BY BumpSameRegions DEF Bump!Contract!Bytes
    <3>. QED  BY <3>1, <3>2, <2>1, <2>2 DEF Extent
  <2>5. live' = live \cup {[ptr |-> p, layout |-> l]}  BY <2>1 DEF Block
  <2>. QED  BY <2>1, <2>3, <2>4, <2>5, BumpSameRegions DEF Bump!Contract!GAAlloc
<1>2. ASSUME NEW b \in live, Bump!Dealloc(b) PROVE Bump!Contract!GADealloc
  BY <1>2 DEF Bump!Dealloc, Bump!Contract!GADealloc
<1>3. CASE UNCHANGED Bump!vars  BY <1>3 DEF Bump!vars
<1>. QED  BY <1>1, <1>2, <1>3 DEF Bump!Next, Bump!Contract!GANext

(* Every block the bump allocator hands out has the size and alignment     *)
(* asked for, lies in its part of the heap and overlaps no block in use.   *)
THEOREM BumpImplements == Bump!Spec => Bump!ImplementsGlobalAlloc
<1>1. Bump!Init => Bump!Contract!GAInit  BY DEF Bump!Init, Bump!Contract!GAInit
<1>2. BInv /\ [Bump!Next]_(Bump!vars) => [Bump!Contract!GANext]_live
  BY BumpStepIsContract
<1>. QED  BY <1>1, <1>2, BumpInductive, PTL
          DEF Bump!Spec, Bump!ImplementsGlobalAlloc, Bump!Contract!GASpec

-----------------------------------------------------------------------------

(* A kernel built with either allocator. *)

HInv ==
    \/ allocator = "list" /\ LInv
    \/ allocator = "bump" /\ BInv /\ free = <<>>

(* The kernel's heap starts out as its allocator's does. *)
LEMMA InitHInv == HeapsInit => HInv
BY InitLInv, InitBInv DEF HeapsInit, HInv

(* A step of the kernel's heap is a step of the allocator it was built with. *)
LEMMA StepHInv == HInv /\ [HeapsNext]_heaps_vars => HInv'
<1>. SUFFICES ASSUME HInv, [HeapsNext]_heaps_vars PROVE HInv'  OBVIOUS
<1>1. CASE allocator = "list" /\ LInv
  <2>1. [Next]_vars /\ allocator' = allocator
    BY <1>1 DEF HeapsNext, heaps_vars, vars
  <2>. QED  BY <1>1, <2>1, StepLInv DEF HInv
<1>2. CASE allocator = "bump" /\ BInv /\ free = <<>>
  <2>1. [Bump!Next]_(Bump!vars) /\ allocator' = allocator /\ free' = free
    BY <1>2 DEF HeapsNext, heaps_vars, Bump!vars
  <2>. QED  BY <1>2, <2>1, StepBInv DEF HInv
<1>. QED  BY <1>1, <1>2 DEF HInv

(* Whichever allocator the kernel was built with keeps its invariant. *)
THEOREM HeapsInductive == HeapsSpec => []HInv
BY InitHInv, StepHInv, PTL DEF HeapsSpec

(* An empty list of regions holds no region that is too small. *)
LEMMA HInvHoldsNodes == HInv => RegionsHoldNodes
<1>1. LInv => RegionsHoldNodes  BY LInvFacts
<1>2. ASSUME BInv, free = <<>> PROVE RegionsHoldNodes
  <2>1. Len(free) = 0 /\ free \in Seq([addr : HeapBytes, size : 1 .. HeapSize])
    BY <1>2
  <2>2. live \subseteq [ptr : HeapBytes, layout : Layouts]
    <3>. SUFFICES ASSUME NEW b \in live PROVE b \in [ptr : HeapBytes, layout : Layouts]
      OBVIOUS
    <3>1. /\ b \in [ptr : Nat, layout : Layouts]
          /\ BumpStart <= b.ptr /\ b.ptr + b.layout.size <= next /\ next \in BumpStart .. End
          /\ HeapStart \in Nat /\ HeapSize \in Nat /\ BumpStart \in Nat /\ End \in Nat
          /\ HeapStart <= BumpStart /\ b.layout.size \in Nat /\ b.layout.size > 0
      BY <1>2, BumpSame, HeapAssumption DEF BInv, HeapAssumption
    <3>2. b.ptr \in Nat /\ next \in Nat /\ next <= HeapStart + HeapSize  BY <3>1 DEF End
    <3>3. b.ptr \in HeapBytes  BY <3>1, <3>2 DEF HeapBytes, Extent
    <3>. QED  BY <3>1, <3>3
  <2>. QED  BY <2>1, <2>2 DEF RegionsHoldNodes, TypeOK
<1>. QED  BY <1>1, <1>2 DEF HInv

(* Whichever allocator it was built with, the kernel never fails an        *)
(* assertion of add_free_region.                                           *)
THEOREM HeapsHoldNodes == HeapsSpec => []RegionsHoldNodes
BY HeapsInductive, HInvHoldsNodes, PTL

(* A kernel built with the linked list never writes a list node into a     *)
(* block in use.                                                           *)
THEOREM HeapsListShares == HeapsSpec => []ListSharesNothing
<1>1. HInv => ListSharesNothing  BY LInvFacts DEF HInv, ListSharesNothing
<1>. QED  BY <1>1, HeapsInductive, PTL

(* A kernel built with the bump allocator counts the blocks in use exactly, *)
(* and `next` stays in its part of the heap.                               *)
THEOREM HeapsBumpCounts == HeapsSpec => []BumpCounts
<1>1. HInv => BumpCounts  BY BInvFacts DEF HInv, BumpCounts
<1>. QED  BY <1>1, HeapsInductive, PTL

(* Neither kernel forgets memory but to alignment. *)
THEOREM HeapsLoseByAlignmentOnly == HeapsSpec => LossOnlyByAlignment
<1>1. HInv /\ [HeapsNext]_heaps_vars =>
        [(\A b \in live' \ live : b.layout.align <= NodeAlign) => Known' = Known]_free
  <2>. SUFFICES ASSUME HInv, [HeapsNext]_heaps_vars, free' # free,
                       \A b \in live' \ live : b.layout.align <= NodeAlign
                PROVE  Known' = Known
    OBVIOUS
  <2>1. LInv /\ [Next]_vars  BY DEF HInv, HeapsNext, heaps_vars, vars
  <2>. QED  BY <2>1, StepKeepsKnown DEF vars
<1>. QED  BY <1>1, HeapsInductive, PTL DEF HeapsSpec, LossOnlyByAlignment

(* A step the contract allows over part of the heap is one it allows over  *)
(* the whole.                                                              *)
LEMMA PartIsHeap == [Bump!Contract!GANext]_live => [Contract!GANext]_live
<1>1. ASSUME NEW l \in Layouts, Bump!Contract!GAAlloc(l) PROVE Contract!GAAlloc(l)
  <2>1. PICK p \in Bump!Contract!HeapBytes :
          /\ Aligned(p, l.align)
          /\ Extent(p, l.size) \subseteq Bump!Contract!HeapBytes
          /\ \A b \in live : Extent(p, l.size) \cap Contract!Bytes(b) = {}
          /\ live' = live \cup {[ptr |-> p, layout |-> l]}
    BY <1>1, BumpSameRegions DEF Bump!Contract!GAAlloc
  <2>2. p \in Contract!HeapBytes /\ Extent(p, l.size) \subseteq Contract!HeapBytes
    BY <2>1, BumpSameRegions
  <2>. QED  BY <2>1, <2>2, SameRegions DEF Contract!GAAlloc
<1>2. Bump!Contract!GADealloc => Contract!GADealloc
  BY DEF Bump!Contract!GADealloc, Contract!GADealloc
<1>. QED  BY <1>1, <1>2 DEF Bump!Contract!GANext, Contract!GANext

(* A kernel built with either allocator has a heap that implements         *)
(* GlobalAlloc.                                                            *)
THEOREM HeapsImplement == HeapsSpec => ImplementsGlobalAlloc
<1>1. HeapsInit => Contract!GAInit
  BY DEF HeapsInit, Init, Bump!Init, Contract!GAInit
<1>2. HInv /\ [HeapsNext]_heaps_vars => [Contract!GANext]_live
  <2>. SUFFICES ASSUME HInv, [HeapsNext]_heaps_vars PROVE [Contract!GANext]_live
    OBVIOUS
  <2>1. CASE allocator = "list" /\ LInv
    <3>1. [Next]_vars  BY <2>1 DEF HeapsNext, heaps_vars, vars
    <3>. QED  BY <2>1, <3>1, StepIsContract
  <2>2. CASE allocator = "bump" /\ BInv /\ free = <<>>
    <3>1. [Bump!Next]_(Bump!vars)  BY <2>2 DEF HeapsNext, heaps_vars, Bump!vars
    <3>. QED  BY <2>2, <3>1, BumpStepIsContract, PartIsHeap
  <2>. QED  BY <2>1, <2>2 DEF HInv
<1>. QED  BY <1>1, <1>2, HeapsInductive, PTL
          DEF HeapsSpec, ImplementsGlobalAlloc, Contract!GASpec
=============================================================================
