---------------------------- MODULE RegionProofs ----------------------------
(* What allocator::align_up returns, for every address and alignment, and  *)
(* facts on ranges, alignments and lists for the proofs of the allocators. *)
EXTENDS Regions, Integers, Sequences, TLAPS, WellFoundedInduction

(* A multiple of n leaves no remainder. *)
LEMMA MultipleIsAligned ==
    ASSUME NEW q \in Nat, NEW n \in Nat, n > 0, NEW a \in Nat, a = n * q
    PROVE  Aligned(a, n)
BY DEF Aligned

(* align_up answers the first aligned address that is not below its        *)
(* argument: aligned, not below, less than one alignment above.            *)
THEOREM AlignUpFacts ==
    ASSUME NEW a \in Nat, NEW n \in Nat, n > 0
    PROVE  /\ align_up(a, n) \in Nat
           /\ align_up(a, n) >= a
           /\ align_up(a, n) < a + n
           /\ Aligned(align_up(a, n), n)
<1>1. a % n \in 0 .. n - 1  OBVIOUS
<1>2. PICK q \in Nat : a = n * q + (a % n)
  <2>1. a = n * (a \div n) + (a % n) /\ a \div n \in Nat  OBVIOUS
  <2>. QED  BY <2>1
<1>3. CASE a % n = 0  BY <1>3 DEF align_up, Aligned
<1>4. CASE a % n # 0
  <2>1. align_up(a, n) = a - (a % n) + n  BY <1>4 DEF align_up
  <2>2. q + 1 \in Nat /\ n * q \in Nat /\ n * (q + 1) = n * q + n  OBVIOUS
  <2>3. align_up(a, n) = n * (q + 1)  BY <1>1, <1>2, <2>1, <2>2
  <2>4. align_up(a, n) \in Nat  BY <1>1, <2>1
  <2>5. Aligned(align_up(a, n), n)  BY Zenon, <2>2, <2>3, <2>4, MultipleIsAligned
  <2>. QED  BY <1>1, <1>4, <2>1, <2>4, <2>5
<1>. QED  BY <1>3, <1>4

-----------------------------------------------------------------------------

(* What is aligned to a multiple of m is aligned to m. *)
LEMMA AlignedToDivisor ==
    ASSUME NEW p \in Nat, NEW n \in Nat, NEW m \in Nat, n > 0, m > 0,
           Aligned(p, n), n % m = 0
    PROVE  Aligned(p, m)
<1>1. PICK q \in Nat : p = n * q + (p % n)
  <2>1. p = n * (p \div n) + (p % n) /\ p \div n \in Nat  OBVIOUS
  <2>. QED  BY <2>1
<1>2. PICK r \in Nat : n = m * r + (n % m)
  <2>1. n = m * (n \div m) + (n % m) /\ n \div m \in Nat  OBVIOUS
  <2>. QED  BY <2>1
<1>3. n * q \in Nat /\ m * r \in Nat  OBVIOUS
<1>4. p = n * q /\ n = m * r  BY <1>1, <1>2, <1>3 DEF Aligned
<1>5. r * q \in Nat /\ (m * r) * q = m * (r * q)  OBVIOUS
<1>6. p = m * (r * q)  BY <1>4, <1>5
<1>. QED  BY <1>5, <1>6, MultipleIsAligned

(* An extent holds its start, and every shorter extent from there. *)
LEMMA ExtentFacts ==
    ASSUME NEW p \in Nat, NEW n \in Nat, NEW m \in Nat, m > 0, n >= m
    PROVE  p \in Extent(p, n) /\ Extent(p, m) \subseteq Extent(p, n)
BY DEF Extent

(* Putting an element first on a sequence, and taking it off again. *)
LEMMA PushFacts ==
    ASSUME NEW S, NEW s \in Seq(S), NEW p \in S
    PROVE  /\ <<p>> \o s \in Seq(S) /\ <<p>> \o s # <<>>
           /\ Head(<<p>> \o s) = p /\ Tail(<<p>> \o s) = s
           /\ Len(<<p>> \o s) = Len(s) + 1 /\ (<<p>> \o s)[1] = p
           /\ \A i \in 1 .. Len(s) : (<<p>> \o s)[i + 1] = s[i]
<1>. DEFINE t == <<p>> \o s
<1>1. t \in Seq(S) /\ Len(t) = Len(s) + 1 /\ Len(s) \in Nat  OBVIOUS
<1>2. t[1] = p /\ \A i \in 1 .. Len(s) : t[i + 1] = s[i]  OBVIOUS
<1>. HIDE DEF t
<1>3. t # <<>> /\ Head(t) = p  BY <1>1, <1>2
<1>4. Tail(t) \in Seq(S) /\ Len(Tail(t)) = Len(s)  BY <1>1, <1>3
<1>5. \A i \in 1 .. Len(s) : Tail(t)[i] = s[i]  BY <1>1, <1>2, <1>3
<1>6. Tail(t) = s  BY <1>4, <1>5
<1>. QED  BY <1>1, <1>2, <1>3, <1>6 DEF t

(* A non-empty set of natural numbers has a least element. *)
LEMMA LeastElement ==
    ASSUME NEW S, S \subseteq Nat, S # {}
    PROVE  \E k \in S : \A j \in S : k <= j
<1>. DEFINE R == {ss \in Nat \X Nat : ss[1] < ss[2]}
<1>1. IsWellFoundedOn(R, Nat)  BY NatLessThanWellFounded DEF OpToRel
<1>. HIDE DEF R
<1>2. PICK k \in S : \A j \in S : <<j, k>> \notin R  BY Zenon, <1>1, WFMin
<1>3. ASSUME NEW j \in S PROVE k <= j
  <2>1. <<j, k>> \notin R  BY <1>2
  <2>. QED  BY <2>1 DEF R
<1>. QED  BY <1>3

(* The positions and the items of a sequence. *)
LEMMA SequenceFacts ==
    ASSUME NEW S, NEW s \in Seq(S)
    PROVE  /\ Len(s) \in Nat /\ DOMAIN s = 1 .. Len(s)
           /\ \A k \in 1 .. Len(s) : s[k] \in S
OBVIOUS

(* Appending an item leaves the others where they are. *)
LEMMA AppendFacts ==
    ASSUME NEW S, NEW s \in Seq(S), NEW x \in S
    PROVE  /\ Append(s, x) \in Seq(S) /\ Len(Append(s, x)) = Len(s) + 1
           /\ \A k \in 1 .. Len(s) : Append(s, x)[k] = s[k]
           /\ Append(s, x)[Len(s) + 1] = x
OBVIOUS
=============================================================================
