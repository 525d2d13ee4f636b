--------------------------- MODULE AllocatorProofs ---------------------------
(***************************************************************************)
(* Proofs about the allocator, for every layout LayoutAssumption allows.   *)
(*                                                                         *)
(* The inductive invariant says that the blocks read off the caller's      *)
(* pointers tile the heap (Tiling).  Each step turns one row of blocks     *)
(* into another by a lemma on tilings; that the new row is the one the     *)
(* caller's new pointers describe is BlocksDetermined.                     *)
(***************************************************************************)
EXTENDS Allocator, TLAPS

-----------------------------------------------------------------------------
(* Rows of tagged blocks, free of the allocator's state: B is the set of   *)
(* the blocks' headers, m the memory, e the end of the row and U the       *)
(* headers of the allocated blocks.  The lemmas say what tagging one block *)
(* does to the words, and how splitting, taking, appending and coalescing  *)
(* blocks turn one row into another.                                       *)

Size(m, b) == SizeOf(m[b])

TagsFit(B, m, e, U) ==
  \A b \in B :
    /\ b \in Words /\ b >= HeapStart /\ b % Alignment = HeapStart % Alignment
    /\ Size(m, b) >= MinimumBlockSize
    /\ b + Size(m, b) <= e
    /\ m[b + Size(m, b) - FooterSize] = m[b]
    /\ IsUsed(m[b]) <=> b \in U

Tiles(B, m, e) ==
  /\ HeapStart \in B \cup {e}
  /\ \A b \in B : b + Size(m, b) \in B \cup {e}
  /\ \A x \in B \cup {e} : x = HeapStart \/ \E b \in B : b + Size(m, b) = x
  /\ \A b, c \in B : b < c => b + Size(m, b) <= c

NoFreePair(B, m, U) == \A b \in B \ U : b + Size(m, b) \in U

Tiling(B, m, e, U) ==
  /\ m \in [Words -> Nat] /\ e \in Nat /\ e < AddressSpace
  /\ U \subseteq B
  /\ TagsFit(B, m, e, U)
  /\ Tiles(B, m, e)
  /\ NoFreePair(B, m, U)

-----------------------------------------------------------------------------
(* Tags and words *)

(* x & size_mask rounds a natural number down to a multiple of 8.          *)
LEMMA AlignDownFacts ==
  ASSUME NEW x \in Nat
  PROVE  /\ AlignDown(x) \in Nat
         /\ AlignDown(x) % Alignment = 0
         /\ AlignDown(x) <= x /\ x < AlignDown(x) + Alignment
BY DEF AlignDown, Alignment

(* A tag gives back the size and the flag it was made from.                *)
LEMMA TagFacts ==
  ASSUME NEW size \in Nat, size % Alignment = 0, NEW flag \in {FreeFlag, AllocatedFlag}
  PROVE  /\ Tag(size, flag) \in Nat
         /\ SizeOf(Tag(size, flag)) = size
         /\ IsUsed(Tag(size, flag)) <=> flag = AllocatedFlag
BY DEF Tag, SizeOf, IsUsed, AlignDown, Alignment, AllocatedFlag, FreeFlag

(* Blocks of aligned sizes have their headers and footers on words.        *)
LEMMA WordFacts ==
  ASSUME NEW b \in Words, NEW size \in Nat, size % Alignment = 0,
         size >= Overhead, b + size <= AddressSpace
  PROVE  /\ b \in Nat
         /\ b + size - FooterSize \in Words
         /\ b + size < AddressSpace => b + size \in Words
         /\ (b + size) % Alignment = b % Alignment
BY LayoutAssumption
   DEF Words, HeaderSize, FooterSize, Overhead, Alignment

(* Tagging a block sets its first and last word and no other.              *)
LEMMA TaggedFacts ==
  ASSUME NEW m \in [Words -> Nat], NEW b \in Words, NEW size \in Nat,
         size % Alignment = 0, size >= Overhead, b + size <= AddressSpace,
         NEW flag \in {FreeFlag, AllocatedFlag}, NEW m2, m2 = Tagged(m, b, size, flag)
  PROVE  /\ m2 \in [Words -> Nat]
         /\ m2[b] = Tag(size, flag)
         /\ m2[b + size - FooterSize] = Tag(size, flag)
         /\ \A a \in Words : a < b \/ a >= b + size => m2[a] = m[a]
<1>1. b + size - FooterSize \in Words /\ b \in Nat /\ Words \subseteq Nat
  BY WordFacts DEF Words
<1>2. Tag(size, flag) \in Nat
  BY TagFacts
<1>3. QED
  BY <1>1, <1>2 DEF Tagged, Overhead, HeaderSize, FooterSize

-----------------------------------------------------------------------------
(* Facts about a tiling *)

(* The size of a block is a positive multiple of 8.                        *)
LEMMA SizeFacts ==
  ASSUME NEW B, NEW m, NEW e, NEW U, Tiling(B, m, e, U), NEW b \in B
  PROVE  /\ b \in Words /\ b \in Nat
         /\ Size(m, b) \in Nat /\ Size(m, b) % Alignment = 0
         /\ Size(m, b) >= 16
         /\ b + Size(m, b) - FooterSize \in Words
<1>1. b \in Words /\ b \in Nat /\ m[b] \in Nat
  BY DEF Tiling, TagsFit, Words
<1>2. Size(m, b) \in Nat /\ Size(m, b) % Alignment = 0
  BY <1>1, AlignDownFacts DEF Size, SizeOf
<1>3. Size(m, b) >= 16 /\ b + Size(m, b) <= AddressSpace
  BY LayoutAssumption, <1>1, <1>2
     DEF Tiling, TagsFit, MinimumBlockSize, Alignment
<1>4. QED
  BY <1>1, <1>2, <1>3, WordFacts DEF Overhead, HeaderSize, FooterSize

(* The allocated blocks and the end determine all the blocks.              *)
LEMMA BlocksDetermined ==
  ASSUME NEW B, NEW m, NEW e, NEW U, Tiling(B, m, e, U)
  PROVE  B = U \cup (({HeapStart} \cup {b + Size(m, b) : b \in U}) \ {e})
<1> DEFINE G == ({HeapStart} \cup {b + Size(m, b) : b \in U}) \ {e}
<1>1. ASSUME NEW b \in B, b \notin U PROVE b \in G
  <2>1. b # e
    <3>1. b + Size(m, b) <= e
      BY DEF Tiling, TagsFit
    <3>2. QED
      BY <3>1, SizeFacts DEF Tiling
  <2>2. CASE b = HeapStart
    BY <2>1, <2>2
  <2>3. CASE b # HeapStart
    <3>1. PICK c \in B : c + Size(m, c) = b
      BY <2>3 DEF Tiling, Tiles
    <3>2. c \in U
      BY <1>1, <3>1 DEF Tiling, NoFreePair
    <3>3. QED
      BY <2>1, <3>1, <3>2
  <2>4. QED
    BY <2>2, <2>3
<1>2. U \subseteq B
  BY DEF Tiling
<1>3. G \subseteq B
  BY <1>2 DEF Tiling, Tiles
<1>4. QED
  BY <1>1, <1>2, <1>3

(* A change confined to the bytes of block b leaves the tags of every      *)
(* other block alone.                                                      *)
LEMMA OthersKept ==
  ASSUME NEW B, NEW m, NEW e, NEW U, Tiling(B, m, e, U),
         NEW b \in B, NEW c \in B, c # b, NEW m2,
         \A a \in Words : a < b \/ a >= b + Size(m, b) => m2[a] = m[a]
  PROVE  /\ m2[c] = m[c]
         /\ m2[c + Size(m, c) - FooterSize] = m[c + Size(m, c) - FooterSize]
<1>1. c < b => c + Size(m, c) <= b
  BY DEF Tiling, Tiles
<1>2. b < c => b + Size(m, b) <= c
  BY DEF Tiling, Tiles
<1>3. QED
  BY <1>1, <1>2, SizeFacts DEF FooterSize

(* The same for a change confined to a range of whole blocks.              *)
LEMMA OutsideKept ==
  ASSUME NEW B, NEW m, NEW e, NEW U, Tiling(B, m, e, U),
         NEW lo \in B, NEW hi \in Nat, NEW c \in B, ~(lo <= c /\ c < hi), NEW m2,
         \A a \in Words : a < lo \/ a >= hi => m2[a] = m[a]
  PROVE  /\ m2[c] = m[c]
         /\ m2[c + Size(m, c) - FooterSize] = m[c + Size(m, c) - FooterSize]
<1>1. c < lo => c + Size(m, c) <= lo
  BY DEF Tiling, Tiles
<1>2. QED
  BY <1>1, SizeFacts DEF FooterSize

-----------------------------------------------------------------------------
(* Operations on rows *)

(* What each operation makes of a row, and of the words outside it: m2 is  *)
(* the memory afterwards.                                                  *)

RowRefitted(B, m, e, U, lo, hi, flag, K, m2) ==
  /\ Tiling((B \ K) \cup {lo}, m2, e,
            (U \ K) \cup (IF flag = AllocatedFlag THEN {lo} ELSE {}))
  /\ Size(m2, lo) = hi - lo
  /\ \A c \in B \ K : Size(m2, c) = Size(m, c)
  /\ \A a \in Words : a < lo \/ a >= hi => m2[a] = m[a]

RowSplit(B, m, e, U, b, r, m2) ==
  /\ Tiling(B \cup {b + r}, m2, e, U \cup {b})
  /\ Size(m2, b) = r
  /\ \A c \in B \ {b} : Size(m2, c) = Size(m, c)
  /\ \A a \in Words : a < b \/ a >= b + Size(m, b) => m2[a] = m[a]

RowAppended(B, m, e, U, r, m2) ==
  /\ Tiling(B \cup {e}, m2, e + r, U \cup {e})
  /\ Size(m2, e) = r
  /\ \A c \in B : Size(m2, c) = Size(m, c)
  /\ \A a \in Words : a < e \/ a >= e + r => m2[a] = m[a]

RowStoredTo(B, m, e, U, b, m2) ==
  Tiling(B, m2, e, U) /\ \A c \in B : Size(m2, c) = Size(m, c)

(* A heap that never held a block is tiled by none.                        *)
LEMMA EmptyRow ==
  ASSUME NEW m \in [Words -> Nat]
  PROVE  Tiling({}, m, HeapStart, {})
BY LayoutAssumption DEF Tiling, TagsFit, Tiles, NoFreePair

(* The blocks from lo up to hi become one block, tagged `flag'.  A free    *)
(* one needs allocated neighbours on both sides.                           *)
LEMMA RefitRow ==
  ASSUME NEW B, NEW m, NEW e, NEW U, Tiling(B, m, e, U),
         NEW lo \in B, NEW hi \in B \cup {e}, lo < hi,
         (hi - lo) % Alignment = 0, hi - lo >= MinimumBlockSize,
         NEW flag \in {FreeFlag, AllocatedFlag},
         flag = AllocatedFlag \/ (hi \in U /\ \A c \in B : c + Size(m, c) = lo => c \in U),
         NEW m2, m2 = Tagged(m, lo, hi - lo, flag),
         NEW K, K = {c \in B : lo <= c /\ c < hi}
  PROVE  RowRefitted(B, m, e, U, lo, hi, flag, K, m2)
<1> DEFINE B2 == (B \ K) \cup {lo}
           U2 == (U \ K) \cup (IF flag = AllocatedFlag THEN {lo} ELSE {})
<1>1. /\ lo \in Words /\ lo \in Nat /\ hi \in Nat /\ hi <= e
      /\ e < AddressSpace /\ AddressSpace \in Nat /\ e \in Nat
      /\ U \subseteq B /\ m \in [Words -> Nat] /\ HeapStart \in Nat
  BY LayoutAssumption, SizeFacts DEF Tiling, TagsFit
<1>2. hi - lo \in Nat /\ hi - lo >= 16 /\ lo + (hi - lo) = hi
  BY <1>1 DEF MinimumBlockSize, Alignment
<1>3. /\ m2 \in [Words -> Nat]
      /\ m2[lo] = Tag(hi - lo, flag) /\ m2[hi - FooterSize] = Tag(hi - lo, flag)
      /\ \A a \in Words : a < lo \/ a >= hi => m2[a] = m[a]
  <2>1. /\ hi - lo >= Overhead /\ lo + (hi - lo) <= AddressSpace
        /\ lo + (hi - lo) - FooterSize = hi - FooterSize
    BY <1>1, <1>2 DEF Overhead, HeaderSize, FooterSize
  <2>2. QED
    BY <1>1, <1>2, <2>1, TaggedFacts
<1>4. Size(m2, lo) = hi - lo /\ (IsUsed(m2[lo]) <=> flag = AllocatedFlag)
  BY <1>2, <1>3, TagFacts DEF Size
<1>5. ASSUME NEW c \in B \ K
      PROVE  /\ Size(m2, c) = Size(m, c) /\ m2[c] = m[c]
             /\ m2[c + Size(m, c) - FooterSize] = m[c]
             /\ c \in Nat /\ Size(m, c) \in Nat /\ Size(m, c) >= 16
             /\ c < lo \/ c >= hi
             /\ c < lo => c + Size(m, c) <= lo
  <2>1. /\ c \in Nat /\ Size(m, c) \in Nat /\ Size(m, c) >= 16
        /\ c < lo \/ c >= hi
    BY <1>1, SizeFacts
  <2>2. c < lo => c + Size(m, c) <= lo
    BY DEF Tiling, Tiles
  <2>3. m2[c] = m[c] /\ m2[c + Size(m, c) - FooterSize] = m[c + Size(m, c) - FooterSize]
    BY <1>1, <1>3, OutsideKept
  <2>4. m[c + Size(m, c) - FooterSize] = m[c]
    BY DEF Tiling, TagsFit
  <2>5. QED
    BY <2>1, <2>2, <2>3, <2>4 DEF Size
<1>6. U2 \subseteq B2
  BY <1>1
<1>7. TagsFit(B2, m2, e, U2)
  <2>1. ASSUME NEW b \in B2
        PROVE  /\ b \in Words /\ b >= HeapStart
               /\ b % Alignment = HeapStart % Alignment
               /\ Size(m2, b) >= MinimumBlockSize
               /\ b + Size(m2, b) <= e
               /\ m2[b + Size(m2, b) - FooterSize] = m2[b]
               /\ IsUsed(m2[b]) <=> b \in U2
    <3>1. CASE b = lo
      <4>1. lo \in U2 <=> flag = AllocatedFlag
        BY <1>1
      <4>2. lo >= HeapStart /\ lo % Alignment = HeapStart % Alignment
        BY DEF Tiling, TagsFit
      <4>3. lo + Size(m2, lo) = hi
        BY <1>2, <1>4
      <4>4. m2[lo + Size(m2, lo) - FooterSize] = m2[lo]
        <5>1. m2[hi - FooterSize] = m2[lo]
          BY <1>3
        <5>2. lo + Size(m2, lo) - FooterSize = hi - FooterSize
          BY <1>1, <1>4 DEF FooterSize
        <5>3. QED
          BY <5>1, <5>2
      <4>5. Size(m2, lo) >= MinimumBlockSize /\ lo + Size(m2, lo) <= e
        BY <1>1, <1>4, <4>3
      <4>6. QED
        BY <1>1, <1>4, <3>1, <4>1, <4>2, <4>4, <4>5
    <3>2. CASE b \in B \ K /\ b # lo
      <4>1. b \in U2 <=> b \in U
        BY <3>2
      <4>2. QED
        BY <1>5, <3>2, <4>1 DEF Tiling, TagsFit
    <3>3. QED
      BY <3>1, <3>2
  <2>2. QED
    BY <2>1 DEF TagsFit
<1>8. Tiles(B2, m2, e)
  <2>1. HeapStart \in B2 \cup {e}
    BY <1>1 DEF Tiling, TagsFit, Tiles
  <2>2. ASSUME NEW b \in B2 PROVE b + Size(m2, b) \in B2 \cup {e}
    <3>1. CASE b = lo
      BY <1>1, <1>2, <1>4, <3>1
    <3>2. CASE b \in B \ K
      <4>1. b + Size(m, b) \in B \cup {e}
        BY <3>2 DEF Tiling, Tiles
      <4>2. b + Size(m, b) \in K => b + Size(m, b) = lo
        BY <1>1, <1>5, <3>2
      <4>3. QED
        BY <1>5, <3>2, <4>1, <4>2
    <3>3. QED
      BY <3>1, <3>2
  <2>3. ASSUME NEW x \in B2 \cup {e}, x # HeapStart
        PROVE  \E b \in B2 : b + Size(m2, b) = x
    <3>1. PICK b \in B : b + Size(m, b) = x
      BY <2>3 DEF Tiling, Tiles
    <3>2. CASE b \notin K
      BY <1>5, <3>1, <3>2
    <3>3. CASE b \in K
      <4>1. b < x /\ x \in Nat /\ b \in Nat
        BY <3>1, SizeFacts
      <4>2. x <= hi
        BY <1>1, <3>1, <3>3 DEF Tiling, TagsFit, Tiles
      <4>3. x = hi
        <5>1. hi \in B => hi < e
          <6>1. hi \in B => Size(m, hi) \in Nat /\ Size(m, hi) >= 16 /\ hi + Size(m, hi) <= e
            BY SizeFacts DEF Tiling, TagsFit
          <6>2. QED
            BY <1>1, <6>1
        <5>2. x \in B \ K => x >= hi
          BY <1>5, <3>3, <4>1
        <5>3. x = e => x = hi
          BY <1>1, <4>2
        <5>4. QED
          BY <1>1, <2>3, <3>3, <4>1, <4>2, <5>2, <5>3
      <4>4. QED
        BY <1>2, <1>4, <4>3
    <3>4. QED
      BY <3>2, <3>3
  <2>4. ASSUME NEW b \in B2, NEW c \in B2, b < c PROVE b + Size(m2, b) <= c
    <3>1. CASE b = lo
      BY <1>1, <1>2, <1>4, <1>5, <2>4, <3>1
    <3>2. CASE b \in B \ K /\ c = lo
      BY <1>5, <2>4, <3>2
    <3>3. CASE b \in B \ K /\ c \in B \ K
      BY <1>5, <2>4, <3>3 DEF Tiling, Tiles
    <3>4. QED
      BY <3>1, <3>2, <3>3
  <2>5. QED
    BY <2>1, <2>2, <2>3, <2>4 DEF Tiles
<1>9. NoFreePair(B2, m2, U2)
  <2>1. ASSUME NEW b \in B2 \ U2 PROVE b + Size(m2, b) \in U2
    <3>1. CASE b = lo
      BY <1>1, <1>2, <1>4, <2>1, <3>1
    <3>2. CASE b \in B \ K /\ b # lo
      <4>1. b \notin U /\ b + Size(m, b) \in U
        BY <2>1, <3>2 DEF Tiling, NoFreePair
      <4>2. b + Size(m, b) \in K => b + Size(m, b) = lo
        BY <1>1, <1>5, <3>2
      <4>3. QED
        BY <1>5, <3>2, <4>1, <4>2
    <3>3. QED
      BY <3>1, <3>2
  <2>2. QED
    BY <2>1 DEF NoFreePair
<1>10. Tiling(B2, m2, e, U2)
  BY <1>1, <1>3, <1>6, <1>7, <1>8, <1>9 DEF Tiling
<1>11. QED
  BY <1>3, <1>4, <1>5, <1>10 DEF RowRefitted

(* The end of a row is a word, aligned like the first block.               *)
LEMMA EndFacts ==
  ASSUME NEW B, NEW m, NEW e, NEW U, Tiling(B, m, e, U)
  PROVE  e \in Words /\ e >= HeapStart /\ e % Alignment = HeapStart % Alignment
<1>1. CASE e = HeapStart
  BY <1>1, LayoutAssumption DEF Words
<1>2. CASE e # HeapStart
  <2>1. PICK b \in B : b + Size(m, b) = e
    BY <1>2 DEF Tiling, Tiles
  <2>2. b \in Words /\ b >= HeapStart /\ b % Alignment = HeapStart % Alignment
    BY DEF Tiling, TagsFit
  <2>3. Size(m, b) \in Nat /\ Size(m, b) % Alignment = 0 /\ Size(m, b) >= Overhead
    BY SizeFacts DEF Overhead, HeaderSize, FooterSize
  <2>4. b \in Nat /\ e < AddressSpace /\ AddressSpace \in Nat /\ HeapStart \in Nat
    BY <2>2, LayoutAssumption DEF Tiling, Words
  <2>5. e \in Words /\ e % Alignment = b % Alignment
    BY <2>1, <2>2, <2>3, <2>4, WordFacts
  <2>6. QED
    BY <2>1, <2>2, <2>3, <2>4, <2>5
<1>3. QED
  BY <1>1, <1>2

(* A free block b gives its first r bytes away and keeps the rest as a free *)
(* block of its own.                                                       *)
LEMMA SplitRow ==
  ASSUME NEW B, NEW m, NEW e, NEW U, Tiling(B, m, e, U), NEW b \in B \ U,
         NEW r \in Nat, r % Alignment = 0, r >= MinimumBlockSize,
         Size(m, b) - r >= MinimumBlockSize, NEW m2,
         m2 = Tagged(Tagged(m, b, r, AllocatedFlag), b + r, Size(m, b) - r, FreeFlag)
  PROVE  RowSplit(B, m, e, U, b, r, m2)
<1> DEFINE d  == b + r
           q  == Size(m, b) - r
           m1 == Tagged(m, b, r, AllocatedFlag)
           B2 == B \cup {d}
           U2 == U \cup {b}
<1>1. /\ b \in Words /\ b \in Nat /\ Size(m, b) \in Nat /\ Size(m, b) % Alignment = 0
      /\ b >= HeapStart /\ b % Alignment = HeapStart % Alignment
      /\ b + Size(m, b) <= e /\ b + Size(m, b) \in U
      /\ e \in Nat /\ e < AddressSpace /\ AddressSpace \in Nat /\ HeapStart \in Nat
      /\ U \subseteq B /\ m \in [Words -> Nat]
  <2>1. b \in Words /\ b \in Nat /\ Size(m, b) \in Nat /\ Size(m, b) % Alignment = 0
    BY SizeFacts
  <2>2. /\ b >= HeapStart /\ b % Alignment = HeapStart % Alignment
        /\ b + Size(m, b) <= e
    BY DEF Tiling, TagsFit
  <2>3. b + Size(m, b) \in U
    BY DEF Tiling, NoFreePair
  <2>4. QED
    BY <2>1, <2>2, <2>3, LayoutAssumption DEF Tiling
<1>2. /\ q \in Nat /\ q >= 16 /\ r >= 16 /\ q % Alignment = 0 /\ d + q = b + Size(m, b)
      /\ r >= Overhead /\ q >= Overhead /\ b + r <= AddressSpace /\ d + q <= AddressSpace
      /\ d \in Nat /\ d < e
  BY <1>1 DEF MinimumBlockSize, Alignment, Overhead, HeaderSize, FooterSize
<1>3. d \in Words /\ d % Alignment = b % Alignment
  <2>1. b + r < AddressSpace
    BY <1>1, <1>2
  <2>2. QED
    BY <1>1, <1>2, <2>1, WordFacts
<1>4. /\ m1 \in [Words -> Nat]
      /\ m1[b] = Tag(r, AllocatedFlag) /\ m1[b + r - FooterSize] = Tag(r, AllocatedFlag)
      /\ \A a \in Words : a < b \/ a >= b + r => m1[a] = m[a]
  <2>1. /\ AllocatedFlag \in {FreeFlag, AllocatedFlag} /\ b \in Words /\ m \in [Words -> Nat]
        /\ r >= Overhead /\ b + r <= AddressSpace
    BY <1>1, <1>2
  <2>2. QED
    BY <2>1, TaggedFacts
<1> HIDE DEF m1
<1>5. /\ m2 \in [Words -> Nat]
      /\ m2[d] = Tag(q, FreeFlag) /\ m2[d + q - FooterSize] = Tag(q, FreeFlag)
      /\ \A a \in Words : a < d \/ a >= d + q => m2[a] = m1[a]
  <2>1. /\ FreeFlag \in {FreeFlag, AllocatedFlag} /\ d \in Words /\ m1 \in [Words -> Nat]
        /\ q \in Nat /\ q % Alignment = 0 /\ q >= Overhead /\ d + q <= AddressSpace
    BY <1>2, <1>3, <1>4
  <2>2. m2 = Tagged(m1, d, q, FreeFlag)
    BY DEF m1
  <2> HIDE DEF d, q
  <2>3. QED
    BY <2>1, <2>2, TaggedFacts
<1>6. /\ Size(m2, b) = r /\ IsUsed(m2[b]) /\ m2[b + Size(m2, b) - FooterSize] = m2[b]
      /\ Size(m2, d) = q /\ ~IsUsed(m2[d]) /\ m2[d + Size(m2, d) - FooterSize] = m2[d]
  <2>1. m2[b] = Tag(r, AllocatedFlag)
    <3>1. b < d
      BY <1>1, <1>2
    <3>2. QED
      BY <1>1, <1>4, <1>5, <3>1, Zenon
  <2>2. b + r - FooterSize \in Words /\ b + r - FooterSize < d
    BY <1>1, <1>2, WordFacts DEF FooterSize
  <2>3. m2[b + r - FooterSize] = Tag(r, AllocatedFlag)
    BY <1>4, <1>5, <2>2
  <2>4. Size(m2, b) = r /\ IsUsed(m2[b])
    BY <2>1, TagFacts DEF Size
  <2>5. Size(m2, d) = q /\ ~IsUsed(m2[d])
    <3>1. FreeFlag \in {FreeFlag, AllocatedFlag} /\ FreeFlag # AllocatedFlag
      BY DEF FreeFlag, AllocatedFlag
    <3>2. QED
      BY <1>2, <1>5, <3>1, TagFacts DEF Size
  <2>6. QED
    BY <1>5, <2>1, <2>3, <2>4, <2>5
<1> HIDE DEF q, d
<1>7. d = b + r /\ d + q = b + Size(m, b) /\ b < d
  BY <1>1, <1>2 DEF d, q
<1>kept. \A a \in Words : a < b \/ a >= b + Size(m, b) => m2[a] = m[a]
  BY <1>1, <1>2, <1>4, <1>5, <1>7 DEF Words
<1>8. ASSUME NEW c \in B, c # b
      PROVE  /\ Size(m2, c) = Size(m, c) /\ m2[c] = m[c]
             /\ m2[c + Size(m, c) - FooterSize] = m[c]
             /\ c \in Nat /\ Size(m, c) \in Nat
             /\ c < b => c + Size(m, c) <= b
             /\ b < c => d + q <= c
  <2>1. m2[c] = m[c] /\ m2[c + Size(m, c) - FooterSize] = m[c + Size(m, c) - FooterSize]
    BY <1>kept, <1>8, OthersKept
  <2>2. m[c + Size(m, c) - FooterSize] = m[c] /\ c \in Nat /\ Size(m, c) \in Nat
    BY SizeFacts DEF Tiling, TagsFit
  <2>3. /\ c < b => c + Size(m, c) <= b
        /\ b < c => d + q <= c
    BY <1>7 DEF Tiling, Tiles
  <2>4. QED
    BY <2>1, <2>2, <2>3 DEF Size
<1>9. d \notin B
  BY <1>2, <1>7, <1>8
<1>10. TagsFit(B2, m2, e, U2)
  <2>1. ASSUME NEW c \in B2
        PROVE  /\ c \in Words /\ c >= HeapStart
               /\ c % Alignment = HeapStart % Alignment
               /\ Size(m2, c) >= MinimumBlockSize
               /\ c + Size(m2, c) <= e
               /\ m2[c + Size(m2, c) - FooterSize] = m2[c]
               /\ IsUsed(m2[c]) <=> c \in U2
    <3>1. CASE c = b
      <4>1. b + Size(m2, b) <= e /\ Size(m2, b) >= MinimumBlockSize
        BY <1>1, <1>2, <1>6, <1>7
      <4>2. QED
        BY <1>1, <1>6, <3>1, <4>1
    <3>2. CASE c = d
      <4>1. d + Size(m2, d) <= e /\ Size(m2, d) >= MinimumBlockSize /\ d >= HeapStart
        BY <1>1, <1>2, <1>6, <1>7 DEF MinimumBlockSize, Alignment
      <4>2. d \notin U2
        BY <1>1, <1>7, <1>9
      <4>3. QED
        BY <1>1, <1>3, <1>6, <3>2, <4>1, <4>2
    <3>3. CASE c \in B /\ c # b
      <4>1. c \in U2 <=> c \in U
        BY <3>3
      <4>2. QED
        BY <1>8, <3>3, <4>1 DEF Tiling, TagsFit
    <3>4. QED
      BY <3>1, <3>2, <3>3
  <2>2. QED
    BY <2>1 DEF TagsFit
<1>11. Tiles(B2, m2, e)
  <2>1. HeapStart \in B2 \cup {e}
    BY DEF Tiling, Tiles
  <2>2. ASSUME NEW c \in B2 PROVE c + Size(m2, c) \in B2 \cup {e}
    BY <1>1, <1>6, <1>7, <1>8 DEF Tiling, Tiles
  <2>3. ASSUME NEW x \in B2 \cup {e}, x # HeapStart
        PROVE  \E c \in B2 : c + Size(m2, c) = x
    <3>1. CASE x = d
      BY <1>6, <1>7, <3>1
    <3>2. CASE x \in B \cup {e}
      <4>1. PICK c \in B : c + Size(m, c) = x
        BY <2>3, <3>2 DEF Tiling, Tiles
      <4>2. CASE c = b
        BY <1>6, <1>7, <4>1, <4>2
      <4>3. CASE c # b
        BY <1>8, <4>1, <4>3
      <4>4. QED
        BY <4>2, <4>3
    <3>3. QED
      BY <3>1, <3>2
  <2>4. ASSUME NEW x \in B2, NEW c \in B2, x < c PROVE x + Size(m2, x) <= c
    <3>1. CASE x \in B /\ x # b /\ c \in B
      BY <1>8, <2>4, <3>1 DEF Tiling, Tiles
    <3>2. CASE x \in B /\ x # b /\ c = d
      <4>1. x < b
        BY <1>1, <1>2, <1>7, <1>8, <2>4, <3>2
      <4>2. QED
        BY <1>1, <1>2, <1>7, <1>8, <3>2, <4>1
    <3>3. CASE x = b
      BY <1>1, <1>2, <1>6, <1>7, <1>8, <2>4, <3>3
    <3>4. CASE x = d
      BY <1>1, <1>2, <1>6, <1>7, <1>8, <2>4, <3>4
    <3>5. QED
      BY <3>1, <3>2, <3>3, <3>4
  <2>5. QED
    BY <2>1, <2>2, <2>3, <2>4 DEF Tiles
<1>12. NoFreePair(B2, m2, U2)
  <2>1. ASSUME NEW c \in B2 \ U2 PROVE c + Size(m2, c) \in U2
    BY <1>1, <1>6, <1>7, <1>8 DEF Tiling, NoFreePair
  <2>2. QED
    BY <2>1 DEF NoFreePair
<1>13. Tiling(B2, m2, e, U2)
  <2>1. U2 \subseteq B2
    BY <1>1
  <2>2. QED
    BY <1>1, <1>5, <1>10, <1>11, <1>12, <2>1 DEF Tiling
<1>14. QED
  BY <1>kept, <1>6, <1>8, <1>13 DEF d, q, RowSplit

(* A block of r bytes, allocated, is appended to the row.                  *)
LEMMA AppendRow ==
  ASSUME NEW B, NEW m, NEW e, NEW U, Tiling(B, m, e, U),
         NEW r \in Nat, r % Alignment = 0, r >= MinimumBlockSize, e + r < AddressSpace,
         NEW m2, m2 = Tagged(m, e, r, AllocatedFlag)
  PROVE  RowAppended(B, m, e, U, r, m2)
<1> DEFINE B2 == B \cup {e}
           U2 == U \cup {e}
<1>1. /\ e \in Words /\ e >= HeapStart /\ e % Alignment = HeapStart % Alignment
      /\ e \in Nat /\ AddressSpace \in Nat /\ HeapStart \in Nat
      /\ U \subseteq B /\ m \in [Words -> Nat] /\ r >= 16
  BY EndFacts, LayoutAssumption DEF Tiling, MinimumBlockSize, Alignment
<1>2. /\ m2 \in [Words -> Nat]
      /\ m2[e] = Tag(r, AllocatedFlag) /\ m2[e + r - FooterSize] = Tag(r, AllocatedFlag)
      /\ \A a \in Words : a < e \/ a >= e + r => m2[a] = m[a]
  <2>1. r >= Overhead /\ e + r <= AddressSpace /\ AllocatedFlag \in {FreeFlag, AllocatedFlag}
    BY <1>1 DEF Overhead, HeaderSize, FooterSize
  <2>2. QED
    BY <1>1, <2>1, TaggedFacts
<1>3. Size(m2, e) = r /\ IsUsed(m2[e])
  BY <1>2, TagFacts DEF Size
<1>4. ASSUME NEW c \in B
      PROVE  /\ Size(m2, c) = Size(m, c) /\ m2[c] = m[c]
             /\ m2[c + Size(m, c) - FooterSize] = m[c]
             /\ c \in Nat /\ Size(m, c) \in Nat /\ Size(m, c) >= 16
             /\ c < e /\ c + Size(m, c) <= e
  <2>1. /\ c \in Words /\ c \in Nat /\ Size(m, c) \in Nat /\ Size(m, c) >= 16
        /\ c + Size(m, c) - FooterSize \in Words
    BY SizeFacts
  <2>2. c + Size(m, c) <= e /\ m[c + Size(m, c) - FooterSize] = m[c]
    BY DEF Tiling, TagsFit
  <2>3. m2[c] = m[c]
    BY <1>1, <1>2, <2>1, <2>2
  <2>4. c + Size(m, c) - FooterSize < e
    BY <1>1, <2>1, <2>2 DEF FooterSize
  <2>5. m2[c + Size(m, c) - FooterSize] = m[c]
    BY <1>2, <2>1, <2>2, <2>4
  <2>6. QED
    BY <1>1, <2>1, <2>2, <2>3, <2>5 DEF Size
<1>5. TagsFit(B2, m2, e + r, U2)
  <2>1. ASSUME NEW b \in B2
        PROVE  /\ b \in Words /\ b >= HeapStart
               /\ b % Alignment = HeapStart % Alignment
               /\ Size(m2, b) >= MinimumBlockSize
               /\ b + Size(m2, b) <= e + r
               /\ m2[b + Size(m2, b) - FooterSize] = m2[b]
               /\ IsUsed(m2[b]) <=> b \in U2
    <3>1. CASE b = e
      <4>1. e + Size(m2, e) <= e + r /\ Size(m2, e) >= MinimumBlockSize
        BY <1>1, <1>3
      <4>2. m2[e + Size(m2, e) - FooterSize] = m2[e]
        BY <1>2, <1>3
      <4>3. QED
        BY <1>1, <1>3, <3>1, <4>1, <4>2
    <3>2. CASE b \in B
      <4>1. b # e
        BY <1>1, <1>4, <3>2
      <4>2. b \in U2 <=> b \in U
        BY <4>1
      <4>3. b + Size(m, b) <= e + r
        BY <1>1, <1>4, <3>2
      <4>4. QED
        BY <1>4, <3>2, <4>2, <4>3 DEF Tiling, TagsFit
    <3>3. QED
      BY <3>1, <3>2
  <2>2. QED
    BY <2>1 DEF TagsFit
<1>6. Tiles(B2, m2, e + r)
  <2>1. HeapStart \in B2 \cup {e + r}
    BY DEF Tiling, Tiles
  <2>2. ASSUME NEW b \in B2 PROVE b + Size(m2, b) \in B2 \cup {e + r}
    BY <1>3, <1>4 DEF Tiling, Tiles
  <2>3. ASSUME NEW x \in B2 \cup {e + r}, x # HeapStart
        PROVE  \E b \in B2 : b + Size(m2, b) = x
    <3>1. CASE x = e + r
      BY <1>3, <3>1
    <3>2. CASE x \in B \cup {e}
      BY <1>4, <2>3, <3>2 DEF Tiling, Tiles
    <3>3. QED
      BY <3>1, <3>2
  <2>4. ASSUME NEW b \in B2, NEW c \in B2, b < c PROVE b + Size(m2, b) <= c
    <3>1. CASE b \in B /\ c \in B
      BY <1>4, <2>4, <3>1 DEF Tiling, Tiles
    <3>2. CASE b = e \/ c = e
      BY <1>1, <1>4, <2>4, <3>2
    <3>3. QED
      BY <3>1, <3>2
  <2>5. QED
    BY <2>1, <2>2, <2>3, <2>4 DEF Tiles
<1>7. NoFreePair(B2, m2, U2)
  BY <1>4 DEF Tiling, NoFreePair
<1>8. U2 \subseteq B2 /\ e + r \in Nat
  BY <1>1
<1>9. Tiling(B2, m2, e + r, U2)
  BY <1>2, <1>5, <1>6, <1>7, <1>8 DEF Tiling
<1>10. QED
  BY <1>2, <1>3, <1>4, <1>9 DEF RowAppended

(* The row ends where its last block, with nothing free before it, began.  *)
LEMMA ShrinkRow ==
  ASSUME NEW B, NEW m, NEW e, NEW U, Tiling(B, m, e, U), NEW lo \in B,
         \A c \in B : c + Size(m, c) = lo => c \in U
  PROVE  Tiling({c \in B : c < lo}, m, lo, {c \in U : c < lo})
<1> DEFINE B2 == {c \in B : c < lo}
           U2 == {c \in U : c < lo}
<1>1. /\ lo \in Nat /\ e \in Nat /\ lo <= e /\ e < AddressSpace
      /\ HeapStart \in Nat /\ HeapStart <= lo
      /\ AddressSpace \in Nat /\ U \subseteq B /\ m \in [Words -> Nat]
  <2>1. lo + Size(m, lo) <= e /\ lo >= HeapStart
    BY DEF Tiling, TagsFit
  <2>2. QED
    BY <2>1, LayoutAssumption, SizeFacts DEF Tiling
<1>2. ASSUME NEW b \in B2
      PROVE  b \in B /\ b \in Nat /\ Size(m, b) \in Nat /\ b + Size(m, b) <= lo
  BY SizeFacts DEF Tiling, Tiles
<1>3. TagsFit(B2, m, lo, U2)
  BY <1>2 DEF Tiling, TagsFit
<1>4. ASSUME NEW b \in B2 PROVE b + Size(m, b) \in B2 \cup {lo}
  BY <1>1, <1>2 DEF Tiling, Tiles
<1>5. Tiles(B2, m, lo)
  <2>1. HeapStart \in B2 \cup {lo}
    BY <1>1 DEF Tiling, Tiles
  <2>2. ASSUME NEW x \in B2 \cup {lo}, x # HeapStart
        PROVE  \E b \in B2 : b + Size(m, b) = x
    <3>1. PICK b \in B : b + Size(m, b) = x
      BY <2>2 DEF Tiling, Tiles
    <3>2. b \in Nat /\ Size(m, b) \in Nat /\ Size(m, b) >= 16 /\ x <= lo
      BY <1>1, <1>2, SizeFacts
    <3>3. b < lo
      BY <1>1, <3>1, <3>2
    <3>4. QED
      BY <3>1, <3>3
  <2>3. QED
    BY <2>1, <1>4, <2>2 DEF Tiling, Tiles
<1>6. NoFreePair(B2, m, U2)
  <2>1. ASSUME NEW b \in B2 \ U2 PROVE b + Size(m, b) \in U2
    <3>1. b \in B \ U /\ b + Size(m, b) # lo
      BY <2>1
    <3>2. b + Size(m, b) \in U
      BY <3>1 DEF Tiling, NoFreePair
    <3>3. QED
      BY <1>1, <1>2, <1>4, <3>1, <3>2
  <2>2. QED
    BY <2>1 DEF NoFreePair
<1>7. U2 \subseteq B2
  BY U \subseteq B DEF Tiling
<1>8. lo < AddressSpace
  BY <1>1
<1> HIDE DEF B2, U2
<1>9. Tiling(B2, m, lo, U2)
  BY <1>1, <1>3, <1>5, <1>6, <1>7, <1>8 DEF Tiling
<1>10. QED
  BY <1>9 DEF B2, U2

(* Words written between the tags of an allocated block leave the row.     *)
LEMMA StoreRow ==
  ASSUME NEW B, NEW m, NEW e, NEW U, Tiling(B, m, e, U), NEW b \in U,
         NEW m2 \in [Words -> Nat],
         \A a \in Words : a <= b \/ a >= b + Size(m, b) - FooterSize => m2[a] = m[a]
  PROVE  RowStoredTo(B, m, e, U, b, m2)
<1>1. b \in B /\ b \in Nat /\ Size(m, b) \in Nat /\ Size(m, b) >= 16
  BY SizeFacts DEF Tiling
<1>2. ASSUME NEW c \in B
      PROVE  /\ m2[c] = m[c] /\ Size(m2, c) = Size(m, c)
             /\ m2[c + Size(m, c) - FooterSize] = m[c]
  <2>1. /\ c \in Words /\ c \in Nat /\ Size(m, c) \in Nat /\ Size(m, c) >= 16
        /\ c + Size(m, c) - FooterSize \in Words
    BY SizeFacts
  <2>2. m[c + Size(m, c) - FooterSize] = m[c]
    BY DEF Tiling, TagsFit
  <2>3. /\ c < b => c + Size(m, c) <= b
        /\ b < c => b + Size(m, b) <= c
    BY <1>1 DEF Tiling, Tiles
  <2>4. m2[c] = m[c]
    BY <1>1, <2>1, <2>3 DEF FooterSize
  <2>5. m2[c + Size(m, c) - FooterSize] = m[c + Size(m, c) - FooterSize]
    BY <1>1, <2>1, <2>3 DEF FooterSize
  <2>6. QED
    BY <2>2, <2>4, <2>5 DEF Size
<1>3. TagsFit(B, m2, e, U)
  BY <1>2 DEF Tiling, TagsFit
<1>4. Tiles(B, m2, e)
  BY <1>2 DEF Tiling, Tiles
<1>5. NoFreePair(B, m2, U)
  BY <1>2 DEF Tiling, NoFreePair
<1>6. QED
  BY <1>2, <1>3, <1>4, <1>5 DEF Tiling, RowStoredTo

-----------------------------------------------------------------------------
(* The inductive invariant *)

HeapTiled == Tiling(Blocks, mem, heap_end, LiveBlocks)

(* What the locals of a walking $malloc hold. *)
ScanServes ==
  pc = "scan" => /\ request \in Requests /\ Served(request)
                 /\ required = Required(request)

IInv ==
  /\ TypeOK
  /\ HeapTiled
  /\ RequestsFit
  /\ HeapInMemory
  /\ ScanServes
  /\ FirstFit

-----------------------------------------------------------------------------
(* Helpers *)

(* The block that serves a request is an aligned one of legal size, with   *)
(* room for the request and its tags, and smaller than the address space.  *)
LEMMA RequiredFacts ==
  ASSUME NEW n \in Nat, Served(n)
  PROVE  /\ Required(n) \in Nat /\ Required(n) % Alignment = 0
         /\ Required(n) >= MinimumBlockSize /\ n + Overhead <= Required(n)
         /\ Required(n) < AddressSpace
BY LayoutAssumption
   DEF Served, Required, MaximumRequest, AlignDown, Alignment, MinimumBlockSize,
       Overhead, HeaderSize, FooterSize

(* The pages needed for bytes up to x hold them all. *)
LEMMA PagesFacts ==
  ASSUME NEW x \in Nat, x > 0
  PROVE  /\ ((x - 1) \div PageSize) + 1 \in Nat
         /\ x <= (((x - 1) \div PageSize) + 1) * PageSize
         /\ (x + PageSize - 1) \div PageSize \in Nat
         /\ x <= ((x + PageSize - 1) \div PageSize) * PageSize
BY LayoutAssumption

LEMMA PagesMonotone ==
  ASSUME NEW x \in Nat, NEW y \in Nat, x <= y
  PROVE  /\ x * PageSize <= y * PageSize
         /\ x * PageSize \in Nat /\ y * PageSize \in Nat
<1>1. x * PageSize \in Nat /\ y * PageSize \in Nat
  BY LayoutAssumption
<1>2. x * PageSize <= y * PageSize
  BY LayoutAssumption
<1>3. QED
  BY <1>1, <1>2

(* The invariants of the model that talk of blocks are the tiling.         *)
LEMMA TilingMeans ==
  ASSUME HeapTiled
  PROVE  BoundaryTags /\ BlocksTile /\ Coalesced
<1>1. BoundaryTags
  <2>1. ASSUME NEW b \in Blocks
        PROVE  EndOf(b) - FooterSize = b + Size(mem, b) - FooterSize
    BY SizeFacts DEF HeapTiled, EndOf, Size, FooterSize
  <2>2. QED
    BY <2>1 DEF HeapTiled, Tiling, TagsFit, Size, BoundaryTags, EndOf
<1>2. BlocksTile
  BY DEF HeapTiled, Tiling, Tiles, Size, BlocksTile, EndOf
<1>3. Coalesced
  BY DEF HeapTiled, Tiling, NoFreePair, Size, Coalesced, EndOf
<1>4. QED
  BY <1>1, <1>2, <1>3

(* A row that holds in the next state is that state's row of blocks.       *)
LEMMA NextBlocks ==
  ASSUME NEW B, Tiling(B, mem', heap_end', LiveBlocks')
  PROVE  B = Blocks' /\ HeapTiled'
<1>1. B = LiveBlocks' \cup (({HeapStart} \cup {b + Size(mem', b) : b \in LiveBlocks'})
                             \ {heap_end'})
  BY BlocksDetermined
<1>2. B = Blocks'
  BY <1>1 DEF Blocks, EndOf, Size
<1>3. QED
  BY <1>2 DEF HeapTiled

(* A pointer the caller holds is the payload of an allocated block.        *)
LEMMA PointerFacts ==
  ASSUME TypeOK, HeapTiled, NEW p \in DOMAIN live
  PROVE  /\ p \in Words /\ p \in Nat /\ Block(p) \in LiveBlocks /\ Block(p) \in Blocks
         /\ Block(p) \in Words /\ Block(p) \in Nat /\ p = Block(p) + HeaderSize
         /\ live[p] \in Nat
<1>1. p \in Words /\ p \in Nat /\ live[p] \in Nat
  BY DEF TypeOK, Words
<1>2. Block(p) \in LiveBlocks /\ Block(p) \in Blocks
  BY DEF LiveBlocks, Blocks
<1>3. Block(p) \in Words /\ Block(p) \in Nat
  BY <1>2, SizeFacts DEF HeapTiled
<1>4. QED
  BY <1>1, <1>2, <1>3 DEF Block, HeaderSize

(* What returning the block at b does to the caller's pointers.            *)
LEMMA ReturnFacts ==
  ASSUME TypeOK, NEW b \in Words, b + HeaderSize < AddressSpace, ReturnBlock(b)
  PROVE  /\ LiveBlocks' = LiveBlocks \cup {b}
         /\ DOMAIN live' = DOMAIN live \cup {b + HeaderSize}
         /\ DOMAIN live' \subseteq Words
         /\ live' \in [DOMAIN live' -> Nat]
         /\ live'[b + HeaderSize] = request
         /\ \A p \in DOMAIN live : p # b + HeaderSize => live'[p] = live[p]
         /\ pc' = "idle" /\ request' = 0 /\ required' = 0 /\ cursor' = 0
<1>1. /\ DOMAIN live' = DOMAIN live \cup {b + HeaderSize}
      /\ live'[b + HeaderSize] = request
      /\ \A p \in DOMAIN live : p # b + HeaderSize => live'[p] = live[p]
      /\ live' = [p \in DOMAIN live' |-> live'[p]]
      /\ pc' = "idle" /\ request' = 0 /\ required' = 0 /\ cursor' = 0
  BY DEF ReturnBlock, Return
<1>2. b + HeaderSize \in Words /\ b \in Nat
  BY LayoutAssumption DEF Words, HeaderSize
<1>3. DOMAIN live' \subseteq Words
  BY <1>1, <1>2 DEF TypeOK
<1>4. \A p \in DOMAIN live' : live'[p] \in Nat
  BY <1>1 DEF TypeOK
<1>5. Block(b + HeaderSize) = b
  BY <1>2 DEF Block, HeaderSize
<1>6. LiveBlocks' = {Block(p) : p \in DOMAIN live'}
  BY DEF LiveBlocks, Block
<1>7. LiveBlocks' = LiveBlocks \cup {b}
  BY <1>1, <1>5, <1>6 DEF LiveBlocks
<1>8. QED
  BY <1>1, <1>3, <1>4, <1>7

-----------------------------------------------------------------------------
(* Initial states *)

LEMMA InitIInv ==
  ASSUME Init
  PROVE  IInv
<1>1. /\ mem \in [Words -> Nat] /\ heap_end = HeapStart /\ heap_end \in Nat
      /\ DOMAIN live = {} /\ live \in [DOMAIN live -> Nat]
      /\ LiveBlocks = {} /\ Blocks = {}
  <2>1. PICK data \in [{a \in Words : a < HeapStart} -> StaticWords] :
               mem = [a \in Words |-> IF a < HeapStart THEN data[a] ELSE 0]
    BY DEF Init
  <2>2. ASSUME NEW a \in Words PROVE mem[a] \in Nat
    BY <2>1, LayoutAssumption
  <2>3. mem \in [Words -> Nat]
    BY <2>1, <2>2
  <2>4. QED
    BY <2>3, LayoutAssumption DEF Init, LiveBlocks, Blocks
<1>2. pages \in Nat /\ heap_end <= pages * PageSize
  BY LayoutAssumption, PagesFacts DEF Init, InitialPages, HeaderSize
<1>3. TypeOK
  BY <1>1, <1>2 DEF Init, TypeOK
<1>4. HeapTiled
  BY <1>1, EmptyRow DEF HeapTiled
<1>5. RequestsFit
  BY <1>1 DEF RequestsFit
<1>6. HeapInMemory
  BY <1>1, <1>2, LayoutAssumption DEF HeapInMemory
<1>7. ScanServes /\ FirstFit
  BY DEF Init, ScanServes, FirstFit
<1>8. QED
  BY <1>3, <1>4, <1>5, <1>6, <1>7 DEF IInv

-----------------------------------------------------------------------------
(* $malloc *)

(* Steps that leave the heap alone. *)
LEMMA HeapUnchanged ==
  ASSUME IInv, UNCHANGED <<mem, pages, heap_end, live>>
  PROVE  /\ HeapTiled' /\ RequestsFit' /\ HeapInMemory'
         /\ Blocks' = Blocks /\ LiveBlocks' = LiveBlocks
<1>1. LiveBlocks' = LiveBlocks
  BY DEF LiveBlocks, Block
<1>2. Blocks' = Blocks
  BY <1>1 DEF Blocks, EndOf
<1>3. HeapTiled'
  BY <1>1, <1>2 DEF IInv, HeapTiled
<1>4. RequestsFit' /\ HeapInMemory'
  BY DEF IInv, RequestsFit, HeapInMemory, Block
<1>5. QED
  BY <1>1, <1>2, <1>3, <1>4

LEMMA MallocCalledIInv ==
  ASSUME IInv, NEW n \in Requests, MallocCalled(n)
  PROVE  IInv'
<1>1. /\ pc' = "scan" /\ request' = n /\ required' = Required(n) /\ cursor' = HeapStart
      /\ UNCHANGED <<mem, pages, heap_end, live>> /\ Served(n)
  BY DEF MallocCalled
<1>2. n \in Nat /\ HeapStart \in Nat
  BY LayoutAssumption
<1>3. TypeOK'
  BY <1>1, <1>2, RequiredFacts DEF IInv, TypeOK
<1>4. /\ HeapTiled' /\ RequestsFit' /\ HeapInMemory'
      /\ Blocks' = Blocks /\ LiveBlocks' = LiveBlocks
  BY <1>1, HeapUnchanged
<1>5. ScanServes'
  BY <1>1 DEF ScanServes, Served, Required
<1>6. FirstFit'
  <2>1. HeapStart \in Blocks \cup {heap_end} /\ \A b \in Blocks : b >= HeapStart /\ b \in Nat
    BY SizeFacts DEF IInv, HeapTiled, Tiling, TagsFit, Tiles
  <2>2. QED
    BY <1>1, <1>2, <1>4, <2>1 DEF FirstFit
<1>7. QED
  BY <1>3, <1>4, <1>5, <1>6 DEF IInv

LEMMA ScanNextIInv ==
  ASSUME IInv, ScanNext
  PROVE  IInv'
<1>1. /\ pc = "scan" /\ cursor < heap_end /\ ~Fits /\ cursor' = cursor + Size(mem, cursor)
      /\ UNCHANGED <<mem, pages, heap_end, live, pc, request, required>>
  BY DEF ScanNext, Walking, BlockSize, Size
<1>2. cursor \in Blocks /\ cursor \in Nat /\ Size(mem, cursor) \in Nat
  BY <1>1, SizeFacts DEF IInv, FirstFit, HeapTiled, TypeOK
<1>3. TypeOK'
  BY <1>1, <1>2 DEF IInv, TypeOK
<1>4. /\ HeapTiled' /\ RequestsFit' /\ HeapInMemory'
      /\ Blocks' = Blocks /\ LiveBlocks' = LiveBlocks
  BY <1>1, HeapUnchanged
<1>5. ScanServes'
  BY <1>1 DEF IInv, ScanServes, Served, Required
<1>6. FirstFit'
  <2>1. cursor' \in Blocks \cup {heap_end}
    BY <1>1, <1>2 DEF IInv, HeapTiled, Tiling, Tiles
  <2>2. ASSUME NEW b \in Blocks \ LiveBlocks, b < cursor'
        PROVE  Size(mem, b) < required
    <3>1. CASE b < cursor
      BY <1>1, <3>1 DEF IInv, FirstFit, Size
    <3>2. CASE b = cursor
      <4>1. ~IsUsed(mem[cursor])
        BY <3>2 DEF IInv, HeapTiled, Tiling, TagsFit
      <4>2. required \in Nat
        BY DEF IInv, TypeOK
      <4>3. QED
        BY <1>1, <1>2, <3>2, <4>1, <4>2 DEF Fits, BlockSize, Size
    <3>3. CASE cursor < b
      <4>1. cursor + Size(mem, cursor) <= b /\ b \in Nat
        BY <1>2, <3>3, SizeFacts DEF IInv, HeapTiled, Tiling, Tiles
      <4>2. QED
        BY <1>1, <1>2, <2>2, <4>1
    <3>4. b \in Nat
      BY SizeFacts DEF IInv, HeapTiled
    <3>5. QED
      BY <1>2, <3>1, <3>2, <3>3, <3>4
  <2>3. QED
    BY <1>1, <1>4, <2>1, <2>2 DEF FirstFit, Size
<1>7. QED
  BY <1>3, <1>4, <1>5, <1>6 DEF IInv

(* The block $malloc takes is free, and it is the caller's afterwards.     *)
LEMMA TakenFacts ==
  ASSUME IInv, Walking, Fits
  PROVE  /\ cursor \in Blocks \ LiveBlocks /\ cursor \in Words /\ cursor \in Nat
         /\ cursor + HeaderSize < AddressSpace
         /\ cursor + HeaderSize \notin DOMAIN live
         /\ BlockSize = Size(mem, cursor) /\ BlockSize \in Nat
         /\ BlockSize % Alignment = 0 /\ BlockSize >= required
         /\ cursor + BlockSize <= heap_end
         /\ required = Required(request) /\ request \in Nat /\ Served(request)
<1>1. cursor \in Blocks /\ BlockSize = Size(mem, cursor) /\ ~IsUsed(mem[cursor])
  BY DEF IInv, FirstFit, Walking, Fits, BlockSize, Size, TypeOK
<1>2. /\ cursor \in Words /\ cursor \in Nat /\ BlockSize \in Nat
      /\ BlockSize % Alignment = 0 /\ BlockSize >= 16
  BY <1>1, SizeFacts DEF IInv, HeapTiled
<1>3. cursor \notin LiveBlocks /\ cursor + BlockSize <= heap_end
  BY <1>1 DEF IInv, HeapTiled, Tiling, TagsFit
<1>4. cursor + HeaderSize \notin DOMAIN live
  BY <1>2, <1>3 DEF LiveBlocks, Block, HeaderSize
<1>5. cursor + HeaderSize < AddressSpace
  BY <1>2, <1>3, LayoutAssumption DEF IInv, HeapInMemory, TypeOK, HeaderSize
<1>6. QED
  BY <1>1, <1>2, <1>3, <1>4, <1>5
     DEF IInv, ScanServes, Walking, Fits, TypeOK

(* The caller's blocks keep their sizes, and the new one has room.         *)
LEMMA GrantFits ==
  ASSUME IInv, NEW b \in Words, b + HeaderSize < AddressSpace, ReturnBlock(b),
         b + HeaderSize \notin DOMAIN live,
         \A c \in LiveBlocks : Size(mem', c) = Size(mem, c),
         request + Overhead <= Size(mem', b)
  PROVE  RequestsFit'
<1>1. ASSUME NEW p \in DOMAIN live'
      PROVE  live'[p] + Overhead <= SizeOf(mem'[Block(p)])
  <2>1. CASE p = b + HeaderSize
    <3>1. Block(p) = b
      BY <2>1 DEF Block, HeaderSize, Words
    <3>2. QED
      BY <2>1, <3>1, ReturnFacts DEF IInv, Size
  <2>2. CASE p \in DOMAIN live
    <3>1. Block(p) \in LiveBlocks /\ live'[p] = live[p]
      BY <2>2, ReturnFacts DEF LiveBlocks, IInv
    <3>2. QED
      BY <2>2, <3>1 DEF IInv, RequestsFit, Size
  <2>3. DOMAIN live' = DOMAIN live \cup {b + HeaderSize}
    BY ReturnFacts DEF IInv
  <2>4. QED
    BY <2>1, <2>2, <2>3
<1>2. QED
  BY <1>1 DEF RequestsFit, Block

LEMMA TakeSplitIInv ==
  ASSUME IInv, TakeSplit
  PROVE  /\ IInv'
         /\ \A a \in Words : a < cursor \/ a >= cursor + BlockSize => mem'[a] = mem[a]
<1>1. /\ cursor \in Blocks \ LiveBlocks /\ cursor \in Words /\ cursor \in Nat
      /\ cursor + HeaderSize < AddressSpace /\ cursor + HeaderSize \notin DOMAIN live
      /\ BlockSize = Size(mem, cursor) /\ BlockSize \in Nat
      /\ required = Required(request) /\ request \in Nat /\ Served(request)
      /\ ReturnBlock(cursor) /\ UNCHANGED <<pages, heap_end>>
  BY TakenFacts DEF TakeSplit
<1>2. /\ required \in Nat /\ required % Alignment = 0 /\ required >= MinimumBlockSize
      /\ request + Overhead <= required /\ BlockSize - required >= MinimumBlockSize
  BY <1>1, RequiredFacts DEF TakeSplit, Splits, Remainder
<1>3. /\ LiveBlocks' = LiveBlocks \cup {cursor} /\ DOMAIN live' \subseteq Words
      /\ live' \in [DOMAIN live' -> Nat] /\ pc' = "idle"
      /\ request' = 0 /\ required' = 0 /\ cursor' = 0
  BY <1>1, ReturnFacts DEF IInv
<1>4. mem' = Tagged(Tagged(mem, cursor, required, AllocatedFlag), cursor + required,
                    Size(mem, cursor) - required, FreeFlag)
  BY DEF TakeSplit, Remainder, BlockSize, Size
<1>5. /\ Tiling(Blocks \cup {cursor + required}, mem', heap_end, LiveBlocks \cup {cursor})
      /\ Size(mem', cursor) = required
      /\ \A c \in Blocks \ {cursor} : Size(mem', c) = Size(mem, c)
      /\ \A a \in Words : a < cursor \/ a >= cursor + BlockSize => mem'[a] = mem[a]
  <2>1. Tiling(Blocks, mem, heap_end, LiveBlocks)
    BY DEF IInv, HeapTiled
  <2>2. /\ cursor \in Blocks \ LiveBlocks
        /\ required \in Nat /\ required % Alignment = 0 /\ required >= MinimumBlockSize
        /\ Size(mem, cursor) - required >= MinimumBlockSize
    BY <1>1, <1>2
  <2>3. RowSplit(Blocks, mem, heap_end, LiveBlocks, cursor, required, mem')
    BY <1>4, <2>1, <2>2, SplitRow, Zenon
  <2>4. QED
    BY <1>1, <2>3 DEF RowSplit
<1>6. HeapTiled'
  BY <1>1, <1>3, <1>5, NextBlocks
<1>7. TypeOK'
  BY <1>1, <1>3, <1>5 DEF IInv, TypeOK, Tiling
<1>8. RequestsFit'
  BY <1>1, <1>2, <1>5, GrantFits DEF IInv, Blocks
<1>9. HeapInMemory' /\ ScanServes' /\ FirstFit'
  BY <1>1, <1>3 DEF IInv, HeapInMemory, ScanServes, FirstFit
<1>10. QED
  BY <1>5, <1>6, <1>7, <1>8, <1>9 DEF IInv

LEMMA TakeWholeIInv ==
  ASSUME IInv, TakeWhole
  PROVE  /\ IInv'
         /\ \A a \in Words : a < cursor \/ a >= cursor + BlockSize => mem'[a] = mem[a]
<1>1. /\ cursor \in Blocks \ LiveBlocks /\ cursor \in Words /\ cursor \in Nat
      /\ cursor + HeaderSize < AddressSpace /\ cursor + HeaderSize \notin DOMAIN live
      /\ BlockSize = Size(mem, cursor) /\ BlockSize \in Nat /\ BlockSize >= required
      /\ BlockSize % Alignment = 0
      /\ required = Required(request) /\ request \in Nat /\ Served(request)
      /\ ReturnBlock(cursor) /\ UNCHANGED <<pages, heap_end>>
      /\ mem' = Tagged(mem, cursor, BlockSize, AllocatedFlag)
  BY TakenFacts DEF TakeWhole
<1>2. required \in Nat /\ request + Overhead <= BlockSize
  BY <1>1, RequiredFacts DEF Overhead, HeaderSize, FooterSize
<1>3. /\ LiveBlocks' = LiveBlocks \cup {cursor} /\ DOMAIN live' \subseteq Words
      /\ live' \in [DOMAIN live' -> Nat] /\ pc' = "idle"
      /\ request' = 0 /\ required' = 0 /\ cursor' = 0
  BY <1>1, ReturnFacts DEF IInv
<1> DEFINE hi == cursor + BlockSize
           K  == {c \in Blocks : cursor <= c /\ c < hi}
<1>4. /\ hi \in Blocks \cup {heap_end} /\ cursor < hi /\ hi - cursor = BlockSize
      /\ BlockSize >= MinimumBlockSize
  BY <1>1 DEF IInv, HeapTiled, Tiling, Tiles, TagsFit, MinimumBlockSize, Alignment
<1>5. K = {cursor}
  <2>1. ASSUME NEW c \in K PROVE c = cursor
    <3>1. c \in Nat /\ (cursor < c => hi <= c)
      BY <1>1, SizeFacts DEF IInv, HeapTiled, Tiling, Tiles
    <3>2. QED
      BY <1>1, <3>1
  <2>2. cursor \in K
    BY <1>1, <1>4
  <2>3. QED
    BY <2>1, <2>2
<1>6. /\ Tiling((Blocks \ K) \cup {cursor}, mem', heap_end,
                (LiveBlocks \ K) \cup {cursor})
      /\ Size(mem', cursor) = BlockSize
      /\ \A c \in Blocks \ K : Size(mem', c) = Size(mem, c)
      /\ \A a \in Words : a < cursor \/ a >= hi => mem'[a] = mem[a]
  <2>1. Tiling(Blocks, mem, heap_end, LiveBlocks)
    BY DEF IInv, HeapTiled
  <2>2. /\ (hi - cursor) % Alignment = 0 /\ hi - cursor >= MinimumBlockSize
        /\ mem' = Tagged(mem, cursor, hi - cursor, AllocatedFlag)
        /\ AllocatedFlag \in {FreeFlag, AllocatedFlag}
    BY <1>1, <1>4
  <2>3. /\ cursor \in Blocks /\ hi \in Blocks \cup {heap_end} /\ cursor < hi
        /\ hi - cursor = BlockSize
    BY <1>1, <1>4
  <2>4. K = {c \in Blocks : cursor <= c /\ c < hi}
    OBVIOUS
  <2> HIDE DEF hi, K
  <2>5. RowRefitted(Blocks, mem, heap_end, LiveBlocks, cursor, hi, AllocatedFlag, K, mem')
    BY <2>1, <2>2, <2>3, <2>4, RefitRow, Zenon
  <2>6. QED
    BY <2>3, <2>5 DEF RowRefitted
<1>7. HeapTiled'
  <2>1. (LiveBlocks \ K) \cup {cursor} = LiveBlocks'
    BY <1>1, <1>3, <1>5
  <2>2. QED
    BY <1>1, <1>6, <2>1, NextBlocks
<1>8. TypeOK'
  BY <1>1, <1>3, <1>6 DEF IInv, TypeOK, Tiling
<1>9. RequestsFit'
  BY <1>1, <1>2, <1>5, <1>6, GrantFits DEF IInv, Blocks
<1>10. HeapInMemory' /\ ScanServes' /\ FirstFit'
  BY <1>1, <1>3 DEF IInv, HeapInMemory, ScanServes, FirstFit
<1>11. QED
  BY <1>6, <1>7, <1>8, <1>9, <1>10 DEF IInv

LEMMA ExtendIInv ==
  ASSUME IInv, Extend
  PROVE  /\ IInv'
         /\ heap_end \in Words /\ heap_end + HeaderSize < AddressSpace
         /\ heap_end + HeaderSize \notin DOMAIN live
         /\ pages' >= pages
         /\ \A a \in Words : a < heap_end => mem'[a] = mem[a]
<1>1. /\ pc = "scan" /\ ~Wraps
      /\ pages' = IF RequiredPages > pages THEN RequiredPages ELSE pages
      /\ mem' = Tagged(mem, heap_end, required, AllocatedFlag)
      /\ heap_end' = NewEnd /\ ReturnBlock(heap_end)
  BY DEF Extend, Exhausted
<1>2. /\ request \in Nat /\ Served(request) /\ required = Required(request)
      /\ heap_end \in Nat /\ pages \in Nat /\ heap_end < AddressSpace
  BY <1>1 DEF IInv, ScanServes, TypeOK, HeapInMemory
<1>3. /\ required \in Nat /\ required % Alignment = 0 /\ required >= MinimumBlockSize
      /\ request + Overhead <= required /\ required < AddressSpace
  BY <1>2, RequiredFacts
<1>4. heap_end' = heap_end + required /\ heap_end + required < AddressSpace
  BY <1>1, <1>2, <1>3, LayoutAssumption DEF NewEnd, Wraps
<1>5. /\ heap_end \in Words /\ heap_end + HeaderSize < AddressSpace
      /\ heap_end + HeaderSize \notin DOMAIN live
  <2>1. heap_end \in Words
    BY EndFacts DEF IInv, HeapTiled
  <2>2. heap_end + HeaderSize < AddressSpace
    BY <1>2, <1>3, <1>4, LayoutAssumption DEF MinimumBlockSize, Alignment, HeaderSize
  <2>3. heap_end \notin Blocks
    BY <1>2, SizeFacts DEF IInv, HeapTiled, Tiling, TagsFit
  <2>4. heap_end + HeaderSize \notin DOMAIN live
    BY <1>2, <2>3 DEF Blocks, LiveBlocks, Block, HeaderSize
  <2>5. QED
    BY <2>1, <2>2, <2>4
<1>6. /\ LiveBlocks' = LiveBlocks \cup {heap_end} /\ DOMAIN live' \subseteq Words
      /\ live' \in [DOMAIN live' -> Nat] /\ pc' = "idle"
      /\ request' = 0 /\ required' = 0 /\ cursor' = 0
  BY <1>1, <1>5, ReturnFacts DEF IInv
<1>7. RowAppended(Blocks, mem, heap_end, LiveBlocks, required, mem')
  <2>1. Tiling(Blocks, mem, heap_end, LiveBlocks)
    BY DEF IInv, HeapTiled
  <2>2. QED
    BY <1>1, <1>3, <1>4, <2>1, AppendRow, Zenon
<1>8. HeapTiled'
  BY <1>4, <1>6, <1>7, NextBlocks DEF RowAppended
<1>9. pages' \in Nat /\ pages' >= pages /\ heap_end' <= pages' * PageSize
  <2>1. heap_end' \in Nat /\ heap_end' > 0 /\ RequiredPages = ((heap_end' - 1) \div PageSize) + 1
    BY <1>1, <1>2, <1>3, <1>4
       DEF RequiredPages, MinimumBlockSize, Alignment
  <2>2. RequiredPages \in Nat /\ heap_end' <= RequiredPages * PageSize
    BY <2>1, PagesFacts
  <2>3. RequiredPages <= pages' /\ pages' \in Nat /\ pages' >= pages
    BY <1>1, <1>2, <2>2
  <2>4. /\ RequiredPages * PageSize <= pages' * PageSize
        /\ RequiredPages * PageSize \in Nat /\ pages' * PageSize \in Nat
    BY <2>2, <2>3, PagesMonotone
  <2>5. QED
    BY <2>1, <2>2, <2>3, <2>4
<1>10. TypeOK'
  BY <1>2, <1>3, <1>4, <1>6, <1>7, <1>9 DEF TypeOK, RowAppended, Tiling
<1>11. RequestsFit'
  <2>1. /\ Size(mem', heap_end) = required
        /\ \A c \in LiveBlocks : Size(mem', c) = Size(mem, c)
    BY <1>7 DEF RowAppended, Blocks
  <2>2. QED
    BY <1>1, <1>3, <1>5, <2>1, GrantFits
<1>12. HeapInMemory'
  BY <1>2, <1>3, <1>4, <1>9, LayoutAssumption DEF IInv, HeapInMemory
<1>13. ScanServes' /\ FirstFit'
  BY <1>6 DEF ScanServes, FirstFit
<1>14. \A a \in Words : a < heap_end => mem'[a] = mem[a]
  BY <1>7 DEF RowAppended
<1>15. QED
  BY <1>5, <1>8, <1>9, <1>10, <1>11, <1>12, <1>13, <1>14 DEF IInv

LEMMA ExtendFailsIInv ==
  ASSUME IInv, ExtendFails
  PROVE  IInv'
<1>1. /\ pc' = "idle" /\ request' = 0 /\ required' = 0 /\ cursor' = 0
      /\ UNCHANGED <<mem, pages, heap_end, live>>
  BY DEF ExtendFails, Return
<1>2. TypeOK' /\ ScanServes' /\ FirstFit'
  BY <1>1 DEF IInv, TypeOK, ScanServes, FirstFit
<1>3. QED
  BY <1>1, <1>2, HeapUnchanged DEF IInv

-----------------------------------------------------------------------------
(* The caller's store *)

(* The words a pointer names lie between the tags of its block.            *)
LEMMA PayloadFacts ==
  ASSUME IInv, NEW p \in DOMAIN live, NEW a \in PayloadWords(p)
  PROVE  /\ a \in Words /\ a > Block(p)
         /\ a < Block(p) + Size(mem, Block(p)) - FooterSize
<1>1. /\ p = Block(p) + HeaderSize /\ p \in Nat /\ Block(p) \in Nat /\ live[p] \in Nat
      /\ Block(p) \in Blocks
  BY PointerFacts DEF IInv
<1>2. live[p] + Overhead <= Size(mem, Block(p)) /\ Size(mem, Block(p)) \in Nat
  BY <1>1, SizeFacts DEF IInv, RequestsFit, HeapTiled, Size
<1>3. a \in Words /\ a \in Nat /\ p <= a /\ a < p + live[p]
  BY DEF PayloadWords, Words
<1>4. QED
  BY <1>1, <1>2, <1>3 DEF Overhead, HeaderSize, FooterSize

LEMMA StoreIInv ==
  ASSUME IInv, NEW p \in DOMAIN live, NEW w \in UserWords, Store(p, w)
  PROVE  IInv'
<1>1. /\ mem' = [a \in Words |-> IF a \in PayloadWords(p) THEN w ELSE mem[a]]
      /\ UNCHANGED <<pages, heap_end, live, pc, request, required, cursor>>
      /\ pc = "idle"
  BY DEF Store, frame
<1>2. mem' \in [Words -> Nat]
  BY <1>1, LayoutAssumption DEF IInv, TypeOK
<1>3. RowStoredTo(Blocks, mem, heap_end, LiveBlocks, Block(p), mem')
  <2>1. /\ Tiling(Blocks, mem, heap_end, LiveBlocks) /\ Block(p) \in LiveBlocks
        /\ Block(p) \in Nat /\ Size(mem, Block(p)) \in Nat
    BY PointerFacts, SizeFacts DEF IInv, HeapTiled
  <2>2. ASSUME NEW a \in Words,
               a <= Block(p) \/ a >= Block(p) + Size(mem, Block(p)) - FooterSize
        PROVE  mem'[a] = mem[a]
    <3>1. a \notin PayloadWords(p)
      BY <2>1, <2>2, PayloadFacts DEF Words, FooterSize
    <3>2. QED
      BY <1>1, <3>1
  <2>3. QED
    BY <1>2, <2>1, <2>2, StoreRow, Zenon
<1>4. LiveBlocks' = LiveBlocks
  BY <1>1 DEF LiveBlocks, Block
<1>5. HeapTiled'
  BY <1>1, <1>3, <1>4, NextBlocks DEF RowStoredTo
<1>6. RequestsFit'
  <2>1. \A q \in DOMAIN live : Size(mem', Block(q)) = Size(mem, Block(q))
    BY <1>3, PointerFacts DEF RowStoredTo, IInv
  <2>2. QED
    BY <1>1, <2>1 DEF IInv, RequestsFit, Size, Block
<1>7. TypeOK' /\ HeapInMemory' /\ ScanServes' /\ FirstFit'
  BY <1>1, <1>2 DEF IInv, TypeOK, HeapInMemory, ScanServes, FirstFit
<1>8. QED
  BY <1>5, <1>6, <1>7 DEF IInv

-----------------------------------------------------------------------------
(* $mfree *)

(* The range of whole blocks that freeing p makes one free block, from     *)
(* FreedStart: only the block of p in it is the caller's, and its          *)
(* neighbours are allocated or the ends of the heap.                       *)
LEMMA FreedFacts ==
  ASSUME IInv, NEW p \in DOMAIN live
  PROVE  LET lo == FreedStart(p)
             hi == FreedStart(p) + FreedSize(p)
         IN  /\ lo \in Blocks /\ hi \in LiveBlocks \cup {heap_end}
             /\ lo \in Nat /\ hi \in Nat /\ lo <= Block(p) /\ Block(p) < hi
             /\ (hi - lo) % Alignment = 0 /\ hi - lo >= MinimumBlockSize
             /\ hi - lo = FreedSize(p) /\ FreedSize(p) \in Nat
             /\ \A c \in Blocks : c + Size(mem, c) = lo => c \in LiveBlocks
             /\ \A c \in LiveBlocks : lo <= c /\ c < hi => c = Block(p)
             /\ IsUsed(mem[Block(p)])
<1> DEFINE b  == Block(p)
           n  == b + Size(mem, b)
           lo == FreedStart(p)
           hi == FreedStart(p) + FreedSize(p)
<1>1. /\ b \in Blocks /\ b \in LiveBlocks /\ b \in Nat /\ b \in Words
      /\ Size(mem, b) \in Nat /\ Size(mem, b) % Alignment = 0 /\ Size(mem, b) >= 16
      /\ HeapStart \in Nat /\ heap_end \in Nat /\ b >= HeapStart
      /\ n \in Blocks \cup {heap_end} /\ IsUsed(mem[b]) /\ n <= heap_end
      /\ OwnSize(p) = Size(mem, b)
  <2>1. b \in Blocks /\ b \in LiveBlocks
    BY PointerFacts DEF IInv
  <2>2. /\ b \in Words /\ b \in Nat /\ Size(mem, b) \in Nat
        /\ Size(mem, b) % Alignment = 0 /\ Size(mem, b) >= 16
    BY <2>1, SizeFacts DEF IInv, HeapTiled
  <2>3. /\ n \in Blocks \cup {heap_end} /\ IsUsed(mem[b])
        /\ b >= HeapStart /\ n <= heap_end
    BY <2>1 DEF IInv, HeapTiled, Tiling, TagsFit, Tiles
  <2>4. QED
    BY <2>1, <2>2, <2>3, LayoutAssumption DEF IInv, TypeOK, OwnSize, Size
<1>2. ASSUME NEW c \in Blocks
      PROVE  /\ c \in Nat /\ Size(mem, c) \in Nat /\ Size(mem, c) >= 16
             /\ Size(mem, c) % Alignment = 0 /\ c >= HeapStart
             /\ c + Size(mem, c) <= heap_end
             /\ IsUsed(mem[c]) <=> c \in LiveBlocks
             /\ c \notin LiveBlocks => c + Size(mem, c) \in LiveBlocks
             /\ \A d \in Blocks : c < d => c + Size(mem, c) <= d
  <2>1. /\ c \in Nat /\ Size(mem, c) \in Nat /\ Size(mem, c) >= 16
        /\ Size(mem, c) % Alignment = 0
    BY SizeFacts DEF IInv, HeapTiled
  <2>2. /\ c >= HeapStart /\ c + Size(mem, c) <= heap_end
        /\ IsUsed(mem[c]) <=> c \in LiveBlocks
    BY DEF IInv, HeapTiled, Tiling, TagsFit
  <2>3. c \notin LiveBlocks => c + Size(mem, c) \in LiveBlocks
    BY DEF IInv, HeapTiled, Tiling, NoFreePair
  <2>4. \A d \in Blocks : c < d => c + Size(mem, c) <= d
    BY DEF IInv, HeapTiled, Tiling, Tiles
  <2>5. QED
    BY <2>1, <2>2, <2>3, <2>4
<1> DEFINE sn == NextSize(p)
           sp == PreviousSize(p)
<1>3. LiveBlocks \subseteq Blocks
  BY DEF Blocks
(* To the right: a free next block is followed by an allocated one. *)
<1>4. /\ sn \in Nat /\ sn % Alignment = 0
      /\ n + sn \in LiveBlocks \cup {heap_end}
      /\ \A c \in LiveBlocks : n <= c => n + sn <= c
  <2>1. CASE MergesNext(p)
    <3>1. n \in Blocks /\ n \notin LiveBlocks /\ sn = Size(mem, n)
      BY <1>1, <1>2, <2>1 DEF MergesNext, NextSize, Size
    <3>2. n + sn \in LiveBlocks /\ sn \in Nat /\ sn % Alignment = 0
      BY <1>2, <3>1
    <3>3. ASSUME NEW c \in LiveBlocks, n <= c PROVE n + sn <= c
      <4>1. c # n /\ c \in Blocks
        BY <1>3, <3>1
      <4>2. n < c
        BY <1>2, <3>1, <3>3, <4>1
      <4>3. QED
        BY <1>2, <3>1, <4>1, <4>2
    <3>4. QED
      BY <3>2, <3>3
  <2>2. CASE ~MergesNext(p)
    <3>1. sn = 0
      BY <2>2 DEF NextSize
    <3>2. n \in LiveBlocks \cup {heap_end}
      <4>1. CASE n = heap_end
        BY <4>1
      <4>2. CASE n # heap_end
        <5>1. n \in Blocks /\ n < heap_end
          BY <1>1, <4>2
        <5>2. IsUsed(mem[n])
          BY <1>1, <2>2, <5>1 DEF MergesNext
        <5>3. QED
          BY <1>2, <5>1, <5>2
      <4>3. QED
        BY <4>1, <4>2
    <3>3. n \in Nat /\ n + sn = n
      BY <1>1, <3>1
    <3>4. QED
      BY <3>1, <3>2, <3>3 DEF Alignment
  <2>3. QED
    BY <2>1, <2>2
(* To the left: a free previous block follows an allocated one. *)
<1>5. /\ sp \in Nat /\ sp % Alignment = 0 /\ b - sp \in Blocks /\ b - sp \in Nat
      /\ \A c \in Blocks : c + Size(mem, c) = b - sp => c \in LiveBlocks
      /\ \A c \in LiveBlocks : b - sp <= c => b <= c
  <2>1. CASE b = HeapStart
    <3>1. sp = 0 /\ b - sp = b
      BY <1>1, <2>1 DEF PreviousSize, MergesPrevious
    <3>2. ASSUME NEW c \in Blocks PROVE c + Size(mem, c) # b
      BY <1>1, <1>2, <2>1
    <3>3. QED
      BY <1>1, <3>1, <3>2 DEF Alignment
  <2>2. CASE b # HeapStart
    <3>1. PICK c \in Blocks : c + Size(mem, c) = b
      BY <1>1, <2>2 DEF IInv, HeapTiled, Tiling, Tiles
    <3>2. mem[b - FooterSize] = mem[c] /\ b > HeapStart
      <4>1. mem[c + Size(mem, c) - FooterSize] = mem[c]
        BY DEF IInv, HeapTiled, Tiling, TagsFit
      <4>2. c + Size(mem, c) - FooterSize = b - FooterSize /\ b > HeapStart
        BY <1>1, <1>2, <2>2, <3>1 DEF FooterSize
      <4>3. QED
        BY <4>1, <4>2
    <3>3. MergesPrevious(p) <=> c \notin LiveBlocks
      BY <1>2, <3>2 DEF MergesPrevious
    <3>4. ASSUME NEW d \in Blocks, d + Size(mem, d) = b PROVE d = c
      BY <1>2, <3>1, <3>4
    <3>5. CASE c \in LiveBlocks
      <4>1. sp = 0 /\ b - sp = b
        BY <1>1, <3>3, <3>5 DEF PreviousSize
      <4>2. QED
        BY <1>1, <3>4, <3>5, <4>1 DEF Alignment
    <3>6. CASE c \notin LiveBlocks
      <4>1. sp = Size(mem, c)
        BY <3>2, <3>3, <3>6 DEF PreviousSize, Size
      <4>2. sp \in Nat /\ sp % Alignment = 0 /\ b - sp = c /\ c \in Nat
        BY <1>1, <1>2, <3>1, <4>1
      <4>3. ASSUME NEW d \in Blocks, d + Size(mem, d) = c PROVE d \in LiveBlocks
        BY <1>2, <3>6, <4>3
      <4>4. ASSUME NEW d \in LiveBlocks, c <= d PROVE b <= d
        <5>1. d # c /\ d \in Blocks
          BY <1>3, <3>6
        <5>2. c < d
          BY <1>2, <4>2, <4>4, <5>1
        <5>3. QED
          BY <1>2, <3>1, <5>1, <5>2
      <4>5. QED
        BY <4>2, <4>3, <4>4
    <3>7. QED
      BY <3>5, <3>6
  <2>3. QED
    BY <2>1, <2>2
<1>6. lo = b - sp /\ FreedSize(p) = Size(mem, b) + sn + sp
  BY <1>1 DEF FreedStart, FreedSize
<1> HIDE DEF sn, sp, b, lo
<1>7. hi = n + sn /\ hi - lo = FreedSize(p) /\ hi \in Nat /\ FreedSize(p) \in Nat
  BY <1>1, <1>4, <1>5, <1>6 DEF lo
<1>8. (hi - lo) % Alignment = 0 /\ hi - lo >= MinimumBlockSize
  BY <1>1, <1>4, <1>5, <1>6, <1>7 DEF Alignment, MinimumBlockSize
<1>9. lo <= b /\ b < hi
  BY <1>1, <1>4, <1>5, <1>6, <1>7
<1>10. ASSUME NEW c \in LiveBlocks, lo <= c, c < hi PROVE c = b
  <2>1. b <= c /\ ~(n <= c) /\ c \in Nat /\ c \in Blocks
    BY <1>2, <1>3, <1>4, <1>5, <1>6, <1>7, <1>10
  <2>2. b < c => n <= c
    BY <1>1, <1>2, <2>1
  <2>3. QED
    BY <1>1, <2>1, <2>2
<1>11. QED
  BY <1>1, <1>4, <1>5, <1>6, <1>7, <1>8, <1>9, <1>10 DEF b, lo

LEMMA MFreeIInv ==
  ASSUME IInv, NEW p \in DOMAIN live, MFree(p)
  PROVE  /\ IInv' /\ heap_end' <= heap_end
         /\ \A a \in Words : a < FreedStart(p) \/ a >= FreedStart(p) + FreedSize(p)
                             => mem'[a] = mem[a]
<1> DEFINE lo == FreedStart(p)
           hi == FreedStart(p) + FreedSize(p)
           K  == {c \in Blocks : lo <= c /\ c < hi}
<1>1. /\ lo \in Blocks /\ hi \in LiveBlocks \cup {heap_end}
      /\ lo \in Nat /\ hi \in Nat /\ lo <= Block(p) /\ Block(p) < hi
      /\ (hi - lo) % Alignment = 0 /\ hi - lo >= MinimumBlockSize
      /\ hi - lo = FreedSize(p) /\ FreedSize(p) \in Nat
      /\ \A c \in Blocks : c + Size(mem, c) = lo => c \in LiveBlocks
      /\ \A c \in LiveBlocks : lo <= c /\ c < hi => c = Block(p)
      /\ IsUsed(mem[Block(p)])
  BY FreedFacts
<1>2. /\ pc = "idle" /\ Release(p) /\ live' = [q \in DOMAIN live \ {p} |-> live[q]]
      /\ UNCHANGED <<pages, pc, request, required, cursor>>
  BY <1>1 DEF MFree, frame
<1>3. /\ DOMAIN live' = DOMAIN live \ {p} /\ live' \in [DOMAIN live' -> Nat]
      /\ \A q \in DOMAIN live' : live'[q] = live[q]
  BY <1>2 DEF IInv, TypeOK
<1>4. LiveBlocks' = LiveBlocks \ {Block(p)}
  <2>1. LiveBlocks' = {Block(q) : q \in DOMAIN live'}
    BY DEF LiveBlocks, Block
  <2>2. ASSUME NEW q \in DOMAIN live, Block(q) = Block(p) PROVE q = p
    BY <2>2, PointerFacts DEF IInv, HeaderSize
  <2>3. QED
    BY <1>3, <2>1, <2>2 DEF LiveBlocks
<1>5. /\ Tiling(Blocks, mem, heap_end, LiveBlocks) /\ LiveBlocks \subseteq Blocks
      /\ Block(p) \in LiveBlocks
  BY PointerFacts DEF IInv, HeapTiled, Tiling
<1>6. /\ HeapTiled' /\ heap_end' \in Nat /\ HeapStart <= heap_end' /\ heap_end' <= heap_end
      /\ mem' \in [Words -> Nat]
      /\ \A c \in LiveBlocks' : Size(mem', c) = Size(mem, c)
      /\ \A a \in Words : a < lo \/ a >= hi => mem'[a] = mem[a]
  <2>1. CASE hi = heap_end
    <3>1. heap_end' = lo /\ mem' = mem
      BY <1>2, <2>1 DEF Release
    <3>2. Tiling({c \in Blocks : c < lo}, mem, lo, {c \in LiveBlocks : c < lo})
      BY <1>1, <1>5, ShrinkRow
    <3>3. {c \in LiveBlocks : c < lo} = LiveBlocks'
      <4>1. ASSUME NEW c \in LiveBlocks PROVE c < lo <=> c # Block(p)
        <5>1. c \in Nat /\ c + Size(mem, c) <= heap_end /\ Size(mem, c) \in Nat /\ Size(mem, c) >= 16
          BY <1>5, SizeFacts DEF Tiling, TagsFit
        <5>2. c < hi
          BY <1>1, <2>1, <5>1
        <5>3. QED
          BY <1>1, <5>1, <5>2
      <4>2. QED
        BY <1>4, <1>5, <4>1
    <3>4. HeapTiled'
      BY <3>1, <3>2, <3>3, NextBlocks
    <3>5. HeapStart <= lo /\ lo <= heap_end /\ mem \in [Words -> Nat]
      BY <1>1, <1>5, <2>1 DEF Tiling, TagsFit
    <3>6. QED
      BY <1>1, <3>1, <3>4, <3>5
  <2>2. CASE hi # heap_end
    <3>1. mem' = Tagged(mem, lo, FreedSize(p), FreeFlag) /\ heap_end' = heap_end
      BY <1>2, <2>2 DEF Release
    <3>2. /\ mem' = Tagged(mem, lo, hi - lo, FreeFlag)
          /\ hi \in Blocks \cup {heap_end} /\ hi \in LiveBlocks /\ lo < hi
          /\ FreeFlag \in {FreeFlag, AllocatedFlag}
      BY <1>1, <1>5, <2>2, <3>1 DEF MinimumBlockSize, Alignment
    <3>3. K = {c \in Blocks : lo <= c /\ c < hi}
      OBVIOUS
    <3>4. LiveBlocks \ K = LiveBlocks'
      BY <1>1, <1>4, <1>5
    <3> HIDE DEF lo, hi, K
    <3>5. RowRefitted(Blocks, mem, heap_end, LiveBlocks, lo, hi, FreeFlag, K, mem')
      BY <1>1, <1>5, <3>2, <3>3, RefitRow, Zenon
    <3>6. (LiveBlocks \ K) \cup (IF FreeFlag = AllocatedFlag THEN {lo} ELSE {}) = LiveBlocks'
      BY <3>4 DEF FreeFlag, AllocatedFlag
    <3>7. /\ Tiling((Blocks \ K) \cup {lo}, mem', heap_end', LiveBlocks')
          /\ \A c \in Blocks \ K : Size(mem', c) = Size(mem, c)
          /\ \A a \in Words : a < lo \/ a >= hi => mem'[a] = mem[a]
      BY <3>1, <3>5, <3>6 DEF RowRefitted
    <3>8. HeapTiled'
      BY <3>7, NextBlocks
    <3>9. QED
      BY <1>5, <3>1, <3>4, <3>7, <3>8 DEF Tiling, IInv, HeapInMemory, TypeOK
  <2>3. QED
    BY <2>1, <2>2
<1>7. TypeOK'
  BY <1>2, <1>3, <1>6 DEF IInv, TypeOK
<1>8. RequestsFit'
  <2>1. ASSUME NEW q \in DOMAIN live'
        PROVE  live'[q] + Overhead <= SizeOf(mem'[Block(q)])
    <3>1. Block(q) \in LiveBlocks' /\ q \in DOMAIN live /\ live'[q] = live[q]
      BY <1>3 DEF LiveBlocks, Block
    <3>2. QED
      BY <1>6, <3>1 DEF IInv, RequestsFit, Size
  <2>2. QED
    BY <2>1 DEF RequestsFit, Block
<1>9. HeapInMemory'
  <2>1. pages * PageSize \in Nat /\ AddressSpace \in Nat /\ heap_end \in Nat /\ HeapStart \in Nat
    BY PagesMonotone, LayoutAssumption DEF IInv, TypeOK
  <2>2. QED
    BY <1>2, <1>6, <2>1 DEF IInv, HeapInMemory
<1>10. ScanServes' /\ FirstFit'
  BY <1>2 DEF ScanServes, FirstFit
<1>11. IInv'
  BY <1>6, <1>7, <1>8, <1>9, <1>10 DEF IInv
<1> HIDE DEF lo, hi, K
<1>12. heap_end' <= heap_end /\ \A a \in Words : a < lo \/ a >= hi => mem'[a] = mem[a]
  BY <1>6
<1>13. QED
  BY <1>11, <1>12 DEF lo, hi

-----------------------------------------------------------------------------
(* Safety *)

LEMMA StutterIInv ==
  ASSUME IInv, UNCHANGED vars
  PROVE  IInv'
<1>1. UNCHANGED <<mem, pages, heap_end, live>> /\ UNCHANGED <<pc, request, required, cursor>>
  BY DEF vars
<1>2. /\ HeapTiled' /\ RequestsFit' /\ HeapInMemory'
      /\ Blocks' = Blocks /\ LiveBlocks' = LiveBlocks
  BY <1>1, HeapUnchanged
<1>3. TypeOK' /\ ScanServes' /\ FirstFit'
  BY <1>1, <1>2 DEF IInv, TypeOK, ScanServes, FirstFit, Served, Required
<1>4. QED
  BY <1>2, <1>3 DEF IInv

(* In every reachable state of the allocator its blocks tile the heap.     *)
THEOREM Invariance == Spec => []IInv
<1>1. Init => IInv
  BY InitIInv
<1>2. ASSUME IInv, [Next]_vars PROVE IInv'
  <2>1. CASE \E n \in Requests : MallocRefused(n)
    BY <1>2, <2>1, StutterIInv DEF MallocRefused
  <2>2. CASE \E n \in Requests : MallocCalled(n)
    BY <1>2, <2>2, MallocCalledIInv
  <2>3. CASE Scan
    BY <1>2, <2>3, ScanNextIInv, TakeSplitIInv, TakeWholeIInv, ExtendIInv, ExtendFailsIInv
       DEF Scan
  <2>4. CASE \E p \in DOMAIN live : MFree(p)
    BY <1>2, <2>4, MFreeIInv
  <2>5. CASE MFreeNull
    BY <1>2, <2>5, StutterIInv DEF MFreeNull
  <2>6. CASE \E p \in DOMAIN live, w \in UserWords : Store(p, w)
    BY <1>2, <2>6, StoreIInv
  <2>7. CASE UNCHANGED vars
    BY <1>2, <2>7, StutterIInv
  <2>8. QED
    BY <1>2, <2>1, <2>2, <2>3, <2>4, <2>5, <2>6, <2>7 DEF Next
<1>3. QED
  BY <1>1, <1>2, PTL DEF Spec

(* Every variable keeps its type.                                          *)
THEOREM TypeCorrect == Spec => []TypeOK
BY Invariance, PTL DEF IInv

(* Header and footer of every block agree, and tell whose block it is.     *)
THEOREM TagsAgree == Spec => []BoundaryTags
<1>1. IInv => BoundaryTags
  BY TilingMeans DEF IInv
<1>2. QED
  BY <1>1, Invariance, PTL

(* A walk over the sizes in the headers meets every block of the heap.     *)
THEOREM WalkIsWhole == Spec => []BlocksTile
<1>1. IInv => BlocksTile
  BY TilingMeans DEF IInv
<1>2. QED
  BY <1>1, Invariance, PTL

(* No two free blocks are ever adjacent, and none ends the heap.           *)
THEOREM FullyCoalesced == Spec => []Coalesced
<1>1. IInv => Coalesced
  BY TilingMeans DEF IInv
<1>2. QED
  BY <1>1, Invariance, PTL

(* Every block handed out has room for what was asked.                     *)
THEOREM GrantsSuffice == Spec => []RequestsFit
BY Invariance, PTL DEF IInv

(* The heap never leaves linear memory, nor the address space.             *)
THEOREM NoAccessTraps == Spec => []HeapInMemory
BY Invariance, PTL DEF IInv

(* $malloc never passes a free block that would do.                        *)
THEOREM FirstFitWalk == Spec => []FirstFit
BY Invariance, PTL DEF IInv

(* Freeing everything, in any order, leaves no fragment behind.            *)
THEOREM NothingLeaks == Spec => []EmptyHeapResets
<1>1. ASSUME IInv, DOMAIN live = {} PROVE heap_end = HeapStart
  <2>1. LiveBlocks = {}
    BY <1>1 DEF LiveBlocks
  <2>2. Blocks = {}
    BY <1>1, <2>1 DEF IInv, HeapTiled, Tiling, NoFreePair
  <2>3. QED
    BY <1>1, <2>2 DEF IInv, HeapTiled, Tiling, Tiles
<1>2. IInv => EmptyHeapResets
  BY <1>1 DEF EmptyHeapResets
<1>3. QED
  BY <1>2, Invariance, PTL

(* Memory grows, or a request is refused, only when no free block fits.    *)
THEOREM GrowthIsNeeded == Spec => GrowsOnlyWhenFull
<1> DEFINE gaveUp == heap_end' > heap_end \/ (pc = "scan" /\ pc' = "idle" /\ live' = live)
<1>1. ASSUME IInv, [Next]_vars, gaveUp
      PROVE  \A b \in Blocks \ LiveBlocks : SizeOf(mem[b]) < required
  <2>1. heap_end \in Nat
    BY <1>1 DEF IInv, TypeOK
  <2>2. CASE Extend \/ ExtendFails
    <3>1. pc = "scan" /\ ~(cursor < heap_end) /\ cursor \in Nat
      BY <1>1, <2>2 DEF Extend, ExtendFails, Exhausted, IInv, TypeOK
    <3>2. ASSUME NEW b \in Blocks PROVE b < cursor
      BY <1>1, <2>1, <3>1, SizeFacts DEF IInv, HeapTiled, Tiling, TagsFit
    <3>3. QED
      BY <1>1, <3>1, <3>2 DEF IInv, FirstFit
  <2>3. CASE TakeSplit \/ TakeWhole
    <3>1. Walking /\ Fits /\ ReturnBlock(cursor) /\ heap_end' = heap_end
      BY <2>3 DEF TakeSplit, TakeWhole
    <3>2. cursor + HeaderSize \notin DOMAIN live /\ cursor + HeaderSize \in DOMAIN live'
      BY <1>1, <3>1, TakenFacts, ReturnFacts DEF IInv
    <3>3. QED
      BY <1>1, <2>1, <3>1, <3>2
  <2>4. CASE ScanNext
    BY <1>1, <2>1, <2>4 DEF ScanNext
  <2>5. CASE \E p \in DOMAIN live : MFree(p)
    <3>1. PICK p \in DOMAIN live : MFree(p)
      BY <2>5
    <3>2. heap_end' <= heap_end /\ heap_end' \in Nat /\ pc = "idle"
      BY <1>1, <3>1, MFreeIInv DEF IInv, TypeOK, MFree
    <3>3. QED
      BY <1>1, <2>1, <3>2
  <2>6. CASE \/ \E n \in Requests : MallocRefused(n)
             \/ \E n \in Requests : MallocCalled(n)
             \/ MFreeNull
             \/ \E p \in DOMAIN live, w \in UserWords : Store(p, w)
             \/ UNCHANGED vars
    BY <1>1, <2>1, <2>6
       DEF MallocRefused, MallocCalled, MFreeNull, Store, frame, vars
  <2>7. QED
    BY <1>1, <2>2, <2>3, <2>4, <2>5, <2>6 DEF Next, Scan
<1>2. QED
  BY <1>1, Invariance, PTL DEF Spec, GrowsOnlyWhenFull

-----------------------------------------------------------------------------
(* The contract *)

(* What lies outside the bytes changed is untouched when the bytes are     *)
(* those of no other block of the caller.                                  *)
LEMMA KeepsOthers ==
  ASSUME IInv, NEW P \in SUBSET DOMAIN live, NEW lo \in Nat, NEW hi \in Nat,
         HeapStart <= lo,
         \A a \in Words : a < lo \/ a >= hi => mem'[a] = mem[a],
         \A p \in P : Block(p) + Size(mem, Block(p)) <= lo \/ hi <= Block(p)
  PROVE  Contract!Keeps(P)
<1>1. ASSUME NEW a \in Words, a < HeapStart \/ \E p \in P : a \in Contract!PayloadWords(p)
      PROVE  mem'[a] = mem[a]
  <2>1. CASE a < HeapStart
    BY <2>1, LayoutAssumption DEF Words
  <2>2. CASE \E p \in P : a \in Contract!PayloadWords(p)
    <3>1. PICK p \in P : a \in Contract!PayloadWords(p)
      BY <2>2
    <3>2. p \in DOMAIN live /\ a \in PayloadWords(p)
      BY <3>1 DEF Contract!PayloadWords, PayloadWords, Contract!Words, Words, HeaderSize
    <3>3. a > Block(p) /\ a < Block(p) + Size(mem, Block(p)) - FooterSize
      BY <3>2, PayloadFacts
    <3>4. Block(p) \in Nat /\ Size(mem, Block(p)) \in Nat /\ a \in Nat
      BY <3>2, PointerFacts, SizeFacts DEF IInv, HeapTiled, Words
    <3>5. a < lo \/ a >= hi
      BY <3>1, <3>3, <3>4 DEF FooterSize
    <3>6. QED
      BY <3>5
  <2>3. QED
    BY <1>1, <2>1, <2>2
<1>2. QED
  BY <1>1 DEF Contract!Keeps, Contract!Words, Words, HeaderSize

(* Returning a new block meets the contract of malloc.                     *)
LEMMA GrantMeets ==
  ASSUME IInv, IInv', pc = "scan", NEW b \in Words, b + HeaderSize < AddressSpace,
         b + HeaderSize \notin DOMAIN live, ReturnBlock(b),
         Contract!Keeps(DOMAIN live), pages' >= pages
  PROVE  Contract!Next
<1> DEFINE p == b + HeaderSize
<1>1. /\ DOMAIN live' = DOMAIN live \cup {p} /\ DOMAIN live' \subseteq Words
      /\ live'[p] = request /\ \A q \in DOMAIN live : q # p => live'[q] = live[q]
  BY ReturnFacts DEF IInv
<1>2. request \in Requests /\ request \in Nat
  BY DEF IInv, ScanServes, TypeOK
<1>3. ASSUME NEW q \in DOMAIN live'
      PROVE  /\ q \in Nat /\ Block(q) \in Blocks' /\ Block(q) \in Nat /\ q = Block(q) + HeaderSize
             /\ live'[q] \in Nat
             /\ Size(mem', Block(q)) \in Nat /\ live'[q] + Overhead <= Size(mem', Block(q))
             /\ Block(q) >= HeapStart /\ Block(q) % Alignment = HeapStart % Alignment
             /\ Block(q) + Size(mem', Block(q)) <= heap_end'
             /\ \A c \in Blocks' : Block(q) < c => Block(q) + Size(mem', Block(q)) <= c
  <2>1. q \in Words /\ q \in Nat /\ live'[q] \in Nat
    BY DEF IInv, TypeOK, Words
  <2>2. Block(q) \in Blocks'
    BY DEF Blocks, LiveBlocks, Block
  <2>3. Tiling(Blocks', mem', heap_end', LiveBlocks')
    BY DEF IInv, HeapTiled
  <2>4. Block(q) \in Nat /\ Size(mem', Block(q)) \in Nat
    BY <2>2, <2>3, SizeFacts
  <2>5. live'[q] + Overhead <= Size(mem', Block(q))
    BY DEF IInv, RequestsFit, Size, Block
  <2>6. /\ Block(q) >= HeapStart /\ Block(q) % Alignment = HeapStart % Alignment
        /\ Block(q) + Size(mem', Block(q)) <= heap_end'
    BY <2>2, <2>3 DEF Tiling, TagsFit
  <2>7. \A c \in Blocks' : Block(q) < c => Block(q) + Size(mem', Block(q)) <= c
    BY <2>2, <2>3 DEF Tiling, Tiles
  <2>8. QED
    BY <2>1, <2>2, <2>4, <2>5, <2>6, <2>7 DEF Block, HeaderSize
<1>4. /\ p \in Contract!Words \ DOMAIN live /\ p > HeapStart
      /\ p % 8 = (HeapStart + 4) % 8
  <2>1. p \in DOMAIN live' /\ Block(p) = b
    BY <1>1 DEF Block, HeaderSize, Words
  <2>2. b \in Nat /\ b >= HeapStart /\ b % Alignment = HeapStart % Alignment /\ HeapStart \in Nat
    BY <1>3, <2>1, LayoutAssumption
  <2>3. p \in Contract!Words
    BY <1>1, <2>1 DEF Contract!Words, Words, HeaderSize
  <2>4. QED
    BY <2>2, <2>3 DEF Alignment, HeaderSize
<1>5. p + request <= pages' * PageSize
  <2>1. pages' * PageSize \in Nat /\ heap_end' <= pages' * PageSize /\ heap_end' \in Nat
    BY PagesMonotone DEF IInv, TypeOK, HeapInMemory
  <2>2. /\ p \in Nat /\ p = Block(p) + HeaderSize /\ Block(p) \in Nat
        /\ request + Overhead <= Size(mem', Block(p)) /\ Size(mem', Block(p)) \in Nat
        /\ Block(p) + Size(mem', Block(p)) <= heap_end'
    BY <1>1, <1>3
  <2>3. p + request <= heap_end'
    BY <1>2, <2>1, <2>2 DEF Overhead, HeaderSize, FooterSize
  <2>4. QED
    BY <1>2, <2>1, <2>2, <2>3
<1>6. Contract!Disjoint(p, request)
  <2>1. ASSUME NEW q \in DOMAIN live PROVE p + request <= q \/ q + live[q] <= p
    <3>1. q # p /\ q \in DOMAIN live' /\ p \in DOMAIN live' /\ live'[q] = live[q]
      BY <1>1
    <3>2. /\ q \in Nat /\ p \in Nat /\ Block(q) \in Nat /\ Block(p) \in Nat
          /\ Block(q) \in Blocks' /\ Block(p) \in Blocks'
          /\ q = Block(q) + HeaderSize /\ p = Block(p) + HeaderSize
          /\ live'[q] + Overhead <= Size(mem', Block(q)) /\ live'[q] \in Nat
          /\ request + Overhead <= Size(mem', Block(p))
          /\ Size(mem', Block(q)) \in Nat /\ Size(mem', Block(p)) \in Nat
          /\ Block(q) < Block(p) => Block(q) + Size(mem', Block(q)) <= Block(p)
          /\ Block(p) < Block(q) => Block(p) + Size(mem', Block(p)) <= Block(q)
      BY <1>1, <1>3, <3>1
    <3> HIDE DEF p
    <3>3. QED
      BY <1>2, <3>1, <3>2 DEF Overhead, HeaderSize, FooterSize
  <2>2. QED
    BY <2>1 DEF Contract!Disjoint
<1>7. live' = [q \in DOMAIN live \cup {p} |-> IF q = p THEN request ELSE live[q]]
  BY DEF ReturnBlock
<1>8. Contract!Malloc(request)
  BY <1>4, <1>5, <1>6, <1>7 DEF Contract!Malloc
<1>9. QED
  BY <1>2, <1>8 DEF Contract!Next

(* $malloc and $mfree keep their contract with every caller.               *)
THEOREM ContractMet == Spec => MeetsContract
<1>1. Init => Contract!Init
  BY DEF Init, Contract!Init
<1>2. ASSUME IInv, IInv', [Next]_vars
      PROVE  [Contract!Next]_(Contract!vars)
  <2>1. CASE TakeSplit \/ TakeWhole
    <3>1. /\ Walking /\ Fits /\ ReturnBlock(cursor) /\ pages' = pages
          /\ \A a \in Words : a < cursor \/ a >= cursor + BlockSize => mem'[a] = mem[a]
      BY <1>2, <2>1, TakeSplitIInv, TakeWholeIInv DEF TakeSplit, TakeWhole
    <3>2. /\ cursor \in Blocks \ LiveBlocks /\ cursor \in Words /\ cursor \in Nat
          /\ cursor + HeaderSize < AddressSpace /\ cursor + HeaderSize \notin DOMAIN live
          /\ BlockSize = Size(mem, cursor) /\ BlockSize \in Nat
      BY <1>2, <3>1, TakenFacts
    <3>3. \A p \in DOMAIN live : \/ Block(p) + Size(mem, Block(p)) <= cursor
                                 \/ cursor + BlockSize <= Block(p)
      <4>1. ASSUME NEW p \in DOMAIN live
            PROVE  \/ Block(p) + Size(mem, Block(p)) <= cursor
                   \/ cursor + BlockSize <= Block(p)
        <5>1. Block(p) \in Blocks /\ Block(p) \in Nat /\ Block(p) # cursor
          BY <1>2, <3>2, PointerFacts DEF IInv
        <5>2. /\ Block(p) < cursor => Block(p) + Size(mem, Block(p)) <= cursor
              /\ cursor < Block(p) => cursor + BlockSize <= Block(p)
          BY <1>2, <3>2, <5>1 DEF IInv, HeapTiled, Tiling, Tiles
        <5>3. QED
          BY <3>2, <5>1, <5>2
      <4>2. QED
        BY <4>1
    <3>4. HeapStart <= cursor /\ cursor + BlockSize \in Nat
      BY <1>2, <3>2 DEF IInv, HeapTiled, Tiling, TagsFit
    <3>5. Contract!Keeps(DOMAIN live)
      BY <1>2, <3>1, <3>2, <3>3, <3>4, KeepsOthers
    <3>6. pc = "scan" /\ pages' >= pages
      BY <1>2, <3>1 DEF Walking, IInv, TypeOK
    <3>7. QED
      BY <1>2, <3>1, <3>2, <3>5, <3>6, GrantMeets
  <2>2. CASE Extend
    <3>1. /\ heap_end \in Words /\ heap_end + HeaderSize < AddressSpace
          /\ heap_end + HeaderSize \notin DOMAIN live
          /\ pages' >= pages /\ pc = "scan" /\ ReturnBlock(heap_end)
          /\ \A a \in Words : a < heap_end => mem'[a] = mem[a]
      BY <1>2, <2>2, ExtendIInv DEF Extend, Exhausted
    <3>2. heap_end \in Nat /\ HeapStart <= heap_end /\ AddressSpace \in Nat
      BY <1>2, LayoutAssumption DEF IInv, TypeOK, HeapInMemory
    <3>3. \A a \in Words : a < heap_end \/ a >= AddressSpace => mem'[a] = mem[a]
      BY <3>1, <3>2 DEF Words
    <3>4. \A p \in DOMAIN live : \/ Block(p) + Size(mem, Block(p)) <= heap_end
                                 \/ AddressSpace <= Block(p)
      BY <1>2, PointerFacts DEF IInv, HeapTiled, Tiling, TagsFit
    <3>5. Contract!Keeps(DOMAIN live)
      BY <1>2, <3>2, <3>3, <3>4, KeepsOthers
    <3>6. QED
      BY <1>2, <3>1, <3>5, GrantMeets
  <2>3. CASE \E p \in DOMAIN live : MFree(p)
    <3>1. PICK p \in DOMAIN live : MFree(p)
      BY <2>3
    <3> DEFINE lo == FreedStart(p)
               hi == FreedStart(p) + FreedSize(p)
    <3>2. \A a \in Words : a < lo \/ a >= hi => mem'[a] = mem[a]
      BY <1>2, <3>1, MFreeIInv
    <3>3. /\ lo \in Blocks /\ lo \in Nat /\ hi \in Nat
          /\ \A c \in LiveBlocks : lo <= c /\ c < hi => c = Block(p)
      BY <1>2, FreedFacts
    <3> HIDE DEF lo, hi
    <3>4. \A q \in DOMAIN live \ {p} : \/ Block(q) + Size(mem, Block(q)) <= lo
                                       \/ hi <= Block(q)
      <4>1. ASSUME NEW q \in DOMAIN live \ {p}
            PROVE  Block(q) + Size(mem, Block(q)) <= lo \/ hi <= Block(q)
        <5>1. /\ Block(q) \in Blocks /\ Block(q) \in LiveBlocks /\ Block(q) \in Nat
              /\ Block(q) # Block(p)
          BY <1>2, PointerFacts DEF IInv
        <5>2. Block(q) < lo => Block(q) + Size(mem, Block(q)) <= lo
          BY <1>2, <3>3, <5>1 DEF IInv, HeapTiled, Tiling, Tiles
        <5>3. QED
          BY <3>3, <5>1, <5>2
      <4>2. QED
        BY <4>1
    <3>5. HeapStart <= lo
      BY <1>2, <3>3 DEF IInv, HeapTiled, Tiling, TagsFit
    <3>6. (DOMAIN live \ {p}) \in SUBSET DOMAIN live
      OBVIOUS
    <3>7. Contract!Keeps(DOMAIN live \ {p})
      BY <1>2, <3>2, <3>3, <3>4, <3>5, <3>6, KeepsOthers
    <3>8. Contract!MFree(p)
      BY <3>1, <3>7 DEF MFree, Contract!MFree
    <3>9. QED
      BY <3>8 DEF Contract!Next
  <2>4. CASE \E p \in DOMAIN live, w \in UserWords : Store(p, w)
    <3>1. PICK p \in DOMAIN live, w \in UserWords : Store(p, w)
      BY <2>4
    <3>2. \A a \in Words \ PayloadWords(p) : mem'[a] = mem[a]
      BY <3>1 DEF Store
    <3>3. Words = Contract!Words /\ PayloadWords(p) = Contract!PayloadWords(p)
      BY DEF Words, Contract!Words, PayloadWords, Contract!PayloadWords, HeaderSize
    <3>4. p \in DOMAIN live /\ Contract!Store(p)
      BY <3>1, <3>2, <3>3 DEF Store, Contract!Store
    <3>5. QED
      BY <3>4 DEF Contract!Next
  <2>5. CASE \/ \E n \in Requests : MallocRefused(n)
             \/ \E n \in Requests : MallocCalled(n)
             \/ ScanNext \/ ExtendFails \/ MFreeNull \/ UNCHANGED vars
    <3>1. UNCHANGED <<mem, pages, live>>
      BY <2>5 DEF MallocRefused, MallocCalled, ScanNext, ExtendFails, MFreeNull, vars
    <3>2. QED
      BY <3>1 DEF Contract!vars
  <2>6. QED
    BY <1>2, <2>1, <2>2, <2>3, <2>4, <2>5 DEF Next, Scan
<1>3. QED
  BY <1>1, <1>2, Invariance, PTL DEF Spec, MeetsContract, Contract!Spec
=============================================================================
