-------------------------- MODULE NumericTypesProofs --------------------------
(***************************************************************************)
(* What a value becomes on its way through LEB128, the operators and the   *)
(* conversions, proved for every width of the types and every number of    *)
(* bits a byte carries.                                                    *)
(*                                                                         *)
(* The laws of powers of two are counted: a set of n elements has 2^n      *)
(* subsets.  Induction is by the least element of a set of naturals.  Both *)
(* come from the library's theorems.                                       *)
(***************************************************************************)
EXTENDS NumericTypes, FiniteSetTheorems, WellFoundedInduction, TLAPS

-----------------------------------------------------------------------------
(* Induction and powers of two *)

LEMMA SetInduction ==
  ASSUME NEW T, 0 \in T, \A n \in Nat : n \in T => n + 1 \in T
  PROVE  Nat \subseteq T
<1> DEFINE Missing == {n \in Nat : n \notin T}
           Before  == OpToRel(<, Nat)
<1>1. SUFFICES ASSUME Missing # {} PROVE FALSE
  OBVIOUS
<1>2. IsWellFoundedOn(Before, Nat)
  BY NatLessThanWellFounded
<1>3. PICK m \in Missing : \A k \in Missing : ~(<<k, m>> \in Before)
  <2>1. Missing \subseteq Nat
    OBVIOUS
  <2> HIDE DEF Missing, Before
  <2> QED
    BY <1>1, <1>2, <2>1, WFMin
<1>4. m \in Nat /\ m # 0
  OBVIOUS
<1>5. m - 1 \in T
  <2>1. m - 1 \in Nat /\ m - 1 < m
    BY <1>4
  <2>2. <<m - 1, m>> \in Before
    BY <1>4, <2>1 DEF OpToRel
  <2> QED
    BY <1>3, <2>1, <2>2
<1> QED
  BY <1>4, <1>5

LEMMA PowerOfTwo ==
  ASSUME NEW n \in Nat
  PROVE  /\ 2^n \in Nat /\ 2^n >= 1
         /\ 2^(n + 1) = 2 * 2^n
<1> DEFINE S(k) == 1 .. k
           With == {B \cup {n + 1} : B \in SUBSET S(n)}
<1>1. \A k \in Nat : /\ IsFiniteSet(SUBSET S(k)) /\ IsFiniteSet(S(k)) /\ Cardinality(S(k)) = k
                     /\ Cardinality(SUBSET S(k)) = 2^k
  <2> SUFFICES ASSUME NEW k \in Nat
               PROVE  /\ IsFiniteSet(SUBSET S(k)) /\ IsFiniteSet(S(k)) /\ Cardinality(S(k)) = k
                      /\ Cardinality(SUBSET S(k)) = 2^k
    OBVIOUS
  <2>1. IsFiniteSet(S(k)) /\ Cardinality(S(k)) = k
    <3>1. IsFiniteSet(S(k)) /\ Cardinality(S(k)) = IF 1 > k THEN 0 ELSE k - 1 + 1
      BY FS_Interval
    <3> QED
      BY <3>1
  <2>2. IsFiniteSet(SUBSET S(k)) /\ Cardinality(SUBSET S(k)) = 2^Cardinality(S(k))
    BY <2>1, FS_SUBSET
  <2> QED
    BY <2>1, <2>2
<1>2. 2^n \in Nat /\ 2^n >= 1
  <2>1. Cardinality(SUBSET S(n)) \in Nat
    BY <1>1, FS_CardinalityType
  <2>2. Cardinality(SUBSET S(n)) # 0
    BY <1>1, FS_EmptySet
  <2>3. Cardinality(SUBSET S(n)) = 2^n
    BY <1>1
  <2>4. \A c \in Nat : c # 0 => c >= 1
    OBVIOUS
  <2> QED
    BY <2>1, <2>2, <2>3, <2>4, Zenon
<1>3. SUBSET S(n + 1) = (SUBSET S(n)) \cup With
  <2>1. S(n + 1) = S(n) \cup {n + 1}
    OBVIOUS
  <2>2. ASSUME NEW B \in SUBSET S(n + 1) PROVE B \in (SUBSET S(n)) \cup With
    <3>1. CASE n + 1 \in B
      <4>1. B \ {n + 1} \in SUBSET S(n) /\ B = (B \ {n + 1}) \cup {n + 1}
        BY <2>1, <2>2, <3>1
      <4> QED
        BY <4>1
    <3>2. CASE n + 1 \notin B
      BY <2>1, <2>2, <3>2
    <3> QED
      BY <3>1, <3>2
  <2>3. ASSUME NEW B \in (SUBSET S(n)) \cup With PROVE B \in SUBSET S(n + 1)
    BY <2>1
  <2> QED
    BY <2>2, <2>3
<1>4. (SUBSET S(n)) \cap With = {}
  OBVIOUS
<1>5. ExistsBijection(SUBSET S(n), With)
  <2> DEFINE f == [B \in SUBSET S(n) |-> B \cup {n + 1}]
  <2>1. f \in [SUBSET S(n) -> With]
    BY Zenon
  <2>2. \A B, C \in SUBSET S(n) : f[B] = f[C] => B = C
    <3> SUFFICES ASSUME NEW B \in SUBSET S(n), NEW C \in SUBSET S(n),
                        B \cup {n + 1} = C \cup {n + 1}
                 PROVE  B = C
      BY Zenon
    <3>1. n + 1 \notin B /\ n + 1 \notin C
      OBVIOUS
    <3>2. B = (B \cup {n + 1}) \ {n + 1} /\ C = (C \cup {n + 1}) \ {n + 1}
      BY <3>1
    <3> QED
      BY <3>2, Zenon
  <2>3. \A D \in With : \E B \in SUBSET S(n) : f[B] = D
    BY Zenon
  <2>4. f \in Bijection(SUBSET S(n), With)
    <3>1. f \in Injection(SUBSET S(n), With)
      BY <2>1, <2>2, Zenon DEF Injection, IsInjective
    <3>2. f \in Surjection(SUBSET S(n), With)
      BY <2>1, <2>3, Zenon DEF Surjection
    <3> QED
      BY <3>1, <3>2, Zenon DEF Bijection
  <2> QED
    BY <2>4, Zenon DEF ExistsBijection
<1>6. IsFiniteSet(With) /\ Cardinality(With) = 2^n
  <2>1. IsFiniteSet(SUBSET S(n)) /\ Cardinality(SUBSET S(n)) = 2^n
    BY <1>1
  <2> HIDE DEF With, S
  <2> QED
    BY <1>5, <2>1, FS_Bijection
<1>7. 2^(n + 1) = 2^n + 2^n
  <2>1. IsFiniteSet(SUBSET S(n)) /\ Cardinality(SUBSET S(n)) = 2^n
    BY <1>1
  <2>2. 2^(n + 1) = Cardinality(SUBSET S(n + 1))
    <3>1. n + 1 \in Nat
      OBVIOUS
    <3> HIDE DEF S
    <3> QED
      BY <1>1, <3>1, Zenon
  <2>3. Cardinality((SUBSET S(n)) \cup With)
          = Cardinality(SUBSET S(n)) + Cardinality(With) - Cardinality((SUBSET S(n)) \cap With)
    <3> HIDE DEF With, S
    <3> QED
      BY <1>6, <2>1, FS_Union
  <2>4. Cardinality((SUBSET S(n)) \cap With) = 0
    BY <1>4, FS_EmptySet
  <2>5. \A a, b, c \in Nat : a + b - 0 = a + b
    OBVIOUS
  <2> HIDE DEF With, S
  <2> QED
    BY <1>2, <1>3, <1>6, <2>1, <2>2, <2>3, <2>4, <2>5, Zenon
<1>8. \A a, b \in Nat : b = a + a => b = 2 * a
  OBVIOUS
<1>9. 2^(n + 1) \in Nat
  <2>1. \A a, b \in Nat : a + b \in Nat
    OBVIOUS
  <2> QED
    BY <1>2, <1>7, <2>1, Zenon
<1> QED
  BY <1>2, <1>7, <1>8, <1>9, Zenon

LEMMA PowerZero == 2^0 = 1
<1>1. /\ IsFiniteSet({}) /\ Cardinality({}) = 0
      /\ IsFiniteSet({{}}) /\ Cardinality({{}}) = 1 /\ SUBSET {} = {{}}
  BY FS_EmptySet, FS_Singleton
<1>2. Cardinality(SUBSET {}) = 2^Cardinality({})
  BY <1>1, FS_SUBSET
<1> QED
  BY <1>1, <1>2, Zenon

LEMMA PowerOfSum ==
  ASSUME NEW m \in Nat, NEW n \in Nat
  PROVE  2^(m + n) = 2^m * 2^n
<1> DEFINE T == {k \in Nat : 2^(m + k) = 2^m * 2^k}
<1>1. 0 \in T
  <2>1. m + 0 = m /\ 2^m \in Nat
    BY PowerOfTwo
  <2>2. \A p \in Nat : p = p * 1
    OBVIOUS
  <2> QED
    BY <2>1, <2>2, PowerZero, Zenon
<1>2. ASSUME NEW k \in Nat, k \in T PROVE k + 1 \in T
  <2>1. 2^(m + k) = 2^m * 2^k
    BY <1>2
  <2>2. m + k \in Nat /\ m + (k + 1) = (m + k) + 1
    OBVIOUS
  <2>3. 2^(m + (k + 1)) = 2 * 2^(m + k) /\ 2^(k + 1) = 2 * 2^k
    BY <2>2, PowerOfTwo, Zenon
  <2>4. \A a, b \in Nat : 2 * (a * b) = a * (2 * b)
    OBVIOUS
  <2>5. 2^m \in Nat /\ 2^k \in Nat
    BY PowerOfTwo
  <2>6. 2^(m + (k + 1)) = 2^m * 2^(k + 1)
    <3>1. PICK a \in Nat, b \in Nat : a = 2^m /\ b = 2^k
      BY <2>5
    <3>2. 2 * (a * b) = a * (2 * b)
      BY <2>4
    <3>3. 2^(m + (k + 1)) = 2 * (a * b) /\ 2^(k + 1) = 2 * b
      BY <2>1, <2>3, <3>1, Zenon
    <3> QED
      BY <3>1, <3>2, <3>3, Zenon
  <2>7. k + 1 \in Nat
    OBVIOUS
  <2> QED
    BY <2>6, <2>7, Zenon
<1>3. Nat \subseteq T
  <2> HIDE DEF T
  <2> QED
    BY <1>1, <1>2, SetInduction
<1> QED
  BY <1>3, Zenon

LEMMA Sums ==
  ASSUME NEW term \in [Nat -> Int]
  PROVE  \E g \in [Nat -> Int] : g = [i \in Nat |-> IF i = 0 THEN 0 ELSE g[i - 1] + term[i - 1]]
<1> DEFINE Adds(h, m) == h[0] = 0 /\ \A i \in 1 .. m : h[i] = h[i - 1] + term[i - 1]
           Good == {m \in Nat : \E h \in [0 .. m -> Int] : Adds(h, m)}
<1>1. 0 \in Good
  <2>1. PICK h : h = [i \in 0 .. 0 |-> 0]
    OBVIOUS
  <2>2. h \in [0 .. 0 -> Int] /\ Adds(h, 0)
    BY <2>1
  <2> QED
    BY <2>2
<1>2. ASSUME NEW m \in Nat, m \in Good PROVE m + 1 \in Good
  <2>1. PICK h \in [0 .. m -> Int] : Adds(h, m)
    BY <1>2
  <2>2. PICK k : k = [i \in 0 .. m + 1 |-> IF i = m + 1 THEN h[m] + term[m] ELSE h[i]]
    OBVIOUS
  <2>3. k \in [0 .. m + 1 -> Int]
    BY <2>1, <2>2
  <2>4. ASSUME NEW i \in 1 .. m + 1 PROVE k[i] = k[i - 1] + term[i - 1]
    <3>1. CASE i = m + 1
      <4>1. k[i] = h[m] + term[m] /\ k[m] = h[m] /\ i - 1 = m
        BY <2>2, <3>1
      <4> QED
        BY <4>1
    <3>2. CASE i # m + 1
      <4>1. i \in 1 .. m /\ i - 1 \in 0 .. m /\ i - 1 # m + 1
        BY <3>2
      <4>2. k[i] = h[i] /\ k[i - 1] = h[i - 1]
        BY <2>2, <3>2, <4>1
      <4> QED
        BY <2>1, <4>1, <4>2
    <3> QED
      BY <3>1, <3>2
  <2>5. k[0] = 0
    BY <2>1, <2>2
  <2>6. Adds(k, m + 1)
    BY <2>4, <2>5
  <2> HIDE DEF Adds
  <2> QED
    BY <2>3, <2>6
<1>3. Nat \subseteq Good
  <2> HIDE DEF Good
  <2> QED
    BY <1>1, <1>2, SetInduction
<1>4. \A m \in Nat : \E h \in [0 .. m -> Int] : Adds(h, m)
  BY <1>3
<1> DEFINE H(m) == CHOOSE h \in [0 .. m -> Int] : Adds(h, m)
           g == [m \in Nat |-> H(m)[m]]
<1>5. \A m \in Nat : H(m) \in [0 .. m -> Int] /\ Adds(H(m), m)
  BY <1>4
<1> HIDE DEF H
<1>6. ASSUME NEW m \in Nat, NEW n \in Nat, m <= n
      PROVE  H(n)[m] = H(m)[m]
  <2>1. PICK h : h = H(m) /\ Adds(h, m)
    BY <1>5
  <2>2. PICK k : k = H(n) /\ Adds(k, n)
    BY <1>5
  <2> DEFINE Same == {i \in Nat : i <= m => k[i] = h[i]}
  <2>3. 0 \in Same
    BY <2>1, <2>2
  <2>4. ASSUME NEW i \in Nat, i \in Same PROVE i + 1 \in Same
    <3>1. CASE i + 1 <= m
      <4>1. k[i] = h[i] /\ i + 1 \in 1 .. m /\ i + 1 \in 1 .. n /\ i + 1 - 1 = i
        BY <2>4, <3>1, <1>6
      <4>2. h[i + 1] = h[i] + term[i] /\ k[i + 1] = k[i] + term[i]
        BY <2>1, <2>2, <4>1
      <4> QED
        BY <4>1, <4>2
    <3> QED
      BY <3>1
  <2>5. Nat \subseteq Same
    <3> HIDE DEF Same
    <3> QED
      BY <2>3, <2>4, SetInduction
  <2> QED
    BY <1>6, <2>1, <2>2, <2>5
<1>7. g \in [Nat -> Int]
  BY <1>5
<1>8. ASSUME NEW m \in Nat PROVE g[m] = IF m = 0 THEN 0 ELSE g[m - 1] + term[m - 1]
  <2>1. CASE m = 0
    BY <1>5, <2>1
  <2>2. CASE m # 0
    <3>1. m - 1 \in Nat /\ m - 1 <= m /\ m \in 1 .. m
      BY <2>2
    <3>2. H(m)[m] = H(m)[m - 1] + term[m - 1] /\ H(m)[m - 1] = H(m - 1)[m - 1]
      BY <1>5, <1>6, <3>1
    <3> QED
      BY <2>2, <3>1, <3>2
  <2> QED
    BY <2>1, <2>2
<1>9. g = [i \in Nat |-> IF i = 0 THEN 0 ELSE g[i - 1] + term[i - 1]]
  <2>1. g = [m \in Nat |-> g[m]]
    OBVIOUS
  <2> HIDE DEF g
  <2> QED
    BY <1>8, <2>1
<1> QED
  <2> HIDE DEF g
  <2> QED
    BY <1>7, <1>9

-----------------------------------------------------------------------------
(* LEB128 *)

Bytes == [bits : 0 .. Group - 1, more : BOOLEAN]

CodeTypes ==
  /\ phase \in {"idle", "write", "read", "loaded"} /\ kind \in Kinds
  /\ values \in Seq(Int) /\ output \in Seq(Bytes)
  /\ Len(values) = Len(output) + 1
  /\ position \in Nat /\ sum \in Int /\ weight \in Int

(* Each byte and the value left after it make up the value before it.      *)
Splits == \A i \in 1 .. Len(output) : values[i] = output[i].bits + Group * values[i + 1]

(* Only the byte that ended the loop says that none follows.               *)
Flags == \A i \in 1 .. Len(output) :
           output[i].more <=> (i < Len(output) \/ phase = "write")

(* The value the loop ends with is the sign its last byte shows.           *)
Rests ==
  phase = "read" =>
    values[Len(output) + 1] =
      IF kind \in SignedKinds /\ output[Len(output)].bits >= HalfGroup THEN -1 ELSE 0

NothingRead == phase \in {"idle", "write"} => position = 1 /\ sum = 0 /\ weight = 1

(* What has been read, and the value the encoder had at that point, make   *)
(* up the integer.                                                         *)
Reads ==
  phase = "read" => /\ position \in 1 .. Len(output)
                    /\ original = sum + weight * values[position]

Coded == CodeTypes /\ Splits /\ Flags /\ Rests /\ NothingRead /\ Reads /\ LoadsWhatWasWritten

-----------------------------------------------------------------------------
(* A byte has twice as many low bits as there are without its sign bit.    *)
LEMMA GroupFacts ==
  /\ HalfGroup \in Nat /\ HalfGroup >= 1
  /\ Group = 2 * HalfGroup /\ Group \in Int /\ Group > 0
<1>1. GroupBits - 1 \in Nat /\ (GroupBits - 1) + 1 = GroupBits
  BY EncodingAssumption
<1>2. /\ 2^(GroupBits - 1) \in Nat /\ 2^(GroupBits - 1) >= 1
      /\ 2^GroupBits = 2 * 2^(GroupBits - 1)
  BY <1>1, PowerOfTwo, Zenon
<1>3. HalfGroup \in Nat /\ HalfGroup >= 1 /\ Group = 2 * HalfGroup
  BY <1>2, Zenon DEF HalfGroup, Group
<1> QED
  BY <1>3

(* Division by the size of a group, with the remainder the byte carries.   *)
LEMMA Division ==
  ASSUME NEW v \in Int
  PROVE  /\ LowBits(v) \in 0 .. Group - 1 /\ Rest(v) \in Int
         /\ v = LowBits(v) + Group * Rest(v)
<1>1. Group \in Int /\ Group > 0
  BY GroupFacts
<1>2. \A g \in Int : g > 0 => /\ v % g \in 0 .. g - 1 /\ v \div g \in Int
                              /\ v = (v % g) + g * (v \div g)
  OBVIOUS
<1>3. QED
  BY <1>1, <1>2 DEF LowBits, Rest

LEMMA ReadArithmetic ==
  ASSUME NEW s \in Int, NEW w \in Int, NEW b \in Int, NEW g \in Int, NEW r \in Int
  PROVE  s + w * (b + g * r) = (s + b * w) + (w * g) * r
<1>1. w * (b + g * r) = w * b + w * (g * r)
  OBVIOUS
<1>2. w * (g * r) = (w * g) * r /\ w * b = b * w
  OBVIOUS
<1> DEFINE x == w * (b + g * r)
           y == b * w
           z == (w * g) * r
<1>3. x = y + z /\ x \in Int /\ y \in Int /\ z \in Int
  BY <1>1, <1>2
<1> HIDE DEF x, y, z
<1>4. s + x = (s + y) + z
  BY <1>3
<1>5. QED
  BY <1>4 DEF x, y, z

-----------------------------------------------------------------------------
(* What n bytes have taken from an integer, and what they leave, decide     *)
(* together whether the integer reaches a multiple of 2^n.                 *)
LEMMA Scaled ==
  ASSUME NEW s \in Nat, s >= 1, NEW r \in 0 .. s - 1, NEW v \in Int, NEW b \in Int
  PROVE  r + s * v >= s * b <=> v >= b
<1>1. s * v \in Int /\ s * b \in Int
  OBVIOUS
<1>2. ASSUME v >= b PROVE s * v >= s * b
  <2>1. PICK d \in Nat : v = b + d
    <3>1. v - b \in Nat /\ v = b + (v - b)
      BY <1>2
    <3> QED
      BY <3>1
  <2>2. s * v = s * b + s * d /\ s * d >= 0
    BY <2>1
  <2> QED
    BY <1>1, <2>2
<1>3. ASSUME ~(v >= b) PROVE s * v <= s * b - s
  <2>1. PICK d \in Nat : b = v + 1 + d
    <3>1. b - v - 1 \in Nat /\ b = v + 1 + (b - v - 1)
      BY <1>3
    <3> QED
      BY <3>1
  <2>2. s * b = s * v + s + s * d /\ s * d >= 0
    BY <2>1
  <2> QED
    BY <1>1, <2>2
<1> QED
  BY <1>1, <1>2, <1>3

(* The numbers of bytes n and n + 1, as powers. *)
LEMMA ScaleFacts ==
  ASSUME NEW n \in Nat
  PROVE  \E s \in Nat : /\ s >= 1 /\ s = 2^(GroupBits * n)
                        /\ 2^(GroupBits * (n + 1)) = s * Group
                        /\ 2^(GroupBits * (n + 1) - 1) = s * HalfGroup
<1>1. PICK m \in Nat : m = GroupBits * n
  BY EncodingAssumption
<1>2. /\ GroupBits \in Nat /\ GroupBits - 1 \in Nat
      /\ GroupBits * (n + 1) = m + GroupBits
      /\ GroupBits * (n + 1) - 1 = m + (GroupBits - 1)
  BY <1>1, EncodingAssumption
<1>3. 2^(m + GroupBits) = 2^m * 2^GroupBits /\ 2^(m + (GroupBits - 1)) = 2^m * 2^(GroupBits - 1)
  BY <1>2, PowerOfSum, Zenon
<1>4. 2^m \in Nat /\ 2^m >= 1
  BY <1>1, PowerOfTwo
<1> QED
  BY <1>1, <1>2, <1>3, <1>4, Zenon DEF Group, HalfGroup

(* The loop of an encoder ends exactly with the byte that makes the        *)
(* integer fit.                                                            *)
LEMMA LastFits ==
  ASSUME NEW k, NEW n \in Nat, NEW v \in Int, NEW x \in Int,
         NEW r \in 0 .. 2^(GroupBits * n) - 1, x = r + 2^(GroupBits * n) * v
  PROVE  Last(k, v) <=> FitsIn(k, n + 1, x)
<1>1. PICK s \in Nat : /\ s >= 1 /\ s = 2^(GroupBits * n)
                       /\ 2^(GroupBits * (n + 1)) = s * Group
                       /\ 2^(GroupBits * (n + 1) - 1) = s * HalfGroup
  BY ScaleFacts
<1>2. r \in 0 .. s - 1 /\ x = r + s * v
  BY <1>1
<1>3. PICK h \in Nat : h = HalfGroup /\ h >= 1 /\ Group = 2 * h
  BY GroupFacts
<1>4. \A b \in Int : x >= s * b <=> v >= b
  BY <1>1, <1>2, Scaled
<1>5. PICK low \in 0 .. 2 * h - 1, rest \in Int :
         low = LowBits(v) /\ rest = Rest(v) /\ v = low + (2 * h) * rest
  BY <1>3, Division
<1>6. CASE k \in SignedKinds
  <2>1. FitsIn(k, n + 1, x) <=> x \in -(s * h) .. s * h - 1
    BY <1>1, <1>3, <1>6, Zenon DEF FitsIn
  <2>2. x >= s * (-h) <=> v >= -h
    <3>1. -h \in Int
      OBVIOUS
    <3> QED
      BY <1>4, <3>1, Zenon
  <2>3. x >= s * h <=> v >= h
    BY <1>3, <1>4
  <2>4. PICK p \in Int : p = s * h /\ s * (-h) = -p
    OBVIOUS
  <2>5. x \in -(s * h) .. s * h - 1 <=> v \in -h .. h - 1
    <3>1. (x >= -p <=> v >= -h) /\ (x >= p <=> v >= h)
      BY <2>2, <2>3, <2>4
    <3>2. x \in -p .. p - 1 <=> v \in -h .. h - 1
      BY <3>1
    <3> QED
      BY <2>4, <3>2, Zenon
  <2>6. Last(k, v) <=> rest = (IF low >= h THEN -1 ELSE 0)
    BY <1>3, <1>5, <1>6, Zenon DEF Last
  <2>7. rest = (IF low >= h THEN -1 ELSE 0) <=> v \in -h .. h - 1
    <3>1. CASE rest = 0
      <4>1. v = low
        BY <1>5, <3>1
      <4> QED
        BY <1>3, <3>1, <4>1
    <3>2. CASE rest = -1
      BY <1>3, <1>5, <3>2
    <3>3. CASE rest >= 1
      <4>1. (2 * h) * rest >= 2 * h
        BY <1>3, <3>3
      <4> QED
        BY <1>3, <1>5, <3>3, <4>1
    <3>4. CASE rest <= -2
      <4>1. PICK d \in Nat : rest = -2 - d
        <5>1. -2 - rest \in Nat /\ rest = -2 - (-2 - rest)
          BY <3>4
        <5> QED
          BY <5>1
      <4>2. (2 * h) * rest = -(4 * h) - (2 * h) * d /\ (2 * h) * d >= 0
        BY <4>1
      <4> QED
        BY <1>3, <1>5, <3>4, <4>2
    <3> QED
      BY <1>5, <3>1, <3>2, <3>3, <3>4
  <2> QED
    BY <2>1, <2>5, <2>6, <2>7
<1>7. CASE k \notin SignedKinds
  <2>1. FitsIn(k, n + 1, x) <=> x \in 0 .. s * (2 * h) - 1
    BY <1>1, <1>3, <1>7, Zenon DEF FitsIn
  <2>2. x >= s * 0 <=> v >= 0
    BY <1>4
  <2>3. x >= s * (2 * h) <=> v >= 2 * h
    BY <1>3, <1>4
  <2>4. s * 0 = 0 /\ s * (2 * h) \in Int
    OBVIOUS
  <2>5. x \in 0 .. s * (2 * h) - 1 <=> v \in 0 .. 2 * h - 1
    BY <2>2, <2>3, <2>4
  <2>6. Last(k, v) <=> rest = 0
    BY <1>5, <1>7, Zenon DEF Last
  <2>7. rest = 0 <=> v \in 0 .. 2 * h - 1
    <3>1. CASE rest = 0
      BY <1>3, <1>5, <3>1
    <3>2. CASE rest >= 1
      <4>1. (2 * h) * rest >= 2 * h
        BY <1>3, <3>2
      <4> QED
        BY <1>3, <1>5, <3>2, <4>1
    <3>3. CASE rest <= -1
      <4>1. (2 * h) * rest <= -(2 * h)
        BY <1>3, <3>3
      <4> QED
        BY <1>3, <1>5, <3>3, <4>1
    <3> QED
      BY <1>5, <3>1, <3>2, <3>3
  <2> QED
    BY <2>1, <2>5, <2>6, <2>7
<1> QED
  BY <1>6, <1>7

LEMMA InitCoded == EncodingInit => Coded
BY DEF EncodingInit, Coded, CodeTypes, Kinds, Splits, Flags, Rests, NothingRead, Reads,
       LoadsWhatWasWritten

LEMMA FreshCoded ==
  ASSUME NEW v \in Int, phase' \in {"idle", "write"}, kind' \in Kinds, NoBytes(v)
  PROVE  Coded'
<1>1. CodeTypes'
  BY DEF NoBytes, CodeTypes
<1>2. Splits' /\ Flags' /\ NothingRead'
  BY DEF NoBytes, Splits, Flags, NothingRead
<1>3. QED
  BY <1>1, <1>2 DEF Coded, Rests, Reads, LoadsWhatWasWritten

LEMMA EncodableInt == ASSUME NEW k \in Kinds, NEW v \in Encodable(k) PROVE v \in Int
BY EncodingAssumption DEF Encodable

(* One pass of an encoder's loop. *)
LEMMA WriteCoded == ASSUME Coded, WriteByte PROVE Coded'
<1> DEFINE n == Len(output)
           low == LowBits(value)
           rest == Rest(value)
           end == Last(kind, value)
<1>0. /\ phase = "write" /\ n \in Nat /\ Len(values) = n + 1
      /\ values \in Seq(Int) /\ output \in Seq(Bytes)
  BY DEF Coded, CodeTypes, WriteByte
<1>a. value \in Int
  BY <1>0 DEF value
<1>b. end \in BOOLEAN
  BY DEF Last
<1>1. /\ phase = "write" /\ n \in Nat /\ Len(values) = n + 1
      /\ values \in Seq(Int) /\ output \in Seq(Bytes) /\ value \in Int
      /\ end \in BOOLEAN
  BY <1>0, <1>a, <1>b
<1>2. low \in 0 .. Group - 1 /\ rest \in Int /\ value = low + Group * rest
  BY <1>1, Division
<1> DEFINE byte == [bits |-> low, more |-> ~end]
<1>3. byte \in Bytes
  BY <1>1, <1>2 DEF Bytes
<1>4. /\ output' = Append(output, byte) /\ values' = Append(values, rest)
      /\ phase' = (IF end THEN "read" ELSE "write")
      /\ UNCHANGED <<kind, position, sum, weight>>
  BY DEF WriteByte
<1>5. end => rest = IF kind \in SignedKinds /\ low >= HalfGroup THEN -1 ELSE 0
  BY DEF Last
<1> HIDE DEF low, rest, end
<1>6. /\ Len(output') = n + 1 /\ Len(values') = n + 2
      /\ \A i \in 1 .. n : output'[i] = output[i]
      /\ \A i \in 1 .. n + 1 : values'[i] = values[i]
      /\ output'[n + 1] = byte /\ values'[n + 2] = rest
  BY <1>1, <1>2, <1>3, <1>4
<1>7. CodeTypes'
  BY <1>1, <1>2, <1>3, <1>4, <1>6 DEF Coded, CodeTypes
<1>8. values[n + 1] = value
  BY <1>1 DEF value
<1> HIDE DEF n, byte
<1>9. Splits'
  <2> SUFFICES ASSUME NEW i \in 1 .. (n + 1)
               PROVE  values'[i] = output'[i].bits + Group * values'[i + 1]
    BY <1>6 DEF Splits
  <2>1. CASE i \in 1 .. n
    <3>1. values[i] = output[i].bits + Group * values[i + 1]
      BY <2>1 DEF Coded, Splits, n
    <3>2. i \in 1 .. n + 1 /\ i + 1 \in 1 .. n + 1
      BY <2>1, <1>1
    <3>3. values'[i] = values[i] /\ values'[i + 1] = values[i + 1] /\ output'[i] = output[i]
      BY <2>1, <3>2, <1>6
    <3>4. QED
      BY <3>1, <3>3
  <2>2. CASE i = n + 1
    BY <2>2, <1>1, <1>2, <1>6, <1>8 DEF byte
  <2>3. QED
    BY <2>1, <2>2, <1>1
<1>10. Flags'
  <2> SUFFICES ASSUME NEW i \in 1 .. (n + 1)
               PROVE  output'[i].more <=> (i < n + 1 \/ phase' = "write")
    BY <1>6 DEF Flags
  <2>1. CASE i \in 1 .. n
    BY <2>1, <1>1, <1>6 DEF Coded, Flags, n
  <2>2. CASE i = n + 1
    <3>1. output'[i].more = ~end
      BY <2>2, <1>6 DEF byte
    <3>2. phase' = "write" <=> ~end
      BY <1>1, <1>4
    <3>3. ~(i < n + 1)
      BY <2>2, <1>1
    <3>4. QED
      BY <3>1, <3>2, <3>3, Zenon
  <2>3. QED
    BY <2>1, <2>2, <1>1
<1>11. Rests'
  BY <1>1, <1>4, <1>5, <1>6 DEF Rests, byte
<1>12. NothingRead' /\ position' = 1 /\ sum' = 0 /\ weight' = 1
  BY <1>1, <1>4 DEF Coded, NothingRead
<1>13. Reads'
  <2>1. values'[1] = 0 + 1 * values'[1]
    BY <1>7, <1>1, <1>6 DEF CodeTypes
  <2>2. QED
    BY <2>1, <1>1, <1>6, <1>12 DEF Reads, original
<1>14. LoadsWhatWasWritten'
  BY <1>1, <1>4 DEF LoadsWhatWasWritten
<1>15. QED
  BY <1>7, <1>9, <1>10, <1>11, <1>12, <1>13, <1>14 DEF Coded

(* One byte read by the engine. *)
LEMMA ReadCoded == ASSUME Coded, ReadByte PROVE Coded'
<1> DEFINE n == Len(output)
           w == weight * Group
           read == sum + Byte.bits * weight
<1>1. /\ phase = "read" /\ n \in Nat /\ Len(values) = n + 1 /\ kind \in Kinds
      /\ values \in Seq(Int) /\ output \in Seq(Bytes)
      /\ position \in 1 .. n /\ sum \in Int /\ weight \in Int /\ Group \in Int
  BY GroupFacts DEF Coded, CodeTypes, Reads, ReadByte
<1>b. Byte \in Bytes
  BY <1>1 DEF Byte
<1>2. Byte.bits \in Int /\ Byte.more \in BOOLEAN
  BY <1>b, <1>1 DEF Bytes
<1>3. /\ values[position] \in Int /\ values[position + 1] \in Int
      /\ values[position] = Byte.bits + Group * values[position + 1]
  BY <1>1 DEF Coded, Splits, Byte
<1>4. original = read + w * values[position + 1]
  <2>1. original = sum + weight * values[position]
    BY <1>1 DEF Coded, Reads
  <2>2. sum + weight * (Byte.bits + Group * values[position + 1])
          = (sum + Byte.bits * weight) + (weight * Group) * values[position + 1]
    <3> DEFINE b == Byte.bits
               r == values[position + 1]
    <3>1. b \in Int /\ r \in Int
      BY <1>2, <1>3
    <3> HIDE DEF b, r
    <3>2. sum + weight * (b + Group * r) = (sum + b * weight) + (weight * Group) * r
      BY <3>1, <1>1, ReadArithmetic
    <3>3. QED
      BY <3>2 DEF b, r
  <2>3. QED
    BY <2>1, <2>2, <1>3
<1>5. Byte.more <=> position < n
  BY <1>1 DEF Coded, Flags, Byte
<1>6. w \in Int /\ read \in Int
  BY <1>1, <1>2
<1>7. /\ weight' = w /\ position' = position + 1
      /\ sum' = read - (IF ~Byte.more /\ Extends THEN w ELSE 0)
      /\ phase' = (IF Byte.more THEN "read" ELSE "loaded")
      /\ UNCHANGED <<kind, values, output>>
  BY DEF ReadByte
<1> HIDE DEF w, read
<1>8. CodeTypes'
  <2>1. sum' \in Int
    BY <1>6, <1>7
  <2>2. QED
    BY <2>1, <1>1, <1>2, <1>6, <1>7 DEF Coded, CodeTypes
<1>9. Splits' /\ original' = original /\ Len(output') = n
  BY <1>7 DEF Coded, Splits, original
<1>10. Flags'
  BY <1>1, <1>7 DEF Coded, Flags
<1>11. Rests' /\ NothingRead'
  BY <1>1, <1>2, <1>7 DEF Coded, Rests, NothingRead
<1>12. CASE Byte.more
  <2>1. phase' = "read" /\ sum' = read /\ position < n
    BY <1>12, <1>5, <1>6, <1>7
  <2>2. Reads' /\ LoadsWhatWasWritten'
    BY <2>1, <1>1, <1>4, <1>7, <1>9 DEF Reads, LoadsWhatWasWritten
  <2>3. QED
    BY <2>2, <1>8, <1>9, <1>10, <1>11 DEF Coded
<1>13. CASE ~Byte.more
  <2>1. position = n /\ phase' = "loaded"
    BY <1>13, <1>1, <1>5, <1>7
  <2>2. values[position + 1] = IF Extends THEN -1 ELSE 0
    BY <2>1, <1>1 DEF Coded, Rests, Extends, Byte
  <2>3. w * values[position + 1] = IF Extends THEN -w ELSE 0
    BY <2>2, <1>6
  <2>4. sum' = original'
    BY <2>3, <1>13, <1>4, <1>6, <1>7, <1>9
  <2>5. Reads' /\ LoadsWhatWasWritten'
    BY <2>1, <2>4, <1>7, <1>9 DEF Reads, LoadsWhatWasWritten
  <2>6. QED
    BY <2>5, <1>8, <1>9, <1>10, <1>11 DEF Coded
<1>14. QED
  BY <1>2, <1>12, <1>13

LEMMA StepCoded == Coded /\ [EncodingNext]_encoding => Coded'
<1> SUFFICES ASSUME Coded, [EncodingNext]_encoding PROVE Coded'
  OBVIOUS
<1>1. ASSUME NEW k \in Kinds, NEW v \in Encodable(k), Encode(k, v) PROVE Coded'
  BY <1>1, EncodableInt, FreshCoded DEF Encode
<1>2. CASE WriteByte
  BY <1>2, WriteCoded
<1>3. CASE ReadByte
  BY <1>3, ReadCoded
<1>4. CASE Loaded
  BY <1>4, FreshCoded DEF Loaded, Kinds
<1>5. CASE UNCHANGED encoding
  BY <1>5 DEF encoding, Coded, CodeTypes, Splits, Flags, Rests, NothingRead, Reads,
              LoadsWhatWasWritten, original
<1>6. QED
  BY <1>1, <1>2, <1>3, <1>4, <1>5 DEF EncodingNext

-----------------------------------------------------------------------------
(* What has been written and what is left make up the integer, and the     *)
(* bytes written so far are not enough for it.                             *)
Longer ==
  phase = "write" =>
    /\ \E r \in 0 .. 2^(GroupBits * Len(output)) - 1 :
         original = r + 2^(GroupBits * Len(output)) * value
    /\ Len(output) > 0 => ~FitsIn(kind, Len(output), original)

Short == Longer /\ ShortestEncoding

LEMMA FreshShort ==
  ASSUME NEW v \in Int, phase' \in {"idle", "write"}, NoBytes(v)
  PROVE  Short'
<1>1. output' = << >> /\ values' = <<v>> /\ Len(output') = 0 /\ Len(values') = 1
  BY DEF NoBytes
<1>2. original' = v /\ value' = v
  BY <1>1 DEF original, value
<1>3. GroupBits * Len(output') = 0
  BY <1>1, EncodingAssumption
<1>4. 0 \in 0 .. 1 - 1 /\ v = 0 + 1 * v
  OBVIOUS
<1>5. \E r \in 0 .. 2^(GroupBits * Len(output')) - 1 :
         original' = r + 2^(GroupBits * Len(output')) * value'
  BY <1>2, <1>3, <1>4, PowerZero, Zenon
<1>6. ~(Len(output') > 0) /\ phase' # "read"
  BY <1>1
<1> QED
  BY <1>5, <1>6, Zenon DEF Short, Longer, ShortestEncoding

LEMMA WriteShort == ASSUME Coded, Short, WriteByte PROVE Short'
<1>1. PICK n \in Nat : n = Len(output)
  BY DEF Coded, CodeTypes
<1>2. /\ phase = "write" /\ Len(values) = n + 1 /\ values \in Seq(Int)
      /\ output \in Seq(Bytes) /\ kind' = kind
  BY <1>1 DEF Coded, CodeTypes, WriteByte
<1>3. PICK v \in Int : v = value
  BY <1>1, <1>2 DEF value
<1>4. PICK x \in Int : x = original
  BY <1>1, <1>2 DEF original
<1>5. Rest(v) \in Int /\ LowBits(v) \in 0 .. Group - 1 /\ v = LowBits(v) + Group * Rest(v)
  BY Division
<1>6. /\ values' = Append(values, Rest(v))
      /\ output' = Append(output, [bits |-> LowBits(v), more |-> ~Last(kind, v)])
      /\ phase' = IF Last(kind, v) THEN "read" ELSE "write"
  BY <1>3 DEF WriteByte
<1>7. Len(output') = n + 1 /\ value' = Rest(v) /\ original' = x
  <2>1. Len(output') = n + 1
    BY <1>1, <1>2, <1>6
  <2>2. Len(values') = n + 2 /\ values'[n + 2] = Rest(v) /\ values'[1] = values[1]
    BY <1>1, <1>2, <1>5, <1>6
  <2> QED
    BY <1>4, <2>1, <2>2 DEF value, original
<1>8. PICK s \in Nat : /\ s >= 1 /\ s = 2^(GroupBits * n)
                       /\ 2^(GroupBits * (n + 1)) = s * Group
  BY ScaleFacts
<1>9. PICK r \in 0 .. 2^(GroupBits * n) - 1 : x = r + 2^(GroupBits * n) * v
  BY <1>1, <1>2, <1>3, <1>4 DEF Short, Longer
<1>10. Last(kind, v) <=> FitsIn(kind, n + 1, x)
  BY <1>9, LastFits
<1>11. CASE Last(kind, v)
  <2>1. n + 1 - 1 = n /\ (n + 1 > 1 => n > 0)
    OBVIOUS
  <2>2. n > 0 => ~FitsIn(kind, n, x)
    BY <1>1, <1>2, <1>4 DEF Short, Longer
  <2>3. ShortestEncoding'
    <3>1. Len(output') - 1 = n /\ (Len(output') > 1 => n > 0)
      BY <1>7
    <3>2. FitsIn(kind', Len(output'), original')
      BY <1>2, <1>7, <1>10, <1>11, Zenon
    <3>3. Len(output') > 1 => ~FitsIn(kind', Len(output') - 1, original')
      BY <1>2, <1>7, <2>2, <3>1, Zenon
    <3> QED
      BY <3>2, <3>3, Zenon DEF ShortestEncoding
  <2>4. phase' # "write"
    BY <1>6, <1>11
  <2> QED
    BY <2>3, <2>4, Zenon DEF Short, Longer
<1>12. CASE ~Last(kind, v)
  <2>1. PICK low \in 0 .. Group - 1 : low = LowBits(v)
    BY <1>5
  <2>2. PICK rest \in Int : rest = Rest(v)
    BY <1>5
  <2>3. PICK g \in Nat : g = Group /\ g >= 1
    BY GroupFacts
  <2>4. r \in 0 .. s - 1 /\ low \in 0 .. g - 1 /\ x = r + s * (low + g * rest)
    BY <1>5, <1>8, <1>9, <2>1, <2>2, <2>3
  <2>5. PICK t \in Int : t = r + s * low
    BY <2>4
  <2>6. x = t + (s * g) * rest
    <3>1. s * (low + g * rest) = s * low + (s * g) * rest
      BY <2>4
    <3>2. PICK a \in Int : a = s * low
      BY <2>4
    <3>3. PICK b \in Int : b = (s * g) * rest
      OBVIOUS
    <3> QED
      BY <2>4, <2>5, <3>1, <3>2, <3>3
  <2>7. t \in 0 .. (s * g) - 1
    <3>1. PICK d \in Nat : low = g - 1 - d
      <4>1. g - 1 - low \in Nat /\ low = g - 1 - (g - 1 - low)
        BY <2>4
      <4> QED
        BY <4>1
    <3>2. s * low = s * g - s - s * d /\ s * d >= 0 /\ s * low >= 0
      BY <2>4, <3>1
    <3> QED
      BY <2>4, <2>5, <3>2
  <2>8. \E q \in 0 .. 2^(GroupBits * (n + 1)) - 1 : x = q + 2^(GroupBits * (n + 1)) * rest
    BY <1>8, <2>3, <2>6, <2>7, Zenon
  <2>9. ~FitsIn(kind, n + 1, x) /\ phase' # "read"
    BY <1>6, <1>10, <1>12
  <2> QED
    BY <1>2, <1>7, <2>2, <2>8, <2>9, Zenon DEF Short, Longer, ShortestEncoding
<1> QED
  BY <1>11, <1>12

LEMMA ReadShort == ASSUME Short, ReadByte PROVE Short'
<1>1. /\ phase = "read" /\ phase' # "write" /\ UNCHANGED <<kind, values, output>>
  BY DEF ReadByte
<1>2. original' = original
  BY <1>1 DEF original
<1> QED
  BY <1>1, <1>2, Zenon DEF Short, Longer, ShortestEncoding

LEMMA SameShort == ASSUME Short, UNCHANGED encoding PROVE Short'
BY DEF Short, Longer, ShortestEncoding, encoding, original, value

(* The engine loads the integer that encode_u32, encode_s32 or encode_s64  *)
(* was given, and takes exactly the bytes they wrote.                      *)
THEOREM ImmediatesSurvive == EncodingSpec => []LoadsWhatWasWritten
<1>1. Coded => LoadsWhatWasWritten
  BY DEF Coded
<1>2. QED
  BY <1>1, InitCoded, StepCoded, PTL DEF EncodingSpec

LEMMA InitShort == EncodingInit => Short
<1> SUFFICES ASSUME EncodingInit PROVE Short
  OBVIOUS
<1>1. phase # "write" /\ phase # "read"
  BY DEF EncodingInit
<1> QED
  BY <1>1 DEF Short, Longer, ShortestEncoding

LEMMA StepShort == Coded /\ Short /\ [EncodingNext]_encoding => Short'
<1> SUFFICES ASSUME Coded, Short, [EncodingNext]_encoding PROVE Short'
  OBVIOUS
<1>1. ASSUME NEW k \in Kinds, NEW v \in Encodable(k), Encode(k, v) PROVE Short'
  <2>1. v \in Int /\ phase' \in {"idle", "write"} /\ NoBytes(v)
    BY <1>1, EncodableInt DEF Encode
  <2> QED
    BY <2>1, FreshShort
<1>2. CASE Loaded
  <2>1. 0 \in Int /\ phase' \in {"idle", "write"} /\ NoBytes(0)
    BY <1>2 DEF Loaded
  <2> QED
    BY <2>1, FreshShort
<1> QED
  BY <1>1, <1>2, WriteShort, ReadShort, SameShort DEF EncodingNext

(* encode_u32 and _encode_signed write the fewest bytes that hold the      *)
(* integer: no last byte only repeats the sign, or is zero.                *)
THEOREM EncodingsAreShortest == EncodingSpec => []ShortestEncoding
<1>1. EncodingInit => Coded /\ Short
  BY InitCoded, InitShort
<1>2. Coded /\ Short /\ [EncodingNext]_encoding => (Coded /\ Short)'
  BY StepCoded, StepShort
<1>3. Short => ShortestEncoding
  BY DEF Short
<1>4. QED
  BY <1>1, <1>2, <1>3, PTL DEF EncodingSpec

-----------------------------------------------------------------------------
(* Remainders *)

Congruent(a, b, m) == \E k \in Int : a = b + m * k

LEMMA Remainder ==
  ASSUME NEW m \in Nat, m >= 1, NEW a \in Int
  PROVE  a % m \in 0 .. m - 1 /\ a \div m \in Int /\ a = m * (a \div m) + (a % m)
<1>1. \A g \in Int : g > 0 => /\ a % g \in 0 .. g - 1 /\ a \div g \in Int
                              /\ a = (a % g) + g * (a \div g)
  OBVIOUS
<1>2. PICK r \in Int, q \in Int : r = a % m /\ q = a \div m /\ r \in 0 .. m - 1 /\ a = r + m * q
  BY <1>1
<1>3. a = r + m * q => a = m * q + r
  <2>1. PICK p \in Int : p = m * q
    OBVIOUS
  <2> QED
    BY <2>1
<1>4. a % m \in 0 .. m - 1 /\ a \div m \in Int
  BY <1>2, Zenon
<1>5. a = m * (a \div m) + (a % m)
  BY <1>2, <1>3, Zenon
<1> QED
  BY <1>4, <1>5, Zenon

LEMMA RemainderUnique ==
  ASSUME NEW m \in Nat, m >= 1, NEW q \in Int, NEW r \in 0 .. m - 1, NEW a \in Int, a = m * q + r
  PROVE  a % m = r /\ a \div m = q
<1>1. PICK p \in Int, s \in 0 .. m - 1 : p = a \div m /\ s = a % m /\ a = m * p + s
  BY Remainder
<1>2. ~(p > q)
  <2>1. SUFFICES ASSUME p > q PROVE FALSE
    OBVIOUS
  <2>2. PICK d \in Nat : p = q + 1 + d
    <3>1. p - q - 1 \in Nat /\ p = q + 1 + (p - q - 1)
      BY <2>1
    <3> QED
      BY <3>1
  <2>3. m * p = m * q + m + m * d /\ m * d >= 0
    BY <2>2
  <2>4. m * p \in Int /\ m * q \in Int
    OBVIOUS
  <2> QED
    BY <1>1, <2>3, <2>4
<1>3. ~(q > p)
  <2>1. SUFFICES ASSUME q > p PROVE FALSE
    OBVIOUS
  <2>2. PICK d \in Nat : q = p + 1 + d
    <3>1. q - p - 1 \in Nat /\ q = p + 1 + (q - p - 1)
      BY <2>1
    <3> QED
      BY <3>1
  <2>3. m * q = m * p + m + m * d /\ m * d >= 0
    BY <2>2
  <2>4. m * p \in Int /\ m * q \in Int
    OBVIOUS
  <2> QED
    BY <1>1, <2>3, <2>4
<1>4. p = q
  BY <1>2, <1>3
<1>5. m * q \in Int
  OBVIOUS
<1> QED
  BY <1>1, <1>4, <1>5

LEMMA CongruentRemainder ==
  ASSUME NEW m \in Nat, m >= 1, NEW a \in Int
  PROVE  Congruent(a % m, a, m)
<1>1. PICK p \in Int, s \in 0 .. m - 1 : p = a \div m /\ s = a % m /\ a = m * p + s
  BY Remainder
<1>2. s = a + m * (-p) /\ -p \in Int
  BY <1>1
<1> QED
  BY <1>1, <1>2 DEF Congruent

LEMMA CongruentBack ==
  ASSUME NEW m \in Nat, NEW a \in Int, NEW b \in Int, Congruent(a, b, m)
  PROVE  Congruent(b, a, m)
<1>1. PICK k \in Int : a = b + m * k
  BY DEF Congruent
<1>2. b = a + m * (-k) /\ -k \in Int
  BY <1>1
<1> QED
  BY <1>2 DEF Congruent

LEMMA CongruentOn ==
  ASSUME NEW m \in Nat, NEW a \in Int, NEW b \in Int, NEW c \in Int,
         Congruent(a, b, m), Congruent(b, c, m)
  PROVE  Congruent(a, c, m)
<1>1. PICK k \in Int : a = b + m * k
  BY DEF Congruent
<1>2. PICK j \in Int : b = c + m * j
  BY DEF Congruent
<1>3. a = c + m * (k + j) /\ k + j \in Int
  BY <1>1, <1>2
<1> QED
  BY <1>3 DEF Congruent

LEMMA CongruentFactor ==
  ASSUME NEW m \in Nat, NEW f \in Nat, NEW a \in Int, NEW b \in Int, Congruent(a, b, m * f)
  PROVE  Congruent(a, b, m)
<1>1. PICK k \in Int : a = b + (m * f) * k
  BY DEF Congruent
<1>2. (m * f) * k = m * (f * k) /\ f * k \in Int
  OBVIOUS
<1> QED
  BY <1>1, <1>2 DEF Congruent

(* Of congruent integers one at most lies in an interval of m integers.    *)
LEMMA CongruentEqual ==
  ASSUME NEW m \in Nat, m >= 1, NEW a \in Int, NEW b \in Int, Congruent(a, b, m),
         a - b < m, b - a < m
  PROVE  a = b
<1>1. PICK k \in Int : a = b + m * k
  BY DEF Congruent
<1>2. m * k \in Int /\ m * k < m /\ -m < m * k
  BY <1>1
<1>3. ~(k >= 1)
  <2>1. k >= 1 => m * k >= m
    OBVIOUS
  <2> QED
    BY <1>2, <2>1
<1>4. ~(k <= -1)
  <2>1. SUFFICES ASSUME k <= -1 PROVE FALSE
    OBVIOUS
  <2>2. PICK d \in Nat : k = -1 - d
    <3>1. -1 - k \in Nat /\ k = -1 - (-1 - k)
      BY <2>1
    <3> QED
      BY <3>1
  <2>3. m * k = -m - m * d /\ m * d >= 0
    BY <2>2
  <2> QED
    BY <1>2, <2>3
<1>5. k = 0
  BY <1>3, <1>4
<1> QED
  BY <1>1, <1>5

LEMMA CongruentSame ==
  ASSUME NEW m \in Nat, m >= 1, NEW a \in Int, NEW b \in Int, Congruent(a, b, m)
  PROVE  a % m = b % m
<1>1. PICK r \in 0 .. m - 1 : r = a % m
  BY Remainder
<1>2. PICK s \in 0 .. m - 1 : s = b % m
  BY Remainder
<1>3. Congruent(r, a, m) /\ Congruent(s, b, m)
  BY <1>1, <1>2, CongruentRemainder
<1>4. Congruent(r, s, m)
  <2>1. Congruent(b, s, m)
    BY <1>3, CongruentBack
  <2>2. Congruent(a, s, m)
    BY <2>1, CongruentOn
  <2> QED
    BY <1>3, <2>2, CongruentOn
<1>5. r \in Int /\ s \in Int /\ r - s < m /\ s - r < m
  OBVIOUS
<1>6. r = s
  BY <1>4, <1>5, CongruentEqual
<1> QED
  BY <1>1, <1>2, <1>6

(* A smaller power of two divides a larger one. *)
LEMMA Powers ==
  ASSUME NEW m \in Nat, NEW n \in Nat, m <= n
  PROVE  /\ \E f \in Nat : f >= 1 /\ 2^n = 2^m * f /\ (m < n => f >= 2)
         /\ 2^m <= 2^n
<1>1. PICK d \in Nat : n = m + d
  <2>1. n - m \in Nat /\ n = m + (n - m)
    OBVIOUS
  <2> QED
    BY <2>1
<1>2. 2^n = 2^m * 2^d /\ 2^d \in Nat /\ 2^d >= 1 /\ 2^m \in Nat /\ 2^m >= 1
  BY <1>1, PowerOfSum, PowerOfTwo, Zenon
<1>3. m < n => 2^d >= 2
  <2>1. SUFFICES ASSUME m < n PROVE 2^d >= 2
    OBVIOUS
  <2>2. PICK e \in Nat : d = e + 1
    <3>1. d - 1 \in Nat /\ d = (d - 1) + 1
      BY <1>1, <2>1
    <3> QED
      BY <3>1
  <2>3. 2^d = 2 * 2^e /\ 2^e \in Nat /\ 2^e >= 1
    BY <2>2, PowerOfTwo, Zenon
  <2> QED
    BY <2>3
<1>4. PICK f \in Nat : f = 2^d /\ f >= 1 /\ (m < n => f >= 2)
  BY <1>2, <1>3
<1>5. PICK p \in Nat : p = 2^m
  BY <1>2
<1>6. p <= p * f
  BY <1>4
<1>7. 2^n = p * f
  BY <1>2, <1>4, <1>5, Zenon
<1>8. 2^m <= 2^n
  BY <1>5, <1>6, <1>7, Zenon
<1> QED
  BY <1>4, <1>5, <1>7, <1>8, Zenon

-----------------------------------------------------------------------------
(* Types: what wrapping, reading as an operand and normalising give *)

LEMMA Widths ==
  ASSUME NEW t \in IntTypes
  PROVE  /\ Bits(t) \in Nat /\ Bits(t) >= 1 /\ StackBits(t) \in Nat /\ StackBits(t) >= 2
         /\ Bits(t) <= StackBits(t) /\ StackBits(t) \in {WordBits, LongBits}
BY WidthAssumption DEF IntTypes, SignedTypes, UnsignedTypes, Bits, StackBits

(* The powers of two that go with a type. *)
LEMMA TypePowers ==
  ASSUME NEW t \in IntTypes
  PROVE  \E h, m, f, s, g \in Nat :
           /\ h >= 1 /\ m = 2 * h /\ f >= 1 /\ s = m * f /\ s = 2 * g /\ h <= g
           /\ h = 2^(Bits(t) - 1) /\ m = 2^Bits(t) /\ s = 2^StackBits(t)
           /\ g = 2^(StackBits(t) - 1)
           /\ Bits(t) < StackBits(t) => m <= g
<1>1. PICK b \in Nat, c \in Nat : b = Bits(t) - 1 /\ b + 1 = Bits(t)
                               /\ c = StackBits(t) - 1 /\ c + 1 = StackBits(t) /\ b <= c
                               /\ Bits(t) \in Nat /\ StackBits(t) \in Nat
                               /\ Bits(t) <= StackBits(t)
                               /\ (Bits(t) < StackBits(t) => Bits(t) <= c)
  <2>1. /\ Bits(t) \in Nat /\ Bits(t) >= 1 /\ StackBits(t) \in Nat /\ StackBits(t) >= 2
        /\ Bits(t) <= StackBits(t)
    BY Widths
  <2>2. Bits(t) - 1 \in Nat /\ StackBits(t) - 1 \in Nat
    BY <2>1
  <2> QED
    BY <2>1, <2>2
<1>2. /\ 2^b \in Nat /\ 2^b >= 1 /\ 2^Bits(t) = 2 * 2^b /\ 2^Bits(t) \in Nat
      /\ 2^c \in Nat /\ 2^c >= 1 /\ 2^StackBits(t) = 2 * 2^c /\ 2^StackBits(t) \in Nat
  BY <1>1, PowerOfTwo, Zenon
<1>3. PICK f \in Nat : f >= 1 /\ 2^StackBits(t) = 2^Bits(t) * f
  BY <1>1, Powers
<1>4. 2^b <= 2^c /\ (Bits(t) < StackBits(t) => 2^Bits(t) <= 2^c)
  BY <1>1, Powers
<1>5. PICK h \in Nat, m \in Nat, s \in Nat, g \in Nat :
         h = 2^b /\ m = 2^Bits(t) /\ s = 2^StackBits(t) /\ g = 2^c
  BY <1>2
<1>6. /\ h >= 1 /\ m = 2 * h /\ f >= 1 /\ s = m * f /\ s = 2 * g /\ h <= g
      /\ (Bits(t) < StackBits(t) => m <= g)
  BY <1>2, <1>3, <1>4, <1>5, Zenon
<1> QED
  BY <1>1, <1>5, <1>6, Zenon

LEMMA SignedFacts ==
  ASSUME NEW n \in Int, NEW bits, NEW h \in Nat, NEW m \in Nat, h >= 1, m = 2 * h,
         h = 2^(bits - 1), m = 2^bits
  PROVE  /\ Signed(n, bits) \in -h .. h - 1
         /\ Congruent(Signed(n, bits), n, m)
<1>1. PICK r \in 0 .. m - 1, q \in Int : r = (n + h) % m /\ n + h = m * q + r
  <2>1. m \in Nat /\ m >= 1 /\ n + h \in Int
    OBVIOUS
  <2>2. /\ (n + h) % m \in 0 .. m - 1 /\ (n + h) \div m \in Int
        /\ n + h = m * ((n + h) \div m) + ((n + h) % m)
    BY <2>1, Remainder, Zenon
  <2> QED
    BY <2>2, Zenon
<1>2. Signed(n, bits) = r - h
  BY <1>1 DEF Signed
<1>3. r - h \in -h .. h - 1
  OBVIOUS
<1>4. n + h = m * q + r => r - h = n + m * (-q) /\ -q \in Int
  OBVIOUS
<1> QED
  BY <1>1, <1>2, <1>3, <1>4, Zenon DEF Congruent

(* Wrapping gives the one congruent number in the range of the type.       *)
LEMMA WrapFacts ==
  ASSUME NEW t \in IntTypes, NEW n \in Int
  PROVE  /\ Wrap(t, n) \in RangeOf(t) /\ Wrap(t, n) \in Int
         /\ Congruent(Wrap(t, n), n, 2^Bits(t))
<1>1. PICK h, m \in Nat : h >= 1 /\ m = 2 * h /\ h = 2^(Bits(t) - 1) /\ m = 2^Bits(t)
  BY TypePowers
<1>2. CASE t \in SignedTypes
  <2>1. Signed(n, Bits(t)) \in -h .. h - 1 /\ Congruent(Signed(n, Bits(t)), n, m)
    BY <1>1, SignedFacts
  <2>2. RangeOf(t) = -h .. h - 1 /\ Wrap(t, n) = Signed(n, Bits(t))
    BY <1>1, <1>2 DEF RangeOf, Wrap
  <2> QED
    BY <1>1, <2>1, <2>2
<1>3. CASE t \notin SignedTypes
  <2>1. n % m \in 0 .. m - 1 /\ Congruent(n % m, n, m)
    <3>1. m \in Nat /\ m >= 1
      BY <1>1
    <3> QED
      BY <3>1, Remainder, CongruentRemainder, Zenon
  <2>2. RangeOf(t) = 0 .. m - 1 /\ Wrap(t, n) = n % m
    BY <1>1, <1>3 DEF RangeOf, Wrap, Unsigned
  <2> QED
    BY <1>1, <2>1, <2>2
<1> QED
  BY <1>2, <1>3

LEMMA RangeFacts ==
  ASSUME NEW t \in IntTypes, NEW a \in RangeOf(t)
  PROVE  /\ a \in Int
         /\ \A b \in RangeOf(t) : Congruent(a, b, 2^Bits(t)) => a = b
<1>1. PICK h, m \in Nat : h >= 1 /\ m = 2 * h /\ h = 2^(Bits(t) - 1) /\ m = 2^Bits(t)
  BY TypePowers
<1>2. CASE t \in SignedTypes
  <2>1. RangeOf(t) = -h .. h - 1
    BY <1>1, <1>2 DEF RangeOf
  <2>2. a \in Int /\ \A b \in RangeOf(t) : b \in Int /\ a - b < m /\ b - a < m
    BY <1>1, <2>1
  <2>3. m \in Nat /\ m >= 1
    BY <1>1
  <2> QED
    BY <1>1, <2>2, <2>3, CongruentEqual
<1>3. CASE t \notin SignedTypes
  <2>1. RangeOf(t) = 0 .. m - 1
    BY <1>1, <1>3 DEF RangeOf
  <2>2. a \in Int /\ \A b \in RangeOf(t) : b \in Int /\ a - b < m /\ b - a < m
    BY <1>1, <2>1
  <2>3. m \in Nat /\ m >= 1
    BY <1>1
  <2> QED
    BY <1>1, <2>2, <2>3, CongruentEqual
<1> QED
  BY <1>2, <1>3

LEMMA WrapUnique ==
  ASSUME NEW t \in IntTypes, NEW n \in Int, NEW v \in RangeOf(t), Congruent(v, n, 2^Bits(t))
  PROVE  Wrap(t, n) = v
<1>1. PICK m \in Nat : m = 2^Bits(t)
  BY TypePowers
<1>2. PICK w \in Int : w = Wrap(t, n) /\ w \in RangeOf(t) /\ Congruent(w, n, m)
  BY <1>1, WrapFacts
<1>3. v \in Int /\ Congruent(n, v, m)
  BY <1>1, RangeFacts, CongruentBack
<1>4. Congruent(w, v, m)
  BY <1>2, <1>3, CongruentOn
<1> QED
  BY <1>1, <1>2, <1>4, RangeFacts

LEMMA WrapSame ==
  ASSUME NEW t \in IntTypes, NEW a \in Int, NEW b \in Int, Congruent(a, b, 2^Bits(t))
  PROVE  Wrap(t, a) = Wrap(t, b)
<1>1. PICK m \in Nat : m = 2^Bits(t)
  BY TypePowers
<1>2. PICK w \in Int : w = Wrap(t, a) /\ w \in RangeOf(t) /\ Congruent(w, a, m)
  BY <1>1, WrapFacts
<1>3. Congruent(w, b, m)
  BY <1>1, <1>2, CongruentOn
<1> QED
  BY <1>1, <1>2, <1>3, WrapUnique

LEMMA WrapInRange ==
  ASSUME NEW t \in IntTypes, NEW n \in RangeOf(t)
  PROVE  Wrap(t, n) = n
<1>1. n \in Int /\ n = n + 2^Bits(t) * 0
  <2>1. PICK m \in Nat : m = 2^Bits(t)
    BY TypePowers
  <2>2. n \in Int
    BY RangeFacts
  <2>3. n = n + m * 0
    BY <2>2
  <2> QED
    BY <2>1, <2>2, <2>3, Zenon
<1>2. Congruent(n, n, 2^Bits(t))
  BY <1>1 DEF Congruent
<1> QED
  BY <1>1, <1>2, WrapUnique

(* A number is read back from its bits. *)
LEMMA OperandFacts ==
  ASSUME NEW t \in IntTypes, NEW n \in RangeOf(t)
  PROVE  Operand(t, Unsigned(n, StackBits(t))) = n
<1>1. PICK h, m, f, s, g \in Nat :
         /\ h >= 1 /\ m = 2 * h /\ f >= 1 /\ s = m * f /\ s = 2 * g /\ h <= g
         /\ h = 2^(Bits(t) - 1) /\ m = 2^Bits(t) /\ s = 2^StackBits(t)
         /\ g = 2^(StackBits(t) - 1)
  BY TypePowers
<1>2. n \in Int /\ s >= 1 /\ g >= 1 /\ m <= s
  BY <1>1, RangeFacts
<1>3. PICK u \in 0 .. s - 1 : u = Unsigned(n, StackBits(t)) /\ u = n % s /\ Congruent(u, n, s)
  <2>1. n % s \in 0 .. s - 1 /\ Congruent(n % s, n, s)
    BY <1>2, Remainder, CongruentRemainder, Zenon
  <2> QED
    BY <1>1, <2>1 DEF Unsigned
<1>4. CASE t \in SignedTypes
  <2>1. n \in -h .. h - 1
    BY <1>1, <1>4 DEF RangeOf
  <2>2. PICK v \in -g .. g - 1 : v = Signed(u, StackBits(t)) /\ Congruent(v, u, s)
    BY <1>1, <1>2, <1>3, SignedFacts
  <2>3. Congruent(v, n, s)
    BY <1>2, <1>3, <2>2, CongruentOn
  <2>4. v \in Int /\ v - n < s /\ n - v < s
    BY <1>1, <2>1, <2>2
  <2>5. v = n
    BY <1>2, <2>3, <2>4, CongruentEqual
  <2> QED
    BY <1>3, <1>4, <2>2, <2>5 DEF Operand
<1>5. CASE t \notin SignedTypes
  <2>1. n \in 0 .. m - 1
    BY <1>1, <1>5 DEF RangeOf
  <2>2. u - n < s /\ n - u < s /\ u \in Int
    BY <1>2, <1>3, <2>1
  <2>3. u = n
    BY <1>2, <1>3, <2>2, CongruentEqual
  <2> QED
    BY <1>3, <1>5, <2>3 DEF Operand
<1> QED
  BY <1>4, <1>5

(* The bits of a number, as naturals below the width of the stack.         *)
LEMMA UnsignedFacts ==
  ASSUME NEW t \in IntTypes, NEW a \in Int, NEW b \in Int
  PROVE  /\ Unsigned(a, StackBits(t)) \in Raws(t) /\ Unsigned(a, StackBits(t)) \in Int
         /\ Congruent(Unsigned(a, StackBits(t)), a, 2^StackBits(t))
         /\ Congruent(Unsigned(a, StackBits(t)), a, 2^Bits(t))
         /\ Congruent(a, b, 2^StackBits(t)) => Unsigned(a, StackBits(t)) = Unsigned(b, StackBits(t))
         /\ a \in Raws(t) => Unsigned(a, StackBits(t)) = a
<1>1. PICK m, f, s \in Nat :
         /\ m >= 1 /\ f >= 1 /\ s = m * f /\ s >= 1 /\ m = 2^Bits(t) /\ s = 2^StackBits(t)
  <2>1. PICK h, m, f, s, g \in Nat :
         /\ h >= 1 /\ m = 2 * h /\ f >= 1 /\ s = m * f /\ s = 2 * g /\ h <= g
         /\ m = 2^Bits(t) /\ s = 2^StackBits(t)
    BY TypePowers
  <2>2. s >= 1 /\ m >= 1
    BY <2>1
  <2> QED
    BY <2>1, <2>2
<1>2. PICK u \in 0 .. s - 1 : u = a % s /\ Congruent(u, a, s)
  BY <1>1, Remainder, CongruentRemainder, Zenon
<1>3. u \in Int /\ Congruent(u, a, m)
  BY <1>1, <1>2, CongruentFactor
<1>4. Unsigned(a, StackBits(t)) = u /\ Raws(t) = 0 .. s - 1
  BY <1>1, <1>2, Zenon DEF Unsigned, Raws
<1>5. Congruent(a, b, s) => Unsigned(a, StackBits(t)) = Unsigned(b, StackBits(t))
  BY <1>1, CongruentSame, Zenon DEF Unsigned
<1>6. a \in 0 .. s - 1 => u = a
  <2>1. SUFFICES ASSUME a \in 0 .. s - 1 PROVE u = a
    OBVIOUS
  <2>2. u - a < s /\ a - u < s
    BY <2>1
  <2> QED
    BY <1>1, <1>2, <1>3, <2>2, CongruentEqual
<1> QED
  BY <1>1, <1>2, <1>3, <1>4, <1>5, <1>6, Zenon

(* The code compiled after an operation wraps its result into the type.    *)
LEMMA NormalizedFacts ==
  ASSUME NEW t \in IntTypes, NEW n \in Int
  PROVE  Normalized(t, Unsigned(n, StackBits(t))) = Unsigned(Wrap(t, n), StackBits(t))
<1>1. PICK h, m, f, s, g \in Nat :
         /\ h >= 1 /\ m = 2 * h /\ f >= 1 /\ s = m * f /\ s = 2 * g /\ h <= g
         /\ h = 2^(Bits(t) - 1) /\ m = 2^Bits(t) /\ s = 2^StackBits(t)
         /\ g = 2^(StackBits(t) - 1)
  BY TypePowers
<1>2. PICK u \in Int : /\ u = Unsigned(n, StackBits(t)) /\ Congruent(u, n, m)
  BY <1>1, UnsignedFacts
<1>3. PICK w \in Int : w = Wrap(t, n) /\ w \in RangeOf(t) /\ Congruent(w, n, m)
  BY <1>1, WrapFacts
<1>4. Wrap(t, u) = w
  BY <1>1, <1>2, <1>3, WrapSame
<1>5. CASE Bits(t) = StackBits(t)
  <2>1. Normalized(t, u) = u
    BY <1>5 DEF Normalized
  <2>2. Congruent(w, n, s)
    BY <1>1, <1>3, <1>5
  <2>3. Unsigned(w, StackBits(t)) = Unsigned(n, StackBits(t))
    <3>1. Congruent(w, n, 2^StackBits(t))
      BY <1>1, <2>2, Zenon
    <3> QED
      BY <3>1, UnsignedFacts, Zenon
  <2> QED
    BY <1>2, <1>3, <2>1, <2>3
<1>6. CASE Bits(t) # StackBits(t) /\ t \in SignedTypes
  BY <1>2, <1>3, <1>4, <1>6 DEF Normalized, Wrap
<1>7. CASE Bits(t) # StackBits(t) /\ t \notin SignedTypes
  <2>1. Normalized(t, u) = Unsigned(u, Bits(t)) /\ Wrap(t, u) = Unsigned(u, Bits(t))
    BY <1>7 DEF Normalized, Wrap
  <2>2. w \in 0 .. m - 1 /\ m <= s
    BY <1>1, <1>3, <1>7 DEF RangeOf
  <2>3. w \in Raws(t)
    BY <1>1, <2>2 DEF Raws
  <2> QED
    BY <1>2, <1>3, <1>4, <2>1, <2>3, UnsignedFacts
<1> QED
  BY <1>5, <1>6, <1>7

(* A conversion between integer types emits instructions by the widths on  *)
(* the stack and the signedness of its source, and wraps the number.       *)
LEMMA ConvertedFacts ==
  ASSUME NEW s \in IntTypes, NEW t \in IntTypes, NEW n \in RangeOf(s)
  PROVE  Converted(s, t, Unsigned(n, StackBits(s))) = Unsigned(Wrap(t, n), StackBits(t))
<1>1. n \in Int
  BY RangeFacts
<1>2. CASE s = t
  BY <1>2, WrapInRange DEF Converted
<1>3. CASE s # t
  <2>1. FromInt(s, t, Unsigned(n, StackBits(s))) = Unsigned(n, StackBits(t))
    <3>1. t # "f64"
      BY DEF IntTypes, SignedTypes, UnsignedTypes
    <3>2. CASE StackBits(s) < StackBits(t)
      BY <3>1, <3>2, OperandFacts DEF FromInt
    <3>3. CASE ~(StackBits(s) < StackBits(t))
      <4>1. StackBits(t) <= StackBits(s) /\ StackBits(s) \in Nat /\ StackBits(t) \in Nat
        BY <3>3, Widths
      <4>2. PICK f \in Nat : 2^StackBits(s) = 2^StackBits(t) * f
        BY <4>1, Powers
      <4>3. PICK u \in Int : u = Unsigned(n, StackBits(s)) /\ Congruent(u, n, 2^StackBits(s))
        BY <1>1, UnsignedFacts
      <4>4. 2^StackBits(t) \in Nat
        BY <4>1, PowerOfTwo
      <4>5. Congruent(u, n, 2^StackBits(t))
        BY <1>1, <4>2, <4>3, <4>4, CongruentFactor
      <4>6. Unsigned(u, StackBits(t)) = Unsigned(n, StackBits(t))
        BY <1>1, <4>5, UnsignedFacts
      <4> QED
        BY <3>1, <3>3, <4>3, <4>6 DEF FromInt
    <3> QED
      BY <3>2, <3>3
  <2>2. Converted(s, t, Unsigned(n, StackBits(s))) = Normalized(t, Unsigned(n, StackBits(t)))
    BY <1>3, <2>1 DEF Converted
  <2> QED
    BY <1>1, <2>2, NormalizedFacts
<1> QED
  BY <1>2, <1>3

(* What traps is no number of any type. *)
LEMMA NoTrap ==
  ASSUME NEW t \in IntTypes
  PROVE  /\ Trap \in Int
         /\ \A n \in Int : -(2^StackBits(t)) <= n /\ n <= 2^StackBits(t) => n # Trap
<1>1. StackBits(t) \in Nat /\ LongBits \in Nat /\ StackBits(t) <= LongBits
  BY Widths, WidthAssumption
<1>2. /\ 2^StackBits(t) <= 2^LongBits /\ 2^StackBits(t) \in Nat
      /\ 2^LongBits \in Nat /\ 2^LongBits >= 1
  BY <1>1, Powers, PowerOfTwo
<1>3. 2^(LongBits + 2) = 4 * 2^LongBits
  <2>1. LongBits + 1 \in Nat /\ (LongBits + 1) + 1 = LongBits + 2
    BY <1>1
  <2>2. 2^(LongBits + 2) = 2 * 2^(LongBits + 1) /\ 2^(LongBits + 1) = 2 * 2^LongBits
    BY <1>1, <2>1, PowerOfTwo, Zenon
  <2> QED
    BY <1>2, <2>2
<1>4. PICK p \in Nat, q \in Nat : p = 2^StackBits(t) /\ q = 2^LongBits /\ p <= q /\ q >= 1
  BY <1>2
<1>5. Trap = 4 * q
  BY <1>3, <1>4 DEF Trap
<1>6. \A n \in Int : n <= p => n # 4 * q
  BY <1>4
<1> QED
  BY <1>4, <1>5, <1>6

LEMMA RangeIsSmall ==
  ASSUME NEW t \in IntTypes, NEW n \in RangeOf(t)
  PROVE  -(2^StackBits(t)) < n /\ n < 2^StackBits(t)
<1>1. PICK h, m, f, s, g \in Nat :
         /\ h >= 1 /\ m = 2 * h /\ f >= 1 /\ s = m * f /\ s = 2 * g /\ h <= g
         /\ h = 2^(Bits(t) - 1) /\ m = 2^Bits(t) /\ s = 2^StackBits(t)
  BY TypePowers
<1>2. m <= s /\ h <= s /\ s >= 1
  BY <1>1
<1>3. n \in -h .. m - 1
  BY <1>1 DEF RangeOf
<1>4. -s < n /\ n < s
  BY <1>1, <1>2, <1>3
<1> QED
  BY <1>1, <1>4

-----------------------------------------------------------------------------
(* Bits *)

LEMMA BitwiseFacts ==
  ASSUME NEW op, NEW l \in Int, NEW r \in Int, NEW n \in Nat
  PROVE  /\ Bitwise(op, l, r, n) \in Int
         /\ Bitwise(op, l, r, 0) = 0
         /\ Bitwise(op, l, r, n + 1) =
              Bitwise(op, l, r, n) + (IF Holds(op, Bit(l, n) + Bit(r, n)) THEN 2^n ELSE 0)
<1> DEFINE term == [i \in Nat |-> IF Holds(op, Bit(l, i) + Bit(r, i)) THEN 2^i ELSE 0]
           Step(g, i) == IF i = 0 THEN 0
                         ELSE g[i - 1]
                                + (IF Holds(op, Bit(l, i - 1) + Bit(r, i - 1)) THEN 2^(i - 1) ELSE 0)
           sums == CHOOSE g : g = [i \in Nat |-> Step(g, i)]
<1>1. term \in [Nat -> Int]
  <2>1. \A i \in Nat : 2^i \in Int
    BY PowerOfTwo
  <2> QED
    BY <2>1
<1>2. PICK g \in [Nat -> Int] : g = [i \in Nat |-> IF i = 0 THEN 0 ELSE g[i - 1] + term[i - 1]]
  <2> HIDE DEF term
  <2> QED
    BY <1>1, Sums, Zenon
<1>3. g = [i \in Nat |-> Step(g, i)]
  <2>1. ASSUME NEW i \in Nat
        PROVE  (IF i = 0 THEN 0 ELSE g[i - 1] + term[i - 1]) = Step(g, i)
    <3>1. CASE i = 0
      BY <3>1
    <3>2. CASE i # 0
      <4>1. i - 1 \in Nat
        BY <3>2
      <4>2. term[i - 1] = IF Holds(op, Bit(l, i - 1) + Bit(r, i - 1)) THEN 2^(i - 1) ELSE 0
        BY <4>1, Zenon
      <4> HIDE DEF term
      <4> QED
        BY <3>2, <4>2, Zenon
    <3> QED
      BY <3>1, <3>2
  <2> HIDE DEF term, Step
  <2> QED
    BY <1>2, <2>1
<1>4. sums = [i \in Nat |-> Step(sums, i)]
  <2> HIDE DEF Step
  <2> QED
    BY <1>3, Zenon
<1>5. \A k : Bitwise(op, l, r, k) = sums[k]
  BY DEF Bitwise
<1> HIDE DEF sums
<1>6. \A i \in Nat : sums[i] = Step(sums, i)
  <2> HIDE DEF Step
  <2> QED
    BY <1>4
<1>7. sums[0] = 0 /\ \A i \in Nat : sums[i + 1] = sums[i] + term[i]
  <2>1. sums[0] = 0
    BY <1>6
  <2>2. ASSUME NEW i \in Nat PROVE sums[i + 1] = sums[i] + term[i]
    <3>1. i + 1 \in Nat /\ i + 1 # 0 /\ i + 1 - 1 = i
      OBVIOUS
    <3>2. term[i] = IF Holds(op, Bit(l, i) + Bit(r, i)) THEN 2^i ELSE 0
      BY Zenon
    <3>3. Step(sums, i + 1) = sums[i] + (IF Holds(op, Bit(l, i) + Bit(r, i)) THEN 2^i ELSE 0)
      <4>1. PICK j \in Nat : j = i + 1 /\ j # 0 /\ j - 1 = i
        BY <3>1
      <4>2. Step(sums, j) =
              sums[j - 1] + (IF Holds(op, Bit(l, j - 1) + Bit(r, j - 1)) THEN 2^(j - 1) ELSE 0)
        BY <4>1, Zenon
      <4> HIDE DEF term, Step
      <4> QED
        BY <4>1, <4>2, Zenon
    <3> HIDE DEF term, Step
    <3> QED
      BY <1>6, <3>1, <3>2, <3>3, Zenon
  <2> QED
    BY <2>1, <2>2
<1> DEFINE Ints == {i \in Nat : sums[i] \in Int}
<1>8. Nat \subseteq Ints
  <2>1. 0 \in Ints
    BY <1>7
  <2>2. \A i \in Nat : i \in Ints => i + 1 \in Ints
    <3> HIDE DEF term
    <3> QED
      BY <1>1, <1>7
  <2> HIDE DEF Ints
  <2> QED
    BY <2>1, <2>2, SetInduction
<1>9. /\ sums[n] \in Int
      /\ sums[n + 1] = sums[n] + (IF Holds(op, Bit(l, n) + Bit(r, n)) THEN 2^n ELSE 0)
  <2>1. term[n] = IF Holds(op, Bit(l, n) + Bit(r, n)) THEN 2^n ELSE 0
    BY Zenon
  <2>2. sums[n + 1] = sums[n] + term[n] /\ sums[n] \in Int
    <3> HIDE DEF term
    <3> QED
      BY <1>7, <1>8
  <2> HIDE DEF term
  <2> QED
    BY <2>1, <2>2, Zenon
<1> QED
  BY <1>5, <1>7, <1>9, Zenon

(* The lowest n + 1 bits of a number are its lowest n and one more.        *)
LEMMA NextBit ==
  ASSUME NEW l \in Int, NEW n \in Nat
  PROVE  /\ Bit(l, n) \in {0, 1}
         /\ l % 2^(n + 1) = (l % 2^n) + (IF Bit(l, n) = 1 THEN 2^n ELSE 0)
<1>1. PICK p \in Nat : p = 2^n /\ p >= 1 /\ 2^(n + 1) = 2 * p
  BY PowerOfTwo
<1>2. PICK q \in Int, r \in 0 .. p - 1 : q = l \div p /\ r = l % p /\ l = p * q + r
  BY <1>1, Remainder
<1>3. PICK j \in Int, b \in 0 .. 1 : b = q % 2 /\ q = 2 * j + b
  <2>1. q % 2 \in 0 .. 2 - 1 /\ q \div 2 \in Int /\ q = 2 * (q \div 2) + (q % 2)
    <3>1. 2 \in Nat /\ 2 >= 1
      OBVIOUS
    <3> QED
      BY <3>1, Remainder, Zenon
  <2>2. 0 .. 2 - 1 = 0 .. 1
    OBVIOUS
  <2> QED
    BY <2>1, <2>2, Zenon
<1>4. Bit(l, n) = b
  BY <1>1, <1>2, <1>3, Zenon DEF Bit
<1>5. PICK u \in 0 .. 2 * p - 1 : u = r + (IF b = 1 THEN p ELSE 0) /\ l = (2 * p) * j + u
  <2>1. CASE b = 0
    <3>1. r \in 0 .. 2 * p - 1
      BY <1>1
    <3>4. q = 2 * j
      BY <1>3, <2>1
    <3>5. l = p * (2 * j) + r
      BY <1>2, <3>4, Zenon
    <3>2. p * (2 * j) = (2 * p) * j
      OBVIOUS
    <3>3. PICK x \in Int : x = (2 * p) * j /\ l = x + r
      BY <3>2, <3>5
    <3> QED
      BY <2>1, <3>1, <3>3
  <2>2. CASE b = 1
    <3>1. r + p \in 0 .. 2 * p - 1
      BY <1>1
    <3>2. l = p * (2 * j + 1) + r
      BY <1>2, <1>3, <2>2
    <3>3. p * (2 * j + 1) = (2 * p) * j + p
      OBVIOUS
    <3>4. l = (2 * p) * j + (r + p)
      <4>1. PICK x \in Int : x = (2 * p) * j
        OBVIOUS
      <4> QED
        BY <3>2, <3>3, <4>1
    <3> QED
      BY <2>2, <3>1, <3>4
  <2> QED
    BY <2>1, <2>2
<1>6. l % (2 * p) = u
  <2>1. PICK m \in Nat : m = 2 * p /\ m >= 1
    BY <1>1
  <2>2. u \in 0 .. m - 1 /\ l = m * j + u
    BY <1>5, <2>1
  <2>3. l % m = u
    BY <2>1, <2>2, RemainderUnique, ZenonT(40)
  <2> QED
    BY <2>1, <2>3
<1>7. Bit(l, n) \in {0, 1}
  BY <1>4
<1>8. l % 2^(n + 1) = u /\ l % 2^n = r
  BY <1>1, <1>2, <1>6, Zenon
<1> QED
  BY <1>1, <1>4, <1>5, <1>7, <1>8, Zenon

(* The exclusive or with a number whose lowest k bits are ones turns the   *)
(* lowest bits around.                                                     *)
LEMMA XorOnes ==
  ASSUME NEW l \in Int, NEW r \in Int, NEW k \in Nat, \A i \in 0 .. k - 1 : Bit(r, i) = 1
  PROVE  \A n \in 0 .. k : Bitwise("xor", l, r, n) = 2^n - 1 - (l % 2^n)
<1> DEFINE T == {n \in Nat : n <= k => Bitwise("xor", l, r, n) = 2^n - 1 - (l % 2^n)}
<1>1. 0 \in T
  <2>1. l % 2^0 = 0
    <3>1. l % 1 = 0
      <4>1. l % 1 \in 0 .. 1 - 1
        BY Remainder
      <4> QED
        BY <4>1
    <3> QED
      BY <3>1, PowerZero, Zenon
  <2>2. Bitwise("xor", l, r, 0) = 0
    BY BitwiseFacts
  <2> QED
    BY <2>1, <2>2, PowerZero
<1>2. ASSUME NEW n \in Nat, n \in T PROVE n + 1 \in T
  <2>1. SUFFICES ASSUME n + 1 <= k
                 PROVE  Bitwise("xor", l, r, n + 1) = 2^(n + 1) - 1 - (l % 2^(n + 1))
    OBVIOUS
  <2>2. PICK p \in Nat : p = 2^n /\ p >= 1 /\ 2^(n + 1) = 2 * p
    BY PowerOfTwo
  <2>3. PICK x \in Int : x = l % p
    <3>1. l % p \in 0 .. p - 1
      BY <2>2, Remainder, Zenon
    <3> QED
      BY <3>1
  <2>4. Bitwise("xor", l, r, n) = p - 1 - x
    BY <1>2, <2>1, <2>2, <2>3
  <2>5. PICK b \in {0, 1} : b = Bit(l, n)
    BY NextBit
  <2>6. l % (2 * p) = x + (IF b = 1 THEN p ELSE 0)
    BY <2>2, <2>3, <2>5, NextBit, Zenon
  <2>7. Bit(r, n) = 1
    BY <2>1
  <2>8. Holds("xor", b + 1) <=> b = 0
    BY DEF Holds
  <2>9. Bitwise("xor", l, r, n + 1) =
          Bitwise("xor", l, r, n) + (IF Holds("xor", b + 1) THEN p ELSE 0)
    <3>1. Bitwise("xor", l, r, n + 1) =
            Bitwise("xor", l, r, n) + (IF Holds("xor", Bit(l, n) + Bit(r, n)) THEN 2^n ELSE 0)
      BY BitwiseFacts
    <3> QED
      BY <2>2, <2>5, <2>7, <3>1, Zenon
  <2>10. (p - 1 - x) + (IF b = 0 THEN p ELSE 0) = 2 * p - 1 - (x + (IF b = 1 THEN p ELSE 0))
    OBVIOUS
  <2> QED
    BY <2>2, <2>4, <2>6, <2>8, <2>9, <2>10, Zenon
<1>3. Nat \subseteq T
  <2> HIDE DEF T
  <2> QED
    BY <1>1, <1>2, SetInduction
<1> QED
  BY <1>3

NoBitsFrom(l, k) == \A i \in Nat : i >= k => Bit(l, i) = 0

(* Above the bits of both numbers there are none in the result.            *)
LEMMA XorAbove ==
  ASSUME NEW l \in Int, NEW r \in Int, NEW k \in Nat, NEW n \in Nat, n >= k,
         NoBitsFrom(l, k), NoBitsFrom(r, k)
  PROVE  Bitwise("xor", l, r, n) = Bitwise("xor", l, r, k)
<1> DEFINE T == {d \in Nat : Bitwise("xor", l, r, k + d) = Bitwise("xor", l, r, k)}
<1>1. 0 \in T
  BY k + 0 = k
<1>2. ASSUME NEW d \in Nat, d \in T PROVE d + 1 \in T
  <2>1. k + d \in Nat /\ k + d >= k /\ k + (d + 1) = (k + d) + 1
    OBVIOUS
  <2>2. Bit(l, k + d) + Bit(r, k + d) = 0
    BY <2>1 DEF NoBitsFrom
  <2>3. ~Holds("xor", 0)
    BY DEF Holds
  <2>4. Bitwise("xor", l, r, (k + d) + 1) = Bitwise("xor", l, r, k + d) + 0
    BY <2>1, <2>2, <2>3, BitwiseFacts, Zenon
  <2>5. Bitwise("xor", l, r, k + d) \in Int
    BY <2>1, BitwiseFacts
  <2>6. \A x \in Int : x + 0 = x
    OBVIOUS
  <2>7. Bitwise("xor", l, r, k + (d + 1)) = Bitwise("xor", l, r, k + d)
    BY <2>1, <2>4, <2>5, <2>6, Zenon
  <2> QED
    BY <1>2, <2>7
<1>3. Nat \subseteq T
  <2> HIDE DEF T
  <2> QED
    BY <1>1, <1>2, SetInduction
<1>4. n - k \in Nat /\ k + (n - k) = n
  OBVIOUS
<1>5. n - k \in T
  BY <1>3, <1>4
<1> QED
  BY <1>4, <1>5

LEMMA OnesOfMinus ==
  ASSUME NEW i \in Nat
  PROVE  Bit(-1, i) = 1
<1>1. PICK p \in Nat : p = 2^i /\ p >= 1
  BY PowerOfTwo
<1>2. PICK a \in Int : a = -1 /\ p - 1 \in 0 .. p - 1 /\ a = p * a + (p - 1)
  BY <1>1
<1>3. a \div p = a
  BY <1>1, <1>2, RemainderUnique
<1>4. a % 2 = 1
  <2>1. a = 2 * a + 1 /\ 1 \in 0 .. 2 - 1
    BY <1>2
  <2> QED
    BY <2>1, RemainderUnique
<1> QED
  BY <1>1, <1>2, <1>3, <1>4, Zenon DEF Bit

LEMMA OnesOfMask ==
  ASSUME NEW k \in Nat, NEW i \in 0 .. k - 1
  PROVE  Bit(2^k - 1, i) = 1
<1>1. PICK d \in Nat : k = (i + 1) + d /\ i \in Nat /\ i + 1 \in Nat
  <2>1. k - i - 1 \in Nat /\ k = (i + 1) + (k - i - 1)
    OBVIOUS
  <2> QED
    BY <2>1
<1>2. 2^k = 2^(i + 1) * 2^d /\ 2^(i + 1) = 2 * 2^i
  BY <1>1, PowerOfSum, PowerOfTwo, Zenon
<1>3. PICK p \in Nat, e \in Nat : p = 2^i /\ e = 2^d /\ p >= 1 /\ e >= 1
  BY <1>1, PowerOfTwo
<1>4. PICK m \in Int : m = 2^k - 1 /\ m = (2 * p) * e - 1
  BY <1>2, <1>3
<1>5. m = p * (2 * e - 1) + (p - 1) /\ p - 1 \in 0 .. p - 1 /\ 2 * e - 1 \in Int
  <2>1. p * (2 * e - 1) = (2 * p) * e - p /\ (2 * p) * e \in Int
    OBVIOUS
  <2> QED
    BY <1>3, <1>4, <2>1
<1>6. m \div p = 2 * e - 1
  BY <1>3, <1>5, RemainderUnique
<1>7. (2 * e - 1) % 2 = 1
  <2>1. PICK a \in Int : a = 2 * e - 1 /\ a = 2 * (e - 1) + 1 /\ 1 \in 0 .. 2 - 1 /\ e - 1 \in Int
    OBVIOUS
  <2>2. a % 2 = 1
    BY <2>1, RemainderUnique
  <2> QED
    BY <2>1, <2>2
<1> QED
  BY <1>3, <1>4, <1>6, <1>7, Zenon DEF Bit

LEMMA NoBitsAbove ==
  ASSUME NEW k \in Nat, NEW l \in 0 .. 2^k - 1, NEW i \in Nat, i >= k
  PROVE  Bit(l, i) = 0
<1>1. PICK m \in Nat : m = 2^k
  BY PowerOfTwo
<1>2. PICK p \in Nat : p = 2^i /\ m <= p
  BY <1>1, PowerOfTwo, Powers
<1>3. l \in Int /\ l \in 0 .. p - 1 /\ p >= 1 /\ l = p * 0 + l
  BY <1>1, <1>2
<1>4. l \div p = 0
  BY <1>3, RemainderUnique
<1>5. 0 % 2 = 0
  <2>1. 0 = 2 * 0 + 0 /\ 0 \in 0 .. 2 - 1
    OBVIOUS
  <2> QED
    BY <2>1, RemainderUnique
<1> QED
  BY <1>2, <1>4, <1>5, Zenon DEF Bit

-----------------------------------------------------------------------------
(* Instructions *)

LEMMA QuotientInt ==
  ASSUME NEW l \in Int, NEW r \in Int, r # 0
  PROVE  Quotient(l, r) \in Int
<1>1. Magnitude(l) \in Int /\ Magnitude(r) \in Nat /\ Magnitude(r) >= 1
  BY DEF Magnitude
<1>2. PICK q \in Int : q = Magnitude(l) \div Magnitude(r)
  BY <1>1, Remainder
<1>3. -q \in Int
  OBVIOUS
<1> QED
  BY <1>2, <1>3 DEF Quotient

LEMMA ArithmeticInt ==
  ASSUME NEW op, NEW t \in IntTypes, NEW l \in Int, NEW r \in Int
  PROVE  Arithmetic(op, l, r, StackBits(t)) \in Int
<1>1. PICK b \in Nat : b = StackBits(t) /\ b >= 1
  BY Widths
<1>2. Trap \in Int
  BY NoTrap
<1>3. PICK p \in Nat : p = 2^(r % b) /\ p >= 1
  <2>1. r % b \in 0 .. b - 1
    BY <1>1, Remainder
  <2>2. r % b \in Nat
    BY <2>1
  <2> QED
    BY <2>2, PowerOfTwo
<1>4. Bitwise(op, l, r, b) \in Int
  BY <1>1, BitwiseFacts
<1>5. CASE op \in {"add", "sub", "mul"}
  BY <1>5 DEF Arithmetic
<1>6. CASE op = "div"
  BY <1>2, <1>6, QuotientInt DEF Arithmetic
<1>7. CASE op = "rem"
  <2>1. CASE r = 0
    BY <1>2, <1>7, <2>1 DEF Arithmetic
  <2>2. CASE r # 0
    <3>1. PICK q \in Int : q = Quotient(l, r)
      BY <2>2, QuotientInt
    <3>2. l - r * q \in Int
      OBVIOUS
    <3> QED
      BY <1>7, <2>2, <3>1, <3>2 DEF Arithmetic
  <2> QED
    BY <2>1, <2>2
<1>8. CASE op = "shl"
  <2>1. l * p \in Int
    OBVIOUS
  <2> QED
    BY <1>1, <1>3, <1>8, <2>1 DEF Arithmetic
<1>9. CASE op = "shr"
  <2>1. l \div p \in Int
    BY <1>3, Remainder
  <2> QED
    BY <1>1, <1>3, <1>9, <2>1 DEF Arithmetic
<1>10. CASE op \notin {"add", "sub", "mul", "div", "rem", "shl", "shr"}
  BY <1>1, <1>4, <1>10 DEF Arithmetic
<1> QED
  BY <1>5, <1>6, <1>7, <1>8, <1>9, <1>10

(* An instruction on the bits of two numbers gives the bits of the wrapped *)
(* result, or traps as the operation does.                                 *)
LEMMA InstructionFacts ==
  ASSUME NEW op, NEW t \in IntTypes, NEW l \in RangeOf(t), NEW r \in RangeOf(t)
  PROVE  BinaryInstruction(op, t, Unsigned(l, StackBits(t)), Unsigned(r, StackBits(t)))
           = IF Arithmetic(op, l, r, StackBits(t)) = Trap THEN Trap
             ELSE Unsigned(Wrap(t, Arithmetic(op, l, r, StackBits(t))), StackBits(t))
<1>1. l \in Int /\ r \in Int
  BY RangeFacts
<1>2. PICK x \in Int : x = Arithmetic(op, l, r, StackBits(t))
  BY <1>1, ArithmeticInt
<1>3. Normalized(t, Unsigned(x, StackBits(t))) = Unsigned(Wrap(t, x), StackBits(t))
  BY NormalizedFacts
<1>4. /\ Operand(t, Unsigned(l, StackBits(t))) = l
      /\ Operand(t, Unsigned(r, StackBits(t))) = r
  BY OperandFacts
<1> QED
  BY <1>2, <1>3, <1>4, Zenon DEF BinaryInstruction

(* 0 - x negates, in a signed and in an unsigned type.                     *)
LEMMA NegateFacts ==
  ASSUME NEW t \in IntTypes, NEW n \in RangeOf(t)
  PROVE  BinaryInstruction("sub", t, 0, Unsigned(n, StackBits(t)))
           = Unsigned(Wrap(t, -n), StackBits(t))
<1>1. n \in Int /\ 0 \in RangeOf(t) /\ 0 \in Raws(t)
  <2>1. PICK h, m, f, s, g \in Nat :
         /\ h >= 1 /\ m = 2 * h /\ f >= 1 /\ s = m * f /\ s = 2 * g /\ h <= g
         /\ h = 2^(Bits(t) - 1) /\ m = 2^Bits(t) /\ s = 2^StackBits(t)
    BY TypePowers
  <2>2. RangeOf(t) = (IF t \in SignedTypes THEN -h .. h - 1 ELSE 0 .. m - 1)
    BY <2>1, Zenon DEF RangeOf
  <2>3. 0 \in -h .. h - 1 /\ 0 \in 0 .. m - 1 /\ 0 \in 0 .. s - 1
    BY <2>1
  <2>4. 0 \in Raws(t)
    BY <2>1, <2>3, Zenon DEF Raws
  <2> QED
    BY <2>2, <2>3, <2>4, RangeFacts, Zenon
<1>2. Unsigned(0, StackBits(t)) = 0
  BY <1>1, UnsignedFacts
<1>3. Arithmetic("sub", 0, n, StackBits(t)) = -n
  BY <1>1 DEF Arithmetic
<1>4. -n # Trap
  <2>1. PICK s \in Nat : s = 2^StackBits(t)
    BY TypePowers
  <2>2. -s < n /\ n < s
    BY <1>1, <2>1, RangeIsSmall
  <2>3. -n \in Int /\ -s <= -n /\ -n <= s
    BY <1>1, <2>2
  <2> QED
    BY <2>1, <2>3, NoTrap
<1> QED
  BY <1>1, <1>2, <1>3, <1>4, InstructionFacts

(* x ^ -1 and, for an unsigned type, x ^ (2^bits - 1) invert x.            *)
LEMMA InvertFacts ==
  ASSUME NEW t \in IntTypes, NEW n \in RangeOf(t), NEW ones \in Int,
         ones = IF t \in SignedTypes THEN -1 ELSE 2^Bits(t) - 1
  PROVE  BinaryInstruction("xor", t, Unsigned(n, StackBits(t)), Unsigned(ones, StackBits(t)))
           = Unsigned(Wrap(t, -n - 1), StackBits(t))
<1>1. PICK h, m, f, s, g \in Nat :
         /\ h >= 1 /\ m = 2 * h /\ f >= 1 /\ s = m * f /\ s = 2 * g /\ h <= g
         /\ h = 2^(Bits(t) - 1) /\ m = 2^Bits(t) /\ s = 2^StackBits(t)
  BY TypePowers
<1>2. n \in Int /\ m >= 1 /\ s >= 1 /\ m <= s
  BY <1>1, RangeFacts
<1>3. PICK b \in Nat, c \in Nat : b = Bits(t) /\ c = StackBits(t) /\ b <= c
  BY Widths
<1>4. ones \in RangeOf(t)
  <2>1. RangeOf(t) = IF t \in SignedTypes THEN -h .. h - 1 ELSE 0 .. m - 1
    BY <1>1, Zenon DEF RangeOf
  <2>2. -1 \in -h .. h - 1 /\ m - 1 \in 0 .. m - 1
    BY <1>1, <1>2
  <2> QED
    BY <1>1, <2>1, <2>2, Zenon
<1>5. PICK x \in Int : /\ x = Arithmetic("xor", n, ones, c)
                       /\ x = Bitwise("xor", n, ones, c)
  <2>1. Arithmetic("xor", n, ones, c) = Bitwise("xor", n, ones, c)
    BY DEF Arithmetic
  <2> QED
    BY <1>2, <1>3, <2>1, BitwiseFacts
<1>6. Congruent(x, -n - 1, m) /\ 0 <= x /\ x <= s
  <2>1. CASE t \in SignedTypes
    <3>1. \A i \in 0 .. c - 1 : Bit(ones, i) = 1
      BY <2>1, OnesOfMinus
    <3>2. Bitwise("xor", n, ones, c) = 2^c - 1 - (n % 2^c)
      <4>1. c \in 0 .. c
        OBVIOUS
      <4>2. \A j \in 0 .. c : Bitwise("xor", n, ones, j) = 2^j - 1 - (n % 2^j)
        BY <1>2, <3>1, XorOnes, Zenon
      <4> QED
        BY <4>1, <4>2, Zenon
    <3>3. PICK r \in 0 .. s - 1, q \in Int : r = n % s /\ n = s * q + r
      <4>1. n % s \in 0 .. s - 1 /\ n \div s \in Int /\ n = s * (n \div s) + (n % s)
        BY <1>1, <1>2, Remainder
      <4> QED
        BY <4>1, Zenon
    <3>4. x = s - 1 - r
      BY <1>1, <1>3, <1>5, <3>2, <3>3, Zenon
    <3>5. x = (-n - 1) + m * (f * (q + 1)) /\ f * (q + 1) \in Int
      <4>1. m * (f * (q + 1)) = (m * f) * (q + 1) /\ f * (q + 1) \in Int
        OBVIOUS
      <4>2. s * (q + 1) = s * q + s
        OBVIOUS
      <4>3. PICK y \in Int : y = s * q /\ n = y + r
        <5>1. s * q \in Int
          OBVIOUS
        <5> QED
          BY <3>3, <5>1, Zenon
      <4>4. m * (f * (q + 1)) = y + s
        BY <1>1, <4>1, <4>2, <4>3, Zenon
      <4>5. s - 1 - r = (-n - 1) + (y + s)
        BY <4>3
      <4> QED
        BY <3>4, <4>1, <4>4, <4>5, Zenon
    <3>6. Congruent(x, -n - 1, m)
      BY <3>5, Zenon DEF Congruent
    <3>7. 0 <= x /\ x <= s
      BY <3>4
    <3> QED
      BY <3>6, <3>7
  <2>2. CASE t \notin SignedTypes
    <3>1. ones = m - 1 /\ n \in 0 .. m - 1
      BY <1>1, <2>2 DEF RangeOf
    <3>2. \A i \in 0 .. b - 1 : Bit(ones, i) = 1
      BY <1>1, <1>3, <3>1, OnesOfMask, Zenon
    <3>3. Bitwise("xor", n, ones, b) = 2^b - 1 - (n % 2^b)
      <4>1. b \in 0 .. b
        OBVIOUS
      <4>2. \A j \in 0 .. b : Bitwise("xor", n, ones, j) = 2^j - 1 - (n % 2^j)
        BY <1>2, <3>2, XorOnes, Zenon
      <4> QED
        BY <4>1, <4>2, Zenon
    <3>4. n \in 0 .. 2^b - 1 /\ ones \in 0 .. 2^b - 1
      BY <1>1, <1>2, <1>3, <3>1
    <3>5. NoBitsFrom(n, b) /\ NoBitsFrom(ones, b)
      BY <3>4, NoBitsAbove DEF NoBitsFrom
    <3>6. x = 2^b - 1 - (n % 2^b)
      <4>1. c >= b /\ n \in Int
        BY <1>2, <1>3
      <4>2. Bitwise("xor", n, ones, c) = Bitwise("xor", n, ones, b)
        BY <3>5, <4>1, XorAbove
      <4> QED
        BY <1>5, <3>3, <4>2, Zenon
    <3>7. n % m = n
      <4>1. n = m * 0 + n
        BY <1>2
      <4> QED
        BY <1>2, <3>1, <4>1, RemainderUnique
    <3>8. x = m - 1 - n
      BY <1>1, <1>3, <3>6, <3>7, Zenon
    <3>9. m - 1 - n = (-n - 1) + m * 1
      BY <1>2
    <3>10. Congruent(x, -n - 1, m)
      <4>1. 1 \in Int
        OBVIOUS
      <4> QED
        BY <3>8, <3>9, <4>1, Zenon DEF Congruent
    <3> QED
      BY <1>2, <3>1, <3>8, <3>10
  <2> QED
    BY <2>1, <2>2
<1>7. x # Trap
  <2>1. -s <= x /\ x <= s
    BY <1>6
  <2> QED
    BY <1>1, <2>1, NoTrap
<1>8. Wrap(t, x) = Wrap(t, -n - 1)
  <2>1. -n - 1 \in Int
    BY <1>2
  <2> QED
    BY <1>1, <1>6, <2>1, WrapSame
<1>9. BinaryInstruction("xor", t, Unsigned(n, StackBits(t)), Unsigned(ones, StackBits(t)))
        = IF x = Trap THEN Trap ELSE Unsigned(Wrap(t, x), StackBits(t))
  BY <1>3, <1>4, <1>5, InstructionFacts
<1> QED
  BY <1>7, <1>8, <1>9

-----------------------------------------------------------------------------
(* The inductive invariant *)

(* An expression's bits stand for its number, which is one of its type.    *)
Meant(v) ==
  /\ v.type \in Types /\ v.number \in Int
  /\ v.raw = IF v.number = Trap THEN Trap
             ELSE IF v.type = "f64" THEN v.number
             ELSE Unsigned(v.number, StackBits(v.type))
  /\ v.type = "f64" \/ v.number = Trap \/ v.number \in RangeOf(v.type)

(* A parameter keeps the host's bits, and stands for the normalised number. *)
LocalMeant ==
  /\ local.type \in IntTypes /\ local.raw \in Raws(local.type)
  /\ local.number = Wrap(local.type, local.raw)

(* While an immediate is on its way, the expression is the literal that    *)
(* was encoded, or there is none.                                          *)
TopMeant ==
  IF phase = "idle" THEN top = Nothing \/ Meant(top)
  ELSE IF kind = "u32" THEN top = Nothing
  ELSE \E t \in IntTypes : \E n \in RangeOf(t) :
         top = Value(t, 0, n) /\ original = EncodedLiteral(t, n)

IInv == Coded /\ LocalMeant /\ TopMeant

LEMMA NotFloat == ASSUME NEW t \in IntTypes PROVE t # "f64" /\ t \in Types
BY DEF IntTypes, SignedTypes, UnsignedTypes, Types

LEMMA IntMeant ==
  ASSUME NEW t \in IntTypes, NEW n \in RangeOf(t)
  PROVE  Meant(Value(t, Unsigned(n, StackBits(t)), n))
<1>1. PICK s \in Nat : s = 2^StackBits(t)
  BY TypePowers
<1>2. n \in Int /\ -s < n /\ n < s
  BY <1>1, RangeFacts, RangeIsSmall
<1>3. n # Trap
  BY <1>1, <1>2, NoTrap
<1> QED
  BY <1>2, <1>3, NotFloat DEF Meant, Value

LEMMA TrapMeant == ASSUME NEW t \in IntTypes PROVE Meant(Value(t, Trap, Trap))
BY NotFloat, NoTrap DEF Meant, Value

LEMMA FloatMeant == ASSUME NEW n \in Int PROVE Meant(Value("f64", n, n))
BY DEF Meant, Value, Types

LEMMA TopFacts ==
  ASSUME TopMeant, Evaluates
  PROVE  /\ top.type \in Types /\ top.number \in Int
         /\ top.type = "f64" => top.raw = top.number
         /\ top.type # "f64" =>
              /\ top.type \in IntTypes /\ top.number \in RangeOf(top.type)
              /\ top.raw = Unsigned(top.number, StackBits(top.type))
BY DEF TopMeant, Evaluates, Idle, Meant, Types

LEMMA BecomesInv ==
  ASSUME IInv, Idle, NEW t, NEW raw, NEW n, Becomes(t, raw, n), Meant(Value(t, raw, n))
  PROVE  IInv'
<1>1. UNCHANGED <<local, encoding>> /\ top' = Value(t, raw, n)
  BY DEF Becomes
<1>2. Coded'
  <2>1. [EncodingNext]_encoding
    BY <1>1
  <2> QED
    BY <2>1, StepCoded DEF IInv
<1>3. LocalMeant'
  BY <1>1 DEF IInv, LocalMeant
<1>4. TopMeant'
  <2>1. phase' = "idle" /\ Meant(top')
    BY <1>1 DEF Idle, encoding
  <2> QED
    BY <2>1 DEF TopMeant
<1> QED
  BY <1>2, <1>3, <1>4 DEF IInv

(* A local is normalised when it is read. *)
LEMMA LocalFacts ==
  ASSUME LocalMeant
  PROVE  /\ local.type \in IntTypes /\ local.number \in RangeOf(local.type)
         /\ Normalized(local.type, local.raw) = Unsigned(local.number, StackBits(local.type))
<1>1. PICK t \in IntTypes : t = local.type
  BY DEF LocalMeant
<1>2. PICK r \in Int : r = local.raw /\ r \in Raws(t)
  BY <1>1 DEF LocalMeant, Raws
<1>3. Unsigned(r, StackBits(t)) = r
  BY <1>2, UnsignedFacts
<1>4. Normalized(t, r) = Unsigned(Wrap(t, r), StackBits(t)) /\ Wrap(t, r) \in RangeOf(t)
  BY <1>3, NormalizedFacts, WrapFacts
<1> QED
  BY <1>1, <1>2, <1>4 DEF LocalMeant

LEMMA FloatOfInt ==
  ASSUME NEW t \in IntTypes, NEW n \in RangeOf(t)
  PROVE  Converted(t, "f64", Unsigned(n, StackBits(t))) = n
<1>1. FromInt(t, "f64", Unsigned(n, StackBits(t))) = n
  BY OperandFacts DEF FromInt
<1>2. "f64" \notin IntTypes
  BY NotFloat
<1>3. Normalized("f64", n) = n
  BY <1>2 DEF Normalized
<1> QED
  BY <1>1, <1>2, <1>3 DEF Converted

LEMMA RightFacts ==
  ASSUME LocalMeant, NEW t \in Types, t = top.type
  PROVE  IF t = "f64" THEN RightBits = RightNumber /\ RightNumber \in Int
         ELSE RightNumber \in RangeOf(t) /\ RightBits = Unsigned(RightNumber, StackBits(t))
<1>1. PICK s \in IntTypes : s = local.type
  BY LocalFacts
<1>2. PICK n \in RangeOf(s) : n = local.number
  BY <1>1, LocalFacts
<1>3. n \in Int /\ Normalized(s, local.raw) = Unsigned(n, StackBits(s))
  BY <1>1, <1>2, LocalFacts, RangeFacts
<1>4. RightBits = Converted(s, t, Unsigned(n, StackBits(s)))
  BY <1>1, <1>3 DEF RightBits
<1>5. CASE t = "f64"
  BY <1>2, <1>3, <1>4, <1>5, FloatOfInt DEF RightNumber
<1>6. CASE t # "f64"
  <2>1. t \in IntTypes /\ RightNumber = Wrap(t, n)
    BY <1>2, <1>6 DEF Types, RightNumber
  <2> QED
    BY <1>3, <1>4, <1>6, <2>1, ConvertedFacts, WrapFacts
<1> QED
  BY <1>5, <1>6

-----------------------------------------------------------------------------
(* The steps of an expression *)

LEMMA ReadLocalStep == ASSUME IInv, ReadLocal PROVE IInv'
<1>1. Idle /\ Becomes(local.type, Normalized(local.type, local.raw), local.number)
  BY DEF ReadLocal, Starts
<1>2. LocalMeant
  BY DEF IInv
<1>3. Meant(Value(local.type, Normalized(local.type, local.raw), local.number))
  BY <1>2, LocalFacts, IntMeant
<1> QED
  BY <1>1, <1>3, BecomesInv

LEMMA BinaryStep == ASSUME IInv, NEW op, Binary(op) PROVE IInv'
<1>1. PICK t \in IntTypes : t = top.type /\ t \in Types /\ t # "f64"
  BY NotFloat DEF Binary
<1>2. PICK l \in RangeOf(t) : l = top.number /\ top.raw = Unsigned(l, StackBits(t))
  BY <1>1, TopFacts DEF IInv, Binary
<1>3. PICK r \in RangeOf(t) : r = RightNumber /\ RightBits = Unsigned(r, StackBits(t))
  BY <1>1, RightFacts DEF IInv
<1>4. PICK x \in Int : x = Arithmetic(op, l, r, StackBits(t))
  BY RangeFacts, ArithmeticInt
<1>5. BinaryInstruction(op, t, top.raw, RightBits) =
        IF x = Trap THEN Trap ELSE Unsigned(Wrap(t, x), StackBits(t))
  BY <1>2, <1>3, <1>4, InstructionFacts
<1>6. /\ Idle
      /\ Becomes(t, IF x = Trap THEN Trap ELSE Unsigned(Wrap(t, x), StackBits(t)),
                 IF x = Trap THEN Trap ELSE Wrap(t, x))
  BY <1>1, <1>2, <1>3, <1>4, <1>5 DEF Binary, Evaluates, Exactly
<1>7. CASE x = Trap
  BY <1>6, <1>7, TrapMeant, BecomesInv
<1>8. CASE x # Trap
  <2>1. Meant(Value(t, Unsigned(Wrap(t, x), StackBits(t)), Wrap(t, x)))
    BY WrapFacts, IntMeant
  <2> QED
    BY <1>6, <1>8, <2>1, BecomesInv
<1> QED
  BY <1>7, <1>8

LEMMA TruthMeant == ASSUME NEW b \in {0, 1} PROVE Meant(Value("i32", b, b))
<1>1. /\ "i32" \in IntTypes /\ "i32" \in SignedTypes
      /\ Bits("i32") = WordBits /\ StackBits("i32") = WordBits
  BY DEF IntTypes, SignedTypes, Bits, StackBits
<1>2. PICK h, m, f, s, g \in Nat :
         /\ h >= 1 /\ m = 2 * h /\ f >= 1 /\ s = m * f /\ s = 2 * g /\ h <= g
         /\ h = 2^(WordBits - 1) /\ m = 2^WordBits /\ s = 2^WordBits
  <2>1. PICK h, m, f, s, g \in Nat :
           /\ h >= 1 /\ m = 2 * h /\ f >= 1 /\ s = m * f /\ s = 2 * g /\ h <= g
           /\ h = 2^(Bits("i32") - 1) /\ m = 2^Bits("i32") /\ s = 2^StackBits("i32")
    BY <1>1, TypePowers, Zenon
  <2> QED
    BY <1>1, <2>1, Zenon
<1>3. h >= 2
  <2>1. PICK k \in Nat : k + 1 = WordBits - 1
    <3>1. WordBits - 2 \in Nat /\ (WordBits - 2) + 1 = WordBits - 1
      BY WidthAssumption
    <3> QED
      BY <3>1
  <2>2. 2^(k + 1) = 2 * 2^k /\ 2^k \in Nat /\ 2^k >= 1
    BY PowerOfTwo
  <2> QED
    BY <1>2, <2>1, <2>2
<1>4. b \in -h .. h - 1 /\ b \in 0 .. s - 1
  BY <1>2, <1>3
<1>5. b \in RangeOf("i32") /\ b \in Raws("i32")
  BY <1>1, <1>2, <1>4, Zenon DEF RangeOf, Raws
<1>6. Unsigned(b, StackBits("i32")) = b
  BY <1>1, <1>5, UnsignedFacts
<1> QED
  BY <1>1, <1>5, <1>6, IntMeant

LEMMA ComparisonStep == ASSUME IInv, NEW op, Comparison(op) PROVE IInv'
<1>1. Evaluates /\ Idle /\ TopMeant /\ LocalMeant
  BY DEF Comparison, Evaluates, IInv
<1>2. PICK t \in Types : t = top.type
  BY <1>1, TopFacts
<1>3. Operand(t, top.raw) = top.number
  <2>1. CASE t = "f64"
    BY <1>1, <1>2, <2>1, TopFacts DEF Operand, SignedTypes
  <2>2. CASE t # "f64"
    BY <1>1, <1>2, <2>2, TopFacts, OperandFacts
  <2> QED
    BY <2>1, <2>2
<1>4. Operand(t, RightBits) = RightNumber
  <2>1. CASE t = "f64"
    BY <1>1, <1>2, <2>1, RightFacts DEF Operand, SignedTypes
  <2>2. CASE t # "f64"
    <3>1. t \in IntTypes
      BY <1>2, <2>2 DEF Types
    <3> QED
      BY <1>1, <1>2, <2>2, <3>1, RightFacts, OperandFacts
  <2> QED
    BY <2>1, <2>2
<1>5. PICK b \in {0, 1} : Becomes("i32", b, b)
  BY <1>2, <1>3, <1>4 DEF Comparison
<1> QED
  BY <1>1, <1>5, TruthMeant, BecomesInv

LEMMA NegateStep == ASSUME IInv, Negate PROVE IInv'
<1>1. Evaluates /\ Idle /\ TopMeant
  BY DEF Negate, Evaluates, IInv
<1>2. PICK t \in Types, n \in Int : t = top.type /\ n = top.number
  BY <1>1, TopFacts
<1>3. CASE t = "f64"
  <2>1. Becomes("f64", -n, -n) /\ -n \in Int
    BY <1>1, <1>2, <1>3, TopFacts DEF Negate
  <2> QED
    BY <1>1, <2>1, FloatMeant, BecomesInv
<1>4. CASE t # "f64"
  <2>1. t \in IntTypes /\ n \in RangeOf(t) /\ top.raw = Unsigned(n, StackBits(t))
    BY <1>1, <1>2, <1>4, TopFacts
  <2>2. PICK w \in RangeOf(t) : w = Wrap(t, -n)
    <3>1. -n \in Int
      OBVIOUS
    <3> QED
      BY <2>1, <3>1, WrapFacts
  <2>3. Becomes(t, Unsigned(w, StackBits(t)), w)
    BY <1>2, <1>4, <2>1, <2>2, NegateFacts DEF Negate
  <2> QED
    BY <1>1, <2>1, <2>3, IntMeant, BecomesInv
<1> QED
  BY <1>3, <1>4

LEMMA InvertStep == ASSUME IInv, Invert PROVE IInv'
<1>1. Evaluates /\ Idle /\ TopMeant
  BY DEF Invert, Evaluates, IInv
<1>2. PICK t \in IntTypes : t = top.type /\ t # "f64"
  BY NotFloat DEF Invert
<1>3. PICK n \in RangeOf(t) : n = top.number /\ top.raw = Unsigned(n, StackBits(t))
  BY <1>1, <1>2, TopFacts
<1>4. PICK ones \in Int : ones = IF t \in SignedTypes THEN -1 ELSE 2^Bits(t) - 1
  BY TypePowers
<1>5. PICK w \in RangeOf(t) : w = Wrap(t, -n - 1)
  <2>1. -n - 1 \in Int
    BY RangeFacts
  <2> QED
    BY <2>1, WrapFacts
<1>6. Becomes(t, Unsigned(w, StackBits(t)), w)
  BY <1>2, <1>3, <1>4, <1>5, InvertFacts DEF Invert
<1> QED
  BY <1>1, <1>6, IntMeant, BecomesInv

LEMMA CastStep == ASSUME IInv, NEW t \in Types, Cast(t) PROVE IInv'
<1>1. Evaluates /\ Idle /\ TopMeant
  BY DEF Cast, Evaluates, IInv
<1>2. PICK s \in Types, n \in Int : s = top.type /\ n = top.number
  BY <1>1, TopFacts
<1>3. CASE s # "f64"
  <2>1. s \in IntTypes /\ n \in RangeOf(s) /\ top.raw = Unsigned(n, StackBits(s))
    BY <1>1, <1>2, <1>3, TopFacts
  <2>2. CASE t = "f64"
    <3>1. Becomes("f64", n, n)
      BY <1>2, <1>3, <2>1, <2>2, FloatOfInt DEF Cast
    <3> QED
      BY <1>1, <3>1, FloatMeant, BecomesInv
  <2>3. CASE t # "f64"
    <3>1. t \in IntTypes
      BY <2>3 DEF Types
    <3>2. PICK w \in RangeOf(t) : w = Wrap(t, n)
      BY <3>1, WrapFacts
    <3>3. Becomes(t, Unsigned(w, StackBits(t)), w)
      BY <1>2, <1>3, <2>1, <2>3, <3>1, <3>2, ConvertedFacts DEF Cast
    <3> QED
      BY <1>1, <3>1, <3>3, IntMeant, BecomesInv
  <2> QED
    BY <2>2, <2>3
<1>4. CASE s = "f64"
  <2>1. top.raw = n
    BY <1>1, <1>2, <1>4, TopFacts
  <2>2. CASE t = "f64"
    <3>1. Becomes("f64", n, n)
      BY <1>2, <1>4, <2>1, <2>2 DEF Cast, Converted
    <3> QED
      BY <1>1, <3>1, FloatMeant, BecomesInv
  <2>3. CASE t # "f64"
    <3>1. t \in IntTypes /\ "f64" \notin IntTypes
      BY <2>3, NotFloat DEF Types
    <3>2. PICK w \in RangeOf(t) : w = Wrap(t, n)
      BY <3>1, WrapFacts
    <3>3. CASE Truncates(t, n)
      <4>1. Normalized(t, Unsigned(n, StackBits(t))) = Unsigned(w, StackBits(t))
        BY <3>1, <3>2, NormalizedFacts
      <4>2. Becomes(t, Unsigned(w, StackBits(t)), w)
        BY <1>2, <1>4, <2>1, <2>3, <3>1, <3>2, <3>3, <4>1 DEF Cast, Converted
      <4> QED
        BY <1>1, <3>1, <4>2, IntMeant, BecomesInv
    <3>4. CASE ~Truncates(t, n)
      <4>1. Becomes(t, Trap, Trap)
        BY <1>2, <1>4, <2>1, <2>3, <3>1, <3>4 DEF Cast, Converted
      <4> QED
        BY <1>1, <3>1, <4>1, TrapMeant, BecomesInv
    <3> QED
      BY <3>3, <3>4
  <2> QED
    BY <2>2, <2>3
<1> QED
  BY <1>3, <1>4

LEMMA StoreAndLoadStep ==
  ASSUME IInv, NEW t \in IntTypes, NEW u \in IntTypes, StoreAndLoad(t, u)
  PROVE  IInv'
<1>1. Evaluates /\ Idle /\ TopMeant /\ Bits(t) = Bits(u)
  BY DEF StoreAndLoad, Evaluates, IInv
<1>2. PICK s \in IntTypes : s = top.type /\ s # "f64"
  BY NotFloat DEF StoreAndLoad
<1>3. PICK n \in RangeOf(s) : n = top.number /\ top.raw = Unsigned(n, StackBits(s)) /\ n \in Int
  BY <1>1, <1>2, TopFacts
<1>4. PICK m \in Nat, f \in Nat : /\ m >= 1 /\ m = 2^Bits(u)
                                  /\ f >= 1 /\ 2^StackBits(u) = m * f
  BY TypePowers
<1>5. PICK y \in Int : y = Converted(s, t, top.raw) /\ Congruent(y, n, m)
  <2>1. Converted(s, t, top.raw) = Unsigned(Wrap(t, n), StackBits(t))
    BY <1>3, ConvertedFacts
  <2>2. PICK w \in Int : w = Wrap(t, n) /\ Congruent(w, n, m)
    BY <1>1, <1>3, <1>4, WrapFacts
  <2>3. PICK y \in Int : y = Unsigned(w, StackBits(t)) /\ Congruent(y, w, m)
    BY <1>1, <1>4, UnsignedFacts
  <2>4. Congruent(y, n, m)
    BY <1>3, <2>2, <2>3, CongruentOn
  <2> QED
    BY <2>1, <2>2, <2>3, <2>4
<1>6. PICK cell \in 0 .. m - 1 : cell = Unsigned(y, Bits(t)) /\ Congruent(cell, n, m)
  <2>1. PICK c \in 0 .. m - 1 : c = y % m /\ Congruent(c, y, m)
    BY <1>4, Remainder, CongruentRemainder
  <2>2. Congruent(c, n, m)
    BY <1>3, <1>5, <2>1, CongruentOn
  <2> QED
    BY <1>1, <1>4, <2>1, <2>2 DEF Unsigned
<1>7. PICK w \in RangeOf(u) : w = Wrap(u, n) /\ w = Wrap(u, cell)
  <2>1. cell \in Int /\ Congruent(cell, n, 2^Bits(u))
    BY <1>4, <1>6
  <2>2. Wrap(u, n) = Wrap(u, cell)
    BY <1>3, <2>1, WrapSame
  <2> QED
    BY <1>3, <2>2, WrapFacts
<1>8. (IF u \in SignedTypes THEN Unsigned(Signed(cell, Bits(u)), StackBits(u)) ELSE cell)
        = Unsigned(w, StackBits(u))
  <2>1. CASE u \in SignedTypes
    BY <1>7, <2>1 DEF Wrap
  <2>2. CASE u \notin SignedTypes
    <3>1. cell \in RangeOf(u)
      BY <1>4, <1>6, <2>2 DEF RangeOf
    <3>2. w = cell
      BY <1>7, <3>1, WrapInRange
    <3>3. cell \in 0 .. (m * f) - 1
      <4>1. m <= m * f
        BY <1>4
      <4> QED
        BY <1>6, <4>1
    <3>4. cell \in Raws(u) /\ cell \in Int
      BY <1>4, <3>3 DEF Raws
    <3> QED
      BY <2>2, <3>2, <3>4, UnsignedFacts
  <2> QED
    BY <2>1, <2>2
<1>9. Becomes(u, Unsigned(w, StackBits(u)), w)
  BY <1>2, <1>3, <1>5, <1>6, <1>7, <1>8, Zenon DEF StoreAndLoad
<1> QED
  BY <1>1, <1>9, IntMeant, BecomesInv

LEMMA FromHostStep ==
  ASSUME IInv, HostTyped, NEW t \in IntTypes, NEW raw \in Raws(t), FromHost(t, raw)
  PROVE  IInv'
<1>1. Idle /\ raw = Normalized(t, raw) /\ Becomes(t, raw, Wrap(t, raw))
  BY DEF FromHost, Starts
<1>2. raw \in Int
  BY DEF Raws
<1>3. raw = Unsigned(raw, StackBits(t))
  BY <1>2, UnsignedFacts
<1>4. PICK w \in RangeOf(t) : w = Wrap(t, raw) /\ raw = Unsigned(w, StackBits(t))
  BY <1>1, <1>2, <1>3, NormalizedFacts, WrapFacts
<1> QED
  BY <1>1, <1>4, IntMeant, BecomesInv

LEMMA CallIndirectStep ==
  ASSUME IInv, TablesTyped, NEW t \in IntTypes, CallIndirect(t)
  PROVE  IInv'
<1>1. Evaluates /\ Idle /\ TopMeant /\ t = top.type /\ t # "f64"
  BY NotFloat DEF CallIndirect, Evaluates, IInv
<1>2. PICK n \in RangeOf(t) : n = top.number /\ top.raw = Unsigned(n, StackBits(t))
  BY <1>1, TopFacts
<1>3. Becomes(t, Unsigned(n, StackBits(t)), n)
  BY <1>1, <1>2, WrapInRange DEF CallIndirect
<1> QED
  BY <1>1, <1>3, IntMeant, BecomesInv

-----------------------------------------------------------------------------
(* The steps of an immediate *)

(* A literal that is written as a negative number has the same bits.       *)
LEMMA EncodedFacts ==
  ASSUME NEW t \in IntTypes, NEW n \in RangeOf(t)
  PROVE  Unsigned(EncodedLiteral(t, n), StackBits(t)) = Unsigned(n, StackBits(t))
<1>1. PICK s \in Nat : s = 2^StackBits(t)
  BY TypePowers
<1>2. n \in Int
  BY RangeFacts
<1>3. CASE EncodedLiteral(t, n) = n
  BY <1>3
<1>4. CASE EncodedLiteral(t, n) = n - 2^StackBits(t)
  <2>1. PICK e \in Int : e = n - s /\ e = n + s * (-1)
    BY <1>2
  <2>2. Congruent(e, n, s)
    BY <2>1 DEF Congruent
  <2>3. Congruent(e, n, 2^StackBits(t))
    BY <1>1, <2>2
  <2>4. Unsigned(e, StackBits(t)) = Unsigned(n, StackBits(t))
    BY <1>2, <2>3, UnsignedFacts
  <2>5. e = EncodedLiteral(t, n)
    BY <1>1, <1>4, <2>1
  <2> QED
    BY <2>4, <2>5
<1> QED
  BY <1>3, <1>4 DEF EncodedLiteral

LEMMA LiteralStep ==
  ASSUME IInv, NEW t \in IntTypes, NEW n \in RangeOf(t), Literal(t, n)
  PROVE  IInv'
<1>1. PICK k \in SignedKinds : Encode(k, EncodedLiteral(t, n))
  BY DEF Literal, SignedKinds
<1>2. top' = Value(t, 0, n) /\ UNCHANGED local
  BY DEF Literal
<1>3. EncodingNext
  BY <1>1 DEF EncodingNext, Encode, Kinds, SignedKinds
<1>4. Coded' /\ LocalMeant'
  BY <1>2, <1>3, StepCoded DEF IInv, LocalMeant
<1>5. phase' = "write" /\ kind' # "u32" /\ original' = EncodedLiteral(t, n)
  BY <1>1 DEF Encode, NoBytes, original, SignedKinds
<1> QED
  BY <1>2, <1>4, <1>5 DEF IInv, TopMeant

LEMMA LoadLiteralStep == ASSUME IInv, LoadLiteral PROVE IInv'
<1>1. kind \in SignedKinds /\ Loaded /\ phase = "loaded" /\ phase' = "idle" /\ UNCHANGED local
  BY DEF LoadLiteral, Loaded
<1>2. Coded' /\ LocalMeant'
  BY <1>1, StepCoded DEF IInv, LocalMeant, EncodingNext
<1>3. PICK t \in IntTypes :
         \E n \in RangeOf(t) : top = Value(t, 0, n) /\ original = EncodedLiteral(t, n)
  BY <1>1 DEF IInv, TopMeant, SignedKinds
<1>4. PICK n \in RangeOf(t) : top = Value(t, 0, n) /\ original = EncodedLiteral(t, n)
  BY <1>3
<1>5. sum = EncodedLiteral(t, n)
  BY <1>1, <1>4 DEF IInv, Coded, LoadsWhatWasWritten
<1>6. top' = Value(t, Unsigned(n, StackBits(t)), n)
  BY <1>4, <1>5, EncodedFacts DEF LoadLiteral, Value
<1>7. TopMeant'
  BY <1>1, <1>6, IntMeant DEF TopMeant, Meant
<1> QED
  BY <1>2, <1>7 DEF IInv

LEMMA IndexStep == ASSUME IInv, NEW n \in Encodable("u32"), Index(n) PROVE IInv'
<1>1. Encode("u32", n) /\ top = Nothing /\ UNCHANGED <<local, top>>
  BY DEF Index, Starts
<1>2. EncodingNext
  BY <1>1 DEF EncodingNext, Kinds
<1>3. Coded' /\ LocalMeant'
  BY <1>1, <1>2, StepCoded DEF IInv, LocalMeant
<1>4. phase' = "write" /\ kind' = "u32" /\ top' = Nothing
  BY <1>1 DEF Encode, Nothing, Value
<1> QED
  BY <1>3, <1>4 DEF IInv, TopMeant, Nothing, Value

LEMMA LoadIndexStep == ASSUME IInv, LoadIndex PROVE IInv'
<1>1. Loaded /\ kind = "u32" /\ phase = "loaded" /\ phase' = "idle" /\ UNCHANGED <<local, top>>
  BY DEF LoadIndex, Loaded
<1>2. Coded' /\ LocalMeant'
  BY <1>1, StepCoded DEF IInv, LocalMeant, EncodingNext
<1>3. top' = Nothing
  BY <1>1 DEF IInv, TopMeant
<1> QED
  BY <1>1, <1>2, <1>3 DEF IInv, TopMeant, Nothing, Value

LEMMA ByteStep ==
  ASSUME IInv, WriteByte \/ ReadByte, UNCHANGED <<local, top>>
  PROVE  IInv'
<1>1. Coded' /\ LocalMeant'
  BY StepCoded DEF IInv, LocalMeant, EncodingNext
<1>2. phase # "idle" /\ phase' # "idle" /\ kind' = kind
  BY DEF WriteByte, ReadByte
<1>3. original' = original
  <2>1. CASE WriteByte
    <3>1. values \in Seq(Int) /\ Len(values) >= 1 /\ Rest(value) \in Int
      BY <2>1, Division DEF IInv, Coded, CodeTypes, WriteByte, value
    <3>2. values' = Append(values, Rest(value))
      BY <2>1 DEF WriteByte
    <3> QED
      BY <3>1, <3>2 DEF original
  <2>2. CASE ReadByte
    BY <2>2 DEF ReadByte, original
  <2> QED
    BY <2>1, <2>2
<1>4. TopMeant'
  BY <1>2, <1>3, Zenon DEF IInv, TopMeant, Nothing
<1> QED
  BY <1>1, <1>4 DEF IInv

LEMMA FinishStep == ASSUME IInv, Finish PROVE IInv'
<1>1. phase = "idle" /\ top' = Nothing /\ UNCHANGED <<local, encoding>>
  BY DEF Finish, Idle
<1>2. Coded' /\ LocalMeant'
  BY <1>1, StepCoded DEF IInv, LocalMeant
<1>3. phase' = "idle"
  BY <1>1 DEF encoding
<1> QED
  BY <1>1, <1>2, <1>3 DEF IInv, TopMeant, Nothing, Value

LEMMA StutterStep == ASSUME IInv, UNCHANGED vars PROVE IInv'
<1>1. UNCHANGED <<local, top, encoding, phase, kind, original>>
  BY DEF vars, encoding, original
<1>2. Coded' /\ LocalMeant'
  BY <1>1, StepCoded DEF IInv, LocalMeant
<1>3. TopMeant'
  BY <1>1, Zenon DEF IInv, TopMeant, Nothing
<1> QED
  BY <1>2, <1>3 DEF IInv

LEMMA InitIInv == Init => IInv
<1> SUFFICES ASSUME Init PROVE IInv
  OBVIOUS
<1>1. Coded
  BY InitCoded DEF Init
<1>2. PICK t \in IntTypes : \E r \in Raws(t) : local = Value(t, r, Wrap(t, r))
  BY WidthAssumption DEF Init
<1>3. LocalMeant
  BY <1>2 DEF LocalMeant, Value
<1>4. TopMeant
  BY DEF Init, EncodingInit, TopMeant
<1> QED
  BY <1>1, <1>3, <1>4 DEF IInv

LEMMA StepIInv == ASSUME HostTyped, TablesTyped, IInv, [Next]_vars PROVE IInv'
<1>1. ASSUME NEW t \in IntTypes, NEW n \in RangeOf(t), Literal(t, n) PROVE IInv'
  BY <1>1, LiteralStep
<1>2. CASE (WriteByte \/ ReadByte) /\ UNCHANGED <<local, top>>
  BY <1>2, ByteStep
<1>3. CASE LoadLiteral
  BY <1>3, LoadLiteralStep
<1>4. ASSUME NEW n \in Encodable("u32"), Index(n) PROVE IInv'
  BY <1>4, IndexStep
<1>5. CASE LoadIndex
  BY <1>5, LoadIndexStep
<1>6. CASE ReadLocal
  BY <1>6, ReadLocalStep
<1>7. CASE Finish
  BY <1>7, FinishStep
<1>8. ASSUME NEW op \in Operations, Binary(op) PROVE IInv'
  BY <1>8, BinaryStep
<1>9. ASSUME NEW op \in Comparisons, Comparison(op) PROVE IInv'
  BY <1>9, ComparisonStep
<1>10. CASE Negate
  BY <1>10, NegateStep
<1>11. CASE Invert
  BY <1>11, InvertStep
<1>12. ASSUME NEW t \in Types, Cast(t) PROVE IInv'
  BY <1>12, CastStep
<1>13. ASSUME NEW t \in IntTypes, NEW u \in IntTypes, StoreAndLoad(t, u) PROVE IInv'
  BY <1>13, StoreAndLoadStep
<1>14. ASSUME NEW t \in IntTypes, NEW raw \in Raws(t),
              ImportResult(t, raw) \/ GlobalValue(t, raw)
       PROVE  IInv'
  BY <1>14, FromHostStep DEF ImportResult, GlobalValue
<1>15. ASSUME NEW t \in IntTypes, CallIndirect(t) PROVE IInv'
  BY <1>15, CallIndirectStep
<1>16. CASE UNCHANGED vars
  BY <1>16, StutterStep
<1> QED
  BY <1>1, <1>2, <1>3, <1>4, <1>5, <1>6, <1>7, <1>8, <1>9, <1>10, <1>11, <1>12, <1>13,
     <1>14, <1>15, <1>16 DEF Next

-----------------------------------------------------------------------------
(* The bits on WebAssembly's stack are those of the number that exact      *)
(* arithmetic gives, wrapped into the type, after any sequence of the      *)
(* operators, conversions, loads, stores and calls of masic/wasm/types.py, *)
(* for every width of the types; provided that the host returns            *)
(* values of the types it declares, and that a table holds functions of    *)
(* one type.                                                               *)
THEOREM BitsMean ==
  ASSUME HostTyped, TablesTyped
  PROVE  Spec => []BitsMeanTheNumber
<1>1. Init => IInv
  BY InitIInv
<1>2. IInv /\ [Next]_vars => IInv'
  BY StepIInv
<1>3. IInv => BitsMeanTheNumber
  BY DEF IInv, TopMeant, Meant, BitsMeanTheNumber, Idle
<1>4. QED
  BY <1>1, <1>2, <1>3, PTL DEF Spec

(* A function that computes with numbers does to the bytes of its          *)
(* immediates only what the encoders and the engine do, so that both       *)
(* theorems about immediates hold of it.                                   *)
THEOREM FunctionsUseTheEncoding == Spec => EncodingSpec
<1>1. Init => EncodingInit
  BY DEF Init
<1>2. [Next]_vars => [EncodingNext]_encoding
  <2> SUFFICES ASSUME [Next]_vars PROVE [EncodingNext]_encoding
    OBVIOUS
  <2>1. ASSUME NEW t \in IntTypes, NEW n \in RangeOf(t), Literal(t, n)
        PROVE  EncodingNext
    BY <2>1 DEF Literal, EncodingNext, Encode, Kinds, SignedKinds
  <2>2. ASSUME NEW n \in Encodable("u32"), Index(n) PROVE EncodingNext
    BY <2>2 DEF Index, EncodingNext, Kinds
  <2>3. CASE (WriteByte \/ ReadByte) \/ Loaded
    BY <2>3 DEF EncodingNext
  <2>4. ASSUME NEW t, NEW raw, NEW n, Becomes(t, raw, n) PROVE UNCHANGED encoding
    BY <2>4 DEF Becomes
  <2>5. CASE Finish \/ UNCHANGED vars
    BY <2>5 DEF Finish, vars
  <2> QED
    BY <2>1, <2>2, <2>3, <2>4, <2>5
       DEF Next, LoadLiteral, LoadIndex, ReadLocal, Binary, Comparison, Negate, Invert, Cast,
           StoreAndLoad, ImportResult, GlobalValue, FromHost, CallIndirect
<1>3. QED
  BY <1>1, <1>2, PTL DEF Spec, EncodingSpec
=============================================================================
