------------------------- MODULE ModuleBuilderProofs -------------------------
(***************************************************************************)
(* What ModuleBuilder promises of the binary, for every set of names,      *)
(* signatures and literals, every page size and every length of a body.    *)
(*                                                                         *)
(* The binary is written once, from everything that was declared, and is   *)
(* never read again: what is to be shown of it is shown in the one step    *)
(* that assembles it.  Until then every reference compiled into a body or  *)
(* a table already names, in the lists as they are, what it was compiled   *)
(* for (ReferencesValid, SignaturesKnown), and no step moves an element of *)
(* these lists (Grows): so it still does when they are encoded.            *)
(***************************************************************************)
EXTENDS ModuleBuilder, SequenceTheorems, TLAPS

-----------------------------------------------------------------------------
(* The inductive invariant *)

IsList(s) == s \in Seq(Range(s))

(* Every function, in the order of the index space. *)
AllFunctions == imports \o functions

(* The lists are lists, numbered from 0, and the function under            *)
(* compilation is one.                                                     *)
Lists ==
  /\ IsList(imports) /\ IsList(functions) /\ IsList(globals) /\ IsList(tables)
  /\ IsList(signatures) /\ IsList(static_segments)
  /\ Idle \/ building = [name |-> building.name, sig |-> building.sig,
                         export |-> building.export, start |-> building.start,
                         body |-> building.body, left |-> building.left]

HeapEndGlobal(index) ==
  [index |-> index, name |-> "heap_end", export |-> NoName, initial |-> DefaultHeapStart]

(* The allocator is its global, named heap_end as no other is, and two     *)
(* adjacent functions, which alone know where the heap starts.             *)
AllocatorPlaced ==
  /\ \A i \in DOMAIN globals : globals[i].name = "heap_end" <=> i = allocator_global + 1
  /\ allocator_global # None => globals[allocator_global + 1] = HeapEndGlobal(allocator_global)
  /\ allocator # None =>
       /\ allocator_global # None /\ memory > 0
       /\ Len(imports) <= allocator
       /\ \A k \in {1, 2} : functions[AllocatorPosition + k] =
            AllocatorFunctions(allocator, DefaultHeapStart, allocator_global)[k]

HeapRefs(refs) == {r \in refs : r.kind = "heap"}

HeapKnownToAllocator ==
  /\ \A i \in DOMAIN functions :
       HeapRefs(functions[i].body) # {} => allocator # None /\ i - 1 - AllocatorPosition \in {0, 1}
  /\ ~Idle => HeapRefs(building.body) = {}

(* What Resolves asks of the binary, asked of the lists it is made from.   *)
Valid(r) ==
  /\ r.kind # "table"
  /\ r.kind = "call" =>
       r.index \in 0 .. (NextFunctionIndex - 1) /\ AllFunctions[r.index + 1].name = r.to
  /\ r.kind = "global" => r.index \in 0 .. (Len(globals) - 1) /\ globals[r.index + 1].name = r.to
  /\ r.kind = "type" =>
       r.index \in 0 .. (Len(signatures) - 1) /\ WasmKey(signatures[r.index + 1]) = r.to
  /\ r.kind = "data" =>
       \E i \in DOMAIN static_segments :
         static_segments[i].address = r.index /\ static_segments[i].text = r.to
  /\ r.kind = "memory" => memory > 0

ReferencesValid ==
  /\ \A i \in DOMAIN functions : \A r \in functions[i].body : Valid(r)
  /\ ~Idle => \A r \in building.body : Valid(r)

(* The entries of a table are functions of its type.                       *)
EntriesValid ==
  \A i \in DOMAIN tables : \A r \in Range(tables[i].entries) :
    r.kind = "call" /\ Valid(r) /\ WasmKey(AllFunctions[r.index + 1].sig) = WasmKey(tables[i].sig)

(* The type section has the type of everything that was declared.          *)
SignaturesKnown ==
  /\ \A i \in 1 .. NextFunctionIndex : Typed(signatures, AllFunctions[i].sig)
  /\ start_index # None => WasmKey(AllFunctions[start_index + 1].sig) = WasmKey(Void)
  /\ ~Idle /\ building.start => building.sig = Void

(* The static data lies in order, below static_end.                        *)
DataInOrder ==
  /\ \A i \in DOMAIN static_segments :
       /\ static_segments[i].address \in Nat /\ static_segments[i].size \in Nat
       /\ static_segments[i].address + static_segments[i].size <= static_end
  /\ \A i, j \in DOMAIN static_segments :
       i < j => static_segments[i].address + static_segments[i].size <= static_segments[j].address

(* No two things are exported under one name.                              *)
ExportedOnce ==
  /\ \A i, j \in DOMAIN functions :
       functions[i].export /\ functions[j].export /\ functions[i].name = functions[j].name => i = j
  /\ ~Idle => \A i \in DOMAIN functions : functions[i].export => functions[i].name # building.name
  /\ \A i, j \in DOMAIN globals :
       globals[i].export # NoName /\ globals[i].export = globals[j].export => i = j
  /\ \A i \in DOMAIN functions, j \in DOMAIN globals :
       functions[i].export /\ globals[j].export # NoName => functions[i].name # globals[j].export
  /\ \A i \in DOMAIN functions, j \in DOMAIN tables :
       functions[i].export /\ tables[j].export # NoName => functions[i].name # tables[j].export
  /\ \A i \in DOMAIN globals, j \in DOMAIN tables :
       globals[i].export # NoName => globals[i].export # tables[j].export

(* While it can still be assembled, the module has no binary and all of    *)
(* the above holds of it.                                                  *)
Consistent ==
  /\ ~Assembled
  /\ AllocatorPlaced /\ HeapKnownToAllocator
  /\ ReferencesValid /\ EntriesValid /\ SignaturesKnown
  /\ DataInOrder /\ ExportedOnce

IInv == TypeOK /\ Lists /\ (~closed => Consistent)

(* Something other than memory is exported under its name.                 *)
Rival ==
  \/ \E f \in Range(functions) : f.export /\ f.name = "memory"
  \/ \E g \in Range(globals) : g.export = "memory"
  \/ \E t \in Range(tables) : t.export = "memory"

(* Only malloc() takes memory although its name is taken, and only where   *)
(* the name was taken is there data without memory.                        *)
MemoryNamed ==
  /\ memory > 0 /\ Rival => allocator # None
  /\ static_segments # <<>> => memory > 0 \/ Rival

MInv == IInv /\ (~closed => MemoryNamed)

-----------------------------------------------------------------------------
(* Lists *)

LEMMA ListFacts ==
  ASSUME NEW s, IsList(s)
  PROVE  /\ Len(s) \in Nat /\ DOMAIN s = 1 .. Len(s)
         /\ \A i \in DOMAIN s : s[i] \in Range(s)
         /\ \A e \in Range(s) : \E i \in DOMAIN s : e = s[i]
<1>1. Len(s) \in Nat /\ DOMAIN s = 1 .. Len(s)
  BY LenProperties DEF IsList
<1> QED
  BY <1>1 DEF Range

LEMMA ListFrom ==
  ASSUME NEW n \in Nat, NEW s, DOMAIN s = 1 .. n, s = [i \in 1 .. n |-> s[i]]
  PROVE  IsList(s) /\ Len(s) = n
<1>1. s \in [1 .. n -> Range(s)]
  BY DEF Range
<1>2. IsList(s)
  BY <1>1, SeqDef DEF IsList
<1>3. Len(s) \in Nat /\ DOMAIN s = 1 .. Len(s)
  BY <1>2, LenProperties DEF IsList
<1> QED
  BY <1>2, <1>3

LEMMA EmptyList == IsList(<<>>) /\ Len(<<>>) = 0 /\ DOMAIN <<>> = {}
  BY DEF IsList, Range

LEMMA AppendList ==
  ASSUME NEW s, IsList(s), NEW e
  PROVE  /\ IsList(Append(s, e)) /\ Len(Append(s, e)) = Len(s) + 1
         /\ \A i \in 1 .. Len(s) : Append(s, e)[i] = s[i]
         /\ Append(s, e)[Len(s) + 1] = e
<1> DEFINE T == Range(s) \cup {e}
           a == Append(s, e)
<1>1. s \in [1 .. Len(s) -> Range(s)] /\ Len(s) \in Nat
  BY LenProperties DEF IsList
<1>2. s \in [1 .. Len(s) -> T]
  BY <1>1
<1>3. s \in Seq(T) /\ e \in T
  BY <1>1, <1>2, SeqDef
<1>4. /\ a \in Seq(T) /\ Len(a) = Len(s) + 1
      /\ \A i \in 1 .. Len(s) : a[i] = s[i]
      /\ a[Len(s) + 1] = e
  BY <1>3, AppendProperties
<1>5. a \in [1 .. Len(a) -> T] /\ Len(a) \in Nat
  BY <1>4, LenProperties
<1>6. IsList(a)
  BY <1>5, ListFrom
<1> QED
  BY <1>4, <1>6

LEMMA ConcatList ==
  ASSUME NEW s, IsList(s), NEW t, IsList(t)
  PROVE  /\ IsList(s \o t) /\ Len(s \o t) = Len(s) + Len(t)
         /\ \A i \in 1 .. Len(s) : (s \o t)[i] = s[i]
         /\ \A i \in 1 .. Len(t) : (s \o t)[Len(s) + i] = t[i]
<1> DEFINE T == Range(s) \cup Range(t)
           c == s \o t
<1>1. s \in [1 .. Len(s) -> Range(s)] /\ Len(s) \in Nat
  BY LenProperties DEF IsList
<1>2. t \in [1 .. Len(t) -> Range(t)] /\ Len(t) \in Nat
  BY LenProperties DEF IsList
<1>3. s \in [1 .. Len(s) -> T] /\ t \in [1 .. Len(t) -> T]
  BY <1>1, <1>2
<1>4. s \in Seq(T) /\ t \in Seq(T)
  BY <1>1, <1>2, <1>3, SeqDef
<1>5. /\ c \in Seq(T) /\ Len(c) = Len(s) + Len(t)
      /\ \A i \in 1 .. Len(c) : c[i] = IF i <= Len(s) THEN s[i] ELSE t[i - Len(s)]
  BY <1>4, ConcatProperties
<1>6. c \in [1 .. Len(c) -> T] /\ Len(c) \in Nat
  BY <1>5, LenProperties
<1>7. IsList(c)
  BY <1>6, ListFrom
<1>8. ASSUME NEW i \in 1 .. Len(s)
      PROVE  c[i] = s[i]
  BY <1>1, <1>2, <1>5
<1>9. ASSUME NEW i \in 1 .. Len(t)
      PROVE  c[Len(s) + i] = t[i]
  <2>1. Len(s) + i \in 1 .. Len(c) /\ ~(Len(s) + i <= Len(s)) /\ Len(s) + i - Len(s) = i
    BY <1>1, <1>2, <1>5
  <2> QED
    BY <1>5, <2>1
<1> QED
  BY <1>5, <1>7, <1>8, <1>9

LEMMA PairList ==
  ASSUME NEW x, NEW y
  PROVE  IsList(<<x, y>>) /\ Len(<<x, y>>) = 2
<1>1. <<x, y>> = [i \in 1 .. 2 |-> <<x, y>>[i]] /\ DOMAIN <<x, y>> = 1 .. 2
  OBVIOUS
<1> QED
  BY <1>1, ListFrom

LEMMA OneList ==
  ASSUME NEW x
  PROVE  IsList(<<x>>) /\ Len(<<x>>) = 1 /\ DOMAIN <<x>> = {1} /\ <<x>>[1] = x
<1>1. <<x>> = [i \in 1 .. 1 |-> <<x>>[i]] /\ DOMAIN <<x>> = 1 .. 1 /\ <<x>>[1] = x
  OBVIOUS
<1>2. 1 .. 1 = {1} /\ 1 \in Nat
  OBVIOUS
<1>3. IsList(<<x>>) /\ Len(<<x>>) = 1
  BY <1>1, <1>2, ListFrom
<1> QED
  BY <1>1, <1>2, <1>3

-----------------------------------------------------------------------------
(* Arithmetic of addresses *)

LEMMA AlignUpFacts ==
  ASSUME NEW x \in Nat, NEW n \in Nat, n > 0
  PROVE  /\ AlignUp(x, n) \in Nat /\ x <= AlignUp(x, n)
         /\ \E k \in Nat : AlignUp(x, n) = k * n /\ AlignUp(x, n) \div n = k
<1> DEFINE k == (x + n - 1) \div n
<1>1. k \in Nat
  BY SMT
<1>2. x <= k * n
  BY SMT
<1>3. (k * n) \div n = k
  BY <1>1, SMT
<1>4. k * n \in Nat
  BY <1>1, SMT
<1> QED
  BY <1>1, <1>2, <1>3, <1>4 DEF AlignUp

LEMMA MaxOfTwo ==
  ASSUME NEW a \in Int, NEW b \in Int
  PROVE  Max({a, b}) \in {a, b} /\ a <= Max({a, b}) /\ b <= Max({a, b})
<1>1. \E x \in {a, b} : \A y \in {a, b} : x >= y
  <2>1. CASE a >= b
    BY <2>1
  <2>2. CASE ~(a >= b)
    BY <2>2
  <2> QED
    BY <2>1, <2>2
<1>2. Max({a, b}) \in {a, b} /\ \A y \in {a, b} : Max({a, b}) >= y
  BY <1>1 DEF Max
<1> QED
  BY <1>2

-----------------------------------------------------------------------------
(* Signatures, the index space of functions, and the function being        *)
(* compiled                                                                *)

LEMMA SignatureFound ==
  ASSUME NEW sigs, IsList(sigs), NEW s, Typed(sigs, s)
  PROVE  /\ SignatureIndex(sigs, s) \in 0 .. (Len(sigs) - 1)
         /\ WasmKey(sigs[SignatureIndex(sigs, s) + 1]) = WasmKey(s)
<1> DEFINE Found(i) == WasmKey(sigs[i]) = WasmKey(s)
           i0 == CHOOSE i \in DOMAIN sigs : Found(i)
<1>1. \E i \in DOMAIN sigs : Found(i)
  BY DEF Typed
<1>2. i0 \in DOMAIN sigs /\ Found(i0)
  BY <1>1
<1>3. i0 \in 1 .. Len(sigs) /\ Len(sigs) \in Nat
  BY <1>2, ListFacts
<1>4. SignatureIndex(sigs, s) = i0 - 1
  BY DEF SignatureIndex
<1> HIDE DEF i0
<1>5. i0 - 1 \in 0 .. (Len(sigs) - 1) /\ i0 - 1 + 1 = i0
  BY <1>3
<1> QED
  BY <1>2, <1>4, <1>5

LEMMA SignatureKept ==
  ASSUME NEW sigs, IsList(sigs), NEW s
  PROVE  /\ IsList(WithSignature(sigs, s)) /\ Len(sigs) <= Len(WithSignature(sigs, s))
         /\ \A i \in 1 .. Len(sigs) : WithSignature(sigs, s)[i] = sigs[i]
         /\ Typed(WithSignature(sigs, s), s)
<1>0. Len(sigs) \in Nat
  BY ListFacts
<1>1. CASE Typed(sigs, s)
  BY <1>0, <1>1 DEF WithSignature
<1>2. CASE ~Typed(sigs, s)
  <2>1. WithSignature(sigs, s) = Append(sigs, s)
    BY <1>2 DEF WithSignature
  <2>2. /\ IsList(Append(sigs, s)) /\ Len(Append(sigs, s)) = Len(sigs) + 1
        /\ \A i \in 1 .. Len(sigs) : Append(sigs, s)[i] = sigs[i]
        /\ Append(sigs, s)[Len(sigs) + 1] = s
    BY AppendList
  <2>3. Len(sigs) + 1 \in DOMAIN Append(sigs, s)
    BY <1>0, <2>2, ListFacts
  <2>4. Typed(Append(sigs, s), s)
    BY <2>2, <2>3 DEF Typed
  <2> QED
    BY <1>0, <2>1, <2>2, <2>4
<1> QED
  BY <1>1, <1>2

LEMMA SignatureCompiled ==
  ASSUME NEW sigs, IsList(sigs), NEW s
  PROVE  /\ SignatureIndex(sigs, s) \in 0 .. (Len(WithSignature(sigs, s)) - 1)
         /\ WasmKey(WithSignature(sigs, s)[SignatureIndex(sigs, s) + 1]) = WasmKey(s)
<1>0. Len(sigs) \in Nat
  BY ListFacts
<1>1. CASE Typed(sigs, s)
  BY <1>1, SignatureFound DEF WithSignature
<1>2. CASE ~Typed(sigs, s)
  <2>1. WithSignature(sigs, s) = Append(sigs, s) /\ SignatureIndex(sigs, s) = Len(sigs)
    BY <1>2 DEF WithSignature, SignatureIndex
  <2>2. Len(Append(sigs, s)) = Len(sigs) + 1 /\ Append(sigs, s)[Len(sigs) + 1] = s
    BY AppendList
  <2> QED
    BY <1>0, <2>1, <2>2
<1> QED
  BY <1>1, <1>2

(* A longer type section still knows every signature.                      *)
LEMMA TypedKept ==
  ASSUME NEW sigs, IsList(sigs), NEW more, IsList(more), Len(sigs) <= Len(more),
         \A i \in 1 .. Len(sigs) : more[i] = sigs[i],
         NEW s, Typed(sigs, s)
  PROVE  Typed(more, s)
<1>1. PICK i \in DOMAIN sigs : WasmKey(sigs[i]) = WasmKey(s)
  BY DEF Typed
<1>2. DOMAIN sigs = 1 .. Len(sigs) /\ DOMAIN more = 1 .. Len(more) /\ Len(sigs) \in Nat /\ Len(more) \in Nat
  BY ListFacts
<1>3. i \in DOMAIN more /\ more[i] = sigs[i]
  BY <1>2
<1> QED
  BY <1>1, <1>3 DEF Typed

LEMMA IndexSpace ==
  ASSUME Lists
  PROVE  /\ IsList(AllFunctions) /\ Len(AllFunctions) = NextFunctionIndex
         /\ Len(imports) \in Nat /\ Len(functions) \in Nat
         /\ \A i \in 1 .. Len(imports) : AllFunctions[i] = imports[i]
         /\ \A i \in 1 .. Len(functions) : AllFunctions[Len(imports) + i] = functions[i]
<1>1. IsList(imports) /\ IsList(functions)
  BY DEF Lists
<1>2. Len(imports) \in Nat /\ Len(functions) \in Nat
  BY <1>1, ListFacts
<1> QED
  BY <1>1, <1>2, ConcatList DEF AllFunctions, NextFunctionIndex

LEMMA EmitFacts ==
  ASSUME Lists, ~Idle, NEW refs, Emit(refs)
  PROVE  /\ building' = [name |-> building'.name, sig |-> building'.sig,
                         export |-> building'.export, start |-> building'.start,
                         body |-> building'.body, left |-> building'.left]
         /\ building'.body = building.body \cup refs
         /\ building'.name = building.name /\ building'.sig = building.sig
         /\ building'.export = building.export /\ building'.start = building.start
<1>1. building = [name |-> building.name, sig |-> building.sig,
                  export |-> building.export, start |-> building.start,
                  body |-> building.body, left |-> building.left]
  BY DEF Lists
<1>2. building' = [building EXCEPT !.body = building.body \cup refs, !.left = building.left - 1]
  BY DEF Emit
<1>3. building' = [name |-> building.name, sig |-> building.sig,
                   export |-> building.export, start |-> building.start,
                   body |-> building.body \cup refs, left |-> building.left - 1]
  BY <1>1, <1>2
<1> QED
  BY <1>3

-----------------------------------------------------------------------------
(* Every step only adds to the lists.                                      *)

Grows ==
  /\ NextFunctionIndex <= NextFunctionIndex'
  /\ \A i \in 1 .. NextFunctionIndex :
       AllFunctions'[i].name = AllFunctions[i].name /\ AllFunctions'[i].sig = AllFunctions[i].sig
  /\ Len(globals) <= Len(globals') /\ \A i \in 1 .. Len(globals) : globals'[i].name = globals[i].name
  /\ Len(signatures) <= Len(signatures')
  /\ \A i \in 1 .. Len(signatures) : signatures'[i] = signatures[i]
  /\ \A i \in DOMAIN static_segments :
       i \in DOMAIN static_segments' /\ static_segments'[i] = static_segments[i]
  /\ memory > 0 => memory' > 0

(* A reference that is valid stays so.                                     *)
LEMMA ValidGrows ==
  ASSUME Lists, Lists', Grows, NEW r, Valid(r)
  PROVE  Valid(r)'
<1>0. /\ NextFunctionIndex \in Nat /\ NextFunctionIndex' \in Nat
      /\ Len(globals) \in Nat /\ Len(globals') \in Nat
      /\ Len(signatures) \in Nat /\ Len(signatures') \in Nat
  <2>1. \A s : IsList(s) => Len(s) \in Nat
    BY ListFacts
  <2> QED
    BY <2>1 DEF Lists, NextFunctionIndex
<1>1. r.kind # "table"
  BY DEF Valid
<1>2. ASSUME r.kind = "call"
      PROVE  r.index \in 0 .. (NextFunctionIndex' - 1) /\ AllFunctions'[r.index + 1].name = r.to
  <2>1. r.index \in 0 .. (NextFunctionIndex - 1) /\ AllFunctions[r.index + 1].name = r.to
    BY <1>2 DEF Valid
  <2>2. r.index + 1 \in 1 .. NextFunctionIndex /\ r.index \in 0 .. (NextFunctionIndex' - 1)
    BY <1>0, <2>1 DEF Grows
  <2> QED
    BY <2>1, <2>2 DEF Grows
<1>3. ASSUME r.kind = "global"
      PROVE  r.index \in 0 .. (Len(globals') - 1) /\ globals'[r.index + 1].name = r.to
  <2>1. r.index \in 0 .. (Len(globals) - 1) /\ globals[r.index + 1].name = r.to
    BY <1>3 DEF Valid
  <2>2. r.index + 1 \in 1 .. Len(globals) /\ r.index \in 0 .. (Len(globals') - 1)
    BY <1>0, <2>1 DEF Grows
  <2> QED
    BY <2>1, <2>2 DEF Grows
<1>4. ASSUME r.kind = "type"
      PROVE  r.index \in 0 .. (Len(signatures') - 1) /\ WasmKey(signatures'[r.index + 1]) = r.to
  <2>1. r.index \in 0 .. (Len(signatures) - 1) /\ WasmKey(signatures[r.index + 1]) = r.to
    BY <1>4 DEF Valid
  <2>2. r.index + 1 \in 1 .. Len(signatures) /\ r.index \in 0 .. (Len(signatures') - 1)
    BY <1>0, <2>1 DEF Grows
  <2>3. signatures'[r.index + 1] = signatures[r.index + 1]
    BY <2>2 DEF Grows
  <2> QED
    BY <2>1, <2>2, <2>3
<1>5. ASSUME r.kind = "data"
      PROVE  \E i \in DOMAIN static_segments' :
               static_segments'[i].address = r.index /\ static_segments'[i].text = r.to
  BY <1>5 DEF Valid, Grows
<1>6. r.kind = "memory" => memory' > 0
  BY DEF Valid, Grows
<1> QED
  BY <1>1, <1>2, <1>3, <1>4, <1>5, <1>6 DEF Valid

(* Nothing is added, or only memory.                                       *)
LEMMA GrowsSame ==
  ASSUME Lists, UNCHANGED <<imports, functions, globals, signatures, static_segments>>,
         memory > 0 => memory' > 0
  PROVE  Grows
<1>1. \A s : IsList(s) => Len(s) \in Nat
  BY ListFacts
<1>2. Len(imports) \in Nat /\ Len(functions) \in Nat /\ Len(globals) \in Nat /\ Len(signatures) \in Nat
  BY <1>1 DEF Lists
<1>3. AllFunctions' = AllFunctions /\ NextFunctionIndex' = NextFunctionIndex /\ NextFunctionIndex \in Nat
  BY <1>2 DEF AllFunctions, NextFunctionIndex
<1> QED
  BY <1>2, <1>3 DEF Grows

(* References that were there, or are valid now.                           *)
LEMMA ReferencesStep ==
  ASSUME Lists, Lists', Grows, ReferencesValid,
         \A i \in DOMAIN functions' :
           \/ i \in DOMAIN functions /\ functions'[i].body = functions[i].body
           \/ \A r \in functions'[i].body : Valid(r)',
         ~Idle' => \A r \in building'.body : (~Idle /\ r \in building.body) \/ Valid(r)'
  PROVE  ReferencesValid'
<1>1. ASSUME NEW i \in DOMAIN functions', NEW r \in functions'[i].body
      PROVE  Valid(r)'
  <2>1. CASE i \in DOMAIN functions /\ functions'[i].body = functions[i].body
    BY <2>1, ValidGrows DEF ReferencesValid
  <2>2. CASE \A q \in functions'[i].body : Valid(q)'
    BY <2>2
  <2> QED
    BY <2>1, <2>2
<1>2. ASSUME ~Idle', NEW r \in building'.body
      PROVE  Valid(r)'
  BY <1>2, ValidGrows DEF ReferencesValid
<1> QED
  BY <1>1, <1>2 DEF ReferencesValid

LEMMA EntriesStep ==
  ASSUME Lists, Lists', Grows, EntriesValid, UNCHANGED tables
  PROVE  EntriesValid'
<1> SUFFICES ASSUME NEW i \in DOMAIN tables, NEW r \in Range(tables[i].entries)
             PROVE  /\ r.kind = "call" /\ Valid(r)'
                    /\ WasmKey(AllFunctions'[r.index + 1].sig) = WasmKey(tables[i].sig)
  BY DEF EntriesValid
<1>1. r.kind = "call" /\ Valid(r) /\ WasmKey(AllFunctions[r.index + 1].sig) = WasmKey(tables[i].sig)
  BY DEF EntriesValid
<1>2. NextFunctionIndex \in Nat
  BY IndexSpace DEF NextFunctionIndex
<1>3. r.index + 1 \in 1 .. NextFunctionIndex
  BY <1>1, <1>2 DEF Valid
<1>4. AllFunctions'[r.index + 1].sig = AllFunctions[r.index + 1].sig
  BY <1>3 DEF Grows
<1> QED
  BY <1>1, <1>4, ValidGrows

(* The signatures of new functions are in the new type section.            *)
LEMMA SignaturesStep ==
  ASSUME Lists, Lists', Grows, SignaturesKnown, TypeOK,
         \A i \in 1 .. NextFunctionIndex' :
           i > NextFunctionIndex => Typed(signatures', AllFunctions'[i].sig),
         start_index' # start_index => WasmKey(AllFunctions'[start_index' + 1].sig) = WasmKey(Void),
         ~Idle' /\ building'.start => building'.sig = Void
  PROVE  SignaturesKnown'
<1>0. NextFunctionIndex \in Nat /\ NextFunctionIndex' \in Nat
  <2>1. \A s : IsList(s) => Len(s) \in Nat
    BY ListFacts
  <2> QED
    BY <2>1 DEF Lists, NextFunctionIndex
<1>1. ASSUME NEW i \in 1 .. NextFunctionIndex'
      PROVE  Typed(signatures', AllFunctions'[i].sig)
  <2>1. CASE i > NextFunctionIndex
    BY <2>1
  <2>2. CASE ~(i > NextFunctionIndex)
    <3>1. i \in 1 .. NextFunctionIndex
      BY <1>0, <2>2
    <3>2. Typed(signatures, AllFunctions[i].sig) /\ AllFunctions'[i].sig = AllFunctions[i].sig
      BY <3>1 DEF SignaturesKnown, Grows
    <3>3. /\ IsList(signatures) /\ IsList(signatures') /\ Len(signatures) <= Len(signatures')
          /\ \A j \in 1 .. Len(signatures) : signatures'[j] = signatures[j]
      BY DEF Lists, Grows
    <3>4. Typed(signatures', AllFunctions[i].sig)
      BY <3>2, <3>3, TypedKept
    <3> QED
      BY <3>2, <3>4
  <2> QED
    BY <2>1, <2>2
<1>2. start_index' # None => WasmKey(AllFunctions'[start_index' + 1].sig) = WasmKey(Void)
  <2>1. CASE start_index' # start_index
    BY <2>1
  <2>2. CASE start_index' = start_index /\ start_index # None
    <3>1. start_index + 1 \in 1 .. NextFunctionIndex
      BY <1>0, <2>2 DEF TypeOK
    <3> QED
      BY <2>2, <3>1 DEF SignaturesKnown, Grows
  <2> QED
    BY <2>1, <2>2
<1> QED
  BY <1>1, <1>2 DEF SignaturesKnown

(* What the program has a handle of can be referred to.                    *)
LEMMA CallValid ==
  ASSUME Lists, TypeOK, NEW f \in Range(imports) \cup Range(functions)
  PROVE  /\ CallRef(f).kind = "call" /\ Valid(CallRef(f))
         /\ CallRef(f).index + 1 \in 1 .. NextFunctionIndex
         /\ AllFunctions[CallRef(f).index + 1] = f
<1>0. /\ Len(imports) \in Nat /\ Len(functions) \in Nat
      /\ DOMAIN imports = 1 .. Len(imports) /\ DOMAIN functions = 1 .. Len(functions)
  BY ListFacts DEF Lists
<1>1. \E i \in 1 .. NextFunctionIndex : AllFunctions[i] = f /\ f.index = i - 1
  <2>1. CASE f \in Range(imports)
    <3>1. PICK i \in 1 .. Len(imports) : f = imports[i]
      BY <1>0, <2>1 DEF Range
    <3>2. i \in 1 .. NextFunctionIndex /\ f.index = i - 1
      BY <1>0, <3>1 DEF TypeOK, NextFunctionIndex
    <3> QED
      BY <3>1, <3>2, IndexSpace
  <2>2. CASE f \in Range(functions)
    <3>1. PICK i \in 1 .. Len(functions) : f = functions[i]
      BY <1>0, <2>2 DEF Range
    <3>2. /\ Len(imports) + i \in 1 .. NextFunctionIndex
          /\ f.index = Len(imports) + i - 1
      BY <1>0, <3>1 DEF TypeOK, NextFunctionIndex
    <3> QED
      BY <3>1, <3>2, IndexSpace
  <2> QED
    BY <2>1, <2>2
<1>2. PICK i \in 1 .. NextFunctionIndex : AllFunctions[i] = f /\ f.index = i - 1
  BY <1>1
<1>3. CallRef(f).index = i - 1 /\ CallRef(f).kind = "call" /\ CallRef(f).to = f.name
  BY <1>2 DEF CallRef, Ref
<1>4. i - 1 \in 0 .. (NextFunctionIndex - 1) /\ i - 1 + 1 = i
  BY <1>0 DEF NextFunctionIndex
<1>5. Valid(CallRef(f))
  BY <1>2, <1>3, <1>4 DEF Valid
<1> QED
  BY <1>2, <1>3, <1>4, <1>5

LEMMA GlobalValid ==
  ASSUME Lists, TypeOK, NEW g \in Range(globals)
  PROVE  Valid(Ref("global", g.index, g.name)) /\ Ref("global", g.index, g.name).kind = "global"
<1>0. Len(globals) \in Nat /\ DOMAIN globals = 1 .. Len(globals)
  BY ListFacts DEF Lists
<1>1. PICK i \in 1 .. Len(globals) : g = globals[i]
  BY <1>0 DEF Range
<1>2. g.index = i - 1 /\ g.index \in 0 .. (Len(globals) - 1) /\ g.index + 1 = i
  BY <1>0, <1>1 DEF TypeOK
<1> QED
  BY <1>1, <1>2 DEF Valid, Ref

(* A step that declares nothing: it begins, extends or gives up a body.    *)
LEMMA OnlyBuilding ==
  ASSUME IInv, UNCHANGED <<declared, memory, static, heap, closed, bytecode>>, inside' \in BOOLEAN,
         Lists',
         ~Idle' => \A r \in building'.body :
           \/ ~Idle /\ r \in building.body
           \/ r.kind # "heap" /\ (~closed => Valid(r)),
         ~closed /\ ~Idle' => /\ building'.start => building'.sig = Void
                              /\ \A i \in DOMAIN functions :
                                   functions[i].export => functions[i].name # building'.name
  PROVE  IInv' /\ Grows
<1>1. /\ UNCHANGED <<imports, functions, globals, tables, signatures, start_index, memory,
                     static_segments, static_end, allocator, allocator_global, closed, bytecode>>
      /\ TypeOK /\ Lists
  BY DEF declared, static, heap, IInv
<1>2. Grows
  BY <1>1, GrowsSame
<1>3. AllFunctions' = AllFunctions /\ NextFunctionIndex' = NextFunctionIndex
  BY <1>1 DEF AllFunctions, NextFunctionIndex
<1>4. TypeOK'
  BY <1>1, <1>3 DEF TypeOK
<1>5. ASSUME ~closed
      PROVE  Consistent'
  <2>1. Consistent
    BY <1>5 DEF IInv
  <2>2. ~Assembled' /\ AllocatorPlaced' /\ DataInOrder'
    BY <1>1, <2>1 DEF Consistent, Assembled, AllocatorPlaced, AllocatorPosition, DataInOrder
  <2>3. HeapKnownToAllocator'
    BY <1>1, <2>1 DEF Consistent, HeapKnownToAllocator, HeapRefs, AllocatorPosition
  <2>4. ReferencesValid'
    <3>1. ReferencesValid
      BY <2>1 DEF Consistent
    <3>2. ASSUME NEW r, Valid(r)
          PROVE  Valid(r)'
      BY <1>1, <1>2, <3>2, ValidGrows
    <3>3. ~Idle' => \A r \in building'.body : (~Idle /\ r \in building.body) \/ Valid(r)'
      BY <1>5, <3>2
    <3> QED
      BY <1>1, <1>2, <3>1, <3>3, ReferencesStep
  <2>5. EntriesValid'
    BY <1>1, <1>2, <2>1, EntriesStep DEF Consistent
  <2>6. SignaturesKnown'
    <3>1. SignaturesKnown /\ NextFunctionIndex \in Nat
      BY <1>1, <2>1, IndexSpace DEF Consistent, NextFunctionIndex
    <3>2. \A i \in 1 .. NextFunctionIndex' :
            i > NextFunctionIndex => Typed(signatures', AllFunctions'[i].sig)
      BY <1>3, <3>1
    <3> QED
      BY <1>1, <1>2, <1>5, <3>1, <3>2, SignaturesStep
  <2>7. ExportedOnce'
    BY <1>1, <1>5, <2>1 DEF Consistent, ExportedOnce
  <2> QED
    BY <2>2, <2>3, <2>4, <2>5, <2>6, <2>7 DEF Consistent
<1> QED
  BY <1>1, <1>2, <1>4, <1>5 DEF IInv

LEMMA EnterStep ==
  ASSUME IInv, Enter
  PROVE  IInv' /\ Grows
<1>1. /\ UNCHANGED <<declared, memory, static, heap, closed, bytecode, building>> /\ inside' \in BOOLEAN
      /\ Idle /\ Idle'
  BY DEF Enter, Idle
<1>2. Lists'
  BY <1>1 DEF IInv, Lists, declared, static, Idle
<1> QED
  BY <1>1, <1>2, OnlyBuilding

LEMMA ExitRaisingStep ==
  ASSUME IInv, ExitRaising
  PROVE  IInv' /\ Grows
<1>1. /\ UNCHANGED <<declared, memory, static, heap, closed, bytecode, building>> /\ inside' \in BOOLEAN
      /\ Idle /\ Idle'
  BY DEF ExitRaising, Idle
<1>2. Lists'
  BY <1>1 DEF IInv, Lists, declared, static, Idle
<1> QED
  BY <1>1, <1>2, OnlyBuilding

LEMMA RefusedStep ==
  ASSUME IInv, RefusedStatement
  PROVE  IInv' /\ Grows
<1>1. /\ UNCHANGED <<declared, memory, static, heap, closed, bytecode, inside>> /\ Idle'
  BY DEF RefusedStatement, BodyRaises, Idle, phase
<1>2. inside' \in BOOLEAN /\ Lists'
  BY <1>1 DEF IInv, TypeOK, Lists, declared, static, Idle
<1> QED
  BY <1>1, <1>2, OnlyBuilding

LEMMA BeginStep ==
  ASSUME IInv, NEW name, NEW sig, NEW export, NEW start, Begin(name, sig, export, start),
         start => sig = Void
  PROVE  IInv' /\ Grows
<1>1. /\ UNCHANGED <<declared, memory, static, heap, closed, bytecode, inside>>
      /\ building' = [name |-> name, sig |-> sig, export |-> export, start |-> start,
                      body |-> {}, left |-> MaxOperations]
      /\ Idle
  BY DEF Begin, phase
<1>2. /\ building'.name = name /\ building'.sig = sig /\ building'.start = start
      /\ building'.body = {}
  BY <1>1
<1>3. inside' \in BOOLEAN /\ Lists'
  BY <1>1 DEF IInv, TypeOK, Lists, declared, static
<1>4. \A i \in DOMAIN functions : functions[i].name # name
  BY DEF Begin, HasFunction, Range
<1> QED
  BY <1>1, <1>2, <1>3, <1>4, OnlyBuilding

(* More references in the body that is being compiled.                     *)
LEMMA EmitStep ==
  ASSUME IInv, ~Idle, UNCHANGED <<declared, memory, static, heap, phase>>,
         NEW refs, \A r \in refs : r.kind # "heap" /\ Valid(r), Emit(refs)
  PROVE  IInv' /\ Grows
<1>0. Lists /\ TypeOK
  BY DEF IInv
<1>1. /\ building' = [name |-> building'.name, sig |-> building'.sig,
                      export |-> building'.export, start |-> building'.start,
                      body |-> building'.body, left |-> building'.left]
      /\ building'.body = building.body \cup refs
      /\ building'.name = building.name /\ building'.sig = building.sig
      /\ building'.start = building.start
  BY <1>0, EmitFacts
<1>2. UNCHANGED <<declared, memory, static, heap, closed, bytecode, inside>>
  BY DEF phase
<1>3. inside' \in BOOLEAN /\ Lists'
  <2>1. /\ IsList(imports)' /\ IsList(functions)' /\ IsList(globals)' /\ IsList(tables)'
        /\ IsList(signatures)' /\ IsList(static_segments)'
    BY <1>0, <1>2 DEF Lists, declared, static
  <2>2. inside' \in BOOLEAN
    BY <1>0, <1>2 DEF TypeOK
  <2> QED
    BY <1>1, <2>1, <2>2, Zenon DEF Lists
<1>4. ~Idle' => \A q \in building'.body :
        \/ ~Idle /\ q \in building.body
        \/ q.kind # "heap" /\ (~closed => Valid(q))
  BY <1>1
<1>5. ~closed => (building.start => building.sig = Void)
  BY DEF IInv, Consistent, SignaturesKnown
<1>6. ~closed => \A i \in DOMAIN functions : functions[i].export => functions[i].name # building.name
  BY DEF IInv, Consistent, ExportedOnce
<1>7. ~closed /\ ~Idle' => /\ building'.start => building'.sig = Void
                           /\ \A i \in DOMAIN functions :
                                functions[i].export => functions[i].name # building'.name
  BY <1>1, <1>5, <1>6
<1> QED
  BY <1>2, <1>3, <1>4, <1>7, OnlyBuilding

LEMMA CallStep ==
  ASSUME IInv, NEW f \in Handles, CallFunction(f)
  PROVE  IInv' /\ Grows
<1>1. f \in Range(imports) \cup Range(functions)
  BY DEF Handles
<1>2. PICK refs : refs = {CallRef(f)}
  OBVIOUS
<1>3. \A r \in refs : r.kind # "heap" /\ Valid(r)
  BY <1>1, <1>2, CallValid DEF IInv
<1>4. ~Idle /\ UNCHANGED <<declared, memory, static, heap, phase>> /\ Emit(refs)
  BY <1>2 DEF CallFunction, Compiles
<1> QED
  BY <1>3, <1>4, EmitStep

LEMMA UseGlobalStep ==
  ASSUME IInv, NEW g \in Range(globals), UseGlobal(g)
  PROVE  IInv' /\ Grows
<1>1. PICK refs : refs = {Ref("global", g.index, g.name)}
  OBVIOUS
<1>2. \A r \in refs : r.kind # "heap" /\ Valid(r)
  BY <1>1, GlobalValid DEF IInv
<1>3. ~Idle /\ UNCHANGED <<declared, memory, static, heap, phase>> /\ Emit(refs)
  BY <1>1 DEF UseGlobal, Compiles
<1> QED
  BY <1>2, <1>3, EmitStep

-----------------------------------------------------------------------------
(* Declarations *)

(* Functions that are added, or rebuilt under their names, come after the  *)
(* imports as before.                                                      *)
KeepsHeads(fs, gs) ==
  /\ Len(fs) <= Len(gs)
  /\ \A j \in 1 .. Len(fs) : gs[j].name = fs[j].name /\ gs[j].sig = fs[j].sig

LEMMA JoinedKept ==
  ASSUME NEW is, IsList(is), NEW fs, IsList(fs), NEW gs, IsList(gs), KeepsHeads(fs, gs)
  PROVE  KeepsHeads(is \o fs, is \o gs)
<1>0. Len(is) \in Nat /\ Len(fs) \in Nat /\ Len(gs) \in Nat /\ Len(fs) <= Len(gs)
  BY ListFacts DEF KeepsHeads
<1>1. /\ Len(is \o fs) = Len(is) + Len(fs)
      /\ \A k \in 1 .. Len(is) : (is \o fs)[k] = is[k]
      /\ \A k \in 1 .. Len(fs) : (is \o fs)[Len(is) + k] = fs[k]
  BY ConcatList
<1>2. /\ Len(is \o gs) = Len(is) + Len(gs)
      /\ \A k \in 1 .. Len(is) : (is \o gs)[k] = is[k]
      /\ \A k \in 1 .. Len(gs) : (is \o gs)[Len(is) + k] = gs[k]
  BY ConcatList
<1>3. PICK old, new : old = is \o fs /\ new = is \o gs
  OBVIOUS
<1>4. ASSUME NEW i \in 1 .. Len(old)
      PROVE  new[i].name = old[i].name /\ new[i].sig = old[i].sig
  <2>1. CASE i <= Len(is)
    <3>1. i \in 1 .. Len(is)
      BY <1>0, <1>1, <1>3, <2>1
    <3> QED
      BY <1>1, <1>2, <1>3, <3>1
  <2>2. CASE ~(i <= Len(is))
    <3>1. PICK k \in 1 .. Len(fs) : i = Len(is) + k /\ k \in 1 .. Len(gs)
      <4>1. i - Len(is) \in 1 .. Len(fs) /\ i - Len(is) \in 1 .. Len(gs) /\ Len(is) + (i - Len(is)) = i
        BY <1>0, <1>1, <1>3, <2>2
      <4> QED
        BY <4>1
    <3>2. new[i] = gs[k] /\ old[i] = fs[k]
      BY <1>1, <1>2, <1>3, <3>1
    <3> QED
      BY <3>1, <3>2 DEF KeepsHeads
  <2> QED
    BY <2>1, <2>2
<1>5. Len(old) <= Len(new)
  BY <1>0, <1>1, <1>2, <1>3
<1>6. KeepsHeads(old, new)
  BY <1>4, <1>5 DEF KeepsHeads
<1> QED
  BY <1>3, <1>6

LEMMA JoinedNew ==
  ASSUME NEW is, IsList(is), NEW gs, IsList(gs), NEW n \in Nat,
         NEW i \in 1 .. (Len(is) + Len(gs)), i > Len(is) + n
  PROVE  \E j \in 1 .. Len(gs) : j > n /\ (is \o gs)[i] = gs[j]
<1>0. Len(is) \in Nat /\ Len(gs) \in Nat
  BY ListFacts
<1>1. \A k \in 1 .. Len(gs) : (is \o gs)[Len(is) + k] = gs[k]
  BY ConcatList
<1>2. i - Len(is) \in 1 .. Len(gs) /\ Len(is) + (i - Len(is)) = i /\ i - Len(is) > n
  BY <1>0
<1> QED
  BY <1>1, <1>2

LEMMA CreateGlobalStep ==
  ASSUME IInv, NEW name, name # "heap_end", NEW export, CreateGlobal(name, export)
  PROVE  IInv' /\ Grows
<1> DEFINE g == [index |-> Len(globals), name |-> name, export |-> export, initial |-> 0]
<1>0. Lists /\ TypeOK /\ Consistent /\ Idle /\ ~closed
  BY DEF IInv, CreateGlobal
<1>1. /\ UNCHANGED <<imports, functions, tables, signatures, start_index, memory, static_segments,
                     static_end, allocator, allocator_global, building, inside, closed, bytecode>>
      /\ globals' = Append(globals, g) /\ ExportFree(export)
  BY DEF CreateGlobal, static, heap, phase
<1>2. Len(globals) \in Nat /\ DOMAIN globals = 1 .. Len(globals) /\ IsList(globals)
  BY <1>0, ListFacts DEF Lists
<1>3. /\ IsList(globals') /\ Len(globals') = Len(globals) + 1
      /\ \A i \in 1 .. Len(globals) : globals'[i] = globals[i]
      /\ globals'[Len(globals) + 1] = g
  BY <1>1, <1>2, AppendList
<1>4. DOMAIN globals' = 1 .. (Len(globals) + 1)
  BY <1>3, ListFacts
<1>5. \A i \in DOMAIN globals' :
        \/ i \in DOMAIN globals /\ globals'[i] = globals[i]
        \/ i = Len(globals) + 1 /\ globals'[i] = g
  BY <1>2, <1>3, <1>4
<1> HIDE DEF g
<1>6. g.index = Len(globals) /\ g.name = name /\ g.export = export
  BY DEF g
<1>7. Lists'
  BY <1>0, <1>1, <1>3 DEF Lists, Idle
<1>8. AllFunctions' = AllFunctions /\ NextFunctionIndex' = NextFunctionIndex /\ NextFunctionIndex \in Nat
  BY <1>0, <1>1, IndexSpace DEF AllFunctions, NextFunctionIndex
<1>9. TypeOK'
  <2>1. \A i \in DOMAIN globals' : globals'[i].index = i - 1
    BY <1>0, <1>2, <1>5, <1>6 DEF TypeOK
  <2>2. allocator_global' \in {None} \cup 0 .. (Len(globals') - 1)
    BY <1>0, <1>1, <1>2, <1>3 DEF TypeOK
  <2> QED
    BY <1>0, <1>1, <1>8, <2>1, <2>2 DEF TypeOK
<1>10. Grows
  <2>1. Len(globals) <= Len(globals') /\ \A i \in 1 .. Len(globals) : globals'[i].name = globals[i].name
    BY <1>2, <1>3
  <2>2. Len(signatures) \in Nat
    BY <1>0, ListFacts DEF Lists
  <2> QED
    BY <1>1, <1>8, <2>1, <2>2 DEF Grows
<1>11. ~Assembled' /\ DataInOrder' /\ Idle'
  BY <1>0, <1>1 DEF Consistent, Assembled, DataInOrder, Idle
<1>12. AllocatorPlaced'
  <2>1. \A i \in DOMAIN globals' : globals'[i].name = "heap_end" <=> i = allocator_global' + 1
    <3>1. allocator_global + 1 # Len(globals) + 1
      BY <1>0, <1>2 DEF TypeOK, None
    <3> QED
      BY <1>0, <1>1, <1>2, <1>5, <1>6, <3>1 DEF Consistent, AllocatorPlaced
  <2>2. allocator_global # None => globals'[allocator_global + 1] = globals[allocator_global + 1]
    BY <1>0, <1>2, <1>3 DEF TypeOK
  <2> QED
    BY <1>0, <1>1, <2>1, <2>2 DEF Consistent, AllocatorPlaced, AllocatorPosition
<1>13. HeapKnownToAllocator'
  BY <1>0, <1>1 DEF Consistent, HeapKnownToAllocator, AllocatorPosition, Idle
<1>14. ReferencesValid'
  BY <1>0, <1>1, <1>7, <1>10, <1>11, ReferencesStep DEF Consistent
<1>15. EntriesValid'
  BY <1>0, <1>1, <1>7, <1>10, EntriesStep DEF Consistent
<1>16. SignaturesKnown'
  <2>1. SignaturesKnown /\ \A i \in 1 .. NextFunctionIndex' :
          i > NextFunctionIndex => Typed(signatures', AllFunctions'[i].sig)
    BY <1>0, <1>8 DEF Consistent
  <2> QED
    BY <1>0, <1>1, <1>7, <1>10, <1>11, <2>1, SignaturesStep
<1>17. ExportedOnce'
  <2>1. ExportedOnce
    BY <1>0 DEF Consistent
  <2>2. ASSUME export # NoName
        PROVE  /\ \A i \in DOMAIN functions : functions[i].export => functions[i].name # export
               /\ \A i \in DOMAIN tables : tables[i].export # export
               /\ \A i \in DOMAIN globals : globals[i].export # export
    BY <1>1, <2>2 DEF ExportFree, TakenExports, Range
  <2>3. \A i, j \in DOMAIN globals' :
          globals'[i].export # NoName /\ globals'[i].export = globals'[j].export => i = j
    BY <1>5, <1>6, <2>1, <2>2 DEF ExportedOnce
  <2>4. \A i \in DOMAIN functions, j \in DOMAIN globals' :
          functions[i].export /\ globals'[j].export # NoName => functions[i].name # globals'[j].export
    BY <1>5, <1>6, <2>1, <2>2 DEF ExportedOnce
  <2>5. \A i \in DOMAIN globals', j \in DOMAIN tables :
          globals'[i].export # NoName => globals'[i].export # tables[j].export
    BY <1>5, <1>6, <2>1, <2>2 DEF ExportedOnce
  <2> QED
    BY <1>1, <1>11, <2>1, <2>3, <2>4, <2>5 DEF ExportedOnce
<1>18. Consistent'
  BY <1>11, <1>12, <1>13, <1>14, <1>15, <1>16, <1>17 DEF Consistent
<1> QED
  BY <1>7, <1>9, <1>10, <1>18 DEF IInv

LEMMA ImportFuncStep ==
  ASSUME IInv, NEW name, NEW sig, ImportFunc(name, sig)
  PROVE  IInv' /\ Grows
<1> DEFINE f == [index |-> Len(imports), name |-> name, sig |-> sig]
<1>0. Lists /\ TypeOK /\ Consistent /\ Idle /\ ~closed /\ functions = <<>>
  BY DEF IInv, ImportFunc
<1>1. /\ UNCHANGED <<functions, globals, tables, start_index, memory, static_segments,
                     static_end, allocator, allocator_global, building, inside, closed, bytecode>>
      /\ imports' = Append(imports, f) /\ signatures' = WithSignature(signatures, sig)
  BY DEF ImportFunc, RegisterImport, static, heap, phase
<1>2. /\ Len(imports) \in Nat /\ DOMAIN imports = 1 .. Len(imports) /\ IsList(imports)
      /\ IsList(signatures) /\ Len(globals) \in Nat
      /\ Len(functions) = 0 /\ IsList(functions) /\ DOMAIN functions = {}
  BY <1>0, ListFacts, EmptyList DEF Lists
<1>3. /\ IsList(imports') /\ Len(imports') = Len(imports) + 1
      /\ \A i \in 1 .. Len(imports) : imports'[i] = imports[i]
      /\ imports'[Len(imports) + 1] = f
  BY <1>1, <1>2, AppendList
<1>4. DOMAIN imports' = 1 .. (Len(imports) + 1)
  BY <1>3, ListFacts
<1> HIDE DEF f
<1>5. f.index = Len(imports) /\ f.sig = sig
  BY DEF f
<1>6. /\ IsList(signatures') /\ Len(signatures) <= Len(signatures')
      /\ \A i \in 1 .. Len(signatures) : signatures'[i] = signatures[i]
      /\ Typed(signatures', sig)
  BY <1>1, <1>2, SignatureKept
<1>7. Lists'
  BY <1>0, <1>1, <1>3, <1>6 DEF Lists, Idle
<1>8. NextFunctionIndex = Len(imports) /\ NextFunctionIndex' = Len(imports) + 1
  BY <1>1, <1>2, <1>3 DEF NextFunctionIndex
<1>9. /\ \A i \in 1 .. Len(imports) : AllFunctions[i] = imports[i] /\ AllFunctions'[i] = imports[i]
      /\ AllFunctions'[Len(imports) + 1] = f
  <2>1. \A i \in 1 .. Len(imports) : AllFunctions[i] = imports[i]
    BY <1>2, ConcatList DEF AllFunctions
  <2>2. \A i \in 1 .. Len(imports') : AllFunctions'[i] = imports'[i]
    BY <1>1, <1>2, <1>3, ConcatList DEF AllFunctions
  <2> QED
    BY <1>2, <1>3, <2>1, <2>2
<1>10. TypeOK'
  <2>1. \A i \in DOMAIN imports' : imports'[i].index = i - 1
    BY <1>0, <1>2, <1>3, <1>4, <1>5 DEF TypeOK
  <2>2. /\ start_index' \in {None} \cup 0 .. (NextFunctionIndex' - 1)
        /\ allocator' \in {None} \cup 0 .. (NextFunctionIndex' - 2)
    BY <1>0, <1>1, <1>2, <1>8 DEF TypeOK
  <2>3. \A i \in DOMAIN functions' : functions'[i].index = Len(imports') + i - 1
    BY <1>1, <1>2
  <2> QED
    BY <1>0, <1>1, <2>1, <2>2, <2>3 DEF TypeOK
<1>11. Grows
  BY <1>1, <1>2, <1>6, <1>8, <1>9 DEF Grows
<1>12. ~Assembled' /\ DataInOrder' /\ Idle' /\ ExportedOnce'
  BY <1>0, <1>1 DEF Consistent, Assembled, DataInOrder, Idle, ExportedOnce
<1>13. AllocatorPlaced' /\ HeapKnownToAllocator'
  <2>1. allocator = None
    BY <1>0, <1>2, <1>8 DEF Consistent, AllocatorPlaced, TypeOK
  <2>2. HeapKnownToAllocator'
    BY <1>1, <1>2, <1>12 DEF HeapKnownToAllocator
  <2> QED
    BY <1>0, <1>1, <2>1, <2>2 DEF Consistent, AllocatorPlaced
<1>14. ReferencesValid'
  BY <1>0, <1>1, <1>7, <1>11, <1>12, ReferencesStep DEF Consistent
<1>15. EntriesValid'
  BY <1>0, <1>1, <1>7, <1>11, EntriesStep DEF Consistent
<1>16. SignaturesKnown'
  <2>1. SignaturesKnown
    BY <1>0 DEF Consistent
  <2>2. \A i \in 1 .. NextFunctionIndex' :
          i > NextFunctionIndex => Typed(signatures', AllFunctions'[i].sig)
    BY <1>2, <1>5, <1>6, <1>8, <1>9
  <2> QED
    BY <1>0, <1>1, <1>7, <1>11, <1>12, <2>1, <2>2, SignaturesStep
<1>17. Consistent'
  BY <1>12, <1>13, <1>14, <1>15, <1>16 DEF Consistent
<1> QED
  BY <1>7, <1>10, <1>11, <1>17 DEF IInv

LEMMA CreateTableStep ==
  ASSUME IInv, NEW f \in Handles, NEW g \in Handles, NEW export, CreateTable(f, g, export)
  PROVE  IInv' /\ Grows
<1> DEFINE t == [sig |-> f.sig, entries |-> <<CallRef(f), CallRef(g)>>, export |-> export]
<1>0. Lists /\ TypeOK /\ Consistent /\ Idle /\ ~closed
  BY DEF IInv, CreateTable
<1>1. /\ UNCHANGED <<imports, functions, globals, start_index, memory, static_segments,
                     static_end, allocator, allocator_global, building, inside, closed, bytecode>>
      /\ tables' = <<t>> /\ signatures' = WithSignature(signatures, f.sig)
      /\ ExportFree(export) /\ WasmKey(f.sig) = WasmKey(g.sig)
  BY DEF CreateTable, static, heap, phase
<1>2. IsList(tables') /\ Len(tables') = 1 /\ DOMAIN tables' = {1} /\ tables'[1] = t
  BY <1>1, OneList
<1>3. t.sig = f.sig /\ t.entries = <<CallRef(f), CallRef(g)>> /\ t.export = export
  OBVIOUS
<1> HIDE DEF t
<1>4. /\ IsList(signatures') /\ Len(signatures) <= Len(signatures')
      /\ \A i \in 1 .. Len(signatures) : signatures'[i] = signatures[i]
  BY <1>0, <1>1, SignatureKept DEF Lists
<1>5. Lists'
  BY <1>0, <1>1, <1>2, <1>4 DEF Lists, Idle
<1>6. AllFunctions' = AllFunctions /\ NextFunctionIndex' = NextFunctionIndex /\ NextFunctionIndex \in Nat
  BY <1>0, <1>1, IndexSpace DEF AllFunctions, NextFunctionIndex
<1>7. TypeOK'
  BY <1>0, <1>1, <1>2, <1>6 DEF TypeOK
<1>8. Grows
  <2>1. Len(globals) \in Nat
    BY <1>0, ListFacts DEF Lists
  <2> QED
    BY <1>1, <1>4, <1>6, <2>1 DEF Grows
<1>9. ~Assembled' /\ DataInOrder' /\ Idle'
  BY <1>0, <1>1 DEF Consistent, Assembled, DataInOrder, Idle
<1>10. AllocatorPlaced' /\ HeapKnownToAllocator'
  BY <1>0, <1>1 DEF Consistent, AllocatorPlaced, HeapKnownToAllocator, AllocatorPosition, Idle
<1>11. ReferencesValid'
  BY <1>0, <1>1, <1>5, <1>8, <1>9, ReferencesStep DEF Consistent
<1>12. EntriesValid'
  <2>1. \A r \in Range(t.entries) : r = CallRef(f) \/ r = CallRef(g)
    BY <1>3 DEF Range
  <2>2. f \in Range(imports) \cup Range(functions) /\ g \in Range(imports) \cup Range(functions)
    BY DEF Handles
  <2>3. /\ CallRef(f).kind = "call" /\ Valid(CallRef(f)) /\ AllFunctions[CallRef(f).index + 1] = f
        /\ CallRef(g).kind = "call" /\ Valid(CallRef(g)) /\ AllFunctions[CallRef(g).index + 1] = g
    BY <1>0, <2>2, CallValid
  <2>4. ASSUME NEW r \in Range(t.entries)
        PROVE  /\ r.kind = "call" /\ Valid(r)'
               /\ WasmKey(AllFunctions'[r.index + 1].sig) = WasmKey(t.sig)
    BY <1>0, <1>1, <1>3, <1>5, <1>6, <1>8, <2>1, <2>3, ValidGrows
  <2> QED
    BY <1>2, <2>4 DEF EntriesValid
<1>13. SignaturesKnown'
  <2>1. SignaturesKnown /\ \A i \in 1 .. NextFunctionIndex' :
          i > NextFunctionIndex => Typed(signatures', AllFunctions'[i].sig)
    BY <1>0, <1>6 DEF Consistent
  <2> QED
    BY <1>0, <1>1, <1>5, <1>8, <1>9, <2>1, SignaturesStep
<1>14. ExportedOnce'
  <2>1. ExportedOnce
    BY <1>0 DEF Consistent
  <2>2. ASSUME export # NoName
        PROVE  /\ \A i \in DOMAIN functions : functions[i].export => functions[i].name # export
               /\ \A i \in DOMAIN globals : globals[i].export # export
    BY <1>1, <2>2 DEF ExportFree, TakenExports, Range
  <2> QED
    BY <1>1, <1>2, <1>3, <1>9, <2>1, <2>2 DEF ExportedOnce
<1>15. Consistent'
  BY <1>9, <1>10, <1>11, <1>12, <1>13, <1>14 DEF Consistent
<1> QED
  BY <1>5, <1>7, <1>8, <1>15 DEF IInv

-----------------------------------------------------------------------------
(* Statements that change the module *)

LEMMA CallIndirectStep ==
  ASSUME IInv, NEW t \in Range(tables), CallIndirect(t)
  PROVE  IInv' /\ Grows
<1>r. PICK r : r = Ref("type", SignatureIndex(signatures, t.sig), WasmKey(t.sig))
  OBVIOUS
<1>0. Lists /\ TypeOK /\ ~Idle /\ Emit({r})
  BY <1>r DEF IInv, CallIndirect, Compiles
<1>1. /\ UNCHANGED <<imports, functions, globals, tables, start_index, memory, static_segments,
                     static_end, allocator, allocator_global, inside, closed, bytecode>>
      /\ signatures' = WithSignature(signatures, t.sig)
  BY DEF CallIndirect, static, heap, phase
<1>2. /\ r.kind = "type" /\ r.index = SignatureIndex(signatures, t.sig) /\ r.to = WasmKey(t.sig)
  BY <1>r DEF Ref
<1>3. /\ IsList(signatures') /\ Len(signatures) <= Len(signatures')
      /\ \A i \in 1 .. Len(signatures) : signatures'[i] = signatures[i]
  BY <1>0, <1>1, SignatureKept DEF Lists
<1>4. /\ r.index \in 0 .. (Len(signatures') - 1)
      /\ WasmKey(signatures'[r.index + 1]) = r.to
  <2>1. /\ SignatureIndex(signatures, t.sig) \in 0 .. (Len(WithSignature(signatures, t.sig)) - 1)
        /\ WasmKey(WithSignature(signatures, t.sig)[SignatureIndex(signatures, t.sig) + 1]) = WasmKey(t.sig)
    BY <1>0, SignatureCompiled DEF Lists
  <2> QED
    BY <1>1, <1>2, <2>1
<1>5. Valid(r)'
  <2>1. Len(signatures') \in Nat
    BY <1>3, ListFacts
  <2> QED
    BY <1>2, <1>4, <2>1 DEF Valid
<1>6. /\ building' = [name |-> building'.name, sig |-> building'.sig,
                      export |-> building'.export, start |-> building'.start,
                      body |-> building'.body, left |-> building'.left]
      /\ building'.body = building.body \cup {r}
      /\ building'.name = building.name /\ building'.sig = building.sig
      /\ building'.start = building.start
  BY <1>0, EmitFacts
<1>7. Lists'
  <2>1. /\ IsList(imports)' /\ IsList(functions)' /\ IsList(globals)' /\ IsList(tables)'
        /\ IsList(signatures)' /\ IsList(static_segments)'
    BY <1>0, <1>1, <1>3 DEF Lists
  <2> QED
    BY <1>6, <2>1, Zenon DEF Lists
<1>8. AllFunctions' = AllFunctions /\ NextFunctionIndex' = NextFunctionIndex /\ NextFunctionIndex \in Nat
  BY <1>0, <1>1, IndexSpace DEF AllFunctions, NextFunctionIndex
<1>9. TypeOK'
  BY <1>0, <1>1, <1>8 DEF TypeOK
<1>10. Grows
  <2>1. Len(globals) \in Nat
    BY <1>0, ListFacts DEF Lists
  <2> QED
    BY <1>1, <1>3, <1>8, <2>1 DEF Grows
<1>11. ASSUME ~closed
       PROVE  Consistent'
  <2>1. Consistent
    BY <1>11 DEF IInv
  <2>2. ~Assembled' /\ DataInOrder' /\ AllocatorPlaced'
    BY <1>1, <2>1 DEF Consistent, Assembled, DataInOrder, AllocatorPlaced, AllocatorPosition
  <2>3. HeapKnownToAllocator'
    BY <1>0, <1>1, <1>2, <1>6, <2>1 DEF Consistent, HeapKnownToAllocator, HeapRefs, AllocatorPosition
  <2>4. ReferencesValid'
    <3>1. \A q \in building'.body : (~Idle /\ q \in building.body) \/ Valid(q)'
      BY <1>0, <1>5, <1>6
    <3> QED
      BY <1>0, <1>1, <1>7, <1>10, <2>1, <3>1, ReferencesStep DEF Consistent
  <2>5. EntriesValid'
    BY <1>0, <1>1, <1>7, <1>10, <2>1, EntriesStep DEF Consistent
  <2>6. SignaturesKnown'
    <3>1. SignaturesKnown /\ \A i \in 1 .. NextFunctionIndex' :
            i > NextFunctionIndex => Typed(signatures', AllFunctions'[i].sig)
      BY <1>8, <2>1 DEF Consistent
    <3>2. building'.start => building'.sig = Void
      BY <1>0, <1>6, <3>1 DEF SignaturesKnown
    <3> QED
      BY <1>0, <1>1, <1>7, <1>10, <3>1, <3>2, SignaturesStep
  <2>7. ExportedOnce'
    BY <1>0, <1>1, <1>6, <2>1 DEF Consistent, ExportedOnce
  <2> QED
    BY <2>2, <2>3, <2>4, <2>5, <2>6, <2>7 DEF Consistent
<1> QED
  BY <1>1, <1>7, <1>9, <1>10, <1>11 DEF IInv

(* Memory is asked for and perhaps data interned, for what a body refers   *)
(* to; or the body is given up.                                            *)
LEMMA MemoryStep ==
  ASSUME IInv, ~Idle, UNCHANGED <<declared, heap, phase>>,
         memory' \in Nat, memory > 0 => memory' > 0, static_end' \in Nat,
         IsList(static_segments'),
         \A i \in DOMAIN static_segments :
           i \in DOMAIN static_segments' /\ static_segments'[i] = static_segments[i],
         ~closed => DataInOrder',
         NEW refs, \A r \in refs : r.kind \in {"memory", "data"} /\ (~closed => Valid(r)'),
         building' = Nobody \/ Emit(refs)
  PROVE  IInv' /\ Grows
<1>0. Lists /\ TypeOK
  BY DEF IInv
<1>1. UNCHANGED <<imports, functions, globals, tables, signatures, start_index,
                  allocator, allocator_global, inside, closed, bytecode>>
  BY DEF declared, heap, phase
<1>2. /\ Lists'
      /\ ~Idle' => /\ building'.body = building.body \cup refs
                   /\ building'.name = building.name /\ building'.sig = building.sig
                   /\ building'.start = building.start
  <2>0. /\ IsList(imports)' /\ IsList(functions)' /\ IsList(globals)' /\ IsList(tables)'
        /\ IsList(signatures)' /\ IsList(static_segments)'
    BY <1>0, <1>1 DEF Lists
  <2>1. CASE building' = Nobody
    BY <2>0, <2>1 DEF Lists, Idle
  <2>2. CASE Emit(refs)
    <3>1. /\ building' = [name |-> building'.name, sig |-> building'.sig,
                          export |-> building'.export, start |-> building'.start,
                          body |-> building'.body, left |-> building'.left]
          /\ building'.body = building.body \cup refs
          /\ building'.name = building.name /\ building'.sig = building.sig
          /\ building'.start = building.start
      BY <1>0, <2>2, EmitFacts
    <3>2. Lists'
      BY <2>0, <3>1, Zenon DEF Lists
    <3> QED
      BY <3>1, <3>2
  <2> QED
    BY <2>1, <2>2
<1>3. AllFunctions' = AllFunctions /\ NextFunctionIndex' = NextFunctionIndex /\ NextFunctionIndex \in Nat
  BY <1>0, <1>1, IndexSpace DEF AllFunctions, NextFunctionIndex
<1>4. TypeOK'
  BY <1>0, <1>1, <1>3 DEF TypeOK
<1>5. Grows
  <2>1. Len(globals) \in Nat /\ Len(signatures) \in Nat
    BY <1>0, ListFacts DEF Lists
  <2> QED
    BY <1>1, <1>3, <2>1 DEF Grows
<1>6. ASSUME ~closed
      PROVE  Consistent'
  <2>1. Consistent
    BY <1>6 DEF IInv
  <2>2. ~Assembled' /\ DataInOrder' /\ AllocatorPlaced'
    BY <1>1, <1>6, <2>1 DEF Consistent, Assembled, AllocatorPlaced, AllocatorPosition
  <2>3. HeapKnownToAllocator'
    BY <1>1, <1>2, <2>1 DEF Consistent, HeapKnownToAllocator, HeapRefs, AllocatorPosition
  <2>4. ReferencesValid'
    <3>1. ~Idle' => \A q \in building'.body : (~Idle /\ q \in building.body) \/ Valid(q)'
      BY <1>2, <1>6
    <3> QED
      BY <1>0, <1>1, <1>2, <1>5, <2>1, <3>1, ReferencesStep DEF Consistent
  <2>5. EntriesValid'
    BY <1>0, <1>1, <1>2, <1>5, <2>1, EntriesStep DEF Consistent
  <2>6. SignaturesKnown'
    <3>1. SignaturesKnown /\ \A i \in 1 .. NextFunctionIndex' :
            i > NextFunctionIndex => Typed(signatures', AllFunctions'[i].sig)
      BY <1>3, <2>1 DEF Consistent
    <3>2. ~Idle' /\ building'.start => building'.sig = Void
      BY <1>2, <3>1 DEF SignaturesKnown
    <3> QED
      BY <1>0, <1>1, <1>2, <1>5, <3>1, <3>2, SignaturesStep
  <2>7. ExportedOnce'
    BY <1>1, <1>2, <2>1 DEF Consistent, ExportedOnce
  <2> QED
    BY <2>2, <2>3, <2>4, <2>5, <2>6, <2>7 DEF Consistent
<1> QED
  BY <1>1, <1>2, <1>4, <1>5, <1>6 DEF IInv

LEMMA FromAddressStep ==
  ASSUME IInv, FromAddress
  PROVE  IInv' /\ Grows
<1>r. PICK r : r = Ref("memory", 0, "memory")
  OBVIOUS
<1>0. Lists /\ TypeOK /\ ~Idle /\ UNCHANGED <<declared, static, heap, phase>>
  BY DEF IInv, FromAddress, Compiles
<1>1. UNCHANGED <<static_segments, static_end>>
  BY <1>0 DEF static
<1>2. /\ memory \in Nat /\ static_end \in Nat /\ IsList(static_segments')
      /\ ~closed => DataInOrder'
  BY <1>0, <1>1 DEF IInv, TypeOK, Lists, Consistent, DataInOrder
<1>3. \/ building' = Nobody /\ memory' = memory
      \/ Emit({r}) /\ memory' = IF memory = 0 THEN 1 ELSE memory
  BY <1>r DEF FromAddress, BodyRaises, EnsureMemory
<1>4. r.kind = "memory" /\ (memory' > 0 => Valid(r)')
  BY <1>r DEF Ref, Valid
<1>5. CASE building' = Nobody /\ memory' = memory
  <2>1. PICK refs : refs = {}
    OBVIOUS
  <2>2. \A q \in refs : q.kind \in {"memory", "data"} /\ (~closed => Valid(q)')
    BY <2>1
  <2> QED
    BY <1>0, <1>1, <1>2, <1>5, <2>2, MemoryStep
<1>6. CASE Emit({r}) /\ memory' = IF memory = 0 THEN 1 ELSE memory
  <2>1. memory' \in Nat /\ memory' > 0
    BY <1>2, <1>6
  <2> QED
    BY <1>0, <1>1, <1>2, <1>4, <1>6, <2>1, MemoryStep
<1> QED
  BY <1>3, <1>5, <1>6

(* Data is interned after the data there is.                               *)
LEMMA InternFacts ==
  ASSUME IsList(static_segments), static_end \in Nat, DataInOrder, NEW d \in Literals, Intern(d)
  PROVE  /\ IsList(static_segments') /\ static_end' \in Nat /\ DataInOrder'
         /\ \A i \in DOMAIN static_segments :
              i \in DOMAIN static_segments' /\ static_segments'[i] = static_segments[i]
         /\ \E i \in DOMAIN static_segments' :
              static_segments'[i].address = AddressOf(d) /\ static_segments'[i].text = d.text
<1> DEFINE s == [address |-> NextAddress, size |-> d.size, text |-> d.text]
<1>0. Len(static_segments) \in Nat /\ DOMAIN static_segments = 1 .. Len(static_segments)
  BY ListFacts
<1>1. CASE Interned(d) # {}
  <2>1. UNCHANGED <<static_segments, static_end>>
    BY <1>1 DEF Intern, static
  <2>2. (CHOOSE q \in Interned(d) : TRUE) \in Interned(d)
    BY <1>1
  <2>3. PICK q \in Interned(d) : AddressOf(d) = q.address
    BY <1>1, <2>2 DEF AddressOf
  <2>4. q.text = d.text /\ \E i \in DOMAIN static_segments : q = static_segments[i]
    BY <2>3 DEF Interned, Range
  <2> QED
    BY <2>1, <2>3, <2>4 DEF DataInOrder
<1>2. CASE Interned(d) = {}
  <2>1. static_segments' = Append(static_segments, s) /\ static_end' = NextAddress + d.size
    BY <1>2 DEF Intern
  <2>2. /\ IsList(static_segments') /\ Len(static_segments') = Len(static_segments) + 1
        /\ \A i \in 1 .. Len(static_segments) : static_segments'[i] = static_segments[i]
        /\ static_segments'[Len(static_segments) + 1] = s
    BY <2>1, AppendList
  <2>3. DOMAIN static_segments' = 1 .. (Len(static_segments) + 1)
    BY <2>2, ListFacts
  <2>4. NextAddress \in Nat /\ static_end <= NextAddress /\ d.size \in Nat
    <3>1. 4 \in Nat /\ 4 > 0
      OBVIOUS
    <3>2. AlignUp(static_end, 4) \in Nat /\ static_end <= AlignUp(static_end, 4)
      BY <3>1, AlignUpFacts
    <3> QED
      BY <3>2, BuilderAssumption DEF NextAddress
  <2>5. s.address = NextAddress /\ s.size = d.size /\ s.text = d.text
    OBVIOUS
  <2> HIDE DEF s
  <2>6. static_end' \in Nat /\ static_end <= static_end'
    BY <2>1, <2>4
  <2>7. \A i \in 1 .. Len(static_segments) :
          /\ static_segments[i].address \in Nat /\ static_segments[i].size \in Nat
          /\ static_segments[i].address + static_segments[i].size <= static_end
    BY <1>0 DEF DataInOrder
  <2>8. \A i \in DOMAIN static_segments' :
          i \in 1 .. Len(static_segments) \/ i = Len(static_segments) + 1
    BY <1>0, <2>3
  <2>9. ASSUME NEW i \in DOMAIN static_segments'
        PROVE  /\ static_segments'[i].address \in Nat /\ static_segments'[i].size \in Nat
               /\ static_segments'[i].address + static_segments'[i].size <= static_end'
    <3>1. CASE i \in 1 .. Len(static_segments)
      <4>1. /\ static_segments[i].address \in Nat /\ static_segments[i].size \in Nat
            /\ static_segments[i].address + static_segments[i].size <= static_end
            /\ static_segments'[i] = static_segments[i]
        BY <2>2, <2>7, <3>1
      <4> QED
        BY <2>6, <4>1
    <3>2. CASE i = Len(static_segments) + 1
      BY <2>1, <2>2, <2>4, <2>5, <3>2
    <3> QED
      BY <2>8, <3>1, <3>2
  <2>10. ASSUME NEW i \in DOMAIN static_segments', NEW j \in DOMAIN static_segments', i < j
         PROVE  static_segments'[i].address + static_segments'[i].size <= static_segments'[j].address
    <3>1. i \in 1 .. Len(static_segments) /\ static_segments'[i] = static_segments[i]
      BY <1>0, <2>2, <2>3, <2>10
    <3>2. CASE j \in 1 .. Len(static_segments)
      BY <1>0, <2>2, <2>10, <3>1, <3>2 DEF DataInOrder
    <3>3. CASE j = Len(static_segments) + 1
      BY <2>2, <2>4, <2>5, <2>7, <3>1, <3>3
    <3> QED
      BY <2>8, <3>2, <3>3
  <2>11. DataInOrder'
    BY <2>9, <2>10 DEF DataInOrder
  <2>12. \A i \in DOMAIN static_segments :
           i \in DOMAIN static_segments' /\ static_segments'[i] = static_segments[i]
    BY <1>0, <2>2, <2>3
  <2>13. Len(static_segments) + 1 \in DOMAIN static_segments'
    BY <1>0, <2>3
  <2>14. AddressOf(d) = NextAddress
    BY <1>2 DEF AddressOf
  <2> QED
    BY <2>2, <2>5, <2>6, <2>11, <2>12, <2>13, <2>14
<1> QED
  BY <1>1, <1>2

LEMMA StringLiteralStep ==
  ASSUME IInv, NEW d \in Literals, StringLiteral(d)
  PROVE  IInv' /\ Grows
<1>0. Lists /\ TypeOK /\ ~Idle /\ UNCHANGED <<declared, heap, phase>>
  BY DEF IInv, StringLiteral, Compiles
<1>1. /\ IsList(static_segments') /\ static_end' \in Nat
      /\ \A i \in DOMAIN static_segments :
           i \in DOMAIN static_segments' /\ static_segments'[i] = static_segments[i]
      /\ ~closed => /\ DataInOrder'
                    /\ \E i \in DOMAIN static_segments' :
                         static_segments'[i].address = AddressOf(d) /\ static_segments'[i].text = d.text
  <2>1. CASE closed
    <3>1. UNCHANGED <<static_segments, static_end>>
      BY <2>1 DEF StringLiteral, static
    <3> QED
      BY <1>0, <2>1, <3>1 DEF Lists, TypeOK
  <2>2. CASE ~closed
    <3>1. Intern(d) /\ DataInOrder
      BY <2>2 DEF StringLiteral, IInv, Consistent
    <3> QED
      BY <1>0, <3>1, InternFacts DEF Lists, TypeOK
  <2> QED
    BY <2>1, <2>2
<1>2. PICK a : a = AddressOf(d)
  OBVIOUS
<1>3. PICK refs : refs = {Ref("data", a, d.text), Ref("memory", 0, "memory")}
  OBVIOUS
<1>4. \/ building' = Nobody /\ memory' = memory
      \/ Emit(refs) /\ memory' = (IF memory = 0 THEN 1 ELSE memory) /\ ~closed
  BY <1>2, <1>3 DEF StringLiteral, BodyRaises, EnsureMemory
<1>5. memory \in Nat
  BY <1>0 DEF TypeOK
<1>6. CASE building' = Nobody /\ memory' = memory
  <2>1. PICK none : none = {}
    OBVIOUS
  <2>2. \A q \in none : q.kind \in {"memory", "data"} /\ (~closed => Valid(q)')
    BY <2>1
  <2> QED
    BY <1>0, <1>1, <1>5, <1>6, <2>2, MemoryStep
<1>7. CASE Emit(refs) /\ memory' = (IF memory = 0 THEN 1 ELSE memory) /\ ~closed
  <2>1. memory' \in Nat /\ memory' > 0
    BY <1>5, <1>7
  <2>2. ASSUME NEW q \in refs
        PROVE  q.kind \in {"memory", "data"} /\ Valid(q)'
    <3>1. CASE q = Ref("memory", 0, "memory")
      BY <2>1, <3>1 DEF Ref, Valid
    <3>2. CASE q = Ref("data", a, d.text)
      BY <1>1, <1>2, <1>7, <3>2 DEF Ref, Valid
    <3> QED
      BY <1>3, <3>1, <3>2
  <2> QED
    BY <1>0, <1>1, <1>7, <2>1, <2>2, MemoryStep
<1> QED
  BY <1>4, <1>6, <1>7

-----------------------------------------------------------------------------
(* The functions the module defines *)

LEMMA RegisterStep ==
  ASSUME IInv, Register
  PROVE  IInv' /\ Grows
<1>f. PICK f : f = [index |-> NextFunctionIndex, name |-> building.name, sig |-> building.sig,
                    export |-> building.export, body |-> building.body]
  OBVIOUS
<1>0. Lists /\ TypeOK /\ ~Idle /\ building' = Nobody /\ Idle'
  BY DEF IInv, Register, Idle
<1>1. UNCHANGED <<imports, globals, tables, memory, static_segments, static_end,
                  allocator, allocator_global, inside, closed, bytecode>>
  BY DEF Register, static, heap, phase
<1>2. CASE building.export /\ ~ExportFree(building.name)
  <2>1. UNCHANGED <<functions, signatures, start_index>>
    BY <1>2 DEF Register
  <2>2. UNCHANGED <<declared, memory, static, heap, closed, bytecode>> /\ inside' \in BOOLEAN
    BY <1>0, <1>1, <2>1 DEF declared, static, heap, TypeOK
  <2>3. Lists'
    BY <1>0, <1>1, <2>1 DEF Lists
  <2> QED
    BY <1>0, <2>2, <2>3, OnlyBuilding
<1>3. CASE ~(building.export /\ ~ExportFree(building.name))
  <2>1. /\ functions' = Append(functions, f) /\ signatures' = WithSignature(signatures, f.sig)
        /\ start_index' = IF building.start THEN NextFunctionIndex ELSE start_index
    BY <1>3, <1>f DEF Register, RegisterFunction
  <2>2. /\ f.index = NextFunctionIndex /\ f.name = building.name /\ f.sig = building.sig
        /\ f.export = building.export /\ f.body = building.body
    BY <1>f
  <2>3. /\ Len(imports) \in Nat /\ Len(functions) \in Nat /\ Len(globals) \in Nat
        /\ DOMAIN functions = 1 .. Len(functions)
        /\ IsList(functions) /\ IsList(imports) /\ IsList(signatures)
    BY <1>0, ListFacts DEF Lists
  <2>4. /\ IsList(functions') /\ Len(functions') = Len(functions) + 1
        /\ \A i \in 1 .. Len(functions) : functions'[i] = functions[i]
        /\ functions'[Len(functions) + 1] = f
    BY <2>1, <2>3, AppendList
  <2>5. DOMAIN functions' = 1 .. (Len(functions) + 1)
    BY <2>4, ListFacts
  <2>6. \A i \in DOMAIN functions' :
          \/ i \in DOMAIN functions /\ functions'[i] = functions[i]
          \/ i = Len(functions) + 1 /\ functions'[i] = f
    BY <2>3, <2>4, <2>5
  <2>7. /\ IsList(signatures') /\ Len(signatures) <= Len(signatures')
        /\ \A i \in 1 .. Len(signatures) : signatures'[i] = signatures[i]
        /\ Typed(signatures', f.sig)
    BY <2>1, <2>3, SignatureKept
  <2>8. Lists'
    BY <1>0, <1>1, <2>4, <2>7 DEF Lists
  <2>9. /\ NextFunctionIndex = Len(imports) + Len(functions)
        /\ NextFunctionIndex' = Len(imports) + Len(functions) + 1
    BY <1>1, <2>3, <2>4 DEF NextFunctionIndex
  <2>10. TypeOK'
    <3>1. \A i \in DOMAIN functions' : functions'[i].index = Len(imports') + i - 1
      BY <1>0, <1>1, <2>2, <2>3, <2>6, <2>9 DEF TypeOK
    <3>2. /\ start_index' \in {None} \cup 0 .. (NextFunctionIndex' - 1)
          /\ allocator' \in {None} \cup 0 .. (NextFunctionIndex' - 2)
      BY <1>0, <1>1, <2>1, <2>3, <2>9 DEF TypeOK
    <3> QED
      BY <1>0, <1>1, <3>1, <3>2 DEF TypeOK
  <2>11. /\ \A i \in 1 .. NextFunctionIndex :
              AllFunctions'[i].name = AllFunctions[i].name /\ AllFunctions'[i].sig = AllFunctions[i].sig
         /\ \A i \in 1 .. NextFunctionIndex' : i > NextFunctionIndex => AllFunctions'[i] = f
    <3>1. PICK fs : fs = functions'
      OBVIOUS
    <3>2. AllFunctions' = imports \o fs
      BY <1>1, <3>1 DEF AllFunctions
    <3>3. /\ IsList(fs) /\ Len(fs) = Len(functions) + 1 /\ fs[Len(functions) + 1] = f
          /\ \A j \in 1 .. Len(functions) : fs[j].name = functions[j].name /\ fs[j].sig = functions[j].sig
      BY <2>4, <3>1
    <3>4. Len(functions) <= Len(fs)
      BY <2>3, <3>3
    <3>5. ASSUME NEW i \in 1 .. NextFunctionIndex
          PROVE  AllFunctions'[i].name = AllFunctions[i].name /\ AllFunctions'[i].sig = AllFunctions[i].sig
      <4>1. i \in 1 .. (Len(imports) + Len(functions))
        BY <2>9
      <4>2. IsList(imports) /\ IsList(functions) /\ IsList(fs)
        BY <2>3, <3>3
      <4>3. KeepsHeads(functions, fs)
        BY <3>3, <3>4 DEF KeepsHeads
      <4>4. /\ (imports \o fs)[i].name = (imports \o functions)[i].name
            /\ (imports \o fs)[i].sig = (imports \o functions)[i].sig
        <5>1. PICK old, new : old = imports \o functions /\ new = imports \o fs
          OBVIOUS
        <5>2. KeepsHeads(old, new) /\ Len(old) = Len(imports) + Len(functions)
          BY <4>2, <4>3, <5>1, JoinedKept, ConcatList
        <5> QED
          BY <4>1, <5>1, <5>2 DEF KeepsHeads
      <4> QED
        BY <3>2, <4>4 DEF AllFunctions
    <3>6. ASSUME NEW i \in 1 .. NextFunctionIndex', i > NextFunctionIndex
          PROVE  AllFunctions'[i] = f
      <4>1. i \in 1 .. (Len(imports) + Len(fs)) /\ i > Len(imports) + Len(functions)
        BY <2>3, <2>9, <3>3, <3>6
      <4>2. PICK j \in 1 .. Len(fs) : j > Len(functions) /\ (imports \o fs)[i] = fs[j]
        BY <2>3, <3>3, <4>1, JoinedNew
      <4>3. j = Len(functions) + 1
        BY <2>3, <3>3, <4>2
      <4> QED
        BY <3>2, <3>3, <4>2, <4>3
    <3> QED
      BY <3>5, <3>6
  <2>12. Grows
    BY <1>1, <2>3, <2>7, <2>9, <2>11 DEF Grows
  <2>13. ASSUME ~closed
         PROVE  Consistent'
    <3>1. Consistent
      BY <2>13 DEF IInv
    <3>2. ~Assembled' /\ DataInOrder'
      BY <1>1, <3>1 DEF Consistent, Assembled, DataInOrder
    <3>3. allocator # None => /\ AllocatorPosition \in Nat
                              /\ AllocatorPosition + 2 <= Len(functions)
      <4>1. allocator # None => Len(imports) <= allocator /\ allocator \in 0 .. (NextFunctionIndex - 2)
        BY <1>0, <3>1 DEF Consistent, AllocatorPlaced, TypeOK
      <4> QED
        BY <2>3, <2>9, <4>1 DEF AllocatorPosition
    <3>4. AllocatorPlaced'
      <4>1. allocator # None => \A k \in {1, 2} : functions'[AllocatorPosition + k] = functions[AllocatorPosition + k]
        BY <2>3, <2>4, <3>3
      <4> QED
        BY <1>1, <3>1, <4>1 DEF Consistent, AllocatorPlaced, AllocatorPosition
    <3>5. HeapKnownToAllocator'
      BY <1>0, <1>1, <2>2, <2>6, <3>1 DEF Consistent, HeapKnownToAllocator, AllocatorPosition
    <3>6. ReferencesValid'
      <4>1. \A q \in f.body : Valid(q)'
        BY <1>0, <2>2, <2>8, <2>12, <3>1, ValidGrows DEF Consistent, ReferencesValid
      <4>2. \A i \in DOMAIN functions' :
              \/ i \in DOMAIN functions /\ functions'[i].body = functions[i].body
              \/ \A q \in functions'[i].body : Valid(q)'
        BY <2>6, <4>1
      <4> QED
        BY <1>0, <2>8, <2>12, <3>1, <4>2, ReferencesStep DEF Consistent
    <3>7. EntriesValid'
      BY <1>0, <1>1, <2>8, <2>12, <3>1, EntriesStep DEF Consistent
    <3>8. SignaturesKnown'
      <4>1. SignaturesKnown
        BY <3>1 DEF Consistent
      <4>2. start_index' # start_index => WasmKey(AllFunctions'[start_index' + 1].sig) = WasmKey(Void)
        <5>1. SUFFICES ASSUME start_index' # start_index
                       PROVE  WasmKey(AllFunctions'[start_index' + 1].sig) = WasmKey(Void)
          OBVIOUS
        <5>2. building.start /\ start_index' = NextFunctionIndex
          BY <2>1, <5>1
        <5>3. NextFunctionIndex + 1 \in 1 .. NextFunctionIndex' /\ NextFunctionIndex + 1 > NextFunctionIndex
          BY <2>3, <2>9
        <5>4. AllFunctions'[start_index' + 1] = f
          BY <2>11, <5>2, <5>3
        <5>5. f.sig = Void
          BY <1>0, <2>2, <4>1, <5>2 DEF SignaturesKnown
        <5> QED
          BY <5>4, <5>5
      <4>3. \A i \in 1 .. NextFunctionIndex' :
              i > NextFunctionIndex => Typed(signatures', AllFunctions'[i].sig)
        BY <2>7, <2>11
      <4> QED
        BY <1>0, <2>8, <2>12, <4>1, <4>2, <4>3, SignaturesStep
    <3>9. ExportedOnce'
      <4>1. ExportedOnce
        BY <3>1 DEF Consistent
      <4>2. \A i \in DOMAIN functions : functions[i].export => functions[i].name # f.name
        BY <1>0, <2>2, <4>1 DEF ExportedOnce
      <4>3. ASSUME f.export, f.name # NoName
            PROVE  /\ \A i \in DOMAIN globals : globals[i].export # f.name
                   /\ \A i \in DOMAIN tables : tables[i].export # f.name
        BY <1>3, <2>2, <4>3 DEF ExportFree, TakenExports, Range
      <4>4. \A i, j \in DOMAIN functions' :
              functions'[i].export /\ functions'[j].export /\ functions'[i].name = functions'[j].name => i = j
        BY <2>6, <4>1, <4>2 DEF ExportedOnce
      <4>5. \A i \in DOMAIN functions', j \in DOMAIN globals :
              functions'[i].export /\ globals[j].export # NoName => functions'[i].name # globals[j].export
        BY <2>6, <4>1, <4>3 DEF ExportedOnce
      <4>6. \A i \in DOMAIN functions', j \in DOMAIN tables :
              functions'[i].export /\ tables[j].export # NoName => functions'[i].name # tables[j].export
        BY <2>6, <4>1, <4>3 DEF ExportedOnce
      <4> QED
        BY <1>0, <1>1, <4>1, <4>4, <4>5, <4>6 DEF ExportedOnce
    <3> QED
      BY <3>2, <3>4, <3>5, <3>6, <3>7, <3>8, <3>9 DEF Consistent
  <2> QED
    BY <1>1, <2>8, <2>10, <2>12, <2>13 DEF IInv
<1> QED
  BY <1>2, <1>3

LEMMA AllocatorGlobalFacts ==
  ASSUME Lists, TypeOK, EnsureAllocatorGlobal
  PROVE  /\ IsList(globals') /\ Len(globals) <= Len(globals') /\ Len(globals) \in Nat
         /\ \A i \in 1 .. Len(globals) : globals'[i] = globals[i]
         /\ \A i \in DOMAIN globals' :
              \/ i \in DOMAIN globals /\ globals'[i] = globals[i]
              \/ globals'[i].export = NoName
         /\ \A i \in DOMAIN globals' : globals'[i].index = i - 1
         /\ allocator_global' \in 0 .. (Len(globals') - 1)
         /\ \/ allocator_global' = allocator_global /\ globals' = globals
            \/ globals'[allocator_global' + 1] = HeapEndGlobal(allocator_global')
         /\ (\A i \in DOMAIN globals : globals[i].name = "heap_end" <=> i = allocator_global + 1)
              => \A i \in DOMAIN globals' : globals'[i].name = "heap_end" <=> i = allocator_global' + 1
<1>g. PICK g : g = HeapEndGlobal(Len(globals))
  OBVIOUS
<1>0. IsList(globals) /\ Len(globals) \in Nat /\ DOMAIN globals = 1 .. Len(globals)
  BY ListFacts DEF Lists
<1>1. CASE allocator_global # None
  <2>1. globals' = globals /\ allocator_global' = allocator_global
    BY <1>1 DEF EnsureAllocatorGlobal, AllocatorGlobal
  <2> QED
    BY <1>0, <1>1, <2>1 DEF TypeOK
<1>2. CASE allocator_global = None
  <2>1. globals' = Append(globals, g) /\ allocator_global' = Len(globals)
    BY <1>2, <1>g DEF EnsureAllocatorGlobal, AllocatorGlobal, HeapEndGlobal
  <2>2. /\ IsList(globals') /\ Len(globals') = Len(globals) + 1
        /\ \A i \in 1 .. Len(globals) : globals'[i] = globals[i]
        /\ globals'[Len(globals) + 1] = g
    BY <1>0, <2>1, AppendList
  <2>3. DOMAIN globals' = 1 .. (Len(globals) + 1)
    BY <2>2, ListFacts
  <2>4. \A i \in DOMAIN globals' :
          \/ i \in DOMAIN globals /\ globals'[i] = globals[i]
          \/ i = Len(globals) + 1 /\ globals'[i] = g
    BY <1>0, <2>2, <2>3
  <2>5. g.index = Len(globals) /\ g.name = "heap_end" /\ g.export = NoName
    BY <1>g DEF HeapEndGlobal
  <2>6. \A i \in DOMAIN globals' : globals'[i].index = i - 1
    BY <1>0, <2>4, <2>5 DEF TypeOK
  <2>7. allocator_global' \in 0 .. (Len(globals') - 1)
    BY <1>0, <2>1, <2>2
  <2>8. ASSUME \A i \in DOMAIN globals : globals[i].name = "heap_end" <=> i = allocator_global + 1
        PROVE  \A i \in DOMAIN globals' : globals'[i].name = "heap_end" <=> i = allocator_global' + 1
    <3>1. \A i \in DOMAIN globals : globals[i].name # "heap_end" /\ i # Len(globals) + 1
      BY <1>0, <1>2, <2>8 DEF None
    <3> QED
      BY <2>1, <2>4, <2>5, <3>1
  <2>9. \A i \in DOMAIN globals' :
          \/ i \in DOMAIN globals /\ globals'[i] = globals[i]
          \/ globals'[i].export = NoName
    BY <2>4, <2>5
  <2>10. globals'[allocator_global' + 1] = HeapEndGlobal(allocator_global')
    BY <1>g, <2>1, <2>2
  <2> QED
    BY <1>0, <2>2, <2>6, <2>7, <2>8, <2>9, <2>10
<1> QED
  BY <1>1, <1>2

(* The allocator is there already.                                         *)
LEMMA AllocatorUsedStep ==
  ASSUME IInv, NEW f, NEW offset, <<f, offset>> \in {<<"$malloc", 0>>, <<"$mfree", 1>>},
         UseAllocator(f, offset), allocator # None, ~closed
  PROVE  IInv' /\ Grows
<1>0. Lists /\ TypeOK /\ Consistent /\ ~Idle
  BY DEF IInv, UseAllocator, Compiles
<1>1. allocator_global # None /\ memory > 0
  BY <1>0 DEF Consistent, AllocatorPlaced
<1>2. UNCHANGED <<declared, memory, static, heap, phase>>
  BY <1>1 DEF UseAllocator, EnsureAllocatorGlobal, AllocatorGlobal, declared, heap
<1>3. PICK refs : refs = {Ref("call", allocator + offset, f), Ref("memory", 0, "memory")}
  OBVIOUS
<1>4. Emit(refs)
  BY <1>3 DEF UseAllocator
<1>5. \/ f = "$malloc" /\ offset = 0
      \/ f = "$mfree" /\ offset = 1
  OBVIOUS
<1>6. /\ allocator + offset \in 0 .. (NextFunctionIndex - 1)
      /\ AllFunctions[allocator + offset + 1].name = f
  <2>1. /\ Len(imports) \in Nat /\ Len(functions) \in Nat
        /\ \A i \in 1 .. Len(functions) : AllFunctions[Len(imports) + i] = functions[i]
    BY <1>0, IndexSpace
  <2>2. /\ allocator \in 0 .. (NextFunctionIndex - 2) /\ Len(imports) <= allocator
        /\ \A k \in {1, 2} : functions[AllocatorPosition + k] =
             AllocatorFunctions(allocator, DefaultHeapStart, allocator_global)[k]
    BY <1>0 DEF TypeOK, Consistent, AllocatorPlaced
  <2>3. /\ AllocatorPosition + offset + 1 \in 1 .. Len(functions)
        /\ Len(imports) + (AllocatorPosition + offset + 1) = allocator + offset + 1
        /\ allocator + offset \in 0 .. (NextFunctionIndex - 1)
    BY <1>5, <2>1, <2>2 DEF AllocatorPosition, NextFunctionIndex
  <2>4. functions[AllocatorPosition + offset + 1].name = f
    <3>1. functions[AllocatorPosition + 1].name = "$malloc" /\ functions[AllocatorPosition + 2].name = "$mfree"
      BY <2>2 DEF AllocatorFunctions
    <3>2. CASE f = "$malloc" /\ offset = 0
      <4>1. AllocatorPosition + offset + 1 = AllocatorPosition + 1
        BY <2>1, <2>2, <3>2 DEF AllocatorPosition
      <4> QED
        BY <3>1, <3>2, <4>1
    <3>3. CASE f = "$mfree" /\ offset = 1
      <4>1. AllocatorPosition + offset + 1 = AllocatorPosition + 2
        BY <2>1, <2>2, <3>3 DEF AllocatorPosition
      <4> QED
        BY <3>1, <3>3, <4>1
    <3> QED
      BY <1>5, <3>2, <3>3
  <2> QED
    BY <2>1, <2>3, <2>4
<1>7. ASSUME NEW r \in refs
      PROVE  r.kind # "heap" /\ Valid(r)
  <2>1. CASE r = Ref("memory", 0, "memory")
    BY <1>1, <2>1 DEF Ref, Valid
  <2>2. CASE r = Ref("call", allocator + offset, f)
    BY <1>6, <2>2 DEF Ref, Valid
  <2> QED
    BY <1>3, <2>1, <2>2
<1> QED
  BY <1>0, <1>2, <1>4, <1>7, EmitStep

(* After assembly a body can ask for the allocator, but not install it.    *)
LEMMA AllocatorClosedStep ==
  ASSUME IInv, NEW f, NEW offset, UseAllocator(f, offset), closed
  PROVE  IInv' /\ Grows
<1>0. Lists /\ TypeOK /\ ~Idle /\ EnsureAllocatorGlobal
  BY DEF IInv, UseAllocator, Compiles
<1>1. UNCHANGED <<imports, functions, tables, signatures, start_index, memory, allocator,
                  static_segments, static_end, inside, closed, bytecode>>
  BY DEF UseAllocator, static, phase
<1>2. /\ IsList(globals') /\ Len(globals) <= Len(globals') /\ Len(globals) \in Nat
      /\ \A i \in 1 .. Len(globals) : globals'[i] = globals[i]
      /\ \A i \in DOMAIN globals' : globals'[i].index = i - 1
      /\ allocator_global' \in 0 .. (Len(globals') - 1)
  BY <1>0, AllocatorGlobalFacts
<1>3. PICK refs : building' = Nobody \/ Emit(refs)
  BY DEF UseAllocator, BodyRaises
<1>4. Lists'
  <2>1. /\ IsList(imports)' /\ IsList(functions)' /\ IsList(globals)' /\ IsList(tables)'
        /\ IsList(signatures)' /\ IsList(static_segments)'
    BY <1>0, <1>1, <1>2 DEF Lists
  <2>2. CASE building' = Nobody
    BY <2>1, <2>2 DEF Lists, Idle
  <2>3. CASE Emit(refs)
    <3>1. building' = [name |-> building'.name, sig |-> building'.sig,
                       export |-> building'.export, start |-> building'.start,
                       body |-> building'.body, left |-> building'.left]
      BY <1>0, <2>3, EmitFacts
    <3> QED
      BY <2>1, <3>1, Zenon DEF Lists
  <2> QED
    BY <1>3, <2>2, <2>3
<1>5. AllFunctions' = AllFunctions /\ NextFunctionIndex' = NextFunctionIndex /\ NextFunctionIndex \in Nat
  BY <1>0, <1>1, IndexSpace DEF AllFunctions, NextFunctionIndex
<1>6. TypeOK'
  BY <1>0, <1>1, <1>2, <1>5 DEF TypeOK
<1>7. Grows
  <2>1. Len(signatures) \in Nat
    BY <1>0, ListFacts DEF Lists
  <2> QED
    BY <1>1, <1>2, <1>5, <2>1 DEF Grows
<1> QED
  BY <1>1, <1>4, <1>6, <1>7 DEF IInv

(* The first use installs it.                                              *)
LEMMA AllocatorInstalledStep ==
  ASSUME IInv, NEW f, NEW offset, <<f, offset>> \in {<<"$malloc", 0>>, <<"$mfree", 1>>},
         UseAllocator(f, offset), allocator = None, ~closed
  PROVE  IInv' /\ Grows
<1>n. PICK new : new = AllocatorFunctions(NextFunctionIndex, DefaultHeapStart, AllocatorGlobal)
  OBVIOUS
<1>r. PICK refs : refs = {Ref("call", NextFunctionIndex + offset, f), Ref("memory", 0, "memory")}
  OBVIOUS
<1>0. Lists /\ TypeOK /\ Consistent /\ ~Idle /\ EnsureAllocatorGlobal
  BY DEF IInv, UseAllocator, Compiles
<1>1. /\ UNCHANGED <<imports, tables, start_index, static_segments, static_end, inside, closed, bytecode>>
      /\ functions' = functions \o new
      /\ signatures' = WithSignature(WithSignature(signatures, new[1].sig), new[2].sig)
      /\ allocator' = NextFunctionIndex
      /\ memory' = IF memory = 0 THEN 1 ELSE memory
      /\ allocator_global' = AllocatorGlobal
  BY <1>n DEF UseAllocator, InstallAllocator, EnsureMemory, EnsureAllocatorGlobal, static, phase
<1>2. Emit(refs)
  BY <1>1, <1>r DEF UseAllocator
<1>3. memory' \in Nat /\ memory' > 0
  BY <1>0, <1>1 DEF TypeOK
<1>4. /\ Len(imports) \in Nat /\ Len(functions) \in Nat
      /\ DOMAIN functions = 1 .. Len(functions)
      /\ IsList(functions) /\ IsList(imports) /\ IsList(signatures)
  BY <1>0, ListFacts DEF Lists
<1>5. IsList(new) /\ Len(new) = 2
  BY <1>n, PairList DEF AllocatorFunctions
<1>6. /\ new[1].index = NextFunctionIndex /\ new[1].name = "$malloc" /\ new[1].export = FALSE
      /\ new[2].index = NextFunctionIndex + 1 /\ new[2].name = "$mfree" /\ new[2].export = FALSE
      /\ new[1].body = AllocatorBody(DefaultHeapStart, AllocatorGlobal)
      /\ new[2].body = AllocatorBody(DefaultHeapStart, AllocatorGlobal)
  BY <1>n DEF AllocatorFunctions
<1>7. /\ IsList(functions') /\ Len(functions') = Len(functions) + 2
      /\ \A i \in 1 .. Len(functions) : functions'[i] = functions[i]
      /\ functions'[Len(functions) + 1] = new[1] /\ functions'[Len(functions) + 2] = new[2]
  <2>1. /\ IsList(functions \o new) /\ Len(functions \o new) = Len(functions) + Len(new)
        /\ \A i \in 1 .. Len(functions) : (functions \o new)[i] = functions[i]
        /\ \A i \in 1 .. Len(new) : (functions \o new)[Len(functions) + i] = new[i]
    <3>1. IsList(functions) /\ IsList(new)
      BY <1>4, <1>5
    <3> QED
      BY <3>1, ConcatList
  <2>2. 1 \in 1 .. Len(new) /\ 2 \in 1 .. Len(new)
    BY <1>5
  <2> QED
    BY <1>1, <1>5, <2>1, <2>2
<1>8. DOMAIN functions' = 1 .. (Len(functions) + 2)
  BY <1>7, ListFacts
<1>9. \A i \in DOMAIN functions' :
        \/ i \in DOMAIN functions /\ functions'[i] = functions[i]
        \/ i = Len(functions) + 1 /\ functions'[i] = new[1]
        \/ i = Len(functions) + 2 /\ functions'[i] = new[2]
  BY <1>4, <1>7, <1>8
<1>10. /\ IsList(signatures') /\ Len(signatures) <= Len(signatures') /\ Len(signatures) \in Nat
       /\ \A i \in 1 .. Len(signatures) : signatures'[i] = signatures[i]
       /\ Typed(signatures', new[1].sig) /\ Typed(signatures', new[2].sig)
  <2>1. PICK mid : mid = WithSignature(signatures, new[1].sig)
    OBVIOUS
  <2>2. /\ IsList(mid) /\ Len(signatures) <= Len(mid) /\ Typed(mid, new[1].sig)
        /\ \A i \in 1 .. Len(signatures) : mid[i] = signatures[i]
    BY <1>4, <2>1, SignatureKept
  <2>3. /\ IsList(signatures') /\ Len(mid) <= Len(signatures') /\ Typed(signatures', new[2].sig)
        /\ \A i \in 1 .. Len(mid) : signatures'[i] = mid[i]
    BY <1>1, <2>1, <2>2, SignatureKept
  <2>4. Typed(signatures', new[1].sig)
    BY <2>2, <2>3, TypedKept
  <2>5. Len(signatures) \in Nat /\ Len(mid) \in Nat /\ Len(signatures') \in Nat
    BY <1>4, <2>2, <2>3, ListFacts
  <2> QED
    BY <2>2, <2>3, <2>4, <2>5
<1>11. /\ IsList(globals') /\ Len(globals) <= Len(globals') /\ Len(globals) \in Nat
       /\ \A i \in 1 .. Len(globals) : globals'[i] = globals[i]
       /\ \A i \in DOMAIN globals' : globals'[i].index = i - 1
       /\ allocator_global' \in 0 .. (Len(globals') - 1)
       /\ \A i \in DOMAIN globals' : globals'[i].name = "heap_end" <=> i = allocator_global' + 1
       /\ \A i \in DOMAIN globals' :
            \/ i \in DOMAIN globals /\ globals'[i] = globals[i]
            \/ globals'[i].export = NoName
  <2>1. \A i \in DOMAIN globals : globals[i].name = "heap_end" <=> i = allocator_global + 1
    BY <1>0 DEF Consistent, AllocatorPlaced
  <2> QED
    BY <1>0, <2>1, AllocatorGlobalFacts
<1>12. /\ building' = [name |-> building'.name, sig |-> building'.sig,
                       export |-> building'.export, start |-> building'.start,
                       body |-> building'.body, left |-> building'.left]
       /\ building'.body = building.body \cup refs
       /\ building'.name = building.name /\ building'.sig = building.sig
       /\ building'.start = building.start
  BY <1>0, <1>2, EmitFacts
<1>13. Lists'
  <2>1. /\ IsList(imports)' /\ IsList(functions)' /\ IsList(globals)' /\ IsList(tables)'
        /\ IsList(signatures)' /\ IsList(static_segments)'
    BY <1>0, <1>1, <1>7, <1>10, <1>11 DEF Lists
  <2> QED
    BY <1>12, <2>1, Zenon DEF Lists
<1>14. /\ NextFunctionIndex = Len(imports) + Len(functions)
       /\ NextFunctionIndex' = Len(imports) + Len(functions) + 2
  BY <1>1, <1>4, <1>7 DEF NextFunctionIndex
<1>15. TypeOK'
  <2>1. ASSUME NEW i \in DOMAIN functions'
        PROVE  functions'[i].index = Len(imports') + i - 1
    <3>1. CASE i \in DOMAIN functions /\ functions'[i] = functions[i]
      BY <1>0, <1>1, <3>1 DEF TypeOK
    <3>2. CASE i = Len(functions) + 1 /\ functions'[i] = new[1]
      BY <1>1, <1>4, <1>6, <1>14, <3>2
    <3>3. CASE i = Len(functions) + 2 /\ functions'[i] = new[2]
      BY <1>1, <1>4, <1>6, <1>14, <3>3
    <3> QED
      BY <1>9, <3>1, <3>2, <3>3
  <2>2. /\ start_index' \in {None} \cup 0 .. (NextFunctionIndex' - 1)
        /\ allocator' \in {None} \cup 0 .. (NextFunctionIndex' - 2)
    BY <1>0, <1>1, <1>4, <1>14 DEF TypeOK
  <2> QED
    BY <1>0, <1>1, <1>3, <1>11, <2>1, <2>2 DEF TypeOK
<1>16. /\ \A i \in 1 .. NextFunctionIndex :
            AllFunctions'[i].name = AllFunctions[i].name /\ AllFunctions'[i].sig = AllFunctions[i].sig
       /\ \A i \in 1 .. NextFunctionIndex' :
            i > NextFunctionIndex => AllFunctions'[i] = new[1] \/ AllFunctions'[i] = new[2]
       /\ AllFunctions'[NextFunctionIndex + 1] = new[1] /\ AllFunctions'[NextFunctionIndex + 2] = new[2]
  <2>1. PICK fs : fs = functions'
    OBVIOUS
  <2>2. AllFunctions' = imports \o fs
    BY <1>1, <2>1 DEF AllFunctions
  <2>3. /\ IsList(imports) /\ IsList(functions) /\ IsList(fs) /\ Len(fs) = Len(functions) + 2
        /\ fs[Len(functions) + 1] = new[1] /\ fs[Len(functions) + 2] = new[2]
    BY <1>4, <1>7, <2>1
  <2>4. \A j \in 1 .. Len(functions) : fs[j].name = functions[j].name /\ fs[j].sig = functions[j].sig
    BY <1>7, <2>1
  <2>5. KeepsHeads(functions, fs)
    BY <1>4, <2>3, <2>4 DEF KeepsHeads
  <2>6. ASSUME NEW i \in 1 .. NextFunctionIndex
        PROVE  AllFunctions'[i].name = AllFunctions[i].name /\ AllFunctions'[i].sig = AllFunctions[i].sig
    <3>1. i \in 1 .. (Len(imports) + Len(functions))
      BY <1>14
    <3>2. /\ (imports \o fs)[i].name = (imports \o functions)[i].name
          /\ (imports \o fs)[i].sig = (imports \o functions)[i].sig
      <4>1. PICK old, joined : old = imports \o functions /\ joined = imports \o fs
        OBVIOUS
      <4>2. KeepsHeads(old, joined) /\ Len(old) = Len(imports) + Len(functions)
        BY <2>3, <2>5, <4>1, JoinedKept, ConcatList
      <4> QED
        BY <3>1, <4>1, <4>2 DEF KeepsHeads
    <3> QED
      BY <2>2, <3>2 DEF AllFunctions
  <2>7. \A i \in 1 .. Len(fs) : (imports \o fs)[Len(imports) + i] = fs[i]
    BY <2>3, ConcatList
  <2>8. AllFunctions'[NextFunctionIndex + 1] = new[1] /\ AllFunctions'[NextFunctionIndex + 2] = new[2]
    <3>1. /\ Len(functions) + 1 \in 1 .. Len(fs) /\ Len(functions) + 2 \in 1 .. Len(fs)
          /\ NextFunctionIndex + 1 = Len(imports) + (Len(functions) + 1)
          /\ NextFunctionIndex + 2 = Len(imports) + (Len(functions) + 2)
      BY <1>4, <1>14, <2>3
    <3> QED
      BY <2>2, <2>3, <2>7, <3>1
  <2>9. \A i \in 1 .. NextFunctionIndex' :
          i > NextFunctionIndex => i = NextFunctionIndex + 1 \/ i = NextFunctionIndex + 2
    BY <1>4, <1>14
  <2> QED
    BY <2>6, <2>8, <2>9
<1>17. Grows
  BY <1>1, <1>3, <1>4, <1>10, <1>11, <1>14, <1>16 DEF Grows
<1>18. ~Assembled' /\ DataInOrder'
  BY <1>0, <1>1 DEF Consistent, Assembled, DataInOrder
<1>19. AllocatorPosition' = Len(functions)
  BY <1>1, <1>4, <1>14 DEF AllocatorPosition
<1>20. AllocatorPlaced'
  <2>1. \A k \in {1, 2} : functions'[AllocatorPosition' + k] =
          AllocatorFunctions(allocator', DefaultHeapStart, allocator_global')[k]
    BY <1>1, <1>7, <1>19, <1>n
  <2>2. allocator_global' # None /\ Len(imports') <= allocator'
    BY <1>1, <1>4, <1>11, <1>14 DEF None
  <2>3. globals'[allocator_global' + 1] = HeapEndGlobal(allocator_global')
    <3>1. \/ allocator_global' = allocator_global /\ globals' = globals
          \/ globals'[allocator_global' + 1] = HeapEndGlobal(allocator_global')
      BY <1>0, AllocatorGlobalFacts
    <3>2. allocator_global # None => globals[allocator_global + 1] = HeapEndGlobal(allocator_global)
      BY <1>0 DEF Consistent, AllocatorPlaced
    <3> QED
      BY <2>2, <3>1, <3>2
  <2> QED
    BY <1>3, <1>11, <2>1, <2>2, <2>3 DEF AllocatorPlaced
<1>21. HeapKnownToAllocator'
  <2>1. \A i \in DOMAIN functions : HeapRefs(functions[i].body) = {}
    BY <1>0 DEF Consistent, HeapKnownToAllocator
  <2>2. \A r \in building.body : r.kind # "heap"
    BY <1>0 DEF Consistent, HeapKnownToAllocator, HeapRefs
  <2>3. HeapRefs(building'.body) = {}
    BY <1>12, <2>2, <1>r DEF HeapRefs, Ref
  <2>4. allocator' # None
    BY <1>1, <1>4, <1>14 DEF None
  <2>5. \A i \in DOMAIN functions' :
          HeapRefs(functions'[i].body) # {} => i - 1 - AllocatorPosition' \in {0, 1}
    <3>1. \A i \in DOMAIN functions' :
            HeapRefs(functions'[i].body) # {} => i = Len(functions) + 1 \/ i = Len(functions) + 2
      BY <1>9, <2>1
    <3>2. Len(functions) + 1 - 1 - Len(functions) = 0 /\ Len(functions) + 2 - 1 - Len(functions) = 1
      BY <1>4
    <3> QED
      BY <1>19, <3>1, <3>2
  <2> QED
    BY <2>3, <2>4, <2>5 DEF HeapKnownToAllocator
<1>22. ReferencesValid'
  <2>1. NextFunctionIndex' \in Nat /\ NextFunctionIndex \in Nat /\ offset \in {0, 1}
    BY <1>4, <1>14
  <2>2. ASSUME NEW r, r = Ref("memory", 0, "memory")
        PROVE  Valid(r)'
    BY <1>3, <2>2 DEF Ref, Valid
  <2>3. ASSUME NEW r, r = Ref("call", NextFunctionIndex + offset, f)
        PROVE  Valid(r)'
    <3>1. r.kind = "call" /\ r.index = NextFunctionIndex + offset /\ r.to = f
      BY <2>3 DEF Ref
    <3>2. r.index \in 0 .. (NextFunctionIndex' - 1)
      BY <1>4, <1>14, <2>1, <3>1
    <3>3. AllFunctions'[r.index + 1].name = f
      <4>1. CASE f = "$malloc" /\ offset = 0
        <5>1. r.index + 1 = NextFunctionIndex + 1
          BY <2>1, <3>1, <4>1
        <5> QED
          BY <1>6, <1>16, <4>1, <5>1
      <4>2. CASE f = "$mfree" /\ offset = 1
        <5>1. r.index + 1 = NextFunctionIndex + 2
          BY <2>1, <3>1, <4>2
        <5> QED
          BY <1>6, <1>16, <4>2, <5>1
      <4> QED
        BY <4>1, <4>2
    <3> QED
      BY <3>1, <3>2, <3>3 DEF Valid
  <2>4. ASSUME NEW r \in AllocatorBody(DefaultHeapStart, AllocatorGlobal)
        PROVE  Valid(r)'
    <3>1. CASE r = Ref("memory", 0, "memory")
      BY <2>2, <3>1
    <3>2. CASE r = Ref("heap", DefaultHeapStart, "heap_start")
      BY <3>2 DEF Ref, Valid
    <3>3. CASE r = Ref("global", AllocatorGlobal, "heap_end")
      <4>1. r.kind = "global" /\ r.index = allocator_global' /\ r.to = "heap_end"
        BY <1>1, <3>3 DEF Ref
      <4>2. DOMAIN globals' = 1 .. Len(globals') /\ Len(globals') \in Nat
        <5>1. IsList(globals')
          BY <1>11
        <5> QED
          BY <5>1, ListFacts
      <4>3. r.index + 1 \in DOMAIN globals' /\ r.index \in 0 .. (Len(globals') - 1)
        <5>1. allocator_global' \in 0 .. (Len(globals') - 1)
          BY <1>11
        <5>2. PICK n : n = Len(globals')
          OBVIOUS
        <5>3. r.index \in 0 .. (n - 1) /\ n \in Nat
          BY <4>1, <4>2, <5>1, <5>2
        <5>4. r.index + 1 \in 1 .. n
          BY <5>3
        <5> QED
          BY <4>2, <5>2, <5>3, <5>4
      <4>4. globals'[r.index + 1].name = "heap_end"
        BY <1>11, <4>1, <4>3
      <4> QED
        BY <4>1, <4>3, <4>4 DEF Valid
    <3> QED
      BY <3>1, <3>2, <3>3 DEF AllocatorBody
  <2>5. \A i \in DOMAIN functions' :
          \/ i \in DOMAIN functions /\ functions'[i].body = functions[i].body
          \/ \A r \in functions'[i].body : Valid(r)'
    BY <1>6, <1>9, <2>4
  <2>6. \A r \in building'.body : (~Idle /\ r \in building.body) \/ Valid(r)'
    BY <1>0, <1>12, <1>r, <2>2, <2>3
  <2> QED
    BY <1>0, <1>13, <1>17, <2>5, <2>6, ReferencesStep DEF Consistent
<1>23. EntriesValid'
  BY <1>0, <1>1, <1>13, <1>17, EntriesStep DEF Consistent
<1>24. SignaturesKnown'
  <2>1. SignaturesKnown /\ (building'.start => building'.sig = Void)
    BY <1>0, <1>12 DEF Consistent, SignaturesKnown
  <2>2. \A i \in 1 .. NextFunctionIndex' :
          i > NextFunctionIndex => Typed(signatures', AllFunctions'[i].sig)
    BY <1>10, <1>16
  <2> QED
    BY <1>0, <1>1, <1>13, <1>17, <2>1, <2>2, SignaturesStep
<1>25. ExportedOnce'
  <2>1. ExportedOnce
    BY <1>0 DEF Consistent
  <2>2. \A i \in DOMAIN functions' :
          functions'[i].export => i \in DOMAIN functions /\ functions'[i] = functions[i]
    BY <1>6, <1>9
  <2>3. \A i \in DOMAIN globals' :
          globals'[i].export # NoName => i \in DOMAIN globals /\ globals'[i] = globals[i]
    BY <1>11
  <2>4. ~Idle => \A i \in DOMAIN functions' : functions'[i].export => functions'[i].name # building'.name
    BY <1>12, <2>1, <2>2 DEF ExportedOnce
  <2>5. \A i, j \in DOMAIN functions' :
          functions'[i].export /\ functions'[j].export /\ functions'[i].name = functions'[j].name => i = j
    BY <2>1, <2>2 DEF ExportedOnce
  <2>6. \A i, j \in DOMAIN globals' :
          globals'[i].export # NoName /\ globals'[i].export = globals'[j].export => i = j
    BY <2>1, <2>3 DEF ExportedOnce
  <2>7. \A i \in DOMAIN functions', j \in DOMAIN globals' :
          functions'[i].export /\ globals'[j].export # NoName => functions'[i].name # globals'[j].export
    BY <2>1, <2>2, <2>3 DEF ExportedOnce
  <2>8. \A i \in DOMAIN functions', j \in DOMAIN tables :
          functions'[i].export /\ tables[j].export # NoName => functions'[i].name # tables[j].export
    BY <2>1, <2>2 DEF ExportedOnce
  <2>9. \A i \in DOMAIN globals', j \in DOMAIN tables :
          globals'[i].export # NoName => globals'[i].export # tables[j].export
    BY <2>1, <2>3 DEF ExportedOnce
  <2> QED
    BY <1>0, <1>1, <2>4, <2>5, <2>6, <2>7, <2>8, <2>9 DEF ExportedOnce
<1>26. Consistent'
  BY <1>18, <1>20, <1>21, <1>22, <1>23, <1>24, <1>25 DEF Consistent
<1> QED
  BY <1>13, <1>15, <1>17, <1>26 DEF IInv

-----------------------------------------------------------------------------
(* Assembly *)

(* The rebuilt functions keep their names, indices and types, and only     *)
(* they know where the heap starts.                                        *)
LEMMA FinalFunctionsFacts ==
  ASSUME Lists, TypeOK, Consistent
  PROVE  /\ IsList(FinalFunctions) /\ Len(FinalFunctions) = Len(functions)
         /\ DOMAIN FinalFunctions = DOMAIN functions
         /\ \A i \in DOMAIN functions :
              /\ FinalFunctions[i].index = functions[i].index /\ FinalFunctions[i].name = functions[i].name
              /\ FinalFunctions[i].sig = functions[i].sig /\ FinalFunctions[i].export = functions[i].export
              /\ \/ /\ allocator # None
                    /\ FinalFunctions[i].body = AllocatorBody(HeapStart, allocator_global)
                 \/ FinalFunctions[i].body = functions[i].body /\ HeapRefs(functions[i].body) = {}
<1>h. PICK h : h = HeapStart
  OBVIOUS
<1>0. /\ Len(functions) \in Nat /\ Len(imports) \in Nat
      /\ DOMAIN functions = 1 .. Len(functions) /\ IsList(functions)
  BY ListFacts DEF Lists
<1>1. FinalFunctions = [i \in DOMAIN functions |->
        IF allocator # None /\ i - 1 - AllocatorPosition \in {0, 1}
        THEN AllocatorFunctions(allocator, h, allocator_global)[i - AllocatorPosition] ELSE functions[i]]
  BY <1>h DEF FinalFunctions
<1>2. DOMAIN FinalFunctions = 1 .. Len(functions)
  BY <1>0, <1>1
<1>3. IsList(FinalFunctions) /\ Len(FinalFunctions) = Len(functions)
  <2>1. FinalFunctions = [i \in 1 .. Len(functions) |-> FinalFunctions[i]]
    BY <1>0, <1>1
  <2> QED
    BY <1>0, <1>2, <2>1, ListFrom
<1>4. ASSUME NEW i \in DOMAIN functions
      PROVE  /\ FinalFunctions[i].index = functions[i].index /\ FinalFunctions[i].name = functions[i].name
             /\ FinalFunctions[i].sig = functions[i].sig /\ FinalFunctions[i].export = functions[i].export
             /\ \/ allocator # None /\ FinalFunctions[i].body = AllocatorBody(h, allocator_global)
                \/ FinalFunctions[i].body = functions[i].body /\ HeapRefs(functions[i].body) = {}
  <2>1. CASE ~(allocator # None /\ i - 1 - AllocatorPosition \in {0, 1})
    <3>1. FinalFunctions[i] = functions[i]
      BY <1>1, <2>1
    <3>2. HeapRefs(functions[i].body) = {}
      BY <2>1 DEF Consistent, HeapKnownToAllocator
    <3> QED
      BY <3>1, <3>2
  <2>2. CASE allocator # None /\ i - 1 - AllocatorPosition \in {0, 1}
    <3>1. FinalFunctions[i] = AllocatorFunctions(allocator, h, allocator_global)[i - AllocatorPosition]
      BY <1>1, <2>2
    <3>2. allocator \in Nat /\ AllocatorPosition \in Int /\ i \in Nat
      BY <1>0, <2>2 DEF TypeOK, AllocatorPosition
    <3>3. i = AllocatorPosition + 1 \/ i = AllocatorPosition + 2
      BY <2>2, <3>2
    <3>4. \A k \in {1, 2} : functions[AllocatorPosition + k] =
            AllocatorFunctions(allocator, DefaultHeapStart, allocator_global)[k]
      BY <2>2 DEF Consistent, AllocatorPlaced
    <3>5. PICK old, new : /\ old = AllocatorFunctions(allocator, DefaultHeapStart, allocator_global)
                          /\ new = AllocatorFunctions(allocator, h, allocator_global)
      OBVIOUS
    <3>7. \A k \in {1, 2} :
            /\ new[k].index = old[k].index /\ new[k].name = old[k].name /\ new[k].sig = old[k].sig
            /\ new[k].export = old[k].export /\ new[k].body = AllocatorBody(h, allocator_global)
      <4>1. PICK malloc, mfree : /\ malloc = [params |-> <<"u32">>, result |-> "u32"]
                                 /\ mfree = [params |-> <<"u32">>, result |-> "none"]
        OBVIOUS
      <4>2. ASSUME NEW start, NEW fs, fs = AllocatorFunctions(allocator, start, allocator_global)
            PROVE  /\ fs[1].index = allocator /\ fs[1].name = "$malloc" /\ fs[1].sig = malloc
                   /\ fs[1].export = FALSE /\ fs[1].body = AllocatorBody(start, allocator_global)
                   /\ fs[2].index = allocator + 1 /\ fs[2].name = "$mfree" /\ fs[2].sig = mfree
                   /\ fs[2].export = FALSE /\ fs[2].body = AllocatorBody(start, allocator_global)
        BY <4>1, <4>2 DEF AllocatorFunctions
      <4>3. /\ old[1].index = allocator /\ old[1].name = "$malloc" /\ old[1].sig = malloc
            /\ old[2].index = allocator + 1 /\ old[2].name = "$mfree" /\ old[2].sig = mfree
            /\ old[1].export = FALSE /\ old[2].export = FALSE
        BY <3>5, <4>2
      <4>4. /\ new[1].index = allocator /\ new[1].name = "$malloc" /\ new[1].sig = malloc
            /\ new[2].index = allocator + 1 /\ new[2].name = "$mfree" /\ new[2].sig = mfree
            /\ new[1].export = FALSE /\ new[2].export = FALSE
            /\ new[1].body = AllocatorBody(h, allocator_global)
            /\ new[2].body = AllocatorBody(h, allocator_global)
        BY <3>5, <4>2
      <4> QED
        BY <4>3, <4>4
    <3>6. \E k \in {1, 2} : i = AllocatorPosition + k /\ i - AllocatorPosition = k
      BY <3>2, <3>3
    <3> QED
      BY <2>2, <3>1, <3>4, <3>5, <3>6, <3>7
  <2> QED
    BY <2>1, <2>2
<1> QED
  BY <1>0, <1>2, <1>3, <1>4, <1>h

LEMMA FinalGlobalsFacts ==
  ASSUME Lists, TypeOK, Consistent
  PROVE  /\ IsList(FinalGlobals) /\ Len(FinalGlobals) = Len(globals)
         /\ DOMAIN FinalGlobals = DOMAIN globals
         /\ \A i \in DOMAIN globals :
              /\ FinalGlobals[i].index = globals[i].index /\ FinalGlobals[i].name = globals[i].name
              /\ allocator # None /\ FinalGlobals[i].name = "heap_end" =>
                   FinalGlobals[i].initial = HeapStart
<1>h. PICK h : h = HeapStart
  OBVIOUS
<1>0. Len(globals) \in Nat /\ DOMAIN globals = 1 .. Len(globals)
  BY ListFacts DEF Lists
<1>1. FinalGlobals = [i \in DOMAIN globals |->
        IF allocator # None /\ i = allocator_global + 1
        THEN [globals[i] EXCEPT !.initial = h] ELSE globals[i]]
  BY <1>h DEF FinalGlobals
<1>2. DOMAIN FinalGlobals = 1 .. Len(globals)
  BY <1>0, <1>1
<1>3. IsList(FinalGlobals) /\ Len(FinalGlobals) = Len(globals)
  <2>1. FinalGlobals = [i \in 1 .. Len(globals) |-> FinalGlobals[i]]
    BY <1>0, <1>1
  <2> QED
    BY <1>0, <1>2, <2>1, ListFrom
<1>4. ASSUME NEW i \in DOMAIN globals
      PROVE  /\ FinalGlobals[i].index = globals[i].index /\ FinalGlobals[i].name = globals[i].name
             /\ allocator # None /\ FinalGlobals[i].name = "heap_end" => FinalGlobals[i].initial = h
  <2>1. globals[i].name = "heap_end" <=> i = allocator_global + 1
    BY DEF Consistent, AllocatorPlaced
  <2>2. CASE ~(allocator # None /\ i = allocator_global + 1)
    <3>1. FinalGlobals[i] = globals[i]
      BY <1>1, <2>2
    <3> QED
      BY <2>1, <2>2, <3>1
  <2>3. CASE allocator # None /\ i = allocator_global + 1
    <3>1. FinalGlobals[i] = [globals[i] EXCEPT !.initial = h]
      BY <1>1, <2>3
    <3>2. globals[i] = HeapEndGlobal(allocator_global)
      BY <2>3 DEF Consistent, AllocatorPlaced
    <3> QED
      BY <3>1, <3>2 DEF HeapEndGlobal
  <2> QED
    BY <2>2, <2>3
<1> QED
  BY <1>0, <1>2, <1>3, <1>4, <1>h

(* The heap starts above the static data, and the pages that are asked for *)
(* hold both.                                                              *)
LEMMA LayoutFacts ==
  ASSUME TypeOK
  PROVE  /\ HeapStart \in Nat /\ 0 < HeapStart /\ static_end <= HeapStart
         /\ FinalPages \in Nat /\ (memory > 0 <=> FinalPages > 0)
         /\ memory > 0 => HeapStart <= FinalPages * PageSize
<1>0. static_end \in Nat /\ memory \in Nat /\ PageSize \in Nat /\ PageSize > 0
  BY BuilderAssumption DEF TypeOK
<1>1. HeapStart \in Nat /\ 0 < HeapStart /\ static_end <= HeapStart
  <2>1. 8 \in Nat /\ 8 > 0
    OBVIOUS
  <2>2. AlignUp(static_end, 8) \in Nat /\ static_end <= AlignUp(static_end, 8)
    BY <1>0, <2>1, AlignUpFacts
  <2>3. PICK a \in Nat : a = AlignUp(static_end, 8)
    BY <2>2
  <2>4. 4 \in Int /\ a \in Int
    BY <2>3
  <2>5. Max({4, a}) \in {4, a} /\ 4 <= Max({4, a}) /\ a <= Max({4, a})
    BY <2>4, MaxOfTwo
  <2>6. HeapStart = Max({4, a})
    BY <2>3 DEF HeapStart
  <2> QED
    BY <1>0, <2>2, <2>3, <2>5, <2>6
<1>2. PICK h \in Nat : h = HeapStart
  BY <1>1
<1>3. PICK k \in Nat : AlignUp(h, PageSize) = k * PageSize /\ AlignUp(h, PageSize) \div PageSize = k
                       /\ h <= AlignUp(h, PageSize)
  BY <1>0, AlignUpFacts
<1>4. PagesForData = Max({1, k})
  BY <1>2, <1>3 DEF PagesForData
<1>5. 1 \in Int /\ k \in Int
  OBVIOUS
<1>6. Max({1, k}) \in {1, k} /\ 1 <= Max({1, k}) /\ k <= Max({1, k})
  BY <1>5, MaxOfTwo
<1>7. PICK p \in Nat : p = PagesForData /\ 1 <= p /\ k <= p
  BY <1>4, <1>6
<1>8. CASE memory = 0
  BY <1>1, <1>8 DEF FinalPages
<1>9. CASE memory # 0
  <2>1. FinalPages = Max({memory, p})
    BY <1>7, <1>9 DEF FinalPages
  <2>2. memory \in Int /\ p \in Int
    BY <1>0
  <2>3. Max({memory, p}) \in {memory, p} /\ memory <= Max({memory, p}) /\ p <= Max({memory, p})
    BY <2>2, MaxOfTwo
  <2>4. PICK q \in Nat : q = FinalPages /\ p <= q
    BY <1>0, <2>1, <2>3
  <2>5. q - k \in Nat /\ q = k + (q - k)
    BY <1>7, <2>4
  <2>6. k * PageSize <= q * PageSize
    <3>1. PICK d \in Nat : q = k + d
      BY <2>5
    <3>2. d * PageSize \in Nat /\ (k + d) * PageSize = k * PageSize + d * PageSize
      BY <1>0, SMT
    <3>3. k * PageSize \in Nat
      BY <1>0, SMT
    <3> QED
      BY <3>1, <3>2, <3>3
  <2>7. k * PageSize \in Nat /\ q * PageSize \in Nat
    BY <1>0, SMT
  <2>8. h <= q * PageSize
    BY <1>3, <2>6, <2>7
  <2> QED
    BY <1>0, <1>1, <1>2, <1>7, <1>9, <2>4, <2>8
<1> QED
  BY <1>8, <1>9

LEMMA AssembleStep ==
  ASSUME IInv, Idle, ~closed, Assembles, inside' \in BOOLEAN,
         UNCHANGED <<imports, tables, signatures, start_index, static, heap, building>>
  PROVE  IInv' /\ Grows
<1>0. Lists /\ TypeOK /\ Consistent
  BY DEF IInv
<1>1. /\ functions' = FinalFunctions /\ globals' = FinalGlobals
      /\ memory' = FinalPages /\ closed' = TRUE
      /\ UNCHANGED <<imports, tables, signatures, start_index, static_segments, static_end,
                     allocator, allocator_global, building>>
  BY DEF Assembles, static, heap
<1>2. /\ IsList(functions') /\ Len(functions') = Len(functions) /\ DOMAIN functions' = DOMAIN functions
      /\ \A i \in DOMAIN functions : /\ functions'[i].index = functions[i].index
                                     /\ functions'[i].name = functions[i].name
                                     /\ functions'[i].sig = functions[i].sig
  BY <1>0, <1>1, FinalFunctionsFacts
<1>3. /\ IsList(globals') /\ Len(globals') = Len(globals) /\ DOMAIN globals' = DOMAIN globals
      /\ \A i \in DOMAIN globals : globals'[i].index = globals[i].index /\ globals'[i].name = globals[i].name
  BY <1>0, <1>1, FinalGlobalsFacts
<1>4. memory' \in Nat /\ (memory > 0 => memory' > 0)
  BY <1>0, <1>1, LayoutFacts
<1>5. /\ Len(imports) \in Nat /\ Len(functions) \in Nat /\ Len(globals) \in Nat /\ Len(signatures) \in Nat
      /\ IsList(imports) /\ IsList(functions)
      /\ DOMAIN functions = 1 .. Len(functions) /\ DOMAIN globals = 1 .. Len(globals)
  BY <1>0, ListFacts DEF Lists
<1>6. Lists'
  BY <1>0, <1>1, <1>2, <1>3 DEF Lists, Idle
<1>7. NextFunctionIndex' = NextFunctionIndex /\ NextFunctionIndex = Len(imports) + Len(functions)
  BY <1>1, <1>2 DEF NextFunctionIndex
<1>8. TypeOK'
  BY <1>0, <1>1, <1>2, <1>3, <1>4, <1>7 DEF TypeOK
<1>9. ASSUME NEW i \in 1 .. NextFunctionIndex
      PROVE  AllFunctions'[i].name = AllFunctions[i].name /\ AllFunctions'[i].sig = AllFunctions[i].sig
  <2>1. PICK fs : fs = functions'
    OBVIOUS
  <2>2. IsList(imports) /\ IsList(functions) /\ IsList(fs)
    BY <1>2, <1>5, <2>1
  <2>3. Len(functions) <= Len(fs)
    BY <1>2, <1>5, <2>1
  <2>4. \A j \in 1 .. Len(functions) : fs[j].name = functions[j].name /\ fs[j].sig = functions[j].sig
    BY <1>2, <1>5, <2>1
  <2>5. i \in 1 .. (Len(imports) + Len(functions)) /\ KeepsHeads(functions, fs)
    BY <1>7, <2>3, <2>4 DEF KeepsHeads
  <2>6. /\ (imports \o fs)[i].name = (imports \o functions)[i].name
        /\ (imports \o fs)[i].sig = (imports \o functions)[i].sig
    <3>1. PICK old, new : old = imports \o functions /\ new = imports \o fs
      OBVIOUS
    <3>2. KeepsHeads(old, new) /\ Len(old) = Len(imports) + Len(functions)
      BY <2>2, <2>5, <3>1, JoinedKept, ConcatList
    <3> QED
      BY <2>5, <3>1, <3>2 DEF KeepsHeads
  <2> QED
    BY <1>1, <2>1, <2>6 DEF AllFunctions
<1>10. Grows
  BY <1>1, <1>3, <1>4, <1>5, <1>7, <1>9 DEF Grows
<1> QED
  BY <1>1, <1>6, <1>8, <1>10 DEF IInv

LEMMA ClosingStep ==
  ASSUME IInv, Idle, Assembles, inside' \in BOOLEAN,
         UNCHANGED <<imports, tables, signatures, start_index, static, heap, building>>
  PROVE  IInv' /\ Grows
<1>1. CASE ~closed
  BY <1>1, AssembleStep
<1>2. CASE closed
  <2>1. UNCHANGED <<declared, memory, static, heap, closed, bytecode>> /\ Idle'
    BY <1>2 DEF Assembles, declared, Idle
  <2>2. Lists'
    BY <2>1 DEF IInv, Lists, declared, static, Idle
  <2> QED
    BY <2>1, <2>2, OnlyBuilding
<1> QED
  BY <1>1, <1>2

-----------------------------------------------------------------------------
(* Every step *)

LEMMA InitInv ==
  ASSUME Init
  PROVE  IInv
<1>1. Lists
  BY EmptyList DEF Init, Lists, Idle
<1>2. NextFunctionIndex = 0 /\ DOMAIN AllFunctions = {}
  <2>1. Len(imports) = 0 /\ Len(functions) = 0 /\ IsList(AllFunctions) /\ Len(AllFunctions) = NextFunctionIndex
    BY <1>1, EmptyList, IndexSpace DEF Init
  <2> QED
    BY <2>1, ListFacts DEF NextFunctionIndex
<1>3. TypeOK
  <2>1. /\ DOMAIN imports = {} /\ DOMAIN functions = {} /\ DOMAIN globals = {} /\ Len(tables) = 0
        /\ start_index = None /\ memory = 0 /\ static_end = 0 /\ allocator = None
        /\ allocator_global = None /\ inside = FALSE /\ closed = FALSE
    BY EmptyList DEF Init
  <2>2. Len(tables) <= 1 /\ memory \in Nat /\ static_end \in Nat
    BY <2>1
  <2>3. inside \in BOOLEAN /\ closed \in BOOLEAN
    BY <2>1, Zenon
  <2> QED
    BY <2>1, <2>2, <2>3, Zenon DEF TypeOK
<1>4. Consistent
  <2>1. ~Assembled /\ AllocatorPlaced /\ HeapKnownToAllocator /\ ReferencesValid /\ EntriesValid
    BY EmptyList DEF Init, Assembled, AllocatorPlaced, HeapKnownToAllocator, ReferencesValid, EntriesValid, Idle
  <2>2. SignaturesKnown /\ DataInOrder /\ ExportedOnce
    BY <1>2, EmptyList DEF Init, SignaturesKnown, DataInOrder, ExportedOnce, Idle
  <2> QED
    BY <2>1, <2>2 DEF Consistent
<1> QED
  BY <1>1, <1>3, <1>4 DEF IInv

LEMMA StepInv ==
  ASSUME IInv, [Next]_vars
  PROVE  IInv' /\ Grows
<1>1. CASE Enter
  BY <1>1, EnterStep
<1>2. CASE Exit
  <2>1. Idle /\ Assembles /\ inside' \in BOOLEAN
        /\ UNCHANGED <<imports, tables, signatures, start_index, static, heap, building>>
    BY <1>2 DEF Exit
  <2> QED
    BY <2>1, ClosingStep
<1>3. CASE ExitRaising
  BY <1>3, ExitRaisingStep
<1>4. CASE Compile
  <2>1. Idle /\ Assembles /\ inside' \in BOOLEAN
        /\ UNCHANGED <<imports, tables, signatures, start_index, static, heap, building>>
    BY <1>4 DEF Compile, IInv, TypeOK
  <2> QED
    BY <2>1, ClosingStep
<1>5. CASE Declaration
  <2>1. ASSUME NEW name \in ImportNames, NEW sig \in Signatures, ImportFunc(name, sig)
        PROVE  IInv' /\ Grows
    BY <2>1, ImportFuncStep
  <2>2. ASSUME NEW name \in GlobalNames, NEW export, CreateGlobal(name, export)
        PROVE  IInv' /\ Grows
    BY <2>2, BuilderAssumption, CreateGlobalStep
  <2>3. ASSUME NEW f \in Handles, NEW g \in Handles, NEW export, CreateTable(f, g, export)
        PROVE  IInv' /\ Grows
    BY <2>3, CreateTableStep
  <2>4. ASSUME NEW name \in FunctionNames, NEW sig \in Signatures, NEW export, Func(name, sig, export)
        PROVE  IInv' /\ Grows
    BY <2>4, BeginStep DEF Func
  <2>5. ASSUME NEW name \in FunctionNames, Start(name)
        PROVE  IInv' /\ Grows
    BY <2>5, BeginStep DEF Start
  <2> QED
    BY <1>5, <2>1, <2>2, <2>3, <2>4, <2>5 DEF Declaration
<1>6. CASE Statement
  <2>1. ASSUME NEW f, NEW offset, <<f, offset>> \in {<<"$malloc", 0>>, <<"$mfree", 1>>},
               UseAllocator(f, offset)
        PROVE  IInv' /\ Grows
    <3>1. CASE closed
      BY <2>1, <3>1, AllocatorClosedStep
    <3>2. CASE ~closed /\ allocator = None
      BY <2>1, <3>2, AllocatorInstalledStep
    <3>3. CASE ~closed /\ allocator # None
      BY <2>1, <3>3, AllocatorUsedStep
    <3> QED
      BY <3>1, <3>2, <3>3
  <2>2. /\ UseAllocator("$malloc", 0) => IInv' /\ Grows
        /\ UseAllocator("$mfree", 1) => IInv' /\ Grows
    BY <2>1
  <2> QED
    BY <1>6, <2>2, RefusedStep, CallStep, UseGlobalStep, CallIndirectStep, FromAddressStep,
       StringLiteralStep, RegisterStep DEF Statement
<1>7. CASE UNCHANGED vars
  <2>1. UNCHANGED <<declared, memory, static, heap, closed, bytecode, inside, building>>
    BY <1>7 DEF vars, declared, static, heap
  <2>2. inside' \in BOOLEAN /\ Lists'
    BY <2>1 DEF IInv, TypeOK, Lists, declared, static, Idle
  <2>3. ~closed => /\ building.start /\ ~Idle => building.sig = Void
                   /\ ~Idle => \A i \in DOMAIN functions : functions[i].export => functions[i].name # building.name
    BY DEF IInv, Consistent, SignaturesKnown, ExportedOnce
  <2> QED
    BY <2>1, <2>2, <2>3, OnlyBuilding DEF Idle
<1> QED
  BY <1>1, <1>2, <1>3, <1>4, <1>5, <1>6, <1>7 DEF Next

(* Whatever is declared, compiled, refused or installed, in whatever       *)
(* order: until the module is assembled every list is numbered by place,   *)
(* and every operand already in a body or a table names what it was        *)
(* compiled for.                                                           *)
THEOREM IInvHolds == Spec => []IInv
<1>1. Init => IInv
  BY InitInv
<1>2. IInv /\ [Next]_vars => IInv'
  BY StepInv
<1> QED
  BY <1>1, <1>2, PTL DEF Spec

(* The indices handed out are positions, and everything the builder counts *)
(* stays in its range.                                                     *)
THEOREM TypeOKHolds == Spec => []TypeOK
<1>1. IInv => TypeOK
  BY DEF IInv
<1> QED
  BY <1>1, IInvHolds, PTL

(* An index once given out belongs to the same function for good: no       *)
(* declaration, installation, refusal or rebuild moves a function.         *)
THEOREM IndicesStableHolds == Spec => IndicesStable
<1>1. ASSUME IInv, [Next]_vars
      PROVE  IsPrefix([i \in 1 .. NextFunctionIndex |-> (imports \o functions)[i].name],
                      [i \in 1 .. NextFunctionIndex |-> (imports \o functions)[i].name]')
  <2>1. PICK s : s = [i \in 1 .. NextFunctionIndex |-> (imports \o functions)[i].name]
    OBVIOUS
  <2>2. PICK t : t = [i \in 1 .. NextFunctionIndex' |-> (imports' \o functions')[i].name]
    OBVIOUS
  <2>3. IInv' /\ Grows
    BY <1>1, StepInv
  <2>4. PICK n, m : n = NextFunctionIndex /\ m = NextFunctionIndex'
    OBVIOUS
  <2>5. n \in Nat /\ m \in Nat /\ n <= m
    <3>1. \A l : IsList(l) => Len(l) \in Nat
      BY ListFacts
    <3> QED
      BY <1>1, <2>3, <2>4, <3>1 DEF IInv, Lists, NextFunctionIndex, Grows
  <2>6. \A i \in 1 .. n : i \in 1 .. m /\ t[i] = s[i]
    <3>1. \A i \in 1 .. n : i \in 1 .. m
      BY <2>5
    <3>2. \A i \in 1 .. n : (imports' \o functions')[i].name = (imports \o functions)[i].name
      BY <2>3, <2>4 DEF Grows, AllFunctions
    <3> QED
      BY <2>1, <2>2, <2>4, <3>1, <3>2
  <2>7. IsList(s) /\ Len(s) = n /\ IsList(t) /\ Len(t) = m
    <3>1. DOMAIN s = 1 .. n /\ s = [i \in 1 .. n |-> s[i]]
      BY <2>1, <2>4
    <3>2. DOMAIN t = 1 .. m /\ t = [i \in 1 .. m |-> t[i]]
      BY <2>2, <2>4
    <3> QED
      BY <2>5, <3>1, <3>2, ListFrom
  <2>8. SubSeq(s, 1, n) = SubSeq(t, 1, n)
    <3>1. \A i \in 1 .. n : s[i] \in Range(s) /\ t[i] \in Range(s)
      <4>1. DOMAIN s = 1 .. n
        BY <2>1, <2>4
      <4> QED
        BY <2>6, <4>1 DEF Range
    <3>2. 1 \in Int /\ n \in Int
      BY <2>5
    <3>3. /\ SubSeq(s, 1, n) \in Seq(Range(s)) /\ Len(SubSeq(s, 1, n)) = (IF 1 <= n THEN n - 1 + 1 ELSE 0)
          /\ \A i \in 1 .. (n - 1 + 1) : SubSeq(s, 1, n)[i] = s[1 + i - 1]
      BY <3>1, <3>2, SubSeqProperties
    <3>4. /\ SubSeq(t, 1, n) \in Seq(Range(s)) /\ Len(SubSeq(t, 1, n)) = (IF 1 <= n THEN n - 1 + 1 ELSE 0)
          /\ \A i \in 1 .. (n - 1 + 1) : SubSeq(t, 1, n)[i] = t[1 + i - 1]
      BY <3>1, <3>2, SubSeqProperties
    <3>5. Len(SubSeq(s, 1, n)) = n /\ Len(SubSeq(t, 1, n)) = n
      BY <2>5, <3>3, <3>4
    <3>6. \A i \in 1 .. n : SubSeq(s, 1, n)[i] = SubSeq(t, 1, n)[i]
      <4>1. \A i \in 1 .. n : i \in 1 .. (n - 1 + 1) /\ 1 + i - 1 = i
        BY <2>5
      <4> QED
        BY <2>6, <3>3, <3>4, <4>1
    <3> QED
      BY <3>3, <3>4, <3>5, <3>6, SeqEqual
  <2>9. IsPrefix(s, t)
    BY <2>5, <2>7, <2>8 DEF IsPrefix
  <2> QED
    BY <2>1, <2>2, <2>9
<1> QED
  BY <1>1, IInvHolds, PTL DEF Spec, IndicesStable

-----------------------------------------------------------------------------
(* The binary *)

(* It is written once.                                                     *)
LEMMA WrittenOnce ==
  ASSUME IInv, [Next]_vars
  PROVE  bytecode' = bytecode \/ (~closed /\ bytecode' = Encoded)
<1>1. ASSUME Assembles
      PROVE  bytecode' = bytecode \/ (~closed /\ bytecode' = Encoded)
  BY <1>1 DEF Assembles
<1>2. CASE Exit \/ Compile
  BY <1>1, <1>2 DEF Exit, Compile
<1>3. CASE Enter \/ ExitRaising \/ UNCHANGED vars
  BY <1>3 DEF Enter, ExitRaising, vars
<1>4. CASE Declaration
  BY <1>4 DEF Declaration, ImportFunc, CreateGlobal, CreateTable, Func, Start, Begin, phase
<1>5. CASE Statement
  BY <1>5 DEF Statement, RefusedStatement, CallFunction, UseGlobal, CallIndirect, FromAddress,
              StringLiteral, UseAllocator, Register, phase
<1> QED
  BY <1>2, <1>3, <1>4, <1>5 DEF Next

(* A function of the binary stands at its index, under its name and with   *)
(* its own type.                                                           *)
LEMMA EntriesEncoded ==
  ASSUME Lists, TypeOK, Consistent
  PROVE  /\ DOMAIN Encoded.entries = 1 .. NextFunctionIndex
         /\ \A i \in 1 .. NextFunctionIndex :
              /\ Encoded.entries[i].name = AllFunctions[i].name
              /\ Encoded.entries[i].sig = AllFunctions[i].sig
              /\ Encoded.types[Encoded.entries[i].type + 1] = WasmKey(AllFunctions[i].sig)
<1>1. PICK fs : fs = FinalFunctions
  OBVIOUS
<1>2. /\ Encoded.entries = [i \in 1 .. NextFunctionIndex |-> Entry((imports \o fs)[i])]
      /\ Encoded.types = [i \in DOMAIN signatures |-> WasmKey(signatures[i])]
  BY <1>1 DEF Encoded
<1>3. ASSUME NEW i \in 1 .. NextFunctionIndex
      PROVE  (imports \o fs)[i].name = AllFunctions[i].name /\ (imports \o fs)[i].sig = AllFunctions[i].sig
  <2>1. /\ IsList(fs) /\ Len(fs) = Len(functions) /\ DOMAIN fs = DOMAIN functions
        /\ \A j \in DOMAIN functions : fs[j].name = functions[j].name /\ fs[j].sig = functions[j].sig
    BY <1>1, FinalFunctionsFacts
  <2>2. IsList(imports) /\ IsList(functions) /\ IsList(fs)
    BY <2>1 DEF Lists
  <2>3. Len(functions) \in Nat /\ DOMAIN functions = 1 .. Len(functions)
    BY <2>2, ListFacts
  <2>4. Len(functions) <= Len(fs)
    BY <2>1, <2>3
  <2>5. \A j \in 1 .. Len(functions) : fs[j].name = functions[j].name /\ fs[j].sig = functions[j].sig
    BY <2>1, <2>3
  <2>6. i \in 1 .. (Len(imports) + Len(functions)) /\ KeepsHeads(functions, fs)
    BY <2>4, <2>5 DEF NextFunctionIndex, KeepsHeads
  <2>7. PICK old, new : old = imports \o functions /\ new = imports \o fs
    OBVIOUS
  <2>8. KeepsHeads(old, new) /\ Len(old) = Len(imports) + Len(functions)
    BY <2>2, <2>6, <2>7, JoinedKept, ConcatList
  <2> QED
    BY <2>6, <2>7, <2>8 DEF KeepsHeads, AllFunctions
<1>4. ASSUME NEW i \in 1 .. NextFunctionIndex
      PROVE  /\ Encoded.entries[i].name = AllFunctions[i].name
             /\ Encoded.entries[i].sig = AllFunctions[i].sig
             /\ Encoded.types[Encoded.entries[i].type + 1] = WasmKey(AllFunctions[i].sig)
  <2>1. PICK sig : sig = AllFunctions[i].sig
    OBVIOUS
  <2>2. Encoded.entries[i] = [name |-> AllFunctions[i].name, sig |-> sig, type |-> SignatureIndex(signatures, sig)]
    <3>1. PICK f : f = (imports \o fs)[i]
      OBVIOUS
    <3>2. Encoded.entries[i] = Entry(f) /\ f.name = AllFunctions[i].name /\ f.sig = sig
      BY <1>2, <1>3, <2>1, <3>1
    <3> QED
      BY <3>2 DEF Entry
  <2>3. IsList(signatures) /\ Typed(signatures, sig)
    BY <2>1 DEF Lists, Consistent, SignaturesKnown
  <2>4. /\ SignatureIndex(signatures, sig) \in 0 .. (Len(signatures) - 1)
        /\ WasmKey(signatures[SignatureIndex(signatures, sig) + 1]) = WasmKey(sig)
    BY <2>3, SignatureFound
  <2>5. SignatureIndex(signatures, sig) + 1 \in DOMAIN signatures
    <3>1. DOMAIN signatures = 1 .. Len(signatures) /\ Len(signatures) \in Nat
      BY <2>3, ListFacts
    <3> QED
      BY <2>4, <3>1
  <2>6. Encoded.types[SignatureIndex(signatures, sig) + 1] = WasmKey(sig)
    BY <1>2, <2>4, <2>5
  <2> QED
    BY <2>1, <2>2, <2>6
<1>5. DOMAIN Encoded.entries = 1 .. NextFunctionIndex
  BY <1>2
<1> QED
  BY <1>4, <1>5

(* A reference that is valid when the module is assembled resolves.        *)
LEMMA ValidResolves ==
  ASSUME Lists, TypeOK, Consistent, bytecode' = Encoded, NEW r, Valid(r)
  PROVE  Resolves(r)'
<1>0. PICK b : b = Encoded
  OBVIOUS
<1>1. CASE r.kind = "call"
  <2>1. r.index \in 0 .. (NextFunctionIndex - 1) /\ AllFunctions[r.index + 1].name = r.to
    BY <1>1 DEF Valid
  <2>2. NextFunctionIndex \in Nat
    BY IndexSpace DEF NextFunctionIndex
  <2>3. r.index + 1 \in 1 .. NextFunctionIndex
    BY <2>1, <2>2
  <2>4. r.index + 1 \in DOMAIN b.entries /\ b.entries[r.index + 1].name = r.to
    BY <1>0, <2>1, <2>3, EntriesEncoded
  <2> QED
    BY <1>0, <1>1, <2>4 DEF Resolves
<1>2. CASE r.kind = "global"
  <2>1. r.index \in 0 .. (Len(globals) - 1) /\ globals[r.index + 1].name = r.to
    BY <1>2 DEF Valid
  <2>2. Len(globals) \in Nat /\ DOMAIN globals = 1 .. Len(globals)
    BY ListFacts DEF Lists
  <2>3. r.index + 1 \in DOMAIN globals
    BY <2>1, <2>2
  <2>4. b.globals = FinalGlobals
    BY <1>0 DEF Encoded
  <2>5. r.index + 1 \in DOMAIN b.globals /\ b.globals[r.index + 1].name = r.to
    BY <2>1, <2>3, <2>4, FinalGlobalsFacts
  <2> QED
    BY <1>0, <1>2, <2>5 DEF Resolves
<1>3. CASE r.kind = "type"
  <2>1. r.index \in 0 .. (Len(signatures) - 1) /\ WasmKey(signatures[r.index + 1]) = r.to
    BY <1>3 DEF Valid
  <2>2. Len(signatures) \in Nat /\ DOMAIN signatures = 1 .. Len(signatures)
    BY ListFacts DEF Lists
  <2>3. r.index + 1 \in DOMAIN signatures
    BY <2>1, <2>2
  <2>4. b.types = [i \in DOMAIN signatures |-> WasmKey(signatures[i])]
    BY <1>0 DEF Encoded
  <2>5. r.index + 1 \in DOMAIN b.types /\ b.types[r.index + 1] = r.to
    BY <2>1, <2>3, <2>4
  <2> QED
    BY <1>0, <1>3, <2>5 DEF Resolves
<1>4. CASE r.kind = "data"
  <2>1. PICK i \in DOMAIN static_segments :
          static_segments[i].address = r.index /\ static_segments[i].text = r.to
    BY <1>4 DEF Valid
  <2>2. b.data = static_segments
    BY <1>0 DEF Encoded
  <2>3. \E s \in Range(b.data) : s.address = r.index /\ s.text = r.to
    BY <2>1, <2>2 DEF Range
  <2> QED
    BY <1>0, <1>4, <2>3 DEF Resolves
<1>5. CASE r.kind = "memory"
  <2>1. b.pages = FinalPages
    BY <1>0 DEF Encoded
  <2>2. b.pages > 0
    BY <1>5, <2>1, LayoutFacts DEF Valid
  <2> QED
    BY <1>0, <1>5, <2>2 DEF Resolves
<1>6. CASE r.kind \notin {"call", "global", "type", "data", "memory"}
  BY <1>6 DEF Valid, Resolves
<1> QED
  BY <1>1, <1>2, <1>3, <1>4, <1>5, <1>6

LEMMA EncodedResolves ==
  ASSUME Lists, TypeOK, Consistent, bytecode' = Encoded
  PROVE  ReferencesResolve'
<1>0. PICK b : b = Encoded /\ b = bytecode'
  OBVIOUS
<1>1. ASSUME NEW refs \in Range(b.bodies), NEW r \in refs
      PROVE  Valid(r)
  <2>1. /\ Range(b.bodies) = {FinalFunctions[i].body : i \in DOMAIN functions}
    BY <1>0 DEF Encoded, Range
  <2>2. PICK i \in DOMAIN functions : refs = FinalFunctions[i].body
    BY <2>1
  <2>3. \/ allocator # None /\ refs = AllocatorBody(HeapStart, allocator_global)
        \/ refs = functions[i].body
    BY <2>2, FinalFunctionsFacts
  <2>4. CASE refs = functions[i].body
    BY <2>4 DEF Consistent, ReferencesValid
  <2>5. CASE allocator # None /\ refs = AllocatorBody(HeapStart, allocator_global)
    <3>1. allocator_global # None /\ memory > 0
      BY <2>5 DEF Consistent, AllocatorPlaced
    <3>2. CASE r = Ref("memory", 0, "memory")
      BY <3>1, <3>2 DEF Ref, Valid
    <3>3. CASE r = Ref("heap", HeapStart, "heap_start")
      BY <3>3 DEF Ref, Valid
    <3>4. CASE r = Ref("global", allocator_global, "heap_end")
      <4>1. r.kind = "global" /\ r.index = allocator_global /\ r.to = "heap_end"
        BY <3>4 DEF Ref
      <4>2. Len(globals) \in Nat /\ DOMAIN globals = 1 .. Len(globals)
        BY ListFacts DEF Lists
      <4>3. r.index \in 0 .. (Len(globals) - 1)
        BY <3>1, <4>1 DEF TypeOK
      <4>4. r.index + 1 \in DOMAIN globals
        BY <4>2, <4>3
      <4>5. globals[r.index + 1].name = "heap_end"
        BY <4>1, <4>4 DEF Consistent, AllocatorPlaced
      <4> QED
        BY <4>1, <4>3, <4>5 DEF Valid
    <3> QED
      BY <2>5, <3>2, <3>3, <3>4 DEF AllocatorBody
  <2> QED
    BY <2>3, <2>4, <2>5
<1>2. ASSUME NEW t \in Range(b.tables), NEW r \in Range(t.entries)
      PROVE  Valid(r)
  BY <1>0 DEF Encoded, Consistent, EntriesValid, Range
<1>3. ASSUME NEW e \in b.exports
      PROVE  Resolves(e.ref)'
  <2>1. /\ b.exports = ExportsOf(FinalFunctions) /\ b.tables = tables
    BY <1>0 DEF Encoded
  <2>2. CASE \E f \in Range(FinalFunctions) : e.ref = Ref("call", f.index, f.name)
    <3>1. PICK f \in Range(FinalFunctions) : e.ref = Ref("call", f.index, f.name)
      BY <2>2
    <3>2. PICK i \in DOMAIN functions : f.index = functions[i].index /\ f.name = functions[i].name
      BY FinalFunctionsFacts DEF Range
    <3>3. functions[i] \in Range(imports) \cup Range(functions)
      BY DEF Range
    <3>4. Valid(e.ref)
      BY <3>1, <3>2, <3>3, CallValid DEF CallRef
    <3> QED
      BY <3>4, ValidResolves
  <2>3. CASE \E g \in Range(globals) : e.ref = Ref("global", g.index, g.name)
    <3>1. Valid(e.ref)
      BY <2>3, GlobalValid
    <3> QED
      BY <3>1, ValidResolves
  <2>4. CASE Range(tables) # {} /\ e.ref = Ref("table", 0, "table")
    <3>1. Len(tables) \in Nat /\ DOMAIN tables = 1 .. Len(tables)
      BY ListFacts DEF Lists
    <3>2. \E i \in 1 .. Len(tables) : TRUE
      BY <2>4, <3>1 DEF Range
    <3>3. 0 + 1 \in DOMAIN b.tables
      BY <2>1, <3>1, <3>2
    <3> QED
      BY <1>0, <2>4, <3>3 DEF Resolves, Ref
  <2>5. CASE memory > 0 /\ e.ref = Ref("memory", 0, "memory")
    <3>1. Valid(e.ref)
      BY <2>5 DEF Valid, Ref
    <3> QED
      BY <3>1, ValidResolves
  <2> QED
    BY <2>1, <2>2, <2>3, <2>4, <2>5 DEF ExportsOf
<1> QED
  BY <1>0, <1>1, <1>2, <1>3, ValidResolves DEF ReferencesResolve

LEMMA EncodedTypes ==
  ASSUME Lists, TypeOK, Consistent, bytecode' = Encoded
  PROVE  TypesAgree'
<1>0. PICK b : b = Encoded /\ b = bytecode'
  OBVIOUS
<1>1. /\ DOMAIN b.entries = 1 .. NextFunctionIndex
      /\ \A i \in 1 .. NextFunctionIndex :
           /\ b.entries[i].sig = AllFunctions[i].sig
           /\ b.types[b.entries[i].type + 1] = WasmKey(AllFunctions[i].sig)
  BY <1>0, EntriesEncoded
<1>2. NextFunctionIndex \in Nat
  BY IndexSpace DEF NextFunctionIndex
<1>3. ASSUME NEW i \in DOMAIN b.entries
      PROVE  b.types[b.entries[i - 1 + 1].type + 1] = WasmKey(b.entries[i].sig)
  <2>1. i - 1 + 1 = i
    BY <1>1, <1>2
  <2> QED
    BY <1>1, <2>1
<1>4. ASSUME NEW t \in Range(b.tables), NEW r \in Range(t.entries)
      PROVE  b.types[b.entries[r.index + 1].type + 1] = WasmKey(t.sig)
  <2>1. r.kind = "call" /\ Valid(r) /\ WasmKey(AllFunctions[r.index + 1].sig) = WasmKey(t.sig)
    BY <1>0 DEF Encoded, Consistent, EntriesValid, Range
  <2>2. r.index + 1 \in 1 .. NextFunctionIndex
    BY <1>2, <2>1 DEF Valid
  <2> QED
    BY <1>1, <2>1, <2>2
<1>5. ASSUME b.start # None
      PROVE  b.types[b.entries[b.start + 1].type + 1] = WasmKey(Void)
  <2>1. b.start = start_index
    BY <1>0 DEF Encoded
  <2>2. b.start + 1 \in 1 .. NextFunctionIndex
    BY <1>2, <1>5, <2>1 DEF TypeOK
  <2>3. WasmKey(AllFunctions[b.start + 1].sig) = WasmKey(Void)
    BY <1>5, <2>1 DEF Consistent, SignaturesKnown
  <2> QED
    BY <1>1, <2>2, <2>3
<1> QED
  BY <1>0, <1>3, <1>4, <1>5 DEF TypesAgree

(* Every call, global access, indirect call, literal, table entry and      *)
(* export of the binary reaches what it was compiled for: the bodies were  *)
(* compiled before the lists were complete, and the allocator's two are    *)
(* compiled a second time when the module is assembled.                    *)
THEOREM ReferencesResolveHolds == Spec => []ReferencesResolve
<1>1. Init => ReferencesResolve
  BY DEF Init, ReferencesResolve, Assembled
<1>2. ASSUME IInv, ReferencesResolve, [Next]_vars
      PROVE  ReferencesResolve'
  <2>1. CASE bytecode' = bytecode
    <3>1. \A r : Resolves(r) = Resolves(r)'
      BY <2>1 DEF Resolves
    <3> QED
      BY <1>2, <2>1, <3>1 DEF ReferencesResolve, Assembled
  <2>2. CASE ~closed /\ bytecode' = Encoded
    BY <1>2, <2>2, EncodedResolves DEF IInv
  <2> QED
    BY <1>2, <2>1, <2>2, WrittenOnce
<1> QED
  BY <1>1, <1>2, IInvHolds, PTL DEF Spec

(* Every function and every table entry of the binary has the type it was  *)
(* declared with, although signatures with the same WebAssembly types are  *)
(* shared, and the start function takes and returns nothing.               *)
THEOREM TypesAgreeHolds == Spec => []TypesAgree
<1>1. Init => TypesAgree
  BY DEF Init, TypesAgree, Assembled
<1>2. ASSUME IInv, TypesAgree, [Next]_vars
      PROVE  TypesAgree'
  <2>1. CASE bytecode' = bytecode
    BY <1>2, <2>1 DEF TypesAgree, Assembled
  <2>2. CASE ~closed /\ bytecode' = Encoded
    BY <1>2, <2>2, EncodedTypes DEF IInv
  <2> QED
    BY <1>2, <2>1, <2>2, WrittenOnce
<1> QED
  BY <1>1, <1>2, IInvHolds, PTL DEF Spec

-----------------------------------------------------------------------------
(* The name of memory, which anything may be exported under *)

(* A refusal of memory is its name being taken.                            *)
LEMMA MemoryRefused ==
  ASSUME Lists, TypeOK
  PROVE  /\ ExportFree("memory") => memory = 0 /\ ~Rival
         /\ MemoryDenied => Rival
         /\ memory = 0 /\ Rival => MemoryDenied
<1>1. ExportFree("memory") <=> "memory" \notin TakenExports
  BY DEF ExportFree, NoName
<1>2. "memory" \in TakenExports <=> Rival \/ memory > 0
  BY DEF TakenExports, Rival
<1>3. memory \in Nat
  BY DEF TypeOK
<1> QED
  BY <1>1, <1>2, <1>3 DEF MemoryDenied

LEMMA RangeAppended ==
  ASSUME NEW s, IsList(s), NEW e
  PROVE  Range(Append(s, e)) = Range(s) \cup {e}
<1>1. Len(s) \in Nat /\ DOMAIN s = 1 .. Len(s)
  BY ListFacts
<1>2. PICK a : a = Append(s, e)
  OBVIOUS
<1>3. /\ IsList(a) /\ Len(a) = Len(s) + 1
      /\ \A i \in 1 .. Len(s) : a[i] = s[i]
      /\ a[Len(s) + 1] = e
  BY <1>2, AppendList
<1>4. DOMAIN a = 1 .. (Len(s) + 1)
  BY <1>3, ListFacts
<1>5. DOMAIN a = DOMAIN s \cup {Len(s) + 1}
  BY <1>1, <1>4
<1> QED
  BY <1>1, <1>2, <1>3, <1>5 DEF Range

(* A name is given to one more export only when it is free.                *)
LEMMA NamedExport ==
  ASSUME Lists, TypeOK, MemoryNamed, NEW name, ExportFree(name),
         Rival => Rival', Rival' => Rival \/ name = "memory",
         UNCHANGED <<memory, static_segments, allocator>>
  PROVE  MemoryNamed'
<1>1. name = "memory" => memory = 0 /\ ~Rival
  BY MemoryRefused
<1>2. memory \in Nat
  BY DEF TypeOK
<1> QED
  BY <1>1, <1>2 DEF MemoryNamed

LEMMA NamedDeclaration ==
  ASSUME IInv, MemoryNamed, Declaration
  PROVE  MemoryNamed'
<1>1. Lists /\ TypeOK
  BY DEF IInv
<1>2. ASSUME NEW name \in ImportNames, NEW sig \in Signatures, ImportFunc(name, sig)
      PROVE  MemoryNamed'
  BY <1>2 DEF ImportFunc, static, heap, MemoryNamed, Rival
<1>3. ASSUME NEW name \in GlobalNames, NEW export \in ExportNames \cup {NoName},
             CreateGlobal(name, export)
      PROVE  MemoryNamed'
  <2>1. PICK g : g = [index |-> Len(globals), name |-> name, export |-> export, initial |-> 0]
    OBVIOUS
  <2>2. /\ globals' = Append(globals, g) /\ ExportFree(export)
        /\ UNCHANGED <<functions, tables, memory, static_segments, allocator>>
    BY <1>3, <2>1 DEF CreateGlobal, static, heap
  <2>3. Range(globals') = Range(globals) \cup {g}
    BY <1>1, <2>2, RangeAppended DEF Lists
  <2>4. g.export = export
    BY <2>1
  <2>5. (Rival => Rival') /\ (Rival' => Rival \/ export = "memory")
    BY <2>2, <2>3, <2>4 DEF Rival
  <2> QED
    BY <1>1, <2>2, <2>5, NamedExport
<1>4. ASSUME NEW f \in Handles, NEW g \in Handles, NEW export \in ExportNames \cup {NoName},
             CreateTable(f, g, export)
      PROVE  MemoryNamed'
  <2>1. PICK t : t = [sig |-> f.sig, entries |-> <<CallRef(f), CallRef(g)>>, export |-> export]
    OBVIOUS
  <2>2. /\ tables = <<>> /\ tables' = <<t>> /\ ExportFree(export)
        /\ UNCHANGED <<functions, globals, memory, static_segments, allocator>>
    BY <1>4, <2>1 DEF CreateTable, static, heap
  <2>3. Range(tables) = {} /\ Range(tables') = {t}
    BY <2>2, OneList, EmptyList DEF Range
  <2>4. t.export = export
    BY <2>1
  <2>5. (Rival => Rival') /\ (Rival' => Rival \/ export = "memory")
    BY <2>2, <2>3, <2>4 DEF Rival
  <2> QED
    BY <1>1, <2>2, <2>5, NamedExport
<1>5. ASSUME NEW name, NEW sig, NEW export, NEW start, Begin(name, sig, export, start)
      PROVE  MemoryNamed'
  BY <1>5 DEF Begin, declared, static, heap, MemoryNamed, Rival
<1> QED
  BY <1>2, <1>3, <1>4, <1>5 DEF Declaration, Func, Start

(* Memory that is asked for with its name free, or not at all.             *)
LEMMA NamedEnsure ==
  ASSUME Lists, TypeOK, MemoryNamed, ~MemoryDenied, EnsureMemory,
         UNCHANGED <<functions, globals, tables, allocator>>
  PROVE  MemoryNamed'
<1>1. memory \in Nat /\ memory' > 0 /\ (memory = 0 => ~Rival)
  BY MemoryRefused DEF EnsureMemory, TypeOK
<1>2. Rival' = Rival
  BY DEF Rival
<1> QED
  BY <1>1, <1>2 DEF MemoryNamed

LEMMA NamedAllocator ==
  ASSUME IInv, MemoryNamed, ~closed, NEW f, NEW offset, UseAllocator(f, offset)
  PROVE  MemoryNamed'
<1>1. Lists /\ TypeOK /\ memory \in Nat
  BY DEF IInv, TypeOK
<1>2. EnsureAllocatorGlobal /\ UNCHANGED <<tables, static_segments>>
  BY DEF UseAllocator, static
<1>3. /\ IsList(globals') /\ Len(globals) <= Len(globals') /\ Len(globals) \in Nat
      /\ \A i \in 1 .. Len(globals) : globals'[i] = globals[i]
  BY <1>1, <1>2, AllocatorGlobalFacts
<1>4. DOMAIN globals = 1 .. Len(globals) /\ DOMAIN globals' = 1 .. Len(globals') /\ Len(globals') \in Nat
  BY <1>1, <1>3, ListFacts DEF Lists
<1>5. Range(globals) \subseteq Range(globals')
  BY <1>3, <1>4 DEF Range
<1>6. CASE allocator # None
  <2>1. UNCHANGED <<functions, allocator, memory>>
    BY <1>6 DEF UseAllocator
  <2>2. Rival => Rival'
    BY <1>2, <1>5, <2>1 DEF Rival
  <2> QED
    BY <1>2, <1>6, <2>1, <2>2 DEF MemoryNamed
<1>7. CASE allocator = None
  <2>1. /\ allocator' = Len(imports) + Len(functions)
        /\ memory' = IF memory = 0 THEN 1 ELSE memory
    BY <1>7 DEF UseAllocator, InstallAllocator, EnsureMemory, NextFunctionIndex
  <2>2. Len(imports) \in Nat /\ Len(functions) \in Nat
    BY <1>1, ListFacts DEF Lists
  <2>3. allocator' # None /\ memory' > 0
    BY <1>1, <2>1, <2>2 DEF None
  <2> QED
    BY <2>3 DEF MemoryNamed, None
<1> QED
  BY <1>6, <1>7

LEMMA NamedStatement ==
  ASSUME IInv, MemoryNamed, ~closed, Statement
  PROVE  MemoryNamed'
<1>1. Lists /\ TypeOK /\ memory \in Nat
  BY DEF IInv, TypeOK
<1>2. ASSUME UNCHANGED <<functions, globals, tables, memory, static_segments, allocator>>
      PROVE  MemoryNamed'
  BY <1>2 DEF MemoryNamed, Rival
<1>3. CASE RefusedStatement
  BY <1>2, <1>3 DEF RefusedStatement, declared, static, heap
<1>4. ASSUME NEW f \in Handles, CallFunction(f)
      PROVE  MemoryNamed'
  BY <1>2, <1>4 DEF CallFunction, declared, static, heap
<1>5. ASSUME NEW g \in Range(globals), UseGlobal(g)
      PROVE  MemoryNamed'
  BY <1>2, <1>5 DEF UseGlobal, declared, static, heap
<1>6. ASSUME NEW t \in Range(tables), CallIndirect(t)
      PROVE  MemoryNamed'
  BY <1>2, <1>6 DEF CallIndirect, static, heap
<1>7. CASE FromAddress
  <2>1. UNCHANGED <<functions, globals, tables, static_segments, allocator>>
    BY <1>7 DEF FromAddress, declared, static, heap
  <2>2. CASE MemoryDenied
    BY <1>2, <1>7, <2>1, <2>2 DEF FromAddress
  <2>3. CASE ~MemoryDenied
    BY <1>1, <1>7, <2>1, <2>3, NamedEnsure DEF FromAddress
  <2> QED
    BY <2>2, <2>3
<1>8. ASSUME NEW d \in Literals, StringLiteral(d)
      PROVE  MemoryNamed'
  <2>1. UNCHANGED <<functions, globals, tables, allocator>>
    BY <1>8 DEF StringLiteral, declared, heap
  <2>2. CASE MemoryDenied
    <3>1. Rival /\ memory' = memory
      BY <1>1, <1>8, <2>2, MemoryRefused DEF StringLiteral
    <3>2. Rival' = Rival
      BY <2>1 DEF Rival
    <3> QED
      BY <2>1, <3>1, <3>2 DEF MemoryNamed
  <2>3. CASE ~MemoryDenied
    BY <1>1, <1>8, <2>1, <2>3, NamedEnsure DEF StringLiteral
  <2> QED
    BY <2>2, <2>3
<1>9. ASSUME NEW f, NEW offset, UseAllocator(f, offset)
      PROVE  MemoryNamed'
  BY <1>9, NamedAllocator
<1>10. CASE Register
  <2>1. UNCHANGED <<globals, tables, memory, static_segments, allocator>>
    BY <1>10 DEF Register, static, heap
  <2>2. CASE building.export /\ ~ExportFree(building.name)
    BY <1>2, <1>10, <2>1, <2>2 DEF Register
  <2>3. CASE ~(building.export /\ ~ExportFree(building.name))
    <3>1. PICK f : f = [index |-> NextFunctionIndex, name |-> building.name, sig |-> building.sig,
                        export |-> building.export, body |-> building.body]
      OBVIOUS
    <3>2. functions' = Append(functions, f)
      BY <1>10, <2>3, <3>1 DEF Register, RegisterFunction
    <3>3. Range(functions') = Range(functions) \cup {f}
      BY <1>1, <3>2, RangeAppended DEF Lists
    <3>4. f.name = building.name /\ f.export = building.export
      BY <3>1
    <3>5. PICK name : name = IF building.export THEN building.name ELSE NoName
      OBVIOUS
    <3>6. ExportFree(name)
      BY <2>3, <3>5 DEF ExportFree
    <3>7. (Rival => Rival') /\ (Rival' => Rival \/ name = "memory")
      BY <2>1, <3>3, <3>4, <3>5 DEF Rival
    <3> QED
      BY <1>1, <2>1, <3>6, <3>7, NamedExport
  <2> QED
    BY <2>2, <2>3
<1> QED
  BY <1>3, <1>4, <1>5, <1>6, <1>7, <1>8, <1>9, <1>10 DEF Statement

LEMMA NamedStep ==
  ASSUME MInv, [Next]_vars
  PROVE  MInv'
<1>1. IInv'
  BY StepInv DEF MInv
<1>2. ASSUME ~closed'
      PROVE  MemoryNamed'
  <2>1. ~closed /\ ~Exit /\ ~Compile
    <3>1. Assembles => closed'
      BY DEF Assembles
    <3>2. Exit \/ Compile => Assembles
      BY DEF Exit, Compile
    <3>3. closed => closed'
      <4>1. CASE Exit \/ Compile
        BY <3>1, <3>2, <4>1
      <4>2. CASE Enter \/ ExitRaising \/ UNCHANGED vars
        BY <4>2 DEF Enter, ExitRaising, vars
      <4>3. CASE Declaration
        BY <4>3 DEF Declaration, ImportFunc, CreateGlobal, CreateTable, Func, Start, Begin, phase
      <4>4. CASE Statement
        BY <4>4 DEF Statement, RefusedStatement, CallFunction, UseGlobal, CallIndirect, FromAddress,
                    StringLiteral, UseAllocator, Register, phase
      <4> QED
        BY <4>1, <4>2, <4>3, <4>4 DEF Next
    <3> QED
      BY <1>2, <3>1, <3>2, <3>3
  <2>2. IInv /\ MemoryNamed
    BY <2>1 DEF MInv
  <2>3. CASE Enter \/ ExitRaising \/ UNCHANGED vars
    BY <2>2, <2>3 DEF Enter, ExitRaising, vars, declared, static, heap, MemoryNamed, Rival
  <2> QED
    BY <2>1, <2>2, <2>3, NamedDeclaration, NamedStatement DEF Next
<1> QED
  BY <1>1, <1>2 DEF MInv

LEMMA NamedHolds == Spec => []MInv
<1>1. ASSUME Init
      PROVE  MInv
  <2>1. memory = 0 /\ static_segments = <<>>
    BY <1>1 DEF Init
  <2>2. ~(memory > 0)
    BY <2>1
  <2>3. MemoryNamed
    BY <2>1, <2>2 DEF MemoryNamed
  <2> QED
    BY <1>1, <2>3, InitInv DEF MInv
<1>2. MInv /\ [Next]_vars => MInv'
  BY NamedStep
<1> QED
  BY <1>1, <1>2, PTL DEF Spec

(* Its exporter is in the binary, under that name.                         *)
LEMMA RivalEncoded ==
  ASSUME Lists, TypeOK, Consistent, Rival, bytecode' = Encoded
  PROVE  MemoryRivalled'
<1>1. PICK fs : fs = FinalFunctions
  OBVIOUS
<1>2. bytecode'.exports = ExportsOf(fs)
  BY <1>1 DEF Encoded
<1>3. /\ DOMAIN fs = DOMAIN functions
      /\ \A i \in DOMAIN functions : fs[i].name = functions[i].name /\ fs[i].export = functions[i].export
  BY <1>1, FinalFunctionsFacts
<1>4. "memory" # NoName
  BY DEF NoName
<1>5. CASE \E f \in Range(functions) : f.export /\ f.name = "memory"
  <2>1. PICK i \in DOMAIN functions : functions[i].export /\ functions[i].name = "memory"
    BY <1>5 DEF Range
  <2>2. PICK f : f = fs[i]
    OBVIOUS
  <2>3. f \in {g \in Range(fs) : g.export} /\ f.name = "memory"
    BY <1>3, <2>1, <2>2 DEF Range
  <2>4. [name |-> f.name, ref |-> Ref("call", f.index, f.name)] \in ExportsOf(fs)
    BY <2>3 DEF ExportsOf
  <2> QED
    BY <1>2, <2>3, <2>4 DEF MemoryRivalled, Ref
<1>6. CASE \E g \in Range(globals) : g.export = "memory"
  <2>1. PICK g \in Range(globals) : g.export = "memory"
    BY <1>6
  <2>2. [name |-> g.export, ref |-> Ref("global", g.index, g.name)] \in ExportsOf(fs)
    BY <1>4, <2>1 DEF ExportsOf
  <2> QED
    BY <1>2, <2>1, <2>2 DEF MemoryRivalled, Ref
<1>7. CASE \E t \in Range(tables) : t.export = "memory"
  <2>1. PICK t \in Range(tables) : t.export = "memory"
    BY <1>7
  <2>2. [name |-> t.export, ref |-> Ref("table", 0, "table")] \in ExportsOf(fs)
    BY <1>4, <2>1 DEF ExportsOf
  <2> QED
    BY <1>2, <2>1, <2>2 DEF MemoryRivalled, Ref
<1> QED
  BY <1>5, <1>6, <1>7 DEF Rival

(* All bodies that know where the heap starts were compiled again, and so  *)
(* was the global.                                                         *)
LEMMA EncodedHeap ==
  ASSUME Lists, TypeOK, Consistent, MemoryNamed, bytecode' = Encoded
  PROVE  HeapAboveData'
<1> DEFINE Starts(b) == {r.index : r \in {q \in UNION Range(b.bodies) : q.kind = "heap"}}
           Inits(b)  == {g.initial : g \in {h \in Range(b.globals) : h.name = "heap_end"}}
<1>0. PICK b : b = Encoded /\ b = bytecode'
  OBVIOUS
<1>1. /\ b.data = static_segments /\ b.pages = FinalPages /\ b.globals = FinalGlobals
      /\ Range(b.bodies) = {FinalFunctions[i].body : i \in DOMAIN functions}
  BY <1>0 DEF Encoded, Range
<1>2. /\ HeapStart \in Nat /\ 0 < HeapStart /\ static_end <= HeapStart /\ static_end \in Nat
      /\ FinalPages \in Nat /\ (memory > 0 => HeapStart <= FinalPages * PageSize)
  BY LayoutFacts DEF TypeOK
<1>3. \A i, j \in DOMAIN b.data : i < j => b.data[i].address + b.data[i].size <= b.data[j].address
  BY <1>1 DEF Consistent, DataInOrder
<1>4. ASSUME NEW r \in UNION Range(b.bodies), r.kind = "heap"
      PROVE  r.index = HeapStart /\ allocator # None
  <2>1. PICK i \in DOMAIN functions : r \in FinalFunctions[i].body
    BY <1>1, <1>4
  <2>2. \/ allocator # None /\ r \in AllocatorBody(HeapStart, allocator_global)
        \/ r \in functions[i].body /\ HeapRefs(functions[i].body) = {}
    BY <2>1, FinalFunctionsFacts
  <2>3. allocator # None /\ r \in AllocatorBody(HeapStart, allocator_global)
    BY <1>4, <2>2 DEF HeapRefs
  <2>4. PICK h : h = HeapStart
    OBVIOUS
  <2>5. r.index = h
    BY <1>4, <2>3, <2>4 DEF AllocatorBody, Ref
  <2> QED
    BY <2>3, <2>4, <2>5
<1>5. ASSUME NEW s \in Range(b.data)
      PROVE  /\ s.address + s.size <= b.pages * PageSize \/ (b.pages = 0 /\ MemoryRivalled')
             /\ s.address + s.size <= HeapStart
  <2>1. PICK i \in DOMAIN static_segments : s = static_segments[i]
    BY <1>1 DEF Range
  <2>2. s.address \in Nat /\ s.size \in Nat /\ s.address + s.size <= static_end
    BY <2>1 DEF Consistent, DataInOrder
  <2>3. memory > 0 \/ Rival
    <3>1. static_segments # <<>>
      BY <2>1, EmptyList
    <3> QED
      BY <3>1 DEF MemoryNamed
  <2>4. CASE memory > 0
    <3>1. PICK n \in Int : n = FinalPages * PageSize
      BY <1>2, BuilderAssumption
    <3>2. HeapStart <= n /\ b.pages * PageSize = n
      BY <1>1, <1>2, <2>4, <3>1
    <3> QED
      BY <1>2, <2>2, <3>1, <3>2
  <2>5. CASE ~(memory > 0)
    <3>1. b.pages = 0
      BY <1>1, <2>5 DEF FinalPages, TypeOK
    <3>2. MemoryRivalled'
      BY <2>3, <2>5, RivalEncoded
    <3> QED
      BY <1>2, <2>2, <3>1, <3>2
  <2> QED
    BY <2>4, <2>5
<1>6. ASSUME allocator # None
      PROVE  Inits(b) = {HeapStart} /\ HeapStart <= b.pages * PageSize
  <2>1. allocator_global # None /\ memory > 0
    BY <1>6 DEF Consistent, AllocatorPlaced
  <2>2. Len(globals) \in Nat /\ DOMAIN globals = 1 .. Len(globals)
    BY ListFacts DEF Lists
  <2>3. allocator_global + 1 \in DOMAIN globals
    BY <2>1, <2>2 DEF TypeOK
  <2>4. FinalGlobals[allocator_global + 1].name = "heap_end"
    BY <2>3, FinalGlobalsFacts DEF Consistent, AllocatorPlaced
  <2>5. DOMAIN FinalGlobals = DOMAIN globals
    BY FinalGlobalsFacts
  <2>6. \A i \in DOMAIN FinalGlobals :
          FinalGlobals[i].name = "heap_end" => FinalGlobals[i].initial = HeapStart
    BY <1>6, FinalGlobalsFacts
  <2>7. PICK gs, h : gs = FinalGlobals /\ h = HeapStart
    OBVIOUS
  <2>8. /\ \A g \in Range(gs) : g.name = "heap_end" => g.initial = h
        /\ \E g \in Range(gs) : g.name = "heap_end" /\ g.initial = h
    BY <2>3, <2>4, <2>5, <2>6, <2>7 DEF Range
  <2>9. Inits(b) = {h}
    BY <1>1, <2>7, <2>8
  <2> QED
    BY <1>1, <1>2, <2>1, <2>7, <2>9
<1>7. ASSUME Starts(b) # {}
      PROVE  Starts(b) = Inits(b)
  <2>1. allocator # None /\ \A h \in Starts(b) : h = HeapStart
    BY <1>4, <1>7
  <2>2. Starts(b) = {HeapStart}
    BY <1>7, <2>1
  <2> QED
    BY <1>6, <2>1, <2>2
<1>8. ASSUME NEW h \in Starts(b)
      PROVE  h = HeapStart /\ 0 < h /\ h <= b.pages * PageSize
  BY <1>2, <1>4, <1>6, <1>8
<1>9. PICK starts, inits : starts = Starts(b) /\ inits = Inits(b)
  OBVIOUS
<1>10. \A s \in Range(b.data) : \A h \in starts : s.address + s.size <= h
  BY <1>5, <1>8, <1>9
<1>11. starts # {} => starts = inits /\ \A h \in starts : 0 < h /\ h <= b.pages * PageSize
  BY <1>7, <1>8, <1>9
<1> QED
  BY <1>0, <1>3, <1>5, <1>9, <1>10, <1>11 DEF HeapAboveData

(* Every kind of export asks whether the name is taken, but for memory     *)
(* when malloc() is what needs it.                                         *)
LEMMA EncodedExports ==
  ASSUME Lists, TypeOK, Consistent, MemoryNamed, bytecode' = Encoded, allocator' = allocator
  PROVE  ExportsDistinct'
<1>1. PICK fs : fs = FinalFunctions
  OBVIOUS
<1>2. bytecode'.exports = ExportsOf(fs)
  BY <1>1 DEF Encoded
<1>3. /\ DOMAIN fs = DOMAIN functions
      /\ \A i \in DOMAIN functions : fs[i].name = functions[i].name /\ fs[i].export = functions[i].export
  BY <1>1, FinalFunctionsFacts
<1> DEFINE F(e) == \E i \in DOMAIN functions :
                     /\ functions[i].export
                     /\ e = [name |-> functions[i].name, ref |-> Ref("call", fs[i].index, fs[i].name)]
           G(e) == \E i \in DOMAIN globals :
                     /\ globals[i].export # NoName
                     /\ e = [name |-> globals[i].export, ref |-> Ref("global", globals[i].index, globals[i].name)]
           T(e) == \E i \in DOMAIN tables :
                     /\ tables[i].export # NoName
                     /\ e = [name |-> tables[i].export, ref |-> Ref("table", 0, "table")]
           M(e) == memory > 0 /\ e = [name |-> "memory", ref |-> Ref("memory", 0, "memory")]
<1>4. \A e \in ExportsOf(fs) : F(e) \/ G(e) \/ T(e) \/ M(e)
  BY <1>3 DEF ExportsOf, Range
<1>5. \A i, j \in DOMAIN tables : i = j
  <2>1. Len(tables) \in Nat /\ DOMAIN tables = 1 .. Len(tables) /\ Len(tables) <= 1
    BY ListFacts DEF Lists, TypeOK
  <2> QED
    BY <2>1
<1>6. \A e : (F(e) \/ G(e) \/ T(e)) /\ e.name = "memory" => Rival
  BY DEF Rival, Range
<1>7. ASSUME NEW d, NEW e, d.name = e.name, F(d) \/ G(d) \/ T(d), F(e) \/ G(e) \/ T(e)
      PROVE  d = e
  <2>1. CASE F(d)
    BY <1>7, <2>1 DEF Consistent, ExportedOnce
  <2>2. CASE G(d)
    BY <1>7, <2>2 DEF Consistent, ExportedOnce
  <2>3. CASE T(d)
    BY <1>5, <1>7, <2>3 DEF Consistent, ExportedOnce
  <2> QED
    BY <1>7, <2>1, <2>2, <2>3
<1>8. ASSUME NEW d, NEW e, d.name = e.name, M(d), F(e) \/ G(e) \/ T(e)
      PROVE  allocator # None /\ d.ref.kind = "memory"
  <2>1. memory > 0 /\ d.name = "memory" /\ d.ref.kind = "memory"
    BY <1>8 DEF Ref
  <2> QED
    BY <1>6, <1>8, <2>1 DEF MemoryNamed
<1> HIDE DEF F, G, T
<1>9. ASSUME NEW d \in ExportsOf(fs), NEW e \in ExportsOf(fs), d.name = e.name
      PROVE  d = e \/ (allocator # None /\ "memory" \in {d.ref.kind, e.ref.kind})
  <2>1. CASE M(d) /\ M(e)
    BY <2>1
  <2>2. CASE M(d) /\ ~M(e)
    BY <1>4, <1>8, <1>9, <2>2
  <2>3. CASE ~M(d) /\ M(e)
    BY <1>4, <1>8, <1>9, <2>3
  <2>4. CASE ~M(d) /\ ~M(e)
    BY <1>4, <1>7, <1>9, <2>4
  <2> QED
    BY <2>1, <2>2, <2>3, <2>4
<1> QED
  BY <1>2, <1>9 DEF ExportsDistinct

(* The allocator is installed once, and never by the step that assembles.  *)
LEMMA AllocatorKept ==
  ASSUME [Next]_vars
  PROVE  /\ allocator # None => allocator' = allocator
         /\ allocator' = allocator \/ bytecode' = bytecode
<1>1. CASE Enter \/ Exit \/ ExitRaising \/ Compile \/ UNCHANGED vars
  BY <1>1 DEF Enter, Exit, ExitRaising, Compile, vars, heap
<1>2. CASE Declaration
  BY <1>2 DEF Declaration, ImportFunc, CreateGlobal, CreateTable, Func, Start, Begin, heap
<1>3. CASE Statement
  BY <1>3 DEF Statement, RefusedStatement, CallFunction, UseGlobal, CallIndirect, FromAddress,
              StringLiteral, UseAllocator, Register, heap, phase
<1> QED
  BY <1>1, <1>2, <1>3 DEF Next

(* The literals of the binary are apart, below its pages and below the     *)
(* heap, which both functions of the allocator and its global start above  *)
(* the last of them, although that was unknown when they were first        *)
(* compiled.  Only a literal whose memory was refused, since something     *)
(* else has its name, is data of a module without memory.                  *)
THEOREM HeapAboveDataHolds == Spec => []HeapAboveData
<1>1. Init => HeapAboveData
  BY DEF Init, HeapAboveData, Assembled
<1>2. ASSUME MInv, HeapAboveData, [Next]_vars
      PROVE  HeapAboveData'
  <2>1. CASE bytecode' = bytecode
    BY <1>2, <2>1 DEF HeapAboveData, MemoryRivalled, Assembled
  <2>2. CASE ~closed /\ bytecode' = Encoded
    BY <1>2, <2>2, EncodedHeap DEF MInv, IInv
  <2> QED
    BY <1>2, <2>1, <2>2, WrittenOnce DEF MInv
<1> QED
  BY <1>1, <1>2, NamedHolds, PTL DEF Spec

(* No two exports of the binary have one name, in whatever order they were *)
(* declared and memory was first needed; only malloc() exports memory      *)
(* without asking whether its name is taken.                               *)
THEOREM ExportsDistinctHolds == Spec => []ExportsDistinct
<1>1. Init => ExportsDistinct
  BY DEF Init, ExportsDistinct, Assembled
<1>2. ASSUME MInv, ExportsDistinct, [Next]_vars
      PROVE  ExportsDistinct'
  <2>1. CASE bytecode' = bytecode
    <3>1. allocator # None => allocator' # None
      BY <1>2, AllocatorKept
    <3> QED
      BY <1>2, <2>1, <3>1 DEF ExportsDistinct, Assembled
  <2>2. CASE ~closed /\ bytecode' = Encoded /\ bytecode' # bytecode
    <3>1. allocator' = allocator
      BY <1>2, <2>2, AllocatorKept
    <3> QED
      BY <1>2, <2>2, <3>1, EncodedExports DEF MInv, IInv
  <2> QED
    BY <1>2, <2>1, <2>2, WrittenOnce DEF MInv
<1> QED
  BY <1>1, <1>2, NamedHolds, PTL DEF Spec
=============================================================================
