------------------------------- MODULE ArrayHeap -------------------------------
(***************************************************************************)
(* std.Array[T] (masic/wasm/stdlib.py) and buffers of malloc(count)        *)
(* (masic/wasm/memory.py) in the heap that $malloc and $mfree manage.      *)
(*                                                                         *)
(* The code of these operations is compiled into the program's functions.  *)
(* It keeps the address of an array in a local, and everything else in the *)
(* storage of the array: its size, its capacity and then its elements.     *)
(* reserve() moves the storage, copying it one element at a time; the      *)
(* other operations do not loop, and are one action each.                  *)
(*                                                                         *)
(* Of the heap only HeapContract is assumed: $malloc returns null, or any  *)
(* address of which the contract speaks, and every word that nobody owns   *)
(* may be overwritten by $malloc and $mfree with what they like.           *)
(* Elements are words, or multiples of which the first word is followed.   *)
(***************************************************************************)
EXTENDS Integers, Sequences

CONSTANTS
  AddressSpace,  \* bytes a wasm32 address can name (2^32)
  PageSize,      \* bytes in a page of linear memory (65536)
  HeapStart,     \* first byte after the static data
  ElementSize,   \* sizeof(T)
  Arrays,        \* the arrays the program uses
  Buffers,       \* the buffers it uses
  Values,        \* the elements it stores
  Counts,        \* counts and capacities it computes at run time
  MaxSize,       \* bound: elements pushed into an array
  Static,        \* what the words of static data hold
  Garbage,       \* what a word nobody owns holds
  MayWrap,       \* array capacities may exceed the address space
  MayRefuse      \* $malloc may return null for an array

HeaderSize == 8
WordSize   == 4

ASSUME ArrayAssumption ==
  /\ AddressSpace \in Nat /\ PageSize \in Nat \ {0} /\ AddressSpace % PageSize = 0
  /\ HeapStart \in Nat /\ HeapStart % WordSize = 0
  /\ ElementSize \in Nat \ {0} /\ ElementSize % WordSize = 0
  /\ Counts \subseteq 0 .. (AddressSpace - 1) /\ MaxSize \in Nat
  /\ Garbage \notin Values
  /\ MayWrap \in BOOLEAN /\ MayRefuse \in BOOLEAN

VARIABLES
  mem,      \* linear memory, word by word
  pages,    \* its size in pages
  live,     \* what the heap has granted: payload address |-> bytes
  address,  \* the local of each array the program holds
  buffers,  \* the buffers it holds: [address, count]
  call      \* the reserve() or push() under way, or Idle

heap == <<mem, pages, live>>
vars == <<mem, pages, live, address, buffers, call>>

Words == {a \in 0 .. (AddressSpace - 1) : a % WordSize = 0}
Null  == 0
Idle  == [step |-> "idle"]

Init ==
  /\ mem = [a \in Words |-> IF a < HeapStart THEN Static ELSE Garbage]
  /\ pages = (HeapStart + PageSize - 1) \div PageSize
  /\ live = [p \in {} |-> 0]
  /\ address = [a \in {} |-> 0]
  /\ buffers = [b \in {} |-> 0]
  /\ call = Idle

-----------------------------------------------------------------------------
(* The heap *)

Owned(p)   == {a \in Words : p <= a /\ a < p + live[p]}
Kept(P)    == {a \in Words : a < HeapStart} \cup UNION {Owned(p) : p \in P}
Wiped(P)   == [a \in Words |-> IF a \in Kept(P) THEN mem[a] ELSE Garbage]
Without(f, x) == [y \in DOMAIN f \ {x} |-> f[y]]
With(f, x, v) == [y \in DOMAIN f \cup {x} |-> IF y = x THEN v ELSE f[y]]

(* The addresses at which n bytes may be granted. *)
Grants(n) ==
  {p \in Words \ DOMAIN live :
     /\ n > 0 /\ p > HeapStart /\ p + n <= AddressSpace
     /\ p % 8 = (HeapStart + WordSize) % 8
     /\ \A q \in DOMAIN live : p + n <= q \/ q + live[q] <= p}

(* $malloc grants n bytes at p, where the caller writes before anything    *)
(* else happens.                                                           *)
Granted(p, n, written) ==
  /\ live' = With(live, p, n)
  /\ pages' = LET needed == (p + n + PageSize - 1) \div PageSize
              IN IF needed > pages THEN needed ELSE pages
  /\ mem' = written

Freed(p) ==
  /\ live' = Without(live, p)
  /\ mem' = Wiped(DOMAIN live \ {p})
  /\ UNCHANGED pages

-----------------------------------------------------------------------------
(* Arrays *)

SizeAt(a)       == a
CapacityAt(a)   == a + WordSize
(* Mutant: the elements begin at the header. *)
ElementAtHeader(a, i) == (a + i * ElementSize) % AddressSpace

ElementAt(a, i) == (a + HeaderSize + i * ElementSize) % AddressSpace

SizeOf(a)     == mem[SizeAt(address[a])]
CapacityOf(a) == mem[CapacityAt(address[a])]

(* capacity * sizeof(T) + 8, in 32 bits. *)
ByteCount(n) == (n * ElementSize + HeaderSize) % AddressSpace

(* What the program keeps to, unless it may do otherwise. *)
Fits(n) == MayWrap \/ n * ElementSize + HeaderSize < AddressSpace

(* The addresses $malloc may answer an array's request with. *)
Answers(n) == Grants(ByteCount(n)) \cup (IF MayRefuse THEN {Null} ELSE {})

(* The header that is written at p, which the heap has granted or is null. *)
Headed(m, p, size, capacity) ==
  [m EXCEPT ![SizeAt(p)] = size, ![CapacityAt(p)] = capacity]

Allocated(p, n, size) ==
  IF p = Null
  THEN mem' = Headed(mem, p, size, n) /\ UNCHANGED <<pages, live>>
  ELSE Granted(p, ByteCount(n), Headed(Wiped(DOMAIN live), p, size, n))

(* Array[T](n).  A literal n that does not fit is refused at compile time. *)
Construct(a, n) ==
  /\ call = Idle /\ a \notin DOMAIN address /\ Fits(n)
  /\ \E p \in Answers(n) :
       Allocated(p, n, 0) /\ address' = With(address, a, p)
  /\ UNCHANGED <<buffers, call>>

(* Mutant: the storage grows only when it would be more than one short.   *)
NeedsGrowthLate(a, n) == n > CapacityOf(a) + 1

NeedsGrowth(a, n) == n > CapacityOf(a)

(* The size is read before anything is allocated. *)
Grow(a, n, pushed) ==
  /\ Fits(n)
  /\ \E p \in Answers(n) :
       /\ Allocated(p, n, SizeOf(a))
       /\ call' = [step |-> "copy", array |-> a, fresh |-> p, size |-> SizeOf(a),
                   index |-> 0, pushed |-> pushed]
  /\ UNCHANGED <<address, buffers>>

(* reserve(n) returns at once when there is room. *)
Reserve(a, n) ==
  /\ call = Idle /\ a \in DOMAIN address /\ NeedsGrowth(a, n)
  /\ Grow(a, n, <<>>)

Copying == call.step = "copy"

(* Mutant: the loop does not count. *)
CopyForever ==
  /\ Copying /\ call.index < call.size
  /\ mem' = [mem EXCEPT ![ElementAt(call.fresh, call.index)] =
                           mem[ElementAt(address[call.array], call.index)]]
  /\ UNCHANGED <<pages, live, address, buffers, call>>

CopyElement ==
  /\ Copying /\ call.index < call.size
  /\ mem' = [mem EXCEPT ![ElementAt(call.fresh, call.index)] =
                           mem[ElementAt(address[call.array], call.index)]]
  /\ call' = [call EXCEPT !.index = @ + 1]
  /\ UNCHANGED <<pages, live, address, buffers>>

Returns == call' = IF call.pushed = <<>> THEN Idle ELSE [call EXCEPT !.step = "push"]

(* Mutants: the old storage is kept; the local is set before the storage   *)
(* in it is freed.                                                         *)
RelocateLeaking ==
  /\ Copying /\ call.index >= call.size
  /\ address' = [address EXCEPT ![call.array] = call.fresh]
  /\ Returns /\ UNCHANGED <<heap, buffers>>

RelocateFirst ==
  /\ Copying /\ call.index >= call.size
  /\ Freed(call.fresh)
  /\ address' = [address EXCEPT ![call.array] = call.fresh]
  /\ Returns /\ UNCHANGED buffers

(* The old storage is freed, null included, and the local set to the new.  *)
Relocate ==
  /\ Copying /\ call.index >= call.size
  /\ LET old == address[call.array]
     IN IF old = Null THEN UNCHANGED heap ELSE Freed(old)
  /\ address' = [address EXCEPT ![call.array] = call.fresh]
  /\ Returns /\ UNCHANGED buffers

(* The element goes to the storage the array has by now. *)
Pushed(a, i, v) ==
  /\ mem' = [mem EXCEPT ![ElementAt(address[a], i)] = v, ![SizeAt(address[a])] = i + 1]
  /\ UNCHANGED <<pages, live, address, buffers>>

(* push(v), with room for one more, and without. *)
Push(a, v) ==
  /\ call = Idle /\ a \in DOMAIN address /\ SizeOf(a) < MaxSize
  /\ ~NeedsGrowth(a, SizeOf(a) + 1)
  /\ Pushed(a, SizeOf(a), v) /\ UNCHANGED call

PushGrowing(a, v) ==
  /\ call = Idle /\ a \in DOMAIN address /\ SizeOf(a) < MaxSize
  /\ NeedsGrowth(a, SizeOf(a) + 1)
  /\ Grow(a, SizeOf(a) + 1, <<v>>)

PushStored ==
  /\ call.step = "push"
  /\ Pushed(call.array, call.size, call.pushed[1]) /\ call' = Idle

Free(a) ==
  /\ call = Idle /\ a \in DOMAIN address
  /\ IF address[a] = Null THEN UNCHANGED heap ELSE Freed(address[a])
  /\ address' = Without(address, a)
  /\ UNCHANGED <<buffers, call>>

-----------------------------------------------------------------------------
(* Buffers *)

(* Mutant: the product is taken as it is. *)
UncheckedProduct(n) == (n * ElementSize) % AddressSpace

(* A product that wraps is replaced by 0, for which $malloc returns null.  *)
CheckedProduct(n) ==
  IF n <= (AddressSpace - 1) \div ElementSize
  THEN (n * ElementSize) % AddressSpace ELSE 0

(* malloc(n): the program goes on without the buffer if it gets null.      *)
MallocBuffer(b, n) ==
  /\ call = Idle /\ b \notin DOMAIN buffers
  /\ \E p \in Grants(CheckedProduct(n)) :
       /\ Granted(p, CheckedProduct(n), Wiped(DOMAIN live))
       /\ buffers' = With(buffers, b, [address |-> p, count |-> n])
  /\ UNCHANGED <<address, call>>

(* p[i] = v, for an index the program has checked. *)
StoreBuffer(b, i, v) ==
  /\ call = Idle /\ b \in DOMAIN buffers /\ i < buffers[b].count
  /\ LET at == (buffers[b].address + i * ElementSize) % AddressSpace
     IN mem' = [mem EXCEPT ![at] = v]
  /\ UNCHANGED <<pages, live, address, buffers, call>>

FreeBuffer(b) ==
  /\ call = Idle /\ b \in DOMAIN buffers
  /\ Freed(buffers[b].address)
  /\ buffers' = Without(buffers, b)
  /\ UNCHANGED <<address, call>>

-----------------------------------------------------------------------------
Loop == CopyElement \/ Relocate \/ PushStored

Next ==
  \/ \E a \in Arrays, n \in Counts : Construct(a, n) \/ Reserve(a, n)
  \/ \E a \in Arrays, v \in Values : Push(a, v) \/ PushGrowing(a, v)
  \/ \E a \in Arrays : Free(a)
  \/ Loop
  \/ \E b \in Buffers, n \in Counts : MallocBuffer(b, n)
  \/ \E b \in Buffers, i \in 0 .. MaxSize, v \in Values : StoreBuffer(b, i, v)
  \/ \E b \in Buffers : FreeBuffer(b)

(* The engine runs a call it has entered to its end. *)
Spec == Init /\ [][Next]_vars /\ WF_vars(Loop)

-----------------------------------------------------------------------------
TypeOK ==
  /\ DOMAIN address \subseteq Arrays /\ DOMAIN buffers \subseteq Buffers
  /\ DOMAIN live \subseteq Words /\ DOMAIN mem = Words
  /\ \A a \in DOMAIN address : address[a] \in DOMAIN live
  /\ call.step \in {"idle", "copy", "push"}

Storages ==
  {address[a] : a \in DOMAIN address} \cup (IF Copying THEN {call.fresh} ELSE {})

(* No array in use is one that $malloc has refused. *)
Served == Null \notin Storages

(* An array has the bytes its capacity speaks of, its size is within it,   *)
(* and so is everything a reserve() on its way will store.                 *)
CapacityBacked ==
  \A p \in Storages :
    /\ p \in DOMAIN live
    /\ HeaderSize + mem[CapacityAt(p)] * ElementSize <= live[p]
    /\ mem[SizeAt(p)] <= mem[CapacityAt(p)]

(* A buffer that is not null has room for as many elements as were asked   *)
(* for, without wrapping.                                                  *)
BuffersHoldTheirCount ==
  \A b \in DOMAIN buffers : buffers[b].count * ElementSize <= live[buffers[b].address]

(* Every grant of the heap is the storage of exactly one array or buffer:  *)
(* growing an array leaks nothing, and frees nothing that is in use.       *)
StorageIsOwned ==
  /\ DOMAIN live = Storages \cup {buffers[b].address : b \in DOMAIN buffers}
  /\ \A a, b \in DOMAIN address : address[a] = address[b] => a = b
  /\ \A a \in DOMAIN address, b \in DOMAIN buffers : address[a] # buffers[b].address

(* A reserve() that has begun returns. *)
ReserveReturns == Copying ~> call = Idle

(* What the program sees of its arrays are sequences. *)
Content(a) == [i \in 1 .. SizeOf(a) |-> mem[ElementAt(address[a], i - 1)]]

Sequence == INSTANCE ArrayContract WITH
  Arrays <- Arrays, Values <- Values, contents <- [a \in DOMAIN address |-> Content(a)]
ArraysAreSequences == Sequence!Spec

Requests ==
  {ByteCount(n) : n \in Counts \cup 0 .. MaxSize} \cup {CheckedProduct(n) : n \in Counts}

(* To the heap, arrays and buffers are callers that keep to its contract:  *)
(* they write into what they have been granted, and free it once.          *)
Heap == INSTANCE HeapContract WITH
  AddressSpace <- AddressSpace, PageSize <- PageSize, HeapStart <- HeapStart,
  Requests <- Requests, mem <- mem, pages <- pages, live <- live
HeapRespected == Heap!Spec
=============================================================================
