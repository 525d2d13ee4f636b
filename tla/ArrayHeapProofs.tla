---------------------------- MODULE ArrayHeapProofs ----------------------------
(***************************************************************************)
(* Theorems on ArrayHeap, for every size of memory and of elements and     *)
(* every program of arrays and buffers, in three layers: who owns which    *)
(* grant of the heap; what memory holds, for capacities that fit, and that *)
(* the program keeps to the contract of the heap; and that its arrays are  *)
(* those of ArrayContract.  The heap may refuse an array at any time; what *)
(* is promised is promised for as long as it has not (Served).             *)
(***************************************************************************)
EXTENDS ArrayHeap, SequenceTheorems, TLAPS

LEMMA WithFacts ==
  ASSUME NEW f, NEW x, NEW v
  PROVE  /\ DOMAIN With(f, x, v) = DOMAIN f \cup {x}
         /\ With(f, x, v)[x] = v
         /\ \A y \in DOMAIN f : y # x => With(f, x, v)[y] = f[y]
BY DEF With

LEMMA WithoutFacts ==
  ASSUME NEW f, NEW x
  PROVE  /\ DOMAIN Without(f, x) = DOMAIN f \ {x}
         /\ \A y \in DOMAIN f \ {x} : Without(f, x)[y] = f[y]
BY DEF Without

-----------------------------------------------------------------------------
(* Who owns what *)

Shapes ==
  /\ DOMAIN address \subseteq Arrays /\ DOMAIN buffers \subseteq Buffers
  /\ DOMAIN live \subseteq Words /\ Null \notin DOMAIN live /\ DOMAIN mem = Words

(* A reserve() or push() under way is that of an array the program holds.  *)
CallShape ==
  \/ call = Idle
  \/ /\ DOMAIN call = {"step", "array", "fresh", "size", "index", "pushed"}
     /\ call.step \in {"copy", "push"} /\ call.array \in DOMAIN address

(* The storage an array moves to is nobody's yet. *)
FreshApart ==
  Copying => /\ \A a \in DOMAIN address : address[a] # call.fresh
             /\ \A b \in DOMAIN buffers : buffers[b].address # call.fresh

BuffersApart ==
  \A b, c \in DOMAIN buffers : buffers[b].address = buffers[c].address => b = c

OwnInv == Shapes /\ CallShape /\ FreshApart /\ BuffersApart /\ StorageIsOwned

LEMMA OwnInvInit == Init => OwnInv
BY DEF Init, OwnInv, Shapes, CallShape, FreshApart, BuffersApart, StorageIsOwned,
       Storages, Copying, Idle, Words

LEMMA OwnInvTyped == OwnInv => TypeOK
BY DEF OwnInv, Shapes, CallShape, StorageIsOwned, Storages, TypeOK, Idle

(* An answer to an array is a new pointer, at which the header is written. *)
LEMMA AllocatedFacts ==
  ASSUME Shapes, NEW n, NEW size, NEW p \in Answers(n), p # Null, Allocated(p, n, size)
  PROVE  /\ p \in Words \ DOMAIN live /\ p \in Grants(ByteCount(n))
         /\ live' = With(live, p, ByteCount(n)) /\ DOMAIN live' = DOMAIN live \cup {p}
         /\ mem' = Headed(Wiped(DOMAIN live), p, size, n)
         /\ DOMAIN mem' = Words /\ DOMAIN live' \subseteq Words
<1>1. p \in Grants(ByteCount(n))
  BY DEF Answers
<1>2. p \in Words \ DOMAIN live
  BY <1>1 DEF Grants
<1>3. live' = With(live, p, ByteCount(n)) /\ mem' = Headed(Wiped(DOMAIN live), p, size, n)
  BY DEF Allocated, Granted
<1>4. DOMAIN live' = DOMAIN live \cup {p}
  BY <1>3, WithFacts
<1>5. DOMAIN mem' = Words
  BY <1>3 DEF Headed, Wiped
<1>6. QED
  BY <1>1, <1>2, <1>3, <1>4, <1>5 DEF Shapes

(* An array that is served gets its storage from the heap. *)
LEMMA ServedConstruct ==
  ASSUME Served', NEW a, NEW n, Construct(a, n)
  PROVE  \E p \in Answers(n) :
           p # Null /\ Allocated(p, n, 0) /\ address' = With(address, a, p)
<1>1. PICK p \in Answers(n) : Allocated(p, n, 0) /\ address' = With(address, a, p)
  BY DEF Construct
<1>2. a \in DOMAIN address' /\ address'[a] = p
  BY <1>1 DEF With
<1>3. p \in Storages'
  BY <1>2 DEF Storages
<1>4. QED
  BY <1>1, <1>3 DEF Served

LEMMA ServedGrow ==
  ASSUME Served', NEW a, NEW n, NEW pushed, Grow(a, n, pushed)
  PROVE  \E p \in Answers(n) :
           /\ p # Null /\ Allocated(p, n, SizeOf(a))
           /\ call' = [step |-> "copy", array |-> a, fresh |-> p, size |-> SizeOf(a),
                       index |-> 0, pushed |-> pushed]
<1>1. PICK p \in Answers(n) :
        /\ Allocated(p, n, SizeOf(a))
        /\ call' = [step |-> "copy", array |-> a, fresh |-> p, size |-> SizeOf(a),
                    index |-> 0, pushed |-> pushed]
  BY DEF Grow
<1>2. Copying' /\ call'.fresh = p
  BY <1>1 DEF Copying
<1>3. p \in Storages'
  BY <1>2 DEF Storages
<1>4. QED
  BY <1>1, <1>3 DEF Served

(* The local of an array, or a new buffer, takes the pointer. *)
LEMMA ConstructOwn ==
  ASSUME Served', OwnInv, NEW a \in Arrays, NEW n, Construct(a, n)
  PROVE  OwnInv'
<1>1. PICK p \in Answers(n) :
        p # Null /\ Allocated(p, n, 0) /\ address' = With(address, a, p)
  BY ServedConstruct
<1>2. /\ p \in Words \ DOMAIN live /\ p # Null
      /\ DOMAIN live' = DOMAIN live \cup {p} /\ DOMAIN mem' = Words
      /\ DOMAIN live' \subseteq Words
  BY <1>1, AllocatedFacts DEF OwnInv
<1>3. /\ a \notin DOMAIN address /\ call = Idle /\ UNCHANGED <<buffers, call>>
  BY DEF Construct
<1>4. /\ DOMAIN address' = DOMAIN address \cup {a} /\ address'[a] = p
      /\ \A c \in DOMAIN address : address'[c] = address[c]
  BY <1>1, <1>3 DEF With
<1>5. CallShape' /\ FreshApart'
  BY <1>3 DEF CallShape, FreshApart, Copying, Idle
<1>6. BuffersApart'
  BY <1>3 DEF OwnInv, BuffersApart
<1>7. Shapes'
  BY <1>2, <1>3, <1>4 DEF OwnInv, Shapes
<1>8. StorageIsOwned'
  BY <1>2, <1>3, <1>4 DEF OwnInv, StorageIsOwned, Storages, Copying, Idle
<1>9. QED
  BY <1>5, <1>6, <1>7, <1>8 DEF OwnInv

LEMMA GrowOwn ==
  ASSUME Served', OwnInv, NEW a \in DOMAIN address, NEW n, NEW pushed,
         call = Idle, Grow(a, n, pushed)
  PROVE  OwnInv'
<1>1. PICK p \in Answers(n) :
        /\ p # Null /\ Allocated(p, n, SizeOf(a))
        /\ call' = [step |-> "copy", array |-> a, fresh |-> p, size |-> SizeOf(a),
                    index |-> 0, pushed |-> pushed]
  BY ServedGrow
<1>2. /\ p \in Words \ DOMAIN live /\ p # Null
      /\ DOMAIN live' = DOMAIN live \cup {p} /\ DOMAIN mem' = Words
      /\ DOMAIN live' \subseteq Words
  BY <1>1, AllocatedFacts DEF OwnInv
<1>3. UNCHANGED <<address, buffers>>
  BY DEF Grow
<1>4. Copying' /\ call'.fresh = p /\ ~Copying
  BY <1>1 DEF Copying, Idle
<1>5. CallShape'
  BY <1>1, <1>3 DEF CallShape
<1>6. Shapes' /\ FreshApart' /\ BuffersApart'
  BY <1>2, <1>3, <1>4 DEF OwnInv, Shapes, FreshApart, BuffersApart, StorageIsOwned, Storages
<1>7. StorageIsOwned'
  BY <1>2, <1>3, <1>4 DEF OwnInv, StorageIsOwned, Storages
<1>8. QED
  BY <1>5, <1>6, <1>7 DEF OwnInv

(* Writing a word changes no owner. *)
LEMMA WriteOwn ==
  ASSUME OwnInv, DOMAIN mem' = Words, UNCHANGED <<live, address, buffers>>,
         CallShape', Copying' => Copying /\ call'.fresh = call.fresh, Copying => Copying'
  PROVE  OwnInv'
<1>1. Shapes' /\ FreshApart' /\ BuffersApart'
  BY DEF OwnInv, Shapes, FreshApart, BuffersApart
<1>2. Storages' = Storages
  BY DEF Storages
<1>3. StorageIsOwned'
  BY <1>2 DEF OwnInv, StorageIsOwned
<1>4. QED
  BY <1>1, <1>3 DEF OwnInv

LEMMA CopyElementOwn == ASSUME OwnInv, CopyElement PROVE OwnInv'
<1>1. DOMAIN mem' = Words /\ UNCHANGED <<live, address, buffers>>
  BY DEF CopyElement, OwnInv, Shapes
<1>2. CallShape' /\ call'.step = call.step /\ call'.fresh = call.fresh
  BY DEF CopyElement, OwnInv, CallShape, Copying, Idle
<1>3. QED
  BY <1>1, <1>2, WriteOwn DEF Copying

LEMMA PushedOwn ==
  ASSUME OwnInv, NEW a, NEW i, NEW v, Pushed(a, i, v), call' = call \/ call' = Idle, ~Copying
  PROVE  OwnInv'
<1>1. DOMAIN mem' = Words /\ UNCHANGED <<live, address, buffers>>
  BY DEF Pushed, OwnInv, Shapes
<1>2. CallShape' /\ ~Copying'
  BY <1>1 DEF OwnInv, CallShape, Copying, Idle
<1>3. QED
  BY <1>1, <1>2, WriteOwn

LEMMA StoreBufferOwn ==
  ASSUME OwnInv, NEW b, NEW i, NEW v, StoreBuffer(b, i, v) PROVE OwnInv'
<1>1. DOMAIN mem' = Words /\ UNCHANGED <<live, address, buffers, call>>
  BY DEF StoreBuffer, OwnInv, Shapes
<1>2. CallShape' /\ (Copying' <=> Copying) /\ call'.fresh = call.fresh
  BY <1>1 DEF OwnInv, CallShape, Copying
<1>3. QED
  BY <1>1, <1>2, WriteOwn

(* The old storage, which belonged to this array only, leaves the heap as  *)
(* the fresh one takes its place.                                          *)
LEMMA RelocateOwn == ASSUME OwnInv, Relocate PROVE OwnInv'
<1> DEFINE a   == call.array
           old == address[call.array]
<1>1. /\ call.step = "copy" /\ a \in DOMAIN address /\ "step" \in DOMAIN call
      /\ DOMAIN call = {"step", "array", "fresh", "size", "index", "pushed"}
  BY DEF Relocate, Copying, OwnInv, CallShape, Idle
<1>2. old \in DOMAIN live /\ old # Null
  BY <1>1 DEF OwnInv, Shapes, StorageIsOwned, Storages
<1>3. live' = Without(live, old) /\ mem' = Wiped(DOMAIN live \ {old}) /\ UNCHANGED buffers
  BY <1>2 DEF Relocate, Freed
<1>4. DOMAIN live' = DOMAIN live \ {old} /\ DOMAIN mem' = Words
  BY <1>3, WithoutFacts DEF Wiped
<1>5. /\ DOMAIN address' = DOMAIN address /\ address'[a] = call.fresh
      /\ \A c \in DOMAIN address : c # a => address'[c] = address[c]
  BY <1>1 DEF Relocate
<1>6. CallShape' /\ ~Copying'
  BY <1>1, <1>5 DEF Relocate, Returns, CallShape, Copying, Idle
<1>7. Shapes' /\ FreshApart' /\ BuffersApart'
  BY <1>3, <1>4, <1>5, <1>6 DEF OwnInv, Shapes, FreshApart, BuffersApart
<1>8. StorageIsOwned'
  BY <1>1, <1>3, <1>4, <1>5, <1>6 DEF OwnInv, StorageIsOwned, Storages, Copying, FreshApart
<1>9. QED
  BY <1>6, <1>7, <1>8 DEF OwnInv

LEMMA FreeOwn == ASSUME OwnInv, NEW a, Free(a) PROVE OwnInv'
<1>1. a \in DOMAIN address /\ call = Idle /\ UNCHANGED <<buffers, call>>
  BY DEF Free
<1>2. address[a] \in DOMAIN live /\ address[a] # Null
  BY <1>1 DEF OwnInv, Shapes, StorageIsOwned, Storages
<1>3. live' = Without(live, address[a]) /\ mem' = Wiped(DOMAIN live \ {address[a]})
  BY <1>2 DEF Free, Freed
<1>4. DOMAIN live' = DOMAIN live \ {address[a]} /\ DOMAIN mem' = Words
  BY <1>3, WithoutFacts DEF Wiped
<1>5. /\ DOMAIN address' = DOMAIN address \ {a}
      /\ \A c \in DOMAIN address \ {a} : address'[c] = address[c]
  BY WithoutFacts DEF Free
<1>6. Shapes' /\ CallShape' /\ FreshApart' /\ BuffersApart'
  BY <1>1, <1>4, <1>5 DEF OwnInv, Shapes, CallShape, FreshApart, BuffersApart, Copying, Idle
<1>7. StorageIsOwned'
  BY <1>1, <1>4, <1>5 DEF OwnInv, StorageIsOwned, Storages, Copying, Idle
<1>8. QED
  BY <1>6, <1>7 DEF OwnInv

LEMMA GrantedFacts ==
  ASSUME Shapes, NEW n, NEW p \in Grants(n), NEW written, DOMAIN written = Words,
         Granted(p, n, written)
  PROVE  /\ p \in Words \ DOMAIN live /\ p # Null
         /\ live' = With(live, p, n) /\ DOMAIN live' = DOMAIN live \cup {p}
         /\ mem' = written /\ DOMAIN live' \subseteq Words /\ DOMAIN mem' = Words
<1>1. p \in Words \ DOMAIN live /\ p > HeapStart
  BY DEF Grants
<1>2. p # Null
  BY <1>1, ArrayAssumption DEF Null, Words
<1>3. live' = With(live, p, n) /\ mem' = written
  BY DEF Granted
<1>4. DOMAIN live' = DOMAIN live \cup {p}
  BY <1>3, WithFacts
<1>5. QED
  BY <1>1, <1>2, <1>3, <1>4 DEF Shapes

LEMMA MallocBufferOwn ==
  ASSUME OwnInv, NEW b \in Buffers, NEW n, MallocBuffer(b, n) PROVE OwnInv'
<1>1. PICK p \in Grants(CheckedProduct(n)) :
        /\ Granted(p, CheckedProduct(n), Wiped(DOMAIN live))
        /\ buffers' = With(buffers, b, [address |-> p, count |-> n])
  BY DEF MallocBuffer
<1>2. DOMAIN Wiped(DOMAIN live) = Words
  BY DEF Wiped
<1>3. /\ p \in Words \ DOMAIN live /\ p # Null
      /\ DOMAIN live' = DOMAIN live \cup {p}
      /\ DOMAIN live' \subseteq Words /\ DOMAIN mem' = Words
  BY <1>1, <1>2, GrantedFacts DEF OwnInv
<1>4. b \notin DOMAIN buffers /\ call = Idle /\ UNCHANGED <<address, call>>
  BY DEF MallocBuffer
<1>5. /\ DOMAIN buffers' = DOMAIN buffers \cup {b} /\ buffers'[b].address = p
      /\ \A c \in DOMAIN buffers : buffers'[c] = buffers[c]
  BY <1>1, <1>4 DEF With
<1>6. CallShape' /\ FreshApart'
  BY <1>4 DEF CallShape, FreshApart, Copying, Idle
<1>7. Shapes'
  BY <1>3, <1>4, <1>5 DEF OwnInv, Shapes
<1>8. BuffersApart'
  BY <1>3, <1>4, <1>5 DEF OwnInv, BuffersApart, StorageIsOwned
<1>9. StorageIsOwned'
  BY <1>3, <1>4, <1>5 DEF OwnInv, StorageIsOwned, Storages, Copying, Idle
<1>10. QED
  BY <1>6, <1>7, <1>8, <1>9 DEF OwnInv

LEMMA FreeBufferOwn == ASSUME OwnInv, NEW b, FreeBuffer(b) PROVE OwnInv'
<1>1. b \in DOMAIN buffers /\ call = Idle /\ UNCHANGED <<address, call>>
  BY DEF FreeBuffer
<1>2. DOMAIN live' = DOMAIN live \ {buffers[b].address} /\ DOMAIN mem' = Words
  BY WithoutFacts DEF FreeBuffer, Freed, Wiped
<1>3. /\ DOMAIN buffers' = DOMAIN buffers \ {b}
      /\ \A c \in DOMAIN buffers \ {b} : buffers'[c] = buffers[c]
  BY WithoutFacts DEF FreeBuffer
<1>4. CallShape' /\ FreshApart'
  BY <1>1 DEF CallShape, FreshApart, Copying, Idle
<1>5. Shapes' /\ BuffersApart'
  BY <1>1, <1>2, <1>3 DEF OwnInv, Shapes, BuffersApart
<1>6. StorageIsOwned'
  BY <1>1, <1>2, <1>3 DEF OwnInv, StorageIsOwned, Storages, Copying, Idle, BuffersApart
<1>7. QED
  BY <1>4, <1>5, <1>6 DEF OwnInv

LEMMA StepOwn == Served' /\ OwnInv /\ [Next]_vars => OwnInv'
<1> SUFFICES ASSUME Served', OwnInv, [Next]_vars PROVE OwnInv'
  OBVIOUS
<1>1. ASSUME NEW a \in Arrays, NEW n \in Counts, Construct(a, n) PROVE OwnInv'
  BY <1>1, ConstructOwn
<1>2. ASSUME NEW a \in Arrays, NEW n \in Counts, Reserve(a, n) PROVE OwnInv'
  BY <1>2, GrowOwn DEF Reserve
<1>3. ASSUME NEW a \in Arrays, NEW v \in Values, Push(a, v) PROVE OwnInv'
  BY <1>3, PushedOwn DEF Push, Copying, Idle
<1>4. ASSUME NEW a \in Arrays, NEW v \in Values, PushGrowing(a, v) PROVE OwnInv'
  BY <1>4, GrowOwn DEF PushGrowing
<1>5. ASSUME NEW a \in Arrays, Free(a) PROVE OwnInv'
  BY <1>5, FreeOwn
<1>6. CASE CopyElement
  BY <1>6, CopyElementOwn
<1>7. CASE Relocate
  BY <1>7, RelocateOwn
<1>8. CASE PushStored
  BY <1>8, PushedOwn DEF PushStored, Copying
<1>9. ASSUME NEW b \in Buffers, NEW n \in Counts, MallocBuffer(b, n) PROVE OwnInv'
  BY <1>9, MallocBufferOwn
<1>10. ASSUME NEW b \in Buffers, NEW i \in 0 .. MaxSize, NEW v \in Values, StoreBuffer(b, i, v)
       PROVE  OwnInv'
  BY <1>10, StoreBufferOwn
<1>11. ASSUME NEW b \in Buffers, FreeBuffer(b) PROVE OwnInv'
  BY <1>11, FreeBufferOwn
<1>12. CASE UNCHANGED vars
  <2>1. Copying' = Copying /\ Storages' = Storages
    BY <1>12 DEF vars, Copying, Storages
  <2>2. QED
    BY <1>12, <2>1 DEF vars, OwnInv, Shapes, CallShape, FreshApart, BuffersApart, StorageIsOwned
<1>13. QED
  BY <1>1, <1>2, <1>3, <1>4, <1>5, <1>6, <1>7, <1>8, <1>9, <1>10, <1>11, <1>12 DEF Next, Loop

LEMMA OwnInvariance == Spec /\ []Served => []OwnInv
BY OwnInvInit, StepOwn, PTL DEF Spec

(* As long as the heap refuses no array, arrays hold granted storage, and  *)
(* the local of an array is set while the storage in it is.                *)
THEOREM TypeCorrect == Spec /\ []Served => []TypeOK
BY OwnInvariance, OwnInvTyped, PTL

(* As long as the heap serves arrays, every grant has one owner: growing   *)
(* an array leaks nothing and frees nothing that is in use.                *)
THEOREM GrantsHaveOneOwner == Spec /\ []Served => []StorageIsOwned
<1>1. OwnInv => StorageIsOwned
  BY DEF OwnInv
<1>2. QED
  BY <1>1, OwnInvariance, PTL

-----------------------------------------------------------------------------
(* The second layer: what memory holds for the arrays and buffers, when    *)
(* the heap serves arrays and the capacities the program computes fit.     *)

(* The grants of the heap lie in memory, and apart from each other. *)
HeapShape ==
  /\ pages \in Nat
  /\ \A p \in DOMAIN live : live[p] \in Nat /\ p + live[p] <= AddressSpace
  /\ \A p, q \in DOMAIN live : p # q => p + live[p] <= q \/ q + live[q] <= p

HeaderFits(p) ==
  /\ mem[SizeAt(p)] \in Nat /\ mem[CapacityAt(p)] \in Nat
  /\ HeaderSize + mem[CapacityAt(p)] * ElementSize <= live[p]
  /\ mem[SizeAt(p)] <= mem[CapacityAt(p)]

HeadersFit == \A p \in Storages : HeaderFits(p)

(* There is room for what a reserve() or push() under way has to store.    *)
RoomLeft ==
  /\ call.step = "copy" =>
       /\ call.index \in Nat /\ call.size \in Nat
       /\ call.size <= mem[CapacityAt(call.fresh)]
       /\ call.pushed # <<>> => call.size < mem[CapacityAt(call.fresh)]
  /\ call.step = "push" =>
       /\ call.size \in Nat
       /\ call.size < mem[CapacityAt(address[call.array])]

CountsFit ==
  \A b \in DOMAIN buffers :
    /\ buffers[b].count \in Nat
    /\ buffers[b].count * ElementSize <= live[buffers[b].address]

MemInv == OwnInv /\ HeapShape /\ HeadersFit /\ RoomLeft /\ CountsFit

LEMMA MemInvInit == Init => MemInv
<1> SUFFICES ASSUME Init PROVE MemInv
  OBVIOUS
<1>1. OwnInv
  BY OwnInvInit
<1>2. pages \in Nat
  BY ArrayAssumption DEF Init
<1>3. DOMAIN live = {} /\ DOMAIN buffers = {} /\ DOMAIN address = {} /\ call.step = "idle"
  BY DEF Init, Idle
<1>4. HeapShape /\ HeadersFit /\ RoomLeft /\ CountsFit
  BY <1>2, <1>3 DEF HeapShape, HeadersFit, RoomLeft, CountsFit, Storages, Copying
<1>5. QED
  BY <1>1, <1>4 DEF MemInv

-----------------------------------------------------------------------------
(* Helpers *)

LEMMA Products ==
  ASSUME NEW i \in Nat, NEW c \in Nat, NEW e \in Nat, i < c
  PROVE  i * e \in Nat /\ c * e \in Nat /\ i * e + e <= c * e
<1>1. i * e \in Nat /\ c * e \in Nat /\ (i + 1) * e = i * e + e
  OBVIOUS
<1>2. PICK d \in Nat : c = (i + 1) + d
  <2>1. c - (i + 1) \in Nat /\ c = (i + 1) + (c - (i + 1))
    OBVIOUS
  <2>2. QED
    BY <2>1
<1>3. c * e = (i + 1) * e + d * e /\ d * e \in Nat
  BY <1>2
<1>4. QED
  BY <1>1, <1>3

LEMMA StorageFacts ==
  ASSUME MemInv, NEW p \in Storages
  PROVE  /\ p \in DOMAIN live /\ p \in Words /\ p \in Nat /\ live[p] \in Nat
         /\ p + live[p] <= AddressSpace /\ 8 <= live[p]
         /\ p + 4 \in Words /\ SizeAt(p) = p /\ CapacityAt(p) = p + 4
<1>1. p \in DOMAIN live /\ p \in Words /\ p \in Nat /\ p % 4 = 0
  BY DEF MemInv, OwnInv, StorageIsOwned, Shapes, Words, WordSize
<1>2. live[p] \in Nat /\ p + live[p] <= AddressSpace
  BY <1>1 DEF MemInv, HeapShape
<1>3. 8 <= live[p]
  <2> DEFINE c == mem[CapacityAt(p)]
  <2>1. c \in Nat /\ 8 + c * ElementSize <= live[p]
    BY DEF MemInv, HeadersFit, HeaderFits, HeaderSize
  <2>2. c * ElementSize \in Nat
    BY <2>1, ArrayAssumption
  <2> HIDE DEF c
  <2>3. QED
    BY <1>2, <2>1, <2>2
<1>4. p + 4 \in Words
  BY <1>1, <1>2, <1>3, ArrayAssumption DEF Words, WordSize
<1>5. QED
  BY <1>1, <1>2, <1>3, <1>4 DEF SizeAt, CapacityAt, WordSize

(* An element within the capacity lies in the storage, after the header. *)
LEMMA ElementFacts ==
  ASSUME MemInv, NEW p \in Storages, NEW i \in Nat, i < mem[CapacityAt(p)]
  PROVE  /\ ElementAt(p, i) = p + 8 + i * ElementSize /\ ElementAt(p, i) \in Nat
         /\ p + 8 <= ElementAt(p, i) /\ ElementAt(p, i) + ElementSize <= p + live[p]
<1> DEFINE c == mem[CapacityAt(p)]
           x == i * ElementSize
           y == c * ElementSize
<1>1. c \in Nat /\ 8 + y <= live[p]
  BY DEF MemInv, HeadersFit, HeaderFits, HeaderSize
<1>2. x \in Nat /\ y \in Nat /\ x + ElementSize <= y
  BY <1>1, Products, ArrayAssumption
<1>3. p \in Nat /\ live[p] \in Nat /\ p + live[p] <= AddressSpace
  BY StorageFacts
<1>4. ElementAt(p, i) = (p + 8 + x) % AddressSpace
  BY DEF ElementAt, HeaderSize
<1> HIDE DEF c, x, y
<1>5. p + 8 + x \in Nat /\ p + 8 + x < AddressSpace
  BY <1>1, <1>2, <1>3, ArrayAssumption
<1>6. (p + 8 + x) % AddressSpace = p + 8 + x
  BY <1>5, ArrayAssumption
<1>7. QED
  BY <1>1, <1>2, <1>3, <1>4, <1>5, <1>6, ArrayAssumption DEF x

(* Bytes of one grant, after its header if it has one, are no header.     *)
LEMMA ElementsApart ==
  ASSUME MemInv, NEW p \in DOMAIN live, NEW at \in Nat, p <= at, at < p + live[p],
         NEW q \in Storages, p = q => p + 8 <= at
  PROVE  at # q /\ at # q + 4
<1>1. q \in DOMAIN live /\ q \in Nat /\ live[q] \in Nat /\ 8 <= live[q]
  BY StorageFacts
<1>2. p \in Nat /\ live[p] \in Nat
  BY DEF MemInv, OwnInv, Shapes, Words, HeapShape
<1>3. p # q => p + live[p] <= q \/ q + live[q] <= p
  BY <1>1 DEF MemInv, HeapShape
<1>4. QED
  BY <1>1, <1>2, <1>3

(* The capacities the program computes do not wrap. *)
LEMMA ByteCountFacts ==
  ASSUME ~MayWrap, NEW n \in Nat, Fits(n)
  PROVE  ByteCount(n) = n * ElementSize + 8 /\ ByteCount(n) \in Nat
<1> DEFINE x == n * ElementSize
<1>1. x \in Nat /\ x + 8 < AddressSpace
  BY ArrayAssumption DEF Fits, HeaderSize
<1>2. ByteCount(n) = (x + 8) % AddressSpace
  BY DEF ByteCount, HeaderSize
<1> HIDE DEF x
<1>3. (x + 8) % AddressSpace = x + 8
  BY <1>1, ArrayAssumption
<1>4. QED
  BY <1>1, <1>2, <1>3 DEF x

LEMMA CheckedProductFacts ==
  ASSUME NEW n \in Nat, CheckedProduct(n) > 0
  PROVE  CheckedProduct(n) = n * ElementSize /\ CheckedProduct(n) \in Nat
<1> DEFINE x == n * ElementSize
           m == (AddressSpace - 1) \div ElementSize
<1>1. n <= m /\ CheckedProduct(n) = x % AddressSpace
  BY DEF CheckedProduct
<1>2. m \in Int /\ x \in Nat /\ m * ElementSize <= AddressSpace - 1
  BY ArrayAssumption
<1>3. x <= m * ElementSize
  <2>1. PICK d \in Nat : m = n + d
    <3>1. m - n \in Nat /\ m = n + (m - n)
      BY <1>1, <1>2
    <3>2. QED
      BY <3>1
  <2> HIDE DEF m
  <2>2. m * ElementSize = n * ElementSize + d * ElementSize /\ d * ElementSize \in Nat
    BY <2>1, ArrayAssumption
  <2>3. QED
    BY <2>2, <1>2
<1>4. x < AddressSpace
  <2> DEFINE y == m * ElementSize
  <2>1. y \in Int /\ y <= AddressSpace - 1 /\ x <= y
    BY <1>2, <1>3, ArrayAssumption
  <2> HIDE DEF x, y
  <2>2. QED
    BY <1>2, <2>1, ArrayAssumption
<1> HIDE DEF x
<1>5. x % AddressSpace = x
  BY <1>2, <1>4, ArrayAssumption
<1>6. QED
  BY <1>1, <1>2, <1>5 DEF x

LEMMA PagesHold ==
  ASSUME NEW x \in Nat
  PROVE  /\ (x + PageSize - 1) \div PageSize \in Nat
         /\ x <= ((x + PageSize - 1) \div PageSize) * PageSize
BY ArrayAssumption

LEMMA PagesMonotone ==
  ASSUME NEW x \in Nat, NEW y \in Nat, x <= y
  PROVE  x * PageSize <= y * PageSize /\ x * PageSize \in Nat /\ y * PageSize \in Nat
<1>1. x * PageSize \in Nat /\ y * PageSize \in Nat
  BY ArrayAssumption
<1>2. x * PageSize <= y * PageSize
  BY ArrayAssumption
<1>3. QED
  BY <1>1, <1>2

(* A grant lies in memory, apart from the others. *)
LEMMA GrantShape ==
  ASSUME Shapes, HeapShape, NEW n \in Nat, NEW p \in Grants(n), NEW written,
         Granted(p, n, written)
  PROVE  /\ HeapShape' /\ p + n <= pages' * PageSize /\ pages' >= pages
         /\ live'[p] = n /\ \A q \in DOMAIN live : live'[q] = live[q]
<1>1. /\ p \in Words \ DOMAIN live /\ p \in Nat /\ p + n <= AddressSpace
      /\ \A q \in DOMAIN live : p + n <= q \/ q + live[q] <= p
  BY DEF Grants, Words
<1>2. live' = With(live, p, n)
  BY DEF Granted
<1>3. /\ DOMAIN live' = DOMAIN live \cup {p} /\ live'[p] = n
      /\ \A q \in DOMAIN live : live'[q] = live[q]
  BY <1>1, <1>2 DEF With
<1> DEFINE needed == (p + n + PageSize - 1) \div PageSize
<1>4. needed \in Nat /\ p + n <= needed * PageSize
  BY <1>1, PagesHold
<1>5. pages' = IF needed > pages THEN needed ELSE pages
  BY DEF Granted
<1>6. pages \in Nat
  BY DEF HeapShape
<1> HIDE DEF needed
<1>7. pages' \in Nat /\ pages' >= pages /\ needed <= pages'
  BY <1>4, <1>5, <1>6
<1>8. p + n <= pages' * PageSize
  <2>1. needed * PageSize <= pages' * PageSize /\ needed * PageSize \in Nat /\ pages' * PageSize \in Nat
    BY <1>4, <1>7, PagesMonotone
  <2>2. QED
    BY <1>1, <1>4, <2>1
<1>9. \A q \in DOMAIN live' : live'[q] \in Nat /\ q + live'[q] <= AddressSpace
  BY <1>1, <1>3 DEF HeapShape
<1>10. \A q, r \in DOMAIN live' : q # r => q + live'[q] <= r \/ r + live'[r] <= q
  BY <1>1, <1>3 DEF HeapShape
<1>11. QED
  BY <1>3, <1>7, <1>8, <1>9, <1>10 DEF HeapShape

LEMMA FreedShape ==
  ASSUME HeapShape, NEW p, Freed(p)
  PROVE  /\ HeapShape' /\ DOMAIN live' = DOMAIN live \ {p}
         /\ \A q \in DOMAIN live' : live'[q] = live[q]
<1>1. /\ DOMAIN live' = DOMAIN live \ {p} /\ pages' = pages
      /\ \A q \in DOMAIN live' : live'[q] = live[q]
  BY WithoutFacts DEF Freed
<1>2. QED
  BY <1>1 DEF HeapShape

(* What a grant owns keeps its words when it is not wiped. *)
LEMMA WipedFacts ==
  ASSUME MemInv, NEW P \in SUBSET DOMAIN live, NEW q \in Storages \cap P
  PROVE  Wiped(P)[q] = mem[q] /\ Wiped(P)[q + 4] = mem[q + 4]
<1>1. q \in Words /\ q + 4 \in Words /\ q \in Nat /\ live[q] \in Nat /\ 8 <= live[q]
  BY StorageFacts
<1>2. q \in Owned(q) /\ q + 4 \in Owned(q)
  BY <1>1 DEF Owned
<1>3. q \in Kept(P) /\ q + 4 \in Kept(P)
  BY <1>2 DEF Kept
<1>4. QED
  BY <1>1, <1>3 DEF Wiped

(* A header that is written at a new storage leaves the others alone.     *)
LEMMA AllocatedHeader ==
  ASSUME ~MayWrap, MemInv, NEW n \in Nat, Fits(n), NEW size \in Nat, size <= n,
         NEW p \in Answers(n), p # Null, Allocated(p, n, size)
  PROVE  /\ HeapShape' /\ HeaderFits(p)' /\ mem'[CapacityAt(p)] = n
         /\ \A q \in Storages :
              HeaderFits(q)' /\ mem'[CapacityAt(q)] = mem[CapacityAt(q)]
         /\ \A q \in DOMAIN live : live'[q] = live[q]
         /\ p \notin DOMAIN live /\ DOMAIN live' = DOMAIN live \cup {p}
<1>1. /\ p \in Words \ DOMAIN live /\ p # Null /\ p \in Grants(ByteCount(n))
      /\ mem' = Headed(Wiped(DOMAIN live), p, size, n) /\ DOMAIN live' = DOMAIN live \cup {p}
  BY AllocatedFacts DEF MemInv, OwnInv
<1>2. ByteCount(n) = n * ElementSize + 8 /\ ByteCount(n) \in Nat
  BY ByteCountFacts
<1>3. Granted(p, ByteCount(n), Headed(Wiped(DOMAIN live), p, size, n))
  BY <1>1 DEF Allocated
<1>4. /\ HeapShape' /\ live'[p] = ByteCount(n)
      /\ \A q \in DOMAIN live : live'[q] = live[q]
  BY <1>1, <1>2, <1>3, GrantShape DEF MemInv, OwnInv
<1>5. p \in Nat /\ p + 4 \in Words /\ ByteCount(n) >= 8
  <2> DEFINE x == n * ElementSize
  <2>1. x \in Nat
    BY ArrayAssumption
  <2>2. p \in Nat /\ p % 4 = 0
    BY <1>1 DEF Words, WordSize
  <2>3. p + ByteCount(n) <= AddressSpace
    BY <1>1 DEF Grants
  <2> HIDE DEF x
  <2>4. ByteCount(n) = x + 8
    BY <1>2 DEF x
  <2>5. QED
    BY <2>1, <2>2, <2>3, <2>4, ArrayAssumption DEF Words, WordSize
<1>6. mem'[p] = size /\ mem'[p + 4] = n
  BY <1>1, <1>5 DEF Headed, SizeAt, CapacityAt, WordSize, Wiped
<1>7. HeaderFits(p)'
  <2> DEFINE x == n * ElementSize
  <2>1. x \in Nat /\ 8 + x <= live'[p]
    <3>1. x \in Nat
      BY ArrayAssumption
    <3>2. live'[p] = x + 8
      BY <1>2, <1>4
    <3> HIDE DEF x
    <3>3. QED
      BY <3>1, <3>2
  <2>2. QED
    BY <1>6, <2>1 DEF HeaderFits, SizeAt, CapacityAt, WordSize, HeaderSize
<1>8. ASSUME NEW q \in Storages
      PROVE  HeaderFits(q)' /\ mem'[CapacityAt(q)] = mem[CapacityAt(q)]
  <2>1. q \in DOMAIN live /\ q \in Nat /\ live[q] \in Nat /\ 8 <= live[q]
        /\ q \in Words /\ q + 4 \in Words
    BY StorageFacts
  <2>2. p + ByteCount(n) <= q \/ q + live[q] <= p
    BY <1>1, <2>1 DEF Grants
  <2>3. q # p /\ q # p + 4 /\ q + 4 # p /\ q + 4 # p + 4
    BY <1>2, <1>5, <2>1, <2>2
  <2>4. /\ mem'[q] = Wiped(DOMAIN live)[q] /\ mem'[q + 4] = Wiped(DOMAIN live)[q + 4]
    BY <1>1, <1>5, <2>1, <2>3 DEF Headed, SizeAt, CapacityAt, WordSize, Wiped
  <2>5. mem'[q] = mem[q] /\ mem'[q + 4] = mem[q + 4]
    BY <2>1, <2>4, WipedFacts
  <2>6. QED
    BY <1>4, <2>1, <2>5 DEF MemInv, HeadersFit, HeaderFits, SizeAt, CapacityAt, WordSize
<1>9. QED
  BY <1>1, <1>4, <1>6, <1>7, <1>8 DEF CapacityAt, WordSize

-----------------------------------------------------------------------------
(* The steps *)

LEMMA ConstructMem ==
  ASSUME Served', ~MayWrap, MemInv, OwnInv', NEW a \in Arrays, NEW n \in Nat,
         Construct(a, n)
  PROVE  MemInv'
<1>1. PICK p \in Answers(n) :
        p # Null /\ Allocated(p, n, 0) /\ address' = With(address, a, p)
  BY ServedConstruct
<1>2. a \notin DOMAIN address /\ Fits(n) /\ call = Idle /\ UNCHANGED <<buffers, call>>
  BY DEF Construct
<1>3. 0 \in Nat /\ 0 <= n
  OBVIOUS
<1>4. /\ HeapShape' /\ HeaderFits(p)' /\ \A q \in Storages : HeaderFits(q)'
      /\ \A q \in DOMAIN live : live'[q] = live[q]
  BY <1>1, <1>2, <1>3, AllocatedHeader
<1>5. Storages' \subseteq Storages \cup {p}
  BY <1>1, <1>2 DEF Storages, With, Copying, Idle
<1>6. HeadersFit'
  BY <1>4, <1>5 DEF HeadersFit
<1>7. RoomLeft'
  BY <1>2 DEF RoomLeft, Idle
<1>8. CountsFit'
  BY <1>2, <1>4 DEF MemInv, CountsFit, OwnInv, StorageIsOwned
<1>9. QED
  BY <1>4, <1>6, <1>7, <1>8 DEF MemInv

LEMMA GrowMem ==
  ASSUME Served', ~MayWrap, MemInv, OwnInv', NEW a \in DOMAIN address, NEW n \in Nat,
         NEW pushed, call = Idle, NeedsGrowth(a, n), Grow(a, n, pushed),
         pushed # <<>> => n = SizeOf(a) + 1
  PROVE  MemInv'
<1>1. PICK p \in Answers(n) :
        /\ p # Null /\ Allocated(p, n, SizeOf(a))
        /\ call' = [step |-> "copy", array |-> a, fresh |-> p, size |-> SizeOf(a),
                    index |-> 0, pushed |-> pushed]
  BY ServedGrow
<1>2. Fits(n) /\ UNCHANGED <<address, buffers>>
  BY DEF Grow
<1>3. address[a] \in Storages /\ SizeOf(a) \in Nat /\ CapacityOf(a) \in Nat
      /\ SizeOf(a) <= CapacityOf(a)
  BY DEF MemInv, HeadersFit, HeaderFits, Storages, SizeOf, CapacityOf
<1>4. SizeOf(a) < n /\ SizeOf(a) <= n
  BY <1>3 DEF NeedsGrowth
<1>5. /\ HeapShape' /\ HeaderFits(p)' /\ mem'[CapacityAt(p)] = n
      /\ \A q \in Storages : HeaderFits(q)'
      /\ \A q \in DOMAIN live : live'[q] = live[q]
  BY <1>1, <1>2, <1>3, <1>4, AllocatedHeader
<1>6. Storages' \subseteq Storages \cup {p}
  BY <1>1, <1>2 DEF Storages, Copying
<1>7. HeadersFit'
  BY <1>5, <1>6 DEF HeadersFit
<1>8. RoomLeft'
  BY <1>1, <1>3, <1>4, <1>5 DEF RoomLeft
<1>9. CountsFit'
  BY <1>2, <1>5 DEF MemInv, CountsFit, OwnInv, StorageIsOwned
<1>10. QED
  BY <1>5, <1>7, <1>8, <1>9 DEF MemInv

(* A word that is no header may change as it likes. *)
LEMMA WriteMem ==
  ASSUME MemInv, OwnInv', UNCHANGED <<pages, live, address, buffers>>, NEW at, NEW v,
         mem' = [mem EXCEPT ![at] = v], \A q \in Storages : at # q /\ at # q + 4,
         Storages' = Storages
  PROVE  /\ HeapShape' /\ HeadersFit' /\ CountsFit'
         /\ \A q \in Storages : mem'[CapacityAt(q)] = mem[CapacityAt(q)]
<1>1. HeapShape' /\ CountsFit'
  BY DEF MemInv, HeapShape, CountsFit
<1>2. ASSUME NEW q \in Storages PROVE mem'[q] = mem[q] /\ mem'[q + 4] = mem[q + 4]
  <2>1. q \in DOMAIN mem /\ q + 4 \in DOMAIN mem
    BY StorageFacts DEF MemInv, OwnInv, Shapes
  <2>2. QED
    BY <2>1
<1>3. HeadersFit'
  BY <1>2 DEF MemInv, HeadersFit, HeaderFits, SizeAt, CapacityAt, WordSize
<1>4. QED
  BY <1>1, <1>2, <1>3 DEF CapacityAt, WordSize

LEMMA CopyElementMem == ASSUME MemInv, OwnInv', CopyElement PROVE MemInv'
<1> DEFINE p  == call.fresh
           at == ElementAt(p, call.index)
<1>1. /\ call.step = "copy" /\ call.array \in DOMAIN address /\ p \in Storages
      /\ DOMAIN call = {"step", "array", "fresh", "size", "index", "pushed"}
  BY DEF CopyElement, Copying, MemInv, OwnInv, CallShape, Idle, Storages
<1>2. /\ call.index \in Nat /\ call.size \in Nat /\ call.index < call.size
      /\ call.size <= mem[CapacityAt(p)] /\ mem[CapacityAt(p)] \in Nat
      /\ call.pushed # <<>> => call.size < mem[CapacityAt(p)]
  BY <1>1 DEF CopyElement, MemInv, RoomLeft, HeadersFit, HeaderFits
<1>3. /\ at \in Nat /\ p + 8 <= at /\ at + ElementSize <= p + live[p]
      /\ p \in DOMAIN live /\ p \in Nat /\ live[p] \in Nat
  BY <1>1, <1>2, ElementFacts, StorageFacts
<1>4. \A q \in Storages : at # q /\ at # q + 4
  BY <1>1, <1>3, ElementsApart, ArrayAssumption
<1>5. /\ UNCHANGED <<pages, live, address, buffers>>
      /\ mem' = [mem EXCEPT ![at] = mem[ElementAt(address[call.array], call.index)]]
      /\ call' = [call EXCEPT !.index = @ + 1]
  BY DEF CopyElement
<1>6. Storages' = Storages /\ call'.fresh = p
  BY <1>1, <1>5 DEF Storages, Copying
<1>7. /\ HeapShape' /\ HeadersFit' /\ CountsFit'
      /\ \A q \in Storages : mem'[CapacityAt(q)] = mem[CapacityAt(q)]
  BY <1>4, <1>5, <1>6, WriteMem
<1>8. RoomLeft'
  BY <1>1, <1>2, <1>5, <1>6, <1>7 DEF RoomLeft
<1>9. QED
  BY <1>7, <1>8 DEF MemInv

(* The element goes behind the header, whose size then counts it. *)
LEMMA PushedMem ==
  ASSUME MemInv, OwnInv', NEW a \in DOMAIN address, NEW i \in Nat, NEW v,
         i < CapacityOf(a), Pushed(a, i, v), call' = call \/ call' = Idle, ~Copying,
         call.step # "push" \/ call' = Idle
  PROVE  MemInv'
<1> DEFINE p  == address[a]
           at == ElementAt(p, i)
<1>1. p \in Storages /\ i < mem[CapacityAt(p)]
  BY DEF Storages, CapacityOf
<1>2. /\ at \in Nat /\ p + 8 <= at /\ at + ElementSize <= p + live[p]
      /\ p \in DOMAIN live /\ p \in Nat /\ live[p] \in Nat
      /\ p \in DOMAIN mem /\ p + 4 \in DOMAIN mem
  BY <1>1, ElementFacts, StorageFacts DEF MemInv, OwnInv, Shapes
<1>3. \A q \in Storages : at # q /\ at # q + 4
  BY <1>1, <1>2, ElementsApart, ArrayAssumption
<1>4. /\ UNCHANGED <<pages, live, address, buffers>>
      /\ mem' = [mem EXCEPT ![at] = v, ![p] = i + 1]
  BY DEF Pushed, SizeAt
<1>5. mem'[p] = i + 1 /\ mem'[p + 4] = mem[p + 4]
  BY <1>1, <1>2, <1>3, <1>4
<1>6. ASSUME NEW q \in Storages, q # p PROVE mem'[q] = mem[q] /\ mem'[q + 4] = mem[q + 4]
  <2>1. /\ q \in DOMAIN live /\ q \in Nat /\ live[q] \in Nat /\ 8 <= live[q] /\ 8 <= live[p]
        /\ q \in DOMAIN mem /\ q + 4 \in DOMAIN mem
    BY <1>1, StorageFacts DEF MemInv, OwnInv, Shapes
  <2>2. p + live[p] <= q \/ q + live[q] <= p
    BY <1>2, <1>6, <2>1 DEF MemInv, HeapShape
  <2>3. q # p /\ q + 4 # p
    BY <1>2, <2>1, <2>2
  <2>4. QED
    BY <1>3, <1>4, <2>1, <2>3
<1>7. Storages' = Storages
  BY <1>4 DEF Storages, Copying, Idle
<1>8. HeadersFit'
  <2>1. ASSUME NEW q \in Storages PROVE HeaderFits(q)'
    <3>1. HeaderFits(q)
      BY DEF MemInv, HeadersFit
    <3>2. CASE q = p
      BY <1>1, <1>4, <1>5, <3>1, <3>2
         DEF HeaderFits, SizeAt, CapacityAt, WordSize
    <3>3. CASE q # p
      BY <1>4, <1>6, <3>1, <3>3 DEF HeaderFits, SizeAt, CapacityAt, WordSize
    <3>4. QED
      BY <3>2, <3>3
  <2>2. QED
    BY <1>7, <2>1 DEF HeadersFit
<1>9. HeapShape' /\ CountsFit'
  BY <1>4 DEF MemInv, HeapShape, CountsFit
<1>10. RoomLeft'
  BY DEF RoomLeft, Copying, Idle
<1>11. QED
  BY <1>8, <1>9, <1>10 DEF MemInv

(* What is freed is wiped, and nothing else. *)
LEMMA FreedMem ==
  ASSUME MemInv, NEW p, Freed(p)
  PROVE  /\ HeapShape'
         /\ \A q \in Storages : q # p =>
              HeaderFits(q)' /\ mem'[CapacityAt(q)] = mem[CapacityAt(q)]
         /\ \A q \in DOMAIN live : q # p => live'[q] = live[q]
<1>1. HeapShape' /\ \A q \in DOMAIN live : q # p => live'[q] = live[q]
  BY FreedShape DEF MemInv
<1>2. ASSUME NEW q \in Storages, q # p
      PROVE  HeaderFits(q)' /\ mem'[CapacityAt(q)] = mem[CapacityAt(q)]
  <2>1. q \in DOMAIN live
    BY StorageFacts
  <2>2. mem'[q] = mem[q] /\ mem'[q + 4] = mem[q + 4]
    BY <1>2, <2>1, WipedFacts DEF Freed
  <2>3. live'[q] = live[q]
    BY <1>1, <1>2, <2>1
  <2>4. HeaderFits(q)
    BY DEF MemInv, HeadersFit
  <2>5. QED
    BY <2>2, <2>3, <2>4 DEF HeaderFits, SizeAt, CapacityAt, WordSize
<1>3. QED
  BY <1>1, <1>2

(* The fresh storage has the room the old one lacked. *)
LEMMA RelocateMem == ASSUME MemInv, OwnInv', Relocate PROVE MemInv'
<1> DEFINE a   == call.array
           p   == call.fresh
           old == address[call.array]
<1>1. /\ call.step = "copy" /\ a \in DOMAIN address
      /\ DOMAIN call = {"step", "array", "fresh", "size", "index", "pushed"}
  BY DEF Relocate, Copying, MemInv, OwnInv, CallShape, Idle
<1>2. old \in DOMAIN live /\ old # Null /\ p \in Storages /\ p # old
  BY <1>1 DEF MemInv, OwnInv, Shapes, StorageIsOwned, Storages, FreshApart, Copying
<1>3. Freed(old) /\ UNCHANGED buffers /\ Returns
      /\ address' = [address EXCEPT ![a] = p]
  BY <1>2 DEF Relocate
<1>4. /\ HeapShape'
      /\ \A q \in Storages : q # old =>
           HeaderFits(q)' /\ mem'[CapacityAt(q)] = mem[CapacityAt(q)]
      /\ \A q \in DOMAIN live : q # old => live'[q] = live[q]
  BY <1>3, FreedMem
<1>5. call' = Idle \/ call' = [call EXCEPT !.step = "push"]
  BY <1>3 DEF Returns
<1>6. call'.step # "copy"
  BY <1>1, <1>5 DEF Idle
<1>7. Storages' \subseteq Storages \ {old}
  <2>1. \A c \in DOMAIN address' : address'[c] \in Storages \ {old}
    BY <1>1, <1>2, <1>3 DEF Storages, MemInv, OwnInv, StorageIsOwned
  <2>2. Storages' = {address'[c] : c \in DOMAIN address'}
    BY <1>6 DEF Storages, Copying
  <2>3. QED
    BY <2>1, <2>2
<1>8. HeadersFit'
  BY <1>4, <1>7 DEF HeadersFit
<1>9. CountsFit'
  BY <1>1, <1>3, <1>4 DEF MemInv, CountsFit, OwnInv, StorageIsOwned
<1>10. RoomLeft'
  <2>1. CASE call' = Idle
    BY <2>1 DEF RoomLeft, Idle
  <2>2. CASE call' # Idle
    <3>1. call.pushed # <<>> /\ call' = [call EXCEPT !.step = "push"]
      BY <1>3, <2>2 DEF Returns
    <3>2. call.size \in Nat /\ call.size < mem[CapacityAt(p)]
      BY <1>1, <3>1 DEF MemInv, RoomLeft
    <3>3. mem'[CapacityAt(p)] = mem[CapacityAt(p)]
      BY <1>2, <1>4
    <3>4. call'.size = call.size /\ call'.array = a /\ address'[a] = p
      BY <1>1, <1>3, <3>1
    <3>5. QED
      BY <1>6, <3>2, <3>3, <3>4 DEF RoomLeft
  <2>3. QED
    BY <2>1, <2>2
<1>11. QED
  BY <1>4, <1>8, <1>9, <1>10 DEF MemInv

LEMMA FreeMem == ASSUME MemInv, OwnInv', NEW a, Free(a) PROVE MemInv'
<1>1. a \in DOMAIN address /\ call = Idle /\ UNCHANGED <<buffers, call>>
      /\ address' = Without(address, a)
  BY DEF Free
<1>2. address[a] \in DOMAIN live /\ address[a] # Null
  BY <1>1 DEF MemInv, OwnInv, Shapes, StorageIsOwned, Storages
<1>3. Freed(address[a])
  BY <1>2 DEF Free
<1>4. /\ HeapShape' /\ \A q \in Storages : q # address[a] => HeaderFits(q)'
      /\ \A q \in DOMAIN live : q # address[a] => live'[q] = live[q]
  BY <1>3, FreedMem
<1>5. Storages' \subseteq Storages \ {address[a]}
  <2>1. /\ DOMAIN address' = DOMAIN address \ {a}
        /\ \A c \in DOMAIN address \ {a} : address'[c] = address[c]
    BY <1>1, WithoutFacts
  <2>2. \A c \in DOMAIN address \ {a} : address[c] # address[a]
    BY <1>1 DEF MemInv, OwnInv, StorageIsOwned
  <2>3. /\ Storages = {address[c] : c \in DOMAIN address}
        /\ Storages' = {address'[c] : c \in DOMAIN address'}
    BY <1>1 DEF Storages, Copying, Idle
  <2>4. QED
    BY <2>1, <2>2, <2>3
<1>6. HeadersFit'
  BY <1>4, <1>5 DEF HeadersFit
<1>7. CountsFit'
  BY <1>1, <1>4 DEF MemInv, CountsFit, OwnInv, StorageIsOwned
<1>8. RoomLeft'
  BY <1>1 DEF RoomLeft, Idle
<1>9. QED
  BY <1>4, <1>6, <1>7, <1>8 DEF MemInv

LEMMA MallocBufferMem ==
  ASSUME MemInv, OwnInv', NEW b \in Buffers, NEW n \in Nat, MallocBuffer(b, n)
  PROVE  MemInv'
<1> DEFINE m == CheckedProduct(n)
<1>1. PICK p \in Grants(m) :
        /\ Granted(p, m, Wiped(DOMAIN live))
        /\ buffers' = With(buffers, b, [address |-> p, count |-> n])
  BY DEF MallocBuffer
<1>2. b \notin DOMAIN buffers /\ call = Idle /\ UNCHANGED <<address, call>>
  BY DEF MallocBuffer
<1>3. m > 0
  BY <1>1 DEF Grants
<1>4. m = n * ElementSize /\ m \in Nat
  BY <1>3, CheckedProductFacts
<1>5. p \notin DOMAIN live /\ mem' = Wiped(DOMAIN live)
  BY <1>1 DEF Grants, Granted
<1>6. HeapShape' /\ live'[p] = m /\ \A q \in DOMAIN live : live'[q] = live[q]
  BY <1>1, <1>4, GrantShape DEF MemInv, OwnInv
<1>7. Storages' = Storages
  BY <1>2 DEF Storages, Copying
<1>8. HeadersFit'
  <2>1. ASSUME NEW q \in Storages PROVE HeaderFits(q)'
    <3>1. q \in DOMAIN live /\ HeaderFits(q)
      BY StorageFacts DEF MemInv, HeadersFit
    <3>2. mem'[q] = mem[q] /\ mem'[q + 4] = mem[q + 4]
      BY <1>5, <3>1, WipedFacts
    <3>3. QED
      BY <1>6, <3>1, <3>2 DEF HeaderFits, SizeAt, CapacityAt, WordSize
  <2>2. QED
    BY <1>7, <2>1 DEF HeadersFit
<1>9. CountsFit'
  <2>1. /\ DOMAIN buffers' = DOMAIN buffers \cup {b}
        /\ buffers'[b] = [address |-> p, count |-> n]
        /\ \A c \in DOMAIN buffers : buffers'[c] = buffers[c]
    BY <1>1, <1>2 DEF With
  <2>2. ASSUME NEW c \in DOMAIN buffers
        PROVE  /\ buffers'[c].count \in Nat
               /\ buffers'[c].count * ElementSize <= live'[buffers'[c].address]
    BY <1>6, <2>1 DEF MemInv, CountsFit, OwnInv, StorageIsOwned
  <2>3. /\ buffers'[b].count \in Nat
        /\ buffers'[b].count * ElementSize <= live'[buffers'[b].address]
    BY <1>4, <1>6, <2>1
  <2>4. QED
    BY <2>1, <2>2, <2>3 DEF CountsFit
<1>10. RoomLeft'
  BY <1>2 DEF RoomLeft, Idle
<1>11. QED
  BY <1>6, <1>8, <1>9, <1>10 DEF MemInv

LEMMA BufferElementFacts ==
  ASSUME MemInv, NEW b \in DOMAIN buffers, NEW i \in Nat, i < buffers[b].count
  PROVE  LET p  == buffers[b].address
             at == (p + i * ElementSize) % AddressSpace
         IN  /\ p \in DOMAIN live /\ p \notin Storages
             /\ at \in Nat /\ p <= at /\ at < p + live[p]
<1> DEFINE p == buffers[b].address
           c == buffers[b].count
           x == i * ElementSize
           y == c * ElementSize
<1>1. c \in Nat /\ y <= live[p]
  BY DEF MemInv, CountsFit
<1>2. x \in Nat /\ y \in Nat /\ x + ElementSize <= y
  BY <1>1, Products, ArrayAssumption
<1>3. p \in DOMAIN live
  BY DEF MemInv, OwnInv, StorageIsOwned
<1>4. p \notin Storages
  BY DEF MemInv, OwnInv, StorageIsOwned, Storages, FreshApart
<1>5. p \in Nat /\ live[p] \in Nat /\ p + live[p] <= AddressSpace
  BY <1>3 DEF MemInv, OwnInv, Shapes, Words, HeapShape
<1> HIDE DEF c, x, y, p
<1>6. p + x \in Nat /\ p + x < AddressSpace /\ p + x < p + live[p]
  BY <1>1, <1>2, <1>5, ArrayAssumption
<1>7. (p + x) % AddressSpace = p + x
  BY <1>6, ArrayAssumption
<1>8. QED
  BY <1>2, <1>3, <1>4, <1>5, <1>6, <1>7 DEF p, x

LEMMA StoreBufferMem ==
  ASSUME MemInv, OwnInv', NEW b, NEW i \in Nat, NEW v, StoreBuffer(b, i, v)
  PROVE  MemInv'
<1> DEFINE p  == buffers[b].address
           at == (p + i * ElementSize) % AddressSpace
<1>1. b \in DOMAIN buffers /\ i < buffers[b].count /\ call = Idle
      /\ UNCHANGED <<pages, live, address, buffers, call>> /\ mem' = [mem EXCEPT ![at] = v]
  BY DEF StoreBuffer
<1>2. /\ p \in DOMAIN live /\ p \notin Storages
      /\ at \in Nat /\ p <= at /\ at < p + live[p]
  BY <1>1, BufferElementFacts
<1>3. \A q \in Storages : at # q /\ at # q + 4
  BY <1>2, ElementsApart
<1>4. Storages' = Storages
  BY <1>1 DEF Storages, Copying
<1>5. HeapShape' /\ HeadersFit' /\ CountsFit'
  BY <1>1, <1>3, <1>4, WriteMem
<1>6. RoomLeft'
  BY <1>1 DEF RoomLeft, Idle
<1>7. QED
  BY <1>5, <1>6 DEF MemInv

LEMMA FreeBufferMem == ASSUME MemInv, OwnInv', NEW b, FreeBuffer(b) PROVE MemInv'
<1> DEFINE p == buffers[b].address
<1>1. b \in DOMAIN buffers /\ call = Idle /\ UNCHANGED <<address, call>>
      /\ Freed(p) /\ buffers' = Without(buffers, b)
  BY DEF FreeBuffer
<1>2. p \notin Storages
  BY <1>1 DEF MemInv, OwnInv, StorageIsOwned, Storages, FreshApart
<1>3. /\ HeapShape' /\ \A q \in Storages : q # p => HeaderFits(q)'
      /\ \A q \in DOMAIN live : q # p => live'[q] = live[q]
  BY <1>1, FreedMem
<1>4. Storages' = Storages
  BY <1>1 DEF Storages, Copying
<1>5. HeadersFit'
  BY <1>2, <1>3, <1>4 DEF HeadersFit
<1>6. CountsFit'
  <2>1. /\ DOMAIN buffers' = DOMAIN buffers \ {b}
        /\ \A c \in DOMAIN buffers \ {b} : buffers'[c] = buffers[c]
    BY <1>1, WithoutFacts
  <2>2. QED
    BY <1>1, <1>3, <2>1 DEF MemInv, CountsFit, OwnInv, StorageIsOwned, BuffersApart
<1>7. RoomLeft'
  BY <1>1 DEF RoomLeft, Idle
<1>8. QED
  BY <1>3, <1>5, <1>6, <1>7 DEF MemInv

LEMMA StepMem == Served' /\ ~MayWrap /\ MemInv /\ [Next]_vars => MemInv'
<1> SUFFICES ASSUME Served', ~MayWrap, MemInv, [Next]_vars PROVE MemInv'
  OBVIOUS
<1>1. OwnInv'
  BY StepOwn DEF MemInv
<1>2. \A n \in Counts : n \in Nat
  BY ArrayAssumption
<1>3. ASSUME NEW a \in DOMAIN address
      PROVE  /\ SizeOf(a) \in Nat /\ CapacityOf(a) \in Nat /\ SizeOf(a) + 1 \in Nat
             /\ ~NeedsGrowth(a, SizeOf(a) + 1) => SizeOf(a) < CapacityOf(a)
  BY DEF MemInv, HeadersFit, HeaderFits, Storages, SizeOf, CapacityOf, NeedsGrowth
<1>4. ASSUME NEW a \in Arrays, NEW n \in Counts, Construct(a, n) PROVE MemInv'
  BY <1>1, <1>2, <1>4, ConstructMem
<1>5. ASSUME NEW a \in Arrays, NEW n \in Counts, Reserve(a, n) PROVE MemInv'
  BY <1>1, <1>2, <1>5, GrowMem DEF Reserve
<1>6. ASSUME NEW a \in Arrays, NEW v \in Values, Push(a, v) PROVE MemInv'
  BY <1>1, <1>3, <1>6, PushedMem DEF Push, Copying, Idle
<1>7. ASSUME NEW a \in Arrays, NEW v \in Values, PushGrowing(a, v) PROVE MemInv'
  BY <1>1, <1>3, <1>7, GrowMem DEF PushGrowing
<1>8. ASSUME NEW a \in Arrays, Free(a) PROVE MemInv'
  BY <1>1, <1>8, FreeMem
<1>9. CASE CopyElement
  BY <1>1, <1>9, CopyElementMem
<1>10. CASE Relocate
  BY <1>1, <1>10, RelocateMem
<1>11. CASE PushStored
  <2>1. /\ call.array \in DOMAIN address /\ call.step = "push" /\ call.size \in Nat
        /\ call.size < CapacityOf(call.array)
    BY <1>11 DEF PushStored, MemInv, OwnInv, CallShape, Idle, RoomLeft, CapacityOf
  <2>2. QED
    BY <1>1, <1>11, <2>1, PushedMem DEF PushStored, Copying
<1>12. ASSUME NEW b \in Buffers, NEW n \in Counts, MallocBuffer(b, n) PROVE MemInv'
  BY <1>1, <1>2, <1>12, MallocBufferMem
<1>13. ASSUME NEW b \in Buffers, NEW i \in 0 .. MaxSize, NEW v \in Values, StoreBuffer(b, i, v)
       PROVE  MemInv'
  <2>1. i \in Nat
    BY ArrayAssumption
  <2>2. QED
    BY <1>1, <1>13, <2>1, StoreBufferMem
<1>14. ASSUME NEW b \in Buffers, FreeBuffer(b) PROVE MemInv'
  BY <1>1, <1>14, FreeBufferMem
<1>15. CASE UNCHANGED vars
  <2>1. Storages' = Storages
    BY <1>15 DEF vars, Storages, Copying
  <2>2. HeapShape' /\ RoomLeft' /\ CountsFit'
    BY <1>15 DEF vars, MemInv, HeapShape, RoomLeft, CountsFit
  <2>3. HeadersFit'
    BY <1>15, <2>1 DEF vars, MemInv, HeadersFit, HeaderFits
  <2>4. QED
    BY <1>1, <2>2, <2>3 DEF MemInv
<1>16. QED
  BY <1>4, <1>5, <1>6, <1>7, <1>8, <1>9, <1>10, <1>11, <1>12, <1>13, <1>14, <1>15 DEF Next, Loop

LEMMA MemInvariance == ASSUME ~MayWrap PROVE Spec /\ []Served => []MemInv
BY MemInvInit, StepMem, PTL DEF Spec

(* As long as capacities fit and the heap serves arrays, an array has the  *)
(* bytes its capacity speaks of and no more elements than that, also the   *)
(* storage a reserve() is filling.                                         *)
THEOREM CapacitiesAreBacked ==
  ASSUME ~MayWrap PROVE Spec /\ []Served => []CapacityBacked
<1>1. MemInv => CapacityBacked
  BY StorageFacts DEF MemInv, HeadersFit, HeaderFits, CapacityBacked
<1>2. QED
  BY <1>1, MemInvariance, PTL

(* A buffer holds the elements that were asked for, whatever the count: a  *)
(* product that wraps was not granted.                                     *)
THEOREM BuffersAreBacked ==
  ASSUME ~MayWrap PROVE Spec /\ []Served => []BuffersHoldTheirCount
<1>1. MemInv => BuffersHoldTheirCount
  BY DEF MemInv, CountsFit, BuffersHoldTheirCount
<1>2. QED
  BY <1>1, MemInvariance, PTL

-----------------------------------------------------------------------------
(* The contract of the heap *)

LEMMA KeptMeans ==
  ASSUME NEW P, \A a \in Kept(P) : mem'[a] = mem[a]
  PROVE  Heap!Keeps(P)
BY DEF Kept, Owned, Heap!Keeps, Heap!PayloadWords, Heap!Words, Words, WordSize

LEMMA GrantIsMalloc ==
  ASSUME MemInv, NEW n \in Nat, n \in Requests, NEW p \in Grants(n), NEW written,
         Granted(p, n, written), \A a \in Kept(DOMAIN live) : written[a] = mem[a]
  PROVE  Heap!Next
<1>1. p + n <= pages' * PageSize /\ pages' >= pages
  BY GrantShape DEF MemInv, OwnInv
<1>2. /\ p \in Words \ DOMAIN live /\ p > HeapStart
      /\ p % 8 = (HeapStart + 4) % 8
      /\ \A q \in DOMAIN live : p + n <= q \/ q + live[q] <= p
  BY DEF Grants, WordSize
<1>3. live' = [q \in DOMAIN live \cup {p} |-> IF q = p THEN n ELSE live[q]]
  BY DEF Granted, With
<1>4. Heap!Keeps(DOMAIN live)
  BY KeptMeans DEF Granted
<1>5. p \in Heap!Words \ DOMAIN live
  BY <1>2 DEF Words, WordSize, Heap!Words
<1>6. Heap!Malloc(n)
  BY <1>1, <1>2, <1>3, <1>4, <1>5 DEF Heap!Malloc, Heap!Disjoint
<1>7. QED
  BY <1>6 DEF Heap!Next

(* The header of an array is written to the bytes that were granted. *)
LEMMA AllocatedKeeps ==
  ASSUME ~MayWrap, MemInv, NEW n \in Nat, Fits(n), NEW size,
         NEW p \in Answers(n), p # Null, Allocated(p, n, size)
  PROVE  \A a \in Kept(DOMAIN live) : Headed(Wiped(DOMAIN live), p, size, n)[a] = mem[a]
<1>1. p \in Words /\ p \in Grants(ByteCount(n))
  BY AllocatedFacts DEF MemInv, OwnInv
<1>2. ByteCount(n) = n * ElementSize + 8 /\ ByteCount(n) \in Nat /\ n * ElementSize \in Nat
  BY ByteCountFacts, ArrayAssumption
<1>3. /\ p > HeapStart /\ p \in Nat /\ HeapStart \in Nat
      /\ \A q \in DOMAIN live : p + ByteCount(n) <= q \/ q + live[q] <= p
  BY <1>1, ArrayAssumption DEF Grants, Words
<1>4. ByteCount(n) >= 8
  <2> DEFINE x == n * ElementSize
  <2>1. x \in Nat /\ ByteCount(n) = x + 8
    BY <1>2
  <2> HIDE DEF x
  <2>2. QED
    BY <2>1
<1>5. ASSUME NEW a \in Kept(DOMAIN live) PROVE a # p /\ a # p + 4
  <2>1. CASE a \in Words /\ a < HeapStart
    BY <1>3, <2>1 DEF Words
  <2>2. CASE \E q \in DOMAIN live : a \in Owned(q)
    <3>1. PICK q \in DOMAIN live : a \in Owned(q)
      BY <2>2
    <3>2. a \in Nat /\ q \in Nat /\ live[q] \in Nat /\ q <= a /\ a < q + live[q]
      BY <3>1 DEF Owned, Words, MemInv, OwnInv, Shapes, HeapShape
    <3>3. p + ByteCount(n) <= q \/ q + live[q] <= p
      BY <1>3
    <3>4. QED
      BY <1>2, <1>3, <1>4, <3>2, <3>3
  <2>3. QED
    BY <1>5, <2>1, <2>2 DEF Kept
<1>6. QED
  BY <1>5 DEF Headed, Wiped, SizeAt, CapacityAt, WordSize, Kept, Owned

LEMMA AllocatedIsMalloc ==
  ASSUME ~MayWrap, MemInv, NEW n \in Counts \cup 0 .. MaxSize, Fits(n),
         NEW size, NEW p \in Answers(n), p # Null, Allocated(p, n, size)
  PROVE  Heap!Next
<1>1. p # Null /\ p \in Grants(ByteCount(n))
  BY AllocatedFacts DEF MemInv, OwnInv
<1>2. n \in Nat
  BY ArrayAssumption
<1>3. ByteCount(n) \in Nat /\ ByteCount(n) \in Requests
  BY <1>2, ByteCountFacts DEF Requests
<1>4. Granted(p, ByteCount(n), Headed(Wiped(DOMAIN live), p, size, n))
  BY <1>1 DEF Allocated
<1>5. QED
  BY <1>1, <1>2, <1>3, <1>4, AllocatedKeeps, GrantIsMalloc

LEMMA FreedIsMFree ==
  ASSUME NEW p \in DOMAIN live, Freed(p) PROVE Heap!Next
<1>1. live' = [q \in DOMAIN live \ {p} |-> live[q]] /\ pages' = pages
  BY DEF Freed, Without
<1>2. \A a \in Kept(DOMAIN live \ {p}) : mem'[a] = mem[a]
  BY DEF Freed, Wiped, Kept, Owned
<1>3. Heap!MFree(p)
  BY <1>1, <1>2, KeptMeans DEF Heap!MFree
<1>4. QED
  BY <1>3 DEF Heap!Next

LEMMA WriteIsStore ==
  ASSUME NEW p \in DOMAIN live, UNCHANGED <<pages, live>>,
         \A a \in Words : mem'[a] = mem[a] \/ (p <= a /\ a < p + live[p])
  PROVE  Heap!Next
<1>1. Heap!Store(p)
  BY DEF Heap!Store, Heap!PayloadWords, Heap!Words, Words, WordSize
<1>2. QED
  BY <1>1 DEF Heap!Next

LEMMA PushedIsStore ==
  ASSUME MemInv, NEW a \in DOMAIN address, NEW i \in Nat, NEW v,
         i < CapacityOf(a), Pushed(a, i, v)
  PROVE  Heap!Next
<1> DEFINE p  == address[a]
           at == ElementAt(p, i)
<1>1. p \in Storages /\ i < mem[CapacityAt(p)]
  BY DEF Storages, CapacityOf
<1>2. /\ at \in Nat /\ p + 8 <= at /\ at + ElementSize <= p + live[p]
      /\ p \in DOMAIN live /\ p \in Nat /\ live[p] \in Nat /\ 8 <= live[p]
  BY <1>1, ElementFacts, StorageFacts
<1>3. p <= at /\ at < p + live[p] /\ p < p + live[p]
  BY <1>2, ArrayAssumption
<1>4. UNCHANGED <<pages, live>> /\ mem' = [mem EXCEPT ![at] = v, ![p] = i + 1]
  BY DEF Pushed, SizeAt
<1>5. \A w \in Words : mem'[w] = mem[w] \/ (p <= w /\ w < p + live[p])
  BY <1>2, <1>3, <1>4 DEF MemInv, OwnInv, Shapes
<1>6. QED
  BY <1>2, <1>4, <1>5, WriteIsStore

(* To the heap, a program of arrays and buffers is a caller that keeps to  *)
(* the contract: it asks, frees what it holds once, and writes into what   *)
(* it holds.                                                               *)
THEOREM HeapIsRespected == ASSUME ~MayWrap PROVE Spec /\ []Served => HeapRespected
<1>1. Init => Heap!Init
  BY DEF Init, Heap!Init
<1>2. ASSUME Served', MemInv, [Next]_vars PROVE [Heap!Next]_(Heap!vars)
  <2>1. ASSUME NEW a \in DOMAIN address
        PROVE  /\ SizeOf(a) \in Nat /\ CapacityOf(a) \in Nat /\ SizeOf(a) + 1 \in Nat
               /\ ~NeedsGrowth(a, SizeOf(a) + 1) => SizeOf(a) < CapacityOf(a)
    BY <1>2 DEF MemInv, HeadersFit, HeaderFits, Storages, SizeOf, CapacityOf, NeedsGrowth
  <2>2. \A a \in DOMAIN address : address[a] \in DOMAIN live /\ address[a] # Null
    BY <1>2 DEF MemInv, OwnInv, Shapes, StorageIsOwned, Storages
  <2>3. \A b \in DOMAIN buffers : buffers[b].address \in DOMAIN live
    BY <1>2 DEF MemInv, OwnInv, StorageIsOwned
  <2>4. ASSUME NEW a \in Arrays, NEW n \in Counts, Construct(a, n) PROVE Heap!Next
    BY <1>2, <2>4, AllocatedIsMalloc, ServedConstruct DEF Construct
  <2>5. ASSUME NEW a \in Arrays, NEW n \in Counts, Reserve(a, n) PROVE Heap!Next
    BY <1>2, <2>5, AllocatedIsMalloc, ServedGrow DEF Reserve, Grow
  <2>6. ASSUME NEW a \in Arrays, NEW v \in Values, PushGrowing(a, v) PROVE Heap!Next
    <3>1. a \in DOMAIN address /\ SizeOf(a) < MaxSize /\ Grow(a, SizeOf(a) + 1, <<v>>)
      BY <2>6 DEF PushGrowing
    <3>2. SizeOf(a) + 1 \in Counts \cup 0 .. MaxSize
      BY <2>1, <3>1, ArrayAssumption
    <3>3. QED
      BY <1>2, <3>1, <3>2, AllocatedIsMalloc, ServedGrow DEF Grow
  <2>7. ASSUME NEW a \in Arrays, NEW v \in Values, Push(a, v) PROVE Heap!Next
    BY <1>2, <2>1, <2>7, PushedIsStore DEF Push
  <2>8. ASSUME NEW a \in Arrays, Free(a) PROVE Heap!Next
    BY <2>2, <2>8, FreedIsMFree DEF Free
  <2>9. CASE CopyElement
    <3> DEFINE p  == call.fresh
               at == ElementAt(p, call.index)
    <3>1. p \in Storages /\ call.index \in Nat /\ call.index < mem[CapacityAt(p)]
      BY <1>2, <2>9 DEF CopyElement, Copying, Storages, MemInv, RoomLeft, HeadersFit, HeaderFits
    <3>2. /\ at \in Nat /\ p + 8 <= at /\ at + ElementSize <= p + live[p]
          /\ p \in DOMAIN live /\ p \in Nat /\ live[p] \in Nat
      BY <1>2, <3>1, ElementFacts, StorageFacts
    <3>3. p <= at /\ at < p + live[p]
      BY <3>2, ArrayAssumption
    <3>4. \A w \in Words : mem'[w] = mem[w] \/ (p <= w /\ w < p + live[p])
      BY <1>2, <2>9, <3>3 DEF CopyElement, MemInv, OwnInv, Shapes
    <3>5. QED
      BY <2>9, <3>2, <3>4, WriteIsStore DEF CopyElement
  <2>10. CASE Relocate
    <3>1. address[call.array] \in DOMAIN live /\ address[call.array] # Null
      BY <1>2, <2>2, <2>10 DEF Relocate, Copying, MemInv, OwnInv, CallShape, Idle
    <3>2. QED
      BY <2>10, <3>1, FreedIsMFree DEF Relocate
  <2>11. CASE PushStored
    <3>1. /\ call.array \in DOMAIN address /\ call.size \in Nat
          /\ call.size < CapacityOf(call.array)
      BY <1>2, <2>11 DEF PushStored, MemInv, OwnInv, CallShape, Idle, RoomLeft, CapacityOf
    <3>2. QED
      BY <1>2, <2>11, <3>1, PushedIsStore DEF PushStored
  <2>12. ASSUME NEW b \in Buffers, NEW n \in Counts, MallocBuffer(b, n) PROVE Heap!Next
    <3>1. PICK p \in Grants(CheckedProduct(n)) :
            Granted(p, CheckedProduct(n), Wiped(DOMAIN live))
      BY <2>12 DEF MallocBuffer
    <3>2. n \in Nat /\ CheckedProduct(n) > 0 /\ CheckedProduct(n) \in Requests
      BY <3>1, ArrayAssumption DEF Grants, Requests
    <3>3. CheckedProduct(n) \in Nat
      BY <3>2, CheckedProductFacts
    <3>4. \A a \in Kept(DOMAIN live) : Wiped(DOMAIN live)[a] = mem[a]
      BY DEF Wiped, Kept, Owned
    <3>5. QED
      BY <1>2, <3>1, <3>2, <3>3, <3>4, GrantIsMalloc
  <2>13. ASSUME NEW b \in Buffers, NEW i \in 0 .. MaxSize, NEW v \in Values, StoreBuffer(b, i, v)
         PROVE  Heap!Next
    <3> DEFINE p  == buffers[b].address
               at == (p + i * ElementSize) % AddressSpace
    <3>1. /\ b \in DOMAIN buffers /\ i \in Nat /\ i < buffers[b].count
          /\ UNCHANGED <<pages, live>> /\ mem' = [mem EXCEPT ![at] = v]
      BY <2>13, ArrayAssumption DEF StoreBuffer
    <3>2. p \in DOMAIN live /\ p <= at /\ at < p + live[p]
      BY <1>2, <3>1, BufferElementFacts
    <3>3. \A w \in Words : mem'[w] = mem[w] \/ (p <= w /\ w < p + live[p])
      BY <1>2, <3>1, <3>2 DEF MemInv, OwnInv, Shapes
    <3>4. QED
      BY <3>1, <3>2, <3>3, WriteIsStore
  <2>14. ASSUME NEW b \in Buffers, FreeBuffer(b) PROVE Heap!Next
    BY <2>3, <2>14, FreedIsMFree DEF FreeBuffer
  <2>15. CASE UNCHANGED vars
    BY <2>15 DEF vars, Heap!vars
  <2>16. QED
    BY <1>2, <2>4, <2>5, <2>6, <2>7, <2>8, <2>9, <2>10, <2>11, <2>12, <2>13, <2>14, <2>15
       DEF Next, Loop
<1>3. QED
  BY <1>1, <1>2, MemInvariance, PTL DEF Spec, HeapRespected, Heap!Spec

-----------------------------------------------------------------------------
(* The third layer: to the program a reserve() is invisible, and a push()  *)
(* appends to its own array only.                                          *)

(* How far a reserve() has copied, and what a push() still has to store.   *)
Copied ==
  /\ call.step = "copy" =>
       /\ mem[SizeAt(call.fresh)] = call.size /\ SizeOf(call.array) = call.size
       /\ call.index <= call.size
       /\ \A j \in Nat : j < call.index =>
            mem[ElementAt(call.fresh, j)] = mem[ElementAt(address[call.array], j)]
       /\ call.pushed = <<>> \/ \E v \in Values : call.pushed = <<v>>
  /\ call.step = "push" =>
       SizeOf(call.array) = call.size /\ \E v \in Values : call.pushed = <<v>>

SeqInv == MemInv /\ Copied

Contents == [a \in DOMAIN address |-> Content(a)]

LEMMA WordMultiples ==
  ASSUME NEW i \in Nat PROVE i * ElementSize \in Nat /\ (i * ElementSize) % 4 = 0
<1>1. PICK k \in Nat : ElementSize = 4 * k
  <2>1. ElementSize \div 4 \in Nat /\ ElementSize = 4 * (ElementSize \div 4)
    BY ArrayAssumption DEF WordSize
  <2>2. QED
    BY <2>1
<1>2. i * ElementSize = 4 * (i * k) /\ i * k \in Nat
  BY <1>1
<1> DEFINE m == i * k
<1> HIDE DEF m
<1>3. m \in Nat /\ i * ElementSize = 4 * m
  BY <1>2 DEF m
<1>4. QED
  BY <1>3

(* The elements of a storage are words of it, and differ. *)
LEMMA ElementWords ==
  ASSUME MemInv, NEW p \in Storages, NEW i \in Nat, i < mem[CapacityAt(p)]
  PROVE  ElementAt(p, i) \in Owned(p) /\ ElementAt(p, i) # p
<1>1. /\ ElementAt(p, i) = p + 8 + i * ElementSize /\ ElementAt(p, i) \in Nat
      /\ p + 8 <= ElementAt(p, i) /\ ElementAt(p, i) + ElementSize <= p + live[p]
  BY ElementFacts
<1>2. p \in Nat /\ p \in Words /\ live[p] \in Nat /\ p + live[p] <= AddressSpace
  BY StorageFacts
<1> DEFINE x == i * ElementSize
<1>3. x \in Nat /\ x % 4 = 0
  BY WordMultiples
<1>4. ElementAt(p, i) = p + 8 + x
  BY <1>1
<1> HIDE DEF x
<1>5. ElementAt(p, i) % 4 = 0
  BY <1>2, <1>3, <1>4 DEF Words, WordSize
<1>6. QED
  BY <1>1, <1>2, <1>5, ArrayAssumption DEF Owned, Words, WordSize

LEMMA ElementsDiffer ==
  ASSUME MemInv, NEW p \in Storages, NEW i \in Nat, NEW j \in Nat, i < j,
         j < mem[CapacityAt(p)]
  PROVE  ElementAt(p, i) # ElementAt(p, j)
<1>1. mem[CapacityAt(p)] \in Nat
  BY DEF MemInv, HeadersFit, HeaderFits
<1>2. i < mem[CapacityAt(p)]
  BY <1>1
<1>3. /\ ElementAt(p, i) = p + 8 + i * ElementSize
      /\ ElementAt(p, j) = p + 8 + j * ElementSize /\ p \in Nat
  BY <1>2, ElementFacts, StorageFacts
<1> DEFINE x == i * ElementSize
           y == j * ElementSize
<1>4. x \in Nat /\ y \in Nat /\ x + ElementSize <= y
  BY Products, ArrayAssumption
<1>5. ElementAt(p, i) = p + 8 + x /\ ElementAt(p, j) = p + 8 + y
  BY <1>3
<1> HIDE DEF x, y
<1>6. QED
  BY <1>3, <1>4, <1>5, ArrayAssumption

LEMMA OwnedApart ==
  ASSUME MemInv, NEW p \in DOMAIN live, NEW q \in DOMAIN live, p # q
  PROVE  Owned(p) \cap Owned(q) = {}
<1>1. p \in Nat /\ q \in Nat /\ live[p] \in Nat /\ live[q] \in Nat
      /\ (p + live[p] <= q \/ q + live[q] <= p)
  BY DEF MemInv, OwnInv, Shapes, HeapShape, Words
<1>2. QED
  BY <1>1 DEF Owned, Words

LEMMA ArrayFacts ==
  ASSUME MemInv, NEW a \in DOMAIN address
  PROVE  /\ address[a] \in Storages /\ address[a] \in DOMAIN live
         /\ SizeOf(a) \in Nat /\ CapacityOf(a) \in Nat /\ SizeOf(a) <= CapacityOf(a)
         /\ SizeOf(a) = mem[address[a]] /\ address[a] \in Owned(address[a])
         /\ \A j \in Nat : j < SizeOf(a) => /\ j < mem[CapacityAt(address[a])]
                                            /\ ElementAt(address[a], j) \in Owned(address[a])
<1>1. address[a] \in Storages
  BY DEF Storages
<1>2. /\ SizeOf(a) \in Nat /\ CapacityOf(a) \in Nat /\ SizeOf(a) <= CapacityOf(a)
      /\ CapacityOf(a) = mem[CapacityAt(address[a])] /\ SizeOf(a) = mem[address[a]]
  BY <1>1 DEF MemInv, HeadersFit, HeaderFits, SizeOf, CapacityOf, SizeAt
<1>3. address[a] \in DOMAIN live /\ address[a] \in Owned(address[a])
  BY <1>1, StorageFacts DEF Owned
<1>4. \A j \in Nat : j < SizeOf(a) => j < mem[CapacityAt(address[a])]
  BY <1>2
<1>5. QED
  BY <1>1, <1>2, <1>3, <1>4, ElementWords

(* An array whose storage keeps its words keeps its content. *)
LEMMA ContentKept ==
  ASSUME MemInv, NEW a \in DOMAIN address, address'[a] = address[a],
         \A w \in Owned(address[a]) : mem'[w] = mem[w]
  PROVE  Content(a)' = Content(a) /\ SizeOf(a)' = SizeOf(a)
<1>1. SizeOf(a)' = SizeOf(a) /\ SizeOf(a) \in Nat
  BY ArrayFacts DEF SizeOf, SizeAt
<1>2. ASSUME NEW i \in 1 .. SizeOf(a)
      PROVE  mem'[ElementAt(address[a], i - 1)] = mem[ElementAt(address[a], i - 1)]
  <2>1. i - 1 \in Nat /\ i - 1 < SizeOf(a)
    BY <1>1
  <2>2. QED
    BY <2>1, ArrayFacts
<1>3. QED
  BY <1>1, <1>2 DEF Content

LEMMA ContentsKept ==
  ASSUME DOMAIN address' = DOMAIN address, \A a \in DOMAIN address : Content(a)' = Content(a)
  PROVE  Contents' = Contents
BY DEF Contents

-----------------------------------------------------------------------------
(* The steps *)

LEMMA AllocatedContent ==
  ASSUME ~MayWrap, MemInv, NEW n \in Nat, Fits(n), NEW size,
         NEW p \in Answers(n), p # Null, Allocated(p, n, size), NEW a \in DOMAIN address,
         address'[a] = address[a]
  PROVE  Content(a)' = Content(a) /\ SizeOf(a)' = SizeOf(a)
<1>1. mem' = Headed(Wiped(DOMAIN live), p, size, n)
  BY AllocatedFacts DEF MemInv, OwnInv
<1>2. \A w \in Kept(DOMAIN live) : Headed(Wiped(DOMAIN live), p, size, n)[w] = mem[w]
  BY AllocatedKeeps
<1>3. Owned(address[a]) \subseteq Kept(DOMAIN live)
  BY ArrayFacts DEF Kept
<1>4. \A w \in Owned(address[a]) : mem'[w] = mem[w]
  BY <1>1, <1>2, <1>3
<1>5. QED
  BY <1>4, ContentKept

LEMMA ConstructSeq ==
  ASSUME Served', ~MayWrap, SeqInv, NEW a \in Arrays, NEW n \in Nat, Construct(a, n)
  PROVE  Copied' /\ Sequence!Next
<1>1. PICK p \in Answers(n) :
        p # Null /\ Allocated(p, n, 0) /\ address' = With(address, a, p)
  BY ServedConstruct
<1>2. a \notin DOMAIN address /\ Fits(n) /\ call = Idle /\ call' = Idle
  BY DEF Construct
<1>3. /\ DOMAIN address' = DOMAIN address \cup {a} /\ address'[a] = p
      /\ \A c \in DOMAIN address : address'[c] = address[c]
  BY <1>1, <1>2 DEF With
<1>4. \A c \in DOMAIN address : Content(c)' = Content(c)
  BY <1>1, <1>2, <1>3, AllocatedContent DEF SeqInv
<1>5. Content(a)' = <<>>
  <2>1. p \in Words /\ mem' = Headed(Wiped(DOMAIN live), p, 0, n)
    BY <1>1, AllocatedFacts DEF SeqInv, MemInv, OwnInv
  <2>2. p \in Nat /\ mem'[p] = 0
    BY <2>1 DEF Headed, Wiped, SizeAt, CapacityAt, Words, WordSize
  <2>3. SizeOf(a)' = 0
    BY <1>3, <2>2 DEF SizeOf, SizeAt
  <2>4. Content(a)' = [i \in 1 .. 0 |-> mem'[ElementAt(address'[a], i - 1)]]
    BY <2>3 DEF Content
  <2>5. QED
    BY <2>4
<1>6. Contents' = [c \in DOMAIN Contents \cup {a} |-> IF c = a THEN <<>> ELSE Contents[c]]
  BY <1>2, <1>3, <1>4, <1>5 DEF Contents
<1>7. Sequence!Construct(a)
  BY <1>2, <1>6 DEF Sequence!Construct, Contents
<1>8. Copied'
  BY <1>2 DEF Copied, Idle
<1>9. QED
  BY <1>7, <1>8 DEF Sequence!Next

LEMMA GrowSeq ==
  ASSUME Served', ~MayWrap, SeqInv, NEW a \in DOMAIN address, NEW n \in Nat,
         NEW pushed, pushed = <<>> \/ \E v \in Values : pushed = <<v>>,
         Grow(a, n, pushed)
  PROVE  Copied' /\ Contents' = Contents
<1>1. PICK p \in Answers(n) :
        /\ p # Null /\ Allocated(p, n, SizeOf(a))
        /\ call' = [step |-> "copy", array |-> a, fresh |-> p, size |-> SizeOf(a),
                    index |-> 0, pushed |-> pushed]
  BY ServedGrow
<1>2. Fits(n) /\ UNCHANGED address
  BY DEF Grow
<1>3. \A c \in DOMAIN address : Content(c)' = Content(c) /\ SizeOf(c)' = SizeOf(c)
  BY <1>1, <1>2, AllocatedContent DEF SeqInv
<1>4. Contents' = Contents
  BY <1>2, <1>3, ContentsKept
<1>5. mem'[p] = SizeOf(a)
  <2>1. p \in Words /\ mem' = Headed(Wiped(DOMAIN live), p, SizeOf(a), n)
    BY <1>1, AllocatedFacts DEF SeqInv, MemInv, OwnInv
  <2>2. QED
    BY <2>1 DEF Headed, Wiped, SizeAt, CapacityAt, Words, WordSize
<1>6. SizeOf(a) \in Nat
  BY ArrayFacts DEF SeqInv
<1>7. Copied'
  BY <1>1, <1>3, <1>5, <1>6 DEF Copied, SizeAt
<1>8. QED
  BY <1>4, <1>7

(* A write into a storage of its own is none of an array's business. *)
LEMMA WriteElsewhere ==
  ASSUME MemInv, NEW p \in DOMAIN live, NEW at, NEW v, mem' = [mem EXCEPT ![at] = v],
         at \in Owned(p) \/ at \notin Words,
         NEW a \in DOMAIN address, address[a] # p, address' = address
  PROVE  Content(a)' = Content(a) /\ SizeOf(a)' = SizeOf(a)
<1>1. Owned(p) \cap Owned(address[a]) = {} /\ Owned(address[a]) \subseteq Words
  BY OwnedApart, ArrayFacts DEF Owned
<1>2. \A w \in Owned(address[a]) : mem'[w] = mem[w]
  BY <1>1 DEF MemInv, OwnInv, Shapes
<1>3. QED
  BY <1>2, ContentKept

LEMMA CopyElementSeq ==
  ASSUME SeqInv, CopyElement
  PROVE  Copied' /\ Contents' = Contents
<1>0. PICK a \in DOMAIN address : a = call.array
  BY DEF CopyElement, Copying, SeqInv, MemInv, OwnInv, CallShape, Idle
<1> DEFINE p    == call.fresh
           at   == ElementAt(p, call.index)
           from == ElementAt(address[a], call.index)
<1>1. /\ call.step = "copy" /\ a \in DOMAIN address /\ p \in Storages
      /\ DOMAIN call = {"step", "array", "fresh", "size", "index", "pushed"}
  BY <1>0 DEF CopyElement, Copying, SeqInv, MemInv, OwnInv, CallShape, Idle, Storages
<1>2. /\ call.index \in Nat /\ call.size \in Nat /\ call.index < call.size
      /\ call.size <= mem[CapacityAt(p)] /\ mem[CapacityAt(p)] \in Nat
      /\ call.index < mem[CapacityAt(p)]
  BY <1>1 DEF CopyElement, SeqInv, MemInv, RoomLeft, HeadersFit, HeaderFits
<1>3. at \in Owned(p) /\ at # p /\ p \in DOMAIN live
  BY <1>1, <1>2, ElementWords, StorageFacts DEF SeqInv
<1>4. /\ UNCHANGED <<pages, live, address, buffers>>
      /\ mem' = [mem EXCEPT ![at] = mem[from]] /\ call' = [call EXCEPT !.index = @ + 1]
  BY <1>0 DEF CopyElement
<1>5. \A c \in DOMAIN address : address[c] # p
  BY <1>1 DEF SeqInv, MemInv, OwnInv, FreshApart, Copying
<1>6. \A c \in DOMAIN address : Content(c)' = Content(c) /\ SizeOf(c)' = SizeOf(c)
  BY <1>3, <1>4, <1>5, WriteElsewhere DEF SeqInv
<1>7. Contents' = Contents
  BY <1>4, <1>6, ContentsKept
<1>8. /\ at \in Words /\ p \in Words /\ mem'[at] = mem[from]
      /\ \A w \in Words : w # at => mem'[w] = mem[w]
  BY <1>1, <1>3, <1>4, StorageFacts DEF Owned, SeqInv, MemInv, OwnInv, Shapes
<1>9. /\ call'.index = call.index + 1 /\ call'.fresh = p /\ call'.array = a
      /\ call'.size = call.size /\ call'.pushed = call.pushed /\ call'.step = "copy"
  BY <1>0, <1>1, <1>4
<1>10. ASSUME NEW j \in Nat, j < call.index + 1
       PROVE  mem'[ElementAt(p, j)] = mem'[ElementAt(address[a], j)]
  <2>1. j < SizeOf(a) /\ ElementAt(address[a], j) \in Owned(address[a])
        /\ ElementAt(address[a], j) \in Words
    BY <1>0, <1>1, <1>2, <1>10, ArrayFacts DEF SeqInv, Copied, Owned
  <2>2. ElementAt(address[a], j) # at
    BY <1>1, <1>3, <1>5, <2>1, OwnedApart, ArrayFacts DEF SeqInv
  <2>3. CASE j = call.index
    BY <1>8, <2>1, <2>2, <2>3
  <2>4. CASE j # call.index
    <3>1. j < call.index
      BY <1>2, <1>10, <2>4
    <3>2. ElementAt(p, j) # at
      BY <1>1, <1>2, <3>1, ElementsDiffer DEF SeqInv
    <3>3. ElementAt(p, j) \in Words
      BY <1>1, <1>2, <3>1, ElementWords DEF SeqInv, Owned
    <3>4. mem[ElementAt(p, j)] = mem[ElementAt(address[a], j)]
      BY <1>0, <1>1, <3>1 DEF SeqInv, Copied
    <3>5. QED
      BY <1>8, <2>1, <2>2, <3>2, <3>3, <3>4
  <2>5. QED
    BY <2>3, <2>4
<1>11. mem'[p] = call.size /\ SizeOf(a)' = call.size /\ call.index + 1 <= call.size
       /\ (call.pushed = <<>> \/ \E v \in Values : call.pushed = <<v>>)
  BY <1>0, <1>1, <1>2, <1>3, <1>6, <1>8 DEF SeqInv, Copied, SizeAt
<1> HIDE DEF p, at, from
<1>12. Copied'
  BY <1>4, <1>9, <1>10, <1>11 DEF Copied, SizeAt, SizeOf
<1>13. QED
  BY <1>7, <1>12

LEMMA FreedContent ==
  ASSUME MemInv, NEW p, Freed(p), NEW a \in DOMAIN address, address'[a] = address[a],
         address[a] # p
  PROVE  Content(a)' = Content(a) /\ SizeOf(a)' = SizeOf(a)
<1>1. Owned(address[a]) \subseteq Kept(DOMAIN live \ {p})
  BY ArrayFacts DEF Kept
<1>2. \A w \in Owned(address[a]) : mem'[w] = mem[w]
  BY <1>1 DEF Freed, Wiped, Owned
<1>3. QED
  BY <1>2, ContentKept

(* The array is where it was copied to, and reads the same. *)
LEMMA RelocateSeq ==
  ASSUME SeqInv, Relocate
  PROVE  Copied' /\ Contents' = Contents
<1>0. PICK a \in DOMAIN address : a = call.array
  BY DEF Relocate, Copying, SeqInv, MemInv, OwnInv, CallShape, Idle
<1> DEFINE p   == call.fresh
           old == address[a]
<1>1. /\ call.step = "copy" /\ a \in DOMAIN address /\ p \in Storages
      /\ DOMAIN call = {"step", "array", "fresh", "size", "index", "pushed"}
  BY <1>0 DEF Relocate, Copying, SeqInv, MemInv, OwnInv, CallShape, Idle, Storages
<1>2. old \in DOMAIN live /\ old # Null /\ p # old
  BY <1>1 DEF SeqInv, MemInv, OwnInv, Shapes, StorageIsOwned, Storages, FreshApart, Copying
<1>3. Freed(old) /\ Returns /\ address' = [address EXCEPT ![a] = p]
  BY <1>0, <1>2 DEF Relocate
<1>4. \A c \in DOMAIN address : c # a => address'[c] = address[c] /\ address[c] # old
  BY <1>1, <1>3 DEF SeqInv, MemInv, OwnInv, StorageIsOwned
<1>5. \A c \in DOMAIN address : c # a => Content(c)' = Content(c)
  BY <1>3, <1>4, FreedContent DEF SeqInv
<1>6. /\ call.size \in Nat /\ SizeOf(a) = call.size /\ mem[p] = call.size
      /\ call.size <= mem[CapacityAt(p)] /\ mem[CapacityAt(p)] \in Nat
      /\ \A j \in Nat : j < call.size =>
           mem[ElementAt(p, j)] = mem[ElementAt(old, j)]
  <2>1. call.index \in Nat /\ call.index = call.size
    BY <1>1 DEF Relocate, SeqInv, MemInv, RoomLeft, Copied
  <2>2. mem[CapacityAt(p)] \in Nat
    BY <1>1 DEF SeqInv, MemInv, HeadersFit, HeaderFits
  <2>3. QED
    BY <1>0, <1>1, <2>1, <2>2 DEF SeqInv, Copied, MemInv, RoomLeft, SizeAt
<1>7. \A w \in Owned(p) : mem'[w] = mem[w]
  <2>1. Owned(p) \subseteq Kept(DOMAIN live \ {old})
    BY <1>1, <1>2, StorageFacts DEF Kept, SeqInv
  <2>2. QED
    BY <1>3, <2>1 DEF Freed, Wiped, Owned
<1>8. p \in Owned(p) /\ address'[a] = p
  BY <1>1, <1>3, StorageFacts DEF Owned, SeqInv
<1>9. SizeOf(a)' = call.size
  BY <1>6, <1>7, <1>8 DEF SizeOf, SizeAt
<1>10. \A j \in Nat : j < call.size => mem'[ElementAt(p, j)] = mem[ElementAt(old, j)]
  <2>1. ASSUME NEW j \in Nat, j < call.size
        PROVE  mem'[ElementAt(p, j)] = mem[ElementAt(old, j)]
    <3>1. j < mem[CapacityAt(p)]
      BY <1>6, <2>1
    <3>2. ElementAt(p, j) \in Owned(p)
      BY <1>1, <3>1, ElementWords DEF SeqInv
    <3>3. QED
      BY <1>6, <1>7, <2>1, <3>2
  <2>2. QED
    BY <2>1
<1>11. Content(a)' = Content(a)
  <2> HIDE DEF p, old
  <2>1. ASSUME NEW i \in 1 .. call.size
        PROVE  mem'[ElementAt(p, i - 1)] = mem[ElementAt(old, i - 1)]
    <3>1. i - 1 \in Nat /\ i - 1 < call.size
      BY <1>6
    <3>2. QED
      BY <1>10, <3>1
  <2>2. Content(a)' = [i \in 1 .. call.size |-> mem'[ElementAt(p, i - 1)]]
    BY <1>8, <1>9 DEF Content
  <2>3. Content(a) = [i \in 1 .. call.size |-> mem[ElementAt(old, i - 1)]]
    BY <1>6 DEF Content, old
  <2>4. QED
    BY <2>1, <2>2, <2>3
<1>12. Contents' = Contents
  BY <1>3, <1>5, <1>11, ContentsKept
<1>13. Copied'
  <2>1. CASE call' = Idle
    BY <2>1 DEF Copied, Idle
  <2>2. CASE call' # Idle
    <3>1. call.pushed # <<>> /\ call' = [call EXCEPT !.step = "push"]
      BY <1>3, <2>2 DEF Returns
    <3>2. /\ call'.step = "push" /\ call'.array = a /\ call'.size = call.size
          /\ call'.pushed = call.pushed
      BY <1>0, <1>1, <3>1
    <3>3. \E v \in Values : call.pushed = <<v>>
      BY <1>1, <3>1 DEF SeqInv, Copied
    <3>4. QED
      BY <1>9, <3>2, <3>3 DEF Copied, SizeOf
  <2>3. QED
    BY <2>1, <2>2
<1>14. QED
  BY <1>12, <1>13

LEMMA SequenceOf ==
  ASSUME NEW n \in Nat, NEW S, NEW s \in [1 .. n -> S]
  PROVE  s \in Seq(S) /\ Len(s) = n
OBVIOUS

(* One more word behind the others is an element appended. *)
LEMMA PushedSeq ==
  ASSUME SeqInv, NEW a \in DOMAIN address, NEW v \in Values,
         SizeOf(a) < CapacityOf(a), Pushed(a, SizeOf(a), v)
  PROVE  Sequence!Next
<1> DEFINE p  == address[a]
           n  == SizeOf(a)
           at == ElementAt(p, n)
<1>1. /\ p \in Storages /\ p \in DOMAIN live /\ p \in Owned(p) /\ n \in Nat
      /\ n < mem[CapacityAt(p)]
  BY ArrayFacts DEF SeqInv, CapacityOf
<1>2. at \in Owned(p) /\ at # p
  BY <1>1, ElementWords DEF SeqInv
<1>3. UNCHANGED <<live, address>> /\ mem' = [mem EXCEPT ![at] = v, ![p] = n + 1]
  BY DEF Pushed, SizeAt
<1>4. /\ mem'[at] = v /\ mem'[p] = n + 1
      /\ \A w \in Words : w # at /\ w # p => mem'[w] = mem[w]
  <2>1. at \in DOMAIN mem /\ p \in DOMAIN mem /\ DOMAIN mem = Words
    BY <1>1, <1>2 DEF Owned, SeqInv, MemInv, OwnInv, Shapes
  <2> HIDE DEF at, n, p
  <2>2. QED
    BY <1>2, <1>3, <2>1
<1>5. ASSUME NEW c \in DOMAIN address, c # a PROVE Content(c)' = Content(c)
  <2>1. address[c] # p /\ address[c] \in DOMAIN live
    BY <1>5, ArrayFacts DEF SeqInv, MemInv, OwnInv, StorageIsOwned
  <2>2. \A w \in Owned(address[c]) : mem'[w] = mem[w]
    BY <1>1, <1>2, <1>4, <2>1, OwnedApart DEF SeqInv, Owned
  <2>3. QED
    BY <1>3, <2>2, ContentKept DEF SeqInv
<1>6. SizeOf(a)' = n + 1
  BY <1>3, <1>4 DEF SizeOf, SizeAt
<1>7. \A j \in Nat : j < n => mem'[ElementAt(p, j)] = mem[ElementAt(p, j)]
  <2>1. ASSUME NEW j \in Nat, j < n PROVE mem'[ElementAt(p, j)] = mem[ElementAt(p, j)]
    <3>1. ElementAt(p, j) # at
      BY <1>1, <2>1, ElementsDiffer DEF SeqInv
    <3>2. j < mem[CapacityAt(p)]
      BY <2>1, ArrayFacts DEF SeqInv
    <3>3. ElementAt(p, j) # p /\ ElementAt(p, j) \in Words
      BY <1>1, <3>2, ElementWords DEF SeqInv, Owned
    <3>4. QED
      BY <1>4, <3>1, <3>3
  <2>2. QED
    BY <2>1
<1>8. Content(a)' = Append(Content(a), v)
  <2> DEFINE old == [i \in 1 .. n |-> mem[ElementAt(p, i - 1)]]
             new == [i \in 1 .. n + 1 |-> mem'[ElementAt(p, i - 1)]]
             S   == {old[i] : i \in 1 .. n} \cup {v}
  <2>1. Content(a) = old
    BY DEF Content
  <2>2. Content(a)' = new
    BY <1>3, <1>6 DEF Content
  <2>3. old \in [1 .. n -> S]
    OBVIOUS
  <2>4. old \in Seq(S) /\ Len(old) = n
    BY <1>1, <2>3, SequenceOf
  <2>5. /\ Append(old, v) \in Seq(S) /\ Len(Append(old, v)) = n + 1
        /\ \A i \in 1 .. n : Append(old, v)[i] = old[i]
        /\ Append(old, v)[n + 1] = v
    BY <1>1, <2>4, AppendProperties
  <2>6. \A i \in 1 .. n : new[i] = old[i]
    <3>1. ASSUME NEW i \in 1 .. n PROVE new[i] = old[i]
      <4>1. i - 1 \in Nat /\ i - 1 < n /\ i \in 1 .. n + 1
        BY <1>1
      <4>2. mem'[ElementAt(p, i - 1)] = mem[ElementAt(p, i - 1)]
        BY <1>7, <4>1
      <4>3. QED
        BY <4>1, <4>2
    <3>2. QED
      BY <3>1
  <2>7. new[n + 1] = v
    BY <1>1, <1>4
  <2>8. DOMAIN Append(old, v) = 1 .. n + 1
    BY <2>5, LenProperties
  <2>9. DOMAIN new = 1 .. n + 1 /\ new \in [1 .. n + 1 -> S]
    <3>1. DOMAIN new = 1 .. n + 1 /\ \A i \in 1 .. n : old[i] \in S
      OBVIOUS
    <3>2. \A i \in 1 .. n + 1 : i \in 1 .. n \/ i = n + 1
      BY <1>1
    <3>3. new = [i \in 1 .. n + 1 |-> new[i]] /\ v \in S
      OBVIOUS
    <3> HIDE DEF old, new, S
    <3>4. QED
      BY <2>6, <2>7, <3>1, <3>2, <3>3
  <2> HIDE DEF old, new, S, n
  <2>10. n \in Nat /\ n + 1 \in Nat
    BY <1>1
  <2>11. new \in Seq(S) /\ Len(new) = n + 1
    BY <2>9, <2>10, SequenceOf
  <2>12. \A i \in 1 .. n + 1 : new[i] = Append(old, v)[i]
    BY <2>5, <2>6, <2>7, <2>10
  <2>13. new = Append(old, v)
    BY <2>5, <2>11, <2>12, SeqEqual
  <2>14. QED
    BY <2>1, <2>2, <2>13
<1>9. Contents' = [Contents EXCEPT ![a] = Append(Contents[a], v)]
  BY <1>3, <1>5, <1>8 DEF Contents
<1>10. Sequence!Push(a, v) /\ a \in DOMAIN Contents
  BY <1>9 DEF Sequence!Push, Contents
<1>11. QED
  BY <1>10 DEF Sequence!Next, Contents

LEMMA FreeSeq == ASSUME SeqInv, NEW a, Free(a) PROVE Copied' /\ Sequence!Next
<1>1. a \in DOMAIN address /\ call' = Idle /\ address' = Without(address, a)
  BY DEF Free
<1>2. address[a] \in DOMAIN live /\ address[a] # Null
  BY <1>1 DEF SeqInv, MemInv, OwnInv, Shapes, StorageIsOwned, Storages
<1>3. Freed(address[a])
  BY <1>2 DEF Free
<1>4. /\ DOMAIN address' = DOMAIN address \ {a}
      /\ \A c \in DOMAIN address \ {a} : address'[c] = address[c]
  BY <1>1, WithoutFacts
<1>5. \A c \in DOMAIN address \ {a} : address[c] # address[a]
  BY <1>1 DEF SeqInv, MemInv, OwnInv, StorageIsOwned
<1>6. \A c \in DOMAIN address \ {a} : Content(c)' = Content(c)
  BY <1>3, <1>4, <1>5, FreedContent DEF SeqInv
<1>7. Contents' = [c \in DOMAIN Contents \ {a} |-> Contents[c]]
  BY <1>4, <1>6 DEF Contents
<1>8. Sequence!Free(a) /\ a \in DOMAIN Contents
  BY <1>1, <1>7 DEF Sequence!Free, Contents
<1>9. Copied'
  BY <1>1 DEF Copied, Idle
<1>10. QED
  BY <1>8, <1>9 DEF Sequence!Next, Contents

LEMMA MallocBufferSeq ==
  ASSUME SeqInv, NEW b \in Buffers, NEW n \in Nat, MallocBuffer(b, n)
  PROVE  Copied' /\ Contents' = Contents
<1>1. mem' = Wiped(DOMAIN live) /\ call' = Idle /\ UNCHANGED address
  BY DEF MallocBuffer, Granted, Idle
<1>2. ASSUME NEW c \in DOMAIN address PROVE Content(c)' = Content(c)
  <2>1. Owned(address[c]) \subseteq Kept(DOMAIN live)
    BY ArrayFacts DEF Kept, SeqInv
  <2>2. \A w \in Owned(address[c]) : mem'[w] = mem[w]
    BY <1>1, <2>1 DEF Wiped, Owned
  <2>3. QED
    BY <1>1, <2>2, ContentKept DEF SeqInv
<1>3. Contents' = Contents
  BY <1>1, <1>2, ContentsKept
<1>4. QED
  BY <1>1, <1>3 DEF Copied, Idle

LEMMA StoreBufferSeq ==
  ASSUME SeqInv, NEW b, NEW i \in Nat, NEW v, StoreBuffer(b, i, v)
  PROVE  Copied' /\ Contents' = Contents
<1> DEFINE p  == buffers[b].address
           at == (p + i * ElementSize) % AddressSpace
<1>1. b \in DOMAIN buffers /\ i < buffers[b].count /\ call' = Idle
      /\ UNCHANGED <<live, address>> /\ mem' = [mem EXCEPT ![at] = v]
  BY DEF StoreBuffer
<1>2. p \in DOMAIN live /\ p \notin Storages /\ p <= at /\ at < p + live[p]
  BY <1>1, BufferElementFacts DEF SeqInv
<1>3. at \in Owned(p) \/ at \notin Words
  BY <1>2 DEF Owned
<1>4. \A c \in DOMAIN address : address[c] # p
  BY <1>2 DEF Storages
<1>5. \A c \in DOMAIN address : Content(c)' = Content(c)
  BY <1>1, <1>2, <1>3, <1>4, WriteElsewhere DEF SeqInv
<1>6. Contents' = Contents
  BY <1>1, <1>5, ContentsKept
<1>7. QED
  BY <1>1, <1>6 DEF Copied, Idle

LEMMA FreeBufferSeq ==
  ASSUME SeqInv, NEW b, FreeBuffer(b)
  PROVE  Copied' /\ Contents' = Contents
<1> DEFINE p == buffers[b].address
<1>1. b \in DOMAIN buffers /\ call' = Idle /\ UNCHANGED address /\ Freed(p)
  BY DEF FreeBuffer
<1>2. \A c \in DOMAIN address : address[c] # p
  BY <1>1 DEF SeqInv, MemInv, OwnInv, StorageIsOwned
<1>3. \A c \in DOMAIN address : Content(c)' = Content(c)
  BY <1>1, <1>2, FreedContent DEF SeqInv
<1>4. Contents' = Contents
  BY <1>1, <1>3, ContentsKept
<1>5. QED
  BY <1>1, <1>4 DEF Copied, Idle

LEMMA StepSeq ==
  ASSUME Served', ~MayWrap, SeqInv, [Next]_vars
  PROVE  Copied' /\ (Sequence!Next \/ Contents' = Contents)
<1> DEFINE Simulates == Copied' /\ (Sequence!Next \/ Contents' = Contents)
<1>1. \A n \in Counts : n \in Nat
  BY ArrayAssumption
<1>2. ASSUME NEW a \in DOMAIN address
      PROVE  /\ SizeOf(a) \in Nat /\ SizeOf(a) + 1 \in Nat
             /\ ~NeedsGrowth(a, SizeOf(a) + 1) => SizeOf(a) < CapacityOf(a)
  BY ArrayFacts DEF SeqInv, NeedsGrowth
<1>3. ASSUME NEW a \in Arrays, NEW n \in Counts, Construct(a, n) PROVE Simulates
  BY <1>1, <1>3, ConstructSeq
<1>4. ASSUME NEW a \in Arrays, NEW n \in Counts, Reserve(a, n) PROVE Simulates
  BY <1>1, <1>4, GrowSeq DEF Reserve
<1>5. ASSUME NEW a \in Arrays, NEW v \in Values, Push(a, v) PROVE Simulates
  <2>1. Sequence!Next
    BY <1>2, <1>5, PushedSeq DEF Push
  <2>2. Copied'
    BY <1>5 DEF Push, Copied, Idle
  <2>3. QED
    BY <2>1, <2>2
<1>6. ASSUME NEW a \in Arrays, NEW v \in Values, PushGrowing(a, v) PROVE Simulates
  BY <1>2, <1>6, GrowSeq DEF PushGrowing
<1>7. ASSUME NEW a \in Arrays, Free(a) PROVE Simulates
  BY <1>7, FreeSeq
<1>8. CASE CopyElement
  BY <1>8, CopyElementSeq
<1>9. CASE Relocate
  BY <1>9, RelocateSeq
<1>10. CASE PushStored
  <2>1. /\ call.array \in DOMAIN address /\ call.size < CapacityOf(call.array)
        /\ call.size = SizeOf(call.array) /\ call.pushed[1] \in Values
    BY <1>10 DEF PushStored, SeqInv, MemInv, OwnInv, CallShape, Idle, RoomLeft, CapacityOf, Copied
  <2>2. Sequence!Next
    BY <1>10, <2>1, PushedSeq DEF PushStored
  <2>3. Copied'
    BY <1>10 DEF PushStored, Copied, Idle
  <2>4. QED
    BY <2>2, <2>3
<1>11. ASSUME NEW b \in Buffers, NEW n \in Counts, MallocBuffer(b, n) PROVE Simulates
  BY <1>1, <1>11, MallocBufferSeq
<1>12. ASSUME NEW b \in Buffers, NEW i \in 0 .. MaxSize, NEW v \in Values, StoreBuffer(b, i, v)
       PROVE  Simulates
  <2>1. i \in Nat
    BY ArrayAssumption
  <2>2. QED
    BY <1>12, <2>1, StoreBufferSeq
<1>13. ASSUME NEW b \in Buffers, FreeBuffer(b) PROVE Simulates
  BY <1>13, FreeBufferSeq
<1>14. CASE UNCHANGED vars
  <2>1. UNCHANGED <<mem, address, call>>
    BY <1>14 DEF vars
  <2>2. Contents' = Contents
    BY <2>1 DEF Contents, Content, SizeOf
  <2>3. Copied'
    BY <2>1 DEF SeqInv, Copied, SizeOf
  <2>4. QED
    BY <2>2, <2>3
<1>15. QED
  BY <1>3, <1>4, <1>5, <1>6, <1>7, <1>8, <1>9, <1>10, <1>11, <1>12, <1>13, <1>14 DEF Next, Loop

(* To the program, arrays are sequences: construct, push and free are      *)
(* those of the contract, and a reserve() on its way changes nothing.      *)
THEOREM ArraysMeetContract == ASSUME ~MayWrap PROVE Spec /\ []Served => ArraysAreSequences
<1>1. Init => MemInv /\ Copied
  BY MemInvInit DEF Init, Copied, Idle
<1>2. Init => Contents = [a \in {} |-> <<>>]
  BY DEF Init, Contents
<1>3. Init => Sequence!Init
  BY <1>2 DEF Sequence!Init, Contents
<1>4. Served' /\ SeqInv /\ [Next]_vars => SeqInv'
  BY StepSeq, StepMem DEF SeqInv
<1>5. Served' /\ SeqInv /\ [Next]_vars => [Sequence!Next]_Contents
  BY StepSeq
<1>6. Spec /\ []Served => []SeqInv
  BY <1>1, <1>4, PTL DEF Spec, SeqInv
<1>7. QED
  BY <1>3, <1>5, <1>6, PTL DEF Spec, ArraysAreSequences, Sequence!Spec, Contents
=============================================================================
