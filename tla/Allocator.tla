------------------------------ MODULE Allocator ------------------------------
(***************************************************************************)
(* The linear-memory allocator that MASIC compiles into a module: the      *)
(* WebAssembly functions $malloc and $mfree built by _malloc_body and      *)
(* _free_body (masic/wasm/memory.py).                                      *)
(*                                                                         *)
(* The heap is the byte range HeapStart .. heap_end-1 of linear memory, a  *)
(* row of blocks.  A block carries its tag (its size, plus 1 when it is    *)
(* allocated) in its first word, the header, and again in its last word,   *)
(* the footer.  Nothing else describes the heap: $malloc walks the headers *)
(* and $mfree finds both neighbours through the tags next to the block.    *)
(*                                                                         *)
(* $malloc loops, so it is modelled one iteration at a time; $mfree does   *)
(* not, and is one action.  The caller (compiled code, or the host through *)
(* the exported memory) runs only between calls: it stores words into the  *)
(* payloads it owns, and it frees what $malloc returned, once.             *)
(***************************************************************************)
EXTENDS Integers

CONSTANTS
  AddressSpace,  \* bytes a wasm32 address can name (2^32)
  PageSize,      \* bytes in a page of linear memory (65536)
  HeapStart,     \* layout.heap_start: first byte after the static data
  StaticWords,   \* words the static data below it consists of
  Requests,      \* byte counts the caller asks for
  UserWords      \* words the caller stores

HeaderSize       == 4
FooterSize       == 4
Alignment        == 8
AllocatedFlag    == 1
FreeFlag         == 0
Overhead         == HeaderSize + FooterSize
MinimumBlockSize == Alignment * 2

(* x & layout.size_mask *)
AlignDown(x) == x - (x % Alignment)

MaximumRequest ==
  AlignDown(AddressSpace - 1 - HeapStart - Overhead - (Alignment - 1))

(* What _finalize_memory_layout asks for: the pages the static data needs. *)
InitialPages == (HeapStart + PageSize - 1) \div PageSize

ASSUME LayoutAssumption ==
  /\ PageSize \in Nat /\ PageSize > 0 /\ PageSize % HeaderSize = 0
  /\ AddressSpace \in Nat /\ AddressSpace % PageSize = 0
  /\ HeapStart \in Nat /\ HeapStart >= HeaderSize /\ HeapStart % HeaderSize = 0
  /\ HeapStart < AddressSpace
  /\ Requests \subseteq 0 .. (AddressSpace - 1)
  /\ UserWords \subseteq Nat /\ StaticWords \subseteq Nat

(* Addresses of the aligned words of linear memory. *)
Words == {a \in 0 .. (AddressSpace - 1) : a % HeaderSize = 0}

-----------------------------------------------------------------------------
(* Tags *)

Tag(size, flag) == size + flag
SizeOf(tag)     == AlignDown(tag)
IsUsed(tag)     == tag % 2 = AllocatedFlag

(* Mutant: the footer is forgotten. *)
TaggedHeaderOnly(m, b, size, flag) == [m EXCEPT ![b] = Tag(size, flag)]

(* The two stores that tag the block of `size' bytes at b.  The sizes are  *)
(* multiples of 8, so that size | flag is a sum.                           *)
Tagged(m, b, size, flag) ==
  [m EXCEPT ![b] = Tag(size, flag), ![b + size - FooterSize] = Tag(size, flag)]

(* Mutants: the sum is not rounded; the tags are not counted. *)
RequiredUnaligned(n)   == n + Overhead
RequiredWithoutTags(n) == AlignDown(n + Alignment - 1)

Required(n) == AlignDown(n + Alignment - 1) + Overhead

-----------------------------------------------------------------------------
VARIABLES
  mem,       \* linear memory, word by word
  pages,     \* memory.size
  heap_end,  \* the allocator's private global: first byte after the heap
  live,      \* the caller's pointers: payload address |-> bytes requested
  pc,        \* "idle", or "scan" while $malloc walks the heap
  request,   \* $malloc's parameter, and its locals while it walks:
  required,  \*   block size that serves the request
  cursor     \*   header address of the block under inspection

heap  == <<mem, pages, heap_end>>
frame == <<pc, request, required, cursor>>
vars  == <<mem, pages, heap_end, live, pc, request, required, cursor>>

(* The engine copies the static data to memory and zeroes the rest.        *)
Init ==
  /\ \E data \in [{a \in Words : a < HeapStart} -> StaticWords] :
       mem = [a \in Words |-> IF a < HeapStart THEN data[a] ELSE 0]
  /\ pages = InitialPages
  /\ heap_end = HeapStart
  /\ live = [p \in {} |-> 0]
  /\ pc = "idle" /\ request = 0 /\ required = 0 /\ cursor = 0

Return == pc' = "idle" /\ request' = 0 /\ required' = 0 /\ cursor' = 0

(* $malloc returns the payload of the block at b to the caller. *)
ReturnBlock(b) ==
  /\ live' = [p \in DOMAIN live \cup {b + HeaderSize} |->
                IF p = b + HeaderSize THEN request ELSE live[p]]
  /\ Return

Served(n) == n # 0 /\ n <= MaximumRequest

(* A request of zero bytes, or of more than can ever be served: null. *)
MallocRefused(n) == pc = "idle" /\ ~Served(n) /\ UNCHANGED vars

MallocCalled(n) ==
  /\ pc = "idle" /\ Served(n)
  /\ pc' = "scan" /\ request' = n /\ required' = Required(n)
  /\ cursor' = HeapStart
  /\ UNCHANGED <<mem, pages, heap_end, live>>

BlockSize == SizeOf(mem[cursor])
(* Mutants: the remainder pays for its tags; an exact fit is passed.       *)
RemainderLessTags == BlockSize - required - Overhead
FitsStrictly      == ~IsUsed(mem[cursor]) /\ BlockSize > required

Remainder == BlockSize - required
Fits      == ~IsUsed(mem[cursor]) /\ BlockSize >= required
Splits    == Remainder >= MinimumBlockSize
Walking   == pc = "scan" /\ cursor < heap_end

(* Mutants: the walk gives up at the first block; it never moves on.       *)
ScanLeaves ==
  /\ Walking /\ ~Fits /\ cursor' = heap_end
  /\ UNCHANGED <<mem, pages, heap_end, live, pc, request, required>>
ScanStays == Walking /\ ~Fits /\ UNCHANGED vars

(* An allocated block, or a free one too small: go to the next header. *)
ScanNext ==
  /\ Walking /\ ~Fits
  /\ cursor' = cursor + BlockSize
  /\ UNCHANGED <<mem, pages, heap_end, live, pc, request, required>>

(* The first free block that fits and leaves a block's worth: split it. *)
TakeSplit ==
  /\ Walking /\ Fits /\ Splits
  /\ mem' = Tagged(Tagged(mem, cursor, required, AllocatedFlag),
                   cursor + required, Remainder, FreeFlag)
  /\ ReturnBlock(cursor)
  /\ UNCHANGED <<pages, heap_end>>

(* The first free block that fits, too small to split: take it whole. *)
TakeWhole ==
  /\ Walking /\ Fits /\ ~Splits
  /\ mem' = Tagged(mem, cursor, BlockSize, AllocatedFlag)
  /\ ReturnBlock(cursor)
  /\ UNCHANGED <<pages, heap_end>>

Exhausted     == pc = "scan" /\ ~(cursor < heap_end)
NewEnd        == (heap_end + required) % AddressSpace
Wraps         == NewEnd < heap_end
(* Mutant: the page of the last byte is not counted. *)
RequiredPagesShort == (NewEnd - 1) \div PageSize

RequiredPages == ((NewEnd - 1) \div PageSize) + 1

(* The walk found nothing: append a block, growing memory if it must and   *)
(* the engine agrees.                                                      *)
Extend ==
  /\ Exhausted /\ ~Wraps
  /\ pages' = IF RequiredPages > pages THEN RequiredPages ELSE pages
  /\ mem' = Tagged(mem, heap_end, required, AllocatedFlag)
  /\ heap_end' = NewEnd
  /\ ReturnBlock(heap_end)

(* The new end wraps around, or the engine refuses memory.grow: null.      *)
ExtendFails ==
  /\ Exhausted
  /\ Wraps \/ RequiredPages > pages
  /\ Return
  /\ UNCHANGED <<mem, pages, heap_end, live>>

-----------------------------------------------------------------------------
(* $mfree *)

Block(p)  == p - HeaderSize
OwnSize(p) == SizeOf(mem[Block(p)])

(* Mutants: the next block is never swallowed; the word before the heap is *)
(* taken for a footer.                                                     *)
NeverMergesNext(p)  == FALSE
MergesBeforeHeap(p) == ~IsUsed(mem[Block(p) - FooterSize])

(* The next block, if there is one and it is free, is swallowed.           *)
MergesNext(p) == LET next == Block(p) + OwnSize(p)
                 IN next < heap_end /\ ~IsUsed(mem[next])
NextSize(p)   == IF MergesNext(p) THEN SizeOf(mem[Block(p) + OwnSize(p)]) ELSE 0

(* The previous block, known by its footer, swallows this one if free.     *)
MergesPrevious(p) == Block(p) > HeapStart /\ ~IsUsed(mem[Block(p) - FooterSize])
PreviousSize(p)   == IF MergesPrevious(p) THEN SizeOf(mem[Block(p) - FooterSize]) ELSE 0

FreedStart(p) == Block(p) - PreviousSize(p)
FreedSize(p)  == OwnSize(p) + NextSize(p) + PreviousSize(p)

(* Mutant: the last block stays in the heap. *)
ReleaseInPlace(p) ==
  /\ mem' = Tagged(mem, FreedStart(p), FreedSize(p), FreeFlag)
  /\ UNCHANGED heap_end

(* The coalesced block leaves the heap if it is the last one; otherwise it *)
(* is tagged free.                                                         *)
Release(p) ==
  IF FreedStart(p) + FreedSize(p) = heap_end
  THEN heap_end' = FreedStart(p) /\ UNCHANGED mem
  ELSE /\ mem' = Tagged(mem, FreedStart(p), FreedSize(p), FreeFlag)
       /\ UNCHANGED heap_end

(* A block whose header is already free is left alone.                     *)
MFree(p) ==
  /\ pc = "idle" /\ p \in DOMAIN live
  /\ IF IsUsed(mem[Block(p)]) THEN Release(p) ELSE UNCHANGED <<mem, heap_end>>
  /\ live' = [q \in DOMAIN live \ {p} |-> live[q]]
  /\ UNCHANGED <<pages, frame>>

(* mfree(null) *)
MFreeNull == pc = "idle" /\ UNCHANGED vars

-----------------------------------------------------------------------------
(* The caller fills the words it asked for with a word of its own.         *)

PayloadWords(p) == {a \in Words : p <= a /\ a < p + live[p]}

Store(p, w) ==
  /\ pc = "idle" /\ p \in DOMAIN live
  /\ mem' = [a \in Words |-> IF a \in PayloadWords(p) THEN w ELSE mem[a]]
  /\ UNCHANGED <<pages, heap_end, live, frame>>

-----------------------------------------------------------------------------
Scan == ScanNext \/ TakeSplit \/ TakeWhole \/ Extend \/ ExtendFails

Next ==
  \/ \E n \in Requests : MallocRefused(n)
  \/ \E n \in Requests : MallocCalled(n)
  \/ Scan
  \/ \E p \in DOMAIN live : MFree(p)
  \/ MFreeNull
  \/ \E p \in DOMAIN live, w \in UserWords : Store(p, w)

(* The engine runs a call it has entered to its end.                       *)
Spec == Init /\ [][Next]_vars /\ WF_vars(Scan)

-----------------------------------------------------------------------------
(* Every variable keeps the type the compiled locals, global and memory    *)
(* have; pointers are addresses of words.                                  *)
TypeOK ==
  /\ mem \in [Words -> Nat]
  /\ pages \in Nat
  /\ heap_end \in Nat
  /\ DOMAIN live \subseteq Words
  /\ live \in [DOMAIN live -> Nat]
  /\ pc \in {"idle", "scan"}
  /\ request \in Nat /\ required \in Nat /\ cursor \in Nat

LiveBlocks == {Block(p) : p \in DOMAIN live}
EndOf(b)   == b + SizeOf(mem[b])

(* The headers a walk of the heap meets, read off the caller's pointers:   *)
(* blocks the caller owns, and one free block wherever the heap's start or *)
(* the end of an owned block is neither owned nor the end of the heap.     *)
Blocks ==
  LiveBlocks \cup (({HeapStart} \cup {EndOf(b) : b \in LiveBlocks}) \ {heap_end})

(* Header and footer of every block carry the same tag, of a legal size,   *)
(* and it says "allocated" exactly for the blocks the caller owns: what    *)
(* $mfree reads to its left is always a footer, never payload.             *)
BoundaryTags ==
  \A b \in Blocks :
    /\ b \in Words /\ b >= HeapStart /\ b % Alignment = HeapStart % Alignment
    /\ SizeOf(mem[b]) >= MinimumBlockSize
    /\ EndOf(b) <= heap_end
    /\ mem[EndOf(b) - FooterSize] = mem[b]
    /\ IsUsed(mem[b]) <=> b \in LiveBlocks

(* The blocks tile the heap: from its start each ends where the next one   *)
(* begins, the last one at heap_end, and no two overlap.                   *)
BlocksTile ==
  /\ HeapStart \in Blocks \cup {heap_end}
  /\ \A b \in Blocks : EndOf(b) \in Blocks \cup {heap_end}
  /\ \A e \in Blocks \cup {heap_end} :
       e = HeapStart \/ \E b \in Blocks : EndOf(b) = e
  /\ \A b, c \in Blocks : b < c => EndOf(b) <= c

(* $mfree coalesces fully: a free block is followed by an allocated one,   *)
(* so no two free blocks are adjacent and the last block is in use.        *)
Coalesced == \A b \in Blocks \ LiveBlocks : EndOf(b) \in LiveBlocks

(* A granted block has room for the bytes requested besides its two tags.  *)
RequestsFit ==
  \A p \in DOMAIN live : live[p] + Overhead <= SizeOf(mem[Block(p)])

(* No load or store of the allocator traps: the heap lies within the pages *)
(* of linear memory, and below the top of the address space, so that no    *)
(* address sum on it wraps.                                                *)
HeapInMemory ==
  /\ HeapStart <= heap_end /\ heap_end < AddressSpace
  /\ heap_end <= pages * PageSize

(* While $malloc walks it stands on a header or at the end, and every free *)
(* block behind it is too small: it never passes one that fits.            *)
FirstFit ==
  pc = "scan" =>
    /\ cursor \in Blocks \cup {heap_end}
    /\ \A b \in Blocks \ LiveBlocks : b < cursor => SizeOf(mem[b]) < required

(* Once the caller has freed everything the heap is as empty as at the     *)
(* start, whatever the order of the calls was: nothing stays fragmented.   *)
EmptyHeapResets == DOMAIN live = {} => heap_end = HeapStart

(* Memory grows for a request only if no free block of the heap could have *)
(* served it, and $malloc gives up only in that case.                      *)
GrowsOnlyWhenFull ==
  [][heap_end' > heap_end \/ (pc = "scan" /\ pc' = "idle" /\ live' = live)
       => \A b \in Blocks \ LiveBlocks : SizeOf(mem[b]) < required]_vars

(* Every call of $malloc returns: the walk always moves on.                *)
MallocReturns == pc = "scan" ~> pc = "idle"

(* What callers rely on, whatever the heap looks like inside.              *)
Contract == INSTANCE HeapContract
              WITH mem <- mem, pages <- pages, live <- live,
                   AddressSpace <- AddressSpace, PageSize <- PageSize,
                   HeapStart <- HeapStart, Requests <- Requests
MeetsContract == Contract!Spec
=============================================================================
