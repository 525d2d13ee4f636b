# MASIC in TLA+

MASIC (`masic/wasm`) compiles functions written in a typed subset of Python into
a WebAssembly module. The compiler reads the source of each decorated function,
lowers it into instructions, collects functions, globals, a table, memory and
static data in a builder, and encodes the binary. Into modules that allocate it
compiles an allocator of its own.

This directory holds TLA+ models of these parts, the TLC runs that check them on
small instances, and TLAPS proofs of what holds for every instance.

    tlc -config alloc.cfg Allocator        # any run: the table below names both files
    tlapm AllocatorProofs.tla              # the proofs

## 1. The system

| Component | Source | State | Operations | What makes it correct |
|---|---|---|---|---|
| Allocator | `memory.py` 18-49, 245-385 | linear memory from the heap start up, the private global `heap_end` | `$malloc`, `$mfree`, which are compiled WebAssembly | blocks tile the heap, their tags agree, no byte has two owners, nothing is stranded, every call returns |
| Allocation front end | `memory.py` 189-242 | none | `malloc(count)`, `mfree(pointer)`, `sizeof` | a count that overflows allocates nothing |
| Typed pointers | `memory.py` 52-186 | type and address expression of a pointer | `from_address`, load, store, indexing | an access goes to the address the pointer was made with |
| Module builder | `module.py` 125-484 | imports, functions, globals, table, signatures, memory requirement, interned data, life-cycle flags | declarations, `_ensure_memory`, `_intern_static`, installing the allocator, assembly | indices and addresses given out early are right in the binary; a closed module stays closed |
| Binary encoder | `module.py` 487-616 | none | `encode` | every section refers to what exists |
| Function compiler | `functions.py` 39-130, 187-341 | the active function, its locals and statements | compile, register, import, call | an index belongs to one function for good; a failed body leaves a usable module |
| Source compiler, control | `source.py` 87-102, 240-316 | stack of labels, depths, the name table | `branch`, `els`, `block`, `loop`, `brk`, `cont` | each `br` reaches the scope it names |
| Source compiler, variables | `source.py` 157-238, 318-418 | name table, locals | assignment, augmented assignment, stores | compiled code computes what the Python source says |
| Source compiler, expressions | `source.py` 318-418, with the objects it calls | code that waits to be emitted | operators, calls, loads, allocations | what Python does once is done once, and in Python's order |
| Numeric types | `types.py` | none | operators, conversions, literals | a value of a narrow type stays in its range |
| Encodings | `encoding.py` | none | LEB128, names, vectors, sections | a WebAssembly decoder reads back what was encoded |
| Instruction table | `instructions.py` | none | look-up | a constant table |
| Standard library | `stdlib.py` | literals in static data, arrays in the heap | `String`, `Array`: construct, `reserve`, `push`, `free` | elements survive relocation, capacity is honest |
| Inclusion | `module.py` 258-281 | the cache of included libraries | `include` | a failed include leaves nothing behind |
| Markers, errors, package | `control.py`, `errors.py`, `__init__.py` | none | none | |

### How the parts meet

* The source compiler runs *inside* a declaration: while the builder is asked for
  a function, the function's statements ask the builder for an allocator, for
  memory, for static data and for type indices. These change the builder, and a
  later statement may raise; the program may catch that and go on.
* Everything handed to a body is final: an index or address is an operand in an
  instruction, and nothing revisits instructions later. Only the two allocator
  functions are compiled again, at assembly, since their heap start depends on
  all of the static data.
* Compiled code and the allocator share linear memory. The allocator keeps its
  whole state there, in tags between the caller's payloads.
* The source compiler hands expressions around as *code*. What a name is bound to
  is a local, or, for a pointer, the code of an address that each access emits
  again.

There are no threads: one Python program drives the builder and one WebAssembly
instance runs the code. What is hard here is order (of declarations, of calls to
the allocator, of emitted code against written code), operations that fail part
of the way, values that are fixed before they are known, 32-bit arithmetic at the
edges, and the two loops whose end depends on data in memory. `PROJECT.json` lists
every such place under "hazards", with the properties that watch it.

## 2. The modules

| Module | Models | Extended by |
|---|---|---|
| `HeapContract` | what callers of `$malloc` and `$mfree` rely on | implemented by `Allocator`, respected by `ArrayHeap` until an array is refused |
| `Allocator` | the two compiled functions and their caller | `AllocatorProofs` |
| `AllocatorProofs` | the theorems on `Allocator`, after lemmas on rows of tagged blocks | |
| `ArrayContract` | what a program sees of its arrays: sequences | implemented by `ArrayHeap` |
| `ArrayHeap` | `Array[T]` and buffers of `malloc(count)`, over any heap that keeps `HeapContract` | `ArrayHeapProofs` |
| `ArrayHeapProofs` | the theorems on `ArrayHeap`: who owns which grant, what memory holds, and both contracts | |
| `ModuleBuilder` | builder, function registration, static data, assembly | `MCModuleBuilder`, `ModuleBuilderProofs` |
| `ModuleBuilderProofs` | the theorems on `ModuleBuilder` | |
| `Inclusion` | `include()` and its cache | `InclusionProofs` |
| `InclusionProofs` | the theorems on `Inclusion` | |
| `ControlScopes` | lowering of control scopes | `ControlScopesProofs` |
| `ControlScopesProofs` | the theorems on `ControlScopes` | |
| `SourceLocals` | binding of names to locals and to address code | `MCSourceLocals`, `SourceLocalsProofs` |
| `SourceLocalsProofs` | the theorems on `SourceLocals` | |
| `EvaluationOrder` | what runs when, of a statement compiled into code | `EvaluationOrderProofs` |
| `EvaluationOrderProofs` | the theorems on `EvaluationOrder` | |
| `Encoding` | LEB128, written and read | `NumericTypes` |
| `NumericTypes` | operators, conversions, literals and normalisation, on bits | `MCNumericTypes`, `NumericTypesProofs` |
| `NumericTypesProofs` | the theorems on `Encoding` and `NumericTypes`, after lemmas on powers of two and remainders | |

Two specifications meet at `HeapContract`. `Allocator` implements it, which is proved
without exception. `ArrayHeap` is a caller that keeps to it, which is proved up to the
first time the heap returns null to an array. The allocator does return null, when
memory cannot grow (`memory.py` 345-351), and the array code does not look: from
then on it writes at address 0, where the contract lets nobody write (section 4). Up to
there what holds of arrays does not rest on how the allocator finds its blocks;
beyond it neither half promises anything of the other. `NumericTypes` contains `Encoding`: the literals of an expression reach the
stack through its bytes.

Each module contains, before some definition, definitions commented "Mutant":
the same operation with a plausible mistake. They are not part of the
specification; each exists to show that some property notices the mistake.

### Allocator

`mem` is linear memory word by word, `pages` what `memory.size` returns,
`heap_end` the global. `live` is the caller's knowledge: the payload addresses it
holds and the bytes it asked for. `pc`, `request`, `required` and `cursor` are
`$malloc`'s program counter and locals. `$malloc` is one action per iteration of
its loop (`ScanNext`), and per way out of it (`TakeSplit`, `TakeWhole`, `Extend`,
`ExtendFails`); what happens before the loop is `MallocRefused` or
`MallocCalled`. `$mfree` has no loop and is the action `MFree`. Nothing else runs
during a call, so `Store`, the caller's writes to its payloads, waits for it to
return. `ExtendFails` may be taken whenever the heap needs another page: an
engine may refuse `memory.grow` at any time.

A word of memory is a natural number; addresses are below `AddressSpace`, and the
only sum that can leave it, the new end of the heap, is taken modulo it. The
locals `tag`, `remainder` and the like, which live within one iteration, are
operators.

`HeapContract` knows no tags, blocks or heap end. Its `Malloc` returns some
address above the static data, inside memory, apart from every payload the caller
holds, in the alignment of the first payload, and changes no word of these
payloads nor of the static data. `Allocator` implements it with `mem`, `pages`
and `live` mapped to themselves: the steps of the walk are stutters.

### ModuleBuilder

The variables are the builder's fields. An operand that a body carries into the
binary is a record of its kind, the number encoded and the thing meant:
`[kind |-> "call", index |-> 2, to |-> "f"]`. The property `ReferencesResolve`
compares, in the assembled binary, what the number reaches with what was meant.
`building` is the function whose body is being compiled; each operation of a body
that touches the builder is an action, as is its failure (`RefusedStatement`, or
an operation that raises itself). `Register` is the end of
`FunctionCompiler.compile`, where the function gets its index.
`Assembles` is `_assemble` with `_finalize_memory_layout` and the encoder.
Declarations the builder refuses before changing anything are not steps.

All requests for memory in the code ask for it to be exported, so that a
requirement is a number of pages. Debug names and the encoding into bytes are left
out. Names of the allocator's functions start with `$`, which no Python function's
does.

### ControlScopes

`controls`, `control_depth`, `statement_depth` and `bindings` are the compiler's
fields; `open` is its call stack. `labels` is the reference: the label stack that
an engine has at this point of the emitted code. `branch` records, for the last
`br`, the label it reaches by its distance and the label the source text means.

### SourceLocals

One step compiles a statement and runs its code. `bindings`, `local_types` are the
compiler's, `locals` and `memory` the running code's, `env` and `env_memory` what
the same statements mean in Python. An expression is the local it reads plus a
number, and whether it is nothing but a `local.get`: all that decides where its
value is kept. Conversions between `i32` and `u32` emit no code, which is where a
type can be lost; the other conversions produce code and behave like sums.

The code, deliberately or otherwise, departs from Python in three ways (section 4).
Two of them are about values, and with `Disciplined = TRUE` the program avoids them:
it assigns no local that two names stand for. `MeansPython` then says that values
depart in no other way among the statements modelled. The third is about types:
`y = u32(x)` binds `y` to the local of `x`, and both are of the type of that local.
Nothing in the model excludes it. `TypesKeptUnlessShared` says that a variable's type
is lost in this way only: as long as the variables that share a local are of one type
in Python (`OneType`), every variable has the type of the value that declared it.

### EvaluationOrder

The compiler visits a statement in Python's order and hands code around that has
not run yet. A step is one construct; `operands` is the stack of code that waits,
`emitted` what has been emitted, both as sequences of events, and an event's number
is the position at which Python does it. `Materialize` is the function builder's
`materialize`: a load or an allocation is emitted at once, into a local. A call
waits until the end of its statement. `Store`, `AugmentedLoad` and
`AugmentedStore`, `BindPointer`, `ConstructArray` and `PushElement` are the ends of
statements that do more than emit their value. The statements `mfree()`, `reserve()` and
`free()`, which emit their code where they stand, are not constructs of it.

Three places put operands in another order than they were written (keyword
arguments, the index of an indirect call, the target of a store); `crossed` records
the pairs. Three keep code and emit it again (a pointer's address, the capacity of
an array, the target of an augmented assignment); `loose` records its events. The
properties say that nothing else is lost, doubled or overtaken, and by what a call
is overtaken. `CallsRunOnce` makes no exception and does not hold (section 4).

### ArrayHeap

`mem`, `pages` and `live` are the variables of `HeapContract`; `address` is the
local that holds the address of each array, `buffers` the pointers of `malloc(n)`.
Size, capacity and elements are words of `mem`, as in the code. `$malloc` and
`$mfree` are any step the contract permits, and overwrite every word nobody owns
with `Garbage`. `reserve()` is the one operation with a loop: `Reserve` or
`PushGrowing`, then `CopyElement` for each element, then `Relocate`; `PushStored`
ends a `push` that grew. `ByteCount` is the unchecked sum of the constructor and of
`reserve`, `CheckedProduct` the select of `malloc(count)`. Elements are words; of a
longer element the first word is followed, and elements shorter than a word are not
modelled.

Two constants widen what may happen: with `MayWrap` a program asks for capacities
beyond the address space, with `MayRefuse` the allocator may return null to an
array. What is said of arrays is said as long as none has been refused (`Served`).
`ArrayContract` is the abstract specification: an array is a sequence that
grows at its end and that nothing else changes, so that copying and moving are
stutters.

### Encoding and NumericTypes

`WriteByte` is one pass of the loop of `encode_u32` or `_encode_signed`, `ReadByte`
one byte of the engine's reader, which is not in this repository and follows the
definition of LEB128 in the WebAssembly format.

In `NumericTypes` an expression is its MASIC type, the raw bits on the stack, and the
number it should stand for, in exact arithmetic wrapped into the type. The compiled
instructions act on the bits, `Normalized` among them; `BitsMeanTheNumber` compares
the two. Widths are constants, so that types of 2, 3, 4 and 8 bits can stand in for
8, 16, 32 and 64. Values reach an expression as literals, through a parameter
of any narrow type and any bits (normalised when read, so that the host need not),
or as results of imports and values of globals, which are taken as they are:
`HostTyped` says that the host returns values of the types declared. `TablesTyped`
says that the functions of a table have one MASIC signature and not only one
WebAssembly signature.

### Inclusion

`created` lists the namespaces ever made, `cache` is `_included_libraries`, `active`
the stack of libraries whose `_include_into` runs. What a library does is its own: it
includes others in any order, catches what they raise or not, and returns or raises.
`held` records who was handed which namespace.

## 3. The runs

| Run | Module | What it shows |
|---|---|---|
| `alloc` | `Allocator` | all properties of the allocator, its liveness, and `HeapContract`, above static data that looks like free blocks |
| `indices` | `MCModuleBuilder` | function, global, type and table indices, with the allocator installed at any time and bodies that fail |
| `layout` | `MCModuleBuilder` | literals, memory that may be refused, the heap start, and export names |
| `scopes` | `ControlScopes` | every `br`, through any nesting |
| `locals` | `MCSourceLocals` | the values of a disciplined program, and the types of its variables |
| `order` | `EvaluationOrder` | what runs twice, and what runs before what Python does first |
| `array` | `ArrayHeap` | arrays and buffers: storage, growth, contents, the heap's contract, termination of `reserve` |
| `numbers` | `MCNumericTypes` | every operator and conversion on every value, every encoding |
| `inclusion` | `Inclusion` | the cache, with circular and failing includes |

**Bounds, and why they are enough.**

* `alloc`: 80 bytes of address space in five pages of 16 bytes, of which the first
  holds static data, each word of it reading as the footer of a free block: an
  `$mfree` that looked below the heap would merge with it. The heap then holds up to
  three blocks, so that a block freed has a free or an allocated neighbour on
  either side or none; requests of 8 and 12 bytes need 16 and 24, so that a free
  block may fit exactly, with too small a rest, or with a rest worth splitting;
  60 bytes is more than `MaximumRequest`, and the end of the heap reaches every page
  boundary and the top of the address space. The word the caller writes reads as
  a tag of a used block of 16 bytes.
* `indices`, `layout`: two functions of the program, one import, one
  global and one table, and bodies of one operation each. In `layout` one of the
  functions is called `memory`, and the global and the table may be exported as that:
  the name may be taken before memory is first needed, by any of the three ways to
  need it, or after. Index spaces shift when
  something is inserted between two things, and three functions besides the
  allocator's two suffice for that. One literal lies within the first page and one
  crosses into the second. One operation per body is enough since a reference is
  checked on its own; what two operations do to the builder is also what two bodies
  do to it.
* `scopes`: four scopes deep, two names. A name can hide a variable, a scope of the
  same name and a scope between the two; a loop, with two labels, can lie inside
  and outside of each other kind.
* `locals`: one parameter, three other names, four locals, values modulo 2. A name
  can be bound to a parameter, to its own local, to another's, or to a pointer made
  of either; one more local than names gives a load its temporary. Two values
  suffice to tell a variable that changed from one that did not.
* `order`: two statements, five events, three operands that wait. Every property
  compares two events, so that five allow each of the two to lie in an operand of
  another construct; two statements let one's code reach into the next.
* `array`: an address space of 64 bytes, which holds two arrays and a buffer, and an
  array moving while the other is in use; two elements, so that a copy has a first
  and a last pass; a count of 17 words, which wraps (17 * 4 = 68).
* `numbers`: 2, 3, 4 and 8 bits. Each kind of pair of types occurs (narrower than the
  stack or not, of 32 or 64 bits, signed or not), and all values of all types are
  enumerated. Bytes carry three bits, so that the integers take up to three bytes and
  every length has its boundaries.
* `inclusion`: three libraries, which can include each other in a circle through a
  third, and four namespaces, so that one library can be filled a second time after
  a failure.

**Fairness.** The liveness properties are `MallocReturns`, under `WF_vars(Scan)`, and
`ReserveReturns`, under `WF_vars(Loop)`: an engine runs a call it has entered to its
end. Both loops read from memory what decides how long they run. The builder, the source compiler
and the callers are driven by a program that may stop at any time, and no property
assumes that they go on.

Deadlock is not checked for the builder, whose assembled module may have no step
left, for functions, which end, and for the program that uses arrays, which may
have a full heap or stop.

## 4. Where the code and what is said of it differ

Each is a run that TLC refutes; `PROJECT.json` quotes the lines.

| Run | Property | What the code does |
|---|---|---|
| `second_name` | `MeansPython` | after `b = a`, assigning `a` changes `b` |
| `repeated_call` | `CallsRunOnce` | `Array[T](f())` calls `f` twice, for the byte count and for the header |
| `array_wrap` | `CapacityBacked` | a capacity whose byte count wraps is recorded over a storage too small for it |

The models show more. Some of it the runs reach, and the properties name it as the
one exception; the rest they leave out by the value of a constant or by what they ask:

* A pointer made from a variable moves with it, although the docstring of `pointer`
  (`memory.py` 110) speaks of one materialized local (`SourceLocals`,
  `Disciplined = FALSE`).
* `y = u32(x)` binds `y` to an `i32`: a conversion that emits no code leaves no trace
  in the local's type. The run `locals` reaches this; it is what `OneType` excepts in
  `TypesKeptUnlessShared`, which would not hold without that premise.
* `malloc()` takes the export name `memory` although a function, a global or the table
  has it, where the other ways to memory refuse. The run `layout` reaches this;
  `ExportsDistinct` excepts it, and nothing else.
* A literal whose memory was refused, something else having the name `memory`, stays as
  a data segment, and if nothing else needs memory of a module without one. The run
  `layout` reaches this; `HeapAboveData` excepts exactly a binary that has no memory and
  something else of its name.
* `@wasm.start` on an assembled module compiles and registers a function that never
  reaches the binary (`Start` of `ModuleBuilder` has no guard on `closed`).
* When `$malloc` returns null to an array, its header is written at address 0 and its
  elements over the static data; `HeapRespected` fails with `MayRefuse = TRUE`. The
  run `array` has `MayRefuse = FALSE`, and the proofs assume `Served` at every step.
* Results of imports and indirect calls, and globals, are not normalised:
  `BitsMeanTheNumber` fails with `HostTyped = FALSE`. `create_table` compares
  signatures as WebAssembly has them (`module.py` 250) where the syntax guide (line
  253) asks for the same signature, and fails with `TablesTyped = FALSE` in the same way.
* A library that was handed a namespace during a circular include keeps it when the
  include fails, while the next include makes another: `OneNamespace` of `Inclusion`
  does not hold. The syntax guide (lines 173-174) promises the same namespace.

## 5. What is proved

TLAPS proves the following for every value of the constants that satisfies the
modules' named assumptions.

**Allocator**, under `LayoutAssumption`: the page size is positive and a multiple
of 4, the address space consists of whole pages, the heap starts at a multiple of 4
that is at least 4 and below the address space (`max(4, ... & -8)` in
`_finalize_memory_layout`), and requests and words are numbers.

| Theorem | Property |
|---|---|
| `TypeCorrect`, `TagsAgree`, `WalkIsWhole`, `FullyCoalesced`, `GrantsSuffice`, `NoAccessTraps`, `FirstFitWalk`, `NothingLeaks` | each invariant of the run `alloc` |
| `GrowthIsNeeded` | the action property `GrowsOnlyWhenFull` |
| `ContractMet` | `Spec => Contract!Spec`: the allocator implements `HeapContract` |

None of the safety invariants is inductive alone: that `$mfree` reads a footer to
its left needs the tiling, the tiling after `$mfree` needs both tags, and both need
the walk's cursor to stand on a header when a block is taken. The inductive
invariant `IInv` is the conjunction of `TypeOK`, `HeapTiled` (tags, tiling and
coalescing in one), `RequestsFit`, `HeapInMemory`, `ScanServes` (what the walk knows
of its request) and `FirstFit`. `HeapTiled` says that `Blocks`, which is read off the
caller's pointers, is a `Tiling`, a predicate of four parameters; the first
part of `AllocatorProofs` proves, with no mention of the allocator's state, what splitting,
retagging, appending, merging and cutting off blocks do to a tiling. Each action is
then one lemma. The central fact is `BlocksDetermined`: in a coalesced row the
allocated blocks and the end determine all the blocks, so that the headers a walk
meets can be defined from `live` alone.

**ControlScopes**, under `ScopeAssumption`: the depth is bounded by some number and
no name is the reserved one of an anonymous scope.

| Theorem | Property |
|---|---|
| `TypeCorrect`, `CommandsReachTheirScope`, `LabelsAreCounted`, `NamesMeanTheirScope` | each invariant of the run `scopes` |

That a `br` reaches the right label needs to know, for every open scope, which labels
are its own and that the targets recorded for it count from where these begin:
`Laid`, whose witness `pos` gives the number of labels up to each scope. That the
right scope is found by its name needs to know that each frame remembers what its
name meant below it (`Hides`), so that what is restored at the end of a scope, or
between the two bodies of a branch, is again the innermost meaning (`Means`). The
inductive invariant `IInv` of `ControlScopesProofs` joins them. What pushing and
popping a frame do to each is one lemma (`PushFrame`, `PopFrame`, `PushLaid`,
`PopLaid`), and each action one more; `TargetsLaid` is where the two halves meet.

**Encoding and NumericTypes**, under `EncodingAssumption` (a byte carries at least one
bit of the integer, and each kind of integer has an even number of values) and
`WidthAssumption` (the four widths are in their order, and immediates of 32 and 64
bits hold as many values as that).

| Theorem | Property | Also assumed |
|---|---|---|
| `ImmediatesSurvive` | `LoadsWhatWasWritten` | |
| `EncodingsAreShortest` | `ShortestEncoding` | |
| `BitsMean` | `BitsMeanTheNumber` | `HostTyped`, `TablesTyped` |
| `FunctionsUseTheEncoding` | `Spec` of `NumericTypes` implies `EncodingSpec`, so that the first two hold of it as well | |

That nothing is lost follows one quantity through both loops. Each value the encoder's
variable has had is the low bits of its byte plus `Group` times the next one
(`Splits`); so, while the engine reads, the number read so far plus the weight times
the value at its position is the number that was encoded (`Reads`), and the sign of
the last byte supplies exactly what is left (`Rests`). That nothing is wasted follows
the other direction: after n bytes the integer is what they hold plus 2^(7n) times the
value left, and did not fit into fewer bytes (`Longer`); the test that ends the loop
is true of that value exactly if the integer fits into one byte more (`LastFits`).

For numbers the inductive invariant `IInv` says that the bits of the expression are
those of its number, which is in the range of its type (`Meant`), that the parameter's
number is its bits normalised (`LocalMeant`), and that a literal on its way is the one
that was encoded (`TopMeant`, with the `Coded` of the encoding). Every instruction acts
on the exact operands and leaves a number congruent to the exact result modulo the
stack's width, which the width of the type divides, so that normalising gives what
wrapping does (`OperandFacts`, `NormalizedFacts`, `ConvertedFacts`, `InstructionFacts`).
The complement compiled as an exclusive or with ones is the one operation whose bits
have to be followed one by one (`XorOnes`, `XorAbove`, `InvertFacts`). `HostTyped` and
`TablesTyped` are the constants that the run `numbers` sets to `TRUE`; section 4 tells
what happens without them.

Three things these proofs need are not built into the prover. Induction over the
naturals is by the least element of a set (`SetInduction`, from the library's `WFMin`),
since the library's induction rules take an operator; the laws of powers of two are
counted as the subsets of a set (`PowerOfTwo`, from `FS_SUBSET`); and that the
recursive sum in `Bitwise` is defined for every n is `Sums`.

**Inclusion**, for any libraries.

| Theorem | Property |
|---|---|
| `EntriesAreOwned`, `SameNamespace` | each invariant of the run `inclusion` |

Deleting by the library's name what a failing include put into the cache deletes the
right entry because the running includes own theirs, one each (`ActiveOwn`,
`ActiveDiffer`), and because the cache never names a failed namespace (`CacheIsSound`).
That the program is not left with a failed one needs `GivenAtRest`: it is handed a
namespace only when nothing is being filled.

**ArrayHeap**, under `ArrayAssumption`: the address space consists of whole pages, the
static data ends at a word, elements are a positive number of words, and counts are
32-bit numbers.

| Theorem | Property | Also assumed |
|---|---|---|
| `TypeCorrect`, `GrantsHaveOneOwner` | `TypeOK`, `StorageIsOwned` | `[]Served` |
| `CapacitiesAreBacked`, `BuffersAreBacked` | `CapacityBacked`, `BuffersHoldTheirCount` | `[]Served`, `~MayWrap` |
| `HeapIsRespected` | `HeapRespected`: arrays are callers that keep to `HeapContract` | `[]Served`, `~MayWrap` |
| `ArraysMeetContract` | `ArraysAreSequences`: arrays implement `ArrayContract` | `[]Served`, `~MayWrap` |

`Served` says that no array has been given null. It is an assumption on the behaviour and
not on the heap, which may refuse (`MayRefuse` is any Boolean): a heap that refuses a
buffer, whose caller looks, is within the theorems, and of a behaviour with a refused
array they speak up to that step, which is where the code's promise ends. `~MayWrap` is the
constant that the run `array` sets to `FALSE`. Without the two, `HeapRespected`
(section 4) and `CapacityBacked` (run `array_wrap`) do not hold, since the code checks
neither the null of a refused array nor the sum of a capacity. Who owns what does not
depend on capacities at all, and is proved without the second.

The proofs go in three layers. `OwnInv` knows only addresses: grants
are the storages and buffers, each array has one of its own, and so has the storage a
`reserve` is filling (`FreshApart`), without which the step that frees the old storage
might free a stranger's. `MemInv` adds the words of memory: grants lie apart
(`HeapShape`), headers speak of bytes that exist (`HeadersFit`), and a `reserve` or
`push` under way has room for what it will store (`RoomLeft`), which is what makes
`CopyElement` and `PushStored` safe long after the size was read. `Copied` adds what has
been copied so far, so that the array reads the same before and after it moves. The
facts used throughout are `ElementFacts` (an index below the capacity does not wrap and
stays in the storage) and `ElementsApart` and `OwnedApart` (a write to one storage
reaches no header and no element of another).

**ModuleBuilder**, under `BuilderAssumption`: a page has a positive number of bytes and
a literal too, no function of the program has the name of an import, and none of its
globals is called `heap_end` as the allocator's is.

| Theorem | Property |
|---|---|
| `TypeOKHolds`, `ReferencesResolveHolds`, `TypesAgreeHolds` | `TypeOK`, `ReferencesResolve`, `TypesAgree` |
| `IndicesStableHolds` | the action property `IndicesStable` |
| `HeapAboveDataHolds`, `ExportsDistinctHolds` | `HeapAboveData`, `ExportsDistinct` |

The properties speak of the binary, which is written in one step, from everything
declared so far (`WrittenOnce`), so that their proofs are about that step alone. What it
needs is the inductive invariant `IInv`, which says the same of the lists while they
still grow. Every reference in a body, in the body being compiled or in a table is
`Valid`: it names in the lists as they are what it was compiled for. Each step leaves
the lists' elements where they are and only adds to them (`Grows`), and what is valid
stays so (`ValidGrows`); that is why an index may be handed out before the module is
complete, and why imports have to come before functions. Two things are not kept but
replaced, the allocator's functions: `AllocatorPlaced` says that they stand together
at `allocator`, so that the second compilation reaches these and no others, and
`HeapKnownToAllocator` that no other body knows where the heap starts. `DataInOrder` and
`ExportedOnce` are what the last two properties say, before there is a binary;
`MemoryNamed` adds the two ways in which a program's own export named `memory` (a
`Rival`) shows: only with the allocator are there a rival and memory, and only with a
rival is there data without memory.

**SourceLocals**, under `LocalsAssumption`: numbers wrap at some positive size, the
function has some bound on its locals, and its parameters are different names.

| Theorem | Property | Also assumed |
|---|---|---|
| `TypeOKHolds` | `TypeOK` | |
| `TypesKeptUnlessSharedHolds` | `TypesKeptUnlessShared` | |
| `MeansPythonHolds` | `MeansPython` | `Disciplined` |

`Disciplined` is the constant that the run `locals` sets to `TRUE`: no local that two
names stand for is assigned. Section 4 tells how other programs depart from Python.
For types the invariant is `Typing`: as long as the variables that share a local are of
one type, each is of the type of its local. A step that declares a variable on a
local that is there already keeps the premise only if the conversion it may contain
changes nothing, and later ones change neither type (`TypingStep`). For values it is
`Shape`, that bindings, locals and types fit each other, and `Meaning`, that the local
or the address code of each name has Python's value. The
properties speak of the code a name's uses would emit, `Meaning` of the locals and the
environment, which is what a step changes. A statement either adds a local, which no
code yet written can read (`CodeKept`), or sets one: then a disciplined program has no
other name that carries it, and all the others keep their meaning (`OthersKeep`). The
pointers are the case that matters, since the code of an address reads its local at
every access and not where the pointer was made.

**EvaluationOrder**, under `OrderAssumption`: the bounds on events, waiting operands and
statements are numbers.

| Theorem | Property |
|---|---|
| `RunsOnceHolds`, `StatementsInOrderHolds`, `OnlyWaitingIsOvertakenHolds` | each invariant of the run `order` |

The properties look at whole histories of emitted code. The inductive invariant `IInv`
speaks of pairs of events: a pair is `Fine` if the first may run before the second,
because Python orders them so or because the exception the property names excuses it.
What has been emitted is in fine pairs, and so is all of it with what still waits
(`EmittedInOrder`). That this stays true when an operand is emitted needs to know the
order among the waiting ones (`OperandsInOrder`): the code of an operand is in the order
written, except where a construct has crossed two, the codes of two operands lie wholly
before each other, and only calls and reads of globals of the statement being compiled
wait at all. `AllThere` says that no event is lost, and `KeptIsLoose` that what pointers
and targets emit again is not counted. Every construct is then one of a few steps: it
emits new code before everything that waits (`Emission`, `MaterializeStep`), replaces
the operands on top of the stack by one (`Pushed`, `WaitStep`), or ends the statement
(`EndStep`); what is left for its own lemma is the order of its parts. `RunsOnce` follows
since no event is in a fine pair with itself, and counts with the help of `CodeFits`: an
operand's code, whose events are distinct, is no longer than there are events.

**Only model-checked.** `MallocReturns` and `ReserveReturns`, since liveness under
fairness is out of the prover's reach. The three runs that expect a violation are
counterexamples and have nothing to prove.

## 6. What is not modelled

* Floating point, except for conversions between integers and `f64` on integral
  values: nothing in the compiler depends on rounding.
* Names, vectors and sections in bytes, and the debug name section: a length and the
  bytes, which nothing depends on.
* Elements of arrays shorter than a word: they add byte masks to every access and no
  step.
* The table of instructions, the error classes, the package namespaces: constants.
* Reading Python (`inspect`, `ast`), the text of errors and the trace strings:
  input and output. A function the compiler refuses is a compilation that ends early.
* The WebAssembly engine and the host: the engine is what the specification of
  WebAssembly says of memory, locals and labels; the host appears as the caller of
  the allocator.
* A pointer that is freed twice or was never allocated: the README of the project
  calls it unsafe, and the models' caller does not do it.

## 7. Plan

The composition of `ArrayHeap` with `Allocator` itself in place of its contract,
on an instance small enough for TLC.
