---------------------------- MODULE ModuleBuilder ----------------------------
(***************************************************************************)
(* The builder of one WebAssembly module (WebAssembly, FunctionCompiler    *)
(* and _ModuleEncoder of masic/wasm): what a Python program declares, the  *)
(* indices and addresses the builder hands out while it does, and the      *)
(* binary these end up in.                                                 *)
(*                                                                         *)
(* An index or an address is compiled into the body of a function long     *)
(* before the module is complete, and the builder never comes back to it:  *)
(* what it names in the binary has to be what it named when it was given   *)
(* out.  Such an operand is a reference, a record of its kind, the number  *)
(* that is encoded, and the thing the program meant.                       *)
(*                                                                         *)
(* The body of a function is compiled step by step, because a step may     *)
(* change the module (a literal is interned, the allocator is installed)   *)
(* and a later one may raise; the program may catch the exception and go   *)
(* on.  A declaration that is refused before it changes anything is no     *)
(* step of the model.  Everything that asks for memory asks for it to be   *)
(* exported, so that memory is a number of pages, 0 when it is not needed. *)
(***************************************************************************)
EXTENDS Integers, Sequences, SequencesExt

CONSTANTS
  FunctionNames,  \* names of the functions the program declares
  ImportNames,    \* names of the functions it imports
  GlobalNames,    \* the globals it creates
  ExportNames,    \* names it exports globals and tables under
  Signatures,     \* the signatures it uses: [params, result]
  Literals,       \* the string literals: [text, size]
  Operations,     \* what function bodies do
  PageSize,       \* bytes in a page of linear memory (65536)
  MaxOperations   \* bound: operations compiled in one body

ASSUME BuilderAssumption ==
  /\ PageSize \in Nat /\ PageSize > 0
  /\ MaxOperations \in Nat
  /\ \A d \in Literals : d.size \in Nat /\ d.size > 0
  /\ FunctionNames \cap ImportNames = {}
  /\ "heap_end" \notin GlobalNames  \* the allocator's own

None   == -1
NoName == "none"
Void   == [params |-> <<>>, result |-> "none"]

(* The value types of the WebAssembly stack: narrow and unsigned integers  *)
(* are i32 there.                                                          *)
WasmType(t) == IF t \in {"i8", "u8", "i16", "u16", "i32", "u32"} THEN "i32" ELSE t
WasmKey(s)  == <<[i \in DOMAIN s.params |-> WasmType(s.params[i])], WasmType(s.result)>>

AlignUp(x, n) == ((x + n - 1) \div n) * n

Ref(kind, index, to) == [kind |-> kind, index |-> index, to |-> to]

-----------------------------------------------------------------------------
VARIABLES
  imports,           \* declared imports: [index, name, sig]
  functions,         \* declared functions: [index, name, sig, export, body]
  globals,           \* globals: [index, name, export, initial]
  tables,            \* the table, if there is one: [sig, entries, export]
  signatures,        \* the type section
  start_index,       \* index of the start function, or None
  memory,            \* pages of linear memory required so far
  static_segments,   \* interned data: [address, size, text]
  static_end,        \* first address after it
  allocator,         \* index of $malloc, or None
  allocator_global,  \* index of its global, or None
  building,          \* the function being compiled, or Nobody
  inside,            \* the program is in the builder's `with' block
  closed,
  bytecode           \* the encoded module, or Unassembled

declared == <<imports, functions, globals, tables, signatures, start_index>>
static   == <<static_segments, static_end>>
heap     == <<allocator, allocator_global>>
phase    == <<inside, closed, bytecode>>
vars     == <<imports, functions, globals, tables, signatures, start_index,
              memory, static_segments, static_end, allocator, allocator_global,
              building, inside, closed, bytecode>>

Nobody      == [name |-> NoName]
Unassembled == [types |-> None]

Init ==
  /\ imports = <<>> /\ functions = <<>> /\ globals = <<>> /\ tables = <<>>
  /\ signatures = <<>> /\ start_index = None
  /\ memory = 0 /\ static_segments = <<>> /\ static_end = 0
  /\ allocator = None /\ allocator_global = None
  /\ building = Nobody /\ inside = FALSE /\ closed = FALSE
  /\ bytecode = Unassembled

Idle == building = Nobody

HasFunction(name) == \E f \in Range(imports) \cup Range(functions) : f.name = name

(* Mutant: the imports are not counted. *)
NextFunctionIndexLocal == Len(functions)

NextFunctionIndex == Len(imports) + Len(functions)

(* The index of a signature in the type section, where one with the same   *)
(* WebAssembly types is shared, and the section once it has one.           *)
Typed(sigs, s) == \E i \in DOMAIN sigs : WasmKey(sigs[i]) = WasmKey(s)

SignatureIndex(sigs, s) ==
  IF Typed(sigs, s)
  THEN (CHOOSE i \in DOMAIN sigs : WasmKey(sigs[i]) = WasmKey(s)) - 1
  ELSE Len(sigs)

WithSignature(sigs, s) == IF Typed(sigs, s) THEN sigs ELSE Append(sigs, s)

(* Mutant: the exported functions are forgotten. *)
TakenWithoutFunctions ==
  {g.export : g \in Range(globals)} \cup {t.export : t \in Range(tables)}
    \cup (IF memory > 0 THEN {"memory"} ELSE {})

TakenExports ==
  {g.export : g \in Range(globals)} \cup {t.export : t \in Range(tables)}
    \cup {f.name : f \in {g \in Range(functions) : g.export}}
    \cup (IF memory > 0 THEN {"memory"} ELSE {})

ExportFree(name) == name = NoName \/ name \notin TakenExports

-----------------------------------------------------------------------------
(* Declarations *)

Enter == Idle /\ ~closed /\ ~inside /\ inside' = TRUE
         /\ UNCHANGED <<declared, memory, static, heap, building, closed, bytecode>>

RegisterImport(name, sig) ==
  /\ imports' = Append(imports, [index |-> Len(imports), name |-> name, sig |-> sig])
  /\ signatures' = WithSignature(signatures, sig)

(* Mutant: an import may be declared after a function. *)
ImportFuncAnytime(name, sig) ==
  /\ Idle /\ ~closed /\ ~HasFunction(name)
  /\ RegisterImport(name, sig)
  /\ UNCHANGED <<functions, globals, tables, start_index, memory, static, heap, building, phase>>

(* Imports come before every function: they share an index space, and an   *)
(* import declared later would move the functions.                         *)
ImportFunc(name, sig) ==
  /\ Idle /\ ~closed /\ functions = <<>> /\ ~HasFunction(name)
  /\ RegisterImport(name, sig)
  /\ UNCHANGED <<functions, globals, tables, start_index, memory, static, heap, building, phase>>

CreateGlobal(name, export) ==
  /\ Idle /\ ~closed /\ ExportFree(export)
  /\ name \notin {g.name : g \in Range(globals)}
  /\ globals' = Append(globals, [index |-> Len(globals), name |-> name,
                                 export |-> export, initial |-> 0])
  /\ UNCHANGED <<imports, functions, tables, signatures, start_index, memory, static, heap, building, phase>>

(* The functions the program has a handle of: all but the allocator's. *)
Handles == Range(imports) \cup {f \in Range(functions) : f.name \notin {"$malloc", "$mfree"}}

CallRef(f) == Ref("call", f.index, f.name)

(* Mutant: the entries may differ in type. *)
CreateTableMixed(f, g, export) ==
  /\ Idle /\ ~closed /\ tables = <<>> /\ ExportFree(export)
  /\ tables' = <<[sig |-> f.sig, entries |-> <<CallRef(f), CallRef(g)>>, export |-> export]>>
  /\ signatures' = WithSignature(signatures, f.sig)
  /\ UNCHANGED <<imports, functions, globals, start_index, memory, static, heap, building, phase>>

CreateTable(f, g, export) ==
  /\ Idle /\ ~closed /\ tables = <<>> /\ ExportFree(export)
  /\ WasmKey(f.sig) = WasmKey(g.sig)
  /\ tables' = <<[sig |-> f.sig, entries |-> <<CallRef(f), CallRef(g)>>, export |-> export]>>
  /\ signatures' = WithSignature(signatures, f.sig)
  /\ UNCHANGED <<imports, functions, globals, start_index, memory, static, heap, building, phase>>

-----------------------------------------------------------------------------
(* Compiling a function *)

Begin(name, sig, export, start) ==
  /\ Idle /\ ~HasFunction(name)
  /\ building' = [name |-> name, sig |-> sig, export |-> export, start |-> start,
                  body |-> {}, left |-> MaxOperations]
  /\ UNCHANGED <<declared, memory, static, heap, phase>>

Func(name, sig, export) == ~closed /\ Begin(name, sig, export, FALSE)

Start(name) == start_index = None /\ Begin(name, Void, FALSE, TRUE)

Compiles(op) == ~Idle /\ op \in Operations /\ building.left > 0

Emit(refs) == building' = [building EXCEPT !.body = @ \cup refs, !.left = @ - 1]

BodyRaises == building' = Nobody

(* A statement the compiler refuses ends the compilation of the function,  *)
(* not the program.                                                        *)
RefusedStatement ==
  /\ ~Idle /\ BodyRaises
  /\ UNCHANGED <<declared, memory, static, heap, phase>>

CallFunction(f) ==
  /\ Compiles("call") /\ Emit({CallRef(f)})
  /\ UNCHANGED <<declared, memory, static, heap, phase>>

UseGlobal(g) ==
  /\ Compiles("global") /\ Emit({Ref("global", g.index, g.name)})
  /\ UNCHANGED <<declared, memory, static, heap, phase>>

CallIndirect(t) ==
  /\ Compiles("indirect")
  /\ signatures' = WithSignature(signatures, t.sig)
  /\ Emit({Ref("type", SignatureIndex(signatures, t.sig), WasmKey(t.sig))})
  /\ UNCHANGED <<imports, functions, globals, tables, start_index, memory, static, heap, phase>>

(* _ensure_memory: the first to need memory claims its export name. *)
MemoryDenied == memory = 0 /\ ~ExportFree("memory")

EnsureMemory == memory' = IF memory = 0 THEN 1 ELSE memory

(* pointer[T].from_address(...) and an access through it. *)
FromAddress ==
  /\ Compiles("memory")
  /\ IF MemoryDenied
     THEN BodyRaises /\ UNCHANGED memory
     ELSE Emit({Ref("memory", 0, "memory")}) /\ EnsureMemory
  /\ UNCHANGED <<declared, static, heap, phase>>

Interned(d) == {s \in Range(static_segments) : s.text = d.text}

NextAddress == AlignUp(static_end, 4)

(* _intern_static: data already there is shared; new data is recorded      *)
(* before memory is asked for.                                             *)
Intern(d) ==
  IF Interned(d) # {} THEN UNCHANGED static
  ELSE /\ static_segments' = Append(static_segments,
            [address |-> NextAddress, size |-> d.size, text |-> d.text])
       /\ static_end' = NextAddress + d.size

(* Mutant: the address compiled is the one before alignment. *)
AddressUnaligned(d) ==
  IF Interned(d) # {} THEN (CHOOSE s \in Interned(d) : TRUE).address ELSE static_end

AddressOf(d) ==
  IF Interned(d) # {} THEN (CHOOSE s \in Interned(d) : TRUE).address ELSE NextAddress

(* std.String(...): intern the literal, then make a pointer to it. *)
StringLiteral(d) ==
  /\ Compiles("literal")
  /\ IF closed THEN UNCHANGED static ELSE Intern(d)
  /\ IF closed \/ MemoryDenied
     THEN BodyRaises /\ UNCHANGED memory
     ELSE Emit({Ref("data", AddressOf(d), d.text), Ref("memory", 0, "memory")}) /\ EnsureMemory
  /\ UNCHANGED <<declared, heap, phase>>

-----------------------------------------------------------------------------
(* The allocator is installed by the first malloc() or mfree(): its global *)
(* first, then both functions, then memory.                                *)

DefaultHeapStart == 4

AllocatorBody(heap_start, global) ==
  {Ref("global", global, "heap_end"), Ref("heap", heap_start, "heap_start"),
   Ref("memory", 0, "memory")}

AllocatorFunctions(index, heap_start, global) ==
  << [index |-> index, name |-> "$malloc", sig |-> [params |-> <<"u32">>, result |-> "u32"],
      export |-> FALSE, body |-> AllocatorBody(heap_start, global)],
     [index |-> index + 1, name |-> "$mfree", sig |-> [params |-> <<"u32">>, result |-> "none"],
      export |-> FALSE, body |-> AllocatorBody(heap_start, global)] >>

(* Mutant: the allocator's global is taken to be the first one. *)
AllocatorGlobalFirst == IF allocator_global = None THEN 0 ELSE allocator_global

AllocatorGlobal == IF allocator_global = None THEN Len(globals) ELSE allocator_global

EnsureAllocatorGlobal ==
  /\ allocator_global' = AllocatorGlobal
  /\ globals' = IF allocator_global # None THEN globals
                ELSE Append(globals, [index |-> Len(globals), name |-> "heap_end",
                                      export |-> NoName, initial |-> DefaultHeapStart])

InstallAllocator ==
  LET new == AllocatorFunctions(NextFunctionIndex, DefaultHeapStart, AllocatorGlobal)
  IN /\ functions' = functions \o new
     /\ signatures' = WithSignature(WithSignature(signatures, new[1].sig), new[2].sig)
     /\ allocator' = NextFunctionIndex
     /\ EnsureMemory

(* malloc(...); f is "$malloc" or "$mfree", at this offset from $malloc. *)
UseAllocator(f, offset) ==
  /\ Compiles("malloc")
  /\ EnsureAllocatorGlobal
  /\ IF allocator # None THEN UNCHANGED <<functions, signatures, allocator, memory>>
     ELSE IF closed THEN UNCHANGED <<functions, signatures, allocator, memory>>
     ELSE InstallAllocator
  /\ IF allocator = None /\ closed THEN BodyRaises
     ELSE Emit({Ref("call", allocator' + offset, f), Ref("memory", 0, "memory")})
  /\ UNCHANGED <<imports, tables, start_index, static, phase>>

RegisterFunction(f) ==
  /\ functions' = Append(functions, f)
  /\ signatures' = WithSignature(signatures, f.sig)

(* The body is complete: the function gets the next index, unless its name *)
(* has been exported by something else.                                    *)
Register ==
  LET b == building
  IN /\ ~Idle
     /\ building' = Nobody
     /\ IF b.export /\ ~ExportFree(b.name)
        THEN UNCHANGED <<functions, signatures, start_index>>
        ELSE /\ RegisterFunction([index |-> NextFunctionIndex, name |-> b.name,
                                  sig |-> b.sig, export |-> b.export, body |-> b.body])
             /\ start_index' = IF b.start THEN NextFunctionIndex ELSE start_index
     /\ UNCHANGED <<imports, globals, tables, memory, static, heap, phase>>

-----------------------------------------------------------------------------
(* Assembly *)

HeapStart    == Max({4, AlignUp(static_end, 8)})
PagesForData == Max({1, AlignUp(HeapStart, PageSize) \div PageSize})
FinalPages   == IF memory = 0 THEN 0 ELSE Max({memory, PagesForData})

(* Mutant: its index is taken for its place. *)
AllocatorPositionAbsolute == allocator

(* Where the allocator's functions stand among the declared ones. *)
AllocatorPosition == allocator - Len(imports)

(* Both are compiled again, now that the end of the static data is known.  *)
FinalFunctions ==
  LET rebuilt == AllocatorFunctions(allocator, HeapStart, allocator_global)
  IN [i \in DOMAIN functions |->
        IF allocator # None /\ i - 1 - AllocatorPosition \in {0, 1}
        THEN rebuilt[i - AllocatorPosition] ELSE functions[i]]

FinalGlobals ==
  [i \in DOMAIN globals |->
     IF allocator # None /\ i = allocator_global + 1
     THEN [globals[i] EXCEPT !.initial = HeapStart] ELSE globals[i]]

(* A function of the binary: by its place, which is its index there. *)
Entry(f) == [name |-> f.name, sig |-> f.sig, type |-> SignatureIndex(signatures, f.sig)]

(* The export section with these functions; its order does not matter.     *)
ExportsOf(fs) ==
  LET Item(name, kind, index, to) == [name |-> name, ref |-> Ref(kind, index, to)]
  IN {Item(f.name, "call", f.index, f.name) : f \in {g \in Range(fs) : g.export}}
       \cup {Item(g.export, "global", g.index, g.name) : g \in {h \in Range(globals) : h.export # NoName}}
       \cup {Item(t.export, "table", 0, "table") : t \in {u \in Range(tables) : u.export # NoName}}
       \cup (IF memory > 0 THEN {Item("memory", "memory", 0, "memory")} ELSE {})

Encoded ==
  [types   |-> [i \in DOMAIN signatures |-> WasmKey(signatures[i])],
   entries |-> [i \in 1 .. NextFunctionIndex |-> Entry((imports \o FinalFunctions)[i])],
   bodies  |-> [i \in DOMAIN functions |-> FinalFunctions[i].body],
   globals |-> FinalGlobals,
   tables  |-> tables,
   pages   |-> FinalPages,
   exports |-> ExportsOf(FinalFunctions),
   start   |-> start_index,
   data    |-> static_segments]

(* The first assembly is the only one: afterwards it is the same bytes.    *)
Assembles ==
  IF closed THEN UNCHANGED <<functions, globals, memory, closed, bytecode>>
  ELSE /\ functions' = FinalFunctions /\ globals' = FinalGlobals
       /\ memory' = FinalPages
       /\ bytecode' = Encoded /\ closed' = TRUE

(* compile() and save() *)
Compile ==
  /\ Idle /\ Assembles
  /\ UNCHANGED <<imports, tables, signatures, start_index, static, heap, building, inside>>

(* The end of the `with' block; an exception leaves the module open.       *)
Exit ==
  /\ Idle /\ inside /\ inside' = FALSE
  /\ Assembles
  /\ UNCHANGED <<imports, tables, signatures, start_index, static, heap, building>>

ExitRaising ==
  /\ Idle /\ inside /\ inside' = FALSE
  /\ UNCHANGED <<declared, memory, static, heap, building, closed, bytecode>>

-----------------------------------------------------------------------------
Declaration ==
  \/ \E name \in ImportNames, sig \in Signatures : ImportFunc(name, sig)
  \/ \E name \in GlobalNames, export \in ExportNames \cup {NoName} : CreateGlobal(name, export)
  \/ \E f, g \in Handles, export \in ExportNames \cup {NoName} : CreateTable(f, g, export)
  \/ \E name \in FunctionNames, sig \in Signatures, export \in BOOLEAN : Func(name, sig, export)
  \/ \E name \in FunctionNames : Start(name)

Statement ==
  \/ RefusedStatement
  \/ \E f \in Handles : CallFunction(f)
  \/ \E g \in Range(globals) : g.name # "heap_end" /\ UseGlobal(g)
  \/ \E t \in Range(tables) : CallIndirect(t)
  \/ FromAddress
  \/ \E d \in Literals : StringLiteral(d)
  \/ UseAllocator("$malloc", 0) \/ UseAllocator("$mfree", 1)
  \/ Register

Next == Enter \/ Exit \/ ExitRaising \/ Compile \/ Declaration \/ Statement

Spec == Init /\ [][Next]_vars

-----------------------------------------------------------------------------
TypeOK ==
  /\ \A i \in DOMAIN imports : imports[i].index = i - 1
  /\ \A i \in DOMAIN functions : functions[i].index = Len(imports) + i - 1
  /\ \A i \in DOMAIN globals : globals[i].index = i - 1
  /\ Len(tables) <= 1
  /\ start_index \in {None} \cup 0 .. (NextFunctionIndex - 1)
  /\ memory \in Nat /\ static_end \in Nat
  /\ allocator \in {None} \cup 0 .. (NextFunctionIndex - 2)
  /\ allocator_global \in {None} \cup 0 .. (Len(globals) - 1)
  /\ inside \in BOOLEAN /\ closed \in BOOLEAN

Assembled == bytecode # Unassembled

(* What a reference of the binary names is what the program meant.         *)
Resolves(r) ==
  LET At(s) == r.index + 1 \in DOMAIN s
      b     == bytecode
  IN CASE r.kind = "call"   -> At(b.entries) /\ b.entries[r.index + 1].name = r.to
       [] r.kind = "global" -> At(b.globals) /\ b.globals[r.index + 1].name = r.to
       [] r.kind = "type"   -> At(b.types) /\ b.types[r.index + 1] = r.to
       [] r.kind = "data"   -> \E s \in Range(b.data) : s.address = r.index /\ s.text = r.to
       [] r.kind = "memory" -> b.pages > 0
       [] r.kind = "table"  -> At(b.tables)
       [] OTHER             -> TRUE

(* Every call, global access, indirect call, literal, table entry and      *)
(* export of the binary reaches what it was compiled for, whatever was     *)
(* declared, installed or refused after it was compiled.                   *)
ReferencesResolve ==
  Assembled =>
    /\ \A refs \in Range(bytecode.bodies) : \A r \in refs : Resolves(r)
    /\ \A t \in Range(bytecode.tables) : \A r \in Range(t.entries) : Resolves(r)
    /\ \A e \in bytecode.exports : Resolves(e.ref)

(* The type each function and table entry is encoded with is its own, and  *)
(* the function run at instantiation takes and returns nothing.            *)
TypesAgree ==
  Assembled =>
    LET TypeOf(i) == bytecode.types[bytecode.entries[i + 1].type + 1]
    IN /\ \A i \in DOMAIN bytecode.entries :
            TypeOf(i - 1) = WasmKey(bytecode.entries[i].sig)
       /\ \A t \in Range(bytecode.tables) : \A r \in Range(t.entries) :
            TypeOf(r.index) = WasmKey(t.sig)
       /\ bytecode.start # None => TypeOf(bytecode.start) = WasmKey(Void)

(* Something other than memory is exported under its name. *)
MemoryRivalled == \E e \in bytecode.exports : e.name = "memory" /\ e.ref.kind # "memory"

(* No two literals overlap, all lie within the initial pages of memory     *)
(* (unless the binary has none, the name having been taken), and the heap  *)
(* the allocator manages begins after the last one, in both its functions  *)
(* and in its global.                                                      *)
HeapAboveData ==
  Assembled =>
    LET End(s) == s.address + s.size
        starts == {r.index : r \in {q \in UNION Range(bytecode.bodies) : q.kind = "heap"}}
        inits  == {g.initial : g \in {h \in Range(bytecode.globals) : h.name = "heap_end"}}
    IN /\ \A i, j \in DOMAIN bytecode.data :
            i < j => End(bytecode.data[i]) <= bytecode.data[j].address
       /\ \A s \in Range(bytecode.data) :
            /\ End(s) <= bytecode.pages * PageSize \/ (bytecode.pages = 0 /\ MemoryRivalled)
            /\ \A h \in starts : End(s) <= h
       /\ starts # {} => starts = inits /\ \A h \in starts : 0 < h /\ h <= bytecode.pages * PageSize

(* Names are exported once, but for the one malloc() does not ask about:   *)
(* the name of memory, when something else had it before.                  *)
ExportsDistinct ==
  Assembled =>
    \A d, e \in bytecode.exports :
      d.name = e.name => d = e \/ (allocator # None /\ "memory" \in {d.ref.kind, e.ref.kind})

(* An index, once given out, belongs to the same function for good.        *)
IndicesStable ==
  [][IsPrefix([i \in 1 .. NextFunctionIndex |-> (imports \o functions)[i].name],
              [i \in 1 .. NextFunctionIndex |-> (imports \o functions)[i].name]')]_vars
=============================================================================
