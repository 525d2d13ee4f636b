---------------------------- MODULE SourceLocals ----------------------------
(***************************************************************************)
(* How the source compiler (masic/wasm/source.py) keeps the variables and  *)
(* pointers of a function in WebAssembly locals, against what the same     *)
(* statements mean in Python.                                              *)
(*                                                                         *)
(* An expression of the compiler is code, evaluated where it is emitted    *)
(* and not where it is written.  A variable is bound to a local: to one of *)
(* its own, or, when its first value is nothing but a local.get, to the    *)
(* local it reads (materialized_local).  A pointer is bound to the code of *)
(* its address, which every access emits again.                            *)
(*                                                                         *)
(* One step compiles a statement and runs it; between control scopes the   *)
(* code runs in the order it is emitted in.  `env' and `env_memory' follow *)
(* Python.  Numbers are of one size here, and wrap; conversions between    *)
(* sizes produce code, and are values of their own like sums.              *)
(***************************************************************************)
EXTENDS Integers, Sequences, SequencesExt

CONSTANTS
  Names,        \* names the function uses
  Parameters,   \* those of its parameters, in order
  Types,        \* its numeric types
  Modulus,      \* values, and addresses, are 0 .. Modulus-1 (2^32)
  MaxLocals,    \* bound: locals of the function
  Statements,   \* the kinds of statement it uses
  Disciplined   \* it assigns no local that two of its names stand for

Values == 0 .. (Modulus - 1)

ASSUME LocalsAssumption ==
  /\ Modulus \in Nat \ {0} /\ MaxLocals \in Nat
  /\ Parameters \in Seq(Names) /\ IsInjective(Parameters)
  /\ Disciplined \in BOOLEAN

None == 0

(* The code of an expression: the local it reads, or None, plus a number.  *)
(* It is plain when it is that local.get and nothing else.                 *)
Get(i, type)      == [type |-> type, local |-> i, offset |-> 0, plain |-> TRUE]
Constant(v, type) == [type |-> type, local |-> None, offset |-> v, plain |-> FALSE]
Plus(e, v)        == [e EXCEPT !.offset = (@ + v) % Modulus, !.plain = FALSE]

(* Mutant: a conversion changes nothing. *)
CastKept(e, type) == e

(* A conversion between types of one size emits no code. *)
Cast(e, type) == [e EXCEPT !.type = type]

Unbound    == [kind |-> "unbound"]
Local(i)   == [kind |-> "local", local |-> i]
Pointer(e) == [kind |-> "pointer", address |-> e]

Number(v, type) == [kind |-> "local", value |-> v, type |-> type]
Address(v)      == [kind |-> "pointer", value |-> v]

VARIABLES
  bindings,     \* what the compiler binds each name to
  local_types,  \* the types of the locals, parameters first
  locals,       \* their values as the code runs
  memory,       \* the linear memory of the running code
  env,          \* Python: the value of each name
  env_memory    \* Python: the memory

vars == <<bindings, local_types, locals, memory, env, env_memory>>

Init ==
  /\ \E types \in [DOMAIN Parameters -> Types], arguments \in [DOMAIN Parameters -> Values] :
       /\ local_types = types /\ locals = arguments
       /\ env = [n \in Names |->
            IF n \in Range(Parameters)
            THEN LET i == CHOOSE j \in DOMAIN Parameters : Parameters[j] = n
                 IN Number(arguments[i], types[i])
            ELSE Unbound]
  /\ bindings = [n \in Names |->
       IF n \in Range(Parameters)
       THEN Local(CHOOSE j \in DOMAIN Parameters : Parameters[j] = n) ELSE Unbound]
  /\ memory = [a \in Values |-> 0] /\ env_memory = memory

Is(n, kind) == bindings[n].kind = kind

(* Reading a variable, and the address of a pointer. *)
Read(n) == Get(bindings[n].local, local_types[bindings[n].local])

Value(e) == ((IF e.local = None THEN 0 ELSE locals[e.local]) + e.offset) % Modulus

(* The names a local carries the value of.                                 *)
Carries(n, i) ==
  \/ Is(n, "local") /\ bindings[n].local = i
  \/ Is(n, "pointer") /\ bindings[n].address.local = i

(* What the program does without, if it is disciplined. *)
Updates(i) ==
  Disciplined => \A n, m \in Names : Carries(n, i) /\ Carries(m, i) => n = m

-----------------------------------------------------------------------------
(* Assignment *)

(* materialized_local: the local a new variable shares with the expression.*)
Shares(e) == e.plain /\ e.local > Len(Parameters)

(* Mutant: the type of the local is not recorded. *)
StoredUntyped(e) ==
  /\ Len(locals) < MaxLocals
  /\ locals' = Append(locals, Value(e))
  /\ UNCHANGED local_types

(* A new local holds the value. *)
Stored(e) ==
  /\ Len(locals) < MaxLocals
  /\ locals' = Append(locals, Value(e))
  /\ local_types' = Append(local_types, e.type)

(* The first assignment of a name declares it.                             *)
Declare(n, e) ==
  /\ Is(n, "unbound")
  /\ IF Shares(e)
     THEN /\ bindings' = [bindings EXCEPT ![n] = Local(e.local)]
          /\ UNCHANGED <<locals, local_types>>
     ELSE /\ Stored(e)
          /\ bindings' = [bindings EXCEPT ![n] = Local(Len(locals) + 1)]

(* Every later one sets its local. *)
Reassign(n, e) ==
  /\ Is(n, "local") /\ Updates(bindings[n].local)
  /\ locals' = [locals EXCEPT ![bindings[n].local] = Value(e)]
  /\ UNCHANGED <<bindings, local_types>>

Assign(n, e) == Declare(n, e) \/ Reassign(n, e)

(* In Python the name gets the value, and a later value is converted to    *)
(* the type the first one had.                                             *)
Bind(n, value, type) ==
  env' = [env EXCEPT ![n] = Number(value, IF @.kind = "local" THEN @.type ELSE type)]

Uses(kind) == kind \in Statements

(* n = i32(v) *)
AssignLiteral(n, v, type) ==
  /\ Uses("literal") /\ Assign(n, Constant(v, type)) /\ Bind(n, v, type)
  /\ UNCHANGED <<memory, env_memory>>

(* n = m *)
AssignCopy(n, m) ==
  /\ Uses("copy") /\ Is(m, "local") /\ Assign(n, Read(m))
  /\ Bind(n, env[m].value, env[m].type)
  /\ UNCHANGED <<memory, env_memory>>

(* n = u32(m) *)
AssignCast(n, m, type) ==
  /\ Uses("cast") /\ Is(m, "local") /\ Assign(n, Cast(Read(m), type))
  /\ Bind(n, env[m].value, type)
  /\ UNCHANGED <<memory, env_memory>>

(* n = m + v *)
AssignSum(n, m, v) ==
  /\ Uses("sum") /\ Is(m, "local") /\ Assign(n, Plus(Read(m), v))
  /\ Bind(n, (env[m].value + v) % Modulus, env[m].type)
  /\ UNCHANGED <<memory, env_memory>>

(* n += v *)
AugmentedAssign(n, v) ==
  /\ Uses("augmented") /\ Reassign(n, Plus(Read(n), v))
  /\ Bind(n, (env[n].value + v) % Modulus, env[n].type)
  /\ UNCHANGED <<memory, env_memory>>

-----------------------------------------------------------------------------
(* Pointers *)

BindPointer(p, e, value) ==
  /\ bindings' = [bindings EXCEPT ![p] = Pointer(e)]
  /\ env' = [env EXCEPT ![p] = Address(value)]
  /\ UNCHANGED <<memory, env_memory>>

(* p = malloc(...): the address returned is materialized. *)
Malloc(p, a) ==
  /\ Uses("malloc") /\ Is(p, "unbound") /\ Stored(Constant(a, "u32"))
  /\ BindPointer(p, Get(Len(locals) + 1, "u32"), a)

(* p = pointer[T].from_address(v) *)
FromLiteral(p, v) ==
  /\ Uses("from_literal") /\ Is(p, "unbound")
  /\ BindPointer(p, Constant(v, "u32"), v)
  /\ UNCHANGED <<locals, local_types>>

(* p = pointer[T].from_address(m + v): the code is kept as it is. *)
FromVariable(p, m, v) ==
  /\ Uses("from_variable") /\ Is(p, "unbound") /\ Is(m, "local")
  /\ BindPointer(p, Cast(IF v = 0 THEN Read(m) ELSE Plus(Read(m), v), "u32"),
                 (env[m].value + v) % Modulus)
  /\ UNCHANGED <<locals, local_types>>

(* n = p.address *)
AssignAddress(n, p) ==
  /\ Uses("address") /\ Is(p, "pointer") /\ Assign(n, bindings[p].address)
  /\ Bind(n, env[p].value, "u32")
  /\ UNCHANGED <<memory, env_memory>>

(* Mutant: a load is kept in the last local there is. *)
LoadedIntoLast(p) ==
  /\ locals # <<>>
  /\ locals' = [locals EXCEPT ![Len(locals)] = memory[Value(bindings[p].address)]]
  /\ UNCHANGED local_types

(* A load is materialized at once, into a local of its own. *)
Loaded(p) == Stored(Constant(memory[Value(bindings[p].address)], "i32"))

(* n = p[0], the first assignment of n: that local becomes its own.        *)
DeclareLoad(n, p) ==
  /\ Uses("load") /\ Is(n, "unbound") /\ Is(p, "pointer") /\ Loaded(p)
  /\ bindings' = [bindings EXCEPT ![n] = Local(Len(locals'))]
  /\ Bind(n, env_memory[env[p].value], "i32")
  /\ UNCHANGED <<memory, env_memory>>

(* n = p[0], a later one: through the new local into that of n. *)
ReassignLoad(n, p) ==
  /\ Uses("load") /\ Is(n, "local") /\ Is(p, "pointer") /\ Updates(bindings[n].local)
  /\ Len(locals) < MaxLocals
  /\ LET loaded == memory[Value(bindings[p].address)]
     IN locals' = Append([locals EXCEPT ![bindings[n].local] = loaded], loaded)
  /\ local_types' = Append(local_types, "i32")
  /\ Bind(n, env_memory[env[p].value], "i32")
  /\ UNCHANGED <<bindings, memory, env_memory>>

(* p[0] = m *)
Store(p, m) ==
  /\ Uses("store") /\ Is(p, "pointer") /\ Is(m, "local")
  /\ memory' = [memory EXCEPT ![Value(bindings[p].address)] = Value(Read(m))]
  /\ env_memory' = [env_memory EXCEPT ![env[p].value] = env[m].value]
  /\ UNCHANGED <<bindings, local_types, locals, env>>

-----------------------------------------------------------------------------
Next ==
  \E n, m \in Names :
    \/ \E v \in Values, type \in Types : AssignLiteral(n, v, type)
    \/ AssignCopy(n, m)
    \/ \E type \in Types : AssignCast(n, m, type)
    \/ \E v \in Values \ {0} : AssignSum(n, m, v) \/ AugmentedAssign(n, v)
    \/ \E a \in Values : Malloc(n, a) \/ FromLiteral(n, a) \/ FromVariable(n, m, a)
    \/ AssignAddress(n, m) \/ DeclareLoad(n, m) \/ ReassignLoad(n, m) \/ Store(n, m)

Spec == Init /\ [][Next]_vars

-----------------------------------------------------------------------------
TypeOK ==
  /\ Len(locals) = Len(local_types) /\ Range(locals) \subseteq Values
  /\ \A n \in Names :
       /\ Is(n, "local") => bindings[n].local \in DOMAIN locals
       /\ Is(n, "pointer") => bindings[n].address.local \in DOMAIN locals \cup {None}
  /\ memory \in [Values -> Values]

(* After every statement each name has the value Python gives it, pointers *)
(* have the address they were made with, and the memory is Python's.       *)
MeansPython ==
  /\ memory = env_memory
  /\ \A n \in Names :
       /\ bindings[n].kind = env[n].kind
       /\ Is(n, "local") => Value(Read(n)) = env[n].value
       /\ Is(n, "pointer") => Value(bindings[n].address) = env[n].value

(* Names that share a local are of one type in Python. *)
OneType ==
  \A n, m \in Names :
    Is(n, "local") /\ Is(m, "local") /\ bindings[n].local = bindings[m].local => env[n].type = env[m].type

(* A variable has the type of the value that declared it, and so has what  *)
(* is computed from it, as long as no two variables of different types     *)
(* share a local: a conversion is lost only when its result shares the     *)
(* local of what it converts.                                              *)
TypesKeptUnlessShared ==
  OneType => \A n \in Names : Is(n, "local") => Read(n).type = env[n].type
=============================================================================
