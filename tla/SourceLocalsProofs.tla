-------------------------- MODULE SourceLocalsProofs --------------------------
(***************************************************************************)
(* What SourceLocals promises of a function's variables and pointers, for  *)
(* every set of names, parameters and types, every size of numbers and     *)
(* every length of a function.                                             *)
(*                                                                         *)
(* That a compiled program means what it says needs the program to be      *)
(* disciplined: an assignment then sets a local that stands for no other   *)
(* name (Updates), so that every other name keeps its meaning (OthersKeep) *)
(* and only the name assigned is left to show (MeaningStep).               *)
(* That the compiler's tables are sound, and that a type is lost only by   *)
(* sharing a local, needs nothing of the program.                          *)
(***************************************************************************)
EXTENDS SourceLocals, SequenceTheorems, TLAPS

-----------------------------------------------------------------------------
(* The inductive invariant *)

TypeNames == Types \cup {"i32", "u32"}

(* An expression over the locals there are; one that is plain is the value *)
(* of its local.                                                           *)
IsCode(e) ==
  /\ e.type \in TypeNames /\ e.local \in 0 .. Len(locals) /\ e.offset \in Values
  /\ e.plain => e.local # None /\ e.offset = 0

BindingOK(n) ==
  /\ bindings[n].kind \in {"unbound", "local", "pointer"}
  /\ Is(n, "local") => bindings[n].local \in 1 .. Len(locals)
  /\ Is(n, "pointer") => IsCode(bindings[n].address) /\ bindings[n].address.type = "u32"

(* The compiler's tables and the running code's state fit each other.      *)
Shape ==
  /\ locals \in Seq(Values) /\ local_types \in Seq(TypeNames) /\ Len(local_types) = Len(locals)
  /\ bindings = [n \in Names |-> bindings[n]] /\ env = [n \in Names |-> env[n]]
  /\ \A n \in Names : BindingOK(n)
  /\ memory \in [Values -> Values]

(* A name means what Python says: its local or its address has the value.  *)
Means(n) ==
  /\ bindings[n].kind = env[n].kind
  /\ Is(n, "local") => locals[bindings[n].local] = env[n].value
  /\ Is(n, "pointer") => Value(bindings[n].address) = env[n].value

Meaning == memory = env_memory /\ \A n \in Names : Means(n)

IInv == Shape /\ Meaning

(* A variable's local has its type.                                        *)
Typed(n) == Is(n, "local") => local_types[bindings[n].local] = env[n].type

(* The local a pointer's address reads is a variable's, or one made for an *)
(* address.                                                                *)
Anchored(n) ==
  LET i == bindings[n].address.local
  IN Is(n, "pointer") /\ i # None =>
       \/ local_types[i] = "u32"
       \/ \E m \in Names : Is(m, "local") /\ bindings[m].local = i

(* What the compiler knows of types, as long as no two variables of        *)
(* different types share a local.                                          *)
Typing ==
  /\ \A n \in Names : bindings[n].kind = env[n].kind /\ Anchored(n)
  /\ OneType => \A n \in Names : Typed(n)

TInv == Shape /\ Typing

-----------------------------------------------------------------------------
(* Values and expressions *)

LEMMA Wraps ==
  /\ \A x \in Nat : x % Modulus \in Values
  /\ \A x \in Values : x % Modulus = x /\ x \in Nat
  /\ 0 \in Values
  BY LocalsAssumption DEF Values

LEMMA LocalFacts ==
  ASSUME Shape
  PROVE  /\ Len(locals) \in Nat
         /\ DOMAIN locals = 1 .. Len(locals) /\ DOMAIN local_types = 1 .. Len(locals)
         /\ \A i \in 1 .. Len(locals) : locals[i] \in Values /\ local_types[i] \in TypeNames
<1>1. locals \in [1 .. Len(locals) -> Values] /\ Len(locals) \in Nat
  BY LenProperties DEF Shape
<1>2. local_types \in [1 .. Len(locals) -> TypeNames]
  BY LenProperties DEF Shape
<1> QED
  BY <1>1, <1>2

(* What an expression is worth.                                            *)
LEMMA CodeValue ==
  ASSUME Shape, NEW e, IsCode(e)
  PROVE  /\ Value(e) \in Values
         /\ e.local = None => Value(e) = e.offset
         /\ e.plain => Value(e) = locals[e.local]
<1>1. e.local # None => locals[e.local] \in Values
  BY LocalFacts DEF IsCode, None
<1>2. PICK base \in Nat : base = IF e.local = None THEN 0 ELSE locals[e.local]
  BY <1>1, Wraps
<1>3. e.offset \in Nat /\ e.offset \in Values
  BY Wraps DEF IsCode
<1>4. Value(e) = (base + e.offset) % Modulus /\ base + e.offset \in Nat
  BY <1>2, <1>3 DEF Value
<1>5. ASSUME e.local = None
      PROVE  Value(e) = e.offset
  BY <1>2, <1>3, <1>4, <1>5, Wraps
<1>6. ASSUME e.plain
      PROVE  Value(e) = locals[e.local]
  BY <1>1, <1>2, <1>4, <1>6, Wraps DEF IsCode
<1> QED
  BY <1>4, <1>5, <1>6, Wraps

LEMMA ConstantCode ==
  ASSUME Shape, NEW v \in Values, NEW type \in TypeNames
  PROVE  /\ IsCode(Constant(v, type)) /\ Value(Constant(v, type)) = v
         /\ Constant(v, type).type = type
<1>1. PICK e : e = Constant(v, type)
  OBVIOUS
<1>2. e.type = type /\ e.local = None /\ e.offset = v /\ e.plain = FALSE
  BY <1>1 DEF Constant
<1>3. IsCode(e)
  BY <1>2, LocalFacts DEF IsCode, None
<1> QED
  BY <1>1, <1>2, <1>3, CodeValue

(* A variable, and a variable plus a number.                               *)
LEMMA ReadCode ==
  ASSUME Shape, NEW n \in Names, Is(n, "local")
  PROVE  /\ IsCode(Read(n)) /\ Value(Read(n)) = locals[bindings[n].local]
         /\ Read(n).type = local_types[bindings[n].local]
         /\ Read(n).local = bindings[n].local /\ bindings[n].local \in 1 .. Len(locals)
<1>1. PICK e : e = Read(n)
  OBVIOUS
<1>2. /\ e.type = local_types[bindings[n].local] /\ e.local = bindings[n].local
      /\ e.offset = 0 /\ e.plain = TRUE
  BY <1>1 DEF Read, Get
<1>3. bindings[n].local \in 1 .. Len(locals)
  BY DEF Shape, BindingOK
<1>4. IsCode(e)
  BY <1>2, <1>3, LocalFacts, Wraps DEF IsCode, None
<1> QED
  BY <1>1, <1>2, <1>3, <1>4, CodeValue

LEMMA PlusCode ==
  ASSUME Shape, NEW n \in Names, Is(n, "local"), NEW v \in Values
  PROVE  /\ IsCode(Plus(Read(n), v))
         /\ Value(Plus(Read(n), v)) = (locals[bindings[n].local] + v) % Modulus
         /\ Plus(Read(n), v).type = local_types[bindings[n].local]
         /\ Plus(Read(n), v).local = bindings[n].local
<1>1. PICK e : e = Plus(Read(n), v)
  OBVIOUS
<1>2. (0 + v) % Modulus = v
  BY Wraps
<1>3. /\ e.type = local_types[bindings[n].local] /\ e.local = bindings[n].local
      /\ e.offset = v /\ e.plain = FALSE
  BY <1>1, <1>2 DEF Plus, Read, Get
<1>4. bindings[n].local \in 1 .. Len(locals) /\ IsCode(Read(n)) /\ Read(n).type = e.type
  BY <1>3, ReadCode
<1>5. IsCode(e)
  BY <1>3, <1>4, LocalFacts DEF IsCode, None
<1>6. Value(e) = (locals[bindings[n].local] + v) % Modulus
  BY <1>3, <1>4, LocalFacts DEF Value, None
<1> QED
  BY <1>1, <1>3, <1>5, <1>6

LEMMA CastCode ==
  ASSUME NEW e, IsCode(e), e = [type |-> e.type, local |-> e.local, offset |-> e.offset, plain |-> e.plain],
         NEW type \in TypeNames
  PROVE  /\ IsCode(Cast(e, type)) /\ Value(Cast(e, type)) = Value(e)
         /\ Cast(e, type).type = type /\ Cast(e, type).local = e.local
<1>1. PICK c : c = Cast(e, type)
  OBVIOUS
<1>2. c = [type |-> type, local |-> e.local, offset |-> e.offset, plain |-> e.plain]
  BY <1>1 DEF Cast
<1> QED
  BY <1>1, <1>2 DEF IsCode, Value

-----------------------------------------------------------------------------
(* What a statement does to the locals *)

(* A new local.                                                            *)
LEMMA StoredFacts ==
  ASSUME Shape, NEW e, IsCode(e), Stored(e)
  PROVE  /\ locals' \in Seq(Values) /\ local_types' \in Seq(TypeNames)
         /\ Len(locals') = Len(locals) + 1 /\ Len(local_types') = Len(locals')
         /\ \A i \in 1 .. Len(locals) : locals'[i] = locals[i] /\ local_types'[i] = local_types[i]
         /\ locals'[Len(locals) + 1] = Value(e) /\ local_types'[Len(locals) + 1] = e.type
<1>1. locals' = Append(locals, Value(e)) /\ local_types' = Append(local_types, e.type)
  BY DEF Stored
<1>2. Value(e) \in Values /\ e.type \in TypeNames
  BY CodeValue DEF IsCode
<1>3. /\ locals' \in Seq(Values) /\ Len(locals') = Len(locals) + 1
      /\ \A i \in 1 .. Len(locals) : locals'[i] = locals[i]
      /\ locals'[Len(locals) + 1] = Value(e)
  BY <1>1, <1>2, AppendProperties DEF Shape
<1>4. /\ local_types' \in Seq(TypeNames) /\ Len(local_types') = Len(locals) + 1
      /\ \A i \in 1 .. Len(locals) : local_types'[i] = local_types[i]
      /\ local_types'[Len(locals) + 1] = e.type
  BY <1>1, <1>2, AppendProperties DEF Shape
<1> QED
  BY <1>3, <1>4

(* A local that is set.                                                    *)
LEMMA SetFacts ==
  ASSUME Shape, NEW i \in 1 .. Len(locals), NEW v \in Values
  PROVE  /\ [locals EXCEPT ![i] = v] \in Seq(Values) /\ Len([locals EXCEPT ![i] = v]) = Len(locals)
         /\ \A j \in 1 .. Len(locals) : [locals EXCEPT ![i] = v][j] = IF j = i THEN v ELSE locals[j]
  BY ExceptSeq DEF Shape

-----------------------------------------------------------------------------
(* A statement that changes what one name is bound to *)

LEMMA ShapeStep ==
  ASSUME Shape, NEW n \in Names,
         locals' \in Seq(Values), local_types' \in Seq(TypeNames), Len(local_types') = Len(locals'),
         Len(locals) <= Len(locals'),
         NEW b, bindings' = [bindings EXCEPT ![n] = b], NEW v, env' = [env EXCEPT ![n] = v],
         BindingOK(n)', memory' \in [Values -> Values]
  PROVE  /\ Shape' /\ bindings'[n] = b /\ env'[n] = v
         /\ \A m \in Names \ {n} : bindings'[m] = bindings[m] /\ env'[m] = env[m]
<1>1. /\ bindings' = [m \in Names |-> bindings'[m]] /\ env' = [m \in Names |-> env'[m]]
      /\ bindings'[n] = b /\ env'[n] = v
      /\ \A m \in Names \ {n} : bindings'[m] = bindings[m] /\ env'[m] = env[m]
  BY DEF Shape
<1>2. Len(locals) \in Nat /\ Len(locals') \in Nat
  BY LenProperties DEF Shape
<1>3. ASSUME NEW e, IsCode(e)
      PROVE  IsCode(e)'
  BY <1>2, <1>3 DEF IsCode
<1>4. ASSUME NEW m \in Names \ {n}
      PROVE  BindingOK(m)'
  <2>1. BindingOK(m) /\ bindings'[m] = bindings[m]
    BY <1>1 DEF Shape
  <2>2. Is(m, "local") => bindings[m].local \in 1 .. Len(locals')
    BY <1>2, <2>1 DEF BindingOK
  <2>3. Is(m, "pointer") => IsCode(bindings[m].address)'
    BY <1>3, <2>1 DEF BindingOK
  <2> QED
    BY <2>1, <2>2, <2>3 DEF BindingOK, Is
<1>5. \A m \in Names : BindingOK(m)'
  BY <1>4
<1> QED
  BY <1>1, <1>5 DEF Shape

(* The others keep their meaning if their locals do.                       *)
LEMMA MeaningStep ==
  ASSUME Shape, Meaning, NEW n \in Names,
         \A m \in Names \ {n} : bindings'[m] = bindings[m] /\ env'[m] = env[m],
         \A m \in Names \ {n} : \A i \in 1 .. Len(locals) :
           Carries(m, i) => locals'[i] = locals[i],
         Means(n)', memory' = env_memory'
  PROVE  Meaning'
<1>1. ASSUME NEW m \in Names \ {n}
      PROVE  Means(m)'
  <2>1. Means(m) /\ BindingOK(m) /\ bindings'[m] = bindings[m] /\ env'[m] = env[m]
    BY DEF Meaning, Shape
  <2>2. ASSUME Is(m, "local")
        PROVE  locals'[bindings[m].local] = locals[bindings[m].local]
    BY <2>1, <2>2 DEF BindingOK, Carries
  <2>3. ASSUME Is(m, "pointer")
        PROVE  Value(bindings[m].address)' = Value(bindings[m].address)
    <3>1. IsCode(bindings[m].address)
      BY <2>1, <2>3 DEF BindingOK
    <3>2. bindings[m].address.local # None => bindings[m].address.local \in 1 .. Len(locals)
      BY <3>1, LocalFacts DEF IsCode, None
    <3>3. bindings[m].address.local # None =>
            locals'[bindings[m].address.local] = locals[bindings[m].address.local]
      BY <2>3, <3>2 DEF Carries
    <3> QED
      BY <2>1, <3>3 DEF Value
  <2> QED
    BY <2>1, <2>2, <2>3 DEF Means, Is
<1> QED
  BY <1>1 DEF Meaning

(* A local that no other name stands for is set, or one is added.          *)
LEMMA OthersKeep ==
  ASSUME Disciplined, Shape, NEW n \in Names, Is(n, "local"), Updates(bindings[n].local)
  PROVE  \A m \in Names \ {n} : \A i \in 1 .. Len(locals) : Carries(m, i) => i # bindings[n].local
  BY DEF Updates, Carries

(* Types keep fitting if those of the name a statement binds do.           *)
LEMMA TypingStep ==
  ASSUME Shape, Typing, NEW n \in Names,
         \A m \in Names \ {n} : bindings'[m] = bindings[m] /\ env'[m] = env[m],
         \A i \in 1 .. Len(locals) : local_types'[i] = local_types[i],
         \/ Is(n, "unbound")
         \/ Is(n, "local") /\ bindings'[n] = bindings[n] /\ env'[n].type = env[n].type,
         bindings'[n].kind = env'[n].kind, Anchored(n)',
         Is(n, "unbound") /\ OneType' /\ (\A m \in Names \ {n} : Typed(m)) => Typed(n)'
  PROVE  Typing'
<1>1. \A m \in Names : Is(m, "local") => Is(m, "local")' /\ bindings'[m].local = bindings[m].local
                                         /\ bindings[m].local \in 1 .. Len(locals)
  BY DEF Is, Shape, BindingOK
<1>2. ASSUME NEW m \in Names
      PROVE  bindings'[m].kind = env'[m].kind /\ Anchored(m)'
  <2>1. CASE m # n /\ Is(m, "pointer") /\ bindings[m].address.local # None
    <3>1. PICK i : i = bindings[m].address.local
      OBVIOUS
    <3>2. i \in 1 .. Len(locals)
      BY <2>1, <3>1, LocalFacts DEF Shape, BindingOK, IsCode, None
    <3>3. Anchored(m) /\ local_types'[i] = local_types[i] /\ bindings'[m] = bindings[m] /\ env'[m] = env[m]
      BY <2>1, <3>2 DEF Typing
    <3>4. local_types[i] = "u32" \/ \E k \in Names : Is(k, "local") /\ bindings[k].local = i
      BY <2>1, <3>1, <3>3 DEF Anchored
    <3>5. local_types'[i] = "u32" \/ \E k \in Names : Is(k, "local")' /\ bindings'[k].local = i
      BY <1>1, <3>3, <3>4
    <3> QED
      BY <3>1, <3>3, <3>5 DEF Anchored, Typing
  <2>2. CASE m # n /\ ~(Is(m, "pointer") /\ bindings[m].address.local # None)
    BY <2>2 DEF Anchored, Typing, Is
  <2> QED
    BY <2>1, <2>2
<1>3. ASSUME OneType'
      PROVE  \A m \in Names : Typed(m)'
  <2>1. \A m \in Names : Is(m, "local") => env'[m].type = env[m].type
    BY DEF Is
  <2>2. OneType
    BY <1>1, <1>3, <2>1 DEF OneType
  <2>3. \A m \in Names : Typed(m)
    BY <2>2 DEF Typing
  <2>4. \A m \in Names : Is(m, "local") => Typed(m)'
    BY <1>1, <2>1, <2>3 DEF Typed
  <2>5. Typed(n)'
    BY <1>3, <2>3, <2>4
  <2>6. \A m \in Names \ {n} : Is(m, "local")' => Is(m, "local")
    BY DEF Is
  <2> QED
    BY <2>4, <2>5, <2>6 DEF Typed
<1> QED
  BY <1>2, <1>3 DEF Typing

-----------------------------------------------------------------------------
(* Assignment *)

(* Declared or set, the name stands for a local with the value.            *)
LEMMA AssignFacts ==
  ASSUME Shape, NEW n \in Names, NEW e, IsCode(e), Assign(n, e)
  PROVE  \E b :
           /\ bindings' = [bindings EXCEPT ![n] = b]
           /\ b.kind = "local" /\ b.local \in 1 .. Len(locals') /\ locals'[b.local] = Value(e)
           /\ locals' \in Seq(Values) /\ local_types' \in Seq(TypeNames)
           /\ Len(local_types') = Len(locals') /\ Len(locals) <= Len(locals')
           /\ \A i \in 1 .. Len(locals) : local_types'[i] = local_types[i]
           /\ \/ bindings[n].kind = "unbound" /\ e.plain /\ b.local = e.local /\ local_types' = local_types
              \/ bindings[n].kind = "unbound" /\ local_types'[b.local] = e.type
              \/ bindings[n].kind = "local" /\ b = bindings[n]
           /\ Disciplined => \A m \in Names \ {n} : \A i \in 1 .. Len(locals) :
                Carries(m, i) => locals'[i] = locals[i]
<1>0. Len(locals) \in Nat
  BY LocalFacts
<1>1. CASE Declare(n, e) /\ Shares(e)
  <2>1. PICK b : b = Local(e.local)
    OBVIOUS
  <2>2. /\ e.plain /\ bindings[n].kind = "unbound"
        /\ bindings' = [bindings EXCEPT ![n] = b]
        /\ locals' = locals /\ local_types' = local_types
    BY <1>1, <2>1 DEF Declare, Shares, Is
  <2>3. b.kind = "local" /\ b.local = e.local
    BY <2>1 DEF Local
  <2>4. e.local \in 1 .. Len(locals)
    BY <1>0, <2>2 DEF IsCode, None
  <2>5. locals[e.local] = Value(e)
    BY <2>2, CodeValue
  <2>6. /\ locals' \in Seq(Values) /\ local_types' \in Seq(TypeNames)
        /\ Len(local_types') = Len(locals') /\ Len(locals) <= Len(locals')
    BY <1>0, <2>2 DEF Shape
  <2>7. b.local \in 1 .. Len(locals') /\ locals'[b.local] = Value(e)
    BY <2>2, <2>3, <2>4, <2>5
  <2>8. \A i \in 1 .. Len(locals) : locals'[i] = locals[i] /\ local_types'[i] = local_types[i]
    BY <2>2
  <2> QED
    BY <2>2, <2>3, <2>6, <2>7, <2>8
<1>2. CASE Declare(n, e) /\ ~Shares(e)
  <2>1. PICK b : b = Local(Len(locals) + 1)
    OBVIOUS
  <2>2. Stored(e) /\ bindings[n].kind = "unbound" /\ bindings' = [bindings EXCEPT ![n] = b]
    BY <1>2, <2>1 DEF Declare, Is
  <2>3. b.kind = "local" /\ b.local = Len(locals) + 1
    BY <2>1 DEF Local
  <2>4. /\ locals' \in Seq(Values) /\ local_types' \in Seq(TypeNames)
        /\ Len(locals') = Len(locals) + 1 /\ Len(local_types') = Len(locals')
        /\ \A i \in 1 .. Len(locals) : locals'[i] = locals[i] /\ local_types'[i] = local_types[i]
        /\ locals'[Len(locals) + 1] = Value(e) /\ local_types'[Len(locals) + 1] = e.type
    BY <2>2, StoredFacts
  <2>5. b.local \in 1 .. Len(locals') /\ Len(locals) <= Len(locals')
    BY <1>0, <2>3, <2>4
  <2> QED
    BY <2>2, <2>3, <2>4, <2>5
<1>3. CASE Reassign(n, e)
  <2>1. PICK b, i : b = bindings[n] /\ i = bindings[n].local
    OBVIOUS
  <2>2. /\ Is(n, "local") /\ Updates(bindings[n].local)
        /\ locals' = [locals EXCEPT ![i] = Value(e)]
        /\ bindings' = bindings /\ local_types' = local_types
    BY <1>3, <2>1 DEF Reassign
  <2>3. b.kind = "local" /\ i \in 1 .. Len(locals) /\ bindings' = [bindings EXCEPT ![n] = b]
    BY <2>1, <2>2 DEF Shape, BindingOK, Is
  <2>4. Value(e) \in Values
    BY CodeValue
  <2>5. /\ locals' \in Seq(Values) /\ Len(locals') = Len(locals)
        /\ \A j \in 1 .. Len(locals) : locals'[j] = IF j = i THEN Value(e) ELSE locals[j]
    <3>1. PICK w, ls : w = Value(e) /\ ls = [locals EXCEPT ![i] = w]
      OBVIOUS
    <3>2. w \in Values /\ i \in 1 .. Len(locals)
      BY <2>3, <2>4, <3>1
    <3>3. /\ [locals EXCEPT ![i] = w] \in Seq(Values) /\ Len([locals EXCEPT ![i] = w]) = Len(locals)
          /\ \A j \in 1 .. Len(locals) : [locals EXCEPT ![i] = w][j] = IF j = i THEN w ELSE locals[j]
      BY <3>2, SetFacts
    <3> QED
      BY <2>2, <3>1, <3>3
  <2>6. Disciplined => \A m \in Names \ {n} : \A j \in 1 .. Len(locals) : Carries(m, j) => j # i
    BY <2>1, <2>2, OthersKeep
  <2>7. local_types' \in Seq(TypeNames) /\ Len(local_types') = Len(locals') /\ Len(locals) <= Len(locals')
    BY <1>0, <2>2, <2>5 DEF Shape
  <2>8. locals'[b.local] = Value(e) /\ b.local \in 1 .. Len(locals')
    BY <2>1, <2>3, <2>5
  <2>9. Disciplined => \A m \in Names \ {n} : \A j \in 1 .. Len(locals) :
          Carries(m, j) => locals'[j] = locals[j]
    BY <2>5, <2>6
  <2> QED
    BY <2>1, <2>2, <2>3, <2>5, <2>7, <2>8, <2>9
<1> QED
  BY <1>1, <1>2, <1>3 DEF Assign

(* Where the type of an expression comes from: it has the type it has in   *)
(* Python if variables have theirs, and one that is only a local.get reads *)
(* a local of that type or a variable's.                                   *)
TypedCode(e, type) ==
  /\ OneType => e.type = type
  /\ e.plain => \/ local_types[e.local] = type
                \/ \E m \in Names : Is(m, "local") /\ bindings[m].local = e.local

(* In every assignment Python's value and type are those of the code.      *)
LEMMA AssignStep ==
  ASSUME Shape, NEW n \in Names, NEW e, IsCode(e), Assign(n, e), NEW value, NEW type,
         Bind(n, value, type), UNCHANGED <<memory, env_memory>>
  PROVE  /\ Shape'
         /\ Disciplined /\ Meaning /\ Value(e) = value => Meaning'
         /\ Typing /\ TypedCode(e, type) => Typing'
<1>1. PICK b :
        /\ bindings' = [bindings EXCEPT ![n] = b]
        /\ b.kind = "local" /\ b.local \in 1 .. Len(locals') /\ locals'[b.local] = Value(e)
        /\ locals' \in Seq(Values) /\ local_types' \in Seq(TypeNames)
        /\ Len(local_types') = Len(locals') /\ Len(locals) <= Len(locals')
        /\ \A i \in 1 .. Len(locals) : local_types'[i] = local_types[i]
        /\ \/ bindings[n].kind = "unbound" /\ e.plain /\ b.local = e.local /\ local_types' = local_types
           \/ bindings[n].kind = "unbound" /\ local_types'[b.local] = e.type
           \/ bindings[n].kind = "local" /\ b = bindings[n]
        /\ Disciplined => \A m \in Names \ {n} : \A i \in 1 .. Len(locals) :
             Carries(m, i) => locals'[i] = locals[i]
  BY AssignFacts
<1>2. PICK v : v = Number(value, IF env[n].kind = "local" THEN env[n].type ELSE type)
  OBVIOUS
<1>3. env' = [env EXCEPT ![n] = v]
  BY <1>2 DEF Bind
<1>4. bindings'[n] = b /\ memory' \in [Values -> Values]
  BY <1>1 DEF Shape
<1>5. BindingOK(n)'
  BY <1>1, <1>4 DEF BindingOK, Is
<1>6. /\ Shape' /\ env'[n] = v
      /\ \A m \in Names \ {n} : bindings'[m] = bindings[m] /\ env'[m] = env[m]
  BY <1>1, <1>3, <1>4, <1>5, ShapeStep
<1>7. v.kind = "local" /\ v.value = value /\ v.type = IF env[n].kind = "local" THEN env[n].type ELSE type
  BY <1>2 DEF Number
<1>8. ASSUME Disciplined, Meaning, Value(e) = value
      PROVE  Meaning'
  <2>1. Means(n)'
    BY <1>1, <1>4, <1>6, <1>7, <1>8 DEF Means, Is
  <2>2. memory' = env_memory'
    BY <1>8 DEF Meaning
  <2>3. \A m \in Names \ {n} : \A i \in 1 .. Len(locals) : Carries(m, i) => locals'[i] = locals[i]
    BY <1>1, <1>8
  <2> QED
    BY <1>6, <1>8, <2>1, <2>2, <2>3, MeaningStep
<1>9. ASSUME Typing, TypedCode(e, type)
      PROVE  Typing'
  <2>1. bindings[n].kind = env[n].kind
    BY <1>9 DEF Typing
  <2>2. \/ Is(n, "unbound")
        \/ Is(n, "local") /\ bindings'[n] = bindings[n] /\ env'[n].type = env[n].type
    BY <1>1, <1>4, <1>6, <1>7, <2>1 DEF Is
  <2>3. bindings'[n].kind = env'[n].kind /\ Anchored(n)'
    BY <1>1, <1>4, <1>6, <1>7 DEF Anchored, Is
  <2>4. ASSUME Is(n, "unbound"), OneType', \A m \in Names \ {n} : Typed(m)
        PROVE  Typed(n)'
    <3>1. env'[n].type = type
      BY <1>6, <1>7, <2>1, <2>4 DEF Is
    <3>2. \A m \in Names : Is(m, "local") =>
            Is(m, "local")' /\ bindings'[m].local = bindings[m].local /\ env'[m].type = env[m].type
      BY <1>6, <2>4 DEF Is
    <3>3. OneType
      BY <2>4, <3>2 DEF OneType
    <3>4. CASE e.plain /\ b.local = e.local /\ local_types' = local_types
      <4>1. CASE local_types[e.local] = type
        BY <1>4, <3>1, <3>4, <4>1 DEF Typed
      <4>2. CASE \E m \in Names : Is(m, "local") /\ bindings[m].local = e.local
        <5>1. PICK m \in Names : Is(m, "local") /\ bindings[m].local = e.local
          BY <4>2
        <5>2. m # n /\ local_types[e.local] = env[m].type
          BY <2>4, <5>1 DEF Typed, Is
        <5>3. Is(n, "local")' /\ bindings'[n].local = bindings'[m].local /\ Is(m, "local")'
          BY <1>1, <1>4, <3>2, <3>4, <5>1 DEF Is
        <5>4. env'[m].type = env'[n].type
          BY <2>4, <5>3 DEF OneType
        <5> QED
          BY <1>4, <3>2, <3>4, <5>1, <5>2, <5>4 DEF Typed
      <4> QED
        BY <1>9, <3>4, <4>1, <4>2 DEF TypedCode
    <3>5. CASE local_types'[b.local] = e.type
      BY <1>4, <1>9, <3>1, <3>3, <3>5 DEF Typed, TypedCode
    <3> QED
      BY <1>1, <2>4, <3>4, <3>5 DEF Is
  <2> QED
    BY <1>1, <1>6, <1>9, <2>2, <2>3, <2>4, TypingStep
<1> QED
  BY <1>6, <1>8, <1>9

-----------------------------------------------------------------------------
(* Pointers *)

LocalsKept ==
  /\ locals' \in Seq(Values) /\ local_types' \in Seq(TypeNames)
  /\ Len(local_types') = Len(locals') /\ Len(locals) <= Len(locals')
  /\ \A i \in 1 .. Len(locals) : locals'[i] = locals[i] /\ local_types'[i] = local_types[i]

LEMMA StoredKept ==
  ASSUME Shape, NEW e, IsCode(e), Stored(e)
  PROVE  /\ LocalsKept /\ Len(locals') = Len(locals) + 1 /\ Len(locals) \in Nat
         /\ locals'[Len(locals) + 1] = Value(e) /\ local_types'[Len(locals) + 1] = e.type
<1>1. Len(locals) \in Nat
  BY LocalFacts
<1> QED
  BY <1>1, StoredFacts DEF LocalsKept

LEMMA BindPointerStep ==
  ASSUME Shape, NEW p \in Names, NEW e, IsCode(e)', e.type = "u32", NEW value,
         Is(p, "unbound"), BindPointer(p, e, value), LocalsKept
  PROVE  /\ Shape'
         /\ Meaning /\ Value(e)' = value => Meaning'
         /\ Typing /\ (e.local # None => \/ local_types'[e.local] = "u32"
                                        \/ \E m \in Names : Is(m, "local") /\ bindings[m].local = e.local)
              => Typing'
<1>1. PICK b, v : b = Pointer(e) /\ v = Address(value)
  OBVIOUS
<1>2. /\ bindings' = [bindings EXCEPT ![p] = b] /\ env' = [env EXCEPT ![p] = v]
      /\ memory' = memory /\ env_memory' = env_memory
  BY <1>1 DEF BindPointer
<1>3. b.kind = "pointer" /\ b.address = e /\ v.kind = "pointer" /\ v.value = value
  BY <1>1 DEF Pointer, Address
<1>4. bindings'[p] = b /\ memory' \in [Values -> Values]
  BY <1>2 DEF Shape
<1>5. BindingOK(p)'
  BY <1>3, <1>4 DEF BindingOK, Is
<1>6. /\ Shape' /\ env'[p] = v
      /\ \A m \in Names \ {p} : bindings'[m] = bindings[m] /\ env'[m] = env[m]
  BY <1>2, <1>4, <1>5, ShapeStep DEF LocalsKept
<1>7. ASSUME Meaning, Value(e)' = value
      PROVE  Meaning'
  <2>1. Means(p)'
    BY <1>3, <1>4, <1>6, <1>7 DEF Means, Is
  <2>2. memory' = env_memory'
    BY <1>2, <1>7 DEF Meaning
  <2> QED
    BY <1>6, <1>7, <2>1, <2>2, MeaningStep DEF LocalsKept
<1>8. ASSUME Typing,
             e.local # None => \/ local_types'[e.local] = "u32"
                               \/ \E m \in Names : Is(m, "local") /\ bindings[m].local = e.local
      PROVE  Typing'
  <2>1. \A m \in Names : Is(m, "local") => Is(m, "local")' /\ bindings'[m].local = bindings[m].local
    BY <1>6 DEF Is
  <2>2. Anchored(p)'
    BY <1>3, <1>4, <1>8, <2>1 DEF Anchored
  <2>3. bindings'[p].kind = env'[p].kind /\ Typed(p)'
    BY <1>3, <1>4, <1>6 DEF Typed, Is
  <2> QED
    BY <1>6, <1>8, <2>2, <2>3, TypingStep DEF LocalsKept
<1> QED
  BY <1>6, <1>7, <1>8

LEMMA MallocStep ==
  ASSUME Shape, NEW p \in Names, NEW a \in Values, Malloc(p, a)
  PROVE  Shape' /\ (Meaning => Meaning') /\ (Typing => Typing')
<1>1. PICK c, e : c = Constant(a, "u32") /\ e = Get(Len(locals) + 1, "u32")
  OBVIOUS
<1>2. Stored(c) /\ BindPointer(p, e, a) /\ Is(p, "unbound")
  BY <1>1 DEF Malloc
<1>3. IsCode(c) /\ Value(c) = a /\ c.type = "u32"
  BY <1>1, ConstantCode DEF TypeNames
<1>4. /\ LocalsKept /\ Len(locals') = Len(locals) + 1 /\ Len(locals) \in Nat
      /\ locals'[Len(locals) + 1] = a /\ local_types'[Len(locals) + 1] = "u32"
  BY <1>2, <1>3, StoredKept
<1>5. e.type = "u32" /\ e.local = Len(locals) + 1 /\ e.offset = 0 /\ e.plain = TRUE
  BY <1>1 DEF Get
<1>6. IsCode(e)'
  BY <1>4, <1>5, Wraps DEF IsCode, None, TypeNames
<1>7. Value(e)' = a
  <2>1. (a + 0) % Modulus = a
    BY Wraps
  <2> QED
    BY <1>4, <1>5, <2>1 DEF Value, None
<1> QED
  BY <1>2, <1>4, <1>5, <1>6, <1>7, BindPointerStep

(* No code runs.                                                           *)
LEMMA CodeKept ==
  ASSUME Shape, UNCHANGED <<locals, local_types>>
  PROVE  LocalsKept /\ \A e : IsCode(e)' = IsCode(e) /\ Value(e)' = Value(e)
<1>1. LocalsKept
  BY LocalFacts DEF LocalsKept, Shape
<1> QED
  BY <1>1 DEF IsCode, Value

LEMMA FromLiteralStep ==
  ASSUME Shape, NEW p \in Names, NEW a \in Values, FromLiteral(p, a)
  PROVE  Shape' /\ (Meaning => Meaning') /\ (Typing => Typing')
<1>1. PICK e : e = Constant(a, "u32")
  OBVIOUS
<1>2. BindPointer(p, e, a) /\ Is(p, "unbound") /\ UNCHANGED <<locals, local_types>>
  BY <1>1 DEF FromLiteral
<1>3. IsCode(e) /\ Value(e) = a /\ e.type = "u32" /\ e.local = None
  BY <1>1, ConstantCode DEF TypeNames, Constant
<1>4. LocalsKept /\ IsCode(e)' /\ Value(e)' = a
  BY <1>2, <1>3, CodeKept
<1> QED
  BY <1>2, <1>3, <1>4, BindPointerStep

LEMMA FromVariableStep ==
  ASSUME Shape, NEW p \in Names, NEW m \in Names, NEW v \in Values, FromVariable(p, m, v)
  PROVE  Shape' /\ (Meaning => Meaning') /\ (Typing => Typing')
<1>1. PICK c : c = IF v = 0 THEN Read(m) ELSE Plus(Read(m), v)
  OBVIOUS
<1>2. PICK e : e = Cast(c, "u32")
  OBVIOUS
<1>3. /\ BindPointer(p, e, (env[m].value + v) % Modulus) /\ Is(m, "local") /\ Is(p, "unbound")
      /\ UNCHANGED <<locals, local_types>>
  BY <1>1, <1>2 DEF FromVariable
<1>4. /\ IsCode(c) /\ Value(c) = (locals[bindings[m].local] + v) % Modulus
      /\ c.local = bindings[m].local
      /\ c = [type |-> c.type, local |-> c.local, offset |-> c.offset, plain |-> c.plain]
  <2>1. CASE v = 0
    <3>1. c = Read(m)
      BY <1>1, <2>1
    <3>2. /\ bindings[m].local \in 1 .. Len(locals) /\ IsCode(c) /\ c.local = bindings[m].local
          /\ Value(c) = locals[bindings[m].local]
      BY <1>3, <3>1, ReadCode
    <3>3. (locals[bindings[m].local] + 0) % Modulus = locals[bindings[m].local]
      BY <3>2, LocalFacts, Wraps
    <3>4. c = [type |-> c.type, local |-> c.local, offset |-> c.offset, plain |-> c.plain]
      BY <3>1 DEF Read, Get
    <3> QED
      BY <2>1, <3>2, <3>3, <3>4
  <2>2. CASE v # 0
    <3>1. c = Plus(Read(m), v)
      BY <1>1, <2>2
    <3>2. c = [type |-> c.type, local |-> c.local, offset |-> c.offset, plain |-> c.plain]
      BY <3>1 DEF Plus, Read, Get
    <3> QED
      BY <1>3, <3>1, <3>2, PlusCode
  <2> QED
    BY <2>1, <2>2
<1>5. "u32" \in TypeNames
  BY DEF TypeNames
<1>6. IsCode(e) /\ Value(e) = Value(c) /\ e.type = "u32" /\ e.local = bindings[m].local
  BY <1>2, <1>4, <1>5, CastCode
<1>7. LocalsKept /\ IsCode(e)' /\ Value(e)' = Value(c)
  BY <1>3, <1>6, CodeKept
<1>8. Meaning => Value(e)' = (env[m].value + v) % Modulus
  BY <1>3, <1>4, <1>7 DEF Meaning, Means
<1> QED
  BY <1>3, <1>6, <1>7, <1>8, BindPointerStep

-----------------------------------------------------------------------------
(* Loads and stores *)

(* Through a pointer the code reaches the word that Python reaches.        *)
LEMMA PointedAt ==
  ASSUME Shape, NEW p \in Names, Is(p, "pointer")
  PROVE  /\ Value(bindings[p].address) \in Values
         /\ Meaning => Value(bindings[p].address) = env[p].value
<1>1. IsCode(bindings[p].address)
  BY DEF Shape, BindingOK
<1> QED
  BY <1>1, CodeValue DEF Meaning, Means

LEMMA DeclareLoadStep ==
  ASSUME Shape, NEW n \in Names, NEW p \in Names, DeclareLoad(n, p)
  PROVE  Shape' /\ (Meaning => Meaning') /\ (Typing => Typing')
<1>1. PICK w, b : w = memory[Value(bindings[p].address)] /\ b = Local(Len(locals'))
  OBVIOUS
<1>2. PICK c : c = Constant(w, "i32")
  OBVIOUS
<1>3. /\ Stored(c) /\ Is(n, "unbound") /\ Is(p, "pointer")
      /\ bindings' = [bindings EXCEPT ![n] = b] /\ Bind(n, env_memory[env[p].value], "i32")
      /\ memory' = memory /\ env_memory' = env_memory
  BY <1>1, <1>2 DEF DeclareLoad, Loaded
<1>4. w \in Values
  BY <1>1, <1>3, PointedAt DEF Shape
<1>5. IsCode(c) /\ Value(c) = w /\ c.type = "i32"
  BY <1>2, <1>4, ConstantCode DEF TypeNames
<1>6. /\ LocalsKept /\ Len(locals') = Len(locals) + 1 /\ Len(locals) \in Nat
      /\ locals'[Len(locals) + 1] = w /\ local_types'[Len(locals) + 1] = "i32"
  BY <1>3, <1>5, StoredKept
<1>7. b.kind = "local" /\ b.local = Len(locals) + 1 /\ b.local \in 1 .. Len(locals')
  BY <1>1, <1>6 DEF Local
<1>8. PICK v : v = Number(env_memory[env[p].value], IF env[n].kind = "local" THEN env[n].type ELSE "i32")
  OBVIOUS
<1>9. env' = [env EXCEPT ![n] = v]
  BY <1>3, <1>8 DEF Bind
<1>10. bindings'[n] = b /\ memory' \in [Values -> Values]
  BY <1>3 DEF Shape
<1>11. BindingOK(n)'
  BY <1>7, <1>10 DEF BindingOK, Is
<1>12. /\ Shape' /\ env'[n] = v
       /\ \A m \in Names \ {n} : bindings'[m] = bindings[m] /\ env'[m] = env[m]
  BY <1>3, <1>6, <1>9, <1>10, <1>11, ShapeStep DEF LocalsKept
<1>13. ASSUME Meaning
       PROVE  Meaning'
  <2>1. env[n].kind = "unbound"
    BY <1>3, <1>13 DEF Meaning, Means, Is
  <2>2. v.kind = "local" /\ v.value = env_memory[env[p].value] /\ v.type = "i32"
    BY <1>8, <2>1 DEF Number
  <2>3. w = env_memory[env[p].value]
    BY <1>1, <1>3, <1>13, PointedAt DEF Meaning
  <2>4. Means(n)'
    BY <1>6, <1>7, <1>10, <1>12, <2>2, <2>3 DEF Means, Is
  <2>5. memory' = env_memory'
    BY <1>3, <1>13 DEF Meaning
  <2> QED
    BY <1>6, <1>12, <1>13, <2>4, <2>5, MeaningStep DEF LocalsKept
<1>14. ASSUME Typing
       PROVE  Typing'
  <2>1. env[n].kind = "unbound"
    BY <1>3, <1>14 DEF Typing, Is
  <2>2. v.kind = "local" /\ v.type = "i32"
    BY <1>8, <2>1 DEF Number
  <2>3. bindings'[n].kind = env'[n].kind /\ Anchored(n)' /\ Typed(n)'
    BY <1>6, <1>7, <1>10, <1>12, <2>2 DEF Anchored, Typed, Is
  <2> QED
    BY <1>3, <1>6, <1>12, <1>14, <2>3, TypingStep DEF LocalsKept
<1> QED
  BY <1>12, <1>13, <1>14

LEMMA ReassignLoadStep ==
  ASSUME Shape, NEW n \in Names, NEW p \in Names, ReassignLoad(n, p)
  PROVE  Shape' /\ (Disciplined /\ Meaning => Meaning') /\ (Typing => Typing')
<1>1. PICK w, i : w = memory[Value(bindings[p].address)] /\ i = bindings[n].local
  OBVIOUS
<1>2. PICK ls : ls = [locals EXCEPT ![i] = w]
  OBVIOUS
<1>3. /\ Is(n, "local") /\ Is(p, "pointer") /\ Updates(bindings[n].local)
      /\ locals' = Append(ls, w) /\ local_types' = Append(local_types, "i32")
      /\ Bind(n, env_memory[env[p].value], "i32")
      /\ bindings' = bindings /\ memory' = memory /\ env_memory' = env_memory
  BY <1>1, <1>2 DEF ReassignLoad
<1>4. w \in Values
  BY <1>1, <1>3, PointedAt DEF Shape
<1>5. i \in 1 .. Len(locals) /\ Len(locals) \in Nat
  BY <1>1, <1>3, LocalFacts DEF Shape, BindingOK
<1>6. /\ ls \in Seq(Values) /\ Len(ls) = Len(locals)
      /\ \A j \in 1 .. Len(locals) : ls[j] = IF j = i THEN w ELSE locals[j]
  <2>1. /\ [locals EXCEPT ![i] = w] \in Seq(Values) /\ Len([locals EXCEPT ![i] = w]) = Len(locals)
        /\ \A j \in 1 .. Len(locals) : [locals EXCEPT ![i] = w][j] = IF j = i THEN w ELSE locals[j]
    BY <1>4, <1>5, SetFacts
  <2> QED
    BY <1>2, <2>1
<1>7. /\ locals' \in Seq(Values) /\ Len(locals') = Len(locals) + 1
      /\ \A j \in 1 .. Len(locals) : locals'[j] = IF j = i THEN w ELSE locals[j]
  <2>1. /\ Append(ls, w) \in Seq(Values) /\ Len(Append(ls, w)) = Len(ls) + 1
        /\ \A j \in 1 .. Len(ls) : Append(ls, w)[j] = ls[j]
    BY <1>4, <1>6, AppendProperties
  <2> QED
    BY <1>3, <1>6, <2>1
<1>8. /\ local_types' \in Seq(TypeNames) /\ Len(local_types') = Len(locals) + 1
      /\ \A j \in 1 .. Len(locals) : local_types'[j] = local_types[j]
  <2>1. "i32" \in TypeNames
    BY DEF TypeNames
  <2> QED
    BY <1>3, <2>1, AppendProperties DEF Shape
<1>9. Len(local_types') = Len(locals') /\ Len(locals) <= Len(locals')
  BY <1>5, <1>7, <1>8
<1>10. PICK b, v : /\ b = bindings[n]
                   /\ v = Number(env_memory[env[p].value], IF env[n].kind = "local" THEN env[n].type ELSE "i32")
  OBVIOUS
<1>11. bindings' = [bindings EXCEPT ![n] = b] /\ env' = [env EXCEPT ![n] = v]
  BY <1>3, <1>10 DEF Bind, Shape
<1>12. memory' \in [Values -> Values] /\ bindings'[n] = b /\ b.local = i /\ b.kind = "local"
  BY <1>1, <1>3, <1>10 DEF Shape, Is
<1>13. i \in 1 .. Len(locals')
  BY <1>5, <1>7
<1>14. BindingOK(n)'
  BY <1>12, <1>13 DEF BindingOK, Is
<1>15. /\ Shape' /\ env'[n] = v
       /\ \A m \in Names \ {n} : bindings'[m] = bindings[m] /\ env'[m] = env[m]
  BY <1>7, <1>8, <1>9, <1>11, <1>12, <1>14, ShapeStep
<1>16. ASSUME Disciplined, Meaning
       PROVE  Meaning'
  <2>1. env[n].kind = "local"
    BY <1>3, <1>16 DEF Meaning, Means, Is
  <2>2. v.kind = "local" /\ v.value = env_memory[env[p].value]
    BY <1>10 DEF Number
  <2>3. w = env_memory[env[p].value]
    BY <1>1, <1>3, <1>16, PointedAt DEF Meaning
  <2>4. locals'[i] = w
    BY <1>5, <1>7
  <2>5. Means(n)'
    BY <1>12, <1>15, <2>1, <2>2, <2>3, <2>4 DEF Means, Is
  <2>6. memory' = env_memory'
    BY <1>3, <1>16 DEF Meaning
  <2>7. \A m \in Names \ {n} : \A j \in 1 .. Len(locals) : Carries(m, j) => j # i
    BY <1>1, <1>3, <1>16, OthersKeep
  <2>8. \A m \in Names \ {n} : \A j \in 1 .. Len(locals) : Carries(m, j) => locals'[j] = locals[j]
    BY <1>7, <2>7
  <2> QED
    BY <1>15, <1>16, <2>5, <2>6, <2>8, MeaningStep
<1>17. ASSUME Typing
       PROVE  Typing'
  <2>1. env[n].kind = "local"
    BY <1>3, <1>17 DEF Typing, Is
  <2>2. v.kind = "local" /\ v.type = env[n].type
    BY <1>10, <2>1 DEF Number
  <2>3. bindings'[n] = bindings[n] /\ env'[n].type = env[n].type
    BY <1>10, <1>12, <1>15, <2>2
  <2>4. bindings'[n].kind = env'[n].kind /\ Anchored(n)'
    BY <1>12, <1>15, <2>2 DEF Anchored, Is
  <2>5. ~Is(n, "unbound")
    BY <1>3 DEF Is
  <2> QED
    BY <1>3, <1>8, <1>15, <1>17, <2>3, <2>4, <2>5, TypingStep
<1> QED
  BY <1>15, <1>16, <1>17

LEMMA StoreStep ==
  ASSUME Shape, NEW p \in Names, NEW m \in Names, Store(p, m)
  PROVE  Shape' /\ (Meaning => Meaning') /\ (Typing => Typing')
<1>1. PICK a, w : a = Value(bindings[p].address) /\ w = Value(Read(m))
  OBVIOUS
<1>2. /\ Is(p, "pointer") /\ Is(m, "local") /\ memory' = [memory EXCEPT ![a] = w]
      /\ env_memory' = [env_memory EXCEPT ![env[p].value] = env[m].value]
      /\ bindings' = bindings /\ local_types' = local_types /\ locals' = locals /\ env' = env
  BY <1>1 DEF Store
<1>3. a \in Values /\ w \in Values /\ w = locals[bindings[m].local]
  BY <1>1, <1>2, PointedAt, ReadCode, CodeValue
<1>4. memory' \in [Values -> Values]
  BY <1>2, <1>3 DEF Shape
<1>5. \A n \in Names : BindingOK(n)' = BindingOK(n) /\ Means(n)' = Means(n)
  BY <1>2 DEF BindingOK, Means, Is, IsCode, Value
<1>6. Shape'
  BY <1>2, <1>4, <1>5 DEF Shape
<1>7. ASSUME Meaning
      PROVE  Meaning'
  <2>1. a = env[p].value /\ w = env[m].value
    BY <1>1, <1>2, <1>3, <1>7, PointedAt DEF Meaning, Means
  <2> QED
    BY <1>2, <1>5, <1>7, <2>1 DEF Meaning
<1>8. Typing => Typing'
  BY <1>2 DEF Typing, Typed, Anchored, OneType, Is
<1> QED
  BY <1>6, <1>7, <1>8

-----------------------------------------------------------------------------
(* Every step *)

LEMMA InitInv ==
  ASSUME Init
  PROVE  IInv /\ TInv
<1>1. PICK types \in [DOMAIN Parameters -> Types], arguments \in [DOMAIN Parameters -> Values] :
        /\ local_types = types /\ locals = arguments
        /\ env = [n \in Names |->
             IF n \in Range(Parameters)
             THEN LET i == CHOOSE j \in DOMAIN Parameters : Parameters[j] = n
                  IN Number(arguments[i], types[i])
             ELSE Unbound]
  BY DEF Init
<1>2. /\ bindings = [n \in Names |->
           IF n \in Range(Parameters)
           THEN Local(CHOOSE j \in DOMAIN Parameters : Parameters[j] = n) ELSE Unbound]
      /\ memory = [a \in Values |-> 0] /\ env_memory = memory
  BY DEF Init
<1>3. PICK count \in Nat : DOMAIN Parameters = 1 .. count
  BY LocalsAssumption, LenProperties
<1>4. locals \in [1 .. count -> Values] /\ local_types \in [1 .. count -> TypeNames]
  BY <1>1, <1>3 DEF TypeNames
<1>5. /\ locals \in Seq(Values) /\ local_types \in Seq(TypeNames)
      /\ Len(locals) = count /\ Len(local_types) = count
  <2>1. locals \in Seq(Values) /\ local_types \in Seq(TypeNames)
    BY <1>4, SeqDef
  <2> QED
    BY <1>4, <2>1, LenProperties
<1>6. ASSUME NEW n \in Names
      PROVE  BindingOK(n) /\ Means(n) /\ Typed(n) /\ ~Is(n, "pointer")
  <2>1. CASE n \in Range(Parameters)
    <3>1. PICK i : i = CHOOSE j \in DOMAIN Parameters : Parameters[j] = n
      OBVIOUS
    <3>2. \E j \in DOMAIN Parameters : Parameters[j] = n
      BY <2>1 DEF Range
    <3>3. i \in 1 .. count
      BY <1>3, <3>1, <3>2
    <3>4. bindings[n] = Local(i) /\ env[n] = Number(arguments[i], types[i])
      BY <1>1, <1>2, <2>1, <3>1
    <3>5. /\ bindings[n].kind = "local" /\ bindings[n].local = i
          /\ env[n].kind = "local" /\ env[n].value = locals[i] /\ env[n].type = local_types[i]
      BY <1>1, <3>4 DEF Local, Number
    <3> QED
      BY <1>5, <3>3, <3>5 DEF BindingOK, Means, Typed, Is
  <2>2. CASE n \notin Range(Parameters)
    <3>1. bindings[n] = Unbound /\ env[n] = Unbound
      BY <1>1, <1>2, <2>2
    <3> QED
      BY <3>1 DEF Unbound, BindingOK, Means, Typed, Is
  <2> QED
    BY <2>1, <2>2
<1>7. memory \in [Values -> Values] /\ memory = env_memory
  BY <1>2, Wraps
<1>8. bindings = [n \in Names |-> bindings[n]] /\ env = [n \in Names |-> env[n]]
  BY <1>1, <1>2
<1>9. Typing
  BY <1>6 DEF Typing, Anchored, Means
<1> QED
  BY <1>5, <1>6, <1>7, <1>8, <1>9 DEF IInv, TInv, Shape, Meaning

LEMMA StepInv ==
  ASSUME Shape, [Next]_vars
  PROVE  Shape' /\ (Disciplined /\ Meaning => Meaning') /\ (Typing => Typing')
<1>1. CASE UNCHANGED vars
  <2>1. \A n : BindingOK(n)' = BindingOK(n) /\ Means(n)' = Means(n)
    BY <1>1 DEF vars, BindingOK, Means, Is, IsCode, Value
  <2>2. Typing => Typing'
    BY <1>1 DEF vars, Typing, Typed, Anchored, OneType, Is
  <2> QED
    BY <1>1, <2>1, <2>2 DEF vars, Shape, Meaning
<1>2. ASSUME NEW n \in Names, NEW v \in Values, NEW type \in Types, AssignLiteral(n, v, type)
      PROVE  Shape' /\ (Disciplined /\ Meaning => Meaning') /\ (Typing => Typing')
  <2>1. PICK e : e = Constant(v, type)
    OBVIOUS
  <2>2. IsCode(e) /\ Value(e) = v /\ e.type = type /\ ~e.plain
    BY <2>1, ConstantCode DEF TypeNames, Constant
  <2>3. Assign(n, e) /\ Bind(n, v, type) /\ UNCHANGED <<memory, env_memory>>
    BY <1>2, <2>1 DEF AssignLiteral
  <2>4. TypedCode(e, type)
    BY <2>2 DEF TypedCode
  <2> QED
    BY <2>2, <2>3, <2>4, AssignStep
<1>3. ASSUME NEW n \in Names, NEW m \in Names, AssignCopy(n, m)
      PROVE  Shape' /\ (Disciplined /\ Meaning => Meaning') /\ (Typing => Typing')
  <2>1. PICK e : e = Read(m)
    OBVIOUS
  <2>2. /\ Is(m, "local") /\ Assign(n, e) /\ Bind(n, env[m].value, env[m].type)
        /\ UNCHANGED <<memory, env_memory>>
    BY <1>3, <2>1 DEF AssignCopy
  <2>3. /\ IsCode(e) /\ Value(e) = locals[bindings[m].local]
        /\ e.type = local_types[bindings[m].local] /\ e.local = bindings[m].local
    BY <2>1, <2>2, ReadCode
  <2>4. Meaning => Value(e) = env[m].value
    BY <2>2, <2>3 DEF Meaning, Means
  <2>5. Typing => TypedCode(e, env[m].type)
    BY <2>2, <2>3 DEF Typing, Typed, TypedCode
  <2> QED
    BY <2>2, <2>3, <2>4, <2>5, AssignStep
<1>4. ASSUME NEW n \in Names, NEW m \in Names, NEW type \in Types, AssignCast(n, m, type)
      PROVE  Shape' /\ (Disciplined /\ Meaning => Meaning') /\ (Typing => Typing')
  <2>1. PICK c, e : c = Read(m) /\ e = Cast(c, type)
    OBVIOUS
  <2>2. /\ Is(m, "local") /\ Assign(n, e) /\ Bind(n, env[m].value, type)
        /\ UNCHANGED <<memory, env_memory>>
    BY <1>4, <2>1 DEF AssignCast
  <2>3. IsCode(c) /\ Value(c) = locals[bindings[m].local] /\ c.local = bindings[m].local
    BY <2>1, <2>2, ReadCode
  <2>4. c = [type |-> c.type, local |-> c.local, offset |-> c.offset, plain |-> c.plain]
    BY <2>1 DEF Read, Get
  <2>5. type \in TypeNames
    BY DEF TypeNames
  <2>6. IsCode(e) /\ Value(e) = Value(c) /\ e.type = type /\ e.local = bindings[m].local
    BY <2>1, <2>3, <2>4, <2>5, CastCode
  <2>7. Meaning => Value(e) = env[m].value
    BY <2>2, <2>3, <2>6 DEF Meaning, Means
  <2>8. TypedCode(e, type)
    BY <2>2, <2>6 DEF TypedCode
  <2> QED
    BY <2>2, <2>6, <2>7, <2>8, AssignStep
<1>5. ASSUME NEW n \in Names, NEW m \in Names, NEW v \in Values, AssignSum(n, m, v)
      PROVE  Shape' /\ (Disciplined /\ Meaning => Meaning') /\ (Typing => Typing')
  <2>1. PICK e : e = Plus(Read(m), v)
    OBVIOUS
  <2>2. /\ Is(m, "local") /\ Assign(n, e)
        /\ Bind(n, (env[m].value + v) % Modulus, env[m].type)
        /\ UNCHANGED <<memory, env_memory>>
    BY <1>5, <2>1 DEF AssignSum
  <2>3. /\ IsCode(e) /\ Value(e) = (locals[bindings[m].local] + v) % Modulus
        /\ e.type = local_types[bindings[m].local] /\ ~e.plain
    BY <2>1, <2>2, PlusCode DEF Plus, Read, Get
  <2>4. Meaning => Value(e) = (env[m].value + v) % Modulus
    BY <2>2, <2>3 DEF Meaning, Means
  <2>5. Typing => TypedCode(e, env[m].type)
    BY <2>2, <2>3 DEF Typing, Typed, TypedCode
  <2> QED
    BY <2>2, <2>3, <2>4, <2>5, AssignStep
<1>6. ASSUME NEW n \in Names, NEW v \in Values, AugmentedAssign(n, v)
      PROVE  Shape' /\ (Disciplined /\ Meaning => Meaning') /\ (Typing => Typing')
  <2>1. PICK e : e = Plus(Read(n), v)
    OBVIOUS
  <2>2. /\ Is(n, "local") /\ Assign(n, e)
        /\ Bind(n, (env[n].value + v) % Modulus, env[n].type)
        /\ UNCHANGED <<memory, env_memory>>
    BY <1>6, <2>1 DEF AugmentedAssign, Assign, Reassign
  <2>3. /\ IsCode(e) /\ Value(e) = (locals[bindings[n].local] + v) % Modulus
        /\ e.type = local_types[bindings[n].local] /\ ~e.plain
    BY <2>1, <2>2, PlusCode DEF Plus, Read, Get
  <2>4. Meaning => Value(e) = (env[n].value + v) % Modulus
    BY <2>2, <2>3 DEF Meaning, Means
  <2>5. Typing => TypedCode(e, env[n].type)
    BY <2>2, <2>3 DEF Typing, Typed, TypedCode
  <2> QED
    BY <2>2, <2>3, <2>4, <2>5, AssignStep
<1>7. ASSUME NEW n \in Names, NEW p \in Names, AssignAddress(n, p)
      PROVE  Shape' /\ (Disciplined /\ Meaning => Meaning') /\ (Typing => Typing')
  <2>1. PICK e : e = bindings[p].address
    OBVIOUS
  <2>2. /\ Is(p, "pointer") /\ Assign(n, e) /\ Bind(n, env[p].value, "u32")
        /\ UNCHANGED <<memory, env_memory>>
    BY <1>7, <2>1 DEF AssignAddress
  <2>3. IsCode(e) /\ e.type = "u32"
    BY <2>1, <2>2 DEF Shape, BindingOK
  <2>4. Meaning => Value(e) = env[p].value
    BY <2>1, <2>2 DEF Meaning, Means
  <2>5. Typing => TypedCode(e, "u32")
    BY <2>1, <2>2, <2>3 DEF Typing, Anchored, TypedCode, IsCode
  <2> QED
    BY <2>2, <2>3, <2>4, <2>5, AssignStep
<1>8. CASE Next
  <2>1. PICK n \in Names, m \in Names :
          \/ \E v \in Values, type \in Types : AssignLiteral(n, v, type)
          \/ AssignCopy(n, m)
          \/ \E type \in Types : AssignCast(n, m, type)
          \/ \E v \in Values \ {0} : AssignSum(n, m, v) \/ AugmentedAssign(n, v)
          \/ \E a \in Values : Malloc(n, a) \/ FromLiteral(n, a) \/ FromVariable(n, m, a)
          \/ AssignAddress(n, m) \/ DeclareLoad(n, m) \/ ReassignLoad(n, m) \/ Store(n, m)
    BY <1>8 DEF Next
  <2> QED
    BY <1>2, <1>3, <1>4, <1>5, <1>6, <1>7, <2>1, MallocStep, FromLiteralStep, FromVariableStep,
       DeclareLoadStep, ReassignLoadStep, StoreStep
<1> QED
  BY <1>1, <1>8

LEMMA ShapeHolds == Spec => []Shape
<1>1. Init => Shape
  BY InitInv DEF IInv
<1>2. Shape /\ [Next]_vars => Shape'
  BY StepInv
<1> QED
  BY <1>1, <1>2, PTL DEF Spec

(* Whatever the program, a name stands for a local that exists, a pointer  *)
(* for an address computed from one, and locals have a type each.          *)
THEOREM TypeOKHolds == Spec => []TypeOK
<1>1. ASSUME Shape
      PROVE  TypeOK
  <2>1. /\ DOMAIN locals = 1 .. Len(locals) /\ Range(locals) \subseteq Values
        /\ Len(locals) \in Nat
    BY <1>1, LocalFacts DEF Range
  <2>2. ASSUME NEW n \in Names
        PROVE  /\ Is(n, "local") => bindings[n].local \in DOMAIN locals
               /\ Is(n, "pointer") => bindings[n].address.local \in DOMAIN locals \cup {None}
    BY <1>1, <2>1 DEF Shape, BindingOK, IsCode, None
  <2> QED
    BY <1>1, <2>1, <2>2 DEF TypeOK, Shape
<1> QED
  BY <1>1, ShapeHolds, PTL

LEMMA IInvHolds ==
  ASSUME Disciplined
  PROVE  Spec => []IInv
<1>1. Init => IInv
  BY InitInv
<1>2. IInv /\ [Next]_vars => IInv'
  BY StepInv DEF IInv
<1> QED
  BY <1>1, <1>2, PTL DEF Spec

(* In a program that assigns no local two of its names stand for, every    *)
(* variable and pointer has after every statement the value Python gives   *)
(* it, and memory is what Python's stores left: sharing a local with the   *)
(* first value, and compiling an address again for each access, cannot be  *)
(* noticed.                                                                *)
THEOREM MeansPythonHolds ==
  ASSUME Disciplined
  PROVE  Spec => []MeansPython
<1>1. ASSUME IInv
      PROVE  MeansPython
  <2>1. Shape /\ Meaning
    BY <1>1 DEF IInv
  <2>2. ASSUME NEW n \in Names
        PROVE  /\ bindings[n].kind = env[n].kind
               /\ Is(n, "local") => Value(Read(n)) = env[n].value
               /\ Is(n, "pointer") => Value(bindings[n].address) = env[n].value
    BY <2>1, ReadCode DEF Meaning, Means
  <2> QED
    BY <2>1, <2>2 DEF MeansPython, Meaning
<1> QED
  BY <1>1, IInvHolds, PTL

LEMMA TInvHolds == Spec => []TInv
<1>1. Init => TInv
  BY InitInv
<1>2. TInv /\ [Next]_vars => TInv'
  BY StepInv DEF TInv
<1> QED
  BY <1>1, <1>2, PTL DEF Spec

(* Whatever the program, every variable keeps the type of the value that   *)
(* declared it, through conversions that emit no code and every later      *)
(* assignment, until two variables of different types share a local.       *)
THEOREM TypesKeptUnlessSharedHolds == Spec => []TypesKeptUnlessShared
<1>1. ASSUME TInv
      PROVE  TypesKeptUnlessShared
  <2>1. Shape /\ Typing
    BY <1>1 DEF TInv
  <2>2. ASSUME OneType, NEW n \in Names, Is(n, "local")
        PROVE  Read(n).type = env[n].type
    BY <2>1, <2>2, ReadCode DEF Typing, Typed
  <2> QED
    BY <2>2 DEF TypesKeptUnlessShared
<1> QED
  BY <1>1, TInvHolds, PTL
=============================================================================
