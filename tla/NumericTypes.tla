----------------------------- MODULE NumericTypes -----------------------------
(***************************************************************************)
(* Numeric expressions (masic/wasm/types.py).  A value of a MASIC type is  *)
(* kept on the WebAssembly stack in 32 or 64 bits; types narrower than     *)
(* that are kept normalised, that is sign or zero extended, by code that   *)
(* is compiled after every operation.                                      *)
(*                                                                         *)
(* The compiled code of one function runs here step by step, on raw bits,  *)
(* and each value carries the number it stands for: what the operation     *)
(* gives in exact arithmetic, wrapped into the range of the type.          *)
(* Literals reach the stack through the bytes of Encoding.                 *)
(*                                                                         *)
(* The widths 8, 16, 32 and 64 are constants.  Floating point is present   *)
(* as f64 with integral values, for its conversions.                       *)
(***************************************************************************)
EXTENDS Encoding

CONSTANTS
  ByteBits, HalfBits, WordBits, LongBits,  \* 8, 16, 32, 64
  Parameters,  \* the integer types a parameter of the function may have
  HostTyped,   \* the host returns values of the narrow types it declares
  TablesTyped  \* the entries of a table have the types of its first entry

SignedTypes   == {"i8", "i16", "i32", "i64"}
UnsignedTypes == {"u8", "u16", "u32", "u64"}
IntTypes      == SignedTypes \cup UnsignedTypes
Types         == IntTypes \cup {"f64"}

Bits(t) ==
  CASE t \in {"i8", "u8"}   -> ByteBits
    [] t \in {"i16", "u16"} -> HalfBits
    [] t \in {"i32", "u32"} -> WordBits
    [] OTHER                -> LongBits

StackBits(t) == IF t \in {"i64", "u64", "f64"} THEN LongBits ELSE WordBits

ASSUME WidthAssumption ==
  /\ {ByteBits, HalfBits, WordBits, LongBits} \subseteq Nat
  /\ 0 < ByteBits /\ ByteBits < HalfBits
  /\ HalfBits < WordBits /\ WordBits < LongBits
  /\ Modulus = [k \in Kinds |-> IF k = "s64" THEN 2^LongBits ELSE 2^WordBits]
  /\ Parameters \subseteq IntTypes
  /\ {HostTyped, TablesTyped} \subseteq BOOLEAN

-----------------------------------------------------------------------------
(* Numbers, the bits that stand for them, and arithmetic. *)

Unsigned(n, bits) == n % 2^bits
Signed(n, bits)   == ((n + 2^(bits - 1)) % 2^bits) - 2^(bits - 1)

Wrap(t, n)  == IF t \in SignedTypes THEN Signed(n, Bits(t)) ELSE Unsigned(n, Bits(t))
RangeOf(t)  == IF t \in SignedTypes THEN -(2^(Bits(t) - 1)) .. 2^(Bits(t) - 1) - 1
                                    ELSE 0 .. 2^Bits(t) - 1
Raws(t)     == 0 .. 2^StackBits(t) - 1

Trap == 2^(LongBits + 2)  \* in place of a number: the operation traps

Bit(n, i) == (n \div 2^i) % 2
Holds(op, ones) ==
  \/ op = "and" /\ ones = 2
  \/ op = "or"  /\ ones > 0
  \/ op = "xor" /\ ones = 1

(* The weights of the bits below n that the result of a bitwise operation  *)
(* has, added up.                                                          *)
Bitwise(op, l, r, bits) ==
  LET sums[n \in Nat] ==
        IF n = 0 THEN 0
        ELSE sums[n - 1] + (IF Holds(op, Bit(l, n - 1) + Bit(r, n - 1)) THEN 2^(n - 1) ELSE 0)
  IN sums[bits]

Magnitude(n) == IF n < 0 THEN -n ELSE n
Quotient(l, r) ==  \* rounded towards zero
  LET q == Magnitude(l) \div Magnitude(r) IN IF (l < 0) = (r < 0) THEN q ELSE -q

Operations  == {"add", "sub", "mul", "div", "rem", "and", "or", "xor", "shl", "shr"}
Comparisons == {"eq", "ne", "lt", "le", "gt", "ge"}

(* Exact, for operands held in `stack' bits. *)
Arithmetic(op, l, r, stack) ==
  CASE op = "add" -> l + r
    [] op = "sub" -> l - r
    [] op = "mul" -> l * r
    [] op = "div" -> IF r = 0 \/ (r = -1 /\ l = -(2^(stack - 1)))
                     THEN Trap ELSE Quotient(l, r)
    [] op = "rem" -> IF r = 0 THEN Trap ELSE l - r * Quotient(l, r)
    [] op = "shl" -> l * 2^(r % stack)
    [] op = "shr" -> l \div 2^(r % stack)
    [] OTHER      -> Bitwise(op, l, r, stack)

Compares(op, l, r) ==
  CASE op = "eq" -> l = r [] op = "ne" -> l # r [] op = "lt" -> l < r
    [] op = "le" -> l <= r [] op = "gt" -> l > r [] op = "ge" -> l >= r

-----------------------------------------------------------------------------
(* What is compiled, run on raw bits *)

(* An operand as an instruction with the suffix _s or _u of t takes it.    *)
Operand(t, raw) == IF t \in SignedTypes THEN Signed(raw, StackBits(t)) ELSE raw

Normalized(t, raw) ==
  IF t \notin IntTypes \/ Bits(t) = StackBits(t) THEN raw
  ELSE IF t \in SignedTypes THEN Unsigned(Signed(raw, Bits(t)), StackBits(t))
  ELSE Unsigned(raw, Bits(t))

BinaryInstruction(op, t, l, r) ==
  LET result == Arithmetic(op, Operand(t, l), Operand(t, r), StackBits(t))
  IN IF result = Trap THEN Trap ELSE Normalized(t, Unsigned(result, StackBits(t)))

(* Mutant: the target's signedness counts. *)
FromIntByTarget(s, t, raw) ==
  IF t = "f64" THEN Operand(s, raw)
  ELSE IF StackBits(s) < StackBits(t)
       THEN Unsigned(IF t \in SignedTypes THEN Signed(raw, StackBits(s)) ELSE raw, StackBits(t))
  ELSE Unsigned(raw, StackBits(t))

(* wrap, extend_s, extend_u, or nothing, and the convert instructions: the *)
(* source's signedness counts.                                             *)
FromInt(s, t, raw) ==
  IF t = "f64" THEN Operand(s, raw)
  ELSE IF StackBits(s) < StackBits(t) THEN Unsigned(Operand(s, raw), StackBits(t))
  ELSE Unsigned(raw, StackBits(t))

(* trunc_s and trunc_u trap outside of the range of 32 or 64 bits.         *)
Truncates(t, n) ==
  IF t \in SignedTypes THEN n \in -(2^(StackBits(t) - 1)) .. 2^(StackBits(t) - 1) - 1
                       ELSE n \in Raws(t)

Converted(s, t, raw) ==
  IF s = t THEN raw
  ELSE IF s \in IntTypes THEN Normalized(t, FromInt(s, t, raw))
  ELSE IF Truncates(t, raw) THEN Normalized(t, Unsigned(raw, StackBits(t))) ELSE Trap

-----------------------------------------------------------------------------
VARIABLES
  local,  \* a parameter of the function: its type, its bits, its number
  top     \* the expression evaluated last, or the literal that is loaded

vars == <<local, top, encoding>>

Value(t, raw, n) == [type |-> t, raw |-> raw, number |-> n]
Nothing          == Value("none", 0, 0)  \* between two expressions

(* The host passes any bits: it knows no types narrower than 32 bits.      *)
Init ==
  /\ EncodingInit
  /\ \E t \in Parameters : \E r \in Raws(t) : local = Value(t, r, Wrap(t, r))
  /\ top = Nothing

Idle      == phase = "idle"
Starts    == Idle /\ top = Nothing
Evaluates == Idle /\ top # Nothing /\ top.number # Trap

(* The expression is now of type t, has these bits, and stands for n.      *)
Becomes(t, raw, n) == top' = Value(t, raw, n) /\ UNCHANGED <<local, encoding>>

(* The expression is used up, or has trapped and the host calls again.     *)
Finish == Idle /\ top # Nothing /\ top' = Nothing /\ UNCHANGED <<local, encoding>>

(* The unsigned immediate of an instruction: the index of a local, of a    *)
(* function or of a label, an alignment or an offset.                      *)
Index(n)  == Starts /\ Encode("u32", n) /\ UNCHANGED <<local, top>>
LoadIndex == kind = "u32" /\ Loaded /\ UNCHANGED <<local, top>>

(* A literal out of range is refused.  The encoders of constants take      *)
(* signed integers, so that large unsigned ones are written as negative.   *)
EncodedLiteral(t, n) ==
  IF t \in UnsignedTypes /\ n > 2^(StackBits(t) - 1) - 1 THEN n - 2^StackBits(t) ELSE n

Literal(t, n) ==
  /\ Starts
  /\ Encode(IF StackBits(t) = LongBits THEN "s64" ELSE "s32", EncodedLiteral(t, n))
  /\ top' = Value(t, 0, n) /\ UNCHANGED local

LoadLiteral ==
  /\ kind \in SignedKinds /\ Loaded
  /\ top' = [top EXCEPT !.raw = Unsigned(sum, StackBits(top.type))]
  /\ UNCHANGED local

(* A local is normalised when it is read. *)
ReadLocal ==
  Starts /\ Becomes(local.type, Normalized(local.type, local.raw), local.number)

(* The right operand is the local, brought to the type of the left one.    *)
RightBits   == Converted(local.type, top.type, Normalized(local.type, local.raw))
RightNumber == IF top.type = "f64" THEN local.number ELSE Wrap(top.type, local.number)

Exactly(t, n) == IF n = Trap THEN Trap ELSE Wrap(t, n)

Binary(op) ==
  /\ Evaluates /\ top.type \in IntTypes
  /\ Becomes(top.type, BinaryInstruction(op, top.type, top.raw, RightBits),
             Exactly(top.type, Arithmetic(op, top.number, RightNumber, StackBits(top.type))))

(* Comparisons give an i32, which is in range as it is. *)
Comparison(op) ==
  LET Truth(b) == IF b THEN 1 ELSE 0
  IN /\ Evaluates
     /\ Becomes("i32", Truth(Compares(op, Operand(top.type, top.raw),
                                          Operand(top.type, RightBits))),
                       Truth(Compares(op, top.number, RightNumber)))

(* 0 - x, and x ^ -1 or, for an unsigned type, x ^ (2^bits - 1).           *)
Negate ==
  /\ Evaluates
  /\ Becomes(top.type,
             IF top.type = "f64" THEN -top.raw
             ELSE BinaryInstruction("sub", top.type, 0, top.raw),
             IF top.type = "f64" THEN -top.number ELSE Wrap(top.type, -top.number))

Invert ==
  /\ Evaluates /\ top.type \in IntTypes
  /\ LET ones == Unsigned(IF top.type \in SignedTypes THEN -1 ELSE 2^Bits(top.type) - 1,
                          StackBits(top.type))
     IN Becomes(top.type, BinaryInstruction("xor", top.type, top.raw, ones),
                Wrap(top.type, -top.number - 1))

Cast(t) ==
  /\ Evaluates
  /\ Becomes(t, Converted(top.type, t, top.raw),
             IF t = "f64" THEN top.number
             ELSE IF top.type = "f64" /\ ~Truncates(t, top.number) THEN Trap
             ELSE Wrap(t, top.number))

(* The expression is stored through a pointer to t, whose store keeps the  *)
(* low bits, and loaded through a pointer to u of the same size, whose     *)
(* load extends by the signedness of u.                                    *)
StoreAndLoad(t, u) ==
  /\ Evaluates /\ top.type \in IntTypes /\ Bits(t) = Bits(u)
  /\ LET cell == Unsigned(Converted(top.type, t, top.raw), Bits(t))
     IN Becomes(u, IF u \in SignedTypes
                   THEN Unsigned(Signed(cell, Bits(u)), StackBits(u)) ELSE cell,
                Wrap(u, top.number))

(* A value that comes from the host is taken as it is. *)
FromHost(t, raw) ==
  /\ Starts /\ (HostTyped => raw = Normalized(t, raw))
  /\ Becomes(t, raw, Wrap(t, raw))

ImportResult(t, raw) == FromHost(t, raw)
GlobalValue(t, raw)  == FromHost(t, raw)

(* Tables compare WebAssembly signatures only: the function called returns *)
(* the expression, and the call has the type t of the table.               *)
CallIndirect(t) ==
  /\ Evaluates /\ top.type \in IntTypes
  /\ StackBits(t) = StackBits(top.type)
  /\ TablesTyped => t = top.type
  /\ Becomes(t, top.raw, Wrap(t, top.number))

Next ==
  \/ \E t \in IntTypes : \E n \in RangeOf(t) : Literal(t, n)
  \/ (WriteByte \/ ReadByte) /\ UNCHANGED <<local, top>>
  \/ LoadLiteral
  \/ \E n \in Encodable("u32") : Index(n)
  \/ LoadIndex
  \/ ReadLocal
  \/ Finish
  \/ \E op \in Operations : Binary(op)
  \/ \E op \in Comparisons : Comparison(op)
  \/ Negate
  \/ Invert
  \/ \E t \in Types : Cast(t)
  \/ \E t, u \in IntTypes : StoreAndLoad(t, u)
  \/ \E t \in IntTypes : \E raw \in Raws(t) : ImportResult(t, raw) \/ GlobalValue(t, raw)
  \/ \E t \in IntTypes : CallIndirect(t)

Spec == Init /\ [][Next]_vars

-----------------------------------------------------------------------------
(* Whatever operators, conversions, loads and calls an expression went     *)
(* through, its bits are those of the number that exact arithmetic gives,  *)
(* wrapped into the range of its type; and it traps when that does.        *)
BitsMeanTheNumber ==
  Idle /\ top # Nothing =>
          top.raw = IF top.number = Trap THEN Trap
                    ELSE IF top.type = "f64" THEN top.number
                    ELSE Unsigned(top.number, StackBits(top.type))
=============================================================================
