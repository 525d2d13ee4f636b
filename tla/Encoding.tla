------------------------------- MODULE Encoding -------------------------------
(***************************************************************************)
(* LEB128 immediates (masic/wasm/encoding.py): encode_u32 and              *)
(* _encode_signed write an integer seven bits at a time, lowest first, and *)
(* the engine that loads the binary reads it back.  Each pass of their     *)
(* loops is a step.  A byte is its low seven bits and its eighth, which    *)
(* says that more bytes follow.                                            *)
(***************************************************************************)
EXTENDS Integers, Sequences

CONSTANTS
  GroupBits,  \* 7: the bits of the integer that a byte carries
  Modulus     \* for each kind of immediate, 2^bits of the integers it holds

Group       == 2^GroupBits
HalfGroup   == 2^(GroupBits - 1)
Kinds       == {"u32", "s32", "s64"}
SignedKinds == {"s32", "s64"}

ASSUME EncodingAssumption ==
  /\ GroupBits \in Nat /\ GroupBits > 0
  /\ Modulus \in [Kinds -> Nat] /\ \A k \in Kinds : Modulus[k] % 2 = 0

(* The integers the encoder of kind k takes; it raises for others. *)
Encodable(k) ==
  IF k \in SignedKinds THEN -(Modulus[k] \div 2) .. (Modulus[k] \div 2) - 1
                       ELSE 0 .. Modulus[k] - 1

VARIABLES
  phase,     \* "idle", "write" in an encoder's loop, "read" in the engine's
  kind,      \* what is encoded, and for the engine what it expects
  values,    \* the values `value' of the encoder has had, the last one now
  output,    \* the bytes written
  position,  \* the engine's position in them
  sum,       \* the bits it has read, as a number,
  weight     \* and the weight of the next ones

encoding == <<phase, kind, values, output, position, sum, weight>>

value    == values[Len(values)]
original == values[1]

EncodingInit ==
  /\ phase = "idle" /\ kind = "u32" /\ values = <<0>> /\ output = << >>
  /\ position = 1 /\ sum = 0 /\ weight = 1

NoBytes(v) ==
  values' = <<v>> /\ output' = << >> /\ position' = 1 /\ sum' = 0 /\ weight' = 1

(* A call of an encoder, for an operand of an instruction. *)
Encode(k, v) ==
  /\ phase = "idle" /\ v \in Encodable(k)
  /\ phase' = "write" /\ kind' = k /\ NoBytes(v)

(* value & 0x7F and value >> 7, which rounds down. *)
LowBits(v) == v % Group
Rest(v)    == v \div Group

(* Mutants: the sign of the last byte is forgotten; it is asked of unsigned *)
(* integers too.                                                           *)
LastUnsigned(k, v) == Rest(v) = 0 \/ (k \in SignedKinds /\ Rest(v) = -1)
LastSigned(k, v)   == Rest(v) = (IF LowBits(v) >= HalfGroup THEN -1 ELSE 0)

(* No byte is needed after v's lowest: nothing is left but, for a signed   *)
(* integer, copies of the sign bit of this byte.                           *)
Last(k, v) ==
  IF k \in SignedKinds
  THEN Rest(v) = (IF LowBits(v) >= HalfGroup THEN -1 ELSE 0)
  ELSE Rest(v) = 0

WriteByte ==
  /\ phase = "write"
  /\ output' = Append(output, [bits |-> LowBits(value), more |-> ~Last(kind, value)])
  /\ values' = Append(values, Rest(value))
  /\ phase' = IF Last(kind, value) THEN "read" ELSE "write"
  /\ UNCHANGED <<kind, position, sum, weight>>

-----------------------------------------------------------------------------
(* The engine, by the definition of LEB128 in the WebAssembly format.      *)

Byte == output[position]

(* The bits of the byte that ends a signed integer extend its sign.        *)
Extends == kind \in SignedKinds /\ Byte.bits >= HalfGroup

ReadByte ==
  /\ phase = "read"
  /\ weight' = weight * Group
  /\ sum' = (sum + Byte.bits * weight)
              - (IF ~Byte.more /\ Extends THEN weight * Group ELSE 0)
  /\ position' = position + 1
  /\ phase' = IF Byte.more THEN "read" ELSE "loaded"
  /\ UNCHANGED <<kind, values, output>>

(* The engine has the operand and goes on to the next instruction. *)
Loaded == phase = "loaded" /\ phase' = "idle" /\ kind' = "u32" /\ NoBytes(0)

EncodingNext ==
  \/ \E k \in Kinds : \E v \in Encodable(k) : Encode(k, v)
  \/ WriteByte \/ ReadByte \/ Loaded

EncodingSpec == EncodingInit /\ [][EncodingNext]_encoding

-----------------------------------------------------------------------------
(* The engine loads the integer that was encoded, and the encoding ends    *)
(* where the engine stops reading: the byte after it is the next           *)
(* instruction's.                                                          *)
LoadsWhatWasWritten ==
  phase = "loaded" => sum = original /\ position = Len(output) + 1

(* The integers that n bytes can hold. *)
FitsIn(k, n, v) ==
  LET bits == GroupBits * n
  IN IF k \in SignedKinds THEN v \in -(2^(bits - 1)) .. 2^(bits - 1) - 1
                          ELSE v \in 0 .. 2^bits - 1

(* An encoding has the fewest bytes the integer needs, so that none is     *)
(* longer than the ceil(bits / 7) bytes an engine accepts.                 *)
ShortestEncoding ==
  phase = "read" =>
    /\ FitsIn(kind, Len(output), original)
    /\ Len(output) > 1 => ~FitsIn(kind, Len(output) - 1, original)
=============================================================================
