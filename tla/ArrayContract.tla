----------------------------- MODULE ArrayContract -----------------------------
(***************************************************************************)
(* What std.Array[T] promises a program (masic/wasm/stdlib.py), with no    *)
(* word on storage: an array is a sequence that grows at its end, and that *)
(* no other array, allocation or relocation changes.                       *)
(***************************************************************************)
EXTENDS Sequences

CONSTANTS Arrays, Values

VARIABLE contents  \* the arrays the program holds, each with its elements

Init == contents = [a \in {} |-> <<>>]

Construct(a) ==
  /\ a \notin DOMAIN contents
  /\ contents' = [b \in DOMAIN contents \cup {a} |-> IF b = a THEN <<>> ELSE contents[b]]

Push(a, v) == contents' = [contents EXCEPT ![a] = Append(@, v)]

Free(a) == contents' = [b \in DOMAIN contents \ {a} |-> contents[b]]

Next ==
  \/ \E a \in Arrays : Construct(a)
  \/ \E a \in DOMAIN contents, v \in Values : Push(a, v)
  \/ \E a \in DOMAIN contents : Free(a)

Spec == Init /\ [][Next]_contents
=============================================================================
