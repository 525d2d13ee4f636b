----------------------------- MODULE HeapContract -----------------------------
(***************************************************************************)
(* What $malloc and $mfree promise compiled code (malloc() and mfree() of  *)
(* masic/wasm/memory.py), with no word on how: a pointer the caller holds  *)
(* names bytes that are its own until it frees them.                       *)
(***************************************************************************)
EXTENDS Integers

CONSTANTS AddressSpace, PageSize, HeapStart, Requests

VARIABLES
  mem,    \* linear memory, word by word
  pages,  \* its size in pages
  live    \* the caller's pointers: payload address |-> bytes requested

vars == <<mem, pages, live>>

Words == {a \in 0 .. (AddressSpace - 1) : a % 4 = 0}

(* The words the pointer p of the caller names. *)
PayloadWords(p) == {a \in Words : p <= a /\ a < p + live[p]}

(* The static data below the heap, and the payloads of the pointers in P,  *)
(* are as they were.                                                       *)
Keeps(P) ==
  \A a \in Words :
    a < HeapStart \/ (\E p \in P : a \in PayloadWords(p)) => mem'[a] = mem[a]

Init == live = [p \in {} |-> 0]

(* A new pointer is not null, its bytes exist, and nobody else holds them. *)
Disjoint(p, n) ==
  \A q \in DOMAIN live : p + n <= q \/ q + live[q] <= p

Malloc(n) ==
  \E p \in Words \ DOMAIN live :
    /\ p > HeapStart /\ p + n <= pages' * PageSize
    /\ p % 8 = (HeapStart + 4) % 8
    /\ Disjoint(p, n)
    /\ live' = [q \in DOMAIN live \cup {p} |-> IF q = p THEN n ELSE live[q]]
    /\ pages' >= pages
    /\ Keeps(DOMAIN live)

MFree(p) ==
  /\ live' = [q \in DOMAIN live \ {p} |-> live[q]]
  /\ Keeps(DOMAIN live \ {p})
  /\ UNCHANGED pages

(* The caller writes what it likes into a payload, and nowhere else. *)
Store(p) ==
  /\ \A a \in Words \ PayloadWords(p) : mem'[a] = mem[a]
  /\ UNCHANGED <<pages, live>>

Next ==
  \/ \E n \in Requests : Malloc(n)
  \/ \E p \in DOMAIN live : MFree(p)
  \/ \E p \in DOMAIN live : Store(p)

Spec == Init /\ [][Next]_vars
=============================================================================
