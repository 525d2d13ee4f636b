------------------------------ MODULE Inclusion ------------------------------
(***************************************************************************)
(* WebAssembly.include (masic/wasm/module.py): a library's namespace is    *)
(* created once per module and kept in a cache, and the library may        *)
(* include others while it fills its namespace, itself or one that         *)
(* includes it among them.                                                 *)
(*                                                                         *)
(* What a library does is its own (_include_into, overridden by each): it  *)
(* includes others, in any order, keeps what it is given, and returns or   *)
(* raises.  An exception leaves one include at a time; whoever called may  *)
(* catch it, so that raising further is a step of the caller.              *)
(***************************************************************************)
EXTENDS Integers, Sequences

CONSTANTS
  Libraries,     \* the includeable libraries
  MaxNamespaces  \* bound of the checking: namespaces ever created

ASSUME InclusionAssumption == MaxNamespaces \in Nat

VARIABLES
  created,  \* the library of each namespace, in the order of their creation
  cache,    \* _included_libraries: library |-> namespace
  active,   \* the namespaces whose _include_into runs, innermost last
  held,     \* <<holder, namespace>> for each namespace that was returned
  failed,   \* the namespaces whose _include_into has raised
  closed    \* _closed

vars == <<created, cache, active, held, failed, closed>>

Program    == 0  \* the holder that is not a namespace
Namespaces == 1 .. Len(created)

Init ==
  /\ created = << >> /\ cache = [l \in {} |-> 0] /\ active = << >>
  /\ held = {} /\ failed = {} /\ closed = FALSE

(* Who calls include now, and who called the innermost one. *)
Caller == IF active = << >> THEN Program ELSE active[Len(active)]
Outer  == IF Len(active) < 2 THEN Program ELSE active[Len(active) - 1]

Cached(l)     == l \in DOMAIN cache
Without(l)    == [k \in DOMAIN cache \ {l} |-> cache[k]]
With(l, n)    == [k \in DOMAIN cache \cup {l} |-> IF k = l THEN n ELSE cache[k]]
Own           == created[Caller]
Popped        == SubSeq(active, 1, Len(active) - 1)

IncludeCached(l) ==
  /\ ~closed /\ Cached(l)
  /\ held' = held \cup {<<Caller, cache[l]>>}
  /\ UNCHANGED <<created, cache, active, failed, closed>>

(* Mutant: cached when it is complete. *)
IncludeUncached(l) ==
  /\ ~closed /\ ~Cached(l) /\ Len(created) < MaxNamespaces
  /\ created' = Append(created, l)
  /\ active' = Append(active, Len(created) + 1)
  /\ UNCHANGED <<cache, held, failed, closed>>

(* The namespace is cached before the library fills it. *)
IncludeNew(l) ==
  /\ ~closed /\ ~Cached(l) /\ Len(created) < MaxNamespaces
  /\ created' = Append(created, l)
  /\ cache' = With(l, Len(created) + 1)
  /\ active' = Append(active, Len(created) + 1)
  /\ UNCHANGED <<held, failed, closed>>

(* The module is assembled, or is the library itself, or the library is    *)
(* not includeable, or its _create_namespace raises.                       *)
IncludeRefused == UNCHANGED vars

Return ==
  /\ active # << >>
  /\ held' = held \cup {<<Outer, Caller>>}
  /\ active' = Popped
  /\ UNCHANGED <<created, cache, failed, closed>>

(* Mutant: everything included so far is forgotten. *)
RaiseClearing ==
  /\ active # << >>
  /\ cache' = [l \in {} |-> 0]
  /\ failed' = failed \cup {Caller}
  /\ active' = Popped
  /\ UNCHANGED <<created, held, closed>>

(* A library's own entry is deleted when it raises.  What it had included  *)
(* stays, and with it references to its namespace.                         *)
Raise ==
  /\ active # << >>
  /\ cache' = Without(Own)
  /\ failed' = failed \cup {Caller}
  /\ active' = Popped
  /\ UNCHANGED <<created, held, closed>>

(* compile(), or the end of the with block. *)
Assemble == ~closed /\ closed' = TRUE /\ UNCHANGED <<created, cache, active, held, failed>>

Next ==
  \/ \E l \in Libraries : IncludeCached(l) \/ IncludeNew(l)
  \/ IncludeRefused \/ Return \/ Raise \/ Assemble

Spec == Init /\ [][Next]_vars

-----------------------------------------------------------------------------
(* A running include owns its library's entry, so that deleting it cannot  *)
(* fail, and no library is filled twice at a time: circular inclusion ends.*)
ActiveOwnTheirEntry ==
  /\ \A i \in 1 .. Len(active) :
       /\ active[i] \in Namespaces
       /\ Cached(created[active[i]]) /\ cache[created[active[i]]] = active[i]
  /\ \A i, j \in 1 .. Len(active) : active[i] = active[j] => i = j

(* A namespace that somebody holds is the one every later include returns, *)
(* unless its own include has raised; and the program never holds one      *)
(* whose include raised.                                                   *)
HeldStaysCurrent ==
  \A p \in held :
    /\ p[2] \notin failed => Cached(created[p[2]]) /\ cache[created[p[2]]] = p[2]
    /\ p[1] = Program => p[2] \notin failed

(* "Repeated inclusion returns the same namespace": also a namespace held  *)
(* by a library is the one the program gets.  A failed include breaks it.  *)
OneNamespace ==
  \A p \in held : Cached(created[p[2]]) => cache[created[p[2]]] = p[2]
=============================================================================
