---------------------------- MODULE EvaluationOrder ----------------------------
(***************************************************************************)
(* The order in which the calls, loads, allocations and stores of a        *)
(* statement run once masic/wasm/source.py has compiled it, against the    *)
(* order Python evaluates the same statement in.                           *)
(*                                                                         *)
(* The compiler visits a statement in Python's order, one construct at a   *)
(* time; a step of this module is one construct, and its operands are what *)
(* the constructs before it left behind.  An operand is code that has not  *)
(* run yet.  It runs where it is emitted: a call waits in the operand for  *)
(* the end of the statement, while a load and an allocation are emitted    *)
(* into a local (materialized) as soon as they are visited, and leave      *)
(* nothing but a local.get behind.                                         *)
(*                                                                         *)
(* An event is a construct that does something: its number is the position *)
(* at which Python does it.  Code is a sequence of events; literals,       *)
(* locals and operators leave none in it.  Whether a call has a result     *)
(* makes no difference here, and the loads and stores inside one array     *)
(* operation count as a single event.                                      *)
(***************************************************************************)
EXTENDS Integers, Sequences, SequencesExt, FiniteSets

CONSTANTS
  Constructs,    \* the constructs the function uses
  MaxEvents,     \* bound: events of the function
  MaxOperands,   \* bound: operands that wait at one time
  MaxStatements  \* bound: statements of the function

ASSUME OrderAssumption ==
  MaxEvents \in Nat /\ MaxOperands \in Nat /\ MaxStatements \in Nat

VARIABLES
  events,     \* what Python has evaluated: event |-> [kind, statement]
  statement,  \* number of the statement being compiled
  operands,   \* the operands that wait, each [code, made]
  augmented,  \* target of the augmented assignment being compiled, or NoTarget
  pointers,   \* the address code of each pointer the function has a name for
  emitted,    \* the code emitted so far
  early,      \* events that were materialized
  crossed,    \* pairs of events that a construct puts the other way round
  loose       \* events whose code a pointer, an array or a target keeps

vars == <<events, statement, operands, augmented, pointers, emitted, early,
          crossed, loose>>

(* `code' runs when the operand is emitted; `made' is what was emitted     *)
(* while it was compiled, and is emitted again if it is compiled again.    *)
Operand(code, made) == [code |-> code, made |-> made]
NoTarget == [base |-> <<0>>, index |-> Operand(<<>>, <<>>)]

Init ==
  /\ events = <<>> /\ statement = 1 /\ operands = <<>> /\ augmented = NoTarget
  /\ pointers = {<<>>} /\ emitted = <<>>
  /\ early = {} /\ crossed = {} /\ loose = {}

Top       == Last(operands)
Under     == operands[Len(operands) - 1]
Beneath(n) == SubSeq(operands, 1, Len(operands) - n)

Uses(construct) == construct \in Constructs /\ statement <= MaxStatements
Has(n)          == Len(operands) >= n

(* The event of this construct, and the record of it. *)
Now == Len(events) + 1

Happens(kind) ==
  /\ Now <= MaxEvents
  /\ events' = Append(events, [kind |-> kind, statement |-> statement])

Push(n, code, made) ==
  /\ Len(operands) - n < MaxOperands
  /\ operands' = Append(Beneath(n), Operand(code, made))

-----------------------------------------------------------------------------
(* Expressions *)

(* A literal, or a local. *)
Leaf ==
  /\ Uses("leaf") /\ Push(0, <<>>, <<>>)
  /\ UNCHANGED <<events, statement, augmented, pointers, emitted, early, crossed, loose>>

(* g.value is a global.get, which waits like a call. *)
ReadGlobal ==
  /\ Uses("global") /\ Happens("global") /\ Push(0, <<Now>>, <<>>)
  /\ UNCHANGED <<statement, augmented, pointers, emitted, early, crossed, loose>>

(* An operator or a comparison of two operands. *)
Binary ==
  /\ Uses("binary") /\ Has(2)
  /\ Push(2, Under.code \o Top.code, Under.made \o Top.made)
  /\ UNCHANGED <<events, statement, augmented, pointers, emitted, early, crossed, loose>>

(* f(a) *)
Call ==
  /\ Uses("call") /\ Has(1) /\ Happens("call")
  /\ Push(1, Append(Top.code, Now), Top.made)
  /\ UNCHANGED <<statement, augmented, pointers, emitted, early, crossed, loose>>

(* f(a, b) *)
CallTwo ==
  /\ Uses("call") /\ Has(2) /\ Happens("call")
  /\ Push(2, Append(Under.code \o Top.code, Now), Under.made \o Top.made)
  /\ UNCHANGED <<statement, augmented, pointers, emitted, early, crossed, loose>>

(* A call whose code has the operand that was written last first.          *)
CallCrossed ==
  /\ Has(2) /\ Happens("call")
  /\ Push(2, Append(Top.code \o Under.code, Now), Under.made \o Top.made)
  /\ crossed' = crossed \cup (Range(Under.code) \X Range(Top.code))
  /\ UNCHANGED <<statement, augmented, pointers, emitted, early, loose>>

(* f(b=x, a=y): the arguments are emitted in the order of the signature.   *)
CallKeywords == Uses("keywords") /\ CallCrossed

(* t.call(i, a): the arguments are emitted before the index. *)
CallIndirect == Uses("indirect") /\ CallCrossed

(* Mutant: the load stays where it is used. *)
MaterializeLazily(code) ==
  /\ Push(1, code, Top.made)
  /\ UNCHANGED <<emitted, early>>

(* materialize(): code is emitted, and its value kept in a new local.      *)
Materialize(code) ==
  /\ emitted' = emitted \o code
  /\ early' = early \cup Range(code)
  /\ Push(1, <<>>, Top.made \o code)

(* p[i]: the code of the address of p, that of i, and the load, all at     *)
(* once.                                                                   *)
Load(base) ==
  /\ Uses("load") /\ Has(1) /\ Happens("load")
  /\ Materialize(base \o Append(Top.code, Now))
  /\ UNCHANGED <<statement, augmented, pointers, crossed, loose>>

(* Mutant: the count is compiled into the product and the comparison.      *)
MallocCountTwice ==
  /\ Uses("malloc") /\ Has(1) /\ Happens("malloc")
  /\ Materialize(Top.code \o Top.code \o <<Now>>)
  /\ UNCHANGED <<statement, augmented, pointers, crossed, loose>>

(* malloc(n): first the count is materialized, then the call. *)
Malloc ==
  /\ Uses("malloc") /\ Has(1) /\ Happens("malloc")
  /\ Materialize(Append(Top.code, Now))
  /\ UNCHANGED <<statement, augmented, pointers, crossed, loose>>

-----------------------------------------------------------------------------
(* Ends of statements *)

Alone == Len(operands) = 1 /\ augmented = NoTarget

Done == operands' = <<>> /\ statement' = statement + 1

(* Mutant: the name is bound to the code of the value. *)
EvaluateLater ==
  /\ Uses("evaluate") /\ Alone /\ Done
  /\ pointers' = pointers \cup {Top.code}
  /\ UNCHANGED <<events, augmented, emitted, early, crossed, loose>>

(* x = v, return v, a condition, or v on its own: its code is emitted.     *)
Evaluate ==
  /\ Uses("evaluate") /\ Alone /\ Done
  /\ emitted' = emitted \o Top.code
  /\ UNCHANGED <<events, augmented, pointers, early, crossed, loose>>

(* g.value = v *)
SetGlobal ==
  /\ Uses("set") /\ Alone /\ Happens("set") /\ Done
  /\ emitted' = emitted \o Append(Top.code, Now)
  /\ UNCHANGED <<augmented, pointers, early, crossed, loose>>

(* p[i] = v: v is visited before i, but emitted after it. *)
Store(base) ==
  /\ Uses("store") /\ Len(operands) = 2 /\ augmented = NoTarget
  /\ Happens("store") /\ Done
  /\ emitted' = emitted \o base \o Top.code \o Append(Under.code, Now)
  /\ crossed' = crossed \cup (Range(Under.code) \X Range(Top.code))
  /\ UNCHANGED <<augmented, pointers, early, loose>>

(* p[i] += v begins with the load of p[i] ... *)
AugmentedLoad(base) ==
  /\ Uses("augmented") /\ Alone /\ Happens("load")
  /\ emitted' = emitted \o base \o Append(Top.code, Now)
  /\ early' = early \cup Range(Append(Top.code, Now))
  /\ augmented' = [base |-> base, index |-> Top]
  /\ operands' = <<>>
  /\ UNCHANGED <<statement, pointers, crossed, loose>>

(* ... and ends with the target compiled again, for the store. *)
AugmentedStore ==
  /\ Uses("augmented") /\ augmented # NoTarget /\ Len(operands) = 1
  /\ Happens("store") /\ Done
  /\ LET target == augmented.index
     IN /\ emitted' = emitted \o target.made \o augmented.base \o target.code
                        \o Append(Top.code, Now)
        /\ loose' = loose \cup Range(target.made) \cup Range(target.code)
  /\ augmented' = NoTarget
  /\ UNCHANGED <<pointers, early, crossed>>

(* p = pointer[T].from_address(v) keeps the code and emits nothing.        *)
BindPointer ==
  /\ Uses("pointer") /\ Alone /\ Done
  /\ pointers' = pointers \cup {Top.code}
  /\ loose' = loose \cup Range(Top.code)
  /\ UNCHANGED <<events, augmented, emitted, early, crossed>>

(* a = std.Array[T](n): the code of n is part of the byte count, and again *)
(* of the header that records the capacity.                                *)
ConstructArray ==
  /\ Uses("array") /\ Alone /\ Happens("malloc") /\ Done
  /\ emitted' = emitted \o Append(Top.code, Now) \o Top.code
  /\ loose' = loose \cup Range(Top.code)
  /\ UNCHANGED <<augmented, pointers, early, crossed>>

(* a.push(v): the array has grown before v is emitted, as what is stored.  *)
PushElement ==
  /\ Uses("push") /\ Alone /\ Happens("malloc") /\ Done
  /\ emitted' = Append(emitted, Now) \o Top.code
  /\ early' = early \cup {Now}
  /\ UNCHANGED <<augmented, pointers, crossed, loose>>

-----------------------------------------------------------------------------
Expression ==
  \/ Leaf \/ ReadGlobal \/ Binary \/ Call \/ CallTwo \/ CallKeywords \/ CallIndirect
  \/ \E base \in pointers : Load(base)
  \/ Malloc

EndOfStatement ==
  \/ Evaluate \/ SetGlobal \/ BindPointer \/ ConstructArray \/ PushElement
  \/ \E base \in pointers : Store(base)
  \/ \E base \in pointers : AugmentedLoad(base)
  \/ AugmentedStore

Next == Expression \/ EndOfStatement

Spec == Init /\ [][Next]_vars

-----------------------------------------------------------------------------
Events == DOMAIN events

(* The places at which an event runs, and at which its code still waits.   *)
Runs(e)  == {i \in DOMAIN emitted : emitted[i] = e}
Waits(e) == {w \in (DOMAIN operands) \X (1 .. MaxEvents) :
               LET code == operands[w[1]].code
               IN w[2] \in DOMAIN code /\ code[w[2]] = e}

(* Nothing is lost or done twice: at every moment an event has run once,   *)
(* or its code waits in one operand, unless a pointer, the capacity of an  *)
(* array or the target of an augmented assignment has kept the code.       *)
RunsOnce ==
  \A e \in Events \ loose : Cardinality(Runs(e)) + Cardinality(Waits(e)) = 1

(* b, which Python does later, runs although a has not yet run. *)
Overtakes(b, a) ==
  a < b /\ \E i \in Runs(b) : \A j \in Runs(a) : i < j

(* Only within a statement is anything done out of order. *)
StatementsInOrder ==
  \A a, b \in Events \ loose :
    Overtakes(b, a) => events[a].statement = events[b].statement

(* Within it, only a call or the read of a global is ever overtaken, and    *)
(* only by something materialized or by a call in an operand of that;      *)
(* calls that wait together keep Python's order.  Keyword arguments, the   *)
(* index of an indirect call and the target of a store are the exceptions. *)
OnlyWaitingIsOvertaken ==
  \A a, b \in Events \ loose :
    Overtakes(b, a) =>
      <<a, b>> \in crossed \/ (events[a].kind \in {"call", "global"} /\ b \in early)

(* Every call that Python makes once is made once. *)
CallsRunOnce ==
  operands = <<>> /\ augmented = NoTarget =>
    \A e \in Events : events[e].kind = "call" => Cardinality(Runs(e)) = 1
=============================================================================
