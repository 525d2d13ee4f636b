------------------------- MODULE EvaluationOrderProofs -------------------------
(***************************************************************************)
(* What EvaluationOrder promises of the order in which a function's code   *)
(* runs, for functions of any length, with any number of operands that     *)
(* wait.                                                                   *)
(*                                                                         *)
(* The three properties look at whole histories of emitted code; what has  *)
(* to be known of a step is only which pairs of events it puts after each  *)
(* other.  A pair that may run in this order is Fine: everything emitted   *)
(* so far is in fine pairs, and so is all of it with what still waits.     *)
(***************************************************************************)
EXTENDS EvaluationOrder, FiniteSetTheorems, SequenceTheorems, TLAPS

-----------------------------------------------------------------------------
(* The inductive invariant *)

(* What comes earlier in s comes in a pair of R with all that is later,    *)
(* for the elements outside L.                                             *)
Related(s, L, R) ==
  \A i, k \in DOMAIN s : i < k /\ s[i] \notin L /\ s[k] \notin L => <<s[i], s[k]>> \in R

Kinds == {"call", "global", "load", "malloc", "set", "store"}

Operands == [code : Seq(Events), made : Seq(Events)]

(* All the code there is consists of events that have happened.            *)
Shape ==
  /\ events \in Seq([kind : Kinds, statement : Nat]) /\ Len(events) <= MaxEvents
  /\ statement \in Nat
  /\ operands \in Seq(Operands) /\ emitted \in Seq(Events) /\ pointers \subseteq Seq(Events)
  /\ augmented # NoTarget => augmented.base \in Seq(Events) /\ augmented.index \in Operands

(* The pairs of events that may stand in this order in the code of one     *)
(* operand: they are two, and if the second is the one that Python does    *)
(* first, a construct has crossed them.                                    *)
Written ==
  {p \in Events \X Events : p[1] # p[2] /\ (p[2] < p[1] => <<p[2], p[1]>> \in crossed)}

(* y, which Python does first, may run after x. *)
Excused(y, x) ==
  /\ events[y].statement = events[x].statement
  /\ <<y, x>> \in crossed \/ (events[y].kind \in {"call", "global"} /\ x \in early)

(* The pairs of events that may run in this order. *)
Fine == {p \in Events \X Events : p[1] # p[2] /\ (p[2] < p[1] => Excused(p[2], p[1]))}

(* The events whose code waits in an operand. *)
CodeOf(i) == Range(operands[i].code)
Waiting   == UNION {CodeOf(i) : i \in DOMAIN operands}

(* Operands wait in the order they were written, and only calls and reads  *)
(* of globals of this statement wait.                                      *)
OperandsInOrder ==
  /\ \A e \in Waiting : events[e].statement = statement /\ events[e].kind \in {"call", "global"}
  /\ \A i \in DOMAIN operands : Related(operands[i].code, {}, Written)
  /\ \A i, k \in DOMAIN operands : i < k => \A x \in CodeOf(i), y \in CodeOf(k) : x < y

(* What has been emitted, and then what waits, runs in an order that is    *)
(* fine.                                                                   *)
EmittedInOrder ==
  /\ Related(emitted, loose, Fine)
  /\ (Range(emitted) \ loose) \X (Waiting \ loose) \subseteq Fine

(* No event has been lost. *)
AllThere == Events \subseteq loose \cup Range(emitted) \cup Waiting

(* What pointers and targets emit again does not count. *)
KeptIsLoose ==
  /\ \A base \in pointers : Range(base) \subseteq loose
  /\ augmented # NoTarget => Range(augmented.base) \subseteq loose

IInv == Shape /\ OperandsInOrder /\ EmittedInOrder /\ AllThere /\ KeptIsLoose

-----------------------------------------------------------------------------
(* Related sequences *)

LEMMA Elements ==
  ASSUME NEW S, NEW s \in Seq(S)
  PROVE  /\ Len(s) \in Nat /\ DOMAIN s = 1 .. Len(s)
         /\ \A i \in 1 .. Len(s) : s[i] \in S /\ s[i] \in Range(s)
         /\ \A x \in Range(s) : x \in S /\ \E i \in 1 .. Len(s) : s[i] = x
<1>1. Len(s) \in Nat /\ DOMAIN s = 1 .. Len(s)
  BY LenProperties
<1>2. \A i \in 1 .. Len(s) : s[i] \in S
  BY ElementOfSeq
<1> QED
  BY <1>1, <1>2 DEF Range

(* A sequence stays related when fewer elements count, in as many pairs.   *)
LEMMA RelatedKept ==
  ASSUME NEW S, NEW s \in Seq(S), NEW L, NEW M, NEW Q, NEW R, Related(s, L, Q),
         L \subseteq M, \A x, y \in Range(s) : <<x, y>> \in Q => <<x, y>> \in R
  PROVE  Related(s, M, R)
<1>1. \A i \in DOMAIN s : s[i] \in Range(s)
  BY Elements
<1> QED
  BY <1>1 DEF Related

LEMMA RelatedConcat ==
  ASSUME NEW S, NEW s \in Seq(S), NEW t \in Seq(S), NEW L, NEW R,
         Related(s, L, R), Related(t, L, R),
         (Range(s) \ L) \X (Range(t) \ L) \subseteq R
  PROVE  Related(s \o t, L, R)
<1>1. PICK u : u = s \o t
  OBVIOUS
<1>2. /\ u \in Seq(S) /\ Len(u) = Len(s) + Len(t)
      /\ \A i \in 1 .. Len(s) + Len(t) : u[i] = IF i <= Len(s) THEN s[i] ELSE t[i - Len(s)]
  BY <1>1, ConcatProperties
<1>3. /\ Len(s) \in Nat /\ DOMAIN s = 1 .. Len(s) /\ Len(t) \in Nat /\ DOMAIN t = 1 .. Len(t)
      /\ \A i \in 1 .. Len(s) : s[i] \in Range(s)
      /\ \A i \in 1 .. Len(t) : t[i] \in Range(t)
  BY Elements
<1>4. DOMAIN u = 1 .. (Len(s) + Len(t))
  BY <1>2, Elements
<1>5. SUFFICES ASSUME NEW i \in DOMAIN u, NEW k \in DOMAIN u, i < k, u[i] \notin L, u[k] \notin L
               PROVE  <<u[i], u[k]>> \in R
  BY <1>1 DEF Related
<1>6. CASE k <= Len(s)
  <2>1. u[i] = s[i] /\ u[k] = s[k] /\ i \in DOMAIN s /\ k \in DOMAIN s
    BY <1>2, <1>3, <1>4, <1>5, <1>6
  <2> QED
    BY <1>5, <2>1 DEF Related
<1>7. CASE i > Len(s)
  <2>1. /\ u[i] = t[i - Len(s)] /\ u[k] = t[k - Len(s)]
        /\ i - Len(s) \in DOMAIN t /\ k - Len(s) \in DOMAIN t /\ i - Len(s) < k - Len(s)
    BY <1>2, <1>3, <1>4, <1>5, <1>7
  <2> QED
    BY <1>5, <2>1 DEF Related
<1>8. CASE i <= Len(s) /\ k > Len(s)
  <2>1. /\ u[i] = s[i] /\ i \in 1 .. Len(s)
        /\ u[k] = t[k - Len(s)] /\ k - Len(s) \in 1 .. Len(t)
    BY <1>2, <1>3, <1>4, <1>5, <1>8
  <2>2. u[i] \in Range(s) /\ u[k] \in Range(t)
    BY <1>3, <2>1
  <2> QED
    BY <1>5, <2>2
<1> QED
  BY <1>3, <1>4, <1>6, <1>7, <1>8

LEMMA RelatedSmall ==
  ASSUME NEW L, NEW R
  PROVE  /\ Related(<<>>, L, R)
         /\ \A x : Related(<<x>>, L, R)
         /\ \A S : \A s \in Seq(S) : Range(s) \subseteq L => Related(s, L, R)
<1>1. ASSUME NEW S, NEW s \in Seq(S), Range(s) \subseteq L
      PROVE  Related(s, L, R)
  BY <1>1, Elements DEF Related
<1> QED
  BY <1>1 DEF Related

LEMMA RelatedAppend ==
  ASSUME NEW S, NEW s \in Seq(S), NEW x \in S, NEW L, NEW R, Related(s, L, R),
         \A y \in Range(s) : <<y, x>> \in R
  PROVE  /\ Append(s, x) \in Seq(S) /\ Related(Append(s, x), L, R)
         /\ Range(Append(s, x)) = Range(s) \cup {x}
<1>1. PICK one : one = <<x>>
  OBVIOUS
<1>2. Append(s, x) = s \o one /\ one \in Seq(S) /\ Range(one) = {x}
  BY <1>1, AppendIsConcat DEF Range
<1>3. Related(one, L, R)
  BY <1>1, RelatedSmall
<1>4. Related(s \o one, L, R)
  BY <1>2, <1>3, RelatedConcat
<1>5. Range(s \o one) = Range(s) \cup {x}
  BY <1>2, RangeConcatenation
<1> QED
  BY <1>2, <1>4, <1>5, AppendProperties

-----------------------------------------------------------------------------
(* What every step does *)

(* Events are added, and excuses and loose events are.                     *)
Extended == UNCHANGED events \/ \E kind \in Kinds : Happens(kind)
Grows    == Extended /\ crossed \subseteq crossed' /\ early \subseteq early' /\ loose \subseteq loose'

(* The event that happens in the step, if one does. *)
New == Events' \ Events

LEMMA ExtendedFacts ==
  ASSUME Shape, Extended
  PROVE  /\ events' \in Seq([kind : Kinds, statement : Nat]) /\ Len(events') <= MaxEvents
         /\ Events \subseteq Events' /\ Events = 1 .. Len(events) /\ Len(events) \in Nat
         /\ \A e \in Events : events'[e] = events[e]
         /\ \A e \in New : e = Now /\ events'[e].statement = statement
         /\ \A x \in Events, y \in New : x < y
<1> DEFINE Records == [kind : Kinds, statement : Nat]
<1>1. events \in Seq(Records) /\ Len(events) \in Nat /\ Events = 1 .. Len(events)
  BY Elements DEF Shape, Events
<1>2. CASE UNCHANGED events
  BY <1>1, <1>2 DEF Shape, New, Events
<1>3. CASE \E kind \in Kinds : Happens(kind)
  <2>1. PICK kind \in Kinds : Happens(kind)
    BY <1>3
  <2>2. PICK r \in Records : r = [kind |-> kind, statement |-> statement]
    BY DEF Shape
  <2>3. events' = Append(events, r) /\ Len(events) + 1 <= MaxEvents
    BY <2>1, <2>2 DEF Happens, Now
  <2>4. /\ events' \in Seq(Records) /\ Len(events') = Len(events) + 1
        /\ \A i \in 1 .. Len(events) : events'[i] = events[i]
        /\ events'[Len(events) + 1] = r
    BY <1>1, <2>3, AppendProperties
  <2>5. Events' = 1 .. (Len(events) + 1)
    BY <2>4, Elements DEF Events
  <2>6. New = {Now} /\ Now = Len(events) + 1
    BY <1>1, <2>5 DEF New, Now
  <2> QED
    BY <1>1, <2>2, <2>3, <2>4, <2>5, <2>6
<1> QED
  BY <1>2, <1>3 DEF Extended

LEMMA HappensFacts ==
  ASSUME Shape, NEW kind \in Kinds, Happens(kind)
  PROVE  Extended /\ New = {Now} /\ Now \in Events' /\ events'[Now].kind = kind
<1> DEFINE Records == [kind : Kinds, statement : Nat]
<1>1. events \in Seq(Records) /\ Len(events) \in Nat /\ Events = 1 .. Len(events)
  BY Elements DEF Shape, Events
<1>2. PICK r \in Records : r = [kind |-> kind, statement |-> statement]
  BY DEF Shape
<1>3. events' = Append(events, r)
  BY <1>2 DEF Happens
<1>4. events' \in Seq(Records) /\ Len(events') = Len(events) + 1 /\ events'[Len(events) + 1] = r
  BY <1>1, <1>3, AppendProperties
<1>5. Events' = 1 .. (Len(events) + 1)
  BY <1>4, Elements DEF Events
<1> QED
  BY <1>1, <1>2, <1>4, <1>5 DEF New, Now, Extended

(* All the events that wait, and the new one, belong to this statement.    *)
LEMMA Together ==
  ASSUME Shape, OperandsInOrder, Extended
  PROVE  /\ Waiting \subseteq Events
         /\ \A e \in Waiting \cup New :
              e \in Events' /\ e \in Nat /\ events'[e].statement = statement
         /\ \A e \in Waiting : events'[e].kind \in {"call", "global"}
<1>1. ASSUME NEW i \in DOMAIN operands
      PROVE  CodeOf(i) \subseteq Events
  <2>1. operands[i] \in Operands
    BY Elements DEF Shape
  <2>2. operands[i].code \in Seq(Events)
    BY <2>1 DEF Operands
  <2> QED
    BY <2>2, Elements DEF CodeOf
<1>2. Waiting \subseteq Events
  BY <1>1 DEF Waiting
<1>3. /\ Events \subseteq Events' /\ \A e \in Events : events'[e] = events[e] /\ e \in Nat
      /\ \A e \in New : e \in Events' /\ e \in Nat /\ events'[e].statement = statement
  BY ExtendedFacts DEF New, Now
<1> QED
  BY <1>2, <1>3 DEF OperandsInOrder

(* The pairs that may run in this order after a step.                      *)
LEMMA OrderFacts ==
  ASSUME Shape, OperandsInOrder, Grows
  PROVE  /\ Fine \subseteq Fine' /\ Written \subseteq Written'
         /\ \A x \in Events, y \in New : <<x, y>> \in Fine' /\ <<x, y>> \in Written'
         /\ \A x, y \in Waiting \cup New : <<x, y>> \in Written' => <<x, y>> \in Fine'
         /\ \A x \in early' \cap (Waiting \cup New), y \in Waiting :
              x # y => <<x, y>> \in Fine'
<1>1. /\ Extended /\ Events \subseteq Events' /\ \A e \in Events : events'[e] = events[e]
      /\ \A x \in Events, y \in New : x < y /\ ~(y < x) /\ x # y /\ x \in Events' /\ y \in Events'
  BY ExtendedFacts DEF Grows, New, Now
<1>2. Written \subseteq Written'
  BY <1>1 DEF Written, Grows
<1>3. Fine \subseteq Fine'
  BY <1>1 DEF Fine, Excused, Grows
<1>4. \A x \in Events, y \in New : <<x, y>> \in Fine' /\ <<x, y>> \in Written'
  BY <1>1 DEF Fine, Written
<1>5. ASSUME NEW x \in Waiting \cup New, NEW y \in Waiting \cup New, <<x, y>> \in Written'
      PROVE  <<x, y>> \in Fine'
  BY <1>1, <1>5, Together DEF Fine, Written, Excused
<1>6. ASSUME NEW x \in early' \cap (Waiting \cup New), NEW y \in Waiting, x # y
      PROVE  <<x, y>> \in Fine'
  BY <1>1, <1>6, Together DEF Fine, Excused
<1> QED
  BY <1>2, <1>3, <1>4, <1>5, <1>6

(* Whatever waits, and the new event, may follow what has been emitted.    *)
LEMMA OldBeforeNew ==
  ASSUME Shape, OperandsInOrder, EmittedInOrder, Grows,
         NEW x \in Range(emitted) \ loose', NEW y \in (Waiting \cup New) \ loose'
  PROVE  <<x, y>> \in Fine'
<1>1. x \in Range(emitted) \ loose /\ y \notin loose /\ x \in Events
  BY Elements DEF Grows, Shape
<1>2. CASE y \in New
  BY <1>1, <1>2, OrderFacts
<1>3. CASE y \in Waiting
  BY <1>1, <1>3, OrderFacts DEF EmittedInOrder
<1> QED
  BY <1>2, <1>3

-----------------------------------------------------------------------------
(* Emitting code *)

(* Code of operands, and of the new event, is emitted, in an order that is *)
(* fine in itself and towards what still waits; the rest of it is loose.   *)
LEMMA Emission ==
  ASSUME IInv, Grows, NEW added \in Seq(Events'), emitted' = emitted \o added,
         Related(added, loose', Fine'),
         Range(added) \ loose' \subseteq Waiting \cup New,
         Waiting' \subseteq Waiting \cup New,
         (Range(added) \ loose') \X (Waiting' \ loose') \subseteq Fine',
         Waiting \cup New \subseteq loose' \cup Range(added) \cup Waiting'
  PROVE  emitted' \in Seq(Events') /\ EmittedInOrder' /\ AllThere'
<1> USE DEF IInv
<1>1. /\ Shape /\ OperandsInOrder /\ EmittedInOrder
      /\ Events \subseteq Events' /\ Fine \subseteq Fine' /\ loose \subseteq loose'
  BY ExtendedFacts, OrderFacts DEF Grows
<1>2. emitted \in Seq(Events) /\ emitted \in Seq(Events')
  BY <1>1, SeqMonotonic DEF Shape
<1>3. emitted' \in Seq(Events') /\ Range(emitted') = Range(emitted) \cup Range(added)
  BY <1>2, ConcatProperties, RangeConcatenation
<1>4. Related(emitted, loose', Fine')
  BY <1>1, <1>2, RelatedKept DEF EmittedInOrder
<1>5. (Range(emitted) \ loose') \X (Range(added) \ loose') \subseteq Fine'
  BY OldBeforeNew
<1>6. Related(emitted', loose', Fine')
  BY <1>2, <1>4, <1>5, RelatedConcat
<1>7. (Range(emitted) \ loose') \X (Waiting' \ loose') \subseteq Fine'
  BY OldBeforeNew
<1>8. EmittedInOrder'
  BY <1>3, <1>6, <1>7 DEF EmittedInOrder
<1>9. AllThere'
  BY <1>1, <1>3 DEF AllThere, New
<1> QED
  BY <1>3, <1>8, <1>9

-----------------------------------------------------------------------------
(* Pushing an operand *)

(* The events of the n operands on top. *)
Taken(n) == UNION {CodeOf(i) : i \in (Len(operands) - n + 1) .. Len(operands)}

LEMMA OperandFacts ==
  ASSUME Shape
  PROVE  /\ Len(operands) \in Nat /\ DOMAIN operands = 1 .. Len(operands)
         /\ \A i \in 1 .. Len(operands) :
              /\ operands[i] \in Operands
              /\ operands[i].code \in Seq(Events) /\ operands[i].made \in Seq(Events)
              /\ CodeOf(i) \subseteq Events /\ CodeOf(i) \subseteq Waiting
<1>1. /\ Len(operands) \in Nat /\ DOMAIN operands = 1 .. Len(operands)
      /\ \A i \in 1 .. Len(operands) : operands[i] \in Operands
  BY Elements DEF Shape
<1>2. ASSUME NEW i \in 1 .. Len(operands)
      PROVE  operands[i].code \in Seq(Events) /\ operands[i].made \in Seq(Events)
  BY <1>1 DEF Operands
<1>3. ASSUME NEW i \in 1 .. Len(operands)
      PROVE  CodeOf(i) \subseteq Events
  BY <1>2, Elements DEF CodeOf
<1>4. \A i \in 1 .. Len(operands) : CodeOf(i) \subseteq Waiting
  BY <1>1 DEF Waiting
<1> QED
  BY <1>1, <1>2, <1>3, <1>4

LEMMA PushedFacts ==
  ASSUME Shape, Grows, NEW n \in 0 .. Len(operands),
         NEW code \in Seq(Events'), NEW made \in Seq(Events'), Push(n, code, made)
  PROVE  /\ operands' \in Seq(Operands') /\ Len(operands') = Len(operands) - n + 1
         /\ DOMAIN operands' = 1 .. (Len(operands) - n + 1)
         /\ \A i \in 1 .. (Len(operands) - n) : operands'[i] = operands[i]
         /\ operands'[Len(operands) - n + 1].code = code
         /\ operands'[Len(operands) - n + 1].made = made
<1>1. PICK beneath : beneath = Beneath(n)
  OBVIOUS
<1>2. PICK top : top = Operand(code, made)
  OBVIOUS
<1>3. PICK m \in Nat : m = Len(operands) - n
  <2>1. Len(operands) \in Nat
    BY OperandFacts
  <2>2. Len(operands) - n \in Nat
    BY <2>1
  <2> QED
    BY <2>2
<1>4. Operands \subseteq Operands'
  BY ExtendedFacts, SeqMonotonic DEF Operands, Grows
<1>5. top \in Operands' /\ top.code = code /\ top.made = made
  BY <1>2 DEF Operands, Operand
<1>6. \A i \in 1 .. m : operands[i] \in Operands'
  BY <1>3, <1>4, OperandFacts
<1>7. /\ beneath \in Seq(Operands') /\ Len(beneath) = m
      /\ \A i \in 1 .. m : beneath[i] = operands[i]
  BY <1>1, <1>3, <1>6, SubSeqProperties DEF Beneath
<1>8. operands' = Append(beneath, top)
  BY <1>1, <1>2 DEF Push
<1>9. /\ operands' \in Seq(Operands') /\ Len(operands') = m + 1
      /\ \A i \in 1 .. m : operands'[i] = beneath[i]
      /\ operands'[m + 1] = top
  BY <1>5, <1>7, <1>8, AppendProperties
<1>10. DOMAIN operands' = 1 .. (m + 1)
  BY <1>9, Elements
<1> QED
  BY <1>3, <1>5, <1>7, <1>9, <1>10

(* The new operand's code is that of the operands it takes the place of,   *)
(* and the new event: so it comes after all the others.                    *)
LEMMA Pushed ==
  ASSUME Shape, OperandsInOrder, Grows, statement' = statement, NEW n \in 0 .. Len(operands),
         NEW code \in Seq(Events'), NEW made \in Seq(Events'), Push(n, code, made),
         Related(code, {}, Written'), Range(code) \subseteq Taken(n) \cup New,
         \A e \in New \cap Range(code) : events'[e].kind \in {"call", "global"}
  PROVE  /\ operands' \in Seq(Operands') /\ OperandsInOrder'
         /\ Waiting' \subseteq Waiting \cup New
         /\ Waiting \subseteq Waiting' \cup Taken(n) /\ Range(code) \subseteq Waiting'
         /\ \A y \in Waiting' \ Range(code) : y \in Waiting /\ \A x \in Taken(n) : y < x
<1>1. PICK m \in Nat : m = Len(operands) - n
  <2>1. Len(operands) \in Nat
    BY OperandFacts
  <2>2. Len(operands) - n \in Nat
    BY <2>1
  <2> QED
    BY <2>2
<1>2. /\ operands' \in Seq(Operands') /\ DOMAIN operands' = 1 .. (m + 1)
      /\ \A i \in 1 .. m : operands'[i] = operands[i]
      /\ operands'[m + 1].code = code
  BY <1>1, PushedFacts
<1>3. /\ Len(operands) \in Nat /\ DOMAIN operands = 1 .. Len(operands) /\ m <= Len(operands)
      /\ \A i \in 1 .. Len(operands) : CodeOf(i) \subseteq Events /\ CodeOf(i) \subseteq Waiting
  BY <1>1, OperandFacts
<1>4. (\A i \in 1 .. m : CodeOf(i)' = CodeOf(i)) /\ CodeOf(m + 1)' = Range(code)
  BY <1>2 DEF CodeOf
<1>5. Taken(n) = UNION {CodeOf(i) : i \in (m + 1) .. Len(operands)}
  BY <1>1 DEF Taken
<1>6. Waiting' = UNION {CodeOf(i)' : i \in 1 .. (m + 1)}
  BY <1>2 DEF Waiting
<1>7. Taken(n) \subseteq Waiting
  BY <1>3, <1>5
<1>8. Waiting' \subseteq Waiting \cup New /\ Range(code) \subseteq Waiting'
  <2>1. \A i \in 1 .. (m + 1) : i \in 1 .. m \/ i = m + 1
    OBVIOUS
  <2>2. \A i \in 1 .. m : CodeOf(i)' \subseteq Waiting
    BY <1>1, <1>3, <1>4
  <2>3. CodeOf(m + 1)' \subseteq Waiting \cup New
    BY <1>4, <1>7
  <2> QED
    BY <1>4, <1>6, <2>1, <2>2, <2>3
<1>9. Waiting \subseteq Waiting' \cup Taken(n)
  <2>1. \A i \in 1 .. Len(operands) : i \in 1 .. m \/ i \in (m + 1) .. Len(operands)
    BY <1>3
  <2>2. Waiting = UNION {CodeOf(i) : i \in 1 .. Len(operands)}
    BY <1>3 DEF Waiting
  <2> QED
    BY <1>4, <1>5, <1>6, <2>1, <2>2
<1>10. \A e \in Waiting' : events'[e].statement = statement' /\ events'[e].kind \in {"call", "global"}
  <2>1. \A e \in Waiting' : e \in Waiting \/ (e \in New /\ e \in Range(code))
    <3>1. \A i \in 1 .. m : CodeOf(i)' \subseteq Waiting
      BY <1>1, <1>3, <1>4
    <3>2. \A i \in 1 .. (m + 1) : i \in 1 .. m \/ i = m + 1
      OBVIOUS
    <3> QED
      BY <1>4, <1>6, <1>7, <3>1, <3>2
  <2> QED
    BY <2>1, Together DEF Grows
<1>11. ASSUME NEW i \in DOMAIN operands'
       PROVE  Related(operands'[i].code, {}, Written')
  <2>1. CASE i = m + 1
    BY <1>2, <2>1
  <2>2. CASE i \in 1 .. m
    <3>1. i \in DOMAIN operands /\ operands[i].code \in Seq(Events)
      BY <1>3, <2>2, OperandFacts
    <3>2. Written \subseteq Written'
      BY OrderFacts
    <3>3. Related(operands[i].code, {}, Written)
      BY <3>1 DEF OperandsInOrder
    <3> QED
      BY <1>2, <2>2, <3>1, <3>2, <3>3, RelatedKept
  <2> QED
    BY <1>2, <2>1, <2>2
<1>12. ASSUME NEW i \in DOMAIN operands', NEW k \in DOMAIN operands', i < k,
              NEW x \in CodeOf(i)', NEW y \in CodeOf(k)'
       PROVE  x < y
  <2>1. i \in 1 .. m /\ i \in DOMAIN operands /\ x \in CodeOf(i) /\ x \in Events
    BY <1>2, <1>3, <1>4, <1>12
  <2>2. CASE k \in 1 .. m
    BY <1>3, <1>4, <1>12, <2>1, <2>2 DEF OperandsInOrder
  <2>3. CASE k = m + 1 /\ y \in New
    BY <2>1, <2>3, ExtendedFacts DEF Grows
  <2>4. CASE k = m + 1 /\ y \in Taken(n)
    <3>1. PICK j \in (m + 1) .. Len(operands) : y \in CodeOf(j)
      BY <1>5, <2>4
    <3>2. j \in DOMAIN operands /\ i < j
      BY <1>3, <2>1, <3>1
    <3> QED
      BY <2>1, <3>1, <3>2 DEF OperandsInOrder
  <2> QED
    BY <1>2, <1>4, <1>12, <2>2, <2>3, <2>4
<1>13. OperandsInOrder'
  BY <1>10, <1>11, <1>12 DEF OperandsInOrder
<1>14. ASSUME NEW y \in Waiting' \ Range(code)
       PROVE  y \in Waiting /\ \A x \in Taken(n) : y < x
  <2>1. \A i \in 1 .. (m + 1) : i \in 1 .. m \/ i = m + 1
    OBVIOUS
  <2>2. PICK i \in 1 .. m : y \in CodeOf(i)
    BY <1>4, <1>6, <1>14, <2>1
  <2>3. i \in DOMAIN operands /\ y \in Waiting /\ \A j \in (m + 1) .. Len(operands) : i < j /\ j \in DOMAIN operands
    BY <1>3, <2>2
  <2> QED
    BY <1>5, <2>2, <2>3 DEF OperandsInOrder
<1> QED
  BY <1>2, <1>8, <1>9, <1>13, <1>14

-----------------------------------------------------------------------------
(* The kinds of step *)

LEMMA Widened ==
  ASSUME Shape, Grows
  PROVE  /\ Events \subseteq Events' /\ Seq(Events) \subseteq Seq(Events')
         /\ Operands \subseteq Operands'
<1>1. Events \subseteq Events'
  BY ExtendedFacts DEF Grows
<1>2. Seq(Events) \subseteq Seq(Events')
  BY <1>1, SeqMonotonic
<1> QED
  BY <1>1, <1>2 DEF Operands

LEMMA ShapeKept ==
  ASSUME Shape, Grows, statement' \in Nat, operands' \in Seq(Operands'),
         emitted' \in Seq(Events'), pointers' \subseteq Seq(Events'),
         \/ UNCHANGED augmented
         \/ augmented' # NoTarget =>
              augmented'.base \in Seq(Events') /\ augmented'.index \in Operands'
  PROVE  Shape'
<1>1. events' \in Seq([kind : Kinds, statement : Nat]) /\ Len(events') <= MaxEvents
  BY ExtendedFacts DEF Grows
<1>2. augmented' # NoTarget =>
        augmented'.base \in Seq(Events') /\ augmented'.index \in Operands'
  BY Widened DEF Shape
<1> QED
  BY <1>1, <1>2 DEF Shape

(* An expression whose code waits. *)
LEMMA WaitStep ==
  ASSUME IInv, Grows, UNCHANGED <<statement, augmented, pointers, emitted, loose>>,
         NEW n \in 0 .. Len(operands),
         NEW code \in Seq(Events'), NEW made \in Seq(Events'), Push(n, code, made),
         Related(code, {}, Written'), Range(code) = Taken(n) \cup New,
         \A e \in New : events'[e].kind \in {"call", "global"}
  PROVE  IInv'
<1> USE DEF IInv
<1>1. /\ operands' \in Seq(Operands') /\ OperandsInOrder' /\ Waiting' \subseteq Waiting \cup New
      /\ Waiting \subseteq Waiting' \cup Taken(n) /\ Range(code) \subseteq Waiting'
  BY Pushed
<1>2. Waiting \cup New \subseteq Waiting'
  BY <1>1
<1>3. PICK added \in Seq(Events') : added = <<>>
  BY EmptySeq
<1>4. emitted' = emitted \o added
  BY <1>3, ConcatEmptySeq DEF Shape
<1>5. Related(added, loose', Fine') /\ Range(added) = {}
  BY <1>3, RelatedSmall DEF Range
<1>6. emitted' \in Seq(Events') /\ EmittedInOrder' /\ AllThere'
  BY <1>1, <1>2, <1>4, <1>5, Emission
<1>7. Shape'
  BY <1>1, <1>6, Widened, ShapeKept DEF Shape
<1>8. KeptIsLoose'
  BY DEF KeptIsLoose
<1> QED
  BY <1>1, <1>6, <1>7, <1>8

(* The end of a statement: all its code is emitted, or kept by something.  *)
LEMMA EndStep ==
  ASSUME IInv, Grows, operands' = <<>>, statement' \in {statement, statement + 1},
         NEW added \in Seq(Events'), emitted' = emitted \o added,
         Related(added, loose', Fine'),
         Range(added) \ loose' \subseteq Waiting \cup New,
         Waiting \cup New \subseteq loose' \cup Range(added),
         pointers' \subseteq Seq(Events'),
         \/ UNCHANGED augmented
         \/ augmented' # NoTarget =>
              augmented'.base \in Seq(Events') /\ augmented'.index \in Operands',
         KeptIsLoose'
  PROVE  IInv'
<1> USE DEF IInv
<1>1. operands' \in Seq(Operands') /\ DOMAIN operands' = {}
  BY EmptySeq
<1>2. Waiting' = {}
  BY <1>1 DEF Waiting
<1>3. OperandsInOrder'
  BY <1>1, <1>2 DEF OperandsInOrder
<1>4. emitted' \in Seq(Events') /\ EmittedInOrder' /\ AllThere'
  BY <1>2, Emission
<1>5. statement' \in Nat
  BY DEF Shape
<1>6. Shape'
  BY <1>1, <1>4, <1>5, ShapeKept
<1> QED
  BY <1>3, <1>4, <1>6

(* The operand on top, and the one under it. *)
LEMMA TopFacts ==
  ASSUME Shape, OperandsInOrder, Has(1)
  PROVE  /\ 1 \in 0 .. Len(operands) /\ Top \in Operands
         /\ Top.code \in Seq(Events) /\ Top.made \in Seq(Events)
         /\ Related(Top.code, {}, Written) /\ Taken(1) = Range(Top.code)
         /\ Range(Top.code) \subseteq Waiting
         /\ Len(operands) = 1 => Waiting = Range(Top.code)
<1>1. PICK n \in Nat : n = Len(operands) /\ n >= 1
  BY OperandFacts DEF Has
<1>2. Top = operands[n] /\ n \in 1 .. Len(operands) /\ n \in DOMAIN operands
  BY <1>1, OperandFacts DEF Top, Last
<1>3. /\ Top \in Operands /\ Top.code \in Seq(Events) /\ Top.made \in Seq(Events)
      /\ CodeOf(n) = Range(Top.code) /\ CodeOf(n) \subseteq Waiting
  BY <1>2, OperandFacts DEF CodeOf
<1>4. Related(Top.code, {}, Written)
  BY <1>2 DEF OperandsInOrder
<1>5. (Len(operands) - 1 + 1) .. Len(operands) = {n}
  BY <1>1
<1>6. Taken(1) = CodeOf(n)
  BY <1>5 DEF Taken
<1>7. n = 1 => Waiting = CodeOf(n)
  BY <1>1, OperandFacts DEF Waiting
<1> QED
  BY <1>1, <1>2, <1>3, <1>4, <1>6, <1>7

LEMMA UnderFacts ==
  ASSUME Shape, OperandsInOrder, Has(2)
  PROVE  /\ Has(1) /\ 2 \in 0 .. Len(operands) /\ Under \in Operands
         /\ Under.code \in Seq(Events) /\ Under.made \in Seq(Events)
         /\ Related(Under.code, {}, Written) /\ Taken(2) = Range(Under.code) \cup Range(Top.code)
         /\ Range(Under.code) \subseteq Waiting
         /\ Len(operands) = 2 => Waiting = Range(Under.code) \cup Range(Top.code)
         /\ \A x \in Range(Under.code), y \in Range(Top.code) : x < y
<1>1. PICK n \in Nat : n = Len(operands) /\ n >= 2
  BY OperandFacts DEF Has
<1>2. /\ Under = operands[n - 1] /\ n - 1 \in 1 .. Len(operands) /\ n - 1 \in DOMAIN operands
      /\ Top = operands[n] /\ n \in 1 .. Len(operands) /\ n \in DOMAIN operands /\ n - 1 < n
  BY <1>1, OperandFacts DEF Top, Under, Last
<1>3. /\ Under \in Operands /\ Under.code \in Seq(Events) /\ Under.made \in Seq(Events)
      /\ CodeOf(n - 1) = Range(Under.code) /\ CodeOf(n - 1) \subseteq Waiting
      /\ CodeOf(n) = Range(Top.code)
  BY <1>2, OperandFacts DEF CodeOf
<1>4. Related(Under.code, {}, Written)
  BY <1>2 DEF OperandsInOrder
<1>5. (Len(operands) - 2 + 1) .. Len(operands) = {n - 1, n}
  BY <1>1
<1>6. Taken(2) = CodeOf(n - 1) \cup CodeOf(n)
  BY <1>5 DEF Taken
<1>7. n = 2 => Waiting = CodeOf(n - 1) \cup CodeOf(n)
  <2>1. n = 2 => DOMAIN operands = {n - 1, n}
    BY <1>1, OperandFacts
  <2> QED
    BY <2>1 DEF Waiting
<1>8. \A x \in CodeOf(n - 1), y \in CodeOf(n) : x < y
  BY <1>2 DEF OperandsInOrder
<1>9. Has(1) /\ 2 \in 0 .. Len(operands)
  BY <1>1 DEF Has
<1> QED
  BY <1>1, <1>3, <1>4, <1>6, <1>7, <1>8, <1>9

-----------------------------------------------------------------------------
(* Code put together *)

LEMMA TwoCodes ==
  ASSUME Shape, OperandsInOrder, Grows, Has(2)
  PROVE  /\ Under.code \o Top.code \in Seq(Events)
         /\ Range(Under.code \o Top.code) = Range(Under.code) \cup Range(Top.code)
         /\ Related(Under.code \o Top.code, {}, Written')
<1>1. /\ Under.code \in Seq(Events) /\ Top.code \in Seq(Events)
      /\ Related(Under.code, {}, Written) /\ Related(Top.code, {}, Written)
      /\ \A x \in Range(Under.code), y \in Range(Top.code) : x < y /\ x \in Waiting /\ y \in Waiting
  BY TopFacts, UnderFacts
<1>2. \A x \in Range(Under.code), y \in Range(Top.code) : <<x, y>> \in Written'
  <2>1. \A x \in Range(Under.code), y \in Range(Top.code) : x \in Nat /\ y \in Nat /\ x # y /\ ~(y < x)
    BY <1>1, Together DEF Grows
  <2> QED
    BY <1>1, <2>1, Together DEF Grows, Written
<1>3. Related(Under.code, {}, Written') /\ Related(Top.code, {}, Written')
  BY <1>1, OrderFacts, RelatedKept
<1>4. PICK none : none = {}
  OBVIOUS
<1>5. (Range(Under.code) \ none) \X (Range(Top.code) \ none) \subseteq Written'
  BY <1>2
<1>6. Related(Under.code \o Top.code, none, Written')
  BY <1>1, <1>3, <1>4, <1>5, RelatedConcat
<1> QED
  BY <1>1, <1>4, <1>6, ConcatProperties, RangeConcatenation

LEMMA TwoCodesCrossed ==
  ASSUME Shape, OperandsInOrder, Grows, Has(2),
         Range(Under.code) \X Range(Top.code) \subseteq crossed'
  PROVE  /\ Top.code \o Under.code \in Seq(Events)
         /\ Range(Top.code \o Under.code) = Range(Under.code) \cup Range(Top.code)
         /\ Related(Top.code \o Under.code, {}, Written')
<1>1. /\ Under.code \in Seq(Events) /\ Top.code \in Seq(Events)
      /\ Related(Under.code, {}, Written) /\ Related(Top.code, {}, Written)
      /\ \A x \in Range(Under.code), y \in Range(Top.code) : x < y /\ x \in Waiting /\ y \in Waiting
  BY TopFacts, UnderFacts
<1>2. \A x \in Range(Under.code), y \in Range(Top.code) : <<y, x>> \in Written'
  <2>1. \A x \in Range(Under.code), y \in Range(Top.code) : x \in Nat /\ y \in Nat /\ x # y
    BY <1>1, Together DEF Grows
  <2> QED
    BY <1>1, <2>1, Together DEF Grows, Written
<1>3. Related(Under.code, {}, Written') /\ Related(Top.code, {}, Written')
  BY <1>1, OrderFacts, RelatedKept
<1>4. PICK none : none = {}
  OBVIOUS
<1>5. (Range(Top.code) \ none) \X (Range(Under.code) \ none) \subseteq Written'
  BY <1>2
<1>6. Related(Top.code \o Under.code, none, Written')
  BY <1>1, <1>3, <1>4, <1>5, RelatedConcat
<1> QED
  BY <1>1, <1>4, <1>6, ConcatProperties, RangeConcatenation

LEMMA TwoMade ==
  ASSUME Shape, OperandsInOrder, Grows, Has(2)
  PROVE  Under.made \o Top.made \in Seq(Events')
<1>1. Under.made \in Seq(Events') /\ Top.made \in Seq(Events')
  BY TopFacts, UnderFacts, Widened
<1> QED
  BY <1>1, ConcatProperties

(* The new event comes last. *)
LEMMA ThenNow ==
  ASSUME Shape, OperandsInOrder, Grows, New = {Now},
         NEW code \in Seq(Events), Related(code, {}, Written')
  PROVE  /\ Append(code, Now) \in Seq(Events')
         /\ Related(Append(code, Now), {}, Written')
         /\ Range(Append(code, Now)) = Range(code) \cup {Now}
<1>1. code \in Seq(Events') /\ Now \in Events'
  BY Widened DEF New
<1>2. \A y \in Range(code) : <<y, Now>> \in Written'
  BY Elements, OrderFacts
<1> QED
  BY <1>1, <1>2, RelatedAppend

LEMMA WrittenIsFine ==
  ASSUME Shape, OperandsInOrder, Grows, NEW code \in Seq(Events'), Related(code, {}, Written'),
         Range(code) \subseteq Waiting \cup New
  PROVE  Related(code, loose', Fine')
<1>1. \A x, y \in Range(code) : <<x, y>> \in Written' => <<x, y>> \in Fine'
  BY OrderFacts
<1> QED
  BY <1>1, RelatedKept

(* Code that counts for nothing, before code that does.                    *)
LEMMA LooseFirst ==
  ASSUME NEW S, NEW base \in Seq(S), NEW code \in Seq(S), NEW L, NEW R,
         Range(base) \subseteq L, Related(code, L, R)
  PROVE  /\ base \o code \in Seq(S) /\ Related(base \o code, L, R)
         /\ Range(base \o code) = Range(base) \cup Range(code)
<1>1. Related(base, L, R)
  BY RelatedSmall
<1>2. (Range(base) \ L) \X (Range(code) \ L) \subseteq R
  OBVIOUS
<1> QED
  BY <1>1, <1>2, RelatedConcat, ConcatProperties, RangeConcatenation

-----------------------------------------------------------------------------
(* Expressions *)

LEMMA NothingNew == ASSUME UNCHANGED events PROVE New = {} /\ Extended
  BY DEF New, Events, Extended

LEMMA LeafStep == ASSUME IInv, Leaf PROVE IInv'
<1>1. Grows /\ New = {}
  BY NothingNew DEF Leaf, Grows
<1>2. PICK none \in Seq(Events') : none = <<>>
  BY EmptySeq
<1>3. Push(0, none, none) /\ UNCHANGED <<statement, augmented, pointers, emitted, loose>>
  BY <1>2 DEF Leaf
<1>4. Related(none, {}, Written') /\ Range(none) = {}
  BY <1>2, RelatedSmall DEF Range
<1>5. 0 \in 0 .. Len(operands) /\ Taken(0) = {}
  <2>1. Len(operands) \in Nat
    BY OperandFacts DEF IInv
  <2>2. (Len(operands) - 0 + 1) .. Len(operands) = {}
    BY <2>1
  <2> QED
    BY <2>1, <2>2 DEF Taken
<1> QED
  BY <1>1, <1>3, <1>4, <1>5, WaitStep

LEMMA ReadGlobalStep == ASSUME IInv, ReadGlobal PROVE IInv'
<1>1. Happens("global") /\ "global" \in Kinds
  BY DEF ReadGlobal, Kinds
<1>2. Grows /\ New = {Now} /\ Now \in Events' /\ events'[Now].kind = "global"
  BY <1>1, HappensFacts DEF ReadGlobal, Grows, IInv
<1>3. PICK none \in Seq(Events') : none = <<>>
  BY EmptySeq
<1>4. PICK code : code = <<Now>>
  OBVIOUS
<1>5. code \in Seq(Events') /\ Range(code) = {Now} /\ Related(code, {}, Written')
  <2>1. code \in Seq(Events') /\ Range(code) = {Now}
    BY <1>2, <1>4 DEF Range
  <2>2. Related(code, {}, Written')
    BY <1>4, RelatedSmall
  <2> QED
    BY <2>1, <2>2
<1>6. Push(0, code, none) /\ UNCHANGED <<statement, augmented, pointers, emitted, loose>>
  BY <1>3, <1>4 DEF ReadGlobal
<1>7. 0 \in 0 .. Len(operands) /\ Taken(0) = {}
  <2>1. Len(operands) \in Nat
    BY OperandFacts DEF IInv
  <2>2. (Len(operands) - 0 + 1) .. Len(operands) = {}
    BY <2>1
  <2> QED
    BY <2>1, <2>2 DEF Taken
<1> QED
  BY <1>2, <1>5, <1>6, <1>7, WaitStep

LEMMA BinaryStep == ASSUME IInv, Binary PROVE IInv'
<1>1. Grows /\ New = {} /\ Has(2)
  BY NothingNew DEF Binary, Grows
<1>2. PICK code : code = Under.code \o Top.code
  OBVIOUS
<1>3. PICK made : made = Under.made \o Top.made
  OBVIOUS
<1>4. made \in Seq(Events')
  BY <1>1, <1>3, TwoMade DEF IInv
<1>5. /\ code \in Seq(Events') /\ Range(code) = Range(Under.code) \cup Range(Top.code)
      /\ Related(code, {}, Written')
  BY <1>1, <1>2, TwoCodes, Widened DEF IInv
<1>6. Push(2, code, made) /\ UNCHANGED <<statement, augmented, pointers, emitted, loose>>
  BY <1>2, <1>3 DEF Binary
<1>7. 2 \in 0 .. Len(operands) /\ Taken(2) = Range(code) \cup New
  BY <1>1, <1>5, UnderFacts DEF IInv
<1> QED
  BY <1>1, <1>4, <1>5, <1>6, <1>7, WaitStep

LEMMA CallStep == ASSUME IInv, Call PROVE IInv'
<1>1. Happens("call") /\ "call" \in Kinds /\ Has(1)
  BY DEF Call, Kinds
<1>2. Grows /\ New = {Now} /\ Now \in Events' /\ events'[Now].kind = "call"
  BY <1>1, HappensFacts DEF Call, Grows, IInv
<1>3. /\ 1 \in 0 .. Len(operands) /\ Top.code \in Seq(Events) /\ Top.made \in Seq(Events')
      /\ Taken(1) = Range(Top.code) /\ Related(Top.code, {}, Written')
  BY <1>1, <1>2, TopFacts, Widened, OrderFacts, RelatedKept DEF IInv
<1>4. PICK code : code = Append(Top.code, Now)
  OBVIOUS
<1>5. /\ code \in Seq(Events') /\ Related(code, {}, Written')
      /\ Range(code) = Taken(1) \cup New
  BY <1>2, <1>3, <1>4, ThenNow DEF IInv
<1>6. Push(1, code, Top.made) /\ UNCHANGED <<statement, augmented, pointers, emitted, loose>>
  BY <1>4 DEF Call
<1> QED
  BY <1>2, <1>3, <1>5, <1>6, WaitStep

LEMMA CallTwoStep == ASSUME IInv, CallTwo PROVE IInv'
<1>1. Happens("call") /\ "call" \in Kinds /\ Has(2)
  BY DEF CallTwo, Kinds
<1>2. Grows /\ New = {Now} /\ Now \in Events' /\ events'[Now].kind = "call"
  BY <1>1, HappensFacts DEF CallTwo, Grows, IInv
<1>3. PICK arguments : arguments = Under.code \o Top.code
  OBVIOUS
<1>4. PICK made : made = Under.made \o Top.made
  OBVIOUS
<1>5. PICK code : code = Append(arguments, Now)
  OBVIOUS
<1>6. made \in Seq(Events')
  BY <1>1, <1>2, <1>4, TwoMade DEF IInv
<1>7. 2 \in 0 .. Len(operands) /\ Taken(2) = Range(Under.code) \cup Range(Top.code)
  BY <1>1, UnderFacts DEF IInv
<1>8. arguments \in Seq(Events) /\ Related(arguments, {}, Written') /\ Range(arguments) = Taken(2)
  BY <1>1, <1>2, <1>3, <1>7, TwoCodes DEF IInv
<1>9. code \in Seq(Events') /\ Related(code, {}, Written') /\ Range(code) = Taken(2) \cup New
  BY <1>2, <1>5, <1>8, ThenNow DEF IInv
<1>10. Push(2, code, made) /\ UNCHANGED <<statement, augmented, pointers, emitted, loose>>
  BY <1>3, <1>4, <1>5 DEF CallTwo
<1> QED
  BY <1>2, <1>6, <1>7, <1>9, <1>10, WaitStep

LEMMA CallCrossedStep == ASSUME IInv, CallCrossed PROVE IInv'
<1>1. Happens("call") /\ "call" \in Kinds /\ Has(2)
  BY DEF CallCrossed, Kinds
<1>2. Grows /\ New = {Now} /\ Now \in Events' /\ events'[Now].kind = "call"
  BY <1>1, HappensFacts DEF CallCrossed, Grows, IInv
<1>3. PICK arguments : arguments = Top.code \o Under.code
  OBVIOUS
<1>4. PICK made : made = Under.made \o Top.made
  OBVIOUS
<1>5. PICK code : code = Append(arguments, Now)
  OBVIOUS
<1>6. made \in Seq(Events')
  BY <1>1, <1>2, <1>4, TwoMade DEF IInv
<1>7. 2 \in 0 .. Len(operands) /\ Taken(2) = Range(Under.code) \cup Range(Top.code)
  BY <1>1, UnderFacts DEF IInv
<1>8. Range(Under.code) \X Range(Top.code) \subseteq crossed'
  BY DEF CallCrossed
<1>9. arguments \in Seq(Events) /\ Related(arguments, {}, Written') /\ Range(arguments) = Taken(2)
  BY <1>1, <1>2, <1>3, <1>7, <1>8, TwoCodesCrossed DEF IInv
<1>10. code \in Seq(Events') /\ Related(code, {}, Written') /\ Range(code) = Taken(2) \cup New
  BY <1>2, <1>5, <1>9, ThenNow DEF IInv
<1>11. Push(2, code, made) /\ UNCHANGED <<statement, augmented, pointers, emitted, loose>>
  BY <1>3, <1>4, <1>5 DEF CallCrossed
<1> QED
  BY <1>2, <1>6, <1>7, <1>10, <1>11, WaitStep

(* The code on top runs now, before all that waits below it.               *)
LEMMA MaterializeStep ==
  ASSUME IInv, Has(1), NEW kind \in Kinds, Happens(kind),
         NEW base \in Seq(Events), Range(base) \subseteq loose,
         Materialize(base \o Append(Top.code, Now)),
         UNCHANGED <<statement, augmented, pointers, crossed, loose>>
  PROVE  IInv'
<1> USE DEF IInv
<1>1. PICK added : added = base \o Append(Top.code, Now)
  OBVIOUS
<1>2. PICK made : made = Top.made \o added
  OBVIOUS
<1>3. PICK none \in Seq(Events') : none = <<>>
  BY EmptySeq
<1>4. /\ emitted' = emitted \o added /\ early' = early \cup Range(added)
      /\ Push(1, none, made)
  BY <1>1, <1>2, <1>3 DEF Materialize
<1>5. Grows /\ New = {Now} /\ loose' = loose
  BY <1>4, HappensFacts DEF Grows
<1>6. /\ 1 \in 0 .. Len(operands) /\ Top.code \in Seq(Events) /\ Top.made \in Seq(Events')
      /\ Taken(1) = Range(Top.code) /\ Range(Top.code) \subseteq Waiting
      /\ Related(Top.code, {}, Written') /\ base \in Seq(Events')
  BY <1>5, TopFacts, Widened, OrderFacts, RelatedKept
<1>7. PICK code : code = Append(Top.code, Now)
  OBVIOUS
<1>8. /\ code \in Seq(Events') /\ Related(code, {}, Written')
      /\ Range(code) = Taken(1) \cup New /\ Range(code) \subseteq Waiting \cup New
  BY <1>5, <1>6, <1>7, ThenNow
<1>9. Related(code, loose', Fine')
  BY <1>5, <1>8, WrittenIsFine
<1>10. /\ added \in Seq(Events') /\ Related(added, loose', Fine')
       /\ Range(added) = Range(base) \cup Range(code)
  <2>1. added = base \o code /\ Range(base) \subseteq loose'
    BY <1>1, <1>5, <1>7
  <2> QED
    BY <1>6, <1>8, <1>9, <2>1, LooseFirst
<1>11. made \in Seq(Events')
  BY <1>2, <1>6, <1>10, ConcatProperties
<1>12. Related(none, {}, Written') /\ Range(none) = {}
  BY <1>3, RelatedSmall DEF Range
<1>13. /\ operands' \in Seq(Operands') /\ OperandsInOrder'
       /\ Waiting' \subseteq Waiting \cup New /\ Waiting \subseteq Waiting' \cup Taken(1)
       /\ \A y \in Waiting' : y \in Waiting /\ \A x \in Taken(1) : y < x
  BY <1>4, <1>5, <1>6, <1>11, <1>12, Pushed
<1>14. ASSUME NEW x \in Range(added) \ loose', NEW y \in Waiting' \ loose'
       PROVE  <<x, y>> \in Fine'
  <2>1. /\ x \in Taken(1) \cup New /\ x \in early' /\ x \in Waiting \cup New
        /\ y \in Waiting /\ y \in Events
    <3>1. x \in Range(code) /\ x \in early'
      BY <1>4, <1>5, <1>10
    <3>2. y \in Waiting /\ y \in Events
      BY <1>5, <1>13, Together DEF Grows
    <3> QED
      BY <1>8, <3>1, <3>2
  <2>2. x # y
    <3>1. x \in Nat /\ y \in Nat
      BY <1>5, <2>1, Together DEF Grows
    <3>2. y < x
      BY <1>5, <1>13, <1>14, <2>1, ExtendedFacts DEF Grows
    <3> QED
      BY <3>1, <3>2
  <2> QED
    BY <1>5, <2>1, <2>2, OrderFacts
<1>15. emitted' \in Seq(Events') /\ EmittedInOrder' /\ AllThere'
  <2>1. Range(added) \ loose' \subseteq Waiting \cup New
    BY <1>5, <1>8, <1>10
  <2>2. Waiting \cup New \subseteq loose' \cup Range(added) \cup Waiting'
    BY <1>8, <1>10, <1>13
  <2>3. (Range(added) \ loose') \X (Waiting' \ loose') \subseteq Fine'
    BY <1>14
  <2>4. IInv /\ Waiting' \subseteq Waiting \cup New
    BY <1>13
  <2> HIDE DEF IInv
  <2> QED
    BY <1>4, <1>5, <1>10, <2>1, <2>2, <2>3, <2>4, Emission
<1>16. Shape'
  BY <1>5, <1>13, <1>15, Widened, ShapeKept DEF Shape
<1>17. KeptIsLoose'
  BY DEF KeptIsLoose
<1> QED
  BY <1>13, <1>15, <1>16, <1>17

LEMMA LoadStep == ASSUME IInv, NEW base \in pointers, Load(base) PROVE IInv'
<1>1. /\ Happens("load") /\ "load" \in Kinds /\ Has(1)
      /\ Materialize(base \o Append(Top.code, Now))
      /\ UNCHANGED <<statement, augmented, pointers, crossed, loose>>
  BY DEF Load, Kinds
<1>2. base \in Seq(Events) /\ Range(base) \subseteq loose
  BY DEF IInv, Shape, KeptIsLoose
<1> QED
  BY <1>1, <1>2, MaterializeStep

LEMMA MallocStep == ASSUME IInv, Malloc PROVE IInv'
<1>1. /\ Happens("malloc") /\ "malloc" \in Kinds /\ Has(1)
      /\ Materialize(Append(Top.code, Now))
      /\ UNCHANGED <<statement, augmented, pointers, crossed, loose>>
  BY DEF Malloc, Kinds
<1>2. PICK none \in Seq(Events) : none = <<>>
  BY EmptySeq
<1>3. Range(none) \subseteq loose
  BY <1>2 DEF Range
<1>4. Append(Top.code, Now) \in Seq(Events')
  <2>1. New = {Now} /\ Events \subseteq Events' /\ Now \in Events'
    BY <1>1, HappensFacts, ExtendedFacts DEF IInv
  <2>2. Top.code \in Seq(Events')
    BY <1>1, <2>1, TopFacts, SeqMonotonic DEF IInv
  <2> QED
    BY <2>1, <2>2, AppendProperties
<1>5. none \o Append(Top.code, Now) = Append(Top.code, Now)
  BY <1>2, <1>4, ConcatEmptySeq
<1> QED
  BY <1>1, <1>2, <1>3, <1>5, MaterializeStep

-----------------------------------------------------------------------------
(* Ends of statements *)

LEMMA AloneFacts ==
  ASSUME IInv, Grows, Len(operands) = 1
  PROVE  /\ Top \in Operands' /\ Top.code \in Seq(Events) /\ Top.code \in Seq(Events')
         /\ Waiting = Range(Top.code) /\ Related(Top.code, {}, Written')
         /\ Related(Top.code, loose', Fine')
         /\ emitted \in Seq(Events') /\ pointers \subseteq Seq(Events') /\ statement \in Nat
<1> USE DEF IInv
<1>1. /\ Top \in Operands' /\ Top.code \in Seq(Events) /\ Top.code \in Seq(Events')
      /\ Waiting = Range(Top.code) /\ Related(Top.code, {}, Written)
      /\ Written \subseteq Written'
  BY TopFacts, Widened, OrderFacts DEF Has
<1>2. Related(Top.code, {}, Written')
  BY <1>1, RelatedKept
<1>3. Related(Top.code, loose', Fine')
  BY <1>1, <1>2, WrittenIsFine
<1> QED
  BY <1>1, <1>2, <1>3, Widened DEF Shape

LEMMA AloneThenNow ==
  ASSUME IInv, Grows, Len(operands) = 1, New = {Now}
  PROVE  /\ Append(Top.code, Now) \in Seq(Events')
         /\ Range(Append(Top.code, Now)) = Waiting \cup New
         /\ Related(Append(Top.code, Now), loose', Fine')
<1> USE DEF IInv
<1>1. PICK code : code = Append(Top.code, Now)
  OBVIOUS
<1>2. /\ code \in Seq(Events') /\ Related(code, {}, Written')
      /\ Range(code) = Waiting \cup New
  BY <1>1, AloneFacts, ThenNow
<1> QED
  BY <1>1, <1>2, WrittenIsFine

LEMMA LooseLast ==
  ASSUME NEW S, NEW kept \in Seq(S), NEW code \in Seq(S), NEW L, NEW R,
         Range(kept) \subseteq L, Related(code, L, R)
  PROVE  /\ code \o kept \in Seq(S) /\ Related(code \o kept, L, R)
         /\ Range(code \o kept) = Range(code) \cup Range(kept)
<1>1. Related(kept, L, R)
  BY RelatedSmall
<1>2. (Range(code) \ L) \X (Range(kept) \ L) \subseteq R
  OBVIOUS
<1> QED
  BY <1>1, <1>2, RelatedConcat, ConcatProperties, RangeConcatenation

LEMMA EvaluateStep == ASSUME IInv, Evaluate PROVE IInv'
<1>1. Grows /\ New = {} /\ Len(operands) = 1
  BY NothingNew DEF Evaluate, Grows, Alone
<1>2. /\ operands' = <<>> /\ statement' = statement + 1 /\ emitted' = emitted \o Top.code
      /\ UNCHANGED <<pointers, augmented, loose>>
  BY DEF Evaluate, Done
<1>3. pointers' \subseteq Seq(Events') /\ KeptIsLoose'
  BY <1>1, <1>2, AloneFacts DEF IInv, KeptIsLoose
<1> QED
  BY <1>1, <1>2, <1>3, AloneFacts, EndStep

LEMMA SetGlobalStep == ASSUME IInv, SetGlobal PROVE IInv'
<1>1. Happens("set") /\ "set" \in Kinds /\ Len(operands) = 1
  BY DEF SetGlobal, Alone, Kinds
<1>2. Grows /\ New = {Now}
  BY <1>1, HappensFacts DEF SetGlobal, Grows, IInv
<1>3. PICK added : added = Append(Top.code, Now)
  OBVIOUS
<1>4. /\ operands' = <<>> /\ statement' = statement + 1 /\ emitted' = emitted \o added
      /\ UNCHANGED <<pointers, augmented, loose>>
  BY <1>3 DEF SetGlobal, Done
<1>5. /\ added \in Seq(Events') /\ Range(added) = Waiting \cup New
      /\ Related(added, loose', Fine')
  BY <1>1, <1>2, <1>3, AloneThenNow
<1>6. pointers' \subseteq Seq(Events') /\ KeptIsLoose'
  BY <1>1, <1>2, <1>4, AloneFacts DEF IInv, KeptIsLoose
<1> QED
  BY <1>2, <1>4, <1>5, <1>6, EndStep

LEMMA BindPointerStep == ASSUME IInv, BindPointer PROVE IInv'
<1>1. Grows /\ New = {} /\ Len(operands) = 1
  BY NothingNew DEF BindPointer, Grows, Alone
<1>2. PICK added \in Seq(Events') : added = <<>>
  BY EmptySeq
<1>3. /\ operands' = <<>> /\ statement' = statement + 1 /\ emitted' = emitted
      /\ pointers' = pointers \cup {Top.code} /\ loose' = loose \cup Range(Top.code)
      /\ UNCHANGED augmented
  BY DEF BindPointer, Done
<1>4. emitted' = emitted \o added
  BY <1>1, <1>2, <1>3, AloneFacts, ConcatEmptySeq
<1>5. Related(added, loose', Fine') /\ Range(added) = {}
  BY <1>2, RelatedSmall DEF Range
<1>6. pointers' \subseteq Seq(Events') /\ KeptIsLoose'
  BY <1>1, <1>3, AloneFacts DEF IInv, KeptIsLoose
<1>7. Waiting \subseteq loose'
  BY <1>1, <1>3, AloneFacts
<1> QED
  BY <1>1, <1>3, <1>4, <1>5, <1>6, <1>7, EndStep

LEMMA ConstructArrayStep == ASSUME IInv, ConstructArray PROVE IInv'
<1>1. Happens("malloc") /\ "malloc" \in Kinds /\ Len(operands) = 1
  BY DEF ConstructArray, Alone, Kinds
<1>2. Grows /\ New = {Now}
  BY <1>1, HappensFacts DEF ConstructArray, Grows, IInv
<1>3. PICK code : code = Append(Top.code, Now)
  OBVIOUS
<1>4. PICK added : added = code \o Top.code
  OBVIOUS
<1>5. /\ operands' = <<>> /\ statement' = statement + 1 /\ emitted' = emitted \o code \o Top.code
      /\ loose' = loose \cup Range(Top.code) /\ UNCHANGED <<pointers, augmented>>
  BY <1>3 DEF ConstructArray, Done
<1>6. /\ code \in Seq(Events') /\ Range(code) = Waiting \cup New
      /\ Related(code, loose', Fine')
  BY <1>1, <1>2, <1>3, AloneThenNow
<1>7. /\ added \in Seq(Events') /\ Related(added, loose', Fine')
      /\ Range(added) = Range(code) \cup Range(Top.code)
  BY <1>1, <1>2, <1>4, <1>5, <1>6, AloneFacts, LooseLast
<1>8. emitted' = emitted \o added /\ Range(added) = Waiting \cup New
  <2>1. emitted \in Seq(Events') /\ Top.code \in Seq(Events') /\ Range(Top.code) = Waiting
    BY <1>1, <1>2, AloneFacts
  <2>2. PICK kept : kept = Top.code
    OBVIOUS
  <2>3. emitted \o code \o kept = emitted \o (code \o kept)
    OBVIOUS
  <2> QED
    BY <1>4, <1>5, <1>6, <1>7, <2>1, <2>2, <2>3
<1>9. pointers' \subseteq Seq(Events') /\ KeptIsLoose'
  BY <1>1, <1>2, <1>5, AloneFacts DEF IInv, KeptIsLoose
<1> QED
  BY <1>2, <1>5, <1>7, <1>8, <1>9, EndStep

LEMMA PushElementStep == ASSUME IInv, PushElement PROVE IInv'
<1>1. Happens("malloc") /\ "malloc" \in Kinds /\ Len(operands) = 1
  BY DEF PushElement, Alone, Kinds
<1>2. Grows /\ New = {Now} /\ Now \in Events'
  BY <1>1, HappensFacts DEF PushElement, Grows, IInv
<1>3. PICK one : one = <<Now>>
  OBVIOUS
<1>4. PICK added : added = one \o Top.code
  OBVIOUS
<1>5. /\ operands' = <<>> /\ statement' = statement + 1
      /\ emitted' = Append(emitted, Now) \o Top.code
      /\ early' = early \cup {Now} /\ UNCHANGED <<pointers, augmented, loose>>
  BY DEF PushElement, Done
<1>6. one \in Seq(Events') /\ Range(one) = New
  BY <1>2, <1>3 DEF Range
<1>7. emitted' = emitted \o added
  <2>1. Append(emitted, Now) = emitted \o one
    BY <1>1, <1>2, <1>3, AloneFacts, AppendIsConcat
  <2>2. emitted \in Seq(Events') /\ Top.code \in Seq(Events')
    BY <1>1, <1>2, AloneFacts
  <2>3. PICK code : code = Top.code
    OBVIOUS
  <2>4. emitted \o one \o code = emitted \o (one \o code)
    OBVIOUS
  <2> QED
    BY <1>4, <1>5, <2>1, <2>3, <2>4
<1>8. Related(one, loose', Fine') /\ Related(Top.code, loose', Fine')
  BY <1>1, <1>2, <1>3, RelatedSmall, AloneFacts
<1>9. ASSUME NEW y \in Waiting
      PROVE  <<Now, y>> \in Fine'
  <2>1. Now # y
    BY <1>2, Together, ExtendedFacts DEF IInv, Grows
  <2> QED
    BY <1>2, <1>5, <2>1, OrderFacts DEF IInv
<1>10. (Range(one) \ loose') \X (Range(Top.code) \ loose') \subseteq Fine'
  BY <1>1, <1>2, <1>6, <1>9, AloneFacts
<1>11. /\ added \in Seq(Events') /\ Related(added, loose', Fine')
       /\ Range(added) = Waiting \cup New
  <2>1. Top.code \in Seq(Events') /\ Range(Top.code) = Waiting
    BY <1>1, <1>2, AloneFacts
  <2>2. Related(added, loose', Fine')
    BY <1>4, <1>6, <1>8, <1>10, <2>1, RelatedConcat
  <2> QED
    BY <1>4, <1>6, <2>1, <2>2, ConcatProperties, RangeConcatenation
<1>12. pointers' \subseteq Seq(Events') /\ KeptIsLoose'
  BY <1>1, <1>2, <1>5, AloneFacts DEF IInv, KeptIsLoose
<1> QED
  BY <1>2, <1>5, <1>7, <1>11, <1>12, EndStep

LEMMA StoreStep == ASSUME IInv, NEW base \in pointers, Store(base) PROVE IInv'
<1> USE DEF IInv
<1>1. Happens("store") /\ "store" \in Kinds /\ Has(2) /\ Len(operands) = 2
  BY DEF Store, Kinds, Has
<1>2. Grows /\ New = {Now}
  BY <1>1, HappensFacts DEF Store, Grows
<1>3. PICK value : value = Append(Under.code, Now)
  OBVIOUS
<1>4. PICK index : index = Top.code
  OBVIOUS
<1>5. PICK code : code = index \o value
  OBVIOUS
<1>6. PICK added : added = base \o code
  OBVIOUS
<1>7. /\ operands' = <<>> /\ statement' = statement + 1
      /\ emitted' = emitted \o base \o index \o value
      /\ Range(Under.code) \X Range(index) \subseteq crossed'
      /\ UNCHANGED <<pointers, augmented, loose>>
  BY <1>3, <1>4 DEF Store, Done
<1>8. /\ Under.code \in Seq(Events) /\ index \in Seq(Events) /\ index \in Seq(Events')
      /\ Waiting = Range(Under.code) \cup Range(index)
      /\ Related(Under.code, {}, Written) /\ Related(index, {}, Written)
      /\ Written \subseteq Written'
      /\ \A x \in Range(Under.code), y \in Range(index) : x < y /\ x \in Waiting /\ y \in Waiting
  BY <1>1, <1>2, <1>4, TopFacts, UnderFacts, Widened, OrderFacts
<1>9. Related(Under.code, {}, Written') /\ Related(index, {}, Written')
  BY <1>8, RelatedKept
<1>10. /\ value \in Seq(Events') /\ Related(value, {}, Written')
       /\ Range(value) = Range(Under.code) \cup {Now}
  BY <1>2, <1>3, <1>8, <1>9, ThenNow
<1>11. PICK none : none = {}
  OBVIOUS
<1>12. ASSUME NEW x \in Range(index), NEW y \in Range(value)
       PROVE  <<x, y>> \in Written'
  <2>1. x \in Waiting /\ x \in Events /\ x \in Nat /\ x \in Events'
    BY <1>2, <1>8, Together DEF Grows
  <2>2. CASE y = Now
    BY <1>2, <2>1, <2>2, OrderFacts
  <2>3. CASE y \in Range(Under.code)
    <3>1. y < x /\ y \in Nat /\ y \in Events' /\ <<y, x>> \in crossed'
      BY <1>2, <1>7, <1>8, <2>3, Together DEF Grows
    <3> QED
      BY <2>1, <3>1 DEF Written
  <2> QED
    BY <1>10, <2>2, <2>3
<1>13. (Range(index) \ none) \X (Range(value) \ none) \subseteq Written'
  BY <1>12
<1>14. /\ code \in Seq(Events') /\ Range(code) = Waiting \cup New
       /\ Related(code, {}, Written')
  <2>1. Related(code, none, Written')
    BY <1>5, <1>8, <1>9, <1>10, <1>11, <1>13, RelatedConcat
  <2> QED
    BY <1>2, <1>5, <1>8, <1>10, <1>11, <2>1, ConcatProperties, RangeConcatenation
<1>15. Related(code, loose', Fine')
  BY <1>2, <1>14, WrittenIsFine
<1>16. base \in Seq(Events') /\ Range(base) \subseteq loose'
  BY <1>2, <1>7, Widened DEF Shape, KeptIsLoose
<1>17. /\ added \in Seq(Events') /\ Related(added, loose', Fine')
       /\ Range(added) = Range(base) \cup Range(code)
  BY <1>6, <1>14, <1>15, <1>16, LooseFirst
<1>18. emitted' = emitted \o added
  <2>1. emitted \o base \o index \o value = emitted \o (base \o (index \o value))
    OBVIOUS
  <2> QED
    BY <1>5, <1>6, <1>7, <2>1
<1>19. /\ Range(added) \ loose' \subseteq Waiting \cup New
       /\ Waiting \cup New \subseteq loose' \cup Range(added)
  BY <1>14, <1>16, <1>17
<1>20. pointers' \subseteq Seq(Events') /\ KeptIsLoose'
  BY <1>2, <1>7, Widened DEF Shape, KeptIsLoose
<1>21. IInv
  OBVIOUS
<1> HIDE DEF IInv
<1> QED
  BY <1>2, <1>7, <1>17, <1>18, <1>19, <1>20, <1>21, EndStep

(* The load of the target: nothing is lost, since its code is emitted now, *)
(* and what is kept of it counts for nothing later.                        *)
LEMMA AugmentedLoadStep == ASSUME IInv, NEW base \in pointers, AugmentedLoad(base) PROVE IInv'
<1>1. Happens("load") /\ "load" \in Kinds /\ Len(operands) = 1
  BY DEF AugmentedLoad, Alone, Kinds
<1>2. Grows /\ New = {Now}
  BY <1>1, HappensFacts DEF AugmentedLoad, Grows, IInv
<1>3. PICK code : code = Append(Top.code, Now)
  OBVIOUS
<1>4. PICK added : added = base \o code
  OBVIOUS
<1>5. /\ operands' = <<>> /\ statement' = statement /\ emitted' = emitted \o base \o code
      /\ augmented' = [base |-> base, index |-> Top] /\ UNCHANGED <<pointers, loose>>
  BY <1>3 DEF AugmentedLoad
<1>6. /\ code \in Seq(Events') /\ Range(code) = Waiting \cup New
      /\ Related(code, loose', Fine')
  BY <1>1, <1>2, <1>3, AloneThenNow
<1>7. base \in Seq(Events') /\ Range(base) \subseteq loose' /\ Top \in Operands'
  BY <1>1, <1>2, <1>5, AloneFacts DEF IInv, KeptIsLoose
<1>8. /\ added \in Seq(Events') /\ Related(added, loose', Fine')
      /\ Range(added) = Range(base) \cup Range(code)
  BY <1>4, <1>6, <1>7, LooseFirst
<1>9. emitted' = emitted \o added
  <2>1. emitted \o base \o code = emitted \o (base \o code)
    OBVIOUS
  <2> QED
    BY <1>4, <1>5, <2>1
<1>10. /\ Range(added) \ loose' \subseteq Waiting \cup New
       /\ Waiting \cup New \subseteq loose' \cup Range(added)
  BY <1>6, <1>7, <1>8
<1>11. augmented'.base = base /\ augmented'.index = Top
  BY <1>5
<1>12. pointers' \subseteq Seq(Events') /\ KeptIsLoose'
  BY <1>1, <1>2, <1>5, <1>7, <1>11, AloneFacts DEF IInv, KeptIsLoose
<1> QED
  BY <1>2, <1>5, <1>7, <1>8, <1>9, <1>10, <1>11, <1>12, EndStep

LEMMA AugmentedStoreStep == ASSUME IInv, AugmentedStore PROVE IInv'
<1>1. Happens("store") /\ "store" \in Kinds /\ Len(operands) = 1 /\ augmented # NoTarget
  BY DEF AugmentedStore, Kinds
<1>2. Grows /\ New = {Now}
  BY <1>1, HappensFacts DEF AugmentedStore, Grows, IInv
<1>3. PICK value : value = Append(Top.code, Now)
  OBVIOUS
<1>4. PICK index : index = augmented.index.code
  OBVIOUS
<1>5. PICK base : base = augmented.base
  OBVIOUS
<1>6. PICK made : made = augmented.index.made
  OBVIOUS
<1>7. /\ operands' = <<>> /\ statement' = statement + 1
      /\ emitted' = emitted \o made \o base \o index \o value
      /\ loose' = loose \cup Range(made) \cup Range(index)
      /\ augmented' = NoTarget /\ UNCHANGED pointers
  BY <1>3, <1>4, <1>5, <1>6 DEF AugmentedStore, Done
<1>8. /\ value \in Seq(Events') /\ Range(value) = Waiting \cup New
      /\ Related(value, loose', Fine')
  BY <1>1, <1>2, <1>3, AloneThenNow
<1>9. /\ made \in Seq(Events') /\ base \in Seq(Events') /\ index \in Seq(Events')
      /\ Range(made) \subseteq loose' /\ Range(base) \subseteq loose' /\ Range(index) \subseteq loose'
  <2>1. augmented.base \in Seq(Events') /\ augmented.index \in Operands'
    BY <1>1, <1>2, Widened DEF IInv, Shape
  <2>2. Range(base) \subseteq loose
    BY <1>1, <1>5 DEF IInv, KeptIsLoose
  <2> QED
    BY <1>4, <1>5, <1>6, <1>7, <2>1, <2>2 DEF Operands
<1>10. PICK stored : stored = index \o value
  OBVIOUS
<1>11. PICK target : target = base \o stored
  OBVIOUS
<1>12. PICK added : added = made \o target
  OBVIOUS
<1>13. /\ stored \in Seq(Events') /\ Related(stored, loose', Fine')
       /\ Range(stored) = Range(index) \cup Range(value)
  BY <1>8, <1>9, <1>10, LooseFirst
<1>14. /\ target \in Seq(Events') /\ Related(target, loose', Fine')
       /\ Range(target) = Range(base) \cup Range(stored)
  BY <1>9, <1>11, <1>13, LooseFirst
<1>15. /\ added \in Seq(Events') /\ Related(added, loose', Fine')
       /\ Range(added) = Range(made) \cup Range(target)
  BY <1>9, <1>12, <1>14, LooseFirst
<1>16. emitted' = emitted \o added
  <2>1. PICK before : before = emitted \o made \o base
    OBVIOUS
  <2>2. before \o index \o value = before \o (index \o value)
    OBVIOUS
  <2>3. emitted \o made \o base \o stored = emitted \o (made \o (base \o stored))
    OBVIOUS
  <2>4. emitted' = before \o stored
    BY <1>7, <1>10, <2>1, <2>2
  <2> QED
    BY <1>11, <1>12, <2>1, <2>3, <2>4
<1>17. /\ Range(added) \ loose' \subseteq Waiting \cup New
       /\ Waiting \cup New \subseteq loose' \cup Range(added)
  BY <1>8, <1>9, <1>13, <1>14, <1>15
<1>18. pointers' \subseteq Seq(Events') /\ KeptIsLoose'
  BY <1>1, <1>2, <1>7, AloneFacts DEF IInv, KeptIsLoose
<1> QED
  BY <1>2, <1>7, <1>15, <1>16, <1>17, <1>18, EndStep

-----------------------------------------------------------------------------
(* The invariant holds *)

LEMMA InitInv == ASSUME Init PROVE IInv
<1>1. /\ events = <<>> /\ statement = 1 /\ operands = <<>> /\ augmented = NoTarget
      /\ pointers = {<<>>} /\ emitted = <<>> /\ loose = {}
  BY DEF Init
<1>2. Events = {} /\ Range(emitted) = {} /\ Range(<<>>) = {} /\ DOMAIN operands = {}
  BY <1>1 DEF Events, Range
<1>3. Shape
  BY <1>1, EmptySeq, OrderAssumption DEF Shape
<1>4. Waiting = {}
  BY <1>2 DEF Waiting
<1>5. OperandsInOrder
  BY <1>2, <1>4 DEF OperandsInOrder
<1>6. EmittedInOrder
  BY <1>1, <1>2, RelatedSmall DEF EmittedInOrder
<1>7. AllThere /\ KeptIsLoose
  BY <1>1, <1>2 DEF AllThere, KeptIsLoose
<1> QED
  BY <1>3, <1>5, <1>6, <1>7 DEF IInv

LEMMA StepInv == ASSUME IInv, [Next]_vars PROVE IInv'
<1>1. CASE Expression
  <2>1. CASE Leaf \/ ReadGlobal \/ Binary
    BY <2>1, LeafStep, ReadGlobalStep, BinaryStep
  <2>2. CASE Call \/ CallTwo
    BY <2>2, CallStep, CallTwoStep
  <2>3. CASE CallKeywords \/ CallIndirect
    BY <2>3, CallCrossedStep DEF CallKeywords, CallIndirect
  <2>4. CASE Malloc \/ \E base \in pointers : Load(base)
    BY <2>4, LoadStep, MallocStep
  <2> QED
    BY <1>1, <2>1, <2>2, <2>3, <2>4 DEF Expression
<1>2. CASE EndOfStatement
  <2>1. CASE Evaluate \/ SetGlobal \/ BindPointer
    BY <2>1, EvaluateStep, SetGlobalStep, BindPointerStep
  <2>2. CASE ConstructArray \/ PushElement
    BY <2>2, ConstructArrayStep, PushElementStep
  <2>3. CASE \E base \in pointers : Store(base)
    BY <2>3, StoreStep
  <2>4. CASE AugmentedStore \/ \E base \in pointers : AugmentedLoad(base)
    BY <2>4, AugmentedLoadStep, AugmentedStoreStep
  <2> QED
    BY <1>2, <2>1, <2>2, <2>3, <2>4 DEF EndOfStatement
<1>3. CASE UNCHANGED vars
  <2> USE <1>3 DEF vars
  <2>1. Shape' /\ KeptIsLoose'
    BY DEF IInv, Shape, KeptIsLoose, Operands, Events
  <2>2. OperandsInOrder'
    BY DEF IInv, OperandsInOrder, Waiting, CodeOf, Written, Events
  <2>3. EmittedInOrder'
    BY DEF IInv, EmittedInOrder, Waiting, CodeOf, Fine, Excused, Events
  <2>4. AllThere'
    BY DEF IInv, AllThere, Waiting, CodeOf, Events
  <2> QED
    BY <2>1, <2>2, <2>3, <2>4 DEF IInv
<1> QED
  BY <1>1, <1>2, <1>3 DEF Next

THEOREM IInvHolds == Spec => []IInv
<1>1. Init => IInv
  BY InitInv
<1>2. IInv /\ [Next]_vars => IInv'
  BY StepInv
<1> QED
  BY <1>1, <1>2, PTL DEF Spec

-----------------------------------------------------------------------------
(* What the invariant says of an event *)

(* An event that has run ran at one place, and does not wait.              *)
LEMMA HasRun ==
  ASSUME IInv, NEW e \in Range(emitted) \ loose
  PROVE  (\E i \in DOMAIN emitted : Runs(e) = {i}) /\ e \notin Waiting /\ Waits(e) = {}
<1>1. Related(emitted, loose, Fine) /\ emitted \in Seq(Events)
  BY DEF IInv, EmittedInOrder, Shape
<1>2. PICK i \in DOMAIN emitted : emitted[i] = e
  BY <1>1, Elements
<1>3. ASSUME NEW k \in Runs(e)
      PROVE  k = i
  <2>1. k \in DOMAIN emitted /\ emitted[k] = e /\ k \in Nat /\ i \in Nat
    BY <1>1, <1>2, <1>3, Elements DEF Runs
  <2>2. <<e, e>> \notin Fine
    BY DEF Fine
  <2>3. ~(i < k) /\ ~(k < i)
    BY <1>1, <1>2, <2>1, <2>2 DEF Related
  <2> QED
    BY <2>1, <2>3
<1>4. Runs(e) = {i}
  BY <1>2, <1>3 DEF Runs
<1>5. e \notin Waiting
  <2>1. <<e, e>> \notin Fine
    BY DEF Fine
  <2>2. e \in Waiting => <<e, e>> \in (Range(emitted) \ loose) \X (Waiting \ loose)
    OBVIOUS
  <2> QED
    BY <2>1, <2>2 DEF IInv, EmittedInOrder
<1>6. ASSUME NEW w \in Waits(e)
      PROVE  FALSE
  <2>1. w[1] \in DOMAIN operands /\ e \in CodeOf(w[1])
    BY <1>6 DEF Waits, CodeOf, Range
  <2> QED
    BY <1>5, <2>1 DEF Waiting
<1> QED
  BY <1>4, <1>5, <1>6

(* The code of an operand is no longer than the function has events.       *)
LEMMA CodeFits ==
  ASSUME IInv, NEW i \in DOMAIN operands
  PROVE  /\ Len(operands[i].code) \in Nat /\ Len(operands[i].code) <= MaxEvents
         /\ DOMAIN operands[i].code = 1 .. Len(operands[i].code)
<1>1. PICK code : code = operands[i].code
  OBVIOUS
<1>2. code \in Seq(Events) /\ Related(code, {}, Written)
  BY <1>1, OperandFacts DEF IInv, OperandsInOrder
<1>3. Len(code) \in Nat /\ DOMAIN code = 1 .. Len(code) /\ code \in [1 .. Len(code) -> Events]
  BY <1>2, Elements, LenProperties
<1>4. Len(events) \in Nat /\ Events = 1 .. Len(events) /\ Len(events) <= MaxEvents
  BY Elements DEF IInv, Shape, Events
<1>5. Len(code) <= Len(events)
  <2>1. SUFFICES ASSUME Len(code) > Len(events) PROVE FALSE
    BY <1>3, <1>4
  <2>2. /\ IsFiniteSet(1 .. Len(code)) /\ Cardinality(1 .. Len(code)) = Len(code)
        /\ IsFiniteSet(Events) /\ Cardinality(Events) = Len(events)
    <3>1. ASSUME NEW n \in Nat
          PROVE  IsFiniteSet(1 .. n) /\ Cardinality(1 .. n) = n
      BY <3>1, FS_Interval
    <3> QED
      BY <1>3, <1>4, <3>1
  <2>3. PICK j, k \in 1 .. Len(code) : j # k /\ code[j] = code[k]
    BY <1>3, <1>4, <2>1, <2>2, FS_PigeonHole
  <2>4. <<code[j], code[k]>> \notin Written /\ <<code[k], code[j]>> \notin Written
    BY <2>3 DEF Written
  <2>5. j < k \/ k < j
    BY <1>3, <2>3
  <2> QED
    BY <1>2, <1>3, <2>3, <2>4, <2>5 DEF Related
<1> QED
  BY <1>1, <1>3, <1>4, <1>5, OrderAssumption

(* An event that has not run waits at one place.                           *)
LEMMA StillWaits ==
  ASSUME IInv, NEW e \in Waiting, e \notin Range(emitted)
  PROVE  Runs(e) = {} /\ \E w : Waits(e) = {w}
<1>1. Runs(e) = {}
  BY DEF Runs, Range
<1>2. PICK i \in DOMAIN operands : e \in CodeOf(i)
  BY DEF Waiting
<1>3. PICK j \in DOMAIN operands[i].code : operands[i].code[j] = e
  BY <1>2 DEF CodeOf, Range
<1>4. <<i, j>> \in Waits(e)
  <2>1. j \in 1 .. MaxEvents
    BY <1>3, CodeFits, OrderAssumption
  <2>2. PICK w : w = <<i, j>>
    OBVIOUS
  <2>3. w \in (DOMAIN operands) \X (1 .. MaxEvents) /\ w[1] = i /\ w[2] = j
    BY <2>1, <2>2
  <2> QED
    BY <1>3, <2>2, <2>3 DEF Waits
<1>5. ASSUME NEW w \in Waits(e)
      PROVE  w = <<i, j>>
  <2>1. /\ w = <<w[1], w[2]>> /\ w[1] \in DOMAIN operands
        /\ w[2] \in DOMAIN operands[w[1]].code /\ operands[w[1]].code[w[2]] = e
    BY <1>5 DEF Waits
  <2>2. e \in CodeOf(w[1]) /\ e \in Nat /\ w[1] \in Nat /\ i \in Nat
    <3>1. e \in CodeOf(w[1])
      BY <2>1 DEF CodeOf, Range
    <3>2. Events \subseteq Nat
      BY Elements DEF IInv, Shape, Events
    <3> QED
      BY <2>1, <3>1, <3>2, OperandFacts DEF IInv
  <2>3. w[1] = i
    <3>1. ~(e < e)
      BY <2>2
    <3>2. ~(w[1] < i) /\ ~(i < w[1])
      BY <1>2, <2>1, <2>2, <3>1 DEF IInv, OperandsInOrder
    <3> QED
      BY <2>2, <3>2
  <2>4. w[2] = j
    <3>1. Related(operands[i].code, {}, Written) /\ <<e, e>> \notin Written
      BY DEF IInv, OperandsInOrder, Written
    <3>2. w[2] \in DOMAIN operands[i].code /\ operands[i].code[w[2]] = e
      BY <2>1, <2>3
    <3>3. ~(w[2] < j) /\ ~(j < w[2])
      BY <1>3, <3>1, <3>2 DEF Related
    <3>4. w[2] \in Nat /\ j \in Nat
      BY <1>3, <3>2, CodeFits
    <3> QED
      BY <3>3, <3>4
  <2> QED
    BY <2>1, <2>3, <2>4
<1> QED
  BY <1>1, <1>4, <1>5

(* If b runs before a, which Python does first, the pair is fine.          *)
LEMMA OvertakenIsFine ==
  ASSUME IInv, NEW a \in Events \ loose, NEW b \in Events \ loose, Overtakes(b, a)
  PROVE  <<b, a>> \in Fine /\ a < b
<1>1. PICK i \in Runs(b) : \A j \in Runs(a) : i < j
  BY DEF Overtakes
<1>2. a < b /\ i \in DOMAIN emitted /\ emitted[i] = b /\ b \in Range(emitted)
  BY DEF Overtakes, Runs, Range
<1>3. CASE a \in Range(emitted)
  <2>1. PICK j \in DOMAIN emitted : emitted[j] = a
    BY <1>3 DEF Range
  <2>2. i < j
    BY <1>1, <2>1 DEF Runs
  <2> QED
    BY <1>2, <2>1, <2>2 DEF IInv, EmittedInOrder, Related
<1>4. CASE a \in Waiting
  BY <1>2, <1>4 DEF IInv, EmittedInOrder
<1> QED
  BY <1>3, <1>4 DEF IInv, AllThere

-----------------------------------------------------------------------------
(* The properties *)

(* Every event of every function runs once, or waits once to run: none is  *)
(* lost and none is done twice, except those whose code a pointer, the     *)
(* capacity of an array or the target of an augmented assignment has kept. *)
THEOREM RunsOnceHolds == Spec => []RunsOnce
<1>1. ASSUME IInv
      PROVE  RunsOnce
  <2>1. SUFFICES ASSUME NEW e \in Events \ loose
                 PROVE  Cardinality(Runs(e)) + Cardinality(Waits(e)) = 1
    BY DEF RunsOnce
  <2>2. CASE e \in Range(emitted)
    <3>1. (\E i : Runs(e) = {i}) /\ Waits(e) = {}
      BY <1>1, <2>2, HasRun
    <3>2. Cardinality(Runs(e)) = 1 /\ Cardinality(Waits(e)) = 0
      BY <3>1, FS_Singleton, FS_EmptySet
    <3> QED
      BY <3>2
  <2>3. CASE e \notin Range(emitted)
    <3>1. Runs(e) = {} /\ \E w : Waits(e) = {w}
      BY <1>1, <2>3, StillWaits DEF IInv, AllThere
    <3>2. Cardinality(Runs(e)) = 0 /\ Cardinality(Waits(e)) = 1
      BY <3>1, FS_Singleton, FS_EmptySet
    <3> QED
      BY <3>2
  <2> QED
    BY <2>2, <2>3
<1> QED
  BY <1>1, IInvHolds, PTL

(* No event runs before one of an earlier statement: whatever a construct  *)
(* keeps back, it keeps no further than the end of its statement.          *)
THEOREM StatementsInOrderHolds == Spec => []StatementsInOrder
<1>1. IInv => StatementsInOrder
  BY OvertakenIsFine DEF StatementsInOrder, Fine, Excused
<1> QED
  BY <1>1, IInvHolds, PTL

(* Within a statement only a call or the read of a global is overtaken,    *)
(* and only by what is materialized or a call in an operand of that, but   *)
(* for named arguments, the index of an indirect call and the target of a  *)
(* store, which are emitted in another order than they are written.        *)
THEOREM OnlyWaitingIsOvertakenHolds == Spec => []OnlyWaitingIsOvertaken
<1>1. IInv => OnlyWaitingIsOvertaken
  BY OvertakenIsFine DEF OnlyWaitingIsOvertaken, Fine, Excused
<1> QED
  BY <1>1, IInvHolds, PTL
=============================================================================
