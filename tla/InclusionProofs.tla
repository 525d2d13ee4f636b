---------------------------- MODULE InclusionProofs ----------------------------
(***************************************************************************)
(* Whatever libraries include, keep and raise, and however many there are, *)
(* a namespace that was returned stays the cached one unless its own       *)
(* include failed, and the program never holds a failed one.               *)
(***************************************************************************)
EXTENDS Inclusion, TLAPS

TypesOK ==
  /\ created \in Seq(Libraries)
  /\ DOMAIN cache \subseteq Libraries /\ cache \in [DOMAIN cache -> Namespaces]
  /\ active \in Seq(Namespaces)
  /\ held \subseteq (0 .. Len(created)) \X Namespaces
  /\ failed \subseteq Namespaces

(* The cache names a namespace of the library, whole or being filled.      *)
CacheIsSound ==
  \A l \in DOMAIN cache : created[cache[l]] = l /\ cache[l] \notin failed

Owned(i)     == Cached(created[active[i]]) /\ cache[created[active[i]]] = active[i]
ActiveOwn    == \A i \in 1 .. Len(active) : Owned(i)
ActiveDiffer == \A i, j \in 1 .. Len(active) : active[i] = active[j] => i = j

(* The program is given a namespace only when no include runs.             *)
GivenAtRest ==
  \A p \in held : p[1] = Program => \A i \in 1 .. Len(active) : active[i] # p[2]

Inv == /\ TypesOK /\ CacheIsSound /\ ActiveOwn /\ ActiveDiffer /\ GivenAtRest
       /\ HeldStaysCurrent

-----------------------------------------------------------------------------
LEMMA InitInv == Init => Inv
BY DEF Init, Inv, TypesOK, CacheIsSound, ActiveOwn, ActiveDiffer, GivenAtRest,
       HeldStaysCurrent, Namespaces

(* What remains of the stack when its innermost include ends.              *)
LEMMA PopFacts ==
  ASSUME NEW S, NEW s \in Seq(S), s # << >>
  PROVE  /\ SubSeq(s, 1, Len(s) - 1) \in Seq(S) /\ Len(s) \in Nat \ {0}
         /\ Len(SubSeq(s, 1, Len(s) - 1)) = Len(s) - 1
         /\ \A i \in 1 .. Len(s) - 1 : SubSeq(s, 1, Len(s) - 1)[i] = s[i]
<1>1. Len(s) \in Nat \ {0}
  OBVIOUS
<1>2. Len(s) - 1 \in 0 .. Len(s)
  BY <1>1
<1> DEFINE n == Len(s) - 1
<1>3. n \in Nat /\ n <= Len(s)
  BY <1>2
<1> HIDE DEF n
<1>4. SubSeq(s, 1, n) \in Seq(S) /\ Len(SubSeq(s, 1, n)) = n
  BY <1>1, <1>3
<1>5. \A i \in 1 .. n : SubSeq(s, 1, n)[i] = s[i]
  BY <1>1, <1>3
<1>6. QED
  BY <1>1, <1>4, <1>5 DEF n

(* The innermost include. *)
LEMMA InnermostFacts ==
  ASSUME Inv, active # << >>
  PROVE  /\ Len(active) \in Nat \ {0} /\ Caller = active[Len(active)]
         /\ Caller \in Namespaces /\ Own \in DOMAIN cache /\ cache[Own] = Caller
         /\ Outer \in 0 .. Len(created)
         /\ (Outer = Program => Len(active) = 1)
<1>1. active \in Seq(Namespaces) /\ Len(active) \in Nat \ {0} /\ Len(created) \in Nat
  BY DEF Inv, TypesOK
<1>2. Caller = active[Len(active)] /\ Caller \in Namespaces
  BY <1>1 DEF Caller
<1>3. Own \in DOMAIN cache /\ cache[Own] = Caller
  BY <1>1, <1>2 DEF Inv, ActiveOwn, Owned, Cached, Own
<1>4. Outer \in 0 .. Len(created) /\ (Outer = Program => Len(active) = 1)
  <2>1. CASE Len(active) < 2
    <3>1. Outer = 0
      BY <2>1 DEF Outer, Program
    <3>2. Len(active) = 1
      <4>1. \A n \in Nat \ {0} : n < 2 => n = 1
        OBVIOUS
      <4>2. Len(active) \in Nat \ {0}
        BY <1>1
      <4>3. QED
        BY <4>1, <4>2, <2>1
    <3>3. 0 \in 0 .. Len(created)
      BY <1>1
    <3>4. QED
      BY <3>1, <3>2, <3>3
  <2>2. CASE ~(Len(active) < 2)
    <3>1. Len(active) - 1 \in 1 .. Len(active)
      BY <2>2, <1>1
    <3>2. active[Len(active) - 1] \in 1 .. Len(created)
      BY <3>1, <1>1 DEF Namespaces
    <3>3. QED
      BY <2>2, <3>2, <1>1 DEF Outer, Program
  <2>3. QED
    BY <2>1, <2>2
<1>5. QED
  BY <1>1, <1>2, <1>3, <1>4

LEMMA CachedInv == ASSUME Inv, NEW l \in Libraries, IncludeCached(l) PROVE Inv'
<1> DEFINE n == cache[l]
<1>1. /\ l \in DOMAIN cache /\ n \in Namespaces /\ created[n] = l /\ n \notin failed
      /\ held' = held \cup {<<Caller, n>>} /\ UNCHANGED <<created, cache, active, failed>>
  BY DEF Inv, TypesOK, CacheIsSound, IncludeCached, Cached
<1>2. Caller \in 0 .. Len(created) /\ (Caller = Program => active = << >>)
  <2>1. CASE active = << >>
    BY <2>1 DEF Inv, TypesOK, Caller, Program
  <2>2. CASE active # << >>
    BY <2>2, InnermostFacts DEF Namespaces, Program
  <2>3. QED
    BY <2>1, <2>2
<1> HIDE DEF n
<1>3. TypesOK'
  BY <1>1, <1>2 DEF Inv, TypesOK, Namespaces
<1>4. CacheIsSound' /\ ActiveOwn' /\ ActiveDiffer'
  BY <1>1 DEF Inv, CacheIsSound, ActiveOwn, ActiveDiffer, Owned, Cached
<1>5. GivenAtRest'
  <2> SUFFICES ASSUME NEW p \in held', p[1] = Program, NEW i \in 1 .. Len(active)
               PROVE  active[i] # p[2]
    BY <1>1 DEF GivenAtRest
  <2>1. CASE p \in held
    BY <2>1 DEF Inv, GivenAtRest
  <2>2. CASE p = <<Caller, n>>
    <3>1. active = << >>
      BY <2>2, <1>2
    <3>2. QED
      BY <3>1
  <2>3. QED
    BY <2>1, <2>2, <1>1
<1>6. HeldStaysCurrent'
  <2> SUFFICES ASSUME NEW p \in held'
               PROVE  /\ p[2] \notin failed => Cached(created[p[2]]) /\ cache[created[p[2]]] = p[2]
                      /\ p[1] = Program => p[2] \notin failed
    BY <1>1 DEF HeldStaysCurrent, Cached
  <2>1. CASE p \in held
    BY <2>1 DEF Inv, HeldStaysCurrent
  <2>2. CASE p = <<Caller, n>>
    BY <2>2, <1>1 DEF Cached, n
  <2>3. QED
    BY <2>1, <2>2, <1>1
<1>7. QED
  BY <1>3, <1>4, <1>5, <1>6 DEF Inv

LEMMA NewInv == ASSUME Inv, NEW l \in Libraries, IncludeNew(l) PROVE Inv'
<1> DEFINE n == Len(created) + 1
<1>1. /\ created \in Seq(Libraries) /\ Len(created) \in Nat /\ n \in Nat
      /\ active \in Seq(Namespaces) /\ l \notin DOMAIN cache
      /\ created' = Append(created, l) /\ active' = Append(active, n)
      /\ cache' = With(l, n) /\ UNCHANGED <<held, failed>>
  BY DEF Inv, TypesOK, IncludeNew, Cached
<1>2. /\ Len(created') = n /\ created' \in Seq(Libraries) /\ created'[n] = l
      /\ \A m \in Namespaces : created'[m] = created[m] /\ m # n
      /\ Namespaces' = Namespaces \cup {n}
  BY <1>1 DEF Namespaces
<1>3. /\ DOMAIN cache' = DOMAIN cache \cup {l} /\ cache'[l] = n
      /\ \A k \in DOMAIN cache : cache'[k] = cache[k] /\ k # l
  BY <1>1 DEF With
<1> HIDE DEF n
<1>4. /\ active' \in Seq(Namespaces') /\ Len(active) \in Nat
      /\ Len(active') = Len(active) + 1 /\ active'[Len(active) + 1] = n
      /\ \A i \in 1 .. Len(active) : active'[i] = active[i] /\ active[i] \in Namespaces
  <2>1. active \in Seq(Namespaces') /\ n \in Namespaces'
    BY <1>1, <1>2
  <2>2. QED
    BY <2>1, <1>1
<1>5. \A m \in Namespaces : cache[created[m]] = m /\ created[m] \in DOMAIN cache
        => cache'[created'[m]] = m /\ created'[m] \in DOMAIN cache'
  BY <1>2, <1>3
<1>6. TypesOK'
  <2>1. cache' \in [DOMAIN cache' -> Namespaces']
    <3>1. \A k \in DOMAIN cache' : cache'[k] \in Namespaces'
      BY <1>2, <1>3 DEF Inv, TypesOK
    <3>2. cache' = [k \in DOMAIN cache' |-> cache'[k]]
      BY <1>1, <1>3 DEF With
    <3>3. QED
      BY <3>1, <3>2
  <2>2. held' \subseteq (0 .. Len(created')) \X Namespaces'
    BY <1>1, <1>2 DEF Inv, TypesOK, n
  <2>3. QED
    BY <2>1, <2>2, <1>1, <1>2, <1>3, <1>4 DEF Inv, TypesOK
<1>7. CacheIsSound'
  <2>1. n \notin failed
    BY <1>2 DEF Inv, TypesOK
  <2>2. \A k \in DOMAIN cache : created'[cache'[k]] = k /\ cache'[k] \notin failed
    <3>1. \A k \in DOMAIN cache : /\ cache[k] \in Namespaces /\ created[cache[k]] = k
                                  /\ cache[k] \notin failed
      BY DEF Inv, TypesOK, CacheIsSound
    <3>2. \A k \in DOMAIN cache : cache'[k] = cache[k]
      BY <1>3
    <3>3. \A k \in DOMAIN cache : created'[cache[k]] = created[cache[k]]
      BY <1>2, <3>1
    <3>4. QED
      BY <3>1, <3>2, <3>3
  <2>3. QED
    <3>1. created'[cache'[l]] = l /\ cache'[l] \notin failed
      BY <2>1, <1>2, <1>3
    <3>2. failed' = failed /\ DOMAIN cache' = DOMAIN cache \cup {l}
      BY <1>1, <1>3
    <3> SUFFICES ASSUME NEW k \in DOMAIN cache'
                 PROVE  created'[cache'[k]] = k /\ cache'[k] \notin failed'
      BY DEF CacheIsSound
    <3>3. QED
      BY <2>2, <3>1, <3>2
<1>8. ActiveOwn'
  <2> SUFFICES ASSUME NEW i \in 1 .. (Len(active) + 1) PROVE Owned(i)'
    BY <1>4 DEF ActiveOwn
  <2>1. CASE i \in 1 .. Len(active)
    BY <2>1, <1>4, <1>5 DEF Inv, ActiveOwn, Owned, Cached
  <2>2. CASE i = Len(active) + 1
    BY <2>2, <1>2, <1>3, <1>4 DEF Owned, Cached
  <2>3. QED
    BY <2>1, <2>2, <1>4
<1>9. ActiveDiffer'
  <2>1. \A i \in 1 .. Len(active) : active'[i] # n
    BY <1>2, <1>4
  <2>2. QED
    BY <2>1, <1>4 DEF Inv, ActiveDiffer
<1>10. \A p \in held : p[2] \in Namespaces
  BY DEF Inv, TypesOK
<1>11. GivenAtRest'
  <2> SUFFICES ASSUME NEW p \in held, p[1] = Program, NEW i \in 1 .. (Len(active) + 1)
               PROVE  active'[i] # p[2]
    BY <1>1, <1>4 DEF GivenAtRest
  <2>1. p[2] # n
    BY <1>2, <1>10
  <2>2. CASE i \in 1 .. Len(active)
    BY <2>2, <1>4 DEF Inv, GivenAtRest
  <2>3. CASE i = Len(active) + 1
    BY <2>1, <2>3, <1>4
  <2>4. QED
    BY <2>2, <2>3, <1>4
<1>12. HeldStaysCurrent'
  BY <1>1, <1>5, <1>10 DEF Inv, HeldStaysCurrent, Cached
<1>13. QED
  BY <1>6, <1>7, <1>8, <1>9, <1>11, <1>12 DEF Inv

(* The stack without its innermost include. *)
LEMMA PoppedFacts ==
  ASSUME Inv, active # << >>, active' = Popped, UNCHANGED created
  PROVE  /\ active' \in Seq(Namespaces) /\ Len(active') = Len(active) - 1
         /\ \A i \in 1 .. Len(active') : /\ i \in 1 .. Len(active) /\ active'[i] = active[i]
                                         /\ active'[i] # Caller
         /\ ActiveDiffer'
<1>1. active \in Seq(Namespaces)
  BY DEF Inv, TypesOK
<1>2. /\ active' \in Seq(Namespaces) /\ Len(active') = Len(active) - 1
      /\ Len(active) \in Nat \ {0}
      /\ \A i \in 1 .. Len(active') : active'[i] = active[i]
  BY <1>1, PopFacts DEF Popped
<1>3. Caller = active[Len(active)]
  BY InnermostFacts
<1>4. \A i \in 1 .. Len(active') : i \in 1 .. Len(active) /\ i # Len(active)
  BY <1>2
<1>5. \A i \in 1 .. Len(active') : active'[i] # Caller
  BY <1>2, <1>3, <1>4 DEF Inv, ActiveDiffer
<1>6. ActiveDiffer'
  BY <1>2, <1>4 DEF Inv, ActiveDiffer
<1>7. QED
  BY <1>2, <1>4, <1>5, <1>6

LEMMA ReturnInv == ASSUME Inv, Return PROVE Inv'
<1>1. /\ active # << >> /\ active' = Popped /\ held' = held \cup {<<Outer, Caller>>}
      /\ UNCHANGED <<created, cache, failed>>
  BY DEF Return
<1>2. /\ active' \in Seq(Namespaces) /\ Len(active') = Len(active) - 1
      /\ \A i \in 1 .. Len(active') : /\ i \in 1 .. Len(active) /\ active'[i] = active[i]
                                      /\ active'[i] # Caller
      /\ ActiveDiffer'
  BY <1>1, PoppedFacts
<1>3. /\ Caller \in Namespaces /\ Own \in DOMAIN cache /\ cache[Own] = Caller
      /\ Outer \in 0 .. Len(created) /\ Own = created[Caller]
  BY <1>1, InnermostFacts DEF Own
<1>4. Caller \notin failed
  BY <1>3 DEF Inv, CacheIsSound
<1> DEFINE c == Caller
           o == Outer
<1> HIDE DEF c, o
<1>5. held' = held \cup {<<o, c>>}
  BY <1>1 DEF c, o
<1>6. TypesOK'
  BY <1>1, <1>2, <1>3, <1>5 DEF Inv, TypesOK, Namespaces, c, o
<1>7. CacheIsSound' /\ ActiveOwn'
  BY <1>1, <1>2 DEF Inv, CacheIsSound, ActiveOwn, Owned, Cached
<1>8. GivenAtRest'
  <2> SUFFICES ASSUME NEW p \in held', p[1] = Program, NEW i \in 1 .. Len(active')
               PROVE  active'[i] # p[2]
    BY DEF GivenAtRest
  <2>1. CASE p \in held
    BY <2>1, <1>2 DEF Inv, GivenAtRest
  <2>2. CASE p = <<o, c>>
    BY <2>2, <1>2 DEF c
  <2>3. QED
    BY <2>1, <2>2, <1>5
<1>9. HeldStaysCurrent'
  <2> SUFFICES ASSUME NEW p \in held'
               PROVE  /\ p[2] \notin failed => Cached(created[p[2]]) /\ cache[created[p[2]]] = p[2]
                      /\ p[1] = Program => p[2] \notin failed
    BY <1>1 DEF HeldStaysCurrent, Cached
  <2>1. CASE p \in held
    BY <2>1 DEF Inv, HeldStaysCurrent
  <2>2. CASE p = <<o, c>>
    BY <2>2, <1>3, <1>4 DEF Cached, c
  <2>3. QED
    BY <2>1, <2>2, <1>5
<1>10. QED
  BY <1>2, <1>6, <1>7, <1>8, <1>9 DEF Inv

LEMMA RaiseInv == ASSUME Inv, Raise PROVE Inv'
<1>1. /\ active # << >> /\ active' = Popped /\ cache' = Without(Own)
      /\ failed' = failed \cup {Caller} /\ UNCHANGED <<created, held>>
  BY DEF Raise
<1>2. /\ active' \in Seq(Namespaces) /\ Len(active') = Len(active) - 1
      /\ \A i \in 1 .. Len(active') : /\ i \in 1 .. Len(active) /\ active'[i] = active[i]
                                      /\ active'[i] # Caller
      /\ ActiveDiffer'
  BY <1>1, PoppedFacts
<1>3. /\ Caller \in Namespaces /\ Own \in DOMAIN cache /\ cache[Own] = Caller
      /\ Caller = active[Len(active)] /\ Len(active) \in 1 .. Len(active)
  BY <1>1, InnermostFacts
<1>4. /\ DOMAIN cache' = DOMAIN cache \ {Own}
      /\ \A k \in DOMAIN cache' : cache'[k] = cache[k]
      /\ cache' = [k \in DOMAIN cache' |-> cache'[k]]
  BY <1>1 DEF Without
<1>5. \A m : created[m] \in DOMAIN cache /\ cache[created[m]] = m /\ m # Caller
        => created[m] \in DOMAIN cache' /\ cache'[created[m]] = m
  BY <1>3, <1>4
<1>6. TypesOK'
  <2>1. \A k \in DOMAIN cache' : cache'[k] \in Namespaces
    BY <1>4 DEF Inv, TypesOK
  <2>2. cache' \in [DOMAIN cache' -> Namespaces]
    BY <2>1, <1>4
  <2>3. QED
    BY <2>2, <1>1, <1>2, <1>3, <1>4 DEF Inv, TypesOK, Namespaces
<1>7. CacheIsSound'
  <2>1. \A k \in DOMAIN cache' : cache[k] # Caller
    <3>1. \A k \in DOMAIN cache : cache[k] = Caller => k = Own
      BY DEF Inv, CacheIsSound, Own
    <3>2. QED
      BY <3>1, <1>4
  <2>2. QED
    BY <2>1, <1>1, <1>4 DEF Inv, CacheIsSound
<1>8. ActiveOwn'
  BY <1>1, <1>2, <1>5 DEF Inv, ActiveOwn, Owned, Cached
<1>9. GivenAtRest'
  BY <1>1, <1>2 DEF Inv, GivenAtRest
<1>10. HeldStaysCurrent'
  <2> SUFFICES ASSUME NEW p \in held
               PROVE  /\ p[2] \notin failed' => Cached(created[p[2]])' /\ cache'[created[p[2]]] = p[2]
                      /\ p[1] = Program => p[2] \notin failed'
    BY <1>1 DEF HeldStaysCurrent, Cached
  <2>1. p[2] \notin failed' => Cached(created[p[2]])' /\ cache'[created[p[2]]] = p[2]
    BY <1>1, <1>5 DEF Inv, HeldStaysCurrent, Cached
  <2>2. p[1] = Program => p[2] \notin failed'
    BY <1>1, <1>3 DEF Inv, HeldStaysCurrent, GivenAtRest
  <2>3. QED
    BY <2>1, <2>2
<1>11. QED
  BY <1>2, <1>6, <1>7, <1>8, <1>9, <1>10 DEF Inv

LEMMA StepInv == Inv /\ [Next]_vars => Inv'
<1> SUFFICES ASSUME Inv, [Next]_vars PROVE Inv'
  OBVIOUS
<1>1. CASE \E l \in Libraries : IncludeCached(l) \/ IncludeNew(l)
  BY <1>1, CachedInv, NewInv
<1>2. CASE Return \/ Raise
  BY <1>2, ReturnInv, RaiseInv
<1>3. CASE IncludeRefused \/ Assemble \/ UNCHANGED vars
  <2>1. UNCHANGED <<created, cache, active, held, failed>>
    BY <1>3 DEF IncludeRefused, Assemble, vars
  <2>2. QED
    BY <2>1 DEF Inv, TypesOK, Namespaces, CacheIsSound, ActiveOwn, Owned, Cached,
                ActiveDiffer, GivenAtRest, HeldStaysCurrent
<1>4. QED
  BY <1>1, <1>2, <1>3 DEF Next

LEMMA Invariance == Spec => []Inv
BY InitInv, StepInv, PTL DEF Spec

(* Deleting the entry of an include that failed cannot fail itself, and    *)
(* circular inclusion meets the cache instead of filling a library twice.  *)
THEOREM EntriesAreOwned == Spec => []ActiveOwnTheirEntry
<1>1. Inv => ActiveOwnTheirEntry
  BY DEF Inv, TypesOK, ActiveOwn, Owned, ActiveDiffer, ActiveOwnTheirEntry
<1>2. QED
  BY <1>1, Invariance, PTL

(* Includes that succeed are idempotent for ever, whichever others fail.   *)
THEOREM SameNamespace == Spec => []HeldStaysCurrent
<1>1. Inv => HeldStaysCurrent
  BY DEF Inv
<1>2. QED
  BY <1>1, Invariance, PTL
=============================================================================
