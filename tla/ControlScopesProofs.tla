------------------------- MODULE ControlScopesProofs -------------------------
(***************************************************************************)
(* Proofs about ControlScopes, for every set of names and every depth.     *)
(*                                                                         *)
(* The labels of the open scopes lie one scope after the other in the      *)
(* engine's stack; pos[i] is the number of labels up to scope i, and the   *)
(* targets a scope has recorded are counted from pos[i-1].  What a name    *)
(* means at depth n is read off the frames below, and each frame remembers *)
(* what its own name meant there.                                          *)
(***************************************************************************)
EXTENDS ControlScopes, TLAPS

Bindings == [kind : {"unbound", "variable", "branch", "block", "loop"},
             break_target : Nat \cup {None}, continue_target : Nat \cup {None}]
Frames   == [kind : {"branch", "else", "block", "loop"}, name : Names \cup {Anonymous},
             binding : Bindings, previous : Bindings]
Labels   == [scope : Nat, is : {"function", "block", "loop", "if", "else"}]

LoopLaid(f, i, from, to, l) ==
  /\ f.kind = "loop" /\ to = from + 2
  /\ f.binding = [kind |-> "loop", break_target |-> from, continue_target |-> from + 1]
  /\ l[from + 1] = Label(i, "block") /\ l[from + 2] = Label(i, "loop")

BlockLaid(f, i, from, to, l) ==
  /\ f.kind = "block" /\ to = from + 1
  /\ f.binding = [kind |-> "block", break_target |-> from, continue_target |-> None]
  /\ l[from + 1] = Label(i, "block")

BranchLaid(f, i, from, to, l) ==
  /\ f.kind \in {"branch", "else"} /\ to = from + 1
  /\ f.binding = BranchBinding
  /\ l[from + 1].scope = i

(* The scope i of frame f owns the labels from+1 .. to of l.               *)
FrameLaid(f, i, from, to, l) ==
  \/ LoopLaid(f, i, from, to, l)
  \/ BlockLaid(f, i, from, to, l)
  \/ BranchLaid(f, i, from, to, l)

Laid(pos, o, l) ==
  /\ pos \in [0 .. Len(o) -> Nat]
  /\ pos[0] = 0 /\ pos[Len(o)] = Len(l)
  /\ \A i, j \in 0 .. Len(o) : i <= j => pos[i] <= pos[j]
  /\ \A i \in 1 .. Len(o) : FrameLaid(o[i], i, pos[i - 1], pos[i], l)

(* The frames up to n that bear a name, and what the name means there.     *)
Below(o, name, n) == {i \in 1 .. n : o[i].name = name}

Meaning(o, ln, name, n) ==
  IF Below(o, name, n) # {} THEN o[Max(Below(o, name, n))].binding
  ELSE IF name \in ln THEN Variable ELSE Unbound

HasInnermost(o, name, n) ==
  Below(o, name, n) # {} =>
    \E i \in Below(o, name, n) : \A j \in Below(o, name, n) : j <= i

(* Every name has an innermost frame, and every frame what it hides.       *)
Hides(o, ln) ==
  /\ \A name \in Names : \A n \in 0 .. Len(o) : HasInnermost(o, name, n)
  /\ \A i \in 1 .. Len(o) :
       o[i].name # Anonymous => o[i].previous = Meaning(o, ln, o[i].name, i - 1)

Means(b, o, ln) == \A name \in Names : b[name] = Meaning(o, ln, name, Len(o))

Typed ==
  /\ open \in Seq(Frames) /\ labels \in Seq(Labels) /\ controls \in Seq(Bindings)
  /\ bindings \in [Names -> Bindings]
  /\ Len(controls) = Len(labels) /\ control_depth = Len(labels)
  /\ statement_depth = Len(open)

IInv ==
  /\ Typed
  /\ \E pos : Laid(pos, open, labels)
  /\ Hides(open, local_names)
  /\ Means(bindings, open, local_names)
  /\ branch.to = branch.meant
-----------------------------------------------------------------------------
(* Sequences *)

(* The elements of a sequence.                                             *)
LEMMA ElementOf ==
  ASSUME NEW S, NEW s \in Seq(S), NEW i \in 1 .. Len(s)
  PROVE  s[i] \in S
OBVIOUS

(* The elements of a sequence and of the one it is followed by.            *)
LEMMA Concatenated ==
  ASSUME NEW S, NEW s \in Seq(S), NEW t \in Seq(S)
  PROVE  /\ s \o t \in Seq(S) /\ Len(s \o t) = Len(s) + Len(t) /\ Len(s) \in Nat
         /\ \A i \in 1 .. Len(t) : (s \o t)[Len(s) + i] = t[i]
OBVIOUS

(* What Front and Last leave and take of a sequence.                       *)
LEMMA FrontFacts ==
  ASSUME NEW S, NEW s \in Seq(S), s # <<>>
  PROVE  /\ Len(s) - 1 \in Nat /\ Front(s) \in Seq(S) /\ Last(s) \in S
         /\ Len(Front(s)) = Len(s) - 1 /\ Last(s) = s[Len(s)]
         /\ \A i \in 1 .. Len(s) - 1 : Front(s)[i] = s[i]
<1>1. Len(s) \in Nat /\ Len(s) # 0
  OBVIOUS
<1>2. Len(s) - 1 \in Nat /\ Len(s) \in 1 .. Len(s)
  BY <1>1
<1>3. Front(s) = [i \in 1 .. Len(s) - 1 |-> s[i]]
  BY <1>2 DEF Front
<1>4. \A i \in 1 .. Len(s) - 1 : s[i] \in S
  BY <1>1
<1>5. Front(s) \in Seq(S) /\ Len(Front(s)) = Len(s) - 1
  BY <1>2, <1>3, <1>4
<1>6. QED
  BY <1>2, <1>3, <1>5 DEF Last

-----------------------------------------------------------------------------
(* What names mean *)

(* The greatest element of a set is the one Max chooses.                   *)
LEMMA MaxIs ==
  ASSUME NEW S, S \subseteq Nat, NEW i \in S, \A j \in S : j <= i
  PROVE  Max(S) = i
<1>1. \E x \in S : \A y \in S : x >= y
  BY Z3
<1>2. Max(S) \in S /\ \A y \in S : Max(S) >= y
  BY <1>1 DEF Max
<1>3. Max(S) \in Nat /\ i \in Nat /\ Max(S) >= i /\ Max(S) <= i
  BY <1>2
<1>4. QED
  BY <1>3

(* The meaning of a name at depth n depends on the first n frames only.    *)
LEMMA MeaningKept ==
  ASSUME NEW o, NEW o2, NEW ln, NEW name, NEW n \in Nat,
         \A i \in 1 .. n : o2[i] = o[i], HasInnermost(o, name, n)
  PROVE  /\ HasInnermost(o2, name, n)
         /\ Meaning(o2, ln, name, n) = Meaning(o, ln, name, n)
<1>1. Below(o2, name, n) = Below(o, name, n)
  BY DEF Below
<1>2. HasInnermost(o2, name, n)
  BY <1>1 DEF HasInnermost
<1>3. ASSUME Below(o, name, n) # {}
      PROVE  o2[Max(Below(o, name, n))] = o[Max(Below(o, name, n))]
  <2>1. PICK i \in Below(o, name, n) : \A j \in Below(o, name, n) : j <= i
    BY <1>3 DEF HasInnermost
  <2>2. Below(o, name, n) \subseteq Nat /\ i \in 1 .. n
    BY DEF Below
  <2>3. Max(Below(o, name, n)) = i
    BY <2>1, <2>2, MaxIs
  <2>4. QED
    BY <2>2, <2>3
<1>4. QED
  BY <1>1, <1>2, <1>3 DEF Meaning

(* The frame on top gives its name a meaning, and no other name.           *)
LEMMA MeaningOnTop ==
  ASSUME NEW o, NEW ln, NEW name, NEW n \in Nat, HasInnermost(o, name, n)
  PROVE  /\ HasInnermost(o, name, n + 1)
         /\ Meaning(o, ln, name, n + 1) =
              IF o[n + 1].name = name THEN o[n + 1].binding ELSE Meaning(o, ln, name, n)
<1>1. CASE o[n + 1].name = name
  <2>1. /\ Below(o, name, n + 1) \subseteq Nat /\ n + 1 \in Below(o, name, n + 1)
        /\ \A j \in Below(o, name, n + 1) : j <= n + 1
    BY <1>1 DEF Below
  <2>2. Max(Below(o, name, n + 1)) = n + 1
    BY <2>1, MaxIs
  <2>3. QED
    BY <1>1, <2>1, <2>2 DEF Meaning, HasInnermost
<1>2. CASE o[n + 1].name # name
  <2>1. Below(o, name, n + 1) = Below(o, name, n)
    BY <1>2 DEF Below
  <2>2. QED
    BY <1>2, <2>1 DEF Meaning, HasInnermost
<1>3. QED
  BY <1>1, <1>2

Pushed(o, f, ln) ==
  /\ Hides(Append(o, f), ln)
  /\ \A name \in Names :
       Meaning(Append(o, f), ln, name, Len(Append(o, f))) =
         IF f.name = name THEN f.binding ELSE Meaning(o, ln, name, Len(o))

(* A frame that remembers what its name meant may be pushed.               *)
LEMMA PushFrame ==
  ASSUME NEW o \in Seq(Frames), NEW f \in Frames, NEW ln, Hides(o, ln),
         f.name # Anonymous => f.previous = Meaning(o, ln, f.name, Len(o))
  PROVE  Pushed(o, f, ln)
<1> DEFINE o2 == Append(o, f)
<1>1. /\ Len(o) \in Nat /\ Len(o2) = Len(o) + 1 /\ o2[Len(o) + 1] = f
      /\ \A i \in 1 .. Len(o) : o2[i] = o[i]
  OBVIOUS
<1> HIDE DEF o2
<1>2. ASSUME NEW name \in Names, NEW n \in 0 .. Len(o)
      PROVE  /\ HasInnermost(o2, name, n)
             /\ Meaning(o2, ln, name, n) = Meaning(o, ln, name, n)
  <2>1. HasInnermost(o, name, n) /\ n \in Nat /\ \A i \in 1 .. n : o2[i] = o[i]
    BY <1>1 DEF Hides
  <2>2. QED
    BY <2>1, MeaningKept
<1>3. ASSUME NEW name \in Names
      PROVE  /\ HasInnermost(o2, name, Len(o2))
             /\ Meaning(o2, ln, name, Len(o2)) =
                  IF f.name = name THEN f.binding ELSE Meaning(o, ln, name, Len(o))
  <2>1. /\ HasInnermost(o2, name, Len(o)) /\ Len(o) \in Nat
        /\ Meaning(o2, ln, name, Len(o)) = Meaning(o, ln, name, Len(o))
    BY <1>1, <1>2
  <2>2. /\ HasInnermost(o2, name, Len(o) + 1)
        /\ Meaning(o2, ln, name, Len(o) + 1) =
             IF o2[Len(o) + 1].name = name THEN o2[Len(o) + 1].binding
             ELSE Meaning(o2, ln, name, Len(o))
    BY <2>1, MeaningOnTop
  <2>3. QED
    BY <1>1, <2>1, <2>2, Zenon
<1>4. ASSUME NEW i \in 1 .. Len(o2), o2[i].name # Anonymous
      PROVE  o2[i].previous = Meaning(o2, ln, o2[i].name, i - 1)
  <2>1. CASE i = Len(o2)
    <3>1. o2[i] = f /\ f.name \in Names /\ i - 1 = Len(o)
      BY <1>1, <1>4, <2>1 DEF Frames
    <3>2. QED
      BY <1>1, <1>2, <1>4, <3>1
  <2>2. CASE i # Len(o2)
    <3>1. i \in 1 .. Len(o) /\ o2[i] = o[i] /\ i - 1 \in 0 .. Len(o)
      BY <1>1, <1>4, <2>2
    <3>2. o[i] \in Frames /\ o[i].name \in Names
      <4>1. o[i] \in Frames
        BY <3>1, ElementOf
      <4>2. QED
        BY <1>4, <3>1, <4>1 DEF Frames
    <3>3. o[i].previous = Meaning(o, ln, o[i].name, i - 1)
      BY <1>4, <3>1 DEF Hides
    <3>4. QED
      BY <1>2, <3>1, <3>2, <3>3
  <2>3. QED
    BY <2>1, <2>2
<1>5. Hides(o2, ln)
  <2>1. ASSUME NEW name \in Names, NEW n \in 0 .. Len(o2) PROVE HasInnermost(o2, name, n)
    BY <1>1, <1>2, <1>3
  <2>2. QED
    BY <1>4, <2>1 DEF Hides
<1>6. QED
  BY <1>3, <1>5 DEF Pushed, o2

Popped(o, ln) ==
  /\ Hides(Front(o), ln)
  /\ \A name \in Names :
       Meaning(Front(o), ln, name, Len(Front(o))) =
         IF Last(o).name = name THEN Last(o).previous ELSE Meaning(o, ln, name, Len(o))

(* Without the frame on top its name means what the frame remembers.       *)
LEMMA PopFrame ==
  ASSUME NEW o \in Seq(Frames), o # <<>>, NEW ln, Hides(o, ln)
  PROVE  Popped(o, ln)
<1> DEFINE o2 == Front(o)
           n  == Len(o) - 1
<1>1. /\ n \in Nat /\ Len(o) = n + 1 /\ Len(o2) = n /\ Last(o) = o[n + 1]
      /\ \A i \in 1 .. n : o2[i] = o[i]
  BY FrontFacts
<1> HIDE DEF o2, n
<1>2. ASSUME NEW name \in Names, NEW k \in 0 .. n
      PROVE  /\ HasInnermost(o, name, k) /\ HasInnermost(o2, name, k)
             /\ Meaning(o2, ln, name, k) = Meaning(o, ln, name, k)
  <2>1. HasInnermost(o, name, k) /\ k \in Nat /\ \A i \in 1 .. k : o2[i] = o[i]
    BY <1>1 DEF Hides
  <2>2. QED
    BY <2>1, MeaningKept
<1>3. ASSUME NEW name \in Names
      PROVE  Meaning(o2, ln, name, n) =
               IF Last(o).name = name THEN Last(o).previous ELSE Meaning(o, ln, name, Len(o))
  <2>1. CASE Last(o).name = name
    <3>1. name # Anonymous
      BY ScopeAssumption DEF Anonymous
    <3>2. o[n + 1].previous = Meaning(o, ln, o[n + 1].name, n + 1 - 1)
      BY <1>1, <2>1, <3>1 DEF Hides
    <3>3. Last(o).previous = Meaning(o, ln, name, n)
      BY <1>1, <2>1, <3>2
    <3>4. QED
      BY <1>1, <1>2, <2>1, <3>3
  <2>2. CASE Last(o).name # name
    <3>1. Meaning(o, ln, name, n + 1) = Meaning(o, ln, name, n)
      BY <1>1, <1>2, <2>2, MeaningOnTop
    <3>2. QED
      BY <1>1, <1>2, <2>2, <3>1
  <2>3. QED
    BY <2>1, <2>2
<1>4. ASSUME NEW i \in 1 .. n, o2[i].name # Anonymous
      PROVE  o2[i].previous = Meaning(o2, ln, o2[i].name, i - 1)
  <2>1. i \in 1 .. Len(o) /\ o2[i] = o[i] /\ i - 1 \in 0 .. n
    BY <1>1, <1>4
  <2>2. o[i] \in Frames /\ o[i].name \in Names
    <3>1. o[i] \in Frames
      BY <2>1, ElementOf
    <3>2. QED
      BY <1>4, <2>1, <3>1 DEF Frames
  <2>3. o[i].previous = Meaning(o, ln, o[i].name, i - 1)
    BY <1>4, <2>1 DEF Hides
  <2>4. QED
    BY <1>2, <2>1, <2>2, <2>3
<1>5. Hides(o2, ln)
  BY <1>1, <1>2, <1>4 DEF Hides
<1>6. QED
  BY <1>1, <1>3, <1>5 DEF Popped, o2

-----------------------------------------------------------------------------
(* How labels lie *)

(* A scope owns a label or two, all of them in the stack.                  *)
LEMMA LaidFacts ==
  ASSUME NEW o \in Seq(Frames), NEW l \in Seq(Labels), NEW pos, Laid(pos, o, l),
         NEW i \in 1 .. Len(o)
  PROVE  /\ i - 1 \in 0 .. Len(o) /\ i \in 0 .. Len(o)
         /\ pos[i - 1] \in Nat /\ pos[i] \in Nat
         /\ pos[i - 1] < pos[i] /\ pos[i] <= Len(l)
         /\ FrameLaid(o[i], i, pos[i - 1], pos[i], l)
<1>1. /\ Len(o) \in Nat /\ i - 1 \in 0 .. Len(o) /\ i \in 0 .. Len(o)
      /\ Len(o) \in 0 .. Len(o)
  OBVIOUS
<1>2. /\ pos[i - 1] \in Nat /\ pos[i] \in Nat /\ pos[i] <= Len(l)
      /\ FrameLaid(o[i], i, pos[i - 1], pos[i], l)
  BY <1>1 DEF Laid
<1>3. pos[i - 1] < pos[i]
  BY <1>2 DEF FrameLaid, LoopLaid, BlockLaid, BranchLaid
<1>4. QED
  BY <1>1, <1>2, <1>3

(* A scope stays laid when the labels up to its last one do.               *)
LEMMA FrameKept ==
  ASSUME NEW f, NEW i, NEW from \in Nat, NEW to \in Nat, NEW l, NEW l2, NEW n \in Nat,
         FrameLaid(f, i, from, to, l), to <= n, \A k \in 1 .. n : l2[k] = l[k]
  PROVE  FrameLaid(f, i, from, to, l2)
<1>1. CASE LoopLaid(f, i, from, to, l)
  <2>1. from + 1 \in 1 .. n /\ from + 2 \in 1 .. n
    BY <1>1 DEF LoopLaid
  <2>2. QED
    BY <1>1, <2>1 DEF FrameLaid, LoopLaid
<1>2. CASE BlockLaid(f, i, from, to, l)
  <2>1. from + 1 \in 1 .. n
    BY <1>2 DEF BlockLaid
  <2>2. QED
    BY <1>2, <2>1 DEF FrameLaid, BlockLaid
<1>3. CASE BranchLaid(f, i, from, to, l)
  <2>1. from + 1 \in 1 .. n
    BY <1>3 DEF BranchLaid
  <2>2. QED
    BY <1>3, <2>1 DEF FrameLaid, BranchLaid
<1>4. QED
  BY <1>1, <1>2, <1>3 DEF FrameLaid

(* The labels of a scope that is entered go on top.                        *)
LEMMA PushLaid ==
  ASSUME NEW o \in Seq(Frames), NEW f \in Frames, NEW l \in Seq(Labels),
         NEW e \in Seq(Labels), NEW pos, Laid(pos, o, l),
         FrameLaid(f, Len(o) + 1, Len(l), Len(l) + Len(e), l \o e)
  PROVE  \E p : Laid(p, Append(o, f), l \o e)
<1> DEFINE o2 == Append(o, f)
           l2 == l \o e
           n  == Len(o)
           p  == [i \in 0 .. n + 1 |-> IF i = n + 1 THEN Len(l) + Len(e) ELSE pos[i]]
<1>1. /\ n \in Nat /\ Len(o2) = n + 1 /\ o2[n + 1] = f
      /\ \A i \in 1 .. n : o2[i] = o[i]
  OBVIOUS
<1>2. /\ Len(l) \in Nat /\ Len(e) \in Nat /\ Len(l2) = Len(l) + Len(e)
      /\ \A k \in 1 .. Len(l) : l2[k] = l[k]
  OBVIOUS
<1>3. /\ pos \in [0 .. n -> Nat] /\ pos[0] = 0 /\ pos[n] = Len(l)
      /\ \A i, j \in 0 .. n : i <= j => pos[i] <= pos[j]
  BY DEF Laid
<1>4. FrameLaid(f, n + 1, Len(l), Len(l) + Len(e), l2)
  OBVIOUS
<1> HIDE DEF o2, l2, n
<1>5. /\ p \in [0 .. n + 1 -> Nat] /\ p[0] = 0 /\ p[n + 1] = Len(l2)
      /\ \A i \in 0 .. n : p[i] = pos[i]
  <2>1. ASSUME NEW i \in 0 .. n + 1 PROVE p[i] \in Nat
    BY <1>1, <1>2, <1>3
  <2>2. QED
    BY <1>1, <1>2, <1>3, <2>1
<1> HIDE DEF p
<1>6. ASSUME NEW i \in 0 .. n + 1, NEW j \in 0 .. n + 1, i <= j PROVE p[i] <= p[j]
  <2>1. CASE j = n + 1
    <3>1. CASE i = n + 1
      BY <1>2, <1>5, <2>1, <3>1
    <3>2. CASE i # n + 1
      <4>1. i \in 0 .. n /\ n \in 0 .. n /\ i <= n
        BY <1>1, <3>2
      <4>2. p[i] = pos[i] /\ pos[i] \in Nat /\ pos[i] <= Len(l)
        BY <1>3, <1>5, <4>1
      <4>3. QED
        BY <1>2, <1>5, <2>1, <4>2
    <3>3. QED
      BY <3>1, <3>2
  <2>2. CASE j # n + 1
    <3>1. i \in 0 .. n /\ j \in 0 .. n
      BY <1>1, <1>6, <2>2
    <3>2. QED
      BY <1>3, <1>5, <1>6, <3>1
  <2>3. QED
    BY <2>1, <2>2
<1>7. ASSUME NEW i \in 1 .. n + 1 PROVE FrameLaid(o2[i], i, p[i - 1], p[i], l2)
  <2>1. CASE i = n + 1
    <3>1. n \in 0 .. n /\ i - 1 = n
      <4>1. n \in Nat
        BY <1>1
      <4>2. QED
        BY <2>1, <4>1
    <3>2. p[i - 1] = Len(l) /\ p[i] = Len(l) + Len(e) /\ o2[i] = f
      BY <1>1, <1>2, <1>3, <1>5, <2>1, <3>1
    <3>3. QED
      BY <1>4, <2>1, <3>2
  <2>2. CASE i # n + 1
    <3>1. i \in 1 .. n
      BY <1>1, <2>2
    <3>2. /\ pos[i - 1] \in Nat /\ pos[i] \in Nat /\ pos[i] <= Len(l)
          /\ FrameLaid(o[i], i, pos[i - 1], pos[i], l)
          /\ i - 1 \in 0 .. n /\ i \in 0 .. n
      BY <3>1, LaidFacts DEF n
    <3>3. FrameLaid(o[i], i, pos[i - 1], pos[i], l2)
      BY <1>2, <3>2, FrameKept
    <3>4. QED
      BY <1>1, <1>5, <3>1, <3>2, <3>3
  <2>3. QED
    BY <2>1, <2>2
<1>8. Laid(p, o2, l2)
  BY <1>1, <1>5, <1>6, <1>7 DEF Laid
<1>9. QED
  BY <1>8 DEF o2, l2

(* The labels of a scope that ends are on top.                             *)
LEMMA PopLaid ==
  ASSUME NEW o \in Seq(Frames), NEW l \in Seq(Labels), NEW pos, Laid(pos, o, l), o # <<>>
  PROVE  \E p : Laid(p, Front(o), SubSeq(l, 1, pos[Len(o) - 1]))
<1> DEFINE o2 == Front(o)
           n  == Len(o) - 1
           l2 == SubSeq(l, 1, pos[n])
           p  == [i \in 0 .. n |-> pos[i]]
<1>1. /\ n \in Nat /\ Len(o) = n + 1 /\ Len(o2) = n
      /\ \A i \in 1 .. n : o2[i] = o[i]
  BY FrontFacts
<1>2. /\ pos \in [0 .. n + 1 -> Nat] /\ pos[0] = 0 /\ pos[n + 1] = Len(l)
      /\ \A i, j \in 0 .. n + 1 : i <= j => pos[i] <= pos[j]
  BY <1>1 DEF Laid
<1>3. pos[n] \in Nat /\ pos[n] <= Len(l)
  BY <1>1, <1>2
<1>4. Len(l2) = pos[n] /\ \A k \in 1 .. pos[n] : l2[k] = l[k]
  BY <1>3
<1> HIDE DEF o2, n, l2
<1>5. ASSUME NEW i \in 1 .. n PROVE FrameLaid(o2[i], i, p[i - 1], p[i], l2)
  <2>1. i \in 1 .. Len(o) /\ i \in 0 .. n /\ i - 1 \in 0 .. n
    BY <1>1
  <2>2. /\ pos[i - 1] \in Nat /\ pos[i] \in Nat
        /\ FrameLaid(o[i], i, pos[i - 1], pos[i], l)
    BY <2>1, LaidFacts
  <2>3. pos[i] <= pos[n]
    BY <1>1, <1>2, <2>1
  <2>4. FrameLaid(o[i], i, pos[i - 1], pos[i], l2)
    BY <1>3, <1>4, <2>2, <2>3, FrameKept
  <2>5. QED
    BY <1>1, <2>1, <2>4
<1>6. /\ p \in [0 .. n -> Nat] /\ p[0] = 0 /\ p[n] = Len(l2)
      /\ \A i, j \in 0 .. n : i <= j => p[i] <= p[j]
  BY <1>1, <1>2, <1>4
<1>7. Laid(p, o2, l2)
  BY <1>1, <1>5, <1>6 DEF Laid
<1>8. QED
  BY <1>7 DEF o2, l2, n

-----------------------------------------------------------------------------
(* The steps *)

(* A name bound to a new meaning.                                          *)
LEMMA Rebound ==
  ASSUME bindings \in [Names -> Bindings], NEW name \in Names \cup {Anonymous},
         NEW b \in Bindings, Bind(name, b)
  PROVE  /\ bindings' \in [Names -> Bindings]
         /\ \A nm \in Names : bindings'[nm] = IF name = nm THEN b ELSE bindings[nm]
<1>1. CASE name = Anonymous
  <2>1. \A nm \in Names : nm # name
    BY <1>1, ScopeAssumption DEF Anonymous
  <2>2. QED
    BY <1>1, <2>1 DEF Bind
<1>2. CASE name # Anonymous
  BY <1>2 DEF Bind
<1>3. QED
  BY <1>1, <1>2

EnteredFrame(name, b) ==
  [kind |-> b.kind, name |-> name, binding |-> b, previous |-> Bound(name)]

(* Entering a scope, whose binding describes the labels it gets.           *)
LEMMA EnterIInv ==
  ASSUME IInv, NEW name \in Names \cup {Anonymous}, NEW b \in Bindings,
         b.kind \in {"branch", "block", "loop"},
         NEW e \in Seq({"block", "loop", "if"}), EnterScope(name, b, e),
         FrameLaid(EnteredFrame(name, b), Len(open) + 1, Len(labels),
                   Len(labels) + Len(e), labels')
  PROVE  IInv'
<1> DEFINE f == EnteredFrame(name, b)
           m == [i \in DOMAIN e |-> Label(Len(open) + 1, e[i])]
           c == [i \in DOMAIN e |-> b]
<1>1. f \in Frames
  <2>1. Bound(name) \in Bindings
    BY DEF IInv, Typed, Bound, Unbound, Bindings, None
  <2>2. QED
    BY <2>1 DEF EnteredFrame, Frames
<1>2. /\ open' = Append(open, f) /\ labels' = labels \o m /\ controls' = controls \o c
      /\ control_depth' = control_depth + Len(e) /\ statement_depth' = statement_depth + 1
      /\ Bind(name, b) /\ local_names' = local_names /\ branch' = branch
  BY DEF EnterScope, EnteredFrame, Deepened
<1>3. m \in Seq(Labels) /\ Len(m) = Len(e)
  <2>1. Len(open) + 1 \in Nat /\ DOMAIN e = 1 .. Len(e) /\ Len(e) \in Nat
    BY DEF IInv, Typed
  <2>2. ASSUME NEW i \in 1 .. Len(e) PROVE Label(Len(open) + 1, e[i]) \in Labels
    <3>1. e[i] \in {"block", "loop", "if"}
      BY ElementOf
    <3>2. QED
      BY <2>1, <3>1 DEF Label, Labels
  <2>3. QED
    BY <2>1, <2>2
<1>4. c \in Seq(Bindings) /\ Len(c) = Len(e)
  BY DEF c
<1>5. FrameLaid(f, Len(open) + 1, Len(labels), Len(labels) + Len(m), labels \o m)
  BY <1>2, <1>3
<1> HIDE DEF f, m, c
<1>6. Typed'
  <2>1. Append(open, f) \in Seq(Frames) /\ Len(Append(open, f)) = Len(open) + 1
    BY <1>1 DEF IInv, Typed
  <2>2. labels \o m \in Seq(Labels) /\ Len(labels \o m) = Len(labels) + Len(m)
    BY <1>3 DEF IInv, Typed
  <2>3. controls \o c \in Seq(Bindings) /\ Len(controls \o c) = Len(controls) + Len(c)
    <3>1. controls \in Seq(Bindings) /\ c \in Seq(Bindings)
      BY <1>4 DEF IInv, Typed
    <3>2. QED
      BY <3>1
  <2>4. bindings' \in [Names -> Bindings]
    BY <1>2, Rebound DEF IInv, Typed
  <2>5. QED
    BY <1>2, <1>3, <1>4, <2>1, <2>2, <2>3, <2>4 DEF IInv, Typed
<1>7. \E p : Laid(p, open', labels')
  <2>1. open \in Seq(Frames) /\ labels \in Seq(Labels)
    BY DEF IInv, Typed
  <2>2. PICK pos : Laid(pos, open, labels)
    BY DEF IInv
  <2>3. \E p : Laid(p, Append(open, f), labels \o m)
    BY <1>1, <1>3, <1>5, <2>1, <2>2, PushLaid
  <2>4. QED
    BY <1>2, <2>3
<1>8. Pushed(open, f, local_names)
  <2>1. open \in Seq(Frames) /\ Hides(open, local_names)
    BY DEF IInv, Typed
  <2>2. f.name # Anonymous => f.previous = Meaning(open, local_names, f.name, Len(open))
    BY DEF IInv, Means, Bound, f, EnteredFrame
  <2>3. QED
    BY <1>1, <2>1, <2>2, PushFrame
<1>9. Hides(open', local_names')
  BY <1>2, <1>8 DEF Pushed
<1>10. Means(bindings', open', local_names')
  <2>1. ASSUME NEW nm \in Names
        PROVE  bindings'[nm] = Meaning(open', local_names', nm, Len(open'))
    <3>1. bindings'[nm] = IF name = nm THEN b ELSE bindings[nm]
      BY <1>2, Rebound DEF IInv, Typed
    <3>2. bindings[nm] = Meaning(open, local_names, nm, Len(open))
      BY DEF IInv, Means
    <3>3. f.name = name /\ f.binding = b
      BY DEF f, EnteredFrame
    <3>4. Meaning(open', local_names', nm, Len(open')) =
            IF f.name = nm THEN f.binding ELSE Meaning(open, local_names, nm, Len(open))
      BY <1>2, <1>8 DEF Pushed
    <3>5. QED
      BY <3>1, <3>2, <3>3, <3>4, Zenon
  <2>2. QED
    BY <2>1 DEF Means
<1>11. QED
  BY <1>2, <1>6, <1>7, <1>9, <1>10 DEF IInv

(* An if is a scope of one label. *)
LEMMA BranchIInv ==
  ASSUME IInv, NEW name \in Names \cup {Anonymous}, Branch(name)
  PROVE  IInv'
<1>1. PICK b : b = BranchBinding
  OBVIOUS
<1>2. b \in Bindings /\ b.kind = "branch"
  BY <1>1 DEF BranchBinding, Bindings, None
<1>3. <<"if">> \in Seq({"block", "loop", "if"}) /\ Len(<<"if">>) = 1
  OBVIOUS
<1>4. EnterScope(name, b, <<"if">>)
  BY <1>1 DEF Branch
<1>5. labels'[Len(labels) + 1] = Label(Len(open) + 1, "if")
  BY <1>4 DEF EnterScope, IInv, Typed
<1>6. FrameLaid(EnteredFrame(name, b), Len(open) + 1, Len(labels), Len(labels) + 1, labels')
  BY <1>1, <1>2, <1>5 DEF FrameLaid, BranchLaid, EnteredFrame, Label
<1>7. QED
  BY <1>2, <1>3, <1>4, <1>6, EnterIInv

(* A block is a scope of one label, the next one. *)
LEMMA BlockIInv ==
  ASSUME IInv, NEW name \in Names \cup {Anonymous}, Block(name)
  PROVE  IInv'
<1>1. PICK b : b = BlockBinding
  OBVIOUS
<1>2. /\ b = [kind |-> "block", break_target |-> Len(labels), continue_target |-> None]
      /\ b \in Bindings /\ b.kind = "block"
  BY <1>1 DEF BlockBinding, Bindings, None, IInv, Typed
<1>3. <<"block">> \in Seq({"block", "loop", "if"}) /\ Len(<<"block">>) = 1
  OBVIOUS
<1>4. EnterScope(name, b, <<"block">>)
  BY <1>1 DEF Block
<1>5. labels'[Len(labels) + 1] = Label(Len(open) + 1, "block")
  BY <1>4 DEF EnterScope, IInv, Typed
<1>6. FrameLaid(EnteredFrame(name, b), Len(open) + 1, Len(labels), Len(labels) + 1, labels')
  BY <1>2, <1>5 DEF FrameLaid, BlockLaid, EnteredFrame
<1>7. QED
  BY <1>2, <1>3, <1>4, <1>6, EnterIInv

(* A loop is a scope of the next two labels. *)
LEMMA LoopIInv ==
  ASSUME IInv, NEW name \in Names \cup {Anonymous}, Loop(name)
  PROVE  IInv'
<1>1. PICK b : b = LoopBinding
  OBVIOUS
<1>2. /\ b = [kind |-> "loop", break_target |-> Len(labels),
              continue_target |-> Len(labels) + 1]
      /\ b \in Bindings /\ b.kind = "loop"
  BY <1>1 DEF LoopBinding, Bindings, None, IInv, Typed
<1>3. <<"block", "loop">> \in Seq({"block", "loop", "if"}) /\ Len(<<"block", "loop">>) = 2
  OBVIOUS
<1>4. EnterScope(name, b, <<"block", "loop">>)
  BY <1>1 DEF Loop
<1>5. /\ labels'[Len(labels) + 1] = Label(Len(open) + 1, "block")
      /\ labels'[Len(labels) + 2] = Label(Len(open) + 1, "loop")
  BY <1>4 DEF EnterScope, IInv, Typed
<1>6. FrameLaid(EnteredFrame(name, b), Len(open) + 1, Len(labels), Len(labels) + 2, labels')
  BY <1>2, <1>5 DEF FrameLaid, LoopLaid, EnteredFrame
<1>7. QED
  BY <1>2, <1>3, <1>4, <1>6, EnterIInv

(* The scope on top owns the last labels.                                  *)
LEMMA TopLaid ==
  ASSUME IInv, open # <<>>, NEW pos, Laid(pos, open, labels)
  PROVE  /\ Len(open) \in 1 .. Len(open) /\ Scope = open[Len(open)] /\ Scope \in Frames
         /\ pos[Len(open) - 1] \in Nat /\ pos[Len(open) - 1] < Len(labels)
         /\ FrameLaid(Scope, Len(open), pos[Len(open) - 1], Len(labels), labels)
<1>1. open \in Seq(Frames) /\ labels \in Seq(Labels)
  BY DEF IInv, Typed
<1>2. /\ Len(open) - 1 \in Nat /\ Last(open) = open[Len(open)] /\ Last(open) \in Frames
  BY <1>1, FrontFacts
<1>3. Len(open) \in 1 .. Len(open)
  BY <1>2
<1>4. pos[Len(open)] = Len(labels)
  BY DEF Laid
<1>5. QED
  BY <1>1, <1>2, <1>3, <1>4, LaidFacts DEF Scope

(* Without its innermost scope a name means what that scope remembers.     *)
LEMMA RestoredMeans ==
  ASSUME IInv, open # <<>>, RestoreName
  PROVE  /\ bindings' \in [Names -> Bindings]
         /\ Hides(Front(open), local_names)
         /\ Means(bindings', Front(open), local_names)
<1>1. open \in Seq(Frames) /\ Hides(open, local_names) /\ bindings \in [Names -> Bindings]
  BY DEF IInv, Typed
<1>2. /\ Scope = Last(open) /\ Scope.name \in Names \cup {Anonymous}
      /\ Scope.previous \in Bindings
  <2>1. Last(open) \in Frames
    BY <1>1, FrontFacts
  <2>2. QED
    BY <2>1 DEF Scope, Frames
<1>3. Popped(open, local_names)
  BY <1>1, PopFrame
<1>4. Bind(Scope.name, Scope.previous)
  BY DEF RestoreName
<1>5. /\ bindings' \in [Names -> Bindings]
      /\ \A nm \in Names :
           bindings'[nm] = IF Scope.name = nm THEN Scope.previous ELSE bindings[nm]
  BY <1>1, <1>2, <1>4, Rebound
<1>6. ASSUME NEW nm \in Names
      PROVE  bindings'[nm] = Meaning(Front(open), local_names, nm, Len(Front(open)))
  <2>1. bindings[nm] = Meaning(open, local_names, nm, Len(open))
    BY DEF IInv, Means
  <2>2. Meaning(Front(open), local_names, nm, Len(Front(open))) =
          IF Scope.name = nm THEN Scope.previous
          ELSE Meaning(open, local_names, nm, Len(open))
    BY <1>2, <1>3 DEF Popped
  <2>3. bindings'[nm] = IF Scope.name = nm THEN Scope.previous ELSE bindings[nm]
    BY <1>5
  <2>4. QED
    BY <2>1, <2>2, <2>3, Zenon
<1>7. QED
  BY <1>3, <1>5, <1>6 DEF Popped, Means

(* A scope that ends gives back its labels, and a loop branches to its start.*)
LEMMA CloseIInv ==
  ASSUME IInv, Close
  PROVE  IInv'
<1>1. /\ open # <<>> /\ RestoreName /\ local_names' = local_names
      /\ open' = Front(open)
  BY DEF Close
<1>2. PICK pos : Laid(pos, open, labels)
  BY DEF IInv
<1> DEFINE n == Len(open)
           k == pos[n - 1]
<1>3. /\ n \in 1 .. n /\ Scope = open[n] /\ k \in Nat /\ k < Len(labels)
      /\ FrameLaid(Scope, n, k, Len(labels), labels)
  BY <1>1, <1>2, TopLaid
<1>4. /\ open \in Seq(Frames) /\ labels \in Seq(Labels) /\ controls \in Seq(Bindings)
      /\ Len(controls) = Len(labels) /\ control_depth = Len(labels)
      /\ statement_depth = n
  BY DEF IInv, Typed
<1> HIDE DEF n, k
<1>5. Len(labels) - Len(Ends) = k /\ Len(labels) - Width = k
  <2>1. CASE Scope.kind = "loop"
    <3>1. Len(labels) = k + 2
      BY <1>3, <2>1 DEF FrameLaid, LoopLaid, BlockLaid, BranchLaid
    <3>2. QED
      BY <1>3, <2>1, <3>1 DEF Ends, Width
  <2>2. CASE Scope.kind # "loop"
    <3>1. Len(labels) = k + 1
      BY <1>3, <2>2 DEF FrameLaid, LoopLaid, BlockLaid, BranchLaid
    <3>2. QED
      BY <1>3, <2>2, <3>1 DEF Ends, Width
  <2>3. QED
    BY <2>1, <2>2
<1>6. /\ labels' = SubSeq(labels, 1, k) /\ controls' = SubSeq(controls, 1, k)
      /\ control_depth' = k /\ statement_depth' = n - 1
  BY <1>4, <1>5 DEF Close
<1>7. Typed'
  <2>1. /\ SubSeq(labels, 1, k) \in Seq(Labels) /\ Len(SubSeq(labels, 1, k)) = k
    BY <1>3, <1>4
  <2>2. /\ SubSeq(controls, 1, k) \in Seq(Bindings) /\ Len(SubSeq(controls, 1, k)) = k
    BY <1>3, <1>4
  <2>3. Front(open) \in Seq(Frames) /\ Len(Front(open)) = n - 1
    BY <1>1, <1>4, FrontFacts DEF n
  <2>4. bindings' \in [Names -> Bindings]
    BY <1>1, RestoredMeans
  <2>5. QED
    BY <1>1, <1>6, <2>1, <2>2, <2>3, <2>4 DEF Typed
<1>8. \E p : Laid(p, open', labels')
  BY <1>1, <1>2, <1>4, <1>6, PopLaid DEF n, k
<1>9. Hides(open', local_names') /\ Means(bindings', open', local_names')
  BY <1>1, RestoredMeans
<1>10. branch'.to = branch'.meant
  <2>1. CASE Scope.kind = "loop"
    <3>1. Len(labels) = k + 2 /\ labels[k + 2] = Label(n, "loop")
      BY <1>3, <2>1 DEF FrameLaid, LoopLaid, BlockLaid, BranchLaid
    <3>2. Reached(0) = labels[Len(labels)]
      BY <1>3 DEF Reached
    <3>3. branch' = [to |-> Reached(0), meant |-> Label(n, "loop")]
      BY <2>1 DEF Close, n
    <3>4. QED
      BY <3>1, <3>2, <3>3
  <2>2. CASE Scope.kind # "loop"
    BY <2>2 DEF Close, IInv
  <2>3. QED
    BY <2>1, <2>2
<1>11. QED
  BY <1>7, <1>8, <1>9, <1>10 DEF IInv

(* The second body of a branch takes over the label of the first.          *)
LEMMA ElsIInv ==
  ASSUME IInv, Els
  PROVE  IInv'
<1> DEFINE n == Len(open)
           f == [kind |-> "else", name |-> Anonymous, binding |-> Scope.binding,
                 previous |-> Unbound]
           e == <<Label(n, "else")>>
<1>1. /\ open # <<>> /\ RestoreName /\ Scope.kind = "branch"
      /\ open' = Front(open) \o <<f>> /\ labels' = Front(labels) \o e
      /\ UNCHANGED <<controls, control_depth, statement_depth, local_names, branch>>
  BY DEF Els
<1>2. PICK pos : Laid(pos, open, labels)
  BY DEF IInv
<1>3. /\ n \in 1 .. n /\ Scope = open[n] /\ Scope \in Frames
      /\ pos[n - 1] \in Nat /\ pos[n - 1] < Len(labels)
      /\ FrameLaid(Scope, n, pos[n - 1], Len(labels), labels)
  BY <1>1, <1>2, TopLaid
<1>4. open \in Seq(Frames) /\ labels \in Seq(Labels)
  BY DEF IInv, Typed
<1>5. f \in Frames
  BY <1>3 DEF Frames, Bindings, Unbound, None
<1>6. e \in Seq(Labels) /\ Len(e) = 1 /\ e[1] = Label(n, "else")
  <2>1. Label(n, "else") \in Labels
    BY <1>3 DEF Label, Labels
  <2>2. QED
    BY <2>1
<1>7. Scope.binding = BranchBinding /\ Len(labels) = pos[n - 1] + 1
  BY <1>1, <1>3 DEF FrameLaid, LoopLaid, BlockLaid, BranchLaid
<1>8. /\ f.kind = "else" /\ f.name = Anonymous /\ f.binding = BranchBinding
  BY <1>7
<1>9. labels # <<>> /\ Len(labels) - 1 = pos[n - 1]
  BY <1>3, <1>4, <1>7
<1>10. /\ Front(open) \in Seq(Frames) /\ Len(Front(open)) = n - 1
       /\ Front(labels) \in Seq(Labels) /\ Len(Front(labels)) = pos[n - 1]
       /\ Front(labels) = SubSeq(labels, 1, pos[n - 1])
  BY <1>1, <1>4, <1>9, FrontFacts DEF Front
<1> HIDE DEF f, e
<1>11. Front(open) \o <<f>> = Append(Front(open), f)
  BY <1>5, <1>10
<1>12. PICK q : Laid(q, Front(open), Front(labels))
  BY <1>1, <1>2, <1>4, <1>10, PopLaid
<1>13. /\ Front(labels) \o e \in Seq(Labels)
       /\ Len(Front(labels) \o e) = pos[n - 1] + Len(e)
       /\ \A i \in 1 .. Len(e) : (Front(labels) \o e)[pos[n - 1] + i] = e[i]
  <2>1. e \in Seq(Labels) /\ Front(labels) \in Seq(Labels)
    BY <1>6, <1>10
  <2>2. Len(Front(labels)) = pos[n - 1]
    BY <1>10
  <2>3. /\ Front(labels) \o e \in Seq(Labels)
        /\ Len(Front(labels) \o e) = Len(Front(labels)) + Len(e)
        /\ \A i \in 1 .. Len(e) : (Front(labels) \o e)[Len(Front(labels)) + i] = e[i]
    BY <2>1, Concatenated
  <2>4. QED
    BY <2>2, <2>3
<1>14. FrameLaid(f, n, pos[n - 1], pos[n - 1] + 1, Front(labels) \o e)
  <2>1. (Front(labels) \o e)[pos[n - 1] + 1] = Label(n, "else")
    <3>1. 1 \in 1 .. Len(e) /\ e[1] = Label(n, "else")
      BY <1>6
    <3>2. QED
      BY <1>13, <3>1
  <2>2. QED
    BY <1>8, <2>1 DEF FrameLaid, BranchLaid, Label
<1>15. \E p : Laid(p, open', labels')
  <2>1. FrameLaid(f, Len(Front(open)) + 1, Len(Front(labels)),
                  Len(Front(labels)) + Len(e), Front(labels) \o e)
    BY <1>3, <1>6, <1>10, <1>14
  <2>2. \E p : Laid(p, Append(Front(open), f), Front(labels) \o e)
    BY <1>5, <1>6, <1>10, <1>12, <2>1, PushLaid
  <2>3. QED
    BY <1>1, <1>11, <2>2
<1>16. /\ bindings' \in [Names -> Bindings] /\ Hides(Front(open), local_names)
       /\ Means(bindings', Front(open), local_names)
  BY <1>1, RestoredMeans
<1>17. Pushed(Front(open), f, local_names)
  BY <1>5, <1>8, <1>10, <1>16, PushFrame
<1>18. Hides(open', local_names')
  BY <1>1, <1>11, <1>17 DEF Pushed
<1>19. Means(bindings', open', local_names')
  <2>1. ASSUME NEW nm \in Names
        PROVE  bindings'[nm] = Meaning(open', local_names', nm, Len(open'))
    <3>1. bindings'[nm] = Meaning(Front(open), local_names, nm, Len(Front(open)))
      BY <1>16 DEF Means
    <3>2. Meaning(open', local_names', nm, Len(open')) =
            IF f.name = nm THEN f.binding
            ELSE Meaning(Front(open), local_names, nm, Len(Front(open)))
      BY <1>1, <1>11, <1>17 DEF Pushed
    <3>3. f.name # nm
      BY <1>8, ScopeAssumption DEF Anonymous
    <3>4. QED
      BY <3>1, <3>2, <3>3
  <2>2. QED
    BY <2>1 DEF Means
<1>20. Typed'
  <2>1. Append(Front(open), f) \in Seq(Frames) /\ Len(Append(Front(open), f)) = n
    BY <1>3, <1>5, <1>10
  <2>2. /\ Front(labels) \o e \in Seq(Labels)
        /\ Len(Front(labels) \o e) = Len(labels)
    BY <1>6, <1>7, <1>13
  <2>3. QED
    BY <1>1, <1>11, <1>16, <2>1, <2>2 DEF IInv, Typed
<1>21. QED
  BY <1>1, <1>15, <1>18, <1>19, <1>20 DEF IInv

(* Where the targets of a name's binding lead: none, or into the labels of *)
(* the innermost scope that bears it.                                      *)
LEMMA TargetsLaid ==
  ASSUME IInv, NEW name \in Names
  PROVE  /\ bindings[name].break_target # None =>
              /\ Named(name) # {}
              /\ bindings[name].break_target \in 0 .. Len(labels) - 1
              /\ labels[bindings[name].break_target + 1] = Label(Innermost(name), "block")
         /\ bindings[name].continue_target # None =>
              /\ Named(name) # {}
              /\ bindings[name].continue_target \in 0 .. Len(labels) - 1
              /\ labels[bindings[name].continue_target + 1] = Label(Innermost(name), "loop")
<1> DEFINE b == bindings[name]
           n == Len(open)
<1>1. open \in Seq(Frames) /\ labels \in Seq(Labels) /\ n \in Nat /\ Len(labels) \in Nat
  BY DEF IInv, Typed
<1>2. b = Meaning(open, local_names, name, n) /\ HasInnermost(open, name, n)
  BY <1>1 DEF IInv, Means, Hides
<1>3. Below(open, name, n) = Named(name)
  BY <1>1 DEF Below, Named
<1> HIDE DEF b, n
<1>4. CASE Named(name) = {}
  <2>1. b = Variable \/ b = Unbound
    BY <1>2, <1>3, <1>4 DEF Meaning
  <2>2. b.break_target = None /\ b.continue_target = None
    BY <2>1 DEF Variable, Unbound
  <2>3. QED
    BY <2>2 DEF b
<1>5. CASE Named(name) # {}
  <2>1. PICK i \in Named(name) : \A j \in Named(name) : j <= i
    BY <1>2, <1>3, <1>5 DEF HasInnermost
  <2>2. Named(name) \subseteq Nat /\ i \in 1 .. Len(open)
    BY <1>1, <1>3 DEF Below, n
  <2>3. Innermost(name) = i
    BY <2>1, <2>2, MaxIs DEF Innermost
  <2>4. b = open[i].binding
    BY <1>2, <1>3, <1>5, <2>3 DEF Meaning, Innermost
  <2>5. PICK pos : Laid(pos, open, labels)
    BY DEF IInv
  <2>6. PICK from \in Nat, to \in Nat :
          from < to /\ to <= Len(labels) /\ FrameLaid(open[i], i, from, to, labels)
    BY <1>1, <2>2, <2>5, LaidFacts
  <2>7. CASE LoopLaid(open[i], i, from, to, labels)
    <3>1. /\ b.break_target = from /\ b.continue_target = from + 1
          /\ labels[from + 1] = Label(i, "block") /\ labels[from + 2] = Label(i, "loop")
          /\ to = from + 2
      BY <2>4, <2>7 DEF LoopLaid
    <3>2. QED
      BY <1>1, <1>5, <2>3, <2>6, <3>1 DEF b
  <2>8. CASE BlockLaid(open[i], i, from, to, labels)
    <3>1. /\ b.break_target = from /\ b.continue_target = None
          /\ labels[from + 1] = Label(i, "block") /\ to = from + 1
      BY <2>4, <2>8 DEF BlockLaid
    <3>2. QED
      BY <1>1, <1>5, <2>3, <2>6, <3>1 DEF b
  <2>9. CASE BranchLaid(open[i], i, from, to, labels)
    <3>1. b.break_target = None /\ b.continue_target = None
      BY <2>4, <2>9 DEF BranchLaid, BranchBinding
    <3>2. QED
      BY <3>1 DEF b
  <2>10. QED
    BY <2>6, <2>7, <2>8, <2>9 DEF FrameLaid
<1>6. QED
  BY <1>4, <1>5

(* A command whose target is a label of the scope that is meant.           *)
LEMMA CommandIInv ==
  ASSUME IInv, NEW name \in Names, NEW target, NEW is, Command(name, target, is),
         target # None =>
           /\ Named(name) # {} /\ target \in 0 .. Len(labels) - 1
           /\ labels[target + 1] = Label(Innermost(name), is)
  PROVE  IInv'
<1>1. /\ target # None
      /\ branch' = [to    |-> Reached(Distance(target)),
                    meant |-> IF Named(name) = {} THEN Function
                              ELSE Label(Innermost(name), is)]
      /\ UNCHANGED <<controls, control_depth, statement_depth, bindings, open,
                     local_names, labels>>
  BY DEF Command
<1>2. control_depth = Len(labels) /\ Len(labels) \in Nat
  BY DEF IInv, Typed
<1>3. Distance(target) \in 0 .. Len(labels) - 1 /\ Len(labels) - Distance(target) = target + 1
  BY <1>1, <1>2 DEF Distance
<1>4. Reached(Distance(target)) = labels[target + 1]
  BY <1>3 DEF Reached
<1>5. branch'.to = branch'.meant
  BY <1>1, <1>4
<1>6. QED
  BY <1>1, <1>5 DEF IInv, Typed

(* A br, wherever it stands. *)
LEMMA BrkContIInv ==
  ASSUME IInv, NEW name \in Names, Brk(name) \/ Cont(name)
  PROVE  IInv'
<1>1. CASE Brk(name)
  <2>1. PICK target : target = bindings[name].break_target
    OBVIOUS
  <2>2. Command(name, target, "block")
    BY <1>1, <2>1 DEF Brk
  <2>3. QED
    BY <2>1, <2>2, TargetsLaid, CommandIInv
<1>2. CASE Cont(name)
  <2>1. PICK target : target = bindings[name].continue_target
    OBVIOUS
  <2>2. Command(name, target, "loop")
    BY <1>2, <2>1 DEF Cont
  <2>3. QED
    BY <2>1, <2>2, TargetsLaid, CommandIInv
<1>3. QED
  BY <1>1, <1>2

(* A variable gets its local outside of every scope. *)
LEMMA AssignIInv ==
  ASSUME IInv, NEW name \in Names, Assign(name)
  PROVE  IInv'
<1>1. /\ bindings[name] = Unbound /\ statement_depth = 0
      /\ bindings' = [bindings EXCEPT ![name] = Variable]
      /\ local_names' = local_names \cup {name}
      /\ UNCHANGED <<controls, control_depth, statement_depth, open, labels, branch>>
  BY DEF Assign
<1>2. Len(open) = 0
  BY <1>1 DEF IInv, Typed
<1>3. Variable \in Bindings
  BY DEF Variable, Bindings, None
<1>4. bindings \in [Names -> Bindings] /\ bindings' \in [Names -> Bindings]
  BY <1>1, <1>3 DEF IInv, Typed
<1>5. Typed'
  BY <1>1, <1>4 DEF IInv, Typed
<1>6. Hides(open', local_names')
  BY <1>1, <1>2 DEF IInv, Hides
<1>7. ASSUME NEW nm \in Names, NEW ln
      PROVE  Meaning(open, ln, nm, Len(open)) = IF nm \in ln THEN Variable ELSE Unbound
  <2>1. Below(open, nm, Len(open)) = {}
    BY <1>2 DEF Below
  <2>2. QED
    BY <2>1 DEF Meaning
<1>8. Means(bindings', open', local_names')
  <2>1. ASSUME NEW nm \in Names
        PROVE  bindings'[nm] = Meaning(open', local_names', nm, Len(open'))
    <3>1. bindings[nm] = IF nm \in local_names THEN Variable ELSE Unbound
      BY <1>7 DEF IInv, Means
    <3>2. bindings'[nm] = IF nm = name THEN Variable ELSE bindings[nm]
      BY <1>1, <1>4
    <3>3. Meaning(open', local_names', nm, Len(open')) =
            IF nm \in local_names' THEN Variable ELSE Unbound
      BY <1>1, <1>7
    <3>4. nm \in local_names' <=> nm = name \/ nm \in local_names
      BY <1>1
    <3>5. QED
      BY <3>1, <3>2, <3>3, <3>4
  <2>2. QED
    BY <2>1 DEF Means
<1>9. QED
  BY <1>1, <1>5, <1>6, <1>8 DEF IInv

-----------------------------------------------------------------------------
(* The inductive invariant *)

LEMMA InitIInv == Init => IInv
<1> SUFFICES ASSUME Init PROVE IInv
  OBVIOUS
<1>1. Unbound \in Bindings
  BY DEF Unbound, Bindings, None
<1>2. /\ open = <<>> /\ labels = <<>> /\ controls = <<>> /\ local_names = {}
      /\ control_depth = 0 /\ statement_depth = 0 /\ bindings \in [Names -> {Unbound}]
      /\ branch.to = branch.meant
  BY DEF Init, NoBranch
<1>3. Typed
  BY <1>1, <1>2 DEF Typed
<1>4. \E pos : Laid(pos, open, labels)
  <2>1. Laid([i \in {0} |-> 0], <<>>, <<>>)
    BY DEF Laid
  <2>2. QED
    BY <1>2, <2>1
<1>5. ASSUME NEW name \in Names
      PROVE  Below(open, name, 0) = {} /\ Meaning(open, local_names, name, 0) = Unbound
  <2>1. Below(open, name, 0) = {}
    BY DEF Below
  <2>2. QED
    BY <1>2, <2>1 DEF Meaning
<1>6. Hides(open, local_names)
  BY <1>2, <1>5 DEF Hides, HasInnermost
<1>7. Means(bindings, open, local_names)
  BY <1>2, <1>5 DEF Means
<1>8. QED
  BY <1>2, <1>3, <1>4, <1>6, <1>7 DEF IInv

LEMMA StepIInv == IInv /\ [Next]_vars => IInv'
<1> SUFFICES ASSUME IInv, [Next]_vars PROVE IInv'
  OBVIOUS
<1>1. ASSUME NEW name \in Names \cup {Anonymous}, Branch(name) PROVE IInv'
  BY <1>1, BranchIInv
<1>2. ASSUME NEW name \in Names \cup {Anonymous}, Block(name) PROVE IInv'
  BY <1>2, BlockIInv
<1>3. ASSUME NEW name \in Names \cup {Anonymous}, Loop(name) PROVE IInv'
  BY <1>3, LoopIInv
<1>4. CASE Els
  BY <1>4, ElsIInv
<1>5. CASE Close
  BY <1>5, CloseIInv
<1>6. ASSUME NEW name \in Names, Brk(name) \/ Cont(name) PROVE IInv'
  BY <1>6, BrkContIInv
<1>7. ASSUME NEW name \in Names, Assign(name) PROVE IInv'
  BY <1>7, AssignIInv
<1>8. CASE UNCHANGED vars
  BY <1>8 DEF IInv, Typed, vars
<1>9. QED
  BY <1>1, <1>2, <1>3, <1>4, <1>5, <1>6, <1>7, <1>8 DEF Next

(* What the compiler knows of the open scopes, and what a name stands for, *)
(* agrees with the labels it has emitted (source.py, all of the control    *)
(* statements and commands).                                               *)
THEOREM Invariance == Spec => []IInv
BY InitIInv, StepIInv, PTL DEF Spec

(* The compiler's state has its types, and counts as many labels as it     *)
(* holds (controls and control_depth of SourceFunctionCompiler).           *)
THEOREM TypeCorrect == Spec => []TypeOK
<1>1. IInv => TypeOK
  BY DEF IInv, Typed, TypeOK, Bindings
<1>2. QED
  BY <1>1, Invariance, PTL

(* Every br that brk, cont or the end of a loop emits reaches the label of *)
(* the scope it was written for, whatever the nesting and the names.       *)
THEOREM CommandsReachTheirScope == Spec => []BranchesReachTheirScope
<1>1. IInv => BranchesReachTheirScope
  BY DEF IInv, BranchesReachTheirScope
<1>2. QED
  BY <1>1, Invariance, PTL

(* The compiler and the engine count the same labels, every open scope has *)
(* one, and none is left when no scope is open.                            *)
THEOREM LabelsAreCounted == Spec => []LabelsCounted
<1>1. IInv => LabelsCounted
  <2> SUFFICES ASSUME IInv PROVE LabelsCounted
    OBVIOUS
  <2>1. PICK pos : Laid(pos, open, labels)
    BY DEF IInv
  <2>2. open \in Seq(Frames) /\ labels \in Seq(Labels) /\ control_depth = Len(labels)
    BY DEF IInv, Typed
  <2>3. ASSUME NEW i \in DOMAIN open PROVE \E j \in DOMAIN labels : labels[j].scope = i
    <3>1. i \in 1 .. Len(open)
      BY <2>2
    <3>2. PICK from \in Nat, to \in Nat :
            from < to /\ to <= Len(labels) /\ FrameLaid(open[i], i, from, to, labels)
      BY <2>1, <2>2, <3>1, LaidFacts
    <3>3. labels[from + 1].scope = i
      BY <3>2 DEF FrameLaid, LoopLaid, BlockLaid, BranchLaid, Label
    <3>4. from + 1 \in DOMAIN labels
      <4>1. DOMAIN labels = 1 .. Len(labels) /\ Len(labels) \in Nat
        BY <2>2
      <4>2. QED
        BY <3>2, <4>1
    <3>5. QED
      BY <3>3, <3>4
  <2>4. ASSUME open = <<>> PROVE labels = <<>>
    BY <2>1, <2>2, <2>4 DEF Laid
  <2>5. QED
    BY <2>2, <2>3, <2>4 DEF LabelsCounted
<1>2. QED
  BY <1>1, Invariance, PTL

(* A name means the innermost open scope that bears it, and its variable   *)
(* outside of all of them: what is restored at the end of a scope is right *)
(* for every reuse of names.                                               *)
THEOREM NamesMeanTheirScope == Spec => []NamesAreLexical
<1>1. IInv => NamesAreLexical
  <2> SUFFICES ASSUME IInv, NEW name \in Names
               PROVE  bindings[name] =
                        IF Named(name) # {} THEN open[Innermost(name)].binding
                        ELSE IF name \in local_names THEN Variable ELSE Unbound
    BY DEF NamesAreLexical
  <2>1. Below(open, name, Len(open)) = Named(name)
    BY DEF IInv, Typed, Below, Named
  <2>2. bindings[name] = Meaning(open, local_names, name, Len(open))
    BY DEF IInv, Means
  <2>3. QED
    BY <2>1, <2>2 DEF Meaning, Innermost
<1>2. QED
  BY <1>1, Invariance, PTL
=============================================================================
