---------------------------- MODULE ControlScopes ----------------------------
(***************************************************************************)
(* How the source compiler (SourceFunctionCompiler of masic/wasm/source.py)*)
(* lowers the control scopes of one function.  `with loop() as a:' becomes *)
(* a WebAssembly block around a loop, `with block() as a:' a block, and    *)
(* `with branch(c) as a:' an if; `a.brk()' and `a.cont()' become br with   *)
(* the distance to a label, counted outwards from where the br stands.     *)
(*                                                                         *)
(* The compiler counts labels in its own stack, `controls', and finds the  *)
(* scope of a command through the name table it shares with the function's *)
(* variables.  `labels' is the stack a WebAssembly engine builds from the  *)
(* block, loop, if, else and end instructions emitted so far, each label   *)
(* with the scope it was emitted for; `open' is the compiler's own call    *)
(* stack, one frame for each body it is in the middle of.                  *)
(*                                                                         *)
(* A statement the compiler refuses ends the compilation, and is no step.  *)
(***************************************************************************)
EXTENDS Integers, Sequences, SequencesExt

CONSTANTS
  Names,     \* the names the function uses, for scopes and for variables
  MaxDepth   \* bound: scopes open at once

ASSUME ScopeAssumption == MaxDepth \in Nat /\ "anonymous" \notin Names

Anonymous == "anonymous"
None      == -1

Unbound  == [kind |-> "unbound", break_target |-> None, continue_target |-> None]
Variable == [kind |-> "variable", break_target |-> None, continue_target |-> None]

VARIABLES
  controls,         \* the binding of the scope each label belongs to
  control_depth,
  statement_depth,
  bindings,         \* what each name stands for
  open,             \* scopes being compiled: [kind, name, binding, previous]
  local_names,      \* the variables that have got a local
  labels,           \* the engine's labels: [scope, is]
  branch            \* the last br: the label it reaches, and the one meant

vars == <<controls, control_depth, statement_depth, bindings, open,
          local_names, labels, branch>>

Label(scope, is) == [scope |-> scope, is |-> is]
Function         == Label(0, "function")
NoBranch         == [to |-> Function, meant |-> Function]

Init ==
  /\ controls = <<>> /\ control_depth = 0 /\ statement_depth = 0
  /\ bindings \in [Names -> {Unbound}]
  /\ open = <<>> /\ local_names = {} /\ labels = <<>> /\ branch = NoBranch

(* The label a br with this distance reaches. *)
Reached(distance) ==
  IF distance \in 0 .. (Len(labels) - 1) THEN labels[Len(labels) - distance] ELSE Function

Bound(name) == IF name = Anonymous THEN Unbound ELSE bindings[name]

Bind(name, binding) ==
  bindings' = IF name = Anonymous THEN bindings ELSE [bindings EXCEPT ![name] = binding]

-----------------------------------------------------------------------------
(* Mutant: every scope counts one label. *)
DeepenedByOne(emitted) == control_depth + 1

Deepened(emitted) == control_depth + Len(emitted)

(* Entering a scope: its labels are emitted and counted, its name is bound.*)
EnterScope(name, binding, emitted) ==
  /\ Len(open) < MaxDepth
  /\ labels' = labels \o [i \in DOMAIN emitted |-> Label(Len(open) + 1, emitted[i])]
  /\ controls' = controls \o [i \in DOMAIN emitted |-> binding]
  /\ control_depth' = Deepened(emitted)
  /\ statement_depth' = statement_depth + 1
  /\ open' = Append(open, [kind |-> binding.kind, name |-> name,
                           binding |-> binding, previous |-> Bound(name)])
  /\ Bind(name, binding)
  /\ UNCHANGED <<local_names, branch>>

(* Mutant: the targets of a loop are swapped. *)
LoopBindingSwapped ==
  [kind |-> "loop", break_target |-> Len(controls) + 1, continue_target |-> Len(controls)]

BranchBinding == [kind |-> "branch", break_target |-> None, continue_target |-> None]
BlockBinding  == [kind |-> "block", break_target |-> Len(controls), continue_target |-> None]
LoopBinding   ==
  [kind |-> "loop", break_target |-> Len(controls), continue_target |-> Len(controls) + 1]

Branch(name) == EnterScope(name, BranchBinding, <<"if">>)
Block(name)  == EnterScope(name, BlockBinding, <<"block">>)
Loop(name)   == EnterScope(name, LoopBinding, <<"block", "loop">>)

Scope == Last(open)

(* Mutant: the name is forgotten when its scope ends. *)
UnbindName == Bind(Scope.name, Unbound)

(* The name means again what it meant before the scope.                    *)
RestoreName == Bind(Scope.name, Scope.previous)

(* `with a.els():' right after the body of `with branch(c) as a:'.  The    *)
(* second body binds no name.                                              *)
Els ==
  /\ open # <<>> /\ Scope.kind = "branch" /\ Scope.name # Anonymous
  /\ RestoreName
  /\ labels' = Front(labels) \o <<Label(Len(open), "else")>>
  /\ open' = Front(open) \o <<[kind |-> "else", name |-> Anonymous,
                               binding |-> Scope.binding, previous |-> Unbound]>>
  /\ UNCHANGED <<controls, control_depth, statement_depth, local_names, branch>>

(* Mutant: a loop gives back one label of its two. *)
WidthOne == 1

Width == IF Scope.kind = "loop" THEN 2 ELSE 1

(* The instructions that end its labels for the engine. *)
Ends == IF Scope.kind = "loop" THEN <<"end", "end">> ELSE <<"end">>

(* The end of a body, and of the scope; a loop first branches back.        *)
Close ==
  /\ open # <<>>
  /\ RestoreName
  /\ branch' = IF Scope.kind = "loop"
               THEN [to |-> Reached(0), meant |-> Label(Len(open), "loop")] ELSE branch
  /\ labels' = SubSeq(labels, 1, Len(labels) - Len(Ends))
  /\ controls' = SubSeq(controls, 1, Len(controls) - Width)
  /\ control_depth' = control_depth - Width
  /\ statement_depth' = statement_depth - 1
  /\ open' = Front(open)
  /\ UNCHANGED local_names

-----------------------------------------------------------------------------
(* The innermost open scope that bears the name, as Python's reader sees it*)
Named(name)     == {i \in DOMAIN open : open[i].name = name}
Innermost(name) == Max(Named(name))

Distance(target) == control_depth - 1 - target

Command(name, target, is) ==
  /\ target # None
  /\ branch' = [to    |-> Reached(Distance(target)),
                meant |-> IF Named(name) = {} THEN Function ELSE Label(Innermost(name), is)]
  /\ UNCHANGED <<controls, control_depth, statement_depth, bindings, open, local_names, labels>>

Brk(name)  == Command(name, bindings[name].break_target, "block")
Cont(name) == Command(name, bindings[name].continue_target, "loop")

(* The first assignment of a variable, which no control scope may hold.    *)
Assign(name) ==
  /\ bindings[name] = Unbound /\ statement_depth = 0
  /\ bindings' = [bindings EXCEPT ![name] = Variable]
  /\ local_names' = local_names \cup {name}
  /\ UNCHANGED <<controls, control_depth, statement_depth, open, labels, branch>>

-----------------------------------------------------------------------------
Next ==
  \/ \E name \in Names \cup {Anonymous} : Branch(name) \/ Block(name) \/ Loop(name)
  \/ Els
  \/ Close
  \/ \E name \in Names : Brk(name) \/ Cont(name) \/ Assign(name)

Spec == Init /\ [][Next]_vars

-----------------------------------------------------------------------------
TypeOK ==
  /\ control_depth \in Nat /\ statement_depth \in Nat
  /\ bindings \in [Names -> [kind : {"unbound", "variable", "branch", "block", "loop"},
                             break_target : Nat \cup {None}, continue_target : Nat \cup {None}]]
  /\ Len(controls) = control_depth

(* Every br reaches the scope it was written for: a.brk() the end of the   *)
(* scope called a, a.cont() and the end of a loop's body the loop's start, *)
(* through any nesting of scopes and any reuse of names.                   *)
BranchesReachTheirScope == branch.to = branch.meant

(* The compiler counts the labels the engine sees, and every scope that is *)
(* closed has given back its own: at the end of the function none is left. *)
LabelsCounted ==
  /\ control_depth = Len(labels)
  /\ \A i \in DOMAIN open : \E j \in DOMAIN labels : labels[j].scope = i
  /\ open = <<>> => labels = <<>>

(* A name means the innermost open scope that bears it, and outside of all *)
(* such scopes the variable it was before them.                            *)
NamesAreLexical ==
  \A name \in Names :
    bindings[name] = IF Named(name) # {} THEN open[Innermost(name)].binding
                     ELSE IF name \in local_names THEN Variable ELSE Unbound
=============================================================================
