--------------------------- MODULE MCModuleBuilder ---------------------------
(* Values for the constants of ModuleBuilder that a .cfg cannot write. *)
EXTENDS ModuleBuilder

Narrow == [params |-> <<"i8">>, result |-> "i8"]
Wide   == [params |-> <<"i32">>, result |-> "i32"]

OneSignature      == {Void}
SharedSignatures  == {Narrow, Wide}

(* One literal within the first page, one that reaches into the second.    *)
TwoLiterals == {[text |-> "a", size |-> 5], [text |-> "b", size |-> 10]}
=============================================================================
