---------------------------- MODULE MCSourceLocals ----------------------------
(* Values for the constants of SourceLocals that a .cfg cannot write. *)
EXTENDS SourceLocals

OneParameter == <<"x">>
=============================================================================
