-------------------------- MODULE MCMakefileParser --------------------------
(* Makefiles for MakefileParser. *)
EXTENDS MakefileParser

(* Every sequence of up to six lines. *)
UpToSixLines == UNION {[1 .. n -> Kinds] : n \in 0 .. 6}
=============================================================================
