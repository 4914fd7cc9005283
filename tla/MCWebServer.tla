---------------------------- MODULE MCWebServer ----------------------------
(* Symmetry for WebServer: threads of one kind run the same code, and      *)
(* clients of one kind may do the same.                                    *)
EXTENDS WebServer, TLC

Symmetry ==
  Permutations(Dispatchers) \cup Permutations(Workers)
  \cup Permutations(Chatty \ Patient)
  \cup Permutations(Clients \ (Patient \cup Chatty))
=============================================================================
