--------------------------- MODULE MCRequestQueue ---------------------------
(* Model values and symmetry for RequestQueue. *)
EXTENDS RequestQueue, TLC

(* Threads of one kind run the same code, and requests are opaque. *)
Symmetry ==
  Permutations(Dispatchers) \cup Permutations(Workers) \cup Permutations(Requests)
=============================================================================
