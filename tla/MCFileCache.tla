---------------------------- MODULE MCFileCache ----------------------------
(* Contents, and symmetry of workers and files, for FileCache. *)
EXTENDS FileCache, TLC

(* Contents of different lengths and with no byte in common. *)
TwoContents == {<<1>>, <<2, 3>>}

Symmetry == Permutations(Workers) \cup Permutations(Files)
=============================================================================
