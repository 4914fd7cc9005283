----------------------------- MODULE MCMake4061 ----------------------------
(* Makefiles for Make4061. *)
EXTENDS Make4061, TLC, SequencesExt

a == "a"
b == "b"
c == "c"
d == "d"
s == "s"

(* Dependency lists: no name twice. *)
Lists(S) == UNION {SetToSeqs(T) : T \in SUBSET S}

(* Every makefile without cycles of three targets and one source. *)
AcyclicMakefiles ==
  {(a :> x @@ b :> y @@ c :> z)
     : x \in Lists({b, c, s}), y \in Lists({c, s}), z \in Lists({s})}

(* Makefiles in which targets depend on themselves, directly or through *)
(* one or two others, and some in which none does.                       *)
CyclicMakefiles ==
  {(a :> x @@ b :> y @@ c :> z)
     : x \in {<<b>>, <<b, c>>}, y \in {<<a>>, <<a, c>>, <<b>>, <<c, s>>},
       z \in {<<a>>, <<b>>, <<c>>, <<s>>}}

SomeMakefiles == AcyclicMakefiles \cup CyclicMakefiles

(* Commands that write their target and tidy up among the others' files,  *)
(* and commands that write their target only.                              *)
Untidy == a :> {a} @@ b :> {b, s} @@ c :> {b, c}
OwnOnly == [t \in Targets |-> {t}]

(* Two targets share a dependency, which is always rebuilt. *)
Diamond == {(a :> <<b, c>> @@ b :> <<d>> @@ c :> <<d>> @@ d :> <<>>)}
=============================================================================
