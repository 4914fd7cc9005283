------------------------------ MODULE ChatRoom ------------------------------
(***************************************************************************)
(* What the chat room promises about the lines that users type, with       *)
(* neither processes, pipes nor commands: there is one place that all      *)
(* lines pass, one user's after another's, and from which each goes to any *)
(* users but its author.  Lines may be lost on both sides of it, but are   *)
(* neither repeated nor do they overtake each other, and what a user has   *)
(* been shown stays as it is.                                              *)
(*                                                                         *)
(* Chat implements this specification (see Refinement there).              *)
(***************************************************************************)
EXTENDS Integers, Sequences

CONSTANTS
  Users,       \* those who type lines and are shown lines
  Kinds,       \* what a line may be
  Addressees   \* whom it may be for

VARIABLES
  typed,       \* how many lines have been typed; their numbers are 1 .. typed
  said,        \* said[k]: k's lines on their way to the one place
  pending,     \* pending[k]: lines on their way from there to k
  shown        \* shown[k]: lines that have arrived at k

vars == <<typed, said, pending, shown>>

Lines == [from : Users, n : Nat \ {0}, kind : Kinds, to : Addressees]

(* The first m elements of s, and the rest; t is what is left of s when    *)
(* some elements in a row are lost.                                        *)
First(s, m) == SubSeq(s, 1, m)
Rest(s, m)  == SubSeq(s, m + 1, Len(s))
Left(s, t)  == \E m \in 0 .. Len(s) : \E n \in m .. Len(s) : t = First(s, m) \o Rest(s, n)

Init ==
  /\ typed = 0
  /\ said = [k \in Users |-> <<>>]
  /\ pending = [k \in Users |-> <<>>]
  /\ shown = [k \in Users |-> <<>>]

(* k types a line, which may be lost at once. *)
Say(k) ==
  /\ typed' = typed + 1
  /\ \E kind \in Kinds, to \in Addressees :
       said' \in {said, [said EXCEPT ![k] = Append(@,
                           [from |-> k, n |-> typed + 1, kind |-> kind, to |-> to])]}
  /\ UNCHANGED <<pending, shown>>

(* The first of k's lines reach the users in K. *)
Deliver(k) ==
  \E m \in 0 .. Len(said[k]), K \in SUBSET (Users \ {k}) :
    /\ said' = [said EXCEPT ![k] = Rest(@, m)]
    /\ pending' = [l \in Users |->
                     IF l \in K THEN pending[l] \o First(said[k], m) ELSE pending[l]]
    /\ UNCHANGED <<typed, shown>>

Show(k) ==
  \E m \in 0 .. Len(pending[k]) :
    /\ shown' = [shown EXCEPT ![k] = @ \o First(pending[k], m)]
    /\ pending' = [pending EXCEPT ![k] = Rest(@, m)]
    /\ UNCHANGED <<typed, said>>

(* Processes end, or pipes are full. *)
Lose ==
  /\ UNCHANGED <<typed, shown>>
  /\ \A k \in Users : Left(said[k], said'[k]) /\ Left(pending[k], pending'[k])
  /\ said' = [k \in Users |-> said'[k]]
  /\ pending' = [k \in Users |-> pending'[k]]

Next == (\E k \in Users : Say(k) \/ Deliver(k) \/ Show(k)) \/ Lose

Spec == Init /\ [][Next]_vars

-----------------------------------------------------------------------------
(* The lines that k has been or is being sent, oldest first. *)
Heard(k) == shown[k] \o pending[k]

EachOnceInOrder ==
  \A k \in Users : LET h == Heard(k) IN
    \A p, q \in 1 .. Len(h) : p < q /\ h[p].from = h[q].from => h[p].n < h[q].n

SameOrderForAll ==
  \A k, l \in Users : LET h == Heard(k) g == Heard(l) IN
    \A p, q \in 1 .. Len(h), u, v \in 1 .. Len(g) :
      h[p] = g[u] /\ h[q] = g[v] => (p < q <=> u < v)
=============================================================================
