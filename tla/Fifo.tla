-------------------------------- MODULE Fifo --------------------------------
(***************************************************************************)
(* What the web server's request queue promises its threads, with neither  *)
(* ring buffer nor locks: a bounded first-in first-out queue.  A producer  *)
(* hands over each item it offers exactly once, a consumer works on one    *)
(* item at a time, and items leave in the order in which they entered.     *)
(*                                                                         *)
(* RequestQueue implements this specification (see Refinement there).      *)
(***************************************************************************)
EXTENDS Naturals, Sequences

CONSTANTS
  Producers,   \* threads that add items
  Consumers,   \* threads that remove items
  Items,       \* what the queue carries
  Capacity,    \* how many items it holds at most
  NoItem       \* "nothing in hand"

VARIABLES
  queue,       \* the items inside, oldest first
  offered,     \* offered[p]: the item p is about to add, or NoItem
  taken        \* taken[c]: the item c is working on, or NoItem

vars == <<queue, offered, taken>>

Init ==
  /\ queue = <<>>
  /\ offered = [p \in Producers |-> NoItem]
  /\ taken = [c \in Consumers |-> NoItem]

Offer(p, x) ==
  /\ offered[p] = NoItem
  /\ offered' = [offered EXCEPT ![p] = x]
  /\ UNCHANGED <<queue, taken>>

Put(p) ==
  /\ offered[p] # NoItem
  /\ Len(queue) < Capacity
  /\ queue' = Append(queue, offered[p])
  /\ offered' = [offered EXCEPT ![p] = NoItem]
  /\ UNCHANGED taken

Get(c) ==
  /\ taken[c] = NoItem
  /\ queue # <<>>
  /\ taken' = [taken EXCEPT ![c] = Head(queue)]
  /\ queue' = Tail(queue)
  /\ UNCHANGED offered

Finish(c) ==
  /\ taken[c] # NoItem
  /\ taken' = [taken EXCEPT ![c] = NoItem]
  /\ UNCHANGED <<queue, offered>>

Next ==
  \/ \E p \in Producers : Put(p) \/ \E x \in Items : Offer(p, x)
  \/ \E c \in Consumers : Get(c) \/ Finish(c)

Spec == Init /\ [][Next]_vars
=============================================================================
