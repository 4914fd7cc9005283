---------------------------- MODULE HttpService ----------------------------
(***************************************************************************)
(* What the web server promises its clients, with neither threads, queue,  *)
(* cache nor descriptors: a client asks once, and what it receives is, bit *)
(* by bit, one reply to its own request: the file it named or an error.    *)
(* Nothing is sent to a client that has not asked or asked badly.          *)
(*                                                                         *)
(* WebServer implements this specification (see Refinement there).         *)
(***************************************************************************)
EXTENDS Sequences, SequencesExt

CONSTANTS
  Clients,   \* programs that connect
  Files,     \* paths that clients name in a good request
  BadLine,   \* a request get_request() refuses
  NoLine     \* the client has not sent anything

VARIABLES
  line,      \* line[c]: the request of c, or NoLine
  received   \* received[c]: the parts of a reply that reached c

Result(f) == <<"200", f>>
NotFound  == <<"404", "error">>

Replies(x) == IF x \in Files THEN {Result(x), NotFound} ELSE {}

Init ==
  /\ line = [c \in Clients |-> NoLine]
  /\ received = [c \in Clients |-> <<>>]

Ask(c) ==
  /\ line[c] = NoLine
  /\ \E x \in Files \cup {BadLine} : line' = [line EXCEPT ![c] = x]
  /\ UNCHANGED received

Answer(c) ==
  /\ \E r \in Replies(line[c]) : \E n \in DOMAIN r :
       /\ IsStrictPrefix(received[c], SubSeq(r, 1, n))
       /\ received' = [received EXCEPT ![c] = SubSeq(r, 1, n)]
  /\ UNCHANGED line

Next == \E c \in Clients : Ask(c) \/ Answer(c)

Spec == Init /\ [][Next]_<<line, received>>
=============================================================================
