----------------------------- MODULE WebServer -----------------------------
(***************************************************************************)
(* The web server around its queue and its cache: dispatchers accept       *)
(* connections and read a request line (accept_connection, get_request),   *)
(* workers answer (return_result, return_error), and clients connect, ask, *)
(* read, dawdle and leave as they like.                                    *)
(*                                                                         *)
(* The queue is the abstract one of module Fifo, which RequestQueue        *)
(* implements, and carries descriptors with paths.  Of the cache only the  *)
(* set of cached files and the mutex are kept (see FileCache).             *)
(*                                                                         *)
(* A dispatcher waits in accept() when it has neither a descriptor in hand *)
(* nor an item to queue.  A worker's place is pc[w]:                       *)
(*   idle           waits for an item                                      *)
(*   lookup         about to lock cacheMtx and look for the file           *)
(*   insert         has read the file, about to put it in the cache        *)
(*   header, body   in return_result() or return_error(): about to write   *)
(*   close          has written, or a write failed: about to close         *)
(***************************************************************************)
EXTENDS Integers, Sequences, FiniteSets

CONSTANTS
  Dispatchers, Workers, QueueSize,
  Clients,      \* programs that connect, once each
  Patient,      \* those that ask, read what they are sent and do not leave
  Chatty,       \* those that may send more than a request line
  Files, Big,   \* Big: files that do not fit into a socket's buffers
  MaxFD,        \* the highest descriptor number (RLIMIT_NOFILE)
  BadLine, NoLine, NoItem, NoConn, NoFD, NoThread

FDs == 1 .. MaxFD
Items == [fd : FDs, request : Files]

ASSUME WebAssumption ==
  /\ Patient \cup Chatty \subseteq Clients /\ Big \subseteq Files
  /\ BadLine \notin Files /\ NoLine \notin Files \cup {BadLine}
  /\ NoItem \notin Items /\ NoConn \notin Clients
  /\ NoFD \notin FDs /\ NoThread \notin Workers
  /\ QueueSize \in Nat \ {0} /\ MaxFD \in Nat

VARIABLES        \* the server's threads
  alive,         \* the process has not been killed
  hand,          \* hand[d]: the descriptor d reads from, or NoFD
  queue, offered, taken,   \* see Fifo
  pc,
  status,        \* status[w]: "200" in return_result(), "404" in return_error()
  cached,        \* the files in the cache
  cacheMtx       \* the worker that holds cacheMtx, or NoThread

VARIABLES        \* the kernel's side of the connections
  fds,           \* fds[n]: the client whose connection is n, or NoConn
  backlog,       \* clients that are connected and not yet accepted
  sock,          \* sock[c]: parts of the reply on their way to c
  unread,        \* c has sent more lines, which the server has not read
  closed         \* the server's close(): "no", "fin" in order, "rst" reset

VARIABLES        \* the clients
  peer,          \* peer[c]: "out" not yet connected; "here"; "gone" closed its
                 \* end; "reset" closed it with data unread; "broken" gone, and
                 \* the server's kernel has learned it by a failed delivery
  line,          \* line[c]: the request line that c sent
  received       \* received[c]: what c has read

queueVars  == <<queue, offered, taken>>
workerVars == <<pc, status, cached, cacheMtx>>
kernelVars == <<fds, backlog, sock, unread, closed>>
clientVars == <<peer, line, received>>
vars == <<alive, hand, queueVars, workerVars, kernelVars, clientVars>>

Q == INSTANCE Fifo WITH Producers <- Dispatchers, Consumers <- Workers,
                        Capacity <- QueueSize

Init ==
  /\ alive = TRUE
  /\ hand = [d \in Dispatchers |-> NoFD]
  /\ Q!Init
  /\ pc = [w \in Workers |-> "idle"]
  /\ status = [w \in Workers |-> "200"]
  /\ cached = {} /\ cacheMtx = NoThread
  /\ fds = [n \in FDs |-> NoConn]
  /\ backlog = <<>>
  /\ sock = [c \in Clients |-> <<>>]
  /\ unread = [c \in Clients |-> FALSE]
  /\ closed = [c \in Clients |-> "no"]
  /\ peer = [c \in Clients |-> "out"]
  /\ line = [c \in Clients |-> NoLine]
  /\ received = [c \in Clients |-> <<>>]

-----------------------------------------------------------------------------
(* Clients and the kernel. *)

Connect(c) ==
  /\ peer[c] = "out"
  /\ peer' = [peer EXCEPT ![c] = "here"]
  /\ backlog' = Append(backlog, c)
  /\ UNCHANGED <<alive, hand, queueVars, workerVars, fds, sock, unread, closed,
                 line, received>>

Ask(c) ==
  /\ peer[c] = "here" /\ line[c] = NoLine /\ closed[c] = "no"
  /\ \E x \in Files \cup {BadLine} : line' = [line EXCEPT ![c] = x]
  /\ UNCHANGED <<alive, hand, queueVars, workerVars, kernelVars, peer, received>>

(* A connection is closed in order, or reset when there is something left  *)
(* that the server has not read; what is on its way may then be lost.      *)
Closed(c, left) ==
  /\ closed' = [closed EXCEPT ![c] = IF left THEN "rst" ELSE "fin"]
  /\ sock' \in {sock} \cup (IF left THEN {[sock EXCEPT ![c] = <<>>]} ELSE {})

(* The request's further lines come late: get_request() reads only one.    *)
SendMore(c) ==
  /\ c \in Chatty /\ peer[c] = "here" /\ line[c] # NoLine /\ ~unread[c]
  /\ unread' = [unread EXCEPT ![c] = TRUE]
  /\ IF closed[c] = "no" THEN UNCHANGED <<closed, sock>> ELSE Closed(c, TRUE)
  /\ UNCHANGED <<alive, hand, queueVars, workerVars, fds, backlog, clientVars>>

Receive(c) ==
  /\ peer[c] = "here" /\ sock[c] # <<>>
  /\ received' = [received EXCEPT ![c] = @ \o sock[c]]
  /\ sock' = [sock EXCEPT ![c] = <<>>]
  /\ UNCHANGED <<alive, hand, queueVars, workerVars, fds, backlog, unread,
                 closed, peer, line>>

Leave(c) ==
  /\ peer[c] = "here" /\ c \notin Patient /\ closed[c] = "no"
  /\ peer' = [peer EXCEPT ![c] = IF sock[c] = <<>> THEN "gone" ELSE "reset"]
  /\ sock' = [sock EXCEPT ![c] = <<>>]
  /\ UNCHANGED <<alive, hand, queueVars, workerVars, fds, backlog, unread,
                 closed, line, received>>

(* close() of descriptor n, whose number is free from then on. *)
Close(n) ==
  /\ fds' = [fds EXCEPT ![n] = NoConn]
  /\ IF fds[n] = NoConn THEN UNCHANGED <<closed, sock>>
                        ELSE Closed(fds[n], unread[fds[n]])

-----------------------------------------------------------------------------
(* Dispatchers. *)

Free == {n \in FDs : fds[n] = NoConn}

(* accept_connection(): the oldest connection gets the lowest free number. *)
Accept(d) ==
  /\ hand[d] = NoFD /\ offered[d] = NoItem
  /\ backlog # <<>>
  /\ \E n \in Free :
       /\ \A m \in Free : n <= m
       /\ fds' = [fds EXCEPT ![n] = Head(backlog)]
       /\ hand' = [hand EXCEPT ![d] = n]
  /\ backlog' = Tail(backlog)
  /\ UNCHANGED <<alive, queueVars, workerVars, sock, unread, closed, clientVars>>

\* Seeded fault: get_request() closes its stream when all is well, too.
CloseStream(n) == Close(n)

(* On success get_request() leaves its stream, and so the connection, open. *)
KeepStream(n) == UNCHANGED <<fds, sock, closed>>

\* Seeded fault: any line is taken for a good request.
AnyLine(x) == x # NoLine

(* "GET", a path, and no ".." in it *)
Acceptable(x) == x \in Files

(* get_request() returns 0; all that has arrived is now in its stream.     *)
ReadLine(d) ==
  /\ hand[d] # NoFD
  /\ Acceptable(line[fds[hand[d]]])
  /\ Q!Offer(d, [fd |-> hand[d], request |-> line[fds[hand[d]]]])
  /\ unread' = [unread EXCEPT ![fds[hand[d]]] = FALSE]
  /\ KeepStream(hand[d])
  /\ hand' = [hand EXCEPT ![d] = NoFD]
  /\ UNCHANGED <<alive, workerVars, backlog, clientVars>>

(* get_request() fails: nothing but the end came, or a line it refuses.    *)
(* Its stream has taken in all that has arrived, so the end is in order.   *)
Refuse(d) ==
  /\ hand[d] # NoFD
  /\ LET c == fds[hand[d]] IN
       /\ line[c] = BadLine \/ (line[c] = NoLine /\ peer[c] # "here")
       /\ unread' = [unread EXCEPT ![c] = FALSE]
       /\ Closed(c, FALSE)
  /\ fds' = [fds EXCEPT ![hand[d]] = NoConn]
  /\ hand' = [hand EXCEPT ![d] = NoFD]
  /\ UNCHANGED <<alive, queueVars, workerVars, backlog, clientVars>>

Put(d) ==
  /\ Q!Put(d)
  /\ UNCHANGED <<alive, hand, workerVars, kernelVars, clientVars>>

-----------------------------------------------------------------------------
(* Workers. *)

Goto(w, label) == pc' = [pc EXCEPT ![w] = label]

Get(w) ==
  /\ Q!Get(w)
  /\ Goto(w, "lookup")
  /\ UNCHANGED <<alive, hand, status, cached, cacheMtx, kernelVars, clientVars>>

(* A hit keeps cacheMtx until the reply is sent.  After a miss stat() and  *)
(* readFromDisk() succeed, or one of them fails.                           *)
Lookup(w) ==
  /\ pc[w] = "lookup" /\ cacheMtx = NoThread
  /\ IF taken[w].request \in cached
     THEN Goto(w, "header") /\ cacheMtx' = w /\ UNCHANGED status
     ELSE /\ \/ Goto(w, "insert") /\ UNCHANGED status
             \/ Goto(w, "header") /\ status' = [status EXCEPT ![w] = "404"]
          /\ UNCHANGED cacheMtx
  /\ UNCHANGED <<alive, hand, queueVars, cached, kernelVars, clientVars>>

(* addIntoCache(), which may evict another file. *)
Insert(w) ==
  /\ pc[w] = "insert" /\ cacheMtx = NoThread
  /\ \E out \in {{}} \cup {{f} : f \in cached} :
       cached' = (cached \ out) \cup {taken[w].request}
  /\ Goto(w, "header")
  /\ UNCHANGED <<alive, hand, queueVars, status, cacheMtx, kernelVars, clientVars>>

(* write() of a part to w's descriptor, then on to label.  The first write *)
(* to a client that is gone goes well and is answered by its kernel; after *)
(* that answer a write raises SIGPIPE, which ends the process.  A reset    *)
(* that has arrived makes a write, or fdopen() on a closed number, fail.   *)
Write(w, part, label) ==
  LET c == fds[taken[w].fd] IN
  IF c = NoConn THEN Goto(w, "close") /\ UNCHANGED <<alive, sock, peer>> ELSE
  \/ /\ peer[c] = "here"
     /\ sock' = [sock EXCEPT ![c] = Append(@, part)]
     /\ Goto(w, label)
     /\ UNCHANGED <<alive, peer>>
  \/ /\ peer[c] = "gone"
     /\ peer' \in {peer, [peer EXCEPT ![c] = "broken"]}
     /\ Goto(w, label)
     /\ UNCHANGED <<alive, sock>>
  \/ /\ peer[c] = "reset"
     /\ Goto(w, label) \/ Goto(w, "close")
     /\ UNCHANGED <<alive, sock, peer>>
  \/ /\ peer[c] = "broken"
     /\ alive' = FALSE
     /\ UNCHANGED <<pc, sock, peer>>

\* Seeded fault: the connection is closed once the headers are out.
AfterHeaderClose == "close"

AfterHeader == "body"

(* fprintf() and fflush() of the headers. *)
Header(w) ==
  /\ pc[w] = "header"
  /\ Write(w, status[w], AfterHeader)
  /\ UNCHANGED <<hand, queueVars, status, cached, cacheMtx, fds, backlog, unread,
                 closed, line, received>>

Body(w) ==
  /\ pc[w] = "body"
  /\ Write(w, IF status[w] = "200" THEN taken[w].request ELSE "error", "close")
  /\ UNCHANGED <<hand, queueVars, status, cached, cacheMtx, fds, backlog, unread,
                 closed, line, received>>

(* write() has not returned: the file does not fit, and c does not read.   *)
Blocked(w) ==
  /\ pc[w] = "close" /\ status[w] = "200" /\ taken[w].request \in Big
  /\ LET c == fds[taken[w].fd] IN
       c # NoConn /\ peer[c] = "here" /\ sock[c] # <<>>

\* Seeded fault: a hit never releases cacheMtx.
NotReleased(w) == cacheMtx

Released(w) == IF cacheMtx = w THEN NoThread ELSE cacheMtx

(* fclose() or close(), after a hit the release of cacheMtx, and the log.  *)
EndReply(w) ==
  /\ pc[w] = "close" /\ ~Blocked(w)
  /\ Close(taken[w].fd)
  /\ cacheMtx' = Released(w)
  /\ Q!Finish(w)
  /\ Goto(w, "idle")
  /\ status' = [status EXCEPT ![w] = "200"]
  /\ UNCHANGED <<alive, hand, cached, backlog, unread, clientVars>>

-----------------------------------------------------------------------------
(* What clients do once the server is gone is of no interest. *)
Client(c) ==
  alive /\ (Connect(c) \/ Ask(c) \/ SendMore(c) \/ Receive(c) \/ Leave(c))

Dispatch(d) == alive /\ (Accept(d) \/ ReadLine(d) \/ Refuse(d) \/ Put(d))

Work(w) ==
  alive /\ (\/ Get(w) \/ Lookup(w) \/ Insert(w)
            \/ Header(w) \/ Body(w) \/ EndReply(w))

Next ==
  \/ \E c \in Clients : Client(c)
  \/ \E d \in Dispatchers : Dispatch(d)
  \/ \E w \in Workers : Work(w)

Spec == Init /\ [][Next]_vars

(***************************************************************************)
(* Scheduling.  Threads keep running; that the queue lets some dispatcher  *)
(* and some worker through is what RequestQueue guarantees (SomeoneStores, *)
(* EventuallyTaken).  As clients connect once each, a worker that waits    *)
(* for cacheMtx is not overtaken for ever, so weak fairness will do.       *)
(* Patient clients ask and read; of the others nothing is assumed.         *)
(***************************************************************************)
Fairness ==
  /\ \A d \in Dispatchers : WF_vars(alive /\ (Accept(d) \/ ReadLine(d) \/ Refuse(d)))
  /\ WF_vars(alive /\ \E d \in Dispatchers : Put(d))
  /\ WF_vars(alive /\ \E w \in Workers : Get(w))
  /\ \A w \in Workers :
       WF_vars(alive /\ (\/ Lookup(w) \/ Insert(w) \/ Header(w)
                         \/ Body(w) \/ EndReply(w)))
  /\ \A c \in Patient : WF_vars(alive /\ Ask(c)) /\ WF_vars(alive /\ Receive(c))

FairSpec == Spec /\ Fairness

-----------------------------------------------------------------------------
TypeOK ==
  /\ alive \in BOOLEAN
  /\ hand \in [Dispatchers -> FDs \cup {NoFD}]
  /\ queue \in Seq(Items) /\ Len(queue) <= QueueSize
  /\ offered \in [Dispatchers -> Items \cup {NoItem}]
  /\ taken \in [Workers -> Items \cup {NoItem}]
  /\ pc \in [Workers -> {"idle", "lookup", "insert", "header", "body",
                         "close"}]
  /\ status \in [Workers -> {"200", "404"}]
  /\ cached \in SUBSET Files
  /\ cacheMtx \in Workers \cup {NoThread}
  /\ fds \in [FDs -> Clients \cup {NoConn}]
  /\ backlog \in Seq(Clients)
  /\ sock \in [Clients -> Seq(Files \cup {"200", "404", "error"})]
  /\ unread \in [Clients -> BOOLEAN]
  /\ closed \in [Clients -> {"no", "fin", "rst"}]
  /\ peer \in [Clients -> {"out", "here", "gone", "reset", "broken"}]
  /\ line \in [Clients -> Files \cup {BadLine, NoLine}]
  /\ received \in [Clients -> Seq(Files \cup {"200", "404", "error"})]

(* Who is going to close descriptor n: a dispatcher that reads from it or  *)
(* is about to queue it, a place in the queue, a worker that answers.      *)
Holders(n) ==
  {<<"dispatcher", d>> : d \in {x \in Dispatchers :
     hand[x] = n \/ (offered[x] # NoItem /\ offered[x].fd = n)}}
  \cup {<<"queue", k>> : k \in {x \in DOMAIN queue : queue[x].fd = n}}
  \cup {<<"worker", w>> : w \in {x \in Workers : taken[x] # NoItem /\ taken[x].fd = n}}

(* Every open connection is in exactly one thread's hands or place in the  *)
(* queue, and no thread holds a number that is not open: none is leaked on *)
(* an error path, closed twice, or used after its number went to another   *)
(* client (util.c:174-219, 250-277, 296-322; server.c:238-248, 293).       *)
OneOwner ==
  \A n \in FDs :
    /\ fds[n] # NoConn <=> Holders(n) # {}
    /\ \A x, y \in Holders(n) : x = y

(* A client that is still there when its connection is closed in order has *)
(* been sent all of one reply, if get_request() accepted what it asked     *)
(* (util.c:258-276, 304-322).                                              *)
H == INSTANCE HttpService

NoHalfReply ==
  \A c \in Clients :
    peer[c] = "here" /\ closed[c] = "fin" /\ line[c] \in Files =>
      received[c] \o sock[c] \in H!Replies(line[c])

(* Clients receive replies to their own requests only, and one each.       *)
Refinement == H!Spec

(* The server can keep a patient client waiting for ever in three ways     *)
(* only: it is killed; all dispatchers are in fgets() with clients that    *)
(* say nothing (util.c:181); or all workers, or the one that holds         *)
(* cacheMtx, are in write() with clients that do not read (server.c:318).  *)
HeldUp ==
  \/ \A d \in Dispatchers :
       hand[d] # NoFD /\ line[fds[hand[d]]] = NoLine /\ peer[fds[hand[d]]] = "here"
  \/ \A w \in Workers : Blocked(w)
  \/ \E w \in Workers : Blocked(w) /\ cacheMtx = w

Served ==
  \A c \in Patient :
    peer[c] = "here" ~> closed[c] # "no" \/ ~alive \/ []HeldUp
=============================================================================
