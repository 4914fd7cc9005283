-------------------------- MODULE WebServerProofs --------------------------
(***************************************************************************)
(* Proofs about WebServer, for any threads, clients, files, descriptors    *)
(* and any length of the queue.                                            *)
(***************************************************************************)
EXTENDS WebServer, SequenceTheorems, TLAPS

(* The ways in which a thread or a place in the queue holds descriptor n.  *)
DHolds(d, n) == hand[d] = n \/ (offered[d] # NoItem /\ offered[d].fd = n)
QHolds(k, n) == queue[k].fd = n
WHolds(w, n) == taken[w] # NoItem /\ taken[w].fd = n

(* OneOwner without the set of holders. *)
Owned ==
  /\ \A n \in FDs :
       fds[n] # NoConn <=>
         \/ \E d \in Dispatchers : DHolds(d, n)
         \/ \E k \in DOMAIN queue : QHolds(k, n)
         \/ \E w \in Workers : WHolds(w, n)
  /\ \A n \in FDs, d, e \in Dispatchers : DHolds(d, n) /\ DHolds(e, n) => d = e
  /\ \A n \in FDs, k, l \in DOMAIN queue : QHolds(k, n) /\ QHolds(l, n) => k = l
  /\ \A n \in FDs, w, v \in Workers : WHolds(w, n) /\ WHolds(v, n) => w = v
  /\ \A n \in FDs, d \in Dispatchers, k \in DOMAIN queue :
       ~(DHolds(d, n) /\ QHolds(k, n))
  /\ \A n \in FDs, d \in Dispatchers, w \in Workers :
       ~(DHolds(d, n) /\ WHolds(w, n))
  /\ \A n \in FDs, k \in DOMAIN queue, w \in Workers :
       ~(QHolds(k, n) /\ WHolds(w, n))

(* A dispatcher that reads from a descriptor has nothing else in hand, and *)
(* a worker has an item just when it is not waiting for one.               *)
OneThing ==
  /\ \A d \in Dispatchers : hand[d] # NoFD => offered[d] = NoItem
  /\ \A w \in Workers : pc[w] = "idle" <=> taken[w] = NoItem

IInv == TypeOK /\ Owned /\ OneThing

USE WebAssumption

LEMMA OwnedIsOneOwner == Owned => OneOwner
<1> SUFFICES ASSUME Owned, NEW n \in FDs
             PROVE  /\ fds[n] # NoConn <=> Holders(n) # {}
                    /\ \A x, y \in Holders(n) : x = y
  BY DEF OneOwner
<1>1. \A x : x \in Holders(n) <=>
        \/ \E d \in Dispatchers : x = <<"dispatcher", d>> /\ DHolds(d, n)
        \/ \E k \in DOMAIN queue : x = <<"queue", k>> /\ QHolds(k, n)
        \/ \E w \in Workers : x = <<"worker", w>> /\ WHolds(w, n)
  BY Zenon DEF Holders, DHolds, QHolds, WHolds
<1>2. fds[n] # NoConn <=> Holders(n) # {}
  <2>1. ASSUME fds[n] # NoConn PROVE \E x : x \in Holders(n)
    BY <1>1, <2>1, Zenon DEF Owned
  <2>2. ASSUME NEW x \in Holders(n) PROVE fds[n] # NoConn
    BY <1>1, <2>2, Zenon DEF Owned
  <2>3. QED
    BY <2>1, <2>2
<1>3. ASSUME NEW x, NEW y, x \in Holders(n), y \in Holders(n) PROVE x = y
  <2>1. CASE \E d \in Dispatchers : x = <<"dispatcher", d>> /\ DHolds(d, n)
    <3>1. PICK d \in Dispatchers : x = <<"dispatcher", d>> /\ DHolds(d, n)
      BY <2>1
    <3>2. \E e \in Dispatchers : y = <<"dispatcher", e>> /\ DHolds(e, n)
      BY <1>1, <1>3, <3>1, Zenon DEF Owned
    <3>3. QED
      BY <3>1, <3>2, Zenon DEF Owned
  <2>2. CASE \E k \in DOMAIN queue : x = <<"queue", k>> /\ QHolds(k, n)
    <3>1. PICK k \in DOMAIN queue : x = <<"queue", k>> /\ QHolds(k, n)
      BY <2>2
    <3>2. \E l \in DOMAIN queue : y = <<"queue", l>> /\ QHolds(l, n)
      BY <1>1, <1>3, <3>1, Zenon DEF Owned
    <3>3. QED
      BY <3>1, <3>2, Zenon DEF Owned
  <2>3. CASE \E w \in Workers : x = <<"worker", w>> /\ WHolds(w, n)
    <3>1. PICK w \in Workers : x = <<"worker", w>> /\ WHolds(w, n)
      BY <2>3
    <3>2. \E v \in Workers : y = <<"worker", v>> /\ WHolds(v, n)
      BY <1>1, <1>3, <3>1, Zenon DEF Owned
    <3>3. QED
      BY <3>1, <3>2, Zenon DEF Owned
  <2>4. QED
    BY <1>1, <1>3, <2>1, <2>2, <2>3, Zenon
<1>4. QED
  BY <1>2, <1>3

LEMMA InitIInv == Init => IInv
<1> SUFFICES ASSUME Init PROVE IInv
  OBVIOUS
<1> USE DEF Init, Q!Init
<1>1. TypeOK
  BY DEF TypeOK
<1>2. Owned
  BY DEF Owned, DHolds, QHolds, WHolds, FDs
<1>3. OneThing
  BY DEF OneThing
<1>4. QED
  BY <1>1, <1>2, <1>3 DEF IInv

Labels == {"idle", "lookup", "insert", "header", "body", "close"}
Parts == Files \cup {"200", "404", "error"}

(* What close() does to a connection keeps its types. *)
LEMMA ClosedType ==
  ASSUME TypeOK, NEW c \in Clients, NEW left \in BOOLEAN, Closed(c, left)
  PROVE  closed' \in [Clients -> {"no", "fin", "rst"}] /\ sock' \in [Clients -> Seq(Parts)]
<1>1. closed' \in [Clients -> {"no", "fin", "rst"}]
  BY DEF TypeOK, Closed
<1>2. sock \in [Clients -> Seq(Parts)] /\ <<>> \in Seq(Parts)
  BY DEF TypeOK, Parts
<1>3. sock' = sock \/ sock' = [sock EXCEPT ![c] = <<>>]
  BY DEF Closed
<1>4. QED
  BY <1>1, <1>2, <1>3

LEMMA CloseType ==
  ASSUME TypeOK, NEW n \in FDs, Close(n)
  PROVE  /\ fds' \in [FDs -> Clients \cup {NoConn}]
         /\ closed' \in [Clients -> {"no", "fin", "rst"}]
         /\ sock' \in [Clients -> Seq(Parts)]
<1>1. fds' \in [FDs -> Clients \cup {NoConn}]
  BY DEF Close, TypeOK
<1>2. CASE fds[n] = NoConn
  BY <1>1, <1>2 DEF Close, TypeOK, Parts
<1>3. CASE fds[n] # NoConn
  <2>1. fds[n] \in Clients /\ unread[fds[n]] \in BOOLEAN
    BY <1>3 DEF TypeOK
  <2>2. Closed(fds[n], unread[fds[n]])
    BY <1>3 DEF Close
  <2>3. QED
    BY <1>1, <2>1, <2>2, ClosedType
<1>4. QED
  BY <1>2, <1>3

LEMMA WriteType ==
  ASSUME TypeOK, NEW w \in Workers, taken[w] \in Items,
         NEW part \in Parts, NEW label \in Labels, Write(w, part, label)
  PROVE  /\ alive' \in BOOLEAN /\ pc' \in [Workers -> Labels]
         /\ sock' \in [Clients -> Seq(Parts)]
         /\ peer' \in [Clients -> {"out", "here", "gone", "reset", "broken"}]
<1> DEFINE c == fds[taken[w].fd]
<1>1. c \in Clients \cup {NoConn}
  BY DEF TypeOK, Items
<1>2. /\ pc \in [Workers -> Labels] /\ sock \in [Clients -> Seq(Parts)]
      /\ alive \in BOOLEAN
      /\ peer \in [Clients -> {"out", "here", "gone", "reset", "broken"}]
  BY DEF TypeOK, Labels, Parts
<1>3. pc' \in [Workers -> Labels]
  <2>1. pc' = pc \/ pc' = [pc EXCEPT ![w] = label] \/ pc' = [pc EXCEPT ![w] = "close"]
    BY DEF Write, Goto
  <2>2. "close" \in Labels
    BY DEF Labels
  <2>3. QED
    BY <1>2, <2>1, <2>2
<1>4. sock' = sock \/ (c \in Clients /\ sock' = [sock EXCEPT ![c] = Append(@, part)])
  BY <1>1 DEF Write
<1>5. sock' \in [Clients -> Seq(Parts)]
  <2>1. ASSUME c \in Clients PROVE Append(sock[c], part) \in Seq(Parts)
    BY <1>2, <2>1
  <2>2. QED
    BY <1>2, <1>4, <2>1
<1>6. peer' \in [Clients -> {"out", "here", "gone", "reset", "broken"}]
  <2>1. peer' = peer \/ peer' = [peer EXCEPT ![c] = "broken"]
    BY DEF Write
  <2>2. QED
    BY <1>2, <2>1
<1>7. alive' \in BOOLEAN
  BY <1>2 DEF Write
<1>8. QED
  BY <1>3, <1>5, <1>6, <1>7

(* Types are kept by what clients do. *)
LEMMA ClientType ==
  ASSUME TypeOK, NEW c \in Clients, Client(c)
  PROVE  TypeOK'
<1> USE DEF TypeOK, queueVars, workerVars, kernelVars, clientVars
<1>1. CASE Connect(c)
  BY <1>1 DEF Connect
<1>2. CASE Ask(c)
  BY <1>2 DEF Ask
<1>3. CASE SendMore(c)
  <2>1. unread' \in [Clients -> BOOLEAN]
    BY <1>3 DEF SendMore
  <2>2. closed' \in [Clients -> {"no", "fin", "rst"}] /\ sock' \in [Clients -> Seq(Parts)]
    <3>1. CASE UNCHANGED <<closed, sock>>
      BY <3>1 DEF Parts
    <3>2. CASE Closed(c, TRUE)
      BY <3>2, ClosedType
    <3>3. QED
      BY <1>3, <3>1, <3>2 DEF SendMore
  <2>3. QED
    BY <1>3, <2>1, <2>2 DEF SendMore, Parts
<1>4. CASE Receive(c)
  <2>1. received[c] \o sock[c] \in Seq(Parts)
    BY DEF Parts
  <2>2. received' \in [Clients -> Seq(Parts)]
    BY <1>4, <2>1 DEF Receive, Parts
  <2>3. sock' \in [Clients -> Seq(Parts)]
    BY <1>4 DEF Receive, Parts
  <2>4. QED
    BY <1>4, <2>2, <2>3 DEF Receive, Parts
<1>5. CASE Leave(c)
  <2>1. sock' \in [Clients -> Seq(Parts)]
    BY <1>5 DEF Leave, Parts
  <2>2. peer' \in [Clients -> {"out", "here", "gone", "reset", "broken"}]
    BY <1>5 DEF Leave
  <2>3. QED
    BY <1>5, <2>1, <2>2 DEF Leave, Parts
<1>6. QED
  BY <1>1, <1>2, <1>3, <1>4, <1>5 DEF Client

(* ... by dispatchers ... *)
LEMMA DispatchType ==
  ASSUME IInv, NEW d \in Dispatchers, Dispatch(d)
  PROVE  TypeOK'
<1> USE DEF queueVars, workerVars, kernelVars, clientVars
<1>0. TypeOK
  BY DEF IInv
<1>1. CASE Accept(d)
  <2>1. PICK n \in Free : /\ fds' = [fds EXCEPT ![n] = Head(backlog)]
                          /\ hand' = [hand EXCEPT ![d] = n]
    BY <1>1 DEF Accept
  <2>2. Head(backlog) \in Clients /\ Tail(backlog) \in Seq(Clients)
    BY <1>0, <1>1 DEF Accept, TypeOK
  <2>3. n \in FDs
    BY DEF Free
  <2>4. QED
    BY <1>0, <1>1, <2>1, <2>2, <2>3 DEF Accept, TypeOK
<1>2. CASE ReadLine(d)
  <2>1. hand[d] \in FDs
    BY <1>0, <1>2 DEF ReadLine, TypeOK
  <2>2. [fd |-> hand[d], request |-> line[fds[hand[d]]]] \in Items
    BY <1>2, <2>1 DEF ReadLine, Acceptable, Items
  <2>3. offered' \in [Dispatchers -> Items \cup {NoItem}]
    BY <1>0, <1>2, <2>2 DEF ReadLine, Q!Offer, TypeOK
  <2>4. hand' \in [Dispatchers -> FDs \cup {NoFD}] /\ unread' \in [Clients -> BOOLEAN]
    BY <1>0, <1>2 DEF ReadLine, TypeOK
  <2>5. QED
    BY <1>0, <1>2, <2>3, <2>4 DEF ReadLine, Q!Offer, KeepStream, TypeOK
<1>3. CASE Refuse(d)
  <2>1. sock' = sock /\ closed' \in [Clients -> {"no", "fin", "rst"}]
    BY <1>0, <1>3 DEF Refuse, Closed, TypeOK
  <2>2. /\ hand' \in [Dispatchers -> FDs \cup {NoFD}] /\ unread' \in [Clients -> BOOLEAN]
        /\ fds' \in [FDs -> Clients \cup {NoConn}]
    BY <1>0, <1>3 DEF Refuse, TypeOK
  <2>3. QED
    BY <1>0, <1>3, <2>1, <2>2 DEF Refuse, TypeOK, Parts
<1>4. CASE Put(d)
  <2>1. Append(queue, offered[d]) \in Seq(Items) /\ Len(Append(queue, offered[d])) <= QueueSize
    BY <1>0, <1>4 DEF Put, Q!Put, TypeOK
  <2>2. QED
    BY <1>0, <1>4, <2>1 DEF Put, Q!Put, TypeOK
<1>5. QED
  BY <1>1, <1>2, <1>3, <1>4 DEF Dispatch

(* ... and by workers. *)
LEMMA WorkType ==
  ASSUME IInv, NEW w \in Workers, Work(w)
  PROVE  TypeOK'
<1> USE DEF queueVars, workerVars, kernelVars, clientVars
<1>0. TypeOK
  BY DEF IInv
<1>1. ASSUME pc[w] # "idle" PROVE taken[w] \in Items
  BY <1>0, <1>1 DEF IInv, OneThing, TypeOK
<1>2. CASE Get(w)
  <2>1. /\ Head(queue) \in Items /\ Tail(queue) \in Seq(Items)
        /\ Len(Tail(queue)) <= QueueSize
    BY <1>0, <1>2 DEF Get, Q!Get, TypeOK
  <2>2. QED
    BY <1>0, <1>2, <2>1 DEF Get, Q!Get, Goto, TypeOK
<1>3. CASE Lookup(w)
  BY <1>0, <1>3 DEF Lookup, Goto, TypeOK
<1>4. CASE Insert(w)
  <2>1. taken[w].request \in Files
    BY <1>1, <1>4 DEF Insert, Items
  <2>2. cached' \in SUBSET Files
    BY <1>0, <1>4, <2>1 DEF Insert, TypeOK
  <2>3. QED
    BY <1>0, <1>4, <2>2 DEF Insert, Goto, TypeOK
<1>5. CASE Header(w)
  <2>1. status[w] \in Parts
    BY <1>0 DEF TypeOK, Parts
  <2>2. AfterHeader \in Labels
    BY DEF AfterHeader, Labels
  <2>3. Write(w, status[w], AfterHeader) /\ taken[w] \in Items
    BY <1>1, <1>5 DEF Header
  <2>4. QED
    BY <1>0, <1>5, <2>1, <2>2, <2>3, WriteType DEF Header, TypeOK, Parts, Labels
<1>6. CASE Body(w)
  <2> DEFINE part == IF status[w] = "200" THEN taken[w].request ELSE "error"
  <2>1. taken[w] \in Items
    BY <1>1, <1>6 DEF Body
  <2>2. part \in Parts /\ "close" \in Labels
    BY <2>1 DEF Items, Parts, Labels
  <2>3. Write(w, part, "close")
    BY <1>6 DEF Body
  <2>4. QED
    BY <1>0, <1>6, <2>1, <2>2, <2>3, WriteType DEF Body, TypeOK, Parts, Labels
<1>7. CASE EndReply(w)
  <2>1. taken[w].fd \in FDs
    BY <1>1, <1>7 DEF EndReply, Items
  <2>2. Close(taken[w].fd)
    BY <1>7 DEF EndReply
  <2>3. cacheMtx' \in Workers \cup {NoThread}
    BY <1>0, <1>7 DEF EndReply, Released, TypeOK
  <2>4. taken' \in [Workers -> Items \cup {NoItem}] /\ UNCHANGED <<queue, offered>>
    BY <1>0, <1>7 DEF EndReply, Q!Finish, TypeOK
  <2>5. QED
    BY <1>0, <1>7, <2>1, <2>2, <2>3, <2>4, CloseType DEF EndReply, Goto, TypeOK, Parts
<1>8. QED
  BY <1>2, <1>3, <1>4, <1>5, <1>6, <1>7 DEF Work

LEMMA TypeStep == IInv /\ [Next]_vars => TypeOK'
<1> SUFFICES ASSUME IInv, [Next]_vars PROVE TypeOK'
  OBVIOUS
<1>1. CASE UNCHANGED vars
  BY <1>1 DEF IInv, TypeOK, vars, queueVars, workerVars, kernelVars, clientVars
<1>2. QED
  BY <1>1, ClientType, DispatchType, WorkType DEF Next, IInv

LEMMA OneThingStep == IInv /\ [Next]_vars => OneThing'
<1> SUFFICES ASSUME IInv, [Next]_vars PROVE OneThing'
  OBVIOUS
<1> USE DEF queueVars, workerVars, kernelVars, clientVars
<1>0. TypeOK /\ OneThing
  BY DEF IInv
<1>1. CASE UNCHANGED vars
  BY <1>0, <1>1 DEF OneThing, vars
<1>2. ASSUME NEW c \in Clients, Client(c) PROVE OneThing'
  <2>1. UNCHANGED <<hand, offered, taken, pc>>
    BY <1>2 DEF Client, Connect, Ask, SendMore, Receive, Leave
  <2>2. QED
    BY <1>0, <2>1 DEF OneThing
<1>3. ASSUME NEW d \in Dispatchers, Dispatch(d) PROVE OneThing'
  <2>1. UNCHANGED <<pc, taken>>
    BY <1>3 DEF Dispatch, Accept, ReadLine, Refuse, Put, Q!Offer, Q!Put
  <2>2. CASE Accept(d)
    BY <1>0, <2>1, <2>2 DEF Accept, OneThing, TypeOK
  <2>3. CASE ReadLine(d)
    BY <1>0, <2>1, <2>3 DEF ReadLine, Q!Offer, OneThing, TypeOK
  <2>4. CASE Refuse(d)
    BY <1>0, <2>1, <2>4 DEF Refuse, OneThing, TypeOK
  <2>5. CASE Put(d)
    BY <1>0, <2>1, <2>5 DEF Put, Q!Put, OneThing, TypeOK
  <2>6. QED
    BY <1>3, <2>2, <2>3, <2>4, <2>5 DEF Dispatch
<1>4. ASSUME NEW w \in Workers, Work(w) PROVE OneThing'
  <2>1. UNCHANGED <<hand, offered>>
    BY <1>4 DEF Work, Get, Lookup, Insert, Header, Body, EndReply, Q!Get, Q!Finish
  <2>2. CASE Get(w)
    <3>1. Head(queue) \in Items
      BY <1>0, <2>2 DEF Get, Q!Get, TypeOK
    <3>2. QED
      BY <1>0, <2>1, <2>2, <3>1 DEF Get, Q!Get, Goto, OneThing, TypeOK
  <2>3. CASE Lookup(w) \/ Insert(w)
    BY <1>0, <2>1, <2>3 DEF Lookup, Insert, Goto, OneThing, TypeOK
  <2>4. CASE Header(w) \/ Body(w)
    <3>1. /\ taken' = taken /\ pc[w] # "idle"
          /\ pc' = pc \/ \E l \in {"body", "close"} : pc' = [pc EXCEPT ![w] = l]
      BY <2>4 DEF Header, Body, AfterHeader, Write, Goto
    <3>2. QED
      BY <1>0, <2>1, <3>1 DEF OneThing, TypeOK
  <2>5. CASE EndReply(w)
    BY <1>0, <2>1, <2>5 DEF EndReply, Q!Finish, Goto, OneThing, TypeOK
  <2>6. QED
    BY <1>4, <2>2, <2>3, <2>4, <2>5 DEF Work
<1>5. QED
  BY <1>1, <1>2, <1>3, <1>4 DEF Next

(* A connection is accepted: a number that nobody holds gets its owner.    *)
LEMMA AcceptOwned ==
  ASSUME IInv, NEW d \in Dispatchers, Accept(d)
  PROVE  Owned'
<1>0. TypeOK /\ Owned
  BY DEF IInv
<1>1. PICK n \in Free : /\ fds' = [fds EXCEPT ![n] = Head(backlog)]
                        /\ hand' = [hand EXCEPT ![d] = n]
  BY DEF Accept
<1>2. n \in FDs /\ fds[n] = NoConn /\ Head(backlog) # NoConn
  BY <1>0 DEF Free, Accept, TypeOK
<1>3. hand[d] = NoFD /\ offered[d] = NoItem /\ UNCHANGED <<queue, offered, taken>>
  BY DEF Accept, queueVars
<1>4. \A m \in FDs : fds'[m] # NoConn <=> m = n \/ fds[m] # NoConn
  BY <1>0, <1>1, <1>2 DEF TypeOK
<1>5. \A e \in Dispatchers, m \in FDs :
        DHolds(e, m)' <=> (e = d /\ m = n) \/ DHolds(e, m)
  BY <1>0, <1>1, <1>2, <1>3 DEF DHolds, TypeOK
<1>6. /\ \A k \in DOMAIN queue, m \in FDs : QHolds(k, m)' <=> QHolds(k, m)
      /\ \A w \in Workers, m \in FDs : WHolds(w, m)' <=> WHolds(w, m)
      /\ DOMAIN queue' = DOMAIN queue
  BY <1>3 DEF QHolds, WHolds
<1>7. QED
  BY <1>0, <1>2, <1>4, <1>5, <1>6 DEF Owned

(* A request is offered: the number stays with the dispatcher.             *)
LEMMA ReadLineOwned ==
  ASSUME IInv, NEW d \in Dispatchers, ReadLine(d)
  PROVE  Owned'
<1>0. TypeOK /\ Owned /\ OneThing
  BY DEF IInv
<1>1. /\ hand[d] # NoFD /\ offered[d] = NoItem
      /\ hand' = [hand EXCEPT ![d] = NoFD]
      /\ UNCHANGED <<queue, taken, fds>>
  BY DEF ReadLine, Q!Offer, KeepStream
<1>2. PICK x : x = [fd |-> hand[d], request |-> line[fds[hand[d]]]]
  OBVIOUS
<1>3. x \in Items /\ x.fd = hand[d] /\ offered' = [offered EXCEPT ![d] = x]
  BY <1>0, <1>1, <1>2 DEF ReadLine, Q!Offer, Acceptable, Items, TypeOK
<1>4. \A e \in Dispatchers, m \in FDs : DHolds(e, m)' <=> DHolds(e, m)
  BY <1>0, <1>1, <1>3 DEF DHolds, TypeOK
<1>5. /\ \A k \in DOMAIN queue, m \in FDs : QHolds(k, m)' <=> QHolds(k, m)
      /\ \A w \in Workers, m \in FDs : WHolds(w, m)' <=> WHolds(w, m)
      /\ DOMAIN queue' = DOMAIN queue /\ fds' = fds
  BY <1>1 DEF QHolds, WHolds
<1>6. QED
  BY <1>0, <1>4, <1>5, Zenon DEF Owned

(* A connection is closed: its number was the dispatcher's alone.          *)
LEMMA RefuseOwned ==
  ASSUME IInv, NEW d \in Dispatchers, Refuse(d)
  PROVE  Owned'
<1>0. TypeOK /\ Owned /\ OneThing
  BY DEF IInv
<1>a. PICK n : n = hand[d]
  OBVIOUS
<1>1. /\ n \in FDs /\ offered[d] = NoItem
      /\ hand' = [hand EXCEPT ![d] = NoFD]
      /\ UNCHANGED <<queue, offered, taken>>
      /\ fds' = [fds EXCEPT ![n] = NoConn]
  BY <1>0, <1>a DEF Refuse, Close, OneThing, TypeOK, queueVars
<1>2. DHolds(d, n)
  BY <1>a DEF DHolds
<1>3. \A m \in FDs : fds'[m] # NoConn <=> m # n /\ fds[m] # NoConn
  BY <1>0, <1>1 DEF TypeOK
<1>4. \A e \in Dispatchers, m \in FDs : DHolds(e, m)' <=> e # d /\ DHolds(e, m)
  BY <1>0, <1>1, <1>a DEF DHolds, TypeOK
<1>5. \A m \in FDs : DHolds(d, m) <=> m = n
  BY <1>1, <1>a DEF DHolds
<1>6. /\ \A k \in DOMAIN queue, m \in FDs : QHolds(k, m)' <=> QHolds(k, m)
      /\ \A w \in Workers, m \in FDs : WHolds(w, m)' <=> WHolds(w, m)
      /\ DOMAIN queue' = DOMAIN queue
  BY <1>1 DEF QHolds, WHolds
<1>7. QED
  BY <1>0, <1>1, <1>3, <1>4, <1>5, <1>6 DEF Owned

(* The dispatcher's number moves to the new last place of the queue.       *)
LEMMA PutOwned ==
  ASSUME IInv, NEW d \in Dispatchers, Put(d)
  PROVE  Owned'
<1>0. TypeOK /\ Owned /\ OneThing
  BY DEF IInv
<1>a. PICK l, n : l = Len(queue) + 1 /\ n = offered[d].fd
  OBVIOUS
<1>1. /\ offered[d] \in Items /\ hand[d] = NoFD
      /\ offered' = [offered EXCEPT ![d] = NoItem]
      /\ queue' = Append(queue, offered[d])
      /\ UNCHANGED <<hand, taken, fds>>
  BY <1>0 DEF Put, Q!Put, OneThing, TypeOK, kernelVars
<1>2. n \in FDs
  BY <1>1, <1>a DEF Items
<1>3. /\ DOMAIN queue' = DOMAIN queue \cup {l} /\ l \notin DOMAIN queue
      /\ queue'[l] = offered[d] /\ \A k \in DOMAIN queue : queue'[k] = queue[k]
  BY <1>0, <1>1, <1>a DEF TypeOK
<1>4. \A e \in Dispatchers, m \in FDs : DHolds(e, m)' <=> e # d /\ DHolds(e, m)
  BY <1>0, <1>1 DEF DHolds, TypeOK
<1>5. \A m \in FDs : DHolds(d, m) <=> m = n
  BY <1>0, <1>1, <1>a DEF DHolds, TypeOK
<1>6. /\ \A k \in DOMAIN queue, m \in FDs : QHolds(k, m)' <=> QHolds(k, m)
      /\ \A m \in FDs : QHolds(l, m)' <=> m = n
  BY <1>3, <1>a DEF QHolds
<1>7. /\ \A w \in Workers, m \in FDs : WHolds(w, m)' <=> WHolds(w, m)
      /\ fds' = fds
  BY <1>1 DEF WHolds
<1>8. QED
  BY <1>0, <1>2, <1>3, <1>4, <1>5, <1>6, <1>7 DEF Owned

(* The number in the first place moves to the worker, the others one up.   *)
LEMMA GetOwned ==
  ASSUME IInv, NEW w \in Workers, Get(w)
  PROVE  Owned'
<1>0. TypeOK /\ Owned
  BY DEF IInv
<1>1. /\ taken[w] = NoItem /\ queue # <<>>
      /\ taken' = [taken EXCEPT ![w] = Head(queue)]
      /\ queue' = Tail(queue)
      /\ UNCHANGED <<hand, offered, fds>>
  BY DEF Get, Q!Get, kernelVars
<1>2. PICK n : n = queue[1].fd
  OBVIOUS
<1>3. /\ Head(queue) = queue[1] /\ queue[1] \in Items /\ 1 \in DOMAIN queue
      /\ n \in FDs
  <2>1. queue \in Seq(Items) /\ Len(queue) > 0
    BY <1>0, <1>1 DEF TypeOK
  <2>2. Head(queue) = queue[1] /\ queue[1] \in Items /\ 1 \in DOMAIN queue
    BY <2>1
  <2>3. QED
    BY <1>2, <2>2 DEF Items
<1>4. /\ \A k \in DOMAIN queue' : k + 1 \in DOMAIN queue /\ queue'[k] = queue[k + 1]
      /\ \A k \in DOMAIN queue : k # 1 => k - 1 \in DOMAIN queue'
      /\ DOMAIN queue \subseteq Int /\ DOMAIN queue' \subseteq Nat \ {0}
  <2>1. /\ DOMAIN queue = 1 .. Len(queue) /\ Len(queue) \in Nat \ {0}
        /\ DOMAIN queue' = 1 .. Len(queue) - 1
        /\ \A k \in 1 .. Len(queue) - 1 : queue'[k] = queue[k + 1]
    BY <1>0, <1>1 DEF TypeOK
  <2>2. QED
    BY <2>1
<1>5. /\ \A k \in DOMAIN queue', m \in FDs : QHolds(k, m)' <=> QHolds(k + 1, m)
      /\ \A m \in FDs : QHolds(1, m) <=> m = n
  BY <1>2, <1>4 DEF QHolds
<1>6. \A v \in Workers, m \in FDs : WHolds(v, m)' <=> (v = w /\ m = n) \/ WHolds(v, m)
  BY <1>0, <1>1, <1>2, <1>3 DEF WHolds, TypeOK
<1>7. /\ \A d \in Dispatchers, m \in FDs : DHolds(d, m)' <=> DHolds(d, m)
      /\ fds' = fds
  BY <1>1 DEF DHolds
<1>8. \A m \in FDs :
        (\E k \in DOMAIN queue' : QHolds(k, m)') <=>
          \E k \in DOMAIN queue : k # 1 /\ QHolds(k, m)
  <2>1. ASSUME NEW m \in FDs, NEW k \in DOMAIN queue', QHolds(k, m)'
        PROVE  \E j \in DOMAIN queue : j # 1 /\ QHolds(j, m)
    <3>1. k + 1 \in DOMAIN queue /\ k + 1 # 1
      BY <1>4, <2>1
    <3>2. QED
      BY <1>5, <2>1, <3>1
  <2>2. ASSUME NEW m \in FDs, NEW k \in DOMAIN queue, k # 1, QHolds(k, m)
        PROVE  \E j \in DOMAIN queue' : QHolds(j, m)'
    <3>1. k - 1 \in DOMAIN queue' /\ (k - 1) + 1 = k
      BY <1>4, <2>2
    <3>2. QED
      BY <1>5, <2>2, <3>1
  <2>3. QED
    BY <2>1, <2>2
<1>9. \A m \in FDs :
        fds'[m] # NoConn <=>
          \/ \E d \in Dispatchers : DHolds(d, m)'
          \/ \E k \in DOMAIN queue' : QHolds(k, m)'
          \/ \E v \in Workers : WHolds(v, m)'
  BY <1>0, <1>3, <1>5, <1>6, <1>7, <1>8 DEF Owned
<1>10. \A m \in FDs, k, l \in DOMAIN queue' : QHolds(k, m)' /\ QHolds(l, m)' => k = l
  <2>1. ASSUME NEW m \in FDs, NEW k \in DOMAIN queue', NEW l \in DOMAIN queue',
               QHolds(k, m)', QHolds(l, m)'
        PROVE  k = l
    <3>1. k + 1 = l + 1
      BY <1>0, <1>4, <1>5, <2>1 DEF Owned
    <3>2. QED
      BY <1>4, <3>1
  <2>2. QED
    BY <2>1
<1>11. \A m \in FDs, k \in DOMAIN queue', v \in Workers : ~(QHolds(k, m)' /\ WHolds(v, m)')
  <2>1. ASSUME NEW m \in FDs, NEW k \in DOMAIN queue', NEW v \in Workers,
               QHolds(k, m)', WHolds(v, m)'
        PROVE  FALSE
    <3>1. /\ k + 1 \in DOMAIN queue /\ k + 1 # 1 /\ QHolds(k + 1, m)
      BY <1>4, <1>5, <2>1
    <3>2. ~(v = w /\ m = n)
      BY <1>0, <1>3, <1>5, <3>1 DEF Owned
    <3>3. QED
      BY <1>0, <1>6, <2>1, <3>1, <3>2 DEF Owned
  <2>2. QED
    BY <2>1
<1>12. /\ \A m \in FDs, d \in Dispatchers, k \in DOMAIN queue' :
            ~(DHolds(d, m)' /\ QHolds(k, m)')
       /\ \A m \in FDs, d \in Dispatchers, v \in Workers :
            ~(DHolds(d, m)' /\ WHolds(v, m)')
       /\ \A m \in FDs, v, u \in Workers : WHolds(v, m)' /\ WHolds(u, m)' => v = u
       /\ \A m \in FDs, d, e \in Dispatchers : DHolds(d, m)' /\ DHolds(e, m)' => d = e
  BY <1>0, <1>3, <1>4, <1>5, <1>6, <1>7 DEF Owned
<1>13. QED
  BY <1>9, <1>10, <1>11, <1>12 DEF Owned

(* The connection is closed after a reply: its number was the worker's.    *)
LEMMA EndReplyOwned ==
  ASSUME IInv, NEW w \in Workers, EndReply(w)
  PROVE  Owned'
<1>0. TypeOK /\ Owned
  BY DEF IInv
<1>1. PICK n : n = taken[w].fd
  OBVIOUS
<1>2. /\ taken[w] # NoItem /\ taken' = [taken EXCEPT ![w] = NoItem]
      /\ UNCHANGED <<hand, offered, queue>>
      /\ fds' = [fds EXCEPT ![n] = NoConn]
  BY <1>1 DEF EndReply, Q!Finish, Close
<1>3. n \in FDs
  BY <1>0, <1>1, <1>2 DEF TypeOK, Items
<1>4. \A m \in FDs : fds'[m] # NoConn <=> m # n /\ fds[m] # NoConn
  BY <1>0, <1>2 DEF TypeOK
<1>5. /\ \A v \in Workers, m \in FDs : WHolds(v, m)' <=> v # w /\ WHolds(v, m)
      /\ \A m \in FDs : WHolds(w, m) <=> m = n
  BY <1>0, <1>1, <1>2 DEF WHolds, TypeOK
<1>6. /\ \A d \in Dispatchers, m \in FDs : DHolds(d, m)' <=> DHolds(d, m)
      /\ \A k \in DOMAIN queue, m \in FDs : QHolds(k, m)' <=> QHolds(k, m)
      /\ DOMAIN queue' = DOMAIN queue
  BY <1>2 DEF DHolds, QHolds
<1>7. QED
  BY <1>0, <1>3, <1>4, <1>5, <1>6 DEF Owned

(* All other steps leave descriptors and who holds them alone.             *)
LEMMA OwnedStep == IInv /\ [Next]_vars => Owned'
<1> SUFFICES ASSUME IInv, [Next]_vars PROVE Owned'
  OBVIOUS
<1> USE DEF queueVars, workerVars, kernelVars, clientVars
<1>1. ASSUME UNCHANGED <<hand, queue, offered, taken, fds>> PROVE Owned'
  BY <1>1 DEF IInv, Owned, DHolds, QHolds, WHolds
<1>2. CASE UNCHANGED vars
  BY <1>1, <1>2 DEF vars
<1>3. ASSUME NEW c \in Clients, Client(c) PROVE Owned'
  BY <1>1, <1>3 DEF Client, Connect, Ask, SendMore, Receive, Leave
<1>4. ASSUME NEW d \in Dispatchers, Dispatch(d) PROVE Owned'
  BY <1>4, AcceptOwned, ReadLineOwned, RefuseOwned, PutOwned DEF Dispatch
<1>5. ASSUME NEW w \in Workers, Work(w) PROVE Owned'
  <2>1. CASE Lookup(w) \/ Insert(w) \/ Header(w) \/ Body(w)
    BY <1>1, <2>1 DEF Lookup, Insert, Header, Body
  <2>2. QED
    BY <1>5, <2>1, GetOwned, EndReplyOwned DEF Work
<1>6. QED
  BY <1>2, <1>3, <1>4, <1>5 DEF Next

(* The inductive invariant holds throughout. *)
THEOREM WebInvariant == Spec => []IInv
<1>1. IInv /\ [Next]_vars => IInv'
  BY TypeStep, OneThingStep, OwnedStep DEF IInv
<1>2. QED
  BY InitIInv, <1>1, PTL DEF Spec

(* Descriptors, places and replies are of their types in every reachable   *)
(* state.                                                                  *)
THEOREM WebTypeCorrect == Spec => []TypeOK
<1>1. IInv => TypeOK
  BY DEF IInv
<1>2. QED
  BY WebInvariant, <1>1, PTL

(* Every open connection has one owner, and nobody has a closed one,       *)
(* whatever clients do (util.c:174-219, 250-277, 296-322).                 *)
THEOREM ConnectionsHaveOneOwner == Spec => []OneOwner
<1>1. IInv => OneOwner
  BY OwnedIsOneOwner DEF IInv
<1>2. QED
  BY WebInvariant, <1>1, PTL

-----------------------------------------------------------------------------
(* Replies.  A client has at most one connection, which it keeps until it  *)
(* is closed; a request stays that of the client whose number it carries;  *)
(* and what has been sent follows the worker's place.                      *)

Sent(c) == received[c] \o sock[c]

(* What may have been sent of a reply to x. *)
Partial(x) ==
  {<<>>} \cup (IF x \in Files
               THEN {<<"200">>, <<"200", x>>, <<"404">>, <<"404", "error">>} ELSE {})

Placed ==
  /\ \A n, m \in FDs : fds[n] # NoConn /\ fds[n] = fds[m] => n = m
  /\ \A k, l \in DOMAIN backlog : backlog[k] = backlog[l] => k = l
  /\ \A k \in DOMAIN backlog, n \in FDs : fds[n] # backlog[k]
  /\ \A k \in DOMAIN backlog : peer[backlog[k]] # "out" /\ closed[backlog[k]] = "no"
  /\ \A n \in FDs : fds[n] # NoConn => peer[fds[n]] # "out" /\ closed[fds[n]] = "no"
  /\ \A c \in Clients : peer[c] = "out" => closed[c] = "no"

(* x is the item that a thread, or a place in the queue, holds. *)
Held(x) ==
  \/ \E d \in Dispatchers : offered[d] # NoItem /\ offered[d] = x
  \/ \E k \in DOMAIN queue : queue[k] = x
  \/ \E w \in Workers : taken[w] # NoItem /\ taken[w] = x

Asked == \A x : Held(x) => x.request = line[fds[x.fd]]

(* Worker w has sent something to c, or has tried to. *)
Answers(w, c) ==
  /\ taken[w] # NoItem /\ fds[taken[w].fd] = c
  /\ pc[w] \in {"body", "close"}

Told(c) ==
  /\ Sent(c) \in Partial(line[c])
  /\ peer[c] # "here" => sock[c] = <<>>
  /\ closed[c] = "no" /\ (\A w \in Workers : ~Answers(w, c)) => Sent(c) = <<>>
  /\ \A w \in Workers : Answers(w, c) /\ peer[c] = "here" =>
       IF pc[w] = "body" THEN Sent(c) = <<status[w]>>
                         ELSE Sent(c) \in H!Replies(line[c])
  /\ peer[c] = "here" /\ closed[c] = "fin" /\ line[c] \in Files =>
       Sent(c) \in H!Replies(line[c])

RInv == IInv /\ Placed /\ Asked /\ \A c \in Clients : Told(c)

LEMMA InitRInv == Init => RInv
<1> SUFFICES ASSUME Init PROVE RInv
  OBVIOUS
<1>1. IInv
  BY InitIInv
<1> USE DEF Init, Q!Init
<1>2. Placed
  BY DEF Placed
<1>3. Asked
  BY DEF Asked, Held
<1>4. ASSUME NEW c \in Clients PROVE Told(c)
  <2>1. Sent(c) = <<>> /\ sock[c] = <<>> /\ closed[c] = "no"
    BY DEF Sent
  <2>2. \A w \in Workers : ~Answers(w, c)
    BY DEF Answers
  <2>3. QED
    BY <2>1, <2>2 DEF Told, Partial
<1>5. QED
  BY <1>1, <1>2, <1>3, <1>4 DEF RInv

(* A dispatcher closes with the input read, Close() with what is unread.   *)
Closes(n) ==
  /\ fds' = [fds EXCEPT ![n] = NoConn]
  /\ IF fds[n] = NoConn THEN UNCHANGED <<closed, sock>>
                        ELSE \E left \in BOOLEAN : Closed(fds[n], left)

LEMMA CloseCloses ==
  ASSUME TypeOK, NEW n \in FDs, Close(n)
  PROVE  Closes(n)
BY DEF Close, Closes, TypeOK

LEMMA RefuseCloses ==
  ASSUME IInv, NEW d \in Dispatchers, Refuse(d)
  PROVE  /\ hand[d] \in FDs /\ fds[hand[d]] \in Clients /\ offered[d] = NoItem
         /\ Closes(hand[d])
<1>1. hand[d] \in FDs /\ offered[d] = NoItem
  BY DEF Refuse, IInv, OneThing, TypeOK
<1>2. fds[hand[d]] # NoConn
  BY <1>1, WebAssumption DEF IInv, Owned, DHolds
<1>3. fds[hand[d]] \in Clients
  BY <1>1, <1>2 DEF IInv, TypeOK
<1>4. QED
  BY <1>1, <1>2, <1>3 DEF Refuse, Closes

(* Only connections that are neither open nor new are marked closed. *)
LEMMA PlacedFrame ==
  ASSUME TypeOK, Placed, UNCHANGED <<fds, backlog>>,
         \A c \in Clients : peer'[c] = "out" => peer[c] = "out",
         \A c \in Clients : peer[c] # "out" => peer'[c] # "out",
         \A c \in Clients : closed'[c] = closed[c] \/ (closed[c] # "no" /\ closed'[c] # "no")
  PROVE  Placed'
<1>1. \A k \in DOMAIN backlog : backlog[k] \in Clients
  BY DEF TypeOK
<1>2. \A n \in FDs : fds[n] # NoConn => fds[n] \in Clients
  BY DEF TypeOK
<1>3. QED
  BY <1>1, <1>2 DEF Placed

LEMMA ClosePlaced ==
  ASSUME TypeOK, Placed, NEW n \in FDs, Closes(n), UNCHANGED <<backlog, peer>>
  PROVE  Placed'
<1>1. fds' = [fds EXCEPT ![n] = NoConn]
  BY DEF Closes
<1>2. \A c \in Clients : c # fds[n] => closed'[c] = closed[c]
  BY DEF Closes, Closed, TypeOK
<1>3. \A k \in DOMAIN backlog : backlog[k] \in Clients
  BY DEF TypeOK
<1>4. \A m \in FDs : fds[m] # NoConn => fds[m] \in Clients
  BY DEF TypeOK
<1>5. \A m \in FDs : fds'[m] = IF m = n THEN NoConn ELSE fds[m]
  BY <1>1 DEF TypeOK
<1>6. \A m \in FDs : fds'[m] # NoConn =>
        m # n /\ fds'[m] = fds[m] /\ fds[m] # fds[n] /\ fds[m] \in Clients
  BY <1>4, <1>5 DEF Placed
<1>7. \A k \in DOMAIN backlog : backlog[k] # fds[n] /\ backlog[k] \in Clients
  BY <1>3 DEF Placed
<1>8. \A c \in Clients : peer[c] = "out" => closed'[c] = "no"
  <2>1. ASSUME NEW c \in Clients, peer[c] = "out" PROVE c # fds[n]
    BY <1>4, <2>1, WebAssumption DEF Placed
  <2>2. QED
    BY <1>2, <2>1 DEF Placed
<1>9. QED
  BY <1>2, <1>5, <1>6, <1>7, <1>8 DEF Placed

(* Connections are made by clients, queued, accepted and closed. *)
LEMMA PlacedStep == RInv /\ [Next]_vars => Placed'
<1> SUFFICES ASSUME RInv, [Next]_vars PROVE Placed'
  OBVIOUS
<1> USE DEF queueVars, workerVars, kernelVars, clientVars
<1>0. TypeOK /\ Placed /\ Owned /\ OneThing
  BY DEF RInv, IInv
<1>2. CASE UNCHANGED vars
  BY <1>0, <1>2, PlacedFrame DEF vars
<1>3. ASSUME NEW c \in Clients, Client(c) PROVE Placed'
  <2>1. CASE Connect(c)
    <3>1. /\ backlog' = Append(backlog, c) /\ UNCHANGED <<fds, closed>>
          /\ peer[c] = "out" /\ peer' = [peer EXCEPT ![c] = "here"]
      BY <2>1 DEF Connect
    <3>2. /\ \A k \in DOMAIN backlog : backlog[k] # c /\ backlog[k] \in Clients
          /\ \A n \in FDs : fds[n] # c
      BY <1>0, <3>1, WebAssumption DEF Placed, TypeOK
    <3>3. PICK l : l = Len(backlog) + 1
      OBVIOUS
    <3>4. /\ DOMAIN backlog' = DOMAIN backlog \cup {l} /\ l \notin DOMAIN backlog
          /\ backlog'[l] = c /\ \A k \in DOMAIN backlog : backlog'[k] = backlog[k]
      BY <1>0, <3>1, <3>3 DEF TypeOK
    <3>5. closed[c] = "no"
      BY <1>0, <3>1 DEF Placed
    <3>6. \A d \in Clients : peer'[d] = IF d = c THEN "here" ELSE peer[d]
      BY <1>0, <3>1 DEF TypeOK
    <3>7. \A n \in FDs : fds[n] # NoConn => fds[n] \in Clients
      BY <1>0 DEF TypeOK
    <3>8. QED
      BY <1>0, <3>1, <3>2, <3>4, <3>5, <3>6, <3>7 DEF Placed
  <2>2. CASE Ask(c) \/ Receive(c)
    BY <1>0, <2>2, PlacedFrame DEF Ask, Receive
  <2>3. CASE SendMore(c)
    <3>1. \A d \in Clients : closed'[d] = closed[d] \/ (closed[d] # "no" /\ closed'[d] # "no")
      BY <1>0, <2>3 DEF SendMore, Closed, TypeOK
    <3>2. QED
      BY <1>0, <2>3, <3>1, PlacedFrame DEF SendMore
  <2>4. CASE Leave(c)
    <3>1. \A d \in Clients : (peer'[d] = "out" => peer[d] = "out")
                             /\ (peer[d] # "out" => peer'[d] # "out")
      BY <1>0, <2>4 DEF Leave, TypeOK
    <3>2. QED
      BY <1>0, <2>4, <3>1, PlacedFrame DEF Leave
  <2>5. QED
    BY <1>3, <2>1, <2>2, <2>3, <2>4 DEF Client
<1>4. ASSUME NEW d \in Dispatchers, Dispatch(d) PROVE Placed'
  <2>1. CASE Accept(d)
    <3>1. PICK n \in FDs : fds' = [fds EXCEPT ![n] = Head(backlog)]
      BY <2>1 DEF Accept, Free
    <3>2. /\ backlog' = Tail(backlog) /\ backlog # <<>> /\ UNCHANGED <<peer, closed>>
      BY <2>1 DEF Accept
    <3>3. /\ DOMAIN backlog = 1 .. Len(backlog) /\ Len(backlog) \in Nat \ {0}
          /\ DOMAIN backlog' = 1 .. Len(backlog) - 1 /\ Head(backlog) = backlog[1]
          /\ \A k \in 1 .. Len(backlog) - 1 : backlog'[k] = backlog[k + 1]
      BY <1>0, <3>2 DEF TypeOK
    <3>4. /\ \A k \in DOMAIN backlog' : k + 1 \in DOMAIN backlog /\ k + 1 # 1
                                        /\ backlog'[k] = backlog[k + 1]
          /\ 1 \in DOMAIN backlog /\ \A k, l \in DOMAIN backlog' : k + 1 = l + 1 => k = l
      BY <3>3
    <3>5. \A m \in FDs : fds'[m] = IF m = n THEN backlog[1] ELSE fds[m]
      BY <1>0, <3>1, <3>3 DEF TypeOK
    <3>6. /\ \A k, l \in DOMAIN backlog' : backlog'[k] = backlog'[l] => k = l
          /\ \A k \in DOMAIN backlog' : backlog'[k] # backlog[1]
      BY <1>0, <3>4 DEF Placed
    <3>7. \A k \in DOMAIN backlog', m \in FDs : fds'[m] # backlog'[k]
      BY <1>0, <3>4, <3>5, <3>6 DEF Placed
    <3>8. \A k, m \in FDs : fds'[k] # NoConn /\ fds'[k] = fds'[m] => k = m
      BY <1>0, <3>4, <3>5 DEF Placed
    <3>9. \A k \in DOMAIN backlog' : peer[backlog'[k]] # "out" /\ closed[backlog'[k]] = "no"
      BY <1>0, <3>4 DEF Placed
    <3>10. \A m \in FDs : fds'[m] # NoConn => peer[fds'[m]] # "out" /\ closed[fds'[m]] = "no"
      BY <1>0, <3>4, <3>5 DEF Placed
    <3>11. QED
      BY <1>0, <3>2, <3>6, <3>7, <3>8, <3>9, <3>10 DEF Placed
  <2>2. CASE ReadLine(d) \/ Put(d)
    BY <1>0, <2>2, PlacedFrame DEF ReadLine, KeepStream, Put
  <2>3. CASE Refuse(d)
    <3>1. hand[d] \in FDs /\ Closes(hand[d]) /\ UNCHANGED <<backlog, peer>>
      BY <2>3, RefuseCloses DEF RInv, Refuse
    <3>2. QED
      BY <1>0, <3>1, ClosePlaced
  <2>4. QED
    BY <1>4, <2>1, <2>2, <2>3 DEF Dispatch
<1>5. ASSUME NEW w \in Workers, Work(w) PROVE Placed'
  <2>1. CASE Get(w) \/ Lookup(w) \/ Insert(w)
    BY <1>0, <2>1, PlacedFrame DEF Get, Lookup, Insert
  <2>2. CASE Header(w) \/ Body(w)
    <3>1. peer' = peer \/ \E c : peer[c] = "gone" /\ peer' = [peer EXCEPT ![c] = "broken"]
      BY <2>2 DEF Header, Body, Write
    <3>2. \A c \in Clients : (peer'[c] = "out" => peer[c] = "out")
                             /\ (peer[c] # "out" => peer'[c] # "out")
      BY <1>0, <3>1 DEF TypeOK
    <3>3. UNCHANGED <<fds, backlog, closed>>
      BY <2>2 DEF Header, Body
    <3>4. QED
      BY <1>0, <3>2, <3>3, PlacedFrame
  <2>3. CASE EndReply(w)
    <3>1. taken[w].fd \in FDs
      BY <1>0, <2>3 DEF EndReply, Items, OneThing, TypeOK
    <3>2. Closes(taken[w].fd) /\ UNCHANGED <<backlog, peer>>
      BY <1>0, <2>3, <3>1, CloseCloses DEF EndReply
    <3>3. QED
      BY <1>0, <3>1, <3>2, ClosePlaced
  <2>4. QED
    BY <1>5, <2>1, <2>2, <2>3 DEF Work
<1>6. QED
  BY <1>2, <1>3, <1>4, <1>5 DEF Next

(* What is held has a number that is open, and so a client and its request. *)
LEMMA HeldIsOpen ==
  ASSUME RInv, NEW x, Held(x)
  PROVE  /\ x \in Items /\ x.fd \in FDs /\ fds[x.fd] \in Clients
         /\ x.request \in Files /\ x.request = line[fds[x.fd]]
<1>0. TypeOK /\ Owned /\ Asked
  BY DEF RInv, IInv
<1>1. x \in Items
  BY <1>0 DEF Held, TypeOK
<1>2. x.fd \in FDs /\ x.request \in Files
  BY <1>1 DEF Items
<1>3. fds[x.fd] # NoConn
  <2>1. CASE \E d \in Dispatchers : offered[d] # NoItem /\ offered[d] = x
    BY <1>0, <1>2, <2>1 DEF Owned, DHolds
  <2>2. CASE \E k \in DOMAIN queue : queue[k] = x
    BY <1>0, <1>2, <2>2 DEF Owned, QHolds
  <2>3. CASE \E w \in Workers : taken[w] # NoItem /\ taken[w] = x
    BY <1>0, <1>2, <2>3 DEF Owned, WHolds
  <2>4. QED
    BY <2>1, <2>2, <2>3 DEF Held
<1>4. QED
  BY <1>0, <1>1, <1>2, <1>3 DEF Asked, TypeOK

(* Closing another number disturbs nothing that is held. *)
LEMMA AskedClose ==
  ASSUME RInv, NEW n \in FDs, Closes(n), UNCHANGED line,
         \A x : Held(x)' => Held(x) /\ x.fd # n
  PROVE  Asked'
<1> SUFFICES ASSUME NEW x, Held(x)' PROVE x.request = line'[fds'[x.fd]]
  BY DEF Asked
<1>1. fds \in [FDs -> Clients \cup {NoConn}] /\ fds' = [fds EXCEPT ![n] = NoConn]
  BY DEF RInv, IInv, TypeOK, Closes
<1>2. QED
  BY <1>1, HeldIsOpen

(* A held request is that of its connection.                               *)
LEMMA AskedStep == RInv /\ [Next]_vars => Asked'
<1> SUFFICES ASSUME RInv, [Next]_vars PROVE Asked'
  OBVIOUS
<1> USE DEF queueVars, workerVars, kernelVars, clientVars
<1>0. TypeOK /\ Owned /\ OneThing /\ Asked
  BY DEF RInv, IInv
<1>1. ASSUME \A x : Held(x)' => Held(x),
             \A x : Held(x) => fds'[x.fd] = fds[x.fd] /\ line'[fds[x.fd]] = line[fds[x.fd]]
      PROVE  Asked'
  BY <1>0, <1>1 DEF Asked
<1>2. CASE UNCHANGED vars
  BY <1>1, <1>2 DEF Held, vars
<1>3. ASSUME NEW c \in Clients, Client(c) PROVE Asked'
  <2>1. UNCHANGED <<offered, queue, taken, fds>>
    BY <1>3 DEF Client, Connect, Ask, SendMore, Receive, Leave
  <2>2. line' = line \/ (line[c] = NoLine /\ \E y : line' = [line EXCEPT ![c] = y])
    BY <1>3 DEF Client, Connect, Ask, SendMore, Receive, Leave
  <2>3. \A x : Held(x)' => Held(x)
    BY <2>1 DEF Held
  <2>4. ASSUME NEW x, Held(x) PROVE line'[fds[x.fd]] = line[fds[x.fd]]
    <3>1. fds[x.fd] \in Clients /\ line[fds[x.fd]] # NoLine
      BY <2>4, HeldIsOpen, WebAssumption
    <3>2. QED
      BY <1>0, <2>2, <3>1 DEF TypeOK
  <2>5. QED
    BY <1>1, <2>1, <2>3, <2>4
<1>4. ASSUME NEW d \in Dispatchers, Dispatch(d) PROVE Asked'
  <2>1. CASE Accept(d)
    <3>1. PICK n \in FDs : fds[n] = NoConn /\ fds' = [fds EXCEPT ![n] = Head(backlog)]
      BY <2>1 DEF Accept, Free
    <3>2. UNCHANGED <<offered, queue, taken, line>>
      BY <2>1 DEF Accept
    <3>3. \A x : Held(x)' => Held(x)
      BY <3>2 DEF Held
    <3>4. ASSUME NEW x, Held(x) PROVE fds'[x.fd] = fds[x.fd]
      <4>1. fds[x.fd] \in Clients /\ x.fd \in FDs
        BY <3>4, HeldIsOpen
      <4>2. QED
        BY <1>0, <3>1, <4>1, WebAssumption DEF TypeOK
    <3>5. QED
      BY <1>1, <3>2, <3>3, <3>4
  <2>2. CASE ReadLine(d)
    <3>1. PICK y : y = [fd |-> hand[d], request |-> line[fds[hand[d]]]]
      OBVIOUS
    <3>2. /\ offered' = [offered EXCEPT ![d] = y]
          /\ UNCHANGED <<queue, taken, fds, line>>
      BY <2>2, <3>1 DEF ReadLine, Q!Offer, KeepStream
    <3>3. \A x : Held(x)' => Held(x) \/ x = y
      BY <1>0, <3>2 DEF Held, TypeOK
    <3>4. y.request = line[fds[y.fd]]
      BY <3>1
    <3>5. QED
      BY <1>0, <3>2, <3>3, <3>4 DEF Asked
  <2>3. CASE Refuse(d)
    <3>1. /\ hand[d] \in FDs /\ offered[d] = NoItem /\ Closes(hand[d])
          /\ UNCHANGED <<offered, queue, taken, line>>
      BY <2>3, RefuseCloses DEF RInv, Refuse
    <3>2. ASSUME NEW x, Held(x) PROVE x.fd # hand[d]
      <4>1. DHolds(d, hand[d])
        BY DEF DHolds
      <4>2. CASE \E e \in Dispatchers : offered[e] # NoItem /\ offered[e] = x
        BY <1>0, <3>1, <4>1, <4>2 DEF Owned, DHolds
      <4>3. CASE \E k \in DOMAIN queue : queue[k] = x
        BY <1>0, <3>1, <4>1, <4>3 DEF Owned, QHolds
      <4>4. CASE \E w \in Workers : taken[w] # NoItem /\ taken[w] = x
        BY <1>0, <3>1, <4>1, <4>4 DEF Owned, WHolds
      <4>5. QED
        BY <3>2, <4>2, <4>3, <4>4 DEF Held
    <3>3. \A x : Held(x)' => Held(x)
      BY <3>1 DEF Held
    <3>4. QED
      BY <3>1, <3>2, <3>3, AskedClose
  <2>4. CASE Put(d)
    <3>1. /\ offered[d] # NoItem /\ offered' = [offered EXCEPT ![d] = NoItem]
          /\ queue' = Append(queue, offered[d]) /\ UNCHANGED <<taken, fds, line>>
      BY <2>4 DEF Put, Q!Put
    <3>2. \A k \in DOMAIN queue' : queue'[k] = offered[d] \/ (k \in DOMAIN queue /\ queue'[k] = queue[k])
      BY <1>0, <3>1 DEF TypeOK
    <3>3. \A x : Held(x)' => Held(x)
      BY <1>0, <3>1, <3>2 DEF Held, TypeOK
    <3>4. QED
      BY <1>1, <3>1, <3>3
  <2>5. QED
    BY <1>4, <2>1, <2>2, <2>3, <2>4 DEF Dispatch
<1>5. ASSUME NEW w \in Workers, Work(w) PROVE Asked'
  <2>1. CASE Get(w)
    <3>1. /\ queue # <<>> /\ taken' = [taken EXCEPT ![w] = Head(queue)]
          /\ queue' = Tail(queue) /\ UNCHANGED <<offered, fds, line>>
      BY <2>1 DEF Get, Q!Get
    <3>2. /\ 1 \in DOMAIN queue /\ Head(queue) = queue[1]
          /\ \A k \in DOMAIN queue' : k + 1 \in DOMAIN queue /\ queue'[k] = queue[k + 1]
      <4>1. /\ DOMAIN queue = 1 .. Len(queue) /\ Len(queue) \in Nat \ {0}
            /\ DOMAIN queue' = 1 .. Len(queue) - 1 /\ Head(queue) = queue[1]
            /\ \A k \in 1 .. Len(queue) - 1 : queue'[k] = queue[k + 1]
        BY <1>0, <3>1 DEF TypeOK
      <4>2. QED
        BY <4>1
    <3>3. \A x : Held(x)' => Held(x)
      BY <1>0, <3>1, <3>2 DEF Held, TypeOK
    <3>4. QED
      BY <1>1, <3>1, <3>3
  <2>2. CASE Lookup(w) \/ Insert(w) \/ Header(w) \/ Body(w)
    <3>1. UNCHANGED <<offered, queue, taken, fds, line>>
      BY <2>2 DEF Lookup, Insert, Header, Body
    <3>2. QED
      BY <1>1, <3>1 DEF Held
  <2>3. CASE EndReply(w)
    <3>0. PICK n : n = taken[w].fd
      OBVIOUS
    <3>1. /\ taken[w] \in Items /\ n \in FDs /\ Closes(n)
          /\ taken' = [taken EXCEPT ![w] = NoItem] /\ UNCHANGED <<offered, queue, line>>
      BY <1>0, <2>3, <3>0, CloseCloses DEF EndReply, Q!Finish, Items, TypeOK
    <3>2. WHolds(w, n)
      BY <3>0, <3>1, WebAssumption DEF WHolds
    <3>3. ASSUME NEW x, Held(x)' PROVE Held(x) /\ x.fd # n
      <4>1. CASE \E d \in Dispatchers : offered[d] # NoItem /\ offered[d] = x
        BY <1>0, <3>1, <3>2, <4>1 DEF Owned, DHolds, Held
      <4>2. CASE \E k \in DOMAIN queue : queue[k] = x
        BY <1>0, <3>1, <3>2, <4>2 DEF Owned, QHolds, Held
      <4>3. CASE \E v \in Workers : v # w /\ taken[v] # NoItem /\ taken[v] = x
        BY <1>0, <3>1, <3>2, <4>3 DEF Owned, WHolds, Held
      <4>4. QED
        BY <1>0, <3>1, <3>3, <4>1, <4>2, <4>3 DEF Held, TypeOK
    <3>4. QED
      BY <3>1, <3>3, AskedClose
  <2>4. QED
    BY <1>5, <2>1, <2>2, <2>3 DEF Work
<1>6. QED
  BY <1>2, <1>3, <1>4, <1>5 DEF Next

(* What c has read is the beginning of what it was sent. *)
LEMMA PrefixOfPartial ==
  ASSUME NEW S, NEW s \in Seq(S), NEW t \in Seq(S), NEW x, s \o t \in Partial(x)
  PROVE  s \in Partial(x)
<1>1. PICK u : u = s \o t
  OBVIOUS
<1>2. /\ Len(s) \in Nat /\ Len(t) \in Nat /\ Len(u) = Len(s) + Len(t)
      /\ Len(s) # 0 => u[1] = s[1]
  BY <1>1, ConcatProperties
<1>3. CASE Len(s) = 0
  BY <1>3 DEF Partial
<1>4. CASE Len(t) = 0
  BY <1>1, <1>4, ConcatEmptySeq
<1>5. CASE Len(s) # 0 /\ Len(t) # 0
  <2>1. Len(u) # 0 /\ Len(u) # 1
    BY <1>2, <1>5
  <2>2. u # <<>> /\ u # <<"200">> /\ u # <<"404">>
    <3>1. Len(<<>>) = 0 /\ Len(<<"200">>) = 1 /\ Len(<<"404">>) = 1
      OBVIOUS
    <3>2. QED
      BY <2>1, <3>1
  <2>3. x \in Files /\ (u = <<"200", x>> \/ u = <<"404", "error">>)
    BY <1>1, <2>2 DEF Partial
  <2>4. Len(u) = 2 /\ u[1] \in {"200", "404"}
    <3>1. CASE u = <<"200", x>>
      BY <3>1
    <3>2. CASE u = <<"404", "error">>
      BY <3>2
    <3>3. QED
      BY <2>3, <3>1, <3>2
  <2>5. Len(s) = 1
    <3>1. /\ Len(s) \in Nat /\ Len(t) \in Nat /\ Len(s) + Len(t) = 2
          /\ Len(s) # 0 /\ Len(t) # 0
      BY <1>2, <1>5, <2>4
    <3>2. \A a, b \in Nat : a + b = 2 /\ a # 0 /\ b # 0 => a = 1
      OBVIOUS
    <3>3. QED
      BY <3>1, <3>2
  <2>6. s[1] \in {"200", "404"}
    BY <1>2, <2>4, <2>5
  <2>7. s = <<s[1]>>
    BY <2>5
  <2>8. QED
    BY <2>3, <2>6, <2>7 DEF Partial
<1>6. QED
  BY <1>3, <1>4, <1>5

LEMMA PrefixesOfTwo ==
  ASSUME NEW x, NEW y
  PROVE  /\ 1 \in DOMAIN <<x, y>> /\ SubSeq(<<x, y>>, 1, 1) = <<x>>
         /\ 2 \in DOMAIN <<x, y>> /\ SubSeq(<<x, y>>, 1, 2) = <<x, y>>
<1>1. 1 \in DOMAIN <<x, y>> /\ 2 \in DOMAIN <<x, y>>
  OBVIOUS
<1>2. <<x, y>> \in Seq({x, y}) /\ Len(<<x, y>>) = 2
  OBVIOUS
<1>3. SubSeq(<<x, y>>, 1, 2) = <<x, y>>
  BY <1>2, SubSeqFull, Zenon
<1>4. SubSeq(<<x, y>>, 1, 1) = <<x>>
  <2>1. PICK s : s = SubSeq(<<x, y>>, 1, 1)
    OBVIOUS
  <2>2. s \in Seq({x, y}) /\ Len(s) = 1 /\ s[1] = x
    BY <2>1
  <2>3. s = <<x>>
    BY <2>2
  <2>4. QED
    BY <2>1, <2>3
<1>5. QED
  BY <1>1, <1>3, <1>4

LEMMA AppendToOne ==
  ASSUME NEW x, NEW y
  PROVE  Append(<<x>>, y) = <<x, y>>
<1>1. Append(<<x>>, y) = [i \in 1 .. 2 |-> IF i = 2 THEN y ELSE x]
  OBVIOUS
<1>2. <<x, y>> = [i \in 1 .. 2 |-> IF i = 2 THEN y ELSE x]
  OBVIOUS
<1>3. QED
  BY <1>1, <1>2

LEMMA StrictPrefix ==
  ASSUME NEW S, NEW s \in Seq(S), NEW t \in Seq(S), t # <<>>
  PROVE  H!IsStrictPrefix(s, s \o t)
<1>1. PICK u : u = s \o t
  OBVIOUS
<1>2. Len(s) \in Nat /\ Len(u) = Len(s) + Len(t) /\ Len(t) \in Nat \ {0}
  BY <1>1, ConcatProperties
<1>3. SubSeq(s, 1, Len(s)) = s
  BY SubSeqFull
<1>4. SubSeq(u, 1, Len(s)) = s
  BY <1>1, <1>2
<1>5. s # u /\ Len(s) <= Len(u)
  BY <1>2
<1>6. QED
  BY <1>1, <1>3, <1>4, <1>5 DEF H!IsStrictPrefix, H!IsPrefix

(* A worker that answers has an open connection, and it alone.             *)
LEMMA AnswersAlone ==
  ASSUME RInv, NEW w \in Workers, taken[w] # NoItem, NEW c, c = fds[taken[w].fd]
  PROVE  /\ taken[w] \in Items /\ taken[w].fd \in FDs /\ c \in Clients
         /\ taken[w].request \in Files /\ line[c] = taken[w].request
         /\ closed[c] = "no" /\ peer[c] # "out"
         /\ \A v \in Workers : Answers(v, c) => v = w
<1>0. Owned /\ Placed
  BY DEF RInv, IInv
<1>1. Held(taken[w])
  BY DEF Held
<1>2. /\ taken[w] \in Items /\ taken[w].fd \in FDs /\ c \in Clients
      /\ taken[w].request \in Files /\ line[c] = taken[w].request
  BY <1>1, HeldIsOpen
<1>3. closed[c] = "no" /\ peer[c] # "out"
  BY <1>0, <1>2, WebAssumption DEF Placed
<1>4. ASSUME NEW v \in Workers, Answers(v, c) PROVE v = w
  <2>1. taken[v] # NoItem /\ fds[taken[v].fd] = c
    BY <1>4 DEF Answers
  <2>2. taken[v].fd \in FDs
    BY <2>1, HeldIsOpen DEF Held
  <2>3. taken[v].fd = taken[w].fd
    BY <1>0, <1>2, <2>1, <2>2, WebAssumption DEF Placed
  <2>4. QED
    BY <1>0, <2>1, <2>2, <2>3 DEF Owned, WHolds
<1>5. QED
  BY <1>2, <1>3, <1>4

(* Nobody answers a client that is not connected, or that a dispatcher     *)
(* reads from.                                                             *)
LEMMA NotAnswered ==
  ASSUME RInv, NEW c \in Clients,
         \/ peer[c] = "out" \/ closed[c] # "no" \/ line[c] = NoLine
         \/ \E d \in Dispatchers : hand[d] \in FDs /\ fds[hand[d]] = c
  PROVE  \A w \in Workers : ~Answers(w, c)
<1> SUFFICES ASSUME NEW w \in Workers, Answers(w, c) PROVE FALSE
  OBVIOUS
<1>0. Owned /\ Placed
  BY DEF RInv, IInv
<1>1. taken[w] # NoItem /\ c = fds[taken[w].fd]
  BY DEF Answers
<1>2. /\ taken[w].fd \in FDs /\ closed[c] = "no" /\ peer[c] # "out"
      /\ line[c] # NoLine
  BY <1>1, AnswersAlone, WebAssumption
<1>3. PICK d \in Dispatchers : hand[d] \in FDs /\ fds[hand[d]] = c
  BY <1>2
<1>4. hand[d] = taken[w].fd
  BY <1>0, <1>1, <1>2, <1>3, WebAssumption DEF Placed
<1>5. QED
  BY <1>0, <1>1, <1>2, <1>4 DEF Owned, DHolds, WHolds

(* What does not concern c leaves it as it is. *)
LEMMA ToldFrame ==
  ASSUME NEW c \in Clients, Told(c),
         UNCHANGED <<sock[c], received[c], closed[c], peer[c], line[c]>>,
         \A w \in Workers : Answers(w, c)' <=> Answers(w, c),
         \A w \in Workers : Answers(w, c) => pc'[w] = pc[w] /\ status'[w] = status[w]
  PROVE  Told(c)'
BY DEF Told, Sent

(* A connection is closed in order after all of a reply only. *)
LEMMA CloseTold ==
  ASSUME RInv, NEW n \in FDs, NEW c \in Clients, c = fds[n], Closes(n),
         UNCHANGED <<line, received, peer>>,
         \A w \in Workers : ~Answers(w, c)',
         peer[c] = "here" /\ line[c] \in Files => Sent(c) \in H!Replies(line[c])
  PROVE  Told(c)'
<1>0. TypeOK /\ Told(c)
  BY DEF RInv, IInv
<1>1. \E left \in BOOLEAN : Closed(c, left)
  BY WebAssumption DEF Closes
<1>2. closed'[c] \in {"fin", "rst"} /\ (sock'[c] = sock[c] \/ (closed'[c] = "rst" /\ sock'[c] = <<>>))
  BY <1>0, <1>1 DEF Closed, TypeOK
<1>3. received[c] \in Seq(Parts) /\ sock[c] \in Seq(Parts)
  BY <1>0 DEF TypeOK, Parts
<1>4. received[c] \in Partial(line[c]) /\ received[c] \o <<>> = received[c]
  BY <1>0, <1>3, PrefixOfPartial, ConcatEmptySeq DEF Told, Sent
<1>5. Sent(c)' = Sent(c) \/ (closed'[c] = "rst" /\ Sent(c)' = received[c])
  BY <1>2, <1>4 DEF Sent
<1>6. Sent(c)' \in Partial(line[c])
  BY <1>0, <1>4, <1>5 DEF Told
<1>7. closed'[c] = "fin" => Sent(c)' = Sent(c)
  BY <1>5
<1>8. QED
  BY <1>0, <1>2, <1>6, <1>7 DEF Told

(* Closing a connection is no concern of the other clients. *)
LEMMA CloseOthers ==
  ASSUME RInv, NEW n \in FDs, Closes(n), NEW b \in Clients, b # fds[n]
  PROVE  sock'[b] = sock[b] /\ closed'[b] = closed[b]
BY DEF Closes, Closed, RInv, IInv, TypeOK

(* A part is written that goes on with the reply. *)
LEMMA WriteTold ==
  ASSUME RInv, NEW w \in Workers, pc[w] \in {"header", "body"},
         NEW part \in Parts, NEW label \in {"body", "close"}, Write(w, part, label),
         UNCHANGED <<taken, fds, status, line, received, closed>>,
         NEW c, c = fds[taken[w].fd],
         peer[c] = "here" /\ label = "body" => Append(Sent(c), part) = <<status[w]>>,
         peer[c] = "here" /\ label = "close" => Append(Sent(c), part) \in H!Replies(line[c]),
         NEW b \in Clients
  PROVE  Told(b)'
<1>0. TypeOK /\ OneThing /\ Told(b)
  BY DEF RInv, IInv
<1>1. taken[w] # NoItem
  BY <1>0 DEF OneThing
<1>2. /\ c \in Clients /\ c # NoConn /\ line[c] \in Files /\ closed[c] = "no"
      /\ \A v \in Workers : Answers(v, c) => v = w
  BY <1>1, AnswersAlone, WebAssumption
<1>3. \A v \in Workers : v # w => pc'[v] = pc[v]
  BY <1>0 DEF Write, Goto, TypeOK
<1>4. CASE b # c
  <2>1. sock'[b] = sock[b] /\ peer'[b] = peer[b]
    BY <1>0, <1>2, <1>4 DEF Write, TypeOK
  <2>2. \A v \in Workers : Answers(v, b) => v # w
    BY <1>4 DEF Answers
  <2>3. \A v \in Workers : Answers(v, b)' <=> Answers(v, b)
    BY <1>3, <1>4 DEF Answers
  <2>4. QED
    BY <1>0, <1>3, <2>1, <2>2, <2>3, ToldFrame
<1>5. CASE b = c /\ UNCHANGED <<pc, sock, peer>>
  BY <1>0, <1>5, ToldFrame DEF Answers
<1>6. CASE b = c /\ pc'[w] \in {"body", "close"} /\ peer'[c] # "here" /\ UNCHANGED sock
           /\ peer[c] # "here"
  <2>1. Answers(w, c)'
    BY <1>1, <1>6 DEF Answers
  <2>2. Sent(c)' = Sent(c)
    BY <1>6 DEF Sent
  <2>3. QED
    BY <1>0, <1>6, <2>1, <2>2 DEF Told
<1>7. CASE b = c /\ pc'[w] = label /\ peer' = peer /\ peer[c] = "here"
           /\ sock' = [sock EXCEPT ![c] = Append(@, part)]
  <2>1. received[c] \in Seq(Parts) /\ sock[c] \in Seq(Parts)
    BY <1>0, <1>2 DEF TypeOK, Parts
  <2>2. Append(Sent(c), part) = received[c] \o Append(sock[c], part)
    <3>1. PICK s, t : s = received[c] /\ t = sock[c]
      OBVIOUS
    <3>2. s \in Seq(Parts) /\ t \in Seq(Parts) /\ part \in Parts
      BY <2>1, <3>1
    <3>3. Append(s \o t, part) = s \o Append(t, part)
      BY <3>2
    <3>4. QED
      BY <3>1, <3>3, Zenon DEF Sent
  <2>3. Sent(c)' = Append(Sent(c), part)
    BY <1>0, <1>2, <1>7, <2>2 DEF Sent, TypeOK
  <2>4. Answers(w, c)' /\ \A v \in Workers : Answers(v, c)' => v = w
    BY <1>1, <1>2, <1>3, <1>7 DEF Answers
  <2>5. status[w] \in {"200", "404"}
    BY <1>0 DEF TypeOK
  <2>6. Sent(c)' \in Partial(line[c])
    <3>1. CASE label = "body"
      BY <1>2, <1>7, <2>3, <2>5, <3>1 DEF Partial
    <3>2. CASE label = "close"
      BY <1>2, <1>7, <2>3, <3>2 DEF Partial, H!Replies, H!Result, H!NotFound
    <3>3. QED
      BY <3>1, <3>2
  <2>7. closed'[c] = "no"
    BY <1>2
  <2>8. IF pc'[w] = "body" THEN Sent(c)' = <<status'[w]>>
                           ELSE Sent(c)' \in H!Replies(line'[c])
    BY <1>7, <2>3
  <2>9. QED
    BY <1>7, <2>4, <2>6, <2>7, <2>8 DEF Told
<1>8. QED
  <2>1. \/ UNCHANGED <<pc, sock, peer>>
        \/ /\ pc'[w] \in {"body", "close"} /\ UNCHANGED sock
           /\ peer[c] # "here" /\ peer'[c] # "here"
        \/ /\ pc'[w] = label /\ peer' = peer /\ peer[c] = "here"
           /\ sock' = [sock EXCEPT ![c] = Append(@, part)]
    BY <1>0, <1>2 DEF Write, Goto, TypeOK
  <2>2. QED
    BY <1>4, <1>5, <1>6, <1>7, <2>1

LEMMA ClientTold ==
  ASSUME RInv, NEW c \in Clients, Client(c), NEW b \in Clients
  PROVE  Told(b)'
<1> USE DEF queueVars, workerVars, kernelVars, clientVars
<1>0. TypeOK /\ Placed /\ Told(b)
  BY DEF RInv, IInv
<1>1. /\ UNCHANGED <<taken, pc, status, fds>>
      /\ \A w \in Workers : Answers(w, b)' <=> Answers(w, b)
  BY DEF Client, Connect, Ask, SendMore, Receive, Leave, Answers
<1>2. CASE b # c
  <2>1. UNCHANGED <<sock[b], received[b], closed[b], peer[b], line[b]>>
    BY <1>0, <1>2 DEF Client, Connect, Ask, SendMore, Receive, Leave, Closed, TypeOK
  <2>2. QED
    BY <1>0, <1>1, <2>1, ToldFrame
<1>3. received[b] \in Seq(Parts) /\ sock[b] \in Seq(Parts)
  BY <1>0 DEF TypeOK, Parts
<1>4. received[b] \in Partial(line[b]) /\ received[b] \o <<>> = received[b]
  BY <1>0, <1>3, PrefixOfPartial, ConcatEmptySeq DEF Told, Sent
<1>5. CASE b = c /\ Connect(c)
  <2>1. \A w \in Workers : ~Answers(w, b)
    BY <1>5, NotAnswered DEF Connect
  <2>2. closed[b] = "no" /\ Sent(b) = <<>>
    BY <1>0, <1>5, <2>1 DEF Connect, Placed, Told
  <2>3. Sent(b)' = Sent(b) /\ peer'[b] = "here" /\ closed' = closed
    BY <1>0, <1>5 DEF Connect, Sent, TypeOK
  <2>4. QED
    BY <1>1, <2>1, <2>2, <2>3 DEF Told, Partial
<1>6. CASE b = c /\ Ask(c)
  <2>1. \A w \in Workers : ~Answers(w, b)
    BY <1>6, NotAnswered DEF Ask
  <2>2. closed[b] = "no" /\ Sent(b) = <<>> /\ peer[b] = "here"
    BY <1>0, <1>6, <2>1 DEF Ask, Told
  <2>3. Sent(b)' = Sent(b) /\ UNCHANGED <<peer, closed>>
    BY <1>6 DEF Ask, Sent
  <2>4. QED
    BY <1>1, <2>1, <2>2, <2>3 DEF Told, Partial
<1>7. CASE b = c /\ SendMore(c)
  <2>1. CASE UNCHANGED <<closed, sock>>
    BY <1>0, <1>1, <1>7, <2>1, ToldFrame DEF SendMore
  <2>2. CASE closed[c] # "no" /\ Closed(c, TRUE)
    <3>1. closed'[b] = "rst" /\ (sock'[b] = sock[b] \/ sock'[b] = <<>>)
      BY <1>0, <1>7, <2>2 DEF Closed, TypeOK
    <3>2. UNCHANGED <<received, line, peer>> /\ peer[b] = "here"
      BY <1>7 DEF SendMore
    <3>3. Sent(b)' = Sent(b) \/ Sent(b)' = received[b]
      BY <1>4, <3>1, <3>2 DEF Sent
    <3>4. \A w \in Workers : ~Answers(w, b)
      BY <1>7, <2>2, NotAnswered
    <3>5. QED
      BY <1>0, <1>1, <1>4, <3>1, <3>2, <3>3, <3>4 DEF Told
  <2>3. QED
    BY <1>7, <2>1, <2>2 DEF SendMore
<1>8. CASE b = c /\ Receive(c)
  <2>1. Sent(b) \in Seq(Parts)
    BY <1>3 DEF Sent
  <2>2. received'[b] = Sent(b) /\ sock'[b] = <<>>
    BY <1>0, <1>8 DEF Receive, Sent, TypeOK
  <2>3. Sent(b)' = Sent(b)
    BY <2>1, <2>2, ConcatEmptySeq DEF Sent
  <2>4. UNCHANGED <<peer, closed, line>>
    BY <1>8 DEF Receive
  <2>5. QED
    BY <1>0, <1>1, <2>2, <2>3, <2>4 DEF Told
<1>9. CASE b = c /\ Leave(c)
  <2>1. /\ peer'[b] # "here" /\ sock'[b] = <<>> /\ UNCHANGED <<closed, line, received>>
        /\ peer[b] = "here" /\ closed[b] = "no"
    BY <1>0, <1>9 DEF Leave, TypeOK
  <2>2. Sent(b)' = received[b]
    BY <1>4, <2>1 DEF Sent
  <2>3. Sent(b) = <<>> => received[b] = <<>>
    BY <1>3 DEF Sent
  <2>4. QED
    BY <1>0, <1>1, <1>4, <2>1, <2>2, <2>3 DEF Told
<1>10. QED
  BY <1>2, <1>5, <1>6, <1>7, <1>8, <1>9 DEF Client

LEMMA DispatchTold ==
  ASSUME RInv, NEW d \in Dispatchers, Dispatch(d), NEW b \in Clients
  PROVE  Told(b)'
<1> USE DEF queueVars, workerVars, kernelVars, clientVars
<1>0. TypeOK /\ Owned /\ Placed /\ Told(b)
  BY DEF RInv, IInv
<1>1. UNCHANGED <<taken, pc, status, received, line, peer>>
  BY DEF Dispatch, Accept, ReadLine, Refuse, Put, Q!Offer, Q!Put
<1>2. CASE Accept(d)
  <2>1. PICK n \in FDs : fds[n] = NoConn /\ fds' = [fds EXCEPT ![n] = Head(backlog)]
    BY <1>2 DEF Accept, Free
  <2>2. ASSUME NEW w \in Workers, taken[w] # NoItem PROVE fds'[taken[w].fd] = fds[taken[w].fd]
    <3>1. taken[w].fd \in FDs /\ fds[taken[w].fd] \in Clients
      BY <2>2, AnswersAlone
    <3>2. QED
      BY <1>0, <2>1, <3>1, WebAssumption DEF TypeOK
  <2>3. \A w \in Workers : Answers(w, b)' <=> Answers(w, b)
    BY <1>1, <2>2 DEF Answers
  <2>4. QED
    BY <1>0, <1>1, <1>2, <2>3, ToldFrame DEF Accept
<1>3. CASE ReadLine(d) \/ Put(d)
  <2>1. UNCHANGED <<fds, sock, closed>>
    BY <1>3 DEF ReadLine, KeepStream, Put
  <2>2. QED
    BY <1>0, <1>1, <2>1, ToldFrame DEF Answers
<1>4. CASE Refuse(d)
  <2>1. PICK n \in FDs : n = hand[d]
    BY <1>0, <1>4 DEF Refuse, TypeOK
  <2>2. Closes(n) /\ fds[n] \in Clients
    BY <1>4, <2>1, RefuseCloses DEF RInv
  <2>3. fds' = [fds EXCEPT ![n] = NoConn]
    BY <2>2 DEF Closes
  <2>4. ASSUME NEW w \in Workers PROVE Answers(w, b)' <=> Answers(w, b)
    <3>1. ASSUME taken[w] # NoItem PROVE fds'[taken[w].fd] = fds[taken[w].fd]
      <4>1. taken[w].fd \in FDs
        BY <3>1, AnswersAlone
      <4>2. taken[w].fd # n
        BY <1>0, <2>1, <3>1, <4>1 DEF Owned, DHolds, WHolds
      <4>3. QED
        BY <1>0, <2>3, <4>1, <4>2 DEF TypeOK
    <3>2. QED
      BY <1>1, <3>1 DEF Answers
  <2>5. CASE b # fds[n]
    BY <1>0, <1>1, <2>2, <2>4, <2>5, CloseOthers, ToldFrame
  <2>6. CASE b = fds[n]
    <3>1. \A w \in Workers : ~Answers(w, b)
      BY <2>1, <2>6, NotAnswered
    <3>2. peer[b] = "here" => line[b] \notin Files
      BY <1>4, <2>1, <2>6, WebAssumption DEF Refuse
    <3>3. QED
      BY <1>1, <2>2, <2>4, <2>6, <3>1, <3>2, CloseTold
  <2>7. QED
    BY <2>5, <2>6
<1>5. QED
  BY <1>2, <1>3, <1>4 DEF Dispatch

LEMMA WorkTold ==
  ASSUME RInv, NEW w \in Workers, Work(w), NEW b \in Clients
  PROVE  Told(b)'
<1> USE DEF queueVars, workerVars, kernelVars, clientVars
<1>0. TypeOK /\ Owned /\ Placed /\ OneThing /\ Told(b)
  BY DEF RInv, IInv
<1>1. CASE Get(w)
  <2>1. /\ taken[w] = NoItem /\ pc' = [pc EXCEPT ![w] = "lookup"]
        /\ taken' = [taken EXCEPT ![w] = Head(queue)]
        /\ UNCHANGED <<status, fds, sock, closed, peer, line, received>>
    BY <1>1 DEF Get, Q!Get, Goto
  <2>2. \A v \in Workers : Answers(v, b)' <=> Answers(v, b)
    BY <1>0, <2>1 DEF Answers, TypeOK
  <2>3. \A v \in Workers : Answers(v, b) => pc'[v] = pc[v]
    BY <1>0, <2>1 DEF Answers, TypeOK
  <2>4. QED
    BY <1>0, <2>1, <2>2, <2>3, ToldFrame
<1>2. CASE Lookup(w) \/ Insert(w)
  <2>1. /\ pc[w] \in {"lookup", "insert"}
        /\ \E l \in {"insert", "header"} : pc' = [pc EXCEPT ![w] = l]
        /\ status' = status \/ status' = [status EXCEPT ![w] = "404"]
        /\ UNCHANGED <<taken, fds, sock, closed, peer, line, received>>
    BY <1>2 DEF Lookup, Insert, Goto
  <2>2. \A v \in Workers : v # w => pc'[v] = pc[v] /\ status'[v] = status[v]
    BY <1>0, <2>1 DEF TypeOK
  <2>3. pc'[w] \in {"insert", "header"}
    BY <1>0, <2>1 DEF TypeOK
  <2>4. \A v \in Workers : Answers(v, b)' <=> Answers(v, b)
    BY <2>1, <2>2, <2>3 DEF Answers
  <2>5. \A v \in Workers : Answers(v, b) => v # w
    BY <2>1 DEF Answers
  <2>6. QED
    BY <1>0, <2>1, <2>2, <2>4, <2>5, ToldFrame
<1>3. CASE Header(w)
  <2>1. PICK c : c = fds[taken[w].fd]
    OBVIOUS
  <2>2. /\ pc[w] = "header" /\ Write(w, status[w], "body")
        /\ UNCHANGED <<taken, fds, status, line, received, closed>>
    BY <1>3 DEF Header, AfterHeader
  <2>3. /\ c \in Clients /\ closed[c] = "no" /\ \A v \in Workers : Answers(v, c) => v = w
    BY <1>0, <2>1, <2>2, AnswersAlone DEF OneThing
  <2>4. \A v \in Workers : ~Answers(v, c)
    BY <2>2, <2>3 DEF Answers
  <2>5. Sent(c) = <<>>
    BY <2>3, <2>4 DEF RInv, Told
  <2>6. Append(Sent(c), status[w]) = <<status[w]>> /\ status[w] \in Parts
    BY <1>0, <2>5 DEF TypeOK, Parts
  <2>7. QED
    BY <2>1, <2>2, <2>6, WriteTold
<1>4. CASE Body(w)
  <2>1. PICK c, part : /\ c = fds[taken[w].fd]
                       /\ part = IF status[w] = "200" THEN taken[w].request ELSE "error"
    OBVIOUS
  <2>2. /\ pc[w] = "body" /\ Write(w, part, "close")
        /\ UNCHANGED <<taken, fds, status, line, received, closed>>
    BY <1>4, <2>1 DEF Body
  <2>3. taken[w] # NoItem
    BY <1>0, <2>2 DEF OneThing
  <2>4. c \in Clients /\ taken[w].request \in Files /\ line[c] = taken[w].request
    BY <2>1, <2>3, AnswersAlone
  <2>5. part \in Parts
    BY <2>1, <2>4 DEF Parts
  <2>6. ASSUME peer[c] = "here" PROVE Append(Sent(c), part) \in H!Replies(line[c])
    <3>1. Answers(w, c)
      BY <2>1, <2>2, <2>3 DEF Answers
    <3>2. Sent(c) = <<status[w]>>
      BY <2>2, <2>4, <2>6, <3>1 DEF RInv, Told
    <3>3. Append(Sent(c), part) = <<status[w], part>> /\ status[w] \in {"200", "404"}
      <4>1. Append(<<status[w]>>, part) = <<status[w], part>>
        BY AppendToOne
      <4>2. status[w] \in {"200", "404"}
        BY <1>0 DEF TypeOK
      <4>3. QED
        BY <3>2, <4>1, <4>2
    <3>4. QED
      BY <2>1, <2>4, <3>3 DEF H!Replies, H!Result, H!NotFound
  <2>7. QED
    BY <2>1, <2>2, <2>5, <2>6, WriteTold
<1>5. CASE EndReply(w)
  <2>1. PICK n, c : n = taken[w].fd /\ c = fds[n]
    OBVIOUS
  <2>2. /\ pc[w] = "close" /\ taken[w] # NoItem /\ Close(n)
        /\ pc' = [pc EXCEPT ![w] = "idle"] /\ taken' = [taken EXCEPT ![w] = NoItem]
        /\ status' = [status EXCEPT ![w] = "200"]
        /\ UNCHANGED <<peer, line, received>>
    BY <1>5, <2>1 DEF EndReply, Q!Finish, Goto
  <2>3. /\ n \in FDs /\ c \in Clients /\ c # NoConn
        /\ \A v \in Workers : Answers(v, c) => v = w
    BY <2>1, <2>2, AnswersAlone, WebAssumption
  <2>a. Closes(n)
    BY <1>0, <2>2, <2>3, CloseCloses
  <2>4. fds' = [fds EXCEPT ![n] = NoConn]
    BY <2>a DEF Closes
  <2>5. ASSUME NEW v \in Workers PROVE Answers(v, b)' <=> v # w /\ Answers(v, b)
    <3>1. CASE v = w
      BY <1>0, <2>2, <3>1 DEF Answers, TypeOK
    <3>2. CASE v # w
      <4>1. taken'[v] = taken[v] /\ pc'[v] = pc[v]
        BY <1>0, <2>2, <3>2 DEF TypeOK
      <4>2. ASSUME taken[v] # NoItem PROVE fds'[taken[v].fd] = fds[taken[v].fd]
        <5>1. taken[v].fd \in FDs
          BY <4>2, AnswersAlone
        <5>2. taken[v].fd # n
          BY <1>0, <2>1, <2>2, <3>2, <4>2, <5>1 DEF Owned, WHolds
        <5>3. QED
          BY <1>0, <2>4, <5>1, <5>2 DEF TypeOK
      <4>3. QED
        BY <3>2, <4>1, <4>2 DEF Answers
    <3>3. QED
      BY <3>1, <3>2
  <2>6. CASE b # c
    <3>1. \A v \in Workers : Answers(v, b) => v # w
      BY <2>1, <2>6 DEF Answers
    <3>2. sock'[b] = sock[b] /\ closed'[b] = closed[b]
      BY <2>1, <2>3, <2>6, <2>a, CloseOthers
    <3>3. \A v \in Workers : v # w => pc'[v] = pc[v] /\ status'[v] = status[v]
      BY <1>0, <2>2 DEF TypeOK
    <3>4. QED
      BY <1>0, <2>2, <2>5, <3>1, <3>2, <3>3, ToldFrame
  <2>7. CASE b = c
    <3>1. \A v \in Workers : ~Answers(v, c)'
      BY <2>3, <2>5, <2>7
    <3>2. Answers(w, c)
      BY <2>1, <2>2 DEF Answers
    <3>3. peer[c] = "here" => Sent(c) \in H!Replies(line[c])
      BY <2>2, <2>3, <3>2 DEF RInv, Told
    <3>4. QED
      BY <2>1, <2>2, <2>3, <2>7, <2>a, <3>1, <3>3, CloseTold
  <2>8. QED
    BY <2>6, <2>7
<1>6. QED
  BY <1>1, <1>2, <1>3, <1>4, <1>5 DEF Work

LEMMA RInvStep == RInv /\ [Next]_vars => RInv'
<1> SUFFICES ASSUME RInv, [Next]_vars PROVE RInv'
  OBVIOUS
<1>1. IInv'
  BY TypeStep, OneThingStep, OwnedStep DEF RInv, IInv
<1>2. Placed' /\ Asked'
  BY PlacedStep, AskedStep
<1>3. ASSUME NEW c \in Clients PROVE Told(c)'
  <2>1. CASE UNCHANGED vars
    BY <2>1, ToldFrame DEF RInv, Answers, vars, queueVars, workerVars, kernelVars, clientVars
  <2>2. CASE Next
    BY <2>2, ClientTold, DispatchTold, WorkTold DEF Next
  <2>3. QED
    BY <2>1, <2>2
<1>4. QED
  BY <1>1, <1>2, <1>3 DEF RInv

(* The stronger invariant, too, holds throughout. *)
THEOREM ReplyInvariant == Spec => []RInv
BY InitRInv, RInvStep, PTL DEF Spec

(* A client that is still there when its connection is closed in order has *)
(* been sent all of one reply (util.c:258-276, 304-322).                   *)
THEOREM NoReplyIsCutShort == Spec => []NoHalfReply
<1>1. RInv => NoHalfReply
  BY DEF RInv, Told, NoHalfReply, Sent
<1>2. QED
  BY ReplyInvariant, <1>1, PTL

-----------------------------------------------------------------------------
(* The refinement: a client's request is Ask, what it reads is Answer.     *)

LEMMA ReceiveIsAnswer ==
  ASSUME RInv, NEW c \in Clients, Receive(c)
  PROVE  H!Answer(c)
<1>0. TypeOK /\ Told(c)
  BY DEF RInv, IInv
<1>1. received[c] \in Seq(Parts) /\ sock[c] \in Seq(Parts) /\ sock[c] # <<>>
  BY <1>0 DEF TypeOK, Parts, Receive
<1>2. PICK u : u = Sent(c)
  OBVIOUS
<1>3. H!IsStrictPrefix(received[c], u) /\ u # <<>>
  BY <1>1, <1>2, StrictPrefix, ConcatEqualIffEmpty DEF Sent
<1>4. received' = [received EXCEPT ![c] = u] /\ UNCHANGED line
  BY <1>2 DEF Receive, Sent
<1>5. /\ line[c] \in Files
      /\ u \in {<<"200">>, <<"200", line[c]>>, <<"404">>, <<"404", "error">>}
  BY <1>0, <1>2, <1>3 DEF Told, Partial
<1>6. \E r \in H!Replies(line[c]) : \E n \in DOMAIN r : u = SubSeq(r, 1, n)
  <2>1. CASE u \in {<<"200">>, <<"200", line[c]>>}
    <3>1. PICK r : r = <<"200", line[c]>>
      OBVIOUS
    <3>2. 1 \in DOMAIN r /\ 2 \in DOMAIN r /\ SubSeq(r, 1, 1) = <<"200">> /\ SubSeq(r, 1, 2) = r
      BY <3>1, PrefixesOfTwo, Zenon
    <3>3. r \in H!Replies(line[c])
      BY <1>5, <3>1 DEF H!Replies, H!Result
    <3>4. QED
      BY <2>1, <3>1, <3>2, <3>3
  <2>2. CASE u \in {<<"404">>, <<"404", "error">>}
    <3>1. PICK r : r = <<"404", "error">>
      OBVIOUS
    <3>2. 1 \in DOMAIN r /\ 2 \in DOMAIN r /\ SubSeq(r, 1, 1) = <<"404">> /\ SubSeq(r, 1, 2) = r
      BY <3>1, PrefixesOfTwo, Zenon
    <3>3. r \in H!Replies(line[c])
      BY <1>5, <3>1 DEF H!Replies, H!NotFound
    <3>4. QED
      BY <2>2, <3>1, <3>2, <3>3
  <2>3. QED
    BY <1>5, <2>1, <2>2
<1>7. QED
  BY <1>3, <1>4, <1>6 DEF H!Answer

LEMMA RefinementStep == RInv /\ [Next]_vars => [H!Next]_<<line, received>>
<1> SUFFICES ASSUME RInv, [Next]_vars PROVE [H!Next]_<<line, received>>
  OBVIOUS
<1> USE DEF queueVars, workerVars, kernelVars, clientVars
<1>1. CASE UNCHANGED vars
  BY <1>1 DEF vars
<1>2. ASSUME NEW c \in Clients, Client(c) PROVE [H!Next]_<<line, received>>
  <2>1. CASE Ask(c)
    BY <2>1 DEF Ask, H!Ask, H!Next
  <2>2. CASE Receive(c)
    BY <2>2, ReceiveIsAnswer DEF H!Next
  <2>3. CASE Connect(c) \/ SendMore(c) \/ Leave(c)
    BY <2>3 DEF Connect, SendMore, Leave
  <2>4. QED
    BY <1>2, <2>1, <2>2, <2>3 DEF Client
<1>3. ASSUME NEW d \in Dispatchers, Dispatch(d) PROVE UNCHANGED <<line, received>>
  BY <1>3 DEF Dispatch, Accept, ReadLine, Refuse, Put
<1>4. ASSUME NEW w \in Workers, Work(w) PROVE UNCHANGED <<line, received>>
  BY <1>4 DEF Work, Get, Lookup, Insert, Header, Body, EndReply
<1>5. QED
  BY <1>1, <1>2, <1>3, <1>4 DEF Next

(* Whatever threads and clients do, each client receives a reply to its    *)
(* own request, and one only (util.c:258-276, 304-322; server.c:296-322).  *)
THEOREM ClientsGetTheirReplies == Spec => Refinement
<1>1. Init => H!Init
  BY DEF Init, H!Init
<1>2. QED
  BY ReplyInvariant, RefinementStep, <1>1, PTL DEF Spec, Refinement, H!Spec
=============================================================================
