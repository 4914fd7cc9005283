---------------------------- MODULE RequestQueue ----------------------------
(***************************************************************************)
(* The web server's bounded request queue (request_queue_t) and the part   *)
(* of dispatch() and worker() that uses it: the mutex mtx, the condition   *)
(* variables freed and filled, and the ring buffer's three counters.       *)
(*                                                                         *)
(* A thread's place in the code is pc[t]:                                  *)
(*   accept   a dispatcher in accept_connection() / get_request()          *)
(*   serve    a worker between dequeuing a request and its next iteration  *)
(*   lock     about to acquire mtx, at the top of the critical section or  *)
(*            on its way out of pthread_cond_wait()                        *)
(*   test     holds mtx, about to evaluate the loop's condition            *)
(*   wait     asleep in pthread_cond_wait()                                *)
(*   store, take   holds mtx, the condition was false: about to use a slot *)
(*   unlock   holds mtx, done with the queue                               *)
(*   signal   released mtx, about to call pthread_cond_signal()            *)
(***************************************************************************)
EXTENDS Integers, FiniteSets

CONSTANTS
  Dispatchers,  \* the num_dispatcher threads that run dispatch()
  Workers,      \* the num_workers threads that run worker()
  Requests,     \* the values of request_t: a descriptor and a path
  QueueSize,    \* qlen
  NoRequest,    \* memory no request has been written to yet
  NoThread      \* "nobody holds the mutex"

Threads == Dispatchers \cup Workers

(* What main() checks of its arguments, MAX_THREADS and MAX_QUEUE_LEN apart. *)
ASSUME QueueAssumption ==
  /\ IsFiniteSet(Dispatchers) /\ Dispatchers # {}
  /\ IsFiniteSet(Workers) /\ Workers # {}
  /\ Dispatchers \cap Workers = {}
  /\ NoThread \notin Threads
  /\ NoRequest \notin Requests
  /\ QueueSize \in Nat \ {0}

VARIABLES
  requests,               \* the ring buffer
  next_slot_to_store,
  next_slot_to_service,
  num_requests_in_queue,
  mtx,                    \* the thread that holds mtx, or NoThread
  pc,                     \* see above
  request                 \* request[t]: new_request in dispatch(),
                          \* request in worker()

queueVars == <<requests, next_slot_to_store, next_slot_to_service,
               num_requests_in_queue>>
vars == <<queueVars, mtx, pc, request>>

Slots == 0 .. QueueSize - 1

(* The threads asleep on each condition variable. *)
freed  == {d \in Dispatchers : pc[d] = "wait"}
filled == {w \in Workers : pc[w] = "wait"}

-----------------------------------------------------------------------------
(* initRequestQueue() and the threads main() creates. *)
Init ==
  /\ requests = [s \in Slots |-> NoRequest]
  /\ next_slot_to_store = 0
  /\ next_slot_to_service = 0
  /\ num_requests_in_queue = 0
  /\ mtx = NoThread
  /\ pc = [t \in Threads |-> IF t \in Dispatchers THEN "accept" ELSE "lock"]
  /\ request = [t \in Threads |-> NoRequest]

(* Where t goes next, all other threads staying where they are. *)
Goto(t, label) == pc' = [pc EXCEPT ![t] = label]

(* accept_connection() and get_request() have both succeeded. *)
Receive(d, r) ==
  /\ pc[d] = "accept"
  /\ request' = [request EXCEPT ![d] = r]
  /\ Goto(d, "lock")
  /\ UNCHANGED <<queueVars, mtx>>

\* Seeded fault: the critical section is entered without waiting for mtx.
LockIgnoringOwner(t) ==
  /\ pc[t] = "lock"
  /\ mtx' = t
  /\ Goto(t, "test")
  /\ UNCHANGED <<queueVars, request>>

Lock(t) ==
  /\ pc[t] = "lock"
  /\ mtx = NoThread
  /\ mtx' = t
  /\ Goto(t, "test")
  /\ UNCHANGED <<queueVars, request>>

(* The while loops' conditions. *)
Full  == num_requests_in_queue = QueueSize
Empty == num_requests_in_queue = 0

(* The condition holds: pthread_cond_wait() releases mtx and sleeps. *)
WaitFreed(d) ==
  /\ pc[d] = "test" /\ Full
  /\ mtx' = NoThread
  /\ Goto(d, "wait")
  /\ UNCHANGED <<queueVars, request>>

WaitFilled(w) ==
  /\ pc[w] = "test" /\ Empty
  /\ mtx' = NoThread
  /\ Goto(w, "wait")
  /\ UNCHANGED <<queueVars, request>>

(* The condition does not hold: the loop ends. *)
LeaveLoop(t) ==
  /\ pc[t] = "test"
  /\ \/ t \in Dispatchers /\ ~Full /\ Goto(t, "store")
     \/ t \in Workers /\ ~Empty /\ Goto(t, "take")
  /\ UNCHANGED <<queueVars, mtx, request>>

\* Seeded fault: the store index is advanced before the slot is written.
StoreAfterAdvance(d) ==
  /\ pc[d] = "store"
  /\ next_slot_to_store' = (next_slot_to_store + 1) % QueueSize
  /\ requests' = [requests EXCEPT ![next_slot_to_store'] = request[d]]
  /\ num_requests_in_queue' = num_requests_in_queue + 1
  /\ Goto(d, "unlock")
  /\ UNCHANGED <<next_slot_to_service, mtx, request>>

Store(d) ==
  /\ pc[d] = "store"
  /\ requests' = [requests EXCEPT ![next_slot_to_store] = request[d]]
  /\ num_requests_in_queue' = num_requests_in_queue + 1
  /\ next_slot_to_store' = (next_slot_to_store + 1) % QueueSize
  /\ Goto(d, "unlock")
  /\ UNCHANGED <<next_slot_to_service, mtx, request>>

\* Seeded fault: the request is taken from where the last one was stored.
TakeNewest(w) ==
  /\ pc[w] = "take"
  /\ next_slot_to_store' = (next_slot_to_store + QueueSize - 1) % QueueSize
  /\ request' = [request EXCEPT ![w] = requests[next_slot_to_store']]
  /\ num_requests_in_queue' = num_requests_in_queue - 1
  /\ Goto(w, "unlock")
  /\ UNCHANGED <<requests, next_slot_to_service, mtx>>

Take(w) ==
  /\ pc[w] = "take"
  /\ request' = [request EXCEPT ![w] = requests[next_slot_to_service]]
  /\ next_slot_to_service' = (next_slot_to_service + 1) % QueueSize
  /\ num_requests_in_queue' = num_requests_in_queue - 1
  /\ Goto(w, "unlock")
  /\ UNCHANGED <<requests, next_slot_to_store, mtx>>

Unlock(t) ==
  /\ pc[t] = "unlock"
  /\ mtx' = NoThread
  /\ Goto(t, "signal")
  /\ UNCHANGED <<queueVars, request>>

(* pthread_cond_signal(): one thread of sleepers, if there is any, starts  *)
(* to leave pthread_cond_wait() and t goes on to label.                    *)
Signal(t, sleepers, label) ==
  /\ pc[t] = "signal"
  /\ \/ sleepers = {} /\ Goto(t, label)
     \/ \E u \in sleepers :
          pc' = [pc EXCEPT ![t] = label, ![u] = "lock"]
  /\ UNCHANGED <<queueVars, mtx, request>>

\* Seeded fault: a dispatcher signals only when the queue was empty.
SignalFilledIfWasEmpty(d) ==
  IF num_requests_in_queue <= 1
  THEN Signal(d, filled, "accept")
  ELSE Signal(d, {}, "accept")

\* Seeded fault: a dispatcher signals freed.
SignalFreedForFilled(d) == Signal(d, freed, "accept")

SignalFilled(d) == Signal(d, filled, "accept")

\* Seeded fault: a worker signals filled.
SignalFilledForFreed(w) == Signal(w, filled, "serve")

SignalFreed(w) == Signal(w, freed, "serve")

(* POSIX lets pthread_cond_wait() return without a signal. *)
SpuriousWakeup(t) ==
  /\ pc[t] = "wait"
  /\ Goto(t, "lock")
  /\ UNCHANGED <<queueVars, mtx, request>>

(* The rest of worker()'s loop body, which does not touch the queue. *)
Serve(w) ==
  /\ pc[w] = "serve"
  /\ Goto(w, "lock")
  /\ UNCHANGED <<queueVars, mtx, request>>

-----------------------------------------------------------------------------
(* Both kinds of threads. *)
Common(t) == Lock(t) \/ LeaveLoop(t) \/ Unlock(t) \/ SpuriousWakeup(t)

Dispatch(d) ==
  \/ \E r \in Requests : Receive(d, r)
  \/ WaitFreed(d) \/ Store(d) \/ SignalFilled(d)

Work(w) == WaitFilled(w) \/ Take(w) \/ SignalFreed(w) \/ Serve(w)

Next ==
  \/ \E t \in Threads : Common(t)
  \/ \E d \in Dispatchers : Dispatch(d)
  \/ \E w \in Workers : Work(w)

Spec == Init /\ [][Next]_vars

(***************************************************************************)
(* Scheduling.  A running thread does not stop between two statements, a   *)
(* worker finishes what it serves, and a thread that finds mtx free again  *)
(* and again gets it (glibc's mutex wakes a waiter at each unlock).        *)
(* Nothing is assumed of clients (Receive) nor of spurious wakeups.        *)
(***************************************************************************)
Fairness ==
  /\ \A t \in Threads : SF_vars(Lock(t)) /\ WF_vars(LeaveLoop(t) \/ Unlock(t))
  /\ \A d \in Dispatchers : WF_vars(WaitFreed(d) \/ Store(d) \/ SignalFilled(d))
  /\ \A w \in Workers :
       WF_vars(WaitFilled(w) \/ Take(w) \/ SignalFreed(w) \/ Serve(w))

FairSpec == Spec /\ Fairness

-----------------------------------------------------------------------------
Labels(t) ==
  {"lock", "test", "wait", "unlock", "signal"} \cup
  (IF t \in Dispatchers THEN {"accept", "store"} ELSE {"take", "serve"})

(* The ring's counters stay in range, every thread is at a label of its own *)
(* function and holds a request or an untouched buffer (server.c:34-46).    *)
TypeOK ==
  /\ requests \in [Slots -> Requests \cup {NoRequest}]
  /\ next_slot_to_store \in Slots
  /\ next_slot_to_service \in Slots
  /\ num_requests_in_queue \in 0 .. QueueSize
  /\ mtx \in Threads \cup {NoThread}
  /\ pc \in [Threads -> {"accept", "lock", "test", "wait", "store", "take",
                         "unlock", "signal", "serve"}]
  /\ \A t \in Threads : pc[t] \in Labels(t)
  /\ request \in [Threads -> Requests \cup {NoRequest}]

(* Only the thread that holds mtx is inside a critical section. *)
MutualExclusion ==
  \A t \in Threads : pc[t] \in {"test", "store", "take", "unlock"} <=> mtx = t

(* What a thread found when it left its while loop is still so when it     *)
(* uses the slot: a dispatcher never overwrites a request nobody has       *)
(* served, a worker never takes one that is not there (server.c:244-250,   *)
(* 284-293).                                                               *)
StillTrueWhenUsed ==
  /\ \A d \in Dispatchers : pc[d] = "store" => ~Full
  /\ \A w \in Workers : pc[w] = "take" => ~Empty

(* A dispatcher on its way to the queue holds a request to put there, and  *)
(* a worker that has been to the queue holds one that was stored.          *)
Offering(d) == pc[d] \in {"lock", "test", "wait", "store"}
Holding(w)  == pc[w] \in {"unlock", "signal", "serve"}

NoGarbage ==
  /\ \A d \in Dispatchers : Offering(d) => request[d] # NoRequest
  /\ \A w \in Workers : Holding(w) => request[w] # NoRequest

(* The queued requests, oldest first: num_requests_in_queue slots from     *)
(* next_slot_to_service on, the ring wrapping round.                       *)
QueuedSlot(k) == (next_slot_to_service + k) % QueueSize
Contents ==
  [k \in 1 .. num_requests_in_queue |-> requests[QueuedSlot(k - 1)]]

(* The two indices and the counter of the ring never disagree, and every   *)
(* slot they call occupied holds a request (server.c:250-255, 293-295).    *)
RingConsistent ==
  /\ next_slot_to_store = QueuedSlot(num_requests_in_queue)
  /\ \A k \in 0 .. num_requests_in_queue - 1 :
       requests[QueuedSlot(k)] # NoRequest

(***************************************************************************)
(* No wakeup is lost.  Signals are sent after mtx is released and a thread *)
(* that never slept may take the slot a signal was sent for, yet while     *)
(* workers sleep every queued request has a worker that is about to look   *)
(* at the queue, or a dispatcher that has yet to signal; while dispatchers *)
(* sleep the same holds of every free slot (server.c:244-257, 284-297).    *)
(***************************************************************************)
Looking(T)    == {t \in T : pc[t] \in {"lock", "test", "store", "take"}}
Signalling(T) == {t \in T : pc[t] \in {"unlock", "signal"}}

NoLostWakeupFilled ==
  filled # {} =>
    num_requests_in_queue <=
      Cardinality(Looking(Workers)) + Cardinality(Signalling(Dispatchers))

NoLostWakeupFreed ==
  freed # {} =>
    QueueSize - num_requests_in_queue <=
      Cardinality(Looking(Dispatchers)) + Cardinality(Signalling(Workers))

NoLostWakeup == NoLostWakeupFilled /\ NoLostWakeupFreed

(* All threads are never asleep at once. *)
SomeoneAwake == \E t \in Threads : pc[t] # "wait"

-----------------------------------------------------------------------------
(* The queue with its threads is a bounded FIFO queue. *)
F == INSTANCE Fifo WITH
  Producers <- Dispatchers,
  Consumers <- Workers,
  Items     <- Requests,
  Capacity  <- QueueSize,
  NoItem    <- NoRequest,
  queue     <- Contents,
  offered   <- [d \in Dispatchers |-> IF Offering(d) THEN request[d] ELSE NoRequest],
  taken     <- [w \in Workers |-> IF Holding(w) THEN request[w] ELSE NoRequest]

(* Requests reach the workers in the order in which dispatchers stored     *)
(* them, each exactly once, and never more than QueueSize wait.            *)
Refinement == F!Spec

(* Every request that is stored is eventually in the hands of a worker.    *)
Queued(r) == \E k \in DOMAIN Contents : Contents[k] = r
EventuallyTaken ==
  \A r \in Requests :
    Queued(r) ~> \E w \in Workers : Holding(w) /\ request[w] = r

(* While a dispatcher has a request to store, one is eventually stored:    *)
(* a full queue never stops all dispatchers for good.                      *)
SomeoneStores ==
  (\E d \in Dispatchers : Offering(d)) ~>
  (\E d \in Dispatchers : pc[d] = "unlock")
=============================================================================
