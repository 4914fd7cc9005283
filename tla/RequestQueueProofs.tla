------------------------- MODULE RequestQueueProofs -------------------------
(***************************************************************************)
(* Proofs about RequestQueue, for any finite sets of threads and any queue *)
(* size.                                                                   *)
(***************************************************************************)
EXTENDS RequestQueue, FiniteSetTheorems, SequenceTheorems, TLAPS

(* What the ring's index arithmetic returns: at most one wrap round. *)
LEMMA Wrap ==
  ASSUME NEW n \in Nat \ {0}, NEW a \in 0 .. n - 1, NEW b \in 0 .. n
  PROVE  /\ (a + b) % n = IF a + b < n THEN a + b ELSE a + b - n
         /\ (a + b) % n \in 0 .. n - 1
  OBVIOUS

(* The index after an index. *)
LEMMA WrapOne ==
  ASSUME NEW n \in Nat \ {0}, NEW a \in 0 .. n - 1
  PROVE  (a + 1) % n = IF a + 1 = n THEN 0 ELSE a + 1
  OBVIOUS

(* Going on by b from the index after a, or by one from the b-th index     *)
(* after a, both lead to index a + b + 1 of the ring.                      *)
LEMMA WrapShift ==
  ASSUME NEW n \in Nat \ {0}, NEW a \in 0 .. n - 1, NEW b \in 0 .. n - 1
  PROVE  /\ (((a + 1) % n) + b) % n = (a + (b + 1)) % n
         /\ (((a + b) % n) + 1) % n = (a + (b + 1)) % n
<1> DEFINE c == (a + 1) % n
           e == (a + b) % n
<1>1. c \in 0 .. n - 1 /\ c = IF a + 1 = n THEN 0 ELSE a + 1
  BY WrapOne
<1>2. e \in 0 .. n - 1 /\ e = IF a + b < n THEN a + b ELSE a + b - n
  <2>1. b \in 0 .. n
    OBVIOUS
  <2>2. QED
    BY <2>1, Wrap
<1>3. (a + (b + 1)) % n = IF a + (b + 1) < n THEN a + (b + 1) ELSE a + (b + 1) - n
  <2>1. b + 1 \in 0 .. n
    OBVIOUS
  <2>2. QED
    BY <2>1, Wrap
<1>4. (c + b) % n = IF c + b < n THEN c + b ELSE c + b - n
  <2> HIDE DEF c
  <2>1. b \in 0 .. n
    OBVIOUS
  <2>2. QED
    BY <1>1, <2>1, Wrap
<1>5. (e + 1) % n = IF e + 1 = n THEN 0 ELSE e + 1
  <2> HIDE DEF e
  <2>1. QED
    BY <1>2, WrapOne
<1> HIDE DEF c, e
<1>6. (c + b) % n = (a + (b + 1)) % n
  BY <1>1, <1>3, <1>4
<1>7. (e + 1) % n = (a + (b + 1)) % n
  BY <1>2, <1>3, <1>5
<1>8. QED
  BY <1>6, <1>7 DEF c, e

(* Distinct positions of the ring are distinct slots. *)
LEMMA WrapInjective ==
  ASSUME NEW n \in Nat \ {0}, NEW a \in 0 .. n - 1,
         NEW b \in 0 .. n - 1, NEW c \in 0 .. n - 1, b # c
  PROVE  (a + b) % n # (a + c) % n
<1>1. b \in 0 .. n /\ c \in 0 .. n
  OBVIOUS
<1>2. (a + b) % n = IF a + b < n THEN a + b ELSE a + b - n
  BY <1>1, Wrap
<1>3. (a + c) % n = IF a + c < n THEN a + c ELSE a + c - n
  BY <1>1, Wrap
<1>4. QED
  BY <1>2, <1>3

(* The inductive invariant.  Mutual exclusion is what makes the test of a  *)
(* while loop still true when the slot is used; that keeps the counter     *)
(* within the ring; and that keeps the occupied slots apart from the one   *)
(* being written.                                                          *)
IInv ==
  /\ TypeOK
  /\ MutualExclusion
  /\ StillTrueWhenUsed
  /\ NoGarbage
  /\ RingConsistent

USE QueueAssumption DEF Threads

(* The same, of the slots of the queue. *)
LEMMA SlotFacts ==
  ASSUME TypeOK
  PROVE  /\ \A k \in 0 .. QueueSize : QueuedSlot(k) \in Slots
         /\ QueuedSlot(0) = next_slot_to_service
         /\ \A k \in 0 .. QueueSize - 1 :
              /\ (QueuedSlot(k) + 1) % QueueSize = QueuedSlot(k + 1)
              /\ (((next_slot_to_service + 1) % QueueSize) + k) % QueueSize
                   = QueuedSlot(k + 1)
         /\ \A j, k \in 0 .. QueueSize - 1 : j # k => QueuedSlot(j) # QueuedSlot(k)
<1> DEFINE a == next_slot_to_service
<1>1. QueueSize \in Nat \ {0} /\ a \in 0 .. QueueSize - 1
  BY DEF TypeOK, Slots
<1> HIDE DEF a
<1>2. \A k \in 0 .. QueueSize : (a + k) % QueueSize \in Slots
  BY <1>1, Wrap DEF Slots
<1>3. (a + 0) % QueueSize = a
  <2>1. a + 0 = a /\ a % QueueSize = a
    BY <1>1
  <2>2. QED
    BY <2>1
<1>4. \A k \in 0 .. QueueSize - 1 :
        /\ (((a + 1) % QueueSize) + k) % QueueSize = (a + (k + 1)) % QueueSize
        /\ (((a + k) % QueueSize) + 1) % QueueSize = (a + (k + 1)) % QueueSize
  BY <1>1, WrapShift
<1>5. \A j, k \in 0 .. QueueSize - 1 :
        j # k => (a + j) % QueueSize # (a + k) % QueueSize
  BY <1>1, WrapInjective
<1>6. QED
  BY <1>2, <1>3, <1>4, <1>5 DEF a, QueuedSlot

(* initRequestQueue()'s empty ring satisfies the invariant. *)
LEMMA InitIInv == Init => IInv
<1> SUFFICES ASSUME Init PROVE IInv
  OBVIOUS
<1> USE DEF Init
<1>1. TypeOK
  BY DEF TypeOK, Labels, Slots
<1>2. MutualExclusion
  BY DEF MutualExclusion
<1>3. StillTrueWhenUsed
  BY DEF StillTrueWhenUsed
<1>4. NoGarbage
  BY DEF NoGarbage, Offering, Holding
<1>5. RingConsistent
  BY Wrap DEF RingConsistent, QueuedSlot, Slots
<1>6. QED
  BY <1>1, <1>2, <1>3, <1>4, <1>5 DEF IInv

(* No step leaves the types: indices stay in the ring. *)
LEMMA TypeStep == IInv /\ [Next]_vars => TypeOK'
<1> SUFFICES ASSUME IInv, [Next]_vars PROVE TypeOK'
  OBVIOUS
<1> USE DEF IInv, TypeOK, Labels, Goto, queueVars, Slots
<1>1. ASSUME NEW t \in Threads, Common(t) PROVE TypeOK'
  <2>1. CASE Lock(t)
    BY <2>1 DEF Lock
  <2>2. CASE LeaveLoop(t)
    BY <2>2 DEF LeaveLoop
  <2>3. CASE Unlock(t)
    BY <2>3 DEF Unlock
  <2>4. CASE SpuriousWakeup(t)
    BY <2>4 DEF SpuriousWakeup
  <2>5. QED
    BY <1>1, <2>1, <2>2, <2>3, <2>4 DEF Common
<1>2. ASSUME NEW d \in Dispatchers, Dispatch(d) PROVE TypeOK'
  <2>1. ASSUME NEW r \in Requests, Receive(d, r) PROVE TypeOK'
    BY <2>1 DEF Receive
  <2>2. CASE WaitFreed(d)
    BY <2>2 DEF WaitFreed
  <2>3. CASE Store(d)
    <3>1. next_slot_to_store' \in Slots
      BY <2>3, Wrap DEF Store
    <3>2. num_requests_in_queue' \in 0 .. QueueSize
      BY <2>3 DEF Store, StillTrueWhenUsed, Full
    <3>3. QED
      BY <2>3, <3>1, <3>2 DEF Store
  <2>4. CASE SignalFilled(d)
    BY <2>4 DEF SignalFilled, Signal, filled
  <2>5. QED
    BY <1>2, <2>1, <2>2, <2>3, <2>4 DEF Dispatch
<1>3. ASSUME NEW w \in Workers, Work(w) PROVE TypeOK'
  <2>1. CASE WaitFilled(w)
    BY <2>1 DEF WaitFilled
  <2>2. CASE Take(w)
    <3>1. next_slot_to_service' \in Slots
      BY <2>2, Wrap DEF Take
    <3>2. num_requests_in_queue' \in 0 .. QueueSize
      BY <2>2 DEF Take, StillTrueWhenUsed, Empty
    <3>3. QED
      BY <2>2, <3>1, <3>2 DEF Take
  <2>3. CASE SignalFreed(w)
    BY <2>3 DEF SignalFreed, Signal, freed
  <2>4. CASE Serve(w)
    BY <2>4 DEF Serve
  <2>5. QED
    BY <1>3, <2>1, <2>2, <2>3, <2>4 DEF Work
<1>4. CASE UNCHANGED vars
  BY <1>4 DEF vars
<1>5. QED
  BY <1>1, <1>2, <1>3, <1>4 DEF Next

(* A thread enters the critical section only when mtx is free. *)
LEMMA LockStep == IInv /\ [Next]_vars => MutualExclusion'
<1> SUFFICES ASSUME IInv, [Next]_vars PROVE MutualExclusion'
  OBVIOUS
<1> USE DEF IInv, TypeOK, MutualExclusion, Goto, queueVars
<1>1. ASSUME NEW t \in Threads, Common(t) PROVE MutualExclusion'
  BY <1>1 DEF Common, Lock, LeaveLoop, Unlock, SpuriousWakeup
<1>2. ASSUME NEW d \in Dispatchers, Dispatch(d) PROVE MutualExclusion'
  BY <1>2 DEF Dispatch, Receive, WaitFreed, Store, SignalFilled, Signal, filled
<1>3. ASSUME NEW w \in Workers, Work(w) PROVE MutualExclusion'
  BY <1>3 DEF Work, WaitFilled, Take, SignalFreed, Signal, freed, Serve
<1>4. CASE UNCHANGED vars
  BY <1>4 DEF vars
<1>5. QED
  BY <1>1, <1>2, <1>3, <1>4 DEF Next

(* Nobody touches the counter between the test and the use of a slot. *)
LEMMA StillTrueStep == IInv /\ [Next]_vars => StillTrueWhenUsed'
<1> SUFFICES ASSUME IInv, [Next]_vars PROVE StillTrueWhenUsed'
  OBVIOUS
<1> USE DEF IInv, TypeOK, Labels, MutualExclusion, StillTrueWhenUsed,
            Goto, queueVars, Full, Empty
<1>1. ASSUME NEW t \in Threads, Common(t) PROVE StillTrueWhenUsed'
  BY <1>1 DEF Common, Lock, LeaveLoop, Unlock, SpuriousWakeup
<1>2. ASSUME NEW d \in Dispatchers, Dispatch(d) PROVE StillTrueWhenUsed'
  BY <1>2 DEF Dispatch, Receive, WaitFreed, Store, SignalFilled, Signal, filled
<1>3. ASSUME NEW w \in Workers, Work(w) PROVE StillTrueWhenUsed'
  BY <1>3 DEF Work, WaitFilled, Take, SignalFreed, Signal, freed, Serve
<1>4. CASE UNCHANGED vars
  BY <1>4 DEF vars
<1>5. QED
  BY <1>1, <1>2, <1>3, <1>4 DEF Next

(* Requests move from a thread to a slot and to a thread, never nothing. *)
LEMMA GarbageStep == IInv /\ [Next]_vars => NoGarbage'
<1> SUFFICES ASSUME IInv, [Next]_vars PROVE NoGarbage'
  OBVIOUS
<1> USE DEF IInv, TypeOK, Labels, NoGarbage, Offering, Holding, Goto, queueVars
<1>1. ASSUME NEW t \in Threads, Common(t) PROVE NoGarbage'
  BY <1>1 DEF Common, Lock, LeaveLoop, Unlock, SpuriousWakeup
<1>2. ASSUME NEW d \in Dispatchers, Dispatch(d) PROVE NoGarbage'
  BY <1>2 DEF Dispatch, Receive, WaitFreed, Store, SignalFilled, Signal, filled
<1>3. ASSUME NEW w \in Workers, Work(w) PROVE NoGarbage'
  <2>1. CASE Take(w)
    <3>1. requests[next_slot_to_service] # NoRequest
      <4>1. num_requests_in_queue > 0
        BY <2>1 DEF Take, StillTrueWhenUsed, Empty
      <4>2. QueuedSlot(0) = next_slot_to_service
        BY SlotFacts
      <4>3. QED
        BY <4>1, <4>2 DEF RingConsistent
    <3>2. QED
      BY <2>1, <3>1 DEF Take
  <2>2. CASE WaitFilled(w) \/ SignalFreed(w) \/ Serve(w)
    BY <2>2 DEF WaitFilled, SignalFreed, Signal, freed, Serve
  <2>3. QED
    BY <1>3, <2>1, <2>2 DEF Work
<1>4. CASE UNCHANGED vars
  BY <1>4 DEF vars
<1>5. QED
  BY <1>1, <1>2, <1>3, <1>4 DEF Next

(* Storing and taking keep the two indices and the counter together. *)
LEMMA RingStep == IInv /\ [Next]_vars => RingConsistent'
<1> SUFFICES ASSUME IInv, [Next]_vars PROVE RingConsistent'
  OBVIOUS
<1>1. CASE UNCHANGED queueVars
  BY <1>1 DEF IInv, RingConsistent, QueuedSlot, queueVars
<1>2. ASSUME NEW d \in Dispatchers, Store(d) PROVE RingConsistent'
  <2> USE DEF IInv, TypeOK
  <2>1. num_requests_in_queue \in 0 .. QueueSize - 1
    BY <1>2 DEF Store, StillTrueWhenUsed, Full
  <2>2. \A k \in 0 .. QueueSize : QueuedSlot(k)' = QueuedSlot(k)
    BY <1>2 DEF Store, QueuedSlot
  <2>3. next_slot_to_store' = QueuedSlot(num_requests_in_queue + 1)
    <3>1. next_slot_to_store' = (next_slot_to_store + 1) % QueueSize
      BY <1>2 DEF Store
    <3>2. next_slot_to_store = QueuedSlot(num_requests_in_queue)
      BY DEF RingConsistent
    <3>3. QED
      BY <2>1, <3>1, <3>2, SlotFacts
  <2>4. ASSUME NEW k \in 0 .. num_requests_in_queue
        PROVE  requests'[QueuedSlot(k)] # NoRequest
    <3>1. QueuedSlot(k) \in Slots
      BY <2>1, SlotFacts
    <3>2. CASE k = num_requests_in_queue
      BY <1>2, <3>1, <3>2 DEF Store, RingConsistent, NoGarbage, Offering
    <3>3. CASE k # num_requests_in_queue
      <4>1. k \in 0 .. num_requests_in_queue - 1
        BY <2>1, <3>3
      <4>2. QueuedSlot(k) # QueuedSlot(num_requests_in_queue)
        BY <2>1, <4>1, SlotFacts
      <4>3. QED
        BY <1>2, <3>1, <4>1, <4>2 DEF Store, RingConsistent
    <3>4. QED
      BY <3>2, <3>3
  <2>5. QED
    BY <1>2, <2>1, <2>2, <2>3, <2>4 DEF Store, RingConsistent
<1>3. ASSUME NEW w \in Workers, Take(w) PROVE RingConsistent'
  <2> USE DEF IInv, TypeOK
  <2>1. num_requests_in_queue \in 1 .. QueueSize
    BY <1>3 DEF Take, StillTrueWhenUsed, Empty
  <2>2. num_requests_in_queue' = num_requests_in_queue - 1 /\ requests' = requests
    BY <1>3 DEF Take
  <2>3. \A k \in 0 .. QueueSize - 1 :
          (next_slot_to_service' + k) % QueueSize = QueuedSlot(k + 1)
    BY <1>3, SlotFacts DEF Take
  <2>4. next_slot_to_store' = (next_slot_to_service' + num_requests_in_queue') % QueueSize
    <3>1. next_slot_to_store' = QueuedSlot(num_requests_in_queue)
      BY <1>3 DEF Take, RingConsistent
    <3>2. num_requests_in_queue - 1 \in 0 .. QueueSize - 1
      BY <2>1
    <3>3. (num_requests_in_queue - 1) + 1 = num_requests_in_queue
      BY <2>1
    <3>4. (next_slot_to_service' + (num_requests_in_queue - 1)) % QueueSize
            = QueuedSlot(num_requests_in_queue)
      BY <2>3, <3>2, <3>3
    <3>5. QED
      BY <2>2, <3>1, <3>4
  <2>5. ASSUME NEW k \in 0 .. num_requests_in_queue' - 1
        PROVE  requests'[(next_slot_to_service' + k) % QueueSize] # NoRequest
    <3>1. k \in 0 .. QueueSize - 1 /\ k + 1 \in 0 .. num_requests_in_queue - 1
      BY <2>1, <2>2
    <3>2. requests[QueuedSlot(k + 1)] # NoRequest
      BY <3>1 DEF RingConsistent
    <3>3. QED
      BY <2>2, <2>3, <3>1, <3>2
  <2>6. QED
    BY <2>4, <2>5 DEF RingConsistent, QueuedSlot
<1>4. QED
  BY <1>1, <1>2, <1>3
  DEF Next, vars, Common, Lock, LeaveLoop, Unlock, SpuriousWakeup,
      Dispatch, Receive, WaitFreed, SignalFilled, Signal,
      Work, WaitFilled, SignalFreed, Serve

(* The inductive invariant holds: the mutex excludes, what a thread found  *)
(* under it stays true, and the ring's counters agree (server.c:243-297).  *)
THEOREM QueueInvariant == Spec => []IInv
<1>1. IInv /\ [Next]_vars => IInv'
  BY TypeStep, LockStep, StillTrueStep, GarbageStep, RingStep DEF IInv
<1>2. QED
  BY InitIInv, <1>1, PTL DEF Spec

(* The queue's threads and counters keep to their types, whatever the      *)
(* number of threads and the length of the queue (server.c:34-46).         *)
THEOREM QueueTypeCorrect == Spec => []TypeOK
<1>1. IInv => TypeOK
  BY DEF IInv
<1>2. QED
  BY QueueInvariant, <1>1, PTL

(* No dispatcher overwrites a request that waits and no worker takes one   *)
(* that is not there (server.c:244-250, 284-293).                          *)
THEOREM SlotUseIsSafe == Spec => []StillTrueWhenUsed
<1>1. IInv => StillTrueWhenUsed
  BY DEF IInv
<1>2. QED
  BY <1>1, QueueInvariant, PTL

(* The ring's indices and its counter agree, and the slots they call       *)
(* occupied hold requests (server.c:250-255, 293-295).                     *)
THEOREM RingStaysConsistent == Spec => []RingConsistent
<1>1. IInv => RingConsistent
  BY DEF IInv
<1>2. QED
  BY <1>1, QueueInvariant, PTL

-----------------------------------------------------------------------------
(* Counting threads: the sets NoLostWakeup counts are finite, and a thread *)
(* that joins or leaves one changes its count by one.                      *)
LEMMA Counts ==
  ASSUME NEW T, IsFiniteSet(T), NEW S \in SUBSET T
  PROVE  /\ IsFiniteSet(S) /\ Cardinality(S) \in Nat
         /\ \A R \in SUBSET S : Cardinality(R) <= Cardinality(S)
         /\ \A t \in S : Cardinality(S \ {t}) = Cardinality(S) - 1
         /\ \A t : t \notin S => Cardinality(S \cup {t}) = Cardinality(S) + 1
  BY FS_Subset, FS_CardinalityType, FS_RemoveElement, FS_AddElement

(* A step that leaves the counter alone, keeps every looking worker and    *)
(* every signalling dispatcher, and puts no worker to sleep.               *)
LEMMA FilledUndisturbed ==
  ASSUME NoLostWakeupFilled, TypeOK,
         num_requests_in_queue' = num_requests_in_queue,
         Looking(Workers) \subseteq Looking(Workers)',
         Signalling(Dispatchers) \subseteq Signalling(Dispatchers)',
         filled' # {} => filled # {}
  PROVE  NoLostWakeupFilled'
<1>1. /\ Cardinality(Looking(Workers)) <= Cardinality(Looking(Workers)')
      /\ Cardinality(Looking(Workers)) \in Nat
      /\ Cardinality(Looking(Workers)') \in Nat
  BY Counts DEF Looking
<1>2. /\ Cardinality(Signalling(Dispatchers)) <= Cardinality(Signalling(Dispatchers)')
      /\ Cardinality(Signalling(Dispatchers)) \in Nat
      /\ Cardinality(Signalling(Dispatchers)') \in Nat
  BY Counts DEF Signalling
<1>3. QED
  BY <1>1, <1>2 DEF NoLostWakeupFilled, TypeOK

(* The same for dispatchers and free slots. *)
LEMMA FreedUndisturbed ==
  ASSUME NoLostWakeupFreed, TypeOK,
         num_requests_in_queue' = num_requests_in_queue,
         Looking(Dispatchers) \subseteq Looking(Dispatchers)',
         Signalling(Workers) \subseteq Signalling(Workers)',
         freed' # {} => freed # {}
  PROVE  NoLostWakeupFreed'
<1>1. /\ Cardinality(Looking(Dispatchers)) <= Cardinality(Looking(Dispatchers)')
      /\ Cardinality(Looking(Dispatchers)) \in Nat
      /\ Cardinality(Looking(Dispatchers)') \in Nat
  BY Counts DEF Looking
<1>2. /\ Cardinality(Signalling(Workers)) <= Cardinality(Signalling(Workers)')
      /\ Cardinality(Signalling(Workers)) \in Nat
      /\ Cardinality(Signalling(Workers)') \in Nat
  BY Counts DEF Signalling
<1>3. QED
  BY <1>1, <1>2 DEF NoLostWakeupFreed, TypeOK

(* No wakeup of a worker is lost. *)
LEMMA FilledStep == IInv /\ NoLostWakeupFilled /\ [Next]_vars => NoLostWakeupFilled'
<1> SUFFICES ASSUME IInv, NoLostWakeupFilled, [Next]_vars PROVE NoLostWakeupFilled'
  OBVIOUS
<1>1. TypeOK
  BY DEF IInv
<1>2. /\ Cardinality(Looking(Workers)) \in Nat
      /\ Cardinality(Signalling(Dispatchers)) \in Nat
      /\ Cardinality(Looking(Workers)') \in Nat
      /\ Cardinality(Signalling(Dispatchers)') \in Nat
  BY Counts DEF Looking, Signalling
<1> USE DEF TypeOK, Labels, Goto, queueVars
<1>3. ASSUME NEW t \in Threads, Common(t) PROVE NoLostWakeupFilled'
  <2>1. /\ num_requests_in_queue' = num_requests_in_queue
        /\ Looking(Workers) \subseteq Looking(Workers)'
        /\ Signalling(Dispatchers) \subseteq Signalling(Dispatchers)'
        /\ filled' # {} => filled # {}
    BY <1>1, <1>3 DEF Common, Lock, LeaveLoop, Unlock, SpuriousWakeup,
                      Looking, Signalling, filled
  <2>2. QED
    BY <1>1, <2>1, FilledUndisturbed
<1>4. ASSUME NEW d \in Dispatchers, Dispatch(d) PROVE NoLostWakeupFilled'
  <2>1. CASE WaitFreed(d) \/ \E r \in Requests : Receive(d, r)
    <3>1. /\ num_requests_in_queue' = num_requests_in_queue
          /\ Looking(Workers) \subseteq Looking(Workers)'
          /\ Signalling(Dispatchers) \subseteq Signalling(Dispatchers)'
          /\ filled' # {} => filled # {}
      BY <1>1, <2>1 DEF WaitFreed, Receive, Looking, Signalling, filled
    <3>2. QED
      BY <1>1, <3>1, FilledUndisturbed
  <2>2. CASE Store(d)
    <3>1. /\ Looking(Workers)' = Looking(Workers)
          /\ Signalling(Dispatchers)' = Signalling(Dispatchers) \cup {d}
          /\ d \notin Signalling(Dispatchers)
          /\ filled' = filled
          /\ num_requests_in_queue' = num_requests_in_queue + 1
      BY <1>1, <2>2 DEF Store, Looking, Signalling, filled
    <3>2. Cardinality(Signalling(Dispatchers)')
            = Cardinality(Signalling(Dispatchers)) + 1
      BY <3>1, Counts DEF Signalling
    <3>3. QED
      BY <1>1, <1>2, <3>1, <3>2 DEF NoLostWakeupFilled
  <2>3. CASE SignalFilled(d)
    <3>1. CASE filled = {}
      <4>1. filled' = {}
        BY <1>1, <2>3, <3>1 DEF SignalFilled, Signal, filled
      <4>2. QED
        BY <4>1 DEF NoLostWakeupFilled
    <3>2. CASE filled # {}
      <4>1. PICK u \in filled :
              pc' = [pc EXCEPT ![d] = "accept", ![u] = "lock"]
        BY <2>3, <3>2 DEF SignalFilled, Signal
      <4>2. /\ Looking(Workers)' = Looking(Workers) \cup {u}
            /\ u \notin Looking(Workers)
            /\ Signalling(Dispatchers)' = Signalling(Dispatchers) \ {d}
            /\ d \in Signalling(Dispatchers)
            /\ num_requests_in_queue' = num_requests_in_queue
        BY <1>1, <2>3, <4>1 DEF SignalFilled, Signal, Looking, Signalling, filled
      <4>3. /\ Cardinality(Looking(Workers)') = Cardinality(Looking(Workers)) + 1
            /\ Cardinality(Signalling(Dispatchers)')
                 = Cardinality(Signalling(Dispatchers)) - 1
        BY <4>2, Counts DEF Looking, Signalling
      <4>4. QED
        BY <1>1, <1>2, <3>2, <4>2, <4>3 DEF NoLostWakeupFilled
    <3>3. QED
      BY <3>1, <3>2
  <2>4. QED
    BY <1>4, <2>1, <2>2, <2>3 DEF Dispatch
<1>5. ASSUME NEW w \in Workers, Work(w) PROVE NoLostWakeupFilled'
  <2>1. CASE WaitFilled(w)
    BY <1>1, <1>2, <2>1 DEF WaitFilled, Empty, NoLostWakeupFilled
  <2>2. CASE Take(w)
    <3>1. /\ Looking(Workers)' = Looking(Workers) \ {w}
          /\ w \in Looking(Workers)
          /\ Signalling(Dispatchers)' = Signalling(Dispatchers)
          /\ filled' = filled
          /\ num_requests_in_queue' = num_requests_in_queue - 1
      BY <1>1, <2>2 DEF Take, Looking, Signalling, filled
    <3>2. Cardinality(Looking(Workers)') = Cardinality(Looking(Workers)) - 1
      BY <3>1, Counts DEF Looking
    <3>3. QED
      BY <1>1, <1>2, <3>1, <3>2 DEF NoLostWakeupFilled
  <2>3. CASE SignalFreed(w) \/ Serve(w)
    <3>1. /\ num_requests_in_queue' = num_requests_in_queue
          /\ Looking(Workers) \subseteq Looking(Workers)'
          /\ Signalling(Dispatchers) \subseteq Signalling(Dispatchers)'
          /\ filled' # {} => filled # {}
      BY <1>1, <2>3 DEF SignalFreed, Signal, Serve, Looking, Signalling, filled, freed
    <3>2. QED
      BY <1>1, <3>1, FilledUndisturbed
  <2>4. QED
    BY <1>5, <2>1, <2>2, <2>3 DEF Work
<1>6. CASE UNCHANGED vars
  BY <1>6 DEF vars, NoLostWakeupFilled, filled, Looking, Signalling
<1>7. QED
  BY <1>3, <1>4, <1>5, <1>6 DEF Next

(* No wakeup of a dispatcher is lost. *)
LEMMA FreedStep == IInv /\ NoLostWakeupFreed /\ [Next]_vars => NoLostWakeupFreed'
<1> SUFFICES ASSUME IInv, NoLostWakeupFreed, [Next]_vars PROVE NoLostWakeupFreed'
  OBVIOUS
<1>1. TypeOK
  BY DEF IInv
<1>2. /\ Cardinality(Looking(Dispatchers)) \in Nat
      /\ Cardinality(Signalling(Workers)) \in Nat
      /\ Cardinality(Looking(Dispatchers)') \in Nat
      /\ Cardinality(Signalling(Workers)') \in Nat
  BY Counts DEF Looking, Signalling
<1> USE DEF TypeOK, Labels, Goto, queueVars
<1>3. ASSUME NEW t \in Threads, Common(t) PROVE NoLostWakeupFreed'
  <2>1. /\ num_requests_in_queue' = num_requests_in_queue
        /\ Looking(Dispatchers) \subseteq Looking(Dispatchers)'
        /\ Signalling(Workers) \subseteq Signalling(Workers)'
        /\ freed' # {} => freed # {}
    BY <1>1, <1>3 DEF Common, Lock, LeaveLoop, Unlock, SpuriousWakeup,
                      Looking, Signalling, freed
  <2>2. QED
    BY <1>1, <2>1, FreedUndisturbed
<1>4. ASSUME NEW w \in Workers, Work(w) PROVE NoLostWakeupFreed'
  <2>1. CASE WaitFilled(w) \/ Serve(w)
    <3>1. /\ num_requests_in_queue' = num_requests_in_queue
          /\ Looking(Dispatchers) \subseteq Looking(Dispatchers)'
          /\ Signalling(Workers) \subseteq Signalling(Workers)'
          /\ freed' # {} => freed # {}
      BY <1>1, <2>1 DEF WaitFilled, Serve, Looking, Signalling, freed
    <3>2. QED
      BY <1>1, <3>1, FreedUndisturbed
  <2>2. CASE Take(w)
    <3>1. /\ Looking(Dispatchers)' = Looking(Dispatchers)
          /\ Signalling(Workers)' = Signalling(Workers) \cup {w}
          /\ w \notin Signalling(Workers)
          /\ freed' = freed
          /\ num_requests_in_queue' = num_requests_in_queue - 1
      BY <1>1, <2>2 DEF Take, Looking, Signalling, freed
    <3>2. Cardinality(Signalling(Workers)') = Cardinality(Signalling(Workers)) + 1
      BY <3>1, Counts DEF Signalling
    <3>3. QED
      BY <1>1, <1>2, <3>1, <3>2 DEF NoLostWakeupFreed
  <2>3. CASE SignalFreed(w)
    <3>1. CASE freed = {}
      <4>1. freed' = {}
        BY <1>1, <2>3, <3>1 DEF SignalFreed, Signal, freed
      <4>2. QED
        BY <4>1 DEF NoLostWakeupFreed
    <3>2. CASE freed # {}
      <4>1. PICK u \in freed :
              pc' = [pc EXCEPT ![w] = "serve", ![u] = "lock"]
        BY <2>3, <3>2 DEF SignalFreed, Signal
      <4>2. /\ Looking(Dispatchers)' = Looking(Dispatchers) \cup {u}
            /\ u \notin Looking(Dispatchers)
            /\ Signalling(Workers)' = Signalling(Workers) \ {w}
            /\ w \in Signalling(Workers)
            /\ num_requests_in_queue' = num_requests_in_queue
        BY <1>1, <2>3, <4>1 DEF SignalFreed, Signal, Looking, Signalling, freed
      <4>3. /\ Cardinality(Looking(Dispatchers)')
                 = Cardinality(Looking(Dispatchers)) + 1
            /\ Cardinality(Signalling(Workers)') = Cardinality(Signalling(Workers)) - 1
        BY <4>2, Counts DEF Looking, Signalling
      <4>4. QED
        BY <1>1, <1>2, <3>2, <4>2, <4>3 DEF NoLostWakeupFreed
    <3>3. QED
      BY <3>1, <3>2
  <2>4. QED
    BY <1>4, <2>1, <2>2, <2>3 DEF Work
<1>5. ASSUME NEW d \in Dispatchers, Dispatch(d) PROVE NoLostWakeupFreed'
  <2>1. CASE WaitFreed(d)
    BY <1>1, <1>2, <2>1 DEF WaitFreed, Full, NoLostWakeupFreed
  <2>2. CASE Store(d)
    <3>1. /\ Looking(Dispatchers)' = Looking(Dispatchers) \ {d}
          /\ d \in Looking(Dispatchers)
          /\ Signalling(Workers)' = Signalling(Workers)
          /\ freed' = freed
          /\ num_requests_in_queue' = num_requests_in_queue + 1
      BY <1>1, <2>2 DEF Store, Looking, Signalling, freed
    <3>2. Cardinality(Looking(Dispatchers)') = Cardinality(Looking(Dispatchers)) - 1
      BY <3>1, Counts DEF Looking
    <3>3. QED
      BY <1>1, <1>2, <3>1, <3>2 DEF NoLostWakeupFreed
  <2>3. CASE SignalFilled(d) \/ \E r \in Requests : Receive(d, r)
    <3>1. /\ num_requests_in_queue' = num_requests_in_queue
          /\ Looking(Dispatchers) \subseteq Looking(Dispatchers)'
          /\ Signalling(Workers) \subseteq Signalling(Workers)'
          /\ freed' # {} => freed # {}
      BY <1>1, <2>3 DEF SignalFilled, Signal, Receive, Looking, Signalling, filled, freed
    <3>2. QED
      BY <1>1, <3>1, FreedUndisturbed
  <2>4. QED
    BY <1>5, <2>1, <2>2, <2>3 DEF Dispatch
<1>6. CASE UNCHANGED vars
  BY <1>6 DEF vars, NoLostWakeupFreed, freed, Looking, Signalling
<1>7. QED
  BY <1>3, <1>4, <1>5, <1>6 DEF Next

(* No wakeup is lost, although both signals are sent after mtx has been    *)
(* released (server.c:256-257, 296-297): for any number of dispatchers and *)
(* workers, whoever sleeps has no work that nobody else is about to see to.*)
THEOREM WakeupsAreNotLost == Spec => []NoLostWakeup
<1>1. Init => NoLostWakeup
  BY DEF Init, NoLostWakeup, NoLostWakeupFilled, NoLostWakeupFreed, filled, freed
<1>2. IInv /\ NoLostWakeup /\ [Next]_vars => NoLostWakeup'
  BY FilledStep, FreedStep DEF NoLostWakeup
<1>3. QED
  BY QueueInvariant, <1>1, <1>2, PTL DEF Spec

(* The pool never falls asleep as a whole: were every thread asleep, the   *)
(* counter would have to be both 0 and QueueSize.                          *)
THEOREM PoolStaysAwake == Spec => []SomeoneAwake
<1>1. IInv /\ NoLostWakeup => SomeoneAwake
  <2> SUFFICES ASSUME IInv, NoLostWakeup, \A t \in Threads : pc[t] = "wait"
               PROVE  FALSE
    BY DEF SomeoneAwake
  <2>1. \A T \in SUBSET Threads : Looking(T) = {} /\ Signalling(T) = {}
    BY DEF Looking, Signalling
  <2>2. filled # {} /\ freed # {}
    BY DEF filled, freed
  <2>3. num_requests_in_queue <= 0 + 0 /\ QueueSize - num_requests_in_queue <= 0 + 0
    <3>1. Cardinality({}) = 0
      BY FS_EmptySet
    <3>2. /\ Looking(Workers) = {} /\ Signalling(Dispatchers) = {}
          /\ Looking(Dispatchers) = {} /\ Signalling(Workers) = {}
      BY <2>1
    <3>3. QED
      BY <2>2, <3>1, <3>2 DEF NoLostWakeup, NoLostWakeupFilled, NoLostWakeupFreed
  <2>4. QED
    BY <2>3 DEF IInv, TypeOK
<1>2. QED
  BY QueueInvariant, WakeupsAreNotLost, <1>1, PTL

-----------------------------------------------------------------------------
(* The refinement of the bounded FIFO queue. *)
Values == Requests \cup {NoRequest}

(* The ring's contents are a sequence of as many requests as it counts. *)
LEMMA ContentsIsASeq ==
  ASSUME TypeOK
  PROVE  /\ Contents \in Seq(Values)
         /\ Len(Contents) = num_requests_in_queue
         /\ \A k \in 1 .. num_requests_in_queue :
              Contents[k] = requests[QueuedSlot(k - 1)]
<1>1. num_requests_in_queue \in Nat /\ num_requests_in_queue <= QueueSize
  BY DEF TypeOK
<1>2. ASSUME NEW k \in 1 .. num_requests_in_queue
      PROVE  requests[QueuedSlot(k - 1)] \in Values
  <2>1. k - 1 \in 0 .. QueueSize
    BY <1>1
  <2>2. QueuedSlot(k - 1) \in Slots
    BY <2>1, SlotFacts
  <2>3. QED
    BY <2>2 DEF TypeOK, Values
<1>3. Contents \in [1 .. num_requests_in_queue -> Values]
  BY <1>2 DEF Contents
<1>4. QED
  BY <1>1, <1>3 DEF Contents

(* Storing appends the dispatcher's request to the contents. *)
LEMMA StoreAppends ==
  ASSUME IInv, IInv', NEW d \in Dispatchers, Store(d)
  PROVE  Contents' = Append(Contents, request[d])
<1> USE DEF IInv, TypeOK
<1>1. num_requests_in_queue \in 0 .. QueueSize - 1
  BY DEF Store, StillTrueWhenUsed, Full
<1>2. /\ Contents \in Seq(Values)
      /\ Len(Contents) = num_requests_in_queue
      /\ \A k \in 1 .. num_requests_in_queue :
           Contents[k] = requests[QueuedSlot(k - 1)]
  BY ContentsIsASeq
<1>3. request[d] \in Values
  BY DEF Values
<1> DEFINE n == num_requests_in_queue + 1
<1>5. /\ Append(Contents, request[d]) \in Seq(Values)
      /\ Len(Append(Contents, request[d])) = n
      /\ \A k \in 1 .. num_requests_in_queue :
           Append(Contents, request[d])[k] = requests[QueuedSlot(k - 1)]
      /\ Append(Contents, request[d])[n] = request[d]
  BY <1>2, <1>3, AppendProperties
<1>6. num_requests_in_queue' = n /\ next_slot_to_service' = next_slot_to_service
  BY DEF Store
<1>7. ASSUME NEW k \in 1 .. n
      PROVE  requests'[QueuedSlot(k - 1)] = Append(Contents, request[d])[k]
  <2>1. k - 1 \in 0 .. QueueSize - 1 /\ QueuedSlot(k - 1) \in Slots
    <3>1. k - 1 \in 0 .. QueueSize - 1
      BY <1>1
    <3>2. QED
      BY <3>1, SlotFacts
  <2>2. next_slot_to_store = QueuedSlot(num_requests_in_queue)
    BY DEF RingConsistent
  <2>3. CASE k = n
    BY <1>1, <1>5, <2>1, <2>2, <2>3 DEF Store
  <2>4. CASE k # n
    <3>1. k \in 1 .. num_requests_in_queue /\ k - 1 # num_requests_in_queue
      BY <1>1, <2>4
    <3>2. QueuedSlot(k - 1) # next_slot_to_store
      BY <1>1, <2>1, <2>2, <3>1, SlotFacts
    <3>3. QED
      BY <1>5, <2>1, <3>1, <3>2 DEF Store
  <2>5. QED
    BY <2>3, <2>4
<1>8. Contents' = [k \in 1 .. n |-> requests'[QueuedSlot(k - 1)]]
  BY <1>6 DEF Contents, QueuedSlot
<1>9. Append(Contents, request[d])
        = [k \in 1 .. n |-> Append(Contents, request[d])[k]]
  BY <1>1, <1>5
<1>10. QED
  BY <1>7, <1>8, <1>9

(* Taking removes the oldest request from the contents. *)
LEMMA TakeBeheads ==
  ASSUME IInv, IInv', NEW w \in Workers, Take(w)
  PROVE  /\ Contents # <<>>
         /\ request'[w] = Head(Contents)
         /\ Contents' = Tail(Contents)
<1> USE DEF IInv, TypeOK
<1>1. num_requests_in_queue \in 1 .. QueueSize
  BY DEF Take, StillTrueWhenUsed, Empty
<1>2. /\ Contents \in Seq(Values)
      /\ Len(Contents) = num_requests_in_queue
      /\ \A k \in 1 .. num_requests_in_queue :
           Contents[k] = requests[QueuedSlot(k - 1)]
  BY ContentsIsASeq
<1>3. Contents # <<>>
  BY <1>1, <1>2
<1>4. request'[w] = Head(Contents)
  <2>1. Head(Contents) = Contents[1]
    BY <1>2, <1>3
  <2>2. Contents[1] = requests[QueuedSlot(0)]
    BY <1>1, <1>2
  <2>3. QED
    BY <2>1, <2>2, SlotFacts DEF Take
<1> DEFINE n == num_requests_in_queue - 1
<1>5. /\ Tail(Contents) \in Seq(Values)
      /\ Len(Tail(Contents)) = n
      /\ \A k \in 1 .. n : Tail(Contents)[k] = Contents[k + 1]
  BY <1>2, <1>3, HeadTailProperties
<1>6. num_requests_in_queue' = n /\ requests' = requests
  BY DEF Take
<1>7. ASSUME NEW k \in 1 .. n
      PROVE  requests[(next_slot_to_service' + (k - 1)) % QueueSize] = Tail(Contents)[k]
  <2>1. k - 1 \in 0 .. QueueSize - 1 /\ (k - 1) + 1 = k /\ k + 1 \in 1 .. num_requests_in_queue
    BY <1>1
  <2>2. (next_slot_to_service' + (k - 1)) % QueueSize = QueuedSlot((k - 1) + 1)
    BY <2>1, SlotFacts DEF Take
  <2>3. Contents[k + 1] = requests[QueuedSlot((k + 1) - 1)]
    BY <1>2, <2>1
  <2>4. (k + 1) - 1 = (k - 1) + 1
    BY <2>1
  <2>5. QED
    BY <1>5, <2>2, <2>3, <2>4
<1>8. Contents' = [k \in 1 .. n |-> requests[(next_slot_to_service' + (k - 1)) % QueueSize]]
  BY <1>6 DEF Contents, QueuedSlot
<1>9. Tail(Contents) = [k \in 1 .. n |-> Tail(Contents)[k]]
  <2>1. Tail(Contents) \in [1 .. n -> Values]
    BY <1>5, LenProperties
  <2>2. QED
    BY <2>1
<1>10. QED
  BY <1>3, <1>4, <1>7, <1>8, <1>9

(* Every step of the threads is a step of the FIFO queue or none at all.   *)
LEMMA RefinementStep == IInv /\ IInv' /\ [Next]_vars => [F!Next]_F!vars
<1> SUFFICES ASSUME IInv, IInv', [Next]_vars PROVE [F!Next]_F!vars
  OBVIOUS
<1>1. TypeOK /\ NoGarbage
  BY DEF IInv
<1> DEFINE off == [d \in Dispatchers |-> IF Offering(d) THEN request[d] ELSE NoRequest]
           tak == [w \in Workers |-> IF Holding(w) THEN request[w] ELSE NoRequest]
<1>2. ASSUME UNCHANGED queueVars PROVE Contents' = Contents
  BY <1>2 DEF Contents, QueuedSlot, queueVars
<1>3. ASSUME UNCHANGED <<Contents, off, tak>> PROVE [F!Next]_F!vars
  BY <1>3 DEF F!vars
<1>4. ASSUME NEW t \in Threads, Common(t) PROVE [F!Next]_F!vars
  <2>1. UNCHANGED queueVars
    BY <1>4 DEF Common, Lock, LeaveLoop, Unlock, SpuriousWakeup
  <2>2. UNCHANGED off
    BY <1>1, <1>4 DEF TypeOK, Labels, Goto, Offering,
                      Common, Lock, LeaveLoop, Unlock, SpuriousWakeup
  <2>3. UNCHANGED tak
    BY <1>1, <1>4 DEF TypeOK, Labels, Goto, Holding,
                      Common, Lock, LeaveLoop, Unlock, SpuriousWakeup
  <2>4. QED
    BY <1>2, <1>3, <2>1, <2>2, <2>3
<1>5. ASSUME NEW d \in Dispatchers, Dispatch(d) PROVE [F!Next]_F!vars
  <2>1. ASSUME NEW r \in Requests, Receive(d, r) PROVE [F!Next]_F!vars
    <3>1. UNCHANGED <<Contents, tak>>
      BY <1>1, <1>2, <2>1 DEF Receive, Goto, TypeOK, Holding
    <3>2. off[d] = NoRequest /\ off' = [off EXCEPT ![d] = r]
      BY <1>1, <2>1 DEF Receive, Goto, TypeOK, Offering
    <3>3. F!Offer(d, r)
      BY <3>1, <3>2 DEF F!Offer
    <3>4. QED
      BY <3>3 DEF F!Next
  <2>2. CASE Store(d)
    <3>1. UNCHANGED tak
      BY <1>1, <2>2 DEF Store, Goto, TypeOK, Holding
    <3>2. /\ off[d] = request[d] /\ off[d] # NoRequest
          /\ off' = [off EXCEPT ![d] = NoRequest]
      BY <1>1, <2>2 DEF Store, Goto, TypeOK, Offering, NoGarbage
    <3>3. Len(Contents) < QueueSize
      BY <1>1, <2>2, ContentsIsASeq DEF Store, IInv, TypeOK, StillTrueWhenUsed, Full
    <3>4. Contents' = Append(Contents, off[d])
      BY <2>2, <3>2, StoreAppends
    <3>5. F!Put(d)
      BY <3>1, <3>2, <3>3, <3>4 DEF F!Put
    <3>6. QED
      BY <3>5 DEF F!Next
  <2>3. CASE WaitFreed(d) \/ SignalFilled(d)
    <3>1. UNCHANGED Contents
      BY <1>2, <2>3 DEF WaitFreed, SignalFilled, Signal
    <3>2. UNCHANGED off
      BY <1>1, <2>3 DEF TypeOK, Goto, Offering, WaitFreed, SignalFilled, Signal, filled
    <3>3. UNCHANGED tak
      BY <1>1, <2>3 DEF TypeOK, Goto, Holding, WaitFreed, SignalFilled, Signal, filled
    <3>4. QED
      BY <1>3, <3>1, <3>2, <3>3
  <2>4. QED
    BY <1>5, <2>1, <2>2, <2>3 DEF Dispatch
<1>6. ASSUME NEW w \in Workers, Work(w) PROVE [F!Next]_F!vars
  <2>1. CASE Take(w)
    <3>1. UNCHANGED off
      BY <1>1, <2>1 DEF Take, Goto, TypeOK, Offering
    <3>2. tak[w] = NoRequest /\ tak' = [tak EXCEPT ![w] = request'[w]]
      BY <1>1, <2>1 DEF Take, Goto, TypeOK, Holding
    <3>3. Contents # <<>> /\ request'[w] = Head(Contents) /\ Contents' = Tail(Contents)
      BY <2>1, TakeBeheads
    <3>4. F!Get(w)
      BY <3>1, <3>2, <3>3 DEF F!Get
    <3>5. QED
      BY <3>4 DEF F!Next
  <2>2. CASE Serve(w)
    <3>1. UNCHANGED <<Contents, off>>
      BY <1>1, <1>2, <2>2 DEF Serve, Goto, TypeOK, Offering
    <3>2. tak[w] # NoRequest /\ tak' = [tak EXCEPT ![w] = NoRequest]
      BY <1>1, <2>2 DEF Serve, Goto, TypeOK, Holding, NoGarbage
    <3>3. F!Finish(w)
      BY <3>1, <3>2 DEF F!Finish
    <3>4. QED
      BY <3>3 DEF F!Next
  <2>3. CASE WaitFilled(w) \/ SignalFreed(w)
    <3>1. UNCHANGED Contents
      BY <1>2, <2>3 DEF WaitFilled, SignalFreed, Signal
    <3>2. UNCHANGED off
      BY <1>1, <2>3 DEF TypeOK, Goto, Offering, WaitFilled, SignalFreed, Signal, freed
    <3>3. UNCHANGED tak
      BY <1>1, <2>3 DEF TypeOK, Goto, Holding, WaitFilled, SignalFreed, Signal, freed
    <3>4. QED
      BY <1>3, <3>1, <3>2, <3>3
  <2>4. QED
    BY <1>6, <2>1, <2>2, <2>3 DEF Work
<1>7. CASE UNCHANGED vars
  <2>1. UNCHANGED <<Contents, off, tak>>
    BY <1>2, <1>7 DEF vars, queueVars, Offering, Holding
  <2>2. QED
    BY <1>3, <2>1
<1>8. QED
  BY <1>4, <1>5, <1>6, <1>7 DEF Next

(* The ring buffer with its mutex and condition variables is a bounded     *)
(* first-in first-out queue, for any number of threads and any length:     *)
(* requests leave in the order in which they entered, each exactly once    *)
(* (server.c:243-257, 283-297).                                            *)
THEOREM QueueIsFifo == Spec => Refinement
<1>1. Init => F!Init
  BY DEF Init, F!Init, Contents, Offering, Holding
<1>2. QED
  BY QueueInvariant, RefinementStep, <1>1, PTL DEF Spec, Refinement, F!Spec
=============================================================================
