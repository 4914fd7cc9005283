-------------------------- MODULE FileCacheProofs --------------------------
(***************************************************************************)
(* Proofs about FileCache, for any number of workers, any files and any    *)
(* size of the cache.                                                      *)
(***************************************************************************)
EXTENDS FileCache, FiniteSetTheorems, SequenceTheorems, TLAPS

(* A victim is looked for only in a full cache. *)
ScanFull == \A w \in Workers : pc[w] = "scan" => num_cache_entries = CacheSize

(* The inductive invariant.  Mutual exclusion keeps entries still between  *)
(* the steps of a critical section; that the filled slots are the first    *)
(* ones makes every slot that is looked at an entry.                       *)
IInv ==
  /\ TypeOK
  /\ SlotsAgree
  /\ MutualExclusion
  /\ ScanFull
  /\ HitStable
  /\ ScanFindsLeastUsed

USE CacheAssumption

(* A buffer of n bytes is read, whatever the length of the file. *)
LEMMA BytesReadType ==
  ASSUME NEW n \in Nat, NEW c \in Seq(Nat)
  PROVE  BytesRead(n, c) \in Seq(Nat) /\ Len(BytesRead(n, c)) = n
<1>1. BytesRead(n, c) \in [1 .. n -> Nat]
  <2>1. ASSUME NEW k \in 1 .. n PROVE (IF k <= Len(c) THEN c[k] ELSE 0) \in Nat
    BY ElementOfSeq, LenProperties
  <2>2. QED
    BY <2>1 DEF BytesRead
<1>2. QED
  BY <1>1 DEF BytesRead

(* initCache()'s empty cache satisfies the invariant. *)
LEMMA InitIInv == Init => IInv
<1> SUFFICES ASSUME Init PROVE IInv
  OBVIOUS
<1> USE DEF Init
<1>1. TypeOK
  <2>1. <<>> \in Seq(Nat)
    OBVIOUS
  <2>2. past \in [Files -> SUBSET FileStates]
    OBVIOUS
  <2>3. QED
    BY <2>1, <2>2 DEF TypeOK, Slots
<1>2. SlotsAgree
  BY DEF SlotsAgree, Slots
<1>3. MutualExclusion /\ ScanFull /\ HitStable /\ ScanFindsLeastUsed
  BY DEF MutualExclusion, ScanFull, HitStable, ScanFindsLeastUsed
<1>4. QED
  BY <1>1, <1>2, <1>3 DEF IInv

(* An index in range is its own remainder. *)
LEMMA ModSmall ==
  ASSUME NEW n \in Nat \ {0}, NEW a \in 0 .. n - 1
  PROVE  a % n = a
  OBVIOUS

(* A hit changes nothing of an entry but its frequency. *)
LEMMA Counted ==
  ASSUME NEW e \in Entry
  PROVE  /\ [e EXCEPT !.freq_used = @ + 1] \in Entry
         /\ [e EXCEPT !.freq_used = @ + 1].request = e.request
         /\ [e EXCEPT !.freq_used = @ + 1].content = e.content
  BY DEF Entry

(* Slots that a worker looks at hold entries. *)
LEMMA FilledSlots ==
  ASSUME IInv
  PROVE  /\ \A k \in 0 .. num_cache_entries - 1 : k \in Slots /\ entries[k] \in Entry
         /\ num_cache_entries < CacheSize => next_slot_to_store = num_cache_entries
         /\ num_cache_entries = CacheSize => \A k \in Slots : entries[k] \in Entry
<1> USE DEF IInv, TypeOK, SlotsAgree, Slots
<1>1. \A k \in 0 .. num_cache_entries - 1 : k \in Slots /\ entries[k] \in Entry
  OBVIOUS
<1>2. ASSUME num_cache_entries < CacheSize PROVE next_slot_to_store = num_cache_entries
  <2>1. num_cache_entries \in 0 .. CacheSize - 1
    BY <1>2
  <2>2. QED
    BY <2>1, ModSmall
<1>3. QED
  BY <1>1, <1>2

(* No step leaves the types: indices stay slots, buffers bytes. *)
LEMMA TypeStep == IInv /\ [Next]_vars => TypeOK'
<1> SUFFICES ASSUME IInv, [Next]_vars PROVE TypeOK'
  OBVIOUS
<1>0. TypeOK
  BY DEF IInv
<1> USE DEF TypeOK, Goto, cacheVars, diskVars
<1>1. ASSUME NEW w \in Workers, Serve(w) PROVE TypeOK'
  <2>1. CASE Hit(w)
    <3>1. PICK k \in CachedAt(request[w]) :
            /\ cacheIndex' = [cacheIndex EXCEPT ![w] = k]
            /\ entries' = [entries EXCEPT ![k].freq_used = @ + 1]
      BY <2>1 DEF Hit
    <3>2. k \in Slots /\ entries[k] \in Entry
      BY FilledSlots DEF CachedAt
    <3>3. [entries[k] EXCEPT !.freq_used = @ + 1] \in Entry
      BY <3>2 DEF Entry
    <3>4. entries' \in [Slots -> Entry \cup {NoEntry}]
      BY <1>0, <3>1, <3>2, <3>3
    <3>5. QED
      BY <1>0, <2>1, <3>1, <3>2, <3>4 DEF Hit
  <2>2. CASE Miss(w)
    BY <1>0, <2>2 DEF Miss
  <2>3. CASE Copy(w)
    <3>1. entries[cacheIndex[w]] \in Entry
      BY <2>3, FilledSlots DEF Copy, IInv, HitStable
    <3>2. /\ entries[cacheIndex[w]].content \in Seq(Nat)
          /\ Len(entries[cacheIndex[w]].content) \in Nat
      BY <3>1, LenProperties DEF Entry
    <3>3. QED
      BY <1>0, <2>3, <3>2 DEF Copy
  <2>4. CASE SendHit(w)
    BY <1>0, <2>4 DEF SendHit
  <2>5. CASE Stat(w)
    <3>1. CASE SendError(w)
      BY <1>0, <2>5, <3>1 DEF Stat, SendError
    <3>2. CASE ~SendError(w)
      <4>1. PICK n \in Sizes(disk[request[w]]) : size' = [size EXCEPT ![w] = n]
        BY <2>5, <3>2 DEF Stat
      <4>2. n \in Nat
        <5>1. \A c \in Contents : Len(c) \in Nat
          BY LenProperties
        <5>2. QED
          BY <4>1, <5>1 DEF Sizes
      <4>3. QED
        BY <1>0, <2>5, <3>2, <4>1, <4>2 DEF Stat
    <3>3. QED
      BY <3>1, <3>2
  <2>6. CASE Read(w)
    <3>1. CASE SendError(w)
      BY <1>0, <2>6, <3>1 DEF Read, SendError
    <3>2. CASE ~SendError(w)
      <4>1. BytesRead(size[w], disk[request[w]]) \in Seq(Nat)
        BY <1>0, <2>6, <3>2, BytesReadType DEF Read
      <4>2. /\ buf' = [buf EXCEPT ![w] = BytesRead(size[w], disk[request[w]])]
            /\ pc' = [pc EXCEPT ![w] = "insert"]
            /\ UNCHANGED <<cacheVars, cacheMtx, diskVars, request, cacheIndex,
                           size, i, evict, reply>>
        BY <2>6, <3>2 DEF Read
      <4>3. QED
        BY <1>0, <4>1, <4>2
    <3>3. QED
      BY <3>1, <3>2
  <2>7. CASE Fill(w)
    <3>1. NewEntry(w) \in Entry
      BY <1>0 DEF NewEntry, Entry
    <3>2. next_slot_to_store' \in Slots /\ num_cache_entries' \in 0 .. CacheSize
      BY <1>0, <2>7 DEF Fill, NextSlot, Slots
    <3>3. QED
      BY <1>0, <2>7, <3>1, <3>2 DEF Fill, NextSlot
  <2>8. CASE BeginScan(w)
    <3>1. entries[0] \in Entry /\ 0 \in Slots /\ 1 \in 0 .. CacheSize
      BY <2>8, FilledSlots DEF BeginScan, Slots
    <3>2. [index |-> 0, freq_used |-> entries[0].freq_used]
            \in [index : Slots, freq_used : Nat]
      BY <3>1 DEF Entry
    <3>3. QED
      BY <1>0, <2>8, <3>1, <3>2 DEF BeginScan
  <2>9. CASE Scan(w)
    <3>1. i[w] \in Slots /\ entries[i[w]] \in Entry /\ i[w] + 1 \in 0 .. CacheSize
      <4>1. num_cache_entries = CacheSize
        BY <2>9 DEF Scan, Better, IInv, ScanFull
      <4>2. i[w] \in Slots /\ i[w] + 1 \in 0 .. CacheSize
        <5> HIDE DEF TypeOK, Goto, cacheVars, diskVars
        <5>1. i[w] \in 0 .. CacheSize /\ CacheSize \in Nat
          BY <1>0 DEF TypeOK
        <5>2. i[w] < CacheSize
          BY <2>9 DEF Scan, Better
        <5>3. QED
          BY <5>1, <5>2 DEF Slots
      <4>3. QED
        BY <4>1, <4>2, FilledSlots
    <3>2. [index |-> i[w], freq_used |-> entries[i[w]].freq_used]
            \in [index : Slots, freq_used : Nat]
      BY <3>1 DEF Entry
    <3>3. QED
      BY <1>0, <2>9, <3>1, <3>2 DEF Scan, Better
  <2>10. CASE Replace(w)
    <3>1. NewEntry(w) \in Entry
      BY <1>0 DEF NewEntry, Entry
    <3>2. QED
      BY <1>0, <2>10, <3>1 DEF Replace
  <2>11. CASE SendMiss(w)
    BY <1>0, <2>11 DEF SendMiss
  <2>12. CASE Log(w)
    <3>1. [index |-> 0, freq_used |-> 0] \in [index : Slots, freq_used : Nat]
      BY DEF Slots
    <3>2. reply' \in [Workers -> Seq(Nat) \cup {Error, NoReply}]
      BY <1>0, <2>12 DEF Log
    <3>3. cacheIndex' \in [Workers -> Slots \cup {-1}] /\ i' \in [Workers -> 0 .. CacheSize]
      BY <1>0, <2>12 DEF Log
    <3>4. size' \in [Workers -> Nat] /\ buf' \in [Workers -> Seq(Nat)]
      BY <1>0, <2>12 DEF Log
    <3>5. evict' \in [Workers -> [index : Slots, freq_used : Nat]]
      BY <1>0, <2>12, <3>1 DEF Log
    <3>6. QED
      BY <1>0, <2>12, <3>2, <3>3, <3>4, <3>5 DEF Log
  <2>13. QED
    BY <1>1, <2>1, <2>2, <2>3, <2>4, <2>5, <2>6, <2>7, <2>8, <2>9, <2>10,
       <2>11, <2>12 DEF Serve
<1>2. ASSUME NEW w \in Workers, NEW f \in Files, Start(w, f) PROVE TypeOK'
  BY <1>0, <1>2 DEF Start
<1>3. ASSUME NEW f \in Files, NEW s \in FileStates, Modify(f, s) PROVE TypeOK'
  BY <1>0, <1>3 DEF Modify
<1>4. CASE UNCHANGED vars
  BY <1>0, <1>4 DEF vars
<1>5. QED
  BY <1>1, <1>2, <1>3, <1>4 DEF Next

(* The actions that leave the cache, the mutex and the scans alone. *)
Aside(w) ==
  \/ Miss(w) \/ Stat(w) \/ Read(w) \/ SendMiss(w) \/ Log(w)
  \/ \E f \in Files : Start(w, f)

(* Steps outside the critical sections leave the cache and its mutex alone. *)
LEMMA AsideFrame ==
  ASSUME IInv, NEW w \in Workers, Aside(w)
  PROVE  /\ UNCHANGED <<cacheVars, cacheMtx>>
         /\ pc[w] \notin {"copy", "send_hit", "scan"}
         /\ pc'[w] \notin {"copy", "send_hit", "scan"}
         /\ \A v \in Workers \ {w} :
              /\ pc'[v] = pc[v] /\ request'[v] = request[v]
              /\ cacheIndex'[v] = cacheIndex[v] /\ buf'[v] = buf[v]
              /\ i'[v] = i[v] /\ evict'[v] = evict[v]
<1> USE DEF IInv, TypeOK, Goto, cacheVars
<1>1. CASE Miss(w)
  BY <1>1 DEF Miss
<1>2. CASE Stat(w)
  <2>1. CASE SendError(w)
    BY <1>2, <2>1 DEF Stat, SendError
  <2>2. CASE ~SendError(w)
    BY <1>2, <2>2 DEF Stat
  <2>3. QED
    BY <2>1, <2>2
<1>3. CASE Read(w)
  <2>1. CASE SendError(w)
    BY <1>3, <2>1 DEF Read, SendError
  <2>2. CASE ~SendError(w)
    BY <1>3, <2>2 DEF Read
  <2>3. QED
    BY <2>1, <2>2
<1>4. CASE SendMiss(w)
  BY <1>4 DEF SendMiss
<1>5. CASE Log(w)
  BY <1>5 DEF Log
<1>6. ASSUME NEW f \in Files, Start(w, f)
      PROVE  /\ UNCHANGED <<cacheVars, cacheMtx>>
             /\ pc[w] \notin {"copy", "send_hit", "scan"}
             /\ pc'[w] \notin {"copy", "send_hit", "scan"}
             /\ \A v \in Workers \ {w} :
                  /\ pc'[v] = pc[v] /\ request'[v] = request[v]
                  /\ cacheIndex'[v] = cacheIndex[v] /\ buf'[v] = buf[v]
                  /\ i'[v] = i[v] /\ evict'[v] = evict[v]
  BY <1>6 DEF Start
<1>7. QED
  BY <1>1, <1>2, <1>3, <1>4, <1>5, <1>6 DEF Aside

(* Fill() takes the next open slot and Replace() a filled one. *)
LEMMA SlotsStep == IInv /\ [Next]_vars => SlotsAgree'
<1> SUFFICES ASSUME IInv, [Next]_vars PROVE SlotsAgree'
  OBVIOUS
<1>1. CASE UNCHANGED cacheVars
  BY <1>1 DEF IInv, SlotsAgree, cacheVars
<1>f. \A k \in 0 .. num_cache_entries - 1 :
        k \in Slots /\ entries[k] \in Entry /\ k < num_cache_entries
  BY FilledSlots DEF IInv, TypeOK
<1> USE DEF IInv, TypeOK, SlotsAgree
<1>2. ASSUME NEW w \in Workers, Hit(w) PROVE SlotsAgree'
  <2>1. PICK k \in CachedAt(request[w]) :
          entries' = [entries EXCEPT ![k].freq_used = @ + 1]
    BY <1>2 DEF Hit
  <2>2. k \in Slots /\ entries[k] \in Entry /\ k < num_cache_entries
    BY <1>f DEF CachedAt
  <2>3. entries'[k] # NoEntry
    <3>1. [entries[k] EXCEPT !.freq_used = @ + 1] \in Entry
      BY <2>2, Counted
    <3>2. QED
      BY <2>1, <2>2, <3>1 DEF Entry
  <2>4. \A j \in Slots \ {k} : entries'[j] = entries[j]
    BY <2>1
  <2>5. UNCHANGED <<num_cache_entries, next_slot_to_store>>
    BY <1>2 DEF Hit
  <2>6. QED
    BY <2>2, <2>3, <2>4, <2>5
<1>3. ASSUME NEW w \in Workers, Fill(w) PROVE SlotsAgree'
  <2>1. next_slot_to_store = num_cache_entries /\ num_cache_entries \in 0 .. CacheSize - 1
    BY <1>3, FilledSlots DEF Fill, NextSlot
  <2>2. next_slot_to_store' = num_cache_entries' % CacheSize
    BY <1>3, <2>1 DEF Fill, NextSlot
  <2>3. NewEntry(w) # NoEntry
    BY DEF NewEntry
  <2>4. \A k \in Slots : entries'[k] # NoEntry <=> k < num_cache_entries'
    BY <1>3, <2>1, <2>3 DEF Fill, NextSlot, Slots
  <2>5. QED
    BY <2>2, <2>4
<1>4. ASSUME NEW w \in Workers, Replace(w) PROVE SlotsAgree'
  <2>1. NewEntry(w) # NoEntry
    BY DEF NewEntry
  <2>2. num_cache_entries = CacheSize
    BY <1>4 DEF Replace, ScanFull
  <2>3. QED
    BY <1>4, <2>1, <2>2 DEF Replace, Slots
<1>5. ASSUME NEW w \in Workers, Aside(w) PROVE SlotsAgree'
  BY <1>1, <1>5, AsideFrame
<1>6. ASSUME NEW w \in Workers, Copy(w) \/ SendHit(w) \/ BeginScan(w) \/ Scan(w)
      PROVE  SlotsAgree'
  BY <1>1, <1>6 DEF Copy, SendHit, BeginScan, Scan, Better
<1>7. ASSUME NEW f \in Files, NEW s \in FileStates, Modify(f, s) PROVE SlotsAgree'
  BY <1>1, <1>7 DEF Modify
<1>8. CASE UNCHANGED vars
  BY <1>1, <1>8 DEF vars
<1>9. QED
  BY <1>2, <1>3, <1>4, <1>5, <1>6, <1>7, <1>8 DEF Next, Serve, Aside

(* A worker enters a critical section only when cacheMtx is free. *)
LEMMA LockStep == IInv /\ [Next]_vars => MutualExclusion'
<1> SUFFICES ASSUME IInv, [Next]_vars PROVE MutualExclusion'
  OBVIOUS
<1> USE DEF IInv, TypeOK, MutualExclusion, Goto
<1>1. ASSUME NEW w \in Workers, Aside(w) PROVE MutualExclusion'
  BY <1>1, AsideFrame
<1>2. ASSUME NEW w \in Workers,
             Hit(w) \/ Copy(w) \/ SendHit(w) \/ Fill(w) \/ BeginScan(w) \/ Scan(w) \/ Replace(w)
      PROVE  MutualExclusion'
  BY <1>2 DEF Hit, Copy, SendHit, Fill, NextSlot, BeginScan, Scan, Better, Replace
<1>3. ASSUME NEW f \in Files, NEW s \in FileStates, Modify(f, s) PROVE MutualExclusion'
  BY <1>3 DEF Modify
<1>4. CASE UNCHANGED vars
  BY <1>4 DEF vars
<1>5. QED
  BY <1>1, <1>2, <1>3, <1>4 DEF Next, Serve, Aside

(* A scan only begins when the cache is full, and nothing empties it. *)
LEMMA ScanFullStep == IInv /\ [Next]_vars => ScanFull'
<1> SUFFICES ASSUME IInv, [Next]_vars PROVE ScanFull'
  OBVIOUS
<1> USE DEF IInv, TypeOK, ScanFull, MutualExclusion, Goto, cacheVars
<1>1. ASSUME NEW w \in Workers, Aside(w) PROVE ScanFull'
  BY <1>1, AsideFrame
<1>2. ASSUME NEW w \in Workers,
             Hit(w) \/ Copy(w) \/ SendHit(w) \/ Fill(w) \/ BeginScan(w) \/ Scan(w) \/ Replace(w)
      PROVE  ScanFull'
  BY <1>2 DEF Hit, Copy, SendHit, Fill, NextSlot, BeginScan, Scan, Better, Replace
<1>3. ASSUME NEW f \in Files, NEW s \in FileStates, Modify(f, s) PROVE ScanFull'
  BY <1>3 DEF Modify
<1>4. CASE UNCHANGED vars
  BY <1>4 DEF vars
<1>5. QED
  BY <1>1, <1>2, <1>3, <1>4 DEF Next, Serve, Aside

(* A hit's entry is out of the other workers' reach while cacheMtx is held. *)
LEMMA HitStep == IInv /\ [Next]_vars => HitStable'
<1> DEFINE Stable(v) ==
      /\ pc[v] \in {"copy", "send_hit"} =>
           /\ cacheIndex[v] \in 0 .. num_cache_entries - 1
           /\ entries[cacheIndex[v]].request = request[v]
      /\ pc[v] = "send_hit" => buf[v] = entries[cacheIndex[v]].content
<1> SUFFICES ASSUME IInv, [Next]_vars, NEW v \in Workers PROVE Stable(v)'
  BY DEF HitStable
<1>f. \A k \in 0 .. num_cache_entries - 1 : k \in Slots /\ entries[k] \in Entry
  BY FilledSlots
<1> USE DEF IInv, TypeOK, HitStable, MutualExclusion, Goto, cacheVars
<1>1. ASSUME NEW w \in Workers, Aside(w) PROVE Stable(v)'
  BY <1>1, AsideFrame
<1>2. ASSUME NEW w \in Workers, Hit(w) PROVE Stable(v)'
  <2>1. PICK k \in CachedAt(request[w]) :
          /\ cacheIndex' = [cacheIndex EXCEPT ![w] = k]
          /\ entries' = [entries EXCEPT ![k].freq_used = @ + 1]
    BY <1>2 DEF Hit
  <2>2. k \in 0 .. num_cache_entries - 1 /\ entries[k].request = request[w]
    BY DEF CachedAt
  <2>3. k \in Slots /\ entries[k] \in Entry
    BY <1>f, <2>2
  <2>4. entries'[k].request = request[w]
    BY <2>1, <2>2, <2>3 DEF Entry
  <2>5. CASE v = w
    BY <1>2, <2>1, <2>2, <2>4, <2>5 DEF Hit
  <2>6. CASE v # w
    BY <1>2, <2>6 DEF Hit
  <2>7. QED
    BY <2>5, <2>6
<1>3. ASSUME NEW w \in Workers, Copy(w) PROVE Stable(v)'
  BY <1>3 DEF Copy
<1>4. ASSUME NEW w \in Workers, SendHit(w) \/ Fill(w) \/ BeginScan(w) \/ Scan(w) \/ Replace(w)
      PROVE  Stable(v)'
  BY <1>4 DEF SendHit, Fill, NextSlot, BeginScan, Scan, Better, Replace
<1>5. ASSUME NEW f \in Files, NEW s \in FileStates, Modify(f, s) PROVE Stable(v)'
  BY <1>5 DEF Modify
<1>6. CASE UNCHANGED vars
  BY <1>6 DEF vars
<1> HIDE DEF Stable, IInv, TypeOK, HitStable, MutualExclusion, Goto, cacheVars
<1>7. QED
  BY <1>1, <1>2, <1>3, <1>4, <1>5, <1>6 DEF Next, Serve, Aside

(* A round of the loop extends the part of the cache whose least used      *)
(* entry is known by one.                                                  *)
LEMMA VictimSoFar ==
  ASSUME IInv, NEW n \in 1 .. CacheSize - 1, NEW k \in 0 .. n - 1,
         num_cache_entries = CacheSize, FirstLeastUsed(k, n)
  PROVE  IF entries[n].freq_used < entries[k].freq_used
         THEN FirstLeastUsed(n, n + 1)
         ELSE FirstLeastUsed(k, n + 1)
<1>1. \A j \in 0 .. n : entries[j].freq_used \in Nat
  <2>1. \A j \in 0 .. n : j \in Slots
    BY DEF Slots
  <2>2. QED
    BY <2>1, FilledSlots DEF Entry
<1>2. CASE entries[n].freq_used < entries[k].freq_used
  <2>1. \A j \in 0 .. n - 1 : entries[n].freq_used < entries[j].freq_used
    BY <1>1, <1>2 DEF FirstLeastUsed
  <2>2. \A j \in 0 .. n : j \in 0 .. n - 1 \/ j = n
    OBVIOUS
  <2>3. n \in 0 .. n
    OBVIOUS
  <2>4. QED
    BY <1>1, <1>2, <2>1, <2>2, <2>3 DEF FirstLeastUsed
<1>3. CASE ~(entries[n].freq_used < entries[k].freq_used)
  <2>1. entries[k].freq_used <= entries[n].freq_used
    BY <1>1, <1>3
  <2>2. \A j \in 0 .. n : j \in 0 .. n - 1 \/ j = n
    OBVIOUS
  <2>3. QED
    BY <1>3, <2>1, <2>2 DEF FirstLeastUsed
<1>4. QED
  BY <1>2, <1>3

(* The scan knows the least used entry of the part it has seen. *)
LEMMA ScanStep == IInv /\ [Next]_vars => ScanFindsLeastUsed'
<1> DEFINE Found(v) ==
      pc[v] = "scan" =>
        /\ evict[v].index < i[v] /\ i[v] \in 1 .. CacheSize
        /\ FirstLeastUsed(evict[v].index, i[v])
        /\ evict[v].freq_used = entries[evict[v].index].freq_used
<1> SUFFICES ASSUME IInv, [Next]_vars, NEW v \in Workers PROVE Found(v)'
  BY DEF ScanFindsLeastUsed
<1>f. \A k \in 0 .. num_cache_entries - 1 : k \in Slots /\ entries[k] \in Entry
  BY FilledSlots
<1>u. Found(v)
  BY DEF IInv, ScanFindsLeastUsed
<1>t. TypeOK /\ MutualExclusion
  BY DEF IInv
<1>1. ASSUME NEW w \in Workers, Aside(w) PROVE Found(v)'
  <2>1. CASE v = w
    BY <1>1, <2>1, AsideFrame
  <2>2. CASE v # w
    <3>1. UNCHANGED <<entries, pc[v], i[v], evict[v]>>
      BY <1>1, <2>2, AsideFrame DEF cacheVars
    <3>2. QED
      BY <1>u, <3>1 DEF FirstLeastUsed
  <2>3. QED
    BY <2>1, <2>2
<1>2. ASSUME NEW w \in Workers, Hit(w) \/ Fill(w) \/ Copy(w) \/ SendHit(w) \/ Replace(w)
      PROVE  Found(v)'
  <2>1. pc'[v] # "scan"
    BY <1>2, <1>t DEF TypeOK, MutualExclusion, Goto, Hit, Fill, NextSlot, Copy, SendHit, Replace
  <2>2. QED
    BY <2>1
<1>3. ASSUME NEW w \in Workers, BeginScan(w) PROVE Found(v)'
  <2>1. CASE v = w
    <3>1. /\ evict'[w] = [index |-> 0, freq_used |-> entries[0].freq_used]
          /\ i'[w] = 1 /\ entries' = entries
      BY <1>3, <1>t DEF BeginScan, TypeOK, cacheVars
    <3>2. entries[0].freq_used \in Nat
      BY <1>3, <1>f DEF BeginScan, Entry
    <3>3. QED
      BY <2>1, <3>1, <3>2 DEF FirstLeastUsed
  <2>2. CASE v # w
    BY <1>3, <1>t, <2>2 DEF BeginScan, TypeOK, MutualExclusion, Goto
  <2>3. QED
    BY <2>1, <2>2
<1>4. ASSUME NEW w \in Workers, Scan(w) PROVE Found(v)'
  <2>1. CASE v = w
    <3> DEFINE n == i[w]
               k == evict[w].index
    <3>1. /\ num_cache_entries = CacheSize
          /\ n \in 1 .. CacheSize - 1 /\ k \in 0 .. n - 1
          /\ FirstLeastUsed(k, n)
          /\ evict[w].freq_used = entries[k].freq_used
      BY <1>4, <1>t, <1>u, <2>1 DEF Scan, Better, IInv, ScanFull, TypeOK, Slots
    <3>2. entries' = entries /\ i'[w] = n + 1
      BY <1>4, <1>t DEF Scan, Better, TypeOK, cacheVars
    <3>3. CASE entries[n].freq_used < entries[k].freq_used
      <4>1. evict'[w] = [index |-> n, freq_used |-> entries[n].freq_used]
        BY <1>4, <1>t, <3>1, <3>3 DEF Scan, Better, TypeOK
      <4>2. FirstLeastUsed(n, n + 1)
        BY <3>1, <3>3, VictimSoFar
      <4>3. QED
        BY <2>1, <3>1, <3>2, <4>1, <4>2 DEF FirstLeastUsed
    <3>4. CASE ~(entries[n].freq_used < entries[k].freq_used)
      <4>1. evict'[w] = evict[w]
        BY <1>4, <1>t, <3>1, <3>4 DEF Scan, Better, TypeOK
      <4>2. FirstLeastUsed(k, n + 1)
        BY <3>1, <3>4, VictimSoFar
      <4>3. QED
        BY <2>1, <3>1, <3>2, <4>1, <4>2 DEF FirstLeastUsed
    <3>5. QED
      BY <3>3, <3>4
  <2>2. CASE v # w
    BY <1>4, <1>t, <2>2 DEF Scan, Better, TypeOK, MutualExclusion
  <2>3. QED
    BY <2>1, <2>2
<1>5. ASSUME NEW f \in Files, NEW s \in FileStates, Modify(f, s) PROVE Found(v)'
  BY <1>5, <1>u DEF Modify, cacheVars, FirstLeastUsed
<1>6. CASE UNCHANGED vars
  BY <1>6, <1>u DEF vars, cacheVars, FirstLeastUsed
<1>7. QED
  BY <1>1, <1>2, <1>3, <1>4, <1>5, <1>6 DEF Next, Serve, Aside

(* The inductive invariant holds: slots and counters agree, cacheMtx       *)
(* excludes, a hit's index and a scan's victim stay what they were         *)
(* (server.c:92-144, 303-393).                                             *)
THEOREM CacheInvariant == Spec => []IInv
<1>1. IInv /\ [Next]_vars => IInv'
  BY TypeStep, SlotsStep, LockStep, ScanFullStep, HitStep, ScanStep DEF IInv
<1>2. QED
  BY InitIInv, <1>1, PTL DEF Spec

(* The cache's slots, counters and indices keep to their types. *)
THEOREM CacheTypeCorrect == Spec => []TypeOK
<1>1. IInv => TypeOK
  BY DEF IInv
<1>2. QED
  BY CacheInvariant, <1>1, PTL

(* Slots are filled in order, and the counter and the store index agree    *)
(* (server.c:122-129).                                                     *)
THEOREM SlotsStayInAgreement == Spec => []SlotsAgree
<1>1. IInv => SlotsAgree
  BY DEF IInv
<1>2. QED
  BY CacheInvariant, <1>1, PTL

(* The entry getCacheIndex() found is neither moved nor replaced until the *)
(* client has been sent it (server.c:303-321).                             *)
THEOREM HitIsStable == Spec => []HitStable
<1>1. IInv => HitStable
  BY DEF IInv
<1>2. QED
  BY CacheInvariant, <1>1, PTL

(* LFU: the entry addIntoCache() replaces is the first of those used least *)
(* at the moment it is replaced (server.c:133-142).                        *)
THEOREM VictimIsLeastUsed == Spec => []ScanFindsLeastUsed
<1>1. IInv => ScanFindsLeastUsed
  BY DEF IInv
<1>2. QED
  BY CacheInvariant, <1>1, PTL

-----------------------------------------------------------------------------
(* How often a file is cached. *)
Bounded(f) ==
  Cardinality(CachedAt(f)) + Cardinality(Missed(f)) <= Cardinality(Workers)

(* Facts about the sizes of subsets of a finite set. *)
LEMMA Counts ==
  ASSUME NEW T, IsFiniteSet(T), NEW S \in SUBSET T
  PROVE  /\ IsFiniteSet(S) /\ Cardinality(S) \in Nat
         /\ Cardinality(S) <= Cardinality(T)
         /\ \A R \in SUBSET S : Cardinality(R) <= Cardinality(S)
         /\ \A t \in S : Cardinality(S \ {t}) = Cardinality(S) - 1
         /\ \A t : Cardinality(S \cup {t}) <= Cardinality(S) + 1
<1>1. IsFiniteSet(S) /\ Cardinality(S) \in Nat /\ Cardinality(S) <= Cardinality(T)
  BY FS_Subset, FS_CardinalityType
<1>2. \A R \in SUBSET S : Cardinality(R) <= Cardinality(S)
  BY <1>1, FS_Subset
<1>3. \A t \in S : Cardinality(S \ {t}) = Cardinality(S) - 1
  BY <1>1, FS_RemoveElement
<1>4. ASSUME NEW t PROVE Cardinality(S \cup {t}) <= Cardinality(S) + 1
  <2>1. CASE t \in S
    <3>1. S \cup {t} = S
      BY <2>1
    <3>2. Cardinality(S \cup {t}) = Cardinality(S)
      BY <3>1
    <3>3. QED
      BY <1>1, <3>2
  <2>2. CASE t \notin S
    <3>1. Cardinality(S \cup {t}) = Cardinality(S) + 1
      BY <1>1, <2>2, FS_AddElement
    <3>2. QED
      BY <1>1, <3>1
  <2>3. QED
    BY <2>1, <2>2
<1>5. QED
  BY <1>1, <1>2, <1>3, <1>4

(* The two sets that AtMostOnePerWorker counts are finite. *)
LEMMA CountsHere ==
  ASSUME TypeOK, NEW f \in Files
  PROVE  /\ CachedAt(f) \in SUBSET (0 .. CacheSize - 1)
         /\ Missed(f) \in SUBSET Workers
         /\ IsFiniteSet(0 .. CacheSize - 1)
         /\ Cardinality(CachedAt(f)) \in Nat
         /\ Cardinality(Missed(f)) \in Nat
         /\ Cardinality(Workers) \in Nat
<1>1. CachedAt(f) \in SUBSET (0 .. CacheSize - 1) /\ Missed(f) \in SUBSET Workers
  BY DEF TypeOK, CachedAt, Missed
<1>2. IsFiniteSet(0 .. CacheSize - 1)
  BY FS_Interval
<1>3. QED
  BY <1>1, <1>2, Counts, FS_CardinalityType

(* A step after which no slot and no worker counts that did not before. *)
LEMMA BoundedShrinks ==
  ASSUME TypeOK, TypeOK', NEW f \in Files, Bounded(f),
         CachedAt(f)' \subseteq CachedAt(f), Missed(f)' \subseteq Missed(f)
  PROVE  Bounded(f)'
<1>1. /\ Cardinality(CachedAt(f)') <= Cardinality(CachedAt(f))
      /\ Cardinality(Missed(f)') <= Cardinality(Missed(f))
  BY CountsHere, Counts
<1>2. Cardinality(CachedAt(f)') \in Nat /\ Cardinality(Missed(f)') \in Nat
  BY CountsHere, Counts
<1>3. QED
  BY <1>1, <1>2, CountsHere DEF Bounded

(* A worker that inserts what it missed: one slot more, one worker less.   *)
LEMMA BoundedMoves ==
  ASSUME TypeOK, NEW w \in Workers, NEW k, Bounded(request[w]), w \in Missed(request[w]),
         CachedAt(request[w])' = CachedAt(request[w]) \cup {k},
         Missed(request[w])' = Missed(request[w]) \ {w},
         request' = request
  PROVE  Bounded(request[w])'
<1> DEFINE f == request[w]
<1>1. f \in Files
  BY DEF TypeOK
<1>2. /\ Cardinality(CachedAt(f) \cup {k}) <= Cardinality(CachedAt(f)) + 1
      /\ Cardinality(Missed(f) \ {w}) = Cardinality(Missed(f)) - 1
  BY <1>1, CountsHere, Counts
<1>3. Cardinality(CachedAt(f) \cup {k}) \in Nat
  <2>1. IsFiniteSet(CachedAt(f))
    BY <1>1, CountsHere, Counts
  <2>2. IsFiniteSet(CachedAt(f) \cup {k})
    BY <2>1, FS_AddElement
  <2>3. QED
    BY <2>2, FS_CardinalityType
<1>4. QED
  BY <1>1, <1>2, <1>3, CountsHere DEF Bounded

(* No step brings a file more entries and pending misses than workers. *)
LEMMA BoundedStep ==
  ASSUME IInv, IInv', [Next]_vars, NEW f \in Files, Bounded(f)
  PROVE  Bounded(f)'
<1>t. TypeOK /\ TypeOK'
  BY DEF IInv
<1> USE DEF Goto, cacheVars
<1>1. ASSUME NEW w \in Workers, Hit(w) PROVE Bounded(f)'
  <2>1. PICK k \in CachedAt(request[w]) :
          entries' = [entries EXCEPT ![k].freq_used = @ + 1]
    BY <1>1 DEF Hit
  <2>2. \A j \in 0 .. num_cache_entries - 1 : entries'[j].request = entries[j].request
    <3>1. k \in 0 .. num_cache_entries - 1
      BY DEF CachedAt
    <3>2. \A j \in 0 .. num_cache_entries - 1 : j \in Slots /\ entries[j] \in Entry
      BY FilledSlots
    <3>3. entries'[k].request = entries[k].request
      BY <1>t, <2>1, <3>1, <3>2, Counted DEF TypeOK
    <3>4. QED
      BY <1>t, <2>1, <3>2, <3>3 DEF TypeOK
  <2>3. CachedAt(f)' \subseteq CachedAt(f)
    BY <1>1, <2>2 DEF Hit, CachedAt
  <2>4. Missed(f)' \subseteq Missed(f)
    BY <1>1, <1>t DEF Hit, Missed, TypeOK
  <2>5. QED
    BY <1>t, <2>3, <2>4, BoundedShrinks
<1>2. ASSUME NEW w \in Workers, Miss(w) PROVE Bounded(f)'
  <2>1. CachedAt(f)' = CachedAt(f)
    BY <1>2 DEF Miss, CachedAt
  <2>2. CASE request[w] = f
    <3>1. Cardinality(CachedAt(f)') = 0
      BY <1>2, <2>1, <2>2, FS_EmptySet DEF Miss
    <3>2. Cardinality(Missed(f)') <= Cardinality(Workers)
      <4>1. Missed(f)' \in SUBSET Workers
        BY DEF Missed
      <4>2. QED
        BY <4>1, Counts
    <3>3. Cardinality(Missed(f)') \in Nat
      BY Counts DEF Missed
    <3>4. QED
      BY <1>t, <3>1, <3>2, <3>3, CountsHere DEF Bounded
  <2>3. CASE request[w] # f
    <3>1. Missed(f)' \subseteq Missed(f)
      BY <1>2, <1>t, <2>3 DEF Miss, Missed, TypeOK
    <3>2. QED
      BY <1>t, <2>1, <3>1, BoundedShrinks
  <2>4. QED
    BY <2>2, <2>3
<1>3. ASSUME NEW w \in Workers, NEW k \in Slots,
             entries' = [entries EXCEPT ![k] = NewEntry(w)],
             \/ k = num_cache_entries /\ num_cache_entries' = num_cache_entries + 1
             \/ k < num_cache_entries /\ num_cache_entries' = num_cache_entries,
             pc[w] \in {"insert", "scan"}, pc' = [pc EXCEPT ![w] = "send_miss"],
             request' = request
      PROVE  Bounded(f)'
  <2>1. Missed(f)' = Missed(f) \ {w}
    BY <1>3, <1>t DEF Missed, TypeOK
  <2>a. /\ entries'[k].request = request[w]
        /\ \A j \in Slots \ {k} : entries'[j] = entries[j]
        /\ \A j \in 0 .. num_cache_entries - 1 : j \in Slots
        /\ num_cache_entries \in Nat
    <3>1. DOMAIN entries = Slots /\ num_cache_entries \in 0 .. CacheSize
      BY <1>t DEF TypeOK
    <3>2. entries'[k] = NewEntry(w) /\ \A j \in Slots \ {k} : entries'[j] = entries[j]
      BY <1>3, <3>1
    <3>3. entries'[k].request = request[w]
      BY <3>2 DEF NewEntry
    <3>4. QED
      BY <3>1, <3>2, <3>3 DEF Slots
  <2>b. \A j : j \in 0 .. num_cache_entries' - 1 <=>
                j = k \/ j \in 0 .. num_cache_entries - 1
    BY <1>3, <2>a DEF Slots
  <2>2. CASE request[w] = f
    <3>1. CachedAt(f)' = CachedAt(f) \cup {k}
      BY <2>a, <2>b, <2>2 DEF CachedAt
    <3>2. w \in Missed(f)
      BY <1>3, <2>2 DEF Missed
    <3>3. QED
      BY <1>3, <1>t, <2>1, <2>2, <3>1, <3>2, BoundedMoves
  <2>3. CASE request[w] # f
    <3>1. CachedAt(f)' \subseteq CachedAt(f)
      BY <2>a, <2>b, <2>3 DEF CachedAt
    <3>2. QED
      BY <1>t, <2>1, <3>1, BoundedShrinks
  <2>4. QED
    BY <2>2, <2>3
<1>4. ASSUME NEW w \in Workers, Fill(w) PROVE Bounded(f)'
  <2>1. next_slot_to_store = num_cache_entries /\ next_slot_to_store \in Slots
    BY <1>4, <1>t, FilledSlots DEF Fill, NextSlot, TypeOK
  <2>2. QED
    BY <1>4, <1>3, <2>1 DEF Fill, NextSlot
<1>5. ASSUME NEW w \in Workers, Replace(w) PROVE Bounded(f)'
  <2>1. evict[w].index \in Slots /\ evict[w].index < num_cache_entries
    BY <1>5, <1>t DEF Replace, TypeOK, IInv, ScanFull, Slots
  <2>2. QED
    BY <1>5, <1>3, <2>1 DEF Replace
<1>6. ASSUME NEW w \in Workers,
             Copy(w) \/ SendHit(w) \/ BeginScan(w) \/ Scan(w) \/ SendMiss(w) \/ Log(w)
      PROVE  Bounded(f)'
  <2>1. CachedAt(f)' = CachedAt(f)
    BY <1>6 DEF Copy, SendHit, BeginScan, Scan, Better, SendMiss, Log, CachedAt
  <2>2. Missed(f)' \subseteq Missed(f)
    BY <1>6, <1>t DEF Copy, SendHit, BeginScan, Scan, Better, SendMiss, Log, Missed, TypeOK
  <2>3. QED
    BY <1>t, <2>1, <2>2, BoundedShrinks
<1>7. ASSUME NEW w \in Workers, Stat(w) \/ Read(w) PROVE Bounded(f)'
  <2>1. CachedAt(f)' = CachedAt(f)
    BY <1>7 DEF Stat, Read, SendError, CachedAt
  <2>2. Missed(f)' \subseteq Missed(f)
    BY <1>7, <1>t DEF Stat, Read, SendError, Missed, TypeOK
  <2>3. QED
    BY <1>t, <2>1, <2>2, BoundedShrinks
<1>8. ASSUME NEW w \in Workers, NEW g \in Files, Start(w, g) PROVE Bounded(f)'
  <2>1. CachedAt(f)' = CachedAt(f)
    BY <1>8 DEF Start, CachedAt
  <2>2. Missed(f)' \subseteq Missed(f)
    BY <1>8, <1>t DEF Start, Missed, TypeOK
  <2>3. QED
    BY <1>t, <2>1, <2>2, BoundedShrinks
<1>9. ASSUME NEW g \in Files, NEW s \in FileStates, Modify(g, s) PROVE Bounded(f)'
  BY <1>9 DEF Modify, Bounded, CachedAt, Missed
<1>10. CASE UNCHANGED vars
  BY <1>10 DEF vars, Bounded, CachedAt, Missed
<1>11. QED
  BY <1>1, <1>2, <1>4, <1>5, <1>6, <1>7, <1>8, <1>9, <1>10 DEF Next, Serve

(* However many workers miss the same file at once, it is cached at most   *)
(* once per worker; a server with one worker never caches a file twice     *)
(* (server.c:303-321, 391-393).                                            *)
THEOREM DuplicatesAreBounded == Spec => []AtMostOnePerWorker
<1>1. Init => AtMostOnePerWorker
  <2> SUFFICES ASSUME Init, NEW f \in Files PROVE Bounded(f)
    BY DEF AtMostOnePerWorker, Bounded
  <2>1. CachedAt(f) = {} /\ Missed(f) = {}
    BY DEF Init, CachedAt, Missed
  <2>2. Cardinality(Workers) \in Nat
    BY FS_CardinalityType
  <2>3. QED
    BY <2>1, <2>2, FS_EmptySet DEF Bounded
<1>2. IInv /\ IInv' /\ AtMostOnePerWorker /\ [Next]_vars => AtMostOnePerWorker'
  BY BoundedStep DEF AtMostOnePerWorker, Bounded
<1>3. QED
  BY CacheInvariant, <1>1, <1>2, PTL DEF Spec

-----------------------------------------------------------------------------
(* Where the bytes come from.  Inductive with what workers have read but   *)
(* not yet sent or inserted, and with the disk being part of its history.  *)
Carrying(w) == pc[w] \in {"send_hit", "insert", "scan", "send_miss"}

FromFiles ==
  /\ SentIsFromTheFile
  /\ \A f \in Files : disk[f] \in past[f]
  /\ \A w \in Workers : Carrying(w) => BytesOfOneContent(request[w], buf[w])
  /\ \A w \in Workers : pc[w] # "log" => reply[w] = NoReply

(* History only grows, so what was a file's bytes remains so. *)
LEMMA StillOfOneContent ==
  ASSUME NEW f, NEW b, past[f] \subseteq past'[f], BytesOfOneContent(f, b)
  PROVE  \E c \in past'[f] \cap Contents : b = BytesRead(Len(b), c)
  BY DEF BytesOfOneContent

(* No step mixes the bytes of two files. *)
LEMMA FromFilesStep ==
  ASSUME IInv, IInv', FromFiles, [Next]_vars
  PROVE  FromFiles'
<1>t. TypeOK /\ TypeOK' /\ HitStable
  BY DEF IInv
<1>f. \A k \in 0 .. num_cache_entries - 1 : k \in Slots /\ entries[k] \in Entry
  BY FilledSlots
<1> USE DEF Goto, cacheVars, diskVars
<1> DEFINE InCache == \A k \in 0 .. num_cache_entries - 1 :
                        BytesOfOneContent(entries[k].request, entries[k].content)
           InReply(w) == reply[w] \notin {NoReply, Error} =>
                           BytesOfOneContent(request[w], reply[w])
           InHand(w) == /\ Carrying(w) => BytesOfOneContent(request[w], buf[w])
                        /\ pc[w] # "log" => reply[w] = NoReply
<1>h. InCache /\ (\A w \in Workers : InReply(w) /\ InHand(w))
  BY DEF FromFiles, SentIsFromTheFile
<1>1. ASSUME NEW g \in Files, NEW s \in FileStates, Modify(g, s) PROVE FromFiles'
  <2>1. \A f \in Files : past[f] \subseteq past'[f] /\ disk'[f] \in past'[f]
    BY <1>1, <1>t DEF Modify, TypeOK, FromFiles
  <2>2. \A f \in Files : \A b : BytesOfOneContent(f, b) => BytesOfOneContent(f, b)'
    BY <2>1, StillOfOneContent DEF BytesOfOneContent
  <2>3. \A k \in 0 .. num_cache_entries - 1 : entries[k].request \in Files
    BY <1>f DEF Entry
  <2>4. \A w \in Workers : request[w] \in Files
    BY <1>t DEF TypeOK
  <2>5. InCache' /\ \A w \in Workers : InReply(w)' /\ InHand(w)'
    BY <1>1, <1>h, <2>2, <2>3, <2>4 DEF Modify, Carrying
  <2>6. QED
    BY <2>1, <2>5 DEF FromFiles, SentIsFromTheFile
<1>2. ASSUME UNCHANGED diskVars,
             InCache', \A w \in Workers : InReply(w)' /\ InHand(w)'
      PROVE  FromFiles'
  BY <1>2, <1>t DEF FromFiles, SentIsFromTheFile
<1>3. ASSUME UNCHANGED diskVars, NEW f, NEW b, BytesOfOneContent(f, b)
      PROVE  \E c \in past'[f] \cap Contents : b = BytesRead(Len(b), c)
  BY <1>3 DEF BytesOfOneContent
<1>4. ASSUME NEW w \in Workers, Hit(w) PROVE FromFiles'
  <2>1. PICK k \in CachedAt(request[w]) :
          entries' = [entries EXCEPT ![k].freq_used = @ + 1]
    BY <1>4 DEF Hit
  <2>2. \A j \in 0 .. num_cache_entries - 1 :
          /\ entries'[j].request = entries[j].request
          /\ entries'[j].content = entries[j].content
    <3>1. k \in 0 .. num_cache_entries - 1
      BY DEF CachedAt
    <3>2. entries'[k].request = entries[k].request /\ entries'[k].content = entries[k].content
      BY <1>t, <1>f, <2>1, <3>1, Counted DEF TypeOK
    <3>3. QED
      BY <1>t, <1>f, <2>1, <3>2 DEF TypeOK
  <2>3. InCache'
    BY <1>3, <1>4, <1>h, <2>2 DEF Hit, BytesOfOneContent
  <2>4. \A v \in Workers : InReply(v)' /\ InHand(v)'
    BY <1>3, <1>4, <1>h, <1>t DEF Hit, BytesOfOneContent, Carrying, TypeOK
  <2>5. QED
    BY <1>2, <1>4, <2>3, <2>4 DEF Hit
<1>5. ASSUME NEW w \in Workers, NEW k \in Slots,
             entries' = [entries EXCEPT ![k] = NewEntry(w)],
             \/ k = num_cache_entries /\ num_cache_entries' = num_cache_entries + 1
             \/ k < num_cache_entries /\ num_cache_entries' = num_cache_entries,
             pc[w] \in {"insert", "scan"}, pc' = [pc EXCEPT ![w] = "send_miss"],
             UNCHANGED <<diskVars, request, buf, reply>>
      PROVE  FromFiles'
  <2>1. /\ entries'[k].request = request[w] /\ entries'[k].content = buf[w]
        /\ \A j \in Slots \ {k} : entries'[j] = entries[j]
    BY <1>5, <1>t DEF TypeOK, NewEntry
  <2>2. \A j \in 0 .. num_cache_entries' - 1 : j = k \/ j \in 0 .. num_cache_entries - 1
    <3>1. num_cache_entries \in Nat /\ k \in Nat
      BY <1>t DEF TypeOK, Slots
    <3>2. QED
      BY <1>5, <3>1
  <2>3. BytesOfOneContent(request[w], buf[w])
    BY <1>5, <1>h DEF Carrying
  <2>4. InCache'
    <3>1. ASSUME NEW j \in 0 .. num_cache_entries' - 1
          PROVE  BytesOfOneContent(entries'[j].request, entries'[j].content)
      <4>1. CASE j = k
        BY <2>1, <2>3, <4>1
      <4>2. CASE j # k
        <5>1. j \in 0 .. num_cache_entries - 1
          BY <2>2, <3>1, <4>2
        <5>2. entries'[j] = entries[j]
          BY <1>f, <2>1, <4>2, <5>1
        <5>3. QED
          BY <1>h, <5>1, <5>2
      <4>3. QED
        BY <4>1, <4>2
    <3>2. QED
      BY <1>5, <3>1 DEF BytesOfOneContent
  <2>5. ASSUME NEW v \in Workers PROVE InReply(v)' /\ InHand(v)'
    <3>1. reply[w] = NoReply
      BY <1>5, <1>h
    <3>2. pc'[v] = IF v = w THEN "send_miss" ELSE pc[v]
      BY <1>5, <1>t DEF TypeOK
    <3>3. QED
      BY <1>5, <1>h, <2>3, <3>1, <3>2 DEF BytesOfOneContent, Carrying
  <2>6. QED
    BY <1>2, <1>5, <2>4, <2>5
<1>6. ASSUME NEW w \in Workers, Fill(w) PROVE FromFiles'
  <2>1. next_slot_to_store = num_cache_entries /\ next_slot_to_store \in Slots
    BY <1>6, <1>t, FilledSlots DEF Fill, NextSlot, TypeOK
  <2>2. QED
    BY <1>5, <1>6, <2>1 DEF Fill, NextSlot
<1>7. ASSUME NEW w \in Workers, Replace(w) PROVE FromFiles'
  <2>1. evict[w].index \in Slots /\ evict[w].index < num_cache_entries
    BY <1>7, <1>t DEF Replace, TypeOK, IInv, ScanFull, Slots
  <2>2. QED
    BY <1>5, <1>7, <2>1 DEF Replace
<1>8. ASSUME NEW w \in Workers, UNCHANGED <<diskVars, entries, num_cache_entries>>,
             \A v \in Workers \ {w} :
               /\ request'[v] = request[v] /\ reply'[v] = reply[v]
               /\ buf'[v] = buf[v] /\ pc'[v] = pc[v],
             InReply(w)', InHand(w)'
      PROVE  FromFiles'
  <2>1. InCache'
    BY <1>8, <1>h DEF BytesOfOneContent
  <2>2. ASSUME NEW v \in Workers \ {w} PROVE InReply(v)' /\ InHand(v)'
    BY <1>8, <1>h, <2>2 DEF BytesOfOneContent, Carrying
  <2>3. QED
    BY <1>2, <1>8, <2>1, <2>2
<1>9. ASSUME NEW w \in Workers, Copy(w) PROVE FromFiles'
  <2>1. /\ entries[cacheIndex[w]].request = request[w]
        /\ cacheIndex[w] \in 0 .. num_cache_entries - 1
    BY <1>9, <1>t DEF Copy, HitStable
  <2>2. BytesOfOneContent(request[w], entries[cacheIndex[w]].content)
    BY <1>h, <2>1
  <2>3. InReply(w)' /\ InHand(w)'
    BY <1>9, <1>h, <1>t, <2>2 DEF Copy, BytesOfOneContent, TypeOK
  <2>4. QED
    BY <1>8, <1>9, <1>t, <2>3 DEF Copy, TypeOK
<1>10. ASSUME NEW w \in Workers, SendHit(w) \/ SendMiss(w) PROVE FromFiles'
  <2>1. BytesOfOneContent(request[w], buf[w])
    BY <1>10, <1>h DEF SendHit, SendMiss, Carrying
  <2>2. InReply(w)' /\ InHand(w)'
    BY <1>10, <1>t, <2>1 DEF SendHit, SendMiss, BytesOfOneContent, Carrying, TypeOK
  <2>3. QED
    BY <1>8, <1>10, <1>t, <2>2 DEF SendHit, SendMiss, TypeOK
<1>11. ASSUME NEW w \in Workers, SendError(w), pc[w] \in {"stat", "read"} PROVE FromFiles'
  <2>1. InReply(w)' /\ InHand(w)'
    BY <1>11, <1>t DEF SendError, Carrying, TypeOK
  <2>2. QED
    BY <1>8, <1>11, <1>t, <2>1 DEF SendError, TypeOK
<1>12. ASSUME NEW w \in Workers, Stat(w) PROVE FromFiles'
  <2>1. CASE SendError(w)
    BY <1>11, <1>12, <2>1 DEF Stat
  <2>2. CASE ~SendError(w)
    <3>1. InReply(w)' /\ InHand(w)'
      BY <1>12, <1>h, <1>t, <2>2 DEF Stat, BytesOfOneContent, Carrying, TypeOK
    <3>2. QED
      BY <1>8, <1>12, <1>t, <2>2, <3>1 DEF Stat, TypeOK
  <2>3. QED
    BY <2>1, <2>2
<1>13. ASSUME NEW w \in Workers, Read(w) PROVE FromFiles'
  <2>1. CASE SendError(w)
    BY <1>11, <1>13, <2>1 DEF Read
  <2>2. CASE ~SendError(w)
    <3> DEFINE c == disk[request[w]]
               b == BytesRead(size[w], c)
    <3>1. c \in Contents /\ c \in past[request[w]] /\ size[w] \in Nat
      BY <1>13, <1>t, <2>2 DEF Read, TypeOK, FromFiles
    <3>2. b = BytesRead(Len(b), c)
      BY <3>1, BytesReadType
    <3>3. BytesOfOneContent(request[w], b)
      BY <3>1, <3>2 DEF BytesOfOneContent
    <3>4. /\ buf' = [buf EXCEPT ![w] = b] /\ pc' = [pc EXCEPT ![w] = "insert"]
          /\ UNCHANGED <<entries, num_cache_entries, diskVars, request, reply>>
      BY <1>13, <2>2 DEF Read
    <3> HIDE DEF b, c
    <3>5. InReply(w)' /\ InHand(w)'
      <4>1. /\ buf'[w] = b /\ pc'[w] = "insert" /\ request' = request
            /\ past' = past
        BY <1>t, <3>4 DEF TypeOK
      <4>2. reply'[w] = NoReply
        BY <1>13, <1>h, <3>4 DEF Read
      <4>3. \E e \in past'[request'[w]] \cap Contents : buf'[w] = BytesRead(Len(buf'[w]), e)
        BY <3>3, <4>1 DEF BytesOfOneContent
      <4>4. QED
        BY <4>1, <4>2, <4>3 DEF BytesOfOneContent, Carrying
    <3>6. QED
      BY <1>8, <1>t, <3>4, <3>5 DEF TypeOK
  <2>3. QED
    BY <2>1, <2>2
<1>14. ASSUME NEW w \in Workers, Miss(w) \/ BeginScan(w) \/ Scan(w) \/ Log(w)
       PROVE  FromFiles'
  <2>1. InReply(w)' /\ InHand(w)'
    BY <1>14, <1>h, <1>t DEF Miss, BeginScan, Scan, Better, Log, BytesOfOneContent, Carrying, TypeOK
  <2>2. QED
    BY <1>8, <1>14, <1>t, <2>1 DEF Miss, BeginScan, Scan, Better, Log, TypeOK
<1>15. ASSUME NEW w \in Workers, NEW f \in Files, Start(w, f) PROVE FromFiles'
  <2>1. InReply(w)' /\ InHand(w)'
    BY <1>15, <1>h, <1>t DEF Start, Carrying, TypeOK
  <2>2. QED
    BY <1>8, <1>15, <1>t, <2>1 DEF Start, TypeOK
<1>16. CASE UNCHANGED vars
  BY <1>16 DEF vars, FromFiles, SentIsFromTheFile, BytesOfOneContent, Carrying
<1> HIDE DEF InCache, InReply, InHand
<1>17. QED
  BY <1>1, <1>4, <1>6, <1>7, <1>9, <1>10, <1>12, <1>13, <1>14, <1>15, <1>16
  DEF Next, Serve

(* Every byte that is cached, carried or sent is of the file (server.c:    *)
(* 336-400).                                                               *)
THEOREM BytesInvariant == Spec => []FromFiles
<1>1. Init => FromFiles
  BY DEF Init, FromFiles, SentIsFromTheFile, Carrying
<1>2. IInv /\ IInv' /\ FromFiles /\ [Next]_vars => FromFiles'
  BY FromFilesStep
<1>3. QED
  BY CacheInvariant, <1>1, <1>2, PTL DEF Spec

(* Whatever other programs do to the files between stat() and read(), or   *)
(* between a miss and a later hit, no client is sent bytes of a file it    *)
(* did not ask for, nor memory nobody wrote (server.c:336-400).            *)
THEOREM SentBytesAreTheFiles == Spec => []SentIsFromTheFile
<1>1. FromFiles => SentIsFromTheFile
  BY DEF FromFiles
<1>2. QED
  BY BytesInvariant, <1>1, PTL

-----------------------------------------------------------------------------
(* Files that nobody touches.  As a file's past only grows, one that has   *)
(* been a single thing until now has been the same thing all the time.     *)

Is(f, b) == \A s \in FileStates : past[f] = {s} => s \in Contents /\ b = s
Answers(f, r) ==
  \A s \in FileStates : past[f] = {s} => r = IF s \in Contents THEN s ELSE Error
Fits(f, n) == \A s \in Contents : past[f] = {s} => n = Len(s)

Cached == \A k \in 0 .. num_cache_entries - 1 : Is(entries[k].request, entries[k].content)
InHand(w) ==
  /\ Carrying(w) => Is(request[w], buf[w])
  /\ pc[w] = "read" => Fits(request[w], size[w])
  /\ reply[w] # NoReply => Answers(request[w], reply[w])

Untouched == Cached /\ \A w \in Workers : InHand(w)

(* All of a file is read into a buffer of its size. *)
LEMMA WholeIsRead ==
  ASSUME NEW c \in Seq(Nat)
  PROVE  BytesRead(Len(c), c) = c
<1>1. BytesRead(Len(c), c) = [k \in 1 .. Len(c) |-> c[k]]
  BY DEF BytesRead
<1>2. QED
  BY <1>1

(* What was so of an untouched file is still so. *)
LEMMA StillUntouched ==
  ASSUME FromFiles, NEW f \in Files, past[f] \subseteq past'[f]
  PROVE  /\ \A b : Is(f, b) => Is(f, b)'
         /\ \A r : Answers(f, r) => Answers(f, r)'
         /\ \A n : Fits(f, n) => Fits(f, n)'
<1>1. \A s : past'[f] = {s} => past[f] = {s}
  BY DEF FromFiles
<1>2. QED
  BY <1>1 DEF Is, Answers, Fits

LEMMA UntouchedStep ==
  ASSUME IInv, IInv', FromFiles, Untouched, [Next]_vars
  PROVE  Untouched'
<1>t. TypeOK /\ TypeOK' /\ HitStable
  BY DEF IInv
<1>f. \A k \in 0 .. num_cache_entries - 1 : k \in Slots /\ entries[k] \in Entry
  BY FilledSlots
<1>h. Cached /\ (\A w \in Workers : InHand(w) /\ (pc[w] # "log" => reply[w] = NoReply))
  BY DEF Untouched, FromFiles
<1>d. \A f \in Files : disk[f] \in past[f]
  BY DEF FromFiles
<1> USE DEF Goto, cacheVars, diskVars
<1>1. ASSUME NEW g \in Files, NEW s \in FileStates, Modify(g, s) PROVE Untouched'
  <2>1. \A f \in Files : past[f] \subseteq past'[f]
    BY <1>1, <1>t DEF Modify, TypeOK
  <2>2. \A k \in 0 .. num_cache_entries - 1 : entries[k].request \in Files
    BY <1>f DEF Entry
  <2>3. \A w \in Workers : request[w] \in Files
    BY <1>t DEF TypeOK
  <2>4. UNCHANGED <<entries, num_cache_entries, pc, request, size, buf, reply>>
    BY <1>1 DEF Modify
  <2>5. Cached'
    BY <1>h, <2>1, <2>2, <2>4, StillUntouched DEF Cached
  <2>6. ASSUME NEW w \in Workers PROVE InHand(w)'
    <3>1. request[w] \in Files /\ InHand(w) /\ Carrying(w)' = Carrying(w)
      BY <1>h, <2>3, <2>4 DEF Carrying
    <3>2. /\ \A b : Is(request[w], b) => Is(request[w], b)'
          /\ \A r : Answers(request[w], r) => Answers(request[w], r)'
          /\ \A n : Fits(request[w], n) => Fits(request[w], n)'
      BY <2>1, <3>1, <2>4, StillUntouched
    <3>3. QED
      BY <2>4, <3>1, <3>2 DEF InHand
  <2>7. QED
    BY <2>5, <2>6 DEF Untouched
<1>2. ASSUME NEW w \in Workers, UNCHANGED <<diskVars, entries, num_cache_entries>>,
             \A v \in Workers \ {w} :
               /\ request'[v] = request[v] /\ reply'[v] = reply[v]
               /\ buf'[v] = buf[v] /\ pc'[v] = pc[v] /\ size'[v] = size[v],
             InHand(w)'
      PROVE  Untouched'
  <2>1. Cached'
    BY <1>2, <1>h DEF Cached, Is
  <2>2. ASSUME NEW v \in Workers \ {w} PROVE InHand(v)'
    BY <1>2, <1>h, <2>2 DEF InHand, Carrying, Is, Answers, Fits
  <2>3. QED
    BY <1>2, <2>1, <2>2 DEF Untouched
<1>3. ASSUME NEW w \in Workers, Hit(w) PROVE Untouched'
  <2>1. PICK k \in CachedAt(request[w]) :
          entries' = [entries EXCEPT ![k].freq_used = @ + 1]
    BY <1>3 DEF Hit
  <2>2. \A j \in 0 .. num_cache_entries - 1 :
          /\ entries'[j].request = entries[j].request
          /\ entries'[j].content = entries[j].content
    <3>1. k \in 0 .. num_cache_entries - 1
      BY DEF CachedAt
    <3>2. entries'[k].request = entries[k].request /\ entries'[k].content = entries[k].content
      BY <1>t, <1>f, <2>1, <3>1, Counted DEF TypeOK
    <3>3. QED
      BY <1>t, <1>f, <2>1, <3>2 DEF TypeOK
  <2>3. Cached'
    BY <1>3, <1>h, <2>2 DEF Hit, Cached, Is
  <2>4. ASSUME NEW v \in Workers PROVE InHand(v)'
    BY <1>3, <1>h, <1>t DEF Hit, InHand, Is, Answers, Fits, Carrying, TypeOK
  <2>5. QED
    BY <2>3, <2>4 DEF Untouched
<1>4. ASSUME NEW w \in Workers, NEW k \in Slots,
             entries' = [entries EXCEPT ![k] = NewEntry(w)],
             \/ k = num_cache_entries /\ num_cache_entries' = num_cache_entries + 1
             \/ k < num_cache_entries /\ num_cache_entries' = num_cache_entries,
             pc[w] \in {"insert", "scan"}, pc' = [pc EXCEPT ![w] = "send_miss"],
             UNCHANGED <<diskVars, request, buf, reply, size>>
      PROVE  Untouched'
  <2>1. /\ entries'[k].request = request[w] /\ entries'[k].content = buf[w]
        /\ \A j \in Slots \ {k} : entries'[j] = entries[j]
    BY <1>4, <1>t DEF TypeOK, NewEntry
  <2>2. \A j \in 0 .. num_cache_entries' - 1 : j = k \/ j \in 0 .. num_cache_entries - 1
    <3>1. num_cache_entries \in Nat /\ k \in Nat
      BY <1>t DEF TypeOK, Slots
    <3>2. QED
      BY <1>4, <3>1
  <2>3. Is(request[w], buf[w])
    BY <1>4, <1>h DEF InHand, Carrying
  <2>4. Cached'
    <3>1. ASSUME NEW j \in 0 .. num_cache_entries' - 1
          PROVE  Is(entries'[j].request, entries'[j].content)
      <4>1. CASE j = k
        BY <2>1, <2>3, <4>1
      <4>2. CASE j # k
        <5>1. j \in 0 .. num_cache_entries - 1
          BY <2>2, <3>1, <4>2
        <5>2. entries'[j] = entries[j]
          BY <1>f, <2>1, <4>2, <5>1
        <5>3. QED
          BY <1>h, <5>1, <5>2 DEF Cached
      <4>3. QED
        BY <4>1, <4>2
    <3>2. QED
      BY <1>4, <3>1 DEF Cached, Is
  <2>5. ASSUME NEW v \in Workers PROVE InHand(v)'
    <3>1. pc'[v] = IF v = w THEN "send_miss" ELSE pc[v]
      BY <1>4, <1>t DEF TypeOK
    <3>2. QED
      BY <1>4, <1>h, <2>3, <3>1 DEF InHand, Is, Answers, Fits, Carrying
  <2>6. QED
    BY <2>4, <2>5 DEF Untouched
<1>5. ASSUME NEW w \in Workers, Fill(w) PROVE Untouched'
  <2>1. next_slot_to_store = num_cache_entries /\ next_slot_to_store \in Slots
    BY <1>5, <1>t, FilledSlots DEF Fill, NextSlot, TypeOK
  <2>2. QED
    BY <1>4, <1>5, <2>1 DEF Fill, NextSlot
<1>6. ASSUME NEW w \in Workers, Replace(w) PROVE Untouched'
  <2>1. evict[w].index \in Slots /\ evict[w].index < num_cache_entries
    BY <1>6, <1>t DEF Replace, TypeOK, IInv, ScanFull, Slots
  <2>2. QED
    BY <1>4, <1>6, <2>1 DEF Replace
<1>7. ASSUME NEW w \in Workers, Copy(w) PROVE Untouched'
  <2>1. /\ entries[cacheIndex[w]].request = request[w]
        /\ cacheIndex[w] \in 0 .. num_cache_entries - 1
    BY <1>7, <1>t DEF Copy, HitStable
  <2>2. Is(request[w], entries[cacheIndex[w]].content)
    BY <1>h, <2>1 DEF Cached
  <2>3. InHand(w)'
    BY <1>7, <1>h, <1>t, <2>2 DEF Copy, InHand, Is, Answers, TypeOK
  <2>4. QED
    BY <1>2, <1>7, <1>t, <2>3 DEF Copy, TypeOK
<1>8. ASSUME NEW w \in Workers, SendHit(w) \/ SendMiss(w) PROVE Untouched'
  <2>1. Is(request[w], buf[w])
    BY <1>8, <1>h DEF SendHit, SendMiss, InHand, Carrying
  <2>2. InHand(w)'
    BY <1>8, <1>t, <2>1 DEF SendHit, SendMiss, InHand, Is, Answers, Carrying, TypeOK
  <2>3. QED
    BY <1>2, <1>8, <1>t, <2>2 DEF SendHit, SendMiss, TypeOK
<1>9. ASSUME NEW w \in Workers, SendError(w), pc[w] \in {"stat", "read"},
             disk[request[w]] \notin Contents
      PROVE  Untouched'
  <2>1. Answers(request[w], Error)
    BY <1>9, <1>d, <1>t DEF Answers, TypeOK
  <2>2. InHand(w)'
    BY <1>9, <1>t, <2>1 DEF SendError, InHand, Answers, Carrying, TypeOK
  <2>3. QED
    BY <1>2, <1>9, <1>t, <2>2 DEF SendError, TypeOK
<1>10. ASSUME NEW w \in Workers, Stat(w) PROVE Untouched'
  <2>1. CASE SendError(w) /\ disk[request[w]] = Missing
    BY <1>9, <1>10, <2>1 DEF Stat
  <2>2. CASE ~(SendError(w) /\ disk[request[w]] = Missing)
    <3>1. PICK n \in Sizes(disk[request[w]]) :
            /\ size' = [size EXCEPT ![w] = n] /\ pc' = [pc EXCEPT ![w] = "read"]
            /\ UNCHANGED <<entries, num_cache_entries, diskVars, request, buf, reply>>
      BY <1>10, <2>2 DEF Stat
    <3>2. Fits(request[w], n)
      BY <1>d, <1>t, <3>1 DEF Fits, Sizes, TypeOK
    <3>3. reply[w] = NoReply
      BY <1>10, <1>h DEF Stat
    <3>4. InHand(w)'
      BY <1>t, <3>1, <3>2, <3>3 DEF InHand, Carrying, Fits, TypeOK
    <3>5. QED
      BY <1>2, <1>t, <3>1, <3>4 DEF TypeOK
  <2>3. QED
    BY <2>1, <2>2
<1>11. ASSUME NEW w \in Workers, Read(w) PROVE Untouched'
  <2>1. CASE disk[request[w]] \notin Contents
    BY <1>9, <1>11, <2>1 DEF Read
  <2>2. CASE disk[request[w]] \in Contents
    <3>1. PICK b : /\ b = BytesRead(size[w], disk[request[w]])
                   /\ buf' = [buf EXCEPT ![w] = b] /\ pc' = [pc EXCEPT ![w] = "insert"]
                   /\ UNCHANGED <<entries, num_cache_entries, diskVars, request, reply, size>>
      BY <1>11, <2>2 DEF Read
    <3>2. Is(request[w], b)
      <4>1. SUFFICES ASSUME NEW s \in FileStates, past[request[w]] = {s}
                     PROVE  s \in Contents /\ b = s
        BY DEF Is
      <4>2. request[w] \in Files /\ disk[request[w]] = s
        BY <1>d, <1>t, <4>1 DEF TypeOK
      <4>3. size[w] = Len(s)
        BY <1>11, <1>h, <2>2, <4>1, <4>2 DEF Read, InHand, Fits
      <4>4. QED
        BY <2>2, <3>1, <4>2, <4>3, WholeIsRead
    <3>3. reply[w] = NoReply
      BY <1>11, <1>h DEF Read
    <3>4. InHand(w)'
      BY <1>t, <3>1, <3>2, <3>3 DEF InHand, Carrying, Is, TypeOK
    <3>5. QED
      BY <1>2, <1>t, <3>1, <3>4 DEF TypeOK
  <2>3. QED
    BY <2>1, <2>2
<1>12. ASSUME NEW w \in Workers, Miss(w) \/ BeginScan(w) \/ Scan(w) \/ Log(w)
       PROVE  Untouched'
  <2>1. CASE Miss(w)
    <3>1. InHand(w)'
      BY <1>h, <1>t, <2>1 DEF Miss, InHand, Answers, Carrying, TypeOK
    <3>2. QED
      BY <1>2, <1>t, <2>1, <3>1 DEF Miss, TypeOK
  <2>2. CASE BeginScan(w)
    <3>1. InHand(w)'
      BY <1>h, <1>t, <2>2 DEF BeginScan, InHand, Is, Answers, Carrying, TypeOK
    <3>2. QED
      BY <1>2, <1>t, <2>2, <3>1 DEF BeginScan, TypeOK
  <2>3. CASE Scan(w)
    <3>1. InHand(w)'
      BY <1>h, <1>t, <2>3 DEF Scan, InHand, Is, Answers, Fits, Carrying
    <3>2. QED
      BY <1>2, <1>t, <2>3, <3>1 DEF Scan, TypeOK
  <2>4. CASE Log(w)
    <3>1. InHand(w)'
      BY <1>t, <2>4 DEF Log, InHand, Carrying, TypeOK
    <3>2. QED
      BY <1>2, <1>t, <2>4, <3>1 DEF Log, TypeOK
  <2>5. QED
    BY <1>12, <2>1, <2>2, <2>3, <2>4
<1>13. ASSUME NEW w \in Workers, NEW f \in Files, Start(w, f) PROVE Untouched'
  <2>1. InHand(w)'
    BY <1>13, <1>h, <1>t DEF Start, InHand, Carrying, TypeOK
  <2>2. QED
    BY <1>2, <1>13, <1>t, <2>1 DEF Start, TypeOK
<1>14. CASE UNCHANGED vars
  BY <1>14 DEF vars, Untouched, Cached, InHand, Is, Answers, Fits, Carrying
<1>15. QED
  BY <1>1, <1>3, <1>5, <1>6, <1>7, <1>8, <1>10, <1>11, <1>12, <1>13, <1>14
  DEF Next, Serve

(* A file that no other program changes is sent as it is, whether from the *)
(* disk or from an entry made any time before, and 404 is sent only for    *)
(* what cannot be read (server.c:303-402).                                 *)
THEOREM UntouchedFilesAreServed == Spec => []UntouchedFileServed
<1>1. Init => Untouched
  BY DEF Init, Untouched, Cached, InHand, Carrying
<1>2. IInv /\ IInv' /\ FromFiles /\ Untouched /\ [Next]_vars => Untouched'
  BY UntouchedStep
<1>3. Untouched => UntouchedFileServed
  BY DEF Untouched, InHand, Answers, UntouchedFileServed
<1>4. QED
  BY CacheInvariant, BytesInvariant, <1>1, <1>2, <1>3, PTL DEF Spec
=============================================================================
