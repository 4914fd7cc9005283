----------------------------- MODULE FileCache -----------------------------
(***************************************************************************)
(* The web server's cache of files (cache_t), filled and read by worker()  *)
(* under the mutex cacheMtx, and the disk behind it.                       *)
(*                                                                         *)
(* A worker's place in the code is pc[w]:                                  *)
(*   idle       waiting for, or taking, a request from the queue           *)
(*   lookup     about to lock cacheMtx and call getCacheIndex()            *)
(*   copy       hit; holds cacheMtx, about to copy the entry               *)
(*   send_hit   holds cacheMtx, in return_result()                         *)
(*   stat, read miss; holds nothing, about to call stat(), readFromDisk()  *)
(*   insert     about to lock cacheMtx and call addIntoCache()             *)
(*   scan       holds cacheMtx, in the loop that looks for a victim        *)
(*   send_miss  in return_result(), holds nothing                          *)
(*   log        answered, about to write the log line                      *)
(*                                                                         *)
(* A file's content is the sequence of its bytes.  Files are replaced as a *)
(* whole by other programs (Modify), so a read() returns bytes of one      *)
(* content, but stat() and read() may see two different ones.              *)
(***************************************************************************)
EXTENDS Integers, Sequences, FiniteSets

CONSTANTS
  Workers,     \* the num_workers threads that run worker()
  Files,       \* paths below the web tree's root that clients ask for
  Contents,    \* what a readable file may hold
  CacheSize,   \* cache_entries
  MaxFreq,     \* bound: nobody asks for a file cached and hit this often
  MaxStates,   \* bound: how many states each file goes through
  Missing,     \* there is no such file: stat() fails
  Unreadable,  \* a directory or a file without read permission: read() fails
  NoEntry,     \* a cache slot never written to
  Error,       \* return_error()'s 404, whatever its text
  NoReply,     \* the worker has not answered its request
  NoThread     \* "nobody holds the mutex"

(* What main() checks of its arguments, MAX_THREADS and MAX_CE apart. *)
ASSUME CacheAssumption ==
  /\ IsFiniteSet(Workers) /\ Workers # {}
  /\ NoThread \notin Workers
  /\ CacheSize \in Nat \ {0}
  /\ Contents \subseteq Seq(Nat)
  /\ Contents \cap {Missing, Unreadable} = {}
  /\ NoEntry \notin [request : Files, content : Seq(Nat), freq_used : Nat]
  /\ MaxFreq \in Nat /\ MaxStates \in Nat

VARIABLES
  entries,            \* the cache's slots
  num_cache_entries,
  next_slot_to_store,
  cacheMtx,           \* the worker that holds cacheMtx, or NoThread
  disk,               \* what each file is now
  past,               \* history: all that each file has ever been
  pc,                 \* see above
  request,            \* request[w]: the file w serves
  cacheIndex,         \* cacheIndex[w]: -1 on a miss
  size,               \* size[w]: st_size
  buf,                \* buf[w]: the bytes w sends
  i, evict,           \* addIntoCache()'s loop: its index, and the index and
                      \* copied frequency of the victim found so far
  reply               \* reply[w]: what w has sent for its request

cacheVars == <<entries, num_cache_entries, next_slot_to_store>>
diskVars  == <<disk, past>>
vars == <<cacheVars, cacheMtx, diskVars, pc, request, cacheIndex, size, buf,
          i, evict, reply>>

Slots == 0 .. CacheSize - 1
FileStates == Contents \cup {Missing, Unreadable}

\* Seeded fault: getCacheIndex() does not compare names.
CachedAtAny(f) == 0 .. num_cache_entries - 1

(* The slots among the first num_cache_entries that hold file f. *)
CachedAt(f) == {k \in 0 .. num_cache_entries - 1 : entries[k].request = f}

Goto(w, label) == pc' = [pc EXCEPT ![w] = label]

-----------------------------------------------------------------------------
(* initCache() and the idle workers. *)
Init ==
  /\ entries = [s \in Slots |-> NoEntry]
  /\ num_cache_entries = 0
  /\ next_slot_to_store = 0
  /\ cacheMtx = NoThread
  /\ disk \in [Files -> FileStates]
  /\ past = [f \in Files |-> {disk[f]}]
  /\ pc = [w \in Workers |-> "idle"]
  /\ request \in [Workers -> Files]
  /\ cacheIndex = [w \in Workers |-> -1]
  /\ size = [w \in Workers |-> 0]
  /\ buf = [w \in Workers |-> <<>>]
  /\ i = [w \in Workers |-> 0]
  /\ evict = [w \in Workers |-> [index |-> 0, freq_used |-> 0]]
  /\ reply = [w \in Workers |-> NoReply]

(* Another program replaces or removes a file. *)
Modify(f, s) ==
  /\ disk[f] # s /\ Cardinality(past[f] \cup {s}) <= MaxStates
  /\ disk' = [disk EXCEPT ![f] = s]
  /\ past' = [past EXCEPT ![f] = @ \cup {s}]
  /\ UNCHANGED <<cacheVars, cacheMtx, pc, request, cacheIndex, size, buf, i,
                 evict, reply>>

(* w has taken a request for f from the queue. *)
Start(w, f) ==
  /\ pc[w] = "idle"
  /\ \A k \in CachedAt(f) : entries[k].freq_used < MaxFreq
  /\ request' = [request EXCEPT ![w] = f]
  /\ Goto(w, "lookup")
  /\ UNCHANGED <<cacheVars, cacheMtx, diskVars, cacheIndex, size, buf, i,
                 evict, reply>>

\* Seeded fault: cacheMtx is released before the entry is used.
HitUnlocked(w) ==
  /\ pc[w] = "lookup" /\ cacheMtx = NoThread
  /\ \E k \in CachedAt(request[w]) :
       /\ \A j \in CachedAt(request[w]) : k <= j
       /\ cacheIndex' = [cacheIndex EXCEPT ![w] = k]
       /\ entries' = [entries EXCEPT ![k].freq_used = @ + 1]
  /\ Goto(w, "copy")
  /\ UNCHANGED <<num_cache_entries, next_slot_to_store, cacheMtx, diskVars,
                 request, size, buf, i, evict, reply>>

(* getCacheIndex() finds the file and counts the hit. *)
Hit(w) ==
  /\ pc[w] = "lookup" /\ cacheMtx = NoThread
  /\ \E k \in CachedAt(request[w]) :
       /\ \A j \in CachedAt(request[w]) : k <= j
       /\ cacheIndex' = [cacheIndex EXCEPT ![w] = k]
       /\ entries' = [entries EXCEPT ![k].freq_used = @ + 1]
  /\ cacheMtx' = w
  /\ Goto(w, "copy")
  /\ UNCHANGED <<num_cache_entries, next_slot_to_store, diskVars, request,
                 size, buf, i, evict, reply>>

\* Seeded fault: getCacheIndex() stops before the last entry.
MissLastEntry(w) ==
  /\ pc[w] = "lookup" /\ cacheMtx = NoThread
  /\ CachedAt(request[w]) \subseteq {num_cache_entries - 1}
  /\ cacheIndex' = [cacheIndex EXCEPT ![w] = -1]
  /\ Goto(w, "stat")
  /\ UNCHANGED <<cacheVars, cacheMtx, diskVars, request, size, buf, i, evict,
                 reply>>

(* getCacheIndex() finds nothing; cacheMtx is released at once. *)
Miss(w) ==
  /\ pc[w] = "lookup" /\ cacheMtx = NoThread
  /\ CachedAt(request[w]) = {}
  /\ cacheIndex' = [cacheIndex EXCEPT ![w] = -1]
  /\ Goto(w, "stat")
  /\ UNCHANGED <<cacheVars, cacheMtx, diskVars, request, size, buf, i, evict,
                 reply>>

Copy(w) ==
  /\ pc[w] = "copy"
  /\ buf' = [buf EXCEPT ![w] = entries[cacheIndex[w]].content]
  /\ size' = [size EXCEPT ![w] = Len(entries[cacheIndex[w]].content)]
  /\ Goto(w, "send_hit")
  /\ UNCHANGED <<cacheVars, cacheMtx, diskVars, request, cacheIndex, i, evict,
                 reply>>

(* return_result() and free(buf), then cacheMtx is released. *)
SendHit(w) ==
  /\ pc[w] = "send_hit"
  /\ reply' = [reply EXCEPT ![w] = buf[w]]
  /\ buf' = [buf EXCEPT ![w] = <<>>]
  /\ cacheMtx' = NoThread
  /\ Goto(w, "log")
  /\ UNCHANGED <<cacheVars, diskVars, request, cacheIndex, size, i, evict>>

(* return_error() when stat() or read() fails. *)
SendError(w) ==
  /\ reply' = [reply EXCEPT ![w] = Error]
  /\ Goto(w, "log")
  /\ UNCHANGED <<cacheVars, cacheMtx, diskVars, request, cacheIndex, size, buf,
                 i, evict>>

(* st_size; that of a directory or an unreadable file may be anything. *)
Sizes(s) ==
  IF s \in Contents THEN {Len(s)} ELSE {0} \cup {Len(c) : c \in Contents}

Stat(w) ==
  /\ pc[w] = "stat"
  /\ \/ disk[request[w]] = Missing /\ SendError(w)
     \/ /\ disk[request[w]] # Missing
        /\ \E n \in Sizes(disk[request[w]]) : size' = [size EXCEPT ![w] = n]
        /\ Goto(w, "read")
        /\ UNCHANGED <<cacheVars, cacheMtx, diskVars, request, cacheIndex, buf,
                       i, evict, reply>>

\* Seeded fault: the last byte is not read.
BytesReadShort(n, c) ==
  [k \in 1 .. n |-> IF k <= Len(c) /\ k < n THEN c[k] ELSE 0]

(* A buffer of n bytes that was zeroed and then read c into. *)
BytesRead(n, c) == [k \in 1 .. n |-> IF k <= Len(c) THEN c[k] ELSE 0]

(* open() fails on a missing file, read() then fails on the bad descriptor. *)
Read(w) ==
  /\ pc[w] = "read"
  /\ \/ disk[request[w]] \notin Contents /\ SendError(w)
     \/ /\ disk[request[w]] \in Contents
        /\ buf' = [buf EXCEPT ![w] = BytesRead(size[w], disk[request[w]])]
        /\ Goto(w, "insert")
        /\ UNCHANGED <<cacheVars, cacheMtx, diskVars, request, cacheIndex, size,
                       i, evict, reply>>

NewEntry(w) == [request |-> request[w], content |-> buf[w], freq_used |-> 0]

\* Seeded fault: the store index does not wrap round.
NextSlotPastEnd == next_slot_to_store + 1

\* Seeded fault: the store index does not move.
NextSlotSame == next_slot_to_store

NextSlot == (next_slot_to_store + 1) % CacheSize

(* addIntoCache() while there are open slots. *)
Fill(w) ==
  /\ pc[w] = "insert" /\ cacheMtx = NoThread
  /\ num_cache_entries # CacheSize
  /\ entries' = [entries EXCEPT ![next_slot_to_store] = NewEntry(w)]
  /\ num_cache_entries' = num_cache_entries + 1
  /\ next_slot_to_store' = NextSlot
  /\ Goto(w, "send_miss")
  /\ UNCHANGED <<cacheMtx, diskVars, request, cacheIndex, size, buf, i, evict,
                 reply>>

(* addIntoCache() on a full cache: the search for a victim starts with     *)
(* entry 0 and goes on from entry 1.                                       *)
BeginScan(w) ==
  /\ pc[w] = "insert" /\ cacheMtx = NoThread
  /\ num_cache_entries = CacheSize
  /\ cacheMtx' = w
  /\ evict' = [evict EXCEPT ![w] =
       [index |-> 0, freq_used |-> entries[0].freq_used]]
  /\ i' = [i EXCEPT ![w] = 1]
  /\ Goto(w, "scan")
  /\ UNCHANGED <<cacheVars, diskVars, request, cacheIndex, size, buf, reply>>

\* Seeded fault: a later entry wins a tie.
BetterOrEqual(w) == entries[i[w]].freq_used <= evict[w].freq_used

(* The loop has come to a better victim. *)
Better(w) == entries[i[w]].freq_used < evict[w].freq_used

(* One round of the loop. *)
Scan(w) ==
  /\ pc[w] = "scan" /\ i[w] < CacheSize
  /\ evict' = IF Better(w)
              THEN [evict EXCEPT ![w] =
                     [index |-> i[w], freq_used |-> entries[i[w]].freq_used]]
              ELSE evict
  /\ i' = [i EXCEPT ![w] = @ + 1]
  /\ UNCHANGED <<cacheVars, cacheMtx, diskVars, pc, request, cacheIndex, size,
                 buf, reply>>

(* The loop is over: the victim is replaced and cacheMtx released. *)
Replace(w) ==
  /\ pc[w] = "scan" /\ i[w] = CacheSize
  /\ entries' = [entries EXCEPT ![evict[w].index] = NewEntry(w)]
  /\ cacheMtx' = NoThread
  /\ Goto(w, "send_miss")
  /\ UNCHANGED <<num_cache_entries, next_slot_to_store, diskVars, request,
                 cacheIndex, size, buf, i, evict, reply>>

SendMiss(w) ==
  /\ pc[w] = "send_miss"
  /\ reply' = [reply EXCEPT ![w] = buf[w]]
  /\ buf' = [buf EXCEPT ![w] = <<>>]
  /\ Goto(w, "log")
  /\ UNCHANGED <<cacheVars, cacheMtx, diskVars, request, cacheIndex, size, i,
                 evict>>

(* The log line is written under logMtx, and the next iteration begins.    *)
(* What the iteration left in w's locals is never read again.              *)
Log(w) ==
  /\ pc[w] = "log"
  /\ reply' = [reply EXCEPT ![w] = NoReply]
  /\ cacheIndex' = [cacheIndex EXCEPT ![w] = -1]
  /\ size' = [size EXCEPT ![w] = 0]
  /\ buf' = [buf EXCEPT ![w] = <<>>]
  /\ i' = [i EXCEPT ![w] = 0]
  /\ evict' = [evict EXCEPT ![w] = [index |-> 0, freq_used |-> 0]]
  /\ Goto(w, "idle")
  /\ UNCHANGED <<cacheVars, cacheMtx, diskVars, request>>

-----------------------------------------------------------------------------
(* What w does on its own once it has a request. *)
Serve(w) ==
  \/ Hit(w) \/ Miss(w) \/ Copy(w) \/ SendHit(w)
  \/ Stat(w) \/ Read(w) \/ Fill(w) \/ BeginScan(w) \/ Scan(w) \/ Replace(w)
  \/ SendMiss(w) \/ Log(w)

Next ==
  \/ \E w \in Workers : Serve(w) \/ \E f \in Files : Start(w, f)
  \/ \E f \in Files, s \in FileStates : Modify(f, s)

Spec == Init /\ [][Next]_vars

-----------------------------------------------------------------------------
Entry == [request : Files, content : Seq(Nat), freq_used : Nat]

(* The cache's slots hold entries, its counters and every worker's indices *)
(* stay in range (server.c:49-62, 271-275).                                *)
TypeOK ==
  /\ entries \in [Slots -> Entry \cup {NoEntry}]
  /\ num_cache_entries \in 0 .. CacheSize
  /\ next_slot_to_store \in Slots
  /\ cacheMtx \in Workers \cup {NoThread}
  /\ disk \in [Files -> FileStates]
  /\ past \in [Files -> SUBSET FileStates]
  /\ pc \in [Workers -> {"idle", "lookup", "copy", "send_hit", "stat", "read",
                         "insert", "scan", "send_miss", "log"}]
  /\ request \in [Workers -> Files]
  /\ cacheIndex \in [Workers -> Slots \cup {-1}]
  /\ size \in [Workers -> Nat]
  /\ buf \in [Workers -> Seq(Nat)]
  /\ i \in [Workers -> 0 .. CacheSize]
  /\ evict \in [Workers -> [index : Slots, freq_used : Nat]]
  /\ reply \in [Workers -> Seq(Nat) \cup {Error, NoReply}]

(* Slots are filled in order, and num_cache_entries and next_slot_to_store *)
(* agree on how many are (server.c:122-129), so that getCacheIndex() never *)
(* looks at a slot nobody has written.                                     *)
SlotsAgree ==
  /\ next_slot_to_store = num_cache_entries % CacheSize
  /\ \A k \in Slots : entries[k] # NoEntry <=> k < num_cache_entries

(* Only the thread that holds cacheMtx is inside a critical section. *)
MutualExclusion ==
  \A w \in Workers : pc[w] \in {"copy", "send_hit", "scan"} <=> cacheMtx = w

(* The index getCacheIndex() returned still means the same entry when it   *)
(* is used, and while the client is being sent the copy (server.c:304-320).*)
HitStable ==
  \A w \in Workers :
    /\ pc[w] \in {"copy", "send_hit"} =>
         /\ cacheIndex[w] \in 0 .. num_cache_entries - 1
         /\ entries[cacheIndex[w]].request = request[w]
    /\ pc[w] = "send_hit" => buf[w] = entries[cacheIndex[w]].content

(* The victim of addIntoCache()'s loop among slots 0 .. n - 1: the first   *)
(* of those with the lowest frequency.                                     *)
FirstLeastUsed(k, n) ==
  /\ \A j \in 0 .. n - 1 : entries[k].freq_used <= entries[j].freq_used
  /\ \A j \in 0 .. k - 1 : entries[k].freq_used < entries[j].freq_used

(* README.md:50: "the entry with the lowest frequency (first in cache if   *)
(* tie) is replaced".  Hits keep changing frequencies, but none while the  *)
(* loop runs on its copies (server.c:133-142).                             *)
ScanFindsLeastUsed ==
  \A w \in Workers :
    pc[w] = "scan" =>
      /\ evict[w].index < i[w] /\ i[w] \in 1 .. CacheSize
      /\ FirstLeastUsed(evict[w].index, i[w])
      /\ evict[w].freq_used = entries[evict[w].index].freq_used

(* A miss and the insertion that follows are separate critical sections,   *)
(* so several workers may insert the same file; yet a file never has more  *)
(* entries than there are workers, as nobody misses a file that is cached  *)
(* (server.c:303-321, 391-393).                                            *)
Missed(f) == {w \in Workers : request[w] = f /\ pc[w] \in {"stat", "read", "insert", "scan"}}
AtMostOnePerWorker ==
  \A f \in Files :
    Cardinality(CachedAt(f)) + Cardinality(Missed(f)) <= Cardinality(Workers)

(* Whatever other programs do to the files, what is cached for a file, and *)
(* what is sent for it, are the bytes of one content that the file had,    *)
(* cut or padded with zeros to some size: never another file's bytes, nor  *)
(* uninitialised memory (server.c:336-392).                                *)
BytesOfOneContent(f, b) ==
  \E c \in past[f] \cap Contents : b = BytesRead(Len(b), c)

SentIsFromTheFile ==
  /\ \A k \in 0 .. num_cache_entries - 1 :
       BytesOfOneContent(entries[k].request, entries[k].content)
  /\ \A w \in Workers :
       reply[w] \notin {NoReply, Error} => BytesOfOneContent(request[w], reply[w])

(* A file nobody touches is served as it is, from the cache or the disk,   *)
(* and an error is sent for it exactly when it cannot be read.             *)
UntouchedFileServed ==
  \A w \in Workers : \A s \in FileStates :
    past[request[w]] = {s} /\ reply[w] # NoReply =>
      reply[w] = IF s \in Contents THEN s ELSE Error
=============================================================================
