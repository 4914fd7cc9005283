# Verification of the operating-systems projects

The repository holds three C programs, one for each course project:

| program | directory | what it is |
|---|---|---|
| web server | `src/Project 3 - Multithreaded Web Server` | dispatcher and worker threads, a bounded request queue, an LFU file cache |
| chat room | `src/Project 2 - Server` | a server, a child process for each user, clients, and pipes between them |
| make4061 | `src/Project 1 - Makefile` | a makefile parser and a recursive builder |

Line numbers below are those of the file named with them, in the program's directory.

This project models the three programs' control in TLA+, checks the models with
TLC, and proves with TLAPS, for all sizes, what matters most about each: the web
server's queue, its cache and the whole server around them; the makefile
parser and the builder; and the chat room's list of users and the lines that
pass through it.

## 1. Inventory

### Web server (`server.c`, `util.c`)

| part | state | operations | hard behaviour | what makes it correct |
|---|---|---|---|---|
| request queue | ring buffer `requests`, two indices and a counter; mutex `mtx`, condition variables `freed`, `filled` | `dispatch()` 243-257, `worker()` 283-297 | signals sent after the mutex is released, threads that overtake sleepers, spurious wakeups, full and empty | bounded FIFO: nothing lost, repeated, overwritten; no lost wakeup; progress |
| file cache | `entries`, `num_cache_entries`, `next_slot_to_store`; mutex `cacheMtx` | `getCacheIndex()`, `addIntoCache()`, `readFromDisk()` and `worker()` 303-402 | a miss and its insertion are two critical sections, eviction races hits, files change between `stat()`, `read()` and later hits | an entry in use stays, the victim is the least used, bytes are those of the file |
| connections | descriptors, `accept_con_mutex` | `accept_connection()`, `get_request()`, `return_result()`, `return_error()` (`util.c` 140-322) | clients that vanish, stall, do not read or send more than is read; a reset that destroys a reply; `SIGPIPE`; a number that is closed and used again | each descriptor has one owner and is closed once; a client gets its own reply, whole if the connection is closed in order; who asks and reads is answered |
| start-up, shutdown | `signal_received` | `main()`, `catch_int()` | threads are cancelled without waiting, then their memory is freed | nothing is used after it is freed |
| log, content type, clock, dynamic pool | log file, `logMtx` | `getContentType()`, `getCurrentTimeInMicro()`, stubs | none | - |

Dispatchers and workers share the queue; workers share the cache; a request
(descriptor and path) passes from a dispatcher through the queue to a worker,
which answers it from the cache or the disk.

### Chat room (`server.c`, `comm.c`, `client.c`, `util.c`)

| part | state | operations | hard behaviour | what makes it correct |
|---|---|---|---|---|
| server | `user_list`, buffers `buf` and `user_id` | connect 362-418, administrator 425-471, poll users 474-516 | buffers that keep old contents, users that leave half way, commands read together | user list, children and pipes agree; everybody gets what is meant for them |
| child, one for each user | four pipe ends | relay 522-538 | it reports the end of its user again and again, and never notices the end of the server | lines pass once and in order |
| client | two pipe ends | `client.c` 56-101 | death at any time | it ends when it is removed or the server has gone |
| connection | listening socket, pipes handed over | `connect_to_server()`, `get_connection()` | a caller that says no name, or ends before it has; rejected clients already have their pipes; children inherit descriptors | a client is accepted, rejected or told, and nobody but a silent caller holds the server up |

A user's line goes client -> child -> server -> children -> clients.

### make4061 (`main.c`, `util.c`)

| part | state | operations | hard behaviour | what makes it correct |
|---|---|---|---|---|
| parser | array of targets, a pointer, a count, a flag | `parse()` | pointer and count advance at different lines | the array says what the file says, malformed files are rejected |
| builder | `Status` of each target, the C stack, files' times | `build()`, `compare_modification_time()`, `main()` 249-253 | shared dependencies, cycles, times that change while it runs, commands that fail or are killed | each command at most once, after its dependencies, none after a failure |
| options, tokens | - | `main()` 186-209, `parse_into_tokens()` | string handling | - |

`PROJECT.json` lists all parts under `components`, modelled or not, and the
hazards of the code, each at its line with the properties that would catch it
going wrong, under `hazards`.

## 2. Plan

Done, in this order: the queue, its abstract specification and its proofs; the
cache and its proofs; the builder; the parser and its first proofs; the chat
room; the web server around queue and cache, the service it offers, and the proof
that it does; the proofs of the builder; the rest of the parser's and of the
cache's proofs; the chat room's roster and its proof; the abstract chat room, the
proof that `Chat` implements it, and the proofs about its lines.

Left:

1. `BroadcastReachesAll` while users join and leave: it would have to say who was
   in the list when the server read the message, which no variable of the code
   records.
2. The web server's shutdown (`main()` 544-566), if it is ever made to wait for
   its threads; as it stands it uses freed memory (section 6).

## 3. Modules

Names of variables, actions and labels are those of the source where TLA+
allows it. Every module has its seeded faults next to the definitions they
replace: plausible bugs, used nowhere in the specifications, that show which
property would notice them (`mutants` in `PROJECT.json`).

**`Fifo`** - what the request queue promises: items are offered, put into a
bounded sequence, got in order and finished.

**`RequestQueue`** - `request_queue_t`, `mtx`, `freed`, `filled`, and the loops of
`dispatch()` and `worker()`. `pc[t]` is a thread's place; one action for each
stretch between two points where others can interfere: `Lock`, the loop's test
(`WaitFreed`/`WaitFilled` or `LeaveLoop`), `Store`/`Take`, `Unlock`, and the
signal, which is a step of its own as it comes after the unlock. A woken thread
competes for `mtx` with the others and tests again. `SpuriousWakeup` is what POSIX
allows. `Receive` stands for `accept_connection()` and `get_request()` having
succeeded; if they do not, nothing changes. `Serve` is the rest of a worker's
iteration. `Refinement` maps the ring to `Fifo`'s sequence.

**`FileCache`** - `cache_t` under `cacheMtx`, with the disk. A lookup that hits
takes the mutex (`Hit`) and keeps it through `Copy` and `SendHit`; one that misses
is one step (`Miss`). `Stat` and `Read` are apart, so that `Modify`, another
program that replaces or removes a file, can come between. `addIntoCache()` is
`Fill` with open slots, and otherwise `BeginScan`, `Scan` for each round of the
loop, and `Replace`. Contents are byte sequences, so that a read that is too
short or too long can be seen; `past` records what each file has been. The
worker's locals are cleared at the end of an iteration (`Log`): nothing reads
them before they are set.

**`HttpService`** - what the web server promises its clients: each asks once, and
what reaches it is, part by part, one reply to what it asked: the file or an
error.

**`WebServer`** - everything around queue and cache. The queue is an instance of
`Fifo`, which `RequestQueue` is proved to implement, and carries a descriptor and
a file; of the cache the set of cached files and `cacheMtx` are kept, so that a
hit is answered under the mutex (`server.c` 303-320) and a miss is not. Dispatchers
`Accept` the oldest connection under the lowest free number, `ReadLine` or
`Refuse`, and `Put`; workers `Get`, `Lookup`, `Insert`, write `Header` and `Body`,
and close (`EndReply`). `Write` has every outcome of a `write()`: the client is
there; it has gone, the write goes well, and its kernel may answer that nobody
is there; after that answer the next write raises `SIGPIPE`, which nobody catches
(`alive` becomes FALSE); or the client has reset the connection, and the write
fails if that has arrived. `Closed` is `close()` in order, or as a reset when
there is input that the server never read (`SendMore`: header lines that come
after the first). A client may dawdle, leave before or after it has asked, and not read. `Blocked`
says that a reply too big for the socket's buffers waits for its reader.
`Refinement` maps `line` and `received` to `HttpService`.

**`Make4061`** - `build()` with the C stack as a sequence of frames, one action for
each branch of the loop over dependencies, the fork, and the ways in which a
command ends. What a call returns is kept in `returned` until the caller, in a
step of its own, has looked at it (`main.c` 105-107): `CallerGoesOn` to its next
dependency, or `CallerFails` by returning -1 in turn, so that a failure passes up
through the calls one by one and anything could come between if the code let it.
A command may write or remove the files in `Writes`, its own target's or others'.
`left` records which dependencies a target went past because they were older
at that moment. `main()` gives `build()` a copy of the initial target (`Root`). The
module checks a set of makefiles at once: the initial state chooses one, and
files' times. `Undone`, `Marked`, `Older` and `Advance` are the tests and
assignments that the branches share. `Acyclic` says that the targets can be
numbered so that dependencies have smaller numbers (`Ranks`).

**`MakefileParser`** - `parse()`, one action for each kind of line. What stands on a
line is abstracted to the number of the line. Nothing in the code checks for
room: `NextTarget` is where the next target goes, and a line that needs a slot
after the last one is `Overrun`, which ends the model as what the program does
then is undefined.

**`Chat`** - the server's loop with its polling order, children, clients and
persons. Pipes are bounded sequences of lines, a `read()` takes what fits the
buffer, and `CommandTypes` is what the server may make of lines read together:
the next line continues a command's last word or not, depending on texts that
the model does not have, so an incomplete `\p2p` may become a complete one
(`MayGoTo`), stay one, or become a message to all.
Non-blocking writes that do not fit are dropped. `turn` is the order in which a
child polls, `blank` and `user_id` are the server's buffers that keep their
contents between rounds, `heirs` says which children inherited the pipe ends
of a rejected client. `get_connection()` is cut where it waits: a client that is
`calling` has connected and not said its name, and its connection is `silent`
until it does; the server that has accepted it waits (`AwaitName`, `caller`) for
the name, or for its end (`CallLost`). `ForkFails` leaves a user without a child
(`childless`): from then on the server's loop neither accepts nor relays
(`Asleep`), and removing that user is `kill(-1, SIGKILL)`, which ends everybody.
A server's or child's step reads one pipe and does the
writes that follow; nobody else reads that pipe or writes the others.
`Refinement` maps what users have typed and been sent to `ChatRoom`.

**`ChatRoom`** - what the chat room promises about lines, with neither processes,
pipes nor commands. There is one place that all lines pass, some of one user's
after some of another's (`Deliver`), and from which each goes to any users but its
author. Lines may be lost before that place and behind it (`Lose`), in any stretch
that ends or fills a pipe; they are not repeated, do not overtake each other, and
what has been shown stays. The one place is the server's loop 474-516: `said[k]`
is what the two pipes from *k* to the server hold (`client` -> child -> server),
`pending[k]` what the two pipes back hold. `Typed` leaves out what no user typed:
the `\exit` that a child sends in its user's name, the administrator's notices, and
replies to `\list`. In which order `Deliver` takes the users, and to whom it
sends, is left open; that a message to all goes to all is `BroadcastReachesAll`.

**`MC...`** - values of constants that a `.cfg` cannot express, symmetry, and in
`MCChat` a room that all users have already joined (`JoinedSpec`).

## 4. Runs

| run | asks | instance |
|---|---|---|
| `queue_safety` | slots used safely, ring consistent, no wakeup lost, pool awake, and is it a FIFO queue? | 2 dispatchers, 3 workers, queue of 2 |
| `queue_live` | progress: a stored request is taken, a full queue does not stop all dispatchers | 2 + 2 threads, queue of 1 |
| `cache_safety` | entries stay while used, LFU, slots, duplicates bounded, and the right bytes while files change and when they do not | 2 workers, 2 files of four kinds of state each, 2 slots |
| `web_safety` | one owner of each descriptor, whole replies, and is it an `HttpService`? | 2 dispatchers, 2 workers, 2 clients that do anything, 2 files, 4 descriptors |
| `web_live` | is a client that asks and reads answered, and what alone can prevent it? | 1 dispatcher, 2 workers, 2 patient clients and one that does anything, 2 descriptors |
| `make_order` | once, in order, failures handed up with nothing started on the way; it ends | all 160 acyclic makefiles of 3 targets and a source, 32 more most of which have cycles, all times, commands that touch others' files |
| `parser` | the array is what the file says, and is left only when it is full | every file of up to 6 lines, an array of 3 |
| `chat_roster` | list, children and pipes agree, and is it a `ChatRoom`? | 2 clients, 2 names, 2 slots, pipes of one line, 2 typed lines, one admin line, deaths of children and server, failing `fork()` |
| `chat_order` | nothing twice, nothing out of order, same order for all, and messages to all reach all | 4 users in the room, 2 lines of any kind, reads of 2 lines |
| `chat_ends` | removed clients end, all end with the server, nobody waits but for a silent caller | 3 clients of one name, 1 slot, one admin line, `^C`; no `fork()` fails, after which the server would serve nobody either |

Two further runs show where the code does not do what its own text says; each
checks one property that quotes the text, and `findings` in `PROJECT.json` says
what happens:

| run | text | what the code does |
|---|---|---|
| `make_stale` | `main.c:103` | *b* and *c* share *d*, which is built for *b*; at `main.c:102` *c* goes past it unmarked, though the file of *d* is then newer than its own |
| `chat_departed` | chat `README.md:39` | a dead client may stay in the list, though nothing holds the server up: its two `\exit`s read together are no command |

The models have further steps that a reader of the documents may not expect. No
run is about them, but each is an action or a case of one:

* two workers that miss the same file together both cache it (web server
  `README.md:43` counts files); `AtMostOnePerWorker` bounds the duplicates;
* a file that changes between `stat()` and `read()` is sent, and cached, cut or
  padded with zeros (`BytesRead`; `util.h:60`);
* a command killed by a signal counts as built (`ChildKilled`; `main.c:47`);
* a dependency skipped because it is older than one target may be run later for
  another (`SkipOlder`; `main.c:214` speaks of a topological sort), which is why
  `ReadyWhenRun` speaks of direct dependencies only;
* when the server alone ends its children go on relaying and no client ends
  (`Crash`; chat `README.md:46`);
* a full pipe keeps the users in later slots from getting a message
  (`Broadcast`; chat `README.md:40`); `BroadcastReachesAll` says that in a full
  room with pipes that hold all lines no message is lost;
* a private line that is read together with the line before it goes to all
  (`CommandTypes`; chat `README.md:38`);
* a client of the web server that sends header lines late may lose a reply that
  was sent whole, as `close()` then resets the connection (`Closed`), and one that
  leaves early may end the server (`Write`). `NoHalfReply` and `Served` say what
  holds in spite of that.

### Bounds, and why they are enough

* Queue: with 2 slots and 3 workers a signal can wake one sleeper while another
  worker overtakes it and a third still sleeps; a queue of 1 makes all threads
  contend for one slot. The proofs drop these bounds.
* Cache: as two workers may cache the same file twice, 2 slots and 2 files force
  evictions, of entries that others are about to look for. `MaxFreq` 1 gives ties and strict
  differences of frequency; nobody asks for a file whose entry has reached
  `MaxFreq` (the guard of `Start`). `MaxStates` 2 lets each file change once between
  any two steps, among two contents, absent and unreadable; contents of 1 and 2
  bytes without a common byte show cut, padded and mixed replies. The proofs drop
  these bounds but `MaxFreq`, which they leave arbitrary.
* Web server: `MaxFD` is the limit on open descriptors. With four, numbers are
  used again while others are open; with two and three clients (`web_live`),
  `accept()` must wait for a close. A queue of 1 makes dispatchers wait in `Put`.
  Each client connects once; `Big` has a file that fits no buffer and, in
  `web_safety`, `Files` one that does. The proofs drop these bounds.
* make4061: three targets give shared dependencies, chains, and cycles of length
  1 to 3; `make_stale` needs a diamond of four. Times are compared only: absent,
  0 and 1 (`MaxTime`, the bound on times) are older, same and newer. In
  `make_order` one command writes its own file only, one a source too, and one
  another target's (`Untidy`); they leave or remove those files in every way. The
  proofs drop these bounds.
* Parser: a wrong step of pointer or count shows after at most three targets;
  six lines hold three with commands, and overrun an array of three
  (`MAX_NODES`) with a fourth target or with a second command after the third.
  The proofs drop these bounds.
* Chat: `MaxLines` and `MaxAdmin` bound what persons type, `Commands` the kinds of
  lines and `Faults` what may fail in a run. A pipe of one line is full at once
  (`chat_roster`, `chat_ends`); one of two lets lines be joined (`chat_order`).
  `chat_roster` has joining, leaving and lines together, with two clients, as
  more of either takes too long: a name that is taken, a slot used again, and
  lines that are lost because a pipe is full or a process ends. Lack of room is in
  `chat_ends`, with three clients and one slot. `chat_order` starts with a full
  room in which nobody joins or leaves, so that four users fit in. The proofs
  drop these bounds, for `BroadcastReachesAll` in a room that all have joined, and for
  all but the liveness of `chat_ends`.

### Deadlock

Queue and cache are checked for deadlock. `CHECK_DEADLOCK FALSE` is for programs
that end, and for the web server's runs, whose clients connect once each: when the
last has been answered nothing is left to do. `Served` is what shows there that
nobody waits for a deadlock.

### Fairness

* `RequestQueue`: weak fairness for each thread's own steps: a running thread
  does not stop between two statements. Strong fairness for `Lock`: a thread that
  finds `mtx` free again and again gets it, as with glibc's mutex, which wakes a
  waiter at each unlock. None for `Receive` (clients may stay away) and none for
  `SpuriousWakeup`.
* `FileCache` is checked for safety only; its liveness is part of `WebServer`'s.
* `WebServer`: weak fairness for each dispatcher's and worker's steps, among them
  those that lock `cacheMtx`: as clients connect once each, nobody is overtaken at
  a mutex for ever. Of the queue only that some dispatcher puts and some worker
  gets, which is what `queue_live` shows of `RequestQueue`. A patient client asks
  and reads; of the others nothing is assumed, and `Served` names what they can
  do about it.
* `Make4061`: weak fairness of the whole: the program goes on and every command ends.
* `Chat`: weak fairness of the server, of each child and of what each client does
  by itself: all are polling loops with short sleeps. None for persons and faults.

## 5. Proofs

| module | theorem | says, for all values of the constants |
|---|---|---|
| `RequestQueueProofs` | `QueueTypeCorrect`, `SlotUseIsSafe`, `RingStaysConsistent` | the run's invariants |
| | `WakeupsAreNotLost`, `PoolStaysAwake` | `NoLostWakeup`, `SomeoneAwake` |
| | `QueueIsFifo` | `Spec => F!Spec` |
| `FileCacheProofs` | `CacheTypeCorrect`, `SlotsStayInAgreement`, `HitIsStable`, `VictimIsLeastUsed` | the run's invariants |
| | `DuplicatesAreBounded` | at most one entry of a file for each worker |
| | `SentBytesAreTheFiles` | replies and entries are bytes of one content of the file |
| | `UntouchedFilesAreServed` | a file that nobody changes is sent as it is |
| `WebServerProofs` | `WebTypeCorrect`, `ConnectionsHaveOneOwner` | `TypeOK`, `OneOwner` |
| | `NoReplyIsCutShort` | `NoHalfReply` |
| | `ClientsGetTheirReplies` | `Spec => H!Spec`: the server implements `HttpService` |
| `Make4061Proofs` | `MakeTypeCorrect`, `CommandsRunOnce`, `DependenciesAreReady`, `CallersAreMarked` | the run's invariants |
| | `NothingAfterFailure` | the action property `StopsAtFailure`: on the way of a failure up to `main()` nothing is started |
| `MakefileParserProofs` | `ParserTypeCorrect`, `ArrayIsTheMakefile`, `MalformedIsRejected` | the run's invariants, for any number of targets |
| | `ParserStaysInStep` | `InStep`: pointer, count and flag agree (a part of the inductive invariant) |
| | `ArrayHoldsMaxNodes` | `OverrunsOnlyWhenFull`: exactly which files overrun the array |
| `ChatProofs` | `RosterStaysInAgreement` | `RosterAgrees` |
| `ChatRoomProofs` | `LinesInOrder`, `SameOrder` | the two properties below, of `ChatRoom` |
| `ChatOrderProofs` | `TypeCorrect` | `TypeOK`: no pipe holds more than fits |
| | `ImplementsRoom` | `Spec => R!Spec`: the chat room implements `ChatRoom`, whatever fails |
| | `ShownOnceInOrder`, `ShownInOneOrder` | `EachOnceInOrder`, `SameOrderForAll`, under `Spec` with joining, leaving and all faults (the run has a room that all have joined) |
| | `BroadcastReaches` | `BroadcastReachesAll`, under the run's `JoinedSpec` |

The theorems that these follow from (`QueueInvariant`, `CacheInvariant`,
`BytesInvariant`, `WebInvariant`, `ReplyInvariant`, `MakeInvariant`,
`ParserInvariant`, `WrittenInvariant`, `RosterInvariant`, `RoomInvariant`,
`FlowInvariant`) say that the inductive
invariants described below hold.

Assumptions: those the modules declare, which are what `main()` checks of its
arguments, and that constants which stand for "nothing" differ from the rest.
The parser's array is not empty, and nothing is assumed of the file.
`Make4061` assumes that the target asked for is in the makefile.
`BroadcastReaches` has one hypothesis more, `PlaceForAll`, which says what the
initial state of `JoinedSpec` needs: as many slots as clients, a name for each, and
an administrator who types nothing. `chat_order`'s constants satisfy it.

*Queue.* `StillTrueWhenUsed` is not inductive: that a dispatcher at `store` sees a
queue that is not full rests on nobody else being in a critical section. The
inductive invariant `IInv` is the type, `MutualExclusion`, `StillTrueWhenUsed`,
`NoGarbage` (who is on the way to the queue has a request) and `RingConsistent`.
`NoLostWakeup` is inductive on top of it. It counts: while workers sleep,
the queued requests are at most the workers that are about to look plus the
dispatchers that have yet to signal. Every action changes both sides by at most
one, and the signal moves a dispatcher out of one set and a worker into the
other. That the two halves exclude a pool that is all asleep is arithmetic
(`QueueSize` > 0). The refinement needs the ring's arithmetic (`Wrap...`), that
storing appends and taking beheads (`StoreAppends`, `TakeBeheads`).

*Cache.* `IInv` is the type, `SlotsAgree`, `MutualExclusion`, `ScanFull` (a scan only
runs on a full cache), `HitStable` and `ScanFindsLeastUsed`. `AtMostOnePerWorker` is a
counting argument on top of it: a miss happens only when no entry is there, an
insertion turns one pending miss into one entry, and hits add neither.
`SentIsFromTheFile` is strengthened by `FromFiles`, which says the same of every
worker's buffer. `Untouched` says of a file with one state in `past` that every
entry, size and buffer for it is that state's; as `past` only grows, a file that
has one state now has had one all the time.

*Web server.* `OneOwner` speaks of a set of holders; `Owned` says the same pair by
pair, which is inductive with `OneThing` (a dispatcher reads from a connection or
has an item to queue, never both; a worker has an item unless it is idle). For
the replies, `Placed` adds that a client is in one place only - not connected, in
the backlog, or under one number - `Asked` that each item in anyone's hands is
the request of the client its descriptor belongs to *now*, and `Told` what has
been sent to a client, as a function of the place of the one worker that answers
it. The refinement follows, as a client reads what `Told` says was sent.

*Builder.* The stack is a path in the dependency graph: `Rooted` (only the
outermost call is for the copy `main()` made), `Chain` (callers are marked and at
the dependency they called) and `Adjacent` (a target calls itself at most
directly - which is why recursion ends in cyclic makefiles too). `InProgress`
says that who is marked and not finished is on the stack. In makefiles without
cycles `Descends` turns the numbering of `Ranks` into distinct calls, `NotAgain` says
that a target whose command was started is never called again, and `Past` what a
call knows of the dependencies it has gone past: they are finished, or in `left`
and untouched. `Running` says that a command that runs is that of the innermost
call. `Reported` relates `returned` to the caller, which still is at the
dependency that it called: success means that this dependency is finished. `Stopped` says that once a command has
exited with an error or a `fork()` has failed, what is being returned is
"failure": it is inductive as no action but `CallerFails` is then enabled, that
is, because every caller tests what `build()` returned; `CallerForgives`, the
mutant, breaks it at the first caller.

*Parser.* `IInv` is the type, `InStep`, that `nTargetCount` is the number of target
lines read up to an overrun, and `Waiting` (a target that waits for its command
is in the array), which bounds the pointer by `MAX_NODES`: it is advanced past
a slot only when that slot has its command, or to a slot that is there.
`WInv` adds `Placed` (slot *k* holds the target line that is the *k* + 1st),
`Complete` (a last target that waits for no command has one), and the three
properties, which are then inductive. `OverrunsOnlyWhenFull` follows as the count
says which slots are taken, so that the slot that is missed at an `Overrun` is the
one after `MAX_NODES` targets.

*Chat roster.* Steps are of three kinds: `Quiet` (the list stays), `Enters` (one user
is added to a free slot) and `Leaves` (users are removed and their children killed);
that each action of `Next` is of one of them is all that is needed of pipes and
lines. `RosterAgrees` is inductive with `Called` (who has not said its name has
not been let in), `LetIn` (who is in the list has been let in, so it is not let in
twice) and `Forked` (a user without a child is one whose `fork()` failed).

*Abstract chat room.* The two properties of `ChatRoom` are inductive only together
with what they say of lines on their way. `Heard(k)` is what *k* has been shown and
what is on its way to it. `IInv` is the type; `Own` (a user's lines carry its name,
and numbers that have been given out); `SaidAscends` and `HeardAscends` (lines of
one user are in the order of their numbers, on both sides of the one place);
`HeardBeforeSaid` (a line of a user that anybody has heard is older than those
that it still has to pass); and `Agreed` (no two users hear two lines in opposite
orders). `HeardBeforeSaid` is what makes `Deliver` keep the others: lines that pass
the place are new to everybody, so they come last for all who get them. All
parts speak of a line that comes before another in a sequence (`Prec`), and
`Within` - what is left of a sequence keeps the order - says in one line why losses
disturb none of them.

*Lines in pipes.* `ImplementsRoom` needs that `Typed` of a concatenation is the
concatenation of `Typed` (`TypedConcat`), as `said` and `pending` are `Typed` of two
pipes in a row. `Typed` is a recursive function, so its lemmas are inductions on
a length; the library's induction theorems cannot be instantiated here, and the
proofs take a least counterexample instead (`Least`, from `WellFoundedInduction`).
The invariant is the roster's `IInv`, `Loops` (the server and the children are at a
place of their loops, and the slot polled is one of the list) and `Flow` (pipes
hold lines, no more than fit). Each action then types (`TypeStep`), delivers
(`DeliverStep`, `PollBroadcastStep`, `PollP2pStep`), shows (`ShowStep`), loses
(`LosesSimulates`), or leaves the typed lines alone (`QuietSimulates`, `NoticeStep`,
`ReplyStep`). A write
that does not fit leaves the pipe as it was, so a line is lost whole; a process
that ends empties its pipes, which loses a stretch in the middle of `said` or
`pending`. That is why `ChatRoom`'s `Left` keeps a beginning and an end.

*Messages to all.* `BroadcastReaches` is about a full room with pipes for `MaxLines`
lines. That no write is dropped is a count (`Roomy`): each line a user is being
sent goes back to a line that the server has read. `Pool` is the set of places in the
pipes to the server that hold a line; what is on its way to a user, plus the
size of `Pool`, is at most what has been typed. Typing adds one to both sides, a
read takes its lines out of `Pool` before it sends at most as many to each user. As
every pipe then has room for what is sent, `Broadcast` stops at no slot, and
`Reaches`, which is the property said position by position, is inductive with
`Joined` (nobody comes or goes) and `Upstream` (all that the server reads is typed,
under its author's name: no `\exit` is on its way).

Only model-checked: liveness (`EventuallyTaken`, `SomeoneStores`, `Served`,
`Terminates`, `RemovedClientsEnd`, `ClientsEndWithServer`, `Attended`), which the
prover does not reach. Every invariant and every action property of the runs
that pass, and each of their refinements, is a theorem. The two runs that find
a violation have nothing to prove.

## 6. Not modelled

* String handling: names and lines that are too long, tokens, a message of more
  than 16 words, formatting, content types.
* The web server's shutdown: threads are asked to end and not waited for, then the
  memory that they use is freed (`server.c` 544-566). That is undefined behaviour
  whenever a thread is past its last cancellation point; no property of a model
  would say more.
* The web server's log and clock: I/O at the end of an iteration, under a mutex
  that nobody holds while waiting for anything else. Its dynamic pool: a stub.
* `pipe()` and `socket()` failing for lack of descriptors, lost ancillary messages
  (`comm.c`), and an end of file on the chat server's terminal, which makes it
  read outside its buffer.
* What make4061 does after its parser has left the array of targets (`Overrun`), or
  with more than 10 dependencies of one target: undefined behaviour.
* Options, tokens and `show_targets()` of make4061, and a target that is not in the
  makefile, for which `main()` copies `targets[-1]`.
* Memory: contents and entries are values; that freed memory is not used while a
  hit is copied is what `HitStable` says of the entry.
* Test data, checked-in executables, the performance report.
