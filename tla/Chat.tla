-------------------------------- MODULE Chat --------------------------------
(***************************************************************************)
(* The chat room: the server, the child that it forks for each user, the   *)
(* user's client, and the four pipes of a user                             *)
(*                                                                         *)
(*   client --fromUser--> child --toServer--> server                       *)
(*   client <--toUser---- child <-fromServer- server                       *)
(*                                                                         *)
(* Pipes carry bytes: a read() returns what several write()s put there, up *)
(* to MAX_MSG bytes.  Here a pipe is a sequence of lines, all of the same  *)
(* length, of which PipeSize fit in the pipe and MaxRead in a buffer.  All *)
(* ends are non-blocking: a write() of what does not fit fails as a whole  *)
(* (PIPE_BUF is larger than MAX_MSG), and only broadcast_msg() minds.      *)
(*                                                                         *)
(* A step of the server or of a child reads one pipe and does all the      *)
(* writes that follow.  It is the only reader of that pipe and the only    *)
(* writer of the others, so that nobody can tell.                          *)
(*                                                                         *)
(* What becomes of the users' lines implements ChatRoom (Refinement).      *)
(***************************************************************************)
EXTENDS Integers, Sequences, FiniteSets

CONSTANTS
  Clients,     \* the client processes that may be started
  Names,       \* user names
  MAX_USER,    \* slots of user_list
  PipeSize,    \* lines that fit in a pipe
  MaxRead,     \* lines that fit in a buffer of MAX_MSG bytes
  Commands,    \* bound: the kinds of lines that users type
  MaxLines,    \* bound: how many lines all users together type
  MaxAdmin,    \* bound: how many lines the administrator types
  Faults,      \* bound: which of "crash", "interrupt", "child" (one is
               \* killed) and "fork" (one is not made) may happen
  NoName,      \* a name buffer nobody has written to
  NoUser       \* SLOT_EMPTY

ASSUME ChatAssumption ==
  /\ IsFiniteSet(Clients) /\ IsFiniteSet(Names) /\ NoName \notin Names
  /\ MAX_USER \in Nat \ {0}
  /\ MaxRead \in Nat \ {0} /\ PipeSize \in Nat /\ MaxRead <= PipeSize
  /\ Commands \subseteq {"text", "list", "p2p"}
  /\ MaxLines \in Nat /\ MaxAdmin \in Nat
  /\ Faults \subseteq {"crash", "interrupt", "child", "fork"}
  /\ NoUser \notin [client : Clients, id : Names \cup {NoName}]

VARIABLES
  name,        \* name[k]: client k's argument
  client,      \* client[k]: not started yet ("off"), connected ("calling"),
               \* waiting for its pipes ("connecting"), "chatting", or "gone"
  conn,        \* conn[k]: k's connection: "none"; nothing in it yet
               \* ("silent"), k's name in it ("pending"), or closed without
               \* one ("mute"); the user "accepted" or "rejected", or
               \* added without a child as fork() failed ("childless")
  child,       \* child[k]: k's child is running
  turn,        \* turn[k]: the pipe that k's child reads next
  fromUser, toServer, fromServer, toUser,    \* the pipes of k
  server,      \* where the server is in its loop, or how it ended
  caller,      \* whose name it waits for in get_connection(), or NoUser
  i,           \* the slot that it polls
  user_list,   \* the server's
  user_id,     \* the server's buffer for the last name it has read
  blank,       \* TRUE: the server's buf holds an empty line; otherwise, when
               \* the server is about to read into it, it is all zeros
  heirs,       \* heirs[k]: children forked after k was rejected
  typed,       \* how many lines users have typed
  lines,       \* how many the administrator has
  shown        \* history: shown[k]: the typed lines that k has shown to its user

pipes == <<fromUser, toServer, fromServer, toUser>>
roster == <<caller, user_list, user_id, blank, heirs>>
vars == <<name, client, conn, child, turn, pipes, server, i, roster, typed,
          lines, shown>>

Slots == 1 .. MAX_USER

(* Line n of all, typed at client k.  Lines that a child or the server     *)
(* makes up have n = 0; those of the server come from nobody.              *)
Line(k, n, kind, to) == [from |-> k, n |-> n, kind |-> kind, to |-> to]
ExitLine(k) == Line(k, 0, "exit", NoName)
Notice      == Line(NoUser, 0, "notice", NoName)
Reply       == Line(NoUser, 0, "reply", NoName)

(* The lines in c that users have typed. *)
Typed(c) ==
  LET T[m \in 0 .. Len(c)] ==
        IF m = 0 THEN <<>>
        ELSE IF c[m].n > 0 THEN Append(T[m - 1], c[m]) ELSE T[m - 1]
  IN T[Len(c)]

(* write() and read() of a pipe whose other end is open. *)
Fits(p, c)  == Len(p) + Len(c) <= PipeSize
Write(p, c) == IF Fits(p, c) THEN p \o c ELSE p
Size(p)     == IF Len(p) <= MaxRead THEN Len(p) ELSE MaxRead
Read(p)     == SubSeq(p, 1, Size(p))
Unread(p)   == SubSeq(p, Size(p) + 1, Len(p))

Over == server \in {"exited", "interrupted", "crashed"}
(* Children inherit the listening socket. *)
Listening == ~Over \/ \E k \in Clients : child[k]

-----------------------------------------------------------------------------
(* setup_connection() and init_user_list(); no client has been started. *)
Init ==
  /\ name \in [Clients -> Names]
  /\ client = [k \in Clients |-> "off"]
  /\ conn = [k \in Clients |-> "none"]
  /\ child = [k \in Clients |-> FALSE]
  /\ turn = [k \in Clients |-> "user"]
  /\ fromUser = [k \in Clients |-> <<>>]
  /\ toServer = [k \in Clients |-> <<>>]
  /\ fromServer = [k \in Clients |-> <<>>]
  /\ toUser = [k \in Clients |-> <<>>]
  /\ server = "connect" /\ i = 1 /\ caller = NoUser
  /\ user_list = [s \in Slots |-> NoUser]
  /\ user_id = NoName /\ blank = FALSE
  /\ heirs = [k \in Clients |-> {}]
  /\ typed = 0
  /\ lines = 0
  /\ shown = [k \in Clients |-> <<>>]

-----------------------------------------------------------------------------
(* The client: main() of client.c and connect_to_server(). *)

Dial(k) ==
  /\ client[k] = "off" /\ Listening
  /\ client' = [client EXCEPT ![k] = "calling"]
  /\ conn' = [conn EXCEPT ![k] = "silent"]
  /\ UNCHANGED <<name, child, turn, pipes, server, i, roster, typed, lines, shown>>

(* Nobody has k's connection, or will ever take it from the listen queue. *)
HungUp(k) == ~Listening \/ (Over /\ caller = k)

(* k writes its name, or ends before it has. *)
SayName(k) ==
  /\ client[k] = "calling" /\ ~HungUp(k)
  /\ \/ /\ client' = [client EXCEPT ![k] = "connecting"]
        /\ conn' = [conn EXCEPT ![k] = "pending"]
     \/ /\ client' = [client EXCEPT ![k] = "gone"]
        /\ conn' = [conn EXCEPT ![k] = "mute"]
  /\ UNCHANGED <<name, child, turn, pipes, server, i, roster, typed, lines, shown>>

(* write() fails, or k waits for its pipes and nobody is left to send them. *)
Refused(k) ==
  /\ client[k] \in {"calling", "connecting"} /\ HungUp(k)
  /\ client' = [client EXCEPT ![k] = "gone"]
  /\ UNCHANGED <<name, conn, child, turn, pipes, server, i, roster, typed, lines, shown>>

(* Nobody reads what a client writes whose child is gone; the server keeps *)
(* the pipes of the clients that it rejected open.                         *)
Readable(k) == child[k] \/ conn[k] = "rejected"

Send(k, line) ==
  fromUser' = IF Readable(k)
              THEN [fromUser EXCEPT ![k] = Write(@, <<line>>)] ELSE fromUser

(* A line for the server; a "\p2p" that lacks its name or its text has no *)
(* to.                                                                     *)
Type(k, kind, to) ==
  /\ client[k] = "chatting" /\ typed < MaxLines
  /\ kind \in Commands
  /\ typed' = typed + 1
  /\ Send(k, Line(k, typed', kind, to))
  /\ UNCHANGED <<name, client, conn, child, turn, toServer, fromServer, toUser,
                 server, i, roster, lines, shown>>

(* The process ends, and what it has not read is lost. *)
Leave(k) ==
  /\ client' = [client EXCEPT ![k] = "gone"]
  /\ toUser' = [toUser EXCEPT ![k] = <<>>]

(* "\exit" *)
TypeExit(k) ==
  /\ client[k] = "chatting"
  /\ Send(k, ExitLine(k))
  /\ Leave(k)
  /\ UNCHANGED <<name, conn, child, turn, toServer, fromServer, server, i,
                 roster, typed, lines, shown>>

(* "\seg", or any other end of the process. *)
Die(k) ==
  /\ client[k] \in {"connecting", "chatting"}
  /\ Leave(k)
  /\ UNCHANGED <<name, conn, child, turn, fromUser, toServer, fromServer, server,
                 i, roster, typed, lines, shown>>

Show(k) ==
  /\ client[k] = "chatting" /\ toUser[k] # <<>>
  /\ shown' = [shown EXCEPT ![k] = @ \o Typed(Read(toUser[k]))]
  /\ toUser' = [toUser EXCEPT ![k] = Unread(@)]
  /\ UNCHANGED <<name, client, conn, child, turn, fromUser, toServer, fromServer,
                 server, i, roster, typed, lines>>

(* Who holds the write end of toUser[k]: k's child; for a rejected client  *)
(* the server, and the children that inherited it from the server.         *)
HasWriter(k) ==
  \/ child[k]
  \/ conn[k] = "rejected" /\ (~Over \/ \E j \in heirs[k] : child[j])

(* "The server process seems dead" *)
EndOfFile(k) ==
  /\ client[k] = "chatting" /\ toUser[k] = <<>> /\ ~HasWriter(k)
  /\ client' = [client EXCEPT ![k] = "gone"]
  /\ UNCHANGED <<name, conn, child, turn, pipes, server, i, roster, typed, lines, shown>>

-----------------------------------------------------------------------------
(* The child: the end of server.c's loop. *)

\* Seeded fault: a write() that may not have gone well is repeated.
RelayedTwice(p, c) == Write(Write(p, c), c)

\* Seeded fault: what is relayed overtakes what has not been read.
RelayedInFront(p, c) == IF Fits(p, c) THEN c \o p ELSE p

(* The child's write() of what it has read. *)
Relayed(p, c) == Write(p, c)

(* What the user's pipe has is relayed.  Its end is reported as "\exit",   *)
(* at every round, until the child is killed.                              *)
RelayToServer(k) ==
  /\ child[k] /\ turn[k] = "user"
  /\ fromUser' = [fromUser EXCEPT ![k] = Unread(@)]
  /\ toServer' =
       [toServer EXCEPT ![k] =
          IF fromUser[k] # <<>> THEN Relayed(@, Read(fromUser[k]))
          ELSE IF client[k] = "gone" THEN Write(@, <<ExitLine(k)>>) ELSE @]
  /\ turn' = [turn EXCEPT ![k] = "server"]
  /\ UNCHANGED <<name, client, conn, child, fromServer, toUser, server, i,
                 roster, typed, lines, shown>>

(* The end of the server's pipe, a read() of 0 bytes, has no effect. *)
RelayToUser(k) ==
  /\ child[k] /\ turn[k] = "server"
  /\ fromServer' = [fromServer EXCEPT ![k] = Unread(@)]
  /\ toUser' = [toUser EXCEPT ![k] =
                  IF client[k] = "gone" THEN @ ELSE Relayed(@, Read(fromServer[k]))]
  /\ turn' = [turn EXCEPT ![k] = "user"]
  /\ UNCHANGED <<name, client, conn, child, fromUser, toServer, server, i,
                 roster, typed, lines, shown>>

-----------------------------------------------------------------------------
(* The server: its round is "connect", "admin", and "poll" of each slot.   *)

Full   == {s \in Slots : user_list[s] # NoUser}
Of(s)  == user_list[s].client
User(k, id) == [client |-> k, id |-> id]

(* find_user_index(), the set of its possible results *)
Index(id) == {s \in Full : user_list[s].id = id}

(* k is in the listen queue. *)
Queued(k) == conn[k] \in {"silent", "pending", "mute"} /\ caller # k

(* With childpid -1 the server sleeps once it has finished its round.      *)
Asleep == \E k \in Clients : conn[k] = "childless"

AcceptNobody ==
  /\ server = "connect" /\ ~Asleep /\ \A k \in Clients : ~Queued(k)
  /\ server' = "admin"
  /\ UNCHANGED <<name, client, conn, child, turn, pipes, i, roster, typed, lines, shown>>

(* get_connection() has accepted a client that has yet to say its name.    *)
AwaitName(k) ==
  /\ server = "connect" /\ ~Asleep /\ Queued(k) /\ conn[k] = "silent"
  /\ server' = "name" /\ caller' = k
  /\ UNCHANGED <<name, client, conn, child, turn, pipes, i, user_list, user_id,
                 blank, heirs, typed, lines, shown>>

\* Seeded fault: read() is repeated when it fails.
CallLostUnnoticed(k) == FALSE

(* The caller ends without having said its name nor taken its pipes: the   *)
(* read() fails, and get_connection() leaves what it has opened as it is.  *)
CallLost(k) ==
  /\ server = "name" /\ caller = k /\ conn[k] = "mute"
  /\ server' = "admin" /\ caller' = NoUser
  /\ conn' = [conn EXCEPT ![k] = "rejected"]
  /\ UNCHANGED <<name, client, child, turn, pipes, i, user_list, user_id, blank,
                 heirs, typed, lines, shown>>

(* get_connection(): a client that is still there is sent its pipes.  Of a *)
(* connection closed without a name nothing is read into user_id.          *)
Accept(k) ==
  /\ \/ server = "connect" /\ ~Asleep /\ Queued(k) /\ conn[k] # "silent"
     \/ server = "name" /\ caller = k /\ conn[k] = "pending"
  /\ user_id' = IF conn[k] = "pending" THEN name[k] ELSE user_id
  /\ client' = [client EXCEPT ![k] = IF @ = "connecting" THEN "chatting" ELSE @]
  /\ server' = "admin" /\ caller' = NoUser
  /\ UNCHANGED <<name, pipes, i, typed, lines, shown>>

\* Seeded fault: the name is not looked up.
AdmissibleIfRoom(id) == Full # Slots

Admissible(id) == Full # Slots /\ Index(id) = {}

(* No room, or the name is taken.  The pipes stay open. *)
Reject(k) ==
  /\ Accept(k)
  /\ ~Admissible(user_id')
  /\ conn' = [conn EXCEPT ![k] = "rejected"]
  /\ UNCHANGED <<child, turn, user_list, blank, heirs>>

(* add_user() in the first empty slot *)
AddUser(k) ==
  \E s \in Slots \ Full :
    /\ \A r \in Slots \ Full : s <= r
    /\ user_list' = [user_list EXCEPT ![s] = User(k, user_id')]

Join(k) ==
  /\ Accept(k)
  /\ Admissible(user_id')
  /\ conn' = [conn EXCEPT ![k] = "accepted"]
  /\ child' = [child EXCEPT ![k] = TRUE]
  /\ turn' = [turn EXCEPT ![k] = "user"]
  /\ blank' = FALSE
  /\ AddUser(k)
  /\ heirs' = [r \in Clients |->
                 IF conn[r] = "rejected" THEN heirs[r] \cup {k} ELSE heirs[r]]

(* The user is added with childpid -1, and k's ends of the pipes closed.   *)
ForkFails(k) ==
  /\ "fork" \in Faults
  /\ Accept(k)
  /\ Admissible(user_id')
  /\ conn' = [conn EXCEPT ![k] = "childless"]
  /\ blank' = FALSE
  /\ AddUser(k)
  /\ UNCHANGED <<child, turn, heirs>>

\* Seeded fault: cleanup_user() without kill_user().
KickAlive(S) ==
  /\ user_list' = [s \in Slots |-> IF s \in S THEN NoUser ELSE user_list[s]]
  /\ UNCHANGED <<name, client, conn, child, turn, pipes, caller, heirs, typed, shown>>

(* kill_user() and cleanup_user(): the child is dead and its pipes closed. *)
(* Of a childless user kill(-1) kills all other processes.                 *)
Kick(S) ==
  LET K == {Of(s) : s \in S}
      All == \E k \in K : conn[k] = "childless"
      Closed(p) == [k \in Clients |-> IF k \in K THEN <<>> ELSE p[k]]
  IN /\ child' = [k \in Clients |-> child[k] /\ k \notin K /\ ~All]
     /\ client' = [k \in Clients |->
                     IF All /\ client[k] # "off" THEN "gone" ELSE client[k]]
     /\ toUser' = IF All THEN [k \in Clients |-> <<>>] ELSE toUser
     /\ fromUser' = Closed(fromUser)
     /\ toServer' = Closed(toServer)
     /\ fromServer' = Closed(fromServer)
     /\ user_list' = [s \in Slots |-> IF s \in S THEN NoUser ELSE user_list[s]]
     /\ UNCHANGED <<name, conn, turn, caller, heirs, typed, shown>>

(* write() to the user in slot s *)
Accepts(s, c) == child[Of(s)] /\ Fits(fromServer[Of(s)], c)

\* Seeded fault: the loop ends at a slot that is left out.
ReachedBeforeGap(c, S) == {s \in S : 1 .. s \subseteq S}

(* broadcast_msg(): stops at the first write() that fails. *)
Reached(c, S) == {s \in S : \A r \in S : r <= s => Accepts(r, c)}

Broadcast(c, S) ==
  fromServer' = [k \in Clients |->
    IF \E s \in Reached(c, S) : Of(s) = k THEN fromServer[k] \o c ELSE fromServer[k]]

(* The administrator's line, if there is one, before the users'. *)
AdminSilent ==
  /\ server = "admin"
  /\ server' = "poll" /\ i' = 1
  /\ UNCHANGED <<name, client, conn, child, turn, pipes, roster, typed, lines, shown>>

AdminLine ==
  /\ server = "admin" /\ lines < MaxAdmin
  /\ lines' = lines + 1

(* An empty line: it stays in buf, and the users are not polled. *)
AdminEmpty ==
  /\ AdminLine
  /\ server' = "connect" /\ blank' = TRUE
  /\ UNCHANGED <<name, client, conn, child, turn, pipes, i, caller,
                 user_list, user_id, heirs, typed, shown>>

(* Any other line: buf is cleared, and the users are polled. *)
AdminCommand ==
  /\ AdminLine
  /\ server' = "poll" /\ i' = 1 /\ blank' = FALSE

(* "\list", and a "\kick" without a name *)
AdminList ==
  /\ AdminCommand
  /\ UNCHANGED <<name, client, conn, child, turn, pipes, caller, user_list,
                 user_id, heirs, typed, shown>>

(* "\kick id" *)
AdminKick(id) ==
  /\ AdminCommand
  /\ user_id' = id
  /\ Kick(Index(id))

AdminNotice ==
  /\ AdminCommand
  /\ Broadcast(<<Notice>>, Full)
  /\ UNCHANGED <<name, client, conn, child, turn, fromUser, toServer, toUser,
                 caller, user_list, user_id, heirs, typed, shown>>

\* Seeded fault: the server exits without cleanup_users().
AdminExitAtOnce ==
  /\ AdminLine
  /\ server' = "exited"
  /\ UNCHANGED <<name, client, conn, child, turn, pipes, i, roster, typed, shown>>

(* "\exit": cleanup_users() *)
AdminExit ==
  /\ AdminLine
  /\ Kick(Full)
  /\ server' = "exited"
  /\ UNCHANGED <<i, user_id, blank>>

\* Seeded fault: the loop goes on to slot MAX_USER + 1.
NextSlotPastEnd ==
  IF i > MAX_USER THEN server' = "connect" /\ i' = 1
                  ELSE server' = server /\ i' = i + 1

(* The next slot, or the next round. *)
NextSlot ==
  IF i = MAX_USER THEN server' = "connect" /\ i' = 1
                  ELSE server' = server /\ i' = i + 1

PollNothing ==
  /\ server = "poll"
  /\ i \in Full => child[Of(i)] /\ toServer[Of(i)] = <<>>
  /\ NextSlot
  /\ UNCHANGED <<name, client, conn, child, turn, pipes, roster, typed, lines, shown>>

(* What the server reads from slot i, and what get_command_type() may take *)
(* it for: the next line goes on where the first ends, so that it may or   *)
(* may not become part of a command's last word.                           *)
Input == Read(toServer[Of(i)])
CommandTypes(c) ==
  IF c = <<ExitLine(c[1].from)>> THEN {"exit"}
  ELSE IF c[1].kind \in {"list", "p2p"}
  THEN {c[1].kind} \cup (IF c[1].to = NoName /\ Len(c) > 1 THEN {"broadcast"} ELSE {})
  ELSE {"broadcast"}

PollUser(type) ==
  /\ server = "poll" /\ i \in Full
  /\ toServer[Of(i)] # <<>> /\ type \in CommandTypes(Input)
  /\ NextSlot
  /\ blank' = FALSE
  /\ UNCHANGED lines

Consume ==
  /\ toServer' = [toServer EXCEPT ![Of(i)] = Unread(@)]
  /\ UNCHANGED <<name, client, conn, child, turn, fromUser, toUser, caller,
                 user_list, user_id, heirs, typed, shown>>

PollExit ==
  /\ PollUser("exit")
  /\ Kick({i})
  /\ UNCHANGED user_id

WriteTo(s, c) ==
  fromServer' = IF Accepts(s, c)
                THEN [fromServer EXCEPT ![Of(s)] = @ \o c] ELSE fromServer

PollList == PollUser("list") /\ Consume /\ WriteTo(i, <<Reply>>)

(* Whom a private message may go to.  Joined to an incomplete one, the     *)
(* next line may make it one for any user.                                 *)
MayGoTo(c) ==
  IF c[1].to # NoName THEN Index(c[1].to)
  ELSE IF Len(c) > 1 THEN UNION {Index(id) : id \in Names}
  ELSE {}

(* send_p2p_msg(): the text is what follows the name, all that was read;   *)
(* the sender is told when there is no name, no text, or no such user but  *)
(* itself.                                                                 *)
PollP2p ==
  /\ PollUser("p2p") /\ Consume
  /\ LET Others == MayGoTo(Input) \ {i} IN
     \/ \E s \in Others : WriteTo(s, Input)
     \/ (Others = {} \/ Input[1].to = NoName) /\ WriteTo(i, <<Reply>>)

\* Seeded fault: the author is among the receivers.
PollBroadcastToAll ==
  /\ PollUser("broadcast") /\ Consume
  /\ Broadcast(Input, Full)

PollBroadcast ==
  /\ PollUser("broadcast") /\ Consume
  /\ Broadcast(Input, Full \ {i})

(* The child is dead: read() returns 0 and leaves buf as it was. *)
DeadInSlot ==
  /\ server = "poll" /\ i \in Full
  /\ ~child[Of(i)] /\ toServer[Of(i)] = <<>>

(* The administrator's empty line is broadcast as the user's. *)
PollLeftover ==
  /\ DeadInSlot /\ blank
  /\ Broadcast(<<Notice>>, Full \ {i})
  /\ blank' = FALSE
  /\ NextSlot
  /\ UNCHANGED <<name, client, conn, child, turn, fromUser, toServer, toUser,
                 caller, user_list, user_id, heirs, typed, lines, shown>>

(* get_command_type() of an empty buf passes NULL to strcmp(). *)
PollDead ==
  /\ DeadInSlot /\ ~blank
  /\ server' = "crashed"
  /\ UNCHANGED <<name, client, conn, child, turn, pipes, i, roster, typed, lines, shown>>

-----------------------------------------------------------------------------
(* Faults. *)

(* The server alone ends: a signal, or a line of spaces for the            *)
(* administrator, of which get_command_type() makes a NULL command.        *)
Crash ==
  /\ "crash" \in Faults /\ ~Over
  /\ server' = "crashed"
  /\ UNCHANGED <<name, client, conn, child, turn, pipes, i, roster, typed, lines, shown>>

(* ^C in the server's terminal ends the server and all its children. *)
Interrupt ==
  /\ "interrupt" \in Faults /\ ~Over
  /\ server' = "interrupted"
  /\ child' = [k \in Clients |-> FALSE]
  /\ UNCHANGED <<name, client, conn, turn, pipes, i, roster, typed, lines, shown>>

(* A child is killed, though not by the server. *)
ChildDies(k) ==
  /\ "child" \in Faults /\ child[k]
  /\ child' = [child EXCEPT ![k] = FALSE]
  /\ UNCHANGED <<name, client, conn, turn, pipes, server, i, roster, typed, lines, shown>>

-----------------------------------------------------------------------------
Server ==
  \/ AcceptNobody \/ \E k \in Clients : AwaitName(k) \/ CallLost(k) \/ Reject(k) \/ Join(k)
                                            \/ ForkFails(k)
  \/ AdminSilent \/ AdminEmpty \/ AdminList \/ AdminNotice \/ AdminExit
  \/ \E id \in Names : AdminKick(id)
  \/ PollNothing \/ PollExit \/ PollList \/ PollP2p \/ PollBroadcast
  \/ PollLeftover \/ PollDead

Child(k) == RelayToServer(k) \/ RelayToUser(k)

(* What a client does by itself, and what its user does. *)
Client(k) == Refused(k) \/ Show(k) \/ EndOfFile(k)
Person(k) ==
  \/ Dial(k) \/ SayName(k) \/ TypeExit(k) \/ Die(k)
  \/ \E kind \in {"text", "list"} : Type(k, kind, NoName)
  \/ \E to \in Names \cup {NoName} : Type(k, "p2p", to)

Next ==
  \/ Server \/ Crash \/ Interrupt
  \/ \E k \in Clients : Child(k) \/ Client(k) \/ Person(k) \/ ChildDies(k)

Spec == Init /\ [][Next]_vars

(***************************************************************************)
(* Scheduling.  All processes poll, for ever: each goes through its loop   *)
(* again and again, at a speed of its own.  Nothing is assumed of persons. *)
(***************************************************************************)
FairSpec ==
  Spec /\ WF_vars(Server) /\ \A k \in Clients : WF_vars(Child(k)) /\ WF_vars(Client(k))

-----------------------------------------------------------------------------
Lines ==
  [from : Clients \cup {NoUser}, n : 0 .. MaxLines,
   kind : {"text", "list", "p2p", "exit", "notice", "reply"},
   to : Names \cup {NoName}]
ArePipes(p) ==
  p \in [Clients -> Seq(Lines)] /\ \A k \in Clients : Len(p[k]) <= PipeSize

(* Pipes hold lines and never more than fit, the server is at one of its   *)
(* user_list's slots, and everybody is where the code can be.              *)
TypeOK ==
  /\ name \in [Clients -> Names]
  /\ client \in [Clients -> {"off", "calling", "connecting", "chatting", "gone"}]
  /\ conn \in [Clients -> {"none", "silent", "pending", "mute", "accepted",
                        "rejected", "childless"}]
  /\ child \in [Clients -> BOOLEAN]
  /\ turn \in [Clients -> {"user", "server"}]
  /\ ArePipes(fromUser) /\ ArePipes(toServer)
  /\ ArePipes(fromServer) /\ ArePipes(toUser)
  /\ server \in {"connect", "name", "admin", "poll", "exited", "interrupted",
                 "crashed"}
  /\ caller \in Clients \cup {NoUser}
  /\ i \in Slots
  /\ user_list \in
       [Slots -> [client : Clients, id : Names \cup {NoName}] \cup {NoUser}]
  /\ user_id \in Names \cup {NoName} /\ blank \in BOOLEAN
  /\ heirs \in [Clients -> SUBSET Clients]
  /\ typed \in 0 .. MaxLines /\ lines \in 0 .. MaxAdmin
  /\ shown \in [Clients -> Seq(Lines)]

(* While the server runs, the user list and the processes agree: users     *)
(* have different names, a running child serves exactly one of them, and   *)
(* the child of a user runs unless something else killed it                *)
(* (server.c:367-414, 100-133).                                            *)
RosterAgrees ==
  ~Over =>
    /\ \A s, r \in Full : s # r =>
         user_list[s].id # user_list[r].id /\ Of(s) # Of(r)
    /\ \A k \in Clients : child[k] => \E s \in Full : Of(s) = k
    /\ Faults \cap {"child", "fork"} = {} => \A s \in Full : child[Of(s)]

(* The users' lines on their way, and what ChatRoom promises of them. *)
R == INSTANCE ChatRoom WITH
       Users <- Clients,
       Kinds <- {"text", "list", "p2p"},
       Addressees <- Names \cup {NoName},
       said <- [k \in Clients |-> Typed(toServer[k] \o fromUser[k])],
       pending <- [k \in Clients |-> Typed(toUser[k] \o fromServer[k])]

(* The server is the one place that all lines pass: it takes one user's    *)
(* lines at a time, from the front, and sends them to others only; what    *)
(* full pipes, kicks and ends of processes lose is lost on either side     *)
(* (server.c:474-538, client.c:56-101).                                    *)
Refinement == R!Spec

(* Though lines cross three processes and are cut, joined and dropped on   *)
(* their way, nobody is shown a line twice, or two lines of one user in    *)
(* the wrong order (server.c:476-513, 523-537).                            *)
EachOnceInOrder == R!EachOnceInOrder

(* Two users see the lines of others in the same order: that in which the  *)
(* server broadcasts them (server.c:148-162, 474-516).                     *)
SameOrderForAll == R!SameOrderForAll

(* README.md:40: what is no command is a message "to all active users".    *)
(* As long as every pipe has room for all that users type, a line that one *)
(* user gets has been sent to all but its author, or is the end of a       *)
(* private message that its author typed before it (server.c:148-162).     *)
BroadcastReachesAll ==
  PipeSize >= MaxLines /\ ~Over =>
    \A k \in Clients, s \in Full :
      LET st == R!Heard(k) sr == R!Heard(Of(s)) IN
      \A p \in 1 .. Len(st) :
        st[p].kind = "text" /\ st[p].from # Of(s) =>
          \/ \E q \in 1 .. Len(sr) : sr[q] = st[p]
          \/ \E q \in 1 .. p - 1 : st[q].kind = "p2p" /\ st[q].from = st[p].from

(* Who leaves the user list, kicked or by its own will, has its client end *)
(* too (README.md:30), and so have all clients when the server exits or is *)
(* interrupted (README.md:31, 46), those among them that it has rejected   *)
(* or not got round to.                                                    *)
Removed(k) == conn[k] = "accepted" /\ \A s \in Full : Of(s) # k
RemovedClientsEnd == \A k \in Clients : Removed(k) ~> client[k] = "gone"
ClientsEndWithServer ==
  server \in {"exited", "interrupted"} ~>
    \A k \in Clients : client[k] \in {"off", "gone"}

(* The server keeps users and callers waiting only for a client that has   *)
(* connected and does not say its name (comm.c:156), or after a fork()     *)
(* that failed (none does in the run); a caller that ends, users that      *)
(* come, go and are kicked, and the administrator do not stop it.  In the  *)
(* run a pipe holds one line.                                              *)
Stalled == server = "name" /\ client[caller] = "calling"
Attended ==
  \A k \in Clients :
    Queued(k) \/ toServer[k] # <<>> ~>
      (~Queued(k) /\ toServer[k] = <<>>) \/ Over \/ Asleep \/ []Stalled

(* README.md:39, of a client that has died: "The server will be notified   *)
(* that the user has been terminated and will remove the user from the     *)
(* user list".  Even when nobody keeps the server waiting it may never do  *)
(* so: the child repeats "\exit" until it is killed, and the server takes  *)
(* two of them in one read() for a message to all (server.c:533).          *)
DeadClientsAreRemoved ==
  \A k \in Clients :
    client[k] = "gone" /\ conn[k] = "accepted" ~>
      Removed(k) \/ Over \/ Asleep \/ []Stalled
=============================================================================
