----------------------------- MODULE ChatProofs -----------------------------
(***************************************************************************)
(* Proofs about Chat, for any clients, names, slots, pipes and faults: the *)
(* server's list of users and the processes that it forks.  None of this   *)
(* depends on what the pipes carry.                                        *)
(***************************************************************************)
EXTENDS Chat, TLAPS

Users == [client : Clients, id : Names \cup {NoName}]
Member == {"accepted", "childless"}

RosterType ==
  /\ name \in [Clients -> Names]
  /\ conn \in [Clients -> {"none", "silent", "pending", "mute", "rejected"} \cup Member]
  /\ client \in [Clients -> {"off", "calling", "connecting", "chatting", "gone"}]
  /\ child \in [Clients -> BOOLEAN]
  /\ user_list \in [Slots -> Users \cup {NoUser}]
  /\ user_id \in Names \cup {NoName}

(* A client that has not said its name has an unused connection. *)
Called ==
  \A k \in Clients : /\ client[k] = "off" => conn[k] = "none"
                     /\ client[k] = "calling" => conn[k] = "silent"

(* Who is in the list has been let in, so that nobody is let in twice. *)
LetIn == ~Over => \A s \in Full : conn[Of(s)] \in Member

(* A user without a child is one whose fork() failed. *)
Forked == ~Over /\ "fork" \notin Faults => \A k \in Clients : conn[k] # "childless"

IInv == RosterType /\ Called /\ LetIn /\ Forked /\ RosterAgrees

USE ChatAssumption

-----------------------------------------------------------------------------
(* What a step does to the roster. *)

(* The list stays as it is, and nobody is let in. *)
Quiet ==
  /\ ~Over /\ user_list' = user_list
  /\ \A k \in Clients : /\ conn'[k] = conn[k] \/ {conn[k], conn'[k]} \cap Member = {}
                        /\ child'[k] => child[k]
  /\ "child" \notin Faults => child' = child

(* k enters the list in slot s; without a child if fork() fails. *)
Enters(k, s) ==
  /\ ~Over /\ s \in Slots \ Full /\ conn[k] \notin Member
  /\ user_list' = [user_list EXCEPT ![s] = User(k, user_id')]
  /\ \A r \in Full : user_list[r].id # user_id'
  /\ \/ /\ conn' = [conn EXCEPT ![k] = "accepted"]
        /\ child' = [child EXCEPT ![k] = TRUE]
     \/ /\ "fork" \in Faults
        /\ conn' = [conn EXCEPT ![k] = "childless"]
        /\ child' = child

(* The users of the slots S are removed and their children killed. *)
Leaves(S) ==
  /\ ~Over /\ S \subseteq Full /\ conn' = conn
  /\ user_list' = [s \in Slots |-> IF s \in S THEN NoUser ELSE user_list[s]]
  /\ \A k \in Clients : child'[k] => child[k] /\ \A s \in S : Of(s) # k
  /\ "fork" \notin Faults =>
       \A k \in Clients : child[k] /\ (\A s \in S : Of(s) # k) => child'[k]

(* User records and slots. *)
LEMMA ListIs ==
  ASSUME RosterType
  PROVE  /\ Full \subseteq Slots
         /\ \A s \in Full : /\ user_list[s] \in Users /\ Of(s) \in Clients
                            /\ user_list[s].id \in Names \cup {NoName}
         /\ NoUser \notin Users
BY DEF RosterType, Full, Of, Users

LEMMA KickLeaves ==
  ASSUME IInv, ~Over, NEW S, S \subseteq Full, Kick(S)
  PROVE  Leaves(S) /\ child' \in [Clients -> BOOLEAN]
<1>1. PICK K : K = {Of(s) : s \in S}
  OBVIOUS
<1>2. PICK all \in BOOLEAN : all <=> \E k \in K : conn[k] = "childless"
  OBVIOUS
<1>3. child' = [k \in Clients |-> child[k] /\ k \notin K /\ ~all]
  BY <1>1, <1>2, Zenon DEF Kick
<1>4. /\ user_list' = [s \in Slots |-> IF s \in S THEN NoUser ELSE user_list[s]]
      /\ conn' = conn
  BY DEF Kick
<1>5. child' \in [Clients -> BOOLEAN]
  BY <1>3
<1>6. K \subseteq Clients
  BY <1>1, ListIs DEF IInv
<1>7. "fork" \notin Faults => ~all
  BY <1>2, <1>6 DEF IInv, Forked
<1>8. \A k \in Clients : child'[k] <=> child[k] /\ k \notin K /\ ~all
  BY <1>3
<1>9. \A k \in Clients : k \notin K <=> \A s \in S : Of(s) # k
  BY <1>1
<1>10. \A k \in Clients : child'[k] => child[k] /\ \A s \in S : Of(s) # k
  BY <1>8, <1>9
<1>11. "fork" \notin Faults =>
         \A k \in Clients : child[k] /\ (\A s \in S : Of(s) # k) => child'[k]
  BY <1>7, <1>8, <1>9
<1>12. QED
  BY <1>4, <1>5, <1>10, <1>11 DEF Leaves

LEMMA AcceptIs ==
  ASSUME IInv, NEW k \in Clients, Accept(k)
  PROVE  /\ ~Over /\ conn[k] \notin Member /\ user_id' \in Names \cup {NoName}
         /\ name' = name
<1>1. ~Over
  BY DEF Accept, Over
<1>2. conn[k] \in {"silent", "pending", "mute"}
  BY DEF Accept, Queued
<1>3. user_id' \in {name[k], user_id} /\ name' = name
  BY DEF Accept
<1>4. QED
  BY <1>1, <1>2, <1>3 DEF Member, IInv, RosterType

LEMMA AddUserEnters ==
  ASSUME IInv, NEW k \in Clients, Accept(k), Admissible(user_id'), AddUser(k),
         \/ /\ conn' = [conn EXCEPT ![k] = "accepted"]
            /\ child' = [child EXCEPT ![k] = TRUE]
         \/ /\ "fork" \in Faults
            /\ conn' = [conn EXCEPT ![k] = "childless"]
            /\ child' = child
  PROVE  \E s \in Slots : Enters(k, s)
<1>1. PICK s \in Slots \ Full : user_list' = [user_list EXCEPT ![s] = User(k, user_id')]
  BY DEF AddUser
<1>2. \A r \in Full : user_list[r].id # user_id'
  BY DEF Admissible, Index
<1>3. QED
  BY <1>1, <1>2, AcceptIs DEF Enters

LEMMA ServerStepIs ==
  IInv /\ Server =>
    \/ Over'
    \/ Quiet
    \/ \E k \in Clients, s \in Slots : Enters(k, s)
    \/ \E S \in SUBSET Full : Leaves(S)
<1> SUFFICES ASSUME IInv, Server
             PROVE  \/ Over' \/ Quiet
                    \/ \E k \in Clients, s \in Slots : Enters(k, s)
                    \/ \E S \in SUBSET Full : Leaves(S)
  OBVIOUS
<1>1. ASSUME ~Over, UNCHANGED <<conn, child, user_list>> PROVE Quiet
  BY <1>1 DEF Quiet
<1>2. ASSUME ~Over, UNCHANGED <<child, user_list>>, NEW k \in Clients,
             conn' = [conn EXCEPT ![k] = "rejected"], conn[k] \notin Member
      PROVE  Quiet
  <2>1. "rejected" \notin Member
    BY DEF Member
  <2>2. QED
    BY <1>2, <2>1 DEF Quiet, IInv, RosterType
<1>3. ASSUME NEW k \in Clients, AwaitName(k) PROVE Quiet
  BY <1>1, <1>3 DEF AwaitName, Over
<1>4. ASSUME NEW k \in Clients, CallLost(k) PROVE Quiet
  <2>1. /\ ~Over /\ UNCHANGED <<child, user_list>>
        /\ conn' = [conn EXCEPT ![k] = "rejected"] /\ conn[k] \notin Member
    BY <1>4 DEF CallLost, Over, Member
  <2>2. QED
    BY <1>2, <2>1
<1>5. ASSUME NEW k \in Clients, Reject(k) PROVE Quiet
  <2>1. /\ ~Over /\ UNCHANGED <<child, user_list>>
        /\ conn' = [conn EXCEPT ![k] = "rejected"] /\ conn[k] \notin Member
    BY <1>5, AcceptIs DEF Reject
  <2>2. QED
    BY <1>2, <2>1
<1>6. ASSUME NEW k \in Clients, Join(k) \/ ForkFails(k)
      PROVE  \E s \in Slots : Enters(k, s)
  <2>1. /\ Accept(k) /\ Admissible(user_id') /\ AddUser(k)
        /\ \/ /\ conn' = [conn EXCEPT ![k] = "accepted"]
              /\ child' = [child EXCEPT ![k] = TRUE]
           \/ /\ "fork" \in Faults
              /\ conn' = [conn EXCEPT ![k] = "childless"]
              /\ child' = child
    BY <1>6 DEF Join, ForkFails
  <2>2. QED
    BY <2>1, AddUserEnters
<1>7. CASE AcceptNobody \/ AdminSilent \/ AdminEmpty \/ AdminList \/ AdminNotice
  <2>1. ~Over /\ UNCHANGED <<conn, child, user_list>>
    BY <1>7 DEF AcceptNobody, AdminSilent, AdminEmpty, AdminList, AdminNotice,
                AdminCommand, AdminLine, Over, roster
  <2>2. QED
    BY <1>1, <2>1
<1>8. CASE AdminExit \/ PollDead
  BY <1>8 DEF AdminExit, PollDead, Over
<1>9. ASSUME NEW id \in Names, AdminKick(id) PROVE \E S \in SUBSET Full : Leaves(S)
  <2>1. ~Over /\ Kick(Index(id)) /\ Index(id) \subseteq Full
    BY <1>9 DEF AdminKick, AdminCommand, AdminLine, Over, Index
  <2>2. QED
    BY <2>1, KickLeaves
<1>10. CASE PollExit
  <2>1. ~Over /\ Kick({i}) /\ {i} \subseteq Full
    BY <1>10 DEF PollExit, PollUser, Over
  <2>2. QED
    BY <2>1, KickLeaves
<1>11. CASE PollNothing \/ PollLeftover
  <2>1. ~Over /\ UNCHANGED <<conn, child, user_list>>
    BY <1>11 DEF PollNothing, PollLeftover, DeadInSlot, Over, roster
  <2>2. QED
    BY <1>1, <2>1
<1>12. CASE PollList \/ PollP2p \/ PollBroadcast
  <2>1. ~Over /\ UNCHANGED <<conn, child, user_list>>
    BY <1>12 DEF PollList, PollP2p, PollBroadcast, PollUser, Consume, Over
  <2>2. QED
    BY <1>1, <2>1
<1>13. QED
  BY <1>3, <1>4, <1>5, <1>6, <1>7, <1>8, <1>9, <1>10, <1>11, <1>12 DEF Server

LEMMA StepIs ==
  IInv /\ [Next]_vars =>
    \/ Over'
    \/ Quiet
    \/ \E k \in Clients, s \in Slots : Enters(k, s)
    \/ \E S \in SUBSET Full : Leaves(S)
<1> SUFFICES ASSUME IInv, [Next]_vars, ~Over'
             PROVE  \/ Quiet
                    \/ \E k \in Clients, s \in Slots : Enters(k, s)
                    \/ \E S \in SUBSET Full : Leaves(S)
  OBVIOUS
<1>1. CASE Server
  BY <1>1, ServerStepIs
<1>2. CASE Crash \/ Interrupt
  BY <1>2 DEF Crash, Interrupt, Over
<1>3. ASSUME server' = server, UNCHANGED <<conn, child, user_list>> PROVE Quiet
  BY <1>3 DEF Quiet, Over
<1>4. ASSUME NEW k \in Clients, Child(k) \/ Client(k) \/ TypeExit(k) \/ Die(k) PROVE Quiet
  <2>1. server' = server /\ UNCHANGED <<conn, child, user_list>>
    BY <1>4 DEF Child, RelayToServer, RelayToUser, Client, Refused, Show, EndOfFile,
                TypeExit, Die, roster
  <2>2. QED
    BY <1>3, <2>1
<1>5. ASSUME NEW k \in Clients, NEW kind, NEW to, Type(k, kind, to) PROVE Quiet
  BY <1>3, <1>5 DEF Type, roster
<1>6. ASSUME NEW k \in Clients, Dial(k) \/ SayName(k) PROVE Quiet
  <2>1. /\ server' = server /\ UNCHANGED <<child, user_list>>
        /\ conn[k] \in {"none", "silent"}
        /\ \E new \in {"silent", "pending", "mute"} : conn' = [conn EXCEPT ![k] = new]
    BY <1>6 DEF Dial, SayName, roster, IInv, Called
  <2>2. \A l \in Clients : conn'[l] = conn[l] \/ {conn[l], conn'[l]} \cap Member = {}
    BY <2>1 DEF Member, IInv, RosterType
  <2>3. QED
    BY <2>1, <2>2 DEF Quiet, Over
<1>7. ASSUME NEW k \in Clients, ChildDies(k) PROVE Quiet
  <2>1. server' = server /\ UNCHANGED <<conn, user_list>> /\ "child" \in Faults
        /\ \A l \in Clients : child'[l] => child[l]
    BY <1>7 DEF ChildDies, roster, IInv, RosterType
  <2>2. QED
    BY <2>1 DEF Quiet, Over
<1>8. CASE UNCHANGED vars
  BY <1>3, <1>8 DEF vars, roster
<1>9. QED
  BY <1>1, <1>2, <1>4, <1>5, <1>6, <1>7, <1>8 DEF Next, Person

-----------------------------------------------------------------------------
(* The invariant is inductive. *)

LEMMA InitIInv == Init => IInv
<1> SUFFICES ASSUME Init PROVE IInv
  OBVIOUS
<1>1. Full = {}
  BY DEF Init, Full
<1>2. RosterType
  BY DEF Init, RosterType
<1>3. Called /\ Forked
  BY DEF Init, Called, Forked
<1>4. LetIn /\ RosterAgrees
  BY <1>1 DEF Init, LetIn, RosterAgrees
<1>5. QED
  BY <1>2, <1>3, <1>4 DEF IInv

(* What a step may make of a client and its connection. *)
Clientele ==
  /\ name' = name
  /\ client' \in [Clients -> {"off", "calling", "connecting", "chatting", "gone"}]
  /\ conn' \in [Clients -> {"none", "silent", "pending", "mute", "rejected"} \cup Member]
  /\ \A k \in Clients :
       \/ client'[k] = client[k] /\ conn'[k] = conn[k]
       \/ client'[k] = "calling" /\ conn'[k] = "silent"
       \/ client'[k] \notin {"off", "calling"}
       \/ client'[k] = client[k] /\ conn[k] \notin {"none", "silent"}

LEMMA ClienteleStep == IInv /\ [Next]_vars => Clientele
<1> SUFFICES ASSUME IInv, [Next]_vars PROVE Clientele
  OBVIOUS
<1>0. RosterType
  BY DEF IInv
<1>1. ASSUME UNCHANGED <<name, client, conn>> PROVE Clientele
  BY <1>0, <1>1 DEF Clientele, RosterType
<1>2. ASSUME UNCHANGED <<name, conn>>, NEW k \in Clients,
             client' = [client EXCEPT ![k] = "gone"]
      PROVE  Clientele
  BY <1>0, <1>2 DEF Clientele, RosterType
<1>3. ASSUME NEW k \in Clients, Accept(k),
             NEW new \in {"rejected"} \cup Member, conn' = [conn EXCEPT ![k] = new]
      PROVE  Clientele
  <2>1. /\ name' = name /\ conn[k] \notin {"none", "silent"}
        /\ client' = [client EXCEPT ![k] = IF @ = "connecting" THEN "chatting" ELSE @]
    BY <1>3 DEF Accept, Queued
  <2>2. conn' \in [Clients -> {"none", "silent", "pending", "mute", "rejected"} \cup Member]
    BY <1>0, <1>3 DEF RosterType
  <2>3. client' \in [Clients -> {"off", "calling", "connecting", "chatting", "gone"}]
    BY <1>0, <2>1 DEF RosterType
  <2>4. ASSUME NEW l \in Clients
        PROVE  \/ client'[l] = client[l] /\ conn'[l] = conn[l]
               \/ client'[l] \notin {"off", "calling"}
               \/ client'[l] = client[l] /\ conn[l] \notin {"none", "silent"}
    BY <1>0, <1>3, <2>1 DEF RosterType
  <2>5. QED
    BY <2>1, <2>2, <2>3, <2>4 DEF Clientele
<1>4. ASSUME NEW S, Kick(S) PROVE Clientele
  <2>1. PICK all \in BOOLEAN :
          client' = [k \in Clients |->
                       IF all /\ client[k] # "off" THEN "gone" ELSE client[k]]
    BY <1>4 DEF Kick
  <2>2. UNCHANGED <<name, conn>>
    BY <1>4 DEF Kick
  <2>3. QED
    BY <1>0, <2>1, <2>2 DEF Clientele, RosterType
<1>5. CASE Server
  <2>1. ASSUME NEW k \in Clients, AwaitName(k) PROVE Clientele
    BY <1>1, <2>1 DEF AwaitName
  <2>2. ASSUME NEW k \in Clients, CallLost(k) PROVE Clientele
    <3>1. /\ UNCHANGED <<name, client>> /\ conn[k] = "mute"
          /\ conn' = [conn EXCEPT ![k] = "rejected"]
      BY <2>2 DEF CallLost
    <3>2. QED
      BY <1>0, <3>1 DEF Clientele, RosterType
  <2>3. ASSUME NEW k \in Clients, Reject(k) \/ Join(k) \/ ForkFails(k) PROVE Clientele
    <3>1. Accept(k) /\ \E new \in {"rejected"} \cup Member : conn' = [conn EXCEPT ![k] = new]
      BY <2>3 DEF Reject, Join, ForkFails, Member
    <3>2. QED
      BY <1>3, <3>1
  <2>4. ASSUME NEW id \in Names, AdminKick(id) PROVE Clientele
    BY <1>4, <2>4 DEF AdminKick
  <2>5. CASE AdminExit \/ PollExit
    BY <1>4, <2>5 DEF AdminExit, PollExit
  <2>6. CASE \/ AcceptNobody \/ AdminSilent \/ AdminEmpty \/ AdminList \/ AdminNotice
             \/ PollNothing \/ PollLeftover \/ PollDead
    BY <1>1, <2>6 DEF AcceptNobody, AdminSilent, AdminEmpty, AdminList, AdminNotice,
                      PollNothing, PollLeftover, PollDead
  <2>7. CASE PollList \/ PollP2p \/ PollBroadcast
    BY <1>1, <2>7 DEF PollList, PollP2p, PollBroadcast, Consume
  <2>8. QED
    BY <1>5, <2>1, <2>2, <2>3, <2>4, <2>5, <2>6, <2>7 DEF Server
<1>6. CASE Crash \/ Interrupt \/ UNCHANGED vars
  BY <1>1, <1>6 DEF Crash, Interrupt, vars
<1>7. ASSUME NEW k \in Clients, Child(k) \/ Show(k) \/ ChildDies(k) PROVE Clientele
  BY <1>1, <1>7 DEF Child, RelayToServer, RelayToUser, Show, ChildDies
<1>8. ASSUME NEW k \in Clients, Refused(k) \/ EndOfFile(k) \/ TypeExit(k) \/ Die(k)
      PROVE  Clientele
  BY <1>2, <1>8 DEF Refused, EndOfFile, TypeExit, Die, Leave
<1>9. ASSUME NEW k \in Clients, NEW kind, NEW to, Type(k, kind, to) PROVE Clientele
  BY <1>1, <1>9 DEF Type
<1>10. ASSUME NEW k \in Clients, Dial(k) PROVE Clientele
  <2>1. /\ name' = name /\ client' = [client EXCEPT ![k] = "calling"]
        /\ conn' = [conn EXCEPT ![k] = "silent"]
    BY <1>10 DEF Dial
  <2>2. QED
    BY <1>0, <2>1 DEF Clientele, RosterType
<1>11. ASSUME NEW k \in Clients, SayName(k) PROVE Clientele
  <2>1. /\ name' = name
        /\ \/ /\ client' = [client EXCEPT ![k] = "connecting"]
              /\ conn' = [conn EXCEPT ![k] = "pending"]
           \/ /\ client' = [client EXCEPT ![k] = "gone"]
              /\ conn' = [conn EXCEPT ![k] = "mute"]
    BY <1>11 DEF SayName
  <2>2. QED
    BY <1>0, <2>1 DEF Clientele, RosterType
<1>12. QED
  BY <1>5, <1>6, <1>7, <1>8, <1>9, <1>10, <1>11 DEF Next, Client, Person

(* Every name comes from a client or the administrator. *)
LEMMA ListStep ==
  IInv /\ [Next]_vars =>
    /\ child' \in [Clients -> BOOLEAN]
    /\ user_list' \in [Slots -> Users \cup {NoUser}]
    /\ user_id' \in Names \cup {NoName}
<1> DEFINE Goal == /\ child' \in [Clients -> BOOLEAN]
                   /\ user_list' \in [Slots -> Users \cup {NoUser}]
                   /\ user_id' \in Names \cup {NoName}
<1> SUFFICES ASSUME IInv, [Next]_vars PROVE Goal
  OBVIOUS
<1>0. RosterType
  BY DEF IInv
<1>1. ASSUME UNCHANGED <<child, user_list, user_id>> PROVE Goal
  BY <1>0, <1>1 DEF RosterType
<1>2. ASSUME NEW S, Kick(S), user_id' \in Names \cup {NoName} PROVE Goal
  <2>1. PICK K : K = {Of(s) : s \in S}
    OBVIOUS
  <2>2. PICK all \in BOOLEAN : all <=> \E k \in K : conn[k] = "childless"
    OBVIOUS
  <2>3. child' = [k \in Clients |-> child[k] /\ k \notin K /\ ~all]
    BY <1>2, <2>1, <2>2, Zenon DEF Kick
  <2>4. child' \in [Clients -> BOOLEAN]
    BY <2>3
  <2>5. user_list' = [s \in Slots |-> IF s \in S THEN NoUser ELSE user_list[s]]
    BY <1>2 DEF Kick
  <2>6. user_list' \in [Slots -> Users \cup {NoUser}]
    BY <1>0, <2>5 DEF RosterType
  <2>7. QED
    BY <1>2, <2>4, <2>6
<1>3. ASSUME NEW k \in Clients, Join(k) \/ ForkFails(k) PROVE Goal
  <2>1. Accept(k) /\ AddUser(k)
    BY <1>3 DEF Join, ForkFails
  <2>2. user_id' \in Names \cup {NoName}
    BY <2>1, AcceptIs
  <2>3. User(k, user_id') \in Users
    BY <2>2 DEF User, Users
  <2>4. user_list' \in [Slots -> Users \cup {NoUser}]
    BY <1>0, <2>1, <2>3 DEF AddUser, RosterType
  <2>5. child' \in [Clients -> BOOLEAN]
    BY <1>0, <1>3 DEF Join, ForkFails, RosterType
  <2>6. QED
    BY <2>2, <2>4, <2>5
<1>4. ASSUME NEW k \in Clients, Reject(k) PROVE Goal
  <2>1. Accept(k) /\ UNCHANGED <<child, user_list>>
    BY <1>4 DEF Reject
  <2>2. QED
    BY <1>0, <2>1, AcceptIs DEF RosterType
<1>5. CASE Server
  <2>1. ASSUME NEW k \in Clients, AwaitName(k) \/ CallLost(k) PROVE Goal
    BY <1>1, <2>1 DEF AwaitName, CallLost
  <2>2. ASSUME NEW id \in Names, AdminKick(id) PROVE Goal
    BY <1>2, <2>2 DEF AdminKick
  <2>3. CASE AdminExit \/ PollExit
    BY <1>0, <1>2, <2>3 DEF AdminExit, PollExit, RosterType
  <2>4. CASE \/ AcceptNobody \/ AdminSilent \/ AdminEmpty \/ AdminList \/ AdminNotice
             \/ PollNothing \/ PollLeftover \/ PollDead
    BY <1>1, <2>4 DEF AcceptNobody, AdminSilent, AdminEmpty, AdminList, AdminNotice,
                      PollNothing, PollLeftover, PollDead, roster
  <2>5. CASE PollList \/ PollP2p \/ PollBroadcast
    BY <1>1, <2>5 DEF PollList, PollP2p, PollBroadcast, Consume
  <2>6. QED
    BY <1>3, <1>4, <1>5, <2>1, <2>2, <2>3, <2>4, <2>5 DEF Server
<1>6. CASE Crash \/ UNCHANGED vars
  BY <1>1, <1>6 DEF Crash, vars, roster
<1>7. CASE Interrupt
  BY <1>0, <1>7 DEF Interrupt, roster, RosterType
<1>8. ASSUME NEW k \in Clients, Child(k) \/ Client(k) \/ TypeExit(k) \/ Die(k)
      PROVE  Goal
  BY <1>1, <1>8 DEF Child, RelayToServer, RelayToUser, Client, Refused, Show, EndOfFile,
                    TypeExit, Die, roster
<1>9. ASSUME NEW k \in Clients, Dial(k) \/ SayName(k) PROVE Goal
  BY <1>1, <1>9 DEF Dial, SayName, roster
<1>10. ASSUME NEW k \in Clients, NEW kind, NEW to, Type(k, kind, to) PROVE Goal
  BY <1>1, <1>10 DEF Type, roster
<1>11. ASSUME NEW k \in Clients, ChildDies(k) PROVE Goal
  BY <1>0, <1>11 DEF ChildDies, roster, RosterType
<1>12. QED
  BY <1>5, <1>6, <1>7, <1>8, <1>9, <1>10, <1>11 DEF Next, Person

LEMMA QuietKeeps == IInv /\ Quiet => LetIn' /\ Forked' /\ RosterAgrees'
<1> SUFFICES ASSUME IInv, Quiet PROVE LetIn' /\ Forked' /\ RosterAgrees'
  OBVIOUS
<1>1. LetIn /\ Forked /\ RosterAgrees /\ ~Over
  BY DEF IInv, Quiet
<1>2. Full' = Full /\ \A s \in Full : Of(s)' = Of(s) /\ Of(s) \in Clients
  BY ListIs DEF Quiet, Full, Of, IInv
<1>3. LetIn'
  BY <1>1, <1>2 DEF LetIn, Quiet
<1>4. Forked'
  BY <1>1 DEF Forked, Quiet, Member
<1>5. RosterAgrees'
  <2>1. \A s, r \in Full' : s # r =>
          user_list'[s].id # user_list'[r].id /\ Of(s)' # Of(r)'
    BY <1>1, <1>2 DEF RosterAgrees, Quiet
  <2>2. \A k \in Clients : child'[k] => \E s \in Full' : Of(s)' = k
    BY <1>1, <1>2 DEF RosterAgrees, Quiet
  <2>3. Faults \cap {"child", "fork"} = {} => \A s \in Full' : child'[Of(s)']
    BY <1>1, <1>2 DEF RosterAgrees, Quiet
  <2>4. QED
    BY <2>1, <2>2, <2>3 DEF RosterAgrees
<1>6. QED
  BY <1>3, <1>4, <1>5

LEMMA EntersKeeps ==
  ASSUME IInv, user_id' \in Names \cup {NoName},
         NEW k \in Clients, NEW s \in Slots, Enters(k, s)
  PROVE  LetIn' /\ Forked' /\ RosterAgrees'
<1>1. LetIn /\ Forked /\ RosterAgrees /\ ~Over /\ RosterType
  BY DEF IInv, Enters
<1>2. User(k, user_id') # NoUser
  BY DEF User
<1>3. /\ user_list' = [user_list EXCEPT ![s] = User(k, user_id')]
      /\ s \notin Full /\ DOMAIN user_list = Slots
  BY <1>1 DEF Enters, RosterType
<1>4. Full' = Full \cup {s}
  BY <1>2, <1>3 DEF Full
<1>5. \A r \in Full : r # s /\ user_list'[r] = user_list[r] /\ Of(r)' = Of(r) /\ Of(r) \in Clients
  BY <1>1, <1>3, ListIs DEF Of
<1>6. user_list'[s] = User(k, user_id') /\ user_list'[s].id = user_id' /\ Of(s)' = k
  BY <1>3 DEF Of, User
<1>7. \A r \in Full : Of(r) # k /\ user_list[r].id # user_id'
  BY <1>1 DEF LetIn, Enters
<1>8. /\ \A l \in Clients : l # k => conn'[l] = conn[l] /\ child'[l] = child[l]
      /\ conn'[k] \in Member
      /\ \/ child'[k] /\ conn'[k] = "accepted"
         \/ "fork" \in Faults /\ child' = child
  BY <1>1 DEF Enters, RosterType, Member
<1>9. LetIn'
  BY <1>1, <1>4, <1>5, <1>6, <1>7, <1>8 DEF LetIn
<1>10. Forked'
  BY <1>1, <1>8 DEF Forked
<1>11. RosterAgrees'
  <2>1. \A q, r \in Full' : q # r =>
          user_list'[q].id # user_list'[r].id /\ Of(q)' # Of(r)'
    <3>1. \A q, r \in Full : q # r =>
            user_list'[q].id # user_list'[r].id /\ Of(q)' # Of(r)'
      BY <1>1, <1>5 DEF RosterAgrees
    <3>2. \A r \in Full : user_list'[s].id # user_list'[r].id /\ Of(s)' # Of(r)'
      BY <1>5, <1>6, <1>7
    <3>3. QED
      BY <1>4, <3>1, <3>2
  <2>2. ASSUME NEW l \in Clients, child'[l] PROVE \E r \in Full' : Of(r)' = l
    <3>1. CASE l = k
      BY <1>4, <1>6, <3>1
    <3>2. CASE l # k
      <4>1. child[l]
        BY <1>8, <2>2, <3>2
      <4>2. PICK r \in Full : Of(r) = l
        BY <1>1, <4>1 DEF RosterAgrees
      <4>3. QED
        BY <1>4, <1>5, <4>2
    <3>3. QED
      BY <3>1, <3>2
  <2>3. ASSUME Faults \cap {"child", "fork"} = {}, NEW r \in Full' PROVE child'[Of(r)']
    <3>1. CASE r = s
      BY <1>6, <1>8, <2>3, <3>1
    <3>2. CASE r # s
      <4>1. r \in Full /\ child[Of(r)]
        BY <1>1, <1>4, <2>3, <3>2 DEF RosterAgrees
      <4>2. child'[Of(r)]
        BY <1>5, <1>7, <1>8, <4>1
      <4>3. QED
        BY <1>5, <4>1, <4>2
    <3>3. QED
      BY <3>1, <3>2
  <2>4. QED
    BY <2>1, <2>2, <2>3 DEF RosterAgrees
<1>12. QED
  BY <1>9, <1>10, <1>11

LEMMA LeavesKeeps ==
  ASSUME IInv, NEW S, Leaves(S)
  PROVE  LetIn' /\ Forked' /\ RosterAgrees'
<1>1. LetIn /\ Forked /\ RosterAgrees /\ ~Over /\ RosterType /\ conn' = conn
  BY DEF IInv, Leaves
<1>2. user_list' = [s \in Slots |-> IF s \in S THEN NoUser ELSE user_list[s]] /\ S \subseteq Full
  BY DEF Leaves
<1>3. Full' = Full \ S
  BY <1>2 DEF Full
<1>4. \A s \in Full \ S : user_list'[s] = user_list[s] /\ Of(s)' = Of(s) /\ Of(s) \in Clients
  BY <1>1, <1>2, ListIs DEF Of
<1>5. LetIn' /\ Forked'
  BY <1>1, <1>3, <1>4 DEF LetIn, Forked
<1>6. RosterAgrees'
  <2>1. \A q, r \in Full' : q # r =>
          user_list'[q].id # user_list'[r].id /\ Of(q)' # Of(r)'
    BY <1>1, <1>3, <1>4 DEF RosterAgrees
  <2>2. ASSUME NEW k \in Clients, child'[k] PROVE \E s \in Full' : Of(s)' = k
    <3>1. child[k] /\ \A s \in S : Of(s) # k
      BY <2>2 DEF Leaves
    <3>2. PICK s \in Full : Of(s) = k
      BY <1>1, <3>1 DEF RosterAgrees
    <3>3. QED
      BY <1>3, <1>4, <3>1, <3>2
  <2>3. ASSUME Faults \cap {"child", "fork"} = {}, NEW r \in Full' PROVE child'[Of(r)']
    <3>1. r \in Full /\ r \notin S /\ child[Of(r)] /\ Of(r) \in Clients
      BY <1>1, <1>3, <1>4, <2>3 DEF RosterAgrees
    <3>2. \A s \in S : Of(s) # Of(r)
      BY <1>1, <1>2, <3>1 DEF RosterAgrees
    <3>3. child'[Of(r)]
      BY <2>3, <3>1, <3>2 DEF Leaves
    <3>4. QED
      BY <1>3, <1>4, <3>3
  <2>4. QED
    BY <2>1, <2>2, <2>3 DEF RosterAgrees
<1>7. QED
  BY <1>5, <1>6

LEMMA RosterStep == IInv /\ [Next]_vars => IInv'
<1> SUFFICES ASSUME IInv, [Next]_vars PROVE IInv'
  OBVIOUS
<1>1. RosterType'
  BY ClienteleStep, ListStep DEF Clientele, RosterType, IInv
<1>2. Called'
  BY ClienteleStep DEF Clientele, Called, IInv
<1>3. LetIn' /\ Forked' /\ RosterAgrees'
  <2>1. CASE Over'
    BY <2>1 DEF LetIn, Forked, RosterAgrees
  <2>2. QED
    BY <2>1, StepIs, ListStep, QuietKeeps, EntersKeeps, LeavesKeeps
<1>4. QED
  BY <1>1, <1>2, <1>3 DEF IInv

(* The invariant of the proofs: besides the types, who has said its name,  *)
(* that only those in the list have been let in, and that a user without a *)
(* child is one whose fork() failed (server.c:362-418).                    *)
THEOREM RosterInvariant == Spec => []IInv
BY InitIInv, RosterStep, PTL DEF Spec

(* As long as the server runs, its list, the names in it and the children  *)
(* agree, whatever clients, persons, pipes and faults do (server.c:367-414,*)
(* 100-133).                                                               *)
THEOREM RosterStaysInAgreement == Spec => []RosterAgrees
<1>1. IInv => RosterAgrees
  BY DEF IInv
<1>2. QED
  BY RosterInvariant, <1>1, PTL
=============================================================================
