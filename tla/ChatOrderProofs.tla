-------------------------- MODULE ChatOrderProofs --------------------------
(***************************************************************************)
(* Proofs about the lines in Chat's pipes, for any clients, names, slots   *)
(* and sizes of pipes and buffers, and whatever faults occur: Chat         *)
(* implements ChatRoom, and so nobody is shown a line twice or out of its  *)
(* order; and a message to all reaches all as long as the pipes have room. *)
(* ChatProofs has the invariant of the user list.                          *)
(***************************************************************************)
EXTENDS ChatProofs, MCChat, WellFoundedInduction, FiniteSetTheorems

(* ChatRoom with its proofs, at the same values as Chat's R. *)
RP == INSTANCE ChatRoomProofs WITH
        Users <- Clients,
        Kinds <- {"text", "list", "p2p"},
        Addressees <- Names \cup {NoName},
        said <- [k \in Clients |-> Typed(toServer[k] \o fromUser[k])],
        pending <- [k \in Clients |-> Typed(toUser[k] \o fromServer[k])]

-----------------------------------------------------------------------------
(* The typed lines of a sequence.  Inductions are on the length, from a    *)
(* least counterexample.                                                   *)

LEMMA Least ==
  ASSUME NEW T \in SUBSET Nat, T # {}
  PROVE  \E x \in T : \A y \in T : x <= y
<1>1. PICK less : less = OpToRel(<, Nat)
  OBVIOUS
<1>2. IsWellFoundedOn(less, Nat)
  BY <1>1, NatLessThanWellFounded
<1>3. PICK x \in T : \A y \in T : <<y, x>> \notin less
  BY <1>2, WFMin
<1>4. \A y \in T : ~(y < x)
  BY <1>1, <1>3 DEF OpToRel
<1>5. QED
  BY <1>4

(* F[m] are the typed lines among the first m of c, for m up to n. *)
Counts(F, c, n) ==
  F = [m \in 0 .. n |->
         IF m = 0 THEN <<>>
         ELSE IF c[m].n > 0 THEN Append(F[m - 1], c[m]) ELSE F[m - 1]]

LEMMA CountsAt ==
  ASSUME NEW F, NEW c, NEW n \in Nat, Counts(F, c, n)
  PROVE  /\ F[0] = <<>>
         /\ \A m \in 1 .. n :
              F[m] = IF c[m].n > 0 THEN Append(F[m - 1], c[m]) ELSE F[m - 1]
<1>1. 0 \in 0 .. n /\ \A m \in 1 .. n : m \in 0 .. n /\ m # 0
  OBVIOUS
<1>2. \A m \in 0 .. n :
        F[m] = IF m = 0 THEN <<>>
               ELSE IF c[m].n > 0 THEN Append(F[m - 1], c[m]) ELSE F[m - 1]
  BY Zenon DEF Counts
<1>3. F[0] = <<>>
  BY <1>1, <1>2
<1>4. ASSUME NEW m \in 1 .. n
      PROVE  F[m] = IF c[m].n > 0 THEN Append(F[m - 1], c[m]) ELSE F[m - 1]
  BY <1>1, <1>2, Zenon
<1>5. QED
  BY <1>3, <1>4

LEMMA CountsExists ==
  ASSUME NEW c, NEW n \in Nat
  PROVE  \E F : Counts(F, c, n)
<1> DEFINE T == {j \in Nat : ~\E F : Counts(F, c, j)}
<1>1. SUFFICES ASSUME T # {} PROVE FALSE
  OBVIOUS
<1>2. PICK j \in T : \A i0 \in T : j <= i0
  BY <1>1, Least
<1>3. CASE j = 0
  <2> DEFINE F == [m \in 0 .. 0 |-> <<>>]
  <2>1. Counts(F, c, 0)
    BY DEF Counts
  <2>2. QED
    BY <1>3, <2>1
<1>4. CASE j > 0
  <2>1. j - 1 \in Nat /\ j - 1 \notin T
    BY <1>2, <1>4
  <2>2. PICK F : Counts(F, c, j - 1)
    BY <2>1
  <2> DEFINE last == IF c[j].n > 0 THEN Append(F[j - 1], c[j]) ELSE F[j - 1]
             G == [m \in 0 .. j |-> IF m = j THEN last ELSE F[m]]
  <2>3. \A m \in 0 .. j - 1 : G[m] = F[m]
    BY <2>1
  <2>4. G[j] = last
    BY <2>1
  <2>5. \A m \in 0 .. j : G[m] = IF m = 0 THEN <<>>
                   ELSE IF c[m].n > 0 THEN Append(G[m - 1], c[m]) ELSE G[m - 1]
    <3>1. ASSUME NEW m \in 0 .. j, m < j
          PROVE  G[m] = IF m = 0 THEN <<>>
                   ELSE IF c[m].n > 0 THEN Append(G[m - 1], c[m]) ELSE G[m - 1]
      <4>1. CASE m = 0
        BY <1>4, <2>1, <2>2, <2>3, <4>1, CountsAt
      <4>2. CASE m > 0
        <5>1. m \in 1 .. j - 1 /\ m - 1 \in 0 .. j - 1
          BY <3>1, <4>2
        <5>2. F[m] = IF c[m].n > 0 THEN Append(F[m - 1], c[m]) ELSE F[m - 1]
          BY <2>1, <2>2, <5>1, CountsAt
        <5>3. G[m] = F[m] /\ G[m - 1] = F[m - 1]
          BY <2>3, <5>1
        <5>4. QED
          BY <4>2, <5>2, <5>3
      <4>3. QED
        BY <3>1, <4>1, <4>2
    <3>2. G[j] = IF c[j].n > 0 THEN Append(G[j - 1], c[j]) ELSE G[j - 1]
      <4>1. G[j - 1] = F[j - 1]
        BY <2>1, <2>3
      <4>2. QED
        BY <2>4, <4>1
    <3>3. QED
      BY <1>4, <3>1, <3>2
  <2>6. DOMAIN G = 0 .. j
    OBVIOUS
  <2> HIDE DEF G
  <2>7. Counts(G, c, j)
    BY <2>5, <2>6 DEF Counts, G
  <2>8. QED
    BY <2>7
<1>5. QED
  BY <1>2, <1>3, <1>4

LEMMA TypedIs ==
  ASSUME NEW S, NEW c \in Seq(S)
  PROVE  \E F : Counts(F, c, Len(c)) /\ Typed(c) = F[Len(c)]
<1>1. Len(c) \in Nat
  OBVIOUS
<1>2. \E F : Counts(F, c, Len(c))
  BY <1>1, CountsExists
<1> DEFINE G == CHOOSE F : Counts(F, c, Len(c))
<1>3. Counts(G, c, Len(c))
  BY <1>2
<1>4. Typed(c) = G[Len(c)]
  BY DEF Typed, Counts
<1>5. QED
  BY <1>3, <1>4

(* What is counted depends on the counted part of the sequence only. *)
LEMMA CountsSame ==
  ASSUME NEW F, NEW c, NEW n \in Nat, Counts(F, c, n),
         NEW G, NEW d, NEW l \in Nat, Counts(G, d, l),
         NEW m \in Nat, m <= n, m <= l, \A j \in 1 .. m : c[j] = d[j]
  PROVE  F[m] = G[m]
<1> DEFINE T == {j \in 0 .. m : F[j] # G[j]}
<1>1. SUFFICES ASSUME T # {} PROVE FALSE
  OBVIOUS
<1>2. PICK j \in T : \A i0 \in T : j <= i0
  <2>1. T \in SUBSET Nat
    OBVIOUS
  <2>2. QED
    BY <1>1, <2>1, Least
<1>3. j # 0
  BY CountsAt
<1>4. j \in 1 .. m /\ j \in 1 .. n /\ j \in 1 .. l /\ j - 1 \in 0 .. m
  BY <1>3
<1>5. F[j - 1] = G[j - 1]
  BY <1>2, <1>4
<1>6. /\ F[j] = IF c[j].n > 0 THEN Append(F[j - 1], c[j]) ELSE F[j - 1]
      /\ G[j] = IF d[j].n > 0 THEN Append(G[j - 1], d[j]) ELSE G[j - 1]
  BY <1>4, CountsAt
<1>7. c[j] = d[j]
  BY <1>4
<1>8. QED
  BY <1>5, <1>6, <1>7

LEMMA TypedType ==
  ASSUME NEW S, NEW c \in Seq(S)
  PROVE  Typed(c) \in Seq(S)
<1>1. PICK F : Counts(F, c, Len(c)) /\ Typed(c) = F[Len(c)]
  BY TypedIs
<1>2. Len(c) \in Nat
  OBVIOUS
<1> DEFINE T == {j \in 0 .. Len(c) : F[j] \notin Seq(S)}
<1>3. SUFFICES ASSUME T # {} PROVE FALSE
  BY <1>1, <1>2
<1>4. PICK j \in T : \A i0 \in T : j <= i0
  <2>1. T \in SUBSET Nat
    OBVIOUS
  <2>2. QED
    BY <1>3, <2>1, Least
<1>5. j # 0
  <2>1. F[0] = <<>> /\ <<>> \in Seq(S)
    BY <1>1, <1>2, CountsAt
  <2>2. QED
    BY <1>4, <2>1
<1>6. j \in 1 .. Len(c) /\ j - 1 \in 0 .. Len(c)
  BY <1>5
<1>7. F[j - 1] \in Seq(S)
  BY <1>4, <1>6
<1>8. F[j] = IF c[j].n > 0 THEN Append(F[j - 1], c[j]) ELSE F[j - 1]
  BY <1>1, <1>2, <1>6, CountsAt
<1>9. c[j] \in S
  BY <1>6
<1>10. F[j] \in Seq(S)
  BY <1>7, <1>8, <1>9
<1>11. QED
  BY <1>4, <1>10

LEMMA TypedNothing == Typed(<<>>) = <<>>
<1>1. PICK c : c = <<>>
  OBVIOUS
<1>2. c \in Seq({}) /\ Len(c) = 0
  BY <1>1
<1>3. PICK F : Counts(F, c, Len(c)) /\ Typed(c) = F[Len(c)]
  BY <1>2, TypedIs
<1>4. QED
  BY <1>1, <1>2, <1>3, CountsAt

LEMMA TypedOne ==
  ASSUME NEW e
  PROVE  Typed(<<e>>) = IF e.n > 0 THEN <<e>> ELSE <<>>
<1>1. PICK c : c = <<e>>
  OBVIOUS
<1>2. c \in Seq({e}) /\ Len(c) = 1 /\ c[1] = e
  BY <1>1
<1>3. PICK F : Counts(F, c, Len(c)) /\ Typed(c) = F[Len(c)]
  BY <1>2, TypedIs
<1>4. F[1] = IF c[1].n > 0 THEN Append(F[0], c[1]) ELSE F[0]
  <2>1. 1 \in Nat /\ 1 \in 1 .. 1 /\ 1 - 1 = 0
    OBVIOUS
  <2>2. QED
    BY <1>2, <1>3, <2>1, CountsAt
<1>5. F[0] = <<>>
  BY <1>2, <1>3, CountsAt
<1>6. Append(<<>>, e) = <<e>>
  OBVIOUS
<1>7. QED
  BY <1>1, <1>2, <1>3, <1>4, <1>5, <1>6

LEMMA TypedConcat ==
  ASSUME NEW S, NEW s \in Seq(S), NEW t \in Seq(S)
  PROVE  Typed(s \o t) = Typed(s) \o Typed(t)
<1>1. PICK c : c = s \o t
  OBVIOUS
<1>2. /\ c \in Seq(S) /\ Len(s) \in Nat /\ Len(t) \in Nat /\ Len(c) = Len(s) + Len(t)
      /\ \A m \in 1 .. Len(s) : c[m] = s[m]
      /\ \A m \in 1 .. Len(t) : c[Len(s) + m] = t[m]
  BY <1>1
<1>3. PICK F : Counts(F, s, Len(s)) /\ Typed(s) = F[Len(s)]
  BY TypedIs
<1>4. PICK G : Counts(G, t, Len(t)) /\ Typed(t) = G[Len(t)]
  BY TypedIs
<1>5. PICK H : Counts(H, c, Len(c)) /\ Typed(c) = H[Len(c)]
  BY <1>2, TypedIs
<1>6. H[Len(s)] = Typed(s)
  <2>1. Len(s) <= Len(c) /\ Len(s) <= Len(s) /\ Len(c) \in Nat
    BY <1>2
  <2>2. QED
    BY <1>2, <1>3, <1>5, <2>1, CountsSame
<1>7. PICK a : a = Typed(s) /\ a \in Seq(S)
  BY TypedType
<1> DEFINE T == {j \in 0 .. Len(t) : ~(G[j] \in Seq(S) /\ H[Len(s) + j] = a \o G[j])}
<1>8. SUFFICES ASSUME T # {} PROVE FALSE
  <2>1. Len(t) \in 0 .. Len(t)
    BY <1>2
  <2>2. ASSUME T = {} PROVE H[Len(s) + Len(t)] = a \o G[Len(t)]
    BY <2>1, <2>2
  <2>3. QED
    BY <1>1, <1>2, <1>4, <1>5, <1>7, <2>2
<1>9. PICK j \in T : \A i0 \in T : j <= i0
  <2>1. T \in SUBSET Nat
    OBVIOUS
  <2>2. QED
    BY <1>8, <2>1, Least
<1>10. j # 0
  <2>1. G[0] = <<>>
    BY <1>2, <1>4, CountsAt
  <2>2. a \o <<>> = a /\ <<>> \in Seq(S) /\ Len(s) + 0 = Len(s)
    BY <1>2, <1>7
  <2>3. QED
    BY <1>6, <1>7, <1>9, <2>1, <2>2
<1>11. j \in 1 .. Len(t) /\ j - 1 \in 0 .. Len(t) /\ j - 1 \notin T
  BY <1>9, <1>10
<1>12. G[j] = IF t[j].n > 0 THEN Append(G[j - 1], t[j]) ELSE G[j - 1]
  BY <1>2, <1>4, <1>11, CountsAt
<1>13. H[Len(s) + j] = IF t[j].n > 0 THEN Append(H[Len(s) + (j - 1)], t[j])
                                     ELSE H[Len(s) + (j - 1)]
  <2>1. /\ Len(s) + j \in 1 .. Len(c) /\ Len(c) \in Nat
        /\ (Len(s) + j) - 1 = Len(s) + (j - 1)
    BY <1>2, <1>11
  <2>2. c[Len(s) + j] = t[j]
    BY <1>2, <1>11
  <2>3. QED
    BY <1>5, <2>1, <2>2, CountsAt
<1>14. PICK g : g = G[j - 1]
  OBVIOUS
<1>15. g \in Seq(S) /\ H[Len(s) + (j - 1)] = a \o g
  BY <1>11, <1>14
<1>16. PICK e : e = t[j]
  OBVIOUS
<1>17. e \in S /\ a \in Seq(S) /\ g \in Seq(S)
  BY <1>7, <1>11, <1>15, <1>16
<1>18. PICK f : f = <<e>>
  OBVIOUS
<1>19. /\ f \in Seq(S) /\ a \o g \in Seq(S) /\ g \o f \in Seq(S)
       /\ Append(g, e) = g \o f /\ Append(a \o g, e) = (a \o g) \o f
  <2>1. f \in Seq(S)
    BY <1>17, <1>18
  <2>2. a \o g \in Seq(S) /\ g \o f \in Seq(S)
    BY <1>17, <2>1
  <2>3. Append(g, e) = g \o f
    BY <1>17, <1>18
  <2>4. \A u \in Seq(S) : Append(u, e) = u \o f
    BY <1>17, <1>18
  <2>5. QED
    BY <2>1, <2>2, <2>3, <2>4, Zenon
<1>20. a \o (g \o f) = (a \o g) \o f
  <2>1. f \in Seq(S)
    BY <1>19
  <2> HIDE DEF T
  <2>2. QED
    BY <1>17, <2>1, RP!ConcatAssociates
<1>21. G[j] \in Seq(S) /\ H[Len(s) + j] = a \o G[j]
  <2>1. CASE t[j].n > 0
    <3>1. G[j] = g \o f
      BY <1>12, <1>14, <1>16, <1>19, <2>1, Zenon
    <3>2. H[Len(s) + j] = (a \o g) \o f
      BY <1>13, <1>15, <1>16, <1>19, <2>1, Zenon
    <3>3. QED
      BY <1>19, <1>20, <3>1, <3>2, Zenon
  <2>2. CASE ~(t[j].n > 0)
    BY <1>12, <1>13, <1>14, <1>15, <2>2, Zenon
  <2>3. QED
    BY <2>1, <2>2
<1>22. QED
  BY <1>9, <1>21

-----------------------------------------------------------------------------
(* Where the server and the children are in their loops. *)

Loops ==
  /\ turn \in [Clients -> {"user", "server"}]
  /\ server \in {"connect", "name", "admin", "poll", "exited", "interrupted", "crashed"}
  /\ caller \in Clients \cup {NoUser}
  /\ i \in Slots
  /\ blank \in BOOLEAN
  /\ heirs \in [Clients -> SUBSET Clients]
  /\ lines \in 0 .. MaxAdmin

LEMMA LoopsInit == Init => Loops
<1>1. 1 \in Slots /\ 0 \in 0 .. MaxAdmin
  BY ChatAssumption DEF Slots
<1>2. QED
  BY <1>1 DEF Init, Loops

LEMMA NextSlotIs ==
  Loops /\ server = "poll" /\ NextSlot => server' \in {"connect", "poll"} /\ i' \in Slots
<1> SUFFICES ASSUME Loops, server = "poll", NextSlot
             PROVE  server' \in {"connect", "poll"} /\ i' \in Slots
  OBVIOUS
<1>1. i \in 1 .. MAX_USER /\ MAX_USER \in Nat \ {0}
  BY ChatAssumption DEF Loops, Slots
<1>2. CASE i = MAX_USER
  BY <1>1, <1>2 DEF NextSlot, Slots
<1>3. CASE i # MAX_USER
  BY <1>1, <1>3 DEF NextSlot, Slots
<1>4. QED
  BY <1>2, <1>3

LEMMA LoopsStep == Loops /\ [Next]_vars => Loops'
<1> SUFFICES ASSUME Loops, [Next]_vars PROVE Loops'
  OBVIOUS
<1>1. 1 \in Slots
  BY ChatAssumption DEF Slots
<1>2. ASSUME UNCHANGED <<turn, server, caller, i, blank, heirs, lines>> PROVE Loops'
  BY <1>2 DEF Loops
<1>3. ASSUME NEW k \in Clients, AwaitName(k) \/ CallLost(k) \/ Reject(k) PROVE Loops'
  BY <1>3 DEF AwaitName, CallLost, Reject, Accept, Loops
<1>4. ASSUME NEW k \in Clients, Join(k) PROVE Loops'
  <2>1. heirs' \in [Clients -> SUBSET Clients]
    BY <1>4 DEF Join, Loops
  <2>2. QED
    BY <1>4, <2>1 DEF Join, Accept, Loops
<1>5. ASSUME NEW k \in Clients, ForkFails(k) PROVE Loops'
  BY <1>5 DEF ForkFails, Accept, Loops
<1>6. ASSUME AdminLine PROVE lines' \in 0 .. MaxAdmin
  BY <1>6, ChatAssumption DEF AdminLine, Loops
<1>7. CASE AdminEmpty \/ AdminList \/ AdminNotice
  <2>1. AdminLine /\ UNCHANGED <<turn, caller, heirs>>
    BY <1>7 DEF AdminEmpty, AdminList, AdminNotice, AdminCommand
  <2>2. server' \in {"connect", "poll"} /\ i' \in {i, 1} /\ blank' \in BOOLEAN
    BY <1>7 DEF AdminEmpty, AdminList, AdminNotice, AdminCommand
  <2>3. QED
    BY <1>1, <1>6, <2>1, <2>2 DEF Loops
<1>8. ASSUME NEW id \in Names, AdminKick(id) PROVE Loops'
  <2>1. /\ AdminLine /\ UNCHANGED <<turn, caller, heirs>>
        /\ server' = "poll" /\ i' = 1 /\ blank' = FALSE
    BY <1>8 DEF AdminKick, AdminCommand, Kick
  <2>2. QED
    BY <1>1, <1>6, <2>1 DEF Loops
<1>9. CASE AdminExit
  <2>1. AdminLine /\ UNCHANGED <<turn, caller, heirs, i, blank>> /\ server' = "exited"
    BY <1>9 DEF AdminExit, Kick
  <2>2. QED
    BY <1>6, <2>1 DEF Loops
<1>10. CASE PollNothing \/ PollExit \/ PollList \/ PollP2p \/ PollBroadcast \/ PollLeftover
  <2>1. /\ UNCHANGED <<turn, caller, heirs, lines>> /\ blank' \in {blank, FALSE}
        /\ server = "poll" /\ NextSlot
    BY <1>10 DEF PollNothing, PollExit, PollList, PollP2p, PollBroadcast, PollLeftover,
                 PollUser, Consume, Kick, DeadInSlot, roster
  <2>2. QED
    BY <2>1, NextSlotIs DEF Loops
<1>11. CASE AcceptNobody \/ AdminSilent \/ PollDead \/ Crash \/ Interrupt
  BY <1>1, <1>11 DEF AcceptNobody, AdminSilent, PollDead, Crash, Interrupt, roster, Loops
<1>12. ASSUME NEW k \in Clients, Child(k) PROVE Loops'
  BY <1>12 DEF Child, RelayToServer, RelayToUser, roster, Loops
<1>13. ASSUME NEW k \in Clients,
              \/ Client(k) \/ Dial(k) \/ SayName(k) \/ TypeExit(k) \/ Die(k) \/ ChildDies(k)
       PROVE  Loops'
  BY <1>2, <1>13 DEF Client, Refused, Show, EndOfFile, Dial, SayName, TypeExit, Die,
                     ChildDies, roster
<1>14. ASSUME NEW k \in Clients, NEW kind, NEW to, Type(k, kind, to) PROVE Loops'
  BY <1>2, <1>14 DEF Type, roster
<1>15. CASE UNCHANGED vars
  BY <1>2, <1>15 DEF vars, roster
<1>16. QED
  BY <1>3, <1>4, <1>5, <1>7, <1>8, <1>9, <1>10, <1>11, <1>12, <1>13, <1>14, <1>15
     DEF Next, Server, Person

-----------------------------------------------------------------------------
(* Pipes, and what becomes of the lines in them. *)

Flow ==
  /\ ArePipes(fromUser) /\ ArePipes(toServer)
  /\ ArePipes(fromServer) /\ ArePipes(toUser)
  /\ typed \in 0 .. MaxLines
  /\ shown \in [Clients -> Seq(Lines)]

(* The lines that k says and those on their way to it, as in Chat's R. *)
Said(k) == Typed(toServer[k] \o fromUser[k])
Pending(k) == Typed(toUser[k] \o fromServer[k])

(* Nothing but losses, as ChatRoom sees it. *)
Loses ==
  /\ UNCHANGED <<typed, shown>>
  /\ \A k \in Clients : RP!Left(Said(k), Said(k)') /\ RP!Left(Pending(k), Pending(k)')

LEMMA FlowInit == Init => Flow
<1> SUFFICES ASSUME Init PROVE Flow
  OBVIOUS
<1>1. <<>> \in Seq(Lines) /\ Len(<<>>) <= PipeSize /\ 0 \in 0 .. MaxLines
  BY ChatAssumption
<1>2. [k \in Clients |-> <<>>] \in [Clients -> Seq(Lines)]
  BY <1>1
<1>3. QED
  BY <1>1, <1>2 DEF Init, Flow, ArePipes

LEMMA ReadOf ==
  ASSUME NEW S, NEW p \in Seq(S)
  PROVE  /\ Read(p) \in Seq(S) /\ Unread(p) \in Seq(S) /\ Read(p) \o Unread(p) = p
         /\ Len(Read(p)) \in Nat /\ Len(Unread(p)) \in Nat /\ Len(p) \in Nat
         /\ Len(Read(p)) + Len(Unread(p)) = Len(p)
         /\ p # <<>> => Len(Read(p)) >= 1
<1>1. MaxRead \in Nat \ {0} /\ Len(p) \in Nat
  BY ChatAssumption
<1>2. Size(p) \in 0 .. Len(p) /\ (Len(p) # 0 => Size(p) >= 1)
  BY <1>1 DEF Size
<1>3. Read(p) = RP!First(p, Size(p)) /\ Unread(p) = RP!Rest(p, Size(p))
  BY DEF Read, Unread, RP!First, RP!Rest
<1>4. Read(p) \in Seq(S) /\ Unread(p) \in Seq(S) /\ Read(p) \o Unread(p) = p
  BY <1>2, <1>3, RP!FirstAndRest
<1>5. Len(Read(p)) = Size(p) /\ Len(Unread(p)) = Len(p) - Size(p)
  BY <1>1, <1>2 DEF Read, Unread
<1>6. p # <<>> => Len(p) # 0
  OBVIOUS
<1>7. QED
  BY <1>1, <1>2, <1>4, <1>5, <1>6

LEMMA ReadIs ==
  ASSUME NEW p \in Seq(Lines), Len(p) <= PipeSize
  PROVE  /\ Read(p) \in Seq(Lines) /\ Unread(p) \in Seq(Lines)
         /\ Read(p) \o Unread(p) = p
         /\ Len(Unread(p)) <= PipeSize /\ Len(Read(p)) <= PipeSize
         /\ p # <<>> => Len(Read(p)) >= 1
<1>1. PICK x, y : x = Len(Read(p)) /\ y = Len(Unread(p))
  OBVIOUS
<1>2. x \in Nat /\ y \in Nat /\ x + y <= PipeSize /\ PipeSize \in Nat
  BY <1>1, ReadOf, ChatAssumption
<1>3. x <= PipeSize /\ y <= PipeSize
  BY <1>2
<1>4. QED
  BY <1>1, <1>3, ReadOf

LEMMA WriteIs ==
  ASSUME NEW p \in Seq(Lines), Len(p) <= PipeSize, NEW c \in Seq(Lines)
  PROVE  /\ Write(p, c) \in {p, p \o c}
         /\ Write(p, c) \in Seq(Lines) /\ Len(Write(p, c)) <= PipeSize
         /\ Fits(p, c) => Len(p \o c) <= PipeSize
BY ChatAssumption DEF Write, Fits

LEMMA SetPipe ==
  ASSUME NEW p, ArePipes(p), NEW k \in Clients, NEW c \in Seq(Lines), Len(c) <= PipeSize
  PROVE  ArePipes([p EXCEPT ![k] = c])
BY DEF ArePipes

LEMMA PipeAt ==
  ASSUME NEW p, ArePipes(p), NEW k \in Clients
  PROVE  p[k] \in Seq(Lines) /\ Len(p[k]) <= PipeSize
BY DEF ArePipes

-----------------------------------------------------------------------------
(* What is left of a sequence. *)

LEMMA FirstOf ==
  ASSUME NEW S, NEW s \in Seq(S), NEW t \in Seq(S)
  PROVE  /\ Len(s) \in 0 .. Len(s \o t)
         /\ RP!First(s \o t, Len(s)) = s
         /\ RP!Rest(s \o t, Len(s)) = t
<1>1. PICK u : u = s \o t
  OBVIOUS
<1>2. /\ u \in Seq(S) /\ Len(s) \in Nat /\ Len(t) \in Nat /\ Len(u) = Len(s) + Len(t)
      /\ \A p \in 1 .. Len(s) : u[p] = s[p]
      /\ \A p \in 1 .. Len(t) : u[Len(s) + p] = t[p]
  BY <1>1
<1>3. Len(s) \in 0 .. Len(u)
  BY <1>2
<1>4. PICK f, g : f = RP!First(u, Len(s)) /\ g = RP!Rest(u, Len(s))
  OBVIOUS
<1>5. f \in Seq(S) /\ g \in Seq(S)
  BY <1>2, <1>3, <1>4, RP!FirstAndRest
<1>6. Len(f) = Len(s) /\ \A p \in 1 .. Len(s) : f[p] = s[p]
  BY <1>2, <1>4 DEF RP!First
<1>7. Len(g) = Len(t) /\ \A p \in 1 .. Len(t) : g[p] = t[p]
  BY <1>2, <1>4 DEF RP!Rest
<1>8. f = s /\ g = t
  BY <1>5, <1>6, <1>7, RP!SameSeq
<1>9. QED
  BY <1>1, <1>3, <1>4, <1>8

LEMMA LostMiddle ==
  ASSUME NEW S, NEW a \in Seq(S), NEW b \in Seq(S), NEW c \in Seq(S)
  PROVE  RP!Left(a \o (b \o c), a \o c)
<1>1. PICK s : s = a \o (b \o c)
  OBVIOUS
<1>2. /\ b \o c \in Seq(S) /\ a \o b \in Seq(S) /\ s = (a \o b) \o c
  BY <1>1, RP!ConcatAssociates
<1>3. Len(a) \in 0 .. Len(s) /\ RP!First(s, Len(a)) = a
  <2>1. PICK g : g = b \o c
    OBVIOUS
  <2>2. g \in Seq(S) /\ s = a \o g
    BY <1>1, <1>2, <2>1
  <2>3. QED
    BY <2>2, FirstOf
<1>4. Len(a \o b) \in 0 .. Len(s) /\ RP!Rest(s, Len(a \o b)) = c
  BY <1>2, FirstOf
<1>5. Len(a \o b) \in Len(a) .. Len(s)
  BY <1>4
<1>6. a \o c = RP!First(s, Len(a)) \o RP!Rest(s, Len(a \o b))
  BY <1>3, <1>4
<1>7. QED
  BY <1>1, <1>3, <1>5, <1>6 DEF RP!Left

LEMMA NothingLost ==
  ASSUME NEW S, NEW s \in Seq(S)
  PROVE  RP!Left(s, s)
<1>1. <<>> \in Seq(S) /\ <<>> \o <<>> = <<>> /\ s \o <<>> = s
  OBVIOUS
<1>2. RP!Left(s \o (<<>> \o <<>>), s \o <<>>)
  BY <1>1, LostMiddle
<1>3. QED
  BY <1>1, <1>2

(* A pipe behind another one, as its child relays, or as either is closed. *)
LEMMA TypedTwo ==
  ASSUME NEW a \in Seq(Lines), NEW b \in Seq(Lines)
  PROVE  /\ a \o b \in Seq(Lines) /\ Typed(a) \in Seq(Lines) /\ Typed(b) \in Seq(Lines)
         /\ Typed(a \o b) = Typed(a) \o Typed(b)
         /\ Typed(a \o b) \in Seq(Lines)
<1>1. Typed(a \o b) = Typed(a) \o Typed(b)
  BY TypedConcat
<1>2. Typed(a) \in Seq(Lines) /\ Typed(b) \in Seq(Lines) /\ a \o b \in Seq(Lines)
  BY TypedType
<1>3. Typed(a \o b) \in Seq(Lines)
  BY <1>2, TypedType
<1>4. QED
  BY <1>1, <1>2, <1>3

LEMMA RelayLoses ==
  ASSUME NEW a \in Seq(Lines), NEW b \in Seq(Lines), Len(b) <= PipeSize,
         NEW d, d \in {a, a \o Read(b)}
  PROVE  RP!Left(Typed(a \o b), Typed(d \o Unread(b)))
<1>1. PICK r, u : r = Read(b) /\ u = Unread(b)
  OBVIOUS
<1>2. r \in Seq(Lines) /\ u \in Seq(Lines) /\ r \o u = b
  BY <1>1, ReadIs
<1>3. PICK x, y, z : x = Typed(a) /\ y = Typed(r) /\ z = Typed(u)
  OBVIOUS
<1>4. x \in Seq(Lines) /\ y \in Seq(Lines) /\ z \in Seq(Lines)
  BY <1>2, <1>3, TypedType
<1>5. Typed(b) = y \o z
  BY <1>2, <1>3, TypedConcat
<1>6. Typed(a \o b) = x \o (y \o z)
  BY <1>3, <1>5, TypedConcat
<1>7. CASE d = a
  <2>1. Typed(d \o u) = x \o z
    BY <1>2, <1>3, <1>7, TypedConcat
  <2>2. QED
    BY <1>1, <1>4, <1>6, <2>1, LostMiddle
<1>8. CASE d = a \o r
  <2>1. a \o b = d \o u
    <3>1. r \in Seq(Lines) /\ u \in Seq(Lines)
      BY <1>2
    <3>2. a \o (r \o u) = (a \o r) \o u
      BY <3>1, RP!ConcatAssociates
    <3>3. QED
      BY <1>2, <1>8, <3>2
  <2>2. Typed(a \o b) \in Seq(Lines)
    BY TypedTwo
  <2>3. QED
    BY <1>1, <2>1, <2>2, NothingLost
<1>9. QED
  BY <1>1, <1>7, <1>8

LEMMA ClosedLoses ==
  ASSUME NEW a \in Seq(Lines), NEW b \in Seq(Lines),
         NEW c, c \in {a, <<>>}, NEW d, d \in {b, <<>>}
  PROVE  RP!Left(Typed(a \o b), Typed(c \o d))
<1>1. PICK x, y : x = Typed(a) /\ y = Typed(b)
  OBVIOUS
<1>2. x \in Seq(Lines) /\ y \in Seq(Lines) /\ Typed(a \o b) = x \o y
  BY <1>1, TypedTwo
<1>3. PICK e : e = <<>>
  OBVIOUS
<1>4. /\ e \in Seq(Lines) /\ Typed(e) = e /\ e \o e = e
      /\ x \o e = x /\ e \o x = x /\ y \o e = y /\ e \o y = y
      /\ x \o y \in Seq(Lines) /\ (x \o y) \o e = x \o y /\ e \o (x \o y) = x \o y
  BY <1>2, <1>3, TypedNothing
<1>5. Typed(c) \in {x, e} /\ Typed(d) \in {y, e} /\ Typed(c \o d) = Typed(c) \o Typed(d)
  <2>1. c \in Seq(Lines) /\ d \in Seq(Lines)
    BY <1>3, <1>4
  <2>2. Typed(c) \in {x, e}
    BY <1>1, <1>3, <1>4
  <2>3. Typed(d) \in {y, e}
    BY <1>1, <1>3, <1>4
  <2>4. QED
    BY <2>1, <2>2, <2>3, TypedConcat
<1>6. RP!Left(x \o y, x \o y)
  BY <1>2, <1>4, NothingLost
<1>7. RP!Left(x \o y, x \o e)
  <2>1. RP!Left(x \o (y \o e), x \o e)
    BY <1>2, <1>4, LostMiddle
  <2>2. QED
    BY <1>4, <2>1
<1>8. RP!Left(x \o y, e \o y)
  <2>1. RP!Left(e \o (x \o y), e \o y)
    BY <1>2, <1>4, LostMiddle
  <2>2. QED
    BY <1>4, <2>1
<1>9. RP!Left(x \o y, e \o e)
  <2>1. RP!Left(e \o ((x \o y) \o e), e \o e)
    BY <1>2, <1>4, LostMiddle
  <2>2. QED
    BY <1>4, <2>1
<1>10. QED
  BY <1>2, <1>5, <1>6, <1>7, <1>8, <1>9

(* Lines that nobody has typed do not count. *)
LEMMA UntypedAdds ==
  ASSUME NEW a \in Seq(Lines), NEW b \in Seq(Lines), NEW e \in Lines, e.n = 0
  PROVE  /\ b \o <<e>> \in Seq(Lines)
         /\ Typed(a \o (b \o <<e>>)) = Typed(a \o b)
         /\ Typed(b \o <<e>>) = Typed(b)
<1>1. PICK f : f = <<e>>
  OBVIOUS
<1>2. f \in Seq(Lines) /\ Typed(f) = <<>>
  BY <1>1, TypedOne
<1>3. b \o f \in Seq(Lines) /\ Typed(b) \in Seq(Lines)
  BY <1>2, TypedTwo
<1>4. Typed(b \o f) = Typed(b) \o <<>>
  BY <1>2, TypedConcat
<1>5. Typed(b) \o <<>> = Typed(b)
  BY <1>3
<1>6. Typed(a \o (b \o f)) = Typed(a) \o Typed(b) /\ Typed(a \o b) = Typed(a) \o Typed(b)
  BY <1>3, <1>4, <1>5, TypedConcat
<1>7. QED
  BY <1>1, <1>3, <1>4, <1>5, <1>6

-----------------------------------------------------------------------------
(* Every step is one of ChatRoom, or none. *)

Simulates == R!Next \/ UNCHANGED R!vars

LEMMA QuietSimulates ==
  ASSUME Flow, UNCHANGED <<pipes, typed, shown>>
  PROVE  Flow' /\ Simulates
<1>1. UNCHANGED <<fromUser, toServer, fromServer, toUser, typed, shown>>
  BY DEF pipes
<1>2. Flow'
  BY <1>1 DEF Flow, ArePipes
<1>3. UNCHANGED R!vars
  BY <1>1, Zenon DEF R!vars
<1>4. QED
  BY <1>2, <1>3 DEF Simulates

LEMMA LeftSame == \A s, t : RP!Left(s, t) <=> R!Left(s, t)
BY DEF RP!Left, R!Left, RP!First, R!First, RP!Rest, R!Rest

LEMMA LosesSimulates ==
  ASSUME Loses
  PROVE  Simulates
<1> DEFINE sd == [k \in Clients |-> Said(k)]
           pd == [k \in Clients |-> Pending(k)]
<1>1. \A k \in Clients : R!Left(sd[k], sd'[k]) /\ R!Left(pd[k], pd'[k])
  <2>1. \A k \in Clients : /\ sd[k] = Said(k) /\ sd'[k] = Said(k)'
                          /\ pd[k] = Pending(k) /\ pd'[k] = Pending(k)'
    OBVIOUS
  <2>2. QED
    BY <2>1, LeftSame DEF Loses
<1>2. sd' = [k \in Clients |-> sd'[k]] /\ pd' = [k \in Clients |-> pd'[k]]
  OBVIOUS
<1>3. R!Lose
  BY <1>1, <1>2, Zenon DEF R!Lose, Loses, Said, Pending
<1>4. QED
  BY <1>3 DEF Simulates, R!Next

LEMMA SaidType ==
  ASSUME Flow, NEW k \in Clients
  PROVE  /\ toServer[k] \in Seq(Lines) /\ fromUser[k] \in Seq(Lines)
         /\ fromServer[k] \in Seq(Lines) /\ toUser[k] \in Seq(Lines)
         /\ Said(k) \in Seq(Lines) /\ Pending(k) \in Seq(Lines)
<1>1. /\ toServer[k] \in Seq(Lines) /\ fromUser[k] \in Seq(Lines)
      /\ fromServer[k] \in Seq(Lines) /\ toUser[k] \in Seq(Lines)
  BY PipeAt DEF Flow
<1>2. Said(k) \in Seq(Lines)
  BY <1>1, TypedTwo DEF Said
<1>3. Pending(k) \in Seq(Lines)
  BY <1>1, TypedTwo DEF Pending
<1>4. QED
  BY <1>1, <1>2, <1>3

LEMMA SameLoses ==
  ASSUME Flow, NEW k \in Clients
  PROVE  RP!Left(Said(k), Said(k)) /\ RP!Left(Pending(k), Pending(k))
BY SaidType, NothingLost

LEMMA ExitLineIs == \A k \in Clients : ExitLine(k) \in Lines /\ ExitLine(k).n = 0
BY ChatAssumption DEF ExitLine, Line, Lines

LEMMA MadeUpIs == /\ Notice \in Lines /\ Notice.n = 0 /\ Reply \in Lines /\ Reply.n = 0
BY ChatAssumption DEF Notice, Reply, Line, Lines

LEMMA RelayToServerStep ==
  ASSUME Flow, NEW k \in Clients, RelayToServer(k)
  PROVE  Flow' /\ Simulates
<1> DEFINE a == toServer[k]
           b == fromUser[k]
<1>1. /\ ArePipes(toServer) /\ ArePipes(fromUser)
      /\ a \in Seq(Lines) /\ Len(a) <= PipeSize /\ b \in Seq(Lines) /\ Len(b) <= PipeSize
  BY PipeAt DEF Flow
<1>2. PICK d : d = IF b # <<>> THEN Relayed(a, Read(b))
                   ELSE IF client[k] = "gone" THEN Write(a, <<ExitLine(k)>>) ELSE a
  OBVIOUS
<1>3. /\ fromUser' = [fromUser EXCEPT ![k] = Unread(b)]
      /\ toServer' = [toServer EXCEPT ![k] = d]
      /\ UNCHANGED <<fromServer, toUser, typed, shown>>
  BY <1>2 DEF RelayToServer
<1>4. <<ExitLine(k)>> \in Seq(Lines) /\ ExitLine(k) \in Lines /\ ExitLine(k).n = 0
  BY ExitLineIs
<1>5. /\ Read(b) \in Seq(Lines) /\ Unread(b) \in Seq(Lines) /\ Len(Unread(b)) <= PipeSize
      /\ Read(b) \o Unread(b) = b
  BY <1>1, ReadIs
<1>6. /\ d \in Seq(Lines) /\ Len(d) <= PipeSize
      /\ b # <<>> => d \in {a, a \o Read(b)}
      /\ b = <<>> => d \in {a, a \o <<ExitLine(k)>>}
  <2>1. CASE b # <<>>
    BY <1>1, <1>2, <1>5, <2>1, WriteIs DEF Relayed
  <2>2. CASE b = <<>>
    BY <1>1, <1>2, <1>4, <2>2, WriteIs
  <2>3. QED
    BY <2>1, <2>2
<1>7. Flow'
  <2>1. ArePipes(toServer') /\ ArePipes(fromUser')
    BY <1>1, <1>3, <1>5, <1>6, SetPipe
  <2>2. QED
    BY <1>3, <2>1 DEF Flow, ArePipes
<1>8. fromUser'[k] = Unread(b) /\ toServer'[k] = d
  BY <1>1, <1>3 DEF ArePipes
<1>9. RP!Left(Typed(a \o b), Typed(d \o Unread(b)))
  <2>1. CASE b # <<>>
    BY <1>1, <1>6, <2>1, RelayLoses
  <2>2. CASE b = <<>>
    <3>1. Unread(b) = <<>>
      BY <1>5, <2>2
    <3>2. a \o <<>> = a /\ d \o <<>> = d
      BY <1>1, <1>6
    <3>3. Typed(d) = Typed(a) /\ Typed(a) \in Seq(Lines)
      <4>1. PICK e : e = ExitLine(k)
        OBVIOUS
      <4>2. e \in Lines /\ e.n = 0 /\ d \in {a, a \o <<e>>}
        BY <1>4, <1>6, <2>2, <4>1
      <4>3. Typed(a \o <<e>>) = Typed(a)
        BY <1>1, <4>2, UntypedAdds
      <4>4. QED
        BY <1>1, <4>2, <4>3, TypedType
    <3>4. QED
      BY <2>2, <3>1, <3>2, <3>3, NothingLost
  <2>3. QED
    BY <2>1, <2>2
<1>10. Loses
  <2>1. ASSUME NEW l \in Clients, l # k PROVE Said(l)' = Said(l)
    BY <1>1, <1>3, <2>1 DEF Said, ArePipes
  <2>2. RP!Left(Said(k), Said(k)')
    BY <1>8, <1>9 DEF Said
  <2>3. \A l \in Clients : Pending(l)' = Pending(l)
    BY <1>3 DEF Pending
  <2>4. QED
    BY <1>3, <2>1, <2>2, <2>3, SameLoses DEF Loses
<1>11. QED
  BY <1>7, <1>10, LosesSimulates

LEMMA RelayToUserStep ==
  ASSUME Flow, NEW k \in Clients, RelayToUser(k)
  PROVE  Flow' /\ Simulates
<1> DEFINE a == toUser[k]
           b == fromServer[k]
<1>1. /\ ArePipes(toUser) /\ ArePipes(fromServer)
      /\ a \in Seq(Lines) /\ Len(a) <= PipeSize /\ b \in Seq(Lines) /\ Len(b) <= PipeSize
  BY PipeAt DEF Flow
<1>2. PICK d : d = IF client[k] = "gone" THEN a ELSE Relayed(a, Read(b))
  OBVIOUS
<1>3. /\ fromServer' = [fromServer EXCEPT ![k] = Unread(b)]
      /\ toUser' = [toUser EXCEPT ![k] = d]
      /\ UNCHANGED <<fromUser, toServer, typed, shown>>
  BY <1>2 DEF RelayToUser
<1>4. /\ Read(b) \in Seq(Lines) /\ Unread(b) \in Seq(Lines) /\ Len(Unread(b)) <= PipeSize
  BY <1>1, ReadIs
<1>5. d \in Seq(Lines) /\ Len(d) <= PipeSize /\ d \in {a, a \o Read(b)}
  BY <1>1, <1>2, <1>4, WriteIs DEF Relayed
<1>6. Flow'
  <2>1. ArePipes(toUser') /\ ArePipes(fromServer')
    BY <1>1, <1>3, <1>4, <1>5, SetPipe
  <2>2. QED
    BY <1>3, <2>1 DEF Flow, ArePipes
<1>7. Loses
  <2>1. fromServer'[k] = Unread(b) /\ toUser'[k] = d
    BY <1>1, <1>3 DEF ArePipes
  <2>2. RP!Left(Pending(k), Pending(k)')
    BY <1>1, <1>5, <2>1, RelayLoses DEF Pending
  <2>3. ASSUME NEW l \in Clients, l # k PROVE Pending(l)' = Pending(l)
    BY <1>1, <1>3, <2>3 DEF Pending, ArePipes
  <2>4. \A l \in Clients : Said(l)' = Said(l)
    BY <1>3 DEF Said
  <2>5. QED
    BY <1>3, <2>2, <2>3, <2>4, SameLoses DEF Loses
<1>8. QED
  BY <1>6, <1>7, LosesSimulates

(* Pipes of kicked users are closed, those of ended processes lost. *)
LEMMA DropStep ==
  ASSUME Flow, UNCHANGED <<typed, shown>>,
         ArePipes(fromUser'), ArePipes(toServer'), ArePipes(fromServer'), ArePipes(toUser'),
         \A k \in Clients :
           /\ \/ fromUser'[k] = fromUser[k] /\ toServer'[k] = toServer[k]
              \/ fromUser'[k] = <<>> /\ toServer'[k] = <<>>
              \/ /\ toServer'[k] = toServer[k]
                 /\ fromUser'[k] = fromUser[k] \o <<ExitLine(k)>>
           /\ toUser'[k] \in {toUser[k], <<>>}
           /\ fromServer'[k] \in {fromServer[k], <<>>}
  PROVE  Flow' /\ Simulates
<1>1. Flow'
  BY DEF Flow, ArePipes
<1>2. ASSUME NEW k \in Clients PROVE RP!Left(Pending(k), Pending(k)')
  BY SaidType, ClosedLoses DEF Pending
<1>3. ASSUME NEW k \in Clients PROVE RP!Left(Said(k), Said(k)')
  <2>1. CASE fromUser'[k] = fromUser[k] /\ toServer'[k] = toServer[k]
    BY <2>1, SameLoses DEF Said
  <2>2. CASE fromUser'[k] = <<>> /\ toServer'[k] = <<>>
    BY <2>2, SaidType, ClosedLoses DEF Said
  <2>3. CASE toServer'[k] = toServer[k] /\ fromUser'[k] = fromUser[k] \o <<ExitLine(k)>>
    <3>1. PICK a, b, e : a = toServer[k] /\ b = fromUser[k] /\ e = ExitLine(k)
      OBVIOUS
    <3>2. a \in Seq(Lines) /\ b \in Seq(Lines) /\ e \in Lines /\ e.n = 0
      BY <3>1, SaidType, ExitLineIs
    <3>3. Typed(a \o (b \o <<e>>)) = Typed(a \o b)
      BY <3>2, UntypedAdds
    <3>4. Said(k)' = Said(k)
      BY <2>3, <3>1, <3>3 DEF Said
    <3>5. QED
      BY <3>4, SameLoses
  <2>4. QED
    BY <2>1, <2>2, <2>3
<1>4. QED
  BY <1>1, <1>2, <1>3, LosesSimulates DEF Loses

LEMMA LeaveStep ==
  ASSUME Flow, NEW k \in Clients, TypeExit(k) \/ Die(k)
  PROVE  Flow' /\ Simulates
<1>1. /\ toUser' = [toUser EXCEPT ![k] = <<>>]
      /\ UNCHANGED <<toServer, fromServer, typed, shown>>
      /\ fromUser' \in {fromUser, [fromUser EXCEPT ![k] = Write(@, <<ExitLine(k)>>)]}
  BY DEF TypeExit, Die, Leave, Send
<1>2. /\ ArePipes(fromUser) /\ ArePipes(toServer) /\ ArePipes(fromServer) /\ ArePipes(toUser)
      /\ fromUser[k] \in Seq(Lines) /\ Len(fromUser[k]) <= PipeSize
  BY PipeAt DEF Flow
<1>3. PICK d : d = Write(fromUser[k], <<ExitLine(k)>>)
  OBVIOUS
<1>4. /\ d \in {fromUser[k], fromUser[k] \o <<ExitLine(k)>>}
      /\ d \in Seq(Lines) /\ Len(d) <= PipeSize
  <2>1. <<ExitLine(k)>> \in Seq(Lines)
    BY ExitLineIs
  <2>2. QED
    BY <1>2, <1>3, <2>1, WriteIs
<1>5. fromUser' \in {fromUser, [fromUser EXCEPT ![k] = d]}
  BY <1>1, <1>3
<1>6. ArePipes(fromUser')
  BY <1>2, <1>4, <1>5, SetPipe
<1>7. ArePipes(toUser')
  <2>1. <<>> \in Seq(Lines) /\ Len(<<>>) <= PipeSize
    BY ChatAssumption
  <2>2. QED
    BY <1>1, <1>2, <2>1, SetPipe
<1>8. ArePipes(toServer') /\ ArePipes(fromServer')
  BY <1>1, <1>2
<1>9. \A l \in Clients : /\ fromUser'[l] = fromUser[l] \/ (l = k /\ fromUser'[l] = d)
                         /\ toUser'[l] \in {toUser[l], <<>>}
  BY <1>1, <1>2, <1>5 DEF ArePipes
<1>10. ASSUME NEW l \in Clients
       PROVE  \/ fromUser'[l] = fromUser[l]
              \/ fromUser'[l] = fromUser[l] \o <<ExitLine(l)>>
  BY <1>4, <1>9, Zenon
<1>11. QED
  BY <1>1, <1>6, <1>7, <1>8, <1>9, <1>10, DropStep

LEMMA KickStep ==
  ASSUME Flow, NEW S, Kick(S)
  PROVE  Flow' /\ Simulates
<1>1. PICK K : K = {Of(s) : s \in S}
  OBVIOUS
<1>2. PICK all \in BOOLEAN : all <=> \E k \in K : conn[k] = "childless"
  OBVIOUS
<1>3. toUser' = IF all THEN [k \in Clients |-> <<>>] ELSE toUser
  BY <1>1, <1>2, Zenon DEF Kick
<1>4. /\ fromUser' = [k \in Clients |-> IF k \in K THEN <<>> ELSE fromUser[k]]
      /\ toServer' = [k \in Clients |-> IF k \in K THEN <<>> ELSE toServer[k]]
      /\ fromServer' = [k \in Clients |-> IF k \in K THEN <<>> ELSE fromServer[k]]
      /\ UNCHANGED <<typed, shown>>
  BY <1>1, Zenon DEF Kick
<1>5. ArePipes(fromUser) /\ ArePipes(toServer) /\ ArePipes(fromServer) /\ ArePipes(toUser)
  BY DEF Flow
<1>6. <<>> \in Seq(Lines) /\ Len(<<>>) <= PipeSize
  BY ChatAssumption
<1>7. ArePipes(fromUser') /\ ArePipes(toServer') /\ ArePipes(fromServer')
  BY <1>4, <1>5, <1>6 DEF ArePipes
<1>8. ArePipes(toUser')
  BY <1>3, <1>5, <1>6 DEF ArePipes
<1>9. \A k \in Clients :
        /\ \/ fromUser'[k] = fromUser[k] /\ toServer'[k] = toServer[k]
           \/ fromUser'[k] = <<>> /\ toServer'[k] = <<>>
        /\ toUser'[k] \in {toUser[k], <<>>}
        /\ fromServer'[k] \in {fromServer[k], <<>>}
  BY <1>3, <1>4
<1>10. QED
  BY <1>4, <1>7, <1>8, <1>9, DropStep

LEMMA TypeStep ==
  ASSUME Flow, NEW k \in Clients, NEW kind, NEW to \in Names \cup {NoName},
         Type(k, kind, to)
  PROVE  Flow' /\ Simulates
<1>1. /\ typed < MaxLines /\ typed' = typed + 1 /\ typed \in 0 .. MaxLines /\ MaxLines \in Nat
      /\ kind \in {"text", "list", "p2p"}
      /\ UNCHANGED <<toServer, fromServer, toUser, shown>>
  BY ChatAssumption DEF Type, Flow
<1>2. PICK e : e = [from |-> k, n |-> typed + 1, kind |-> kind, to |-> to]
  OBVIOUS
<1>3. e \in Lines /\ e.n > 0
  BY <1>1, <1>2 DEF Lines
<1>4. fromUser' \in {fromUser, [fromUser EXCEPT ![k] = Write(@, <<e>>)]}
  BY <1>1, <1>2 DEF Type, Send, Line
<1>5. /\ ArePipes(fromUser) /\ fromUser[k] \in Seq(Lines) /\ Len(fromUser[k]) <= PipeSize
      /\ toServer[k] \in Seq(Lines) /\ <<e>> \in Seq(Lines)
  BY <1>3, PipeAt DEF Flow
<1>6. PICK d : d = Write(fromUser[k], <<e>>)
  OBVIOUS
<1>7. /\ d \in {fromUser[k], fromUser[k] \o <<e>>}
      /\ d \in Seq(Lines) /\ Len(d) <= PipeSize
  BY <1>5, <1>6, WriteIs
<1>8. fromUser' \in {fromUser, [fromUser EXCEPT ![k] = d]}
  BY <1>4, <1>6
<1>9. Flow'
  <2>1. ArePipes(fromUser')
    BY <1>5, <1>7, <1>8, SetPipe
  <2>2. typed' \in 0 .. MaxLines
    BY <1>1
  <2>3. QED
    BY <1>1, <2>1, <2>2 DEF Flow, ArePipes
<1> DEFINE sd == [l \in Clients |-> Said(l)]
           pd == [l \in Clients |-> Pending(l)]
<1>10. Said(k)' \in {Said(k), Append(Said(k), e)}
  <2>1. PICK a, b, f : a = toServer[k] /\ b = fromUser[k] /\ f = <<e>>
    OBVIOUS
  <2>2. /\ a \in Seq(Lines) /\ b \in Seq(Lines) /\ f \in Seq(Lines) /\ Typed(f) = f
        /\ b \o f \in Seq(Lines)
    BY <1>3, <1>5, <2>1, TypedOne
  <2>3. PICK x, y : x = Typed(a) /\ y = Typed(b)
    OBVIOUS
  <2>4. x \in Seq(Lines) /\ y \in Seq(Lines) /\ x \o y \in Seq(Lines)
    BY <2>2, <2>3, TypedType
  <2>5. Typed(a \o (b \o f)) = x \o (y \o f) /\ Typed(a \o b) = x \o y
    <3>1. Typed(b \o f) = y \o f
      BY <2>2, <2>3, TypedConcat
    <3>2. PICK g : g = b \o f
      OBVIOUS
    <3>3. Typed(a \o g) = x \o Typed(g)
      BY <2>2, <2>3, <3>2, TypedConcat
    <3>4. Typed(a \o b) = x \o y
      BY <2>2, <2>3, TypedConcat
    <3>5. QED
      BY <3>1, <3>2, <3>3, <3>4, Zenon
  <2>6. x \o (y \o f) = (x \o y) \o f
    BY <2>2, <2>4, RP!ConcatAssociates
  <2>7. \A u \in Seq(Lines) : Append(u, e) = u \o f
    BY <1>3, <2>1
  <2>8. Append(x \o y, e) = (x \o y) \o f
    BY <2>4, <2>7, Zenon
  <2>9. fromUser'[k] \in {b, b \o f} /\ toServer'[k] = a
    BY <1>1, <1>5, <1>7, <1>8, <2>1 DEF ArePipes
  <2>10. CASE fromUser'[k] = b
    BY <2>1, <2>9, <2>10 DEF Said
  <2>11. CASE fromUser'[k] = b \o f
    <3>1. Said(k)' = Typed(a \o (b \o f)) /\ Said(k) = Typed(a \o b)
      BY <2>1, <2>9, <2>11, Zenon DEF Said
    <3>2. QED
      BY <2>5, <2>6, <2>8, <3>1, Zenon
  <2>12. QED
    BY <2>9, <2>10, <2>11
<1>11. \A l \in Clients : l # k => Said(l)' = Said(l)
  BY <1>1, <1>5, <1>8 DEF Said, ArePipes
<1>12. sd' \in {sd, [sd EXCEPT ![k] = Append(@, e)]}
  <2>1. PICK f : f = Append(Said(k), e)
    OBVIOUS
  <2>2. [sd EXCEPT ![k] = Append(@, e)] = [sd EXCEPT ![k] = f]
    BY <2>1
  <2>3. Said(k)' \in {Said(k), f}
    BY <1>10, <2>1
  <2>4. sd' \in {sd, [sd EXCEPT ![k] = f]}
    BY <1>11, <2>3
  <2>5. QED
    BY <2>2, <2>4
<1>13. pd' = pd
  BY <1>1 DEF Pending
<1>14. R!Say(k)
  BY <1>1, <1>2, <1>12, <1>13 DEF R!Say, Said, Pending
<1>15. QED
  BY <1>9, <1>14 DEF Simulates, R!Next

LEMMA ShowStep ==
  ASSUME Flow, NEW k \in Clients, Show(k)
  PROVE  Flow' /\ Simulates
<1> DEFINE a == toUser[k]
           b == fromServer[k]
<1>1. /\ ArePipes(toUser) /\ a \in Seq(Lines) /\ Len(a) <= PipeSize /\ b \in Seq(Lines)
      /\ shown \in [Clients -> Seq(Lines)]
  BY PipeAt DEF Flow
<1>2. PICK r, u : r = Read(a) /\ u = Unread(a)
  OBVIOUS
<1>3. r \in Seq(Lines) /\ u \in Seq(Lines) /\ r \o u = a /\ Len(u) <= PipeSize
  BY <1>1, <1>2, ReadIs
<1>4. PICK x, y, z : x = Typed(r) /\ y = Typed(u) /\ z = Typed(b)
  OBVIOUS
<1>5. x \in Seq(Lines) /\ y \in Seq(Lines) /\ z \in Seq(Lines) /\ y \o z \in Seq(Lines)
  BY <1>1, <1>3, <1>4, TypedType
<1>6. /\ shown' = [shown EXCEPT ![k] = @ \o x]
      /\ toUser' = [toUser EXCEPT ![k] = u]
      /\ UNCHANGED <<fromUser, toServer, fromServer, typed>>
  BY <1>2, <1>4 DEF Show
<1>7. Flow'
  <2>1. ArePipes(toUser')
    BY <1>1, <1>3, <1>6, SetPipe
  <2>2. shown' \in [Clients -> Seq(Lines)]
    BY <1>1, <1>5, <1>6
  <2>3. QED
    BY <1>6, <2>1, <2>2 DEF Flow, ArePipes
<1>8. Pending(k) = x \o (y \o z)
  <2>1. Typed(a) = x \o y
    BY <1>3, <1>4, TypedConcat
  <2>2. Pending(k) = Typed(a) \o z
    BY <1>1, <1>4, TypedConcat DEF Pending
  <2>3. x \o (y \o z) = (x \o y) \o z
    BY <1>5, RP!ConcatAssociates
  <2>4. QED
    BY <2>1, <2>2, <2>3, Zenon
<1>9. Pending(k)' = y \o z
  <2>1. toUser'[k] = u /\ fromServer'[k] = b
    BY <1>1, <1>6 DEF ArePipes
  <2>2. Pending(k)' = Typed(u \o b)
    BY <2>1, Zenon DEF Pending
  <2>3. QED
    BY <1>1, <1>3, <1>4, <2>2, TypedConcat
<1>10. \A l \in Clients : l # k => Pending(l)' = Pending(l)
  BY <1>1, <1>6 DEF Pending, ArePipes
<1> DEFINE sd == [l \in Clients |-> Said(l)]
           pd == [l \in Clients |-> Pending(l)]
<1>11. PICK p : p = Pending(k)
  OBVIOUS
<1>12. /\ Len(x) \in 0 .. Len(p) /\ R!First(p, Len(x)) = x
       /\ R!Rest(p, Len(x)) = Pending(k)'
  <2>1. PICK w : w = y \o z
    OBVIOUS
  <2>2. w \in Seq(Lines) /\ p = x \o w
    BY <1>5, <1>8, <1>11, <2>1
  <2>3. Len(x) \in 0 .. Len(p) /\ RP!First(p, Len(x)) = x /\ RP!Rest(p, Len(x)) = w
    BY <1>5, <2>2, FirstOf
  <2>4. QED
    BY <1>9, <2>1, <2>3 DEF RP!First, R!First, RP!Rest, R!Rest
<1>13. pd[k] = p /\ pd' = [pd EXCEPT ![k] = R!Rest(@, Len(x))]
  BY <1>10, <1>11, <1>12
<1>14. sd' = sd
  BY <1>6 DEF Said
<1>15. shown' = [shown EXCEPT ![k] = @ \o R!First(pd[k], Len(x))]
  BY <1>6, <1>12, <1>13, Zenon
<1>16. Len(x) \in 0 .. Len(pd[k])
  BY <1>12, <1>13
<1>17. R!Show(k)
  BY <1>6, <1>13, <1>14, <1>15, <1>16, Zenon DEF R!Show, Said, Pending
<1>18. QED
  BY <1>7, <1>17 DEF Simulates, R!Next

-----------------------------------------------------------------------------
(* What the server reads and sends on. *)

LEMMA AddsToPending ==
  ASSUME Flow, NEW k \in Clients, NEW c \in Seq(Lines),
         toUser' = toUser, fromServer'[k] = fromServer[k] \o c
  PROVE  Pending(k)' = Pending(k) \o Typed(c)
<1>1. PICK a, b : a = toUser[k] /\ b = fromServer[k]
  OBVIOUS
<1>2. a \in Seq(Lines) /\ b \in Seq(Lines)
  BY <1>1, SaidType
<1>3. PICK g : g = b \o c
  OBVIOUS
<1>4. PICK x, y, z : x = Typed(a) /\ y = Typed(b) /\ z = Typed(c)
  OBVIOUS
<1>5. x \in Seq(Lines) /\ y \in Seq(Lines) /\ z \in Seq(Lines) /\ g \in Seq(Lines)
  BY <1>2, <1>3, <1>4, TypedType
<1>6. Typed(g) = y \o z
  BY <1>2, <1>3, <1>4, TypedConcat
<1>7. Typed(a \o g) = x \o Typed(g)
  BY <1>2, <1>4, <1>5, TypedConcat
<1>8. Typed(a \o b) = x \o y
  BY <1>2, <1>4, TypedConcat
<1>9. x \o (y \o z) = (x \o y) \o z
  BY <1>5, RP!ConcatAssociates
<1>10. Pending(k)' = Typed(a \o g) /\ Pending(k) = Typed(a \o b)
  BY <1>1, <1>3, Zenon DEF Pending
<1>11. QED
  BY <1>4, <1>6, <1>7, <1>8, <1>9, <1>10, Zenon

LEMMA DeliverStep ==
  ASSUME Flow, NEW j \in Clients, NEW K \in SUBSET (Clients \ {j}),
         UNCHANGED <<typed, shown, fromUser, toUser>>, ArePipes(fromServer'),
         toServer' = [toServer EXCEPT ![j] = Unread(@)],
         \A k \in Clients :
           Pending(k)' = IF k \in K THEN Pending(k) \o Typed(Read(toServer[j]))
                                    ELSE Pending(k)
  PROVE  Flow' /\ Simulates
<1> DEFINE a == toServer[j]
           b == fromUser[j]
<1>1. /\ ArePipes(toServer) /\ a \in Seq(Lines) /\ Len(a) <= PipeSize /\ b \in Seq(Lines)
  BY PipeAt DEF Flow
<1>2. PICK r, u : r = Read(a) /\ u = Unread(a)
  OBVIOUS
<1>3. r \in Seq(Lines) /\ u \in Seq(Lines) /\ r \o u = a /\ Len(u) <= PipeSize
  BY <1>1, <1>2, ReadIs
<1>4. PICK x, y, z : x = Typed(r) /\ y = Typed(u) /\ z = Typed(b)
  OBVIOUS
<1>5. x \in Seq(Lines) /\ y \in Seq(Lines) /\ z \in Seq(Lines) /\ y \o z \in Seq(Lines)
  BY <1>1, <1>3, <1>4, TypedType
<1>6. toServer' = [toServer EXCEPT ![j] = u]
  BY <1>2
<1>7. Flow'
  <2>1. ArePipes(toServer')
    <3>1. u \in Seq(Lines) /\ Len(u) <= PipeSize
      BY <1>3
    <3>2. ArePipes([toServer EXCEPT ![j] = u])
      BY <1>1, <3>1, SetPipe
    <3>3. QED
      BY <1>6, <3>2
  <2>2. QED
    BY <2>1 DEF Flow, ArePipes
<1>8. Said(j) = x \o (y \o z)
  <2>1. Typed(a) = x \o y
    BY <1>3, <1>4, TypedConcat
  <2>2. Said(j) = Typed(a) \o z
    BY <1>1, <1>4, TypedConcat DEF Said
  <2>3. x \o (y \o z) = (x \o y) \o z
    BY <1>5, RP!ConcatAssociates
  <2>4. QED
    BY <2>1, <2>2, <2>3, Zenon
<1>9. Said(j)' = y \o z
  <2>1. toServer'[j] = u /\ fromUser'[j] = b
    BY <1>1, <1>6 DEF ArePipes
  <2>2. Said(j)' = Typed(u \o b)
    BY <2>1, Zenon DEF Said
  <2>3. QED
    BY <1>1, <1>3, <1>4, <2>2, TypedConcat
<1>10. \A l \in Clients : l # j => Said(l)' = Said(l)
  BY <1>1, <1>6 DEF Said, ArePipes
<1> DEFINE sd == [l \in Clients |-> Said(l)]
           pd == [l \in Clients |-> Pending(l)]
<1>11. PICK s : s = Said(j)
  OBVIOUS
<1>12. /\ Len(x) \in 0 .. Len(s) /\ R!First(s, Len(x)) = x
       /\ R!Rest(s, Len(x)) = Said(j)'
  <2>1. PICK w : w = y \o z
    OBVIOUS
  <2>2. w \in Seq(Lines) /\ s = x \o w
    BY <1>5, <1>8, <1>11, <2>1
  <2>3. Len(x) \in 0 .. Len(s) /\ RP!First(s, Len(x)) = x /\ RP!Rest(s, Len(x)) = w
    BY <1>5, <2>2, FirstOf
  <2>4. QED
    BY <1>9, <2>1, <2>3 DEF RP!First, R!First, RP!Rest, R!Rest
<1>13. sd[j] = s /\ sd' = [sd EXCEPT ![j] = R!Rest(@, Len(x))]
  BY <1>10, <1>11, <1>12
<1>14. pd' = [l \in Clients |->
                IF l \in K THEN pd[l] \o R!First(sd[j], Len(x)) ELSE pd[l]]
  <2>1. R!First(sd[j], Len(x)) = Typed(Read(toServer[j]))
    BY <1>2, <1>4, <1>12, <1>13
  <2>2. \A l \in Clients : pd[l] = Pending(l)
    OBVIOUS
  <2>3. [l \in Clients |-> Pending(l)'] =
          [l \in Clients |-> IF l \in K THEN pd[l] \o R!First(sd[j], Len(x)) ELSE pd[l]]
    BY <2>1, <2>2, Zenon
  <2>4. pd' = [l \in Clients |-> Pending(l)']
    OBVIOUS
  <2>5. QED
    BY <2>3, <2>4, Zenon
<1>15. Len(x) \in 0 .. Len(sd[j])
  BY <1>12, <1>13
<1>16. R!Deliver(j)
  BY <1>13, <1>14, <1>15, Zenon DEF R!Deliver, Said, Pending
<1>17. QED
  BY <1>7, <1>16 DEF Simulates, R!Next

(* The server writes c to the users K. *)
Sends(K, c) ==
  /\ ArePipes(fromServer')
  /\ \A k \in Clients :
       fromServer'[k] = IF k \in K THEN fromServer[k] \o c ELSE fromServer[k]

LEMMA FitsIs ==
  ASSUME Flow, IInv, NEW c \in Seq(Lines), NEW s \in Full, Accepts(s, c)
  PROVE  /\ Of(s) \in Clients
         /\ fromServer[Of(s)] \o c \in Seq(Lines)
         /\ Len(fromServer[Of(s)] \o c) <= PipeSize
<1>1. Of(s) \in Clients
  BY ListIs DEF IInv
<1>2. PICK p : p = fromServer[Of(s)]
  OBVIOUS
<1>3. p \in Seq(Lines) /\ Len(p) <= PipeSize /\ Fits(p, c)
  BY <1>1, <1>2, PipeAt DEF Flow, Accepts
<1>4. p \o c \in Seq(Lines) /\ Len(p \o c) <= PipeSize
  BY <1>3, WriteIs
<1>5. QED
  BY <1>1, <1>2, <1>4

LEMMA BroadcastSends ==
  ASSUME Flow, IInv, NEW c \in Seq(Lines), NEW S, S \subseteq Full, Broadcast(c, S)
  PROVE  Sends({Of(s) : s \in Reached(c, S)}, c)
<1> DEFINE K == {Of(s) : s \in Reached(c, S)}
<1>1. fromServer' = [k \in Clients |-> IF k \in K THEN fromServer[k] \o c ELSE fromServer[k]]
  <2>1. \A k : (\E s \in Reached(c, S) : Of(s) = k) <=> k \in K
    OBVIOUS
  <2>2. QED
    BY <2>1, Zenon DEF Broadcast
<1>2. ASSUME NEW k \in K
      PROVE  fromServer[k] \o c \in Seq(Lines) /\ Len(fromServer[k] \o c) <= PipeSize
  <2>1. PICK s \in Reached(c, S) : k = Of(s)
    OBVIOUS
  <2>2. s \in Full
    BY DEF Reached
  <2>3. Accepts(s, c)
    <3>1. s \in S /\ s <= s
      BY <2>2, ListIs DEF Reached, IInv, Slots
    <3>2. QED
      BY <3>1 DEF Reached
  <2>4. QED
    BY <2>1, <2>2, <2>3, FitsIs
<1>3. ASSUME NEW k \in Clients
      PROVE  fromServer'[k] \in Seq(Lines) /\ Len(fromServer'[k]) <= PipeSize
  BY <1>1, <1>2, <1>3, SaidType, PipeAt DEF Flow
<1>4. ArePipes(fromServer')
  <2>1. fromServer' = [k \in Clients |-> fromServer'[k]]
    BY <1>1
  <2>2. QED
    BY <1>3, <2>1 DEF ArePipes
<1>5. QED
  BY <1>1, <1>4 DEF Sends

LEMMA WriteToSends ==
  ASSUME Flow, IInv, NEW c \in Seq(Lines), NEW s \in Full, WriteTo(s, c)
  PROVE  \E K \in SUBSET {Of(s)} : Sends(K, c)
<1>1. ArePipes(fromServer)
  BY DEF Flow
<1>2. CASE Accepts(s, c)
  <2>1. PICK k, p : k = Of(s) /\ p = fromServer[k] \o c
    OBVIOUS
  <2>2. k \in Clients /\ p \in Seq(Lines) /\ Len(p) <= PipeSize
    BY <1>2, <2>1, FitsIs
  <2>3. fromServer' = [fromServer EXCEPT ![k] = p]
    BY <1>2, <2>1 DEF WriteTo
  <2>4. ArePipes(fromServer')
    BY <1>1, <2>2, <2>3, SetPipe
  <2>5. \A l \in Clients : fromServer'[l] = IF l = k THEN p ELSE fromServer[l]
    BY <1>1, <2>2, <2>3 DEF ArePipes
  <2>6. Sends({k}, c)
    BY <2>1, <2>4, <2>5 DEF Sends
  <2>7. QED
    BY <2>1, <2>6
<1>3. CASE ~Accepts(s, c)
  <2>1. fromServer' = fromServer
    BY <1>3 DEF WriteTo
  <2>2. Sends({}, c)
    BY <1>1, <2>1 DEF Sends
  <2>3. QED
    BY <2>2
<1>4. QED
  BY <1>2, <1>3

LEMMA UntypedPending ==
  ASSUME Flow, NEW e \in Lines, e.n = 0, NEW K, Sends(K, <<e>>), toUser' = toUser,
         NEW k \in Clients
  PROVE  Pending(k)' = Pending(k)
<1>1. CASE k \in K
  <2>1. PICK a, b : a = toUser[k] /\ b = fromServer[k]
    OBVIOUS
  <2>2. a \in Seq(Lines) /\ b \in Seq(Lines)
    BY <2>1, SaidType
  <2>3. Typed(a \o (b \o <<e>>)) = Typed(a \o b)
    BY <2>2, UntypedAdds
  <2>4. fromServer'[k] = b \o <<e>>
    BY <1>1, <2>1 DEF Sends
  <2>5. QED
    BY <2>1, <2>3, <2>4 DEF Pending
<1>2. CASE k \notin K
  BY <1>2 DEF Sends, Pending
<1>3. QED
  BY <1>1, <1>2

(* A notice to users is nothing to ChatRoom. *)
LEMMA NoticeStep ==
  ASSUME Flow, IInv, NEW S, S \subseteq Full, Broadcast(<<Notice>>, S),
         UNCHANGED <<fromUser, toServer, toUser, typed, shown>>
  PROVE  Flow' /\ Simulates
<1>1. PICK e : e = Notice
  OBVIOUS
<1>2. e \in Lines /\ e.n = 0 /\ <<e>> \in Seq(Lines)
  BY <1>1, MadeUpIs
<1>3. PICK K : Sends(K, <<e>>)
  BY <1>1, <1>2, BroadcastSends
<1>4. \A k \in Clients : Pending(k)' = Pending(k)
  BY <1>2, <1>3, UntypedPending
<1>5. \A k \in Clients : Said(k)' = Said(k)
  BY DEF Said
<1>6. Flow'
  BY <1>3 DEF Flow, ArePipes, Sends
<1>7. Loses
  BY <1>4, <1>5, SameLoses DEF Loses
<1>8. QED
  BY <1>6, <1>7, LosesSimulates

LEMMA PollIs ==
  ASSUME Flow, IInv, NEW type, PollUser(type), Consume
  PROVE  /\ ~Over /\ i \in Full /\ Of(i) \in Clients
         /\ Input = Read(toServer[Of(i)]) /\ Input \in Seq(Lines)
         /\ toServer' = [toServer EXCEPT ![Of(i)] = Unread(@)]
         /\ UNCHANGED <<typed, shown, fromUser, toUser>>
<1>1. ~Over /\ i \in Full
  BY DEF PollUser, Over
<1>2. Of(i) \in Clients
  BY <1>1, ListIs DEF IInv
<1>3. Input = Read(toServer[Of(i)]) /\ Input \in Seq(Lines)
  BY <1>2, PipeAt, ReadIs DEF Input, Flow
<1>4. QED
  BY <1>1, <1>2, <1>3 DEF Consume

(* The lines read are for nobody, or for users other than their author. *)
LEMMA SendsStep ==
  ASSUME Flow, IInv, NEW type, PollUser(type), Consume,
         NEW K, K \subseteq {Of(s) : s \in Full \ {i}},
         \/ Sends(K, Input)
         \/ K = {} /\ \A k \in Clients : Pending(k)' = Pending(k),
         ArePipes(fromServer')
  PROVE  Flow' /\ Simulates
<1>1. PICK j : j = Of(i)
  OBVIOUS
<1>2. /\ ~Over /\ i \in Full /\ j \in Clients /\ Input = Read(toServer[j])
      /\ Input \in Seq(Lines)
      /\ toServer' = [toServer EXCEPT ![j] = Unread(@)]
      /\ UNCHANGED <<typed, shown, fromUser, toUser>>
  BY <1>1, PollIs
<1>3. K \in SUBSET (Clients \ {j})
  <2>1. \A s \in Full \ {i} : Of(s) \in Clients /\ Of(s) # j
    BY <1>1, <1>2, ListIs DEF IInv, RosterAgrees
  <2>2. QED
    BY <2>1
<1>4. ASSUME NEW k \in Clients
      PROVE  Pending(k)' = IF k \in K THEN Pending(k) \o Typed(Read(toServer[j]))
                                      ELSE Pending(k)
  <2>1. CASE K = {} /\ Pending(k)' = Pending(k)
    BY <2>1
  <2>2. CASE Sends(K, Input)
    <3>1. CASE k \in K
      <4>1. fromServer'[k] = fromServer[k] \o Input
        BY <2>2, <3>1 DEF Sends
      <4>2. Pending(k)' = Pending(k) \o Typed(Input)
        BY <1>2, <4>1, AddsToPending
      <4>3. QED
        BY <1>2, <3>1, <4>2
    <3>2. CASE k \notin K
      BY <1>2, <2>2, <3>2 DEF Sends, Pending
    <3>3. QED
      BY <3>1, <3>2
  <2>3. QED
    BY <2>1, <2>2
<1>5. QED
  BY <1>2, <1>3, <1>4, DeliverStep

LEMMA PollBroadcastStep ==
  ASSUME Flow, IInv, PollBroadcast
  PROVE  Flow' /\ Simulates
<1>1. PollUser("broadcast") /\ Consume /\ Broadcast(Input, Full \ {i})
  BY DEF PollBroadcast
<1>2. Input \in Seq(Lines)
  BY <1>1, PollIs
<1>3. PICK K : K = {Of(s) : s \in Reached(Input, Full \ {i})}
  OBVIOUS
<1>4. Sends(K, Input)
  BY <1>1, <1>2, <1>3, BroadcastSends
<1>5. K \subseteq {Of(s) : s \in Full \ {i}} /\ ArePipes(fromServer')
  BY <1>3, <1>4 DEF Reached, Sends
<1>6. QED
  BY <1>1, <1>4, <1>5, SendsStep

LEMMA ReplyStep ==
  ASSUME Flow, IInv, NEW type, PollUser(type), Consume, WriteTo(i, <<Reply>>)
  PROVE  Flow' /\ Simulates
<1>1. PICK e : e = Reply
  OBVIOUS
<1>2. e \in Lines /\ e.n = 0 /\ <<e>> \in Seq(Lines)
  BY <1>1, MadeUpIs
<1>3. i \in Full /\ toUser' = toUser
  BY PollIs
<1>4. PICK K : Sends(K, <<e>>)
  BY <1>1, <1>2, <1>3, WriteToSends
<1>5. \A k \in Clients : Pending(k)' = Pending(k)
  BY <1>2, <1>3, <1>4, UntypedPending
<1>6. ArePipes(fromServer')
  BY <1>4 DEF Sends
<1>7. PICK E : E = {}
  OBVIOUS
<1>8. E \subseteq {Of(s) : s \in Full \ {i}}
  BY <1>7
<1>9. QED
  BY <1>5, <1>6, <1>7, <1>8, SendsStep

LEMMA PollP2pStep ==
  ASSUME Flow, IInv, PollP2p
  PROVE  Flow' /\ Simulates
<1>1. PollUser("p2p") /\ Consume
  BY DEF PollP2p
<1>2. \/ \E s \in Full \ {i} : WriteTo(s, Input)
      \/ WriteTo(i, <<Reply>>)
  BY DEF PollP2p, MayGoTo, Index
<1>3. ASSUME NEW s \in Full \ {i}, WriteTo(s, Input) PROVE Flow' /\ Simulates
  <2>1. Input \in Seq(Lines)
    BY <1>1, PollIs
  <2>2. PICK K \in SUBSET {Of(s)} : Sends(K, Input)
    BY <1>3, <2>1, WriteToSends
  <2>3. K \subseteq {Of(r) : r \in Full \ {i}} /\ ArePipes(fromServer')
    BY <2>2 DEF Sends
  <2>4. QED
    BY <1>1, <2>2, <2>3, SendsStep
<1>4. QED
  BY <1>1, <1>2, <1>3, ReplyStep

LEMMA ServerFlow ==
  ASSUME Flow, IInv, Server
  PROVE  Flow' /\ Simulates
<1>1. CASE UNCHANGED <<pipes, typed, shown>>
  BY <1>1, QuietSimulates
<1>2. ASSUME NEW k \in Clients,
             AwaitName(k) \/ CallLost(k) \/ Reject(k) \/ Join(k) \/ ForkFails(k)
      PROVE  UNCHANGED <<pipes, typed, shown>>
  BY <1>2 DEF AwaitName, CallLost, Reject, Join, ForkFails, Accept
<1>3. CASE AcceptNobody \/ AdminSilent \/ AdminEmpty \/ AdminList \/ PollNothing \/ PollDead
  BY <1>1, <1>3 DEF AcceptNobody, AdminSilent, AdminEmpty, AdminList, PollNothing, PollDead
<1>4. CASE AdminNotice
  <2>1. /\ Broadcast(<<Notice>>, Full)
        /\ UNCHANGED <<fromUser, toServer, toUser, typed, shown>>
    BY <1>4 DEF AdminNotice
  <2>2. QED
    BY <2>1, NoticeStep
<1>5. CASE PollLeftover
  <2>1. /\ Broadcast(<<Notice>>, Full \ {i}) /\ Full \ {i} \subseteq Full
        /\ UNCHANGED <<fromUser, toServer, toUser, typed, shown>>
    BY <1>5 DEF PollLeftover
  <2>2. QED
    BY <2>1, NoticeStep
<1>6. CASE AdminExit \/ PollExit \/ \E id \in Names : AdminKick(id)
  <2>1. \E S : Kick(S)
    BY <1>6 DEF AdminExit, PollExit, AdminKick
  <2>2. QED
    BY <2>1, KickStep
<1>7. CASE PollList
  BY <1>7, ReplyStep DEF PollList
<1>8. QED
  BY <1>1, <1>2, <1>3, <1>4, <1>5, <1>6, <1>7, PollP2pStep, PollBroadcastStep DEF Server

LEMMA FlowStep ==
  ASSUME Flow, IInv, [Next]_vars
  PROVE  Flow' /\ Simulates
<1>1. CASE UNCHANGED <<pipes, typed, shown>>
  BY <1>1, QuietSimulates
<1>2. CASE Crash \/ Interrupt \/ UNCHANGED vars
  BY <1>1, <1>2 DEF Crash, Interrupt, vars
<1>3. ASSUME NEW k \in Clients, Child(k) PROVE Flow' /\ Simulates
  BY <1>3, RelayToServerStep, RelayToUserStep DEF Child
<1>4. ASSUME NEW k \in Clients,
             Refused(k) \/ EndOfFile(k) \/ Dial(k) \/ SayName(k) \/ ChildDies(k)
      PROVE  Flow' /\ Simulates
  BY <1>1, <1>4 DEF Refused, EndOfFile, Dial, SayName, ChildDies
<1>5. ASSUME NEW k \in Clients, NEW kind, NEW to \in Names \cup {NoName}, Type(k, kind, to)
      PROVE  Flow' /\ Simulates
  BY <1>5, TypeStep
<1>6. ASSUME NEW k \in Clients, Person(k) PROVE Flow' /\ Simulates
  <2>1. CASE \E kind \in {"text", "list"} : Type(k, kind, NoName)
    BY <1>5, <2>1
  <2>2. CASE \E to \in Names \cup {NoName} : Type(k, "p2p", to)
    BY <1>5, <2>2
  <2>3. QED
    BY <1>4, <1>6, <2>1, <2>2, LeaveStep DEF Person
<1>7. QED
  BY <1>2, <1>3, <1>4, <1>6, ShowStep, ServerFlow DEF Next, Client

-----------------------------------------------------------------------------
(* The invariant of the proofs: the user list and the processes agree, the *)
(* server and the children are somewhere in their loops, and pipes hold    *)
(* lines, no more than fit, with the numbers that have been given out.     *)
THEOREM FlowInvariant == Spec => [](IInv /\ Loops /\ Flow)
<1>1. Init => IInv /\ Loops /\ Flow
  BY InitIInv, LoopsInit, FlowInit
<1>2. IInv /\ Loops /\ Flow /\ [Next]_vars => (IInv /\ Loops /\ Flow)'
  BY RosterStep, LoopsStep, FlowStep
<1>3. QED
  BY <1>1, <1>2, PTL DEF Spec

(* Nothing ever overflows a pipe, the slot polled is always one of the user *)
(* list, and all variables have their types (server.c:474-516, comm.c).     *)
THEOREM TypeCorrect == Spec => []TypeOK
<1>1. IInv /\ Loops /\ Flow => TypeOK
  BY DEF IInv, RosterType, Member, Users, Loops, Flow, TypeOK
<1>2. QED
  BY FlowInvariant, <1>1, PTL

(* Each step of the server, of a child, a client or a fault types, sends on, *)
(* shows or loses lines as ChatRoom does, or does nothing to them            *)
(* (server.c:100-162, 474-538, client.c:56-101).                             *)
THEOREM ImplementsRoom == Spec => Refinement
<1>1. Init => R!Init
  <2>1. SUFFICES ASSUME Init PROVE R!Init
    OBVIOUS
  <2>2. /\ typed = 0 /\ shown = [k \in Clients |-> <<>>]
        /\ \A k \in Clients : /\ toServer[k] = <<>> /\ fromUser[k] = <<>>
                             /\ toUser[k] = <<>> /\ fromServer[k] = <<>>
    BY <2>1 DEF Init
  <2>3. <<>> \o <<>> = <<>>
    OBVIOUS
  <2>4. \A k \in Clients : /\ Typed(toServer[k] \o fromUser[k]) = <<>>
                           /\ Typed(toUser[k] \o fromServer[k]) = <<>>
    BY <2>2, <2>3, TypedNothing, Zenon
  <2>5. QED
    BY <2>2, <2>4, Zenon DEF R!Init
<1>2. IInv /\ Loops /\ Flow /\ [Next]_vars => [R!Next]_(R!vars)
  BY FlowStep DEF Simulates
<1>3. QED
  BY <1>1, <1>2, FlowInvariant, PTL DEF Spec, R!Spec, Refinement

(* Chat's R and RP have the same values. *)
LEMMA RoomIsRoom == R!Spec => RP!Spec
<1>1. R!Init => RP!Init
  BY DEF R!Init, RP!Init
<1>2. [R!Next]_(R!vars) => [RP!Next]_(RP!vars)
  BY DEF R!Next, RP!Next, R!Say, RP!Say, R!Deliver, RP!Deliver, R!Show, RP!Show,
         R!Lose, RP!Lose, R!Left, RP!Left, R!First, RP!First, R!Rest, RP!Rest,
         R!vars, RP!vars
<1>3. QED
  BY <1>1, <1>2, PTL DEF R!Spec, RP!Spec

(* Nobody is shown a line twice, or two lines of one user in the wrong      *)
(* order, however pipes fill and processes end (server.c:476-513, 523-537). *)
THEOREM ShownOnceInOrder == Spec => []EachOnceInOrder
<1>1. RP!EachOnceInOrder => EachOnceInOrder
  BY DEF EachOnceInOrder, R!EachOnceInOrder, RP!EachOnceInOrder, R!Heard, RP!Heard
<1>2. QED
  BY ImplementsRoom, RoomIsRoom, RP!LinesInOrder, <1>1, PTL DEF Refinement

(* Two users see the lines that both see in the same order                 *)
(* (server.c:148-162, 474-516).                                            *)
THEOREM ShownInOneOrder == Spec => []SameOrderForAll
<1>1. RP!SameOrderForAll => SameOrderForAll
  BY DEF SameOrderForAll, R!SameOrderForAll, RP!SameOrderForAll, R!Heard, RP!Heard
<1>2. QED
  BY ImplementsRoom, RoomIsRoom, RP!SameOrder, <1>1, PTL DEF Refinement

-----------------------------------------------------------------------------
(* The room that everybody has joined (JoinedSpec).  No step loses a line  *)
(* that the server has sent, as a user is sent at most one line for each   *)
(* that has been typed.                                                    *)

(* Nobody joins or leaves. *)
Joined ==
  /\ \A k \in Clients : client[k] = "chatting" /\ child[k] /\ conn[k] = "accepted"
  /\ server \in {"connect", "admin", "poll"} /\ caller = NoUser
  /\ Full = Slots

(* All that reaches the server are typed lines, under their author's name. *)
Own(k) == {x \in Lines : x.from = k /\ x.n > 0}
Upstream ==
  \A k \in Clients : toServer[k] \in Seq(Own(k)) /\ fromUser[k] \in Seq(Own(k))

(* The places of the lines that the server has yet to read. *)
Unheard(k) == Len(toServer[k]) + Len(fromUser[k])
Pool == {z \in Clients \X (1 .. 2 * PipeSize) : z[2] <= Unheard(z[1])}

(* Each line that a user is being sent goes back to a line of its own that *)
(* the server has read.                                                    *)
Roomy ==
  \A k \in Clients :
    Len(fromServer[k]) + Len(toUser[k]) + Cardinality(Pool) <= typed

(* What a user has been or is being sent, as R!Heard has it. *)
Hears(k) == shown[k] \o Pending(k)

(* A text that one user hears is heard by all but its author, or its       *)
(* author has typed a private line before it.                              *)
Reaches ==
  \A k \in Clients, s \in Slots : \A p \in 1 .. Len(Hears(k)) :
    Hears(k)[p].kind = "text" /\ Hears(k)[p].from # Of(s) =>
      \/ \E q \in 1 .. Len(Hears(Of(s))) : Hears(Of(s))[q] = Hears(k)[p]
      \/ \E q \in 1 .. p - 1 : /\ Hears(k)[q].kind = "p2p"
                               /\ Hears(k)[q].from = Hears(k)[p].from

(* The pipes hold all that users type. *)
RoomForAll == PipeSize >= MaxLines

JInv == RoomForAll /\ IInv /\ Loops /\ Flow /\ Joined /\ Upstream /\ Roomy /\ Reaches

LEMMA TypedAll ==
  ASSUME NEW S, NEW c \in Seq(S), \A m \in 1 .. Len(c) : c[m].n > 0
  PROVE  Typed(c) = c
<1>1. PICK F : Counts(F, c, Len(c)) /\ Typed(c) = F[Len(c)]
  BY TypedIs
<1>2. Len(c) \in Nat
  OBVIOUS
<1> DEFINE T == {j \in 0 .. Len(c) : F[j] # SubSeq(c, 1, j)}
<1>3. SUFFICES ASSUME T # {} PROVE FALSE
  <2>1. SubSeq(c, 1, Len(c)) = c /\ Len(c) \in 0 .. Len(c)
    BY <1>2
  <2>2. ASSUME T = {} PROVE F[Len(c)] = SubSeq(c, 1, Len(c))
    BY <2>1, <2>2
  <2>3. QED
    BY <1>1, <2>1, <2>2
<1>4. PICK j \in T : \A h \in T : j <= h
  <2>1. T \in SUBSET Nat
    OBVIOUS
  <2>2. QED
    BY <1>3, <2>1, Least
<1>5. j # 0
  <2>1. F[0] = <<>> /\ SubSeq(c, 1, 0) = <<>>
    BY <1>1, <1>2, CountsAt
  <2>2. QED
    BY <1>4, <2>1
<1>6. j \in 1 .. Len(c) /\ j - 1 \in 0 .. Len(c) /\ j - 1 \notin T
  BY <1>4, <1>5
<1>7. F[j - 1] = SubSeq(c, 1, j - 1)
  BY <1>6
<1>8. F[j] = IF c[j].n > 0 THEN Append(F[j - 1], c[j]) ELSE F[j - 1]
  BY <1>1, <1>2, <1>6, CountsAt
<1>9. SubSeq(c, 1, j) = Append(SubSeq(c, 1, j - 1), c[j])
  <2> HIDE DEF T
  <2>1. QED
    BY <1>6
<1>10. c[j].n > 0
  BY <1>6
<1>11. F[j] = SubSeq(c, 1, j)
  BY <1>7, <1>8, <1>9, <1>10, Zenon
<1>12. QED
  BY <1>4, <1>11

UnheardFits == \A k \in Clients : Unheard(k) \in 0 .. 2 * PipeSize

LEMMA UnheardIs == Flow => UnheardFits
<1> SUFFICES ASSUME Flow, NEW k \in Clients PROVE Unheard(k) \in 0 .. 2 * PipeSize
  BY DEF UnheardFits
<1>1. PICK a, b : a = toServer[k] /\ b = fromUser[k]
  OBVIOUS
<1>2. a \in Seq(Lines) /\ b \in Seq(Lines) /\ Len(a) <= PipeSize /\ Len(b) <= PipeSize
  BY <1>1, PipeAt DEF Flow
<1>3. PICK x, y : x = Len(a) /\ y = Len(b)
  OBVIOUS
<1>4. x \in Nat /\ y \in Nat /\ x <= PipeSize /\ y <= PipeSize /\ PipeSize \in Nat
  BY <1>2, <1>3, ChatAssumption
<1>5. Unheard(k) = x + y
  BY <1>1, <1>3 DEF Unheard
<1>6. QED
  BY <1>4, <1>5

LEMMA PoolFinite == IsFiniteSet(Pool) /\ Cardinality(Pool) \in Nat
<1>1. IsFiniteSet(Clients) /\ IsFiniteSet(1 .. 2 * PipeSize)
  BY FS_Interval, ChatAssumption
<1>2. IsFiniteSet(Clients \X (1 .. 2 * PipeSize))
  BY <1>1, FS_Product
<1>3. Pool \in SUBSET (Clients \X (1 .. 2 * PipeSize))
  BY DEF Pool
<1>4. IsFiniteSet(Pool)
  BY <1>2, <1>3, FS_Subset
<1>5. QED
  BY <1>4, FS_CardinalityType

(* The server reads c lines of k, or some are lost. *)
LEMMA PoolDrains ==
  ASSUME Flow, Flow', NEW k \in Clients, NEW c \in Nat,
         Unheard(k)' + c <= Unheard(k),
         \A l \in Clients \ {k} : Unheard(l)' = Unheard(l)
  PROVE  Cardinality(Pool)' + c <= Cardinality(Pool)
<1>1. PICK m, n : m = Unheard(k)' /\ n = Unheard(k)
  OBVIOUS
<1>2. m \in 0 .. 2 * PipeSize /\ n \in 0 .. 2 * PipeSize /\ m + c <= n
  <2>1. Unheard(k)' \in 0 .. 2 * PipeSize
    <3>1. UnheardFits'
      BY UnheardIs, PTL
    <3>2. QED
      BY <3>1 DEF UnheardFits
  <2>2. QED
    BY <1>1, <2>1, UnheardIs DEF UnheardFits
<1>3. PICK P, Q : P = Pool' /\ Q = Pool
  OBVIOUS
<1>4. PICK D : D = {k} \X (m + 1 .. m + c)
  OBVIOUS
<1>5. /\ IsFiniteSet(P) /\ Cardinality(P) \in Nat
      /\ IsFiniteSet(Q) /\ Cardinality(Q) \in Nat
  <2>1. (IsFiniteSet(Pool) /\ Cardinality(Pool) \in Nat)'
    BY PoolFinite, PTL
  <2>2. QED
    BY <1>3, <2>1, PoolFinite
<1>6. IsFiniteSet(D) /\ Cardinality(D) = c
  <2>1. IsFiniteSet({k}) /\ Cardinality({k}) = 1
    BY FS_Singleton
  <2>2. IsFiniteSet(m + 1 .. m + c) /\ Cardinality(m + 1 .. m + c) = c
    <3>1. m + 1 \in Int /\ m + c \in Int
      BY <1>2
    <3>2. /\ IsFiniteSet(m + 1 .. m + c)
          /\ Cardinality(m + 1 .. m + c) = IF m + 1 > m + c THEN 0 ELSE (m + c) - (m + 1) + 1
      BY <3>1, FS_Interval
    <3>3. QED
      BY <1>2, <3>2
  <2>3. PICK A, B : A = {k} /\ B = m + 1 .. m + c
    OBVIOUS
  <2>4. IsFiniteSet(A \X B) /\ Cardinality(A \X B) = Cardinality(A) * Cardinality(B)
    BY <2>1, <2>2, <2>3, FS_Product
  <2>5. Cardinality(A \X B) = 1 * c
    BY <2>1, <2>2, <2>3, <2>4, Zenon
  <2>6. QED
    BY <1>4, <2>3, <2>4, <2>5
<1>7. P \cap D = {}
  BY <1>1, <1>2, <1>3, <1>4 DEF Pool
<1>8. P \cup D \in SUBSET Q
  <2>1. ASSUME NEW z \in D PROVE z \in Q
    <3>1. z = <<k, z[2]>> /\ z[1] = k /\ z[2] \in m + 1 .. m + c
      BY <1>4
    <3>2. z[2] \in 1 .. 2 * PipeSize /\ z[2] <= n
      BY <1>2, <3>1, ChatAssumption
    <3>3. QED
      BY <1>1, <1>3, <3>1, <3>2 DEF Pool
  <2>2. ASSUME NEW z \in P PROVE z \in Q
    <3>1. /\ z \in Clients \X (1 .. 2 * PipeSize) /\ z[1] \in Clients
          /\ z[2] \in 1 .. 2 * PipeSize /\ z[2] <= Unheard(z[1])'
      BY <1>3 DEF Pool
    <3>2. CASE z[1] = k
      BY <1>1, <1>2, <1>3, <3>1, <3>2 DEF Pool
    <3>3. CASE z[1] # k
      BY <1>3, <3>1, <3>3 DEF Pool
    <3>4. QED
      BY <3>2, <3>3
  <2>3. QED
    BY <2>1, <2>2
<1>9. Cardinality(P \cup D) = Cardinality(P) + Cardinality(D) - Cardinality(P \cap D)
  BY <1>5, <1>6, FS_Union
<1>10. Cardinality(P \cup D) <= Cardinality(Q)
  BY <1>5, <1>8, FS_Subset
<1>11. Cardinality(P) + c <= Cardinality(Q)
  <2>1. Cardinality(P \cap D) = 0
    BY <1>7, FS_EmptySet
  <2>2. Cardinality(P \cup D) = Cardinality(P) + c
    BY <1>5, <1>6, <1>9, <2>1
  <2>3. QED
    BY <1>10, <2>2
<1>12. QED
  BY <1>3, <1>11

(* A line is typed at k, or nothing is. *)
LEMMA PoolFills ==
  ASSUME Flow, Flow', NEW k \in Clients,
         Unheard(k)' <= Unheard(k) + 1,
         \A l \in Clients \ {k} : Unheard(l)' = Unheard(l)
  PROVE  Cardinality(Pool)' <= Cardinality(Pool) + 1
<1>1. PICK m, n : m = Unheard(k)' /\ n = Unheard(k)
  OBVIOUS
<1>2. n \in 0 .. 2 * PipeSize /\ m <= n + 1
  BY <1>1, UnheardIs DEF UnheardFits
<1>3. PICK P, Q : P = Pool' /\ Q = Pool
  OBVIOUS
<1>4. PICK e : e = <<k, n + 1>>
  OBVIOUS
<1>5. IsFiniteSet(Q) /\ Cardinality(Q) \in Nat
  BY <1>3, PoolFinite
<1>6. P \in SUBSET (Q \cup {e})
  <2>1. ASSUME NEW z \in P, z # e PROVE z \in Q
    <3>1. /\ z \in Clients \X (1 .. 2 * PipeSize) /\ z[1] \in Clients
          /\ z[2] \in 1 .. 2 * PipeSize /\ z[2] <= Unheard(z[1])' /\ z = <<z[1], z[2]>>
      BY <1>3 DEF Pool
    <3>2. CASE z[1] = k
      <4>1. z[2] # n + 1
        BY <1>4, <2>1, <3>1, <3>2
      <4>2. z[2] <= m
        BY <1>1, <3>1, <3>2
      <4>3. m \in Int
        <5>1. UnheardFits'
          BY UnheardIs, PTL
        <5>2. QED
          BY <1>1, <5>1 DEF UnheardFits
      <4>4. z[2] <= n
        BY <1>2, <3>1, <4>1, <4>2, <4>3
      <4>5. QED
        BY <1>1, <1>3, <3>1, <3>2, <4>4 DEF Pool
    <3>3. CASE z[1] # k
      BY <1>3, <3>1, <3>3 DEF Pool
    <3>4. QED
      BY <3>2, <3>3
  <2>2. QED
    BY <2>1
<1>7. /\ IsFiniteSet(Q \cup {e})
      /\ Cardinality(Q \cup {e}) = IF e \in Q THEN Cardinality(Q) ELSE Cardinality(Q) + 1
  BY <1>5, FS_AddElement
<1>8. Cardinality(P) <= Cardinality(Q \cup {e}) /\ Cardinality(P) \in Nat
  <2>1. IsFiniteSet(P) /\ Cardinality(P) <= Cardinality(Q \cup {e})
    BY <1>6, <1>7, FS_Subset
  <2>2. QED
    BY <2>1, FS_CardinalityType
<1>9. QED
  BY <1>3, <1>5, <1>7, <1>8

(* A write of typed lines behind typed lines. *)
LEMMA WriteOf ==
  ASSUME NEW S, NEW p \in Seq(S), NEW c \in Seq(S)
  PROVE  /\ Write(p, c) \in Seq(S) /\ Len(Write(p, c)) \in Nat
         /\ Len(Write(p, c)) <= Len(p) + Len(c)
         /\ Fits(p, c) => Write(p, c) = p \o c
BY DEF Write, Fits

LEMMA SeatedIs ==
  ASSUME JInv
  PROVE  /\ \A s \in Slots : s \in Full /\ Of(s) \in Clients /\ child[Of(s)]
         /\ \A s, r \in Slots : s # r => Of(s) # Of(r)
<1>1. \A s \in Slots : s \in Full /\ Of(s) \in Clients
  BY ListIs DEF JInv, IInv, Joined
<1>2. ~Over
  BY DEF JInv, Joined, Over
<1>3. QED
  BY <1>1, <1>2 DEF JInv, IInv, Joined, RosterAgrees

LEMMA SameHears ==
  ASSUME JInv, user_list' = user_list, \A k \in Clients : Hears(k)' = Hears(k)
  PROVE  Reaches'
<1> USE SeatedIs DEF JInv
<1>1. \A s \in Slots : Of(s)' = Of(s) /\ Hears(Of(s))' = Hears(Of(s))
  BY DEF Of
<1>2. QED
  BY <1>1 DEF Reaches

LEMMA CardIs == Cardinality(Pool) \in Nat /\ Cardinality(Pool)' \in Nat
<1>1. (IsFiniteSet(Pool) /\ Cardinality(Pool) \in Nat)'
  BY PoolFinite, PTL
<1>2. QED
  BY <1>1, PoolFinite

LEMMA Balance ==
  ASSUME NEW x \in Nat, NEW y \in Nat, NEW u \in Nat, NEW v \in Nat, NEW m \in Nat,
         NEW n \in Nat, NEW c \in Nat, NEW t \in Nat, NEW w \in Nat,
         x + y + m <= t, u + v <= x + y + c, n + c <= m + (w - t)
  PROVE  u + v + n <= w
OBVIOUS

(* What users are sent grows by c lines at most, and the server has read   *)
(* as many, or as many more have been typed.                               *)
LEMMA RoomyStep ==
  ASSUME JInv, Flow', NEW c \in Nat,
         Cardinality(Pool)' + c <= Cardinality(Pool) + (typed' - typed),
         \A k \in Clients :
           Len(fromServer'[k]) + Len(toUser'[k]) <= Len(fromServer[k]) + Len(toUser[k]) + c
  PROVE  Roomy'
<1>1. PICK m, n : m = Cardinality(Pool) /\ n = Cardinality(Pool)'
  OBVIOUS
<1>2. m \in Nat /\ n \in Nat /\ typed \in Nat /\ typed' \in Nat
      /\ n + c <= m + (typed' - typed)
  BY <1>1, CardIs, ChatAssumption DEF JInv, Flow
<1>3. ASSUME NEW k \in Clients
      PROVE  Len(fromServer'[k]) + Len(toUser'[k]) + n <= typed'
  <2>1. PICK x, y, u, v : /\ x = Len(fromServer[k]) /\ y = Len(toUser[k])
                          /\ u = Len(fromServer'[k]) /\ v = Len(toUser'[k])
    OBVIOUS
  <2>2. x \in Nat /\ y \in Nat
    BY <2>1, SaidType DEF JInv
  <2>3. u \in Nat /\ v \in Nat
    <3>1. fromServer'[k] \in Seq(Lines) /\ toUser'[k] \in Seq(Lines)
      BY DEF Flow, ArePipes
    <3>2. QED
      BY <2>1, <3>1
  <2>4. x + y + m <= typed /\ u + v <= x + y + c
    BY <1>1, <2>1 DEF JInv, Roomy
  <2>5. u + v + n <= typed'
    BY <1>2, <2>2, <2>3, <2>4, Balance
  <2>6. QED
    BY <2>1, <2>5
<1>4. QED
  BY <1>1, <1>3 DEF Roomy

LEMMA LengthsSame ==
  ASSUME JInv, NEW k \in Clients, fromServer'[k] = fromServer[k], toUser'[k] = toUser[k]
  PROVE  Len(fromServer'[k]) + Len(toUser'[k]) <= Len(fromServer[k]) + Len(toUser[k])
<1>1. PICK x, y : x = Len(fromServer[k]) /\ y = Len(toUser[k])
  OBVIOUS
<1>2. x \in Nat /\ y \in Nat
  BY <1>1, SaidType DEF JInv
<1>3. QED
  BY <1>1, <1>2

(* The server sends nothing. *)
LEMMA RoomyLess ==
  ASSUME JInv, Flow', Cardinality(Pool)' <= Cardinality(Pool) + (typed' - typed),
         \A k \in Clients :
           Len(fromServer'[k]) + Len(toUser'[k]) <= Len(fromServer[k]) + Len(toUser[k])
  PROVE  Roomy'
<1>1. Cardinality(Pool)' + 0 <= Cardinality(Pool) + (typed' - typed)
  BY CardIs
<1>2. ASSUME NEW k \in Clients
      PROVE  Len(fromServer'[k]) + Len(toUser'[k]) <= Len(fromServer[k]) + Len(toUser[k]) + 0
  <2>1. PICK x, y : x = Len(fromServer[k]) /\ y = Len(toUser[k])
    OBVIOUS
  <2>2. x \in Nat /\ y \in Nat
    BY <2>1, SaidType DEF JInv
  <2>3. x + y + 0 = x + y
    BY <2>2
  <2>4. Len(fromServer'[k]) + Len(toUser'[k]) <= x + y
    BY <2>1, Zenon
  <2>5. QED
    BY <2>1, <2>3, <2>4, Zenon
<1>3. QED
  BY <1>1, <1>2, RoomyStep

LEMMA RoomySame ==
  ASSUME JInv, Flow', Cardinality(Pool)' <= Cardinality(Pool) + (typed' - typed),
         UNCHANGED <<fromServer, toUser>>
  PROVE  Roomy'
BY LengthsSame, RoomyLess

LEMMA TypeTalks ==
  ASSUME JInv, Flow', NEW k \in Clients, NEW kind, NEW to \in Names \cup {NoName},
         Type(k, kind, to), user_list' = user_list
  PROVE  Upstream' /\ Roomy' /\ Reaches'
<1>1. /\ typed < MaxLines /\ typed' = typed + 1 /\ typed \in 0 .. MaxLines /\ MaxLines \in Nat
      /\ kind \in {"text", "list", "p2p"}
      /\ UNCHANGED <<toServer, fromServer, toUser, shown>>
  BY ChatAssumption DEF Type, Flow, JInv
<1>2. PICK e : e = [from |-> k, n |-> typed + 1, kind |-> kind, to |-> to]
  OBVIOUS
<1>3. e \in Own(k)
  BY <1>1, <1>2 DEF Lines, Own
<1>4. PICK b, d, f, w : /\ b = fromUser[k] /\ d = fromUser'[k]
                        /\ f = <<e>> /\ w = Write(b, f)
  OBVIOUS
<1>5. b \in Seq(Own(k)) /\ f \in Seq(Own(k)) /\ Len(f) = 1 /\ Len(b) \in Nat
  BY <1>3, <1>4 DEF JInv, Upstream
<1>6. /\ \A l \in Clients \ {k} : fromUser'[l] = fromUser[l]
      /\ d \in {b, w}
  <2>1. fromUser' \in {fromUser, [fromUser EXCEPT ![k] = Write(@, <<e>>)]}
    BY <1>1, <1>2 DEF Type, Send, Line
  <2>2. fromUser = [l \in Clients |-> fromUser[l]]
    BY DEF JInv, Flow, ArePipes
  <2>3. QED
    BY <1>4, <2>1, <2>2
<1>7. d \in Seq(Own(k)) /\ Len(d) \in Nat /\ Len(d) <= Len(b) + 1
  <2>1. w \in Seq(Own(k)) /\ Len(w) \in Nat /\ Len(w) <= Len(b) + Len(f)
    BY <1>4, <1>5, WriteOf
  <2>2. QED
    BY <1>5, <1>6, <2>1
<1>8. Upstream'
  BY <1>1, <1>4, <1>6, <1>7 DEF JInv, Upstream, Own
<1>9. Roomy'
  <2>1. Unheard(k)' <= Unheard(k) + 1 /\ \A l \in Clients \ {k} : Unheard(l)' = Unheard(l)
    <3>1. PICK x, y, z : x = Len(toServer[k]) /\ y = Len(b) /\ z = Len(d)
      OBVIOUS
    <3>2. x \in Nat /\ y \in Nat /\ z \in Nat /\ z <= y + 1
      BY <1>5, <1>7, <3>1 DEF JInv, Upstream
    <3>3. Unheard(k) = x + y /\ Unheard(k)' = x + z
      BY <1>1, <1>4, <3>1 DEF Unheard
    <3>4. Unheard(k)' <= Unheard(k) + 1
      BY <3>2, <3>3
    <3>5. \A l \in Clients \ {k} : Unheard(l)' = Unheard(l)
      BY <1>1, <1>6 DEF Unheard
    <3>6. QED
      BY <3>4, <3>5
  <2>2. Cardinality(Pool)' <= Cardinality(Pool) + 1
    BY <2>1, PoolFills DEF JInv
  <2>3. Cardinality(Pool)' <= Cardinality(Pool) + (typed' - typed)
    BY <1>1, <2>2, CardIs
  <2>4. QED
    BY <1>1, <2>3, RoomySame
<1>10. \A l \in Clients : Hears(l)' = Hears(l)
  BY <1>1 DEF Hears, Pending
<1>11. QED
  BY <1>8, <1>9, <1>10, SameHears


LEMMA RelayToServerTalks ==
  ASSUME JInv, Flow', NEW k \in Clients, RelayToServer(k)
  PROVE  Upstream' /\ Roomy' /\ Reaches'
<1>1. PICK a, b, r, u : /\ a = toServer[k] /\ b = fromUser[k]
                        /\ r = Read(b) /\ u = Unread(b)
  OBVIOUS
<1>2. PICK w : w = Write(a, r)
  OBVIOUS
<1>3. a \in Seq(Own(k)) /\ b \in Seq(Own(k)) /\ Len(a) \in Nat
  BY <1>1 DEF JInv, Upstream
<1>4. /\ r \in Seq(Own(k)) /\ u \in Seq(Own(k)) /\ Len(r) \in Nat /\ Len(u) \in Nat
      /\ Len(r) + Len(u) = Len(b)
  BY <1>1, <1>3, ReadOf
<1>5. w \in Seq(Own(k)) /\ Len(w) \in Nat /\ Len(w) <= Len(a) + Len(r)
  BY <1>2, <1>3, <1>4, WriteOf
<1>6. /\ UNCHANGED <<fromServer, toUser, typed, shown, user_list>>
      /\ fromUser' = [fromUser EXCEPT ![k] = u]
      /\ toServer' = [toServer EXCEPT ![k] = IF b # <<>> THEN w ELSE a]
  BY <1>1, <1>2 DEF RelayToServer, Relayed, JInv, Joined, roster
<1>7. PICK d : d = IF b # <<>> THEN w ELSE a
  OBVIOUS
<1>8. /\ fromUser'[k] = u /\ toServer'[k] = d
      /\ \A l \in Clients \ {k} : fromUser'[l] = fromUser[l] /\ toServer'[l] = toServer[l]
  BY <1>6, <1>7 DEF JInv, Flow, ArePipes
<1>9. d \in Seq(Own(k)) /\ Len(d) \in Nat /\ Len(d) <= Len(a) + Len(r)
  BY <1>3, <1>4, <1>5, <1>7
<1>10. Upstream'
  BY <1>4, <1>8, <1>9 DEF JInv, Upstream, Own
<1>11. Roomy'
  <2>1. Unheard(k)' + 0 <= Unheard(k)
    <3>1. PICK x, y, z, v, q : x = Len(a) /\ y = Len(b) /\ z = Len(d) /\ v = Len(u) /\ q = Len(r)
      OBVIOUS
    <3>2. x \in Nat /\ z \in Nat /\ v \in Nat /\ q \in Nat /\ q + v = y /\ z <= x + q
      BY <1>3, <1>4, <1>9, <3>1
    <3>3. Unheard(k) = x + y /\ Unheard(k)' = z + v
      BY <1>1, <1>8, <3>1 DEF Unheard
    <3>4. QED
      BY <3>2, <3>3
  <2>2. \A l \in Clients \ {k} : Unheard(l)' = Unheard(l)
    BY <1>8 DEF Unheard
  <2>3. Cardinality(Pool)' + 0 <= Cardinality(Pool)
    BY <2>1, <2>2, PoolDrains DEF JInv
  <2>4. Cardinality(Pool)' <= Cardinality(Pool) + (typed' - typed)
    BY <1>6, <2>3, CardIs DEF JInv, Flow
  <2>5. QED
    BY <1>6, <2>4, RoomySame
<1>12. \A l \in Clients : Hears(l)' = Hears(l)
  BY <1>6 DEF Hears, Pending
<1>13. QED
  BY <1>6, <1>10, <1>11, <1>12, SameHears

LEMMA RelayToUserTalks ==
  ASSUME JInv, Flow', NEW k \in Clients, RelayToUser(k)
  PROVE  Upstream' /\ Roomy' /\ Reaches'
<1>1. PICK a, b, r, u : /\ a = toUser[k] /\ b = fromServer[k]
                        /\ r = Read(b) /\ u = Unread(b)
  OBVIOUS
<1>2. a \in Seq(Lines) /\ b \in Seq(Lines) /\ Len(a) \in Nat
  BY <1>1, SaidType DEF JInv
<1>3. /\ r \in Seq(Lines) /\ u \in Seq(Lines) /\ Len(r) \in Nat /\ Len(u) \in Nat
      /\ Len(r) + Len(u) = Len(b) /\ r \o u = b
  BY <1>1, <1>2, ReadOf
<1>4. Fits(a, r)
  <2>1. PICK x, y, z, m : x = Len(a) /\ y = Len(r) /\ z = Len(u) /\ m = Cardinality(Pool)
    OBVIOUS
  <2>2. x \in Nat /\ y \in Nat /\ z \in Nat /\ m \in Nat /\ Len(b) = y + z
    BY <1>2, <1>3, <2>1, CardIs
  <2>3. (y + z) + x + m <= typed
    BY <1>1, <2>1, <2>2 DEF JInv, Roomy
  <2>4. typed <= MaxLines /\ typed \in Nat /\ MaxLines \in Nat /\ PipeSize \in Nat
    BY ChatAssumption DEF JInv, Flow
  <2>5. x + y <= PipeSize
    BY <2>2, <2>3, <2>4 DEF JInv, RoomForAll
  <2>6. QED
    BY <2>1, <2>5 DEF Fits
<1>5. PICK w : w = a \o r
  OBVIOUS
<1>6. Write(a, r) = w /\ w \in Seq(Lines) /\ Len(w) = Len(a) + Len(r)
  BY <1>2, <1>3, <1>4, <1>5 DEF Write
<1>7. /\ UNCHANGED <<fromUser, toServer, typed, shown, user_list>>
      /\ fromServer' = [fromServer EXCEPT ![k] = u]
      /\ toUser' = [toUser EXCEPT ![k] = w]
  BY <1>1, <1>6 DEF RelayToUser, Relayed, JInv, Joined, roster
<1>8. /\ fromServer'[k] = u /\ toUser'[k] = w
      /\ \A l \in Clients \ {k} : fromServer'[l] = fromServer[l] /\ toUser'[l] = toUser[l]
  BY <1>7 DEF JInv, Flow, ArePipes
<1>9. Upstream'
  BY <1>7 DEF JInv, Upstream
<1>10. Roomy'
  <2>1. Cardinality(Pool)' = Cardinality(Pool)
    BY <1>7 DEF Pool, Unheard
  <2>2. ASSUME NEW l \in Clients
        PROVE  Len(fromServer'[l]) + Len(toUser'[l]) <= Len(fromServer[l]) + Len(toUser[l])
    <3>1. CASE l = k
      <4>1. PICK x, y, z : x = Len(a) /\ y = Len(r) /\ z = Len(u)
        OBVIOUS
      <4>2. x \in Nat /\ y \in Nat /\ z \in Nat /\ Len(b) = y + z /\ Len(w) = x + y
        BY <1>2, <1>3, <1>6, <4>1
      <4>3. /\ Len(fromServer'[l]) = z /\ Len(toUser'[l]) = x + y
            /\ Len(fromServer[l]) = y + z /\ Len(toUser[l]) = x
        BY <1>1, <1>8, <3>1, <4>1, <4>2, Zenon
      <4>4. z + (x + y) <= (y + z) + x
        BY <4>2
      <4>5. QED
        BY <4>3, <4>4, Zenon
    <3>2. CASE l # k
      BY <1>8, <3>2, LengthsSame
    <3>3. QED
      BY <3>1, <3>2
  <2>3. Cardinality(Pool)' <= Cardinality(Pool) + (typed' - typed)
    BY <1>7, <2>1, CardIs DEF JInv, Flow
  <2>4. QED
    BY <2>2, <2>3, RoomyLess
<1>11. \A l \in Clients : Hears(l)' = Hears(l)
  <2>1. w \o u = a \o b
    <3>1. a \in Seq(Lines) /\ r \in Seq(Lines) /\ u \in Seq(Lines)
      BY <1>2, <1>3
    <3>2. a \o (r \o u) = (a \o r) \o u
      BY <3>1, RP!ConcatAssociates
    <3>3. QED
      BY <1>3, <1>5, <3>2
  <2>2. Pending(k)' = Pending(k)
    BY <1>1, <1>8, <2>1, Zenon DEF Pending
  <2>3. \A l \in Clients \ {k} : Pending(l)' = Pending(l)
    BY <1>8 DEF Pending
  <2>4. QED
    BY <1>7, <2>2, <2>3 DEF Hears
<1>12. QED
  BY <1>7, <1>9, <1>10, <1>11, SameHears

LEMMA ShowTalks ==
  ASSUME JInv, Flow', NEW k \in Clients, Show(k)
  PROVE  Upstream' /\ Roomy' /\ Reaches'
<1>1. PICK a, b, r, u, s : /\ a = toUser[k] /\ b = fromServer[k] /\ s = shown[k]
                           /\ r = Read(a) /\ u = Unread(a)
  OBVIOUS
<1>2. a \in Seq(Lines) /\ b \in Seq(Lines) /\ Len(b) \in Nat /\ s \in Seq(Lines)
  <2>1. shown[k] \in Seq(Lines)
    BY DEF JInv, Flow
  <2>2. QED
    BY <1>1, <2>1, SaidType DEF JInv
<1>3. /\ r \in Seq(Lines) /\ u \in Seq(Lines) /\ Len(r) \in Nat /\ Len(u) \in Nat
      /\ Len(r) + Len(u) = Len(a) /\ r \o u = a
  BY <1>1, <1>2, ReadOf
<1>4. PICK x, y, z : x = Typed(r) /\ y = Typed(u) /\ z = Typed(b)
  OBVIOUS
<1>5. x \in Seq(Lines) /\ y \in Seq(Lines) /\ z \in Seq(Lines)
  BY <1>2, <1>3, <1>4, TypedType
<1>6. /\ UNCHANGED <<fromUser, toServer, fromServer, typed, user_list>>
      /\ shown' = [shown EXCEPT ![k] = s \o x]
      /\ toUser' = [toUser EXCEPT ![k] = u]
  BY <1>1, <1>4 DEF Show, roster
<1>7. /\ toUser'[k] = u /\ shown'[k] = s \o x
      /\ \A l \in Clients \ {k} : toUser'[l] = toUser[l] /\ shown'[l] = shown[l]
  BY <1>6 DEF JInv, Flow, ArePipes
<1>8. Upstream'
  BY <1>6 DEF JInv, Upstream
<1>9. Roomy'
  <2>1. Cardinality(Pool)' = Cardinality(Pool)
    BY <1>6 DEF Pool, Unheard
  <2>2. ASSUME NEW l \in Clients
        PROVE  Len(fromServer'[l]) + Len(toUser'[l]) <= Len(fromServer[l]) + Len(toUser[l])
    <3>1. CASE l = k
      <4>1. PICK c, d, e : c = Len(b) /\ d = Len(r) /\ e = Len(u)
        OBVIOUS
      <4>2. c \in Nat /\ d \in Nat /\ e \in Nat /\ Len(a) = d + e
        BY <1>2, <1>3, <4>1
      <4>3. QED
        BY <1>1, <1>6, <1>7, <3>1, <4>1, <4>2
    <3>2. CASE l # k
      BY <1>6, <1>7, <3>2, LengthsSame
    <3>3. QED
      BY <3>1, <3>2
  <2>3. Cardinality(Pool)' <= Cardinality(Pool) + (typed' - typed)
    BY <1>6, <2>1, CardIs DEF JInv, Flow
  <2>4. QED
    BY <2>2, <2>3, RoomyLess
<1>10. \A l \in Clients : Hears(l)' = Hears(l)
  <2>1. Typed(a \o b) = (x \o y) \o z /\ Typed(u \o b) = y \o z
    <3>1. Typed(a) = x \o y
      BY <1>3, <1>4, TypedConcat
    <3>2. Typed(a \o b) = Typed(a) \o Typed(b) /\ Typed(u \o b) = Typed(u) \o Typed(b)
      BY <1>2, <1>3, TypedConcat
    <3>3. QED
      BY <1>4, <3>1, <3>2, Zenon
  <2>2. s \o ((x \o y) \o z) = (s \o x) \o (y \o z)
    <3>1. PICK v, w : v = y \o z /\ w = x \o y
      OBVIOUS
    <3>2. v \in Seq(Lines) /\ w \in Seq(Lines) /\ x \o v = w \o z
      BY <1>5, <3>1, RP!ConcatAssociates
    <3>3. s \in Seq(Lines) /\ x \in Seq(Lines) /\ v \in Seq(Lines)
      BY <1>2, <1>5, <3>2
    <3>4. s \o (x \o v) = (s \o x) \o v
      BY <3>3, RP!ConcatAssociates
    <3>5. QED
      BY <3>1, <3>2, <3>4, Zenon
  <2>3. Hears(k) = s \o Typed(a \o b) /\ Hears(k)' = (s \o x) \o Typed(u \o b)
    <3>1. fromServer'[k] = b
      BY <1>1, <1>6
    <3>2. QED
      BY <1>1, <1>7, <3>1, Zenon DEF Hears, Pending
  <2>4. Hears(k)' = Hears(k)
    BY <2>1, <2>2, <2>3, Zenon
  <2>5. \A l \in Clients \ {k} : Hears(l)' = Hears(l)
    BY <1>6, <1>7 DEF Hears, Pending
  <2>6. QED
    BY <2>4, <2>5
<1>11. QED
  BY <1>6, <1>8, <1>9, <1>10, SameHears

(* What the server reads are typed lines of the user it polls. *)
LEMMA InputIs ==
  ASSUME JInv, NEW type, PollUser(type)
  PROVE  /\ i \in Slots /\ Of(i) \in Clients /\ Input = Read(toServer[Of(i)])
         /\ Input \in Seq(Own(Of(i))) /\ Input \in Seq(Lines)
         /\ Len(Input) \in Nat \ {0}
         /\ type \in CommandTypes(Input)
<1>1. i \in Slots /\ Of(i) \in Clients
  BY SeatedIs DEF PollUser, Full
<1>2. PICK a : a = toServer[Of(i)]
  OBVIOUS
<1>3. a \in Seq(Own(Of(i))) /\ a # <<>> /\ Input = Read(a)
  BY <1>1, <1>2 DEF PollUser, Input, JInv, Upstream
<1>4. PICK c : c = Read(a)
  OBVIOUS
<1>5. c \in Seq(Own(Of(i))) /\ Len(c) \in Nat /\ Len(c) >= 1
  BY <1>3, <1>4, ReadOf
<1>6. Own(Of(i)) \subseteq Lines
  BY DEF Own
<1>7. c \in Seq(Lines)
  BY <1>5, <1>6
<1>8. QED
  BY <1>1, <1>2, <1>3, <1>4, <1>5, <1>7 DEF PollUser

LEMMA NoExitTyped ==
  ASSUME JInv
  PROVE  ~PollUser("exit")
<1>1. SUFFICES ASSUME PollUser("exit") PROVE FALSE
  OBVIOUS
<1>2. PICK c : c = Input
  OBVIOUS
<1>3. c \in Seq(Own(Of(i))) /\ Len(c) \in Nat \ {0} /\ "exit" \in CommandTypes(c)
  BY <1>1, <1>2, InputIs
<1>4. c = <<ExitLine(c[1].from)>>
  BY <1>3 DEF CommandTypes
<1>5. c[1].n = 0
  <2>1. PICK e : e = ExitLine(c[1].from)
    OBVIOUS
  <2>2. e.n = 0 /\ c = <<e>>
    BY <1>4, <2>1 DEF ExitLine, Line
  <2>3. QED
    BY <2>2
<1>6. c[1] \in Own(Of(i))
  BY <1>3
<1>7. QED
  BY <1>5, <1>6 DEF Own

LEMMA ReadsDrain ==
  ASSUME JInv, Flow', NEW type, PollUser(type), Consume
  PROVE  /\ Upstream' /\ Cardinality(Pool)' + Len(Input) <= Cardinality(Pool)
         /\ UNCHANGED <<typed, shown, toUser, user_list>>
<1>1. PICK k, a, b, u : k = Of(i) /\ a = toServer[k] /\ b = fromUser[k] /\ u = Unread(a)
  OBVIOUS
<1>2. k \in Clients /\ a \in Seq(Own(k)) /\ b \in Seq(Own(k)) /\ Input = Read(a)
  BY <1>1, InputIs DEF JInv, Upstream
<1>3. PICK c : c = Input
  OBVIOUS
<1>4. u \in Seq(Own(k)) /\ Len(c) \in Nat /\ Len(u) \in Nat /\ Len(c) + Len(u) = Len(a)
  BY <1>1, <1>2, <1>3, ReadOf
<1>5. /\ toServer' = [toServer EXCEPT ![k] = u]
      /\ UNCHANGED <<typed, shown, toUser, fromUser, user_list>>
  BY <1>1 DEF Consume
<1>6. toServer'[k] = u /\ \A l \in Clients \ {k} : toServer'[l] = toServer[l]
  BY <1>2, <1>5 DEF JInv, Flow, ArePipes
<1>7. Upstream'
  BY <1>4, <1>5, <1>6 DEF JInv, Upstream, Own
<1>8. Unheard(k)' + Len(c) <= Unheard(k)
  <2>1. PICK x, y, z : x = Len(c) /\ y = Len(u) /\ z = Len(b)
    OBVIOUS
  <2>2. x \in Nat /\ y \in Nat /\ z \in Nat /\ Len(a) = x + y
    BY <1>2, <1>4, <2>1
  <2>3. Unheard(k) = (x + y) + z /\ Unheard(k)' = y + z
    BY <1>1, <1>5, <1>6, <2>1, <2>2, Zenon DEF Unheard
  <2>4. QED
    BY <2>1, <2>2, <2>3
<1>9. \A l \in Clients \ {k} : Unheard(l)' = Unheard(l)
  BY <1>5, <1>6 DEF Unheard
<1>10. Cardinality(Pool)' + Len(c) <= Cardinality(Pool)
  BY <1>2, <1>4, <1>8, <1>9, PoolDrains DEF JInv
<1>11. QED
  BY <1>3, <1>5, <1>7, <1>10

(* No user's pipe is too full for what the server reads. *)
LEMMA AllAccept ==
  ASSUME JInv, Flow', NEW type, PollUser(type), Consume, NEW s \in Slots
  PROVE  Accepts(s, Input)
<1>1. PICK k : k = Of(s)
  OBVIOUS
<1>2. k \in Clients /\ child[k]
  BY <1>1, SeatedIs
<1>3. PICK x, y, m, n, c : /\ x = Len(fromServer[k]) /\ y = Len(toUser[k]) /\ c = Len(Input)
                           /\ m = Cardinality(Pool) /\ n = Cardinality(Pool)'
  OBVIOUS
<1>4. x \in Nat /\ y \in Nat
  BY <1>2, <1>3, SaidType DEF JInv
<1>5. c \in Nat /\ m \in Nat /\ n \in Nat /\ n + c <= m
  BY <1>3, InputIs, ReadsDrain, CardIs
<1>6. x + y + m <= typed
  BY <1>2, <1>3 DEF JInv, Roomy
<1>7. typed <= MaxLines /\ typed \in Nat /\ MaxLines \in Nat /\ PipeSize \in Nat
      /\ MaxLines <= PipeSize
  BY ChatAssumption DEF JInv, Flow, RoomForAll
<1>8. x + c <= PipeSize
  BY <1>4, <1>5, <1>6, <1>7
<1>9. QED
  BY <1>1, <1>2, <1>3, <1>8 DEF Accepts, Fits

(* Those in K are sent c more. *)
LEMMA RoomySends ==
  ASSUME JInv, Flow', NEW type, PollUser(type), Consume,
         NEW c \in Seq(Lines), Len(c) <= Len(Input), NEW K, Sends(K, c)
  PROVE  Roomy'
<1>1. PICK m, n, x, y : /\ m = Cardinality(Pool) /\ n = Cardinality(Pool)'
                        /\ x = Len(c) /\ y = Len(Input)
  OBVIOUS
<1>2. /\ m \in Nat /\ n \in Nat /\ x \in Nat /\ y \in Nat /\ x <= y /\ n + y <= m
      /\ typed' = typed /\ typed \in Nat /\ toUser' = toUser
  BY <1>1, InputIs, ReadsDrain, CardIs DEF JInv, Flow
<1>3. n + x <= m + (typed' - typed)
  BY <1>2
<1>4. ASSUME NEW k \in Clients
      PROVE  Len(fromServer'[k]) + Len(toUser'[k]) <= Len(fromServer[k]) + Len(toUser[k]) + x
  <2>1. PICK p, u, v : p = fromServer[k] /\ u = Len(p) /\ v = Len(toUser[k])
    OBVIOUS
  <2>2. p \in Seq(Lines) /\ u \in Nat /\ v \in Nat
    BY <2>1, SaidType DEF JInv
  <2>3. fromServer'[k] \in {p, p \o c}
    BY <2>1 DEF Sends
  <2>4. Len(p \o c) = u + x
    BY <1>1, <2>1, <2>2
  <2>5. Len(fromServer'[k]) \in {u, u + x}
    BY <2>1, <2>3, <2>4, Zenon
  <2>6. Len(fromServer'[k]) + v <= u + v + x
    BY <1>2, <2>2, <2>5
  <2>7. QED
    BY <1>2, <2>1, <2>6
<1>5. QED
  BY <1>1, <1>2, <1>3, <1>4, RoomyStep

LEMMA ConcatAt ==
  ASSUME NEW S, NEW s \in Seq(S), NEW t \in Seq(S)
  PROVE  /\ Len(s \o t) = Len(s) + Len(t) /\ Len(s) \in Nat
         /\ \A q \in 1 .. Len(s) : (s \o t)[q] = s[q]
         /\ \A q \in 1 .. Len(t) : (s \o t)[Len(s) + q] = t[q]
OBVIOUS

LEMMA HearsIs ==
  ASSUME JInv, NEW k \in Clients
  PROVE  Hears(k) \in Seq(Lines)
<1>1. PICK s, p : s = shown[k] /\ p = Pending(k)
  OBVIOUS
<1>2. s \in Seq(Lines) /\ p \in Seq(Lines)
  BY <1>1, SaidType DEF JInv, Flow
<1>3. QED
  BY <1>1, <1>2 DEF Hears

LEMMA HearsSent ==
  ASSUME JInv, Flow', NEW type, PollUser(type), Consume, NEW K, Sends(K, Input),
         NEW k \in Clients
  PROVE  Hears(k)' = IF k \in K THEN Hears(k) \o Input ELSE Hears(k)
<1>1. PICK c : c = Input
  OBVIOUS
<1>2. c \in Seq(Lines) /\ c \in Seq(Own(Of(i)))
  BY <1>1, InputIs
<1>3. Typed(c) = c
  <2>1. \A m \in 1 .. Len(c) : c[m].n > 0
    BY <1>2 DEF Own
  <2>2. QED
    BY <1>2, <2>1, TypedAll
<1>4. UNCHANGED <<typed, shown, toUser>>
  BY ReadsDrain
<1>5. CASE k \in K
  <2>1. fromServer'[k] = fromServer[k] \o c
    BY <1>1, <1>5 DEF Sends
  <2>2. Pending(k)' = Pending(k) \o c
    BY <1>2, <1>3, <1>4, <2>1, AddsToPending DEF JInv
  <2>3. PICK s, p : s = shown[k] /\ p = Pending(k)
    OBVIOUS
  <2>4. s \in Seq(Lines) /\ p \in Seq(Lines) /\ c \in Seq(Lines)
    BY <1>2, <2>3, SaidType DEF JInv, Flow
  <2>5. s \o (p \o c) = (s \o p) \o c
    BY <2>4, RP!ConcatAssociates
  <2>6. Hears(k)' = s \o (p \o c) /\ Hears(k) = s \o p
    BY <1>4, <2>2, <2>3, Zenon DEF Hears
  <2>7. QED
    BY <1>1, <1>5, <2>5, <2>6, Zenon
<1>6. CASE k \notin K
  BY <1>4, <1>6 DEF Sends, Hears, Pending
<1>7. QED
  BY <1>5, <1>6

(* What the server has read goes to all others, or begins with a private   *)
(* line.                                                                   *)
LEMMA SendsReach ==
  ASSUME JInv, Flow', NEW type, PollUser(type), Consume,
         NEW K, K \subseteq {Of(s) : s \in Slots \ {i}}, Sends(K, Input),
         K = {Of(s) : s \in Slots \ {i}} \/ Input[1].kind = "p2p"
  PROVE  Reaches'
<1>1. user_list' = user_list /\ \A s \in Slots : Of(s)' = Of(s) /\ Of(s) \in Clients
  BY ReadsDrain, SeatedIs DEF Of
<1>2. PICK c, a : c = Input /\ a = Of(i)
  OBVIOUS
<1>3. /\ c \in Seq(Lines) /\ Len(c) \in Nat \ {0}
      /\ \A m \in 1 .. Len(c) : c[m].from = a
  <2>1. c \in Seq(Lines) /\ Len(c) \in Nat \ {0} /\ c \in Seq(Own(a))
    BY <1>2, InputIs
  <2>2. \A x \in Own(a) : x.from = a
    BY DEF Own
  <2>3. \A m \in 1 .. Len(c) : c[m] \in Own(a)
    BY <2>1
  <2>4. QED
    BY <2>1, <2>2, <2>3
<1>4. SUFFICES
        ASSUME NEW k \in Clients, NEW s \in Slots, NEW h, h = Hears(k)',
               NEW g, g = Hears(Of(s))', NEW p \in 1 .. Len(h),
               h[p].kind = "text", h[p].from # Of(s)
        PROVE  \/ \E q \in 1 .. Len(g) : g[q] = h[p]
               \/ \E q \in 1 .. p - 1 : h[q].kind = "p2p" /\ h[q].from = h[p].from
  BY <1>1 DEF Reaches
<1>5. PICK u, v, l : u = Hears(k) /\ v = Hears(l) /\ l = Of(s)
  OBVIOUS
<1>6. u \in Seq(Lines) /\ v \in Seq(Lines) /\ l \in Clients
  BY <1>1, <1>5, HearsIs
<1>7. /\ h = IF k \in K THEN u \o c ELSE u
      /\ g = IF l \in K THEN v \o c ELSE v
  BY <1>1, <1>2, <1>4, <1>5, <1>6, HearsSent
<1>8. /\ Len(u \o c) = Len(u) + Len(c) /\ Len(v \o c) = Len(v) + Len(c)
      /\ Len(u) \in Nat /\ Len(v) \in Nat
      /\ \A q \in 1 .. Len(u) : (u \o c)[q] = u[q]
      /\ \A q \in 1 .. Len(v) : (v \o c)[q] = v[q]
      /\ \A q \in 1 .. Len(c) : (u \o c)[Len(u) + q] = c[q] /\ (v \o c)[Len(v) + q] = c[q]
  <2>1. u \in Seq(Lines) /\ v \in Seq(Lines) /\ c \in Seq(Lines)
    BY <1>3, <1>6
  <2>2. QED
    BY <2>1, ConcatAt
<1>9. CASE p <= Len(u)
  <2>1. h[p] = u[p] /\ p \in 1 .. Len(u)
    BY <1>7, <1>8, <1>9
  <2>2. \/ \E q \in 1 .. Len(v) : v[q] = u[p]
        \/ \E q \in 1 .. p - 1 : u[q].kind = "p2p" /\ u[q].from = u[p].from
    BY <1>4, <1>5, <2>1 DEF JInv, Reaches
  <2>3. ASSUME NEW q \in 1 .. Len(v) PROVE q \in 1 .. Len(g) /\ g[q] = v[q]
    BY <1>3, <1>7, <1>8
  <2>4. ASSUME NEW q \in 1 .. p - 1 PROVE h[q] = u[q]
    <3>1. q \in 1 .. Len(u)
      BY <1>8, <2>1
    <3>2. QED
      BY <1>7, <1>8, <3>1
  <2>5. QED
    BY <2>1, <2>2, <2>3, <2>4
<1>10. CASE p > Len(u)
  <2>1. PICK m : m = p - Len(u)
    OBVIOUS
  <2>2. k \in K
    BY <1>7, <1>8, <1>10
  <2>3. m \in 1 .. Len(c) /\ p = Len(u) + m
    BY <1>3, <1>7, <1>8, <1>10, <2>1, <2>2
  <2>4. h[p] = c[m] /\ c[m].from = a
    BY <1>3, <1>7, <1>8, <2>2, <2>3
  <2>5. CASE K = {Of(r) : r \in Slots \ {i}}
    <3>1. s # i
      BY <1>2, <1>4, <2>4
    <3>2. l \in K
      BY <1>5, <2>5, <3>1
    <3>3. Len(v) + m \in 1 .. Len(g) /\ g[Len(v) + m] = c[m]
      BY <1>3, <1>7, <1>8, <2>3, <3>2
    <3>4. QED
      BY <2>4, <3>3
  <2>6. CASE c[1].kind = "p2p"
    <3>1. m # 1
      BY <1>4, <2>4, <2>6
    <3>2. 1 \in 1 .. Len(c) /\ Len(u) + 1 \in 1 .. p - 1
      BY <1>3, <1>8, <2>3, <3>1
    <3>3. h[Len(u) + 1] = c[1] /\ c[1].from = a
      BY <1>3, <1>7, <1>8, <2>2, <3>2
    <3>4. QED
      BY <2>4, <2>6, <3>2, <3>3
  <2>7. QED
    BY <1>2, <2>5, <2>6
<1>11. QED
  BY <1>9, <1>10, <1>8

LEMMA ReplyTalks ==
  ASSUME JInv, Flow', NEW type, PollUser(type), Consume, WriteTo(i, <<Reply>>)
  PROVE  Upstream' /\ Roomy' /\ Reaches'
<1>1. PICK e : e = Reply
  OBVIOUS
<1>2. e \in Lines /\ e.n = 0 /\ <<e>> \in Seq(Lines) /\ Len(<<e>>) = 1
  BY <1>1, MadeUpIs
<1>3. i \in Full
  BY InputIs, SeatedIs
<1>4. PICK K : Sends(K, <<e>>)
  BY <1>1, <1>2, <1>3, WriteToSends DEF JInv
<1>5. Len(<<e>>) <= Len(Input)
  BY <1>2, InputIs
<1>6. Roomy'
  BY <1>2, <1>4, <1>5, RoomySends
<1>7. \A k \in Clients : Hears(k)' = Hears(k)
  <2>1. toUser' = toUser /\ shown' = shown
    BY ReadsDrain
  <2>2. \A k \in Clients : Pending(k)' = Pending(k)
    BY <1>2, <1>4, <2>1, UntypedPending DEF JInv
  <2>3. QED
    BY <2>1, <2>2 DEF Hears
<1>8. QED
  BY <1>6, <1>7, ReadsDrain, SameHears

LEMMA PollBroadcastTalks ==
  ASSUME JInv, Flow', PollBroadcast
  PROVE  Upstream' /\ Roomy' /\ Reaches'
<1>1. /\ PollUser("broadcast") /\ Consume /\ Broadcast(Input, Full \ {i})
      /\ Input \in Seq(Lines) /\ Full = Slots
  BY InputIs DEF PollBroadcast, JInv, Joined
<1>2. Sends({Of(s) : s \in Reached(Input, Slots \ {i})}, Input)
  BY <1>1, BroadcastSends DEF JInv
<1>3. Reached(Input, Slots \ {i}) = Slots \ {i}
  BY <1>1, AllAccept DEF Reached
<1>4. PICK K : K = {Of(s) : s \in Slots \ {i}}
  OBVIOUS
<1>5. Sends(K, Input)
  BY <1>2, <1>3, <1>4
<1>6. Len(Input) <= Len(Input)
  BY <1>1, InputIs
<1>7. Roomy'
  BY <1>1, <1>5, <1>6, RoomySends
<1>8. Reaches'
  BY <1>1, <1>4, <1>5, SendsReach
<1>9. QED
  BY <1>1, <1>7, <1>8, ReadsDrain

LEMMA PollP2pTalks ==
  ASSUME JInv, Flow', PollP2p
  PROVE  Upstream' /\ Roomy' /\ Reaches'
<1>1. /\ PollUser("p2p") /\ Consume
      /\ Input \in Seq(Lines) /\ Full = Slots
      /\ WriteTo(i, <<Reply>>) \/ \E s \in Full \ {i} : WriteTo(s, Input)
  <2>1. MayGoTo(Input) \subseteq Full
    BY DEF MayGoTo, Index
  <2>2. QED
    BY <2>1, InputIs, Zenon DEF PollP2p, JInv, Joined
<1>2. CASE WriteTo(i, <<Reply>>)
  BY <1>1, <1>2, ReplyTalks
<1>3. ASSUME NEW s \in Slots \ {i}, WriteTo(s, Input)
      PROVE  Upstream' /\ Roomy' /\ Reaches'
  <2>1. PICK K \in SUBSET {Of(s)} : Sends(K, Input)
    BY <1>1, <1>3, WriteToSends DEF JInv
  <2>2. Input[1].kind = "p2p"
    <3>1. "p2p" \in CommandTypes(Input)
      BY <1>1, InputIs
    <3>2. QED
      BY <3>1 DEF CommandTypes
  <2>3. Len(Input) <= Len(Input)
    BY <1>1, InputIs
  <2>4. Roomy'
    BY <1>1, <2>1, <2>3, RoomySends
  <2>5. K \subseteq {Of(r) : r \in Slots \ {i}}
    BY <2>1
  <2>6. Reaches'
    BY <1>1, <2>1, <2>2, <2>5, SendsReach
  <2>7. QED
    BY <1>1, <2>4, <2>6, ReadsDrain
<1>4. QED
  BY <1>1, <1>2, <1>3

(* What the run assumes of its constants: a slot and a name for everybody, *)
(* and an administrator who types nothing.                                 *)
PlaceForAll ==
  /\ Cardinality(Clients) = MAX_USER
  /\ \E f \in [Clients -> Names] : Injective(f)
  /\ MaxAdmin = 0

LEMMA SeatsAre ==
  ASSUME PlaceForAll
  PROVE  /\ Seats \in [Slots -> Clients]
         /\ \A s, r \in Slots : s # r => Seats[s] # Seats[r]
         /\ \A k \in Clients : \E s \in Slots : Seats[s] = k
<1>1. IsFiniteSet(Slots) /\ Cardinality(Slots) = MAX_USER /\ IsFiniteSet(Clients)
  <2>1. 1 \in Int /\ MAX_USER \in Int /\ MAX_USER >= 1 /\ IsFiniteSet(Clients)
    BY ChatAssumption
  <2>2. /\ IsFiniteSet(1 .. MAX_USER)
        /\ Cardinality(1 .. MAX_USER) = IF 1 > MAX_USER THEN 0 ELSE MAX_USER - 1 + 1
    BY <2>1, FS_Interval
  <2>3. QED
    BY <2>1, <2>2 DEF Slots
<1>2. ExistsBijection(Slots, Clients)
  BY <1>1, FS_SameCardinalityBij DEF PlaceForAll
<1>3. \E f \in [Slots -> Clients] : Injective(f)
  BY <1>2 DEF ExistsBijection, Bijection, Injection, IsInjective, Injective
<1>4. Seats \in [Slots -> Clients] /\ Injective(Seats)
  BY <1>3 DEF Seats
<1>5. PICK f : f = Seats
  OBVIOUS
<1>6. f \in Injection(Slots, Clients)
  BY <1>4, <1>5 DEF Injection, IsInjective, Injective
<1>7. f \in Surjection(Slots, Clients)
  BY <1>1, <1>6, FS_Injection DEF PlaceForAll
<1>8. QED
  <2>1. \A s, r \in Slots : s # r => Seats[s] # Seats[r]
    BY <1>4 DEF Injective
  <2>2. \A k \in Clients : \E s \in Slots : Seats[s] = k
    BY <1>5, <1>7 DEF Surjection
  <2>3. QED
    BY <1>4, <2>1, <2>2

LEMMA TalkIsNext == PlaceForAll /\ [Talk]_vars => [Next]_vars
<1> SUFFICES ASSUME PlaceForAll, Talk PROVE Next
  OBVIOUS
<1>1. Talkers \subseteq Clients
  BY SeatsAre DEF Talkers
<1>2. QED
  BY <1>1 DEF Talk, Next, Person

LEMMA JoinedInit ==
  ASSUME PlaceForAll, RoomForAll, AllJoined
  PROVE  JInv
<1>1. PICK f : f = CHOOSE g \in [Clients -> Names] : Injective(g)
  OBVIOUS
<1>2. name = f /\ f \in [Clients -> Names] /\ Injective(f)
  BY <1>1 DEF AllJoined, PlaceForAll
<1>3. /\ user_list = [s \in Slots |-> [client |-> Seats[s], id |-> f[Seats[s]]]]
      /\ user_list \in [Slots -> Users] /\ NoUser \notin Users
  BY <1>2, SeatsAre, ChatAssumption DEF AllJoined, User, Users
<1>4. Full = Slots /\ \A s \in Slots : Of(s) = Seats[s] /\ user_list[s].id = f[Seats[s]]
  BY <1>3 DEF Full, Of
<1>5. ~Over /\ Joined
  BY <1>4 DEF AllJoined, Over, Joined
<1>6. RosterAgrees
  <2>1. \A s, r \in Slots : s # r => f[Seats[s]] # f[Seats[r]] /\ Seats[s] # Seats[r]
    BY <1>2, SeatsAre DEF Injective
  <2>2. \A s \in Slots : Of(s) \in Clients
    BY <1>4, SeatsAre
  <2>3. \A k \in Clients : \E s \in Full : Of(s) = k
    BY <1>4, SeatsAre
  <2>4. QED
    BY <1>4, <1>5, <2>1, <2>2, <2>3 DEF RosterAgrees, Joined
<1>7. IInv
  <2>1. RosterType
    BY <1>2, <1>3 DEF AllJoined, RosterType, Member
  <2>2. Called
    BY DEF AllJoined, Called
  <2>3. LetIn
    BY <1>4, SeatsAre DEF AllJoined, LetIn, Member
  <2>4. Forked
    BY DEF AllJoined, Forked
  <2>5. QED
    BY <1>6, <2>1, <2>2, <2>3, <2>4 DEF IInv
<1>8. Loops
  <2>1. 1 \in Slots /\ 0 \in 0 .. MaxAdmin
    BY ChatAssumption DEF Slots
  <2>2. QED
    BY <2>1 DEF AllJoined, Loops
<1>9. /\ typed = 0 /\ shown = [k \in Clients |-> <<>>]
      /\ \A k \in Clients : /\ toServer[k] = <<>> /\ fromUser[k] = <<>>
                            /\ toUser[k] = <<>> /\ fromServer[k] = <<>>
  BY DEF AllJoined
<1>10. Flow
  <2>1. <<>> \in Seq(Lines) /\ Len(<<>>) <= PipeSize /\ 0 \in 0 .. MaxLines
    BY ChatAssumption
  <2>2. [k \in Clients |-> <<>>] \in [Clients -> Seq(Lines)]
    BY <2>1
  <2>3. QED
    BY <2>1, <2>2 DEF AllJoined, Flow, ArePipes
<1>11. Upstream
  <2>1. \A k \in Clients : <<>> \in Seq(Own(k))
    OBVIOUS
  <2>2. QED
    BY <1>9, <2>1 DEF Upstream
<1>12. Roomy
  <2>1. PICK e : e = <<>>
    OBVIOUS
  <2>2. Len(e) = 0 /\ 0 + 0 = 0 /\ 0 + 0 + 0 <= 0
    BY <2>1
  <2>3. \A k \in Clients : Unheard(k) = 0
    BY <1>9, <2>1, <2>2, Zenon DEF Unheard
  <2>4. Pool = {}
    BY <2>3 DEF Pool
  <2>5. Cardinality(Pool) = 0
    BY <2>4, FS_EmptySet
  <2>6. QED
    BY <1>9, <2>1, <2>2, <2>5, Zenon DEF Roomy
<1>13. Reaches
  <2>1. PICK e : e = <<>>
    OBVIOUS
  <2>2. e \o e = e /\ Typed(e) = e /\ Len(e) = 0
    BY <2>1, TypedNothing
  <2>3. \A k \in Clients : Hears(k) = e
    BY <1>9, <2>1, <2>2, Zenon DEF Hears, Pending
  <2>4. \A k \in Clients : 1 .. Len(Hears(k)) = {}
    BY <2>2, <2>3
  <2>5. QED
    BY <2>4 DEF Reaches
<1>14. QED
  BY <1>5, <1>7, <1>8, <1>10, <1>11, <1>12, <1>13 DEF JInv

(* Neither the pipes nor who is in the room change. *)
LEMMA IdleTalks ==
  ASSUME JInv, Flow', UNCHANGED <<pipes, typed, shown, user_list>>
  PROVE  Upstream' /\ Roomy' /\ Reaches'
<1>1. UNCHANGED <<fromUser, toServer, fromServer, toUser, typed, shown, user_list>>
  BY DEF pipes
<1>2. Upstream'
  BY <1>1 DEF JInv, Upstream
<1>3. Roomy'
  BY <1>1 DEF JInv, Roomy, Pool, Unheard
<1>4. \A k \in Clients : Hears(k)' = Hears(k)
  BY <1>1 DEF Hears, Pending
<1>5. QED
  BY <1>1, <1>2, <1>3, <1>4, SameHears

(* The steps of a room that nobody joins or leaves. *)
LEMMA TalkIs ==
  ASSUME JInv, PlaceForAll, [Talk]_vars
  PROVE  /\ UNCHANGED <<client, conn, child, user_list, caller>>
         /\ server' \in {"connect", "admin", "poll"}
         /\ \/ UNCHANGED <<pipes, typed, shown, user_list>>
            \/ \E k \in Clients : RelayToServer(k) \/ RelayToUser(k) \/ Show(k)
            \/ \E k \in Clients, to \in Names \cup {NoName} : \E kind : Type(k, kind, to)
            \/ PollList \/ PollP2p \/ PollBroadcast
<1> DEFINE Stays == /\ UNCHANGED <<client, conn, child, user_list, caller>>
                    /\ server' \in {"connect", "admin", "poll"}
<1>1. /\ \A k \in Clients : client[k] = "chatting" /\ child[k] /\ conn[k] = "accepted"
      /\ server \in {"connect", "admin", "poll"} /\ caller = NoUser /\ Full = Slots
      /\ lines \in 0 .. 0
  BY DEF JInv, Joined, Loops, PlaceForAll
<1>2. ~AdminLine
  BY <1>1 DEF AdminLine, PlaceForAll
<1>3. \A k \in Clients : /\ ~AwaitName(k) /\ ~CallLost(k) /\ ~Accept(k)
                         /\ ~Refused(k) /\ ~EndOfFile(k)
  BY <1>1 DEF AwaitName, CallLost, Accept, Queued, Refused, EndOfFile, HasWriter
<1>4. ~PollLeftover /\ ~PollDead
  BY <1>1, SeatedIs DEF PollLeftover, PollDead, DeadInSlot
<1>5. ~PollExit
  BY NoExitTyped DEF PollExit
<1>6. CASE Server
  <2>1. \/ AcceptNobody \/ AdminSilent \/ PollNothing
        \/ PollList \/ PollP2p \/ PollBroadcast
    BY <1>2, <1>3, <1>4, <1>5, <1>6
       DEF Server, Reject, Join, ForkFails, AdminEmpty, AdminList, AdminNotice, AdminExit,
           AdminKick, AdminCommand
  <2>2. ASSUME NextSlot PROVE server' \in {"connect", "admin", "poll"}
    BY <1>1, <2>2 DEF NextSlot
  <2>3. CASE AcceptNobody \/ AdminSilent \/ PollNothing
    BY <1>1, <2>2, <2>3 DEF AcceptNobody, AdminSilent, PollNothing, roster
  <2>4. CASE PollList \/ PollP2p \/ PollBroadcast
    <3>1. Consume /\ NextSlot
      BY <2>4 DEF PollList, PollP2p, PollBroadcast, PollUser
    <3>2. QED
      BY <2>2, <2>4, <3>1 DEF Consume
  <2>5. QED
    BY <2>1, <2>3, <2>4
<1>7. ASSUME NEW k \in Clients, Child(k) \/ Client(k)
      PROVE  Stays /\ (RelayToServer(k) \/ RelayToUser(k) \/ Show(k))
  BY <1>1, <1>3, <1>7 DEF Child, Client, RelayToServer, RelayToUser, Show, roster
<1>8. ASSUME NEW k \in Clients, NEW kind, NEW to, Type(k, kind, to)
      PROVE  Stays
  BY <1>1, <1>8 DEF Type, roster
<1>9. CASE \E k \in Talkers, kind \in {"text", "list"} : Type(k, kind, NoName)
  BY <1>8, <1>9, SeatsAre DEF Talkers
<1>10. CASE \E k \in Talkers, to \in Names \cup {NoName} : Type(k, "p2p", to)
  BY <1>8, <1>10, SeatsAre DEF Talkers
<1>11. CASE UNCHANGED vars
  BY <1>1, <1>11 DEF vars, roster
<1>12. QED
  BY <1>6, <1>7, <1>9, <1>10, <1>11 DEF Talk

LEMMA TalkStep ==
  ASSUME JInv, PlaceForAll, [Talk]_vars
  PROVE  JInv'
<1>1. [Next]_vars
  BY TalkIsNext
<1>2. IInv' /\ Loops' /\ Flow'
  BY <1>1, RosterStep, LoopsStep, FlowStep DEF JInv
<1>3. Joined' /\ RoomForAll' /\ user_list' = user_list
  BY TalkIs DEF JInv, Joined, Full, RoomForAll
<1>4. SUFFICES Upstream' /\ Roomy' /\ Reaches'
  BY <1>2, <1>3 DEF JInv
<1>5. CASE UNCHANGED <<pipes, typed, shown, user_list>>
  BY <1>2, <1>5, IdleTalks
<1>6. CASE PollList
  BY <1>2, <1>6, ReplyTalks DEF PollList
<1>7. QED
  BY <1>2, <1>3, <1>5, <1>6, TalkIs, RelayToServerTalks, RelayToUserTalks, ShowTalks,
     TypeTalks, PollP2pTalks, PollBroadcastTalks

(* As long as the pipes have room and nobody comes or goes, a text that    *)
(* one user gets has been sent to all but its author, or was read behind a *)
(* private line of its author (server.c:148-162, 474-516).                 *)
THEOREM BroadcastReaches ==
  ASSUME PlaceForAll
  PROVE  JoinedSpec => []BroadcastReachesAll
<1>1. CASE RoomForAll
  <2>1. AllJoined => JInv
    BY <1>1, JoinedInit
  <2>2. JInv /\ [Talk]_vars => JInv'
    BY TalkStep
  <2>3. JInv => BroadcastReachesAll
    <3>1. SUFFICES ASSUME JInv PROVE BroadcastReachesAll
      OBVIOUS
    <3>2. \A k \in Clients : R!Heard(k) = Hears(k)
      BY DEF R!Heard, Hears, Pending
    <3>3. Full = Slots /\ \A s \in Slots : Of(s) \in Clients
      BY <3>1, SeatedIs DEF JInv, Joined
    <3>4. Reaches
      BY <3>1 DEF JInv
    <3>5. QED
      BY <3>2, <3>3, <3>4 DEF BroadcastReachesAll, Reaches
  <2>4. QED
    BY <2>1, <2>2, <2>3, PTL DEF JoinedSpec
<1>2. CASE ~RoomForAll
  <2>1. BroadcastReachesAll
    BY <1>2 DEF RoomForAll, BroadcastReachesAll
  <2>2. QED
    BY <2>1, PTL
<1>3. QED
  BY <1>1, <1>2
=============================================================================
