------------------------------- MODULE MCChat -------------------------------
(* Initial states, and symmetry of the clients and of the names, for Chat. *)
EXTENDS Chat, TLC

Symmetry == Permutations(Clients) \cup Permutations(Names)

Injective(f) == \A x, y \in DOMAIN f : f[x] = f[y] => x = y

(* Who sits in which slot. *)
Seats == CHOOSE f \in [Slots -> Clients] : Injective(f)
Talkers == {Seats[s] : s \in {1, 2} \cap Slots}

(* The room once all clients have joined, and what goes on in it while   *)
(* nobody joins or leaves, and only the users in the first two slots type. *)
AllJoined ==
  /\ name = CHOOSE f \in [Clients -> Names] : Injective(f)
  /\ client = [k \in Clients |-> "chatting"]
  /\ conn = [k \in Clients |-> "accepted"]
  /\ child = [k \in Clients |-> TRUE]
  /\ turn = [k \in Clients |-> "user"]
  /\ fromUser = [k \in Clients |-> <<>>]
  /\ toServer = [k \in Clients |-> <<>>]
  /\ fromServer = [k \in Clients |-> <<>>]
  /\ toUser = [k \in Clients |-> <<>>]
  /\ server = "connect" /\ i = 1 /\ caller = NoUser
  /\ user_list = [s \in Slots |-> User(Seats[s], name[Seats[s]])]
  /\ user_id = NoName /\ blank = FALSE
  /\ heirs = [k \in Clients |-> {}]
  /\ typed = 0 /\ lines = 0
  /\ shown = [k \in Clients |-> <<>>]

Talk ==
  \/ Server
  \/ \E k \in Clients : Child(k) \/ Client(k)
  \/ \E k \in Talkers, kind \in {"text", "list"} : Type(k, kind, NoName)
  \/ \E k \in Talkers, to \in Names \cup {NoName} : Type(k, "p2p", to)

JoinedSpec == AllJoined /\ [][Talk]_vars
=============================================================================
