--------------------------- MODULE ChatHubProofs ---------------------------
(***************************************************************************)
(* Proofs about the chat server: the rooms and the locations agree, whom   *)
(* the hub has let go stays out, and the zero Client turns up only in the  *)
(* name of a client that was kicked; for any clients, rooms, sizes of      *)
(* channels and chunks.                                                    *)
(***************************************************************************)
EXTENDS ChatHub, TLAPS

-----------------------------------------------------------------------------
(* Bags *)

LEMMA SetsAreBags ==
  ASSUME NEW S
  PROVE  IsABag(SetToBag(S)) /\ BagToSet(SetToBag(S)) = S
  BY DEF IsABag, SetToBag, BagToSet

LEMMA BagsAdd ==
  ASSUME NEW A, NEW B, IsABag(A), IsABag(B)
  PROVE  IsABag(A (+) B) /\ BagToSet(A (+) B) = BagToSet(A) \cup BagToSet(B)
<1> DEFINE n(e) == (IF e \in DOMAIN A THEN A[e] ELSE 0) + (IF e \in DOMAIN B THEN B[e] ELSE 0)
<1>1. A (+) B = [e \in DOMAIN A \cup DOMAIN B |-> n(e)]
  BY DEF (+)
<1>2. \A e \in DOMAIN A \cup DOMAIN B : n(e) \in Nat /\ n(e) > 0
  BY DEF IsABag
<1> HIDE DEF n
<1> QED BY <1>1, <1>2 DEF IsABag, BagToSet

LEMMA BagsSubtract ==
  ASSUME NEW A, NEW B, IsABag(A), IsABag(B)
  PROVE  IsABag(A (-) B) /\ BagToSet(A (-) B) \subseteq BagToSet(A)
<1> DEFINE n == [e \in DOMAIN A |-> IF e \in DOMAIN B THEN A[e] - B[e] ELSE A[e]]
<1>1. A (-) B = [e \in {d \in DOMAIN n : n[d] > 0} |-> n[e]]
  BY DEF (-)
<1>2. \A e \in DOMAIN A : n[e] \in Int
  BY DEF IsABag
<1>3. DOMAIN n = DOMAIN A
  OBVIOUS
<1> HIDE DEF n
<1> QED BY <1>1, <1>2, <1>3 DEF IsABag, BagToSet

\* A worker that goes on leaves the others alone.
LEMMA OneGoesOn ==
  ASSUME IsABag(workers), NEW k, NEW w, GoesOn(k, w)
  PROVE  IsABag(workers') /\ BagToSet(workers') \subseteq BagToSet(workers) \cup {w}
<1> DEFINE rest == workers (-) SetToBag({k})
           more == IF w.left = {} THEN EmptyBag ELSE SetToBag({w})
<1>1. IsABag(rest) /\ BagToSet(rest) \subseteq BagToSet(workers)
  BY SetsAreBags, BagsSubtract
<1>2. IsABag(more) /\ BagToSet(more) \subseteq {w}
  BY SetsAreBags DEF EmptyBag
<1>3. workers' = rest (+) more
  BY DEF GoesOn
<1> HIDE DEF rest, more
<1> QED BY <1>1, <1>2, <1>3, BagsAdd

\* The workers of a broadcast serve whom it is for, and know the zero Clients.
LEMMA WorkersServe ==
  ASSUME NEW S \in SUBSET Clients, NEW P \in Chunkings(S), NEW ghosts
  PROVE  /\ IsABag(Workers(P, ghosts))
         /\ BagToSet(Workers(P, ghosts)) \subseteq Worker
         /\ \A k \in BagToSet(Workers(P, ghosts)) : k.ghosts \subseteq ghosts
<1> DEFINE team == {[left |-> A, ghosts |-> A \cap ghosts, kicking |-> None] : A \in P}
<1>1. \A A \in P : A \subseteq Clients
  BY DEF Chunkings
<1>2. team \subseteq Worker /\ \A k \in team : k.ghosts \subseteq ghosts
  BY <1>1 DEF Worker
<1>3. Workers(P, ghosts) = SetToBag(team)
  BY DEF Workers
<1> HIDE DEF team
<1> QED BY <1>2, <1>3, SetsAreBags

-----------------------------------------------------------------------------
(* The inductive invariant *)

\* The hub hears of a client before its reader starts, and of no client twice.
Arrival ==
  /\ acceptor.pc # "listening" =>
       /\ acceptor.client \in Clients
       /\ reader[acceptor.client].pc = "none"
       /\ conn[acceptor.client] # "new"
  /\ acceptor.pc = "starting" =>
       where[acceptor.client] # None \/ acceptor.client \in kicked
  /\ \A c \in Clients : conn[c] = "new" => reader[c].pc = "none"

\* Who may still send the hub a line is known to it or was kicked.
KnownOrKicked ==
  \A c \in Clients :
    reader[c].pc \in {"reading", "sending", "leaving"} => where[c] # None \/ c \in kicked

GhostsWereKicked == \A k \in BagToSet(workers) : k.ghosts \subseteq kicked

RepliesToClients == hub.pc = "replying" => hub.to \in Clients

HubInv ==
  /\ TypeOK
  /\ RoomsAgree
  /\ Arrival
  /\ DepartedStaysOut
  /\ KnownOrKicked
  /\ GhostsWereKicked
  /\ RepliesToClients
  /\ ZeroClientsWereKicked

LEMMA HubInit == ChatAssumption /\ Init => HubInv
<1> SUFFICES ASSUME ChatAssumption, Init PROVE HubInv
  OBVIOUS
<1>1. IsABag(workers) /\ BagToSet(workers) = {}
  BY SetsAreBags DEF Init, EmptyBag
<1>2. TypeOK
  BY <1>1 DEF Init, TypeOK, ChatAssumption, NoLine
<1> QED BY <1>1, <1>2 DEF Init, HubInv, RoomsAgree, Arrival, DepartedStaysOut, KnownOrKicked,
             GhostsWereKicked, RepliesToClients, ZeroClientsWereKicked, ChatAssumption

-----------------------------------------------------------------------------
(* The steps that leave the hub's maps alone *)

\* What the invariant says of the workers.
Staff(B) ==
  /\ IsABag(B) /\ BagToSet(B) \subseteq Worker
  /\ \A k \in BagToSet(B) : k.ghosts \subseteq kicked

LEMMA InvStaff == HubInv => Staff(workers)
  BY DEF HubInv, TypeOK, GhostsWereKicked, Staff

LEMMA AcceptStep ==
  ASSUME ChatAssumption, HubInv, NEW c \in Clients, Accept(c) PROVE HubInv'
<1> USE DEF Accept, HubInv, clientVars, roomVars
<1>1. TypeOK'
  BY DEF TypeOK
<1>2. Arrival'
  BY DEF Arrival, TypeOK
<1> QED BY <1>1, <1>2 DEF RoomsAgree, DepartedStaysOut, KnownOrKicked, GhostsWereKicked,
             RepliesToClients, ZeroClientsWereKicked, Nil

LEMMA StartReaderStep ==
  ASSUME ChatAssumption, HubInv, StartReader PROVE HubInv'
<1> USE DEF StartReader, HubInv, clientVars, roomVars
<1>1. TypeOK'
  BY DEF TypeOK, ChatAssumption, Arrival
<1>2. Arrival'
  BY DEF Arrival, TypeOK
<1>3. DepartedStaysOut' /\ KnownOrKicked'
  BY DEF Arrival, TypeOK, DepartedStaysOut, KnownOrKicked
<1> QED BY <1>1, <1>2, <1>3 DEF RoomsAgree, GhostsWereKicked,
             RepliesToClients, ZeroClientsWereKicked, Nil

LEMMA ReaderSteps ==
  ASSUME ChatAssumption, HubInv, NEW c \in Clients,
         HangUp(c) \/ Fill(c) \/ ReaderStep(c)
  PROVE  HubInv'
<1> USE DEF HubInv, clientVars, roomVars
<1>1. TypeOK'
  <2>1. CASE HangUp(c)
    BY <2>1 DEF HangUp, TypeOK
  <2>2. CASE Fill(c)
    BY <2>2 DEF Fill, TypeOK, ChatAssumption
  <2>3. ASSUME NEW line \in Lines, ReadLine(c, line) PROVE TypeOK'
    BY <2>3 DEF ReadLine, TypeOK, ChatAssumption
  <2>4. CASE ReadFails(c)
    BY <2>4 DEF ReadFails, TypeOK
  <2> QED BY <2>1, <2>2, <2>3, <2>4 DEF ReaderStep
<1>2. Arrival'
  <2>1. \A d \in Clients : reader[d].pc = "none" => reader'[d].pc = "none"
    BY DEF HangUp, Fill, ReaderStep, ReadLine, ReadFails, TypeOK
  <2>2. \A d \in Clients : conn'[d] = "new" <=> conn[d] = "new"
    BY DEF HangUp, Fill, ReaderStep, ReadLine, ReadFails, TypeOK
  <2>3. UNCHANGED <<acceptor, where, kicked>>
    BY DEF HangUp, Fill, ReaderStep, ReadLine, ReadFails
  <2> QED BY <2>1, <2>2, <2>3 DEF Arrival
<1>3. DepartedStaysOut'
  BY DEF HangUp, Fill, ReaderStep, ReadLine, ReadFails, DepartedStaysOut, TypeOK
<1>4. KnownOrKicked'
  BY DEF HangUp, Fill, ReaderStep, ReadLine, ReadFails, KnownOrKicked, TypeOK
<1>5. UNCHANGED <<up, acceptor, writer, queue, roomVars, hub, workers, kicked>>
  BY DEF HangUp, Fill, ReaderStep, ReadLine, ReadFails
<1> QED BY <1>1, <1>2, <1>3, <1>4, <1>5 DEF RoomsAgree, GhostsWereKicked,
             RepliesToClients, ZeroClientsWereKicked, Nil

LEMMA WriterSteps ==
  ASSUME ChatAssumption, HubInv, NEW c \in Clients, WriterStep(c) PROVE HubInv'
<1> USE DEF HubInv, clientVars, roomVars
<1>1. TypeOK'
  BY DEF WriterStep, Receive, Write, WriteFails, TypeOK, ChatAssumption
<1>2. Arrival'
  BY DEF WriterStep, Receive, Write, WriteFails, Arrival, TypeOK
<1>3. UNCHANGED <<up, acceptor, reader, roomVars, hub, workers, kicked>>
  BY DEF WriterStep, Receive, Write, WriteFails
<1> QED BY <1>1, <1>2, <1>3 DEF RoomsAgree, DepartedStaysOut, KnownOrKicked, GhostsWereKicked,
             RepliesToClients, ZeroClientsWereKicked, Nil

\* One worker goes on as w: as long as w has no zero Client that was not kicked.
LEMMA StaffGoesOn ==
  ASSUME HubInv, NEW k \in BagToSet(workers), NEW w \in Worker, GoesOn(k, w),
         kicked \subseteq kicked', w.ghosts \subseteq kicked'
  PROVE  Staff(workers)'
<1>1. Staff(workers) /\ IsABag(workers)
  BY InvStaff DEF Staff
<1>2. IsABag(workers') /\ BagToSet(workers') \subseteq BagToSet(workers) \cup {w}
  BY <1>1, OneGoesOn
<1> QED BY <1>1, <1>2 DEF Staff

LEMMA PostStep ==
  ASSUME ChatAssumption, HubInv, NEW k \in BagToSet(workers), NEW c \in Clients, Post(k, c)
  PROVE  HubInv'
<1>1. k \in Worker /\ k.ghosts \subseteq kicked
  BY InvStaff DEF Staff
<1>2. PICK w \in Worker : GoesOn(k, w) /\ w.ghosts = k.ghosts
  <2>1. [k EXCEPT !.left = @ \ {c}] \in Worker /\ [k EXCEPT !.left = @ \ {c}].ghosts = k.ghosts
    BY <1>1 DEF Worker
  <2>2. [k EXCEPT !.kicking = c] \in Worker /\ [k EXCEPT !.kicking = c].ghosts = k.ghosts
    BY <1>1 DEF Worker
  <2> QED BY <2>1, <2>2 DEF Post
<1>3. UNCHANGED <<up, conn, acceptor, clientVars, writer, roomVars, hub, kicked>>
  BY DEF Post
<1>4. Staff(workers)'
  BY <1>1, <1>2, <1>3, StaffGoesOn
<1>5. queue' \in [Clients -> 0..Capacity]
  BY DEF Post, HubInv, TypeOK, ChatAssumption
<1> QED BY <1>3, <1>4, <1>5 DEF HubInv, TypeOK, Staff, clientVars, roomVars, RoomsAgree, Arrival,
             DepartedStaysOut, KnownOrKicked, GhostsWereKicked,
             RepliesToClients, ZeroClientsWereKicked, Nil

\* The process ends only of a zero Client: somebody was kicked.
LEMMA PostToGhostStep ==
  ASSUME ChatAssumption, HubInv, NEW k \in BagToSet(workers), NEW c \in Clients, PostToGhost(k, c)
  PROVE  HubInv'
<1>1. c \in kicked
  BY InvStaff DEF Staff, PostToGhost
<1> QED BY <1>1 DEF PostToGhost, HubInv, TypeOK, clientVars, roomVars, RoomsAgree, Arrival,
             DepartedStaysOut, KnownOrKicked, GhostsWereKicked,
             RepliesToClients, ZeroClientsWereKicked, Nil

-----------------------------------------------------------------------------
(* The steps of the hub *)

\* A broadcast: its workers join the others.
LEMMA StaffGrows ==
  ASSUME NEW B, Staff(B), NEW S \in SUBSET Clients, NEW P \in Chunkings(S),
         NEW ghosts \in SUBSET kicked
  PROVE  Staff(B (+) Workers(P, ghosts))
<1>1. /\ IsABag(Workers(P, ghosts))
      /\ BagToSet(Workers(P, ghosts)) \subseteq Worker
      /\ \A k \in BagToSet(Workers(P, ghosts)) : k.ghosts \subseteq ghosts
  BY WorkersServe
<1>2. IsABag(B)
  BY DEF Staff
<1>3. /\ IsABag(B (+) Workers(P, ghosts))
      /\ BagToSet(B (+) Workers(P, ghosts)) = BagToSet(B) \cup BagToSet(Workers(P, ghosts))
  BY <1>1, <1>2, BagsAdd
<1> QED BY <1>1, <1>3 DEF Staff

LEMMA OthersAreClients ==
  ASSUME TypeOK, NEW r \in Rooms \cup {None}, NEW c
  PROVE  Others(r, c) \in SUBSET Clients
  BY DEF TypeOK, Others

\* Whoever moves is in the room its location names, and in no other.
LEMMA MovingKeepsTheMaps ==
  ASSUME ChatAssumption, TypeOK, RoomsAgree, NEW c \in Clients, NEW r \in Rooms,
         rooms' = Moved(c, r), where' = [where EXCEPT ![c] = r]
  PROVE  /\ rooms' \in [Rooms -> SUBSET Clients] /\ where' \in [Clients -> Rooms \cup {None}]
         /\ RoomsAgree'
  BY DEF ChatAssumption, TypeOK, RoomsAgree, Moved

LEMMA RemovingKeepsTheMaps ==
  ASSUME ChatAssumption, TypeOK, RoomsAgree, NEW c \in Clients,
         rooms' = [r \in Rooms |-> rooms[r] \ {c}], where' = [where EXCEPT ![c] = None]
  PROVE  /\ rooms' \in [Rooms -> SUBSET Clients] /\ where' \in [Clients -> Rooms \cup {None}]
         /\ RoomsAgree'
  BY DEF ChatAssumption, TypeOK, RoomsAgree

LEMMA ComerStep ==
  ASSUME ChatAssumption, HubInv, HandlesComer PROVE HubInv'
<1> DEFINE c == acceptor.client
<1>1. /\ c \in Clients /\ reader[c].pc = "none" /\ conn[c] # "new"
      /\ acceptor' = [acceptor EXCEPT !.pc = "starting"]
      /\ rooms' = Moved(c, Default) /\ where' = [where EXCEPT ![c] = Default]
      /\ UNCHANGED <<up, conn, clientVars, writer, queue, hollow, hub, kicked>>
      /\ HubIdle
  BY DEF HandlesComer, HubInv, Arrival
<1>2. /\ rooms' \in [Rooms -> SUBSET Clients] /\ where' \in [Clients -> Rooms \cup {None}]
      /\ RoomsAgree'
  <2> HIDE DEF c
  <2> QED BY <1>1, MovingKeepsTheMaps DEF HubInv, ChatAssumption
<1>3. Staff(workers)'
  <2>1. PICK P \in Chunkings(Others(Default, c)) : workers' = workers (+) Workers(P, hollow)
    BY DEF HandlesComer
  <2>2. Others(Default, c) \in SUBSET Clients
    BY OthersAreClients DEF HubInv, ChatAssumption
  <2>3. Staff(workers (+) Workers(P, hollow))
    BY <2>2, InvStaff, StaffGrows DEF HubInv, ZeroClientsWereKicked
  <2> QED BY <1>1, <2>1, <2>3 DEF Staff
<1>4. Arrival' /\ KnownOrKicked' /\ DepartedStaysOut'
  BY <1>1, <1>2 DEF HubInv, TypeOK, Arrival, KnownOrKicked, DepartedStaysOut, clientVars, ChatAssumption
<1>5. TypeOK'
  BY <1>1, <1>2, <1>3 DEF HubInv, TypeOK, Staff, clientVars
<1> QED BY <1>1, <1>2, <1>3, <1>4, <1>5 DEF HubInv, GhostsWereKicked, Staff,
             RepliesToClients, ZeroClientsWereKicked, Nil, HubIdle

LEMMA LeaverStep ==
  ASSUME ChatAssumption, HubInv, NEW c \in Clients, HandlesLeaver(c) PROVE HubInv'
<1>1. /\ reader[c].pc = "leaving" /\ reader' = [reader EXCEPT ![c].pc = "gone"]
      /\ conn' = [conn EXCEPT ![c] = "closed"]
      /\ rooms' = [r \in Rooms |-> rooms[r] \ {c}] /\ where' = [where EXCEPT ![c] = None]
      /\ UNCHANGED <<up, acceptor, buffer, typed, writer, queue, hollow, hub, kicked>>
      /\ HubIdle
  BY DEF HandlesLeaver
<1>2. /\ rooms' \in [Rooms -> SUBSET Clients] /\ where' \in [Clients -> Rooms \cup {None}]
      /\ RoomsAgree'
  BY <1>1, RemovingKeepsTheMaps DEF HubInv
<1>3. Staff(workers)'
  <2>1. PICK P \in Chunkings(Others(where[c], c)) : workers' = workers (+) Workers(P, hollow)
    BY DEF HandlesLeaver
  <2>2. Others(where[c], c) \in SUBSET Clients
    BY OthersAreClients DEF HubInv, TypeOK
  <2>3. Staff(workers (+) Workers(P, hollow))
    BY <2>2, InvStaff, StaffGrows DEF HubInv, ZeroClientsWereKicked
  <2> QED BY <1>1, <2>1, <2>3 DEF Staff
<1>4. Arrival' /\ KnownOrKicked' /\ DepartedStaysOut'
  BY <1>1, <1>2 DEF HubInv, TypeOK, Arrival, KnownOrKicked, DepartedStaysOut
<1>5. TypeOK'
  BY <1>1, <1>2, <1>3 DEF HubInv, TypeOK, Staff
<1> QED BY <1>1, <1>2, <1>3, <1>4, <1>5 DEF HubInv, GhostsWereKicked, Staff,
             RepliesToClients, ZeroClientsWereKicked, Nil, HubIdle

LEMMA KickStep ==
  ASSUME ChatAssumption, HubInv, NEW k \in BagToSet(workers), HandlesKick(k) PROVE HubInv'
<1> DEFINE c == k.kicking
           w == [k EXCEPT !.left = @ \ {k.kicking}, !.kicking = None]
<1>1. /\ c # None
      /\ conn' = [conn EXCEPT ![c] = "closed"]
      /\ rooms' = [r \in Rooms |-> rooms[r] \ {c}] /\ where' = [where EXCEPT ![c] = None]
      /\ kicked' = kicked \cup {c} /\ GoesOn(k, w)
      /\ UNCHANGED <<up, acceptor, clientVars, writer, queue, hollow, hub>>
      /\ HubIdle
  BY DEF HandlesKick
<1>2. c \in Clients /\ w \in Worker /\ w.ghosts \subseteq kicked
  BY <1>1, InvStaff DEF Staff, Worker
<1> HIDE DEF c, w
<1>3. /\ rooms' \in [Rooms -> SUBSET Clients] /\ where' \in [Clients -> Rooms \cup {None}]
      /\ RoomsAgree'
  BY <1>1, <1>2, RemovingKeepsTheMaps DEF HubInv
<1>4. Staff(workers)'
  BY <1>1, <1>2, StaffGoesOn
<1>5. Arrival' /\ KnownOrKicked' /\ DepartedStaysOut'
  BY <1>1, <1>2, <1>3 DEF HubInv, TypeOK, Arrival, KnownOrKicked, DepartedStaysOut, clientVars
<1>6. TypeOK'
  BY <1>1, <1>2, <1>3, <1>4 DEF HubInv, TypeOK, Staff, clientVars
<1> QED BY <1>1, <1>2, <1>3, <1>4, <1>5, <1>6 DEF HubInv, GhostsWereKicked, Staff,
             RepliesToClients, ZeroClientsWereKicked, Nil, HubIdle

\* A line of c has been taken up and left the maps in order, and c is added to the
\* zero Clients at most when it was kicked: what is left is the same for all lines.
LEMMA LineStep ==
  ASSUME ChatAssumption, HubInv, NEW c \in Clients, NEW kind, Takes(c, kind),
         rooms' \in [Rooms -> SUBSET Clients], where' \in [Clients -> Rooms \cup {None}],
         RoomsAgree',
         \A d \in Clients : where'[d] = where[d] \/ (d = c /\ where'[d] # None),
         hollow' \in SUBSET kicked, Staff(workers)',
         ReplyTo(c) \/ UNCHANGED hub
  PROVE  HubInv'
<1>1. /\ HubIdle /\ reader[c].pc = "sending"
      /\ reader' = [reader EXCEPT ![c] = [pc |-> "reading", line |-> NoLine]]
      /\ UNCHANGED <<up, conn, acceptor, buffer, typed, writer, queue, kicked>>
  BY DEF Takes
<1>2. hub' = hub \/ hub' = [pc |-> "replying", to |-> c]
  BY DEF ReplyTo
<1>3. TypeOK'
  <2>1. reader' \in [Clients -> [pc: {"none", "reading", "sending", "leaving", "gone"},
                                line: Lines \cup {NoLine}]]
    BY <1>1 DEF HubInv, TypeOK
  <2>2. hub' \in [pc: {"idle", "replying"}, to: Clients \cup {None}]
    BY <1>2 DEF HubInv, TypeOK
  <2>3. hollow' \subseteq Clients
    BY DEF HubInv, TypeOK
  <2> QED BY <1>1, <2>1, <2>2, <2>3 DEF HubInv, TypeOK, Staff
<1>4. Arrival' /\ KnownOrKicked' /\ DepartedStaysOut'
  <2>1. \A d \in Clients : d # c => reader'[d] = reader[d] /\ where'[d] = where[d]
    BY <1>1 DEF HubInv, TypeOK
  <2>2. reader'[c].pc = "reading" /\ (where'[c] = where[c] \/ where'[c] # None)
    BY <1>1 DEF HubInv, TypeOK
  <2> QED BY <1>1, <2>1, <2>2 DEF HubInv, Arrival, KnownOrKicked, DepartedStaysOut
<1>5. RepliesToClients'
  BY <1>2 DEF HubInv, RepliesToClients
<1>6. ZeroClientsWereKicked'
  <2>1. where'[c] = None => c \in kicked
    BY <1>1 DEF HubInv, KnownOrKicked
  <2>2. hub'.pc = "replying" => hub'.to = c
    BY <1>1, <1>2 DEF HubIdle
  <2> QED BY <1>1, <2>1, <2>2 DEF HubInv, ZeroClientsWereKicked, Nil
<1> QED BY <1>1, <1>3, <1>4, <1>5, <1>6 DEF HubInv, GhostsWereKicked, Staff

LEMMA MessageStep ==
  ASSUME ChatAssumption, HubInv, NEW c \in Clients, HandlesMessage(c) PROVE HubInv'
<1>1. Takes(c, "MSG") /\ UNCHANGED <<rooms, where, hollow, kicked>> /\ (ReplyTo(c) \/ UNCHANGED hub)
  BY DEF HandlesMessage, Takes, roomVars
<1>2. Staff(workers)'
  <2>1. PICK P \in Chunkings(Others(where[c], c)) : workers' = workers (+) Workers(P, hollow)
    BY DEF HandlesMessage
  <2>2. Others(where[c], c) \in SUBSET Clients
    BY OthersAreClients DEF HubInv, TypeOK
  <2>3. Staff(workers (+) Workers(P, hollow))
    BY <2>2, InvStaff, StaffGrows DEF HubInv, ZeroClientsWereKicked
  <2> QED BY <1>1, <2>1, <2>3 DEF Staff
<1>3. /\ rooms' \in [Rooms -> SUBSET Clients] /\ where' \in [Clients -> Rooms \cup {None}]
      /\ RoomsAgree' /\ hollow' \in SUBSET kicked
  BY <1>1 DEF HubInv, TypeOK, RoomsAgree, ZeroClientsWereKicked
<1> QED BY <1>1, <1>2, <1>3, LineStep

LEMMA JoinStep ==
  ASSUME ChatAssumption, HubInv, NEW c \in Clients, HandlesJoin(c) PROVE HubInv'
<1> DEFINE old == where[c]
           new == reader[c].line.room
           ghosts == IF old = None THEN hollow \cup {c} ELSE hollow
           left == IF old = Default THEN {} ELSE Others(old, c)
           told == (rooms[new] \ {c}) \cup (ghosts \cap {c})
<1>1. /\ Takes(c, "JOIN") /\ UNCHANGED kicked /\ ReplyTo(c)
      /\ rooms' = Moved(c, new) /\ where' = [where EXCEPT ![c] = new]
      /\ hollow' = ghosts
      /\ reader[c].pc = "sending" /\ reader[c].line.kind = "JOIN"
  BY DEF HandlesJoin, Takes
<1>2. new \in Rooms
  <2>1. reader[c].line \in Lines \cup {NoLine}
    BY DEF HubInv, TypeOK
  <2> QED BY <1>1, <2>1 DEF Lines, NoLine
<1>3. ghosts \in SUBSET kicked /\ hollow \in SUBSET kicked
  BY <1>1 DEF HubInv, KnownOrKicked, ZeroClientsWereKicked
<1>4. left \in SUBSET Clients /\ told \in SUBSET Clients
  <2>1. Others(old, c) \in SUBSET Clients
    BY OthersAreClients DEF HubInv, TypeOK
  <2> QED BY <1>2, <2>1 DEF HubInv, TypeOK
<1>5. Staff(workers)'
  <2>1. PICK P \in Chunkings(left), Q \in Chunkings(told) :
          workers' = workers (+) Workers(P, hollow) (+) Workers(Q, ghosts)
    BY DEF HandlesJoin
  <2> HIDE DEF left, told, ghosts
  <2>2. Staff(workers (+) Workers(P, hollow))
    BY <1>3, <1>4, InvStaff, StaffGrows
  <2>3. Staff(workers (+) Workers(P, hollow) (+) Workers(Q, ghosts))
    BY <1>3, <1>4, <2>2, StaffGrows
  <2> QED BY <1>1, <2>1, <2>3 DEF Staff
<1>6. /\ rooms' \in [Rooms -> SUBSET Clients] /\ where' \in [Clients -> Rooms \cup {None}]
      /\ RoomsAgree'
  <2> HIDE DEF new
  <2> QED BY <1>1, <1>2, MovingKeepsTheMaps DEF HubInv
<1>7. \A d \in Clients : where'[d] = where[d] \/ (d = c /\ where'[d] # None)
  BY <1>1, <1>2 DEF HubInv, TypeOK, ChatAssumption
<1> HIDE DEF ghosts
<1> QED BY <1>1, <1>3, <1>5, <1>6, <1>7, LineStep

LEMMA LeaveStep ==
  ASSUME ChatAssumption, HubInv, NEW c \in Clients, HandlesLeave(c) PROVE HubInv'
<1>1. Takes(c, "LEAVE") /\ UNCHANGED kicked /\ ReplyTo(c) /\ reader[c].pc = "sending"
  BY DEF HandlesLeave, Takes
<1>2. CASE where[c] = Default
  <2>1. UNCHANGED <<rooms, where, hollow, workers>>
    BY <1>2 DEF HandlesLeave, roomVars
  <2>2. /\ rooms' \in [Rooms -> SUBSET Clients] /\ where' \in [Clients -> Rooms \cup {None}]
        /\ RoomsAgree' /\ hollow' \in SUBSET kicked
    BY <2>1 DEF HubInv, TypeOK, RoomsAgree, ZeroClientsWereKicked
  <2>3. Staff(workers)'
    BY <1>1, <2>1, InvStaff DEF Staff
  <2> QED BY <1>1, <2>1, <2>2, <2>3, LineStep
<1>3. CASE where[c] # Default
  <2>1. /\ rooms' = Moved(c, Default) /\ where' = [where EXCEPT ![c] = Default]
        /\ hollow' = IF where[c] = None THEN hollow \cup {c} ELSE hollow
    BY <1>3 DEF HandlesLeave
  <2>2. hollow' \in SUBSET kicked
    BY <1>1, <2>1 DEF HubInv, KnownOrKicked, ZeroClientsWereKicked
  <2>3. Staff(workers)'
    <3>1. PICK P \in Chunkings(Others(where[c], c)) : workers' = workers (+) Workers(P, hollow)
      BY <1>3 DEF HandlesLeave
    <3>2. Others(where[c], c) \in SUBSET Clients
      BY OthersAreClients DEF HubInv, TypeOK
    <3>3. Staff(workers (+) Workers(P, hollow))
      BY <3>2, InvStaff, StaffGrows DEF HubInv, ZeroClientsWereKicked
    <3> QED BY <1>1, <3>1, <3>3 DEF Staff
  <2>4. /\ rooms' \in [Rooms -> SUBSET Clients] /\ where' \in [Clients -> Rooms \cup {None}]
        /\ RoomsAgree'
    BY <2>1, MovingKeepsTheMaps DEF HubInv, ChatAssumption
  <2>5. \A d \in Clients : where'[d] = where[d] \/ (d = c /\ where'[d] # None)
    BY <2>1 DEF HubInv, TypeOK, ChatAssumption
  <2> QED BY <1>1, <2>2, <2>3, <2>4, <2>5, LineStep
<1> QED BY <1>2, <1>3

LEMMA GetRoomsStep ==
  ASSUME ChatAssumption, HubInv, NEW c \in Clients, HandlesGetRooms(c) PROVE HubInv'
<1>1. /\ Takes(c, "GETROOMS") /\ UNCHANGED <<rooms, where, hollow, workers, kicked>>
      /\ ReplyTo(c)
  BY DEF HandlesGetRooms, Takes, roomVars
<1>2. Staff(workers)'
  BY <1>1, InvStaff DEF Staff
<1>3. /\ rooms' \in [Rooms -> SUBSET Clients] /\ where' \in [Clients -> Rooms \cup {None}]
      /\ RoomsAgree' /\ hollow' \in SUBSET kicked
  BY <1>1 DEF HubInv, TypeOK, RoomsAgree, ZeroClientsWereKicked
<1> QED BY <1>1, <1>2, <1>3, LineStep

LEMMA RepliesStep ==
  ASSUME ChatAssumption, HubInv, Replies PROVE HubInv'
<1> USE DEF Replies, HubInv, clientVars, roomVars
<1>1. TypeOK'
  BY DEF TypeOK, ChatAssumption, RepliesToClients
<1> QED BY <1>1 DEF RoomsAgree, Arrival, DepartedStaysOut, KnownOrKicked, GhostsWereKicked,
             RepliesToClients, ZeroClientsWereKicked, Nil

-----------------------------------------------------------------------------
(* The theorems *)

LEMMA HubStays == ChatAssumption /\ HubInv /\ [Next]_vars => HubInv'
<1> SUFFICES ASSUME ChatAssumption, HubInv, [Next]_vars PROVE HubInv'
  OBVIOUS
<1>1. CASE StartReader
  BY <1>1, StartReaderStep
<1>2. CASE HubStep
  BY <1>2, ComerStep, LeaverStep, MessageStep, JoinStep, LeaveStep, GetRoomsStep, KickStep,
     RepliesStep DEF HubStep
<1>3. CASE WorkerStep
  BY <1>3, PostStep, PostToGhostStep DEF WorkerStep
<1>4. ASSUME NEW c \in Clients,
             Accept(c) \/ HangUp(c) \/ Fill(c) \/ ReaderStep(c) \/ WriterStep(c)
      PROVE  HubInv'
  BY <1>4, AcceptStep, ReaderSteps, WriterSteps
<1>5. CASE UNCHANGED vars
  BY <1>5 DEF vars, clientVars, roomVars, HubInv, TypeOK, RoomsAgree, Arrival, DepartedStaysOut,
              KnownOrKicked, GhostsWereKicked, RepliesToClients, ZeroClientsWereKicked, Nil
<1> QED BY <1>1, <1>2, <1>3, <1>4, <1>5 DEF Next

LEMMA HubInvariance == Spec => []HubInv
<1>1. ChatAssumption
  BY ChatAssumption
<1> QED BY <1>1, HubInit, HubStays, PTL DEF Spec

\* Type correctness of the chat server.
THEOREM HubTypes == Spec => []TypeOK
<1>1. HubInv => TypeOK
  BY DEF HubInv
<1> QED BY <1>1, HubInvariance, PTL

\* The hub's two maps agree, whoever comes, moves, leaves and is kicked.
THEOREM RoomsStayTogether == Spec => []RoomsAgree
<1>1. HubInv => RoomsAgree
  BY DEF HubInv
<1> QED BY <1>1, HubInvariance, PTL

\* Nothing that reaches the hub late brings back a client that has left.
THEOREM Departures == Spec => []DepartedStaysOut
<1>1. HubInv => DepartedStaysOut
  BY DEF HubInv
<1> QED BY <1>1, HubInvariance, PTL

\* Without a kick there is no zero Client in a room, no reply to one, no crash.
THEOREM ZeroClients == Spec => []ZeroClientsWereKicked
<1>1. HubInv => ZeroClientsWereKicked
  BY DEF HubInv
<1> QED BY <1>1, HubInvariance, PTL
=============================================================================
