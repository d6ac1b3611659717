------------------------------ MODULE ChatHub ------------------------------
(***************************************************************************)
(* The chat server: the accept loop, one hub goroutine that owns the rooms,*)
(* a reader and a writer goroutine per client, and the broadcast workers   *)
(* the hub starts.                                                         *)
(*                                                                         *)
(* All channels but the clients' own are unbuffered: their sender waits    *)
(* until the hub takes the message up, and the hub takes up nothing while  *)
(* it waits itself.  A client's own channel (`queue', as a length: what is *)
(* in a message does not matter) is bounded and drained by its writer.     *)
(*                                                                         *)
(* A lookup in a Go map that finds nothing yields the zero Client, whose   *)
(* channel is nil: sending to it waits for ever, and asking its connection *)
(* for an address ends the process.  The hub can put one into a room under *)
(* a client's name; those names are in `hollow'.                           *)
(***************************************************************************)
EXTENDS Integers, FiniteSets, Bags

CONSTANTS
  Clients,     \* clients, by remote address
  Rooms,
  Default,     \* the room everybody starts in
  Slow,        \* clients to which a write may take more than its deadline
  Capacity,    \* size of a client's channel
  ChunkSize,   \* clients one broadcast worker serves
  MaxLines,    \* bound: lines that clients send
  None

ASSUME ChatAssumption ==
  /\ Default \in Rooms /\ Slow \subseteq Clients
  /\ Capacity \in Nat /\ ChunkSize \in Nat \ {0} /\ MaxLines \in Nat
  /\ None \notin Clients \cup Rooms

VARIABLES
  up,        \* the process runs
  conn,      \* client -> its connection: hungup by the client, closed by the server
  acceptor,  \* the accept loop: [pc, client]
  reader,    \* client -> [pc, line]
  buffer,    \* client -> lines read from the socket and not handled yet
  typed,     \* lines sent so far
  writer,    \* client -> its writer
  queue,     \* client -> messages in its channel
  rooms,     \* room -> names in it
  where,     \* client -> its room, the ClientLocations map
  hollow,    \* names whose entry is the zero Client
  hub,       \* [pc, to]: idle, or sending a reply
  workers,   \* bag of broadcast workers
  kicked     \* history: clients kicked

clientVars == <<reader, buffer, typed>>
roomVars == <<rooms, where, hollow>>
vars == <<up, conn, acceptor, clientVars, writer, queue, roomVars, hub, workers, kicked>>

-----------------------------------------------------------------------------
Lines == [kind: {"MSG", "LEAVE", "GETROOMS"}, room: {None}] \cup [kind: {"JOIN"}, room: Rooms]

NoLine == [kind |-> "none", room |-> None]

\* left: the clients still to be served; ghosts: those of them that are zero
\* Clients; kicking: whom the worker is having kicked.
Worker == [left: SUBSET Clients, ghosts: SUBSET Clients, kicking: Clients \cup {None}]

TypeOK ==
  /\ up \in BOOLEAN
  /\ conn \in [Clients -> {"new", "open", "hungup", "closed"}]
  /\ acceptor \in [pc: {"listening", "announcing", "starting"}, client: Clients \cup {None}]
  /\ reader \in [Clients -> [pc: {"none", "reading", "sending", "leaving", "gone"},
                             line: Lines \cup {NoLine}]]
  /\ buffer \in [Clients -> 0..MaxLines] /\ typed \in 0..MaxLines
  /\ writer \in [Clients -> {"none", "receiving", "writing", "gone"}]
  /\ queue \in [Clients -> 0..Capacity]
  /\ rooms \in [Rooms -> SUBSET Clients]
  /\ where \in [Clients -> Rooms \cup {None}]
  /\ hollow \subseteq Clients
  /\ hub \in [pc: {"idle", "replying"}, to: Clients \cup {None}]
  /\ IsABag(workers) /\ BagToSet(workers) \subseteq Worker
  /\ kicked \subseteq Clients

Init ==
  /\ up = TRUE
  /\ conn = [c \in Clients |-> "new"]
  /\ acceptor = [pc |-> "listening", client |-> None]
  /\ reader = [c \in Clients |-> [pc |-> "none", line |-> NoLine]]
  /\ buffer = [c \in Clients |-> 0]
  /\ typed = 0
  /\ writer = [c \in Clients |-> "none"]
  /\ queue = [c \in Clients |-> 0]
  /\ rooms = [r \in Rooms |-> {}]
  /\ where = [c \in Clients |-> None]
  /\ hollow = {}
  /\ hub = [pc |-> "idle", to |-> None]
  /\ workers = EmptyBag
  /\ kicked = {}

-----------------------------------------------------------------------------
(* The accept loop *)

Accept(c) ==
  /\ acceptor.pc = "listening"
  /\ conn[c] = "new"
  /\ conn' = [conn EXCEPT ![c] = "open"]
  /\ writer' = [writer EXCEPT ![c] = "receiving"]
  /\ acceptor' = [pc |-> "announcing", client |-> c]
  /\ UNCHANGED <<up, clientVars, queue, roomVars, hub, workers, kicked>>

\* Mutation: the reader is started before the hub knows the client.
StartReaderEarly ==
  /\ acceptor.client # None /\ reader[acceptor.client].pc = "none"
  /\ reader' = [reader EXCEPT ![acceptor.client].pc = "reading"]
  /\ acceptor' = IF acceptor.pc = "starting" THEN [pc |-> "listening", client |-> None]
                                              ELSE acceptor
  /\ UNCHANGED <<up, conn, buffer, typed, writer, queue, roomVars, hub, workers, kicked>>

\* Once the hub has the new client.
StartReader ==
  /\ acceptor.pc = "starting"
  /\ reader' = [reader EXCEPT ![acceptor.client].pc = "reading"]
  /\ acceptor' = [pc |-> "listening", client |-> None]
  /\ UNCHANGED <<up, conn, buffer, typed, writer, queue, roomVars, hub, workers, kicked>>

-----------------------------------------------------------------------------
(* Readers *)

HangUp(c) ==
  /\ conn[c] = "open"
  /\ conn' = [conn EXCEPT ![c] = "hungup"]
  /\ UNCHANGED <<up, acceptor, clientVars, writer, queue, roomVars, hub, workers, kicked>>

\* The buffered reader takes what has arrived, one line or several, also of a
\* client that has hung up meanwhile.
Fill(c) ==
  /\ reader[c].pc = "reading"
  /\ conn[c] \in {"open", "hungup"} /\ buffer[c] = 0
  /\ \E n \in 1..(MaxLines - typed) :
       /\ buffer' = [buffer EXCEPT ![c] = n]
       /\ typed' = typed + n
  /\ UNCHANGED <<up, conn, acceptor, reader, writer, queue, roomVars, hub, workers, kicked>>

\* A line of the buffer, whether the connection is still there or not.
ReadLine(c, line) ==
  /\ reader[c].pc = "reading"
  /\ buffer[c] > 0
  /\ buffer' = [buffer EXCEPT ![c] = @ - 1]
  /\ reader' = [reader EXCEPT ![c] = [pc |-> "sending", line |-> line]]
  /\ UNCHANGED <<up, conn, acceptor, typed, writer, queue, roomVars, hub, workers, kicked>>

ReadFails(c) ==
  /\ reader[c].pc = "reading"
  /\ buffer[c] = 0 /\ conn[c] # "open"
  /\ reader' = [reader EXCEPT ![c].pc = "leaving"]
  /\ UNCHANGED <<up, conn, acceptor, buffer, typed, writer, queue, roomVars, hub, workers, kicked>>

-----------------------------------------------------------------------------
(* Writers *)

\* Mutation: nothing is received for a client that has hung up.
ReceiveWhileOpen(c) ==
  /\ writer[c] = "receiving"
  /\ queue[c] > 0 /\ conn[c] = "open"
  /\ queue' = [queue EXCEPT ![c] = @ - 1]
  /\ writer' = [writer EXCEPT ![c] = "writing"]
  /\ UNCHANGED <<up, conn, acceptor, clientVars, roomVars, hub, workers, kicked>>

Receive(c) ==
  /\ writer[c] = "receiving"
  /\ queue[c] > 0
  /\ queue' = [queue EXCEPT ![c] = @ - 1]
  /\ writer' = [writer EXCEPT ![c] = "writing"]
  /\ UNCHANGED <<up, conn, acceptor, clientVars, roomVars, hub, workers, kicked>>

\* The write succeeds; that a client has hung up may go unnoticed.
Write(c) ==
  /\ writer[c] = "writing"
  /\ conn[c] \in {"open", "hungup"}
  /\ writer' = [writer EXCEPT ![c] = "receiving"]
  /\ UNCHANGED <<up, conn, acceptor, clientVars, queue, roomVars, hub, workers, kicked>>

\* The connection is closed or the deadline passes; the writer returns.
WriteFails(c) ==
  /\ writer[c] = "writing"
  /\ conn[c] # "open" \/ c \in Slow
  /\ writer' = [writer EXCEPT ![c] = "gone"]
  /\ conn' = [conn EXCEPT ![c] = "closed"]
  /\ UNCHANGED <<up, acceptor, clientVars, queue, roomVars, hub, workers, kicked>>

-----------------------------------------------------------------------------
(* Broadcasts *)

\* The ways to cut a room's clients into chunks: full ones, and a last one.
Chunkings(S) ==
  {P \in SUBSET (SUBSET S \ {{}}) :
     /\ UNION P = S
     /\ \A A, B \in P : A # B => A \cap B = {}
     /\ \A A \in P : Cardinality(A) <= ChunkSize
     /\ Cardinality({A \in P : Cardinality(A) < ChunkSize}) <= 1}

\* The workers that serve the clients S, of which those in ghosts are zero.
Workers(P, ghosts) ==
  SetToBag({[left |-> A, ghosts |-> A \cap ghosts, kicking |-> None] : A \in P})

\* The clients of room r but c; a zero Client has no name to be left out by.
Others(r, c) == IF r = None THEN {} ELSE rooms[r] \ ({c} \ hollow)

\* Worker k has done with client c and may go on as w.
GoesOn(k, w) ==
  workers' = (workers (-) SetToBag({k})) (+) (IF w.left = {} THEN EmptyBag ELSE SetToBag({w}))

\* The next client of the chunk: its message is queued, or, when its channel
\* is full, the worker asks the hub to kick it.
Post(k, c) ==
  /\ k.kicking = None /\ c \in k.left /\ c \notin k.ghosts
  /\ IF queue[c] < Capacity
     THEN queue' = [queue EXCEPT ![c] = @ + 1] /\ GoesOn(k, [k EXCEPT !.left = @ \ {c}])
     ELSE UNCHANGED queue /\ GoesOn(k, [k EXCEPT !.kicking = c])
  /\ UNCHANGED <<up, conn, acceptor, clientVars, writer, roomVars, hub, kicked>>

\* The address of no connection is asked for: the process ends.
PostToGhost(k, c) ==
  /\ k.kicking = None /\ c \in k.ghosts
  /\ up' = FALSE
  /\ UNCHANGED <<conn, acceptor, clientVars, writer, queue, roomVars, hub, workers, kicked>>

-----------------------------------------------------------------------------
(* The hub *)

Moved(c, r) == [s \in Rooms |-> IF s = r THEN rooms[s] \cup {c} ELSE rooms[s] \ {c}]

HubIdle == hub.pc = "idle"

ReplyTo(c) == hub' = [pc |-> "replying", to |-> c]

HandlesComer ==
  /\ HubIdle /\ acceptor.pc = "announcing"
  /\ LET c == acceptor.client
     IN  /\ rooms' = Moved(c, Default)
         /\ where' = [where EXCEPT ![c] = Default]
         /\ \E P \in Chunkings(Others(Default, c)) : workers' = workers (+) Workers(P, hollow)
  /\ acceptor' = [acceptor EXCEPT !.pc = "starting"]
  /\ UNCHANGED <<up, conn, clientVars, writer, queue, hollow, hub, kicked>>

\* Mutation: the client stays where it was.
HandlesLeaverKeepingIt(c) ==
  /\ HubIdle /\ reader[c].pc = "leaving"
  /\ \E P \in Chunkings(Others(where[c], c)) : workers' = workers (+) Workers(P, hollow)
  /\ reader' = [reader EXCEPT ![c].pc = "gone"]
  /\ conn' = [conn EXCEPT ![c] = "closed"]
  /\ UNCHANGED <<up, acceptor, buffer, typed, writer, queue, rooms, where, hollow, hub, kicked>>

HandlesLeaver(c) ==
  /\ HubIdle /\ reader[c].pc = "leaving"
  /\ rooms' = [r \in Rooms |-> rooms[r] \ {c}]
  /\ where' = [where EXCEPT ![c] = None]
  /\ \E P \in Chunkings(Others(where[c], c)) : workers' = workers (+) Workers(P, hollow)
  /\ reader' = [reader EXCEPT ![c].pc = "gone"]
  /\ conn' = [conn EXCEPT ![c] = "closed"]
  /\ UNCHANGED <<up, acceptor, buffer, typed, writer, queue, hollow, hub, kicked>>

\* Mutation: the location is forgotten, the room is not.
HandlesKickInPart(k) ==
  /\ HubIdle /\ k.kicking # None
  /\ conn' = [conn EXCEPT ![k.kicking] = "closed"]
  /\ where' = [where EXCEPT ![k.kicking] = None]
  /\ GoesOn(k, [k EXCEPT !.left = @ \ {k.kicking}, !.kicking = None])
  /\ kicked' = kicked \cup {k.kicking}
  /\ UNCHANGED <<up, acceptor, clientVars, writer, queue, rooms, hollow, hub>>

HandlesKick(k) ==
  /\ HubIdle /\ k.kicking # None
  /\ conn' = [conn EXCEPT ![k.kicking] = "closed"]
  /\ rooms' = [r \in Rooms |-> rooms[r] \ {k.kicking}]
  /\ where' = [where EXCEPT ![k.kicking] = None]
  /\ GoesOn(k, [k EXCEPT !.left = @ \ {k.kicking}, !.kicking = None])
  /\ kicked' = kicked \cup {k.kicking}
  /\ UNCHANGED <<up, acceptor, clientVars, writer, queue, hollow, hub>>

\* The hub takes the line of c up; the reader goes on.
Takes(c, kind) ==
  /\ HubIdle
  /\ reader[c].pc = "sending" /\ reader[c].line.kind = kind
  /\ reader' = [reader EXCEPT ![c] = [pc |-> "reading", line |-> NoLine]]
  /\ UNCHANGED <<up, conn, acceptor, buffer, typed, writer, queue, kicked>>

HandlesMessage(c) ==
  /\ Takes(c, "MSG")
  /\ \E P \in Chunkings(Others(where[c], c)) : workers' = workers (+) Workers(P, hollow)
  /\ IF where[c] # None THEN ReplyTo(c) ELSE UNCHANGED hub
  /\ UNCHANGED roomVars

\* A client that is in no room gets the zero Client as its entry in the new
\* one; having no name, it is among those the workers serve.
HandlesJoin(c) ==
  /\ Takes(c, "JOIN")
  /\ LET old == where[c]
         new == reader[c].line.room
         ghosts == IF old = None THEN hollow \cup {c} ELSE hollow
         told == (rooms[new] \ {c}) \cup (ghosts \cap {c})
     IN  /\ rooms' = Moved(c, new)
         /\ where' = [where EXCEPT ![c] = new]
         /\ hollow' = ghosts
         /\ \E P \in Chunkings(IF old = Default THEN {} ELSE Others(old, c)), Q \in Chunkings(told) :
              workers' = workers (+) Workers(P, hollow) (+) Workers(Q, ghosts)
  /\ ReplyTo(c)

\* Back to the default room, or a note that the client is there already.
HandlesLeave(c) ==
  /\ Takes(c, "LEAVE")
  /\ IF where[c] = Default
     THEN UNCHANGED <<roomVars, workers>>
     ELSE /\ rooms' = Moved(c, Default)
          /\ where' = [where EXCEPT ![c] = Default]
          /\ hollow' = IF where[c] = None THEN hollow \cup {c} ELSE hollow
          /\ \E P \in Chunkings(Others(where[c], c)) : workers' = workers (+) Workers(P, hollow)
  /\ ReplyTo(c)

HandlesGetRooms(c) ==
  /\ Takes(c, "GETROOMS")
  /\ ReplyTo(c)
  /\ UNCHANGED <<roomVars, workers>>

\* The channel of a reply: none for a client that has no entry, or a zero one.
Nil(c) == where[c] = None \/ c \in hollow

Replies ==
  /\ hub.pc = "replying" /\ ~Nil(hub.to)
  /\ queue[hub.to] < Capacity
  /\ queue' = [queue EXCEPT ![hub.to] = @ + 1]
  /\ hub' = [pc |-> "idle", to |-> None]
  /\ UNCHANGED <<up, conn, acceptor, clientVars, writer, roomVars, workers, kicked>>

-----------------------------------------------------------------------------
HubStep ==
  \/ HandlesComer
  \/ \E c \in Clients : \/ HandlesLeaver(c) \/ HandlesMessage(c) \/ HandlesJoin(c)
                        \/ HandlesLeave(c) \/ HandlesGetRooms(c)
  \/ \E k \in BagToSet(workers) : HandlesKick(k)
  \/ Replies

ReaderStep(c) == (\E line \in Lines : ReadLine(c, line)) \/ ReadFails(c)

WriterStep(c) == Receive(c) \/ Write(c) \/ WriteFails(c)

WorkerStep == \E k \in BagToSet(workers), c \in Clients : Post(k, c) \/ PostToGhost(k, c)

Next ==
  /\ up
  /\ \/ StartReader \/ HubStep \/ WorkerStep
     \/ \E c \in Clients : Accept(c) \/ HangUp(c) \/ Fill(c) \/ ReaderStep(c) \/ WriterStep(c)

Spec == Init /\ [][Next]_vars

\* Every goroutine that can go on does.  Nobody need connect, type or hang up.
Fairness ==
  /\ WF_vars(up /\ StartReader)
  /\ WF_vars(up /\ HubStep)
  /\ WF_vars(up /\ WorkerStep)
  /\ \A c \in Clients : WF_vars(up /\ ReaderStep(c)) /\ WF_vars(up /\ WriterStep(c))

FairSpec == Spec /\ Fairness

-----------------------------------------------------------------------------
(* Properties *)

\* The two maps of the hub agree after every event and while it replies: a
\* client is in exactly the room its location names.
RoomsAgree == \A c \in Clients, r \in Rooms : c \in rooms[r] <=> where[c] = r

\* A client whose departure the hub has handled is in no room again, although
\* its lines, kicks of it and its departure reach the hub from different
\* goroutines in any order.
DepartedStaysOut == \A c \in Clients : reader[c].pc = "gone" => where[c] = None

\* The zero Client gets into a room, or is waited for, only in the name of a
\* client that was kicked with a command still to come: a client is known to
\* the hub before its first line and until its last one otherwise.
ZeroClientsWereKicked ==
  /\ hollow \subseteq kicked
  /\ (hub.pc = "replying" /\ Nil(hub.to)) => hub.to \in kicked
  /\ ~up => kicked # {}

\* The ways in which the hub stops for good: a reply to the zero Client, or to
\* a full channel whose writer has returned.
HubStuck ==
  /\ hub.pc = "replying"
  /\ Nil(hub.to) \/ (queue[hub.to] = Capacity /\ writer[hub.to] = "gone")

Waiting(c) == reader[c].pc \in {"sending", "leaving"} \/ acceptor = [pc |-> "announcing", client |-> c]

\* In no other way do the goroutines wait for each other in a circle: whoever
\* comes, sends a line or leaves is taken up by the hub, unless the process
\* ends or the hub is stuck in one of those two ways.
EverybodyIsServed == \A c \in Clients : Waiting(c) ~> (~Waiting(c) \/ ~up \/ HubStuck)

\* Nobody closes a client's channel, so that the writer of a client that left may
\* stay behind.  But it ends, or comes to wait with nothing to write, after every
\* message that a broadcast still had for the client: none stays in the channel.
WritersAreLeftIdle ==
  \A c \in Clients :
    reader[c].pc = "gone" ~> (~up \/ writer[c] = "gone" \/ (writer[c] = "receiving" /\ queue[c] = 0))
=============================================================================
