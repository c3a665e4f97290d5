------------------------------- MODULE WssMux -------------------------------
(***************************************************************************)
(* The stream multiplexer of wss_relay.rs over a link that is up: the      *)
(* client's accept loop and both ends' reader loops, and for every stream, *)
(* at either end, a pump from the local TCP socket to the WebSocket and a  *)
(* writer from a bounded channel to that socket.                           *)
(*                                                                         *)
(* Both ends run the same pumps, so a variable is a function of the end.   *)
(* The channel a pump sends into, the WebSocket and the relay server are   *)
(* one FIFO of frames per direction.  Cancellation, pings and the join     *)
(* handshake are left out, and so are the UDP streams.  The reconnect of   *)
(* the client is in WssReconnect.                                          *)
(***************************************************************************)
EXTENDS Naturals, Sequences, FiniteSets, Functions

CONSTANTS
    Conn,       \* TCP connections that local games make to the client
    MaxData,    \* chunks sent by the games and the Minecraft server, in all
    Cap,        \* TCP_WRITE_QUEUE
    MaxEpoch,   \* client sessions, one more than the reconnects
    None        \* no connection

ASSUME MuxAssumption ==
    /\ MaxData \in Nat
    /\ Cap \in Nat \ {0} /\ MaxEpoch \in Nat \ {0}
    /\ IsFiniteSet(Conn) /\ None \notin Conn

Side == {"client", "host"}
Peer(s) == IF s = "client" THEN "host" ELSE "client"

VARIABLES
    epoch,      \* the client session that runs (WssReconnect starts others)
    next,       \* its stream_counter
    opening,    \* the connection between the OPEN frame and streams.insert
    id,         \* stream id of each connection
    born,       \* client session of each connection
    mapped,     \* connections with a sender in the streams map of an end
    held,       \* ends whose reader loop waits for room, the streams lock held
    wire,       \* frames on the way to an end
    pump,       \* pump_reader_to_ws of each stream
    writer,     \* pump_channel_to_writer of each stream
    chan,       \* the channel in between, after the chunk a writer is writing
    sent,       \* chunks the pump read from the local socket
    got         \* chunks the writer wrote to it

linkVars == <<epoch, next, opening, id, born>>
dataVars == <<chan, sent, got>>
vars == <<linkVars, mapped, held, wire, pump, writer, dataVars>>

PumpStage == {"none", "reading", "closing", "done"}
WriterStage == {"none", "draining", "writing", "drained", "broken", "done"}

StreamId == 1 .. Cardinality(Conn)
Chunk == Conn \X (Nat \ {0})
Frame == [kind : {"OPEN", "CLOSE", "ERROR"}, conn : Conn]
         \cup [kind : {"DATA"}, conn : Conn, chunk : Chunk]

TypeOK ==
    /\ epoch \in 1 .. MaxEpoch /\ next \in 1 .. Cardinality(Conn) + 1
    /\ opening \in Conn \cup {None}
    /\ id \in [Conn -> StreamId] /\ born \in [Conn -> 1 .. MaxEpoch]
    /\ mapped \in [Side -> SUBSET Conn] /\ held \in [Side -> BOOLEAN]
    /\ wire \in [Side -> Seq(Frame)]
    /\ pump \in [Side -> [Conn -> PumpStage]]
    /\ writer \in [Side -> [Conn -> WriterStage]]
    /\ chan \in [Side -> [Conn -> Seq(Chunk)]]
    /\ got \in [Side -> [Conn -> Seq(Chunk)]]
    /\ sent \in [Side -> [Conn -> Nat]]
    /\ \A s \in Side, c \in Conn :
          Len(chan[s][c]) <= IF writer[s][c] = "writing" THEN Cap + 1 ELSE Cap

Init ==
    LET perConn(v) == [s \in Side |-> [c \in Conn |-> v]]
    IN  /\ epoch = 1 /\ next = 1 /\ opening = None
        /\ id = [c \in Conn |-> 1] /\ born = [c \in Conn |-> 1]
        /\ mapped = [s \in Side |-> {}] /\ held = [s \in Side |-> FALSE]
        /\ wire = [s \in Side |-> <<>>]
        /\ pump = perConn("none") /\ writer = perConn("none")
        /\ chan = perConn(<<>>) /\ sent = perConn(0) /\ got = perConn(<<>>)

-----------------------------------------------------------------------------
(* The streams map.  The host has one, keyed by the stream id; every client   *)
(* session has its own, which the pumps of its streams go on using.           *)

SameEntry(s, c, d) == id[c] = id[d] /\ (s = "client" => born[c] = born[d])

Removed(s, c) == [mapped EXCEPT ![s] = {d \in @ : ~SameEntry(s, c, d)}]

\* streams.get of the id in a frame: at most one connection.
Lookup(s, c) ==
    {d \in mapped[s] : id[d] = id[c] /\ (s = "client" => born[d] = epoch)}

OpenFrame(c) == [kind |-> "OPEN", conn |-> c]
DataFrame(c, n) == [kind |-> "DATA", conn |-> c, chunk |-> <<c, n>>]
CloseFrame(c) == [kind |-> "CLOSE", conn |-> c]
ErrorFrame(c) == [kind |-> "ERROR", conn |-> c]

\* Does ws_tx.send of c's pump at s reach a writer task that still runs?
Linked(s, c) == s = "host" \/ born[c] = epoch

Start(s, c) ==
    /\ mapped' = [mapped EXCEPT ![s] = @ \cup {c}]
    /\ pump' = [pump EXCEPT ![s][c] = "reading"]
    /\ writer' = [writer EXCEPT ![s][c] = "draining"]

-----------------------------------------------------------------------------
(* The client's accept loop. *)

\* Mutant of Accept: the counter is read and not advanced.
AcceptMutant(c) ==
    /\ opening = None /\ pump["client"][c] = "none"
    /\ opening' = c
    /\ id' = [id EXCEPT ![c] = next] /\ born' = [born EXCEPT ![c] = epoch]
    /\ wire' = [wire EXCEPT !["host"] = Append(@, OpenFrame(c))]
    /\ UNCHANGED <<epoch, next, mapped, held, pump, writer, dataVars>>

\* A connection gets the next id, and its OPEN frame is sent ...
Accept(c) ==
    /\ opening = None /\ pump["client"][c] = "none"
    /\ opening' = c /\ next' = next + 1
    /\ id' = [id EXCEPT ![c] = next] /\ born' = [born EXCEPT ![c] = epoch]
    /\ wire' = [wire EXCEPT !["host"] = Append(@, OpenFrame(c))]
    /\ UNCHANGED <<epoch, mapped, held, pump, writer, dataVars>>

\* ... before its channel is in the map and its pumps run.
Register ==
    /\ opening # None /\ ~held["client"]
    /\ opening' = None
    /\ Start("client", opening)
    /\ UNCHANGED <<epoch, next, id, born, held, wire, dataVars>>

-----------------------------------------------------------------------------
(* The reader loops: one frame after the other. *)

Arrives(s, kinds) == wire[s] # <<>> /\ Head(wire[s]).kind \in kinds
Consume(s) == wire' = [wire EXCEPT ![s] = Tail(@)]

\* handle_host_frame, OPEN: an id in the map is left alone; the server accepts the
\* connection, or it refuses and the client gets ERROR and CLOSE.
HostOpen(refused) ==
    LET c == Head(wire["host"]).conn
    IN  /\ Arrives("host", {"OPEN"})
        /\ IF Lookup("host", c) # {}
           THEN Consume("host") /\ UNCHANGED <<mapped, pump, writer>>
           ELSE IF refused
           THEN /\ wire' = [wire EXCEPT !["host"] = Tail(@),
                                        !["client"] = @ \o <<ErrorFrame(c), CloseFrame(c)>>]
                /\ UNCHANGED <<mapped, pump, writer>>
           ELSE Consume("host") /\ Start("host", c)
        /\ UNCHANGED <<linkVars, held, dataVars>>

\* Mutant of Room: one chunk more than the channel holds.
RoomMutant(s, c) == Len(chan[s][c]) <= IF writer[s][c] = "writing" THEN Cap + 1 ELSE Cap

\* What a writer has in hand is out of the channel.
Room(s, c) == Len(chan[s][c]) < IF writer[s][c] = "writing" THEN Cap + 1 ELSE Cap

\* DATA of a stream that is not in the map is dropped.
DataDropped(s) ==
    /\ Arrives(s, {"DATA"}) /\ Lookup(s, Head(wire[s]).conn) = {}
    /\ Consume(s)
    /\ UNCHANGED <<linkVars, mapped, held, pump, writer, dataVars>>

\* tx.send in the body of the if let whose scrutinee locked the map: the guard
\* lives until the channel has taken the chunk.
DataWaits(s) ==
    /\ Arrives(s, {"DATA"}) /\ ~held[s]
    /\ \E c \in Lookup(s, Head(wire[s]).conn) : ~Room(s, c)
    /\ held' = [held EXCEPT ![s] = TRUE]
    /\ UNCHANGED <<linkVars, mapped, wire, pump, writer, dataVars>>

DataTaken(s) ==
    /\ Arrives(s, {"DATA"})
    /\ \E c \in Lookup(s, Head(wire[s]).conn) :
          /\ Room(s, c)
          /\ chan' = [chan EXCEPT ![s][c] = Append(@, Head(wire[s]).chunk)]
    /\ held' = [held EXCEPT ![s] = FALSE]
    /\ Consume(s)
    /\ UNCHANGED <<linkVars, mapped, pump, writer, sent, got>>

\* CLOSE or ERROR: the entry goes, and with it the channel's sender.
CloseArrives(s) ==
    /\ Arrives(s, {"CLOSE", "ERROR"})
    /\ mapped' = [mapped EXCEPT ![s] = @ \ Lookup(s, Head(wire[s]).conn)]
    /\ Consume(s)
    /\ UNCHANGED <<linkVars, held, pump, writer, dataVars>>

-----------------------------------------------------------------------------
(* pump_reader_to_ws. *)

\* A Minecraft server answers: it sends nothing to a client it has not heard of.
MaySend(s, c) ==
    /\ SumFunction(sent["client"]) + SumFunction(sent["host"]) < MaxData
    /\ s = "host" => got[s][c] # <<>>

\* A chunk from the local socket; sending it fails if the session is gone.
Sends(s, c) ==
    /\ pump[s][c] = "reading" /\ MaySend(s, c)
    /\ IF Linked(s, c)
       THEN /\ sent' = [sent EXCEPT ![s][c] = @ + 1]
            /\ wire' = [wire EXCEPT ![Peer(s)] = Append(@, DataFrame(c, sent[s][c] + 1))]
            /\ UNCHANGED pump
       ELSE /\ pump' = [pump EXCEPT ![s][c] = "closing"]
            /\ UNCHANGED <<sent, wire>>
    /\ UNCHANGED <<linkVars, mapped, held, writer, chan, got>>

\* The local program ended its stream: CLOSE ...
Ends(s, c) ==
    /\ pump[s][c] = "reading"
    /\ pump' = [pump EXCEPT ![s][c] = "closing"]
    /\ wire' = IF Linked(s, c)
               THEN [wire EXCEPT ![Peer(s)] = Append(@, CloseFrame(c))] ELSE wire
    /\ UNCHANGED <<linkVars, mapped, held, writer, dataVars>>

\* ... and, once the lock is free, the entry.
PumpEnds(s, c) ==
    /\ pump[s][c] = "closing" /\ ~held[s]
    /\ pump' = [pump EXCEPT ![s][c] = "done"]
    /\ mapped' = Removed(s, c)
    /\ UNCHANGED <<linkVars, held, wire, writer, dataVars>>

-----------------------------------------------------------------------------
(* pump_channel_to_writer. *)

Receives(s, c) ==
    /\ writer[s][c] = "draining" /\ chan[s][c] # <<>>
    /\ writer' = [writer EXCEPT ![s][c] = "writing"]
    /\ UNCHANGED <<linkVars, mapped, held, wire, pump, dataVars>>

Writes(s, c) ==
    /\ writer[s][c] = "writing"
    /\ writer' = [writer EXCEPT ![s][c] = "draining"]
    /\ got' = [got EXCEPT ![s][c] = Append(@, Head(chan[s][c]))]
    /\ chan' = [chan EXCEPT ![s][c] = Tail(@)]
    /\ UNCHANGED <<linkVars, mapped, held, wire, pump, sent>>

\* The local program is gone: write_all fails, the chunk in hand is lost.
WriteFails(s, c) ==
    /\ writer[s][c] = "writing"
    /\ chan' = [chan EXCEPT ![s][c] = Tail(@)]
    /\ writer' = [writer EXCEPT ![s][c] = "broken"]
    /\ UNCHANGED <<linkVars, mapped, held, wire, pump, sent, got>>

\* Mutant of Drained: the writer stops as soon as the entry is gone.
DrainedMutant(s, c) ==
    /\ writer[s][c] = "draining" /\ c \notin mapped[s]
    /\ writer' = [writer EXCEPT ![s][c] = "drained"]
    /\ UNCHANGED <<linkVars, mapped, held, wire, pump, dataVars>>

\* recv returns None: the channel is empty and its sender left the map.
Drained(s, c) ==
    /\ writer[s][c] = "draining" /\ chan[s][c] = <<>> /\ c \notin mapped[s]
    /\ writer' = [writer EXCEPT ![s][c] = "drained"]
    /\ UNCHANGED <<linkVars, mapped, held, wire, pump, dataVars>>

\* After the shutdown: the entry, then the receiver with what is left in it.
WriterEnds(s, c) ==
    /\ writer[s][c] \in {"drained", "broken"} /\ ~held[s]
    /\ writer' = [writer EXCEPT ![s][c] = "done"]
    /\ mapped' = Removed(s, c)
    /\ chan' = [chan EXCEPT ![s][c] = <<>>]
    /\ UNCHANGED <<linkVars, held, wire, pump, sent, got>>

-----------------------------------------------------------------------------
ReadFrame(s) == DataDropped(s) \/ DataWaits(s) \/ DataTaken(s) \/ CloseArrives(s)
HostOpens == \E refused \in BOOLEAN : HostOpen(refused)
Drains(s, c) == Receives(s, c) \/ Writes(s, c) \/ WriteFails(s, c) \/ Drained(s, c)

Next ==
    \/ \E c \in Conn : Accept(c)
    \/ Register \/ HostOpens
    \/ \E s \in Side :
          \/ ReadFrame(s)
          \/ \E c \in Conn : \/ Sends(s, c) \/ Ends(s, c) \/ PumpEnds(s, c)
                             \/ Drains(s, c) \/ WriterEnds(s, c)

Spec == Init /\ [][Next]_vars

-----------------------------------------------------------------------------
(* Properties. *)

\* The relay is a set of TCP-like pipes: nothing is duplicated, reordered or
\* delivered to another connection, through any interleaving of closes.
Pipes == INSTANCE StreamPipes WITH From <- Peer
ImplementsPipes == Pipes!Spec

\* "graceful stream teardown": when a writer shuts its local socket down, not
\* because a write failed and not because its own end closed the stream, it has
\* delivered everything the far end sent in this stream.
GracefulTeardown ==
    \A s \in Side, c \in Conn :
        (writer[s][c] = "drained" /\ pump[s][c] = "reading")
            => Len(got[s][c]) = sent[Peer(s)][c]

\* A reader loop that waits for room in a channel waits for a writer that will
\* make room, not for one that needs the lock this reader loop holds.
NoCircularWait ==
    \A s \in Side : held[s] =>
        \E c \in Lookup(s, Head(wire[s]).conn) :
            writer[s][c] \in {"draining", "writing"} \/ Room(s, c)
==============================================================================
