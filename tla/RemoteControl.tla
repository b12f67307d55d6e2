--------------------------- MODULE RemoteControl ---------------------------
(* Remote control of an app-server: the connections that remote clients open    *)
(* over one websocket to the backend, and the messages sent back to them        *)
(* (app-server/src/transport/remote_control: client_tracker.rs, websocket.rs).  *)
(*                                                                              *)
(* Each connection has an outbound task that forwards to one channel; the       *)
(* writer of the websocket numbers what it takes from it by stream, keeps it    *)
(* until the backend acknowledges it, and sends what it keeps again after a     *)
(* reconnect.  The reader of the websocket opens and closes connections.        *)
(*                                                                              *)
(* A step is a future polled to its next await; what the reader does for one    *)
(* envelope is one step, since it holds the tracker's lock.  Client messages to *)
(* an open connection go to the app-server and change nothing here.             *)
EXTENDS Integers, Sequences, FiniteSets

CONSTANTS
    Keys,         \* (client id, stream id) pairs
    Capacity,     \* CHANNEL_CAPACITY, of the event channel and of the buffer
    Conns,        \* bound: connections opened
    Messages,     \* bound: messages of the app-server and pings of clients
    Losses        \* bound: losses of the websocket

ASSUME RemoteBounds ==
    /\ Keys # {} /\ Capacity \in Nat \ {0}
    /\ Conns \in Nat /\ Messages \in Nat /\ Losses \in Nat

VARIABLES
    clients,      \* ClientTracker.clients: the connection of each key, 0 for none
    conn,         \* each connection: its outbound task, its token, its end
    pongs,        \* unknown keys to which a task is about to send a pong
    channel,      \* server_event_tx
    next,         \* next_seq_id_by_stream
    buffer,       \* BoundedOutboundBuffer.buffer_by_stream
    changed,      \* the usage watch has a value the writer has not seen
    writer,       \* run_server_writer_inner
    wire,         \* envelopes sent and not yet received by the backend
    got,          \* envelopes the backend has received
    used          \* what the bounds bound

tracker == <<clients, conn, pongs>>
outbound == <<next, buffer, changed>>
vars == <<tracker, channel, outbound, writer, wire, got, used>>

Ids == 1..Conns
Opened == {c \in Ids : conn[c].at # "unused"}
Message(c, n) == [conn |-> c, n |-> n]
Pong == 0

Init ==
    /\ clients = [k \in Keys |-> 0]
    /\ conn = [c \in Ids |-> [at |-> "unused", key |-> CHOOSE k \in Keys : TRUE, cancelled |-> FALSE,
                              queued |-> <<>>, pong |-> FALSE, hand |-> Pong, closed |-> "no"]]
    /\ pongs = {}
    /\ channel = <<>>
    /\ next = [k \in Keys |-> 1]
    /\ buffer = [k \in Keys |-> <<>>]
    /\ changed = FALSE
    /\ writer = [at |-> "down", todo |-> [k \in Keys |-> <<>>]]
    /\ wire = <<>>
    /\ got = {}
    /\ used = [messages |-> 0, losses |-> 0]

Reading == writer.at \notin {"down", "stopped"}

-----------------------------------------------------------------------------
(* ClientTracker, called by the reader of the websocket *)

\* Faulty: the connection is forgotten and not closed.
Forgotten(k, cause) == conn

\* close_client, for the connection that the key has now; the cause is a task that has
\* ended, or the client, its silence or a shutdown asked for it.
Closed(k, cause) ==
    IF clients[k] = 0 THEN conn
    ELSE [conn EXCEPT ![clients[k]] = [@ EXCEPT !.cancelled = TRUE, !.closed = cause]]

\* handle_message with an `initialize`: a connection of the same key is closed first.
Initialize(k) ==
    /\ Reading
    /\ Cardinality(Opened) < Conns
    /\ LET c == Cardinality(Opened) + 1
       IN  /\ conn' = [Closed(k, "asked") EXCEPT ![c] = [@ EXCEPT !.at = "select", !.key = k]]
           /\ clients' = [clients EXCEPT ![k] = c]
    /\ UNCHANGED <<pongs, channel, outbound, writer, wire, got, used>>

\* handle_message with a ping, of a known client or of an unknown one.
Ping(k) ==
    /\ Reading /\ used.messages < Messages
    /\ used' = [used EXCEPT !.messages = @ + 1]
    /\ \/ clients[k] # 0 /\ conn' = [conn EXCEPT ![clients[k]].pong = TRUE] /\ UNCHANGED pongs
       \/ clients[k] = 0 /\ pongs' = pongs \union {k} /\ UNCHANGED conn
    /\ UNCHANGED <<clients, channel, outbound, writer, wire, got>>

\* handle_message with ClientClosed, and close_expired_clients for a client that has
\* been idle.
CloseClient(k) ==
    /\ Reading /\ clients[k] # 0
    /\ conn' = Closed(k, "asked")
    /\ clients' = [clients EXCEPT ![k] = 0]
    /\ UNCHANGED <<pongs, channel, outbound, writer, wire, got, used>>

\* Faulty: the task is forgotten and its connection stays.
ForgetsEnded(c) ==
    /\ Reading /\ conn[c].at = "ended"
    /\ conn' = [conn EXCEPT ![c].at = "joined"]
    /\ UNCHANGED <<clients, pongs, channel, outbound, writer, wire, got, used>>

\* bookkeep_join_set: a finished task names its key, and the key's connection is closed.
BookkeepJoinSet(c) ==
    /\ Reading /\ conn[c].at = "ended"
    /\ conn' = [Closed(conn[c].key, "ended") EXCEPT ![c].at = "joined"]
    /\ clients' = [clients EXCEPT ![conn[c].key] = 0]
    /\ UNCHANGED <<pongs, channel, outbound, writer, wire, got, used>>

-----------------------------------------------------------------------------
(* The app-server's end of a connection, and run_client_outbound *)

\* The app-server writes to a connection it has not seen closed.
AppSends(c) ==
    /\ conn[c].at \in {"select", "holding"} /\ conn[c].closed = "no"
    /\ used.messages < Messages /\ Len(conn[c].queued) < Capacity
    /\ used' = [used EXCEPT !.messages = @ + 1]
    /\ conn' = [conn EXCEPT ![c].queued = Append(@, used.messages + 1)]
    /\ UNCHANGED <<clients, pongs, channel, outbound, writer, wire, got>>

\* The app-server gives up a connection, through its disconnect_sender or by dropping
\* its writer.
AppDisconnects(c) ==
    /\ c \in Opened /\ ~conn[c].cancelled
    /\ conn' = [conn EXCEPT ![c].cancelled = TRUE]
    /\ UNCHANGED <<clients, pongs, channel, outbound, writer, wire, got, used>>

\* The task takes a message or a change of status.
TakeMessage(c) ==
    /\ conn[c].at = "select"
    /\ \/ /\ conn[c].queued # <<>>
          /\ conn' = [conn EXCEPT ![c] = [@ EXCEPT !.at = "holding", !.hand = Head(conn[c].queued),
                                                   !.queued = Tail(conn[c].queued)]]
       \/ /\ conn[c].pong
          /\ conn' = [conn EXCEPT ![c] = [@ EXCEPT !.at = "holding", !.hand = Pong, !.pong = FALSE]]
    /\ UNCHANGED <<clients, pongs, channel, outbound, writer, wire, got, used>>

\* Faulty: the channel is not bounded.
ForwardsAtOnce(c) ==
    /\ conn[c].at = "holding"
    /\ channel' = Append(channel, [key |-> conn[c].key, msg |-> Message(c, conn[c].hand)])
    /\ conn' = [conn EXCEPT ![c] = [@ EXCEPT !.at = "select", !.hand = Pong]]
    /\ UNCHANGED <<clients, pongs, outbound, writer, wire, got, used>>

\* The task forwards what it holds; the channel may make it wait.
Forward(c) ==
    /\ conn[c].at = "holding" /\ Len(channel) < Capacity
    /\ channel' = Append(channel, [key |-> conn[c].key, msg |-> Message(c, conn[c].hand)])
    /\ conn' = [conn EXCEPT ![c] = [@ EXCEPT !.at = "select", !.hand = Pong]]
    /\ UNCHANGED <<clients, pongs, outbound, writer, wire, got, used>>

\* The task sees its token cancelled, wherever it waits.
OutboundEnds(c) ==
    /\ conn[c].at \in {"select", "holding"} /\ conn[c].cancelled
    /\ conn' = [conn EXCEPT ![c] = [@ EXCEPT !.at = "ended", !.queued = <<>>, !.hand = Pong,
                                             !.pong = FALSE]]
    /\ UNCHANGED <<clients, pongs, channel, outbound, writer, wire, got, used>>

\* The pong to a client that is not known.
UnknownPong(k) ==
    /\ k \in pongs /\ Len(channel) < Capacity
    /\ pongs' = pongs \ {k}
    /\ channel' = Append(channel, [key |-> k, msg |-> Message(0, Pong)])
    /\ UNCHANGED <<clients, conn, outbound, writer, wire, got, used>>

-----------------------------------------------------------------------------
(* The writer of the websocket *)

Buffered == UNION {{k} \X DOMAIN buffer[k] : k \in Keys}
Usage == Cardinality(Buffered)

\* The top of the loop decides what the writer waits for.
Top(usage) == IF usage < Capacity THEN "ready" ELSE "full"

\* connect, and the copy of the buffer that is sent first.  The writer's copy of the
\* usage watch has seen no value since the first one.
Connect ==
    /\ writer.at = "down"
    /\ writer' = [at |-> "replay", todo |-> buffer]
    /\ changed' = (\E k \in Keys : next[k] > 1)
    /\ UNCHANGED <<tracker, channel, next, buffer, wire, got, used>>

\* The replay of one envelope.  The streams come in any order, each in its own.
Replay(k) ==
    /\ writer.at = "replay" /\ writer.todo[k] # <<>>
    /\ wire' = Append(wire, Head(writer.todo[k]))
    /\ writer' = [at |-> "replay", todo |-> [writer.todo EXCEPT ![k] = Tail(@)]]
    /\ UNCHANGED <<tracker, channel, outbound, got, used>>

\* The replay is done and the loop begins.
ReplayDone ==
    /\ writer.at = "replay" /\ \A k \in Keys : writer.todo[k] = <<>>
    /\ writer' = [writer EXCEPT !.at = Top(Usage)]
    /\ UNCHANGED <<tracker, channel, outbound, wire, got, used>>

\* Faulty: a stream with nothing buffered is numbered from 1 again.
SeqIdForgotten(e) == IF buffer[e.key] = <<>> THEN 1 ELSE next[e.key]

\* next_seq_id_by_stream.
SeqId(e) == next[e.key]

\* The writer takes an event, numbers it and buffers it.
TakeEvent ==
    /\ writer.at = "ready" /\ channel # <<>>
    /\ channel' = Tail(channel)
    /\ LET e == Head(channel)
           k == e.key
           envelope == [key |-> k, seq |-> SeqId(e), msg |-> e.msg]
       IN  /\ next' = [next EXCEPT ![k] = SeqId(e) + 1]
           /\ buffer' = [buffer EXCEPT ![k] = Append(@, envelope)]
           /\ writer' = [at |-> "send", todo |-> [writer.todo EXCEPT ![k] = <<envelope>>]]
    /\ changed' = TRUE
    /\ UNCHANGED <<tracker, wire, got, used>>

\* The envelope in hand is sent.
Send(k) ==
    /\ writer.at = "send" /\ writer.todo[k] # <<>>
    /\ wire' = Append(wire, Head(writer.todo[k]))
    /\ writer' = [at |-> Top(Usage), todo |-> [writer.todo EXCEPT ![k] = <<>>]]
    /\ UNCHANGED <<tracker, channel, outbound, got, used>>

\* A full buffer: the writer goes on when the usage has changed.
UsageChanged ==
    /\ writer.at = "full" /\ changed
    /\ changed' = FALSE
    /\ writer' = [writer EXCEPT !.at = Top(Usage)]
    /\ UNCHANGED <<tracker, channel, next, buffer, wire, got, used>>

\* A ping to the backend brings the writer to the top of its loop as well.
PingInterval ==
    /\ writer.at = "full"
    /\ writer' = [writer EXCEPT !.at = Top(Usage)]
    /\ UNCHANGED <<tracker, channel, outbound, wire, got, used>>

\* Either half of the connection fails, or remote control is disabled: both stop and
\* what is on the wire is lost.
ConnectionLost ==
    /\ Reading /\ used.losses < Losses
    /\ used' = [used EXCEPT !.losses = @ + 1]
    /\ writer' = [at |-> "down", todo |-> [k \in Keys |-> <<>>]]
    /\ wire' = <<>>
    /\ UNCHANGED <<tracker, channel, outbound, got>>

\* run, after its loop: every connection is closed, every task awaited, and the rest
\* dropped.
Shutdown ==
    /\ writer.at # "stopped"
    /\ writer' = [at |-> "stopped", todo |-> [k \in Keys |-> <<>>]]
    /\ conn' = [c \in Ids |->
         IF c \notin Opened THEN conn[c]
         ELSE [conn[c] EXCEPT !.at = "joined", !.cancelled = TRUE, !.queued = <<>>, !.hand = Pong,
                              !.pong = FALSE, !.closed = IF clients[conn[c].key] = c THEN "asked" ELSE @]]
    /\ clients' = [k \in Keys |-> 0]
    /\ pongs' = {} /\ channel' = <<>> /\ wire' = <<>>
    /\ next' = [k \in Keys |-> 1] /\ buffer' = [k \in Keys |-> <<>>] /\ changed' = FALSE
    /\ UNCHANGED <<got, used>>

-----------------------------------------------------------------------------
(* The backend *)

Receive ==
    /\ wire # <<>>
    /\ got' = got \union {Head(wire)}
    /\ wire' = Tail(wire)
    /\ UNCHANGED <<tracker, channel, outbound, writer, used>>

Seqs(k) == {e.seq : e \in {f \in got : f.key = k}}

\* Faulty: an acknowledgement frees one envelope more.
FreesTooFar(k, n, m) ==
    /\ \A i \in 1..m : buffer[k][i].seq <= n + 1
    /\ m < Len(buffer[k]) => buffer[k][m + 1].seq > n + 1

\* BoundedOutboundBuffer::ack: an acknowledgement of n frees the first m envelopes, all
\* those at the front that it covers.
Frees(k, n, m) ==
    /\ \A i \in 1..m : buffer[k][i].seq <= n
    /\ m < Len(buffer[k]) => buffer[k][m + 1].seq > n

\* Faulty: an acknowledgement does not wake the writer.
QuietAck(k, n) ==
    /\ Reading /\ n \in Seqs(k)
    /\ \E m \in DOMAIN buffer[k] :
         Frees(k, n, m) /\ buffer' = [buffer EXCEPT ![k] = SubSeq(@, m + 1, Len(@))]
    /\ UNCHANGED <<tracker, channel, next, changed, writer, wire, got, used>>

\* The reader takes an acknowledgement of what the backend has received; it may have
\* received more since.
Ack(k, n) ==
    /\ Reading /\ n \in Seqs(k)
    /\ \E m \in DOMAIN buffer[k] :
         Frees(k, n, m) /\ buffer' = [buffer EXCEPT ![k] = SubSeq(@, m + 1, Len(@))]
    /\ changed' = TRUE
    /\ UNCHANGED <<tracker, channel, next, writer, wire, got, used>>

-----------------------------------------------------------------------------
Outbound(c) == TakeMessage(c) \/ Forward(c) \/ OutboundEnds(c)

WriterStep ==
    \/ Connect
    \/ \E k \in Keys : Replay(k) \/ Send(k)
    \/ ReplayDone
    \/ TakeEvent
    \/ UsageChanged

TaskEnds == \E c \in Ids : OutboundEnds(c) \/ BookkeepJoinSet(c)

Acks == \E k \in Keys : \E n \in Seqs(k) : Ack(k, n)

Next ==
    \/ \E k \in Keys :
         Initialize(k) \/ Ping(k) \/ UnknownPong(k) \/ CloseClient(k)
    \/ \E c \in Ids : BookkeepJoinSet(c) \/ AppSends(c) \/ AppDisconnects(c) \/ Outbound(c)
    \/ WriterStep
    \/ PingInterval
    \/ ConnectionLost
    \/ Shutdown
    \/ Receive
    \/ Acks

Spec == Init /\ [][Next]_vars

\* Tasks that can go on are scheduled, the websocket is connected again, and the
\* backend reads and acknowledges.  Nothing relies on the writer's pings.
FairSpec ==
    /\ Spec
    /\ WF_vars(WriterStep) /\ WF_vars(Receive) /\ WF_vars(Acks)
    /\ WF_vars(TaskEnds)

-----------------------------------------------------------------------------
Envelopes == [key : Keys, seq : Nat, msg : [conn : 0..Conns, n : 0..Messages]]

TypeOK ==
    /\ clients \in [Keys -> 0..Conns]
    /\ conn \in [Ids -> [at : {"unused", "select", "holding", "ended", "joined"}, key : Keys,
                         cancelled : BOOLEAN, queued : Seq(1..Messages), pong : BOOLEAN,
                         hand : 0..Messages,
                         closed : {"no", "asked", "ended"}]]
    /\ pongs \subseteq Keys
    /\ channel \in Seq([key : Keys, msg : [conn : 0..Conns, n : 0..Messages]])
    /\ Len(channel) <= Capacity
    /\ next \in [Keys -> Nat \ {0}]
    /\ buffer \in [Keys -> Seq(Envelopes)]
    /\ changed \in BOOLEAN
    /\ writer \in [at : {"down", "replay", "ready", "full", "send", "stopped"}, todo : [Keys -> Seq(Envelopes)]]
    /\ wire \in Seq(Envelopes)
    /\ got \subseteq Envelopes
    /\ used \in [messages : 0..Messages, losses : 0..Losses]

\* The backend gets each stream without a gap, a number always stands for the same
\* message, and the messages of a connection are numbered in the order in which the
\* app-server sent them, through losses, replays and several connections of one key.
StreamIsComplete ==
    /\ \A k \in Keys : Seqs(k) = 1..Cardinality(Seqs(k))
    /\ \A e, f \in got :
         e.key = f.key /\ e.seq <= f.seq =>
            /\ e.seq = f.seq => e = f
            /\ e.msg.conn = f.msg.conn /\ f.msg.n # Pong => e.msg.n <= f.msg.n

\* What has been numbered is at the backend or still buffered, and the buffer never
\* outgrows its capacity, which only the writer's look at the usage guards.
KeptUntilAcked ==
    /\ Usage <= Capacity
    /\ \A k \in Keys : \A n \in 1..(next[k] - 1) :
         n \in Seqs(k) \/ \E i \in DOMAIN buffer[k] : buffer[k][i].seq = n

\* An open connection is the one of its key, and only those have a task that nobody
\* has told to end: neither a connection nor a task is left behind.
NothingLeftBehind ==
    \A c \in Opened :
        /\ conn[c].closed = "no" <=> clients[conn[c].key] = c
        /\ conn[c].closed # "no" => conn[c].cancelled

\* A connection that is closed because an outbound task has ended is the connection of
\* that task.
ClosedWithItsTask ==
    \A c \in Opened : conn[c].closed = "ended" => conn[c].at = "joined"

\* A message that an outbound task has forwarded reaches the backend, however often the
\* websocket is lost or the buffer is full.
Delivered ==
    \A n \in 1..Messages :
        (\E i \in DOMAIN channel : channel[i].msg.n = n)
            ~> (writer.at = "stopped" \/ \E e \in got : e.msg.n = n)

\* A connection that the app-server gives up is closed.
DisconnectCloses ==
    \A c \in Ids : conn[c].cancelled ~> conn[c].closed # "no"
=============================================================================
