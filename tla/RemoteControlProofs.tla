------------------------- MODULE RemoteControlProofs -------------------------
(* Proofs about RemoteControl for every set of client streams, every capacity    *)
(* and every number of connections, messages and losses.                         *)
EXTENDS RemoteControl, FiniteSetTheorems, TLAPS

ConnSteps == {"unused", "select", "holding", "ended", "joined"}
Causes == {"no", "asked", "ended"}
Hands == 0..Messages
Reasons == {"asked", "ended"}
ConnRecs == [at : ConnSteps, key : Keys, cancelled : BOOLEAN, queued : Seq(1..Messages),
             pong : BOOLEAN, hand : Hands, closed : Causes]
Contents == [conn : 0..Conns, n : 0..Messages]
Events == [key : Keys, msg : Contents]
WriterSteps == {"down", "replay", "ready", "full", "send", "stopped"}
Writers == [at : WriterSteps, todo : [Keys -> Seq(Envelopes)]]

\* The type invariant by parts: the tracker, the channel, what the writer keeps, and what
\* has left it.
TrackerTyped == clients \in [Keys -> 0..Conns] /\ conn \in [Ids -> ConnRecs] /\ pongs \subseteq Keys
ChannelTyped == channel \in Seq(Events) /\ Len(channel) <= Capacity
OutboundTyped ==
    /\ next \in [Keys -> Nat \ {0}] /\ buffer \in [Keys -> Seq(Envelopes)]
    /\ changed \in BOOLEAN /\ writer \in Writers
SentTyped == wire \in Seq(Envelopes) /\ got \subseteq Envelopes
UsedTyped == used \in [messages : 0..Messages, losses : 0..Losses]

\* The type invariant is its parts.
LEMMA TypeIs == TypeOK <=> TrackerTyped /\ ChannelTyped /\ OutboundTyped /\ SentTyped /\ UsedTyped
BY DEF TypeOK, TrackerTyped, ChannelTyped, OutboundTyped, SentTyped, UsedTyped, ConnSteps, Causes, Hands,
       ConnRecs, Contents, Events, WriterSteps, Writers, Envelopes

\* Connections are numbered as they are opened, and one that is not open was never closed.
OpenedInOrder == Opened = 1..Cardinality(Opened)
Fresh == \A c \in Ids \ Opened : conn[c].closed = "no"

\* The tracker's connection of a key is a connection of that key.
Tracked == \A k \in Keys : clients[k] # 0 => clients[k] \in Opened /\ conn[clients[k]].key = k

ConnInv == TrackerTyped /\ OpenedInOrder /\ Fresh /\ Tracked /\ NothingLeftBehind

\* A number of the stream has been received, or is on its way.
OnWire(k, n) == \E i \in DOMAIN wire : wire[i].key = k /\ wire[i].seq = n
Sent(k, n) == n \in Seqs(k) \/ OnWire(k, n)

\* What is buffered are the last numbers given out; those before it were received.
BufferIsLast ==
    \A k \in Keys :
        /\ Len(buffer[k]) < next[k]
        /\ \A i \in DOMAIN buffer[k] :
             buffer[k][i].key = k /\ buffer[k][i].seq = next[k] - 1 - Len(buffer[k]) + i
        /\ \A n \in 1..(next[k] - 1 - Len(buffer[k])) : n \in Seqs(k)

\* What the writer has still to send are the last numbers too; those before it were sent.
TodoIsLast ==
    writer.at # "down" => \A k \in Keys :
        /\ Len(writer.todo[k]) < next[k]
        /\ \A i \in DOMAIN writer.todo[k] :
             writer.todo[k][i].key = k /\ writer.todo[k][i].seq = next[k] - 1 - Len(writer.todo[k]) + i
        /\ \A n \in 1..(next[k] - 1 - Len(writer.todo[k])) : Sent(k, n)

\* Only a replay and a send have something to send, and a send has one envelope.
TodoWhen ==
    /\ writer.at \notin {"replay", "send"} => \A k \in Keys : writer.todo[k] = <<>>
    /\ writer.at = "send" => \A k, l \in Keys :
         Len(writer.todo[k]) <= 1 /\ (writer.todo[k] # <<>> /\ writer.todo[l] # <<>> => k = l)

\* Every number below one on the wire was received or is in front of it.
WireInTurn ==
    \A i \in DOMAIN wire :
        /\ wire[i].seq # 0
        /\ \A n \in 1..(wire[i].seq - 1) :
             \/ n \in Seqs(wire[i].key)
             \/ \E j \in 1..(i - 1) : wire[j].key = wire[i].key /\ wire[j].seq = n

\* Every number below a received one was received.
GotInTurn == \A e \in got : e.seq # 0 /\ \A n \in 1..e.seq : n \in Seqs(e.key)

\* There is room when the writer takes an event.
Room ==
    /\ IsFiniteSet(Buffered) /\ IsFiniteSet(got)
    /\ writer.at = "ready" => Usage < Capacity
    /\ Usage <= Capacity

SeqInv ==
    /\ OutboundTyped /\ SentTyped
    /\ BufferIsLast /\ TodoIsLast /\ TodoWhen /\ WireInTurn /\ GotInTurn /\ Room

\* The envelopes there are, wherever they are.
Out(e) ==
    \/ e \in got
    \/ \E i \in DOMAIN wire : e = wire[i]
    \/ \E k \in Keys : \E i \in DOMAIN writer.todo[k] : e = writer.todo[k][i]
    \/ \E k \in Keys : \E i \in DOMAIN buffer[k] : e = buffer[k][i]
All == {e \in Envelopes : Out(e)}

\* A number that was not given out is on no envelope, and one that was is on one.
Below == writer.at # "stopped" => \A e \in All : e.seq < next[e.key]
OneMeaning == \A e, f \in All : e.key = f.key /\ e.seq = f.seq => e = f

\* Message n of connection c comes after all of c that are numbered, or in the channel.
AfterAll(c, n) == \A e \in All : e.msg.conn = c => e.msg.n <= n
AfterChannel(c, n) == \A i \in DOMAIN channel : channel[i].msg.conn = c => channel[i].msg.n <= n

\* The messages of a connection are in order on the envelopes, in the channel, in its
\* task's hand and in its queue.
EnvelopesInOrder ==
    \A e, f \in All :
        e.key = f.key /\ e.seq <= f.seq /\ e.msg.conn = f.msg.conn /\ f.msg.n # Pong => e.msg.n <= f.msg.n
ChannelInOrder ==
    \A j \in DOMAIN channel : channel[j].msg.n # Pong =>
        /\ AfterAll(channel[j].msg.conn, channel[j].msg.n)
        /\ \A i \in DOMAIN channel :
             i < j /\ channel[i].msg.conn = channel[j].msg.conn => channel[i].msg.n <= channel[j].msg.n
HandInOrder ==
    \A c \in Ids : conn[c].hand # Pong => AfterAll(c, conn[c].hand) /\ AfterChannel(c, conn[c].hand)
QueueInOrder ==
    \A c \in Ids : \A i \in DOMAIN conn[c].queued :
        /\ AfterAll(c, conn[c].queued[i]) /\ AfterChannel(c, conn[c].queued[i])
        /\ conn[c].hand <= conn[c].queued[i]
        /\ \A h \in 1..(i - 1) : conn[c].queued[h] <= conn[c].queued[i]

\* No message has a number that the app-server has not used.
Counted ==
    /\ \A e \in All : e.msg.n <= used.messages
    /\ \A i \in DOMAIN channel : channel[i].msg.n <= used.messages
    /\ \A c \in Ids : conn[c].hand <= used.messages
    /\ \A c \in Ids : \A i \in DOMAIN conn[c].queued : conn[c].queued[i] <= used.messages

OrderInv ==
    /\ Below /\ OneMeaning /\ EnvelopesInOrder
    /\ ChannelInOrder /\ HandInOrder /\ QueueInOrder /\ Counted

\* The inductive invariant.
IInv == ConnInv /\ ChannelTyped /\ UsedTyped /\ SeqInv /\ OrderInv

-----------------------------------------------------------------------------
(* Sequences, functions and records *)

\* The elements of a sequence.
LEMMA ElementsIn == ASSUME NEW S, NEW s \in Seq(S) PROVE \A i \in DOMAIN s : s[i] \in S
OBVIOUS

\* The domain of a sequence.
LEMMA SeqIs ==
    ASSUME NEW S, NEW s \in Seq(S)
    PROVE  Len(s) \in Nat /\ DOMAIN s = 1..Len(s) /\ (s = <<>> <=> Len(s) = 0)
OBVIOUS

\* The empty sequence.
LEMMA EmptyIs == \A S : <<>> \in Seq(S) /\ Len(<<>>) = 0 /\ DOMAIN <<>> = {}
OBVIOUS

\* A sequence with one more element.
LEMMA AppendIs ==
    ASSUME NEW S, NEW s \in Seq(S), NEW e \in S
    PROVE  /\ Append(s, e) \in Seq(S) /\ Len(Append(s, e)) = Len(s) + 1
           /\ DOMAIN Append(s, e) = 1..(Len(s) + 1) /\ DOMAIN s = 1..Len(s) /\ Len(s) \in Nat
           /\ \A i \in DOMAIN s : Append(s, e)[i] = s[i]
           /\ Append(s, e)[Len(s) + 1] = e
OBVIOUS

\* A sequence without its first element.
LEMMA TailIs ==
    ASSUME NEW S, NEW s \in Seq(S), s # <<>>
    PROVE  /\ Tail(s) \in Seq(S) /\ Len(Tail(s)) = Len(s) - 1
           /\ DOMAIN Tail(s) = 1..(Len(s) - 1) /\ DOMAIN s = 1..Len(s) /\ Len(s) \in Nat \ {0}
           /\ \A i \in DOMAIN Tail(s) : Tail(s)[i] = s[i + 1]
           /\ Head(s) \in S /\ Head(s) = s[1]
OBVIOUS

\* A sequence without its first m elements.
LEMMA RestIs ==
    ASSUME NEW S, NEW s \in Seq(S), NEW m \in DOMAIN s, NEW t, t = SubSeq(s, m + 1, Len(s))
    PROVE  /\ t \in Seq(S) /\ Len(t) = Len(s) - m /\ DOMAIN t = 1..(Len(s) - m)
           /\ DOMAIN s = 1..Len(s) /\ Len(s) \in Nat /\ m \in 1..Len(s)
           /\ \A i \in DOMAIN t : t[i] = s[m + i]
BY SMTT(60)

\* A sequence of one element.
LEMMA OneIs ==
    ASSUME NEW S, NEW e \in S
    PROVE  <<e>> \in Seq(S) /\ Len(<<e>>) = 1 /\ DOMAIN <<e>> = {1} /\ <<e>>[1] = e
OBVIOUS

\* A function that changes at one place.
LEMMA ChangesAt ==
    ASSUME NEW S, NEW T, NEW f \in [S -> T], NEW c \in S, NEW x \in T
    PROVE  /\ [f EXCEPT ![c] = x] \in [S -> T] /\ [f EXCEPT ![c] = x][c] = x
           /\ \A d \in S \ {c} : [f EXCEPT ![c] = x][d] = f[d]
OBVIOUS

\* Connections are numbered from 1.
LEMMA IdsAre == Ids \subseteq Nat \ {0} /\ 0 \notin Ids /\ \A c \in Ids : c \in 0..Conns
BY RemoteBounds DEF Ids

\* A connection is closed.
LEMMA Closing ==
    ASSUME NEW r \in ConnRecs, NEW x \in Causes
    PROVE  LET q == [r EXCEPT !.cancelled = TRUE, !.closed = x]
           IN  /\ q \in ConnRecs
               /\ q.at = r.at /\ q.key = r.key /\ q.cancelled = TRUE
               /\ q.queued = r.queued /\ q.pong = r.pong /\ q.hand = r.hand
               /\ q.closed = x
<1> DEFINE a == [r EXCEPT !.cancelled = TRUE]
<1>1. /\ a \in ConnRecs
      /\ a.at = r.at /\ a.key = r.key /\ a.cancelled = TRUE
      /\ a.queued = r.queued /\ a.pong = r.pong /\ a.hand = r.hand
      /\ a.closed = r.closed
  BY DEF ConnRecs, ConnSteps
<1> HIDE DEF a
<1> DEFINE b == [a EXCEPT !.closed = x]
<1>2. /\ b \in ConnRecs
      /\ b.at = r.at /\ b.key = r.key /\ b.cancelled = TRUE
      /\ b.queued = r.queued /\ b.pong = r.pong /\ b.hand = r.hand
      /\ b.closed = x
  BY <1>1 DEF ConnRecs, ConnSteps
<1> HIDE DEF b
<1>3. [r EXCEPT !.cancelled = TRUE, !.closed = x] = b
  BY DEF a, b
<1>4. QED
  BY <1>2, <1>3

\* A connection is opened.
LEMMA Opening ==
    ASSUME NEW r \in ConnRecs, NEW k \in Keys
    PROVE  LET q == [r EXCEPT !.at = "select", !.key = k]
           IN  /\ q \in ConnRecs
               /\ q.at = "select" /\ q.key = k /\ q.cancelled = r.cancelled
               /\ q.queued = r.queued /\ q.pong = r.pong /\ q.hand = r.hand
               /\ q.closed = r.closed
<1> DEFINE a == [r EXCEPT !.at = "select"]
<1>1. /\ a \in ConnRecs
      /\ a.at = "select" /\ a.key = r.key /\ a.cancelled = r.cancelled
      /\ a.queued = r.queued /\ a.pong = r.pong /\ a.hand = r.hand
      /\ a.closed = r.closed
  BY DEF ConnRecs, ConnSteps
<1> HIDE DEF a
<1> DEFINE b == [a EXCEPT !.key = k]
<1>2. /\ b \in ConnRecs
      /\ b.at = "select" /\ b.key = k /\ b.cancelled = r.cancelled
      /\ b.queued = r.queued /\ b.pong = r.pong /\ b.hand = r.hand
      /\ b.closed = r.closed
  BY <1>1 DEF ConnRecs, ConnSteps
<1> HIDE DEF b
<1>3. [r EXCEPT !.at = "select", !.key = k] = b
  BY DEF a, b
<1>4. QED
  BY <1>2, <1>3

\* The task takes a pong.
LEMMA TakingPong ==
    ASSUME NEW r \in ConnRecs, 0 \in Hands
    PROVE  LET q == [r EXCEPT !.at = "holding", !.hand = 0, !.pong = FALSE]
           IN  /\ q \in ConnRecs
               /\ q.at = "holding" /\ q.key = r.key /\ q.cancelled = r.cancelled
               /\ q.queued = r.queued /\ q.pong = FALSE /\ q.hand = 0
               /\ q.closed = r.closed
<1> DEFINE a == [r EXCEPT !.at = "holding"]
<1>1. /\ a \in ConnRecs
      /\ a.at = "holding" /\ a.key = r.key /\ a.cancelled = r.cancelled
      /\ a.queued = r.queued /\ a.pong = r.pong /\ a.hand = r.hand
      /\ a.closed = r.closed
  BY DEF ConnRecs, ConnSteps
<1> HIDE DEF a
<1> DEFINE b == [a EXCEPT !.hand = 0]
<1>2. /\ b \in ConnRecs
      /\ b.at = "holding" /\ b.key = r.key /\ b.cancelled = r.cancelled
      /\ b.queued = r.queued /\ b.pong = r.pong /\ b.hand = 0
      /\ b.closed = r.closed
  BY <1>1 DEF ConnRecs, ConnSteps
<1> HIDE DEF b
<1> DEFINE c == [b EXCEPT !.pong = FALSE]
<1>3. /\ c \in ConnRecs
      /\ c.at = "holding" /\ c.key = r.key /\ c.cancelled = r.cancelled
      /\ c.queued = r.queued /\ c.pong = FALSE /\ c.hand = 0
      /\ c.closed = r.closed
  BY <1>2 DEF ConnRecs, ConnSteps
<1> HIDE DEF c
<1>4. [r EXCEPT !.at = "holding", !.hand = 0, !.pong = FALSE] = c
  BY DEF a, b, c
<1>5. QED
  BY <1>3, <1>4

\* The task has forwarded.
LEMMA Forwarded ==
    ASSUME NEW r \in ConnRecs, 0 \in Hands
    PROVE  LET q == [r EXCEPT !.at = "select", !.hand = 0]
           IN  /\ q \in ConnRecs
               /\ q.at = "select" /\ q.key = r.key /\ q.cancelled = r.cancelled
               /\ q.queued = r.queued /\ q.pong = r.pong /\ q.hand = 0
               /\ q.closed = r.closed
<1> DEFINE a == [r EXCEPT !.at = "select"]
<1>1. /\ a \in ConnRecs
      /\ a.at = "select" /\ a.key = r.key /\ a.cancelled = r.cancelled
      /\ a.queued = r.queued /\ a.pong = r.pong /\ a.hand = r.hand
      /\ a.closed = r.closed
  BY DEF ConnRecs, ConnSteps
<1> HIDE DEF a
<1> DEFINE b == [a EXCEPT !.hand = 0]
<1>2. /\ b \in ConnRecs
      /\ b.at = "select" /\ b.key = r.key /\ b.cancelled = r.cancelled
      /\ b.queued = r.queued /\ b.pong = r.pong /\ b.hand = 0
      /\ b.closed = r.closed
  BY <1>1 DEF ConnRecs, ConnSteps
<1> HIDE DEF b
<1>3. [r EXCEPT !.at = "select", !.hand = 0] = b
  BY DEF a, b
<1>4. QED
  BY <1>2, <1>3

\* The task ends.
LEMMA Ending ==
    ASSUME NEW r \in ConnRecs, 0 \in Hands, <<>> \in Seq(1..Messages)
    PROVE  LET q == [r EXCEPT !.at = "ended", !.queued = <<>>, !.hand = 0, !.pong = FALSE]
           IN  /\ q \in ConnRecs
               /\ q.at = "ended" /\ q.key = r.key /\ q.cancelled = r.cancelled
               /\ q.queued = <<>> /\ q.pong = FALSE /\ q.hand = 0
               /\ q.closed = r.closed
<1> DEFINE a == [r EXCEPT !.at = "ended"]
<1>1. /\ a \in ConnRecs
      /\ a.at = "ended" /\ a.key = r.key /\ a.cancelled = r.cancelled
      /\ a.queued = r.queued /\ a.pong = r.pong /\ a.hand = r.hand
      /\ a.closed = r.closed
  BY DEF ConnRecs, ConnSteps
<1> HIDE DEF a
<1> DEFINE b == [a EXCEPT !.queued = <<>>]
<1>2. /\ b \in ConnRecs
      /\ b.at = "ended" /\ b.key = r.key /\ b.cancelled = r.cancelled
      /\ b.queued = <<>> /\ b.pong = r.pong /\ b.hand = r.hand
      /\ b.closed = r.closed
  BY <1>1 DEF ConnRecs, ConnSteps
<1> HIDE DEF b
<1> DEFINE c == [b EXCEPT !.hand = 0]
<1>3. /\ c \in ConnRecs
      /\ c.at = "ended" /\ c.key = r.key /\ c.cancelled = r.cancelled
      /\ c.queued = <<>> /\ c.pong = r.pong /\ c.hand = 0
      /\ c.closed = r.closed
  BY <1>2 DEF ConnRecs, ConnSteps
<1> HIDE DEF c
<1> DEFINE d == [c EXCEPT !.pong = FALSE]
<1>4. /\ d \in ConnRecs
      /\ d.at = "ended" /\ d.key = r.key /\ d.cancelled = r.cancelled
      /\ d.queued = <<>> /\ d.pong = FALSE /\ d.hand = 0
      /\ d.closed = r.closed
  BY <1>3 DEF ConnRecs, ConnSteps
<1> HIDE DEF d
<1>5. [r EXCEPT !.at = "ended", !.queued = <<>>, !.hand = 0, !.pong = FALSE] = d
  BY DEF a, b, c, d
<1>6. QED
  BY <1>4, <1>5

\* The connection is shut down.
LEMMA ShuttingDown ==
    ASSUME NEW r \in ConnRecs, NEW x \in Causes, 0 \in Hands, <<>> \in Seq(1..Messages)
    PROVE  LET q == [r EXCEPT !.at = "joined", !.cancelled = TRUE, !.queued = <<>>, !.hand = 0, !.pong = FALSE, !.closed = x]
           IN  /\ q \in ConnRecs
               /\ q.at = "joined" /\ q.key = r.key /\ q.cancelled = TRUE
               /\ q.queued = <<>> /\ q.pong = FALSE /\ q.hand = 0
               /\ q.closed = x
<1> DEFINE a == [r EXCEPT !.at = "joined"]
<1>1. /\ a \in ConnRecs
      /\ a.at = "joined" /\ a.key = r.key /\ a.cancelled = r.cancelled
      /\ a.queued = r.queued /\ a.pong = r.pong /\ a.hand = r.hand
      /\ a.closed = r.closed
  BY DEF ConnRecs, ConnSteps
<1> HIDE DEF a
<1> DEFINE b == [a EXCEPT !.cancelled = TRUE]
<1>2. /\ b \in ConnRecs
      /\ b.at = "joined" /\ b.key = r.key /\ b.cancelled = TRUE
      /\ b.queued = r.queued /\ b.pong = r.pong /\ b.hand = r.hand
      /\ b.closed = r.closed
  BY <1>1 DEF ConnRecs, ConnSteps
<1> HIDE DEF b
<1> DEFINE c == [b EXCEPT !.queued = <<>>]
<1>3. /\ c \in ConnRecs
      /\ c.at = "joined" /\ c.key = r.key /\ c.cancelled = TRUE
      /\ c.queued = <<>> /\ c.pong = r.pong /\ c.hand = r.hand
      /\ c.closed = r.closed
  BY <1>2 DEF ConnRecs, ConnSteps
<1> HIDE DEF c
<1> DEFINE d == [c EXCEPT !.hand = 0]
<1>4. /\ d \in ConnRecs
      /\ d.at = "joined" /\ d.key = r.key /\ d.cancelled = TRUE
      /\ d.queued = <<>> /\ d.pong = r.pong /\ d.hand = 0
      /\ d.closed = r.closed
  BY <1>3 DEF ConnRecs, ConnSteps
<1> HIDE DEF d
<1> DEFINE e == [d EXCEPT !.pong = FALSE]
<1>5. /\ e \in ConnRecs
      /\ e.at = "joined" /\ e.key = r.key /\ e.cancelled = TRUE
      /\ e.queued = <<>> /\ e.pong = FALSE /\ e.hand = 0
      /\ e.closed = r.closed
  BY <1>4 DEF ConnRecs, ConnSteps
<1> HIDE DEF e
<1> DEFINE f == [e EXCEPT !.closed = x]
<1>6. /\ f \in ConnRecs
      /\ f.at = "joined" /\ f.key = r.key /\ f.cancelled = TRUE
      /\ f.queued = <<>> /\ f.pong = FALSE /\ f.hand = 0
      /\ f.closed = x
  BY <1>5 DEF ConnRecs, ConnSteps
<1> HIDE DEF f
<1>7. [r EXCEPT !.at = "joined", !.cancelled = TRUE, !.queued = <<>>, !.hand = 0, !.pong = FALSE, !.closed = x] = f
  BY DEF a, b, c, d, e, f
<1>8. QED
  BY <1>6, <1>7

-----------------------------------------------------------------------------
(* Connections *)

\* One open connection changes and stays what it is to the tracker.
LEMMA ConnI ==
    ASSUME ConnInv, NEW c \in Opened, NEW r \in ConnRecs, conn' = [conn EXCEPT ![c] = r],
           UNCHANGED <<clients, pongs>>, r.key = conn[c].key, r.closed = conn[c].closed,
           conn[c].cancelled => r.cancelled, r.at # "unused"
    PROVE  ConnInv' /\ conn'[c] = r /\ \A d \in Ids \ {c} : conn'[d] = conn[d]
<1>1. conn \in [Ids -> ConnRecs] /\ c \in Ids
  BY DEF ConnInv, TrackerTyped, Opened
<1>2. /\ conn' \in [Ids -> ConnRecs] /\ conn'[c] = r
      /\ \A d \in Ids \ {c} : conn'[d] = conn[d]
  BY <1>1, ChangesAt
<1>3. Opened' = Opened
  BY <1>2 DEF Opened
<1>4. TrackerTyped' /\ OpenedInOrder'
  BY <1>2, <1>3 DEF ConnInv, TrackerTyped, OpenedInOrder
<1>5. Fresh'
  BY <1>2, <1>3 DEF ConnInv, Fresh
<1>6. \A d \in Ids : conn'[d].key = conn[d].key /\ conn'[d].closed = conn[d].closed
                     /\ (conn[d].cancelled => conn'[d].cancelled)
  BY <1>2
<1>7. Tracked'
  BY <1>3, <1>6 DEF ConnInv, Tracked, Opened
<1>8. NothingLeftBehind'
  BY <1>3, <1>6 DEF ConnInv, NothingLeftBehind, Opened
<1>9. QED
  BY <1>2, <1>4, <1>5, <1>7, <1>8 DEF ConnInv

\* Nothing changes for the tracker.
LEMMA ConnSame == ASSUME ConnInv, UNCHANGED tracker PROVE ConnInv'
<1>1. UNCHANGED <<clients, conn, pongs>>
  BY DEF tracker
<1>2. Opened' = Opened
  BY <1>1 DEF Opened
<1>3. QED
  BY <1>1, <1>2 DEF ConnInv, TrackerTyped, OpenedInOrder, Fresh, Tracked, NothingLeftBehind

\* close_client.
LEMMA ClosedIs ==
    ASSUME ConnInv, NEW k \in Keys, NEW x \in Reasons
    PROVE  /\ Closed(k, x) \in [Ids -> ConnRecs]
           /\ \A d \in Ids : d # clients[k] => Closed(k, x)[d] = conn[d]
           /\ \A d \in Ids : d = clients[k] =>
                Closed(k, x)[d].closed = x /\ Closed(k, x)[d].cancelled = TRUE
           /\ \A d \in Ids :
                /\ Closed(k, x)[d].at = conn[d].at /\ Closed(k, x)[d].key = conn[d].key
                /\ Closed(k, x)[d].queued = conn[d].queued /\ Closed(k, x)[d].hand = conn[d].hand
<1>1. conn \in [Ids -> ConnRecs] /\ clients \in [Keys -> 0..Conns] /\ x \in Causes
  BY DEF ConnInv, TrackerTyped, Causes, Reasons
<1>2. CASE clients[k] = 0
  BY <1>1, <1>2, IdsAre DEF Closed
<1>3. CASE clients[k] # 0
  <2> DEFINE c == clients[k]
             r == [conn[c] EXCEPT !.cancelled = TRUE, !.closed = x]
  <2>1. c \in Ids
    BY <1>3 DEF ConnInv, Tracked, Opened
  <2>2. conn[c] \in ConnRecs
    BY <1>1, <2>1
  <2>3. /\ r \in ConnRecs /\ r.at = conn[c].at /\ r.key = conn[c].key /\ r.cancelled = TRUE
        /\ r.queued = conn[c].queued /\ r.hand = conn[c].hand /\ r.closed = x
    BY <1>1, <2>2, Closing, ZenonT(60)
  <2>4. Closed(k, x) = [conn EXCEPT ![c] = r]
    BY <1>3 DEF Closed
  <2> HIDE DEF c, r
  <2>5. /\ [conn EXCEPT ![c] = r] \in [Ids -> ConnRecs] /\ [conn EXCEPT ![c] = r][c] = r
        /\ \A d \in Ids \ {c} : [conn EXCEPT ![c] = r][d] = conn[d]
    BY <1>1, <2>1, <2>3, ChangesAt
  <2>6. c = clients[k]
    BY DEF c
  <2>7. QED
    BY <2>3, <2>4, <2>5, <2>6
<1>4. QED
  BY <1>2, <1>3

\* The connection of a key is closed, and the key has none.
LEMMA CloseI ==
    ASSUME ConnInv, NEW k \in Keys, NEW x \in Reasons,
           clients' = [clients EXCEPT ![k] = 0], UNCHANGED pongs, conn' \in [Ids -> ConnRecs],
           \A d \in Ids : /\ conn'[d].closed = Closed(k, x)[d].closed
                          /\ conn'[d].cancelled = Closed(k, x)[d].cancelled
                          /\ conn'[d].key = conn[d].key
                          /\ conn'[d].at = "unused" <=> conn[d].at = "unused"
    PROVE  ConnInv'
<1>1. Opened' = Opened /\ Opened \subseteq Ids
  BY DEF Opened
<1>2. clients \in [Keys -> 0..Conns] /\ 0 \in 0..Conns
  BY RemoteBounds DEF ConnInv, TrackerTyped
<1>3. /\ clients' \in [Keys -> 0..Conns] /\ clients'[k] = 0
      /\ \A l \in Keys \ {k} : clients'[l] = clients[l]
  BY <1>2, ChangesAt
<1>4. TrackerTyped' /\ OpenedInOrder'
  BY <1>1, <1>3 DEF ConnInv, TrackerTyped, OpenedInOrder
<1>5. \A d \in Ids : /\ d # clients[k] => conn'[d].closed = conn[d].closed /\ conn'[d].cancelled = conn[d].cancelled
                     /\ d = clients[k] => conn'[d].closed # "no" /\ conn'[d].cancelled
  <2>1. /\ \A d \in Ids : d # clients[k] => Closed(k, x)[d] = conn[d]
        /\ \A d \in Ids : d = clients[k] =>
             Closed(k, x)[d].closed = x /\ Closed(k, x)[d].cancelled = TRUE
    BY ClosedIs, ZenonT(60)
  <2>2. x # "no"
    BY DEF Reasons
  <2>3. QED
    BY <2>1, <2>2
<1>6. \A d \in Ids : d = clients[k] => d \in Opened /\ conn[d].key = k
  BY IdsAre DEF ConnInv, Tracked
<1>7. Fresh'
  BY <1>1, <1>5, <1>6 DEF ConnInv, Fresh
<1>8. Tracked'
  BY <1>1, <1>3 DEF ConnInv, Tracked
<1>9. NothingLeftBehind'
  <2> SUFFICES ASSUME NEW d \in Opened
               PROVE  /\ conn'[d].closed = "no" <=> clients'[conn'[d].key] = d
                      /\ conn'[d].closed # "no" => conn'[d].cancelled
    BY <1>1 DEF NothingLeftBehind
  <2>1. d \in Ids /\ conn[d].key \in Keys /\ conn'[d].key = conn[d].key /\ d # 0
    BY <1>1, IdsAre DEF ConnInv, TrackerTyped, ConnRecs
  <2>2. /\ conn[d].closed = "no" <=> clients[conn[d].key] = d
        /\ conn[d].closed # "no" => conn[d].cancelled
    BY DEF ConnInv, NothingLeftBehind
  <2>3. CASE d = clients[k]
    BY <1>3, <1>5, <1>6, <2>1, <2>3
  <2>4. CASE d # clients[k]
    BY <1>3, <1>5, <2>1, <2>2, <2>4
  <2>5. QED
    BY <2>3, <2>4
<1>10. QED
  BY <1>4, <1>7, <1>8, <1>9 DEF ConnInv

\* CloseClient.
LEMMA CloseClientC ==
    ASSUME ConnInv, NEW k \in Keys, CloseClient(k)
    PROVE  /\ ConnInv'
           /\ \A d \in Ids : conn'[d].queued = conn[d].queued /\ conn'[d].hand = conn[d].hand
<1> DEFINE x == "asked"
           q == Closed(k, x)
<1>1. /\ conn' = q /\ clients' = [clients EXCEPT ![k] = 0] /\ UNCHANGED pongs
      /\ x \in Reasons
  BY DEF CloseClient, Reasons
<1> HIDE DEF x
<1>2. /\ q \in [Ids -> ConnRecs]
      /\ \A d \in Ids : /\ q[d].at = conn[d].at /\ q[d].key = conn[d].key
                        /\ q[d].queued = conn[d].queued /\ q[d].hand = conn[d].hand
  BY <1>1, ClosedIs, ZenonT(60)
<1> HIDE DEF q
<1>3. /\ conn' \in [Ids -> ConnRecs]
      /\ \A d \in Ids : /\ conn'[d].closed = q[d].closed /\ conn'[d].cancelled = q[d].cancelled
                        /\ conn'[d].key = conn[d].key
                        /\ conn'[d].queued = conn[d].queued /\ conn'[d].hand = conn[d].hand
                        /\ conn'[d].at = "unused" <=> conn[d].at = "unused"
  BY <1>1, <1>2
<1>4. ConnInv'
  BY <1>1, <1>3, CloseI DEF q
<1>5. QED
  BY <1>3, <1>4

\* bookkeep_join_set.
LEMMA BookkeepJoinSetC ==
    ASSUME ConnInv, NEW c \in Ids, BookkeepJoinSet(c)
    PROVE  /\ ConnInv'
           /\ \A d \in Ids : conn'[d].queued = conn[d].queued /\ conn'[d].hand = conn[d].hand
<1> DEFINE k == conn[c].key
           q == Closed(k, "ended")
           r == [q[c] EXCEPT !.at = "joined"]
<1>1. /\ conn' = [q EXCEPT ![c].at = "joined"] /\ clients' = [clients EXCEPT ![k] = 0]
      /\ UNCHANGED pongs /\ conn[c].at = "ended" /\ "ended" \in Reasons
  BY DEF BookkeepJoinSet, Reasons
<1>2. k \in Keys
  BY DEF ConnInv, TrackerTyped, ConnRecs
<1>3. /\ q \in [Ids -> ConnRecs]
      /\ \A d \in Ids : /\ q[d].at = conn[d].at /\ q[d].key = conn[d].key
                        /\ q[d].queued = conn[d].queued /\ q[d].hand = conn[d].hand
  BY <1>1, <1>2, ClosedIs, ZenonT(60)
<1>4. conn' = [q EXCEPT ![c] = r]
  BY <1>1, <1>3
<1> HIDE DEF q
<1>5. /\ r \in ConnRecs /\ r.key = q[c].key /\ r.closed = q[c].closed /\ r.cancelled = q[c].cancelled
      /\ r.at = "joined" /\ r.queued = q[c].queued /\ r.hand = q[c].hand
  <2>1. q[c] \in ConnRecs
    BY <1>3
  <2>2. QED
    BY <2>1 DEF ConnRecs, ConnSteps
<1> HIDE DEF r
<1>6. conn' \in [Ids -> ConnRecs] /\ conn'[c] = r /\ \A d \in Ids \ {c} : conn'[d] = q[d]
  BY <1>3, <1>4, <1>5, ChangesAt
<1>7. \A d \in Ids : /\ conn'[d].closed = q[d].closed /\ conn'[d].cancelled = q[d].cancelled
                     /\ conn'[d].key = conn[d].key
                     /\ conn'[d].queued = conn[d].queued /\ conn'[d].hand = conn[d].hand
                     /\ conn'[d].at = "unused" <=> conn[d].at = "unused"
  BY <1>1, <1>3, <1>5, <1>6, SMTT(60)
<1>8. ConnInv'
  BY <1>1, <1>2, <1>6, <1>7, CloseI DEF q
<1>9. QED
  BY <1>7, <1>8

\* handle_message with an `initialize`.
LEMMA InitializeC ==
    ASSUME ConnInv, NEW k \in Keys, Initialize(k)
    PROVE  /\ ConnInv'
           /\ \A d \in Ids : conn'[d].queued = conn[d].queued /\ conn'[d].hand = conn[d].hand
<1> DEFINE m == Cardinality(Opened)
           c == m + 1
           q == Closed(k, "asked")
           r == [q[c] EXCEPT !.at = "select", !.key = k]
<1>1. /\ conn' = [q EXCEPT ![c] = r] /\ clients' = [clients EXCEPT ![k] = c]
      /\ UNCHANGED pongs /\ m < Conns /\ "asked" \in Reasons
  BY DEF Initialize, Reasons
<1>2. m \in Nat /\ Opened = 1..m
  <2>1. Opened = 1..m
    BY DEF ConnInv, OpenedInOrder
  <2>2. Opened \subseteq Ids /\ IsFiniteSet(Ids)
    BY RemoteBounds, FS_Interval DEF Opened, Ids
  <2>3. QED
    BY <2>1, <2>2, FS_Subset, FS_CardinalityType
<1> HIDE DEF m
<1>3. c \in Ids /\ c \notin Opened /\ c \in 0..Conns /\ c # 0
  BY <1>1, <1>2, RemoteBounds DEF Ids
<1>4. /\ q \in [Ids -> ConnRecs]
      /\ \A d \in Ids : d # clients[k] => q[d] = conn[d]
      /\ \A d \in Ids : d = clients[k] => q[d].closed = "asked" /\ q[d].cancelled = TRUE
      /\ \A d \in Ids : /\ q[d].at = conn[d].at /\ q[d].key = conn[d].key
                        /\ q[d].queued = conn[d].queued /\ q[d].hand = conn[d].hand
  BY <1>1, ClosedIs, ZenonT(60)
<1> HIDE DEF c, q
<1>5. /\ r \in ConnRecs /\ r.at = "select" /\ r.key = k /\ r.closed = q[c].closed
      /\ r.cancelled = q[c].cancelled /\ r.queued = q[c].queued /\ r.hand = q[c].hand
  <2>1. q[c] \in ConnRecs
    BY <1>3, <1>4
  <2>2. QED
    BY <2>1, Opening, ZenonT(60)
<1> HIDE DEF r
<1>6. conn' \in [Ids -> ConnRecs] /\ conn'[c] = r /\ \A d \in Ids \ {c} : conn'[d] = q[d]
  BY <1>1, <1>3, <1>4, <1>5, ChangesAt
<1>7. \A d \in Ids : d = clients[k] => d \in Opened /\ conn[d].key = k
  BY IdsAre DEF ConnInv, Tracked
<1>8. /\ \A d \in Ids \ {c} : conn'[d].at = conn[d].at /\ conn'[d].key = conn[d].key
      /\ \A d \in Ids \ {c} : d # clients[k] => conn'[d] = conn[d]
      /\ \A d \in Ids \ {c} : d = clients[k] => conn'[d].closed # "no" /\ conn'[d].cancelled
      /\ conn'[c].at = "select" /\ conn'[c].key = k /\ conn'[c].closed = "no"
  <2>1. c # clients[k] /\ conn[c].closed = "no"
    BY <1>3, <1>7 DEF ConnInv, Fresh
  <2>2. QED
    BY <1>3, <1>4, <1>5, <1>6, <2>1
<1>9. Opened' = Opened \union {c}
  BY <1>3, <1>8 DEF Opened
<1>10. OpenedInOrder'
  <2>1. Opened' = 1..(m + 1) /\ m + 1 \in Nat
    BY <1>2, <1>9 DEF c
  <2>2. Cardinality(1..(m + 1)) = m + 1
    BY <2>1, FS_Interval
  <2>3. QED
    BY <2>1, <2>2 DEF OpenedInOrder
<1>11. /\ clients' \in [Keys -> 0..Conns] /\ clients'[k] = c
       /\ \A l \in Keys \ {k} : clients'[l] = clients[l]
  <2>1. clients \in [Keys -> 0..Conns]
    BY DEF ConnInv, TrackerTyped
  <2>2. QED
    BY <1>1, <1>3, <2>1, ChangesAt
<1>12. TrackerTyped'
  BY <1>1, <1>6, <1>11 DEF ConnInv, TrackerTyped
<1>13. Fresh'
  BY <1>7, <1>8, <1>9 DEF ConnInv, Fresh
<1>14. Tracked'
  <2> SUFFICES ASSUME NEW l \in Keys, clients'[l] # 0
               PROVE  clients'[l] \in Opened' /\ conn'[clients'[l]].key = l
    BY DEF Tracked
  <2>1. CASE l = k
    BY <1>8, <1>9, <1>11, <2>1
  <2>2. CASE l # k
    <3>1. clients'[l] = clients[l] /\ clients[l] \in Opened /\ conn[clients[l]].key = l
      BY <1>11, <2>2 DEF ConnInv, Tracked
    <3>2. clients[l] \in Ids \ {c}
      BY <1>3, <3>1 DEF Opened
    <3>3. QED
      BY <1>8, <1>9, <3>1, <3>2
  <2>3. QED
    BY <2>1, <2>2
<1>15. NothingLeftBehind'
  <2> SUFFICES ASSUME NEW d \in Opened'
               PROVE  /\ conn'[d].closed = "no" <=> clients'[conn'[d].key] = d
                      /\ conn'[d].closed # "no" => conn'[d].cancelled
    BY DEF NothingLeftBehind
  <2>1. CASE d = c
    BY <1>8, <1>11, <2>1
  <2>2. CASE d # c
    <3>1. d \in Opened /\ d \in Ids \ {c}
      BY <1>9, <2>2 DEF Opened
    <3>2. /\ conn[d].closed = "no" <=> clients[conn[d].key] = d
          /\ conn[d].closed # "no" => conn[d].cancelled
      BY <3>1 DEF ConnInv, NothingLeftBehind
    <3>3. conn[d].key \in Keys
      BY <3>1 DEF ConnInv, TrackerTyped, ConnRecs
    <3>4. CASE d = clients[k]
      BY <1>7, <1>8, <1>11, <3>1, <3>4
    <3>5. CASE d # clients[k]
      BY <1>8, <1>11, <2>2, <3>1, <3>2, <3>3, <3>5
    <3>6. QED
      BY <3>4, <3>5
  <2>3. QED
    BY <2>1, <2>2
<1>16. \A d \in Ids : conn'[d].queued = conn[d].queued /\ conn'[d].hand = conn[d].hand
  BY <1>4, <1>5, <1>6
<1>17. QED
  BY <1>10, <1>12, <1>13, <1>14, <1>15, <1>16 DEF ConnInv

\* ClientTracker::shutdown.
LEMMA ShutdownC ==
    ASSUME ConnInv, Shutdown
    PROVE  /\ ConnInv'
           /\ \A d \in Ids : /\ conn'[d].queued = conn[d].queued \/ conn'[d].queued = <<>>
                             /\ conn'[d].hand = conn[d].hand \/ conn'[d].hand = Pong
<1> DEFINE x(d) == IF clients[conn[d].key] = d THEN "asked" ELSE conn[d].closed
           r(d) == [conn[d] EXCEPT !.at = "joined", !.cancelled = TRUE, !.queued = <<>>, !.hand = 0,
                                   !.pong = FALSE, !.closed = x(d)]
<1>1. /\ conn' = [d \in Ids |-> IF d \notin Opened THEN conn[d] ELSE r(d)]
      /\ clients' = [k \in Keys |-> 0] /\ pongs' = {}
  BY DEF Shutdown, Pong
<1>2. conn \in [Ids -> ConnRecs] /\ 0 \in Hands /\ <<>> \in Seq(1..Messages) /\ 0 \in 0..Conns
  BY RemoteBounds DEF ConnInv, TrackerTyped, Hands
<1>3. ASSUME NEW d \in Ids
      PROVE  /\ r(d) \in ConnRecs /\ r(d).at = "joined" /\ r(d).key = conn[d].key
             /\ r(d).cancelled = TRUE /\ r(d).queued = <<>> /\ r(d).hand = 0 /\ r(d).closed = x(d)
  <2>1. conn[d] \in ConnRecs
    BY <1>2
  <2>2. x(d) \in Causes
    BY <2>1 DEF ConnRecs, Causes
  <2> DEFINE p == conn[d]
             y == x(d)
  <2>3. p \in ConnRecs /\ y \in Causes
    BY <2>1, <2>2
  <2> HIDE DEF x, p, y
  <2>4. LET q == [p EXCEPT !.at = "joined", !.cancelled = TRUE, !.queued = <<>>, !.hand = 0,
                           !.pong = FALSE, !.closed = y]
        IN  /\ q \in ConnRecs /\ q.at = "joined" /\ q.key = p.key
            /\ q.cancelled = TRUE /\ q.queued = <<>> /\ q.hand = 0 /\ q.closed = y
    BY <1>2, <2>3, ShuttingDown, ZenonT(60)
  <2>5. QED
    BY <2>4 DEF p, y
<1> HIDE DEF r
<1>4. /\ conn' \in [Ids -> ConnRecs]
      /\ \A d \in Ids : d \notin Opened => conn'[d] = conn[d]
      /\ \A d \in Ids : d \in Opened => conn'[d] = r(d)
  BY <1>1, <1>2, <1>3
<1>5. Opened' = Opened
  <2>1. \A d \in Ids : d \notin Opened => conn'[d].at = "unused"
    BY <1>4 DEF Opened
  <2>2. ASSUME NEW d \in Opened PROVE d \in Ids /\ conn'[d].at = "joined"
    <3>1. d \in Ids
      BY DEF Opened
    <3>2. conn'[d] = r(d)
      BY <1>4, <3>1
    <3>3. r(d).at = "joined"
      BY <1>3, <3>1
    <3>4. QED
      BY <3>1, <3>2, <3>3
  <2>3. QED
    BY <2>1, <2>2 DEF Opened
<1>6. clients' \in [Keys -> 0..Conns] /\ \A k \in Keys : clients'[k] = 0
  BY <1>1, <1>2
<1>7. TrackerTyped' /\ OpenedInOrder' /\ Tracked' /\ Fresh'
  BY <1>1, <1>4, <1>5, <1>6 DEF ConnInv, TrackerTyped, OpenedInOrder, Tracked, Fresh
<1>8. NothingLeftBehind'
  <2> SUFFICES ASSUME NEW d \in Opened
               PROVE  /\ conn'[d].closed = "no" <=> clients'[conn'[d].key] = d
                      /\ conn'[d].closed # "no" => conn'[d].cancelled
    BY <1>5 DEF NothingLeftBehind
  <2>1. d \in Ids /\ d # 0
    BY IdsAre DEF Opened
  <2>2. conn[d].key \in Keys
    BY <2>1 DEF ConnInv, TrackerTyped, ConnRecs
  <2>3. conn[d].closed = "no" => clients[conn[d].key] = d
    BY DEF ConnInv, NothingLeftBehind
  <2>4. conn'[d].closed # "no" /\ conn'[d].cancelled = TRUE /\ conn'[d].key = conn[d].key
    <3>1. x(d) # "no"
      BY <2>3
    <3> HIDE DEF x
    <3>2. conn'[d] = r(d)
      BY <1>4, <2>1
    <3>3. r(d).closed = x(d) /\ r(d).cancelled = TRUE /\ r(d).key = conn[d].key
      BY <1>3, <2>1
    <3>4. QED
      BY <3>1, <3>2, <3>3
  <2>5. QED
    BY <1>6, <2>1, <2>2, <2>4
<1>9. QED
  BY <1>3, <1>4, <1>7, <1>8, ZenonT(60) DEF ConnInv, Pong

-----------------------------------------------------------------------------
(* Sequence numbers *)

\* The numbers received of a stream.
LEMMA SeqsIs == \A k, n : n \in Seqs(k) <=> \E e \in got : e.key = k /\ e.seq = n
BY DEF Seqs

\* What the writer keeps of a stream.
LEMMA KeptIs ==
    ASSUME OutboundTyped, NEW k \in Keys
    PROVE  /\ next[k] \in Nat \ {0}
           /\ buffer[k] \in Seq(Envelopes) /\ Len(buffer[k]) \in Nat
           /\ DOMAIN buffer[k] = 1..Len(buffer[k])
           /\ writer.todo[k] \in Seq(Envelopes) /\ Len(writer.todo[k]) \in Nat
           /\ DOMAIN writer.todo[k] = 1..Len(writer.todo[k])
<1>1. next[k] \in Nat \ {0} /\ buffer[k] \in Seq(Envelopes) /\ writer.todo[k] \in Seq(Envelopes)
  BY DEF OutboundTyped, Writers
<1>2. QED
  BY <1>1, SeqIs

\* Numbers are counted from the end of what is to be sent.
LEMMA Shift == \A a, b, i \in Nat : a - 1 - b + (i + 1) = a - 1 - (b - 1) + i
OBVIOUS

\* The number of the first envelope to send.
LEMMA FirstToSend ==
    \A a \in Nat : \A b \in Nat \ {0} :
        b < a => a - b \in Nat \ {0} /\ a - 1 - b + 1 = a - b /\ (a - b) - 1 = a - 1 - b
OBVIOUS

\* The last element or one before it.
LEMMA LastOrBefore == \A m \in Nat : \A i \in 1..(m + 1) : i \in 1..m \/ i = m + 1
OBVIOUS

\* The writer goes on with the same envelopes to send.
LEMMA WriterAt ==
    ASSUME writer \in Writers, NEW x \in WriterSteps, writer' = [writer EXCEPT !.at = x]
    PROVE  writer' \in Writers /\ writer'.at = x /\ writer'.todo = writer.todo
BY DEF Writers

\* The top of the writer's loop.
LEMMA TopIs == Top(Usage) \in {"ready", "full"} /\ (Top(Usage) = "ready" => Usage < Capacity)
BY DEF Top

\* What is buffered does not change.
LEMMA BufferSame ==
    ASSUME SeqInv, UNCHANGED <<next, buffer>>, got \subseteq got'
    PROVE  /\ BufferIsLast' /\ IsFiniteSet(Buffered)' /\ Usage' = Usage
           /\ \A k, n : n \in Seqs(k) => n \in Seqs(k)'
<1>1. \A k, n : n \in Seqs(k) => n \in Seqs(k)'
  BY DEF Seqs
<1>2. Buffered' = Buffered
  BY DEF Buffered
<1>3. BufferIsLast'
  BY <1>1 DEF SeqInv, BufferIsLast
<1>4. QED
  BY <1>1, <1>2, <1>3 DEF SeqInv, Room, Usage

\* Nothing changes for the writer and the backend.
LEMMA SeqSame ==
    ASSUME SeqInv, UNCHANGED <<outbound, writer, wire, got>>
    PROVE  SeqInv' /\ All' = All
<1>1. UNCHANGED <<next, buffer, changed>>
  BY DEF outbound
<1>2. \A k, n : Seqs(k)' = Seqs(k) /\ (Sent(k, n)' <=> Sent(k, n))
  BY DEF Seqs, Sent, OnWire
<1>3. OutboundTyped' /\ SentTyped'
  BY <1>1 DEF SeqInv, OutboundTyped, SentTyped
<1>4. BufferIsLast' /\ IsFiniteSet(Buffered)' /\ Usage' = Usage
  BY <1>1, BufferSame
<1>5. TodoIsLast' /\ TodoWhen'
  BY <1>1, <1>2 DEF SeqInv, TodoIsLast, TodoWhen
<1>6. WireInTurn' /\ GotInTurn'
  BY <1>2 DEF SeqInv, WireInTurn, GotInTurn
<1>7. Room'
  BY <1>4 DEF SeqInv, Room
<1>8. All' = All
  BY <1>1 DEF All, Out
<1>9. QED
  BY <1>3, <1>4, <1>5, <1>6, <1>7, <1>8 DEF SeqInv

\* The writer moves and nothing else does.
LEMMA WriterMoves ==
    ASSUME SeqInv, UNCHANGED <<next, buffer, wire, got>>, changed' \in BOOLEAN, writer' \in Writers,
           TodoIsLast', TodoWhen', writer'.at = "ready" => Usage < Capacity,
           \A k \in Keys : \A i \in DOMAIN writer'.todo[k] : Out(writer'.todo[k][i])
    PROVE  SeqInv' /\ All' \subseteq All
<1>1. OutboundTyped' /\ SentTyped'
  BY DEF SeqInv, OutboundTyped, SentTyped
<1>2. BufferIsLast' /\ IsFiniteSet(Buffered)' /\ Usage' = Usage
  BY BufferSame
<1>3. WireInTurn' /\ GotInTurn'
  BY DEF SeqInv, WireInTurn, GotInTurn, Seqs
<1>4. Room'
  BY <1>2 DEF SeqInv, Room
<1>5. \A e : Out(e)' => Out(e)
  BY DEF Out
<1>6. QED
  BY <1>1, <1>2, <1>3, <1>4, <1>5 DEF SeqInv, All

\* The writer comes to the top of its loop with nothing to send.
LEMMA ToTheTop ==
    ASSUME SeqInv, UNCHANGED <<next, buffer, wire, got>>, changed' \in BOOLEAN,
           writer.at # "down", \A k \in Keys : writer.todo[k] = <<>>,
           writer' = [writer EXCEPT !.at = Top(Usage)]
    PROVE  SeqInv' /\ All' \subseteq All
<1>1. Top(Usage) \in WriterSteps /\ Top(Usage) \notin {"down", "replay", "send"}
  BY TopIs DEF WriterSteps
<1>2. writer' \in Writers /\ writer'.at = Top(Usage) /\ writer'.todo = writer.todo
  BY <1>1, WriterAt DEF SeqInv, OutboundTyped
<1>3. \A k, n : Sent(k, n)' <=> Sent(k, n)
  BY DEF Seqs, Sent, OnWire
<1>4. TodoIsLast'
  BY <1>2, <1>3 DEF SeqInv, TodoIsLast
<1>5. TodoWhen'
  BY <1>1, <1>2 DEF TodoWhen
<1>6. writer'.at = "ready" => Usage < Capacity
  BY <1>2, TopIs
<1>7. \A k \in Keys : \A i \in DOMAIN writer'.todo[k] : Out(writer'.todo[k][i])
  BY <1>2 DEF Out
<1>8. QED
  BY <1>2, <1>4, <1>5, <1>6, <1>7, WriterMoves

\* The end of a replay.
LEMMA ReplayDoneS == ASSUME SeqInv, ReplayDone PROVE SeqInv' /\ All' \subseteq All
BY ToTheTop DEF ReplayDone, outbound, SeqInv, OutboundTyped

\* A changed usage.
LEMMA UsageChangedS == ASSUME SeqInv, UsageChanged PROVE SeqInv' /\ All' \subseteq All
<1>1. /\ writer.at = "full" /\ changed' \in BOOLEAN /\ UNCHANGED <<next, buffer, wire, got>>
      /\ writer' = [writer EXCEPT !.at = Top(Usage)]
  BY DEF UsageChanged
<1>2. \A k \in Keys : writer.todo[k] = <<>>
  BY <1>1 DEF SeqInv, TodoWhen
<1>3. QED
  BY <1>1, <1>2, ToTheTop

\* A ping to the backend.
LEMMA PingIntervalS == ASSUME SeqInv, PingInterval PROVE SeqInv' /\ All' \subseteq All
<1>1. /\ writer.at = "full" /\ changed' \in BOOLEAN /\ UNCHANGED <<next, buffer, wire, got>>
      /\ writer' = [writer EXCEPT !.at = Top(Usage)]
  BY DEF PingInterval, outbound, SeqInv, OutboundTyped
<1>2. \A k \in Keys : writer.todo[k] = <<>>
  BY <1>1 DEF SeqInv, TodoWhen
<1>3. QED
  BY <1>1, <1>2, ToTheTop

\* A new connection begins with what is buffered.
LEMMA ConnectS == ASSUME SeqInv, Connect PROVE SeqInv' /\ All' \subseteq All
<1>1. /\ writer' = [at |-> "replay", todo |-> buffer] /\ UNCHANGED <<next, buffer, wire, got>>
      /\ changed' \in BOOLEAN
  BY DEF Connect
<1>2. writer' \in Writers /\ writer'.at = "replay" /\ writer'.todo = buffer
  BY <1>1 DEF SeqInv, OutboundTyped, Writers, WriterSteps
<1>3. \A k, n : n \in Seqs(k) => Sent(k, n)'
  BY <1>1 DEF Seqs, Sent
<1>4. TodoIsLast'
  BY <1>1, <1>2, <1>3 DEF SeqInv, BufferIsLast, TodoIsLast
<1>5. TodoWhen' /\ ~(writer'.at = "ready")
  BY <1>2 DEF TodoWhen
<1>6. \A k \in Keys : \A i \in DOMAIN writer'.todo[k] : Out(writer'.todo[k][i])
  BY <1>2 DEF Out
<1>7. QED
  BY <1>1, <1>2, <1>4, <1>5, <1>6, WriterMoves

\* The next envelope to send goes out.
LEMMA GoesOut ==
    ASSUME SeqInv, NEW k \in Keys, writer.at # "down", writer.todo[k] # <<>>,
           wire' = Append(wire, Head(writer.todo[k])), UNCHANGED <<next, buffer, changed, got>>,
           writer'.at \in WriterSteps \ {"down"},
           writer' = [at |-> writer'.at, todo |-> [writer.todo EXCEPT ![k] = Tail(writer.todo[k])]],
           TodoWhen', writer'.at = "ready" => Usage < Capacity
    PROVE  SeqInv' /\ All' \subseteq All
<1> DEFINE s == writer.todo[k]
           h == Head(s)
           t == Tail(s)
           L == Len(s)
           m == next[k] - L
<1>1. s \in Seq(Envelopes) /\ next[k] \in Nat /\ s # <<>> /\ wire \in Seq(Envelopes)
  BY KeptIs DEF SeqInv, SentTyped
<1>2. /\ t \in Seq(Envelopes) /\ Len(t) = L - 1 /\ L \in Nat \ {0} /\ DOMAIN s = 1..L
      /\ DOMAIN t = 1..(L - 1) /\ h \in Envelopes /\ h = s[1]
      /\ \A i \in DOMAIN t : t[i] = s[i + 1]
  BY <1>1, TailIs
<1>3. /\ L < next[k] /\ \A i \in DOMAIN s : s[i].key = k /\ s[i].seq = next[k] - 1 - L + i
      /\ \A n \in 1..(next[k] - 1 - L) : Sent(k, n)
  BY DEF SeqInv, TodoIsLast
<1>4. /\ wire' \in Seq(Envelopes) /\ Len(wire') = Len(wire) + 1 /\ DOMAIN wire' = 1..(Len(wire) + 1)
      /\ DOMAIN wire = 1..Len(wire) /\ Len(wire) \in Nat
      /\ \A i \in DOMAIN wire : wire'[i] = wire[i]
      /\ wire'[Len(wire) + 1] = h
  BY <1>1, <1>2, AppendIs
<1> HIDE DEF s, h, t, L
<1>5. m \in Nat \ {0} /\ h.key = k /\ h.seq = m /\ m - 1 = next[k] - 1 - L
  <2>1. h.key = k /\ h.seq = next[k] - 1 - L + 1
    BY <1>2, <1>3, SMTT(60)
  <2>2. next[k] \in Nat /\ L \in Nat \ {0} /\ L < next[k]
    BY <1>1, <1>2, <1>3
  <2>3. m \in Nat \ {0} /\ next[k] - 1 - L + 1 = m /\ m - 1 = next[k] - 1 - L
    BY <2>2, FirstToSend
  <2> HIDE DEF m
  <2>4. QED
    BY <2>1, <2>3
<1> HIDE DEF m
<1>6. \A i \in DOMAIN wire : i \in DOMAIN wire'
  BY <1>4
<1>7. /\ \A l, n : n \in Seqs(l)' <=> n \in Seqs(l)
      /\ \A l, n : Sent(l, n) => Sent(l, n)'
      /\ \A n : n = m => Sent(k, n)'
  <2>1. \A l, n : n \in Seqs(l)' <=> n \in Seqs(l)
    BY DEF Seqs
  <2>2. \A l, n : OnWire(l, n) => OnWire(l, n)'
    BY <1>4, <1>6 DEF OnWire
  <2>3. Len(wire) + 1 \in DOMAIN wire'
    BY <1>4
  <2>4. \A n : n = m => OnWire(k, n)'
    BY <1>4, <1>5, <2>3, SMTT(60) DEF OnWire
  <2>5. QED
    BY <2>1, <2>2, <2>4 DEF Sent
<1>8. WireInTurn'
  <2> SUFFICES ASSUME NEW i \in DOMAIN wire'
               PROVE  /\ wire'[i].seq # 0
                      /\ \A n \in 1..(wire'[i].seq - 1) :
                           \/ n \in Seqs(wire'[i].key)
                           \/ \E j \in 1..(i - 1) : wire'[j].key = wire'[i].key /\ wire'[j].seq = n
    BY DEF WireInTurn, Seqs
  <2>1. CASE i \in DOMAIN wire
    <3>1. /\ wire[i].seq # 0
          /\ \A n \in 1..(wire[i].seq - 1) :
               \/ n \in Seqs(wire[i].key)
               \/ \E j \in 1..(i - 1) : wire[j].key = wire[i].key /\ wire[j].seq = n
      BY <2>1 DEF SeqInv, WireInTurn
    <3>2. \A j \in 1..(i - 1) : j \in DOMAIN wire
      BY <1>4, <2>1
    <3>3. wire'[i] = wire[i] /\ \A j \in 1..(i - 1) : wire'[j] = wire[j]
      BY <1>4, <2>1, <3>2
    <3>4. QED
      BY <3>1, <3>3, SMTT(60)
  <2>2. CASE i = Len(wire) + 1
    <3>1. wire'[i] = h /\ h.seq # 0 /\ i - 1 = Len(wire)
      BY <1>4, <1>5, <2>2
    <3>2. \A n \in 1..(m - 1) : Sent(k, n)
      BY <1>3, <1>5
    <3>3. ASSUME NEW n \in 1..(m - 1)
          PROVE  n \in Seqs(k) \/ \E j \in 1..(i - 1) : wire'[j].key = k /\ wire'[j].seq = n
      BY <1>4, <3>1, <3>2 DEF Sent, OnWire
    <3>4. wire'[i].seq = m /\ wire'[i].key = k /\ m # 0
      BY <1>5, <3>1
    <3>5. QED
      BY <3>3, <3>4, ZenonT(60)
  <2>3. i \in DOMAIN wire \/ i = Len(wire) + 1
    BY <1>4, LastOrBefore, Zenon
  <2>4. QED
    BY <2>1, <2>2, <2>3
<1>9. writer.todo \in [Keys -> Seq(Envelopes)]
  BY DEF SeqInv, OutboundTyped, Writers
<1>10. writer'.todo = [writer.todo EXCEPT ![k] = t]
  BY DEF t, s
<1>11. /\ writer'.todo \in [Keys -> Seq(Envelopes)] /\ writer'.todo[k] = t
       /\ \A l \in Keys \ {k} : writer'.todo[l] = writer.todo[l]
  BY <1>2, <1>9, <1>10, ChangesAt
<1>12. writer' \in Writers
  BY <1>11 DEF Writers
<1>13. TodoIsLast'
  <2> SUFFICES ASSUME NEW l \in Keys
               PROVE  /\ Len(writer'.todo[l]) < next[l]
                      /\ \A i \in DOMAIN writer'.todo[l] :
                           /\ writer'.todo[l][i].key = l
                           /\ writer'.todo[l][i].seq = next[l] - 1 - Len(writer'.todo[l]) + i
                      /\ \A n \in 1..(next[l] - 1 - Len(writer'.todo[l])) : Sent(l, n)'
    BY DEF TodoIsLast
  <2>1. CASE l # k
    <3>1. writer'.todo[l] = writer.todo[l]
      BY <1>11, <2>1
    <3>2. QED
      BY <1>7, <3>1 DEF SeqInv, TodoIsLast
  <2>2. CASE l = k
    <3>1. Len(t) < next[k] /\ next[k] - 1 - Len(t) = m
      BY <1>1, <1>2, <1>3, SMTT(60) DEF m
    <3>2. \A i \in DOMAIN t : t[i].key = k /\ t[i].seq = next[k] - 1 - Len(t) + i
      <4> SUFFICES ASSUME NEW i \in DOMAIN t PROVE t[i].key = k /\ t[i].seq = next[k] - 1 - Len(t) + i
        OBVIOUS
      <4>1. i + 1 \in DOMAIN s /\ t[i] = s[i + 1] /\ i \in Nat
        BY <1>2, SMTT(60)
      <4>2. t[i].key = k /\ t[i].seq = next[k] - 1 - L + (i + 1)
        BY <1>3, <4>1
      <4>3. Len(t) = L - 1 /\ L \in Nat /\ next[k] \in Nat
        BY <1>1, <1>2
      <4>4. next[k] - 1 - L + (i + 1) = next[k] - 1 - (L - 1) + i
        BY <4>1, <4>3, Shift
      <4>5. QED
        BY <4>2, <4>3, <4>4, Zenon
    <3>3. \A n \in 1..m : Sent(k, n)'
      <4>1. \A n \in 1..m : n \in 1..(m - 1) \/ n = m
        BY <1>5
      <4>2. \A n \in 1..(m - 1) : Sent(k, n)
        BY <1>3, <1>5
      <4>3. QED
        BY <1>7, <4>1, <4>2
    <3>4. QED
      BY <1>11, <2>2, <3>1, <3>2, <3>3
  <2>3. QED
    BY <2>1, <2>2
<1>14. BufferIsLast' /\ IsFiniteSet(Buffered)' /\ Usage' = Usage
  BY BufferSame
<1>15. GotInTurn' /\ Room'
  BY <1>7, <1>14 DEF SeqInv, GotInTurn, Room
<1>16. OutboundTyped' /\ SentTyped'
  BY <1>4, <1>12 DEF SeqInv, OutboundTyped, SentTyped
<1>17. All' \subseteq All
  <2>1. 1 \in DOMAIN s
    BY <1>2
  <2>2. \A i \in DOMAIN wire' : Out(wire'[i])
    <3>1. Out(h)
      BY <1>2, <2>1 DEF Out, s
    <3>2. \A i \in DOMAIN wire' : i \in DOMAIN wire \/ i = Len(wire) + 1
      BY <1>4
    <3>3. QED
      BY <1>4, <3>1, <3>2 DEF Out
  <2>3. \A i \in DOMAIN t : i + 1 \in DOMAIN s
    BY <1>2, SMTT(60)
  <2>4. \A l \in Keys : \A i \in DOMAIN writer'.todo[l] : Out(writer'.todo[l][i])
    <3>1. \A i \in DOMAIN t : Out(t[i])
      BY <1>2, <2>3 DEF Out, s
    <3>2. \A l \in Keys \ {k} : \A i \in DOMAIN writer.todo[l] : Out(writer.todo[l][i])
      BY DEF Out
    <3>3. QED
      BY <1>11, <3>1, <3>2
  <2>5. \A e : Out(e)' => Out(e)
    BY <2>2, <2>4, SMTT(60) DEF Out
  <2>6. QED
    BY <2>5 DEF All
<1>18. QED
  BY <1>8, <1>13, <1>14, <1>15, <1>16, <1>17 DEF SeqInv

\* An envelope of the replay is sent.
LEMMA ReplayS == ASSUME SeqInv, NEW k \in Keys, Replay(k) PROVE SeqInv' /\ All' \subseteq All
<1>1. /\ writer.at = "replay" /\ writer.todo[k] # <<>> /\ wire' = Append(wire, Head(writer.todo[k]))
      /\ UNCHANGED <<next, buffer, changed, got>>
      /\ writer' = [at |-> "replay", todo |-> [writer.todo EXCEPT ![k] = Tail(writer.todo[k])]]
  BY DEF Replay, outbound
<1>2. writer'.at = "replay"
  BY <1>1
<1>3. TodoWhen' /\ "replay" \in WriterSteps \ {"down"}
  BY <1>2 DEF TodoWhen, WriterSteps
<1>4. QED
  BY <1>1, <1>2, <1>3, GoesOut

\* The envelope in hand is sent.
LEMMA SendS == ASSUME SeqInv, NEW k \in Keys, Send(k) PROVE SeqInv' /\ All' \subseteq All
<1> DEFINE s == writer.todo[k]
<1>1. /\ writer.at = "send" /\ s # <<>> /\ wire' = Append(wire, Head(s))
      /\ UNCHANGED <<next, buffer, changed, got>>
      /\ writer' = [at |-> Top(Usage), todo |-> [writer.todo EXCEPT ![k] = <<>>]]
  BY DEF Send, outbound
<1>2. s \in Seq(Envelopes) /\ Len(s) <= 1
  BY <1>1, KeptIs DEF SeqInv, TodoWhen
<1> HIDE DEF s
<1>3. Tail(s) = <<>>
  <2>1. Tail(s) \in Seq(Envelopes) /\ Len(Tail(s)) = Len(s) - 1 /\ Len(s) \in Nat \ {0}
    BY <1>1, <1>2, TailIs
  <2>2. Len(Tail(s)) = 0
    BY <1>2, <2>1
  <2>3. QED
    BY <2>1, <2>2, SeqIs
<1>4. writer'.at = Top(Usage) /\ writer'.todo = [writer.todo EXCEPT ![k] = <<>>]
  BY <1>1
<1>5. writer'.at \in WriterSteps \ {"down"} /\ writer'.at \notin {"replay", "send"}
  BY <1>4, TopIs DEF WriterSteps
<1>6. writer.todo \in [Keys -> Seq(Envelopes)] /\ <<>> \in Seq(Envelopes)
  BY DEF SeqInv, OutboundTyped, Writers
<1>7. writer'.todo[k] = <<>> /\ \A l \in Keys \ {k} : writer'.todo[l] = writer.todo[l]
  BY <1>4, <1>6, ChangesAt
<1>8. \A l \in Keys : writer'.todo[l] = <<>>
  BY <1>1, <1>7 DEF SeqInv, TodoWhen, s
<1>9. TodoWhen'
  BY <1>5, <1>8 DEF TodoWhen
<1>10. writer'.at = "ready" => Usage < Capacity
  BY <1>4, TopIs
<1>11. writer' = [at |-> writer'.at, todo |-> [writer.todo EXCEPT ![k] = Tail(s)]]
  BY <1>1, <1>3, <1>4
<1>12. QED
  BY <1>1, <1>5, <1>9, <1>10, <1>11, GoesOut DEF s

\* The connection is lost, and with it what was on the wire.
LEMMA ConnectionLostS == ASSUME SeqInv, ConnectionLost PROVE SeqInv' /\ All' \subseteq All
<1>1. /\ writer' = [at |-> "down", todo |-> [k \in Keys |-> <<>>]] /\ wire' = <<>>
      /\ UNCHANGED <<next, buffer, changed, got>>
  BY DEF ConnectionLost, outbound
<1>2. /\ writer' \in Writers /\ writer'.at = "down" /\ \A k \in Keys : writer'.todo[k] = <<>>
      /\ wire' \in Seq(Envelopes) /\ DOMAIN wire' = {}
  BY <1>1, EmptyIs DEF Writers, WriterSteps
<1>3. OutboundTyped' /\ SentTyped'
  BY <1>1, <1>2 DEF SeqInv, OutboundTyped, SentTyped
<1>4. TodoIsLast' /\ TodoWhen' /\ WireInTurn'
  BY <1>2 DEF TodoIsLast, TodoWhen, WireInTurn
<1>5. BufferIsLast' /\ IsFiniteSet(Buffered)' /\ Usage' = Usage
  BY <1>1, BufferSame
<1>6. GotInTurn' /\ Room'
  BY <1>1, <1>2, <1>5 DEF SeqInv, GotInTurn, Room, Seqs
<1>7. \A e : Out(e)' => Out(e)
  BY <1>1, <1>2, EmptyIs DEF Out
<1>8. QED
  BY <1>3, <1>4, <1>5, <1>6, <1>7 DEF SeqInv, All

\* Remote control stops: nothing is kept.
LEMMA ShutdownS ==
    ASSUME SeqInv, Shutdown
    PROVE  SeqInv' /\ All' \subseteq All /\ writer'.at = "stopped"
<1>1. /\ writer' = [at |-> "stopped", todo |-> [k \in Keys |-> <<>>]] /\ wire' = <<>>
      /\ next' = [k \in Keys |-> 1] /\ buffer' = [k \in Keys |-> <<>>] /\ changed' = FALSE
      /\ UNCHANGED got
  BY DEF Shutdown
<1>2. /\ writer' \in Writers /\ writer'.at = "stopped" /\ \A k \in Keys : writer'.todo[k] = <<>>
      /\ wire' \in Seq(Envelopes) /\ DOMAIN wire' = {}
  BY <1>1, EmptyIs DEF Writers, WriterSteps
<1>3. /\ next' \in [Keys -> Nat \ {0}] /\ buffer' \in [Keys -> Seq(Envelopes)]
      /\ \A k \in Keys : next'[k] = 1 /\ buffer'[k] = <<>>
  BY <1>1, EmptyIs
<1>4. OutboundTyped' /\ SentTyped'
  BY <1>1, <1>2, <1>3 DEF SeqInv, OutboundTyped, SentTyped
<1>5. Len(<<>>) = 0 /\ DOMAIN <<>> = {} /\ 0 < 1 /\ 1..(1 - 1 - 0) = {}
  BY EmptyIs
<1>6. TodoIsLast' /\ TodoWhen' /\ WireInTurn'
  BY <1>2, <1>3, <1>5 DEF TodoIsLast, TodoWhen, WireInTurn
<1>7. BufferIsLast'
  BY <1>3, <1>5 DEF BufferIsLast
<1>8. Buffered' = {}
  BY <1>3, <1>5 DEF Buffered
<1>9. IsFiniteSet(Buffered)' /\ Usage' = 0
  BY <1>8, FS_EmptySet DEF Usage
<1>10. GotInTurn'
  BY <1>1 DEF SeqInv, GotInTurn, Seqs
<1>11. Room'
  <2>1. 0 <= Capacity
    BY RemoteBounds
  <2>2. QED
    BY <1>1, <1>2, <1>9, <2>1 DEF SeqInv, Room
<1>12. \A e : Out(e)' => Out(e)
  BY <1>1, <1>2, <1>3, <1>5 DEF Out
<1>13. QED
  BY <1>2, <1>4, <1>6, <1>7, <1>10, <1>11, <1>12 DEF SeqInv, All

\* The backend receives an envelope.
LEMMA ReceiveS == ASSUME SeqInv, Receive PROVE SeqInv' /\ All' \subseteq All
<1> DEFINE h == Head(wire)
<1>1. /\ wire # <<>> /\ got' = got \union {h} /\ wire' = Tail(wire)
      /\ UNCHANGED <<next, buffer, changed, writer>> /\ wire \in Seq(Envelopes) /\ got \subseteq Envelopes
  BY DEF Receive, outbound, SeqInv, SentTyped
<1>2. /\ wire' \in Seq(Envelopes) /\ Len(wire) \in Nat \ {0} /\ DOMAIN wire = 1..Len(wire)
      /\ DOMAIN wire' = 1..(Len(wire) - 1) /\ h \in Envelopes /\ h = wire[1]
      /\ \A i \in DOMAIN wire' : wire'[i] = wire[i + 1]
  BY <1>1, TailIs
<1> HIDE DEF h
<1>3. 1 \in DOMAIN wire /\ \A i \in DOMAIN wire : i = 1 \/ (i - 1 \in DOMAIN wire' /\ wire'[i - 1] = wire[i])
  BY <1>2
<1>4. \A i \in DOMAIN wire' : i + 1 \in DOMAIN wire
  BY <1>2
<1>5. /\ \A k, n : n \in Seqs(k) => n \in Seqs(k)'
      /\ \A k, n : k = h.key /\ n = h.seq => n \in Seqs(k)'
  BY <1>1 DEF Seqs
<1>6. \A k, n : Sent(k, n) => Sent(k, n)'
  BY <1>2, <1>3, <1>5 DEF Sent, OnWire
<1>7. /\ h.seq # 0 /\ h.seq \in Nat /\ \A n \in 1..(h.seq - 1) : n \in Seqs(h.key)
  <2>1. h.seq # 0 /\ \A n \in 1..(h.seq - 1) :
          n \in Seqs(h.key) \/ \E j \in 1..(1 - 1) : wire[j].key = h.key /\ wire[j].seq = n
    BY <1>2, <1>3 DEF SeqInv, WireInTurn
  <2>2. 1..(1 - 1) = {} /\ h.seq \in Nat
    BY <1>2 DEF Envelopes
  <2>3. QED
    BY <2>1, <2>2
<1>8. GotInTurn'
  <2>1. \A n \in 1..h.seq : n \in 1..(h.seq - 1) \/ n = h.seq
    BY <1>7
  <2> SUFFICES ASSUME NEW e \in got' PROVE e.seq # 0 /\ \A n \in 1..e.seq : \E f \in got' : f.key = e.key /\ f.seq = n
    BY DEF GotInTurn, Seqs
  <2>2. CASE e \in got
    BY <1>1, <2>2, SeqsIs DEF SeqInv, GotInTurn
  <2>3. CASE e = h
    BY <1>1, <1>7, <2>1, <2>3, SeqsIs
  <2>4. QED
    BY <1>1, <2>2, <2>3
<1>9. WireInTurn'
  <2> SUFFICES ASSUME NEW i \in DOMAIN wire'
               PROVE  /\ wire'[i].seq # 0
                      /\ \A n \in 1..(wire'[i].seq - 1) :
                           \/ \E f \in got' : f.key = wire'[i].key /\ f.seq = n
                           \/ \E j \in 1..(i - 1) : wire'[j].key = wire'[i].key /\ wire'[j].seq = n
    BY DEF WireInTurn, Seqs
  <2>1. i + 1 \in DOMAIN wire /\ wire'[i] = wire[i + 1]
    BY <1>2, <1>4
  <2>2. /\ wire'[i].seq # 0
        /\ \A n \in 1..(wire'[i].seq - 1) :
             \/ n \in Seqs(wire'[i].key)
             \/ \E j \in 1..((i + 1) - 1) : wire[j].key = wire'[i].key /\ wire[j].seq = n
    BY <2>1 DEF SeqInv, WireInTurn
  <2>3. ASSUME NEW n \in 1..(wire'[i].seq - 1)
        PROVE  \/ \E f \in got' : f.key = wire'[i].key /\ f.seq = n
               \/ \E j \in 1..(i - 1) : wire'[j].key = wire'[i].key /\ wire'[j].seq = n
    <3>1. CASE n \in Seqs(wire'[i].key)
      BY <1>1, <3>1, SeqsIs
    <3>2. CASE \E j \in 1..((i + 1) - 1) : wire[j].key = wire'[i].key /\ wire[j].seq = n
      <4>1. PICK j \in 1..((i + 1) - 1) : wire[j].key = wire'[i].key /\ wire[j].seq = n
        BY <3>2
      <4>2. j = 1 \/ j - 1 \in 1..(i - 1)
        BY <1>2, <4>1
      <4>3. j \in DOMAIN wire
        BY <1>2, <4>1
      <4>4. CASE j = 1
        BY <1>1, <1>2, <4>1, <4>4
      <4>5. CASE j # 1
        <5>1. wire'[j - 1] = wire[j]
          BY <1>3, <4>3, <4>5
        <5>2. QED
          BY <4>1, <4>2, <4>5, <5>1
      <4>6. QED
        BY <4>4, <4>5
    <3>3. QED
      BY <2>2, <3>1, <3>2
  <2>4. QED
    BY <2>2, <2>3
<1>10. TodoIsLast' /\ TodoWhen'
  BY <1>1, <1>6 DEF SeqInv, TodoIsLast, TodoWhen
<1>11. BufferIsLast' /\ IsFiniteSet(Buffered)' /\ Usage' = Usage
  BY <1>1, BufferSame
<1>12. Room'
  <2>1. IsFiniteSet(got')
    BY <1>1, FS_AddElement DEF SeqInv, Room
  <2>2. QED
    BY <1>1, <1>11, <2>1 DEF SeqInv, Room
<1>13. OutboundTyped' /\ SentTyped'
  BY <1>1, <1>2 DEF SeqInv, OutboundTyped, SentTyped
<1>14. \A e : Out(e)' => Out(e)
  BY <1>1, <1>2, <1>3, <1>4 DEF Out
<1>15. QED
  BY <1>8, <1>9, <1>10, <1>11, <1>12, <1>13, <1>14 DEF SeqInv, All

\* An acknowledgement frees what was received.
LEMMA AckS == ASSUME SeqInv, NEW k \in Keys, NEW a \in Seqs(k), Ack(k, a) PROVE SeqInv' /\ All' \subseteq All
<1>1. PICK m \in DOMAIN buffer[k] :
        Frees(k, a, m) /\ buffer' = [buffer EXCEPT ![k] = SubSeq(buffer[k], m + 1, Len(buffer[k]))]
  BY DEF Ack
<1>2. UNCHANGED <<next, writer, wire, got>> /\ changed' \in BOOLEAN
  BY DEF Ack
<1> DEFINE b == buffer[k]
           t == SubSeq(b, m + 1, Len(b))
           L == Len(b)
<1>3. b \in Seq(Envelopes) /\ next[k] \in Nat \ {0} /\ buffer \in [Keys -> Seq(Envelopes)]
  BY KeptIs DEF SeqInv, OutboundTyped
<1>4. /\ t \in Seq(Envelopes) /\ Len(t) = L - m /\ DOMAIN t = 1..(L - m) /\ DOMAIN b = 1..L
      /\ L \in Nat /\ m \in 1..L /\ \A i \in DOMAIN t : t[i] = b[m + i]
  BY <1>1, <1>3, RestIs, SMTT(60)
<1>5. buffer' = [buffer EXCEPT ![k] = t]
  BY <1>1
<1>6. /\ buffer' \in [Keys -> Seq(Envelopes)] /\ buffer'[k] = t
      /\ \A l \in Keys \ {k} : buffer'[l] = buffer[l]
  <2> HIDE DEF b, t, L
  <2>1. t \in Seq(Envelopes)
    BY <1>4
  <2>2. QED
    BY <1>3, <1>5, <2>1, ChangesAt
<1>7. /\ L < next[k] /\ \A i \in DOMAIN b : b[i].key = k /\ b[i].seq = next[k] - 1 - L + i
      /\ \A n \in 1..(next[k] - 1 - L) : n \in Seqs(k)
  BY DEF SeqInv, BufferIsLast
<1>8. b[m].seq <= a /\ b[m].seq \in Nat /\ a \in Nat /\ m \in DOMAIN b
  <2>1. \A i \in 1..m : b[i].seq <= a
    BY <1>1 DEF Frees
  <2>2. m \in 1..m /\ m \in DOMAIN b
    BY <1>4
  <2>3. b[m] \in Envelopes
    BY <1>3, <2>2, ElementsIn
  <2>4. a \in Nat
    BY SeqsIs DEF SeqInv, SentTyped, Envelopes
  <2>5. QED
    BY <2>1, <2>2, <2>3, <2>4 DEF Envelopes
<1> HIDE DEF b, t, L
<1>9. \A l, n : Sent(l, n)' <=> Sent(l, n)
  BY <1>2 DEF Sent, OnWire, Seqs
<1>10. \A l, n : n \in Seqs(l)' <=> n \in Seqs(l)
  BY <1>2 DEF Seqs
<1>11. \A n \in 1..a : n \in Seqs(k)
  <2>1. PICK e \in got : e.key = k /\ e.seq = a
    BY SeqsIs
  <2>2. QED
    BY <2>1 DEF SeqInv, GotInTurn
<1>12. b[m].seq = next[k] - 1 - Len(t) /\ Len(t) < next[k] /\ Len(t) \in Nat
  <2>1. b[m].seq = next[k] - 1 - L + m
    BY <1>7, <1>8
  <2>2. QED
    BY <1>3, <1>4, <1>7, <2>1, SMTT(60)
<1>13. BufferIsLast'
  <2> SUFFICES ASSUME NEW l \in Keys
               PROVE  /\ Len(buffer'[l]) < next[l]
                      /\ \A i \in DOMAIN buffer'[l] :
                           buffer'[l][i].key = l /\ buffer'[l][i].seq = next[l] - 1 - Len(buffer'[l]) + i
                      /\ \A n \in 1..(next[l] - 1 - Len(buffer'[l])) : n \in Seqs(l)
    BY <1>2, <1>10 DEF BufferIsLast
  <2>1. CASE l # k
    <3>1. buffer'[l] = buffer[l]
      BY <1>6, <2>1
    <3>2. QED
      BY <3>1 DEF SeqInv, BufferIsLast
  <2>2. CASE l = k
    <3>1. ASSUME NEW i \in DOMAIN t
          PROVE  t[i].key = k /\ t[i].seq = next[k] - 1 - Len(t) + i
      <4>1. m + i \in DOMAIN b /\ t[i] = b[m + i] /\ i \in Nat
        BY <1>4
      <4>2. t[i].key = k /\ t[i].seq = next[k] - 1 - L + (m + i)
        BY <1>7, <4>1
      <4>3. QED
        BY <1>3, <1>4, <4>1, <4>2, SMTT(60)
    <3>2. \A n \in 1..(next[k] - 1 - Len(t)) : n \in 1..a
      BY <1>3, <1>8, <1>12, SMTT(60)
    <3>3. QED
      BY <1>6, <1>11, <1>12, <2>2, <3>1, <3>2
  <2>3. QED
    BY <2>1, <2>2
<1>14. Buffered' \subseteq Buffered
  <2>1. DOMAIN t \subseteq DOMAIN b
    BY <1>4
  <2>2. \A l \in Keys : DOMAIN buffer'[l] \subseteq DOMAIN buffer[l]
    BY <1>6, <2>1 DEF b
  <2>3. QED
    BY <2>2 DEF Buffered
<1>15. IsFiniteSet(Buffered') /\ Usage' <= Usage /\ Usage \in Nat /\ Usage' \in Nat
  BY <1>14, FS_Subset, FS_CardinalityType DEF SeqInv, Room, Usage
<1>16. Room'
  <2>1. Usage <= Capacity /\ Capacity \in Nat /\ (writer.at = "ready" => Usage < Capacity)
    BY RemoteBounds DEF SeqInv, Room
  <2>2. Usage' <= Capacity
    BY <1>15, <2>1
  <2>3. Usage < Capacity => Usage' < Capacity
    BY <1>15, <2>1
  <2>4. QED
    BY <1>2, <1>15, <2>1, <2>2, <2>3 DEF SeqInv, Room
<1>17. TodoIsLast' /\ TodoWhen'
  BY <1>2, <1>9 DEF SeqInv, TodoIsLast, TodoWhen
<1>18. WireInTurn' /\ GotInTurn'
  BY <1>2, <1>10 DEF SeqInv, WireInTurn, GotInTurn, Seqs
<1>19. OutboundTyped' /\ SentTyped'
  BY <1>2, <1>6 DEF SeqInv, OutboundTyped, SentTyped
<1>20. \A e : Out(e)' => Out(e)
  <2>1. \A i \in DOMAIN t : m + i \in DOMAIN b
    BY <1>4
  <2>2. \A i \in DOMAIN t : Out(t[i])
    BY <1>4, <2>1 DEF Out, b
  <2>3. \A l \in Keys : \A i \in DOMAIN buffer'[l] : Out(buffer'[l][i])
    BY <1>6, <2>2 DEF Out
  <2>4. QED
    BY <1>2, <2>3 DEF Out
<1>21. QED
  BY <1>13, <1>16, <1>17, <1>18, <1>19, <1>20 DEF SeqInv, All

\* The writer numbers an event and buffers it.
LEMMA TakeEventS ==
    ASSUME SeqInv, channel \in Seq(Events), TakeEvent
    PROVE  /\ SeqInv' /\ Head(channel) \in Events
           /\ LET e == [key |-> Head(channel).key, seq |-> next[Head(channel).key], msg |-> Head(channel).msg]
              IN  All' \subseteq All \union {e} /\ e \in Envelopes
           /\ next'[Head(channel).key] = next[Head(channel).key] + 1
           /\ \A l \in Keys \ {Head(channel).key} : next'[l] = next[l]
<1> DEFINE v == Head(channel)
           k == v.key
           e == [key |-> k, seq |-> next[k], msg |-> v.msg]
           b == buffer[k]
           t == Append(b, e)
           L == Len(b)
           x == next[k]
<1>1. /\ writer.at = "ready" /\ channel # <<>> /\ next' = [next EXCEPT ![k] = x + 1]
      /\ buffer' = [buffer EXCEPT ![k] = t] /\ UNCHANGED <<wire, got>> /\ changed' = TRUE
      /\ writer' = [at |-> "send", todo |-> [writer.todo EXCEPT ![k] = <<e>>]]
  BY DEF TakeEvent, SeqId
<1>2. v \in Events
  BY <1>1, TailIs
<1>3. k \in Keys /\ v.msg \in Contents
  BY <1>2 DEF Events
<1>4. /\ b \in Seq(Envelopes) /\ x \in Nat \ {0} /\ x + 1 \in Nat \ {0}
      /\ buffer \in [Keys -> Seq(Envelopes)] /\ next \in [Keys -> Nat \ {0}]
      /\ writer.todo \in [Keys -> Seq(Envelopes)]
  <2>1. x \in Nat \ {0} /\ b \in Seq(Envelopes)
    BY <1>3, KeptIs DEF SeqInv
  <2>2. QED
    BY <2>1 DEF SeqInv, OutboundTyped, Writers
<1>5. e \in Envelopes /\ e.key = k /\ e.seq = x
  BY <1>3, <1>4 DEF Envelopes, Contents
<1> HIDE DEF e, k, v
<1>6. /\ t \in Seq(Envelopes) /\ Len(t) = L + 1 /\ DOMAIN t = 1..(L + 1) /\ DOMAIN b = 1..L
      /\ L \in Nat /\ t[L + 1] = e /\ \A i \in DOMAIN b : t[i] = b[i]
  BY <1>4, <1>5, AppendIs
<1>7. <<e>> \in Seq(Envelopes) /\ Len(<<e>>) = 1 /\ DOMAIN <<e>> = {1} /\ <<e>>[1] = e
  BY <1>5, OneIs
<1> DEFINE o == <<e>>
<1> HIDE DEF t, b, L, x, o
<1>8. /\ buffer' \in [Keys -> Seq(Envelopes)] /\ buffer'[k] = t
      /\ \A l \in Keys \ {k} : buffer'[l] = buffer[l]
  BY <1>1, <1>3, <1>4, <1>6, ChangesAt
<1>9. /\ next' \in [Keys -> Nat \ {0}] /\ next'[k] = x + 1 /\ next[k] = x
      /\ \A l \in Keys \ {k} : next'[l] = next[l]
  <2>1. next[k] = x
    BY DEF x
  <2>2. QED
    BY <1>1, <1>3, <1>4, <2>1, ChangesAt
<1>10. /\ writer'.at = "send" /\ writer'.todo \in [Keys -> Seq(Envelopes)] /\ writer'.todo[k] = o
       /\ \A l \in Keys \ {k} : writer'.todo[l] = writer.todo[l]
  <2>1. writer'.at = "send" /\ writer'.todo = [writer.todo EXCEPT ![k] = o]
    BY <1>1 DEF o
  <2>2. o \in Seq(Envelopes)
    BY <1>7 DEF o
  <2>3. QED
    BY <1>3, <1>4, <2>1, <2>2, ChangesAt
<1>11. writer' \in Writers
  <2>1. writer' = [at |-> "send", todo |-> writer'.todo]
    BY <1>1
  <2>2. QED
    BY <1>10, <2>1 DEF Writers, WriterSteps
<1>12. o \in Seq(Envelopes) /\ Len(o) = 1 /\ DOMAIN o = {1} /\ o[1] = e
  BY <1>7 DEF o
<1>13. \A l \in Keys : writer.todo[l] = <<>> /\ Len(writer.todo[l]) = 0
  BY <1>1, EmptyIs DEF SeqInv, TodoWhen
<1>14. /\ \A l, n : Sent(l, n)' <=> Sent(l, n)
       /\ \A l, n : n \in Seqs(l)' <=> n \in Seqs(l)
  BY <1>1 DEF Sent, OnWire, Seqs
<1>15. /\ L < x /\ \A i \in DOMAIN b : b[i].key = k /\ b[i].seq = x - 1 - L + i
       /\ \A n \in 1..(x - 1 - L) : n \in Seqs(k)
  BY <1>3 DEF SeqInv, BufferIsLast, b, x, L
<1>16. BufferIsLast'
  <2> SUFFICES ASSUME NEW l \in Keys
               PROVE  /\ Len(buffer'[l]) < next'[l]
                      /\ \A i \in DOMAIN buffer'[l] :
                           buffer'[l][i].key = l /\ buffer'[l][i].seq = next'[l] - 1 - Len(buffer'[l]) + i
                      /\ \A n \in 1..(next'[l] - 1 - Len(buffer'[l])) : n \in Seqs(l)
    BY <1>14 DEF BufferIsLast
  <2>1. CASE l # k
    <3>1. buffer'[l] = buffer[l] /\ next'[l] = next[l]
      BY <1>8, <1>9, <2>1
    <3>2. QED
      BY <3>1 DEF SeqInv, BufferIsLast
  <2>2. CASE l = k
    <3>1. L + 1 < x + 1 /\ x - 1 - L = (x + 1) - 1 - (L + 1) /\ x = (x + 1) - 1 - (L + 1) + (L + 1)
      BY <1>4, <1>6, <1>15, SMTT(60)
    <3>2. ASSUME NEW i \in DOMAIN t PROVE t[i].key = k /\ t[i].seq = (x + 1) - 1 - (L + 1) + i
      <4>1. i \in DOMAIN b \/ i = L + 1
        BY <1>6
      <4>2. CASE i \in DOMAIN b
        <5>1. t[i].key = k /\ t[i].seq = x - 1 - L + i
          BY <1>6, <1>15, <4>2
        <5>2. QED
          BY <3>1, <5>1
      <4>3. CASE i = L + 1
        BY <1>5, <1>6, <3>1, <4>3
      <4>4. QED
        BY <4>1, <4>2, <4>3
    <3>3. QED
      BY <1>6, <1>8, <1>9, <1>15, <2>2, <3>1, <3>2
  <2>3. QED
    BY <2>1, <2>2
<1>17. TodoIsLast'
  <2> SUFFICES ASSUME NEW l \in Keys
               PROVE  /\ Len(writer'.todo[l]) < next'[l]
                      /\ \A i \in DOMAIN writer'.todo[l] :
                           /\ writer'.todo[l][i].key = l
                           /\ writer'.todo[l][i].seq = next'[l] - 1 - Len(writer'.todo[l]) + i
                      /\ \A n \in 1..(next'[l] - 1 - Len(writer'.todo[l])) : Sent(l, n)
    BY <1>14 DEF TodoIsLast
  <2>1. writer.at # "down"
    BY <1>1
  <2>2. CASE l # k
    <3>1. writer'.todo[l] = writer.todo[l] /\ next'[l] = next[l]
      BY <1>9, <1>10, <2>2
    <3>2. QED
      BY <2>1, <3>1 DEF SeqInv, TodoIsLast
  <2>3. CASE l = k
    <3>1. 1 < x + 1 /\ (x + 1) - 1 - 1 = x - 1 - 0 /\ (x + 1) - 1 - 1 + 1 = x
      BY <1>4
    <3>2. \A n \in 1..(x - 1 - 0) : Sent(k, n)
      BY <1>3, <1>9, <1>13, <2>1 DEF SeqInv, TodoIsLast
    <3>3. QED
      BY <1>5, <1>9, <1>10, <1>12, <2>3, <3>1, <3>2, ZenonT(60)
  <2>4. QED
    BY <2>2, <2>3
<1>18. TodoWhen'
  <2>1. ASSUME NEW l \in Keys
        PROVE  Len(writer'.todo[l]) <= 1 /\ (writer'.todo[l] # <<>> => l = k)
    <3>1. CASE l = k
      <4>1. Len(writer'.todo[l]) = 1
        BY <1>10, <1>12, <3>1
      <4>2. QED
        BY <3>1, <4>1
    <3>2. CASE l # k
      <4>1. writer'.todo[l] = <<>> /\ Len(writer'.todo[l]) = 0
        BY <1>10, <1>13, <3>2
      <4>2. QED
        BY <4>1
    <3>3. QED
      BY <3>1, <3>2
  <2>2. QED
    BY <1>10, <2>1 DEF TodoWhen
<1>19. Buffered' = Buffered \union {<<k, L + 1>>}
  <2>1. DOMAIN t = DOMAIN b \union {L + 1}
    BY <1>6
  <2>2. /\ DOMAIN buffer'[k] = DOMAIN buffer[k] \union {L + 1}
        /\ \A l \in Keys : l # k => DOMAIN buffer'[l] = DOMAIN buffer[l]
    BY <1>8, <2>1 DEF b
  <2>3. \A p : p \in Buffered <=> \E l \in Keys : \E i \in DOMAIN buffer[l] : p = <<l, i>>
    BY DEF Buffered
  <2>4. \A p : p \in Buffered' <=> \E l \in Keys : \E i \in DOMAIN buffer'[l] : p = <<l, i>>
    BY DEF Buffered
  <2> DEFINE z == <<k, L + 1>>
  <2>5. ASSUME NEW p \in Buffered' PROVE p \in Buffered \/ p = z
    <3>1. PICK l \in Keys : \E i \in DOMAIN buffer'[l] : p = <<l, i>>
      BY <2>4
    <3>2. PICK i \in DOMAIN buffer'[l] : p = <<l, i>>
      BY <3>1
    <3>3. i \in DOMAIN buffer[l] \/ (l = k /\ i = L + 1)
      BY <2>2
    <3>4. QED
      BY <2>3, <3>2, <3>3
  <2>6. ASSUME NEW p \in Buffered PROVE p \in Buffered'
    <3>1. PICK l \in Keys : \E i \in DOMAIN buffer[l] : p = <<l, i>>
      BY <2>3
    <3>2. PICK i \in DOMAIN buffer[l] : p = <<l, i>>
      BY <3>1
    <3>3. i \in DOMAIN buffer'[l]
      BY <2>2
    <3>4. QED
      BY <2>4, <3>2, <3>3
  <2>7. z \in Buffered'
    <3>1. L + 1 \in DOMAIN buffer'[k]
      BY <2>2
    <3>2. QED
      BY <1>3, <2>4, <3>1
  <2>8. QED
    BY <2>5, <2>6, <2>7
<1>20. Room'
  <2>1. Usage < Capacity /\ IsFiniteSet(Buffered) /\ Usage \in Nat /\ Capacity \in Nat
    BY <1>1, RemoteBounds, FS_CardinalityType DEF SeqInv, Room, Usage
  <2>2. IsFiniteSet(Buffered') /\ (Usage' = Usage \/ Usage' = Usage + 1)
    BY <1>19, <2>1, FS_AddElement DEF Usage
  <2>3. Usage' <= Capacity
    BY <2>1, <2>2
  <2>4. QED
    BY <1>1, <1>10, <2>2, <2>3 DEF SeqInv, Room
<1>21. WireInTurn' /\ GotInTurn'
  BY <1>1 DEF SeqInv, WireInTurn, GotInTurn, Seqs
<1>22. OutboundTyped' /\ SentTyped'
  BY <1>1, <1>8, <1>9, <1>11 DEF SeqInv, OutboundTyped, SentTyped
<1>23. All' \subseteq All \union {e}
  <2>1. \A i \in DOMAIN t : i \in DOMAIN b \/ t[i] = e
    BY <1>6
  <2>2. \A i \in DOMAIN t : Out(t[i]) \/ t[i] = e
    BY <1>3, <1>6, <2>1 DEF Out, b
  <2>3. \A l \in Keys : \A i \in DOMAIN buffer'[l] : Out(buffer'[l][i]) \/ buffer'[l][i] = e
    BY <1>8, <2>2 DEF Out
  <2>4. \A l \in Keys : \A i \in DOMAIN writer'.todo[l] : Out(writer'.todo[l][i]) \/ writer'.todo[l][i] = e
    BY <1>10, <1>12 DEF Out
  <2>5. \A f : Out(f)' => Out(f) \/ f = e
    BY <1>1, <2>3, <2>4 DEF Out
  <2>6. QED
    BY <2>5 DEF All
<1>24. SeqInv'
  BY <1>16, <1>17, <1>18, <1>20, <1>21, <1>22 DEF SeqInv
<1>25. QED
  BY <1>2, <1>5, <1>9, <1>23, <1>24 DEF e, k, v, x

-----------------------------------------------------------------------------
(* The order of the messages *)

\* What an envelope is made of.
LEMMA EnvelopeIs ==
    \A e \in Envelopes : e.key \in Keys /\ e.seq \in Nat /\ e.msg.conn \in 0..Conns /\ e.msg.n \in Nat
BY RemoteBounds DEF Envelopes

\* What an event is made of.
LEMMA EventIs == \A e \in Events : e.key \in Keys /\ e.msg.conn \in 0..Conns /\ e.msg.n \in Nat
BY RemoteBounds DEF Events, Contents

\* The envelopes there are.
LEMMA AllAre ==
    \A e \in All : /\ e \in Envelopes /\ e.key \in Keys /\ e.seq \in Nat
                   /\ e.msg.conn \in 0..Conns /\ e.msg.n \in Nat
BY EnvelopeIs DEF All

\* The messages of a task.
LEMMA TaskIs ==
    ASSUME TrackerTyped, NEW c \in Ids
    PROVE  /\ conn[c] \in ConnRecs /\ conn[c].hand \in 0..Messages /\ conn[c].hand \in Nat
           /\ conn[c].queued \in Seq(1..Messages)
           /\ \A i \in DOMAIN conn[c].queued : conn[c].queued[i] \in Nat \ {0}
<1>1. conn[c] \in ConnRecs
  BY DEF TrackerTyped
<1>2. conn[c].hand \in 0..Messages /\ conn[c].queued \in Seq(1..Messages)
  BY <1>1 DEF ConnRecs, Hands
<1>3. \A i \in DOMAIN conn[c].queued : conn[c].queued[i] \in 1..Messages
  BY <1>2, ElementsIn
<1>4. QED
  BY <1>1, <1>2, <1>3, RemoteBounds

\* Nothing is numbered.
LEMMA EnvelopesKept ==
    ASSUME OrderInv, All' \subseteq All
    PROVE  OneMeaning' /\ EnvelopesInOrder' /\ \A c, n : AfterAll(c, n) => AfterAll(c, n)'
<1>1. OneMeaning'
  BY DEF OrderInv, OneMeaning
<1>2. EnvelopesInOrder'
  BY DEF OrderInv, EnvelopesInOrder, Pong
<1>3. \A c, n : AfterAll(c, n) => AfterAll(c, n)'
  BY DEF AfterAll
<1>4. QED
  BY <1>1, <1>2, <1>3

\* Numbers that were given out stay given out.
LEMMA BelowKept ==
    ASSUME Below, All' \subseteq All,
           writer'.at = "stopped" \/ (UNCHANGED next /\ (writer.at = "stopped" => UNCHANGED writer))
    PROVE  Below'
BY DEF Below

\* Nothing new is in the channel.
LEMMA ChannelKept ==
    ASSUME OrderInv, All' \subseteq All, channel' = channel \/ channel' = <<>>
    PROVE  ChannelInOrder' /\ \A c, n : AfterChannel(c, n) => AfterChannel(c, n)'
<1>1. \A c, n : AfterAll(c, n) => AfterAll(c, n)'
  BY EnvelopesKept
<1>2. CASE channel' = channel
  BY <1>1, <1>2 DEF OrderInv, ChannelInOrder, AfterChannel, Pong
<1>3. CASE channel' = <<>>
  <2>1. DOMAIN channel' = {}
    BY <1>3, EmptyIs
  <2>2. QED
    BY <2>1 DEF ChannelInOrder, AfterChannel
<1>4. QED
  BY <1>2, <1>3

\* The tasks take nothing new.
LEMMA TasksKept ==
    ASSUME OrderInv, TrackerTyped,
           \A c, n : AfterAll(c, n) /\ AfterChannel(c, n) => AfterAll(c, n)' /\ AfterChannel(c, n)',
           \A c \in Ids : conn'[c].queued = conn[c].queued \/ conn'[c].queued = <<>>,
           \A c \in Ids : conn'[c].hand = conn[c].hand \/ conn'[c].hand = Pong
    PROVE  HandInOrder' /\ QueueInOrder'
<1>1. HandInOrder'
  BY DEF OrderInv, HandInOrder, Pong
<1>2. QueueInOrder'
  <2> SUFFICES ASSUME NEW c \in Ids, NEW i \in DOMAIN conn'[c].queued
               PROVE  /\ AfterAll(c, conn[c].queued[i])' /\ AfterChannel(c, conn[c].queued[i])'
                      /\ conn'[c].hand <= conn'[c].queued[i]
                      /\ \A h \in 1..(i - 1) : conn'[c].queued[h] <= conn'[c].queued[i]
    BY DEF QueueInOrder
  <2>1. conn'[c].queued = conn[c].queued
    BY EmptyIs
  <2>2. i \in DOMAIN conn[c].queued
    BY <2>1
  <2>3. /\ AfterAll(c, conn[c].queued[i]) /\ AfterChannel(c, conn[c].queued[i])
        /\ conn[c].hand <= conn[c].queued[i]
        /\ \A h \in 1..(i - 1) : conn[c].queued[h] <= conn[c].queued[i]
    BY <2>2 DEF OrderInv, QueueInOrder
  <2>4. 0 <= conn[c].queued[i]
    BY <2>2, TaskIs
  <2>5. conn'[c].hand <= conn'[c].queued[i]
    BY <2>1, <2>3, <2>4 DEF Pong
  <2>6. \A n : n = conn[c].queued[i] => AfterAll(c, n)' /\ AfterChannel(c, n)'
    BY <2>3
  <2>7. AfterAll(c, conn[c].queued[i])' /\ AfterChannel(c, conn[c].queued[i])'
    BY <2>1, <2>6 DEF AfterAll, AfterChannel
  <2>8. QED
    BY <2>1, <2>3, <2>5, <2>7
<1>3. QED
  BY <1>1, <1>2

\* A bound grows.
LEMMA Grows == \A a, b, c \in Nat : a <= b /\ b <= c => a <= c
OBVIOUS

\* No message gets a number that is not used.
LEMMA CountedKept ==
    ASSUME OrderInv, TrackerTyped, channel \in Seq(Events), All' \subseteq All, channel' = channel \/ channel' = <<>>,
           used.messages \in Nat, used'.messages \in Nat, used.messages <= used'.messages,
           \A c \in Ids : conn'[c].queued = conn[c].queued \/ conn'[c].queued = <<>>,
           \A c \in Ids : conn'[c].hand = conn[c].hand \/ conn'[c].hand = Pong
    PROVE  Counted'
<1>1. \A e \in All : e.msg.n <= used'.messages
  BY AllAre, Grows DEF OrderInv, Counted
<1>2. \A i \in DOMAIN channel' : channel'[i].msg.n <= used'.messages
  <2>1. \A i \in DOMAIN channel : channel[i].msg.n \in Nat
    BY EventIs, ElementsIn
  <2>2. \A i \in DOMAIN channel : channel[i].msg.n <= used'.messages
    BY <2>1, Grows DEF OrderInv, Counted
  <2>3. QED
    BY <2>2, EmptyIs
<1>3. ASSUME NEW c \in Ids
      PROVE  /\ conn'[c].hand <= used'.messages
             /\ \A i \in DOMAIN conn'[c].queued : conn'[c].queued[i] <= used'.messages
  <2>1. conn[c].hand \in Nat /\ \A i \in DOMAIN conn[c].queued : conn[c].queued[i] \in Nat
    BY TaskIs
  <2>2. /\ conn[c].hand <= used.messages
        /\ \A i \in DOMAIN conn[c].queued : conn[c].queued[i] <= used.messages
    BY DEF OrderInv, Counted
  <2>3. /\ conn[c].hand <= used'.messages /\ 0 <= used'.messages
        /\ \A i \in DOMAIN conn[c].queued : conn[c].queued[i] <= used'.messages
    BY <2>1, <2>2, Grows
  <2>4. QED
    BY <2>3, EmptyIs DEF Pong
<1>4. QED
  BY <1>1, <1>2, <1>3 DEF Counted

\* Nothing is written, forwarded or numbered.
LEMMA OrderKept ==
    ASSUME OrderInv, TrackerTyped, ChannelTyped, All' \subseteq All, channel' = channel \/ channel' = <<>>,
           writer'.at = "stopped" \/ (UNCHANGED next /\ (writer.at = "stopped" => UNCHANGED writer)),
           used.messages \in Nat, used'.messages \in Nat, used.messages <= used'.messages,
           \A c \in Ids : conn'[c].queued = conn[c].queued \/ conn'[c].queued = <<>>,
           \A c \in Ids : conn'[c].hand = conn[c].hand \/ conn'[c].hand = Pong
    PROVE  OrderInv'
<1>1. OneMeaning' /\ EnvelopesInOrder' /\ \A c, n : AfterAll(c, n) => AfterAll(c, n)'
  BY EnvelopesKept
<1>2. ChannelInOrder' /\ \A c, n : AfterChannel(c, n) => AfterChannel(c, n)'
  BY ChannelKept
<1>3. HandInOrder' /\ QueueInOrder'
  BY <1>1, <1>2, TasksKept
<1>4. Below'
  BY BelowKept DEF OrderInv
<1>5. channel \in Seq(Events)
  BY DEF ChannelTyped
<1>6. Counted'
  BY <1>5, CountedKept
<1>7. QED
  BY <1>1, <1>2, <1>3, <1>4, <1>6 DEF OrderInv

\* What comes before another is not the last.
LEMMA NotLast == \A m \in Nat : \A i, j \in 1..(m + 1) : i < j => i \in 1..m
OBVIOUS

\* An event enters the channel after all that came before it.
LEMMA Enters ==
    ASSUME OrderInv, channel \in Seq(Events), NEW x \in Events, channel' = Append(channel, x),
           All' \subseteq All, x.msg.n # Pong => AfterAll(x.msg.conn, x.msg.n) /\ AfterChannel(x.msg.conn, x.msg.n)
    PROVE  /\ ChannelInOrder'
           /\ \A c, n : AfterChannel(c, n) /\ (x.msg.conn = c => x.msg.n <= n) => AfterChannel(c, n)'
<1>1. /\ DOMAIN channel' = 1..(Len(channel) + 1) /\ DOMAIN channel = 1..Len(channel) /\ Len(channel) \in Nat
      /\ \A i \in DOMAIN channel : channel'[i] = channel[i]
      /\ channel'[Len(channel) + 1] = x
  BY AppendIs
<1>2. \A i \in DOMAIN channel' : i \in DOMAIN channel \/ channel'[i] = x
  BY <1>1
<1>3. \A i, j \in DOMAIN channel' : i < j => i \in DOMAIN channel
  BY <1>1, NotLast, Zenon
<1>4. \A c, n : AfterAll(c, n) => AfterAll(c, n)'
  BY EnvelopesKept
<1>5. ChannelInOrder'
  <2> SUFFICES ASSUME NEW j \in DOMAIN channel', channel'[j].msg.n # Pong
               PROVE  /\ AfterAll(channel[j].msg.conn, channel[j].msg.n)'
                      /\ \A i \in DOMAIN channel' :
                           i < j /\ channel'[i].msg.conn = channel'[j].msg.conn => channel'[i].msg.n <= channel'[j].msg.n
    BY DEF ChannelInOrder, Pong
  <2>1. CASE j \in DOMAIN channel
    <3>1. channel'[j] = channel[j]
      BY <1>1, <2>1
    <3>2. /\ AfterAll(channel[j].msg.conn, channel[j].msg.n)
          /\ \A i \in DOMAIN channel :
               i < j /\ channel[i].msg.conn = channel[j].msg.conn => channel[i].msg.n <= channel[j].msg.n
      BY <2>1, <3>1 DEF OrderInv, ChannelInOrder
    <3>3. \A i \in DOMAIN channel' :
            i < j /\ channel'[i].msg.conn = channel'[j].msg.conn => channel'[i].msg.n <= channel'[j].msg.n
      BY <1>1, <1>3, <3>1, <3>2
    <3>4. AfterAll(channel[j].msg.conn, channel[j].msg.n)'
      BY <3>1, <3>2 DEF AfterAll
    <3>5. QED
      BY <3>3, <3>4
  <2>2. CASE channel'[j] = x
    <3>1. AfterAll(x.msg.conn, x.msg.n) /\ AfterChannel(x.msg.conn, x.msg.n)
      BY <2>2
    <3>2. \A i \in DOMAIN channel' :
            i < j /\ channel'[i].msg.conn = channel'[j].msg.conn => channel'[i].msg.n <= channel'[j].msg.n
      BY <1>1, <1>3, <2>2, <3>1 DEF AfterChannel
    <3>3. AfterAll(channel[j].msg.conn, channel[j].msg.n)'
      BY <2>2, <3>1 DEF AfterAll
    <3>4. QED
      BY <3>2, <3>3
  <2>3. QED
    BY <1>2, <2>1, <2>2
<1>6. \A c, n : AfterChannel(c, n) /\ (x.msg.conn = c => x.msg.n <= n) => AfterChannel(c, n)'
  BY <1>1, <1>2 DEF AfterChannel
<1>7. QED
  BY <1>5, <1>6

\* The app-server writes a message: it comes after all others.
LEMMA AppSendsO ==
    ASSUME OrderInv, TrackerTyped, ChannelTyped, UsedTyped, NEW c \in Ids, NEW r,
           All' = All, UNCHANGED <<channel, next, writer>>,
           used'.messages = used.messages + 1, used'.messages \in Nat,
           conn'[c] = r, r.hand = conn[c].hand, r.queued = Append(conn[c].queued, used.messages + 1),
           used.messages + 1 \in 1..Messages, \A d \in Ids \ {c} : conn'[d] = conn[d]
    PROVE  OrderInv'
<1> DEFINE s == conn[c].queued
           m == used.messages
           t == Append(s, m + 1)
<1>1. /\ s \in Seq(1..Messages) /\ m \in Nat /\ channel \in Seq(Events) /\ conn[c].hand \in Nat
      /\ \A i \in DOMAIN s : s[i] \in Nat
  BY RemoteBounds, TaskIs, SMTT(60) DEF UsedTyped, ChannelTyped
<1>2. /\ DOMAIN t = 1..(Len(s) + 1) /\ DOMAIN s = 1..Len(s) /\ Len(s) \in Nat
      /\ \A i \in DOMAIN s : t[i] = s[i]
      /\ t[Len(s) + 1] = m + 1
  BY <1>1, AppendIs, SMTT(60)
<1>3. conn'[c].queued = t /\ conn'[c].hand = conn[c].hand
  OBVIOUS
<1> HIDE DEF s, t
<1>4. OneMeaning' /\ EnvelopesInOrder' /\ \A d, n : AfterAll(d, n) => AfterAll(d, n)'
  BY EnvelopesKept
<1>5. ChannelInOrder' /\ \A d, n : AfterChannel(d, n) => AfterChannel(d, n)'
  BY ChannelKept
<1>6. Below'
  BY BelowKept DEF OrderInv
<1>7. \A d \in Ids : conn'[d].hand = conn[d].hand
  BY <1>3
<1>8. HandInOrder'
  BY <1>4, <1>5, <1>7 DEF OrderInv, HandInOrder, Pong
<1>9. \A a \in Nat : a <= m => a <= m + 1
  BY <1>1
<1>10. /\ \A e \in All : e.msg.n <= m + 1
       /\ \A i \in DOMAIN channel : channel[i].msg.n <= m + 1
       /\ \A d \in Ids : conn[d].hand <= m + 1
       /\ \A d \in Ids : \A i \in DOMAIN conn[d].queued : conn[d].queued[i] <= m + 1
  <2>1. \A i \in DOMAIN channel : channel[i].msg.n \in Nat
    BY <1>1, ElementsIn, EventIs
  <2>2. \A d \in Ids : conn[d].hand \in Nat /\ \A i \in DOMAIN conn[d].queued : conn[d].queued[i] \in Nat
    BY TaskIs
  <2> HIDE DEF m
  <2>3. /\ \A e \in All : e.msg.n <= m
        /\ \A i \in DOMAIN channel : channel[i].msg.n <= m
        /\ \A d \in Ids : conn[d].hand <= m
        /\ \A d \in Ids : \A i \in DOMAIN conn[d].queued : conn[d].queued[i] <= m
    BY DEF OrderInv, Counted, m
  <2>4. \A e \in All : e.msg.n <= m + 1
    BY <1>9, <2>3, AllAre
  <2>5. QED
    BY <1>9, <2>1, <2>2, <2>3, <2>4
<1>11. m + 1 <= m + 1
  BY <1>1
<1>12. \A i \in DOMAIN t : i \in DOMAIN s \/ t[i] = m + 1
  BY <1>2
<1>13. Counted'
  <2>1. \A i \in DOMAIN t : t[i] <= m + 1
    BY <1>2, <1>10, <1>11, <1>12 DEF s
  <2>2. \A d \in Ids : \A i \in DOMAIN conn'[d].queued : conn'[d].queued[i] <= m + 1
    BY <1>3, <1>10, <2>1
  <2>3. QED
    BY <1>7, <1>10, <2>2 DEF Counted
<1>14. QueueInOrder'
  <2> SUFFICES ASSUME NEW d \in Ids, NEW i \in DOMAIN conn'[d].queued
               PROVE  /\ \A n : n = conn'[d].queued[i] => AfterAll(d, n)' /\ AfterChannel(d, n)'
                      /\ conn'[d].hand <= conn'[d].queued[i]
                      /\ \A h \in 1..(i - 1) : conn'[d].queued[h] <= conn'[d].queued[i]
    BY DEF QueueInOrder, AfterAll, AfterChannel
  <2>1. CASE conn'[d].queued = conn[d].queued
    <3>1. i \in DOMAIN conn[d].queued
      BY <2>1
    <3>2. /\ AfterAll(d, conn[d].queued[i]) /\ AfterChannel(d, conn[d].queued[i])
          /\ conn[d].hand <= conn[d].queued[i]
          /\ \A h \in 1..(i - 1) : conn[d].queued[h] <= conn[d].queued[i]
      BY <3>1 DEF OrderInv, QueueInOrder
    <3>3. \A n : n = conn'[d].queued[i] => AfterAll(d, n)' /\ AfterChannel(d, n)'
      BY <1>4, <1>5, <2>1, <3>2
    <3>4. QED
      BY <1>7, <2>1, <3>2, <3>3
  <2>2. CASE d = c
    <3>1. i \in DOMAIN t /\ conn'[d].queued[i] = t[i]
      BY <1>3, <2>2
    <3>2. CASE i \in DOMAIN s
      <4>1. /\ AfterAll(c, s[i]) /\ AfterChannel(c, s[i]) /\ conn[c].hand <= s[i]
            /\ \A h \in 1..(i - 1) : s[h] <= s[i]
        BY <3>2 DEF OrderInv, QueueInOrder, s
      <4>2. t[i] = s[i] /\ \A h \in 1..(i - 1) : h \in DOMAIN s
        BY <1>2, <3>2
      <4>3. \A h \in 1..(i - 1) : t[h] = s[h]
        BY <1>2, <4>2
      <4>4. \A n : n = t[i] => AfterAll(c, n)' /\ AfterChannel(c, n)'
        BY <1>4, <1>5, <4>1, <4>2
      <4>5. QED
        BY <1>3, <2>2, <4>1, <4>2, <4>3, <4>4
    <3>3. CASE t[i] = m + 1
      <4>1. \A e \in All' : e.msg.n <= m + 1
        BY <1>10
      <4>2. \A n : n = m + 1 => AfterAll(c, n)' /\ AfterChannel(c, n)'
        BY <1>10, <4>1 DEF AfterAll, AfterChannel
      <4>3. \A h \in 1..(i - 1) : h \in DOMAIN t
        BY <1>2, <3>1
      <4>4. \A h \in 1..(i - 1) : t[h] <= m + 1
        BY <1>2, <1>10, <1>11, <1>12, <4>3 DEF s
      <4>5. conn[c].hand <= m + 1
        BY <1>10
      <4>6. QED
        BY <1>3, <2>2, <3>3, <4>2, <4>4, <4>5
    <3>4. QED
      BY <1>12, <3>1, <3>2, <3>3
  <2>3. QED
    BY <2>1, <2>2
<1>15. QED
  BY <1>4, <1>5, <1>6, <1>8, <1>13, <1>14 DEF OrderInv

\* The task takes the first message of its queue.
LEMMA TakeMessageO ==
    ASSUME OrderInv, TrackerTyped, ChannelTyped, UsedTyped, NEW c \in Ids, NEW r,
           All' = All, UNCHANGED <<channel, next, writer, used>>,
           conn[c].queued # <<>>,
           conn'[c] = r, r.hand = Head(conn[c].queued), r.queued = Tail(conn[c].queued),
           \A d \in Ids \ {c} : conn'[d] = conn[d]
    PROVE  OrderInv'
<1> DEFINE s == conn[c].queued
           t == Tail(s)
<1>1. s \in Seq(1..Messages) /\ s # <<>>
  BY TaskIs
<1>2. /\ DOMAIN t = 1..(Len(s) - 1) /\ DOMAIN s = 1..Len(s) /\ Len(s) \in Nat \ {0}
      /\ \A i \in DOMAIN t : t[i] = s[i + 1]
      /\ Head(s) = s[1]
  BY <1>1, TailIs
<1>3. conn'[c].queued = t /\ conn'[c].hand = s[1]
  BY <1>2
<1> HIDE DEF s, t
<1>4. OneMeaning' /\ EnvelopesInOrder' /\ \A d, n : AfterAll(d, n) => AfterAll(d, n)'
  BY EnvelopesKept
<1>5. ChannelInOrder' /\ \A d, n : AfterChannel(d, n) => AfterChannel(d, n)'
  BY ChannelKept
<1>6. Below'
  BY BelowKept DEF OrderInv
<1>7. 1 \in DOMAIN s /\ \A i \in DOMAIN t : i + 1 \in DOMAIN s /\ i \in Nat \ {0}
  BY <1>2
<1>8. \A i \in DOMAIN s : /\ AfterAll(c, s[i]) /\ AfterChannel(c, s[i])
                          /\ \A h \in 1..(i - 1) : s[h] <= s[i]
                          /\ s[i] <= used.messages
  BY DEF OrderInv, QueueInOrder, Counted, s
<1>9. Counted'
  <2>1. \A i \in DOMAIN t : t[i] <= used.messages
    BY <1>2, <1>7, <1>8
  <2>2. \A d \in Ids : conn'[d].hand <= used.messages
                       /\ \A i \in DOMAIN conn'[d].queued : conn'[d].queued[i] <= used.messages
    BY <1>3, <1>7, <1>8, <2>1 DEF OrderInv, Counted
  <2>3. QED
    BY <2>2 DEF OrderInv, Counted
<1>10. HandInOrder'
  <2> SUFFICES ASSUME NEW d \in Ids, conn'[d].hand # Pong
               PROVE  \A n : n = conn'[d].hand => AfterAll(d, n)' /\ AfterChannel(d, n)'
    BY DEF HandInOrder, AfterAll, AfterChannel, Pong
  <2>1. CASE d = c
    BY <1>3, <1>4, <1>5, <1>7, <1>8, <2>1
  <2>2. CASE d # c
    BY <1>4, <1>5, <2>2 DEF OrderInv, HandInOrder
  <2>3. QED
    BY <2>1, <2>2
<1>11. QueueInOrder'
  <2> SUFFICES ASSUME NEW d \in Ids, NEW i \in DOMAIN conn'[d].queued
               PROVE  /\ \A n : n = conn'[d].queued[i] => AfterAll(d, n)' /\ AfterChannel(d, n)'
                      /\ conn'[d].hand <= conn'[d].queued[i]
                      /\ \A h \in 1..(i - 1) : conn'[d].queued[h] <= conn'[d].queued[i]
    BY DEF QueueInOrder, AfterAll, AfterChannel
  <2>1. CASE d # c
    <3>1. conn'[d] = conn[d]
      BY <2>1
    <3>2. /\ AfterAll(d, conn[d].queued[i]) /\ AfterChannel(d, conn[d].queued[i])
          /\ conn[d].hand <= conn[d].queued[i]
          /\ \A h \in 1..(i - 1) : conn[d].queued[h] <= conn[d].queued[i]
      BY <3>1 DEF OrderInv, QueueInOrder
    <3>3. QED
      BY <1>4, <1>5, <3>1, <3>2
  <2>2. CASE d = c
    <3>1. i \in DOMAIN t /\ i + 1 \in DOMAIN s /\ t[i] = s[i + 1] /\ i \in Nat \ {0}
      BY <1>2, <1>3, <1>7, <2>2
    <3>2. /\ AfterAll(c, t[i]) /\ AfterChannel(c, t[i])
          /\ \A h \in 1..((i + 1) - 1) : s[h] <= t[i]
      BY <1>8, <3>1
    <3>3. 1 \in 1..((i + 1) - 1) /\ \A h \in 1..(i - 1) : h + 1 \in 1..((i + 1) - 1) /\ h \in DOMAIN t
      BY <1>2, <3>1
    <3>4. s[1] <= t[i] /\ \A h \in 1..(i - 1) : t[h] <= t[i]
      BY <1>2, <3>2, <3>3
    <3>5. \A n : n = t[i] => AfterAll(c, n)' /\ AfterChannel(c, n)'
      BY <1>4, <1>5, <3>2
    <3>6. QED
      BY <1>3, <2>2, <3>4, <3>5
  <2>3. QED
    BY <2>1, <2>2
<1>12. QED
  BY <1>4, <1>5, <1>6, <1>9, <1>10, <1>11 DEF OrderInv

\* Something enters the channel, a message in a task's hand or a pong.
LEMMA EntersO ==
    ASSUME OrderInv, TrackerTyped, ChannelTyped, UsedTyped, NEW x \in Events, channel' = Append(channel, x),
           All' = All, UNCHANGED <<next, writer, used>>,
           \A c \in Ids : conn'[c].queued = conn[c].queued,
           \A c \in Ids : conn'[c].hand = IF c = x.msg.conn THEN Pong ELSE conn[c].hand,
           x.msg.n = Pong \/ (x.msg.conn \in Ids /\ x.msg.n = conn[x.msg.conn].hand)
    PROVE  OrderInv'
<1>1. channel \in Seq(Events)
  BY DEF ChannelTyped
<1>2. x.msg.n # Pong => AfterAll(x.msg.conn, x.msg.n) /\ AfterChannel(x.msg.conn, x.msg.n)
  BY DEF OrderInv, HandInOrder
<1>3. OneMeaning' /\ EnvelopesInOrder' /\ \A d, n : AfterAll(d, n) => AfterAll(d, n)'
  BY EnvelopesKept
<1>4. /\ ChannelInOrder'
      /\ \A d, n : AfterChannel(d, n) /\ (x.msg.conn = d => x.msg.n <= n) => AfterChannel(d, n)'
  BY <1>1, <1>2, Enters
<1>5. Below'
  BY BelowKept DEF OrderInv
<1>6. \A c \in Ids : conn'[c].hand = conn[c].hand \/ conn'[c].hand = Pong
  OBVIOUS
<1>7. /\ DOMAIN channel' = 1..(Len(channel) + 1) /\ DOMAIN channel = 1..Len(channel) /\ Len(channel) \in Nat
      /\ \A i \in DOMAIN channel : channel'[i] = channel[i]
      /\ channel'[Len(channel) + 1] = x
  BY <1>1, AppendIs
<1>8. \A i \in DOMAIN channel' : i \in DOMAIN channel \/ channel'[i] = x
  BY <1>7
<1>9. used.messages \in Nat /\ 0 <= used.messages
  BY RemoteBounds DEF UsedTyped
<1>10. Counted'
  <2>1. x.msg.n <= used.messages
    BY <1>9 DEF OrderInv, Counted, Pong
  <2>2. \A i \in DOMAIN channel' : channel'[i].msg.n <= used.messages
    BY <1>7, <1>8, <2>1 DEF OrderInv, Counted
  <2>3. \A c \in Ids : conn'[c].hand <= used.messages
    BY <1>6, <1>9 DEF OrderInv, Counted, Pong
  <2>4. QED
    BY <2>2, <2>3 DEF OrderInv, Counted
<1>11. HandInOrder'
  <2> SUFFICES ASSUME NEW d \in Ids, conn'[d].hand # Pong
               PROVE  \A n : n = conn'[d].hand => AfterAll(d, n)' /\ AfterChannel(d, n)'
    BY DEF HandInOrder, AfterAll, AfterChannel, Pong
  <2>1. d # x.msg.conn /\ conn'[d].hand = conn[d].hand
    OBVIOUS
  <2>2. AfterAll(d, conn[d].hand) /\ AfterChannel(d, conn[d].hand)
    BY <2>1 DEF OrderInv, HandInOrder
  <2>3. QED
    BY <1>3, <1>4, <2>1, <2>2
<1>12. QueueInOrder'
  <2> SUFFICES ASSUME NEW d \in Ids, NEW i \in DOMAIN conn'[d].queued
               PROVE  /\ \A n : n = conn'[d].queued[i] => AfterAll(d, n)' /\ AfterChannel(d, n)'
                      /\ conn'[d].hand <= conn'[d].queued[i]
                      /\ \A h \in 1..(i - 1) : conn'[d].queued[h] <= conn'[d].queued[i]
    BY DEF QueueInOrder, AfterAll, AfterChannel
  <2>1. i \in DOMAIN conn[d].queued /\ conn'[d].queued = conn[d].queued
    OBVIOUS
  <2>2. /\ AfterAll(d, conn[d].queued[i]) /\ AfterChannel(d, conn[d].queued[i])
        /\ conn[d].hand <= conn[d].queued[i]
        /\ \A h \in 1..(i - 1) : conn[d].queued[h] <= conn[d].queued[i]
    BY <2>1 DEF OrderInv, QueueInOrder
  <2>3. 0 <= conn[d].queued[i]
    BY <2>1, TaskIs
  <2>4. x.msg.conn = d => x.msg.n <= conn[d].queued[i]
    BY <2>2, <2>3 DEF Pong
  <2>5. conn'[d].hand <= conn'[d].queued[i]
    BY <1>6, <2>1, <2>2, <2>3 DEF Pong
  <2>6. QED
    BY <1>3, <1>4, <2>1, <2>2, <2>4, <2>5
<1>13. QED
  BY <1>3, <1>4, <1>5, <1>10, <1>11, <1>12 DEF OrderInv

\* The event at the head of the channel gets the next number of its stream: it comes
\* after all that have one.
LEMMA TakeEventO ==
    ASSUME OrderInv, SeqInv, TrackerTyped, ChannelTyped, TakeEvent
    PROVE  OrderInv'
<1> DEFINE v == Head(channel)
           k == v.key
           e == [key |-> k, seq |-> next[k], msg |-> v.msg]
<1>1. /\ writer.at = "ready" /\ channel # <<>> /\ channel' = Tail(channel)
      /\ UNCHANGED <<clients, conn, pongs, used>>
  BY DEF TakeEvent, tracker
<1>2. channel \in Seq(Events)
  BY DEF ChannelTyped
<1>3. /\ v \in Events /\ All' \subseteq All \union {e} /\ e \in Envelopes
      /\ next'[k] = next[k] + 1 /\ \A l \in Keys \ {k} : next'[l] = next[l]
  BY <1>2, TakeEventS
<1>4. /\ DOMAIN channel' = 1..(Len(channel) - 1) /\ DOMAIN channel = 1..Len(channel)
      /\ Len(channel) \in Nat \ {0} /\ v = channel[1]
      /\ \A i \in DOMAIN channel' : channel'[i] = channel[i + 1]
  BY <1>1, <1>2, TailIs
<1>5. /\ 1 \in DOMAIN channel /\ \A i \in DOMAIN channel' : i + 1 \in DOMAIN channel /\ 1 < i + 1
      /\ \A i, j \in DOMAIN channel' : i < j => i + 1 < j + 1
  BY <1>4
<1>6. k \in Keys /\ e.key = k /\ e.seq = next[k] /\ e.msg = v.msg
  BY <1>3, EventIs
<1> HIDE DEF e, v, k
<1>7. next[k] \in Nat \ {0} /\ \A l \in Keys : next[l] \in Nat
  BY <1>6, KeptIs DEF SeqInv
<1>8. \A f \in All : f.seq < next[f.key]
  BY <1>1 DEF OrderInv, Below
<1>9. \A f \in All : f.key = k => f.seq < e.seq /\ ~(e.seq <= f.seq)
  <2>1. \A f \in All : f.key = k => f.seq < next[k]
    BY <1>8
  <2>2. \A a, b \in Nat : a < b => ~(b <= a)
    OBVIOUS
  <2>3. QED
    BY <1>6, <1>7, <2>1, <2>2, AllAre
<1>10. Below'
  <2>1. next[k] < next'[k]
    BY <1>3, <1>7
  <2>2. e.seq < next'[e.key]
    BY <1>6, <2>1
  <2>3. \A a, b \in Nat : a < b => a < b + 1
    OBVIOUS
  <2>4. ASSUME NEW f \in All PROVE f.seq < next'[f.key]
    <3>1. f.key \in Keys /\ f.seq \in Nat /\ f.seq < next[f.key]
      BY <1>8, AllAre
    <3>2. CASE f.key = k
      BY <1>3, <1>7, <2>3, <3>1, <3>2
    <3>3. CASE f.key # k
      BY <1>3, <3>1, <3>3
    <3>4. QED
      BY <3>2, <3>3
  <2>5. \A f \in All' : f.seq < next'[f.key]
    BY <1>3, <2>2, <2>4
  <2>6. QED
    BY <2>5 DEF Below
<1>11. OneMeaning'
  <2> SUFFICES ASSUME NEW f \in All \union {e}, NEW g \in All \union {e}, f.key = g.key, f.seq = g.seq
               PROVE  f = g
    BY <1>3 DEF OneMeaning
  <2>1. CASE f \in All /\ g \in All
    BY <2>1 DEF OrderInv, OneMeaning
  <2>2. \A h \in All : h.key = e.key => h.seq # e.seq
    <3>1. \A h \in All : h.key = e.key => h.seq \in Nat /\ h.seq < e.seq
      BY <1>6, <1>9, AllAre
    <3>2. \A a, b \in Nat : a < b => a # b
      OBVIOUS
    <3>3. QED
      BY <1>6, <1>7, <3>1, <3>2
  <2>3. QED
    BY <2>1, <2>2
<1>12. e.msg.n # Pong => AfterAll(e.msg.conn, e.msg.n)
  BY <1>4, <1>5, <1>6 DEF OrderInv, ChannelInOrder
<1>13. e.msg.n <= e.msg.n
  BY <1>3, EnvelopeIs
<1>14. EnvelopesInOrder'
  <2> SUFFICES ASSUME NEW f \in All \union {e}, NEW g \in All \union {e}, f.key = g.key, f.seq <= g.seq,
                      f.msg.conn = g.msg.conn, g.msg.n # Pong
               PROVE  f.msg.n <= g.msg.n
    BY <1>3 DEF EnvelopesInOrder, Pong
  <2>1. CASE f \in All /\ g \in All
    BY <2>1 DEF OrderInv, EnvelopesInOrder
  <2>2. CASE f \in All /\ g = e
    BY <1>12, <2>2 DEF AfterAll
  <2>3. CASE f = e /\ g \in All
    BY <1>6, <1>9, <2>3
  <2>4. CASE f = e /\ g = e
    BY <1>13, <2>4
  <2>5. QED
    BY <2>1, <2>2, <2>3, <2>4
<1>15. /\ \A c, n : AfterAll(c, n) /\ (e.msg.conn = c => e.msg.n <= n) => AfterAll(c, n)'
       /\ \A c, n : AfterChannel(c, n) => AfterChannel(c, n)' /\ (e.msg.conn = c => e.msg.n <= n)
  <2>1. \A c, n : AfterAll(c, n) /\ (e.msg.conn = c => e.msg.n <= n) => AfterAll(c, n)'
    BY <1>3 DEF AfterAll
  <2>2. \A c, n : AfterChannel(c, n) => AfterChannel(c, n)' /\ (e.msg.conn = c => e.msg.n <= n)
    BY <1>4, <1>5, <1>6 DEF AfterChannel
  <2>3. QED
    BY <2>1, <2>2
<1>16. ChannelInOrder'
  <2> SUFFICES ASSUME NEW j \in DOMAIN channel', channel'[j].msg.n # Pong
               PROVE  /\ \A c, n : c = channel'[j].msg.conn /\ n = channel'[j].msg.n => AfterAll(c, n)'
                      /\ \A i \in DOMAIN channel' :
                           i < j /\ channel'[i].msg.conn = channel'[j].msg.conn => channel'[i].msg.n <= channel'[j].msg.n
    BY DEF ChannelInOrder, AfterAll, Pong
  <2> DEFINE u == channel[j + 1]
  <2>1. j + 1 \in DOMAIN channel /\ channel'[j] = u /\ 1 < j + 1
    BY <1>4, <1>5
  <2>2. /\ AfterAll(u.msg.conn, u.msg.n)
        /\ \A i \in DOMAIN channel :
             i < j + 1 /\ channel[i].msg.conn = u.msg.conn => channel[i].msg.n <= u.msg.n
    BY <2>1 DEF OrderInv, ChannelInOrder
  <2> HIDE DEF u
  <2>3. e.msg.conn = u.msg.conn => e.msg.n <= u.msg.n
    BY <1>4, <1>5, <1>6, <2>1, <2>2
  <2>4. \A c, n : c = channel'[j].msg.conn /\ n = channel'[j].msg.n => AfterAll(c, n)'
    BY <1>15, <2>1, <2>2, <2>3
  <2>5. \A i \in DOMAIN channel' :
          i < j /\ channel'[i].msg.conn = channel'[j].msg.conn => channel'[i].msg.n <= channel'[j].msg.n
    BY <1>4, <1>5, <2>1, <2>2
  <2>6. QED
    BY <2>4, <2>5
<1>17. HandInOrder' /\ QueueInOrder'
  BY <1>1, <1>15, TasksKept
<1>18. Counted'
  <2>1. e.msg.n <= used.messages
    BY <1>4, <1>5, <1>6 DEF OrderInv, Counted
  <2>2. \A f \in All' : f.msg.n <= used.messages
    BY <1>3, <2>1 DEF OrderInv, Counted
  <2>3. \A i \in DOMAIN channel' : channel'[i].msg.n <= used.messages
    BY <1>4, <1>5 DEF OrderInv, Counted
  <2>4. QED
    BY <1>1, <2>2, <2>3 DEF OrderInv, Counted
<1>19. QED
  BY <1>10, <1>11, <1>14, <1>16, <1>17, <1>18 DEF OrderInv

-----------------------------------------------------------------------------
(* Every step keeps the inductive invariant *)

\* The tracker or a task moves, and nothing is written, forwarded or numbered.
LEMMA TrackerMoves ==
    ASSUME IInv, ConnInv', UNCHANGED <<channel, outbound, writer, wire, got>>,
           UsedTyped', used.messages <= used'.messages,
           \A c \in Ids : conn'[c].queued = conn[c].queued \/ conn'[c].queued = <<>>,
           \A c \in Ids : conn'[c].hand = conn[c].hand \/ conn'[c].hand = Pong
    PROVE  IInv'
<1>1. SeqInv' /\ All' \subseteq All
  BY SeqSame DEF IInv
<1>2. ChannelTyped' /\ UNCHANGED next
  BY DEF IInv, ChannelTyped, outbound
<1>3. used.messages \in Nat /\ used'.messages \in Nat
  BY RemoteBounds DEF IInv, UsedTyped
<1>4. TrackerTyped
  BY DEF IInv, ConnInv
<1>5. OrderInv'
  BY <1>1, <1>2, <1>3, <1>4, OrderKept DEF IInv
<1>6. QED
  BY <1>1, <1>2, <1>5 DEF IInv

\* The writer, the reader or the backend moves, and nothing is numbered.
LEMMA WireMoves ==
    ASSUME IInv, UNCHANGED <<tracker, channel, next>>, SeqInv', All' \subseteq All,
           writer.at = "stopped" => UNCHANGED writer, UsedTyped', used'.messages = used.messages
    PROVE  IInv'
<1>1. UNCHANGED <<clients, conn, pongs>> /\ ConnInv'
  BY ConnSame DEF IInv, tracker
<1>2. ChannelTyped' /\ TrackerTyped
  BY DEF IInv, ChannelTyped, ConnInv
<1>3. used.messages \in Nat /\ used.messages <= used'.messages
  BY RemoteBounds DEF IInv, UsedTyped
<1>4. OrderInv'
  BY <1>1, <1>2, <1>3, OrderKept DEF IInv
<1>5. QED
  BY <1>1, <1>2, <1>4 DEF IInv

\* The bounds do not move.
LEMMA UsedSame == ASSUME IInv, UNCHANGED used PROVE UsedTyped' /\ used.messages <= used'.messages
<1>1. used.messages \in Nat
  BY RemoteBounds DEF IInv, UsedTyped
<1>2. QED
  BY <1>1 DEF IInv, UsedTyped

\* One more message.
LEMMA UsedMore ==
    ASSUME IInv, used.messages < Messages, used' = [used EXCEPT !.messages = @ + 1]
    PROVE  /\ UsedTyped' /\ used'.messages = used.messages + 1 /\ used'.messages \in Nat
           /\ used.messages + 1 \in 1..Messages /\ used.messages <= used'.messages
<1>1. used \in [messages : 0..Messages, losses : 0..Losses] /\ used.messages \in Nat /\ Messages \in Nat
  BY RemoteBounds DEF IInv, UsedTyped
<1>2. used.messages + 1 \in 1..Messages /\ used.messages + 1 \in 0..Messages /\ used.messages <= used.messages + 1
      /\ used.messages + 1 \in Nat
  BY <1>1
<1>3. used'.messages = used.messages + 1 /\ used' \in [messages : 0..Messages, losses : 0..Losses]
  BY <1>1, <1>2
<1>4. QED
  BY <1>2, <1>3 DEF UsedTyped

\* handle_message with an `initialize`.
LEMMA InitializeI == ASSUME IInv, NEW k \in Keys, Initialize(k) PROVE IInv'
<1>1. ConnInv' /\ \A d \in Ids : conn'[d].queued = conn[d].queued /\ conn'[d].hand = conn[d].hand
  BY InitializeC DEF IInv
<1>2. UNCHANGED <<channel, outbound, writer, wire, got, used>>
  BY DEF Initialize
<1>3. QED
  BY <1>1, <1>2, UsedSame, TrackerMoves

\* close_client.
LEMMA CloseClientI == ASSUME IInv, NEW k \in Keys, CloseClient(k) PROVE IInv'
<1>1. ConnInv' /\ \A d \in Ids : conn'[d].queued = conn[d].queued /\ conn'[d].hand = conn[d].hand
  BY CloseClientC DEF IInv
<1>2. UNCHANGED <<channel, outbound, writer, wire, got, used>>
  BY DEF CloseClient
<1>3. QED
  BY <1>1, <1>2, UsedSame, TrackerMoves

\* bookkeep_join_set.
LEMMA BookkeepJoinSetI == ASSUME IInv, NEW c \in Ids, BookkeepJoinSet(c) PROVE IInv'
<1>1. ConnInv' /\ \A d \in Ids : conn'[d].queued = conn[d].queued /\ conn'[d].hand = conn[d].hand
  BY BookkeepJoinSetC DEF IInv
<1>2. UNCHANGED <<channel, outbound, writer, wire, got, used>>
  BY DEF BookkeepJoinSet
<1>3. QED
  BY <1>1, <1>2, UsedSame, TrackerMoves

\* A ping sets the status of a known connection, or starts a pong.
LEMMA PingI == ASSUME IInv, NEW k \in Keys, Ping(k) PROVE IInv'
<1>1. /\ used.messages < Messages /\ used' = [used EXCEPT !.messages = @ + 1]
      /\ UNCHANGED <<clients, channel, outbound, writer, wire, got>>
  BY DEF Ping
<1>2. UsedTyped' /\ used.messages <= used'.messages
  BY <1>1, UsedMore
<1>3. CASE clients[k] # 0 /\ conn' = [conn EXCEPT ![clients[k]].pong = TRUE] /\ UNCHANGED pongs
  <2> DEFINE c == clients[k]
             r == [conn[c] EXCEPT !.pong = TRUE]
  <2>1. c \in Opened
    BY <1>3 DEF IInv, ConnInv, Tracked
  <2>2. c \in Ids /\ conn[c] \in ConnRecs /\ conn[c].at # "unused"
    BY <2>1, TaskIs DEF IInv, ConnInv, Opened
  <2>3. conn' = [conn EXCEPT ![c] = r]
    BY <1>3
  <2> HIDE DEF c
  <2>4. /\ r \in ConnRecs /\ r.key = conn[c].key /\ r.closed = conn[c].closed /\ r.at # "unused"
        /\ r.cancelled = conn[c].cancelled /\ r.queued = conn[c].queued /\ r.hand = conn[c].hand
    BY <2>2 DEF ConnRecs
  <2> HIDE DEF r
  <2>5. ConnInv' /\ conn'[c] = r /\ \A d \in Ids \ {c} : conn'[d] = conn[d]
    <3>1. ConnInv /\ UNCHANGED <<clients, pongs>> /\ (conn[c].cancelled => r.cancelled)
      BY <1>1, <1>3, <2>4 DEF IInv
    <3>2. QED
      BY <2>1, <2>3, <2>4, <3>1, ConnI
  <2>6. \A d \in Ids : conn'[d].queued = conn[d].queued /\ conn'[d].hand = conn[d].hand
    BY <2>4, <2>5
  <2>7. QED
    BY <1>1, <1>2, <2>5, <2>6, TrackerMoves
<1>4. CASE clients[k] = 0 /\ pongs' = pongs \union {k} /\ UNCHANGED conn
  <2>1. Opened' = Opened
    BY <1>4 DEF Opened
  <2>2. TrackerTyped'
    BY <1>1, <1>4 DEF IInv, ConnInv, TrackerTyped
  <2>3. ConnInv'
    BY <1>1, <1>4, <2>1, <2>2 DEF IInv, ConnInv, OpenedInOrder, Fresh, Tracked, NothingLeftBehind
  <2>4. QED
    BY <1>1, <1>2, <1>4, <2>3, TrackerMoves
<1>5. QED
  BY <1>3, <1>4 DEF Ping

\* The app-server writes.
LEMMA AppSendsI == ASSUME IInv, NEW c \in Ids, AppSends(c) PROVE IInv'
<1> DEFINE n == used.messages + 1
           s == Append(conn[c].queued, n)
           r == [conn[c] EXCEPT !.queued = s]
<1>1. /\ conn[c].at \in {"select", "holding"} /\ used.messages < Messages
      /\ used' = [used EXCEPT !.messages = @ + 1] /\ conn' = [conn EXCEPT ![c] = r]
      /\ UNCHANGED <<clients, pongs, channel, outbound, writer, wire, got>>
  BY DEF AppSends
<1>2. UsedTyped' /\ used'.messages = n /\ used'.messages \in Nat /\ n \in 1..Messages
  BY <1>1, UsedMore
<1>3. conn[c] \in ConnRecs /\ conn[c].queued \in Seq(1..Messages) /\ TrackerTyped
  BY TaskIs DEF IInv, ConnInv
<1>4. s \in Seq(1..Messages)
  BY <1>2, <1>3, AppendIs
<1>5. c \in Opened
  BY <1>1 DEF Opened
<1> HIDE DEF s
<1>6. /\ r \in ConnRecs /\ r.key = conn[c].key /\ r.closed = conn[c].closed /\ r.at # "unused"
      /\ r.cancelled = conn[c].cancelled /\ r.queued = s /\ r.hand = conn[c].hand
  BY <1>1, <1>3, <1>4 DEF ConnRecs
<1> HIDE DEF r
<1>7. ConnInv' /\ conn'[c] = r /\ \A d \in Ids \ {c} : conn'[d] = conn[d]
  <2>1. ConnInv /\ UNCHANGED <<clients, pongs>> /\ conn' = [conn EXCEPT ![c] = r]
        /\ (conn[c].cancelled => r.cancelled)
    BY <1>1, <1>6 DEF IInv
  <2>2. QED
    BY <1>5, <1>6, <2>1, ConnI
<1>8. SeqInv' /\ All' = All
  BY <1>1, SeqSame DEF IInv
<1>9. ChannelTyped' /\ UNCHANGED next
  BY <1>1 DEF IInv, ChannelTyped, outbound
<1>10. OrderInv'
  BY <1>1, <1>2, <1>3, <1>6, <1>7, <1>8, <1>9, AppSendsO DEF IInv, s
<1>11. QED
  BY <1>2, <1>7, <1>8, <1>9, <1>10 DEF IInv

\* The app-server gives a connection up.
LEMMA AppDisconnectsI == ASSUME IInv, NEW c \in Ids, AppDisconnects(c) PROVE IInv'
<1> DEFINE r == [conn[c] EXCEPT !.cancelled = TRUE]
<1>1. /\ c \in Opened /\ conn' = [conn EXCEPT ![c] = r]
      /\ UNCHANGED <<clients, pongs, channel, outbound, writer, wire, got, used>>
  BY DEF AppDisconnects
<1>2. conn[c] \in ConnRecs /\ conn[c].at # "unused"
  BY <1>1, TaskIs DEF IInv, ConnInv, Opened
<1>3. /\ r \in ConnRecs /\ r.key = conn[c].key /\ r.closed = conn[c].closed /\ r.at # "unused"
      /\ r.cancelled = TRUE /\ r.queued = conn[c].queued /\ r.hand = conn[c].hand
  BY <1>2 DEF ConnRecs
<1> HIDE DEF r
<1>4. ConnInv' /\ conn'[c] = r /\ \A d \in Ids \ {c} : conn'[d] = conn[d]
  BY <1>1, <1>3, ConnI DEF IInv
<1>5. \A d \in Ids : conn'[d].queued = conn[d].queued /\ conn'[d].hand = conn[d].hand
  BY <1>3, <1>4
<1>6. QED
  BY <1>1, <1>4, <1>5, UsedSame, TrackerMoves

\* The task takes a message or a pong.
LEMMA TakeMessageI == ASSUME IInv, NEW c \in Ids, TakeMessage(c) PROVE IInv'
<1> DEFINE s == conn[c].queued
           h == Head(s)
           t == Tail(s)
           q == [conn[c] EXCEPT !.at = "holding", !.hand = h, !.queued = t]
           r == [conn[c] EXCEPT !.at = "holding", !.hand = 0, !.pong = FALSE]
<1>1. /\ conn[c].at = "select" /\ UNCHANGED <<clients, pongs, channel, outbound, writer, wire, got, used>>
      /\ \/ s # <<>> /\ conn' = [conn EXCEPT ![c] = q]
         \/ conn' = [conn EXCEPT ![c] = r]
  BY DEF TakeMessage, Pong
<1>2. conn[c] \in ConnRecs /\ s \in Seq(1..Messages) /\ TrackerTyped /\ 0 \in Hands
  BY RemoteBounds, TaskIs DEF IInv, ConnInv, Hands
<1>3. c \in Opened
  BY <1>1 DEF Opened
<1>4. CASE s # <<>> /\ conn' = [conn EXCEPT ![c] = q]
  <2>1. h \in Hands /\ t \in Seq(1..Messages)
    <3>1. h \in 1..Messages /\ t \in Seq(1..Messages)
      BY <1>2, <1>4, TailIs
    <3>2. QED
      BY <3>1, RemoteBounds DEF Hands
  <2> HIDE DEF h, t
  <2>3. /\ q \in ConnRecs /\ q.at = "holding" /\ q.key = conn[c].key /\ q.cancelled = conn[c].cancelled
        /\ q.queued = t /\ q.hand = h /\ q.closed = conn[c].closed
    <3> DEFINE a == [conn[c] EXCEPT !.at = "holding"]
    <3> HIDE DEF s
    <3>1. /\ a \in ConnRecs /\ a.at = "holding" /\ a.key = conn[c].key
          /\ a.cancelled = conn[c].cancelled /\ a.closed = conn[c].closed
          /\ a.queued = conn[c].queued /\ a.hand = conn[c].hand
      BY <1>2 DEF ConnRecs, ConnSteps
    <3> HIDE DEF a
    <3> DEFINE b == [a EXCEPT !.hand = h]
    <3>2. /\ b \in ConnRecs /\ b.at = "holding" /\ b.key = conn[c].key
          /\ b.cancelled = conn[c].cancelled /\ b.closed = conn[c].closed
          /\ b.queued = conn[c].queued /\ b.hand = h
      BY <2>1, <3>1 DEF ConnRecs, ConnSteps
    <3> HIDE DEF b
    <3> DEFINE d == [b EXCEPT !.queued = t]
    <3>3. /\ d \in ConnRecs /\ d.at = "holding" /\ d.key = conn[c].key
          /\ d.cancelled = conn[c].cancelled /\ d.closed = conn[c].closed
          /\ d.queued = t /\ d.hand = h
      BY <2>1, <3>2 DEF ConnRecs, ConnSteps
    <3>4. q = d
      BY DEF a, b
    <3> HIDE DEF d, q
    <3>5. QED
      BY <3>3, <3>4
  <2> HIDE DEF q
  <2>4. ConnInv' /\ conn'[c] = q /\ \A d \in Ids \ {c} : conn'[d] = conn[d]
    BY <1>1, <1>3, <1>4, <2>3, ConnI DEF IInv
  <2>5. SeqInv' /\ All' = All
    BY <1>1, SeqSame DEF IInv
  <2>6. ChannelTyped' /\ UsedTyped' /\ UNCHANGED <<channel, next, writer, used>>
    BY <1>1 DEF IInv, ChannelTyped, UsedTyped, outbound
  <2>7. OrderInv'
    BY <1>2, <1>4, <2>3, <2>4, <2>5, <2>6, TakeMessageO DEF IInv, h, t
  <2>8. QED
    BY <2>4, <2>5, <2>6, <2>7 DEF IInv
<1>5. CASE conn' = [conn EXCEPT ![c] = r]
  <2>1. /\ r \in ConnRecs /\ r.at = "holding" /\ r.key = conn[c].key /\ r.cancelled = conn[c].cancelled
        /\ r.queued = conn[c].queued /\ r.hand = 0 /\ r.closed = conn[c].closed
    BY <1>2, TakingPong
  <2> HIDE DEF r
  <2>2. ConnInv' /\ conn'[c] = r /\ \A d \in Ids \ {c} : conn'[d] = conn[d]
    BY <1>1, <1>3, <1>5, <2>1, ConnI DEF IInv
  <2>3. \A d \in Ids : conn'[d].queued = conn[d].queued /\ (conn'[d].hand = conn[d].hand \/ conn'[d].hand = Pong)
    BY <2>1, <2>2 DEF Pong
  <2>4. QED
    BY <1>1, <2>2, <2>3, UsedSame, TrackerMoves
<1>6. QED
  BY <1>1, <1>4, <1>5

\* What enters the channel.
LEMMA ChannelGrows ==
    ASSUME IInv, NEW x \in Events, Len(channel) < Capacity, channel' = Append(channel, x)
    PROVE  ChannelTyped'
<1>1. channel \in Seq(Events) /\ Capacity \in Nat
  BY RemoteBounds DEF IInv, ChannelTyped
<1>2. channel' \in Seq(Events) /\ Len(channel') = Len(channel) + 1 /\ Len(channel) \in Nat
  BY <1>1, AppendIs
<1>3. Len(channel') <= Capacity
  BY <1>1, <1>2
<1>4. QED
  BY <1>2, <1>3 DEF ChannelTyped

\* The task forwards what it holds.
LEMMA ForwardI == ASSUME IInv, NEW c \in Ids, Forward(c) PROVE IInv'
<1> DEFINE x == [key |-> conn[c].key, msg |-> Message(c, conn[c].hand)]
           r == [conn[c] EXCEPT !.at = "select", !.hand = 0]
<1>1. /\ conn[c].at = "holding" /\ Len(channel) < Capacity /\ channel' = Append(channel, x)
      /\ conn' = [conn EXCEPT ![c] = r]
      /\ UNCHANGED <<clients, pongs, outbound, writer, wire, got, used>>
  BY DEF Forward, Pong
<1>2. conn[c] \in ConnRecs /\ conn[c].hand \in 0..Messages /\ TrackerTyped /\ 0 \in Hands /\ c \in 0..Conns
  BY RemoteBounds, TaskIs, IdsAre DEF IInv, ConnInv, Hands
<1>3. x \in Events /\ x.msg.conn = c /\ x.msg.n = conn[c].hand
  BY <1>2 DEF Events, Contents, Message, ConnRecs
<1>4. c \in Opened
  BY <1>1 DEF Opened
<1>5. /\ r \in ConnRecs /\ r.at = "select" /\ r.key = conn[c].key /\ r.cancelled = conn[c].cancelled
      /\ r.queued = conn[c].queued /\ r.hand = 0 /\ r.closed = conn[c].closed
  BY <1>2, Forwarded
<1> HIDE DEF r, x
<1>6. ConnInv' /\ conn'[c] = r /\ \A d \in Ids \ {c} : conn'[d] = conn[d]
  BY <1>1, <1>4, <1>5, ConnI DEF IInv
<1>7. SeqInv' /\ All' = All
  BY <1>1, SeqSame DEF IInv
<1>8. UsedTyped' /\ UNCHANGED <<next, writer, used>>
  BY <1>1 DEF IInv, UsedTyped, outbound
<1>9. ChannelTyped'
  BY <1>1, <1>3, ChannelGrows
<1>10. /\ \A d \in Ids : conn'[d].queued = conn[d].queued
       /\ \A d \in Ids : conn'[d].hand = IF d = x.msg.conn THEN Pong ELSE conn[d].hand
       /\ x.msg.conn \in Ids /\ x.msg.n = conn[x.msg.conn].hand
  BY <1>3, <1>5, <1>6 DEF Pong
<1>11. OrderInv'
  BY <1>1, <1>2, <1>3, <1>7, <1>8, <1>10, EntersO DEF IInv
<1>12. QED
  BY <1>6, <1>7, <1>8, <1>9, <1>11 DEF IInv

\* The task sees its token cancelled.
LEMMA OutboundEndsI == ASSUME IInv, NEW c \in Ids, OutboundEnds(c) PROVE IInv'
<1> DEFINE r == [conn[c] EXCEPT !.at = "ended", !.queued = <<>>, !.hand = 0, !.pong = FALSE]
<1>1. /\ conn[c].at \in {"select", "holding"} /\ conn' = [conn EXCEPT ![c] = r]
      /\ UNCHANGED <<clients, pongs, channel, outbound, writer, wire, got, used>>
  BY DEF OutboundEnds, Pong
<1>2. conn[c] \in ConnRecs /\ 0 \in Hands /\ <<>> \in Seq(1..Messages)
  BY RemoteBounds, TaskIs DEF IInv, ConnInv, Hands
<1>3. c \in Opened
  BY <1>1 DEF Opened
<1>4. /\ r \in ConnRecs /\ r.at = "ended" /\ r.key = conn[c].key /\ r.cancelled = conn[c].cancelled
      /\ r.queued = <<>> /\ r.hand = 0 /\ r.closed = conn[c].closed
  BY <1>2, Ending
<1> HIDE DEF r
<1>5. ConnInv' /\ conn'[c] = r /\ \A d \in Ids \ {c} : conn'[d] = conn[d]
  BY <1>1, <1>3, <1>4, ConnI DEF IInv
<1>6. \A d \in Ids : /\ conn'[d].queued = conn[d].queued \/ conn'[d].queued = <<>>
                     /\ conn'[d].hand = conn[d].hand \/ conn'[d].hand = Pong
  BY <1>4, <1>5 DEF Pong
<1>7. QED
  BY <1>1, <1>5, <1>6, UsedSame, TrackerMoves

\* The pong to an unknown client is sent.
LEMMA UnknownPongI == ASSUME IInv, NEW k \in Keys, UnknownPong(k) PROVE IInv'
<1> DEFINE x == [key |-> k, msg |-> Message(0, Pong)]
<1>1. /\ Len(channel) < Capacity /\ channel' = Append(channel, x) /\ pongs' = pongs \ {k}
      /\ UNCHANGED <<clients, conn, outbound, writer, wire, got, used>>
  BY DEF UnknownPong
<1>2. x \in Events /\ x.msg.conn = 0 /\ x.msg.n = Pong
  BY RemoteBounds DEF Events, Contents, Message, Pong
<1> HIDE DEF x
<1>3. Opened' = Opened
  BY <1>1 DEF Opened
<1>4. TrackerTyped /\ TrackerTyped'
  BY <1>1 DEF IInv, ConnInv, TrackerTyped
<1>5. ConnInv'
  BY <1>1, <1>3, <1>4 DEF IInv, ConnInv, OpenedInOrder, Fresh, Tracked, NothingLeftBehind
<1>6. SeqInv' /\ All' = All
  BY <1>1, SeqSame DEF IInv
<1>7. UsedTyped' /\ UNCHANGED <<next, writer, used>>
  BY <1>1 DEF IInv, UsedTyped, outbound
<1>8. ChannelTyped'
  BY <1>1, <1>2, ChannelGrows
<1>9. /\ \A d \in Ids : conn'[d].queued = conn[d].queued
      /\ \A d \in Ids : conn'[d].hand = IF d = x.msg.conn THEN Pong ELSE conn[d].hand
  BY <1>1, <1>2, IdsAre
<1>10. OrderInv'
  BY <1>1, <1>2, <1>4, <1>6, <1>7, <1>9, EntersO DEF IInv
<1>11. QED
  BY <1>5, <1>6, <1>7, <1>8, <1>10 DEF IInv

\* The writer, the reader's acknowledgements and the backend.
LEMMA WireI ==
    ASSUME IInv,
           \/ Connect \/ ReplayDone \/ UsageChanged \/ PingInterval \/ Receive
           \/ \E k \in Keys : Replay(k) \/ Send(k)
           \/ \E k \in Keys : \E n \in Seqs(k) : Ack(k, n)
    PROVE  IInv'
<1>1. SeqInv
  BY DEF IInv
<1>2. SeqInv' /\ All' \subseteq All
  BY <1>1, ConnectS, ReplayDoneS, UsageChangedS, PingIntervalS, ReceiveS, ReplayS, SendS, AckS
<1>3. UNCHANGED <<tracker, channel, next, used>>
  BY DEF Connect, ReplayDone, UsageChanged, PingInterval, Receive, Replay, Send, Ack, outbound
<1>4. writer.at = "stopped" => UNCHANGED writer
  BY DEF Connect, ReplayDone, UsageChanged, PingInterval, Receive, Replay, Send, Ack
<1>5. UsedTyped' /\ used'.messages = used.messages
  BY <1>3, UsedSame
<1>6. QED
  BY <1>2, <1>3, <1>4, <1>5, WireMoves

\* The websocket is lost.
LEMMA ConnectionLostI == ASSUME IInv, ConnectionLost PROVE IInv'
<1>1. SeqInv' /\ All' \subseteq All
  BY ConnectionLostS DEF IInv
<1>2. /\ UNCHANGED <<tracker, channel, next>> /\ writer.at # "stopped" /\ used.losses < Losses
      /\ used' = [used EXCEPT !.losses = @ + 1]
  BY DEF ConnectionLost, Reading, outbound
<1>3. used \in [messages : 0..Messages, losses : 0..Losses] /\ used.losses + 1 \in 0..Losses
  BY <1>2, RemoteBounds DEF IInv, UsedTyped
<1>4. UsedTyped' /\ used'.messages = used.messages
  BY <1>2, <1>3 DEF UsedTyped
<1>5. QED
  BY <1>1, <1>2, <1>4, WireMoves

\* Remote control stops.
LEMMA ShutdownI == ASSUME IInv, Shutdown PROVE IInv'
<1>1. SeqInv' /\ All' \subseteq All /\ writer'.at = "stopped"
  BY ShutdownS DEF IInv
<1>2. /\ ConnInv'
      /\ \A d \in Ids : /\ conn'[d].queued = conn[d].queued \/ conn'[d].queued = <<>>
                        /\ conn'[d].hand = conn[d].hand \/ conn'[d].hand = Pong
  BY ShutdownC DEF IInv
<1>3. channel' = <<>> /\ UNCHANGED used /\ TrackerTyped
  BY DEF Shutdown, IInv, ConnInv
<1>4. ChannelTyped'
  <2>1. <<>> \in Seq(Events) /\ Len(<<>>) = 0 /\ 0 <= Capacity
    BY EmptyIs, RemoteBounds
  <2>2. QED
    BY <1>3, <2>1 DEF ChannelTyped
<1>5. used.messages \in Nat /\ used'.messages \in Nat /\ used.messages <= used'.messages /\ UsedTyped'
  <2>1. used.messages \in Nat
    BY RemoteBounds DEF IInv, UsedTyped
  <2>2. UsedTyped' /\ used.messages <= used'.messages
    BY <1>3, UsedSame
  <2>3. QED
    BY <1>3, <2>1, <2>2
<1>6. OrderInv'
  BY <1>1, <1>2, <1>3, <1>5, OrderKept DEF IInv
<1>7. QED
  BY <1>1, <1>2, <1>4, <1>5, <1>6 DEF IInv

\* The writer takes an event.
LEMMA TakeEventI == ASSUME IInv, TakeEvent PROVE IInv'
<1>1. channel # <<>> /\ channel' = Tail(channel) /\ UNCHANGED <<tracker, used>>
  BY DEF TakeEvent
<1>2. channel \in Seq(Events) /\ Len(channel) <= Capacity /\ Capacity \in Nat
  BY RemoteBounds DEF IInv, ChannelTyped
<1>3. ChannelTyped'
  <2>1. channel' \in Seq(Events) /\ Len(channel') = Len(channel) - 1 /\ Len(channel) \in Nat
    BY <1>1, <1>2, TailIs
  <2>2. Len(channel') <= Capacity
    BY <1>2, <2>1
  <2>3. QED
    BY <2>1, <2>2 DEF ChannelTyped
<1>4. SeqInv'
  BY <1>2, TakeEventS DEF IInv
<1>5. OrderInv'
  BY TakeEventO DEF IInv, ConnInv
<1>6. ConnInv' /\ UsedTyped'
  BY <1>1, ConnSame, UsedSame DEF IInv
<1>7. QED
  BY <1>3, <1>4, <1>5, <1>6 DEF IInv

\* At the beginning there is nothing.
LEMMA InitI == ASSUME Init PROVE IInv
<1> DEFINE k0 == CHOOSE k \in Keys : TRUE
           r == [at |-> "unused", key |-> k0, cancelled |-> FALSE, queued |-> <<>>, pong |-> FALSE,
                 hand |-> 0, closed |-> "no"]
<1>1. k0 \in Keys
  BY RemoteBounds
<1>2. /\ clients = [k \in Keys |-> 0] /\ conn = [c \in Ids |-> r] /\ pongs = {} /\ channel = <<>>
      /\ next = [k \in Keys |-> 1] /\ buffer = [k \in Keys |-> <<>>] /\ changed = FALSE
      /\ writer = [at |-> "down", todo |-> [k \in Keys |-> <<>>]] /\ wire = <<>> /\ got = {}
      /\ used = [messages |-> 0, losses |-> 0]
  BY DEF Init, Pong
<1> HIDE DEF k0
<1>3. /\ r \in ConnRecs /\ r.at = "unused" /\ r.queued = <<>> /\ r.hand = 0 /\ r.closed = "no"
  BY <1>1, RemoteBounds, EmptyIs DEF ConnRecs, ConnSteps, Causes, Hands
<1> HIDE DEF r
<1>4. conn \in [Ids -> ConnRecs] /\ \A c \in Ids : conn[c] = r
  BY <1>2, <1>3
<1>5. Opened = {}
  BY <1>3, <1>4 DEF Opened
<1>6. OpenedInOrder
  <2>1. Cardinality(Opened) = 0
    BY <1>5, FS_EmptySet
  <2>2. 1..0 = {}
    OBVIOUS
  <2>3. QED
    BY <1>5, <2>1, <2>2 DEF OpenedInOrder
<1>7. \A k \in Keys : clients[k] = 0 /\ next[k] = 1 /\ buffer[k] = <<>> /\ writer.todo[k] = <<>>
  BY <1>2
<1>8. TrackerTyped
  BY <1>2, <1>4, RemoteBounds DEF TrackerTyped
<1>9. ConnInv
  BY <1>3, <1>4, <1>5, <1>6, <1>7, <1>8 DEF ConnInv, Fresh, Tracked, NothingLeftBehind
<1>10. <<>> \in Seq(Events) /\ <<>> \in Seq(Envelopes) /\ Len(<<>>) = 0 /\ DOMAIN <<>> = {} /\ 0 <= Capacity
       /\ 0 < 1 /\ 1..(1 - 1 - 0) = {}
  BY EmptyIs, RemoteBounds
<1>11. ChannelTyped /\ SentTyped
  BY <1>2, <1>10 DEF ChannelTyped, SentTyped
<1>12. UsedTyped /\ used.messages = 0 /\ 0 \in Nat /\ 0 <= 0
  BY <1>2, RemoteBounds DEF UsedTyped
<1>13. writer.at = "down" /\ writer \in Writers
  BY <1>2, <1>10 DEF Writers, WriterSteps
<1>14. OutboundTyped
  <2>1. next \in [Keys -> Nat \ {0}] /\ buffer \in [Keys -> Seq(Envelopes)]
    BY <1>2, <1>10
  <2>2. changed \in BOOLEAN
    BY <1>2
  <2>3. QED
    BY <1>13, <2>1, <2>2 DEF OutboundTyped
<1>15. BufferIsLast
  BY <1>7, <1>10 DEF BufferIsLast
<1>16. TodoIsLast /\ TodoWhen
  BY <1>7, <1>13 DEF TodoIsLast, TodoWhen
<1>17. WireInTurn /\ GotInTurn
  BY <1>2, <1>10 DEF WireInTurn, GotInTurn
<1>18. Buffered = {}
  BY <1>7, <1>10 DEF Buffered
<1>19. Room
  <2>1. IsFiniteSet(Buffered) /\ Usage = 0 /\ IsFiniteSet(got)
    BY <1>2, <1>18, FS_EmptySet DEF Usage
  <2>2. QED
    BY <1>10, <1>13, <2>1 DEF Room
<1>20. SeqInv
  BY <1>11, <1>14, <1>15, <1>16, <1>17, <1>19 DEF SeqInv
<1>21. All = {}
  BY <1>2, <1>7, <1>10 DEF All, Out
<1>22. Below /\ OneMeaning /\ EnvelopesInOrder
  BY <1>21 DEF Below, OneMeaning, EnvelopesInOrder
<1>23. ChannelInOrder
  BY <1>2, <1>10 DEF ChannelInOrder
<1>24. \A c \in Ids : conn[c].hand = 0 /\ DOMAIN conn[c].queued = {}
  BY <1>3, <1>4, <1>10
<1>25. HandInOrder /\ QueueInOrder
  BY <1>24 DEF HandInOrder, QueueInOrder, Pong
<1>26. Counted
  BY <1>2, <1>10, <1>12, <1>21, <1>24 DEF Counted
<1>27. QED
  BY <1>9, <1>11, <1>12, <1>20, <1>22, <1>23, <1>25, <1>26 DEF IInv, OrderInv

\* Nothing moves.
LEMMA StutterI == ASSUME IInv, UNCHANGED vars PROVE IInv'
<1>1. UNCHANGED <<tracker, channel, outbound, writer, wire, got, used>>
  BY DEF vars
<1>2. SeqInv' /\ All' \subseteq All /\ UNCHANGED next
  BY <1>1, SeqSame DEF IInv, outbound
<1>3. UsedTyped' /\ used'.messages = used.messages
  BY <1>1, UsedSame
<1>4. QED
  BY <1>1, <1>2, <1>3, WireMoves

\* Every step keeps the inductive invariant.
LEMMA StepI == ASSUME IInv, [Next]_vars PROVE IInv'
<1>1. ASSUME NEW k \in Keys, Initialize(k) \/ Ping(k) \/ UnknownPong(k) \/ CloseClient(k) PROVE IInv'
  BY <1>1, InitializeI, PingI, UnknownPongI, CloseClientI
<1>2. ASSUME NEW c \in Ids, BookkeepJoinSet(c) \/ AppSends(c) \/ AppDisconnects(c) PROVE IInv'
  BY <1>2, BookkeepJoinSetI, AppSendsI, AppDisconnectsI
<1>3. ASSUME NEW c \in Ids, Outbound(c) PROVE IInv'
  BY <1>3, TakeMessageI, ForwardI, OutboundEndsI DEF Outbound
<1>4. CASE WriterStep
  BY <1>4, WireI, TakeEventI DEF WriterStep
<1>5. CASE PingInterval \/ Receive \/ Acks
  BY <1>5, WireI DEF Acks
<1>6. CASE ConnectionLost
  BY <1>6, ConnectionLostI
<1>7. CASE Shutdown
  BY <1>7, ShutdownI
<1>8. CASE UNCHANGED vars
  BY <1>8, StutterI
<1>9. QED
  BY <1>1, <1>2, <1>3, <1>4, <1>5, <1>6, <1>7, <1>8 DEF Next

\* The inductive invariant holds always.
LEMMA Inductive == Spec => []IInv
<1>1. Init => IInv
  BY InitI
<1>2. IInv /\ [Next]_vars => IInv'
  BY StepI
<1>3. QED
  BY <1>1, <1>2, PTL DEF Spec

-----------------------------------------------------------------------------
(* The theorems *)

\* Every variable keeps its type, and the channel its bound.
THEOREM TypeTheorem == Spec => []TypeOK
<1>1. IInv => TypeOK
  BY TypeIs DEF IInv, ConnInv, SeqInv
<1>2. QED
  BY <1>1, Inductive, PTL

\* An open connection is the tracker's connection of its key, and a closed one has been
\* told to end: close_client, initialize, bookkeep_join_set and shutdown between them leave
\* no connection and no task behind.
THEOREM NothingLeftBehindTheorem == Spec => []NothingLeftBehind
<1>1. IInv => NothingLeftBehind
  BY DEF IInv, ConnInv
<1>2. QED
  BY <1>1, Inductive, PTL

\* What has been numbered was received or is buffered.
LEMMA KeptIsImplied == ASSUME IInv PROVE KeptUntilAcked
<1>1. Usage <= Capacity
  BY DEF IInv, SeqInv, Room
<1>2. ASSUME NEW k \in Keys, NEW n \in 1..(next[k] - 1)
      PROVE  n \in Seqs(k) \/ \E i \in DOMAIN buffer[k] : buffer[k][i].seq = n
  <2> DEFINE L == Len(buffer[k])
             x == next[k]
  <2>1. x \in Nat \ {0} /\ L \in Nat /\ DOMAIN buffer[k] = 1..L
    BY KeptIs DEF IInv, SeqInv
  <2>2. /\ L < x /\ \A i \in DOMAIN buffer[k] : buffer[k][i].seq = x - 1 - L + i
        /\ \A m \in 1..(x - 1 - L) : m \in Seqs(k)
    BY DEF IInv, SeqInv, BufferIsLast
  <2>3. n \in 1..(x - 1)
    OBVIOUS
  <2> HIDE DEF L, x
  <2>4. CASE n \in 1..(x - 1 - L)
    BY <2>2, <2>4
  <2>5. CASE n \notin 1..(x - 1 - L)
    <3> DEFINE j == n - (x - 1 - L)
    <3>1. j \in 1..L /\ x - 1 - L + j = n
      BY <2>1, <2>2, <2>3, <2>5
    <3> HIDE DEF j
    <3>2. buffer[k][j].seq = n
      BY <2>1, <2>2, <3>1
    <3>3. QED
      BY <2>1, <3>1, <3>2
  <2>6. QED
    BY <2>4, <2>5
<1>3. QED
  BY <1>1, <1>2 DEF KeptUntilAcked

\* What the writer has numbered is at the backend or in BoundedOutboundBuffer, whose size
\* stays within its capacity though nothing but the top of the writer's loop looks at it.
THEOREM KeptUntilAckedTheorem == Spec => []KeptUntilAcked
<1>1. IInv => KeptUntilAcked
  BY KeptIsImplied
<1>2. QED
  BY <1>1, Inductive, PTL

\* A finite set of numbers without a gap counts them.
LEMMA Gapless ==
    ASSUME NEW S, IsFiniteSet(S), S \subseteq Nat \ {0}, \A x \in S : 1..x \subseteq S
    PROVE  S = 1..Cardinality(S)
<1> DEFINE m == Cardinality(S)
<1>1. m \in Nat
  BY FS_CardinalityType
<1>2. IsFiniteSet(1..m) /\ Cardinality(1..m) = m
  <2>1. 1 \in Int /\ m \in Int
    BY <1>1
  <2>2. IsFiniteSet(1..m) /\ Cardinality(1..m) = IF 1 > m THEN 0 ELSE m - 1 + 1
    BY <2>1, FS_Interval
  <2>3. QED
    BY <1>1, <2>2
<1>3. ASSUME NEW x \in S PROVE x \in 1..m
  <2>1. x \in Nat \ {0} /\ 1..x \subseteq S
    OBVIOUS
  <2>2. Cardinality(1..x) <= m
    BY <2>1, FS_Subset
  <2>3. Cardinality(1..x) = x
    <3>1. 1 \in Int /\ x \in Int
      BY <2>1
    <3>2. Cardinality(1..x) = IF 1 > x THEN 0 ELSE x - 1 + 1
      BY <3>1, FS_Interval
    <3>3. QED
      BY <2>1, <3>2
  <2>4. QED
    BY <1>1, <2>1, <2>2, <2>3
<1>4. S \subseteq 1..m
  BY <1>3
<1>5. S = 1..m
  BY <1>2, <1>4, FS_Subset
<1>6. QED
  BY <1>5

\* The numbers received of a stream are finitely many.
LEMMA SeqsFinite ==
    ASSUME IInv, NEW k \in Keys
    PROVE  IsFiniteSet(Seqs(k)) /\ Seqs(k) \subseteq Nat \ {0} /\ \A x \in Seqs(k) : 1..x \subseteq Seqs(k)
<1> DEFINE G == {f \in got : f.key = k}
<1>1. IsFiniteSet(got) /\ G \subseteq got
  BY DEF IInv, SeqInv, Room
<1>2. IsFiniteSet(G)
  BY <1>1, FS_Subset
<1>3. Seqs(k) = {e.seq : e \in G}
  BY DEF Seqs
<1> HIDE DEF G
<1>4. IsFiniteSet(Seqs(k))
  <2> DEFINE T == Seqs(k)
             g == [e \in G |-> e.seq]
  <2>1. g \in Surjection(G, T)
    BY <1>3 DEF Surjection
  <2> HIDE DEF T, g
  <2>2. IsFiniteSet(T)
    BY <1>2, <2>1, FS_Surjection
  <2>3. QED
    BY <2>2 DEF T
<1>5. \A x \in Seqs(k) : \E e \in got : e.key = k /\ e.seq = x
  BY SeqsIs
<1>6. \A e \in got : e.seq \in Nat \ {0} /\ \A n \in 1..e.seq : n \in Seqs(e.key)
  BY EnvelopeIs DEF IInv, SeqInv, SentTyped, GotInTurn
<1>7. QED
  BY <1>3, <1>4, <1>5, <1>6

\* Received envelopes are among those there are.
LEMMA StreamIsImplied == ASSUME IInv PROVE StreamIsComplete
<1>1. ASSUME NEW k \in Keys PROVE Seqs(k) = 1..Cardinality(Seqs(k))
  BY SeqsFinite, Gapless
<1>2. got \subseteq All
  BY DEF IInv, SeqInv, SentTyped, All, Out
<1>3. ASSUME NEW e \in got, NEW f \in got, e.key = f.key, e.seq <= f.seq
      PROVE  /\ e.seq = f.seq => e = f
             /\ e.msg.conn = f.msg.conn /\ f.msg.n # Pong => e.msg.n <= f.msg.n
  BY <1>2, <1>3 DEF IInv, OrderInv, OneMeaning, EnvelopesInOrder
<1>4. QED
  BY <1>1, <1>3 DEF StreamIsComplete

\* The backend gets each stream without a gap, a number always stands for the same
\* message, and the messages of a connection are numbered in the order in which the
\* app-server wrote them, whatever is lost, replayed, acknowledged late or re-initialized.
THEOREM StreamIsCompleteTheorem == Spec => []StreamIsComplete
<1>1. IInv => StreamIsComplete
  BY StreamIsImplied
<1>2. QED
  BY <1>1, Inductive, PTL

=============================================================================
