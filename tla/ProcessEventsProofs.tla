------------------------- MODULE ProcessEventsProofs -------------------------
(* Proofs about ProcessEvents for every set of output streams, every amount of   *)
(* output, every limit on what is retained and both kinds of consumer.           *)
EXTENDS ProcessEvents, FiniteSetTheorems, TLAPS

TaskSteps == {"run", "notify", "finish", "close", "notifyClosed", "done"}
ReaderSteps == {"recv", "publish", "remove", "take", "fail", "failed", "end"}
PollSteps == {"read", "call", "sent", "reply", "fail", "failed", "wait", "ended", "never", "dropped"}

ChunkSets == SUBSET Nat
Processes == [nextSeq : Nat \ {0}, output : SUBSET Nat, exited : BOOLEAN,
              openStreams : 0..Cardinality(Streams), closed : BOOLEAN]
Orders == [last : Nat, pending : SUBSET Sequenced]
Readers == [at : ReaderSteps, ready : Seq(Sequenced), closed : BOOLEAN]
Replies == [next : Nat \ {0}, chunks : SUBSET Nat, closed : BOOLEAN]
Polls == [at : PollSteps, after : Nat, got : SUBSET Nat, reply : {None} \union Replies,
          outcome : {"none", "closed", "failed"}]
Followed == Sequenced \union {Failed}

\* The type invariant by parts: the server, the connection, the client and the consumer.
ServerTyped ==
    /\ entry \in BOOLEAN /\ process \in Processes
    /\ log \in Seq(Kinds) /\ Len(log) = process.nextSeq - 1
    /\ pc \in [Tasks -> TaskSteps] /\ held \in [Tasks -> Sequenced \union {None}]
WireTyped == up \in BOOLEAN /\ wire \in Seq(Messages)
ClientTyped ==
    /\ route \in BOOLEAN /\ failure \in BOOLEAN
    /\ ordered \in Orders /\ events \in Seq(Followed) /\ reader \in Readers
PollTyped == poll \in Polls /\ woken \in BOOLEAN

LEMMA TypeIs == TypeOK <=> ServerTyped /\ WireTyped /\ ClientTyped /\ PollTyped
BY DEF TypeOK, ServerTyped, WireTyped, ClientTyped, PollTyped, Processes, Orders, Readers, Replies,
       Polls, Followed, TaskSteps, ReaderSteps, PollSteps

\* The event stands in the log under its number.
Genuine(e) == e.seq \in DOMAIN log /\ e.kind = log[e.seq]

Sending(t) == pc[t] \in {"notify", "notifyClosed"}

\* The streams that may still produce output.
Live == {s \in Streams : pc[s] \in {"run", "notify", "finish"}}

\* What the server counts is where its tasks are: when the process is closed, no task
\* numbers anything any more.
Counted ==
    /\ entry => process.openStreams = Cardinality(Live)
    /\ process.exited => pc[Exit] # "run"
    /\ process.closed => process.exited /\ Live = {}

\* The log has an Exited and a Closed when the process has.
Logged ==
    /\ process.exited <=> \E n \in DOMAIN log : log[n] = "Exited"
    /\ process.closed <=> \E n \in DOMAIN log : log[n] = "Closed"

\* What is on its way is in the log.
InFlight ==
    /\ \A t \in Tasks : Sending(t) => held[t] \in Sequenced /\ Genuine(held[t])
    /\ \A i \in DOMAIN wire : wire[i] # Gone => Genuine(wire[i])
    /\ \A e \in ordered.pending : Genuine(e)
    /\ \A i \in DOMAIN reader.ready : Genuine(reader.ready[i])

\* What is ready continues what is published, and what is pending comes later.
InTurnNext ==
    /\ ordered.last = Published + Len(reader.ready)
    /\ \A i \in DOMAIN reader.ready : reader.ready[i].seq = Published + i
    /\ \A e \in ordered.pending : e.seq > ordered.last
    /\ reader.at = "publish" <=> reader.ready # <<>>

\* Failed is published once, by the one that set the failure.
FailedOnce ==
    /\ HasFailed \/ reader.at = "failed" \/ poll.at = "failed" => failure
    /\ reader.at = "failed" => ~HasFailed /\ poll.at # "failed"
    /\ poll.at = "failed" => ~HasFailed

\* The cursor is at a number that was given out, and a reply holds what was retained
\* when it was made.
Polled ==
    /\ \A n \in process.output : n < process.nextSeq
    /\ poll.after < process.nextSeq
    /\ poll.outcome = "closed" => process.closed
    /\ poll.at = "reply" =>
         /\ poll.reply \in Replies /\ poll.reply.next <= process.nextSeq
         /\ \A n \in process.output :
              poll.after < n /\ n < poll.reply.next => n \in poll.reply.chunks
         /\ poll.reply.closed =>
              /\ process.closed
              /\ \A n \in process.output : poll.after < n => n \in poll.reply.chunks

\* The inductive invariant.
IInv ==
    /\ ServerTyped /\ WireTyped /\ ClientTyped /\ PollTyped
    /\ Counted /\ Logged /\ InFlight /\ InTurnNext /\ FailedOnce /\ Polled
    /\ OneFailed /\ InOrder /\ PollSkipsNothing

-----------------------------------------------------------------------------
(* Sequences, records and sets *)

\* The elements of a sequence.
LEMMA ElementsIn == ASSUME NEW S, NEW s \in Seq(S) PROVE \A i \in DOMAIN s : s[i] \in S
OBVIOUS

\* A sequence with one more element.
LEMMA AppendIs ==
    ASSUME NEW S, NEW s \in Seq(S), NEW e \in S
    PROVE  /\ Append(s, e) \in Seq(S) /\ Len(Append(s, e)) = Len(s) + 1
           /\ DOMAIN Append(s, e) = 1..(Len(s) + 1) /\ DOMAIN s = 1..Len(s) /\ Len(s) \in Nat
           /\ \A i \in DOMAIN s : Append(s, e)[i] = s[i]
           /\ Append(s, e)[Len(s) + 1] = e
OBVIOUS

\* A sequence without its first element.
LEMMA TailIs ==
    ASSUME NEW S, NEW s \in Seq(S), s # <<>>
    PROVE  /\ Tail(s) \in Seq(S) /\ Len(Tail(s)) = Len(s) - 1
           /\ DOMAIN Tail(s) = 1..(Len(s) - 1) /\ DOMAIN s = 1..Len(s) /\ Len(s) \in Nat \ {0}
           /\ \A i \in DOMAIN Tail(s) : Tail(s)[i] = s[i + 1]
           /\ Head(s) \in S /\ Head(s) = s[1]
OBVIOUS

\* What is numbered is neither Failed nor Gone, and one event is not the other.
LEMMA Distinct ==
    /\ \A e \in Sequenced : e # Failed /\ e # Gone /\ e # None /\ e.seq \in Nat \ {0} /\ e.kind \in Kinds
    /\ \A s \in Streams : s # "Exited" /\ s # "Closed" /\ s # Exit
    /\ "Exited" # "Closed" /\ Exit \in Tasks /\ Streams \subseteq Tasks
    /\ "Exited" \in Kinds /\ "Closed" \in Kinds /\ Streams \subseteq Kinds
BY StreamsFinite, KindsDistinct DEF Sequenced, Failed, Gone, None, Event, Tasks, Kinds

\* One task moves.
LEMMA Moves ==
    ASSUME pc \in [Tasks -> TaskSteps], NEW t \in Tasks, NEW x \in TaskSteps,
           pc' = [pc EXCEPT ![t] = x]
    PROVE  /\ pc' \in [Tasks -> TaskSteps] /\ pc'[t] = x
           /\ \A u \in Tasks \ {t} : pc'[u] = pc[u]
OBVIOUS

\* A task that moves leaves the live streams alone or is the one that ends.
LEMMA LiveMoves ==
    ASSUME pc \in [Tasks -> TaskSteps], NEW t \in Tasks, NEW x \in TaskSteps,
           pc' = [pc EXCEPT ![t] = x]
    PROVE  /\ t \notin Streams => Live' = Live
           /\ x \in {"run", "notify", "finish"} /\ pc[t] \in {"run", "notify", "finish"} => Live' = Live
           /\ x \notin {"run", "notify", "finish"} => Live' = Live \ {t}
<1>1. Streams \subseteq Tasks
  BY Distinct
<1>2. QED
  BY <1>1, Moves DEF Live

\* The live streams can be counted.
LEMMA LiveFinite ==
    /\ IsFiniteSet(Live) /\ Cardinality(Live) \in Nat /\ Cardinality(Streams) \in Nat
    /\ Cardinality(Live) = 0 <=> Live = {}
    /\ Cardinality(Live) <= Cardinality(Streams)
<1>1. Live \subseteq Streams /\ IsFiniteSet(Streams)
  BY StreamsFinite DEF Live
<1>2. IsFiniteSet(Live) /\ Cardinality(Live) <= Cardinality(Streams)
  BY <1>1, FS_Subset
<1>3. QED
  BY <1>1, <1>2, FS_CardinalityType, FS_EmptySet

\* The exit is numbered.
LEMMA ExitedProcess ==
    ASSUME NEW r \in Processes, NEW n \in Nat \ {0}
    PROVE  LET q == [r EXCEPT !.nextSeq = n, !.exited = TRUE]
           IN  /\ q \in Processes
               /\ q.nextSeq = n /\ q.output = r.output /\ q.exited = TRUE
               /\ q.openStreams = r.openStreams /\ q.closed = r.closed
<1> DEFINE a == [r EXCEPT !.nextSeq = n]
<1>1. /\ a \in Processes
      /\ a.nextSeq = n /\ a.output = r.output /\ a.exited = r.exited
      /\ a.openStreams = r.openStreams /\ a.closed = r.closed
  BY DEF Processes
<1> HIDE DEF a
<1> DEFINE b == [a EXCEPT !.exited = TRUE]
<1>2. /\ b \in Processes
      /\ b.nextSeq = n /\ b.output = r.output /\ b.exited = TRUE
      /\ b.openStreams = r.openStreams /\ b.closed = r.closed
  BY <1>1 DEF Processes
<1> HIDE DEF b
<1>3. [r EXCEPT !.nextSeq = n, !.exited = TRUE] = b
  BY DEF a, b
<1>4. QED
  BY <1>2, <1>3

\* The closing is numbered.
LEMMA ClosedProcess ==
    ASSUME NEW r \in Processes, NEW n \in Nat \ {0}
    PROVE  LET q == [r EXCEPT !.nextSeq = n, !.closed = TRUE]
           IN  /\ q \in Processes
               /\ q.nextSeq = n /\ q.output = r.output /\ q.exited = r.exited
               /\ q.openStreams = r.openStreams /\ q.closed = TRUE
<1> DEFINE a == [r EXCEPT !.nextSeq = n]
<1>1. /\ a \in Processes
      /\ a.nextSeq = n /\ a.output = r.output /\ a.exited = r.exited
      /\ a.openStreams = r.openStreams /\ a.closed = r.closed
  BY DEF Processes
<1> HIDE DEF a
<1> DEFINE b == [a EXCEPT !.closed = TRUE]
<1>2. /\ b \in Processes
      /\ b.nextSeq = n /\ b.output = r.output /\ b.exited = r.exited
      /\ b.openStreams = r.openStreams /\ b.closed = TRUE
  BY <1>1 DEF Processes
<1> HIDE DEF b
<1>3. [r EXCEPT !.nextSeq = n, !.closed = TRUE] = b
  BY DEF a, b
<1>4. QED
  BY <1>2, <1>3

\* The polling loop moves on.
LEMMA PollAt ==
    ASSUME NEW r \in Polls, NEW x \in PollSteps
    PROVE  LET q == [r EXCEPT !.at = x]
           IN  /\ q \in Polls
               /\ q.at = x /\ q.after = r.after /\ q.got = r.got
               /\ q.reply = r.reply /\ q.outcome = r.outcome
<1> DEFINE a == [r EXCEPT !.at = x]
<1>1. /\ a \in Polls
      /\ a.at = x /\ a.after = r.after /\ a.got = r.got
      /\ a.reply = r.reply /\ a.outcome = r.outcome
  BY DEF Polls
<1> HIDE DEF a
<1>2. [r EXCEPT !.at = x] = a
  BY DEF a
<1>3. QED
  BY <1>1, <1>2

\* The polling loop ends.
LEMMA PollEndsAt ==
    ASSUME NEW r \in Polls, NEW o \in {"closed", "failed"}
    PROVE  LET q == [r EXCEPT !.at = "ended", !.outcome = o]
           IN  /\ q \in Polls
               /\ q.at = "ended" /\ q.after = r.after /\ q.got = r.got
               /\ q.reply = r.reply /\ q.outcome = o
<1> DEFINE a == [r EXCEPT !.at = "ended"]
<1>1. /\ a \in Polls
      /\ a.at = "ended" /\ a.after = r.after /\ a.got = r.got
      /\ a.reply = r.reply /\ a.outcome = r.outcome
  BY DEF Polls, PollSteps
<1> HIDE DEF a
<1> DEFINE b == [a EXCEPT !.outcome = o]
<1>2. /\ b \in Polls
      /\ b.at = "ended" /\ b.after = r.after /\ b.got = r.got
      /\ b.reply = r.reply /\ b.outcome = o
  BY <1>1 DEF Polls, PollSteps
<1> HIDE DEF b
<1>3. [r EXCEPT !.at = "ended", !.outcome = o] = b
  BY DEF a, b
<1>4. QED
  BY <1>2, <1>3

\* A read is answered.
LEMMA PollReply ==
    ASSUME NEW r \in Polls, NEW p \in Replies
    PROVE  LET q == [r EXCEPT !.at = "reply", !.reply = p]
           IN  /\ q \in Polls
               /\ q.at = "reply" /\ q.after = r.after /\ q.got = r.got
               /\ q.reply = p /\ q.outcome = r.outcome
<1> DEFINE a == [r EXCEPT !.at = "reply"]
<1>1. /\ a \in Polls
      /\ a.at = "reply" /\ a.after = r.after /\ a.got = r.got
      /\ a.reply = r.reply /\ a.outcome = r.outcome
  BY DEF Polls, PollSteps
<1> HIDE DEF a
<1> DEFINE b == [a EXCEPT !.reply = p]
<1>2. /\ b \in Polls
      /\ b.at = "reply" /\ b.after = r.after /\ b.got = r.got
      /\ b.reply = p /\ b.outcome = r.outcome
  BY <1>1 DEF Polls, PollSteps
<1> HIDE DEF b
<1>3. [r EXCEPT !.at = "reply", !.reply = p] = b
  BY DEF a, b
<1>4. QED
  BY <1>2, <1>3

\* A read is lost.
LEMMA PollLost ==
    ASSUME NEW r \in Polls
    PROVE  LET q == [r EXCEPT !.at = "fail", !.reply = None]
           IN  /\ q \in Polls
               /\ q.at = "fail" /\ q.after = r.after /\ q.got = r.got
               /\ q.reply = None /\ q.outcome = r.outcome
<1> DEFINE a == [r EXCEPT !.at = "fail"]
<1>1. /\ a \in Polls
      /\ a.at = "fail" /\ a.after = r.after /\ a.got = r.got
      /\ a.reply = r.reply /\ a.outcome = r.outcome
  BY DEF Polls, PollSteps
<1> HIDE DEF a
<1> DEFINE b == [a EXCEPT !.reply = None]
<1>2. /\ b \in Polls
      /\ b.at = "fail" /\ b.after = r.after /\ b.got = r.got
      /\ b.reply = None /\ b.outcome = r.outcome
  BY <1>1 DEF Polls, PollSteps
<1> HIDE DEF b
<1>3. [r EXCEPT !.at = "fail", !.reply = None] = b
  BY DEF a, b
<1>4. QED
  BY <1>2, <1>3

\* The reader moves on.
LEMMA ReaderAt ==
    ASSUME NEW r \in Readers, NEW x \in ReaderSteps
    PROVE  LET q == [r EXCEPT !.at = x]
           IN  /\ q \in Readers
               /\ q.at = x /\ q.ready = r.ready /\ q.closed = r.closed
<1> DEFINE a == [r EXCEPT !.at = x]
<1>1. /\ a \in Readers
      /\ a.at = x /\ a.ready = r.ready /\ a.closed = r.closed
  BY DEF Readers
<1> HIDE DEF a
<1>2. [r EXCEPT !.at = x] = a
  BY DEF a
<1>3. QED
  BY <1>1, <1>2

-----------------------------------------------------------------------------
(* What is published *)

\* The number of published events, by whether Failed is among them.
LEMMA PublishedIs ==
    ASSUME events \in Seq(Followed)
    PROVE  /\ Len(events) \in Nat /\ DOMAIN events = 1..Len(events)
           /\ Published \in Nat
           /\ HasFailed => Published = Len(events) - 1
           /\ ~HasFailed => Published = Len(events)
<1>1. Len(events) \in Nat /\ DOMAIN events = 1..Len(events)
  OBVIOUS
<1>2. HasFailed => Len(events) >= 1
  BY <1>1 DEF HasFailed
<1>3. CASE HasFailed
  <2>1. Published = Len(events) - 1
    BY <1>3, ZenonT(60) DEF Published
  <2>2. QED
    BY <1>1, <1>2, <1>3, <2>1
<1>4. CASE ~HasFailed
  <2>1. Published = Len(events)
    BY <1>4 DEF Published
  <2>2. QED
    BY <1>1, <1>4, <2>1
<1>5. QED
  BY <1>3, <1>4

\* The next event of the process is published.
LEMMA PublishesNext ==
    ASSUME events \in Seq(Followed), OneFailed, InOrder, NEW e \in Sequenced,
           events' = Append(events, e), e.seq = Published + 1, Genuine(e), UNCHANGED log
    PROVE  /\ events' \in Seq(Followed) /\ OneFailed' /\ InOrder'
           /\ HasFailed' = HasFailed /\ Published' = Published + 1
<1> DEFINE L == Len(events)
<1>1. /\ L \in Nat /\ DOMAIN events = 1..L /\ Published \in Nat
      /\ HasFailed => Published = L - 1
      /\ ~HasFailed => Published = L
  BY PublishedIs
<1>2. e # Failed /\ e \in Followed
  BY Distinct DEF Followed
<1>3. /\ events' \in Seq(Followed) /\ Len(events') = L + 1 /\ DOMAIN events' = 1..(L + 1)
      /\ \A i \in 1..L : events'[i] = events[i]
      /\ events'[L + 1] = e
  BY <1>2, AppendIs
<1> HIDE DEF L
<1>4. \A i \in DOMAIN events' : events'[i] = Failed => i \in 1..L /\ events[i] = Failed
  BY <1>1, <1>2, <1>3
<1>5. HasFailed' = HasFailed
  <2>1. HasFailed => HasFailed'
    BY <1>1, <1>3 DEF HasFailed
  <2>2. HasFailed' => HasFailed
    BY <1>1, <1>4 DEF HasFailed
  <2>3. HasFailed \in BOOLEAN /\ HasFailed' \in BOOLEAN
    BY DEF HasFailed
  <2>4. QED
    BY <2>1, <2>2, <2>3
<1>6. Published' = Published + 1
  <2>1. /\ HasFailed' => Published' = Len(events') - 1
        /\ ~HasFailed' => Published' = Len(events')
    BY <1>3, ZenonT(60) DEF Published
  <2>2. QED
    BY <1>1, <1>3, <1>5, <2>1
<1>7. OneFailed'
  BY <1>1, <1>4 DEF OneFailed
<1>8. InOrder'
  <2> SUFFICES ASSUME NEW i \in DOMAIN events', events'[i] # Failed
               PROVE  /\ events'[i].seq = IF \E j \in 1..i : events'[j] = Failed THEN i - 1 ELSE i
                      /\ events'[i].seq \in DOMAIN log
                      /\ events'[i].kind = log[events'[i].seq]
    BY DEF InOrder
  <2>1. CASE i \in 1..L
    <3>1. events'[i] = events[i] /\ \A j \in 1..i : events'[j] = events[j]
      BY <1>1, <1>3, <2>1
    <3>2. QED
      BY <1>1, <2>1, <3>1 DEF InOrder
  <2>2. CASE i = L + 1
    <3>1. (\E j \in 1..i : events'[j] = Failed) <=> HasFailed
      <4>1. 1..i = DOMAIN events'
        BY <1>3, <2>2
      <4>2. QED
        BY <1>5, <4>1 DEF HasFailed
    <3>2. e.seq = IF HasFailed THEN L ELSE L + 1
      BY <1>1
    <3>3. QED
      BY <1>1, <1>3, <2>2, <3>1, <3>2 DEF Genuine
  <2>3. QED
    BY <1>1, <1>3, <2>1, <2>2
<1>9. QED
  BY <1>3, <1>5, <1>6, <1>7, <1>8

\* Failed is published and leaves the events of the process where they are.
LEMMA PublishesFailed ==
    ASSUME events \in Seq(Followed), ~HasFailed, InOrder, PublishFailed, UNCHANGED log
    PROVE  /\ events' \in Seq(Followed) /\ OneFailed' /\ InOrder'
           /\ HasFailed' /\ Published' = Published
<1> DEFINE L == Len(events)
<1>1. L \in Nat /\ DOMAIN events = 1..L /\ Published = L
  BY PublishedIs
<1>2. Failed \in Followed /\ events' = Append(events, Failed)
  BY DEF Followed, PublishFailed
<1>3. /\ events' \in Seq(Followed) /\ Len(events') = L + 1 /\ DOMAIN events' = 1..(L + 1)
      /\ \A i \in 1..L : events'[i] = events[i]
      /\ events'[L + 1] = Failed
  BY <1>1, <1>2, AppendIs
<1> HIDE DEF L
<1>4. \A i \in 1..L : events[i] # Failed
  BY <1>1 DEF HasFailed
<1>5. HasFailed'
  <2>1. L + 1 \in DOMAIN events'
    BY <1>1, <1>3
  <2>2. QED
    BY <1>3, <2>1 DEF HasFailed
<1>6. Published' = Published
  BY <1>1, <1>3, <1>5 DEF Published
<1>7. OneFailed'
  <2>1. \A i \in DOMAIN events' : events'[i] = Failed => i = L + 1
    BY <1>1, <1>3, <1>4
  <2>2. QED
    BY <2>1 DEF OneFailed
<1>8. InOrder'
  <2> SUFFICES ASSUME NEW i \in DOMAIN events', events'[i] # Failed
               PROVE  /\ events'[i].seq = IF \E j \in 1..i : events'[j] = Failed THEN i - 1 ELSE i
                      /\ events'[i].seq \in DOMAIN log
                      /\ events'[i].kind = log[events'[i].seq]
    BY DEF InOrder
  <2>1. i \in 1..L
    BY <1>1, <1>3
  <2>2. events'[i] = events[i] /\ \A j \in 1..i : events'[j] = events[j]
    BY <1>1, <1>3, <2>1
  <2>3. QED
    BY <1>1, <2>1, <2>2 DEF InOrder
<1>9. QED
  BY <1>3, <1>5, <1>6, <1>7, <1>8

-----------------------------------------------------------------------------
(* The server *)

\* What has been numbered keeps its place when the log grows.
LEMMA LogGrows ==
    ASSUME log \in Seq(Kinds), NEW k \in Kinds, log' = Append(log, k)
    PROVE  /\ log' \in Seq(Kinds) /\ Len(log') = Len(log) + 1 /\ Len(log) \in Nat
           /\ DOMAIN log = 1..Len(log) /\ DOMAIN log' = 1..(Len(log) + 1)
           /\ \A n \in DOMAIN log : n \in DOMAIN log' /\ log'[n] = log[n]
           /\ \A n \in DOMAIN log' : n \in DOMAIN log \/ log'[n] = k
           /\ log'[Len(log) + 1] = k /\ Len(log) + 1 \in DOMAIN log'
           /\ \A e : Genuine(e) => Genuine(e)'
<1>1. /\ log' \in Seq(Kinds) /\ Len(log') = Len(log) + 1 /\ Len(log) \in Nat
      /\ DOMAIN log = 1..Len(log) /\ DOMAIN log' = 1..(Len(log) + 1)
      /\ \A n \in DOMAIN log : log'[n] = log[n]
      /\ log'[Len(log) + 1] = k
  BY AppendIs
<1>2. /\ \A n \in DOMAIN log : n \in DOMAIN log'
      /\ \A n \in DOMAIN log' : n \in DOMAIN log \/ log'[n] = k
      /\ Len(log) + 1 \in DOMAIN log'
  BY <1>1
<1>3. \A e : Genuine(e) => Genuine(e)'
  BY <1>1, <1>2 DEF Genuine
<1>4. QED
  BY <1>1, <1>2, <1>3

\* A step of the server or the connection that numbers nothing.
LEMMA NotNumbering ==
    ASSUME IInv, UNCHANGED <<log, client, poll, woken>>, ServerTyped', WireTyped', Counted',
           process'.nextSeq = process.nextSeq, process'.output = process.output,
           process'.exited = process.exited, process'.closed = process.closed,
           \A t \in Tasks : Sending(t)' => Sending(t) /\ held'[t] = held[t],
           \A i \in DOMAIN wire' : wire'[i] # Gone => Genuine(wire'[i])
    PROVE  IInv'
<1>1. UNCHANGED <<route, ordered, events, failure, reader>>
  BY DEF client
<1>2. ClientTyped' /\ PollTyped'
  BY <1>1 DEF IInv, ClientTyped, PollTyped
<1>3. Logged'
  BY DEF IInv, Logged
<1>4. InFlight'
  <2>1. \A e : Genuine(e)' = Genuine(e)
    BY DEF Genuine
  <2>2. QED
    BY <1>1, <2>1 DEF IInv, InFlight, Genuine
<1>5. InTurnNext' /\ FailedOnce' /\ OneFailed' /\ InOrder'
  BY <1>1 DEF IInv, InTurnNext, FailedOnce, OneFailed, InOrder, Published, HasFailed
<1>6. Polled' /\ PollSkipsNothing'
  BY DEF IInv, Polled, PollSkipsNothing
<1>7. QED
  BY <1>2, <1>3, <1>4, <1>5, <1>6 DEF IInv

\* The next event gets its number.
LEMMA NumberI ==
    ASSUME IInv, NEW t \in Tasks, NEW k \in Kinds, NEW next \in {"notify", "notifyClosed"},
           Number(t, k, next), ~process.closed,
           process' \in Processes, process'.nextSeq = process.nextSeq + 1,
           \A n \in process'.output : n \in process.output \/ n = process.nextSeq,
           process'.exited <=> process.exited \/ k = "Exited",
           process'.closed <=> process.closed \/ k = "Closed",
           Counted', UNCHANGED <<entry, up, wire, client, poll, woken>>
    PROVE  IInv'
<1>1. UNCHANGED <<route, ordered, events, failure, reader>>
  BY DEF client
<1>2. WireTyped' /\ ClientTyped' /\ PollTyped'
  BY <1>1 DEF IInv, WireTyped, ClientTyped, PollTyped
<1>3. /\ log' \in Seq(Kinds) /\ Len(log') = Len(log) + 1 /\ Len(log) \in Nat
      /\ DOMAIN log = 1..Len(log) /\ DOMAIN log' = 1..(Len(log) + 1)
      /\ \A n \in DOMAIN log : n \in DOMAIN log' /\ log'[n] = log[n]
      /\ \A n \in DOMAIN log' : n \in DOMAIN log \/ log'[n] = k
      /\ log'[Len(log) + 1] = k /\ Len(log) + 1 \in DOMAIN log'
      /\ \A e : Genuine(e) => Genuine(e)'
  BY LogGrows DEF IInv, ServerTyped, Number
<1> DEFINE new == Event(process.nextSeq, k)
<1>4. /\ process.nextSeq \in Nat \ {0} /\ Len(log) = process.nextSeq - 1
      /\ process \in Processes /\ pc \in [Tasks -> TaskSteps]
      /\ held \in [Tasks -> Sequenced \union {None}]
  BY DEF IInv, ServerTyped, Processes
<1>5. new \in Sequenced /\ new.seq = process.nextSeq /\ new.kind = k
  BY <1>4 DEF Sequenced, Event
<1>6. held' = [held EXCEPT ![t] = new] /\ pc' = [pc EXCEPT ![t] = next]
  BY DEF Number
<1> HIDE DEF new
<1>7. /\ held' \in [Tasks -> Sequenced \union {None}] /\ held'[t] = new
      /\ \A u \in Tasks \ {t} : held'[u] = held[u]
  BY <1>4, <1>5, <1>6
<1>8. /\ pc' \in [Tasks -> TaskSteps] /\ pc'[t] = next
      /\ \A u \in Tasks \ {t} : pc'[u] = pc[u]
  BY <1>4, <1>6 DEF TaskSteps
<1>9. process.nextSeq = Len(log) + 1
  BY <1>3, <1>4
<1>10. ServerTyped'
  <2>1. Len(log') = process'.nextSeq - 1
    BY <1>3, <1>4
  <2>2. QED
    BY <1>3, <1>7, <1>8, <2>1 DEF IInv, ServerTyped
<1>11. Logged'
  <2>1. ASSUME NEW x PROVE (\E n \in DOMAIN log' : log'[n] = x)
                           <=> (\E n \in DOMAIN log : log[n] = x) \/ k = x
    BY <1>3
  <2>2. (\E n \in DOMAIN log' : log'[n] = "Exited") <=> (\E n \in DOMAIN log : log[n] = "Exited") \/ k = "Exited"
    BY <2>1
  <2>3. (\E n \in DOMAIN log' : log'[n] = "Closed") <=> (\E n \in DOMAIN log : log[n] = "Closed") \/ k = "Closed"
    BY <2>1
  <2>4. QED
    BY <2>2, <2>3 DEF IInv, Logged
<1>12. ASSUME NEW e, e = new PROVE Genuine(e)'
  BY <1>3, <1>5, <1>9, <1>12 DEF Genuine
<1>13. InFlight'
  <2>1. ASSUME NEW u \in Tasks, Sending(u)' PROVE held'[u] \in Sequenced /\ Genuine(held[u])'
    <3>1. CASE u = t
      BY <1>5, <1>7, <1>12, <3>1 DEF Genuine
    <3>2. CASE u # t
      <4>1. Sending(u) /\ held'[u] = held[u]
        BY <1>7, <1>8, <2>1, <3>2 DEF Sending
      <4>2. held[u] \in Sequenced /\ Genuine(held[u])
        BY <4>1 DEF IInv, InFlight
      <4>3. QED
        BY <1>3, <4>1, <4>2 DEF Genuine
    <3>3. QED
      BY <3>1, <3>2
  <2>2. /\ \A i \in DOMAIN wire : wire[i] # Gone => Genuine(wire[i])'
        /\ \A e \in ordered.pending : Genuine(e)'
        /\ \A i \in DOMAIN reader.ready : Genuine(reader.ready[i])'
    BY <1>1, <1>3 DEF IInv, InFlight, Genuine
  <2>3. QED
    BY <1>1, <2>1, <2>2 DEF InFlight
<1>14. InTurnNext' /\ FailedOnce' /\ OneFailed'
  BY <1>1 DEF IInv, InTurnNext, FailedOnce, OneFailed, Published, HasFailed
<1>15. InOrder'
  BY <1>1, <1>3 DEF IInv, InOrder
<1>16. Polled'
  <2>1. /\ \A n \in process.output : n \in Nat /\ n < process.nextSeq
        /\ poll.after < process.nextSeq /\ poll.after \in Nat
        /\ poll.outcome # "closed"
    BY <1>4 DEF IInv, Polled, PollTyped, Polls, Processes
  <2>2. \A n \in process'.output : n < process'.nextSeq
    BY <1>4, <2>1
  <2>3. poll.after < process'.nextSeq
    BY <1>4, <2>1
  <2>4. ASSUME poll.at = "reply"
        PROVE  /\ poll.reply \in Replies /\ poll.reply.next <= process'.nextSeq
               /\ \A n \in process'.output :
                    poll.after < n /\ n < poll.reply.next => n \in poll.reply.chunks
               /\ ~poll.reply.closed
    <3>1. /\ poll.reply \in Replies /\ poll.reply.next <= process.nextSeq
          /\ \A n \in process.output :
               poll.after < n /\ n < poll.reply.next => n \in poll.reply.chunks
          /\ ~poll.reply.closed
      BY <2>4 DEF IInv, Polled
    <3>2. poll.reply.next \in Nat
      BY <3>1 DEF Replies
    <3>3. poll.reply.next <= process'.nextSeq
      BY <1>4, <3>1, <3>2
    <3>4. \A n \in process'.output :
            poll.after < n /\ n < poll.reply.next => n \in poll.reply.chunks
      BY <1>4, <3>1, <3>2
    <3>5. QED
      BY <3>1, <3>3, <3>4
  <2>5. QED
    BY <2>1, <2>2, <2>3, <2>4 DEF Polled
<1>17. PollSkipsNothing'
  <2>1. poll.after < process.nextSeq /\ poll.after \in Nat /\ poll.outcome # "closed"
    BY DEF IInv, Polled, PollTyped, Polls
  <2>2. \A n \in process'.output : n <= poll.after => n \in process.output
    BY <1>4, <2>1
  <2>3. QED
    BY <2>1, <2>2 DEF IInv, PollSkipsNothing
<1>18. QED
  BY <1>2, <1>10, <1>11, <1>13, <1>14, <1>15, <1>16, <1>17 DEF IInv

\* A task that leaves its loop without numbering anything.
LEMMA LeaveI ==
    ASSUME IInv, NEW t \in Tasks, NEW next \in {"finish", "close", "done"}, Leave(t, next),
           \/ t \notin Streams
           \/ next = "finish" /\ pc[t] = "run"
           \/ pc[t] = "close" /\ next = "done"
           \/ ~entry /\ next = "done",
           ~Sending(t), UNCHANGED <<entry, up, wire, client, poll, woken>>
    PROVE  IInv'
<1>1. /\ pc' = [pc EXCEPT ![t] = next] /\ UNCHANGED <<process, log, held>>
      /\ pc \in [Tasks -> TaskSteps] /\ next \in TaskSteps
  BY DEF Leave, IInv, ServerTyped, TaskSteps
<1>2. /\ pc' \in [Tasks -> TaskSteps] /\ pc'[t] = next
      /\ \A u \in Tasks \ {t} : pc'[u] = pc[u]
  BY <1>1, Moves
<1>3. /\ t \notin Streams => Live' = Live
      /\ next = "finish" /\ pc[t] = "run" => Live' = Live
      /\ next # "finish" => Live' = Live \ {t}
  BY <1>1, LiveMoves
<1>4. pc[t] = "close" => t \notin Live
  BY DEF Live
<1>5. (entry => Live' = Live) /\ Live' \subseteq Live
  <2>1. Live' = Live \/ Live' = Live \ {t}
    BY <1>3
  <2>2. pc[t] = "close" /\ next = "done" => Live' = Live
    BY <1>3, <1>4
  <2>3. QED
    BY <1>3, <2>1, <2>2
<1>6. Counted'
  <2>1. entry' => process'.openStreams = Cardinality(Live')
    BY <1>1, <1>5 DEF IInv, Counted
  <2>2. process'.exited => pc'[Exit] # "run"
    <3>1. pc'[Exit] = next \/ pc'[Exit] = pc[Exit]
      BY <1>2, Distinct
    <3>2. QED
      BY <1>1, <3>1 DEF IInv, Counted
  <2>3. process'.closed => process'.exited /\ Live' = {}
    BY <1>1, <1>5 DEF IInv, Counted
  <2>4. QED
    BY <2>1, <2>2, <2>3 DEF Counted
<1>7. ServerTyped' /\ WireTyped'
  BY <1>1, <1>2 DEF IInv, ServerTyped, WireTyped
<1>8. \A u \in Tasks : Sending(u)' => Sending(u) /\ held'[u] = held[u]
  BY <1>1, <1>2 DEF Sending
<1>9. \A i \in DOMAIN wire' : wire'[i] # Gone => Genuine(wire'[i])
  BY DEF IInv, InFlight
<1>10. QED
  BY <1>1, <1>6, <1>7, <1>8, <1>9, NotNumbering

\* The facts about the process that numbering starts from.
LEMMA ProcessIs ==
    ASSUME IInv
    PROVE  /\ process \in Processes /\ process.nextSeq \in Nat \ {0}
           /\ process.nextSeq + 1 \in Nat \ {0} /\ process.output \in SUBSET Nat
           /\ pc \in [Tasks -> TaskSteps]
BY DEF IInv, ServerTyped, Processes

\* stream_output, a chunk.
LEMMA StreamOutputI == ASSUME IInv, NEW s \in Streams, StreamOutput(s) PROVE IInv'
<1>1. /\ pc[s] = "run" /\ s \in Tasks /\ s \in Kinds /\ s # Exit /\ s # "Exited" /\ s # "Closed"
      /\ UNCHANGED <<entry, up, wire, client, poll, woken>>
  BY Distinct DEF StreamOutput
<1>2. CASE ~entry
  <2>1. Leave(s, "finish") /\ ~Sending(s)
    BY <1>1, <1>2 DEF StreamOutput, Sending
  <2>2. QED
    BY <1>1, <1>2, <2>1, LeaveI
<1>3. CASE entry
  <2> DEFINE o == Newest(process.output \union {process.nextSeq})
  <2>1. /\ process \in Processes /\ process.nextSeq \in Nat \ {0}
        /\ process.nextSeq + 1 \in Nat \ {0} /\ process.output \in SUBSET Nat
        /\ pc \in [Tasks -> TaskSteps]
    BY ProcessIs
  <2>2. o \subseteq process.output \union {process.nextSeq} /\ o \in SUBSET Nat
    BY <2>1 DEF Newest
  <2>3. /\ process' = [process EXCEPT !.nextSeq = process.nextSeq + 1, !.output = o]
        /\ Number(s, s, "notify")
    BY <1>3 DEF StreamOutput
  <2> DEFINE m == process.nextSeq + 1
  <2> HIDE DEF o
  <2>4. /\ process' \in Processes /\ process'.nextSeq = process.nextSeq + 1 /\ process'.output = o
        /\ process'.exited = process.exited /\ process'.openStreams = process.openStreams
        /\ process'.closed = process.closed
    <3>1. /\ m \in Nat \ {0} /\ process' = [process EXCEPT !.nextSeq = m, !.output = o]
          /\ o \in ChunkSets /\ process \in Processes
      BY <2>1, <2>2, <2>3 DEF ChunkSets
    <3> HIDE DEF m
    <3>2. /\ process' \in Processes /\ process'.nextSeq = m /\ process'.output = o
          /\ process'.exited = process.exited /\ process'.openStreams = process.openStreams
          /\ process'.closed = process.closed
      <4> DEFINE a == [process EXCEPT !.nextSeq = m]
      <4>1. /\ a \in Processes /\ a.nextSeq = m /\ a.output = process.output
            /\ a.exited = process.exited /\ a.openStreams = process.openStreams
            /\ a.closed = process.closed
        BY <3>1 DEF Processes
      <4>2. process' = [a EXCEPT !.output = o]
        BY <3>1
      <4> HIDE DEF a
      <4>3. QED
        BY <3>1, <4>1, <4>2 DEF Processes, ChunkSets
    <3>3. QED
      BY <3>2 DEF m
  <2>5. pc' = [pc EXCEPT ![s] = "notify"] /\ "notify" \in TaskSteps
    BY <2>3 DEF Number, TaskSteps
  <2>6. Live' = Live
    BY <1>1, <2>1, <2>5, LiveMoves
  <2>7. pc'[Exit] = pc[Exit]
    BY <1>1, <2>1, <2>5, Distinct
  <2>8. s \in Live
    BY <1>1 DEF Live
  <2>9. ~process.closed
    BY <2>8 DEF IInv, Counted
  <2>10. Counted'
    BY <1>1, <2>4, <2>6, <2>7 DEF IInv, Counted
  <2>11. \A n \in process'.output : n \in process.output \/ n = process.nextSeq
    BY <2>2, <2>4
  <2>12. QED
    BY <1>1, <2>3, <2>4, <2>9, <2>10, <2>11, NumberI
<1>4. QED
  BY <1>2, <1>3

\* stream_output, the end of the stream.
LEMMA StreamEndsI == ASSUME IInv, NEW s \in Streams, StreamEnds(s) PROVE IInv'
<1>1. /\ pc[s] = "run" /\ s \in Tasks /\ Leave(s, "finish") /\ ~Sending(s)
      /\ UNCHANGED <<entry, up, wire, client, poll, woken>>
  BY Distinct DEF StreamEnds, Sending
<1>2. QED
  BY <1>1, LeaveI

\* watch_exit.
LEMMA WatchExitI == ASSUME IInv, WatchExit PROVE IInv'
<1>1. /\ pc[Exit] = "run" /\ Exit \in Tasks /\ Exit \notin Streams /\ "Exited" \in Kinds
      /\ UNCHANGED <<entry, up, wire, client, poll, woken>>
  BY Distinct, StreamsFinite DEF WatchExit
<1>2. CASE ~entry
  <2>1. Leave(Exit, "close") /\ ~Sending(Exit)
    BY <1>1, <1>2 DEF WatchExit, Sending
  <2>2. QED
    BY <1>1, <1>2, <2>1, LeaveI
<1>3. CASE entry
  <2>1. /\ process \in Processes /\ process.nextSeq \in Nat \ {0}
        /\ process.nextSeq + 1 \in Nat \ {0} /\ process.output \in SUBSET Nat
        /\ pc \in [Tasks -> TaskSteps]
    BY ProcessIs
  <2>2. /\ process' = [process EXCEPT !.nextSeq = process.nextSeq + 1, !.exited = TRUE]
        /\ Number(Exit, "Exited", "notify")
    BY <1>3 DEF WatchExit
  <2>3. /\ process' \in Processes /\ process'.nextSeq = process.nextSeq + 1
        /\ process'.output = process.output /\ process'.exited = TRUE
        /\ process'.openStreams = process.openStreams /\ process'.closed = process.closed
    BY <2>1, <2>2, ExitedProcess
  <2>4. pc' = [pc EXCEPT ![Exit] = "notify"] /\ "notify" \in TaskSteps
    BY <2>2 DEF Number, TaskSteps
  <2>5. Live' = Live /\ pc'[Exit] # "run"
    <3>1. Live' = Live
      BY <1>1, <2>1, <2>4, LiveMoves
    <3>2. pc'[Exit] = "notify"
      BY <1>1, <2>1, <2>4, Moves
    <3>3. QED
      BY <3>1, <3>2
  <2>6. ~process.closed
    BY <1>1 DEF IInv, Counted
  <2>7. Counted'
    BY <1>1, <2>3, <2>5 DEF IInv, Counted
  <2>8. \A n \in process'.output : n \in process.output \/ n = process.nextSeq
    BY <2>3
  <2>9. QED
    BY <1>1, <2>2, <2>3, <2>6, <2>7, <2>8, NumberI
<1>4. QED
  BY <1>2, <1>3

\* maybe_emit_closed.
LEMMA MaybeEmitClosedI == ASSUME IInv, NEW t \in Tasks, MaybeEmitClosed(t) PROVE IInv'
<1>1. pc[t] = "close" /\ "Closed" \in Kinds /\ UNCHANGED <<entry, up, wire, client, poll, woken>>
  BY Distinct DEF MaybeEmitClosed
<1>2. CASE Leave(t, "done")
  <2>1. ~Sending(t)
    BY <1>1 DEF Sending
  <2>2. QED
    BY <1>1, <1>2, <2>1, LeaveI
<1>3. CASE /\ entry /\ ~process.closed /\ process.openStreams = 0 /\ process.exited
           /\ Number(t, "Closed", "notifyClosed")
           /\ process' = [process EXCEPT !.nextSeq = process.nextSeq + 1, !.closed = TRUE]
  <2>1. /\ process \in Processes /\ process.nextSeq \in Nat \ {0}
        /\ process.nextSeq + 1 \in Nat \ {0} /\ process.output \in SUBSET Nat
        /\ pc \in [Tasks -> TaskSteps]
    BY ProcessIs
  <2>2. /\ process' \in Processes /\ process'.nextSeq = process.nextSeq + 1
        /\ process'.output = process.output /\ process'.exited = process.exited
        /\ process'.openStreams = process.openStreams /\ process'.closed = TRUE
    BY <1>3, <2>1, ClosedProcess, ZenonT(60)
  <2>3. pc' = [pc EXCEPT ![t] = "notifyClosed"] /\ "notifyClosed" \in TaskSteps
    BY <1>3 DEF Number, TaskSteps
  <2>4. Live = {}
    BY <1>3, LiveFinite DEF IInv, Counted
  <2>5. Live' = {}
    <3>1. Live' = Live \ {t}
      BY <2>1, <2>3, LiveMoves
    <3>2. QED
      BY <2>4, <3>1
  <2>6. pc'[Exit] # "run"
    <3>1. pc[Exit] # "run"
      BY <1>3 DEF IInv, Counted
    <3>2. pc'[Exit] = "notifyClosed" \/ pc'[Exit] = pc[Exit]
      BY <2>1, <2>3, Distinct
    <3>3. QED
      BY <3>1, <3>2
  <2>7. Counted'
    <3>1. Cardinality(Live') = 0
      BY <2>5, FS_EmptySet
    <3>2. QED
      BY <1>3, <2>2, <2>5, <2>6, <3>1 DEF Counted
  <2>8. \A n \in process'.output : n \in process.output \/ n = process.nextSeq
    BY <2>2
  <2>9. process'.exited <=> process.exited \/ "Closed" = "Exited"
    BY <2>2
  <2>10. QED
    BY <1>1, <1>3, <2>2, <2>7, <2>8, <2>9, NumberI
<1>4. QED
  BY <1>2, <1>3 DEF MaybeEmitClosed

\* finish_output_stream.
LEMMA FinishOutputStreamI == ASSUME IInv, NEW s \in Streams, FinishOutputStream(s) PROVE IInv'
<1>1. /\ pc[s] = "finish" /\ s \in Tasks /\ s # Exit
      /\ UNCHANGED <<entry, up, wire, client, poll, woken>>
  BY Distinct DEF FinishOutputStream
<1>2. CASE ~entry
  <2>1. Leave(s, "done") /\ ~Sending(s)
    BY <1>1, <1>2 DEF FinishOutputStream, Sending
  <2>2. QED
    BY <1>1, <1>2, <2>1, LeaveI
<1>3. CASE entry
  <2> DEFINE n == IF process.openStreams > 0 THEN process.openStreams - 1 ELSE process.openStreams
  <2>1. /\ process' = [process EXCEPT !.openStreams = n]
        /\ pc' = [pc EXCEPT ![s] = "close"] /\ UNCHANGED <<log, held>>
    BY <1>3 DEF FinishOutputStream
  <2>2. /\ process \in Processes /\ pc \in [Tasks -> TaskSteps] /\ "close" \in TaskSteps
    BY DEF IInv, ServerTyped, TaskSteps
  <2>3. process.openStreams = Cardinality(Live) /\ s \in Live
    BY <1>1, <1>3 DEF IInv, Counted, Live
  <2>4. /\ pc' \in [Tasks -> TaskSteps] /\ pc'[s] = "close"
        /\ \A u \in Tasks \ {s} : pc'[u] = pc[u]
    BY <1>1, <2>1, <2>2, Moves
  <2>5. Live' = Live \ {s}
    BY <1>1, <2>1, <2>2, LiveMoves
  <2>6. /\ Cardinality(Live') = Cardinality(Live) - 1 /\ Cardinality(Live) > 0
        /\ Cardinality(Live) \in Nat /\ Cardinality(Live) <= Cardinality(Streams)
        /\ Cardinality(Streams) \in Nat
    <3>1. Cardinality(Live \ {s}) = Cardinality(Live) - 1
      BY <2>3, LiveFinite, FS_RemoveElement
    <3>2. QED
      BY <2>3, <2>5, <3>1, LiveFinite
  <2>7. n = Cardinality(Live') /\ n \in 0..Cardinality(Streams)
    BY <2>3, <2>6
  <2> HIDE DEF n
  <2>8. /\ process' \in Processes /\ process'.openStreams = n
        /\ process'.nextSeq = process.nextSeq /\ process'.output = process.output
        /\ process'.exited = process.exited /\ process'.closed = process.closed
    BY <2>1, <2>2, <2>7 DEF Processes
  <2>9. Counted'
    <3>1. ~process.closed
      BY <2>3 DEF IInv, Counted
    <3>2. pc'[Exit] = pc[Exit]
      BY <1>1, <2>4, Distinct
    <3>3. QED
      BY <2>7, <2>8, <3>1, <3>2 DEF IInv, Counted
  <2>10. ServerTyped' /\ WireTyped'
    BY <1>1, <2>1, <2>4, <2>8 DEF IInv, ServerTyped, WireTyped
  <2>11. \A u \in Tasks : Sending(u)' => Sending(u) /\ held'[u] = held[u]
    BY <2>1, <2>4 DEF Sending
  <2>12. \A i \in DOMAIN wire' : wire'[i] # Gone => Genuine(wire'[i])
    BY <1>1 DEF IInv, InFlight
  <2>13. QED
    BY <1>1, <2>1, <2>8, <2>9, <2>10, <2>11, <2>12, NotNumbering
<1>4. QED
  BY <1>2, <1>3

\* The notification of a task.
LEMMA NotifyI == ASSUME IInv, NEW t \in Tasks, Notify(t) PROVE IInv'
<1> DEFINE next == IF pc[t] = "notifyClosed" THEN "done" ELSE IF t = Exit THEN "close" ELSE "run"
<1>1. /\ Sending(t) /\ UNCHANGED <<entry, process, log, up, client, poll, woken>>
      /\ held' = [held EXCEPT ![t] = None] /\ pc' = [pc EXCEPT ![t] = next]
      /\ wire' = IF up THEN Append(wire, held[t]) ELSE wire
  BY DEF Notify, Sending
<1>2. /\ pc \in [Tasks -> TaskSteps] /\ held \in [Tasks -> Sequenced \union {None}]
      /\ wire \in Seq(Messages) /\ next \in TaskSteps
      /\ held[t] \in Sequenced /\ held[t] \in Messages /\ Genuine(held[t])
  BY <1>1 DEF IInv, ServerTyped, WireTyped, InFlight, Messages, TaskSteps
<1>3. t \in Streams \/ t = Exit
  BY DEF Tasks
<1>4. /\ t = Exit => next # "run"
      /\ pc[t] = "notify" /\ t # Exit => next = "run"
      /\ pc[t] = "notifyClosed" => next = "done"
      /\ next \notin {"notify", "notifyClosed"}
      /\ pc[t] \in {"notify", "notifyClosed"}
  BY <1>1 DEF Sending
<1> HIDE DEF next
<1>5. /\ pc' \in [Tasks -> TaskSteps] /\ pc'[t] = next
      /\ \A u \in Tasks \ {t} : pc'[u] = pc[u]
  BY <1>1, <1>2, Moves
<1>6. Live' = Live
  <2>1. CASE t = Exit
    BY <1>1, <1>2, <2>1, LiveMoves, StreamsFinite
  <2>2. CASE t # Exit /\ pc[t] = "notify"
    BY <1>1, <1>2, <1>4, <2>2, LiveMoves
  <2>3. CASE pc[t] = "notifyClosed"
    <3>1. Live' = Live \ {t} /\ t \notin Live
      BY <1>1, <1>2, <1>4, <2>3, LiveMoves DEF Live
    <3>2. QED
      BY <3>1
  <2>4. QED
    BY <1>4, <2>1, <2>2, <2>3
<1>7. Counted'
  <2>1. pc'[Exit] # "run" \/ pc'[Exit] = pc[Exit]
    BY <1>4, <1>5, Distinct
  <2>2. QED
    BY <1>1, <1>6, <2>1 DEF IInv, Counted
<1>8. held' \in [Tasks -> Sequenced \union {None}] /\ \A u \in Tasks \ {t} : held'[u] = held[u]
  BY <1>1, <1>2
<1>9. ServerTyped'
  BY <1>1, <1>5, <1>8 DEF IInv, ServerTyped
<1>10. /\ wire' \in Seq(Messages)
       /\ \A i \in DOMAIN wire' : (i \in DOMAIN wire /\ wire'[i] = wire[i]) \/ wire'[i] = held[t]
  <2>1. CASE up
    <3>1. wire' = Append(wire, held[t])
      BY <1>1, <2>1
    <3>2. QED
      BY <1>2, <3>1, AppendIs
  <2>2. CASE ~up
    BY <1>1, <1>2, <2>2
  <2>3. QED
    BY <2>1, <2>2
<1>11. WireTyped'
  BY <1>1, <1>10 DEF IInv, WireTyped
<1>12. \A i \in DOMAIN wire' : wire'[i] # Gone => Genuine(wire'[i])
  BY <1>2, <1>10 DEF IInv, InFlight
<1>13. \A u \in Tasks : Sending(u)' => Sending(u) /\ held'[u] = held[u]
  BY <1>4, <1>5, <1>8 DEF Sending
<1>14. QED
  BY <1>1, <1>7, <1>9, <1>11, <1>12, <1>13, NotNumbering

\* The retention of a closed process ends, or that of a detached session.
LEMMA EntryGoesI ==
    ASSUME IInv, entry' = FALSE, UNCHANGED <<process, log, pc, held, up, wire, client, poll, woken>>
    PROVE  IInv'
<1>1. ServerTyped' /\ WireTyped'
  BY DEF IInv, ServerTyped, WireTyped
<1>2. Live' = Live
  BY DEF Live
<1>3. Counted'
  BY <1>2 DEF IInv, Counted
<1>4. \A u \in Tasks : Sending(u)' => Sending(u) /\ held'[u] = held[u]
  BY DEF Sending
<1>5. \A i \in DOMAIN wire' : wire'[i] # Gone => Genuine(wire'[i])
  BY DEF IInv, InFlight
<1>6. QED
  BY <1>1, <1>3, <1>4, <1>5, NotNumbering

\* The connection is lost with what had not arrived.
LEMMA DisconnectI == ASSUME IInv, Disconnect PROVE IInv'
<1>1. up' = FALSE /\ UNCHANGED <<server, client, poll, woken>>
  BY DEF Disconnect
<1>2. UNCHANGED <<entry, process, log, pc, held>>
  BY <1>1 DEF server
<1>3. PICK n \in 0..Len(wire) : wire' = Append(SubSeq(wire, 1, n), Gone)
  BY DEF Disconnect
<1>4. wire \in Seq(Messages) /\ Gone \in Messages
  BY DEF IInv, WireTyped, Messages
<1> DEFINE w == SubSeq(wire, 1, n)
<1>5. w \in Seq(Messages) /\ \A i \in DOMAIN w : i \in DOMAIN wire /\ w[i] = wire[i]
  BY <1>3, <1>4
<1> HIDE DEF w
<1>6. wire' = Append(w, Gone)
  BY <1>3 DEF w
<1>7. /\ wire' \in Seq(Messages)
      /\ \A i \in DOMAIN wire' : (i \in DOMAIN w /\ wire'[i] = w[i]) \/ wire'[i] = Gone
  BY <1>4, <1>5, <1>6, AppendIs
<1>8. \A i \in DOMAIN wire' : wire'[i] # Gone => Genuine(wire'[i])
  BY <1>5, <1>7 DEF IInv, InFlight
<1>9. ServerTyped' /\ WireTyped'
  BY <1>1, <1>2, <1>7 DEF IInv, ServerTyped, WireTyped
<1>10. Live' = Live
  BY <1>2 DEF Live
<1>11. Counted'
  BY <1>2, <1>10 DEF IInv, Counted
<1>12. \A u \in Tasks : Sending(u)' => Sending(u) /\ held'[u] = held[u]
  BY <1>2 DEF Sending
<1>13. QED
  BY <1>1, <1>2, <1>8, <1>9, <1>11, <1>12, NotNumbering

-----------------------------------------------------------------------------
(* The client *)

\* A step of the client, by what it may disturb.
LEMMA ClientI ==
    ASSUME IInv, UNCHANGED <<server, up>>, WireTyped', ClientTyped', PollTyped',
           \A i \in DOMAIN wire' : wire'[i] # Gone => Genuine(wire'[i]),
           \A e \in ordered'.pending : Genuine(e),
           \A i \in DOMAIN reader'.ready : Genuine(reader'.ready[i]),
           InTurnNext', FailedOnce', OneFailed', InOrder', Polled', PollSkipsNothing'
    PROVE  IInv'
<1>1. UNCHANGED <<entry, process, log, pc, held>>
  BY DEF server
<1>2. ServerTyped'
  BY <1>1 DEF IInv, ServerTyped
<1>3. Live' = Live
  BY <1>1 DEF Live
<1>4. Counted' /\ Logged'
  BY <1>1, <1>3 DEF IInv, Counted, Logged
<1>5. InFlight'
  <2>1. \A t \in Tasks : Sending(t)' => held'[t] \in Sequenced /\ Genuine(held'[t])
    BY <1>1 DEF IInv, InFlight, Sending
  <2>2. QED
    BY <1>1, <2>1 DEF InFlight, Genuine
<1>6. QED
  BY <1>2, <1>4, <1>5 DEF IInv

\* The polling loop's part when it does nothing.
LEMMA PollSame == ASSUME IInv, UNCHANGED <<server, poll>> PROVE Polled' /\ PollSkipsNothing'
BY DEF IInv, Polled, PollSkipsNothing, server

\* The events when nothing but Failed is published.
LEMMA EventsSame ==
    ASSUME IInv, UNCHANGED server, UNCHANGED events \/ (PublishFailed /\ ~HasFailed)
    PROVE  /\ events' \in Seq(Followed) /\ OneFailed' /\ InOrder' /\ Published' = Published
<1>1. log' = log
  BY DEF server
<1>2. CASE UNCHANGED events
  BY <1>1, <1>2 DEF IInv, ClientTyped, OneFailed, InOrder, Published, HasFailed
<1>3. CASE PublishFailed /\ ~HasFailed
  BY <1>1, <1>3, PublishesFailed DEF IInv, ClientTyped
<1>4. QED
  BY <1>2, <1>3

\* The wire after a message has been taken from it.
LEMMA WireTaken ==
    ASSUME IInv, UNCHANGED up, wire' = wire \/ (wire # <<>> /\ wire' = Tail(wire))
    PROVE  WireTyped' /\ \A i \in DOMAIN wire' : wire'[i] # Gone => Genuine(wire'[i])
<1>1. wire \in Seq(Messages)
  BY DEF IInv, WireTyped
<1>2. CASE wire' = wire
  BY <1>2 DEF IInv, WireTyped, InFlight
<1>3. CASE wire # <<>> /\ wire' = Tail(wire)
  <2>1. /\ wire' \in Seq(Messages)
        /\ \A i \in DOMAIN wire' : i + 1 \in DOMAIN wire /\ wire'[i] = wire[i + 1]
    BY <1>1, <1>3, TailIs
  <2>2. QED
    BY <2>1 DEF IInv, WireTyped, InFlight
<1>4. QED
  BY <1>2, <1>3

\* The reader moves on without anything ready.
LEMMA ReaderGotoI ==
    ASSUME IInv, reader.at # "publish", NEW x \in ReaderSteps \ {"publish"}, ReaderGoto(x),
           UNCHANGED <<server, up, ordered, poll>>,
           route' \in BOOLEAN, failure' \in BOOLEAN, woken' \in BOOLEAN,
           wire' = wire \/ (wire # <<>> /\ wire' = Tail(wire)),
           UNCHANGED events \/ (PublishFailed /\ ~HasFailed),
           reader'.at = x => FailedOnce'
    PROVE  IInv'
<1>1. reader \in Readers /\ reader.ready = <<>>
  BY DEF IInv, ClientTyped, InTurnNext
<1>2. reader' \in Readers /\ reader'.at = x /\ reader'.ready = <<>>
  <2>1. reader' = [reader EXCEPT !.at = x]
    BY DEF ReaderGoto
  <2>2. QED
    BY <1>1, <2>1, ReaderAt
<1>3. events' \in Seq(Followed) /\ OneFailed' /\ InOrder' /\ Published' = Published
  BY EventsSame
<1>4. ClientTyped' /\ PollTyped'
  BY <1>2, <1>3 DEF IInv, ClientTyped, PollTyped
<1>5. InTurnNext'
  BY <1>1, <1>2, <1>3 DEF IInv, InTurnNext
<1>6. WireTyped' /\ \A i \in DOMAIN wire' : wire'[i] # Gone => Genuine(wire'[i])
  BY WireTaken
<1>7. \A e \in ordered'.pending : Genuine(e)
  BY DEF IInv, InFlight
<1>8. \A i \in DOMAIN reader'.ready : Genuine(reader'.ready[i])
  BY <1>2
<1>9. Polled' /\ PollSkipsNothing'
  BY PollSame
<1>10. QED
  BY <1>2, <1>3, <1>4, <1>5, <1>6, <1>7, <1>8, <1>9, ClientI

\* What is found ready: the events after number n, in turn.
LEMMA TurnIs ==
    ASSUME NEW set \in SUBSET Sequenced, NEW n \in Nat, \A e \in set : e.seq > n,
           NEW m \in Runs(set, n)
    PROVE  /\ m \in Nat /\ m >= n
           /\ InTurn(set, n, m) \in Seq(Sequenced) /\ Len(InTurn(set, n, m)) = m - n
           /\ DOMAIN InTurn(set, n, m) = 1..(m - n)
           /\ \A i \in 1..(m - n) : InTurn(set, n, m)[i] \in set /\ InTurn(set, n, m)[i].seq = n + i
<1>1. \A e \in set : e.seq \in Nat
  BY Distinct
<1>2. m \in {n} \union Numbers(set) /\ (n + 1)..m \subseteq Numbers(set)
  BY DEF Runs
<1>3. m \in Nat /\ m >= n
  BY <1>1, <1>2 DEF Numbers
<1>4. ASSUME NEW i \in 1..(m - n)
      PROVE  /\ (CHOOSE e \in set : e.seq = n + i) \in set
             /\ (CHOOSE e \in set : e.seq = n + i).seq = n + i
  <2>1. n + i \in (n + 1)..m
    BY <1>3
  <2>2. \E e \in set : e.seq = n + i
    BY <1>2, <2>1 DEF Numbers
  <2>3. QED
    BY <2>2
<1> DEFINE f == [i \in 1..(m - n) |-> CHOOSE e \in set : e.seq = n + i]
<1>5. \A i \in 1..(m - n) : f[i] \in set /\ f[i].seq = n + i
  BY <1>4
<1>6. DOMAIN f = 1..(m - n)
  OBVIOUS
<1>7. InTurn(set, n, m) = f
  BY DEF InTurn
<1> HIDE DEF f
<1>8. m - n \in Nat
  BY <1>3
<1>9. f \in Seq(Sequenced) /\ Len(f) = m - n
  <2>1. \A i \in 1..(m - n) : f[i] \in Sequenced
    BY <1>5
  <2>2. f = [i \in 1..(m - n) |-> f[i]]
    BY <1>7 DEF InTurn
  <2>3. QED
    BY <1>6, <1>8, <2>1, <2>2
<1>10. QED
  BY <1>3, <1>5, <1>6, <1>7, <1>9

\* publish_ordered_event, the locked part.
LEMMA ReceiveI == ASSUME IInv, Receive PROVE IInv'
<1> DEFINE h == Head(wire)
<1>1. /\ reader.at = "recv" /\ wire # <<>> /\ h # Gone /\ wire' = Tail(wire)
      /\ UNCHANGED <<server, up, route, events, failure, poll>>
      /\ wire \in Seq(Messages) /\ woken' \in BOOLEAN
  BY DEF Receive, IInv, WireTyped
<1>2. h \in Sequenced /\ Genuine(h)
  <2>1. h \in Messages /\ h = wire[1] /\ 1 \in DOMAIN wire
    BY <1>1, TailIs
  <2>2. QED
    BY <1>1, <2>1 DEF Messages, IInv, InFlight
<1>3. /\ ordered \in Orders /\ ordered.last \in Nat /\ ordered.pending \subseteq Sequenced
      /\ reader \in Readers /\ reader.ready = <<>> /\ ordered.last = Published
      /\ \A e \in ordered.pending : Genuine(e) /\ e.seq > ordered.last
  <2>1. /\ ordered \in Orders /\ reader \in Readers /\ reader.ready = <<>>
        /\ ordered.last = Published + Len(reader.ready)
        /\ \A e \in ordered.pending : Genuine(e) /\ e.seq > ordered.last
    BY <1>1 DEF IInv, ClientTyped, InTurnNext, InFlight
  <2>2. ordered.last \in Nat /\ ordered.pending \subseteq Sequenced
    BY <2>1 DEF Orders
  <2>3. Published \in Nat
    BY PublishedIs DEF IInv, ClientTyped
  <2>4. Len(reader.ready) = 0
    BY <2>1
  <2>5. ordered.last = Published
    BY <2>1, <2>3, <2>4
  <2>6. QED
    BY <2>1, <2>2, <2>5
<1>4. WireTyped' /\ \A i \in DOMAIN wire' : wire'[i] # Gone => Genuine(wire'[i])
  BY <1>1, WireTaken
<1>5. events' \in Seq(Followed) /\ OneFailed' /\ InOrder' /\ Published' = Published
  BY <1>1, EventsSame
<1>6. PollTyped' /\ Polled' /\ PollSkipsNothing'
  BY <1>1, PollSame DEF IInv, PollTyped
<1>7. HasFailed' = HasFailed
  BY <1>1 DEF HasFailed
<1>8. CASE UNCHANGED <<ordered, reader>>
  <2>1. ClientTyped' /\ InTurnNext' /\ FailedOnce'
    BY <1>1, <1>5, <1>7, <1>8 DEF IInv, ClientTyped, InTurnNext, FailedOnce
  <2>2. /\ \A e \in ordered'.pending : Genuine(e)
        /\ \A i \in DOMAIN reader'.ready : Genuine(reader'.ready[i])
    BY <1>8 DEF IInv, InFlight
  <2>3. QED
    BY <1>1, <1>4, <1>5, <1>6, <2>1, <2>2, ClientI
<1>9. CASE route /\ h.seq > ordered.last /\ ~UNCHANGED <<ordered, reader>>
  <2> DEFINE all == ordered.pending \union {h}
             n == ordered.last
  <2>1. PICK m \in Runs(all, n) :
          /\ ordered' = [last |-> m, pending |-> {p \in all : p.seq > m}]
          /\ reader' = [at |-> IF m = n THEN "recv" ELSE "publish",
                        ready |-> InTurn(all, n, m), closed |-> FALSE]
    BY <1>9 DEF Receive
  <2>2. all \in SUBSET Sequenced /\ n \in Nat /\ \A e \in all : e.seq > n /\ Genuine(e)
    BY <1>2, <1>3, <1>9
  <2> HIDE DEF all, n
  <2> DEFINE r == InTurn(all, n, m)
  <2>3. /\ m \in Nat /\ m >= n /\ r \in Seq(Sequenced) /\ Len(r) = m - n
        /\ DOMAIN r = 1..(m - n) /\ \A i \in 1..(m - n) : r[i] \in all /\ r[i].seq = n + i
    BY <2>1, <2>2, TurnIs
  <2>4. /\ ordered'.last = m /\ ordered'.pending = {p \in all : p.seq > m}
        /\ reader'.at = (IF m = n THEN "recv" ELSE "publish") /\ reader'.ready = r
        /\ reader'.closed = FALSE
    BY <2>1
  <2>5. ordered' \in Orders
    BY <2>1, <2>2, <2>3 DEF Orders
  <2>6. reader' \in Readers
    BY <2>1, <2>3 DEF Readers, ReaderSteps
  <2> HIDE DEF r
  <2>7. ClientTyped'
    BY <1>1, <1>5, <2>5, <2>6 DEF IInv, ClientTyped
  <2>8. InTurnNext'
    <3>1. Published' = n
      BY <1>3, <1>5 DEF n
    <3>2. reader'.at = "publish" <=> reader'.ready # <<>>
      BY <2>2, <2>3, <2>4
    <3>3. ordered'.last = Published' + Len(reader'.ready)
      BY <2>2, <2>3, <2>4, <3>1
    <3>4. \A i \in DOMAIN reader'.ready : reader'.ready[i].seq = Published' + i
      BY <2>3, <2>4, <3>1
    <3>5. \A e \in ordered'.pending : e.seq > ordered'.last
      BY <2>4
    <3>6. QED
      BY <3>2, <3>3, <3>4, <3>5 DEF InTurnNext
  <2>9. FailedOnce'
    BY <1>1, <1>7, <2>4 DEF IInv, FailedOnce
  <2>10. \A e \in ordered'.pending : Genuine(e)
    BY <2>2, <2>4
  <2>11. \A i \in DOMAIN reader'.ready : Genuine(reader'.ready[i])
    BY <2>2, <2>3, <2>4
  <2>12. QED
    BY <1>1, <1>4, <1>5, <1>6, <2>7, <2>8, <2>9, <2>10, <2>11, ClientI
<1>10. QED
  BY <1>8, <1>9 DEF Receive

\* publish_ordered_event, after the lock.
LEMMA PublishReadyI == ASSUME IInv, PublishReady PROVE IInv'
<1> DEFINE r == reader.ready
<1>1. /\ reader.at = "publish" /\ events' = Append(events, Head(r))
      /\ UNCHANGED <<server, up, wire, route, ordered, failure, poll, woken>>
      /\ r \in Seq(Sequenced) /\ r # <<>> /\ log' = log
  BY DEF PublishReady, IInv, ClientTyped, Readers, InTurnNext, server
<1>2. /\ Tail(r) \in Seq(Sequenced) /\ Len(Tail(r)) = Len(r) - 1 /\ Len(r) \in Nat \ {0}
      /\ DOMAIN Tail(r) = 1..(Len(r) - 1) /\ DOMAIN r = 1..Len(r)
      /\ \A i \in DOMAIN Tail(r) : Tail(r)[i] = r[i + 1]
      /\ Head(r) \in Sequenced /\ Head(r) = r[1]
  BY <1>1, TailIs
<1>3. /\ reader'.at = (IF Len(r) > 1 THEN "publish"
                       ELSE IF reader.closed \/ Head(r).kind = "Closed" THEN "remove" ELSE "recv")
      /\ reader'.ready = Tail(r) /\ reader' \in Readers
  <2>1. reader' = [at |-> IF Len(r) > 1 THEN "publish"
                          ELSE IF reader.closed \/ Head(r).kind = "Closed" THEN "remove" ELSE "recv",
                   ready |-> Tail(r),
                   closed |-> Len(r) > 1 /\ (reader.closed \/ Head(r).kind = "Closed")]
    BY DEF PublishReady
  <2>2. (Len(r) > 1 /\ (reader.closed \/ Head(r).kind = "Closed")) \in BOOLEAN
    OBVIOUS
  <2>3. QED
    BY <1>2, <2>1, <2>2 DEF Readers, ReaderSteps
<1>4. Published \in Nat /\ Head(r).seq = Published + 1 /\ Genuine(Head(r))
  <2>1. Published \in Nat
    BY PublishedIs DEF IInv, ClientTyped
  <2>2. 1 \in DOMAIN r
    BY <1>2
  <2>3. QED
    BY <1>2, <2>1, <2>2 DEF IInv, InTurnNext, InFlight
<1>5. /\ events' \in Seq(Followed) /\ OneFailed' /\ InOrder'
      /\ HasFailed' = HasFailed /\ Published' = Published + 1
  BY <1>1, <1>2, <1>4, PublishesNext DEF IInv, ClientTyped
<1> HIDE DEF r
<1>6. ClientTyped'
  BY <1>1, <1>3, <1>5 DEF IInv, ClientTyped
<1>7. InTurnNext'
  <2>1. /\ ordered.last = Published + Len(r) /\ \A i \in DOMAIN r : r[i].seq = Published + i
        /\ \A e \in ordered.pending : e.seq > ordered.last
    BY DEF IInv, InTurnNext, r
  <2>2. ordered'.last = Published' + Len(reader'.ready)
    BY <1>1, <1>2, <1>3, <1>4, <1>5, <2>1
  <2>3. ASSUME NEW i \in DOMAIN reader'.ready PROVE reader'.ready[i].seq = Published' + i
    <3>1. i + 1 \in DOMAIN r /\ reader'.ready[i] = r[i + 1] /\ i \in Nat
      BY <1>2, <1>3
    <3>2. QED
      BY <1>4, <1>5, <2>1, <3>1
  <2>4. reader'.at = "publish" <=> reader'.ready # <<>>
    <3>1. Tail(r) # <<>> <=> Len(r) > 1
      <4> DEFINE t == Tail(r)
      <4>1. t \in Seq(Sequenced) /\ Len(t) = Len(r) - 1 /\ Len(r) \in Nat
        BY <1>2
      <4> HIDE DEF t
      <4>2. t = <<>> <=> Len(t) = 0
        BY <4>1, SMTT(60)
      <4>3. t # <<>> <=> Len(r) > 1
        BY <4>1, <4>2
      <4>4. QED
        BY <4>3 DEF t
    <3>2. reader'.at = "publish" <=> Len(r) > 1
      BY <1>3
    <3>3. QED
      BY <1>3, <3>1, <3>2
  <2>5. QED
    BY <1>1, <2>1, <2>2, <2>3, <2>4 DEF InTurnNext
<1>8. FailedOnce'
  BY <1>1, <1>3, <1>5 DEF IInv, FailedOnce
<1>9. WireTyped' /\ \A i \in DOMAIN wire' : wire'[i] # Gone => Genuine(wire'[i])
  BY <1>1, WireTaken
<1>10. PollTyped' /\ Polled' /\ PollSkipsNothing'
  BY <1>1, PollSame DEF IInv, PollTyped
<1>11. \A e \in ordered'.pending : Genuine(e)
  BY <1>1 DEF IInv, InFlight
<1>12. \A i \in DOMAIN reader'.ready : Genuine(reader'.ready[i])
  <2>1. \A i \in DOMAIN r : Genuine(r[i])
    BY DEF IInv, InFlight, r
  <2>2. \A i \in DOMAIN reader'.ready : i + 1 \in DOMAIN r /\ reader'.ready[i] = r[i + 1]
    BY <1>2, <1>3
  <2>3. QED
    BY <2>1, <2>2
<1>13. QED
  BY <1>1, <1>5, <1>6, <1>7, <1>8, <1>9, <1>10, <1>11, <1>12, ClientI

\* remove_session.
LEMMA RemoveSessionI == ASSUME IInv, RemoveSession PROVE IInv'
<1>1. /\ reader.at = "remove" /\ route' = FALSE /\ ReaderGoto("recv")
      /\ UNCHANGED <<server, up, wire, ordered, events, failure, poll, woken>>
      /\ "recv" \in ReaderSteps \ {"publish"}
  BY DEF RemoveSession, ReaderSteps
<1>2. reader'.at = "recv" => FailedOnce'
  BY <1>1 DEF IInv, FailedOnce, HasFailed
<1>3. failure' \in BOOLEAN /\ woken' \in BOOLEAN
  BY <1>1 DEF IInv, ClientTyped, PollTyped
<1>4. QED
  BY <1>1, <1>2, <1>3, ReaderGotoI

\* The end of the connection reaches the reader.
LEMMA ReceiveGoneI == ASSUME IInv, ReceiveGone PROVE IInv'
<1>1. /\ reader.at = "recv" /\ wire # <<>> /\ wire' = Tail(wire) /\ ReaderGoto("take")
      /\ UNCHANGED <<server, up, route, ordered, events, failure, poll, woken>>
      /\ "take" \in ReaderSteps \ {"publish"}
  BY DEF ReceiveGone, ReaderSteps
<1>2. reader'.at = "take" => FailedOnce'
  BY <1>1 DEF IInv, FailedOnce, HasFailed
<1>3. failure' \in BOOLEAN /\ woken' \in BOOLEAN /\ route' \in BOOLEAN
  BY <1>1 DEF IInv, ClientTyped, PollTyped
<1>4. QED
  BY <1>1, <1>2, <1>3, ReaderGotoI

\* take_all_sessions.
LEMMA TakeAllSessionsI == ASSUME IInv, TakeAllSessions PROVE IInv'
<1> DEFINE x == IF route THEN "fail" ELSE "end"
<1>1. /\ reader.at = "take" /\ route' = FALSE /\ ReaderGoto(x)
      /\ UNCHANGED <<server, up, wire, ordered, events, failure, poll, woken>>
      /\ x \in ReaderSteps \ {"publish"} /\ x # "failed"
  BY DEF TakeAllSessions, ReaderSteps
<1> HIDE DEF x
<1>2. reader'.at = x => FailedOnce'
  BY <1>1 DEF IInv, FailedOnce, HasFailed
<1>3. failure' \in BOOLEAN /\ woken' \in BOOLEAN
  BY <1>1 DEF IInv, ClientTyped, PollTyped
<1>4. QED
  BY <1>1, <1>2, <1>3, ReaderGotoI

\* set_failure by the reader.
LEMMA ReaderSetsFailureI == ASSUME IInv, ReaderSetsFailure PROVE IInv'
<1> DEFINE x == IF failure THEN "end" ELSE "failed"
<1>1. /\ reader.at = "fail" /\ ReaderGoto(x) /\ failure' = TRUE /\ woken' = TRUE
      /\ UNCHANGED <<server, up, wire, route, ordered, events, poll>>
      /\ x \in ReaderSteps \ {"publish"} /\ (failure => x = "end")
  BY DEF ReaderSetsFailure, SetFailure, ReaderSteps
<1> HIDE DEF x
<1>2. reader'.at = x => FailedOnce'
  <2>1. CASE failure
    BY <1>1, <2>1 DEF IInv, FailedOnce, HasFailed
  <2>2. CASE ~failure
    BY <1>1, <2>2 DEF IInv, FailedOnce, HasFailed
  <2>3. QED
    BY <2>1, <2>2
<1>3. route' \in BOOLEAN
  BY <1>1 DEF IInv, ClientTyped
<1>4. QED
  BY <1>1, <1>2, <1>3, ReaderGotoI

\* The reader publishes Failed.
LEMMA ReaderPublishesFailedI == ASSUME IInv, ReaderPublishesFailed PROVE IInv'
<1>1. /\ reader.at = "failed" /\ ReaderGoto("end") /\ PublishFailed
      /\ UNCHANGED <<server, up, wire, route, ordered, failure, poll, woken>>
      /\ "end" \in ReaderSteps \ {"publish"}
  BY DEF ReaderPublishesFailed, ReaderSteps
<1>2. ~HasFailed /\ failure /\ poll.at # "failed"
  BY <1>1 DEF IInv, FailedOnce
<1>3. reader'.at = "end" => FailedOnce'
  BY <1>1, <1>2 DEF FailedOnce
<1>4. route' \in BOOLEAN /\ failure' \in BOOLEAN /\ woken' \in BOOLEAN
  BY <1>1 DEF IInv, ClientTyped, PollTyped
<1>5. QED
  BY <1>1, <1>2, <1>3, <1>4, ReaderGotoI

-----------------------------------------------------------------------------
(* The polling loop *)

\* A step of the polling loop, by what it may disturb.
LEMMA PollI ==
    ASSUME IInv, UNCHANGED <<server, up, wire, ordered, reader>>, poll' \in Polls,
           route' \in BOOLEAN, failure' \in BOOLEAN, woken' \in BOOLEAN,
           UNCHANGED events \/ (PublishFailed /\ ~HasFailed),
           FailedOnce', Polled', PollSkipsNothing'
    PROVE  IInv'
<1>1. events' \in Seq(Followed) /\ OneFailed' /\ InOrder' /\ Published' = Published
  BY EventsSame
<1>2. ClientTyped' /\ PollTyped'
  BY <1>1 DEF IInv, ClientTyped, PollTyped
<1>3. InTurnNext'
  BY <1>1 DEF IInv, InTurnNext
<1>4. WireTyped' /\ \A i \in DOMAIN wire' : wire'[i] # Gone => Genuine(wire'[i])
  BY WireTaken
<1>5. /\ \A e \in ordered'.pending : Genuine(e)
      /\ \A i \in DOMAIN reader'.ready : Genuine(reader'.ready[i])
  BY DEF IInv, InFlight
<1>6. QED
  BY <1>1, <1>2, <1>3, <1>4, <1>5, ClientI

\* The polling loop's part when it keeps its cursor and its chunks.
LEMMA CursorSame ==
    ASSUME IInv, UNCHANGED server, poll'.after = poll.after, poll'.got = poll.got,
           poll'.at # "reply", poll'.outcome = poll.outcome \/ poll'.outcome # "closed"
    PROVE  Polled' /\ PollSkipsNothing'
BY DEF IInv, Polled, PollSkipsNothing, server

\* The polling loop goes to another step.
LEMMA PollGotoI ==
    ASSUME IInv, UNCHANGED <<server, up, wire, ordered, reader>>,
           NEW x \in PollSteps \ {"reply"}, PollGoto(x),
           route' \in BOOLEAN, failure' \in BOOLEAN, woken' \in BOOLEAN,
           UNCHANGED events \/ (PublishFailed /\ ~HasFailed),
           poll'.at = x => FailedOnce'
    PROVE  IInv'
<1>1. poll \in Polls /\ poll' = [poll EXCEPT !.at = x]
  BY DEF PollGoto, IInv, PollTyped
<1>2. /\ poll' \in Polls /\ poll'.at = x /\ poll'.after = poll.after /\ poll'.got = poll.got
      /\ poll'.reply = poll.reply /\ poll'.outcome = poll.outcome
  BY <1>1, PollAt
<1>3. Polled' /\ PollSkipsNothing'
  BY <1>2, CursorSame
<1>4. QED
  BY <1>2, <1>3, PollI

\* The polling loop ends with a failure.
LEMMA PollFailsI ==
    ASSUME IInv, UNCHANGED <<server, up, wire, ordered, reader>>, PollEnds("failed"),
           route' \in BOOLEAN, failure' \in BOOLEAN, woken' \in BOOLEAN,
           UNCHANGED events \/ (PublishFailed /\ ~HasFailed),
           poll'.at = "ended" => FailedOnce'
    PROVE  IInv'
<1>1. /\ poll \in Polls /\ poll' = [poll EXCEPT !.at = "ended", !.outcome = "failed"]
      /\ "failed" \in {"closed", "failed"}
  BY SMTT(60) DEF PollEnds, IInv, PollTyped
<1>2. /\ poll' \in Polls /\ poll'.at = "ended" /\ poll'.after = poll.after /\ poll'.got = poll.got
      /\ poll'.reply = poll.reply /\ poll'.outcome = "failed"
  BY <1>1, PollEndsAt
<1>3. Polled' /\ PollSkipsNothing'
  BY <1>2, CursorSame
<1>4. QED
  BY <1>2, <1>3, PollI

\* A client whose variables stay keeps their types and its failure.
LEMMA ClientSame ==
    ASSUME IInv, UNCHANGED <<client, woken>>
    PROVE  /\ UNCHANGED <<ordered, reader, events, failure, route>> /\ route' \in BOOLEAN
           /\ failure' \in BOOLEAN /\ woken' \in BOOLEAN /\ HasFailed' = HasFailed
BY DEF IInv, ClientTyped, PollTyped, client, HasFailed

\* failed_response.
LEMMA BeginReadI == ASSUME IInv, BeginRead PROVE IInv'
<1>1. /\ poll.at = "read" /\ UNCHANGED <<server, up, wire, client, woken>>
      /\ IF failure THEN PollEnds("failed") ELSE PollGoto("call")
  BY DEF BeginRead
<1>2. /\ UNCHANGED <<ordered, reader, events, failure, route>> /\ route' \in BOOLEAN
      /\ failure' \in BOOLEAN /\ woken' \in BOOLEAN /\ HasFailed' = HasFailed
  BY <1>1, ClientSame
<1>3. poll'.at # "failed" => FailedOnce'
  BY <1>1, <1>2 DEF IInv, FailedOnce
<1>4. CASE failure
  BY <1>1, <1>2, <1>3, <1>4, PollFailsI
<1>5. CASE ~failure
  <2>1. "call" \in PollSteps \ {"reply"} /\ PollGoto("call")
    BY <1>1, <1>5 DEF PollSteps
  <2>2. QED
    BY <1>1, <1>2, <1>3, <2>1, PollGotoI
<1>6. QED
  BY <1>4, <1>5

\* The read is sent.
LEMMA SendReadI == ASSUME IInv, SendRead PROVE IInv'
<1> DEFINE x == IF up THEN "sent" ELSE "fail"
<1>1. /\ poll.at = "call" /\ PollGoto(x)
      /\ UNCHANGED <<server, up, wire, route, ordered, events, failure, reader, woken>>
      /\ x \in PollSteps \ {"reply"} /\ x # "failed"
  BY DEF SendRead, PollSteps
<1> HIDE DEF x
<1>2. poll'.at = x => FailedOnce'
  BY <1>1 DEF IInv, FailedOnce, HasFailed
<1>3. route' \in BOOLEAN /\ failure' \in BOOLEAN /\ woken' \in BOOLEAN
  BY <1>1 DEF IInv, ClientTyped, PollTyped
<1>4. QED
  BY <1>1, <1>2, <1>3, PollGotoI

\* exec_read answers with what is retained after the cursor.
LEMMA ServeReadI == ASSUME IInv, ServeRead PROVE IInv'
<1>1. poll.at = "sent" /\ UNCHANGED <<server, up, wire, client, woken>>
  BY DEF ServeRead
<1>2. /\ UNCHANGED <<ordered, reader, events, failure, route>> /\ route' \in BOOLEAN
      /\ failure' \in BOOLEAN /\ woken' \in BOOLEAN /\ HasFailed' = HasFailed
  BY <1>1, ClientSame
<1>3. poll'.at # "failed" => FailedOnce'
  BY <1>1, <1>2 DEF IInv, FailedOnce
<1>4. CASE ~entry
  <2>1. PollEnds("failed")
    BY <1>4 DEF ServeRead, PollEnds
  <2>2. QED
    BY <1>1, <1>2, <1>3, <2>1, PollFailsI
<1>5. CASE entry
  <2>0. PICK p \in Reply : poll' = [poll EXCEPT !.at = "reply", !.reply = p]
    BY <1>5 DEF ServeRead
  <2> DEFINE chunks == {n \in process.output : n > poll.after}
  <2>1. /\ p \in Replies /\ p.next <= process.nextSeq /\ p.closed = process.closed
        /\ p.chunks = chunks
    <3>1. /\ p \in [next : NextSeq(chunks), chunks : {chunks}, closed : {process.closed}]
          /\ chunks \in SUBSET Nat /\ process.closed \in BOOLEAN
      BY <2>0 DEF Reply, IInv, ServerTyped, Processes
    <3>2. NextSeq(chunks) \subseteq {n \in Nat \ {0} : n <= process.nextSeq}
      BY DEF NextSeq, IInv, ServerTyped, Processes, Polled
    <3>3. QED
      BY <3>1, <3>2 DEF Replies
  <2>2. poll \in Polls /\ poll' = [poll EXCEPT !.at = "reply", !.reply = p]
    BY <2>0 DEF IInv, PollTyped
  <2>3. /\ poll' \in Polls /\ poll'.at = "reply" /\ poll'.after = poll.after /\ poll'.got = poll.got
        /\ poll'.reply = p /\ poll'.outcome = poll.outcome
    BY <2>1, <2>2, PollReply
  <2>4. process' = process
    BY <1>1 DEF server
  <2>5. PollSkipsNothing'
    BY <2>3, <2>4 DEF IInv, PollSkipsNothing
  <2>6. Polled'
    <3>1. process.nextSeq \in Nat /\ poll.after \in Nat /\ process.output \subseteq Nat
      BY <2>2 DEF IInv, ServerTyped, Processes, Polls
    <3>2. /\ \A n \in process.output : n < process.nextSeq
          /\ poll.after < process.nextSeq
          /\ poll.outcome = "closed" => process.closed
      BY DEF IInv, Polled
    <3>3. \A n \in process.output : poll.after < n => n \in p.chunks
      BY <2>1, <3>1
    <3>4. p.next <= process.nextSeq
      BY <2>1, <3>1
    <3>5. QED
      BY <2>1, <2>3, <2>4, <3>2, <3>3, <3>4 DEF Polled
  <2>7. QED
    BY <1>1, <1>2, <1>3, <2>3, <2>5, <2>6, PollI
<1>6. QED
  BY <1>4, <1>5

\* The consumer keeps the chunks and moves its cursor.
LEMMA TakeReplyI == ASSUME IInv, TakeReply PROVE IInv'
<1>1. poll.at = "reply" /\ UNCHANGED <<server, up, wire, client, woken>>
  BY DEF TakeReply
<1>2. /\ UNCHANGED <<ordered, reader, events, failure, route>> /\ route' \in BOOLEAN
      /\ failure' \in BOOLEAN /\ woken' \in BOOLEAN /\ HasFailed' = HasFailed
  BY <1>1, ClientSame
<1> DEFINE r == poll.reply
           x == IF r.closed THEN "ended" ELSE "wait"
           o == IF r.closed THEN "closed" ELSE poll.outcome
           g == poll.got \union r.chunks
           n == r.next - 1
<1>3. poll' = [poll EXCEPT !.at = x, !.outcome = o, !.got = g, !.after = n, !.reply = None]
  BY DEF TakeReply
<1>4. /\ r \in Replies /\ r.next <= process.nextSeq
      /\ \A i \in process.output : poll.after < i /\ i < r.next => i \in r.chunks
      /\ r.closed =>
           process.closed /\ \A i \in process.output : poll.after < i => i \in r.chunks
  BY <1>1 DEF IInv, Polled
<1>5. /\ poll \in Polls /\ poll.got \subseteq Nat /\ poll.after \in Nat
      /\ poll.outcome \in {"none", "closed", "failed"}
  BY DEF IInv, PollTyped, Polls
<1>6. r.next \in Nat \ {0} /\ r.chunks \subseteq Nat /\ r.closed \in BOOLEAN
  BY <1>4 DEF Replies
<1>7. /\ x \in PollSteps /\ x \notin {"failed", "reply"} /\ o \in {"none", "closed", "failed"}
      /\ g \in ChunkSets /\ n \in Nat /\ n < r.next
      /\ \A i \in Nat : i <= n <=> i < r.next
  BY <1>5, <1>6 DEF PollSteps, ChunkSets
<1>8. /\ o = "closed" => r.closed \/ poll.outcome = "closed"
      /\ poll.got \subseteq g /\ r.chunks \subseteq g
  OBVIOUS
<1> HIDE DEF x, o, g, n
<1>9. /\ poll' \in Polls /\ poll'.at = x /\ poll'.after = n /\ poll'.got = g
      /\ poll'.outcome = o
  <2> DEFINE a == [poll EXCEPT !.at = x]
  <2>1. a \in Polls /\ a.at = x /\ a.after = poll.after /\ a.got = poll.got /\ a.outcome = poll.outcome
    BY <1>5, <1>7 DEF Polls, ChunkSets
  <2> HIDE DEF a
  <2> DEFINE b == [a EXCEPT !.outcome = o]
  <2>2. b \in Polls /\ b.at = x /\ b.after = poll.after /\ b.got = poll.got /\ b.outcome = o
    BY <2>1, <1>7 DEF Polls, ChunkSets
  <2> HIDE DEF b
  <2> DEFINE c == [b EXCEPT !.got = g]
  <2>3. c \in Polls /\ c.at = x /\ c.after = poll.after /\ c.got = g /\ c.outcome = o
    BY <2>2, <1>7 DEF Polls, ChunkSets
  <2> HIDE DEF c
  <2> DEFINE d == [c EXCEPT !.after = n]
  <2>4. d \in Polls /\ d.at = x /\ d.after = n /\ d.got = g /\ d.outcome = o
    BY <2>3, <1>7 DEF Polls, ChunkSets
  <2> HIDE DEF d
  <2> DEFINE e == [d EXCEPT !.reply = None]
  <2>5. e \in Polls /\ e.at = x /\ e.after = n /\ e.got = g /\ e.outcome = o
    BY <2>4, <1>7 DEF Polls, ChunkSets
  <2> HIDE DEF e
  <2>6. poll' = e
    BY <1>3 DEF a, b, c, d, e
  <2>7. QED
    BY <2>5, <2>6
<1> HIDE DEF r
<1>10. process' = process /\ process.output \subseteq Nat /\ process.nextSeq \in Nat
  BY <1>1 DEF server, IInv, ServerTyped, Processes
<1>11. FailedOnce'
  BY <1>1, <1>2, <1>7, <1>9 DEF IInv, FailedOnce
<1>12. /\ \A i \in process.output : i < process.nextSeq
       /\ \A i \in process.output : i <= poll.after => i \in poll.got
       /\ poll.outcome = "closed" => process.closed /\ process.output \subseteq poll.got
  BY DEF IInv, Polled, PollSkipsNothing
<1>13. \A i \in process.output : i <= n => i \in g
  <2> SUFFICES ASSUME NEW i \in process.output, i <= n PROVE i \in g
    OBVIOUS
  <2>1. i \in Nat /\ i < r.next
    BY <1>7, <1>10
  <2>2. CASE i <= poll.after
    BY <1>8, <1>12, <2>2
  <2>3. CASE poll.after < i
    BY <1>4, <1>8, <2>1, <2>3
  <2>4. QED
    BY <1>5, <2>1, <2>2, <2>3
<1>14. Polled'
  <2>1. n < process.nextSeq
    BY <1>4, <1>6, <1>7, <1>10
  <2>2. o = "closed" => process.closed
    BY <1>4, <1>8, <1>12
  <2>3. QED
    BY <1>7, <1>9, <1>10, <1>12, <2>1, <2>2 DEF Polled
<1>15. PollSkipsNothing'
  <2>1. ASSUME o = "closed", NEW i \in process.output PROVE i \in g
    <3>1. CASE poll.outcome = "closed"
      BY <1>8, <1>12, <3>1
    <3>2. CASE r.closed
      <4>1. i \in Nat /\ (poll.after < i => i \in r.chunks)
        BY <1>4, <1>10, <3>2
      <4>2. QED
        BY <1>5, <1>8, <1>12, <4>1
    <3>3. QED
      BY <1>8, <2>1, <3>1, <3>2
  <2>2. QED
    BY <1>9, <1>10, <1>13, <2>1 DEF PollSkipsNothing
<1>16. QED
  BY <1>1, <1>2, <1>9, <1>11, <1>14, <1>15, PollI

\* The read in flight is lost with the connection.
LEMMA ReadLostI == ASSUME IInv, ReadLost PROVE IInv'
<1>1. /\ UNCHANGED <<server, up, wire, route, ordered, events, failure, reader, woken>>
      /\ poll' = [poll EXCEPT !.at = "fail", !.reply = None] /\ poll \in Polls
  BY DEF ReadLost, IInv, PollTyped
<1>2. /\ poll' \in Polls /\ poll'.at = "fail" /\ poll'.after = poll.after /\ poll'.got = poll.got
      /\ poll'.outcome = poll.outcome
  BY <1>1, PollLost
<1>3. FailedOnce'
  BY <1>1, <1>2 DEF IInv, FailedOnce, HasFailed
<1>4. Polled' /\ PollSkipsNothing'
  BY <1>1, <1>2, CursorSame
<1>5. route' \in BOOLEAN /\ failure' \in BOOLEAN /\ woken' \in BOOLEAN
  BY <1>1 DEF IInv, ClientTyped, PollTyped
<1>6. QED
  BY <1>1, <1>2, <1>3, <1>4, <1>5, PollI

\* set_failure by the polling loop.
LEMMA PollSetsFailureI == ASSUME IInv, PollSetsFailure PROVE IInv'
<1>1. /\ poll.at = "fail" /\ failure' = TRUE /\ woken' = TRUE
      /\ UNCHANGED <<server, up, wire, route, ordered, events, reader>>
      /\ IF failure THEN PollEnds("failed") ELSE PollGoto("failed")
  BY DEF PollSetsFailure, SetFailure
<1>2. route' \in BOOLEAN
  BY <1>1 DEF IInv, ClientTyped
<1>3. CASE failure
  <2>1. poll'.at = "ended" => FailedOnce'
    BY <1>1, <1>3 DEF IInv, FailedOnce, HasFailed
  <2>2. QED
    BY <1>1, <1>2, <1>3, <2>1, PollFailsI
<1>4. CASE ~failure
  <2>1. poll'.at = "failed" => FailedOnce'
    BY <1>1, <1>4 DEF IInv, FailedOnce, HasFailed
  <2>2. "failed" \in PollSteps \ {"reply"} /\ PollGoto("failed")
    BY <1>1, <1>4 DEF PollSteps
  <2>3. QED
    BY <1>1, <1>2, <2>1, <2>2, PollGotoI
<1>5. QED
  BY <1>3, <1>4

\* The polling loop publishes Failed.
LEMMA PollPublishesFailedI == ASSUME IInv, PollPublishesFailed PROVE IInv'
<1>1. /\ poll.at = "failed" /\ PollEnds("failed") /\ PublishFailed
      /\ UNCHANGED <<server, up, wire, route, ordered, failure, reader, woken>>
  BY DEF PollPublishesFailed
<1>2. ~HasFailed /\ failure /\ reader.at # "failed"
  BY <1>1 DEF IInv, FailedOnce
<1>3. poll'.at = "ended" => FailedOnce'
  BY <1>1, <1>2 DEF FailedOnce
<1>4. route' \in BOOLEAN /\ failure' \in BOOLEAN /\ woken' \in BOOLEAN
  BY <1>1 DEF IInv, ClientTyped, PollTyped
<1>5. QED
  BY <1>1, <1>2, <1>3, <1>4, PollFailsI

\* wake_rx.changed.
LEMMA WakeI == ASSUME IInv, Wake PROVE IInv'
<1>1. /\ poll.at = "wait" /\ woken' = FALSE /\ PollGoto("read")
      /\ UNCHANGED <<server, up, wire, client>> /\ "read" \in PollSteps \ {"reply"}
  BY DEF Wake, PollSteps
<1>2. UNCHANGED <<route, ordered, events, failure, reader>>
  BY <1>1 DEF client
<1>3. poll'.at = "read" => FailedOnce'
  BY <1>1, <1>2 DEF IInv, FailedOnce, HasFailed
<1>4. route' \in BOOLEAN /\ failure' \in BOOLEAN /\ woken' \in BOOLEAN
  BY <1>1, <1>2 DEF IInv, ClientTyped
<1>5. QED
  BY <1>1, <1>2, <1>3, <1>4, PollGotoI

\* unregister_session.
LEMMA UnregisterI == ASSUME IInv, Unregister PROVE IInv'
<1>1. /\ poll.at # "failed" /\ PollGoto("dropped") /\ route' = FALSE
      /\ UNCHANGED <<server, up, wire, ordered, events, failure, reader, woken>>
      /\ "dropped" \in PollSteps \ {"reply"}
  BY DEF Unregister, PollSteps
<1>2. poll'.at = "dropped" => FailedOnce'
  BY <1>1 DEF IInv, FailedOnce, HasFailed
<1>3. failure' \in BOOLEAN /\ woken' \in BOOLEAN
  BY <1>1 DEF IInv, ClientTyped, PollTyped
<1>4. QED
  BY <1>1, <1>2, <1>3, PollGotoI

-----------------------------------------------------------------------------
(* The theorems *)

\* A process that has just been started satisfies the invariant.
LEMMA InitI == Init => IInv
<1> SUFFICES ASSUME Init PROVE IInv
  OBVIOUS
<1>1. /\ process = [nextSeq |-> 1, output |-> {}, exited |-> FALSE,
                    openStreams |-> Cardinality(Streams), closed |-> FALSE]
      /\ log = <<>> /\ Len(log) = 0 /\ log \in Seq(Kinds)
      /\ wire = <<>> /\ wire \in Seq(Messages) /\ events = <<>> /\ events \in Seq(Followed)
      /\ Len(events) = 0 /\ Cardinality(Streams) \in Nat
  BY LiveFinite DEF Init
<1>2. Live = Streams /\ pc \in [Tasks -> TaskSteps] /\ \A t \in Tasks : pc[t] = "run"
  <2>1. pc \in [Tasks -> TaskSteps] /\ \A t \in Tasks : pc[t] = "run"
    BY DEF Init, TaskSteps
  <2>2. QED
    BY <2>1, Distinct DEF Live
<1>3. ServerTyped
  <2>1. process \in Processes /\ process.nextSeq = 1
    BY <1>1 DEF Processes
  <2>2. held \in [Tasks -> Sequenced \union {None}] /\ entry \in BOOLEAN
    BY DEF Init
  <2>3. QED
    BY <1>1, <1>2, <2>1, <2>2 DEF ServerTyped
<1>4. WireTyped
  BY <1>1 DEF Init, WireTyped
<1>5. reader.at = "recv" /\ reader.ready = <<>> /\ Len(reader.ready) = 0 /\ reader \in Readers
  BY DEF Init, Readers, ReaderSteps
<1>6. ordered.last = 0 /\ ordered.pending = {} /\ ordered \in Orders
  BY DEF Init, Orders
<1>7. ClientTyped
  BY <1>1, <1>5, <1>6 DEF Init, ClientTyped
<1>8. /\ poll.at \in {"read", "never"} /\ poll.after = 0 /\ poll.got = {} /\ poll.reply = None
      /\ poll.outcome = "none" /\ poll \in Polls
  <2>1. poll \in [at : Consumers, after : {0}, got : {{}}, reply : {None}, outcome : {"none"}]
    BY DEF Init
  <2>2. /\ poll.at \in {"read", "never"} /\ poll.after = 0 /\ poll.got = {} /\ poll.reply = None
        /\ poll.outcome = "none"
    BY <2>1, KindsDistinct
  <2>3. poll.at \in PollSteps /\ poll.after \in Nat /\ poll.got \in SUBSET Nat
    BY <2>2 DEF PollSteps
  <2>4. poll \in [at : PollSteps, after : Nat, got : SUBSET Nat, reply : {None} \union Replies,
                  outcome : {"none", "closed", "failed"}]
    BY <2>1, <2>2, <2>3
  <2>5. QED
    BY <2>2, <2>4 DEF Polls
<1>9. PollTyped
  BY <1>8 DEF Init, PollTyped
<1>10. Counted /\ Logged
  <2>1. process.openStreams = Cardinality(Live) /\ ~process.exited /\ ~process.closed
    BY <1>1, <1>2
  <2>2. QED
    BY <1>1, <2>1 DEF Counted, Logged
<1>11. InFlight
  BY <1>1, <1>2, <1>5, <1>6 DEF InFlight, Sending
<1>12. ~HasFailed /\ Published = 0
  <2>1. ~HasFailed
    BY <1>1 DEF HasFailed
  <2>2. QED
    BY <1>1, <2>1 DEF Published
<1>13. InTurnNext
  BY <1>5, <1>6, <1>12 DEF InTurnNext
<1>14. FailedOnce
  BY <1>5, <1>8, <1>12 DEF FailedOnce
<1>15. Polled /\ PollSkipsNothing
  <2>1. process.output = {} /\ process.nextSeq = 1
    BY <1>1
  <2>2. QED
    BY <1>8, <2>1 DEF Polled, PollSkipsNothing
<1>16. OneFailed /\ InOrder
  BY <1>1 DEF OneFailed, InOrder
<1>17. QED
  BY <1>3, <1>4, <1>7, <1>9, <1>10, <1>11, <1>13, <1>14, <1>15, <1>16 DEF IInv

\* A step of one of the three tasks.
LEMMA TaskStepI == ASSUME IInv, NEW t \in Tasks, TaskStep(t) PROVE IInv'
<1>1. CASE t \in Streams /\ StreamOutput(t)
  BY <1>1, StreamOutputI
<1>2. CASE t \in Streams /\ StreamEnds(t)
  BY <1>2, StreamEndsI
<1>3. CASE t \in Streams /\ FinishOutputStream(t)
  BY <1>3, FinishOutputStreamI
<1>4. CASE WatchExit
  BY <1>4, WatchExitI
<1>5. CASE Notify(t)
  BY <1>5, NotifyI
<1>6. CASE MaybeEmitClosed(t)
  BY <1>6, MaybeEmitClosedI
<1>7. QED
  BY <1>1, <1>2, <1>3, <1>4, <1>5, <1>6 DEF TaskStep

\* A step that changes nothing.
LEMMA StutterI == ASSUME IInv, UNCHANGED vars PROVE IInv'
<1>1. UNCHANGED <<server, up, wire, client, poll, woken>>
  BY DEF vars
<1>2. UNCHANGED <<route, ordered, events, failure, reader>>
  BY <1>1 DEF client
<1>3. WireTyped' /\ ClientTyped' /\ PollTyped'
  BY <1>1, <1>2 DEF IInv, WireTyped, ClientTyped, PollTyped
<1>4. /\ \A i \in DOMAIN wire' : wire'[i] # Gone => Genuine(wire'[i])
      /\ \A e \in ordered'.pending : Genuine(e)
      /\ \A i \in DOMAIN reader'.ready : Genuine(reader'.ready[i])
  BY <1>1, <1>2 DEF IInv, InFlight
<1>5. InTurnNext' /\ FailedOnce' /\ OneFailed' /\ InOrder'
  BY <1>1, <1>2 DEF IInv, InTurnNext, FailedOnce, OneFailed, InOrder, Published, HasFailed, server
<1>6. QED
  BY <1>1, <1>3, <1>4, <1>5, PollSame, ClientI

\* Every step keeps the invariant.
LEMMA StepI == IInv /\ [Next]_vars => IInv'
<1> SUFFICES ASSUME IInv, [Next]_vars PROVE IInv'
  OBVIOUS
<1>1. CASE UNCHANGED vars
  BY <1>1, StutterI
<1>2. CASE \E t \in Tasks : TaskStep(t)
  BY <1>2, TaskStepI
<1>3. CASE Cleanup \/ Shutdown
  BY <1>3, EntryGoesI DEF Cleanup, Shutdown
<1>4. CASE Disconnect
  BY <1>4, DisconnectI
<1>5. CASE ReaderStep
  BY <1>5, ReceiveI, PublishReadyI, RemoveSessionI, ReceiveGoneI, TakeAllSessionsI,
     ReaderSetsFailureI, ReaderPublishesFailedI DEF ReaderStep
<1>6. CASE PollStep
  BY <1>6, BeginReadI, SendReadI, ServeReadI, TakeReplyI, ReadLostI, PollSetsFailureI,
     PollPublishesFailedI, WakeI DEF PollStep
<1>7. CASE Unregister
  BY <1>7, UnregisterI
<1>8. CASE Quiescent
  BY <1>8, StutterI DEF Quiescent
<1>9. QED
  BY <1>1, <1>2, <1>3, <1>4, <1>5, <1>6, <1>7, <1>8 DEF Next

\* The inductive invariant holds in every reachable state.
LEMMA Inductive == Spec => []IInv
BY InitI, StepI, PTL DEF Spec

\* Every variable of the server, the connection, the client and the consumer has its type:
\* in particular the log is as long as the numbers given out, and no count of open streams
\* goes below zero.
THEOREM TypeTheorem == Spec => []TypeOK
<1>1. IInv => TypeOK
  BY TypeIs DEF IInv
<1>2. QED
  BY <1>1, Inductive, PTL

\* Subscribers are given the events of the process in order, without gaps and without
\* repetitions (publish_ordered_event).
THEOREM InOrderTheorem == Spec => []InOrder
<1>1. IInv => InOrder
  BY DEF IInv
<1>2. QED
  BY <1>1, Inductive, PTL

\* A session fails at most once, whether its reader or a read notices first (set_failure).
THEOREM OneFailedTheorem == Spec => []OneFailed
<1>1. IInv => OneFailed
  BY DEF IInv
<1>2. QED
  BY <1>1, Inductive, PTL

\* The polling loop never moves its cursor over a retained chunk that it has not read, and
\* stops on `closed` only when it has them all (exec_read).
THEOREM PollSkipsNothingTheorem == Spec => []PollSkipsNothing
<1>1. IInv => PollSkipsNothing
  BY DEF IInv
<1>2. QED
  BY <1>1, Inductive, PTL

-----------------------------------------------------------------------------
(* The refinement of EventStream *)

\* The mapping of EventStream's `produced`.
Produced == [n \in DOMAIN log |-> Event(n, log[n])]

\* What a step that numbers an event of kind k may do to the log.
Numbering(k) ==
    /\ ~process.closed
    /\ k = "Exited" => ~process.exited
    /\ k = "Closed" => process.exited
    /\ log' = Append(log, k) /\ UNCHANGED events

\* Sequences with the same elements are equal.
LEMMA SameElements ==
    ASSUME NEW S, NEW s \in Seq(S), NEW t \in Seq(S), Len(s) = Len(t),
           \A i \in 1..Len(s) : s[i] = t[i]
    PROVE  s = t
<1>1. DOMAIN s = 1..Len(s) /\ DOMAIN t = 1..Len(s)
  OBVIOUS
<1>2. s = [i \in DOMAIN s |-> s[i]] /\ t = [i \in DOMAIN t |-> t[i]]
  OBVIOUS
<1>3. QED
  BY <1>1, <1>2

\* A function on 1..n with values in S is a sequence.
LEMMA FunctionIsSeq ==
    ASSUME NEW S, NEW n \in Nat, NEW f, f \in [1..n -> S]
    PROVE  f \in Seq(S) /\ Len(f) = n /\ DOMAIN f = 1..n
OBVIOUS

\* The numbered events are a sequence.
LEMMA ProducedIs ==
    ASSUME log \in Seq(Kinds)
    PROVE  /\ Produced \in Seq(Sequenced) /\ Len(Produced) = Len(log) /\ Len(log) \in Nat
           /\ DOMAIN log = 1..Len(log) /\ DOMAIN Produced = DOMAIN log
           /\ \A n \in DOMAIN log : Produced[n] = Event(n, log[n]) /\ Produced[n].kind = log[n]
<1>1. Len(log) \in Nat /\ DOMAIN log = 1..Len(log) /\ \A n \in DOMAIN log : log[n] \in Kinds
  BY ElementsIn
<1>2. \A n \in DOMAIN log : Event(n, log[n]) \in Sequenced
  BY <1>1 DEF Event, Sequenced
<1>3. Produced \in [1..Len(log) -> Sequenced]
  BY <1>1, <1>2 DEF Produced
<1>4. /\ Produced \in Seq(Sequenced) /\ Len(Produced) = Len(log)
      /\ DOMAIN Produced = 1..Len(log)
  BY <1>1, <1>3, FunctionIsSeq
<1>5. \A n \in DOMAIN log : Produced[n] = Event(n, log[n]) /\ Produced[n].kind = log[n]
  BY DEF Produced, Event
<1>6. QED
  BY <1>1, <1>4, <1>5

\* What is left of a sequence of events without Failed is a sequence.
LEMMA SkipsFailed ==
    ASSUME NEW ev \in Seq(Followed), NEW p \in Nat, p <= Len(ev),
           p < Len(ev) \/ \A j \in 1..p : ev[j] # Failed
    PROVE  LET W == [i \in 1..p |-> IF \E j \in 1..i : ev[j] = Failed THEN ev[i + 1] ELSE ev[i]]
           IN  W \in Seq(Followed) /\ Len(W) = p /\ DOMAIN W = 1..p
<1> DEFINE W == [i \in 1..p |-> IF \E j \in 1..i : ev[j] = Failed THEN ev[i + 1] ELSE ev[i]]
<1>1. Len(ev) \in Nat /\ DOMAIN ev = 1..Len(ev)
  OBVIOUS
<1>2. \A i \in 1..Len(ev) : ev[i] \in Followed
  BY <1>1, ElementsIn
<1>3. ASSUME NEW i \in 1..p
      PROVE  (IF \E j \in 1..i : ev[j] = Failed THEN ev[i + 1] ELSE ev[i]) \in Followed
  <2>1. i \in 1..Len(ev)
    BY <1>1
  <2>2. CASE \E j \in 1..i : ev[j] = Failed
    <3>1. \A j \in 1..i : j \in 1..p
      OBVIOUS
    <3>2. p < Len(ev)
      BY <2>2, <3>1
    <3>3. i + 1 \in 1..Len(ev)
      BY <1>1, <3>2
    <3>4. QED
      BY <1>2, <2>2, <3>3
  <2>3. CASE ~\E j \in 1..i : ev[j] = Failed
    BY <1>2, <2>1, <2>3
  <2>4. QED
    BY <2>2, <2>3
<1>4. W \in [1..p -> Followed]
  BY <1>3
<1> HIDE DEF W
<1>5. W \in Seq(Followed) /\ Len(W) = p /\ DOMAIN W = 1..p
  BY <1>4, FunctionIsSeq
<1>6. QED
  BY <1>5 DEF W

\* Where the events without Failed end.
LEMMA Shorter ==
    \A n \in Nat : n - 1 < n /\ n - 1 <= n /\ n <= n /\ (n - 1) + 1 <= n + 1 /\ n + 1 <= n + 1
OBVIOUS

\* The events given to subscribers are a sequence.
LEMMA SeenIs ==
    ASSUME events \in Seq(Followed), OneFailed
    PROVE  /\ WithoutFailed \in Seq(Followed) /\ Len(WithoutFailed) = Published
           /\ DOMAIN WithoutFailed = 1..Published
           /\ \A i \in 1..Published :
                WithoutFailed[i] = IF \E j \in 1..i : events[j] = Failed THEN events[i + 1] ELSE events[i]
<1>1. /\ Len(events) \in Nat /\ DOMAIN events = 1..Len(events) /\ Published \in Nat
      /\ HasFailed => Published = Len(events) - 1
      /\ ~HasFailed => Published = Len(events)
  BY PublishedIs
<1>2. Len(events) \in Nat
  BY <1>1, ZenonT(60)
<1>3. CASE HasFailed
  <2>1. Published = Len(events) - 1
    BY <1>1, <1>3, ZenonT(60)
  <2>2. Published < Len(events) /\ Published <= Len(events)
    BY <1>2, <2>1, Shorter, ZenonT(60)
  <2>3. QED
    BY <1>1, <2>2, SkipsFailed DEF WithoutFailed
<1>4. CASE ~HasFailed
  <2>1. Published = Len(events)
    BY <1>1, <1>4, ZenonT(60)
  <2>2. \A j \in 1..Published : events[j] # Failed
    BY <1>1, <1>4, <2>1 DEF HasFailed
  <2>3. Published <= Len(events)
    BY <1>2, <2>1, Shorter, ZenonT(60)
  <2>4. QED
    BY <1>1, <2>2, <2>3, SkipsFailed DEF WithoutFailed
<1>5. QED
  BY <1>3, <1>4

\* A numbered event is produced.
LEMMA NumberingProduces ==
    ASSUME IInv, NEW k \in Kinds, Numbering(k)
    PROVE  Stream!Produce(k)
<1>1. log \in Seq(Kinds) /\ log' = Append(log, k)
  BY DEF IInv, ServerTyped, Numbering
<1>2. /\ log' \in Seq(Kinds) /\ Len(log') = Len(log) + 1 /\ Len(log) \in Nat
      /\ DOMAIN log = 1..Len(log) /\ DOMAIN log' = 1..(Len(log) + 1)
      /\ \A n \in DOMAIN log : n \in DOMAIN log' /\ log'[n] = log[n]
      /\ \A n \in DOMAIN log' : n \in DOMAIN log \/ log'[n] = k
      /\ log'[Len(log) + 1] = k /\ Len(log) + 1 \in DOMAIN log'
  BY <1>1, LogGrows
<1>3. /\ Produced \in Seq(Sequenced) /\ Len(Produced) = Len(log)
      /\ DOMAIN Produced = DOMAIN log
      /\ \A n \in DOMAIN log : Produced[n] = Event(n, log[n]) /\ Produced[n].kind = log[n]
  BY <1>1, ProducedIs
<1> DEFINE Q == [n \in DOMAIN log' |-> Event(n, log'[n])]
           new == Event(Len(log) + 1, k)
           R == Append(Produced, new)
<1>4. new \in Sequenced
  BY <1>2 DEF Event, Sequenced
<1>5. \A n \in DOMAIN log' : log'[n] \in Kinds /\ n \in Nat \ {0}
  BY <1>2, ElementsIn
<1>6. Q \in Seq(Sequenced) /\ Len(Q) = Len(log) + 1 /\ \A n \in DOMAIN log' : Q[n] = Event(n, log'[n])
  <2>1. \A n \in DOMAIN log' : Event(n, log'[n]) \in Sequenced
    BY <1>5 DEF Event, Sequenced
  <2>2. Q \in [1..(Len(log) + 1) -> Sequenced]
    BY <1>2, <2>1
  <2>3. Len(log) + 1 \in Nat
    BY <1>2
  <2>4. \A n \in DOMAIN log' : Q[n] = Event(n, log'[n])
    OBVIOUS
  <2> HIDE DEF Q
  <2>5. QED
    BY <2>2, <2>3, <2>4, FunctionIsSeq
<1>7. /\ R \in Seq(Sequenced) /\ Len(R) = Len(log) + 1
      /\ \A n \in DOMAIN log : R[n] = Produced[n]
      /\ R[Len(log) + 1] = new
  BY <1>3, <1>4, AppendIs
<1> HIDE DEF Q, R
<1>8. Q = R
  <2>1. \A n \in 1..(Len(log) + 1) : Q[n] = R[n]
    <3> SUFFICES ASSUME NEW n \in 1..(Len(log) + 1) PROVE Q[n] = R[n]
      OBVIOUS
    <3>1. CASE n \in DOMAIN log
      BY <1>2, <1>3, <1>6, <1>7, <3>1
    <3>2. CASE n = Len(log) + 1
      BY <1>2, <1>6, <1>7, <3>2
    <3>3. QED
      BY <1>2, <3>1, <3>2
  <2>2. QED
    BY <1>6, <1>7, <2>1, SameElements
<1>9. ASSUME NEW x PROVE (\E i \in DOMAIN Produced : Produced[i].kind = x)
                          <=> (\E i \in DOMAIN log : log[i] = x)
  BY <1>3
<1>10. /\ ~\E i \in DOMAIN Produced : Produced[i].kind = "Closed"
       /\ k = "Exited" => ~\E i \in DOMAIN Produced : Produced[i].kind = "Exited"
       /\ k = "Closed" => \E i \in DOMAIN Produced : Produced[i].kind = "Exited"
  BY <1>9 DEF IInv, Logged, Numbering
<1>11. UNCHANGED WithoutFailed
  BY DEF Numbering, WithoutFailed, Published, HasFailed
<1>12. Q = Append(Produced, [seq |-> Len(Produced) + 1, kind |-> k])
  BY <1>3, <1>8 DEF R, Event
<1>13. QED
  BY <1>10, <1>11, <1>12 DEF Stream!Produce, Stream!Has, Produced, Q

\* The next event that is published is delivered.
LEMMA PublishDelivers == ASSUME IInv, PublishReady PROVE Stream!Deliver
<1> DEFINE e == Head(reader.ready)
           L == Len(events)
           P == Published
<1>1. /\ events' = Append(events, e) /\ log' = log /\ log \in Seq(Kinds)
      /\ events \in Seq(Followed) /\ OneFailed /\ InOrder
      /\ reader.ready \in Seq(Sequenced) /\ reader.ready # <<>>
  BY DEF PublishReady, server, IInv, ServerTyped, ClientTyped, Readers, InTurnNext
<1>2. /\ L \in Nat /\ DOMAIN events = 1..L /\ P \in Nat
      /\ HasFailed => P = L - 1
      /\ ~HasFailed => P = L
  BY <1>1, PublishedIs
<1>3. e \in Sequenced /\ e # Failed /\ e.seq = P + 1 /\ Genuine(e) /\ e \in Followed
  <2>1. e \in Sequenced /\ e = reader.ready[1] /\ 1 \in DOMAIN reader.ready
    BY <1>1, TailIs
  <2>2. e.seq = P + 1 /\ Genuine(e)
    BY <2>1 DEF IInv, InTurnNext, InFlight
  <2>3. QED
    BY <2>1, <2>2, Distinct DEF Followed
<1>4. /\ events' \in Seq(Followed) /\ OneFailed'
      /\ HasFailed' = HasFailed /\ Published' = P + 1
  BY <1>1, <1>3, PublishesNext
<1>5. /\ \A i \in 1..L : events'[i] = events[i]
      /\ events'[L + 1] = e
  BY <1>1, <1>3, AppendIs
<1>6. /\ WithoutFailed \in Seq(Followed) /\ Len(WithoutFailed) = P
      /\ DOMAIN WithoutFailed = 1..P
      /\ \A i \in 1..P :
           WithoutFailed[i] = IF \E j \in 1..i : events[j] = Failed THEN events[i + 1] ELSE events[i]
  BY <1>1, SeenIs
<1> DEFINE W == WithoutFailed'
           X == Append(WithoutFailed, e)
<1>7. /\ W \in Seq(Followed) /\ Len(W) = P + 1
      /\ \A i \in 1..(P + 1) :
           W[i] = IF \E j \in 1..i : events'[j] = Failed THEN events'[i + 1] ELSE events'[i]
  <2>1. Len(events') = L + 1
    BY <1>1, <1>3, AppendIs
  <2>2. Published' \in Nat /\ Published' <= Len(events')
    <3>1. P = L - 1 \/ P = L
      BY <1>2, ZenonT(60)
    <3>2. L \in Nat /\ P \in Nat
      BY <1>2
    <3>3. Published' = P + 1
      BY <1>4
    <3>4. Published' <= Len(events')
      BY <2>1, <3>1, <3>2, <3>3, Shorter, ZenonT(60)
    <3>5. QED
      BY <3>2, <3>3, <3>4
  <2>3. Published' < Len(events') \/ \A j \in 1..Published' : events'[j] # Failed
    <3>1. CASE HasFailed
      BY <1>2, <1>4, <2>1, <3>1
    <3>2. CASE ~HasFailed
      <4>1. \A j \in 1..Published' : j \in DOMAIN events'
        BY <1>2, <1>4, <2>1, <3>2
      <4>2. QED
        BY <1>4, <3>2, <4>1 DEF HasFailed
    <3>3. QED
      BY <3>1, <3>2
  <2>4. W \in Seq(Followed) /\ Len(W) = Published'
    BY <1>4, <2>2, <2>3, SkipsFailed DEF WithoutFailed
  <2>5. \A i \in 1..Published' :
           W[i] = IF \E j \in 1..i : events'[j] = Failed THEN events'[i + 1] ELSE events'[i]
    BY DEF WithoutFailed
  <2>6. QED
    BY <1>4, <2>4, <2>5
<1>8. /\ X \in Seq(Followed) /\ Len(X) = P + 1
      /\ \A i \in 1..P : X[i] = WithoutFailed[i]
      /\ X[P + 1] = e
  BY <1>3, <1>6, AppendIs
<1> HIDE DEF W, X, e, P, L
<1>9. W = X
  <2>1. ASSUME NEW i \in 1..P PROVE W[i] = X[i]
    <3>1. i \in 1..L /\ i \in 1..(P + 1) /\ \A j \in 1..i : j \in 1..L
      BY <1>2
    <3>2. (\E j \in 1..i : events'[j] = Failed) <=> (\E j \in 1..i : events[j] = Failed)
      BY <1>5, <3>1
    <3>3. CASE \E j \in 1..i : events[j] = Failed
      <4>1. HasFailed
        BY <1>2, <3>1, <3>3 DEF HasFailed
      <4>2. i + 1 \in 1..L
        BY <1>2, <4>1
      <4>3. W[i] = events'[i + 1] /\ X[i] = events[i + 1]
        BY <1>6, <1>7, <1>8, <3>1, <3>2, <3>3
      <4>4. QED
        BY <1>5, <4>2, <4>3
    <3>4. CASE ~\E j \in 1..i : events[j] = Failed
      <4>1. W[i] = events'[i] /\ X[i] = events[i]
        BY <1>6, <1>7, <1>8, <3>1, <3>2, <3>4
      <4>2. QED
        BY <1>5, <3>1, <4>1
    <3>5. QED
      BY <3>3, <3>4
  <2>2. W[P + 1] = e
    <3>1. P + 1 \in 1..(P + 1)
      BY <1>2
    <3>2. CASE HasFailed
      <4>1. P + 1 = L
        BY <1>2, <3>2
      <4>2. \E j \in 1..(P + 1) : events'[j] = Failed
        BY <1>2, <1>5, <3>2, <4>1 DEF HasFailed
      <4>3. W[P + 1] = events'[(P + 1) + 1]
        BY <1>7, <3>1, <4>2
      <4>4. QED
        BY <1>5, <4>1, <4>3
    <3>3. CASE ~HasFailed
      <4>1. P + 1 = L + 1
        BY <1>2, <3>3
      <4>2. \A j \in 1..(P + 1) : j \in 1..L \/ j = L + 1
        BY <1>2, <4>1
      <4>3. ~\E j \in 1..(P + 1) : events'[j] = Failed
        BY <1>2, <1>3, <1>5, <3>3, <4>2 DEF HasFailed
      <4>4. W[P + 1] = events'[P + 1]
        BY <1>7, <3>1, <4>3
      <4>5. QED
        BY <1>5, <4>1, <4>4
    <3>4. QED
      BY <3>2, <3>3
  <2>3. \A i \in 1..(P + 1) : i \in 1..P \/ i = P + 1
    BY <1>2
  <2>4. \A i \in 1..(P + 1) : W[i] = X[i]
    BY <1>8, <2>1, <2>2, <2>3
  <2>5. QED
    BY <1>7, <1>8, <2>4, SameElements
<1>10. /\ Len(Produced) = Len(log) /\ Len(log) \in Nat /\ DOMAIN log = 1..Len(log)
       /\ \A n \in DOMAIN log : Produced[n] = Event(n, log[n])
  BY <1>1, ProducedIs
<1>11. P + 1 \in DOMAIN log /\ e = Produced[P + 1]
  <2>1. P + 1 \in DOMAIN log /\ e.kind = log[P + 1]
    BY <1>3 DEF Genuine
  <2>2. e = [seq |-> P + 1, kind |-> log[P + 1]]
    BY <1>3, <2>1 DEF Sequenced
  <2>3. QED
    BY <1>10, <2>1, <2>2 DEF Event
<1>12. Len(WithoutFailed) < Len(Produced)
  BY <1>2, <1>6, <1>10, <1>11
<1>13. WithoutFailed' = Append(WithoutFailed, Produced[Len(WithoutFailed) + 1])
  BY <1>6, <1>9, <1>11 DEF W, X
<1>14. UNCHANGED Produced
  BY <1>1 DEF Produced
<1>15. QED
  BY <1>12, <1>13, <1>14 DEF Stream!Deliver, Produced

\* The subscriber has seen as much of the process when Failed is published.
LEMMA FailedIsInvisible ==
    ASSUME IInv, PublishFailed, ~HasFailed, UNCHANGED log
    PROVE  UNCHANGED <<Produced, WithoutFailed>>
<1> DEFINE L == Len(events)
<1>1. events \in Seq(Followed) /\ InOrder /\ OneFailed /\ events' = Append(events, Failed) /\ Failed \in Followed
  BY DEF IInv, ClientTyped, PublishFailed, Followed
<1>2. L \in Nat /\ DOMAIN events = 1..L /\ Published = L
  BY <1>1, PublishedIs
<1>3. Published' = L
  BY <1>1, <1>2, PublishesFailed
<1>4. \A i \in 1..L : events'[i] = events[i] /\ events[i] # Failed
  <2>1. \A i \in 1..L : events'[i] = events[i]
    BY <1>1, <1>2, AppendIs
  <2>2. \A i \in 1..L : events[i] # Failed
    BY <1>2 DEF HasFailed
  <2>3. QED
    BY <2>1, <2>2
<1> HIDE DEF L
<1>5. \A i \in 1..L : \A j \in 1..i : j \in 1..L
  BY <1>2
<1>6. \A i \in 1..L : /\ ~\E j \in 1..i : events'[j] = Failed
                      /\ ~\E j \in 1..i : events[j] = Failed
  BY <1>4, <1>5
<1>7. WithoutFailed = [i \in 1..L |-> events[i]]
  BY <1>2, <1>6 DEF WithoutFailed
<1>8. WithoutFailed' = [i \in 1..L |-> events'[i]]
  BY <1>3, <1>6 DEF WithoutFailed
<1>9. WithoutFailed' = WithoutFailed
  BY <1>4, <1>7, <1>8
<1>10. QED
  BY <1>9 DEF Produced

\* A task that gives out a number finds the process open, and at most one Exited.
LEMMA NumbersNext ==
    ASSUME IInv, NEW t \in Tasks, TaskStep(t)
    PROVE  UNCHANGED <<log, events>> \/ \E k \in Kinds : Numbering(k)
<1>1. CASE t \in Streams /\ StreamOutput(t) /\ entry
  <2>1. t \in Kinds /\ t # "Exited" /\ t # "Closed"
    BY <1>1, Distinct
  <2>2. t \in Live
    BY <1>1 DEF StreamOutput, Live
  <2>3. ~process.closed
    BY <2>2 DEF IInv, Counted
  <2>4. log' = Append(log, t) /\ UNCHANGED events
    BY <1>1 DEF StreamOutput, Number, client
  <2>5. Numbering(t)
    BY <2>1, <2>3, <2>4 DEF Numbering
  <2>6. QED
    BY <2>1, <2>5
<1>2. CASE t = Exit /\ WatchExit /\ entry
  <2>1. "Exited" \in Kinds /\ "Exited" # "Closed"
    BY Distinct
  <2>2. ~process.exited /\ ~process.closed
    BY <1>2 DEF WatchExit, IInv, Counted
  <2>3. log' = Append(log, "Exited") /\ UNCHANGED events
    BY <1>2 DEF WatchExit, Number, client
  <2>4. Numbering("Exited")
    BY <2>1, <2>2, <2>3 DEF Numbering
  <2>5. QED
    BY <2>1, <2>4
<1>3. CASE MaybeEmitClosed(t) /\ entry /\ ~process.closed /\ process.openStreams = 0 /\ process.exited
  <2>1. "Closed" \in Kinds /\ "Exited" # "Closed"
    BY Distinct
  <2>2. log' = Append(log, "Closed") /\ UNCHANGED events
    BY <1>3 DEF MaybeEmitClosed, Number, client
  <2>3. Numbering("Closed")
    BY <1>3, <2>1, <2>2 DEF Numbering
  <2>4. QED
    BY <2>1, <2>3
<1>4. CASE t \in Streams /\ StreamOutput(t) /\ ~entry
  BY <1>4 DEF StreamOutput, Leave, client
<1>5. CASE t = Exit /\ WatchExit /\ ~entry
  BY <1>5 DEF WatchExit, Leave, client
<1>6. CASE MaybeEmitClosed(t) /\ ~(entry /\ ~process.closed /\ process.openStreams = 0 /\ process.exited)
  BY <1>6 DEF MaybeEmitClosed, Leave, client
<1>7. CASE t \in Streams /\ (StreamEnds(t) \/ FinishOutputStream(t))
  BY <1>7 DEF StreamEnds, FinishOutputStream, Leave, client
<1>8. CASE Notify(t)
  BY <1>8 DEF Notify, client
<1>9. QED
  BY <1>1, <1>2, <1>3, <1>4, <1>5, <1>6, <1>7, <1>8 DEF TaskStep

\* What a step may do that a subscriber, or the order of the events, can tell.
LEMMA Visible ==
    ASSUME IInv, [Next]_vars
    PROVE  \/ UNCHANGED <<log, events>>
           \/ \E k \in Kinds : Numbering(k)
           \/ PublishReady
           \/ PublishFailed /\ ~HasFailed /\ UNCHANGED log
<1>1. CASE UNCHANGED vars
  BY <1>1 DEF vars, server, client
<1>2. CASE \E t \in Tasks : TaskStep(t)
  BY <1>2, NumbersNext
<1>3. CASE Cleanup \/ Shutdown \/ Disconnect
  BY <1>3 DEF Cleanup, Shutdown, Disconnect, server, client
<1>4. CASE Receive \/ RemoveSession \/ ReceiveGone \/ TakeAllSessions
  BY <1>4 DEF Receive, RemoveSession, ReceiveGone, TakeAllSessions, server
<1>5. CASE ReaderSetsFailure \/ PollSetsFailure
  BY <1>5 DEF ReaderSetsFailure, PollSetsFailure, SetFailure, server
<1>6. CASE ReaderPublishesFailed \/ PollPublishesFailed
  BY <1>6 DEF ReaderPublishesFailed, PollPublishesFailed, IInv, FailedOnce, server
<1>7. CASE BeginRead \/ SendRead \/ ServeRead \/ TakeReply \/ ReadLost \/ Wake
  BY <1>7 DEF BeginRead, SendRead, ServeRead, TakeReply, ReadLost, Wake, server, client
<1>8. CASE Unregister
  BY <1>8 DEF Unregister, server
<1>9. CASE Quiescent
  BY <1>9 DEF Quiescent, vars, server, client
<1>10. QED
  BY <1>1, <1>2, <1>3, <1>4, <1>5, <1>6, <1>7, <1>8, <1>9 DEF Next, ReaderStep, PollStep

\* The initial states are initial states of EventStream.
LEMMA StreamInit == Init => Stream!Init
<1> SUFFICES ASSUME Init PROVE Stream!Init
  OBVIOUS
<1>1. log = <<>> /\ events = <<>> /\ log \in Seq(Kinds) /\ Len(log) = 0 /\ Len(events) = 0
  BY DEF Init
<1>2. Produced = <<>>
  <2>1. Produced \in Seq(Sequenced) /\ Len(Produced) = 0
    BY <1>1, ProducedIs
  <2>2. QED
    BY <2>1
<1>3. WithoutFailed = <<>>
  <2>1. ~HasFailed
    BY <1>1 DEF HasFailed
  <2>2. events \in Seq(Followed) /\ OneFailed /\ Published = 0
    BY <1>1, <2>1 DEF OneFailed, Published
  <2>3. WithoutFailed \in Seq(Followed) /\ Len(WithoutFailed) = 0
    BY <2>2, SeenIs
  <2>4. QED
    BY <2>3
<1>4. QED
  BY <1>2, <1>3 DEF Stream!Init, Produced

\* Every step is a step of EventStream, or one that it does not see.
LEMMA StreamStep == IInv /\ [Next]_vars => [Stream!Next]_<<Produced, WithoutFailed>>
<1> SUFFICES ASSUME IInv, [Next]_vars PROVE [Stream!Next]_<<Produced, WithoutFailed>>
  OBVIOUS
<1>1. CASE UNCHANGED <<log, events>>
  BY <1>1 DEF Produced, WithoutFailed, Published, HasFailed
<1>2. CASE \E k \in Kinds : Numbering(k)
  <2>1. PICK k \in Kinds : Numbering(k)
    BY <1>2
  <2>2. Stream!Produce(k)
    BY <2>1, NumberingProduces
  <2>3. QED
    BY <2>1, <2>2 DEF Stream!Next, Kinds
<1>3. CASE PublishReady
  <2>1. Stream!Deliver
    BY <1>3, PublishDelivers
  <2>2. QED
    BY <2>1 DEF Stream!Next
<1>4. CASE PublishFailed /\ ~HasFailed /\ UNCHANGED log
  BY <1>4, FailedIsInvisible
<1>5. QED
  BY <1>1, <1>2, <1>3, <1>4, Visible

\* The server's three tasks, the connection, the reordering client and its two ways to fail
\* implement EventStream: one sequence of events with one Exited, closed once and last, which
\* subscribers see from its start, in order and without gaps.
THEOREM StreamTheorem == Spec => StreamSpec
<1>1. [Stream!Next]_<<Produced, WithoutFailed>> =>
        [Stream!Next]_<<[n \in DOMAIN log |-> Event(n, log[n])], WithoutFailed>>
  BY DEF Produced
<1>2. QED
  BY <1>1, Inductive, StreamInit, StreamStep, PTL DEF Spec, StreamSpec, Stream!Spec

=============================================================================
