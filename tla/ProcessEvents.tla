--------------------------- MODULE ProcessEvents ---------------------------
(* One process of an exec-server, from the tasks that number its events on the  *)
(* server (exec-server/src/local_process.rs) over one connection to the client  *)
(* that restores their order (exec-server/src/client.rs) and to the two kinds   *)
(* of consumer: subscribers of the pushed events and the polling loop of        *)
(* core/src/unified_exec/process.rs.                                            *)
(*                                                                              *)
(* Two tasks copy the output streams and a third watches for the exit.  Each    *)
(* takes the next sequence number under the lock of the process map and sends   *)
(* its notification after releasing it, so notifications overtake each other.   *)
(* A step is one critical section or one send.  A chunk of output is one byte.  *)
EXTENDS Integers, Sequences, FiniteSets

CONSTANTS
    Streams,      \* the output streams: stdout and stderr, or the two of a pty
    Exit,         \* the task that watches for the exit
    Chunks,       \* bound: chunks of output the child may write
    Retained,     \* RETAINED_OUTPUT_BYTES_PER_PROCESS, in chunks
    Consumers     \* "read": unified exec polls; "never": MCP only subscribes

ASSUME StreamsFinite == IsFiniteSet(Streams) /\ Exit \notin Streams
ASSUME KindsDistinct ==
    /\ {"Exited", "Closed", "Failed", "Disconnected"} \intersect Streams = {}
    /\ Chunks \in Nat /\ Retained \in Nat /\ Consumers \subseteq {"read", "never"}

VARIABLES
    \* server
    entry,        \* is the ProcessEntry::Running still in the map?
    process,      \* RunningProcess
    log,          \* its event log: the kind of the event with each number
    pc, held,     \* the three tasks: control, and the notification to send
    \* transport
    up,           \* the connection
    wire,         \* sent and not yet handled by the client's reader task
    \* client
    route,        \* the session is in the client's `sessions` map
    ordered,      \* OrderedSessionEvents
    events,       \* the ExecProcessEventLog that subscribers follow
    failure,      \* SessionState.failure is Some
    reader,       \* the reader task: control and locals
    \* the polling consumer
    poll, woken   \* its control and locals, and the changed flag of wake_rx

server == <<entry, process, log, pc, held>>
client == <<route, ordered, events, failure, reader>>
vars == <<server, up, wire, client, poll, woken>>

Tasks == Streams \union {Exit}
Kinds == Streams \union {"Exited", "Closed"}
Event(n, k) == [seq |-> n, kind |-> k]
Sequenced == [seq : Nat \ {0}, kind : Kinds]
\* Unsequenced: the client's own Failed, and the end of the connection.
Failed == Event(0, "Failed")
Gone == Event(0, "Disconnected")
None == Event(0, "None")

\* Numbers of the output chunks.
Outputs == {n \in DOMAIN log : log[n] \in Streams}

-----------------------------------------------------------------------------
\* The process has just been started and its session registered.
Init ==
    /\ entry = TRUE
    /\ process = [nextSeq |-> 1, output |-> {}, exited |-> FALSE,
                  openStreams |-> Cardinality(Streams), closed |-> FALSE]
    /\ log = <<>>
    /\ pc = [t \in Tasks |-> "run"]
    /\ held = [t \in Tasks |-> None]
    /\ up = TRUE
    /\ wire = <<>>
    /\ route = TRUE
    /\ ordered = [last |-> 0, pending |-> {}]
    /\ events = <<>>
    /\ failure = FALSE
    /\ reader = [at |-> "recv", ready |-> <<>>, closed |-> FALSE]
    /\ poll \in [at : Consumers, after : {0}, got : {{}}, reply : {None}, outcome : {"none"}]
    /\ woken = FALSE

-----------------------------------------------------------------------------
(* Server *)

\* The next event gets its number and enters the log of the process.
Number(t, k, next) ==
    /\ log' = Append(log, k)
    /\ held' = [held EXCEPT ![t] = Event(process.nextSeq, k)]
    /\ pc' = [pc EXCEPT ![t] = next]

Leave(t, next) ==
    /\ pc' = [pc EXCEPT ![t] = next]
    /\ UNCHANGED <<process, log, held>>

\* The oldest chunks go while the retained ones exceed the limit.
Newest(chunks) ==
    {n \in chunks : Cardinality({m \in chunks : m >= n}) <= Retained}

\* stream_output, a chunk arrives.  A task whose process is gone breaks.
StreamOutput(s) ==
    /\ pc[s] = "run"
    /\ Cardinality(Outputs) < Chunks
    /\ IF entry
       THEN /\ Number(s, s, "notify")
            /\ process' = [process EXCEPT
                             !.nextSeq = @ + 1,
                             !.output = Newest(@ \union {process.nextSeq})]
       ELSE Leave(s, "finish")
    /\ UNCHANGED <<entry, up, wire, client, poll, woken>>

\* stream_output, end of the stream.
StreamEnds(s) ==
    /\ pc[s] = "run"
    /\ Leave(s, "finish")
    /\ UNCHANGED <<entry, up, wire, client, poll, woken>>

\* Faulty: the exit does not use up its number.
FaultyWatchExit ==
    /\ pc[Exit] = "run"
    /\ IF entry
       THEN /\ Number(Exit, "Exited", "notify")
            /\ process' = [process EXCEPT !.exited = TRUE]
       ELSE Leave(Exit, "close")
    /\ UNCHANGED <<entry, up, wire, client, poll, woken>>

\* watch_exit.
WatchExit ==
    /\ pc[Exit] = "run"
    /\ IF entry
       THEN /\ Number(Exit, "Exited", "notify")
            /\ process' = [process EXCEPT !.nextSeq = @ + 1, !.exited = TRUE]
       ELSE Leave(Exit, "close")
    /\ UNCHANGED <<entry, up, wire, client, poll, woken>>

\* Faulty: the closing is not notified.
FaultyNotify(t) ==
    /\ pc[t] \in {"notify", "notifyClosed"}
    /\ wire' = IF up /\ pc[t] = "notify" THEN Append(wire, held[t]) ELSE wire
    /\ held' = [held EXCEPT ![t] = None]
    /\ pc' = [pc EXCEPT ![t] = IF @ = "notifyClosed" THEN "done"
                               ELSE IF t = Exit THEN "close" ELSE "run"]
    /\ UNCHANGED <<entry, process, log, up, client, poll, woken>>

\* The notification goes out on the connection, if there still is one.
Notify(t) ==
    /\ pc[t] \in {"notify", "notifyClosed"}
    /\ wire' = IF up THEN Append(wire, held[t]) ELSE wire
    /\ held' = [held EXCEPT ![t] = None]
    /\ pc' = [pc EXCEPT ![t] = IF @ = "notifyClosed" THEN "done"
                               ELSE IF t = Exit THEN "close" ELSE "run"]
    /\ UNCHANGED <<entry, process, log, up, client, poll, woken>>

\* finish_output_stream.
FinishOutputStream(s) ==
    /\ pc[s] = "finish"
    /\ IF entry
       THEN /\ process' = [process EXCEPT !.openStreams = IF @ > 0 THEN @ - 1 ELSE @]
            /\ pc' = [pc EXCEPT ![s] = "close"]
            /\ UNCHANGED <<log, held>>
       ELSE Leave(s, "done")
    /\ UNCHANGED <<entry, up, wire, client, poll, woken>>

\* Faulty: the first task to finish closes the process.
FaultyMaybeEmitClosed(t) ==
    /\ pc[t] = "close"
    /\ IF entry /\ ~process.closed
       THEN /\ Number(t, "Closed", "notifyClosed")
            /\ process' = [process EXCEPT !.nextSeq = @ + 1, !.closed = TRUE]
       ELSE Leave(t, "done")
    /\ UNCHANGED <<entry, up, wire, client, poll, woken>>

\* maybe_emit_closed: the last of the three tasks closes the process.
MaybeEmitClosed(t) ==
    /\ pc[t] = "close"
    /\ IF entry /\ ~process.closed /\ process.openStreams = 0 /\ process.exited
       THEN /\ Number(t, "Closed", "notifyClosed")
            /\ process' = [process EXCEPT !.nextSeq = @ + 1, !.closed = TRUE]
       ELSE Leave(t, "done")
    /\ UNCHANGED <<entry, up, wire, client, poll, woken>>

\* The retention of a closed process is over.
Cleanup ==
    /\ entry /\ process.closed
    /\ entry' = FALSE
    /\ UNCHANGED <<process, log, pc, held, up, wire, client, poll, woken>>

\* The connection is lost; what had not arrived by then never does.
Disconnect ==
    /\ up
    /\ up' = FALSE
    /\ \E n \in 0..Len(wire) : wire' = Append(SubSeq(wire, 1, n), Gone)
    /\ UNCHANGED <<server, client, poll, woken>>

\* LocalProcess::shutdown of a detached session that was not resumed.
Shutdown ==
    /\ ~up /\ entry
    /\ entry' = FALSE
    /\ UNCHANGED <<process, log, pc, held, up, wire, client, poll, woken>>

-----------------------------------------------------------------------------
(* The client's reader task *)

ReaderGoto(step) == reader' = [reader EXCEPT !.at = step]

\* The events of a set that are in turn after number n, up to number m.
InTurn(set, n, m) == [i \in 1..(m - n) |-> CHOOSE e \in set : e.seq = n + i]

\* Numbers of the events in a set.
Numbers(set) == {e.seq : e \in set}

\* Where the uninterrupted run of numbers after n ends.
Runs(set, n) ==
    {m \in {n} \union Numbers(set) : (n + 1)..m \subseteq Numbers(set) /\ m + 1 \notin Numbers(set)}

\* Faulty: a number above the last published one is published at once.
FaultyReceiveUnordered ==
    /\ reader.at = "recv" /\ wire # <<>> /\ Head(wire) # Gone
    /\ wire' = Tail(wire)
    /\ woken' = (woken \/ route)
    /\ IF route /\ Head(wire).seq > ordered.last
       THEN /\ ordered' = [ordered EXCEPT !.last = Head(wire).seq]
            /\ reader' = [at |-> "publish", ready |-> <<Head(wire)>>, closed |-> FALSE]
       ELSE UNCHANGED <<ordered, reader>>
    /\ UNCHANGED <<server, up, route, events, failure, poll>>

\* Faulty: an early Closed ends the routing at once.
FaultyReceive ==
    /\ reader.at = "recv" /\ wire # <<>> /\ Head(wire) # Gone
    /\ wire' = Tail(wire)
    /\ woken' = (woken \/ route)
    /\ route' = (route /\ Head(wire).kind # "Closed")
    /\ IF route /\ Head(wire).seq > ordered.last
       THEN LET all == ordered.pending \union {Head(wire)}
            IN  \E m \in Runs(all, ordered.last) :
                  /\ ordered' = [last |-> m, pending |-> {p \in all : p.seq > m}]
                  /\ reader' = [at |-> IF m = ordered.last THEN "recv" ELSE "publish",
                                ready |-> InTurn(all, ordered.last, m), closed |-> FALSE]
       ELSE UNCHANGED <<ordered, reader>>
    /\ UNCHANGED <<server, up, events, failure, poll>>

\* handle_server_notification and the locked part of publish_ordered_event: a
\* number that has been published already is ignored, another is pending, and
\* those whose turn it is are ready.
Receive ==
    /\ reader.at = "recv" /\ wire # <<>> /\ Head(wire) # Gone
    /\ wire' = Tail(wire)
    /\ woken' = (woken \/ route)
    /\ IF route /\ Head(wire).seq > ordered.last
       THEN LET all == ordered.pending \union {Head(wire)}
            IN  \E m \in Runs(all, ordered.last) :
                  /\ ordered' = [last |-> m, pending |-> {p \in all : p.seq > m}]
                  /\ reader' = [at |-> IF m = ordered.last THEN "recv" ELSE "publish",
                                ready |-> InTurn(all, ordered.last, m), closed |-> FALSE]
       ELSE UNCHANGED <<ordered, reader>>
    /\ UNCHANGED <<server, up, route, events, failure, poll>>

\* The events found ready are published after the lock is released; when Closed
\* is among them the route is removed.
PublishReady ==
    /\ reader.at = "publish"
    /\ events' = Append(events, Head(reader.ready))
    /\ LET closed == reader.closed \/ Head(reader.ready).kind = "Closed"
           more == Len(reader.ready) > 1
       IN  reader' = [at |-> IF more THEN "publish"
                             ELSE IF closed THEN "remove" ELSE "recv",
                      ready |-> Tail(reader.ready), closed |-> more /\ closed]
    /\ UNCHANGED <<server, up, wire, route, ordered, failure, poll, woken>>

\* remove_session.
RemoveSession ==
    /\ reader.at = "remove"
    /\ route' = FALSE
    /\ ReaderGoto("recv")
    /\ UNCHANGED <<server, up, wire, ordered, events, failure, poll, woken>>

\* RpcClientEvent::Disconnected, then fail_all_sessions.
ReceiveGone ==
    /\ reader.at = "recv" /\ wire # <<>> /\ Head(wire) = Gone
    /\ wire' = Tail(wire)
    /\ ReaderGoto("take")
    /\ UNCHANGED <<server, up, route, ordered, events, failure, poll, woken>>

TakeAllSessions ==
    /\ reader.at = "take"
    /\ route' = FALSE
    /\ ReaderGoto(IF route THEN "fail" ELSE "end")
    /\ UNCHANGED <<server, up, wire, ordered, events, failure, poll, woken>>

\* Faulty: every caller takes itself for the first.
FaultySetFailure ==
    /\ woken' = TRUE
    /\ UNCHANGED <<server, up, wire, route, ordered, events, failure>>

\* set_failure, under its lock; the first to set the failure publishes Failed.
SetFailure ==
    /\ failure' = TRUE
    /\ woken' = TRUE
    /\ UNCHANGED <<server, up, wire, route, ordered, events>>

PublishFailed == events' = Append(events, Failed)

ReaderSetsFailure ==
    /\ reader.at = "fail"
    /\ SetFailure
    /\ ReaderGoto(IF failure THEN "end" ELSE "failed")
    /\ UNCHANGED poll

ReaderPublishesFailed ==
    /\ reader.at = "failed"
    /\ PublishFailed
    /\ ReaderGoto("end")
    /\ UNCHANGED <<server, up, wire, route, ordered, failure, poll, woken>>

-----------------------------------------------------------------------------
(* Session::read in the polling loop *)

PollGoto(step) == poll' = [poll EXCEPT !.at = step]
PollEnds(outcome) == poll' = [poll EXCEPT !.at = "ended", !.outcome = outcome]

\* failed_response: a session that failed answers by itself.
BeginRead ==
    /\ poll.at = "read"
    /\ IF failure THEN PollEnds("failed") ELSE PollGoto("call")
    /\ UNCHANGED <<server, up, wire, client, woken>>

\* call: refused once the transport is down, by the RPC client or by the latch
\* that the first to notice has set (Inner.disconnected, which implies ~up).
SendRead ==
    /\ poll.at = "call"
    /\ PollGoto(IF up THEN "sent" ELSE "fail")
    /\ UNCHANGED <<server, up, wire, route, ordered, events, failure, reader, woken>>

\* `next_seq`: the number after the last chunk returned, or the process's own
\* when none is.
NextSeq(chunks) ==
    IF chunks = {} THEN {process.nextSeq}
    ELSE {n + 1 : n \in {m \in chunks : \A k \in chunks : k <= m}}

\* Faulty: takes the number before the first one wanted for that one.
FaultyReply ==
    LET chunks == {n \in process.output : n > poll.after + 1}
    IN  [next : NextSeq(chunks), chunks : {chunks}, closed : {process.closed}]

\* The response to a read without a byte budget, as the set of the one there is.
Reply ==
    LET chunks == {n \in process.output : n > poll.after}
    IN  [next : NextSeq(chunks), chunks : {chunks}, closed : {process.closed}]

\* exec_read with wait_ms = 0.  An unknown process is an error.
ServeRead ==
    /\ poll.at = "sent" /\ up
    /\ IF entry
       THEN \E reply \in Reply : poll' = [poll EXCEPT !.at = "reply", !.reply = reply]
       ELSE PollEnds("failed")
    /\ UNCHANGED <<server, up, wire, client, woken>>

\* The consumer keeps the chunks and moves its cursor to next_seq - 1.
TakeReply ==
    /\ poll.at = "reply"
    /\ poll' = [poll EXCEPT !.at = IF poll.reply.closed THEN "ended" ELSE "wait",
                            !.outcome = IF poll.reply.closed THEN "closed" ELSE @,
                            !.got = @ \union poll.reply.chunks,
                            !.after = poll.reply.next - 1,
                            !.reply = None]
    /\ UNCHANGED <<server, up, wire, client, woken>>

\* drain_pending: the call in flight fails and records the disconnect.
ReadLost ==
    /\ poll.at \in {"sent", "reply"} /\ ~up
    /\ poll' = [poll EXCEPT !.at = "fail", !.reply = None]
    /\ UNCHANGED <<server, up, wire, route, ordered, events, failure, reader, woken>>

PollSetsFailure ==
    /\ poll.at = "fail"
    /\ SetFailure
    /\ IF failure THEN PollEnds("failed") ELSE PollGoto("failed")
    /\ UNCHANGED reader

PollPublishesFailed ==
    /\ poll.at = "failed"
    /\ PublishFailed
    /\ PollEnds("failed")
    /\ UNCHANGED <<server, up, wire, route, ordered, failure, reader, woken>>

\* wake_rx.changed.
Wake ==
    /\ poll.at = "wait" /\ woken
    /\ woken' = FALSE
    /\ PollGoto("read")
    /\ UNCHANGED <<server, up, wire, client>>

\* The consumer drops its handle: unregister_session.
Unregister ==
    /\ poll.at \in {"ended", "never"}
    /\ PollGoto("dropped")
    /\ route' = FALSE
    /\ UNCHANGED <<server, up, wire, ordered, events, failure, reader, woken>>

-----------------------------------------------------------------------------
TaskStep(t) ==
    \/ t \in Streams /\ (StreamOutput(t) \/ StreamEnds(t) \/ FinishOutputStream(t))
    \/ t = Exit /\ WatchExit
    \/ Notify(t)
    \/ MaybeEmitClosed(t)

ReaderStep ==
    \/ Receive
    \/ PublishReady
    \/ RemoveSession
    \/ ReceiveGone
    \/ TakeAllSessions
    \/ ReaderSetsFailure
    \/ ReaderPublishesFailed

PollStep ==
    \/ BeginRead
    \/ SendRead
    \/ ServeRead
    \/ TakeReply
    \/ ReadLost
    \/ PollSetsFailure
    \/ PollPublishesFailed
    \/ Wake

\* The process is over and everything sent has been handled.
Quiescent ==
    /\ \A t \in Tasks : pc[t] = "done"
    /\ wire = <<>> /\ reader.at \in {"recv", "end"}
    /\ poll.at \in {"ended", "never", "dropped"}
    /\ UNCHANGED vars

Next ==
    \/ \E t \in Tasks : TaskStep(t)
    \/ Cleanup
    \/ Disconnect
    \/ Shutdown
    \/ ReaderStep
    \/ PollStep
    \/ Unregister
    \/ Quiescent

Spec == Init /\ [][Next]_vars

\* A task goes on with what it has read from the child.
Continues(t) == Notify(t) \/ FinishOutputStream(t) \/ MaybeEmitClosed(t)

\* Spawned tasks, the reader task and the consumer's task are scheduled.  The
\* child need not write or exit, and nothing need fail, expire or be dropped.
FairSpec ==
    /\ Spec
    /\ \A t \in Tasks : WF_vars(Continues(t))
    /\ WF_vars(ReaderStep)
    /\ WF_vars(PollStep)

-----------------------------------------------------------------------------
Messages == Sequenced \union {Gone}

TypeOK ==
    /\ entry \in BOOLEAN /\ up \in BOOLEAN
    /\ process \in [nextSeq : Nat \ {0}, output : SUBSET Nat, exited : BOOLEAN,
                    openStreams : 0..Cardinality(Streams), closed : BOOLEAN]
    /\ log \in Seq(Kinds) /\ Len(log) = process.nextSeq - 1
    /\ pc \in [Tasks -> {"run", "notify", "finish", "close", "notifyClosed", "done"}]
    /\ held \in [Tasks -> Sequenced \union {None}]
    /\ wire \in Seq(Messages)
    /\ route \in BOOLEAN /\ failure \in BOOLEAN
    /\ ordered \in [last : Nat, pending : SUBSET Sequenced]
    /\ events \in Seq(Sequenced \union {Failed})
    /\ reader \in [at : {"recv", "publish", "remove", "take", "fail", "failed",
                         "end"},
                   ready : Seq(Sequenced), closed : BOOLEAN]
    /\ poll \in [at : {"read", "call", "sent", "reply", "fail", "failed", "wait", "ended",
                       "never", "dropped"},
                 after : Nat, got : SUBSET Nat,
                 reply : {None} \union [next : Nat \ {0}, chunks : SUBSET Nat,
                                        closed : BOOLEAN],
                 outcome : {"none", "closed", "failed"}]
    /\ woken \in BOOLEAN

\* Subscribers are given the events of the process in order, without gaps and
\* without repetitions, however the three tasks' notifications overtake each
\* other and wherever Failed falls (publish_ordered_event).
InOrder ==
    \A i \in DOMAIN events : events[i] # Failed =>
        /\ events[i].seq = IF \E j \in 1..i : events[j] = Failed THEN i - 1 ELSE i
        /\ events[i].seq \in DOMAIN log
        /\ events[i].kind = log[events[i].seq]

\* A session fails at most once, whether its reader or a read notices first
\* (set_failure).
OneFailed ==
    \A i, j \in DOMAIN events : events[i] = Failed /\ events[j] = Failed => i = j

\* The polling loop never moves its cursor over a chunk that it has not read and
\* could still read, and stops on `closed` only when it has them all (exec_read).
PollSkipsNothing ==
    /\ {n \in process.output : n <= poll.after} \subseteq poll.got
    /\ poll.outcome = "closed" => process.output \subseteq poll.got

\* The events without Failed, of which OneFailed allows one.
HasFailed == \E j \in DOMAIN events : events[j] = Failed
Published == IF HasFailed THEN Len(events) - 1 ELSE Len(events)
WithoutFailed ==
    [i \in 1..Published |-> IF \E j \in 1..i : events[j] = Failed THEN events[i + 1] ELSE events[i]]

\* What subscribers follow is an EventStream, Failed left out.
Stream == INSTANCE EventStream WITH
    produced <- [n \in DOMAIN log |-> Event(n, log[n])],
    seen <- WithoutFailed

\* The three server tasks, the wire and the reordering client together implement
\* the ordered stream of process.rs: nothing is numbered after Closed, whichever of the
\* three tasks emits it, and subscribers get the numbered events in order.
StreamSpec == Stream!Spec

\* Once a process is closed its subscribers are told so, or that it failed, unless
\* the consumer has dropped the session.
PushEnds ==
    process.closed ~> \/ \E i \in DOMAIN events : events[i].kind \in {"Closed", "Failed"}
                      \/ poll.at = "dropped"

\* Once a process is closed the polling loop stops: no wake-up that matters is lost
\* between its read and its wait.
PollStops == process.closed ~> poll.at \in {"ended", "dropped", "never"}
=============================================================================
