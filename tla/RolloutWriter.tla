--------------------------- MODULE RolloutWriter ---------------------------
(* The rollout file of one thread and the background task that writes it        *)
(* (rollout/src/recorder.rs).                                                   *)
(*                                                                              *)
(* Callers queue items and barriers; the writer task buffers the items, creates *)
(* the file late, reopens it after an error and tries once more.  Writes fail,  *)
(* with or without a part of the line in the file, and the process may be       *)
(* killed at any point and resume the thread from the file.  A step of the task *)
(* ends at the next write, so a kill falls between any two lines.               *)
(*                                                                              *)
(* Items are numbered in the order in which the channel accepts them; 0 is the  *)
(* session's meta line.  Writing the thread's metadata to SQLite, which follows *)
(* the lines and never fails the writer, is left out.                           *)
EXTENDS Naturals, Sequences, FiniteSets

CONSTANTS
    Items,        \* bound: items the session records
    Capacity,     \* the capacity of the command channel
    Faults        \* bound: writes that fail, lines cut by a kill included

ASSUME RolloutBounds == Items \in Nat /\ Capacity \in Nat \ {0} /\ Faults \in Nat

VARIABLES
    next,         \* number of the next item
    queue,        \* the command channel
    state,        \* RolloutWriterState
    task,         \* the writer task: control, command, attempt, written_count
    exists,       \* the file has been created
    file,         \* the lines appended to it, whole or cut short
    base,         \* the last item recorded before this recorder was made
    acked,        \* items recorded before a barrier that was answered Ok
    faults        \* failures so far

vars == <<next, queue, state, task, exists, file, base, acked, faults>>

Barriers == {"Persist", "Flush", "Shutdown"}
Commands == [op : Barriers \union {"AddItems"}, item : Nat]
Command(op, n) == [op |-> op, item |-> n]
Idle == [at |-> "recv", cmd |-> Command("Flush", 0), attempt |-> 1, written |-> 0]

\* RolloutRecorder::new for a new thread; nothing is created yet.
Init ==
    /\ next = 1
    /\ queue = <<>>
    /\ state = [writer |-> FALSE, deferred |-> TRUE, meta |-> TRUE, pending |-> <<>>]
    /\ task = Idle
    /\ exists = FALSE
    /\ file = <<>>
    /\ base = 0
    /\ acked = {}
    /\ faults = 0

-----------------------------------------------------------------------------
(* Callers.  Once the task has stopped, every call fails and changes nothing. *)

Running == task.at \notin {"stopped", "killed"}

RecordItems ==
    /\ Running /\ Len(queue) < Capacity
    /\ next <= Items
    /\ queue' = Append(queue, Command("AddItems", next))
    /\ next' = next + 1
    /\ UNCHANGED <<state, task, exists, file, base, acked, faults>>

\* persist, flush and shutdown, each about the items accepted before it.
Call(op) ==
    /\ Running /\ Len(queue) < Capacity
    /\ queue' = Append(queue, Command(op, next - 1))
    /\ UNCHANGED <<next, state, task, exists, file, base, acked, faults>>

-----------------------------------------------------------------------------
(* The writer task *)

Goto(step) == task' = [task EXCEPT !.at = step]

IsDeferred == ~state.writer /\ state.deferred

\* Faulty: only a barrier writes.
BarriersWrite(cmd) == cmd.op # "AddItems" /\ (cmd.op = "Persist" \/ ~IsDeferred \/ state.pending # <<>>)

\* Faulty: a flush leaves a deferred file deferred, whatever is buffered.
StaysDeferred(cmd) == cmd.op = "Persist" \/ ~IsDeferred

\* Does the command write?  A file that is deferred stays so while there is nothing
\* to put into it, and for items alone.
WritesFor(cmd) ==
    CASE cmd.op = "Persist"  -> TRUE
      [] cmd.op = "AddItems" -> ~IsDeferred
      [] OTHER               -> ~IsDeferred \/ state.pending # <<>>

\* The command is answered, and the commands in rest are left; a shutdown that
\* succeeded ends the task and drops them.
Answer(cmd, ok, rest) ==
    /\ acked' = IF ok /\ cmd.op \in Barriers THEN acked \union (base + 1)..cmd.item ELSE acked
    /\ IF ok /\ cmd.op = "Shutdown"
       THEN task' = [Idle EXCEPT !.at = "stopped"] /\ queue' = <<>>
       ELSE task' = Idle /\ queue' = rest

\* The next command, up to its first write.
Receive ==
    /\ task.at = "recv" /\ queue # <<>>
    /\ LET cmd == Head(queue)
       IN  /\ state' = [state EXCEPT !.pending = IF cmd.op = "AddItems" THEN Append(@, cmd.item) ELSE @]
           /\ IF WritesFor(cmd)
              THEN /\ task' = [Idle EXCEPT !.at = "open", !.cmd = cmd]
                   /\ queue' = Tail(queue)
                   /\ UNCHANGED acked
              ELSE Answer(cmd, TRUE, Tail(queue))
    /\ UNCHANGED <<next, exists, file, base, faults>>

\* Faulty: the second attempt goes on where the first one failed.
KeepsWritten ==
    /\ faults < Faults /\ faults' = faults + 1
    /\ IF task.attempt = 1
       THEN /\ task' = [task EXCEPT !.at = "open", !.attempt = 2]
            /\ UNCHANGED <<queue, acked>>
       ELSE Answer(task.cmd, FALSE, queue)

\* enter_recovery_mode, then the second attempt or the error.
Fails ==
    /\ faults < Faults /\ faults' = faults + 1
    /\ IF task.attempt = 1
       THEN /\ task' = [task EXCEPT !.at = "open", !.attempt = 2, !.written = 0]
            /\ UNCHANGED <<queue, acked>>
       ELSE Answer(task.cmd, FALSE, queue)

\* Faulty: a failed attempt forgets the whole buffer.
ForgetsUnwritten == <<>>

\* drain(..written_count).
Unwritten == SubSeq(state.pending, task.written + 1, Len(state.pending))

\* The line of item n reaches the file, or part of it does, or nothing.
Line(n, whole) == file' = Append(file, [item |-> n, whole |-> whole])
LineFails(n) == Fails /\ (Line(n, FALSE) \/ UNCHANGED file)

\* ensure_writer_open.
EnsureWriterOpen ==
    /\ task.at = "open"
    /\ \/ /\ Goto("meta")
          /\ state' = [state EXCEPT !.writer = TRUE, !.deferred = IF state.writer THEN @ ELSE FALSE]
          /\ exists' = TRUE
          /\ UNCHANGED <<queue, acked, faults>>
       \/ /\ ~state.writer /\ Fails
          /\ UNCHANGED <<state, exists>>
    /\ UNCHANGED <<next, file, base>>

\* write_session_meta_if_needed.
WriteSessionMeta ==
    /\ task.at = "meta"
    /\ \/ /\ ~state.meta
          /\ Goto("items")
          /\ UNCHANGED <<state, file, queue, acked, faults>>
       \/ /\ state.meta /\ Line(0, TRUE)
          /\ Goto("items")
          /\ state' = [state EXCEPT !.meta = FALSE]
          /\ UNCHANGED <<queue, acked, faults>>
       \/ /\ state.meta /\ LineFails(0)
          /\ state' = [state EXCEPT !.writer = FALSE]
    /\ UNCHANGED <<next, exists, base>>

\* Faulty: a failed attempt starts over with the items it has written.
RewritesItems ==
    /\ task.at = "items" /\ task.written < Len(state.pending)
    /\ LET n == state.pending[task.written + 1]
       IN  \/ /\ Line(n, TRUE)
              /\ task' = [task EXCEPT !.written = @ + 1]
              /\ UNCHANGED <<state, queue, acked, faults>>
           \/ /\ LineFails(n)
              /\ state' = [state EXCEPT !.writer = FALSE]
    /\ UNCHANGED <<next, exists, base>>

\* write_pending_items_once, the loop.
WriteItem ==
    /\ task.at = "items" /\ task.written < Len(state.pending)
    /\ LET n == state.pending[task.written + 1]
       IN  \/ /\ Line(n, TRUE)
              /\ task' = [task EXCEPT !.written = @ + 1]
              /\ UNCHANGED <<state, queue, acked, faults>>
           \/ /\ LineFails(n)
              /\ state' = [state EXCEPT !.writer = FALSE, !.pending = Unwritten]
    /\ UNCHANGED <<next, exists, base>>

\* write_pending_items_once, all written.
ItemsWritten ==
    /\ task.at = "items" /\ task.written = Len(state.pending)
    /\ state' = [state EXCEPT !.pending = Unwritten]
    /\ task' = [task EXCEPT !.at = "flush", !.written = 0]
    /\ UNCHANGED <<next, queue, exists, file, base, acked, faults>>

\* The flush that ends the attempt.
FlushFile ==
    /\ task.at = "flush"
    /\ \/ Answer(task.cmd, TRUE, queue) /\ UNCHANGED <<state, faults>>
       \/ Fails /\ state' = [state EXCEPT !.writer = FALSE]
    /\ UNCHANGED <<next, exists, file, base>>

-----------------------------------------------------------------------------
(* The process and the file *)

\* The line being written, if there is one.
InHand ==
    IF task.at = "meta" /\ state.meta THEN {0}
    ELSE IF task.at = "items" /\ task.written < Len(state.pending)
    THEN {state.pending[task.written + 1]}
    ELSE {}

\* The process is killed, perhaps in the middle of a line.  A recorder that is dropped
\* without a shutdown ends like this too: rollout_writer returns and its buffer goes.
Killed ==
    /\ Running
    /\ \/ UNCHANGED <<file, faults>>
       \/ faults < Faults /\ faults' = faults + 1 /\ \E n \in InHand : Line(n, FALSE)
    /\ task' = [Idle EXCEPT !.at = "killed"]
    /\ queue' = <<>>
    /\ UNCHANGED <<next, state, exists, base, acked>>

\* load_rollout_items skips a line that does not parse: one that was cut short, with
\* what has been appended to it.
Readable(i) == file[i].whole /\ (i > 1 => file[i - 1].whole)

\* get_rollout_history, and RolloutRecorder::new for an existing file.
Resume ==
    /\ ~Running
    /\ \E i \in DOMAIN file : file[i].item = 0 /\ Readable(i)
    /\ state' = [writer |-> TRUE, deferred |-> FALSE, meta |-> FALSE, pending |-> <<>>]
    /\ task' = Idle
    /\ base' = next - 1
    /\ UNCHANGED <<next, queue, exists, file, acked, faults>>

\* append_rollout_item_to_path, for a thread that is not loaded.
AppendToPath ==
    /\ ~Running /\ exists
    /\ next <= Items
    /\ next' = next + 1
    /\ \/ Line(next, TRUE) /\ acked' = acked \union {next} /\ UNCHANGED faults
       \/ /\ faults < Faults /\ faults' = faults + 1
          /\ Line(next, FALSE) \/ UNCHANGED file
          /\ UNCHANGED acked
    /\ UNCHANGED <<queue, state, task, exists, base>>

-----------------------------------------------------------------------------
WriterStep ==
    \/ Receive
    \/ EnsureWriterOpen
    \/ WriteSessionMeta
    \/ WriteItem
    \/ ItemsWritten
    \/ FlushFile

Next ==
    \/ RecordItems
    \/ \E op \in Barriers : Call(op)
    \/ WriterStep
    \/ Killed
    \/ Resume
    \/ AppendToPath

Spec == Init /\ [][Next]_vars

\* The writer task is scheduled; nobody need call it, and nothing need fail.
FairSpec == Spec /\ WF_vars(WriterStep)

-----------------------------------------------------------------------------
TypeOK ==
    /\ next \in 1..(Items + 1)
    /\ queue \in Seq(Commands) /\ Len(queue) <= Capacity
    /\ state \in [writer : BOOLEAN, deferred : BOOLEAN, meta : BOOLEAN, pending : Seq(1..Items)]
    /\ task \in [at : {"recv", "open", "meta", "items", "flush", "stopped", "killed"},
                 cmd : Commands, attempt : {1, 2}, written : 0..Len(state.pending)]
    /\ exists \in BOOLEAN
    /\ file \in Seq([item : 0..Items, whole : BOOLEAN])
    /\ base \in 0..Items
    /\ acked \subseteq 1..Items
    /\ faults \in 0..Faults

Whole(n) == \E i \in DOMAIN file : file[i] = [item |-> n, whole |-> TRUE]

\* The file is the meta line and then items in the order in which they were recorded,
\* none twice, through failed writes, second attempts, kills and resumes
\* (write_pending_items_once drains what it has written).
FileInOrder ==
    \A i, j \in DOMAIN file : i < j /\ file[i].whole /\ file[j].whole => file[i].item < file[j].item

\* What a call has answered Ok for is in the file for good, whichever attempt wrote it,
\* and the recorder that answered has put the meta line there (flush: "wait until they
\* are committed by the writer task").
AckedIsWritten ==
    /\ \A n \in acked : Whole(n)
    /\ Running /\ acked # {} => Whole(0)

Queued(n) == \E i \in DOMAIN queue : queue[i] = Command("AddItems", n)
Buffered(n) == \E i \in (task.written + 1)..Len(state.pending) : state.pending[i] = n
Places(n) ==
    {p \in {"queue", "buffer", "file"} :
        \/ p = "queue" /\ Queued(n)
        \/ p = "buffer" /\ Buffered(n)
        \/ p = "file" /\ Whole(n)}

\* An item of a live recorder is in the channel, in the buffer behind what is written,
\* or in the file, and in one of them only: no failed attempt loses an item or keeps a
\* copy of a written one (RolloutWriterState: I/O failures "keep the unwritten suffix").
NothingLost ==
    Running => \A n \in (base + 1)..(next - 1) : Cardinality(Places(n)) = 1

\* Once the file exists an item is written without a barrier, unless the process ends
\* or both attempts fail and the writer waits for the next command.
WrittenUnasked ==
    \A n \in 1..Items :
        Running /\ ~IsDeferred /\ n \in (base + 1)..(next - 1)
            ~> Whole(n) \/ ~Running \/ (task.at = "recv" /\ ~state.writer)
=============================================================================
