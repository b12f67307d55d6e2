------------------------- MODULE RolloutWriterProofs -------------------------
(* Proofs about RolloutWriter for every number of items, every capacity of the  *)
(* command channel and every number of failing writes.                          *)
EXTENDS RolloutWriter, FiniteSetTheorems, TLAPS

Steps == {"recv", "open", "meta", "items", "flush", "stopped", "killed"}
Tasks == [at : Steps, cmd : Commands, attempt : {1, 2}, written : Nat]
States == [writer : BOOLEAN, deferred : BOOLEAN, meta : BOOLEAN, pending : Seq(1..Items)]
Lines == [item : 0..Items, whole : BOOLEAN]

IsItem(cmd) == cmd.op = "AddItems"

\* The task carries out a command.
Busy == task.at \in {"open", "meta", "items", "flush"}

\* Everything has a number that was given out.
Numbered ==
    /\ base < next
    /\ \A i \in DOMAIN file : file[i].item < next
    /\ \A i \in DOMAIN queue : queue[i].item < next
    /\ \A i \in DOMAIN state.pending : state.pending[i] < next

\* An item in the channel comes after all that is in front of it, a barrier covers it.
QueueInOrder ==
    /\ ~Running => queue = <<>>
    /\ \A i \in DOMAIN queue : IsItem(queue[i]) => base < queue[i].item
    /\ \A i, j \in DOMAIN queue : i < j =>
         queue[i].item <= queue[j].item /\ (IsItem(queue[j]) => queue[i].item < queue[j].item)

\* A command that is carried out comes before the items in the channel.
CommandFirst ==
    Busy => /\ task.cmd.item < next
            /\ \A i \in DOMAIN queue : IsItem(queue[i]) => task.cmd.item < queue[i].item

\* The file, what is buffered behind what is written, and the channel are in order.
BufferInOrder ==
    Running =>
        /\ \A i, j \in DOMAIN state.pending : i < j => state.pending[i] < state.pending[j]
        /\ \A i \in DOMAIN state.pending, f \in DOMAIN file :
             task.written < i /\ file[f].whole => file[f].item < state.pending[i]
        /\ \A q \in DOMAIN queue : IsItem(queue[q]) =>
             /\ \A i \in DOMAIN state.pending : state.pending[i] < queue[q].item
             /\ \A f \in DOMAIN file : file[f].whole => file[f].item < queue[q].item

\* No item is missing.
Complete ==
    Running => \A n \in (base + 1)..(next - 1) : Queued(n) \/ Buffered(n) \/ Whole(n)

\* Only the loop over the buffer counts written items, and a new buffer counts from 0.
Counted == /\ task.at # "items" => task.written = 0
           /\ task.at = "flush" => state.pending = <<>>

\* The meta line comes first.
MetaFirst ==
    Running =>
        /\ state.meta => \A f \in DOMAIN file : ~file[f].whole
        /\ ~state.meta => Whole(0)
        /\ task.at \in {"items", "flush"} => ~state.meta

\* What was answered for is in the file.
AckedIsWhole == \A n \in acked : Whole(n)

\* The inductive invariant.
IInv ==
    /\ TypeOK /\ Numbered /\ QueueInOrder /\ CommandFirst /\ BufferInOrder
    /\ Complete /\ Counted /\ MetaFirst /\ AckedIsWhole /\ FileInOrder

-----------------------------------------------------------------------------
(* Sequences and records *)

\* The elements of a sequence.
LEMMA ElementsIn == ASSUME NEW S, NEW s \in Seq(S) PROVE \A i \in DOMAIN s : s[i] \in S
OBVIOUS

\* A sequence with one more element.
LEMMA AppendIs ==
    ASSUME NEW S, NEW s \in Seq(S), NEW e \in S
    PROVE  /\ Append(s, e) \in Seq(S) /\ Len(Append(s, e)) = Len(s) + 1
           /\ DOMAIN Append(s, e) = 1..(Len(s) + 1) /\ DOMAIN s = 1..Len(s) /\ Len(s) \in Nat
           /\ \A i \in DOMAIN s : Append(s, e)[i] = s[i]
           /\ Append(s, e)[Len(s) + 1] = e
OBVIOUS

\* A sequence without its first element.
LEMMA TailIs ==
    ASSUME NEW S, NEW s \in Seq(S), s # <<>>
    PROVE  /\ Tail(s) \in Seq(S) /\ Len(Tail(s)) = Len(s) - 1
           /\ DOMAIN Tail(s) = 1..(Len(s) - 1) /\ DOMAIN s = 1..Len(s) /\ Len(s) \in Nat \ {0}
           /\ \A i \in DOMAIN Tail(s) : Tail(s)[i] = s[i + 1]
           /\ Head(s) \in S /\ Head(s) = s[1]
OBVIOUS

\* A sequence without its first k elements.
LEMMA RestIs ==
    ASSUME NEW S, NEW s \in Seq(S), NEW k \in 0..Len(s), NEW t, t = SubSeq(s, k + 1, Len(s))
    PROVE  /\ t \in Seq(S) /\ Len(t) = Len(s) - k /\ DOMAIN t = 1..(Len(s) - k)
           /\ DOMAIN s = 1..Len(s) /\ Len(s) \in Nat
           /\ \A i \in DOMAIN t : t[i] = s[k + i]
OBVIOUS

\* The type invariant says that the task and the state are records.
LEMMA Shapes ==
    ASSUME TypeOK
    PROVE  /\ task \in Tasks /\ task.written \in 0..Len(state.pending)
           /\ state \in States /\ state.pending \in Seq(1..Items)
           /\ Idle \in Tasks /\ Idle.at = "recv" /\ Idle.written = 0
BY DEF TypeOK, Tasks, States, Steps, Idle, Command, Commands, Barriers

\* A task that begins to carry out a command.
LEMMA BeginTask ==
    ASSUME NEW c \in Commands
    PROVE  LET q == [Idle EXCEPT !.at = "open", !.cmd = c]
           IN  /\ q \in Tasks
               /\ q.at = "open" /\ q.cmd = c /\ q.attempt = Idle.attempt /\ q.written = Idle.written
<1> DEFINE a == [Idle EXCEPT !.at = "open"]
<1>1. /\ a \in Tasks
      /\ a.at = "open" /\ a.cmd = Idle.cmd /\ a.attempt = Idle.attempt /\ a.written = Idle.written
  BY DEF Tasks, Steps, Idle, Command, Commands, Barriers
<1> HIDE DEF a
<1> DEFINE b == [a EXCEPT !.cmd = c]
<1>2. /\ b \in Tasks
      /\ b.at = "open" /\ b.cmd = c /\ b.attempt = Idle.attempt /\ b.written = Idle.written
  BY <1>1 DEF Tasks
<1> HIDE DEF b
<1>3. [Idle EXCEPT !.at = "open", !.cmd = c] = b
  BY DEF a, b
<1>4. QED
  BY <1>2, <1>3

\* A task that tries again.
LEMMA AgainTask ==
    ASSUME NEW r \in Tasks
    PROVE  LET q == [r EXCEPT !.at = "open", !.attempt = 2, !.written = 0]
           IN  /\ q \in Tasks
               /\ q.at = "open" /\ q.cmd = r.cmd /\ q.attempt = 2 /\ q.written = 0
<1> DEFINE a == [r EXCEPT !.at = "open"]
<1>1. /\ a \in Tasks
      /\ a.at = "open" /\ a.cmd = r.cmd /\ a.attempt = r.attempt /\ a.written = r.written
  BY DEF Tasks, Steps
<1> HIDE DEF a
<1> DEFINE b == [a EXCEPT !.attempt = 2]
<1>2. /\ b \in Tasks
      /\ b.at = "open" /\ b.cmd = r.cmd /\ b.attempt = 2 /\ b.written = r.written
  BY <1>1 DEF Tasks, Steps
<1> HIDE DEF b
<1> DEFINE c == [b EXCEPT !.written = 0]
<1>3. /\ c \in Tasks
      /\ c.at = "open" /\ c.cmd = r.cmd /\ c.attempt = 2 /\ c.written = 0
  BY <1>2 DEF Tasks, Steps
<1> HIDE DEF c
<1>4. [r EXCEPT !.at = "open", !.attempt = 2, !.written = 0] = c
  BY DEF a, b, c
<1>5. QED
  BY <1>3, <1>4

\* A task that has written its buffer.
LEMMA WrittenTask ==
    ASSUME NEW r \in Tasks
    PROVE  LET q == [r EXCEPT !.at = "flush", !.written = 0]
           IN  /\ q \in Tasks
               /\ q.at = "flush" /\ q.cmd = r.cmd /\ q.attempt = r.attempt /\ q.written = 0
<1> DEFINE a == [r EXCEPT !.at = "flush"]
<1>1. /\ a \in Tasks
      /\ a.at = "flush" /\ a.cmd = r.cmd /\ a.attempt = r.attempt /\ a.written = r.written
  BY DEF Tasks, Steps
<1> HIDE DEF a
<1> DEFINE b == [a EXCEPT !.written = 0]
<1>2. /\ b \in Tasks
      /\ b.at = "flush" /\ b.cmd = r.cmd /\ b.attempt = r.attempt /\ b.written = 0
  BY <1>1 DEF Tasks, Steps
<1> HIDE DEF b
<1>3. [r EXCEPT !.at = "flush", !.written = 0] = b
  BY DEF a, b
<1>4. QED
  BY <1>2, <1>3

\* A writer that is open.
LEMMA OpenState ==
    ASSUME NEW r \in States, NEW d \in BOOLEAN
    PROVE  LET q == [r EXCEPT !.writer = TRUE, !.deferred = d]
           IN  /\ q \in States
               /\ q.writer = TRUE /\ q.deferred = d /\ q.meta = r.meta /\ q.pending = r.pending
<1> DEFINE a == [r EXCEPT !.writer = TRUE]
<1>1. /\ a \in States
      /\ a.writer = TRUE /\ a.deferred = r.deferred /\ a.meta = r.meta /\ a.pending = r.pending
  BY DEF States
<1> HIDE DEF a
<1> DEFINE b == [a EXCEPT !.deferred = d]
<1>2. /\ b \in States
      /\ b.writer = TRUE /\ b.deferred = d /\ b.meta = r.meta /\ b.pending = r.pending
  BY <1>1 DEF States
<1> HIDE DEF b
<1>3. [r EXCEPT !.writer = TRUE, !.deferred = d] = b
  BY DEF a, b
<1>4. QED
  BY <1>2, <1>3

\* A writer that has failed and keeps a buffer.
LEMMA FailedState ==
    ASSUME NEW r \in States, NEW p \in Seq(1..Items)
    PROVE  LET q == [r EXCEPT !.writer = FALSE, !.pending = p]
           IN  /\ q \in States
               /\ q.writer = FALSE /\ q.deferred = r.deferred /\ q.meta = r.meta /\ q.pending = p
<1> DEFINE a == [r EXCEPT !.writer = FALSE]
<1>1. /\ a \in States
      /\ a.writer = FALSE /\ a.deferred = r.deferred /\ a.meta = r.meta /\ a.pending = r.pending
  BY DEF States
<1> HIDE DEF a
<1> DEFINE b == [a EXCEPT !.pending = p]
<1>2. /\ b \in States
      /\ b.writer = FALSE /\ b.deferred = r.deferred /\ b.meta = r.meta /\ b.pending = p
  BY <1>1 DEF States
<1> HIDE DEF b
<1>3. [r EXCEPT !.writer = FALSE, !.pending = p] = b
  BY DEF a, b
<1>4. QED
  BY <1>2, <1>3

\* A task moves on.
LEMMA GotoTask ==
    ASSUME NEW r \in Tasks, NEW step \in Steps
    PROVE  LET q == [r EXCEPT !.at = step]
           IN  /\ q \in Tasks
               /\ q.at = step /\ q.cmd = r.cmd /\ q.attempt = r.attempt /\ q.written = r.written
BY DEF Tasks

-----------------------------------------------------------------------------
(* The callers *)

\* Initially there is nothing.
LEMMA InitI == Init => IInv
<1> SUFFICES ASSUME Init PROVE IInv
  OBVIOUS
<1>1. TypeOK
  <2>1. Len(state.pending) = 0 /\ task.written = 0 /\ Idle \in Tasks
    BY DEF Init, Idle, Tasks, Steps, Command, Commands, Barriers
  <2>2. /\ state.pending \in Seq(1..Items) /\ queue \in Seq(Commands) /\ Len(queue) = 0
        /\ file \in Seq(Lines)
    BY DEF Init
  <2>3. task \in [at : Steps, cmd : Commands, attempt : {1, 2}, written : 0..Len(state.pending)]
    BY <2>1 DEF Init, Tasks
  <2>4. state \in States
    BY <2>2 DEF Init, States
  <2>5. QED
    <3>1. exists \in BOOLEAN /\ acked \subseteq 1..Items
      BY DEF Init
    <3>2. /\ next \in 1..(Items + 1) /\ Len(queue) <= Capacity
          /\ base \in 0..Items /\ faults \in 0..Faults
      BY <2>2, RolloutBounds DEF Init
    <3>3. QED
      BY <2>2, <2>3, <2>4, <3>1, <3>2 DEF TypeOK, Steps, States, Lines
<1>2. task.at = "recv" /\ task.written = 0
  BY DEF Init, Idle
<1>3. QED
  BY <1>1, <1>2
     DEF Init, IInv, Numbered, QueueInOrder, CommandFirst, BufferInOrder, Complete, Counted,
         MetaFirst, AckedIsWhole, FileInOrder, Running, Busy

\* What is in the channel, the buffer and the file has a number.
LEMMA QueueItems == queue \in Seq(Commands) => \A i \in DOMAIN queue : queue[i].item \in Nat
<1> SUFFICES ASSUME queue \in Seq(Commands), NEW i \in DOMAIN queue PROVE queue[i].item \in Nat
  OBVIOUS
<1>1. queue[i] \in Commands
  OBVIOUS
<1>2. QED
  BY <1>1 DEF Commands

\* The same for the file and the buffer.
LEMMA Ranges ==
    ASSUME TypeOK
    PROVE  /\ \A i \in DOMAIN file : file[i].item \in Nat /\ file[i].whole \in BOOLEAN
           /\ \A i \in DOMAIN state.pending : state.pending[i] \in Nat /\ state.pending[i] \in 1..Items
<1>1. file \in Seq(Lines) /\ state.pending \in Seq(1..Items)
  BY Shapes DEF TypeOK, Lines
<1>2. \A i \in DOMAIN file : file[i] \in Lines
  BY <1>1
<1>3. QED
  BY <1>1, <1>2, RolloutBounds DEF Lines

\* A caller appends a command with the latest number, or an item with a new one.
LEMMA EnqueueI ==
    ASSUME IInv, NEW c \in Commands, queue' = Append(queue, c), Running, Len(queue) < Capacity,
           UNCHANGED <<state, task, exists, file, base, acked, faults>>,
           \/ IsItem(c) /\ c.item = next /\ next' = next + 1 /\ next <= Items
           \/ ~IsItem(c) /\ c.item = next - 1 /\ UNCHANGED next
    PROVE  IInv'
<1>1. /\ queue \in Seq(Commands) /\ Len(queue) \in Nat /\ next \in 1..(Items + 1)
      /\ base \in Nat /\ Items \in Nat /\ Capacity \in Nat
      /\ \A i \in DOMAIN queue : queue[i].item \in Nat
  BY RolloutBounds, QueueItems DEF IInv, TypeOK
<1>2. /\ queue' \in Seq(Commands) /\ Len(queue') = Len(queue) + 1
      /\ DOMAIN queue' = 1..(Len(queue) + 1) /\ DOMAIN queue = 1..Len(queue)
      /\ \A i \in DOMAIN queue : queue'[i] = queue[i]
      /\ queue'[Len(queue) + 1] = c
  BY <1>1, AppendIs
<1>3. next' \in 1..(Items + 1) /\ next <= next' /\ c.item < next' /\ c.item \in Nat
  BY <1>1 DEF Commands
<1>4. TypeOK'
  BY <1>1, <1>2, <1>3, SMTT(60) DEF IInv, TypeOK
<1>5. Numbered'
  <2>1. \A i \in DOMAIN queue' : queue'[i].item < next'
    <3> SUFFICES ASSUME NEW i \in DOMAIN queue' PROVE queue'[i].item < next'
      OBVIOUS
    <3>1. CASE i \in DOMAIN queue
      <4>1. queue[i].item < next /\ queue[i].item \in Nat
        BY <1>1, <3>1 DEF IInv, Numbered
      <4>2. QED
        BY <1>1, <1>2, <1>3, <3>1, <4>1
    <3>2. CASE i = Len(queue) + 1
      BY <1>2, <1>3, <3>2
    <3>3. QED
      BY <1>1, <1>2, <3>1, <3>2
  <2>2. /\ base < next' /\ \A i \in DOMAIN file : file[i].item < next'
        /\ \A i \in DOMAIN state.pending : state.pending[i] < next'
    <3>1. CASE next' = next
      BY <3>1 DEF IInv, Numbered
    <3>2. CASE next' = next + 1
      <4>1. /\ \A i \in DOMAIN file : file[i].item \in Nat
            /\ \A i \in DOMAIN state.pending : state.pending[i] \in Nat
        BY Ranges DEF IInv
      <4>2. QED
        BY <1>1, <3>2, <4>1 DEF IInv, Numbered
    <3>3. QED
      BY <3>1, <3>2
  <2>3. QED
    BY <2>1, <2>2 DEF Numbered
<1>6. QueueInOrder'
  <2>1. \A i \in DOMAIN queue : queue[i].item \in Nat /\ queue[i].item < next
    BY <1>1 DEF IInv, Numbered
  <2>2. base < next
    BY DEF IInv, Numbered
  <2>3. \A i, j \in DOMAIN queue' : i < j => i \in DOMAIN queue /\ (j \in DOMAIN queue \/ queue'[j] = c)
    BY <1>1, <1>2
  <2>4. QED
    BY <1>1, <1>2, <1>3, <2>1, <2>2, <2>3, SMTT(60) DEF IInv, QueueInOrder, Running
<1>7. CommandFirst'
  <2>1. task.cmd.item \in Nat
    BY DEF IInv, TypeOK, Commands
  <2>2. Busy => task.cmd.item < next
    BY DEF IInv, CommandFirst
  <2>3. \A i \in DOMAIN queue' : i \in DOMAIN queue \/ queue'[i] = c
    BY <1>1, <1>2
  <2>4. QED
    BY <1>1, <1>2, <1>3, <2>1, <2>2, <2>3 DEF IInv, CommandFirst, Busy
<1>8. BufferInOrder'
  <2>1. \A i \in DOMAIN queue' : i \in DOMAIN queue \/ queue'[i] = c
    BY <1>1, <1>2
  <2>2. /\ \A i \in DOMAIN state.pending : state.pending[i] < next
        /\ \A f \in DOMAIN file : file[f].item < next
    BY DEF IInv, Numbered
  <2>3. QED
    BY <1>2, <2>1, <2>2 DEF IInv, BufferInOrder, Running
<1>9. Complete'
  <2>1. \A n : Queued(n) => Queued(n)'
    BY <1>1, <1>2 DEF Queued
  <2>2. \A n : Buffered(n)' = Buffered(n) /\ Whole(n)' = Whole(n)
    BY DEF Buffered, Whole
  <2>3. ASSUME NEW n, n = next, IsItem(c) PROVE Queued(n)'
    <3>1. c = Command("AddItems", n)
      BY <2>3 DEF IsItem, Commands, Command
    <3>2. Len(queue) + 1 \in DOMAIN queue' /\ queue'[Len(queue) + 1] = Command("AddItems", n)
      BY <1>1, <1>2, <3>1
    <3>3. QED
      BY <3>2 DEF Queued, Command
  <2>4. \A n \in (base + 1)..(next' - 1) : n \in (base + 1)..(next - 1) \/ (n = next /\ IsItem(c))
    BY <1>1
  <2>5. QED
    BY <2>1, <2>2, <2>3, <2>4 DEF IInv, Complete, Running
<1>10. Counted' /\ MetaFirst' /\ AckedIsWhole' /\ FileInOrder'
  BY DEF IInv, Counted, MetaFirst, AckedIsWhole, FileInOrder, Running, Whole
<1>11. QED
  BY <1>4, <1>5, <1>6, <1>7, <1>8, <1>9, <1>10 DEF IInv

\* record_items keeps the invariant.
LEMMA RecordItemsI == ASSUME IInv, RecordItems PROVE IInv'
<1>1. Command("AddItems", next) \in Commands /\ IsItem(Command("AddItems", next))
      /\ Command("AddItems", next).item = next
  BY DEF IInv, TypeOK, Commands, Command, IsItem
<1>2. QED
  BY <1>1, EnqueueI DEF RecordItems

\* persist, flush and shutdown keep the invariant.
LEMMA CallI == ASSUME IInv, NEW op \in Barriers, Call(op) PROVE IInv'
<1>1. Command(op, next - 1) \in Commands /\ ~IsItem(Command(op, next - 1))
      /\ Command(op, next - 1).item = next - 1
  BY RolloutBounds DEF IInv, TypeOK, Commands, Command, IsItem, Barriers
<1>2. QED
  BY <1>1, EnqueueI DEF Call

-----------------------------------------------------------------------------
(* The writer task *)

\* What taking a command does.
TakesCommand(c) ==
    /\ queue # <<>> /\ c = Head(queue) /\ task.at = "recv"
    /\ state' = [state EXCEPT !.pending =
                   IF IsItem(c) THEN Append(state.pending, c.item) ELSE state.pending]
    /\ task' \in Tasks /\ task'.written = 0
    /\ \/ task'.at = "open" /\ task'.cmd = c /\ queue' = Tail(queue)
       \/ task'.at = "recv" /\ queue' = Tail(queue)
       \/ task'.at = "stopped" /\ queue' = <<>>
    /\ \/ UNCHANGED acked
       \/ ~IsItem(c) /\ state.pending = <<>> /\ acked' = acked \union (base + 1)..c.item
    /\ UNCHANGED <<next, exists, file, base, faults>>

\* Receive takes a command: one that is answered without a write is about an empty buffer.
LEMMA ReceiveTakes == ASSUME TypeOK, Receive PROVE TakesCommand(Head(queue))
<1> DEFINE c == Head(queue)
           p == IF IsItem(c) THEN Append(state.pending, c.item) ELSE state.pending
<1>1. c \in Commands /\ state \in States /\ Idle \in Tasks
  BY Shapes, TailIs DEF TypeOK, Receive
<1>2. state' = [state EXCEPT !.pending = p]
  BY DEF Receive, IsItem
<1>3. /\ Idle.written = 0 /\ Idle.at = "recv"
      /\ [Idle EXCEPT !.at = "stopped"].at = "stopped"
      /\ [Idle EXCEPT !.at = "stopped"].written = 0
      /\ [Idle EXCEPT !.at = "stopped"] \in Tasks
  BY DEF Idle, Tasks, Steps, Command, Commands, Barriers
<1>4. CASE WritesFor(c)
  <2>1. task' = [Idle EXCEPT !.at = "open", !.cmd = c] /\ queue' = Tail(queue) /\ UNCHANGED acked
    BY <1>4 DEF Receive
  <2>2. /\ task' \in Tasks /\ task'.at = "open" /\ task'.cmd = c
        /\ task'.written = Idle.written
    BY <1>1, <2>1, BeginTask
  <2> QED
    <3>1. task'.written = 0
      BY <1>3, <2>2
    <3>2. queue # <<>> /\ task.at = "recv" /\ UNCHANGED <<next, exists, file, base, faults>>
      BY DEF Receive
    <3>3. QED
      BY <1>2, <2>1, <2>2, <3>1, <3>2 DEF TakesCommand
<1>5. CASE ~WritesFor(c)
  <2>1. Answer(c, TRUE, Tail(queue))
    BY <1>5 DEF Receive
  <2>2. IsItem(c) \/ state.pending = <<>>
    BY <1>1, <1>5 DEF WritesFor, IsItem, Commands, Barriers
  <2>3. \/ UNCHANGED acked
        \/ ~IsItem(c) /\ state.pending = <<>> /\ acked' = acked \union (base + 1)..c.item
    BY <2>1, <2>2 DEF Answer, IsItem, Barriers
  <2>4. /\ task' \in Tasks /\ task'.written = 0
        /\ \/ task'.at = "recv" /\ queue' = Tail(queue)
           \/ task'.at = "stopped" /\ queue' = <<>>
    BY <1>1, <1>3, <2>1 DEF Answer
  <2> QED
    <3>1. queue # <<>> /\ task.at = "recv" /\ UNCHANGED <<next, exists, file, base, faults>>
      BY DEF Receive
    <3>2. QED
      BY <1>2, <2>3, <2>4, <3>1 DEF TakesCommand
<1>6. QED
  BY <1>4, <1>5

\* Receive keeps the invariant.
LEMMA ReceiveI == ASSUME IInv, Receive PROVE IInv'
<1> DEFINE c == Head(queue)
<1>1. TypeOK /\ TakesCommand(c)
  BY ReceiveTakes DEF IInv
<1> HIDE DEF c
<1>2. /\ queue \in Seq(Commands) /\ queue # <<>> /\ c \in Commands /\ c = queue[1]
      /\ 1 \in DOMAIN queue /\ c.item \in Nat /\ c.item < next
  <2>1. queue \in Seq(Commands) /\ queue # <<>> /\ c = Head(queue)
    BY <1>1 DEF TypeOK, TakesCommand
  <2>2. c \in Commands /\ c = queue[1] /\ 1 \in DOMAIN queue
    BY <2>1, TailIs
  <2>3. c.item \in Nat
    BY <2>2 DEF Commands
  <2>4. c.item < next
    BY <2>2 DEF IInv, Numbered
  <2>5. QED
    BY <2>1, <2>2, <2>3, <2>4
<1>3. /\ \A i \in DOMAIN queue' : i + 1 \in DOMAIN queue /\ queue'[i] = queue[i + 1] /\ 1 < i + 1
      /\ queue' \in Seq(Commands) /\ Len(queue') <= Len(queue)
      /\ \A i, j \in DOMAIN queue' : i < j => i + 1 < j + 1
  <2>1. CASE queue' = Tail(queue)
    BY <1>2, <2>1, TailIs
  <2>2. CASE queue' = <<>>
    BY <1>2, <2>2, TailIs
  <2>3. QED
    BY <1>1, <2>1, <2>2 DEF TakesCommand
<1>4. /\ state.pending \in Seq(1..Items) /\ task.written = 0 /\ Running /\ base \in Nat
      /\ next \in 1..(Items + 1) /\ Items \in Nat /\ base < next /\ Len(queue) <= Capacity
      /\ Len(queue) \in Nat /\ Capacity \in Nat
  BY <1>1, Shapes, RolloutBounds
     DEF TypeOK, TakesCommand, IInv, Counted, Running, Numbered
<1>5. IsItem(c) => c.item \in 1..Items
  BY <1>2, <1>4 DEF IInv, QueueInOrder
<1>a. state' \in States /\ state'.meta = state.meta
      /\ state'.pending = IF IsItem(c) THEN Append(state.pending, c.item) ELSE state.pending
  <2> DEFINE p == IF IsItem(c) THEN Append(state.pending, c.item) ELSE state.pending
  <2>1. p \in Seq(1..Items)
    BY <1>4, <1>5, AppendIs
  <2>2. state' = [state EXCEPT !.pending = p] /\ state \in States
    BY <1>1, Shapes DEF TakesCommand
  <2> HIDE DEF p
  <2>3. state' \in States /\ state'.meta = state.meta /\ state'.pending = p
    BY <2>1, <2>2 DEF States
  <2>4. QED
    BY <2>3 DEF p
<1>6. /\ state'.pending \in Seq(1..Items)
      /\ \A i \in DOMAIN state.pending :
           i \in DOMAIN state'.pending /\ state'.pending[i] = state.pending[i]
      /\ \A i \in DOMAIN state'.pending :
           i \in DOMAIN state.pending \/ (IsItem(c) /\ state'.pending[i] = c.item)
      /\ \A i, j \in DOMAIN state'.pending : i < j => i \in DOMAIN state.pending
      /\ IsItem(c) => \E i \in DOMAIN state'.pending : state'.pending[i] = c.item
  <2>1. CASE IsItem(c)
    <3>1. state'.pending = Append(state.pending, c.item)
      BY <1>a, <2>1
    <3>2. /\ state'.pending \in Seq(1..Items) /\ Len(state.pending) \in Nat
          /\ DOMAIN state'.pending = 1..(Len(state.pending) + 1)
          /\ DOMAIN state.pending = 1..Len(state.pending)
          /\ \A i \in DOMAIN state.pending : state'.pending[i] = state.pending[i]
          /\ state'.pending[Len(state.pending) + 1] = c.item
      BY <1>4, <1>5, <2>1, <3>1, AppendIs, SMTT(60)
    <3>3. QED
      BY <2>1, <3>2
  <2>2. CASE ~IsItem(c)
    <3>1. state'.pending = state.pending
      BY <1>a, <2>2
    <3>2. DOMAIN state.pending = 1..Len(state.pending)
      BY <1>4
    <3>3. QED
      BY <1>4, <2>2, <3>1, <3>2
  <2>3. QED
    BY <2>1, <2>2
<1>7. UNCHANGED <<next, exists, file, base, faults>> /\ task'.written = 0
  BY <1>1 DEF TakesCommand
<1>8. \A n : Whole(n)' <=> Whole(n)
  BY <1>7 DEF Whole
<1>9. \A n \in acked' : n \in acked \/ (n \in (base + 1)..c.item /\ ~IsItem(c) /\ state.pending = <<>>)
  BY <1>1 DEF TakesCommand
<1>10. TypeOK'
  <2>1. acked' \subseteq 1..Items
    <3>1. \A n \in (base + 1)..c.item : n \in 1..Items
      BY <1>2, <1>4
    <3>2. QED
      BY <1>1, <1>9, <3>1 DEF TypeOK
  <2>2. task' \in [at : Steps, cmd : Commands, attempt : {1, 2}, written : 0..Len(state'.pending)]
    <3>1. Len(state'.pending) \in Nat
      BY <1>6
    <3>2. QED
      BY <1>1, <1>7, <3>1 DEF TakesCommand, Tasks
  <2>3. Len(queue') <= Capacity
    <3>1. Len(queue') \in Nat
      BY <1>3
    <3>2. QED
      BY <1>3, <1>4, <3>1
  <2>4. state' \in States
    BY <1>a
  <2>5. QED
    BY <1>1, <1>3, <1>7, <2>1, <2>2, <2>3, <2>4 DEF TypeOK, Steps, States
<1>11. Numbered'
  BY <1>2, <1>3, <1>6, <1>7 DEF IInv, Numbered
<1>12. QueueInOrder'
  <2>1. ~Running' => queue' = <<>>
    BY <1>1 DEF TakesCommand, Running
  <2>2. \A i \in DOMAIN queue' : IsItem(queue'[i]) => base' < queue'[i].item
    BY <1>3, <1>7 DEF IInv, QueueInOrder
  <2>3. \A i, j \in DOMAIN queue' : i < j =>
          queue'[i].item <= queue'[j].item /\ (IsItem(queue'[j]) => queue'[i].item < queue'[j].item)
    BY <1>3 DEF IInv, QueueInOrder
  <2>4. QED
    BY <2>1, <2>2, <2>3 DEF QueueInOrder
<1>13. \A i \in DOMAIN queue' : IsItem(queue'[i]) => c.item < queue'[i].item
  BY <1>2, <1>3 DEF IInv, QueueInOrder
<1>14. CommandFirst'
  BY <1>1, <1>2, <1>7, <1>13 DEF TakesCommand, CommandFirst, Busy
<1>15. BufferInOrder'
  <2>1. /\ \A i \in DOMAIN state.pending : IsItem(c) => state.pending[i] < c.item
        /\ \A f \in DOMAIN file : IsItem(c) /\ file[f].whole => file[f].item < c.item
    BY <1>2, <1>4 DEF IInv, BufferInOrder
  <2>2. \A i, j \in DOMAIN state'.pending : i < j => state'.pending[i] < state'.pending[j]
    BY <1>4, <1>6, <2>1 DEF IInv, BufferInOrder
  <2>3. \A i \in DOMAIN state'.pending, f \in DOMAIN file :
          file[f].whole => file[f].item < state'.pending[i]
    <3>1. \A i \in DOMAIN state.pending, f \in DOMAIN file :
            file[f].whole => file[f].item < state.pending[i]
      <4>1. \A i \in DOMAIN state.pending : 0 < i
        BY <1>4
      <4>2. QED
        BY <1>4, <4>1 DEF IInv, BufferInOrder
    <3>2. QED
      BY <1>6, <2>1, <3>1
  <2>4. \A q \in DOMAIN queue' : IsItem(queue'[q]) =>
          \A i \in DOMAIN state'.pending : state'.pending[i] < queue'[q].item
    BY <1>3, <1>4, <1>6, <1>13 DEF IInv, BufferInOrder
  <2>5. \A q \in DOMAIN queue' : IsItem(queue'[q]) =>
          \A f \in DOMAIN file : file[f].whole => file[f].item < queue'[q].item
    BY <1>3, <1>4 DEF IInv, BufferInOrder
  <2>6. QED
    BY <1>7, <2>2, <2>3, <2>4, <2>5 DEF BufferInOrder
<1>16. Complete'
  <2> SUFFICES ASSUME Running', NEW n \in (base + 1)..(next - 1), ~Whole(n)
               PROVE  Queued(n)' \/ Buffered(n)'
    BY <1>7, <1>8 DEF Complete
  <2>1. CASE Buffered(n)
    <3>1. PICK i \in DOMAIN state.pending : state.pending[i] = n
      BY <1>4, <2>1 DEF Buffered
    <3>2. i \in DOMAIN state'.pending /\ state'.pending[i] = n
      BY <1>6, <3>1
    <3>3. i \in (task'.written + 1)..Len(state'.pending)
      BY <1>6, <1>7, <3>2
    <3>4. QED
      BY <3>2, <3>3 DEF Buffered
  <2>2. CASE Queued(n)
    <3>1. PICK i \in DOMAIN queue : queue[i] = Command("AddItems", n)
      BY <2>2 DEF Queued
    <3>2. CASE i = 1
      <4>1. IsItem(c) /\ c.item = n
        BY <1>2, <3>1, <3>2 DEF Command, IsItem
      <4>2. PICK j \in DOMAIN state'.pending : state'.pending[j] = n
        BY <1>6, <4>1
      <4>3. j \in (task'.written + 1)..Len(state'.pending)
        BY <1>6, <1>7, <4>2
      <4>4. QED
        BY <4>2, <4>3 DEF Buffered
    <3>3. CASE i # 1
      <4>1. queue' = Tail(queue)
        BY <1>1 DEF TakesCommand, Running
      <4>2. i - 1 \in DOMAIN queue' /\ queue'[i - 1] = queue[i]
        BY <1>2, <3>1, <3>3, <4>1, TailIs
      <4>3. QED
        BY <3>1, <4>2 DEF Queued, Command
    <3>4. QED
      BY <3>2, <3>3
  <2>3. QED
    BY <1>4, <2>1, <2>2 DEF IInv, Complete
<1>17. Counted' /\ MetaFirst' /\ FileInOrder'
  BY <1>1, <1>a, <1>4, <1>7, <1>8
     DEF TakesCommand, IInv, Counted, MetaFirst, FileInOrder, Running
<1>18. AckedIsWhole'
  <2> SUFFICES ASSUME NEW n \in (base + 1)..c.item, ~IsItem(c), state.pending = <<>> PROVE Whole(n)
    BY <1>8, <1>9 DEF IInv, AckedIsWhole
  <2>1. n \in (base + 1)..(next - 1)
    BY <1>2, <1>4
  <2>2. ~Buffered(n)
    BY <1>4 DEF Buffered
  <2>3. ASSUME NEW i \in DOMAIN queue, queue[i] = Command("AddItems", n) PROVE FALSE
    <3>1. IsItem(queue[i]) /\ queue[i].item = n
      BY <2>3 DEF Command, IsItem
    <3>2. i # 1 /\ i \in Nat /\ 1 < i
      BY <1>2, <3>1
    <3>3. c.item < n
      BY <1>2, <3>1, <3>2 DEF IInv, QueueInOrder
    <3>4. QED
      BY <1>2, <1>4, <3>3
  <2>4. QED
    BY <1>4, <2>1, <2>2, <2>3 DEF IInv, Complete, Queued
<1>19. QED
  BY <1>10, <1>11, <1>12, <1>14, <1>15, <1>16, <1>17, <1>18 DEF IInv

\* A step of the task that keeps the channel: each item of the buffer comes from k places
\* further on, and the whole lines are those of before and perhaps one, m, that belongs there.
LEMMA TaskStepI ==
    ASSUME IInv, Busy, UNCHANGED <<next, queue, base, acked>>,
           task' \in Tasks, task'.at \notin {"stopped", "killed"}, Busy' => task'.cmd = task.cmd,
           state' \in States, task'.written \in 0..Len(state'.pending),
           exists' \in BOOLEAN, faults' \in 0..Faults, file' \in Seq(Lines),
           NEW k \in Nat,
           \A i \in DOMAIN state'.pending :
             /\ i + k \in DOMAIN state.pending /\ state'.pending[i] = state.pending[i + k]
             /\ task'.written < i => task.written < i + k,
           NEW m,
           \A f \in DOMAIN file' : file'[f].item < next,
           \A f \in DOMAIN file' : file'[f].whole =>
             (f \in DOMAIN file /\ file'[f] = file[f]) \/ file'[f].item = m,
           \A i \in DOMAIN state'.pending : task'.written < i => m < state'.pending[i],
           \A q \in DOMAIN queue : IsItem(queue[q]) => m < queue[q].item,
           \A n : Whole(n) => Whole(n)',
           \A n : Buffered(n) => Buffered(n)' \/ Whole(n)',
           Counted', MetaFirst', FileInOrder'
    PROVE  IInv'
<1>1. Running /\ Running'
  BY DEF Busy, Running
<1>2. TypeOK'
  <2>1. task' \in [at : Steps, cmd : Commands, attempt : {1, 2}, written : 0..Len(state'.pending)]
    BY DEF Tasks
  <2>2. QED
    BY <2>1 DEF IInv, TypeOK, Steps, States, Lines
<1>3. Numbered'
  BY DEF IInv, Numbered
<1>4. QueueInOrder' /\ CommandFirst'
  BY <1>1 DEF IInv, QueueInOrder, CommandFirst
<1>5. BufferInOrder'
  <2>1. /\ DOMAIN state'.pending \subseteq Nat /\ DOMAIN state.pending \subseteq Nat
        /\ \A i, j \in DOMAIN state'.pending : i < j => i + k < j + k
    <3>1. state'.pending \in Seq(1..Items) /\ state.pending \in Seq(1..Items)
      BY Shapes DEF IInv, States
    <3>2. QED
      BY <3>1
  <2>2. \A i, j \in DOMAIN state'.pending : i < j => state'.pending[i] < state'.pending[j]
    BY <1>1, <2>1 DEF IInv, BufferInOrder
  <2>3. ASSUME NEW i \in DOMAIN state'.pending, NEW f \in DOMAIN file',
               task'.written < i, file'[f].whole
        PROVE  file'[f].item < state'.pending[i]
    <3>1. CASE f \in DOMAIN file /\ file'[f] = file[f]
      BY <1>1, <2>3, <3>1 DEF IInv, BufferInOrder
    <3>2. CASE file'[f].item = m
      BY <2>3, <3>2
    <3>3. QED
      BY <2>3, <3>1, <3>2
  <2>4. \A q \in DOMAIN queue : IsItem(queue[q]) =>
          \A i \in DOMAIN state'.pending : state'.pending[i] < queue[q].item
    BY <1>1 DEF IInv, BufferInOrder
  <2>5. \A q \in DOMAIN queue : IsItem(queue[q]) =>
          \A f \in DOMAIN file' : file'[f].whole => file'[f].item < queue[q].item
    BY <1>1 DEF IInv, BufferInOrder
  <2>6. QED
    BY <2>2, <2>3, <2>4, <2>5 DEF BufferInOrder
<1>6. Complete'
  <2>1. \A n : Queued(n)' <=> Queued(n)
    BY DEF Queued
  <2>2. QED
    BY <1>1, <2>1 DEF IInv, Complete
<1>7. AckedIsWhole'
  BY DEF IInv, AckedIsWhole
<1>8. QED
  BY <1>2, <1>3, <1>4, <1>5, <1>6, <1>7 DEF IInv

\* A line that is cut short, or none, leaves the whole lines as they were.
LEMMA CutLine ==
    ASSUME IInv, NEW n \in 0..Items, n < next, Line(n, FALSE) \/ UNCHANGED file
    PROVE  /\ file' \in Seq(Lines)
           /\ \A f \in DOMAIN file' : file'[f].item < next
           /\ \A f \in DOMAIN file' : file'[f].whole => f \in DOMAIN file /\ file'[f] = file[f]
           /\ \A x : Whole(x)' <=> Whole(x)
           /\ FileInOrder'
<1>1. file \in Seq(Lines) /\ \A f \in DOMAIN file : file[f].item < next
  BY DEF IInv, TypeOK, Numbered, Lines
<1>2. CASE UNCHANGED file
  BY <1>1, <1>2 DEF IInv, FileInOrder, Whole
<1>3. CASE Line(n, FALSE)
  <2> DEFINE l == [item |-> n, whole |-> FALSE]
  <2>1. l \in Lines /\ l.item = n /\ l.whole = FALSE
    BY DEF Lines
  <2>2. file' = Append(file, l)
    BY <1>3 DEF Line
  <2>x. \A x : l # [item |-> x, whole |-> TRUE]
    OBVIOUS
  <2> HIDE DEF l
  <2>3. /\ file' \in Seq(Lines) /\ DOMAIN file \subseteq DOMAIN file'
        /\ \A f \in DOMAIN file : file'[f] = file[f]
        /\ \A f \in DOMAIN file' : f \in DOMAIN file \/ file'[f] = l
    BY <1>1, <2>1, <2>2, AppendIs
  <2>4. \A f \in DOMAIN file' : file'[f].item < next
    BY <1>1, <2>1, <2>3
  <2>5. \A f \in DOMAIN file' : file'[f].whole => f \in DOMAIN file /\ file'[f] = file[f]
    BY <2>1, <2>3
  <2>6. \A x : Whole(x)' <=> Whole(x)
    <3>1. \A x : Whole(x) => Whole(x)'
      BY <2>3 DEF Whole
    <3>2. \A x : Whole(x)' => Whole(x)
      BY <2>3, <2>x DEF Whole
    <3>3. QED
      BY <3>1, <3>2
  <2>7. FileInOrder'
    BY <2>5 DEF IInv, FileInOrder
  <2>8. QED
    BY <2>3, <2>4, <2>5, <2>6, <2>7
<1>4. QED
  BY <1>2, <1>3

\* A line that is written whole.
LEMMA WholeLine ==
    ASSUME IInv, NEW n \in 0..Items, Line(n, TRUE),
           \A f \in DOMAIN file : file[f].whole => file[f].item < n
    PROVE  /\ file' \in Seq(Lines)
           /\ \A x \in Nat : n < x /\ (\A f \in DOMAIN file : file[f].item < x) =>
                \A f \in DOMAIN file' : file'[f].item < x
           /\ \A f \in DOMAIN file' : file'[f].whole =>
                (f \in DOMAIN file /\ file'[f] = file[f]) \/ file'[f].item = n
           /\ \A x : Whole(x)' <=> Whole(x) \/ x = n
           /\ FileInOrder'
<1>1. file \in Seq(Lines)
  BY DEF IInv, TypeOK, Lines
<1> DEFINE l == [item |-> n, whole |-> TRUE]
<1>2. l \in Lines /\ l.item = n /\ l.whole = TRUE
  BY DEF Lines
<1>3. file' = Append(file, l)
  BY DEF Line
<1>x. \A x : l = [item |-> x, whole |-> TRUE] <=> x = n
  OBVIOUS
<1> HIDE DEF l
<1>4. /\ file' \in Seq(Lines) /\ DOMAIN file \subseteq DOMAIN file'
      /\ \A f \in DOMAIN file : file'[f] = file[f]
      /\ \A f \in DOMAIN file' : f \in DOMAIN file \/ file'[f] = l
      /\ \E f \in DOMAIN file' : file'[f] = l
      /\ \A f, g \in DOMAIN file' : f < g => f \in DOMAIN file
  BY <1>1, <1>2, <1>3, AppendIs
<1>5. \A x \in Nat : n < x /\ (\A f \in DOMAIN file : file[f].item < x) =>
        \A f \in DOMAIN file' : file'[f].item < x
  BY <1>2, <1>4
<1>6. \A f \in DOMAIN file' : file'[f].whole =>
        (f \in DOMAIN file /\ file'[f] = file[f]) \/ file'[f].item = n
  BY <1>2, <1>4
<1>7. \A x : Whole(x)' <=> Whole(x) \/ x = n
  <2>1. \A x : Whole(x) => Whole(x)'
    BY <1>4 DEF Whole
  <2>2. \A x : x = n => Whole(x)'
    BY <1>4, <1>x DEF Whole
  <2>3. \A x : Whole(x)' => Whole(x) \/ x = n
    BY <1>4, <1>x DEF Whole
  <2>4. QED
    BY <2>1, <2>2, <2>3
<1>8. FileInOrder'
  BY <1>2, <1>4 DEF IInv, FileInOrder
<1>9. QED
  BY <1>4, <1>5, <1>6, <1>7, <1>8

\* The buffer behind what is written.
LEMMA UnwrittenIs ==
    ASSUME IInv, state'.pending = Unwritten, task'.written = 0
    PROVE  /\ state'.pending \in Seq(1..Items) /\ task.written \in Nat
           /\ Len(state'.pending) = Len(state.pending) - task.written
           /\ Len(state.pending) \in Nat
           /\ \A i \in DOMAIN state'.pending :
                /\ i + task.written \in DOMAIN state.pending
                /\ state'.pending[i] = state.pending[i + task.written]
                /\ 0 < i => task.written < i + task.written
           /\ \A n : Buffered(n) => Buffered(n)'
<1> DEFINE s == state.pending
           k == task.written
           t == SubSeq(s, k + 1, Len(s))
<1>1. s \in Seq(1..Items) /\ k \in 0..Len(s) /\ state'.pending = t
  BY Shapes DEF IInv, Unwritten
<1>2. /\ t \in Seq(1..Items) /\ Len(t) = Len(s) - k /\ DOMAIN t = 1..(Len(s) - k)
      /\ DOMAIN s = 1..Len(s) /\ Len(s) \in Nat
      /\ \A i \in DOMAIN t : t[i] = s[k + i]
  <2> DEFINE S == 1..Items
  <2>1. s \in Seq(S) /\ k \in 0..Len(s) /\ t = SubSeq(s, k + 1, Len(s))
    BY <1>1
  <2> HIDE DEF s, k, t, S
  <2>2. /\ t \in Seq(S) /\ Len(t) = Len(s) - k /\ DOMAIN t = 1..(Len(s) - k)
        /\ DOMAIN s = 1..Len(s) /\ Len(s) \in Nat
        /\ \A i \in DOMAIN t : t[i] = s[k + i]
    BY <2>1, RestIs
  <2>3. QED
    BY <2>2 DEF S
<1> HIDE DEF t, s, k
<1>3. \A i \in DOMAIN t : i + k \in DOMAIN s /\ t[i] = s[i + k] /\ (0 < i => k < i + k)
  BY <1>1, <1>2, SMTT(60)
<1>4. ASSUME NEW n, NEW i \in (k + 1)..Len(s), s[i] = n PROVE \E j \in (0 + 1)..Len(t) : t[j] = n
  <2>1. i - k \in (0 + 1)..Len(t) /\ i - k \in DOMAIN t /\ k + (i - k) = i
    BY <1>1, <1>2
  <2>2. QED
    BY <1>2, <1>4, <2>1
<1>5. \A n : Buffered(n) => Buffered(n)'
  BY <1>1, <1>4 DEF Buffered, s, k
<1>6. QED
  BY <1>1, <1>2, <1>3, <1>5 DEF s, k

\* The numbers of items are positive.
LEMMA Positive ==
    ASSUME IInv, state' \in States
    PROVE  /\ \A i \in DOMAIN state'.pending : 0 < state'.pending[i]
           /\ \A q \in DOMAIN queue : IsItem(queue[q]) => 0 < queue[q].item
           /\ 0 \in 0..Len(state'.pending)
           /\ \A i \in DOMAIN state'.pending : i + 0 = i
<1>1. state'.pending \in Seq(1..Items)
  BY DEF States
<1>2. \A q \in DOMAIN queue : queue[q].item \in Nat /\ base \in Nat
  BY QueueItems DEF IInv, TypeOK
<1>3. \A q \in DOMAIN queue : IsItem(queue[q]) => 0 < queue[q].item
  BY <1>2 DEF IInv, QueueInOrder
<1>4. \A i \in DOMAIN state'.pending : 0 < state'.pending[i]
  <2>1. \A i \in DOMAIN state'.pending : state'.pending[i] \in 1..Items
    BY <1>1, ElementsIn
  <2>2. QED
    BY <2>1, RolloutBounds
<1>5. 0 \in 0..Len(state'.pending) /\ \A i \in DOMAIN state'.pending : i + 0 = i
  BY <1>1
<1>6. QED
  BY <1>3, <1>4, <1>5

\* A failed attempt takes nothing from the channel and answers nothing.
LEMMA FailsIs ==
    ASSUME TypeOK, Fails
    PROVE  /\ UNCHANGED <<queue, acked>> /\ faults' \in 0..Faults
           /\ task' \in Tasks /\ task'.written = 0
           /\ task'.at \in {"open", "recv"}
           /\ task'.at = "open" => task'.cmd = task.cmd
<1>1. task \in Tasks /\ Idle \in Tasks /\ Idle.at = "recv" /\ Idle.written = 0
  BY Shapes
<1>2. faults' \in 0..Faults
  BY RolloutBounds, SMTT(60) DEF TypeOK, Fails
<1>3. CASE task.attempt = 1
  <2>1. /\ task' = [task EXCEPT !.at = "open", !.attempt = 2, !.written = 0]
        /\ UNCHANGED <<queue, acked>>
    BY <1>3 DEF Fails
  <2>2. task' \in Tasks /\ task'.at = "open" /\ task'.cmd = task.cmd /\ task'.written = 0
    BY <1>1, <2>1, AgainTask
  <2>3. QED
    BY <1>2, <2>1, <2>2
<1>4. CASE task.attempt # 1
  <2>1. task' = Idle /\ queue' = queue /\ acked' = acked
    BY <1>4 DEF Fails, Answer
  <2>2. QED
    BY <1>1, <1>2, <2>1
<1>5. QED
  BY <1>3, <1>4

\* A failed attempt, with what it may leave in the file.
LEMMA FailureI ==
    ASSUME IInv, Busy, Fails, NEW n \in 0..Items, n < next, Line(n, FALSE) \/ UNCHANGED file,
           UNCHANGED <<next, base, exists>>, state' \in States, state'.meta = state.meta,
           state'.pending = Unwritten \/ (state'.pending = state.pending /\ task.written = 0)
    PROVE  IInv'
<1> USE DEF IInv
<1>1. /\ UNCHANGED <<queue, acked>> /\ faults' \in 0..Faults
      /\ task' \in Tasks /\ task'.written = 0
      /\ task'.at \in {"open", "recv"}
      /\ task'.at = "open" => task'.cmd = task.cmd
  BY FailsIs
<1> HIDE DEF IInv
<1>2. /\ file' \in Seq(Lines)
      /\ \A f \in DOMAIN file' : file'[f].item < next
      /\ \A f \in DOMAIN file' : file'[f].whole => f \in DOMAIN file /\ file'[f] = file[f]
      /\ \A x : Whole(x)' <=> Whole(x)
      /\ FileInOrder'
  BY CutLine
<1>3. PICK k \in Nat :
        /\ \A i \in DOMAIN state'.pending :
             /\ i + k \in DOMAIN state.pending /\ state'.pending[i] = state.pending[i + k]
             /\ task'.written < i => task.written < i + k
        /\ \A x : Buffered(x) => Buffered(x)'
  <2>1. CASE state'.pending = Unwritten
    BY <1>1, <2>1, UnwrittenIs
  <2>2. CASE state'.pending = state.pending /\ task.written = 0
    <3>1. \A x : Buffered(x) => Buffered(x)'
      BY <1>1, <2>2 DEF Buffered
    <3>2. state.pending \in Seq(1..Items)
      BY Shapes DEF IInv
    <3>3. \A i \in DOMAIN state.pending : i + 0 = i
      BY <3>2
    <3>4. QED
      BY <1>1, <2>2, <3>1, <3>3
  <2>3. QED
    BY <2>1, <2>2
<1>4. /\ \A i \in DOMAIN state'.pending : 0 < state'.pending[i]
      /\ \A q \in DOMAIN queue : IsItem(queue[q]) => 0 < queue[q].item
      /\ task'.written \in 0..Len(state'.pending)
  BY <1>1, Positive
<1>5. Counted'
  BY <1>1 DEF Counted
<1>6. MetaFirst'
  BY <1>1, <1>2 DEF IInv, MetaFirst, Busy, Running
<1>7. Busy' => task'.cmd = task.cmd
  BY <1>1 DEF Busy
<1>8. exists' \in BOOLEAN
  BY DEF IInv, TypeOK
<1>9. QED
  BY <1>1, <1>2, <1>3, <1>4, <1>5, <1>6, <1>7, <1>8, TaskStepI

\* A step of the task that leaves the buffer and the file alone.
LEMMA SameBufferI ==
    ASSUME IInv, Busy, UNCHANGED <<next, queue, base, acked, file, faults>>,
           task' \in Tasks, task'.at \in {"meta", "items"}, task'.cmd = task.cmd,
           task.written = 0, task'.written = 0, exists' \in BOOLEAN,
           state' \in States, state'.meta = state.meta, state'.pending = state.pending,
           task'.at = "items" => ~state.meta
    PROVE  IInv'
<1>1. /\ \A i \in DOMAIN state'.pending : 0 < state'.pending[i]
      /\ \A q \in DOMAIN queue : IsItem(queue[q]) => 0 < queue[q].item
      /\ task'.written \in 0..Len(state'.pending)
      /\ \A i \in DOMAIN state'.pending : i + 0 = i
  BY Positive
<1>2. /\ \A x : Whole(x)' <=> Whole(x)
      /\ \A x : Buffered(x)' <=> Buffered(x)
  BY DEF Whole, Buffered
<1>3. /\ file' \in Seq(Lines) /\ \A f \in DOMAIN file' : file'[f].item < next
      /\ \A f \in DOMAIN file' : f \in DOMAIN file /\ file'[f] = file[f]
  BY DEF IInv, TypeOK, Lines, Numbered
<1>4. Counted' /\ MetaFirst' /\ FileInOrder'
  BY <1>2 DEF IInv, Counted, MetaFirst, FileInOrder, Running, Busy
<1>5. /\ task'.at \notin {"stopped", "killed"} /\ faults' \in 0..Faults
      /\ UNCHANGED <<next, queue, base, acked>>
  BY DEF IInv, TypeOK
<1>6. QED
  BY <1>1, <1>2, <1>3, <1>4, <1>5, TaskStepI

\* ensure_writer_open keeps the invariant.
LEMMA EnsureWriterOpenI == ASSUME IInv, EnsureWriterOpen PROVE IInv'
<1>1. /\ task.at = "open" /\ Busy /\ task \in Tasks /\ state \in States /\ task.written = 0
      /\ UNCHANGED <<next, file, base>>
  BY Shapes DEF IInv, EnsureWriterOpen, Busy, Counted
<1>2. CASE Fails /\ UNCHANGED <<state, exists>>
  <2>1. 0 \in 0..Items /\ 0 < next
    BY RolloutBounds DEF IInv, TypeOK
  <2>2. QED
    BY <1>1, <1>2, <2>1, FailureI
<1>3. CASE /\ Goto("meta")
           /\ state' = [state EXCEPT !.writer = TRUE,
                                     !.deferred = IF state.writer THEN state.deferred ELSE FALSE]
           /\ exists' = TRUE
           /\ UNCHANGED <<queue, acked, faults>>
  <2>1. task' \in Tasks /\ task'.at = "meta" /\ task'.cmd = task.cmd /\ task'.written = 0
    BY <1>1, <1>3, GotoTask DEF Goto, Steps
  <2>2. (IF state.writer THEN state.deferred ELSE FALSE) \in BOOLEAN
    BY <1>1 DEF States
  <2>3. state' \in States /\ state'.meta = state.meta /\ state'.pending = state.pending
    BY <1>1, <1>3, <2>2, OpenState
  <2>4. QED
    BY <1>1, <1>3, <2>1, <2>3, SameBufferI DEF IInv, MetaFirst
<1>4. QED
  BY <1>2, <1>3 DEF EnsureWriterOpen

\* write_session_meta_if_needed keeps the invariant.
LEMMA WriteSessionMetaI == ASSUME IInv, WriteSessionMeta PROVE IInv'
<1>1. /\ task.at = "meta" /\ Busy /\ task \in Tasks /\ state \in States /\ task.written = 0
      /\ UNCHANGED <<next, exists, base>> /\ 0 \in 0..Items /\ 0 < next /\ next \in Nat
  BY Shapes, RolloutBounds DEF IInv, TypeOK, WriteSessionMeta, Busy, Counted
<1>2. /\ Running
      /\ Goto("items") => /\ task' \in Tasks /\ task'.at = "items"
                          /\ task'.cmd = task.cmd /\ task'.written = 0
  <2>1. "items" \in Steps /\ Running
    BY <1>1 DEF Steps, Running
  <2>2. Goto("items") => task' = [task EXCEPT !.at = "items"]
    BY DEF Goto
  <2> DEFINE t == [task EXCEPT !.at = "items"]
  <2>3. t \in Tasks /\ t.at = "items" /\ t.cmd = task.cmd /\ t.written = task.written
    BY <1>1, <2>1, GotoTask
  <2> HIDE DEF t
  <2>4. Goto("items") => task' = t
    BY <2>2 DEF t
  <2>5. QED
    BY <1>1, <2>1, <2>3, <2>4
<1>3. CASE ~state.meta /\ Goto("items") /\ UNCHANGED <<state, file, queue, acked, faults>>
  <2>1. task' \in Tasks /\ task'.at = "items" /\ task'.cmd = task.cmd /\ task'.written = 0
    BY <1>2, <1>3
  <2>2. state' \in States /\ state'.meta = state.meta /\ state'.pending = state.pending
    BY <1>1, <1>3
  <2>3. exists' \in BOOLEAN
    BY <1>1 DEF IInv, TypeOK
  <2>4. QED
    BY <1>1, <1>3, <2>1, <2>2, <2>3, SameBufferI
<1>4. CASE /\ state.meta /\ Line(0, TRUE) /\ Goto("items")
           /\ state' = [state EXCEPT !.meta = FALSE]
           /\ UNCHANGED <<queue, acked, faults>>
  <2>1. task' \in Tasks /\ task'.at = "items" /\ task'.cmd = task.cmd /\ task'.written = 0
    BY <1>2, <1>4
  <2>2. state' \in States /\ state'.meta = FALSE /\ state'.pending = state.pending
    BY <1>1, <1>4 DEF States
  <2>3. \A f \in DOMAIN file : ~file[f].whole
    BY <1>2, <1>4 DEF IInv, MetaFirst
  <2>4. /\ file' \in Seq(Lines)
        /\ \A x \in Nat : 0 < x /\ (\A f \in DOMAIN file : file[f].item < x) =>
             \A f \in DOMAIN file' : file'[f].item < x
        /\ \A f \in DOMAIN file' : file'[f].whole =>
             (f \in DOMAIN file /\ file'[f] = file[f]) \/ file'[f].item = 0
        /\ \A x : Whole(x)' <=> Whole(x) \/ x = 0
        /\ FileInOrder'
    BY <1>1, <1>4, <2>3, WholeLine
  <2>5. \A f \in DOMAIN file' : file'[f].item < next
    BY <1>1, <2>4 DEF IInv, Numbered
  <2>6. Counted' /\ MetaFirst'
    BY <2>1, <2>2, <2>4 DEF Counted, MetaFirst
  <2>7. \A x : Buffered(x)' <=> Buffered(x)
    BY <1>1, <2>1, <2>2 DEF Buffered
  <2>8. /\ \A i \in DOMAIN state'.pending : 0 < state'.pending[i]
        /\ \A q \in DOMAIN queue : IsItem(queue[q]) => 0 < queue[q].item
        /\ task'.written \in 0..Len(state'.pending)
    BY <1>1, <2>1, <2>2, Positive
  <2>9. \A i \in DOMAIN state'.pending :
          /\ i + 0 \in DOMAIN state.pending /\ state'.pending[i] = state.pending[i + 0]
          /\ task'.written < i => task.written < i + 0
    BY <1>1, <2>1, <2>2, Positive
  <2>10. task'.at \notin {"stopped", "killed"} /\ exists' \in BOOLEAN /\ faults' \in 0..Faults
    BY <1>1, <1>4, <2>1 DEF IInv, TypeOK
  <2>11. QED
    BY <1>1, <1>4, <2>1, <2>2, <2>4, <2>5, <2>6, <2>7, <2>8, <2>9, <2>10, TaskStepI
<1>5. CASE state.meta /\ LineFails(0) /\ state' = [state EXCEPT !.writer = FALSE]
  <2>1. state' \in States /\ state'.meta = state.meta /\ state'.pending = state.pending
    BY <1>1, <1>5 DEF States
  <2>2. QED
    BY <1>1, <1>5, <2>1, FailureI DEF LineFails
<1>6. QED
  BY <1>3, <1>4, <1>5 DEF WriteSessionMeta

\* write_pending_items_once keeps the invariant, line by line.
LEMMA WriteItemI == ASSUME IInv, WriteItem PROVE IInv'
<1> DEFINE k == task.written
           n == state.pending[k + 1]
<1>1. /\ task.at = "items" /\ Busy /\ Running /\ task \in Tasks /\ state \in States
      /\ UNCHANGED <<next, exists, base>> /\ next \in Nat /\ Items \in Nat
      /\ k \in Nat /\ k < Len(state.pending)
  BY Shapes, RolloutBounds DEF IInv, TypeOK, WriteItem, Busy, Running
<1>2. /\ state.pending \in Seq(1..Items) /\ k + 1 \in DOMAIN state.pending /\ k < k + 1
      /\ DOMAIN state.pending = 1..Len(state.pending) /\ Len(state.pending) \in Nat
  BY <1>1, Shapes DEF IInv
<1> HIDE DEF n
<1>3. n \in 1..Items /\ n \in 0..Items /\ n < next
  <2>1. n \in 1..Items
    BY <1>2, ElementsIn DEF n
  <2>2. n < next
    BY <1>2 DEF IInv, Numbered, n
  <2>3. QED
    BY <1>1, <2>1, <2>2
<1>4. CASE Line(n, TRUE) /\ task' = [task EXCEPT !.written = k + 1] /\ UNCHANGED <<state, queue, acked, faults>>
  <2>1. task' \in Tasks /\ task'.at = "items" /\ task'.cmd = task.cmd /\ task'.written = k + 1
    BY <1>1, <1>4 DEF Tasks
  <2>2. \A f \in DOMAIN file : file[f].whole => file[f].item < n
    BY <1>1, <1>2 DEF IInv, BufferInOrder, n
  <2>3. /\ file' \in Seq(Lines)
        /\ \A x \in Nat : n < x /\ (\A f \in DOMAIN file : file[f].item < x) =>
             \A f \in DOMAIN file' : file'[f].item < x
        /\ \A f \in DOMAIN file' : file'[f].whole =>
             (f \in DOMAIN file /\ file'[f] = file[f]) \/ file'[f].item = n
        /\ \A x : Whole(x)' <=> Whole(x) \/ x = n
        /\ FileInOrder'
    BY <1>3, <1>4, <2>2, WholeLine
  <2>4. \A f \in DOMAIN file' : file'[f].item < next
    BY <1>1, <1>3, <2>3 DEF IInv, Numbered
  <2>5. ~state.meta
    BY <1>1 DEF IInv, MetaFirst
  <2>6. Counted' /\ MetaFirst'
    BY <1>1, <1>4, <2>1, <2>3, <2>5 DEF IInv, Counted, MetaFirst
  <2>7. ASSUME NEW x, Buffered(x) PROVE Buffered(x)' \/ Whole(x)'
    <3>1. PICK i \in (k + 1)..Len(state.pending) : state.pending[i] = x
      BY <2>7 DEF Buffered
    <3>2. CASE i = k + 1
      BY <2>3, <3>1, <3>2 DEF n
    <3>3. CASE i # k + 1
      <4>1. i \in (task'.written + 1)..Len(state'.pending)
        BY <1>1, <1>2, <1>4, <2>1, <3>1, <3>3
      <4>2. QED
        BY <1>4, <3>1, <4>1 DEF Buffered
    <3>4. QED
      BY <3>2, <3>3
  <2>8. \A i \in DOMAIN state'.pending :
          /\ i + 0 \in DOMAIN state.pending /\ state'.pending[i] = state.pending[i + 0]
          /\ task'.written < i => task.written < i + 0
    BY <1>1, <1>2, <1>4, <2>1, SMTT(60)
  <2>9. /\ \A i \in DOMAIN state'.pending : task'.written < i => n < state'.pending[i]
        /\ \A q \in DOMAIN queue : IsItem(queue[q]) => n < queue[q].item
    <3>1. \A i \in DOMAIN state'.pending : task'.written < i => k + 1 < i
      BY <2>1
    <3>2. \A i \in DOMAIN state.pending : k + 1 < i => n < state.pending[i]
      BY <1>1, <1>2 DEF IInv, BufferInOrder, n
    <3>3. \A q \in DOMAIN queue : IsItem(queue[q]) => n < queue[q].item
      BY <1>1, <1>2 DEF IInv, BufferInOrder, n
    <3>4. QED
      BY <1>4, <3>1, <3>2, <3>3
  <2>10. task'.written \in 0..Len(state'.pending) /\ state' \in States
    BY <1>1, <1>2, <1>4, <2>1
  <2>11. task'.at \notin {"stopped", "killed"} /\ exists' \in BOOLEAN /\ faults' \in 0..Faults
    BY <1>1, <1>4, <2>1 DEF IInv, TypeOK
  <2>12. \A x : Whole(x) => Whole(x)'
    BY <2>3
  <2>13. UNCHANGED <<next, queue, base, acked>>
    BY <1>1, <1>4
  <2> HIDE DEF k
  <2>14. QED
    BY <1>1, <2>1, <2>3, <2>4, <2>6, <2>7, <2>8, <2>9, <2>10, <2>11, <2>12, <2>13, TaskStepI
<1>5. CASE LineFails(n) /\ state' = [state EXCEPT !.writer = FALSE, !.pending = Unwritten]
  <2>1. Unwritten \in Seq(1..Items)
    BY <1>1, <1>2, RestIs, SMTT(60) DEF Unwritten
  <2>2. state' \in States /\ state'.meta = state.meta /\ state'.pending = Unwritten
    BY <1>1, <1>5, <2>1, FailedState
  <2>3. QED
    BY <1>1, <1>3, <1>5, <2>2, FailureI DEF LineFails
<1>6. QED
  BY <1>4, <1>5 DEF WriteItem, n

\* The end of write_pending_items_once keeps the invariant.
LEMMA ItemsWrittenI == ASSUME IInv, ItemsWritten PROVE IInv'
<1>1. /\ task.at = "items" /\ Busy /\ Running /\ task \in Tasks /\ state \in States
      /\ UNCHANGED <<next, queue, exists, file, base, acked, faults>>
      /\ task.written = Len(state.pending) /\ state.pending \in Seq(1..Items)
  BY Shapes DEF IInv, ItemsWritten, Busy, Running
<1>2. task' \in Tasks /\ task'.at = "flush" /\ task'.cmd = task.cmd /\ task'.written = 0
  BY <1>1, WrittenTask DEF ItemsWritten
<1>3. Unwritten \in Seq(1..Items)
  BY <1>1, RestIs DEF Unwritten
<1>4. state' \in States /\ state'.meta = state.meta /\ state'.pending = Unwritten
  BY <1>1, <1>3 DEF ItemsWritten, States
<1>5. /\ state'.pending \in Seq(1..Items) /\ task.written \in Nat
      /\ Len(state'.pending) = Len(state.pending) - task.written
      /\ Len(state.pending) \in Nat
      /\ \A i \in DOMAIN state'.pending :
           /\ i + task.written \in DOMAIN state.pending
           /\ state'.pending[i] = state.pending[i + task.written]
           /\ 0 < i => task.written < i + task.written
      /\ \A n : Buffered(n) => Buffered(n)'
  BY <1>2, <1>4, UnwrittenIs
<1>6. state'.pending = <<>>
  BY <1>1, <1>5
<1>7. Counted' /\ MetaFirst' /\ FileInOrder' /\ \A x : Whole(x)' <=> Whole(x)
  <2>1. \A x : Whole(x)' <=> Whole(x)
    BY <1>1 DEF Whole
  <2>2. ~state.meta
    BY <1>1 DEF IInv, MetaFirst
  <2>3. QED
    BY <1>1, <1>2, <1>4, <1>6, <2>1, <2>2 DEF IInv, Counted, MetaFirst, FileInOrder
<1>8. /\ \A i \in DOMAIN state'.pending : 0 < state'.pending[i]
      /\ \A q \in DOMAIN queue : IsItem(queue[q]) => 0 < queue[q].item
      /\ task'.written \in 0..Len(state'.pending)
  BY <1>2, <1>4, Positive
<1>9. /\ file' \in Seq(Lines) /\ \A f \in DOMAIN file' : file'[f].item < next
      /\ \A f \in DOMAIN file' : f \in DOMAIN file /\ file'[f] = file[f]
  BY <1>1 DEF IInv, TypeOK, Lines, Numbered
<1>10. task'.at \notin {"stopped", "killed"} /\ exists' \in BOOLEAN /\ faults' \in 0..Faults
  BY <1>1, <1>2 DEF IInv, TypeOK
<1>11. QED
  BY <1>1, <1>2, <1>4, <1>5, <1>7, <1>8, <1>9, <1>10, TaskStepI

\* The flush that ends an attempt keeps the invariant: the buffer is empty then, and what
\* was recorded before the barrier is not in the channel any more.
LEMMA FlushFileI == ASSUME IInv, FlushFile PROVE IInv'
<1>1. /\ task.at = "flush" /\ Busy /\ Running /\ task \in Tasks /\ state \in States
      /\ UNCHANGED <<next, exists, file, base>> /\ state.pending = <<>> /\ task.written = 0
  BY Shapes DEF IInv, FlushFile, Busy, Running, Counted
<1>2. CASE Fails /\ state' = [state EXCEPT !.writer = FALSE]
  <2>1. state' \in States /\ state'.meta = state.meta /\ state'.pending = state.pending
    BY <1>1, <1>2 DEF States
  <2>2. 0 \in 0..Items /\ 0 < next
    BY RolloutBounds DEF IInv, TypeOK
  <2>3. QED
    BY <1>1, <1>2, <2>1, <2>2, FailureI
<1>3. CASE Answer(task.cmd, TRUE, queue) /\ UNCHANGED <<state, faults>>
  <2> DEFINE c == task.cmd
  <2>1. /\ c.item \in Nat /\ c.item < next /\ next \in 1..(Items + 1) /\ base \in Nat
        /\ \A i \in DOMAIN queue : IsItem(queue[i]) => c.item < queue[i].item
    BY <1>1 DEF IInv, TypeOK, CommandFirst, Commands
  <2>2. /\ \A n \in acked' : n \in acked \/ n \in (base + 1)..c.item
        /\ \/ task' = Idle /\ queue' = queue
           \/ task' = [Idle EXCEPT !.at = "stopped"] /\ queue' = <<>>
    BY <1>3 DEF Answer
  <2>3. /\ task' \in Tasks /\ task'.written = 0 /\ task'.at \in {"recv", "stopped"}
        /\ task'.at = "recv" => queue' = queue
        /\ task'.at = "stopped" => queue' = <<>>
    <3>1. /\ Idle.written = 0 /\ Idle.at = "recv" /\ Idle \in Tasks
          /\ [Idle EXCEPT !.at = "stopped"].at = "stopped"
          /\ [Idle EXCEPT !.at = "stopped"].written = 0
          /\ [Idle EXCEPT !.at = "stopped"] \in Tasks
      BY DEF Idle, Tasks, Steps, Command, Commands, Barriers
    <3>2. CASE task' = Idle /\ queue' = queue
      BY <3>1, <3>2
    <3>3. CASE task' = [Idle EXCEPT !.at = "stopped"] /\ queue' = <<>>
      BY <3>1, <3>3
    <3>4. QED
      BY <2>2, <3>2, <3>3
  <2> HIDE DEF c
  <2>4. /\ \A x : Whole(x)' <=> Whole(x)
        /\ \A x : Buffered(x)' <=> Buffered(x)
        /\ \A x : queue' = queue => (Queued(x)' <=> Queued(x))
    BY <1>1, <1>3, <2>3 DEF Whole, Buffered, Queued
  <2>5. \A n \in (base + 1)..c.item : n \in 1..Items /\ n \in (base + 1)..(next - 1)
    BY <2>1, RolloutBounds
  <2>6. TypeOK'
    <3>1. acked' \subseteq 1..Items
      BY <2>2, <2>5 DEF IInv, TypeOK
    <3>2. task' \in [at : Steps, cmd : Commands, attempt : {1, 2}, written : 0..Len(state'.pending)]
      BY <1>1, <1>3, <2>3 DEF Tasks
    <3>3. queue' \in Seq(Commands) /\ Len(queue') <= Capacity
      <4>1. CASE queue' = queue
        BY <4>1 DEF IInv, TypeOK
      <4>2. CASE queue' = <<>>
        BY <4>2, RolloutBounds
      <4>3. QED
        BY <2>3, <4>1, <4>2
    <3>4. QED
      BY <1>1, <1>3, <3>1, <3>2, <3>3 DEF IInv, TypeOK, Steps
  <2>7. \A i \in DOMAIN queue' : i \in DOMAIN queue /\ queue'[i] = queue[i]
    <3>1. CASE queue' = queue
      BY <3>1
    <3>2. CASE queue' = <<>>
      BY <3>2
    <3>3. QED
      BY <2>3, <3>1, <3>2
  <2>8. Numbered' /\ QueueInOrder' /\ CommandFirst'
    <3>1. Numbered'
      BY <1>1, <1>3, <2>7 DEF IInv, Numbered
    <3>2. QueueInOrder'
      BY <1>1, <2>3, <2>7 DEF IInv, QueueInOrder, Running
    <3>3. CommandFirst'
      BY <2>3 DEF CommandFirst, Busy
    <3>4. QED
      BY <3>1, <3>2, <3>3
  <2>9. BufferInOrder'
    BY <1>1, <1>3, <2>3, <2>7 DEF IInv, BufferInOrder
  <2>10. Complete'
    BY <1>1, <2>3, <2>4 DEF IInv, Complete, Running
  <2>11. Counted' /\ MetaFirst' /\ FileInOrder'
    BY <1>1, <1>3, <2>3, <2>4 DEF IInv, Counted, MetaFirst, FileInOrder, Running
  <2>12. AckedIsWhole'
    <3> SUFFICES ASSUME NEW n \in (base + 1)..c.item PROVE Whole(n)
      BY <2>2, <2>4 DEF IInv, AckedIsWhole
    <3>1. ~Buffered(n)
      BY <1>1 DEF Buffered
    <3>2. ASSUME NEW i \in DOMAIN queue, queue[i] = Command("AddItems", n) PROVE FALSE
      <4>1. IsItem(queue[i]) /\ queue[i].item = n
        BY <3>2 DEF Command, IsItem
      <4>2. QED
        BY <2>1, <4>1
    <3>3. QED
      BY <1>1, <2>5, <3>1, <3>2 DEF IInv, Complete, Queued
  <2>13. QED
    BY <2>6, <2>8, <2>9, <2>10, <2>11, <2>12 DEF IInv
<1>4. QED
  BY <1>2, <1>3 DEF FlushFile

-----------------------------------------------------------------------------
(* The process and the file *)

\* A kill keeps the invariant.
LEMMA KilledI == ASSUME IInv, Killed PROVE IInv'
<1>1. /\ queue' = <<>> /\ UNCHANGED <<next, state, exists, base, acked>>
      /\ task' = [Idle EXCEPT !.at = "killed"]
  BY DEF Killed
<1>2. task' \in Tasks /\ task'.at = "killed" /\ task'.written = 0
  BY <1>1 DEF Idle, Tasks, Steps, Command, Commands, Barriers
<1>3. \A n \in InHand : n \in 0..Items /\ n < next
  <2> SUFFICES ASSUME NEW n \in InHand PROVE n \in 0..Items /\ n < next
    OBVIOUS
  <2>1. CASE n = 0
    BY <2>1, RolloutBounds DEF IInv, TypeOK
  <2>2. CASE task.written < Len(state.pending) /\ n = state.pending[task.written + 1]
    <3>1. /\ state.pending \in Seq(1..Items)
          /\ task.written \in Nat
      BY Shapes DEF IInv
    <3>2. task.written + 1 \in DOMAIN state.pending
      BY <2>2, <3>1
    <3>3. n \in 1..Items
      BY <2>2, <3>1, <3>2, ElementsIn
    <3>4. n < next
      BY <2>2, <3>2 DEF IInv, Numbered
    <3>5. QED
      BY <3>3, <3>4, RolloutBounds
  <2>3. QED
    BY <2>1, <2>2 DEF InHand
<1>4. PICK n \in 0..Items : n < next /\ (Line(n, FALSE) \/ UNCHANGED file)
  <2>1. 0 \in 0..Items /\ 0 < next
    BY RolloutBounds DEF IInv, TypeOK
  <2>2. QED
    BY <1>3, <2>1 DEF Killed
<1>5. /\ file' \in Seq(Lines)
      /\ \A f \in DOMAIN file' : file'[f].item < next
      /\ \A x : Whole(x)' <=> Whole(x)
      /\ FileInOrder'
  BY <1>4, CutLine
<1>6. faults' \in 0..Faults
  <2>1. faults' = faults \/ (faults < Faults /\ faults' = faults + 1)
    BY DEF Killed
  <2>2. faults \in 0..Faults
    BY DEF IInv, TypeOK
  <2>3. QED
    BY <2>1, <2>2, RolloutBounds
<1>7. TypeOK'
  <2>1. state.pending \in Seq(1..Items)
    BY Shapes DEF IInv
  <2>2. 0 \in 0..Len(state.pending)
    BY <2>1
  <2>3. task' \in [at : Steps, cmd : Commands, attempt : {1, 2}, written : 0..Len(state'.pending)]
    BY <1>1, <1>2, <2>2 DEF Tasks
  <2>4. queue' \in Seq(Commands) /\ Len(queue') <= Capacity
    BY <1>1, RolloutBounds
  <2>5. QED
    BY <1>1, <1>5, <1>6, <2>3, <2>4 DEF IInv, TypeOK, Steps, Lines
<1>8. Numbered'
  BY <1>1, <1>5 DEF IInv, Numbered
<1>9. ~Running' /\ ~Busy'
  BY <1>2 DEF Running, Busy
<1>10. QueueInOrder' /\ CommandFirst' /\ BufferInOrder' /\ Complete' /\ MetaFirst'
  BY <1>1, <1>9 DEF QueueInOrder, CommandFirst, BufferInOrder, Complete, MetaFirst
<1>11. Counted' /\ AckedIsWhole'
  BY <1>1, <1>2, <1>5 DEF IInv, Counted, AckedIsWhole
<1>12. QED
  BY <1>5, <1>7, <1>8, <1>10, <1>11 DEF IInv

\* A recorder made from the file keeps the invariant: it counts from where the file ends.
LEMMA ResumeI == ASSUME IInv, Resume PROVE IInv'
<1>1. /\ UNCHANGED <<next, queue, exists, file, acked, faults>> /\ base' = next - 1
      /\ task' = Idle /\ ~Running
      /\ state' = [writer |-> TRUE, deferred |-> FALSE, meta |-> FALSE, pending |-> <<>>]
  BY DEF Resume
<1>2. /\ state'.pending = <<>> /\ state'.meta = FALSE /\ state' \in States
      /\ task' \in Tasks /\ task'.at = "recv" /\ task'.written = 0
  BY <1>1, Shapes DEF IInv, States
<1>3. queue = <<>>
  BY <1>1 DEF IInv, QueueInOrder
<1>4. \A x : Whole(x)' <=> Whole(x)
  BY <1>1 DEF Whole
<1>5. Whole(0)
  <2>1. PICK i \in DOMAIN file : file[i].item = 0 /\ file[i].whole
    BY DEF Resume, Readable
  <2>2. file[i] \in Lines
    BY ElementsIn DEF IInv, TypeOK, Lines
  <2>3. file[i] = [item |-> 0, whole |-> TRUE]
    BY <2>1, <2>2 DEF Lines
  <2>4. QED
    BY <2>3 DEF Whole
<1>6. next \in 1..(Items + 1) /\ Items \in Nat
  BY RolloutBounds DEF IInv, TypeOK
<1>7. TypeOK'
  <2>1. base' \in 0..Items
    BY <1>1, <1>6
  <2>2. task' \in [at : Steps, cmd : Commands, attempt : {1, 2}, written : 0..Len(state'.pending)]
    BY <1>2 DEF Tasks
  <2>3. QED
    BY <1>1, <1>2, <2>1, <2>2 DEF IInv, TypeOK, Steps, States
<1>8. Numbered'
  BY <1>1, <1>2, <1>6 DEF IInv, Numbered
<1>9. QueueInOrder' /\ CommandFirst' /\ BufferInOrder'
  BY <1>1, <1>2, <1>3 DEF QueueInOrder, CommandFirst, BufferInOrder, Busy
<1>10. Complete'
  BY <1>1, <1>6 DEF Complete
<1>11. Counted' /\ MetaFirst' /\ AckedIsWhole' /\ FileInOrder'
  BY <1>1, <1>2, <1>4, <1>5 DEF IInv, Counted, MetaFirst, AckedIsWhole, FileInOrder
<1>12. QED
  BY <1>7, <1>8, <1>9, <1>10, <1>11 DEF IInv

\* append_rollout_item_to_path keeps the invariant.
LEMMA AppendToPathI == ASSUME IInv, AppendToPath PROVE IInv'
<1>1. /\ UNCHANGED <<queue, state, task, exists, base>> /\ ~Running /\ next <= Items
      /\ next' = next + 1
  BY DEF AppendToPath
<1>2. /\ next \in 1..(Items + 1) /\ next \in Nat /\ Items \in Nat /\ base \in Nat
      /\ next \in 0..Items /\ next \in 1..Items /\ next' \in 1..(Items + 1) /\ next' \in Nat
  BY <1>1, RolloutBounds DEF IInv, TypeOK
<1>3. \A f \in DOMAIN file : file[f].item < next /\ file[f].item \in Nat
  BY Ranges DEF IInv, Numbered
<1>4. faults' \in 0..Faults
  <2>1. faults' = faults \/ (faults < Faults /\ faults' = faults + 1)
    BY DEF AppendToPath
  <2>2. faults \in 0..Faults
    BY DEF IInv, TypeOK
  <2>3. QED
    BY <2>1, <2>2, RolloutBounds
<1>5. /\ file' \in Seq(Lines) /\ FileInOrder' /\ acked' \subseteq 1..Items
      /\ \A f \in DOMAIN file' : file'[f].item < next'
      /\ \A n \in acked' : Whole(n)'
  <2>1. CASE Line(next, TRUE) /\ acked' = acked \union {next}
    <3> DEFINE n == next
    <3>1. /\ n \in 0..Items /\ Line(n, TRUE) /\ n < next' /\ next' \in Nat
          /\ \A f \in DOMAIN file : file[f].whole => file[f].item < n
      <4>1. n \in 0..Items /\ n < next' /\ next' \in Nat
        BY <1>1, <1>2
      <4>2. \A f \in DOMAIN file : file[f].whole => file[f].item < n
        BY <1>3
      <4>3. QED
        BY <2>1, <4>1, <4>2
    <3>2. \A f \in DOMAIN file : file[f].item < next'
      BY <1>1, <1>2, <1>3
    <3>3. acked' = acked \union {n}
      BY <2>1
    <3> HIDE DEF n
    <3>4. /\ file' \in Seq(Lines) /\ FileInOrder'
          /\ \A x \in Nat : n < x /\ (\A f \in DOMAIN file : file[f].item < x) =>
                \A f \in DOMAIN file' : file'[f].item < x
          /\ \A x : Whole(x)' <=> Whole(x) \/ x = n
      BY <3>1, WholeLine
    <3>5. \A f \in DOMAIN file' : file'[f].item < next'
      BY <3>1, <3>2, <3>4
    <3>6. \A x \in acked' : Whole(x)'
      BY <3>3, <3>4 DEF IInv, AckedIsWhole
    <3>7. acked' \subseteq 1..Items
      BY <1>2, <2>1 DEF IInv, TypeOK
    <3>8. QED
      BY <3>4, <3>5, <3>6, <3>7
  <2>2. CASE (Line(next, FALSE) \/ UNCHANGED file) /\ UNCHANGED acked
    <3>1. file \in Seq(Lines) /\ acked \subseteq 1..Items
      BY DEF IInv, TypeOK, Lines
    <3>2. CASE UNCHANGED file
      <4>1. \A x : Whole(x)' <=> Whole(x)
        BY <3>2 DEF Whole
      <4>2. \A f \in DOMAIN file : file[f].item < next'
        BY <1>1, <1>2, <1>3
      <4>3. QED
        BY <2>2, <3>1, <3>2, <4>1, <4>2 DEF IInv, FileInOrder, AckedIsWhole
    <3>3. CASE Line(next, FALSE)
      <4> DEFINE l == [item |-> next, whole |-> FALSE]
      <4>1. l \in Lines /\ l.item = next /\ l.whole = FALSE /\ file' = Append(file, l)
        BY <1>2, <3>3 DEF Lines, Line
      <4> HIDE DEF l
      <4>2. /\ file' \in Seq(Lines) /\ DOMAIN file \subseteq DOMAIN file'
            /\ \A f \in DOMAIN file : file'[f] = file[f]
            /\ \A f \in DOMAIN file' : f \in DOMAIN file \/ file'[f] = l
        BY <3>1, <4>1, AppendIs
      <4>3. \A f \in DOMAIN file' : file'[f].item < next'
        <5>1. next < next' /\ \A f \in DOMAIN file : file[f].item < next'
          BY <1>1, <1>2, <1>3
        <5>2. QED
          BY <4>1, <4>2, <5>1
      <4>4. \A x : Whole(x) => Whole(x)'
        BY <4>2 DEF Whole
      <4>5. FileInOrder'
        BY <4>1, <4>2 DEF IInv, FileInOrder
      <4>6. QED
        BY <2>2, <3>1, <4>2, <4>3, <4>4, <4>5 DEF IInv, AckedIsWhole
    <3>4. QED
      BY <2>2, <3>2, <3>3
  <2>3. QED
    BY <2>1, <2>2 DEF AppendToPath
<1>6. ~Running' /\ ~Busy'
  BY <1>1 DEF Running, Busy
<1>7. TypeOK'
  BY <1>1, <1>2, <1>4, <1>5 DEF IInv, TypeOK, Lines
<1>8. Numbered'
  <2>1. queue = <<>> /\ \A i \in DOMAIN state.pending : state.pending[i] \in Nat
    BY <1>1, Ranges DEF IInv, QueueInOrder
  <2>2. base < next /\ \A i \in DOMAIN state.pending : state.pending[i] < next
    BY DEF IInv, Numbered
  <2>3. base < next' /\ \A i \in DOMAIN state.pending : state.pending[i] < next'
    BY <1>1, <1>2, <2>1, <2>2
  <2>4. QED
    BY <1>1, <1>5, <2>1, <2>3 DEF Numbered
<1>9. QueueInOrder' /\ CommandFirst' /\ BufferInOrder' /\ Complete' /\ MetaFirst'
  <2>1. queue' = <<>>
    BY <1>1 DEF IInv, QueueInOrder
  <2>2. QED
    BY <1>6, <2>1 DEF QueueInOrder, CommandFirst, BufferInOrder, Complete, MetaFirst
<1>10. Counted' /\ AckedIsWhole'
  BY <1>1, <1>5 DEF IInv, Counted, AckedIsWhole
<1>11. QED
  BY <1>5, <1>7, <1>8, <1>9, <1>10 DEF IInv

-----------------------------------------------------------------------------
(* The theorems *)

\* Every step keeps the invariant.
LEMMA StepI == IInv /\ [Next]_vars => IInv'
<1> SUFFICES ASSUME IInv, [Next]_vars PROVE IInv'
  OBVIOUS
<1>1. CASE UNCHANGED vars
  <2>1. TypeOK'
    BY <1>1 DEF IInv, TypeOK, vars
  <2>2. Numbered' /\ QueueInOrder' /\ CommandFirst' /\ BufferInOrder'
    BY <1>1 DEF IInv, Numbered, QueueInOrder, CommandFirst, BufferInOrder, Busy, Running, vars
  <2>3. Complete' /\ Counted' /\ MetaFirst' /\ AckedIsWhole' /\ FileInOrder'
    BY <1>1 DEF IInv, Complete, Counted, MetaFirst, AckedIsWhole, FileInOrder, Running, Queued,
                Buffered, Whole, vars
  <2>4. QED
    BY <2>1, <2>2, <2>3 DEF IInv
<1>2. CASE RecordItems
  BY <1>2, RecordItemsI
<1>3. CASE \E op \in Barriers : Call(op)
  BY <1>3, CallI
<1>4. CASE Receive
  BY <1>4, ReceiveI
<1>5. CASE EnsureWriterOpen
  BY <1>5, EnsureWriterOpenI
<1>6. CASE WriteSessionMeta
  BY <1>6, WriteSessionMetaI
<1>7. CASE WriteItem
  BY <1>7, WriteItemI
<1>8. CASE ItemsWritten
  BY <1>8, ItemsWrittenI
<1>9. CASE FlushFile
  BY <1>9, FlushFileI
<1>10. CASE Killed
  BY <1>10, KilledI
<1>11. CASE Resume
  BY <1>11, ResumeI
<1>12. CASE AppendToPath
  BY <1>12, AppendToPathI
<1>13. QED
  BY <1>1, <1>2, <1>3, <1>4, <1>5, <1>6, <1>7, <1>8, <1>9, <1>10, <1>11, <1>12
     DEF Next, WriterStep

\* The inductive invariant holds in every reachable state.
LEMMA Inductive == Spec => []IInv
BY InitI, StepI, PTL DEF Spec

\* The states of the recorder, its task and its file have their types: in particular the
\* loop of write_pending_items_once never counts past its buffer, and the channel never
\* holds more than its capacity.
THEOREM TypeTheorem == Spec => []TypeOK
<1>1. IInv => TypeOK
  BY DEF IInv
<1>2. QED
  BY <1>1, Inductive, PTL

\* The file is the meta line and then the items in the order in which they were recorded,
\* none twice, through failed writes, second attempts, kills and resumes.
THEOREM FileInOrderTheorem == Spec => []FileInOrder
<1>1. IInv => FileInOrder
  BY DEF IInv
<1>2. QED
  BY <1>1, Inductive, PTL

\* What persist, flush, shutdown or append_rollout_item_to_path answered Ok for is in the
\* file, and a recorder that answered has put the meta line there.
THEOREM AckedIsWrittenTheorem == Spec => []AckedIsWritten
<1>1. IInv => AckedIsWritten
  <2> SUFFICES ASSUME IInv PROVE AckedIsWritten
    OBVIOUS
  <2>1. \A n \in acked : Whole(n)
    BY DEF IInv, AckedIsWhole
  <2>2. ASSUME Running, NEW n \in acked PROVE Whole(0)
    <3>1. \E i \in DOMAIN file : file[i].whole
      BY <2>1, <2>2 DEF Whole
    <3>2. QED
      BY <2>2, <3>1 DEF IInv, MetaFirst
  <2>3. QED
    BY <2>1, <2>2 DEF AckedIsWritten
<1>2. QED
  BY <1>1, Inductive, PTL

\* An item of a live recorder is in the channel, in the buffer or in the file, and in one
\* of them only.
THEOREM NothingLostTheorem == Spec => []NothingLost
<1>1. IInv => NothingLost
  <2> SUFFICES ASSUME IInv, Running, NEW n \in (base + 1)..(next - 1)
               PROVE  Cardinality(Places(n)) = 1
    BY DEF NothingLost
  <2>1. n \in Nat /\ task.written \in Nat /\ state.pending \in Seq(1..Items)
    BY Shapes DEF IInv, TypeOK
  <2>2. ASSUME Queued(n) PROVE ~Buffered(n) /\ ~Whole(n)
    <3>1. PICK q \in DOMAIN queue : queue[q] = Command("AddItems", n)
      BY <2>2 DEF Queued
    <3>2. IsItem(queue[q]) /\ queue[q].item = n
      BY <3>1 DEF IsItem, Command
    <3>3. /\ \A i \in DOMAIN state.pending : state.pending[i] < n
          /\ \A f \in DOMAIN file : file[f].whole => file[f].item < n
      BY <3>2 DEF IInv, BufferInOrder
    <3>4. ~Buffered(n)
      <4>1. \A i \in (task.written + 1)..Len(state.pending) : i \in DOMAIN state.pending
        BY <2>1
      <4>2. QED
        BY <2>1, <3>3, <4>1 DEF Buffered
    <3>5. ~Whole(n)
      BY <2>1, <3>3 DEF Whole
    <3>6. QED
      BY <3>4, <3>5
  <2>3. ASSUME Buffered(n) PROVE ~Whole(n)
    <3>1. PICK i \in (task.written + 1)..Len(state.pending) : state.pending[i] = n
      BY <2>3 DEF Buffered
    <3>2. i \in DOMAIN state.pending /\ task.written < i
      BY <2>1, <3>1
    <3>3. \A f \in DOMAIN file : file[f].whole => file[f].item < n
      BY <3>1, <3>2 DEF IInv, BufferInOrder
    <3>4. QED
      BY <2>1, <3>3 DEF Whole
  <2>4. Queued(n) \/ Buffered(n) \/ Whole(n)
    BY DEF IInv, Complete
  <2>5. Places(n) = {"queue"} \/ Places(n) = {"buffer"} \/ Places(n) = {"file"}
    <3>1. CASE Queued(n)
      BY <2>2, <3>1 DEF Places
    <3>2. CASE Buffered(n)
      BY <2>2, <2>3, <3>2 DEF Places
    <3>3. CASE Whole(n)
      BY <2>2, <2>3, <3>3 DEF Places
    <3>4. QED
      BY <2>4, <3>1, <3>2, <3>3
  <2>6. QED
    BY <2>5, FS_Singleton
<1>2. QED
  BY <1>1, Inductive, PTL

=============================================================================
