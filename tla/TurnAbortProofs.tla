-------------------------- MODULE TurnAbortProofs --------------------------
(***************************************************************************)
(* Proofs about the aborts of TurnLifecycle.  For every instance: a turn   *)
(* reported as aborted is detached (AInv, which follows the victim of an    *)
(* abort through its steps, keeps it out of the session, and needs that no *)
(* process starts a turn that was spawned before).  For a session whose    *)
(* turns only the submission loop starts and aborts: no two tasks run that *)
(* nobody has aborted, and an approval is not rejected before its task is  *)
(* cancelled (RInv, on top of AInv and of the SInv of TurnLifecycleProofs). *)
(***************************************************************************)
EXTENDS TurnLifecycleProofs

\* A turn that a process has set out to start is not spawned yet, and no other
\* process has set out to start it.
FreshStart == \A d \in Procs : starting[d] # NoTurn =>
    /\ pc[starting[d]] = "none"
    /\ \A e \in Procs : starting[e] = starting[d] => e = d
\* The tasks of the session are spawned.
TasksSpawned == \A t \in Range(Tasks) : pc[t] # "none"
\* The same for the tasks an abort took out of the session.
VictimsSpawned == \A d \in Procs : \A t \in Range(victims[d]) : pc[t] # "none"
\* A task of the session is not aborted and nobody's victim.
Detached == \A t \in Range(Tasks) :
    ~aborted[t] /\ \A d \in Procs : t \notin Range(victims[d])
\* From the grace period on the victim is cancelled,
VictimCancelled == \A d \in Procs :
    pc[d] \in {"wait", "mark", "report"} => cancelled[Head(victims[d])]
\* past the grace period its handle is aborted,
VictimAborted == \A d \in Procs :
    pc[d] \in {"mark", "report"} => aborted[Head(victims[d])]
\* and past the marker it is marked.
VictimMarked == \A d \in Procs :
    pc[d] = "report" /\ reason[d] = "Interrupted" => Head(victims[d]) \in marked
\* Only a spawned task is aborted, and only when it is cancelled.
HandleAborted == \A t \in Turns : aborted[t] => cancelled[t] /\ pc[t] # "none"
\* Only an aborted task is reported as aborted, and marked before.
ReportedAborted == \A t \in Turns : Aborted(t) =>
    aborted[t] /\ ("Interrupted" \in emitted[t] => t \in marked)

\* The inductive invariant of aborts.
AInv == FreshStart /\ TasksSpawned /\ VictimsSpawned /\ Detached /\ VictimCancelled
        /\ VictimAborted /\ VictimMarked /\ HandleAborted /\ ReportedAborted

-----------------------------------------------------------------------------
(* What a client is told about an aborted turn is true *)

\* A new session has spawned nothing.
LEMMA InitAbort == Init => AInv
<1> SUFFICES ASSUME Init PROVE AInv
  OBVIOUS
<1>1. Tasks = <<>> /\ \A d \in Procs : victims[d] = <<>> /\ starting[d] = NoTurn
  BY DEF Init, Tasks
<1>2. \A d \in Procs : pc[d] \in {"none", "idle"}
  BY DEF Init
<1>3. Range(<<>>) = {}
  BY DEF Range
<1>4. HandleAborted /\ ReportedAborted
  BY DEF Init, HandleAborted, ReportedAborted, Aborted
<1> QED
  BY <1>1, <1>2, <1>3, <1>4 DEF AInv, FreshStart, TasksSpawned, VictimsSpawned,
     Detached, VictimCancelled, VictimAborted, VictimMarked

\* The facts the steps below use: processes and turns are typed, and the head of
\* a non-empty list of victims is one of them.
LEMMA VictimShape ==
    ASSUME TInv, NEW d \in Procs, victims[d] # <<>>
    PROVE  /\ Head(victims[d]) \in Turns
           /\ Head(victims[d]) \in Range(victims[d])
           /\ Tail(victims[d]) \in Seq(Turns)
           /\ Range(Tail(victims[d])) \subseteq Range(victims[d])
<1>1. victims[d] \in Seq(Turns)
  BY DEF TInv, TypeOK
<1>2. Head(victims[d]) = victims[d][1] /\ 1 \in DOMAIN victims[d]
  BY <1>1
<1>3. \A i \in DOMAIN Tail(victims[d]) :
         i + 1 \in DOMAIN victims[d] /\ Tail(victims[d])[i] = victims[d][i + 1]
  BY <1>1
<1> QED BY <1>1, <1>2, <1>3, HeadTailProperties DEF Range

\* Tasks of the session, victims and turns to start are processes.
LEMMA TasksAreTurns ==
    ASSUME TInv
    PROVE  /\ Range(Tasks) \subseteq Turns
           /\ \A d \in Procs : Range(victims[d]) \subseteq Turns
           /\ Turns \subseteq Procs
<1>1. Tasks \in Seq(Turns)
  BY ActiveShape DEF Tasks, TInv
<1>2. \A d \in Procs : victims[d] \in Seq(Turns)
  BY DEF TInv, TypeOK
<1> QED BY <1>1, <1>2, RangeIn DEF Procs

\* A step that moves no process and touches nothing an abort relies on.
LEMMA StillAbort ==
    ASSUME TInv, AInv, pc' = pc, starting' = starting, victims' = victims,
           reason' = reason, marked' = marked, cancelled' = cancelled, aborted' = aborted,
           \A t \in Turns : emitted'[t] \intersect Reasons \subseteq emitted[t],
           Range(Tasks') \subseteq Range(Tasks)
    PROVE  AInv'
<1>1. FreshStart' /\ TasksSpawned' /\ VictimsSpawned' /\ Detached'
  BY DEF AInv, FreshStart, TasksSpawned, VictimsSpawned, Detached
<1>2. VictimCancelled' /\ VictimAborted' /\ VictimMarked' /\ HandleAborted'
  BY DEF AInv, VictimCancelled, VictimAborted, VictimMarked, HandleAborted
<1>3. ReportedAborted'
  BY DEF AInv, ReportedAborted, Aborted, Reasons
<1> QED BY <1>1, <1>2, <1>3 DEF AInv

\* A step of one live process d that may set out to start an unused turn, may
\* take the tasks of the session as its victims, go on to the next victim or
\* cancel its victim, and does not go to the marker or the report.  It may report
\* a turn that is aborted.
LEMMA MovesAbort ==
    ASSUME TInv, AInv, NEW d \in Procs, pc[d] \notin {"none", "done", "dead"},
           NEW s, s \notin {"none", "mark", "report"}, pc' = [pc EXCEPT ![d] = s],
           starting' \in [Procs -> Turns \union {NoTurn}],
           \A e \in Procs \ {d} : /\ starting'[e] = starting[e]
                                  /\ victims'[e] = victims[e]
                                  /\ reason'[e] = reason[e],
           starting'[d] \in {starting[d], NoTurn} \union Unused,
           \/ Range(victims'[d]) \subseteq Range(victims[d])
           \/ Range(victims'[d]) \subseteq Range(Tasks) /\ Tasks' = <<>>,
           aborted' = aborted, \A t \in Turns : cancelled[t] => cancelled'[t],
           s = "wait" => cancelled'[Head(victims'[d])],
           marked' = marked,
           \A t \in Turns, r \in Reasons : r \in emitted'[t] =>
               \/ r \in emitted[t]
               \/ aborted[t] /\ (r = "Interrupted" => t \in marked),
           Range(Tasks') \subseteq Range(Tasks)
    PROVE  AInv'
<1>1. /\ pc'[d] = s
      /\ \A e \in Procs \ {d} : pc'[e] = pc[e]
      /\ Turns \subseteq Procs
  BY DEF TInv, TypeOK, Procs
<1>2. FreshStart'
  <2> SUFFICES ASSUME NEW e \in Procs, starting'[e] # NoTurn
               PROVE  /\ pc'[starting'[e]] = "none"
                      /\ \A f \in Procs : starting'[f] = starting'[e] => f = e
    BY DEF FreshStart
  <2>1. starting'[e] \in Procs
    BY <1>1
  <2>2. /\ pc[starting'[e]] = "none"
        /\ \A f \in Procs : starting'[f] = starting'[e] => f = e
    <3>1. \A f \in Procs : starting[f] # NoTurn =>
             /\ pc[starting[f]] = "none"
             /\ \A g \in Procs : starting[g] = starting[f] => g = f
      BY DEF AInv, FreshStart
    <3>2. CASE starting'[d] \in Unused
      <4>1. pc[starting'[d]] = "none" /\ \A f \in Procs : starting[f] # starting'[d]
        BY <3>2 DEF Unused
      <4>2. CASE e = d
        BY <4>1, <4>2
      <4>3. CASE e # d
        <5>1. starting'[e] = starting[e]
          BY <4>3
        <5>2. \A f \in Procs : starting'[f] = starting'[e] => f = e
          <6> SUFFICES ASSUME NEW f \in Procs, starting'[f] = starting'[e] PROVE f = e
            OBVIOUS
          <6>1. f # d
            BY <4>1, <5>1
          <6>2. starting'[f] = starting[f]
            BY <6>1
          <6> QED BY <3>1, <5>1, <6>2
        <5> QED BY <3>1, <5>1, <5>2
      <4> QED BY <4>2, <4>3
    <3>3. CASE starting'[d] \in {starting[d], NoTurn}
      <4>1. \A f \in Procs : starting'[f] # NoTurn => starting'[f] = starting[f]
        BY <3>3
      <4> QED BY <3>1, <4>1
    <3> QED BY <3>2, <3>3
  <2> QED BY <1>1, <2>1, <2>2
<1>3. \A t \in Procs : pc[t] # "none" => pc'[t] # "none"
  BY <1>1
<1>4. Range(victims'[d]) \subseteq Range(victims[d]) \union Range(Tasks)
  OBVIOUS
<1>5. TasksSpawned' /\ VictimsSpawned'
  BY <1>3, <1>4, TasksAreTurns DEF AInv, TasksSpawned, VictimsSpawned
<1>6. Detached'
  <2>1. Range(<<>>) = {}
    BY DEF Range
  <2>2. CASE Tasks' = <<>>
    BY <2>1, <2>2 DEF Detached
  <2>3. CASE Range(victims'[d]) \subseteq Range(victims[d])
    BY <2>3 DEF AInv, Detached
  <2> QED BY <2>2, <2>3
<1>7. VictimCancelled'
  <2> SUFFICES ASSUME NEW e \in Procs, pc'[e] \in {"wait", "mark", "report"}
               PROVE  cancelled'[Head(victims'[e])]
    BY DEF VictimCancelled
  <2>1. CASE e = d
    BY <1>1, <2>1
  <2>2. CASE e # d
    <3>1. pc[e] \in {"wait", "mark", "report"} /\ victims'[e] = victims[e]
      BY <1>1, <2>2
    <3>2. cancelled[Head(victims[e])] /\ Head(victims[e]) \in Turns
      BY <3>1, VictimShape DEF AInv, VictimCancelled, TInv, HoldsVictim
    <3> QED BY <3>1, <3>2
  <2> QED BY <2>1, <2>2
<1>8. VictimAborted' /\ VictimMarked'
  BY <1>1 DEF AInv, VictimAborted, VictimMarked
<1>9. HandleAborted'
  BY <1>1, <1>3 DEF AInv, HandleAborted
<1>10. ReportedAborted'
  <2> SUFFICES ASSUME NEW t \in Turns, Aborted(t)'
               PROVE  aborted[t] /\ ("Interrupted" \in emitted'[t] => t \in marked)
    BY DEF ReportedAborted
  <2>1. PICK r \in Reasons : r \in emitted'[t]
    BY DEF Aborted
  <2>2. aborted[t]
    BY <2>1 DEF AInv, ReportedAborted, Aborted
  <2>3. "Interrupted" \in emitted'[t] => t \in marked
    BY DEF AInv, ReportedAborted, Aborted, Reasons
  <2> QED BY <2>2, <2>3
<1> QED BY <1>2, <1>5, <1>6, <1>7, <1>8, <1>9, <1>10 DEF AInv

\* The most common step: one live process moves on, and of what an abort relies
\* on at most the tasks of the session become fewer.
LEMMA CalmAbort ==
    ASSUME TInv, AInv, NEW d \in Procs,
           starting' = starting, victims' = victims, reason' = reason, marked' = marked,
           cancelled' = cancelled, aborted' = aborted,
           \A t \in Turns : emitted'[t] \intersect Reasons \subseteq emitted[t],
           Range(Tasks') \subseteq Range(Tasks),
           \/ pc' = pc
           \/ /\ pc[d] \notin {"none", "done", "dead"}
              /\ \E s : /\ s \notin {"none", "wait", "mark", "report"}
                        /\ pc' = [pc EXCEPT ![d] = s]
    PROVE  AInv'
<1>1. CASE pc' = pc
  BY <1>1, StillAbort
<1>2. CASE pc' # pc
  <2>1. PICK s : s \notin {"none", "wait", "mark", "report"} /\ pc' = [pc EXCEPT ![d] = s]
    BY <1>2
  <2>2. starting' \in [Procs -> Turns \union {NoTurn}]
    BY DEF TInv, TypeOK
  <2>3. /\ starting'[d] \in {starting[d], NoTurn} \union Unused
        /\ Range(victims'[d]) \subseteq Range(victims[d])
        /\ \A e \in Procs \ {d} : /\ starting'[e] = starting[e]
                                  /\ victims'[e] = victims[e]
                                  /\ reason'[e] = reason[e]
    OBVIOUS
  <2>4. pc[d] \notin {"none", "done", "dead"}
    BY <1>2
  <2>5. \A t \in Turns, r \in Reasons : r \in emitted'[t] => r \in emitted[t]
    OBVIOUS
  <2> QED BY <2>1, <2>2, <2>3, <2>4, <2>5, MovesAbort
<1> QED BY <1>1, <1>2

\* Steps of a task's own flow of control send no TurnAborted.
LEMMA TaskStepAbort ==
    ASSUME TInv, AInv, NEW t \in Turns,
           \/ BeginTask(t)
           \/ OtherWork(t)
           \/ EnterTurn(t)
           \/ EnterFails(t)
           \/ TurnTakesPending(t)
           \/ TurnDrainsMailbox(t)
           \/ AcceptPending(t)
           \/ \E i \in DOMAIN hand[t] : BlockPending(t, i)
           \/ SampleStep(t)
           \/ SampleFollowsUp(t)
           \/ SampleCompletes(t)
           \/ SampleFails(t)
           \/ CheckAgain(t)
           \/ FlushRollout(t)
           \/ CollectPending(t)
           \/ RecordLate(t)
           \/ ReportComplete(t)
    PROVE  AInv'
<1> DEFINE Live == pc[t] \notin {"none", "done", "dead"}
           Moves == \/ pc' = pc
                    \/ /\ Live
                       /\ \E s : /\ s \notin {"none", "wait", "mark", "report"}
                                 /\ pc' = [pc EXCEPT ![t] = s]
           Same == /\ active' = active /\ starting' = starting /\ victims' = victims
                   /\ reason' = reason /\ marked' = marked
                   /\ cancelled' = cancelled /\ aborted' = aborted
           Told == \A u \in Turns : emitted'[u] \intersect Reasons \subseteq emitted[u]
<1>1. t \in Procs
  BY DEF Procs
<1>2. emitted \in [Turns -> SUBSET Events]
  BY DEF TInv, TypeOK
<1>3. SUFFICES Moves /\ Same /\ Told
  <2>1. Same => Tasks' = Tasks
    BY DEF Tasks
  <2> QED BY <1>1, <2>1, CalmAbort
<1>4. CASE BeginTask(t)
  <2>1. Moves
    BY <1>4 DEF BeginTask, Goto
  <2>2. Same
    BY <1>4 DEF BeginTask, session, local, task
  <2>3. Told
    BY <1>2, <1>4 DEF BeginTask, Reasons
  <2> QED BY <2>1, <2>2, <2>3
<1>5. CASE OtherWork(t) \/ EnterTurn(t) \/ EnterFails(t)
  <2>1. Moves
    BY <1>5 DEF OtherWork, EnterTurn, EnterFails, Goto
  <2>2. Same /\ emitted' = emitted
    BY <1>5 DEF OtherWork, EnterTurn, EnterFails, session, local, record,
       task
  <2> QED BY <2>1, <2>2
<1>6. CASE TurnTakesPending(t) \/ TurnDrainsMailbox(t)
  <2>1. Moves
    BY <1>6 DEF TurnTakesPending, TakePending, TurnDrainsMailbox, DrainMailbox, Goto
  <2>2. Same /\ emitted' = emitted
    BY <1>6 DEF TurnTakesPending, TakePending, TurnDrainsMailbox, DrainMailbox, record,
       task
  <2> QED BY <2>1, <2>2
<1>7. CASE AcceptPending(t) \/ \E i \in DOMAIN hand[t] : BlockPending(t, i)
  <2>1. Moves
    BY <1>7 DEF AcceptPending, BlockPending, Goto
  <2>2. Same /\ emitted' = emitted
    BY <1>7 DEF AcceptPending, BlockPending, session, task
  <2> QED BY <2>1, <2>2
<1>8. CASE SampleStep(t)
  <2>1. Moves
    BY <1>8 DEF SampleStep, DeferMailbox, AcceptMailbox, RequestApproval,
       ApprovalEnds, Goto
  <2>2. Same /\ emitted' = emitted
    BY <1>8 DEF SampleStep, DeferMailbox, AcceptMailbox, RequestApproval,
       ApprovalEnds, session, local, record, task
  <2> QED BY <2>1, <2>2
<1>9. CASE \/ SampleFollowsUp(t) \/ SampleCompletes(t) \/ SampleFails(t)
           \/ CheckAgain(t) \/ FlushRollout(t)
  <2>1. Moves
    BY <1>9 DEF SampleFollowsUp, SampleCompletes, SampleFails, CheckAgain,
       FlushRollout, Goto
  <2>2. Same /\ emitted' = emitted
    BY <1>9 DEF SampleFollowsUp, SampleCompletes, SampleFails, CheckAgain,
       FlushRollout, session, local, record, task
  <2> QED BY <2>1, <2>2
<1>10. CASE CollectPending(t) \/ RecordLate(t)
  <2>1. Moves
    BY <1>10 DEF CollectPending, RecordLate, Goto
  <2>2. Same /\ emitted' = emitted
    BY <1>10 DEF CollectPending, RecordLate, session, record, task
  <2> QED BY <2>1, <2>2
<1>11. CASE ReportComplete(t)
  <2>1. Moves
    BY <1>11 DEF ReportComplete, Goto
  <2>2. Same
    BY <1>11 DEF ReportComplete, session, local, task
  <2>3. Told
    BY <1>2, <1>11 DEF ReportComplete, Reasons
  <2> QED BY <2>1, <2>2, <2>3
<1> QED BY <1>4, <1>5, <1>6, <1>7, <1>8, <1>9, <1>10, <1>11

\* swap_remove leaves no task that was not there.
LEMMA SwapRemoveRange ==
    ASSUME NEW s \in Seq(Turns), NEW t
    PROVE  Range(SwapRemove(s, t)) \subseteq Range(s)
<1>1. CASE ~Contains(s, t)
  BY <1>1 DEF SwapRemove
<1>2. CASE Contains(s, t)
  <2> DEFINE i == CHOOSE j \in DOMAIN s : s[j] = t
  <2>1. i \in DOMAIN s /\ Len(s) \in DOMAIN s
    BY <1>2 DEF Contains
  <2> DEFINE u == [s EXCEPT ![i] = Last(s)]
  <2>2. u \in Seq(Turns) /\ Len(u) = Len(s) /\ DOMAIN u = DOMAIN s
    BY <2>1 DEF Last
  <2>3. \A k \in DOMAIN u : u[k] \in Range(s)
    BY <2>1 DEF Last, Range
  <2>4. SwapRemove(s, t) = SubSeq(u, 1, Len(u) - 1)
    BY <1>2 DEF SwapRemove, Front
  <2> HIDE DEF u, i
  <2>5. \A k \in DOMAIN SubSeq(u, 1, Len(u) - 1) :
           k \in DOMAIN u /\ SubSeq(u, 1, Len(u) - 1)[k] = u[k]
    BY <2>2
  <2> QED BY <2>3, <2>4, <2>5 DEF Range
<1> QED BY <1>1, <1>2

\* The end of a task leaves the session with fewer tasks.
LEMMA TaskEndsAbort ==
    ASSUME TInv, AInv, NEW t \in Turns, RemoveTask(t) \/ ReleaseTurn(t)
    PROVE  AInv'
<1>1. t \in Procs
  BY DEF Procs
<1>2. Tasks \in Seq(Turns)
  BY ActiveShape DEF Tasks, TInv
<1>3. Range(Tasks') \subseteq Range(Tasks)
  <2>1. CASE active' = NoTurn
    BY <2>1 DEF Tasks, Range
  <2>2. CASE active' # NoTurn /\ RemoveTask(t)
    <3>1. active # NoTurn /\ active' = [active EXCEPT !.tasks = SwapRemove(Tasks, t)]
      BY <2>2 DEF RemoveTask
    <3>2. active \in [state : DOMAIN turnState, tasks : Seq(Turns)]
      BY <3>1, ActiveShape DEF TInv
    <3>3. Tasks' = SwapRemove(Tasks, t)
      BY <2>2, <3>1, <3>2 DEF Tasks
    <3> QED BY <1>2, <3>3, SwapRemoveRange
  <2>3. CASE active' # NoTurn /\ ReleaseTurn(t)
    BY <2>3 DEF ReleaseTurn, Tasks
  <2> QED BY <2>1, <2>2, <2>3
<1>4. UNCHANGED <<starting, victims, reason, marked, emitted, cancelled, aborted>>
  BY DEF RemoveTask, ReleaseTurn, record, task
<1>5. /\ pc[t] \in {"finish", "release"}
      /\ \E s \in {"collect", "complete", "maybe", "done"} : pc' = [pc EXCEPT ![t] = s]
  BY DEF RemoveTask, ReleaseTurn, Goto
<1>6. \E s : s \notin {"none", "wait", "mark", "report"} /\ pc' = [pc EXCEPT ![t] = s]
  BY <1>5
<1> QED BY <1>1, <1>3, <1>4, <1>5, <1>6, CalmAbort

\* Operations of the loop and calls from other threads: a turn set out for is
\* unused, and a guardian's victims are the tasks of the session.
LEMMA CallsAbort ==
    ASSUME TInv, AInv, LoopStep \/ ClientStep
    PROVE  AInv'
<1>0. Loop \in Procs /\ Turns \subseteq Procs /\ Guardians \subseteq Procs
  BY DEF Procs
<1>1. ASSUME NEW p \in Prompts, UserInputSteers(p) \/ Steer(p) PROVE AInv'
  <2>1. UNCHANGED <<active, pc, starting, victims, reason, marked, emitted, cancelled, aborted>>
    BY <1>1 DEF UserInputSteers, Steer, record, local, task
  <2>2. Tasks' = Tasks
    BY <2>1 DEF Tasks
  <2> QED BY <2>1, <2>2, StillAbort
<1>2. ASSUME NEW t \in Turns, NEW k, NEW in, SpawnTask(t, k, in), LoopReady,
             UNCHANGED <<session, record, victims, cancelled, aborted>>
      PROVE  AInv'
  <2>1. /\ pc[Loop] = "idle" /\ pc' = [pc EXCEPT ![Loop] = "take"]
        /\ starting' = [starting EXCEPT ![Loop] = t]
        /\ reason' = [reason EXCEPT ![Loop] = "Replaced"]
        /\ t \in Unused
    BY <1>2 DEF SpawnTask, LoopReady, Goto
  <2>2. /\ Tasks' = Tasks /\ marked' = marked /\ emitted' = emitted /\ victims' = victims
        /\ cancelled' = cancelled /\ aborted' = aborted
    BY <1>2 DEF Tasks, session, record
  <2>3. starting' \in [Procs -> Turns \union {NoTurn}] /\ starting'[Loop] = t
    BY <1>0, <2>1 DEF TInv, TypeOK
  <2>4. \A e \in Procs \ {Loop} : starting'[e] = starting[e] /\ reason'[e] = reason[e]
    BY <1>0, <2>1 DEF TInv, TypeOK
  <2> QED BY <1>0, <2>1, <2>2, <2>3, <2>4, MovesAbort
<1>3. ASSUME NEW p \in Prompts, NEW t \in Turns, UserInputSpawns(p, t) PROVE AInv'
  BY <1>2, <1>3 DEF UserInputSpawns
<1>4. ASSUME NEW t \in Turns, NEW k \in OtherKinds, SpawnOther(t, k) PROVE AInv'
  BY <1>2, <1>4 DEF SpawnOther
<1>5. ASSUME NEW op \in Stops, Interrupt(op) PROVE AInv'
  <2>1. /\ pc[Loop] = "idle" /\ pc' = [pc EXCEPT ![Loop] = "take"]
        /\ reason' = [reason EXCEPT ![Loop] = "Interrupted"]
        /\ UNCHANGED <<active, starting, victims, marked, emitted, cancelled, aborted>>
    BY <1>5 DEF Interrupt, LoopReady, Goto, session, record, task
  <2>2. Tasks' = Tasks
    BY <2>1 DEF Tasks
  <2>3. starting' \in [Procs -> Turns \union {NoTurn}]
    BY <2>1 DEF TInv, TypeOK
  <2>4. \A e \in Procs \ {Loop} : reason'[e] = reason[e]
    BY <1>0, <2>1 DEF TInv, TypeOK
  <2> QED BY <1>0, <2>1, <2>2, <2>3, <2>4, MovesAbort
<1>6. ASSUME NEW m \in Mail, InterAgentCommunication(m) PROVE AInv'
  <2>1. UNCHANGED <<active, starting, victims, reason, marked, emitted, cancelled, aborted>>
    BY <1>6 DEF InterAgentCommunication, record, local, task
  <2>2. pc[Loop] = "idle" /\ \E s \in {"maybe", "idle"} : pc' = [pc EXCEPT ![Loop] = s]
    BY <1>6 DEF InterAgentCommunication, LoopReady, Goto
  <2>3. Tasks' = Tasks
    BY <2>1 DEF Tasks
  <2>4. \E s : s \notin {"none", "wait", "mark", "report"} /\ pc' = [pc EXCEPT ![Loop] = s]
    BY <2>2
  <2> QED BY <1>0, <2>1, <2>2, <2>3, <2>4, CalmAbort
<1>7. ASSUME NEW g \in Grants, ApproveDenied(g) PROVE AInv'
  <2>1. UNCHANGED <<active, starting, victims, reason, marked, emitted, cancelled, aborted>>
    BY <1>7 DEF ApproveDenied, record, task
  <2>2. pc[Loop] = "idle" /\ (pc' = pc \/ pc' = [pc EXCEPT ![Loop] = "queue"])
    BY <1>7 DEF ApproveDenied, LoopReady, Goto
  <2>3. Tasks' = Tasks
    BY <2>1 DEF Tasks
  <2> QED BY <1>0, <2>1, <2>2, <2>3, CalmAbort
<1>8. ASSUME NEW n \in Notes, Inject(n) PROVE AInv'
  <2>1. UNCHANGED <<active, pc, starting, victims, reason, marked, emitted, cancelled, aborted>>
    BY <1>8 DEF Inject, record, local, task
  <2>2. Tasks' = Tasks
    BY <2>1 DEF Tasks
  <2> QED BY <2>1, <2>2, StillAbort
<1>9. ASSUME NEW t \in Turns, NotifyApproval(t) PROVE AInv'
  <2>1. UNCHANGED <<active, starting, victims, reason, marked, emitted, cancelled, aborted>>
    BY <1>9 DEF NotifyApproval, record, local, task
  <2>2. \/ pc' = pc
        \/ pc[t] = "approval" /\ pc' = [pc EXCEPT ![t] = "sample"]
    BY <1>9 DEF NotifyApproval, Goto
  <2>3. Tasks' = Tasks
    BY <2>1 DEF Tasks
  <2> QED BY <1>0, <2>1, <2>2, <2>3, CalmAbort
<1>10. ASSUME NEW d \in Guardians, NEW t \in Turns, GuardianTake(d, t) PROVE AInv'
  <2>1. /\ pc[d] = "idle" /\ pc' = [pc EXCEPT ![d] = "cancel"]
        /\ active' = NoTurn
        /\ victims' = [victims EXCEPT ![d] = active.tasks]
        /\ reason' = [reason EXCEPT ![d] = "Interrupted"]
        /\ UNCHANGED <<starting, marked, emitted, cancelled, aborted>>
    BY <1>10 DEF GuardianTake, Goto, record, task
  <2>2. active # NoTurn
    BY <1>10 DEF GuardianTake, Contains, Tasks
  <2>3. victims'[d] = Tasks
    BY <1>0, <2>1, <2>2 DEF Tasks, TInv, TypeOK
  <2>4. \A e \in Procs \ {d} : victims'[e] = victims[e] /\ reason'[e] = reason[e]
    BY <1>0, <2>1 DEF TInv, TypeOK
  <2>5. Tasks' = <<>> /\ Range(Tasks') = {}
    BY <2>1 DEF Tasks, Range
  <2>6. starting' \in [Procs -> Turns \union {NoTurn}]
    BY <2>1 DEF TInv, TypeOK
  <2> QED BY <1>0, <2>1, <2>3, <2>4, <2>5, <2>6, MovesAbort
<1> QED
  BY <1>1, <1>3, <1>4, <1>5, <1>6, <1>7, <1>8, <1>9, <1>10 DEF LoopStep, ClientStep

\* take_active_turn: the victims are the tasks of the session.
LEMMA TakeActiveTurnAbort ==
    ASSUME TInv, AInv, TakeActiveTurn
    PROVE  AInv'
<1>1. Loop \in Procs
  BY DEF Procs
<1>2. /\ pc[Loop] = "take"
      /\ active' = NoTurn
      /\ UNCHANGED <<starting, reason, marked, emitted, cancelled, aborted>>
  BY DEF TakeActiveTurn, record, task
<1>3. Tasks' = <<>> /\ Range(Tasks') = {}
  BY <1>2 DEF Tasks, Range
<1>4. CASE Tasks = <<>>
  <2>1. victims' = victims
    BY <1>4 DEF TakeActiveTurn
  <2>2. \E s \in {"queued", "maybe", "done", "idle"} : pc' = [pc EXCEPT ![Loop] = s]
    BY <1>4 DEF TakeActiveTurn, AfterAbort, Idle, Goto
  <2>3. \E s : s \notin {"none", "wait", "mark", "report"} /\ pc' = [pc EXCEPT ![Loop] = s]
    BY <2>2
  <2> QED BY <1>1, <1>2, <1>3, <2>1, <2>3, CalmAbort
<1>5. CASE Tasks # <<>>
  <2>1. /\ pc' = [pc EXCEPT ![Loop] = "cancel"]
        /\ victims' = [victims EXCEPT ![Loop] = Tasks]
    BY <1>5 DEF TakeActiveTurn, Goto, Tasks
  <2>2. /\ victims'[Loop] = Tasks
        /\ \A e \in Procs \ {Loop} : victims'[e] = victims[e]
    BY <1>1, <2>1 DEF TInv, TypeOK
  <2>3. starting' \in [Procs -> Turns \union {NoTurn}]
    BY <1>2 DEF TInv, TypeOK
  <2> QED BY <1>1, <1>2, <1>3, <2>1, <2>2, <2>3, MovesAbort
<1> QED BY <1>4, <1>5

\* Cancelling a token, or skipping a victim cancelled before.
LEMMA CancelTaskAbort ==
    ASSUME TInv, AInv, NEW d \in Procs, CancelTask(d)
    PROVE  AInv'
<1> DEFINE v == Head(victims[d])
<1>1. /\ pc[d] = "cancel" /\ victims[d] # <<>>
      /\ UNCHANGED <<active, starting, reason, marked, emitted, aborted>>
  BY DEF CancelTask, TInv, HoldsVictim, session, record
<1>2. starting' \in [Procs -> Turns \union {NoTurn}] /\ Tasks' = Tasks
  BY <1>1 DEF TInv, TypeOK, Tasks
<1>3. CASE cancelled[v]
  <2>1. /\ victims' = [victims EXCEPT ![d] = Tail(victims[d])]
        /\ \E s \in {"clear", "cancel"} : pc' = [pc EXCEPT ![d] = s]
        /\ cancelled' = cancelled
    BY <1>3 DEF CancelTask, Goto
  <2>2. /\ Range(victims'[d]) \subseteq Range(victims[d])
        /\ \A e \in Procs \ {d} : victims'[e] = victims[e]
    BY <1>1, <2>1, VictimShape DEF TInv, TypeOK
  <2>3. \E s : s \notin {"none", "wait", "mark", "report"} /\ pc' = [pc EXCEPT ![d] = s]
    BY <2>1
  <2> HIDE DEF v
  <2> QED BY <1>1, <1>2, <2>1, <2>2, <2>3, MovesAbort
<1>4. CASE ~cancelled[v]
  <2>1. /\ cancelled' = [cancelled EXCEPT ![v] = TRUE]
        /\ victims' = victims
        /\ pc' = [pc EXCEPT ![d] = "wait"]
    BY <1>4 DEF CancelTask, Goto
  <2>2. v \in Turns
    BY <1>1, VictimShape
  <2>3. cancelled'[v] /\ \A t \in Turns : cancelled[t] => cancelled'[t]
    BY <2>1, <2>2, Zenon DEF TInv, TypeOK
  <2>4. cancelled'[Head(victims'[d])]
    BY <2>1, <2>3
  <2> HIDE DEF v
  <2> QED BY <1>1, <1>2, <2>1, <2>3, <2>4, MovesAbort
<1> QED BY <1>3, <1>4

\* The victim, cancelled and out of the session, has its handle aborted.
LEMMA StopTaskAbort ==
    ASSUME TInv, AInv, NEW d \in Procs, StopTask(d)
    PROVE  AInv'
<1> DEFINE v == Head(victims[d])
<1>1. pc[d] = "wait" /\ victims[d] # <<>>
  BY DEF StopTask, TInv, HoldsVictim
<1>2. v \in Turns /\ v \in Range(victims[d]) /\ cancelled[v]
  BY <1>1, VictimShape DEF AInv, VictimCancelled
<1>3. pc[v] # "none" /\ v \notin Range(Tasks)
  BY <1>2 DEF AInv, VictimsSpawned, Detached
<1>4. /\ pc' = [pc EXCEPT ![d] = "mark"]
      /\ aborted' = [aborted EXCEPT ![v] = TRUE]
      /\ UNCHANGED <<active, starting, victims, reason, marked, emitted, cancelled>>
  BY DEF StopTask, Goto, session, record, local
<1>5. /\ aborted'[v] /\ \A t \in Turns : aborted[t] => aborted'[t]
      /\ \A t \in Turns \ {v} : aborted'[t] = aborted[t]
  BY <1>2, <1>4, Zenon DEF TInv, TypeOK
<1>6. v = Head(victims'[d])
  BY <1>4
<1> HIDE DEF v
<1>7. pc'[d] = "mark" /\ \A e \in Procs \ {d} : pc'[e] = pc[e]
  BY <1>4 DEF TInv, TypeOK
<1>8. Turns \subseteq Procs /\ \A e \in Procs : (pc[e] = "none") <=> (pc'[e] = "none")
  BY <1>1, <1>7 DEF Procs
<1>9. Tasks' = Tasks
  BY <1>4 DEF Tasks
<1>10. FreshStart'
  BY <1>4, <1>8 DEF AInv, FreshStart, TInv, TypeOK
<1>11. TasksSpawned' /\ VictimsSpawned'
  BY <1>4, <1>8, <1>9, TasksAreTurns DEF AInv, TasksSpawned, VictimsSpawned
<1>12. Detached'
  BY <1>3, <1>4, <1>5, <1>9, TasksAreTurns DEF AInv, Detached
<1>13. VictimCancelled'
  BY <1>1, <1>4, <1>7 DEF AInv, VictimCancelled
<1>14. VictimAborted'
  <2> SUFFICES ASSUME NEW e \in Procs, pc'[e] \in {"mark", "report"}
               PROVE  aborted'[Head(victims'[e])]
    BY DEF VictimAborted
  <2>1. CASE e = d
    BY <1>5, <1>6, <2>1
  <2>2. CASE e # d
    <3>1. pc[e] \in {"mark", "report"}
      BY <1>7, <2>2
    <3>2. aborted[Head(victims[e])] /\ Head(victims[e]) \in Turns
      BY <3>1, VictimShape DEF AInv, VictimAborted, TInv, HoldsVictim
    <3> QED BY <1>4, <1>5, <3>2
  <2> QED BY <2>1, <2>2
<1>15. VictimMarked'
  BY <1>4, <1>7 DEF AInv, VictimMarked
<1>16. HandleAborted'
  BY <1>2, <1>3, <1>4, <1>5, <1>8 DEF AInv, HandleAborted
<1>17. ReportedAborted'
  BY <1>4, <1>5 DEF AInv, ReportedAborted, Aborted
<1> QED
  BY <1>10, <1>11, <1>12, <1>13, <1>14, <1>15, <1>16, <1>17 DEF AInv

\* An aborted task that is dropped was spawned, and starts nothing any more.
LEMMA DropTaskAbort ==
    ASSUME TInv, AInv, NEW t \in Turns, DropTask(t)
    PROVE  AInv'
<1>1. /\ pc[t] # "none"
      /\ pc' = [pc EXCEPT ![t] = "dead"]
      /\ starting' = [starting EXCEPT ![t] = NoTurn]
      /\ UNCHANGED <<active, victims, reason, marked, emitted, cancelled, aborted>>
  BY DEF DropTask, Goto, AInv, HandleAborted, session, record
<1>2. Turns \subseteq Procs /\ t \in Procs
  BY DEF Procs
<1>3. pc'[t] = "dead" /\ \A e \in Procs \ {t} : pc'[e] = pc[e]
  BY <1>1, <1>2 DEF TInv, TypeOK
<1>4. /\ \A e \in Procs : (pc[e] = "none") <=> (pc'[e] = "none")
      /\ \A e \in Procs : pc'[e] \in {"wait", "mark", "report"} => pc'[e] = pc[e]
  BY <1>1, <1>3
<1>5. starting'[t] = NoTurn /\ \A e \in Procs \ {t} : starting'[e] = starting[e]
  BY <1>1, <1>2 DEF TInv, TypeOK
<1>6. Tasks' = Tasks
  BY <1>1 DEF Tasks
<1>7. FreshStart'
  <2> SUFFICES ASSUME NEW e \in Procs, starting'[e] # NoTurn
               PROVE  /\ pc'[starting'[e]] = "none"
                      /\ \A f \in Procs : starting'[f] = starting'[e] => f = e
    BY DEF FreshStart
  <2>1. \A f \in Procs : starting'[f] # NoTurn => starting'[f] = starting[f]
    BY <1>5
  <2>2. /\ pc[starting[e]] = "none" /\ starting[e] \in Turns
        /\ \A f \in Procs : starting[f] = starting[e] => f = e
    BY <2>1 DEF AInv, FreshStart, TInv, TypeOK
  <2> QED BY <1>2, <1>4, <2>1, <2>2
<1>8. TasksSpawned' /\ VictimsSpawned' /\ Detached'
  BY <1>1, <1>2, <1>4, <1>6, TasksAreTurns
  DEF AInv, TasksSpawned, VictimsSpawned, Detached
<1>9. VictimCancelled' /\ VictimAborted' /\ VictimMarked'
  BY <1>1, <1>4 DEF AInv, VictimCancelled, VictimAborted, VictimMarked
<1>10. HandleAborted' /\ ReportedAborted'
  BY <1>1, <1>2, <1>4 DEF AInv, HandleAborted, ReportedAborted, Aborted
<1> QED BY <1>7, <1>8, <1>9, <1>10 DEF AInv

\* The marker of an interrupted victim comes before the report.
LEMMA MarkInterruptedAbort ==
    ASSUME TInv, AInv, NEW d \in Procs, MarkInterrupted(d)
    PROVE  AInv'
<1>1. /\ pc[d] = "mark" /\ pc'[d] = "report"
      /\ \A e \in Procs \ {d} : pc'[e] = pc[e]
      /\ Turns \subseteq Procs
  BY DEF MarkInterrupted, Goto, TInv, TypeOK, Procs
<1>2. UNCHANGED <<active, starting, victims, reason, emitted, cancelled, aborted>>
  BY DEF MarkInterrupted, session, local, task
<1>3. /\ marked \subseteq marked'
      /\ reason[d] = "Interrupted" => Head(victims[d]) \in marked'
  BY DEF MarkInterrupted
<1>4. /\ \A e \in Procs : (pc[e] = "none") <=> (pc'[e] = "none")
      /\ \A e \in Procs : pc'[e] = "wait" => pc[e] = "wait"
      /\ \A e \in Procs : pc'[e] \in {"mark", "report"} => pc[e] \in {"mark", "report"}
  BY <1>1
<1>5. Tasks' = Tasks
  BY <1>2 DEF Tasks
<1>6. FreshStart'
  BY <1>1, <1>2, <1>4 DEF AInv, FreshStart, TInv, TypeOK
<1>7. TasksSpawned' /\ VictimsSpawned' /\ Detached'
  BY <1>1, <1>2, <1>4, <1>5, TasksAreTurns
  DEF AInv, TasksSpawned, VictimsSpawned, Detached
<1>8. VictimCancelled' /\ VictimAborted'
  BY <1>2, <1>4 DEF AInv, VictimCancelled, VictimAborted
<1>9. VictimMarked'
  BY <1>1, <1>2, <1>3 DEF AInv, VictimMarked
<1>10. HandleAborted' /\ ReportedAborted'
  BY <1>1, <1>2, <1>3, <1>4 DEF AInv, HandleAborted, ReportedAborted, Aborted
<1> QED BY <1>6, <1>7, <1>8, <1>9, <1>10 DEF AInv

\* TurnAborted is sent for a victim that is aborted and marked.
LEMMA ReportAbortedAbort ==
    ASSUME TInv, AInv, NEW d \in Procs, ReportAborted(d)
    PROVE  AInv'
<1> DEFINE v == Head(victims[d])
<1>1. pc[d] = "report" /\ victims[d] # <<>>
  BY DEF ReportAborted, TInv, HoldsVictim
<1>2. v \in Turns /\ aborted[v] /\ (reason[d] = "Interrupted" => v \in marked)
  BY <1>1, VictimShape DEF AInv, VictimAborted, VictimMarked
<1>3. /\ emitted' = [emitted EXCEPT ![v] = emitted[v] \union {reason[d]}]
      /\ victims' = [victims EXCEPT ![d] = Tail(victims[d])]
      /\ \E s \in {"clear", "cancel"} : pc' = [pc EXCEPT ![d] = s]
      /\ UNCHANGED <<active, starting, reason, marked, cancelled, aborted>>
  BY DEF ReportAborted, Goto, session, task
<1>4. \A t \in Turns, r \in Reasons : r \in emitted'[t] =>
         r \in emitted[t] \/ (t = v /\ r = reason[d])
  BY <1>2, <1>3 DEF TInv, TypeOK
<1>5. /\ Range(victims'[d]) \subseteq Range(victims[d])
      /\ \A e \in Procs \ {d} : victims'[e] = victims[e]
  BY <1>1, <1>3, VictimShape DEF TInv, TypeOK
<1>6. PICK s : /\ s \notin {"none", "wait", "mark", "report"}
               /\ pc' = [pc EXCEPT ![d] = s]
  BY <1>3
<1>7. starting' \in [Procs -> Turns \union {NoTurn}] /\ Tasks' = Tasks
  BY <1>3 DEF TInv, TypeOK, Tasks
<1>8. \A t \in Turns, r \in Reasons : r \in emitted'[t] =>
         \/ r \in emitted[t]
         \/ aborted[t] /\ (r = "Interrupted" => t \in marked)
  BY <1>2, <1>4
<1>9. \A t \in Turns : cancelled[t] => cancelled'[t]
  BY <1>3
<1>10. UNCHANGED <<reason, marked, aborted>>
  BY <1>3
<1>11. \A e \in Procs \ {d} : /\ starting'[e] = starting[e]
                             /\ victims'[e] = victims[e]
                             /\ reason'[e] = reason[e]
  BY <1>3, <1>5
<1>12. starting'[d] = starting[d] /\ pc[d] \notin {"none", "done", "dead"}
  BY <1>1, <1>3
<1> HIDE DEF v
<1> QED
  BY <1>5, <1>6, <1>7, <1>8, <1>9, <1>10, <1>11, <1>12, MovesAbort

\* clear_pending ends the abort.
LEMMA ClearPendingAbort ==
    ASSUME TInv, AInv, NEW d \in Procs, ClearPending(d)
    PROVE  AInv'
<1>1. /\ pc[d] = "clear"
      /\ UNCHANGED <<active, starting, victims, reason, marked, emitted, cancelled, aborted>>
  BY DEF ClearPending, record, task
<1>2. \E s \in {"queued", "maybe", "done", "idle"} : pc' = [pc EXCEPT ![d] = s]
  BY DEF ClearPending, AfterAbort, Idle, Goto
<1>3. \E s : s \notin {"none", "wait", "mark", "report"} /\ pc' = [pc EXCEPT ![d] = s]
  BY <1>2
<1>4. Tasks' = Tasks
  BY <1>1 DEF Tasks
<1> QED BY <1>1, <1>3, <1>4, CalmAbort

\* Finding or creating the ActiveTurn adds no task to it.
LEMMA GetOrInsertTasks == GetOrInsert.tasks = Tasks
BY DEF GetOrInsert, Tasks

\* The task added is the one this process alone set out to start, not spawned yet.
LEMMA SpawnAndAddAbort ==
    ASSUME TInv, AInv, NEW d \in Procs, SpawnAndAdd(d)
    PROVE  AInv'
<1> DEFINE u == starting[d]
<1>1. pc[d] = "spawn" /\ u \in Turns /\ u # NoTurn
  BY ProcsAssumption DEF SpawnAndAdd, TInv, HoldsStart, StartSteps
<1>2. pc[u] = "none" /\ \A e \in Procs : starting[e] = u => e = d
  BY <1>1 DEF AInv, FreshStart
<1>3. u \in Procs /\ u # d /\ Turns \subseteq Procs
  BY <1>1, <1>2 DEF Procs
<1>4. /\ pc'[u] = "start" /\ pc'[d] \in {"done", "idle"}
      /\ \A e \in Procs \ {d, u} : pc'[e] = pc[e]
  BY <1>3 DEF SpawnAndAdd, Idle, TInv, TypeOK
<1>5. /\ starting'[d] = NoTurn
      /\ \A e \in Procs \ {d} : starting'[e] = starting[e]
  BY DEF SpawnAndAdd, TInv, TypeOK
<1>6. UNCHANGED <<victims, reason, marked, emitted, cancelled, aborted>>
  BY DEF SpawnAndAdd, record, task
<1>7. Range(Tasks') \subseteq Range(Tasks) \union {u} /\ Range(Tasks) \subseteq Turns
  <2>1. GetOrInsert \in [state : DOMAIN Allocated, tasks : Seq(Turns)]
    BY AllocatedShape DEF TInv
  <2>2. active' = [GetOrInsert EXCEPT !.tasks = Append(Tasks, u)]
    BY GetOrInsertTasks DEF SpawnAndAdd
  <2>3. active'.tasks = Append(Tasks, u)
    BY <2>1, <2>2
  <2>4. Tasks' = <<>> \/ Tasks' = Append(Tasks, u)
    BY <2>3 DEF Tasks
  <2>5. Tasks \in Seq(Turns)
    BY <2>1, GetOrInsertTasks
  <2>6. Range(Append(Tasks, u)) \subseteq Range(Tasks) \union {u} /\ Range(<<>>) = {}
    BY <2>5 DEF Range
  <2> QED BY <2>4, <2>5, <2>6, RangeIn
<1> HIDE DEF u
<1>8. \A t \in Turns : pc[t] # "none" => pc'[t] # "none"
  BY <1>1, <1>2, <1>3, <1>4
<1>9. FreshStart'
  <2> SUFFICES ASSUME NEW e \in Procs, starting'[e] # NoTurn
               PROVE  /\ pc'[starting'[e]] = "none"
                      /\ \A f \in Procs : starting'[f] = starting'[e] => f = e
    BY DEF FreshStart
  <2>1. e # d /\ starting'[e] = starting[e]
    BY <1>5
  <2>2. /\ pc[starting[e]] = "none" /\ starting[e] \in Turns
        /\ \A f \in Procs : starting[f] = starting[e] => f = e
    BY <2>1 DEF AInv, FreshStart, TInv, TypeOK
  <2>3. starting[e] # u /\ starting[e] # d
    BY <1>1, <1>2, <2>1, <2>2
  <2>4. pc'[starting[e]] = "none"
    BY <1>3, <1>4, <2>2, <2>3
  <2>5. \A f \in Procs : starting'[f] = starting'[e] => f = e
    BY <1>5, <2>1, <2>2
  <2> QED BY <2>1, <2>4, <2>5
<1>10. VictimsSpawned'
  BY <1>6, <1>8, TasksAreTurns DEF AInv, VictimsSpawned
<1>11. TasksSpawned'
  BY <1>4, <1>7, <1>8 DEF AInv, TasksSpawned
<1>12. Detached'
  <2>1. ~aborted[u] /\ \A e \in Procs : u \notin Range(victims[e])
    BY <1>1, <1>2 DEF AInv, HandleAborted, VictimsSpawned
  <2> QED BY <1>6, <1>7, <2>1 DEF AInv, Detached
<1>13. \A e \in Procs : pc'[e] \in {"wait", "mark", "report"} => pc'[e] = pc[e]
  BY <1>4
<1>14. VictimCancelled' /\ VictimAborted' /\ VictimMarked'
  BY <1>6, <1>13 DEF AInv, VictimCancelled, VictimAborted, VictimMarked
<1>15. HandleAborted' /\ ReportedAborted'
  BY <1>6, <1>8 DEF AInv, HandleAborted, ReportedAborted, Aborted
<1> QED BY <1>9, <1>10, <1>11, <1>12, <1>14, <1>15 DEF AInv

\* The other steps towards a new turn.
LEMMA StartStepAbort ==
    ASSUME TInv, AInv, NEW d \in Procs, StartStep(d)
    PROVE  AInv'
<1>1. CASE \/ CheckPendingWork(d) \/ SkipReserved(d) \/ TakeQueued(d)
           \/ StartTakesPending(d) \/ StartDrainsMailbox(d) \/ PushPending(d)
  <2>1. UNCHANGED <<active, starting, victims, reason, marked, emitted, cancelled, aborted>>
    BY <1>1 DEF CheckPendingWork, SkipReserved, TakeQueued, StartTakesPending,
       TakePending, StartDrainsMailbox, DrainMailbox, PushPending, session, record, local,
       task
  <2>2. /\ pc[d] \in StartSteps \union WakeSteps
        /\ \E s \in {"reserve", "done", "idle", "pending", "mailbox", "attach", "spawn"} :
              pc' = [pc EXCEPT ![d] = s]
    BY <1>1 DEF CheckPendingWork, SkipReserved, TakeQueued, StartTakesPending,
       TakePending, StartDrainsMailbox, DrainMailbox, PushPending, Idle, Goto,
       StartSteps, WakeSteps
  <2>3. \E s : s \notin {"none", "wait", "mark", "report"} /\ pc' = [pc EXCEPT ![d] = s]
    BY <2>2
  <2>4. pc[d] \notin {"none", "done", "dead"}
    BY <2>2 DEF StartSteps, WakeSteps
  <2>5. Tasks' = Tasks
    BY <2>1 DEF Tasks
  <2> QED BY <2>1, <2>3, <2>4, <2>5, CalmAbort
<1>2. active' = GetOrInsert => Range(Tasks') \subseteq Range(Tasks)
  BY GetOrInsertTasks DEF Tasks, Range
<1>3. CASE AttachTurnState(d)
  <2>1. /\ pc[d] = "attach" /\ pc' = [pc EXCEPT ![d] = "push"]
        /\ active' = GetOrInsert
        /\ UNCHANGED <<starting, victims, reason, marked, emitted, cancelled, aborted>>
    BY <1>3 DEF AttachTurnState, Goto, record, task
  <2> QED BY <1>2, <2>1, CalmAbort
<1>4. ASSUME NEW t \in Turns, ReserveTurn(d, t) PROVE AInv'
  <2>1. /\ pc[d] = "reserve" /\ pc' = [pc EXCEPT ![d] = "queued"]
        /\ active' = GetOrInsert
        /\ t \in Unused
        /\ starting' = [starting EXCEPT ![d] = t]
        /\ UNCHANGED <<victims, reason, marked, emitted, cancelled, aborted>>
    BY <1>4 DEF ReserveTurn, Goto, record, task
  <2>2. /\ starting' \in [Procs -> Turns \union {NoTurn}]
        /\ starting'[d] = t
        /\ \A e \in Procs \ {d} : starting'[e] = starting[e]
    BY <2>1 DEF TInv, TypeOK
  <2> QED BY <1>2, <2>1, <2>2, MovesAbort
<1> QED
  BY <1>1, <1>3, <1>4, SpawnAndAddAbort DEF StartStep

\* Items kept for the next turn.
LEMMA QueueForNextTurnAbort ==
    ASSUME TInv, AInv, QueueForNextTurn
    PROVE  AInv'
<1>1. /\ pc[Loop] = "queue" /\ pc' = [pc EXCEPT ![Loop] = "idle"]
      /\ UNCHANGED <<active, starting, victims, reason, marked, emitted, cancelled, aborted>>
  BY DEF QueueForNextTurn, Goto, record, task
<1>2. Tasks' = Tasks /\ Loop \in Procs
  BY <1>1 DEF Tasks, Procs
<1> QED BY <1>1, <1>2, CalmAbort

\* Every step keeps the invariant of aborts.
LEMMA NextAbort ==
    ASSUME TInv, AInv, [Next]_vars
    PROVE  AInv'
<1>1. CASE LoopStep \/ ClientStep
  BY <1>1, CallsAbort
<1>2. ASSUME NEW d \in Procs \ Turns, DriverStep(d) PROVE AInv'
  <2>1. CASE AbortStep(d)
    BY <2>1, CancelTaskAbort, StopTaskAbort, MarkInterruptedAbort, ReportAbortedAbort,
       ClearPendingAbort DEF AbortStep
  <2> QED
    BY <1>2, <2>1, QueueForNextTurnAbort, TakeActiveTurnAbort, StartStepAbort
    DEF DriverStep
<1>3. ASSUME NEW t \in Turns, TaskStep(t) PROVE AInv'
  <2>1. CASE RemoveTask(t) \/ ReleaseTurn(t)
    BY <2>1, TaskEndsAbort
  <2>2. CASE StartStep(t)
    BY <2>2, StartStepAbort DEF Procs
  <2> QED BY <1>3, <2>1, <2>2, TaskStepAbort DEF TaskStep
<1>4. ASSUME NEW t \in Turns, DropTask(t) PROVE AInv'
  BY <1>4, DropTaskAbort
<1>5. CASE UNCHANGED vars
  <2>1. UNCHANGED <<active, pc, starting, victims, reason, marked, emitted, cancelled, aborted>>
    BY <1>5 DEF vars, session, record, local, task
  <2>2. Tasks' = Tasks
    BY <2>1 DEF Tasks
  <2> QED BY <2>1, <2>2, StillAbort
<1> QED BY <1>1, <1>2, <1>3, <1>4, <1>5 DEF Next, Quiescent

\* Whoever aborts a turn, the loop or a guardian, and whatever its task does in
\* the grace period: when TurnAborted is sent, and from then on, the task is
\* cancelled, its handle aborted, it is out of the session and nobody can put it
\* back, and an interrupted turn has its marker in the history.
THEOREM AbortedIsDetachedTheorem == Spec => []AbortedIsDetached
<1>1. Init => TInv /\ AInv
  BY InitType, InitAbort
<1>2. TInv /\ AInv /\ [Next]_vars => (TInv /\ AInv)'
  BY NextType, NextAbort
<1>3. TInv /\ AInv => AbortedIsDetached
  <2> SUFFICES ASSUME TInv, AInv, NEW t \in Turns, Aborted(t)
               PROVE  /\ cancelled[t] /\ aborted[t]
                      /\ ~Contains(Tasks, t)
                      /\ \A d \in Procs : starting[d] # t
                      /\ "Interrupted" \in emitted[t] => t \in marked
    BY DEF AbortedIsDetached
  <2>1. aborted[t] /\ ("Interrupted" \in emitted[t] => t \in marked)
    BY DEF AInv, ReportedAborted
  <2>2. cancelled[t] /\ pc[t] # "none"
    BY <2>1 DEF AInv, HandleAborted
  <2>3. ~Contains(Tasks, t)
    BY <2>1 DEF AInv, Detached, Contains, Range
  <2>4. \A d \in Procs : starting[d] # t
    BY <2>2, ProcsAssumption DEF AInv, FreshStart
  <2> QED BY <2>1, <2>2, <2>3, <2>4
<1> QED BY <1>1, <1>2, <1>3, PTL DEF Spec

-----------------------------------------------------------------------------
(* One live task at a time, and answers to its approvals *)

\* The loop past take_active_turn, until the abort is over.
Aborting == {"cancel", "wait", "mark", "report", "clear"}

\* While it aborts there is no active turn.
NoSession == pc[Loop] \in Aborting => active = NoTurn
\* A task that runs, and that nobody has aborted.
Live(t) == pc[t] \in RunSteps /\ ~aborted[t]
\* It is the one task of the session, or the one victim of the loop, which has not
\* aborted it yet.
Running == \A t \in Turns : Live(t) =>
    \/ Tasks = <<t>>
    \/ pc[Loop] \in {"cancel", "wait"} /\ victims[Loop] = <<t>>
\* A cancelled task is spawned, and live only in its grace period.
CancelledStops == \A t \in Turns : cancelled[t] =>
    pc[t] # "none" /\ (Live(t) => pc[Loop] = "wait" /\ victims[Loop] = <<t>>)
\* A task that waits for an approval is cancelled, or its sender is in the active
\* turn or in the turn the loop has taken.
Sender == \A t \in Turns : pc[t] = "approval" =>
    \/ cancelled[t]
    \/ active # NoTurn /\ t \in turnState[active.state].approvals
    \/ pc[Loop] = "cancel" /\ t \in turnState[ref[Loop]].approvals

\* The inductive invariant of such a session.
RInv == NoSession /\ Running /\ CancelledStops /\ Sender

\* Nothing runs in a new session.
LEMMA InitRunning == Init => RInv
BY ProcsAssumption DEF Init, RInv, NoSession, Running, Live, CancelledStops, Sender,
   Aborting, RunSteps, Procs

\* Setting the pending input or the phase of a turn state keeps every approval.
LEMMA KeepsApprovals ==
    ASSUME NEW ts \in Seq(TurnStates), NEW i \in DOMAIN ts, NEW p
    PROVE  \A j \in DOMAIN ts : /\ [ts EXCEPT ![i].pending = p][j].approvals = ts[j].approvals
                                /\ [ts EXCEPT ![i].phase = p][j].approvals = ts[j].approvals
<1>1. \A j \in DOMAIN ts : ts[j] \in TurnStates
  OBVIOUS
<1> QED BY <1>1 DEF TurnStates

\* A step of one task, which may leave its run, may move within it, but does not
\* begin one; it may remove its own approval when it does not wait for it.
LEMMA TaskMovesRunning ==
    ASSUME TInv, RInv, NEW t \in Turns,
           active' = active, cancelled' = cancelled, aborted' = aborted,
           victims' = victims, ref'[Loop] = ref[Loop],
           \A i \in DOMAIN turnState, u \in Turns :
               /\ u \in turnState[i].approvals
               /\ pc'[u] = "approval"
               => u \in turnState'[i].approvals,
           \/ pc' = pc
           \/ /\ pc[t] # "none"
              /\ \E s : /\ s # "none" /\ pc' = [pc EXCEPT ![t] = s]
                        /\ s \in RunSteps => pc[t] \in RunSteps
                        /\ s = "approval" => /\ active # NoTurn
                                             /\ t \in turnState'[active.state].approvals
    PROVE  RInv'
<1>1. t # Loop /\ Loop \in Procs /\ Turns \subseteq Procs
  BY ProcsAssumption DEF Procs
<1>2. pc'[Loop] = pc[Loop] /\ \A u \in Turns \ {t} : pc'[u] = pc[u]
  BY <1>1 DEF TInv, TypeOK
<1>3. /\ pc'[t] \in RunSteps => pc[t] \in RunSteps
      /\ pc[t] # "none" => pc'[t] # "none"
      /\ pc'[t] = "approval" => \/ pc[t] = "approval"
                                \/ active # NoTurn /\ t \in turnState'[active.state].approvals
  BY <1>1 DEF TInv, TypeOK
<1>4. Tasks' = Tasks
  BY DEF Tasks
<1>5. NoSession'
  BY <1>2 DEF RInv, NoSession
<1>6. \A u \in Turns : Live(u)' => Live(u)
  BY <1>2, <1>3 DEF Live
<1>7. Running' /\ CancelledStops'
  BY <1>2, <1>3, <1>4, <1>6 DEF RInv, Running, CancelledStops
<1>8. Sender'
  <2> SUFFICES ASSUME NEW u \in Turns, pc'[u] = "approval", ~cancelled[u]
               PROVE  \/ active # NoTurn /\ u \in turnState'[active.state].approvals
                      \/ pc[Loop] = "cancel" /\ u \in turnState'[ref[Loop]].approvals
    BY <1>2 DEF Sender
  <2>1. active # NoTurn => active.state \in DOMAIN turnState
    BY ActiveShape DEF TInv
  <2>2. pc[Loop] = "cancel" => ref[Loop] \in DOMAIN turnState
    BY <1>1 DEF TInv, TypeOK, HoldsRef
  <2>3. CASE pc[u] = "approval"
    BY <2>1, <2>2, <2>3 DEF RInv, Sender
  <2>4. CASE pc[u] # "approval"
    <3>1. u = t
      BY <1>2, <2>4
    <3> QED BY <1>3, <2>4, <3>1
  <2> QED BY <2>3, <2>4
<1> QED BY <1>5, <1>6, <1>7, <1>8 DEF RInv

\* The same for a step of the loop outside an abort.
LEMMA LoopMovesRunning ==
    ASSUME TInv, RInv,
           active' = active, cancelled' = cancelled, aborted' = aborted,
           victims' = victims,
           \A i \in DOMAIN turnState : turnState'[i].approvals = turnState[i].approvals,
           pc[Loop] \notin Aborting,
           NEW s, s \notin Aborting, pc' = [pc EXCEPT ![Loop] = s]
    PROVE  RInv'
<1>1. Loop \in Procs /\ Loop \notin Turns /\ Turns \subseteq Procs
  BY ProcsAssumption DEF Procs
<1>2. pc'[Loop] = s /\ \A u \in Turns : pc'[u] = pc[u]
  BY <1>1 DEF TInv, TypeOK
<1>3. Tasks' = Tasks
  BY DEF Tasks
<1>4. pc[Loop] \notin {"cancel", "wait"}
  BY DEF Aborting
<1>5. NoSession'
  BY <1>2 DEF NoSession
<1>6. Running' /\ CancelledStops'
  BY <1>2, <1>3, <1>4 DEF RInv, Running, Live, CancelledStops
<1>7. Sender'
  <2>1. active # NoTurn => active.state \in DOMAIN turnState
    BY ActiveShape DEF TInv
  <2> QED BY <1>2, <1>4, <2>1 DEF RInv, Sender
<1> QED BY <1>5, <1>6, <1>7 DEF RInv

\* When the loop starts a turn, or has aborted its victim, no task is live.
LEMMA NobodyLives ==
    ASSUME SInv, RInv, pc[Loop] \in StartSteps \union {"mark", "report", "clear"}
    PROVE  \A t \in Turns : ~Live(t)
<1>1. Tasks = <<>>
  BY DEF SInv, EmptyWhileStarting, AbortSteps
<1>2. pc[Loop] \notin {"cancel", "wait"}
  BY DEF StartSteps
<1>3. \A t \in Turns : <<t>> # <<>>
  OBVIOUS
<1> QED BY <1>1, <1>2, <1>3 DEF RInv, Running

\* A session without a live task has only to keep cancelled tasks spawned and
\* aborted tasks cancelled.
LEMMA QuietRunning ==
    ASSUME \A t \in Turns : ~Live(t)',
           \A t \in Turns : cancelled'[t] => pc'[t] # "none",
           \A t \in Turns : aborted'[t] => cancelled'[t],
           pc'[Loop] \in Aborting => active' = NoTurn
    PROVE  RInv'
<1>1. "approval" \in RunSteps
  BY DEF RunSteps
<1>2. \A t \in Turns : pc'[t] = "approval" => cancelled'[t]
  BY <1>1 DEF Live
<1> QED BY <1>2 DEF RInv, NoSession, Running, CancelledStops, Sender

\* Setting the approvals of a turn state keeps those of the others.
LEMMA SetsApprovals ==
    ASSUME NEW ts \in Seq(TurnStates), NEW i \in DOMAIN ts, NEW a
    PROVE  /\ [ts EXCEPT ![i].approvals = a][i].approvals = a
           /\ \A j \in DOMAIN ts \ {i} : [ts EXCEPT ![i].approvals = a][j] = ts[j]
<1>1. ts[i] \in TurnStates
  OBVIOUS
<1> QED BY <1>1 DEF TurnStates

\* Steps of a task's own flow of control, but the one that asks for an approval.
LEMMA TaskStepRunning ==
    ASSUME TInv, RInv, NEW t \in Turns,
           \/ BeginTask(t)
           \/ OtherWork(t)
           \/ EnterTurn(t)
           \/ EnterFails(t)
           \/ TurnTakesPending(t)
           \/ TurnDrainsMailbox(t)
           \/ AcceptPending(t)
           \/ \E i \in DOMAIN hand[t] : BlockPending(t, i)
           \/ DeferMailbox(t)
           \/ AcceptMailbox(t)
           \/ ApprovalEnds(t)
           \/ SampleFollowsUp(t)
           \/ SampleCompletes(t)
           \/ SampleFails(t)
           \/ CheckAgain(t)
           \/ FlushRollout(t)
           \/ CollectPending(t)
           \/ RecordLate(t)
           \/ ReportComplete(t)
    PROVE  RInv'
<1> DEFINE Inner == RunSteps \ {"approval"}
           Outer == {"done", "complete", "release"}
           Moves == \/ pc' = pc
                    \/ pc[t] \in RunSteps /\ \E s \in Inner \union Outer : pc' = [pc EXCEPT ![t] = s]
                    \/ pc[t] \in EndSteps /\ \E s \in Outer : pc' = [pc EXCEPT ![t] = s]
           Same == /\ active' = active /\ cancelled' = cancelled /\ victims' = victims
                   /\ aborted' = aborted /\ ref' = ref
           Keep == \A i \in DOMAIN turnState : turnState'[i].approvals = turnState[i].approvals
<1>1. SUFFICES Moves /\ Same /\ Keep
  <2>1. \A s \in Inner \union Outer : s # "none" /\ s # "approval"
    BY DEF RunSteps
  <2>2. \A s \in Outer : s \notin RunSteps
    BY DEF RunSteps
  <2>3. "none" \notin RunSteps \union EndSteps
    BY DEF RunSteps, EndSteps
  <2>4. Moves => \/ pc' = pc
                 \/ /\ pc[t] # "none"
                    /\ \E s : /\ s # "none" /\ pc' = [pc EXCEPT ![t] = s]
                              /\ s \in RunSteps => pc[t] \in RunSteps
                              /\ s # "approval"
    BY <2>1, <2>2, <2>3
  <2> HIDE DEF Moves
  <2> QED BY <2>4, TaskMovesRunning
<1>2. turnState \in Seq(TurnStates)
  BY DEF TInv, TypeOK
<1>3. active # NoTurn => active.state \in DOMAIN turnState
  BY ActiveShape DEF TInv
<1>4. /\ {"start", "enter", "work", "flush", "sample", "drain", "mail", "inspect",
          "check", "finish"} \subseteq Inner
      /\ {"approval"} \subseteq RunSteps
      /\ {"collect", "complete"} \subseteq EndSteps
  BY DEF RunSteps, EndSteps
<1> HIDE DEF Inner
<1>5. Inner \subseteq RunSteps
  BY DEF Inner
<1>6. CASE BeginTask(t) \/ OtherWork(t) \/ EnterTurn(t) \/ EnterFails(t)
  <2>1. Moves
    BY <1>4, <1>5, <1>6 DEF BeginTask, OtherWork, EnterTurn, EnterFails, Goto
  <2>2. Same /\ Keep
    BY <1>6 DEF BeginTask, OtherWork, EnterTurn, EnterFails, session, local, task
  <2> QED BY <2>1, <2>2
<1>7. CASE TurnTakesPending(t) \/ TurnDrainsMailbox(t)
  <2>1. Moves
    BY <1>4, <1>5, <1>7
    DEF TurnTakesPending, TakePending, TurnDrainsMailbox, DrainMailbox, Goto
  <2>2. Same
    BY <1>7 DEF TurnTakesPending, TakePending, TurnDrainsMailbox, DrainMailbox, task
  <2>3. \/ turnState' = turnState
        \/ /\ active # NoTurn
           /\ turnState' = [turnState EXCEPT ![active.state].pending = <<>>]
    BY <1>7 DEF TurnTakesPending, TakePending, TurnDrainsMailbox, DrainMailbox
  <2>4. Keep
    <3>1. CASE turnState' = turnState
      BY <3>1
    <3>2. ASSUME active # NoTurn, NEW p,
                 turnState' = [turnState EXCEPT ![active.state].pending = p]
          PROVE  Keep
      BY <1>2, <1>3, <3>2, KeepsApprovals
    <3> QED BY <2>3, <3>1, <3>2
  <2> QED BY <2>1, <2>2, <2>4
<1>8. CASE AcceptPending(t)
  <2>1. Moves
    BY <1>4, <1>5, <1>8 DEF AcceptPending, Goto
  <2>2. Same /\ Keep
    BY <1>8 DEF AcceptPending, session, task
  <2> QED BY <2>1, <2>2
<1>9. ASSUME NEW i \in DOMAIN hand[t], BlockPending(t, i) PROVE Moves /\ Same /\ Keep
  <2>1. Moves
    BY <1>4, <1>5, <1>9 DEF BlockPending, Goto
  <2>2. Same
    BY <1>9 DEF BlockPending, task
  <2>3. \/ turnState' = turnState
        \/ /\ active # NoTurn
           /\ \E p : turnState' = [turnState EXCEPT ![active.state].pending = p]
    BY <1>9 DEF BlockPending
  <2>4. Keep
    <3>1. CASE turnState' = turnState
      BY <3>1
    <3>2. ASSUME active # NoTurn, NEW p,
                 turnState' = [turnState EXCEPT ![active.state].pending = p]
          PROVE  Keep
      BY <1>2, <1>3, <3>2, KeepsApprovals
    <3> QED BY <2>3, <3>1, <3>2
  <2> QED BY <2>1, <2>2, <2>4
<1>10. CASE DeferMailbox(t) \/ AcceptMailbox(t)
  <2>1. Moves
    BY <1>10 DEF DeferMailbox, AcceptMailbox
  <2>2. Same
    BY <1>10 DEF DeferMailbox, AcceptMailbox, task, local
  <2>3. active # NoTurn
    BY <1>10 DEF DeferMailbox, AcceptMailbox, Contains, Tasks
  <2>4. \E q : turnState' = [turnState EXCEPT ![active.state].phase = q]
    BY <1>10 DEF DeferMailbox, AcceptMailbox
  <2>5. Keep
    BY <1>2, <1>3, <2>3, <2>4, KeepsApprovals
  <2> QED BY <2>1, <2>2, <2>5
<1>11. CASE ApprovalEnds(t) \/ SampleFollowsUp(t) \/ SampleCompletes(t) \/ SampleFails(t)
  <2>1. Moves
    BY <1>4, <1>5, <1>11
    DEF ApprovalEnds, SampleFollowsUp, SampleCompletes, SampleFails, Goto
  <2>2. Same /\ Keep
    BY <1>11 DEF ApprovalEnds, SampleFollowsUp, SampleCompletes, SampleFails, session,
       task, local
  <2> QED BY <2>1, <2>2
<1>12. CASE CheckAgain(t) \/ FlushRollout(t)
  <2>1. Moves
    BY <1>4, <1>5, <1>12 DEF CheckAgain, FlushRollout, Goto
  <2>2. Same /\ Keep
    BY <1>12 DEF CheckAgain, FlushRollout, session, task, local
  <2> QED BY <2>1, <2>2
<1>13. CASE CollectPending(t)
  <2>1. Moves
    BY <1>4, <1>13 DEF CollectPending, Goto
  <2>2. Same
    BY <1>13 DEF CollectPending, task
  <2>3. ref[t] \in DOMAIN turnState
    BY <1>13 DEF CollectPending, TInv, TypeOK, HoldsRef, Procs
  <2>4. turnState' = [turnState EXCEPT ![ref[t]].pending = <<>>]
    BY <1>13 DEF CollectPending
  <2>5. Keep
    BY <1>2, <2>3, <2>4, KeepsApprovals
  <2> QED BY <2>1, <2>2, <2>5
<1>14. CASE RecordLate(t) \/ ReportComplete(t)
  <2>1. Moves
    BY <1>4, <1>14 DEF RecordLate, ReportComplete, Goto
  <2>2. Same /\ Keep
    BY <1>14 DEF RecordLate, ReportComplete, session, task, local
  <2> QED BY <2>1, <2>2
<1> QED
  BY <1>6, <1>7, <1>8, <1>9, <1>10, <1>11, <1>12, <1>13, <1>14

\* A request for an approval puts its sender into the active turn.
LEMMA RequestApprovalRunning ==
    ASSUME TInv, RInv, NEW t \in Turns, RequestApproval(t)
    PROVE  RInv'
<1>1. /\ pc[t] = "sample" /\ pc' = [pc EXCEPT ![t] = "approval"]
      /\ active # NoTurn
      /\ turnState' = [turnState EXCEPT ![active.state].approvals =
                          turnState[active.state].approvals \union {t}]
      /\ UNCHANGED <<active, cancelled, aborted, victims, ref>>
  BY DEF RequestApproval, Goto, task, local
<1>2. active.state \in DOMAIN turnState /\ turnState \in Seq(TurnStates)
  BY <1>1, ActiveShape DEF TInv, TypeOK
<1>3. /\ t \in turnState'[active.state].approvals
      /\ \A i \in DOMAIN turnState, u \in Turns :
            u \in turnState[i].approvals => u \in turnState'[i].approvals
  <2> DEFINE a == turnState[active.state].approvals \union {t}
  <2>0. turnState' = [turnState EXCEPT ![active.state].approvals = a]
    BY <1>1
  <2> HIDE DEF a
  <2>1. /\ turnState'[active.state].approvals = a
        /\ \A i \in DOMAIN turnState \ {active.state} : turnState'[i] = turnState[i]
    BY <1>2, <2>0, SetsApprovals
  <2> QED BY <2>1 DEF a
<1>4. {"sample", "approval"} \subseteq RunSteps
  BY DEF RunSteps
<1> QED BY <1>1, <1>3, <1>4, TaskMovesRunning

\* An answer removes the sender of a task that no longer waits.
LEMMA NotifyApprovalRunning ==
    ASSUME TInv, RInv, NEW t \in Turns, NotifyApproval(t)
    PROVE  RInv'
<1>1. /\ active # NoTurn
      /\ turnState' = [turnState EXCEPT ![active.state].approvals =
                          turnState[active.state].approvals \ {t}]
      /\ UNCHANGED <<active, cancelled, aborted, victims, ref>>
      /\ \/ pc[t] # "approval" /\ pc' = pc
         \/ pc[t] = "approval" /\ pc' = [pc EXCEPT ![t] = "sample"]
  BY DEF NotifyApproval, Goto, task, local
<1>2. active.state \in DOMAIN turnState /\ turnState \in Seq(TurnStates)
  BY <1>1, ActiveShape DEF TInv, TypeOK
<1>3. \A i \in DOMAIN turnState, u \in Turns \ {t} :
         u \in turnState[i].approvals => u \in turnState'[i].approvals
  <2> DEFINE a == turnState[active.state].approvals \ {t}
  <2>0. turnState' = [turnState EXCEPT ![active.state].approvals = a]
    BY <1>1
  <2> HIDE DEF a
  <2>1. /\ turnState'[active.state].approvals = a
        /\ \A i \in DOMAIN turnState \ {active.state} : turnState'[i] = turnState[i]
    BY <1>2, <2>0, SetsApprovals
  <2> QED BY <2>1 DEF a
<1>4. pc'[t] # "approval"
  BY <1>1 DEF TInv, TypeOK, Procs
<1>5. {"sample", "approval"} \subseteq RunSteps
  BY DEF RunSteps
<1> QED BY <1>1, <1>3, <1>4, <1>5, TaskMovesRunning

\* swap_remove leaves a session's only task when another one ends.
LEMMA SwapRemoveOther ==
    ASSUME NEW t \in Turns, NEW u \in Turns, t # u
    PROVE  SwapRemove(<<u>>, t) = <<u>>
BY DEF SwapRemove, Contains

\* A task that ends leaves the session its other task and its approvals.
LEMMA RemoveTaskRunning ==
    ASSUME TInv, RInv, NEW t \in Turns, RemoveTask(t)
    PROVE  RInv'
<1>1. t \in Procs /\ t # Loop /\ Loop \in Procs /\ Turns \subseteq Procs
  BY ProcsAssumption DEF Procs
<1>2. /\ pc[t] = "finish"
      /\ \E s \in {"collect", "complete"} : pc' = [pc EXCEPT ![t] = s]
      /\ ref' = ref \/ ref' = [ref EXCEPT ![t] = active.state]
      /\ UNCHANGED <<turnState, cancelled, aborted, victims>>
  BY DEF RemoveTask, Goto, task
<1>3. /\ pc'[t] \notin RunSteps /\ pc'[t] # "none" /\ pc'[Loop] = pc[Loop]
      /\ \A u \in Turns \ {t} : pc'[u] = pc[u]
      /\ ref'[Loop] = ref[Loop]
  BY <1>1, <1>2 DEF TInv, TypeOK, RunSteps
<1>4. active = NoTurn => active' = NoTurn
  BY DEF RemoveTask
<1>5. active # NoTurn => /\ active' # NoTurn /\ active'.state = active.state
                         /\ Tasks' = SwapRemove(Tasks, t)
  <2> SUFFICES ASSUME active # NoTurn
               PROVE  /\ active' # NoTurn /\ active'.state = active.state
                      /\ Tasks' = SwapRemove(Tasks, t)
    OBVIOUS
  <2>1. /\ active.state \in DOMAIN turnState /\ active.tasks \in Seq(Turns)
        /\ active \in [state : DOMAIN turnState, tasks : Seq(Turns)]
    BY ActiveShape DEF TInv
  <2>2. active' = [active EXCEPT !.tasks = SwapRemove(active.tasks, t)]
    BY DEF RemoveTask, Tasks
  <2>3. SwapRemove(active.tasks, t) \in Seq(Turns)
    BY <2>1, SwapRemoveShape
  <2>4. /\ active' \in [state : DOMAIN turnState, tasks : Seq(Turns)]
        /\ active'.state = active.state
        /\ active'.tasks = SwapRemove(active.tasks, t)
    BY <2>1, <2>2, <2>3
  <2>5. DOMAIN turnState \subseteq Nat
    BY DEF TInv, TypeOK
  <2>6. active' # NoTurn
    BY <2>4, <2>5, NoneAssumption
  <2> QED BY <2>4, <2>6 DEF Tasks
<1>6. \A u \in Turns \ {t} : Tasks = <<u>> => Tasks' = <<u>>
  <2> SUFFICES ASSUME NEW u \in Turns \ {t}, Tasks = <<u>> PROVE Tasks' = <<u>>
    OBVIOUS
  <2>1. active # NoTurn
    BY DEF Tasks
  <2> QED BY <1>5, <2>1, SwapRemoveOther
<1>7. NoSession'
  BY <1>3, <1>4 DEF RInv, NoSession
<1>8. Running'
  BY <1>2, <1>3, <1>6 DEF RInv, Running, Live
<1>9. CancelledStops'
  BY <1>2, <1>3 DEF RInv, CancelledStops, Live
<1>10. Sender'
  <2>1. pc'[t] # "approval"
    BY <1>3 DEF RunSteps
  <2> QED BY <1>2, <1>3, <1>5, <2>1 DEF RInv, Sender
<1> QED BY <1>7, <1>8, <1>9, <1>10 DEF RInv

\* A turn is released only when nothing runs in it.
LEMMA ReleaseTurnRunning ==
    ASSUME TInv, AInv, RInv, NEW t \in Turns, ReleaseTurn(t)
    PROVE  RInv'
<1>1. t \in Procs /\ t # Loop /\ Loop \in Procs /\ Turns \subseteq Procs
  BY ProcsAssumption DEF Procs
<1>2. /\ pc[t] = "release"
      /\ ref' = [ref EXCEPT ![t] = 0]
      /\ UNCHANGED <<turnState, cancelled, aborted, victims>>
  BY DEF ReleaseTurn, task
<1>3. ref'[Loop] = ref[Loop]
  BY <1>1, <1>2 DEF TInv, TypeOK
<1>4. CASE active # NoTurn /\ Tasks = <<>> /\ active.state = ref[t]
  <2>1. pc' = [pc EXCEPT ![t] = "maybe"]
    BY <1>4 DEF ReleaseTurn, Goto
  <2>2. /\ pc'[t] = "maybe" /\ pc'[Loop] = pc[Loop]
        /\ \A u \in Turns \ {t} : pc'[u] = pc[u]
    BY <1>1, <2>1 DEF TInv, TypeOK
  <2>3. pc[Loop] \notin Aborting
    BY <1>4 DEF RInv, NoSession
  <2>4. pc[Loop] \notin {"cancel", "wait"}
    BY <2>3 DEF Aborting
  <2>5. \A u \in Turns : ~Live(u)
    <3>1. \A u \in Turns : <<u>> # <<>>
      OBVIOUS
    <3> QED BY <1>4, <2>4, <3>1 DEF RInv, Running
  <2>6. \A u \in Turns : cancelled[u] => pc[u] # "none"
    BY <2>4 DEF RInv, CancelledStops
  <2>7. "maybe" \notin RunSteps
    BY DEF RunSteps
  <2>8. /\ \A u \in Turns : ~Live(u)'
        /\ \A u \in Turns : cancelled'[u] => pc'[u] # "none"
        /\ pc'[Loop] \notin Aborting
    BY <1>2, <2>2, <2>3, <2>5, <2>6, <2>7 DEF Live
  <2>9. \A u \in Turns : aborted'[u] => cancelled'[u]
    BY <1>2 DEF AInv, HandleAborted
  <2> QED BY <2>8, <2>9, QuietRunning
<1>5. CASE ~(active # NoTurn /\ Tasks = <<>> /\ active.state = ref[t])
  <2>1. active' = active /\ pc' = [pc EXCEPT ![t] = "done"]
    BY <1>5 DEF ReleaseTurn, Goto
  <2>2. /\ pc[t] # "none"
        /\ \E s : /\ s # "none" /\ pc' = [pc EXCEPT ![t] = s]
                  /\ s \notin RunSteps /\ s # "approval"
    BY <1>2, <2>1 DEF RunSteps
  <2>3. \A i \in DOMAIN turnState, u \in Turns :
           u \in turnState[i].approvals => u \in turnState'[i].approvals
    BY <1>2
  <2>4. UNCHANGED <<cancelled, aborted, victims>>
    BY <1>2
  <2> QED BY <1>3, <2>1, <2>2, <2>3, <2>4, TaskMovesRunning
<1> QED BY <1>4, <1>5

\* An aborted task is dropped; it was spawned.
LEMMA DropTaskRunning ==
    ASSUME TInv, AInv, RInv, NEW t \in Turns, DropTask(t)
    PROVE  RInv'
<1>1. Loop \in Procs /\ t # Loop
  BY ProcsAssumption DEF Procs
<1>2. /\ pc[t] # "none"
      /\ pc' = [pc EXCEPT ![t] = "dead"]
      /\ ref' = [ref EXCEPT ![t] = 0]
      /\ UNCHANGED <<active, turnState, cancelled, aborted, victims>>
  BY DEF DropTask, Goto, AInv, HandleAborted, session
<1>3. ref'[Loop] = ref[Loop]
  BY <1>1, <1>2 DEF TInv, TypeOK
<1>4. \E s : s \notin RunSteps \union {"none", "approval"} /\ pc' = [pc EXCEPT ![t] = s]
  BY <1>2 DEF RunSteps
<1> QED BY <1>2, <1>3, <1>4, TaskMovesRunning

\* A step that moves nobody and keeps the approvals.
LEMMA StillRunning ==
    ASSUME TInv, RInv, pc' = pc,
           active' = active, cancelled' = cancelled, aborted' = aborted,
           victims' = victims, ref' = ref,
           \A i \in DOMAIN turnState : turnState'[i].approvals = turnState[i].approvals
    PROVE  RInv'
<1>1. Tasks' = Tasks
  BY DEF Tasks
<1>2. NoSession' /\ Running' /\ CancelledStops'
  BY <1>1 DEF RInv, NoSession, Running, Live, CancelledStops
<1>3. active # NoTurn => active.state \in DOMAIN turnState
  BY ActiveShape DEF TInv
<1>4. pc[Loop] = "cancel" => ref[Loop] \in DOMAIN turnState
  BY DEF TInv, TypeOK, HoldsRef, Procs
<1>5. Sender'
  BY <1>3, <1>4 DEF RInv, Sender
<1> QED BY <1>2, <1>5 DEF RInv

\* Operations of the loop and calls from other threads.
LEMMA CallsRunning ==
    ASSUME Grants = {}, Guardians = {}, TInv, RInv, LoopStep \/ ClientStep
    PROVE  RInv'
<1>1. turnState \in Seq(TurnStates)
  BY DEF TInv, TypeOK
<1>2. active # NoTurn => active.state \in DOMAIN turnState
  BY ActiveShape DEF TInv
<1>3. {"idle", "take", "maybe"} \intersect Aborting = {}
  BY DEF Aborting
<1>4. ASSUME NEW p \in Prompts, UserInputSteers(p) \/ Steer(p) PROVE RInv'
  <2>1. UNCHANGED <<active, cancelled, aborted, victims, ref, pc>> /\ active # NoTurn
    BY <1>4 DEF UserInputSteers, Steer, Steered, Tasks, task, local
  <2> DEFINE q == Append(turnState[active.state].pending, p)
             ts == [turnState EXCEPT ![active.state].pending = q]
  <2>2. ts \in Seq(TurnStates) /\ DOMAIN ts = DOMAIN turnState
    <3>1. q \in Seq(Inputs)
      BY <1>2, <2>1, StateShape DEF TInv, Inputs
    <3> HIDE DEF q
    <3> QED BY <1>1, <1>2, <2>1, <3>1, SetPending
  <2>3. turnState' = [ts EXCEPT ![active.state].phase = "CurrentTurn"]
    <3>1. turnState[active.state] \in TurnStates
      BY <1>2, <2>1, StateShape DEF TInv
    <3> QED BY <1>1, <1>2, <1>4, <2>1, <3>1 DEF UserInputSteers, Steer, Steered, TurnStates
  <2>4. \A i \in DOMAIN turnState : ts[i].approvals = turnState[i].approvals
    <3> HIDE DEF q
    <3> QED BY <1>1, <1>2, <2>1, KeepsApprovals
  <2> HIDE DEF ts
  <2>5. \A i \in DOMAIN ts : turnState'[i].approvals = ts[i].approvals
    BY <1>2, <2>1, <2>2, <2>3, KeepsApprovals
  <2>6. \A i \in DOMAIN turnState : turnState'[i].approvals = turnState[i].approvals
    BY <2>2, <2>4, <2>5
  <2> QED BY <2>1, <2>6, StillRunning
<1>5. ASSUME NEW n \in Notes, Inject(n) PROVE RInv'
  <2>1. UNCHANGED <<active, cancelled, aborted, victims, ref, pc>> /\ active # NoTurn
    BY <1>5 DEF Inject, Injected, task, local
  <2> DEFINE q == Append(turnState[active.state].pending, n)
  <2>2. turnState' = [turnState EXCEPT ![active.state].pending = q]
    BY <1>5 DEF Inject, Injected
  <2> HIDE DEF q
  <2>3. \A i \in DOMAIN turnState : turnState'[i].approvals = turnState[i].approvals
    BY <1>1, <1>2, <2>1, <2>2, KeepsApprovals
  <2> QED BY <2>1, <2>3, StillRunning
<1>6. ASSUME \/ \E p \in Prompts, t \in Turns : UserInputSpawns(p, t)
             \/ \E t \in Turns, k \in OtherKinds : SpawnOther(t, k)
             \/ \E op \in Stops : Interrupt(op)
             \/ \E m \in Mail : InterAgentCommunication(m)
      PROVE  RInv'
  <2>1. /\ UNCHANGED <<active, turnState, cancelled, aborted, victims>>
        /\ pc[Loop] = "idle"
    BY <1>6 DEF UserInputSpawns, SpawnOther, Interrupt, InterAgentCommunication,
       LoopReady, session, task, local
  <2>2. \E s \in {"idle", "take", "maybe"} : pc' = [pc EXCEPT ![Loop] = s]
    BY <1>6 DEF UserInputSpawns, SpawnOther, SpawnTask, Interrupt,
       InterAgentCommunication, Goto
  <2> QED BY <1>3, <2>1, <2>2, LoopMovesRunning
<1> QED
  BY <1>4, <1>5, <1>6, NotifyApprovalRunning DEF LoopStep, ClientStep

\* take_active_turn: the running task becomes the victim, its turn state is held.
LEMMA TakeActiveTurnRunning ==
    ASSUME TInv, AInv, RInv, TakeActiveTurn
    PROVE  RInv'
<1>1. Loop \in Procs /\ Loop \notin Turns /\ Turns \subseteq Procs
  BY ProcsAssumption DEF Procs
<1>2. /\ pc[Loop] = "take"
      /\ active' = NoTurn
      /\ UNCHANGED <<turnState, cancelled, aborted>>
  BY DEF TakeActiveTurn, task
<1>3. \A u \in Turns : Live(u) => Tasks = <<u>>
  BY <1>2 DEF RInv, Running
<1>4. \A u \in Turns : cancelled[u] => pc[u] # "none" /\ ~Live(u)
  BY <1>2 DEF RInv, CancelledStops
<1>5. CASE Tasks = <<>>
  <2>1. \E s : pc' = [pc EXCEPT ![Loop] = s]
    BY <1>5 DEF TakeActiveTurn, Goto
  <2>2. \A u \in Turns : pc'[u] = pc[u]
    BY <1>1, <2>1 DEF TInv, TypeOK
  <2>3. \A u \in Turns : ~Live(u)
    <3>1. \A u \in Turns : <<u>> # <<>>
      OBVIOUS
    <3> QED BY <1>3, <1>5, <3>1
  <2>4. /\ \A u \in Turns : ~Live(u)'
        /\ \A u \in Turns : cancelled'[u] => pc'[u] # "none"
    BY <1>2, <1>4, <2>2, <2>3 DEF Live
  <2>5. \A u \in Turns : aborted'[u] => cancelled'[u]
    BY <1>2 DEF AInv, HandleAborted
  <2> QED BY <1>2, <2>4, <2>5, QuietRunning
<1>6. CASE Tasks # <<>>
  <2>1. /\ victims' = [victims EXCEPT ![Loop] = Tasks]
        /\ ref' = [ref EXCEPT ![Loop] = active.state]
        /\ pc' = [pc EXCEPT ![Loop] = "cancel"]
    BY <1>6 DEF TakeActiveTurn, Goto, Tasks
  <2>2. /\ pc'[Loop] = "cancel" /\ victims'[Loop] = Tasks /\ ref'[Loop] = active.state
        /\ \A u \in Turns : pc'[u] = pc[u]
    BY <1>1, <2>1 DEF TInv, TypeOK
  <2>3. NoSession' /\ Running' /\ CancelledStops'
    BY <1>2, <1>3, <1>4, <2>2 DEF NoSession, Running, Live, CancelledStops
  <2>4. Sender'
    BY <1>2, <2>2 DEF RInv, Sender
  <2> QED BY <2>3, <2>4 DEF RInv
<1> QED BY <1>5, <1>6

\* The abort of the loop: its victim is the only live task, until it is aborted.
LEMMA VictimRuns ==
    ASSUME RInv, pc[Loop] \in {"cancel", "wait"}
    PROVE  /\ active = NoTurn
           /\ \A u \in Turns : Live(u) =>
                 victims[Loop] = <<u>> /\ u = Head(victims[Loop])
<1>1. active = NoTurn
  BY DEF RInv, NoSession, Aborting
<1>2. Tasks = <<>> /\ \A u \in Turns : <<u>> # <<>> /\ Head(<<u>>) = u
  BY <1>1 DEF Tasks
<1> QED BY <1>1, <1>2 DEF RInv, Running

\* A victim is cancelled before its grace period; one that was cancelled before
\* is not live.
LEMMA CancelTaskRunning ==
    ASSUME TInv, AInv, RInv, CancelTask(Loop)
    PROVE  RInv'
<1> DEFINE v == Head(victims[Loop])
<1>1. Loop \in Procs /\ Loop \notin Turns /\ Turns \subseteq Procs
  BY ProcsAssumption DEF Procs
<1>2. /\ pc[Loop] = "cancel" /\ victims[Loop] # <<>>
      /\ UNCHANGED <<active, turnState, ref, aborted>>
  BY <1>1 DEF CancelTask, TInv, HoldsVictim, session
<1>3. v \in Turns /\ pc[v] # "none"
  BY <1>1, <1>2, VictimShape DEF AInv, VictimsSpawned
<1>4. /\ active = NoTurn
      /\ \A u \in Turns : Live(u) => victims[Loop] = <<u>> /\ u = v
  BY <1>2, VictimRuns
<1>5. \A u \in Turns : cancelled[u] => pc[u] # "none" /\ ~Live(u)
  BY <1>2 DEF RInv, CancelledStops
<1>6. \A u \in Turns : pc'[u] = pc[u] /\ (Live(u)' => Live(u))
  <2>1. \A u \in Turns : pc'[u] = pc[u]
    BY <1>1 DEF CancelTask, Goto, TInv, TypeOK
  <2> QED BY <1>2, <2>1 DEF Live
<1>7. CASE cancelled[v]
  <2>1. cancelled' = cancelled
    BY <1>7 DEF CancelTask
  <2>2. /\ \A u \in Turns : ~Live(u)'
        /\ \A u \in Turns : cancelled'[u] => pc'[u] # "none"
    BY <1>4, <1>5, <1>6, <1>7, <2>1
  <2>3. \A u \in Turns : aborted'[u] => cancelled'[u]
    BY <1>2, <2>1 DEF AInv, HandleAborted
  <2> HIDE DEF v
  <2> QED BY <1>2, <1>4, <2>2, <2>3, QuietRunning
<1>8. CASE ~cancelled[v]
  <2>1. /\ cancelled' = [cancelled EXCEPT ![v] = TRUE]
        /\ pc' = [pc EXCEPT ![Loop] = "wait"]
        /\ victims' = victims
    BY <1>8 DEF CancelTask, Goto
  <2>2. pc'[Loop] = "wait"
    BY <1>1, <2>1 DEF TInv, TypeOK
  <2>3. cancelled'[v] /\ \A u \in Turns \ {v} : cancelled'[u] = cancelled[u]
    BY <1>3, <2>1, Zenon DEF TInv, TypeOK
  <2> HIDE DEF v
  <2>4. NoSession' /\ Running'
    BY <1>2, <1>4, <1>6, <2>1, <2>2 DEF NoSession, Running
  <2>5. CancelledStops'
    BY <1>3, <1>4, <1>5, <1>6, <2>1, <2>2, <2>3 DEF CancelledStops
  <2>6. \A u \in Turns : pc[u] = "approval" => cancelled'[u]
    <3>1. "approval" \in RunSteps
      BY DEF RunSteps
    <3>2. \A u \in Turns : pc[u] = "approval" => aborted[u] \/ u = v
      BY <1>4, <3>1 DEF Live
    <3> QED BY <2>3, <3>2 DEF AInv, HandleAborted
  <2>7. Sender'
    BY <1>6, <2>6 DEF Sender
  <2> QED BY <2>4, <2>5, <2>7 DEF RInv
<1> QED BY <1>7, <1>8

\* When the grace period is over nothing is live.
LEMMA StopTaskRunning ==
    ASSUME TInv, AInv, RInv, StopTask(Loop)
    PROVE  RInv'
<1> DEFINE v == Head(victims[Loop])
<1>1. Loop \in Procs /\ Loop \notin Turns /\ Turns \subseteq Procs
  BY ProcsAssumption DEF Procs
<1>2. /\ pc[Loop] = "wait" /\ victims[Loop] # <<>>
      /\ pc' = [pc EXCEPT ![Loop] = "mark"]
      /\ aborted' = [aborted EXCEPT ![v] = TRUE]
      /\ UNCHANGED <<active, cancelled>>
  BY <1>1 DEF StopTask, Goto, TInv, HoldsVictim, session
<1>3. v \in Turns /\ cancelled[v]
  BY <1>1, <1>2, VictimShape DEF AInv, VictimCancelled
<1>4. /\ active = NoTurn
      /\ \A u \in Turns : Live(u) => victims[Loop] = <<u>> /\ u = v
  BY <1>2, VictimRuns
<1>5. \A u \in Turns : pc'[u] = pc[u]
  BY <1>1, <1>2 DEF TInv, TypeOK
<1>6. aborted'[v] /\ \A u \in Turns \ {v} : aborted'[u] = aborted[u]
  BY <1>2, <1>3, Zenon DEF TInv, TypeOK
<1> HIDE DEF v
<1>7. /\ \A u \in Turns : ~Live(u)'
      /\ \A u \in Turns : cancelled'[u] => pc'[u] # "none"
      /\ \A u \in Turns : aborted'[u] => cancelled'[u]
  <2>1. \A u \in Turns : ~Live(u)'
    BY <1>4, <1>5, <1>6 DEF Live
  <2>2. \A u \in Turns : cancelled'[u] => pc'[u] # "none"
    BY <1>2, <1>5 DEF RInv, CancelledStops
  <2>3. \A u \in Turns : aborted'[u] => cancelled'[u]
    BY <1>2, <1>3, <1>6 DEF AInv, HandleAborted
  <2> QED BY <2>1, <2>2, <2>3
<1> QED BY <1>2, <1>4, <1>7, QuietRunning

\* The rest of an abort and the way to a new turn: nothing is live.
LEMMA AloneRunning ==
    ASSUME TInv, SInv, AInv, RInv,
           pc[Loop] \in StartSteps \union {"mark", "report", "clear"},
           cancelled' = cancelled, aborted' = aborted,
           NEW s, pc' = [pc EXCEPT ![Loop] = s], s \in Aborting => active' = NoTurn
    PROVE  RInv'
<1>1. Loop \in Procs /\ Loop \notin Turns /\ Turns \subseteq Procs
  BY ProcsAssumption DEF Procs
<1>2. pc'[Loop] = s /\ \A u \in Turns : pc'[u] = pc[u]
  BY <1>1 DEF TInv, TypeOK
<1>3. \A u \in Turns : ~Live(u)
  BY NobodyLives
<1>4. /\ \A u \in Turns : ~Live(u)'
      /\ \A u \in Turns : cancelled'[u] => pc'[u] # "none"
  BY <1>2, <1>3 DEF RInv, CancelledStops, Live
<1>5. \A u \in Turns : aborted'[u] => cancelled'[u]
  BY DEF AInv, HandleAborted
<1> QED BY <1>2, <1>4, <1>5, QuietRunning

\* What follows the grace period.
LEMMA AbortEndsRunning ==
    ASSUME TInv, SInv, AInv, RInv,
           MarkInterrupted(Loop) \/ ReportAborted(Loop) \/ ClearPending(Loop)
    PROVE  RInv'
<1>1. /\ pc[Loop] \in {"mark", "report", "clear"}
      /\ cancelled' = cancelled /\ aborted' = aborted /\ active' = active
      /\ \E s : pc' = [pc EXCEPT ![Loop] = s]
  BY DEF MarkInterrupted, ReportAborted, ClearPending, Goto, task, session
<1>2. active = NoTurn
  BY <1>1 DEF RInv, NoSession, Aborting
<1> QED BY <1>1, <1>2, AloneRunning

\* The task added is the only live one, and its token is not cancelled.
LEMMA SpawnAndAddRunning ==
    ASSUME TInv, SInv, AInv, RInv, SpawnAndAdd(Loop)
    PROVE  RInv'
<1> DEFINE u == starting[Loop]
<1>1. Loop \in Procs /\ Loop \notin Turns /\ Turns \subseteq Procs
  BY ProcsAssumption DEF Procs
<1>2. pc[Loop] = "spawn" /\ u \in Turns /\ u # NoTurn
  BY <1>1, ProcsAssumption DEF SpawnAndAdd, TInv, HoldsStart, StartSteps
<1>3. pc[u] = "none"
  BY <1>1, <1>2 DEF AInv, FreshStart
<1>4. /\ pc'[u] = "start" /\ pc'[Loop] = "idle"
      /\ \A t \in Turns \ {u} : pc'[t] = pc[t]
  BY <1>1, <1>2 DEF SpawnAndAdd, Idle, TInv, TypeOK
<1>5. \A t \in Turns : ~Live(t)
  BY <1>2, NobodyLives DEF StartSteps
<1>6. \A t \in Turns : cancelled[t] => pc[t] # "none"
  BY <1>2 DEF RInv, CancelledStops
<1>7. Tasks' = <<u>>
  <2>1. GetOrInsert \in [state : DOMAIN Allocated, tasks : Seq(Turns)]
    BY AllocatedShape DEF TInv
  <2>2. GetOrInsert.tasks = <<>>
    BY <1>2, GetOrInsertTasks DEF SInv, EmptyWhileStarting, StartSteps
  <2>3. active' = [GetOrInsert EXCEPT !.tasks = <<u>>]
    BY <2>2 DEF SpawnAndAdd
  <2>4. <<u>> \in Seq(Turns)
    BY <1>2
  <2>5. DOMAIN Allocated \subseteq Nat
    BY AllocatedShape DEF TInv
  <2>6. active' \in [state : Nat, tasks : Seq(Turns)] /\ active'.tasks = <<u>>
    BY <2>1, <2>3, <2>4, <2>5
  <2> QED BY <2>6, NoneAssumption DEF Tasks
<1>8. cancelled' = cancelled /\ aborted' = aborted
  BY DEF SpawnAndAdd, task
<1> HIDE DEF u
<1>9. NoSession' /\ Running'
  BY <1>2, <1>4, <1>5, <1>7, <1>8 DEF NoSession, Running, Live, Aborting
<1>10. CancelledStops'
  BY <1>3, <1>4, <1>5, <1>6, <1>8 DEF CancelledStops, Live
<1>11. Sender'
  <2>1. \A t \in Turns : pc'[t] = "approval" => aborted[t]
    BY <1>4, <1>5 DEF Live, RunSteps
  <2> QED BY <1>8, <2>1 DEF AInv, HandleAborted, Sender
<1> QED BY <1>9, <1>10, <1>11 DEF RInv

\* The loop, or a finished task that looks for pending work and finds none.
LEMMA StartStepRunning ==
    ASSUME Trigger = {}, TInv, SInv, AInv, RInv, NEW d \in {Loop} \union Turns, StartStep(d)
    PROVE  RInv'
<1>0. d \in Procs
  BY DEF Procs
<1>1. CASE CheckPendingWork(d)
  <2>1. /\ pc[d] = "maybe" /\ pc' = [pc EXCEPT ![d] = Idle(d)]
        /\ UNCHANGED <<active, turnState, cancelled, aborted, victims, ref>>
    BY <1>1 DEF SInv, CheckPendingWork, NothingQueued, Goto, session, local, task
  <2>2. CASE d \in Turns
    <3>1. Idle(d) = "done" /\ "done" \notin RunSteps
      BY <2>2 DEF Idle, RunSteps
    <3> QED BY <2>1, <2>2, <3>1, TaskMovesRunning
  <2>3. CASE d \notin Turns
    <3>1. d = Loop /\ Idle(d) = "idle" /\ {"maybe", "idle"} \intersect Aborting = {}
      BY <2>3 DEF Idle, Aborting
    <3> QED BY <2>1, <3>1, LoopMovesRunning
  <2> QED BY <2>2, <2>3
<1>2. CASE (\E t \in Turns : ReserveTurn(d, t)) \/ SkipReserved(d)
  BY <1>0, <1>2 DEF SInv, ReserveTurn, SkipReserved, NothingQueued
<1>3. CASE \/ TakeQueued(d) \/ StartTakesPending(d) \/ StartDrainsMailbox(d)
           \/ AttachTurnState(d) \/ PushPending(d)
  <2>1. pc[d] \in StartSteps
    BY <1>3 DEF TakeQueued, StartTakesPending, TakePending, StartDrainsMailbox,
       DrainMailbox, AttachTurnState, PushPending, StartSteps
  <2>2. d = Loop
    BY <1>0, <2>1 DEF SInv, OnlyLoopStarts
  <2>3. /\ \E s \in {"pending", "mailbox", "attach", "push", "spawn"} :
              pc' = [pc EXCEPT ![Loop] = s]
        /\ cancelled' = cancelled /\ aborted' = aborted
    BY <1>3, <2>2 DEF TakeQueued, StartTakesPending, TakePending,
       StartDrainsMailbox, DrainMailbox, AttachTurnState, PushPending, Goto, task
  <2>4. {"pending", "mailbox", "attach", "push", "spawn"} \intersect Aborting = {}
    BY DEF Aborting
  <2> QED BY <2>1, <2>2, <2>3, <2>4, AloneRunning
<1>4. CASE SpawnAndAdd(d)
  <2>1. d = Loop
    BY <1>0, <1>4 DEF SInv, OnlyLoopStarts, SpawnAndAdd, StartSteps
  <2> QED BY <1>4, <2>1, SpawnAndAddRunning
<1> QED BY <1>1, <1>2, <1>3, <1>4 DEF StartStep

\* Every step keeps the invariant.
LEMMA NextRunning ==
    ASSUME Grants = {}, Trigger = {}, Guardians = {}, TInv, SInv, AInv, RInv, [Next]_vars
    PROVE  RInv'
<1>1. CASE LoopStep \/ ClientStep
  BY <1>1, CallsRunning
<1>2. ASSUME NEW d \in Procs \ Turns, DriverStep(d) PROVE RInv'
  <2>1. d = Loop
    BY DEF Procs
  <2>2. CASE AbortStep(Loop)
    BY <2>2, CancelTaskRunning, StopTaskRunning, AbortEndsRunning DEF AbortStep
  <2>3. CASE StartStep(Loop)
    BY <2>3, StartStepRunning
  <2>4. CASE QueueForNextTurn
    BY <2>4 DEF SInv, QueueForNextTurn, NothingQueued, Procs
  <2> QED
    BY <1>2, <2>1, <2>2, <2>3, <2>4, TakeActiveTurnRunning DEF DriverStep
<1>3. ASSUME NEW t \in Turns, TaskStep(t) PROVE RInv'
  <2>1. CASE StartStep(t)
    BY <2>1, StartStepRunning
  <2> QED
    BY <1>3, <2>1, TaskStepRunning, RequestApprovalRunning, RemoveTaskRunning,
       ReleaseTurnRunning DEF TaskStep, SampleStep
<1>4. ASSUME NEW t \in Turns, DropTask(t) PROVE RInv'
  BY <1>4, DropTaskRunning
<1>5. CASE UNCHANGED vars
  BY <1>5, StillRunning DEF vars, session, task, local
<1> QED BY <1>1, <1>2, <1>3, <1>4, <1>5 DEF Next, Quiescent

\* All that is known about such a session holds at every moment.
LEMMA SessionInvariant ==
    ASSUME Grants = {}, Trigger = {}, Guardians = {}
    PROVE  Spec => [](TInv /\ SInv /\ AInv /\ RInv)
<1>1. Init => TInv /\ SInv /\ AInv /\ RInv
  BY InitType, InitSingle, InitAbort, InitRunning
<1>2. TInv /\ SInv /\ AInv /\ RInv /\ [Next]_vars => (TInv /\ SInv /\ AInv /\ RInv)'
  BY NextType, NextSingle, NextAbort, NextRunning
<1> QED BY <1>1, <1>2, PTL DEF Spec

\* In a session whose turns only the loop starts and aborts (no approved denials,
\* no trigger_turn mail, no guardian) no two tasks run that nobody has aborted, not
\* even in the grace period of an abort: the loop starts the next task when it has
\* aborted the last one.
THEOREM OneLiveTheorem ==
    ASSUME Grants = {}, Trigger = {}, Guardians = {}
    PROVE  Spec => []OneLive
<1>1. TInv /\ SInv /\ AInv /\ RInv => OneLive
  <2> SUFFICES ASSUME RInv, NEW t \in Turns, NEW u \in Turns, Live(t), Live(u)
               PROVE  t = u
    BY DEF OneLive, Live
  <2>1. CASE pc[Loop] \in {"cancel", "wait"}
    BY <2>1, VictimRuns
  <2>2. CASE pc[Loop] \notin {"cancel", "wait"}
    <3>1. Tasks = <<t>> /\ Tasks = <<u>>
      BY <2>2 DEF RInv, Running
    <3> QED BY <3>1
  <2> QED BY <2>1, <2>2
<1> QED BY <1>1, SessionInvariant, PTL

\* In the same sessions a task that waits for an approval never sees its sender
\* dropped before its own cancellation: clear_pending comes after the task.
THEOREM RejectionAfterCancelTheorem ==
    ASSUME Grants = {}, Trigger = {}, Guardians = {}
    PROVE  Spec => []RejectionAfterCancel
<1>1. TInv /\ SInv /\ AInv /\ RInv => RejectionAfterCancel
  <2> SUFFICES ASSUME TInv, RInv, NEW t \in Turns, pc[t] = "approval", ~cancelled[t]
               PROVE  SenderAlive(t)
    BY DEF RejectionAfterCancel
  <2>1. CASE active # NoTurn /\ t \in turnState[active.state].approvals
    <3>1. active.state \in Held
      BY <2>1, ActiveShape DEF Held, TInv
    <3> QED BY <2>1, <3>1 DEF SenderAlive
  <2>2. CASE pc[Loop] = "cancel" /\ t \in turnState[ref[Loop]].approvals
    <3>1. Loop \in Procs /\ ref[Loop] \in DOMAIN turnState
      BY <2>2 DEF TInv, TypeOK, HoldsRef, Procs
    <3>2. ref[Loop] \in Held
      BY <3>1 DEF Held
    <3> QED BY <2>2, <3>2 DEF SenderAlive
  <2> QED BY <2>1, <2>2 DEF RInv, Sender
<1> QED BY <1>1, SessionInvariant, PTL

=============================================================================
