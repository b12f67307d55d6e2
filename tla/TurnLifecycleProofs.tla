------------------------ MODULE TurnLifecycleProofs ------------------------
(***************************************************************************)
(* Proofs about TurnLifecycle, for every set of turns, inputs and guardians:*)
(* the specification keeps its types, and a session whose turns are started *)
(* by user operations only never holds two tasks.                          *)
(*                                                                         *)
(* TypeOK is not inductive: several actions dereference an Arc (ref), take *)
(* the head of a list of victims or add the turn a process set out to      *)
(* start.  TInv adds that each of these exists at the steps that use it.   *)
(* OneTask needs to know who starts turns and that the session is empty    *)
(* from the moment the loop has taken the active turn (SInv).              *)
(***************************************************************************)
EXTENDS TurnLifecycle, TLAPS, SequenceTheorems

\* A process that aborts has a victim left,
HoldsVictim == \A d \in Procs :
    pc[d] \in {"cancel", "wait", "mark", "report"} => victims[d] # <<>>
\* one that uses a turn state holds an Arc of it,
HoldsRef == \A d \in Procs :
    pc[d] \in {"cancel", "wait", "mark", "report", "clear", "push", "collect"}
        => ref[d] # 0
\* and one that starts a turn knows which.
HoldsStart == \A d \in Procs : pc[d] \in StartSteps => starting[d] \in Turns

TInv == TypeOK /\ HoldsVictim /\ HoldsRef /\ HoldsStart

\* A new session is well typed.
LEMMA InitType == Init => TInv
BY ProcsAssumption DEF Init, TInv, TypeOK, HoldsVictim, HoldsRef, HoldsStart, Steps,
   Procs, StartSteps, Kinds, Reasons, WakeSteps, AbortSteps, RunSteps, EndSteps

\* Replacing one element of a sequence keeps its type and length.
LEMMA Update ==
    ASSUME NEW S, NEW s \in Seq(S), NEW i \in DOMAIN s, NEW e \in S
    PROVE  /\ [s EXCEPT ![i] = e] \in Seq(S)
           /\ DOMAIN [s EXCEPT ![i] = e] = DOMAIN s
OBVIOUS

\* The queues may be empty.
LEMMA NoInput == <<>> \in Seq(Inputs)
OBVIOUS

\* The elements of a sequence are of its element type.
LEMMA RangeIn == ASSUME NEW S, NEW s \in Seq(S) PROVE Range(s) \subseteq S
BY DEF Range

\* Setting the pending input of one turn state keeps the others.
LEMMA SetPending ==
    ASSUME NEW ts \in Seq(TurnStates), NEW i \in DOMAIN ts, NEW p \in Seq(Inputs)
    PROVE  /\ [ts EXCEPT ![i].pending = p] \in Seq(TurnStates)
           /\ DOMAIN [ts EXCEPT ![i].pending = p] = DOMAIN ts
<1> DEFINE r == [ts[i] EXCEPT !.pending = p]
<1>1. ts[i] \in TurnStates
  OBVIOUS
<1>2. r \in TurnStates
  BY <1>1 DEF TurnStates
<1>3. [ts EXCEPT ![i].pending = p] = [ts EXCEPT ![i] = r]
  OBVIOUS
<1> HIDE DEF r
<1> QED BY <1>2, <1>3, Update

\* The same for the mailbox delivery phase
LEMMA SetPhase ==
    ASSUME NEW ts \in Seq(TurnStates), NEW i \in DOMAIN ts,
           NEW q \in {"CurrentTurn", "NextTurn"}
    PROVE  /\ [ts EXCEPT ![i].phase = q] \in Seq(TurnStates)
           /\ DOMAIN [ts EXCEPT ![i].phase = q] = DOMAIN ts
<1> DEFINE r == [ts[i] EXCEPT !.phase = q]
<1>1. ts[i] \in TurnStates
  OBVIOUS
<1>2. r \in TurnStates
  BY <1>1 DEF TurnStates
<1>3. [ts EXCEPT ![i].phase = q] = [ts EXCEPT ![i] = r]
  OBVIOUS
<1> HIDE DEF r
<1> QED BY <1>2, <1>3, Update

\* and for the pending approvals.
LEMMA SetApprovals ==
    ASSUME NEW ts \in Seq(TurnStates), NEW i \in DOMAIN ts, NEW a \in SUBSET Turns
    PROVE  /\ [ts EXCEPT ![i].approvals = a] \in Seq(TurnStates)
           /\ DOMAIN [ts EXCEPT ![i].approvals = a] = DOMAIN ts
<1> DEFINE r == [ts[i] EXCEPT !.approvals = a]
<1>1. ts[i] \in TurnStates
  OBVIOUS
<1>2. r \in TurnStates
  BY <1>1 DEF TurnStates
<1>3. [ts EXCEPT ![i].approvals = a] = [ts EXCEPT ![i] = r]
  OBVIOUS
<1> HIDE DEF r
<1> QED BY <1>2, <1>3, Update

\* An active turn refers to an allocated turn state.
LEMMA ActiveShape ==
    ASSUME TypeOK, active # NoTurn
    PROVE  /\ active.state \in DOMAIN turnState
           /\ active.tasks \in Seq(Turns)
           /\ active \in [state : DOMAIN turnState, tasks : Seq(Turns)]
BY DEF TypeOK

\* An allocated turn state has its fields.
LEMMA StateShape ==
    ASSUME TypeOK, NEW i \in DOMAIN turnState
    PROVE  /\ turnState[i] \in TurnStates
           /\ turnState[i].pending \in Seq(Inputs)
           /\ turnState[i].approvals \in SUBSET Turns
<1>1. turnState[i] \in TurnStates
  BY DEF TypeOK
<1> QED BY <1>1 DEF TurnStates

\* get_or_insert_with returns an ActiveTurn whose state is allocated.
LEMMA AllocatedShape ==
    ASSUME TypeOK
    PROVE  /\ Allocated \in Seq(TurnStates)
           /\ DOMAIN turnState \subseteq DOMAIN Allocated
           /\ GetOrInsert \in [state : DOMAIN Allocated, tasks : Seq(Turns)]
           /\ GetOrInsert.state \in DOMAIN Allocated
           /\ GetOrInsert.tasks \in Seq(Turns)
           /\ GetOrInsert.state # 0
<1>1. Default \in TurnStates
  BY DEF Default, TurnStates
<1>2. turnState \in Seq(TurnStates)
  BY DEF TypeOK
<1>3. CASE active = NoTurn
  BY <1>1, <1>2, <1>3 DEF Allocated, GetOrInsert
<1>4. CASE active # NoTurn
  BY <1>2, <1>4, ActiveShape DEF Allocated, GetOrInsert
<1> QED BY <1>3, <1>4

\* swap_remove keeps the type of the list of tasks.
LEMMA SwapRemoveShape ==
    ASSUME NEW S, NEW s \in Seq(S), NEW t PROVE SwapRemove(s, t) \in Seq(S)
<1>1. CASE ~Contains(s, t)
  BY <1>1 DEF SwapRemove
<1>2. CASE Contains(s, t)
  <2> DEFINE i == CHOOSE j \in DOMAIN s : s[j] = t
  <2>1. i \in DOMAIN s /\ Len(s) \in DOMAIN s
    BY <1>2 DEF Contains
  <2> DEFINE u == [s EXCEPT ![i] = Last(s)]
  <2>2. u \in Seq(S) /\ Len(u) = Len(s)
    BY <2>1 DEF Last
  <2>3. SwapRemove(s, t) = SubSeq(u, 1, Len(u) - 1)
    BY <1>2 DEF SwapRemove, Front
  <2> HIDE DEF u
  <2> QED BY <2>2, <2>3
<1> QED BY <1>1, <1>2


\* The loop steers a prompt into the active turn's allocated state.
LEMMA UserInputSteersType ==
    ASSUME TInv, NEW p \in Prompts, UserInputSteers(p)
    PROVE  TInv'
<1>1. /\ active # NoTurn
      /\ active.state \in DOMAIN turnState
      /\ turnState \in Seq(TurnStates)
  BY ActiveShape DEF UserInputSteers, Steered, Tasks, TInv, TypeOK
<1>2. /\ turnState[active.state].pending \in Seq(Inputs)
      /\ turnState[active.state].approvals \in SUBSET Turns
  BY <1>1, StateShape DEF TInv
<1>3. Append(turnState[active.state].pending, p) \in Seq(Inputs)
  BY <1>2 DEF Inputs
<1> DEFINE ts == [turnState EXCEPT
                   ![active.state].pending = Append(turnState[active.state].pending, p)]
<1>4. ts \in Seq(TurnStates) /\ DOMAIN ts = DOMAIN turnState
  BY <1>1, <1>3, SetPending
<1>5. turnState' = [ts EXCEPT ![active.state].phase = "CurrentTurn"]
  BY <1>1, <1>2 DEF UserInputSteers, Steered
<1> HIDE DEF ts
<1>6. turnState' \in Seq(TurnStates) /\ DOMAIN turnState' = DOMAIN turnState
  BY <1>1, <1>4, <1>5, SetPhase
<1> QED
  BY ProcsAssumption, <1>1, <1>6
     DEF UserInputSteers, Steered, session, record, task, local, Goto, TInv,
     HoldsVictim, HoldsRef, HoldsStart, TypeOK, Steps, AbortSteps, StartSteps,
     WakeSteps, RunSteps, EndSteps

\* So does a client's steer_input from another thread.
LEMMA SteerType ==
    ASSUME TInv, NEW p \in Prompts, Steer(p)
    PROVE  TInv'
<1>1. /\ active # NoTurn
      /\ active.state \in DOMAIN turnState
      /\ turnState \in Seq(TurnStates)
  BY ActiveShape DEF Steer, Steered, Tasks, TInv, TypeOK
<1>2. /\ turnState[active.state].pending \in Seq(Inputs)
      /\ turnState[active.state].approvals \in SUBSET Turns
  BY <1>1, StateShape DEF TInv
<1>3. Append(turnState[active.state].pending, p) \in Seq(Inputs)
  BY <1>2 DEF Inputs
<1> DEFINE ts == [turnState EXCEPT
                   ![active.state].pending = Append(turnState[active.state].pending, p)]
<1>4. ts \in Seq(TurnStates) /\ DOMAIN ts = DOMAIN turnState
  BY <1>1, <1>3, SetPending
<1>5. turnState' = [ts EXCEPT ![active.state].phase = "CurrentTurn"]
  BY <1>1, <1>2 DEF Steer, Steered
<1> HIDE DEF ts
<1>6. turnState' \in Seq(TurnStates) /\ DOMAIN turnState' = DOMAIN turnState
  BY <1>1, <1>4, <1>5, SetPhase
<1> QED
  BY ProcsAssumption, <1>1, <1>6
     DEF Steer, Steered, session, record, task, local, Goto, TInv, HoldsVictim,
     HoldsRef, HoldsStart, TypeOK, Steps, AbortSteps, StartSteps, WakeSteps,
     RunSteps, EndSteps

\* spawn_task names a turn before it aborts the running tasks.
LEMMA UserInputSpawnsType ==
    ASSUME TInv, NEW p \in Prompts, NEW t \in Turns, UserInputSpawns(p, t)
    PROVE  TInv'
<1>1. TypeOK'
  BY ProcsAssumption
     DEF UserInputSpawns, SpawnTask, Inputs, Kinds, Reasons, Procs, session, record,
     task, local, Goto, TInv, TypeOK, Steps, AbortSteps, StartSteps, WakeSteps,
     RunSteps, EndSteps
<1>2. HoldsVictim' /\ HoldsRef' /\ HoldsStart'
  BY ProcsAssumption
     DEF UserInputSpawns, SpawnTask, Inputs, Kinds, Reasons, Procs, session, record,
     task, local, Goto, TInv, HoldsVictim, HoldsRef, HoldsStart, TypeOK, StartSteps
<1> QED BY <1>1, <1>2 DEF TInv

\* The same for a compact or review turn.
LEMMA SpawnOtherType ==
    ASSUME TInv, NEW t \in Turns, NEW k \in OtherKinds, SpawnOther(t, k)
    PROVE  TInv'
<1> QED
  BY ProcsAssumption, KindsAssumption
     DEF SpawnOther, SpawnTask, Kinds, Reasons, Procs, session, record, task, local,
     Goto, TInv, HoldsVictim, HoldsRef, HoldsStart, TypeOK, Steps, AbortSteps,
     StartSteps, WakeSteps, RunSteps, EndSteps

\* Op::Interrupt and Op::Shutdown only begin an abort.
LEMMA InterruptType ==
    ASSUME TInv, NEW op \in Stops, Interrupt(op)
    PROVE  TInv'
<1> QED
  BY ProcsAssumption
     DEF Interrupt, Reasons, Procs, session, record, task, local, Goto, TInv,
     HoldsVictim, HoldsRef, HoldsStart, TypeOK, Steps, AbortSteps, StartSteps,
     WakeSteps, RunSteps, EndSteps

\* Mail goes to the mailbox, and trigger_turn mail sends the loop to look at it.
LEMMA InterAgentType ==
    ASSUME TInv, NEW m \in Mail, InterAgentCommunication(m)
    PROVE  TInv'
<1> QED
  BY ProcsAssumption
     DEF InterAgentCommunication, Procs, session, record, task, local, Goto, TInv,
     HoldsVictim, HoldsRef, HoldsStart, TypeOK, Steps, AbortSteps, StartSteps,
     WakeSteps, RunSteps, EndSteps

\* inject_response_items appends to the active turn's allocated state.
LEMMA InjectType ==
    ASSUME TInv, NEW n \in Notes, Inject(n)
    PROVE  TInv'
<1>1. /\ active # NoTurn
      /\ active.state \in DOMAIN turnState
      /\ turnState \in Seq(TurnStates)
  BY ActiveShape DEF Inject, Injected, TInv, TypeOK
<1>2. /\ turnState[active.state].pending \in Seq(Inputs)
      /\ turnState[active.state].approvals \in SUBSET Turns
  BY <1>1, StateShape DEF TInv
<1>3. Append(turnState[active.state].pending, n) \in Seq(Inputs)
  BY <1>2 DEF Inputs
<1>4. turnState' \in Seq(TurnStates) /\ DOMAIN turnState' = DOMAIN turnState
  BY <1>1, <1>3, SetPending DEF Inject, Injected
<1> QED
  BY ProcsAssumption, <1>1, <1>4
     DEF Inject, Injected, session, record, task, local, Goto, TInv, HoldsVictim,
     HoldsRef, HoldsStart, TypeOK, Steps, AbortSteps, StartSteps, WakeSteps,
     RunSteps, EndSteps

\* An approved denial is injected, or held until it is queued.
LEMMA ApproveDeniedType ==
    ASSUME TInv, NEW g \in Grants, ApproveDenied(g)
    PROVE  TInv'
<1>1. turnState' \in Seq(TurnStates) /\ DOMAIN turnState' = DOMAIN turnState
  <2>1. CASE active = NoTurn
    BY <2>1 DEF ApproveDenied, Injected, TInv, TypeOK
  <2>2. CASE active # NoTurn
    <3>1. active.state \in DOMAIN turnState /\ turnState \in Seq(TurnStates)
      BY <2>2, ActiveShape DEF TInv, TypeOK
    <3>2. Append(turnState[active.state].pending, g) \in Seq(Inputs)
      BY <3>1, StateShape DEF TInv, Inputs
    <3>3. turnState' = [turnState EXCEPT ![active.state].pending = Append(@, g)]
      BY <2>2 DEF ApproveDenied, Injected
    <3> QED BY <3>1, <3>2, <3>3, SetPending
  <2> QED BY <2>1, <2>2
<1>2. /\ hand' = hand \/ hand' = [hand EXCEPT ![Loop] = <<g>>]
      /\ unsent' = unsent \ {g}
      /\ \/ pc' = pc
         \/ pc' = [pc EXCEPT ![Loop] = "queue"]
  BY DEF ApproveDenied, Injected, Goto
<1>3. hand' \in [Procs -> Seq(Inputs)] /\ unsent' \in SUBSET Inputs
  <2>1. <<g>> \in Seq(Inputs)
    BY DEF Inputs
  <2> QED BY ZenonT(60), <1>2, <2>1 DEF TInv, TypeOK
<1>4. TypeOK'
  BY ProcsAssumption, <1>1, <1>2, <1>3
     DEF ApproveDenied, Procs, session, record, task, local, Goto, TInv, TypeOK,
     Steps, AbortSteps, StartSteps, WakeSteps, RunSteps, EndSteps
<1>5. HoldsVictim' /\ HoldsRef' /\ HoldsStart'
  BY ProcsAssumption, <1>1, <1>2, <1>3
     DEF ApproveDenied, Procs, session, record, task, local, Goto, TInv,
     HoldsVictim, HoldsRef, HoldsStart, TypeOK, StartSteps
<1> QED BY <1>4, <1>5 DEF TInv

\* queue_response_items_for_next_turn.
LEMMA QueueForNextTurnType ==
    ASSUME TInv, QueueForNextTurn
    PROVE  TInv'
<1> QED
  BY SMTT(60), ProcsAssumption
     DEF QueueForNextTurn, Procs, session, record, task, local, Goto, TInv,
     HoldsVictim, HoldsRef, HoldsStart, TypeOK, Steps, AbortSteps, StartSteps,
     WakeSteps, RunSteps, EndSteps

\* An answered approval leaves the active turn's state.
LEMMA NotifyApprovalType ==
    ASSUME TInv, NEW t \in Turns, NotifyApproval(t)
    PROVE  TInv'
<1>1. /\ active # NoTurn
      /\ active.state \in DOMAIN turnState
      /\ turnState \in Seq(TurnStates)
  BY ActiveShape DEF NotifyApproval, TInv, TypeOK
<1>2. /\ turnState[active.state].pending \in Seq(Inputs)
      /\ turnState[active.state].approvals \in SUBSET Turns
  BY <1>1, StateShape DEF TInv
<1>3. turnState' \in Seq(TurnStates) /\ DOMAIN turnState' = DOMAIN turnState
  BY <1>1, <1>2, SetApprovals DEF NotifyApproval
<1>4. UNCHANGED <<active, queued, mailbox, record, task, local, unsent, dropped, open>>
  BY DEF NotifyApproval
<1>5. pc' = pc \/ pc' = [pc EXCEPT ![t] = "sample"]
  BY DEF NotifyApproval, Goto
<1>6. pc' \in [Procs -> Steps]
  BY <1>5 DEF TInv, TypeOK, Steps, RunSteps
<1>7. TypeOK'
  BY <1>3, <1>4, <1>6 DEF TInv, TypeOK, record, task, local
<1>8. HoldsVictim' /\ HoldsRef' /\ HoldsStart'
  BY <1>4, <1>5 DEF TInv, TypeOK, HoldsVictim, HoldsRef, HoldsStart, StartSteps, local
<1> QED BY <1>7, <1>8 DEF TInv

\* abort_turn_if_active takes a turn that has a task, so it has a victim.
LEMMA GuardianTakeType ==
    ASSUME TInv, NEW d \in Guardians, NEW t \in Turns, GuardianTake(d, t)
    PROVE  TInv'
<1>1. /\ active # NoTurn
      /\ active.tasks \in Seq(Turns)
      /\ active.tasks # <<>>
      /\ active.state \in DOMAIN turnState
      /\ active.state # 0
  <2>1. Tasks # <<>>
    BY DEF GuardianTake, Contains
  <2> QED BY <2>1, ActiveShape DEF Tasks, TInv, TypeOK
<1> QED
  BY ProcsAssumption, <1>1
     DEF GuardianTake, Reasons, Procs, session, record, task, local, Goto, TInv,
     HoldsVictim, HoldsRef, HoldsStart, TypeOK, Steps, AbortSteps, StartSteps,
     WakeSteps, RunSteps, EndSteps

\* abort_all_tasks goes on to cancel only when it drained a task.
LEMMA TakeActiveTurnType ==
    ASSUME TInv, TakeActiveTurn
    PROVE  TInv'
<1>1. Loop \in Procs /\ Loop \notin Turns
  BY ProcsAssumption DEF Procs
<1>2. UNCHANGED <<turnState, queued, mailbox, record, task, starting, hand, reason,
                  unsent, dropped, open>>
  BY DEF TakeActiveTurn
<1>3. active' = NoTurn
  BY DEF TakeActiveTurn
<1>4. CASE Tasks = <<>>
  <2>1. victims' = victims /\ ref' = ref
    BY <1>4 DEF TakeActiveTurn
  <2>2. \/ starting[Loop] # NoTurn /\ pc' = [pc EXCEPT ![Loop] = "queued"]
        \/ pc' = [pc EXCEPT ![Loop] = "idle"]
    BY <1>1, <1>4 DEF TakeActiveTurn, AfterAbort, Idle, Goto
  <2>3. TypeOK'
    BY <1>1, <1>2, <1>3, <2>1, <2>2
    DEF TInv, TypeOK, record, task, Steps, StartSteps
  <2>4. HoldsVictim' /\ HoldsRef' /\ HoldsStart'
    BY <1>1, <1>2, <2>1, <2>2
    DEF TInv, TypeOK, HoldsVictim, HoldsRef, HoldsStart, StartSteps
  <2> QED BY <2>3, <2>4 DEF TInv
<1>5. CASE Tasks # <<>>
  <2>1. /\ active.tasks \in Seq(Turns)
        /\ active.tasks # <<>>
        /\ active.state \in DOMAIN turnState
        /\ active.state # 0
    BY <1>5, ActiveShape DEF Tasks, TInv, TypeOK
  <2>2. /\ victims' = [victims EXCEPT ![Loop] = active.tasks]
        /\ ref' = [ref EXCEPT ![Loop] = active.state]
        /\ pc' = [pc EXCEPT ![Loop] = "cancel"]
    BY <1>5 DEF TakeActiveTurn, Goto
  <2>3. TypeOK'
    BY <1>1, <1>2, <1>3, <2>1, <2>2
    DEF TInv, TypeOK, record, task, Steps, AbortSteps
  <2>4. HoldsVictim' /\ HoldsRef' /\ HoldsStart'
    BY <1>1, <1>2, <2>1, <2>2
    DEF TInv, TypeOK, HoldsVictim, HoldsRef, HoldsStart, StartSteps
  <2> QED BY <2>3, <2>4 DEF TInv
<1> QED BY <1>4, <1>5

\* A skipped victim is followed by another one or by the clean-up.
LEMMA CancelTaskType ==
    ASSUME TInv, NEW d \in Procs, CancelTask(d)
    PROVE  TInv'
<1>1. /\ Head(victims[d]) \in Turns
      /\ Tail(victims[d]) \in Seq(Turns)
  BY HeadTailProperties DEF CancelTask, TInv, TypeOK, HoldsVictim
<1>2. ref[d] # 0 /\ victims[d] # <<>>
  BY DEF CancelTask, TInv, HoldsVictim, HoldsRef
<1>3. \/ /\ victims' = [victims EXCEPT ![d] = Tail(victims[d])]
         /\ cancelled' = cancelled
         /\ \/ pc' = [pc EXCEPT ![d] = "clear"]
            \/ pc' = [pc EXCEPT ![d] = "cancel"] /\ Tail(victims[d]) # <<>>
      \/ /\ victims' = victims
         /\ cancelled' = [cancelled EXCEPT ![Head(victims[d])] = TRUE]
         /\ pc' = [pc EXCEPT ![d] = "wait"]
  BY DEF CancelTask, Goto
<1>4. cancelled' \in [Turns -> BOOLEAN]
  BY <1>1, <1>3, Zenon DEF TInv, TypeOK
<1>5. victims' \in [Procs -> Seq(Turns)] /\ pc' \in [Procs -> Steps]
  BY ZenonT(60), <1>1, <1>3 DEF TInv, TypeOK, Steps, AbortSteps
<1>6. UNCHANGED <<session, record, kind, input, aborted, starting, hand, ref, reason,
                  unsent, dropped, open>>
  BY DEF CancelTask
<1>7. TypeOK'
  BY <1>4, <1>5, <1>6 DEF TInv, TypeOK, session, record
<1>8. HoldsVictim'
  BY <1>1, <1>2, <1>3 DEF TInv, TypeOK, HoldsVictim
<1>9. HoldsRef' /\ HoldsStart'
  BY ZenonT(60), <1>2, <1>3, <1>6 DEF TInv, TypeOK, HoldsRef, HoldsStart, StartSteps
<1> QED BY <1>7, <1>8, <1>9 DEF TInv

\* Aborting a handle only marks the victim.
LEMMA StopTaskType ==
    ASSUME TInv, NEW d \in Procs, StopTask(d)
    PROVE  TInv'
<1>1. /\ aborted' = [aborted EXCEPT ![Head(victims[d])] = TRUE]
      /\ pc' = [pc EXCEPT ![d] = "mark"]
      /\ pc[d] = "wait"
  BY DEF StopTask, Goto
<1>2. UNCHANGED <<session, record, kind, input, cancelled, local, unsent, dropped, open>>
  BY DEF StopTask
<1>3. aborted' \in [Turns -> BOOLEAN]
  BY <1>1, Zenon DEF TInv, TypeOK
<1>4. pc' \in [Procs -> Steps]
  BY <1>1 DEF TInv, TypeOK, Steps, AbortSteps
<1>5. TypeOK'
  BY <1>2, <1>3, <1>4 DEF TInv, TypeOK, session, record, local
<1>6. HoldsVictim' /\ HoldsRef' /\ HoldsStart'
  BY <1>1, <1>2 DEF TInv, TypeOK, HoldsVictim, HoldsRef, HoldsStart, StartSteps, session,
     local
<1> QED BY <1>5, <1>6 DEF TInv

\* A dropped task leaves nothing it held behind.
LEMMA DropTaskType ==
    ASSUME TInv, NEW t \in Turns, DropTask(t)
    PROVE  TInv'
<1>1. t \in Procs
  BY DEF Procs
<1>2. /\ Range(hand[t]) \subseteq Inputs
      /\ Range(input[t]) \subseteq Inputs
  BY <1>1, RangeIn DEF TInv, TypeOK
<1>3. /\ pc' = [pc EXCEPT ![t] = "dead"]
      /\ dropped' = dropped \union Range(hand[t]) \union Range(input[t])
      /\ hand' = [hand EXCEPT ![t] = <<>>]
      /\ input' = [input EXCEPT ![t] = <<>>]
      /\ ref' = [ref EXCEPT ![t] = 0]
      /\ starting' = [starting EXCEPT ![t] = NoTurn]
      /\ UNCHANGED <<session, record, kind, cancelled, aborted, victims, reason, unsent,
                     open>>
  BY DEF DropTask, Goto
<1>4. /\ pc' \in [Procs -> Steps]
      /\ dropped' \in SUBSET Inputs
      /\ hand' \in [Procs -> Seq(Inputs)]
      /\ input' \in [Turns -> Seq(Inputs)]
  BY <1>2, <1>3, NoInput DEF TInv, TypeOK, Steps
<1>5. /\ ref' \in [Procs -> {0} \union DOMAIN turnState]
      /\ starting' \in [Procs -> Turns \union {NoTurn}]
  BY <1>3 DEF TInv, TypeOK
<1>6. TypeOK'
  BY <1>3, <1>4, <1>5 DEF TInv, TypeOK, session, record
<1>7. HoldsVictim' /\ HoldsRef' /\ HoldsStart'
  BY <1>1, <1>3 DEF TInv, TypeOK, HoldsVictim, HoldsRef, HoldsStart, StartSteps
<1> QED BY <1>6, <1>7 DEF TInv

\* The marker names the victim being aborted.
LEMMA MarkInterruptedType ==
    ASSUME TInv, NEW d \in Procs, MarkInterrupted(d)
    PROVE  TInv'
<1>1. /\ Head(victims[d]) \in Turns
      /\ Tail(victims[d]) \in Seq(Turns)
  BY HeadTailProperties DEF MarkInterrupted, TInv, TypeOK, HoldsVictim
<1> QED
  BY ProcsAssumption, <1>1
     DEF MarkInterrupted, Procs, session, record, task, local, Goto, TInv,
     HoldsVictim, HoldsRef, HoldsStart, TypeOK, Steps, AbortSteps, StartSteps,
     WakeSteps, RunSteps, EndSteps

\* TurnAborted names the victim; the next one exists or the clean-up follows.
LEMMA ReportAbortedType ==
    ASSUME TInv, NEW d \in Procs, ReportAborted(d)
    PROVE  TInv'
<1>1. /\ Head(victims[d]) \in Turns
      /\ Tail(victims[d]) \in Seq(Turns)
  BY HeadTailProperties DEF ReportAborted, TInv, TypeOK, HoldsVictim
<1> QED
  BY ProcsAssumption, <1>1
     DEF ReportAborted, Procs, Events, Reasons, session, record, task, local, Goto,
     TInv, HoldsVictim, HoldsRef, HoldsStart, TypeOK, Steps, AbortSteps, StartSteps,
     WakeSteps, RunSteps, EndSteps

\* clear_pending acts on the turn state the abort took.
LEMMA ClearPendingType ==
    ASSUME TInv, NEW d \in Procs, ClearPending(d)
    PROVE  TInv'
<1>1. ref[d] \in DOMAIN turnState /\ turnState \in Seq(TurnStates)
  BY DEF ClearPending, TInv, TypeOK, HoldsRef
<1>2. Range(turnState[ref[d]].pending) \subseteq Inputs
  BY <1>1, StateShape, RangeIn DEF TInv
<1> DEFINE ts == [turnState EXCEPT ![ref[d]].pending = <<>>]
<1>3. ts \in Seq(TurnStates) /\ DOMAIN ts = DOMAIN turnState
  BY <1>1, NoInput, SetPending
<1>4. turnState' = [ts EXCEPT ![ref[d]].approvals = {}]
  BY <1>1 DEF ClearPending
<1> HIDE DEF ts
<1>5. turnState' \in Seq(TurnStates) /\ DOMAIN turnState' = DOMAIN turnState
  BY <1>1, <1>3, <1>4, SetApprovals
<1>6. TypeOK'
  BY ProcsAssumption, <1>2, <1>5
     DEF ClearPending, AfterAbort, Idle, Procs, session, record, task, local, Goto,
     TInv, TypeOK, Steps, AbortSteps, StartSteps, WakeSteps, RunSteps, EndSteps
<1>7. HoldsVictim' /\ HoldsRef' /\ HoldsStart'
  BY ProcsAssumption, <1>2, <1>5
     DEF ClearPending, AfterAbort, Idle, Procs, session, record, task, local, Goto,
     TInv, HoldsVictim, HoldsRef, HoldsStart, TypeOK, StartSteps
<1> QED BY <1>6, <1>7 DEF TInv

\* Looking for pending work changes nothing but the next step.
LEMMA CheckPendingWorkType ==
    ASSUME TInv, NEW d \in Procs, CheckPendingWork(d)
    PROVE  TInv'
<1> QED
  BY ProcsAssumption
     DEF CheckPendingWork, Idle, Procs, session, record, task, local, Goto, TInv,
     HoldsVictim, HoldsRef, HoldsStart, TypeOK, Steps, AbortSteps, StartSteps,
     WakeSteps, RunSteps, EndSteps

\* Reserving an idle session allocates the turn state of the new ActiveTurn.
LEMMA ReserveTurnType ==
    ASSUME TInv, NEW d \in Procs, NEW t \in Turns, ReserveTurn(d, t)
    PROVE  TInv'
<1> QED
  BY ProcsAssumption, AllocatedShape
     DEF ReserveTurn, Procs, session, record, task, local, Goto, TInv, HoldsVictim,
     HoldsRef, HoldsStart, TypeOK, Steps, AbortSteps, StartSteps, WakeSteps,
     RunSteps, EndSteps

\* A session that is not idle is left alone.
LEMMA SkipReservedType ==
    ASSUME TInv, NEW d \in Procs, SkipReserved(d)
    PROVE  TInv'
<1> QED
  BY ProcsAssumption
     DEF SkipReserved, Idle, Procs, session, record, task, local, Goto, TInv,
     HoldsVictim, HoldsRef, HoldsStart, TypeOK, Steps, AbortSteps, StartSteps,
     WakeSteps, RunSteps, EndSteps

\* take_queued_response_items_for_next_turn.
LEMMA TakeQueuedType ==
    ASSUME TInv, NEW d \in Procs, TakeQueued(d)
    PROVE  TInv'
<1>1. /\ hand' = [hand EXCEPT ![d] = queued]
      /\ pc' = [pc EXCEPT ![d] = "pending"]
      /\ hand' \in [Procs -> Seq(Inputs)]
  BY DEF TakeQueued, Goto, TInv, TypeOK
<1> QED
  BY SMTT(60), ProcsAssumption, <1>1
     DEF TakeQueued, Procs, session, record, task, local, Goto, TInv, HoldsVictim,
     HoldsRef, HoldsStart, TypeOK, Steps, AbortSteps, StartSteps, WakeSteps,
     RunSteps, EndSteps

\* start_task takes what is pending in whichever turn is active.
LEMMA StartTakesPendingType ==
    ASSUME TInv, NEW d \in Procs, StartTakesPending(d)
    PROVE  TInv'
<1>1. turnState' \in Seq(TurnStates) /\ DOMAIN turnState' = DOMAIN turnState
  <2>1. CASE active = NoTurn
    BY <2>1 DEF StartTakesPending, TakePending, TInv, TypeOK
  <2>2. CASE active # NoTurn
    <3>1. /\ active.state \in DOMAIN turnState
          /\ turnState \in Seq(TurnStates)
      BY <2>2, ActiveShape DEF TInv, TypeOK
    <3>2. turnState' = [turnState EXCEPT ![active.state].pending = <<>>]
      BY <2>2 DEF StartTakesPending, TakePending
    <3> QED BY <3>1, <3>2, NoInput, SetPending
  <2> QED BY <2>1, <2>2
<1>2. hand' \in [Procs -> Seq(Inputs)]
  <2>1. CASE active = NoTurn
    BY <2>1 DEF StartTakesPending, TakePending, TInv, TypeOK
  <2>2. CASE active # NoTurn
    <3>1. hand[d] \o turnState[active.state].pending \in Seq(Inputs)
      BY <2>2, ActiveShape, StateShape DEF TInv, TypeOK, Procs
    <3> QED BY <2>2, <3>1 DEF StartTakesPending, TakePending, TInv, TypeOK
  <2> QED BY <2>1, <2>2
<1>3. pc[d] = "pending" /\ \E s \in {"mailbox", "attach"} : pc' = [pc EXCEPT ![d] = s]
  BY DEF StartTakesPending, TakePending, Goto
<1>4. UNCHANGED <<active, queued, mailbox, record, task, starting, ref, victims, reason,
                  unsent, dropped, open>>
  BY DEF StartTakesPending, TakePending
<1>5. pc' \in [Procs -> Steps]
  BY <1>3 DEF TInv, TypeOK, Steps, StartSteps
<1>6. TypeOK'
  BY <1>1, <1>2, <1>4, <1>5 DEF TInv, TypeOK, record, task
<1>7. HoldsVictim' /\ HoldsRef' /\ HoldsStart'
  BY <1>3, <1>4 DEF TInv, TypeOK, HoldsVictim, HoldsRef, HoldsStart, StartSteps
<1> QED BY <1>6, <1>7 DEF TInv

\* So does a running turn.
LEMMA TurnTakesPendingType ==
    ASSUME TInv, NEW t \in Turns, TurnTakesPending(t)
    PROVE  TInv'
<1>1. turnState' \in Seq(TurnStates) /\ DOMAIN turnState' = DOMAIN turnState
  <2>1. CASE active = NoTurn
    BY <2>1 DEF TurnTakesPending, TakePending, TInv, TypeOK
  <2>2. CASE active # NoTurn
    <3>1. /\ active.state \in DOMAIN turnState
          /\ turnState \in Seq(TurnStates)
      BY <2>2, ActiveShape DEF TInv, TypeOK
    <3>2. turnState' = [turnState EXCEPT ![active.state].pending = <<>>]
      BY <2>2 DEF TurnTakesPending, TakePending
    <3> QED BY <3>1, <3>2, NoInput, SetPending
  <2> QED BY <2>1, <2>2
<1>2. hand' \in [Procs -> Seq(Inputs)]
  <2>1. CASE active = NoTurn
    BY <2>1 DEF TurnTakesPending, TakePending, TInv, TypeOK
  <2>2. CASE active # NoTurn
    <3>1. hand[t] \o turnState[active.state].pending \in Seq(Inputs)
      BY <2>2, ActiveShape, StateShape DEF TInv, TypeOK, Procs
    <3> QED BY <2>2, <3>1 DEF TurnTakesPending, TakePending, TInv, TypeOK
  <2> QED BY <2>1, <2>2
<1>3. \E s \in {"mail", "inspect"} : pc' = [pc EXCEPT ![t] = s]
  BY DEF TurnTakesPending, TakePending, Goto
<1>4. UNCHANGED <<active, queued, mailbox, record, task, starting, ref, victims, reason,
                  unsent, dropped, open>>
  BY DEF TurnTakesPending, TakePending
<1>5. pc' \in [Procs -> Steps]
  BY <1>3 DEF TInv, TypeOK, Steps, RunSteps
<1>6. TypeOK'
  BY <1>1, <1>2, <1>4, <1>5 DEF TInv, TypeOK, record, task
<1>7. HoldsVictim' /\ HoldsRef' /\ HoldsStart'
  BY <1>3, <1>4 DEF TInv, TypeOK, HoldsVictim, HoldsRef, HoldsStart, StartSteps
<1> QED BY <1>6, <1>7 DEF TInv

\* start_task drains the mailbox.
LEMMA StartDrainsMailboxType ==
    ASSUME TInv, NEW d \in Procs, StartDrainsMailbox(d)
    PROVE  TInv'
<1>1. hand[d] \o mailbox \in Seq(Inputs)
  BY DEF TInv, TypeOK, Inputs, Procs
<1> QED
  BY SMTT(60), ProcsAssumption, <1>1
     DEF StartDrainsMailbox, DrainMailbox, Procs, session, record, task, local,
     Goto, TInv, HoldsVictim, HoldsRef, HoldsStart, TypeOK, Steps, AbortSteps,
     StartSteps, WakeSteps, RunSteps, EndSteps

\* So does a running turn.
LEMMA TurnDrainsMailboxType ==
    ASSUME TInv, NEW t \in Turns, TurnDrainsMailbox(t)
    PROVE  TInv'
<1>1. hand[t] \o mailbox \in Seq(Inputs)
  BY DEF TInv, TypeOK, Inputs, Procs
<1> QED
  BY ProcsAssumption, <1>1
     DEF TurnDrainsMailbox, DrainMailbox, Procs, session, record, task, local, Goto,
     TInv, HoldsVictim, HoldsRef, HoldsStart, TypeOK, Steps, AbortSteps, StartSteps,
     WakeSteps, RunSteps, EndSteps

\* start_task finds or allocates a turn state and keeps an Arc of it.
LEMMA AttachTurnStateType ==
    ASSUME TInv, NEW d \in Procs, AttachTurnState(d)
    PROVE  TInv'
<1> QED
  BY ProcsAssumption, AllocatedShape
     DEF AttachTurnState, Procs, session, record, task, local, Goto, TInv,
     HoldsVictim, HoldsRef, HoldsStart, TypeOK, Steps, AbortSteps, StartSteps,
     WakeSteps, RunSteps, EndSteps

\* What it took goes into the turn state it kept.
LEMMA PushPendingType ==
    ASSUME TInv, NEW d \in Procs, PushPending(d)
    PROVE  TInv'
<1>1. ref[d] \in DOMAIN turnState /\ turnState \in Seq(TurnStates)
  BY DEF PushPending, TInv, TypeOK, HoldsRef
<1>2. turnState[ref[d]].pending \o hand[d] \in Seq(Inputs)
  BY <1>1, StateShape DEF TInv, TypeOK
<1>3. turnState' \in Seq(TurnStates) /\ DOMAIN turnState' = DOMAIN turnState
  BY <1>1, <1>2, SetPending DEF PushPending
<1> QED
  BY SMTT(60), ProcsAssumption, <1>3
     DEF PushPending, Procs, session, record, task, local, Goto, TInv, HoldsVictim,
     HoldsRef, HoldsStart, TypeOK, Steps, AbortSteps, StartSteps, WakeSteps,
     RunSteps, EndSteps

\* It spawns the turn it set out to start, in an allocated ActiveTurn.
LEMMA SpawnAndAddType ==
    ASSUME TInv, NEW d \in Procs, SpawnAndAdd(d)
    PROVE  TInv'
<1>1. starting[d] \in Turns
  BY DEF SpawnAndAdd, TInv, HoldsStart, StartSteps
<1>2. active' \in [state : DOMAIN Allocated, tasks : Seq(Turns)]
  <2>1. GetOrInsert \in [state : DOMAIN Allocated, tasks : Seq(Turns)]
    BY AllocatedShape DEF TInv
  <2>2. Append(GetOrInsert.tasks, starting[d]) \in Seq(Turns)
    BY <1>1, <2>1
  <2>3. active' = [GetOrInsert EXCEPT !.tasks = Append(GetOrInsert.tasks, starting[d])]
    BY DEF SpawnAndAdd
  <2> QED BY <2>1, <2>2, <2>3
<1> QED
  BY ProcsAssumption, <1>1, <1>2, AllocatedShape
     DEF SpawnAndAdd, Idle, Procs, session, record, task, local, Goto, TInv,
     HoldsVictim, HoldsRef, HoldsStart, TypeOK, Steps, AbortSteps, StartSteps,
     WakeSteps, RunSteps, EndSteps

\* RegularTask::run, CompactTask::run and ReviewTask::run begin.
LEMMA BeginTaskType ==
    ASSUME TInv, NEW t \in Turns, BeginTask(t)
    PROVE  TInv'
<1>1. TypeOK'
  BY ZenonT(60), ProcsAssumption
     DEF BeginTask, Events, Procs, session, record, task, local, Goto, TInv, TypeOK,
     Steps, AbortSteps, StartSteps, WakeSteps, RunSteps, EndSteps
<1>2. HoldsVictim' /\ HoldsRef' /\ HoldsStart'
  BY SMTT(60), ProcsAssumption
     DEF BeginTask, Events, Procs, session, record, task, local, Goto, TInv,
     HoldsVictim, HoldsRef, HoldsStart, TypeOK, StartSteps
<1> QED BY <1>1, <1>2 DEF TInv

\* The body of a compact or review task.
LEMMA OtherWorkType ==
    ASSUME TInv, NEW t \in Turns, OtherWork(t)
    PROVE  TInv'
<1> QED
  BY ProcsAssumption
     DEF OtherWork, Procs, session, record, task, local, Goto, TInv, HoldsVictim,
     HoldsRef, HoldsStart, TypeOK, Steps, AbortSteps, StartSteps, WakeSteps,
     RunSteps, EndSteps

\* run_turn records its prompt.
LEMMA EnterTurnType ==
    ASSUME TInv, NEW t \in Turns, EnterTurn(t)
    PROVE  TInv'
<1>1. /\ history' = history \o input[t]
      /\ input' = [input EXCEPT ![t] = <<>>]
      /\ \E s \in {"sample", "drain", "check"} : pc' = [pc EXCEPT ![t] = s]
      /\ UNCHANGED <<session, marked, emitted, kind, cancelled, aborted, local, unsent,
                     dropped, open>>
  BY DEF EnterTurn, Goto
<1>2. /\ history' \in Seq(Inputs)
      /\ input' \in [Turns -> Seq(Inputs)]
      /\ pc' \in [Procs -> Steps]
  <2>1. history \in Seq(Inputs) /\ input[t] \in Seq(Inputs)
    BY DEF TInv, TypeOK
  <2>2. history' \in Seq(Inputs)
    BY <1>1, <2>1
  <2>3. <<>> \in Seq(Inputs)
    OBVIOUS
  <2>4. input' \in [Turns -> Seq(Inputs)]
    BY <1>1, <2>3 DEF TInv, TypeOK
  <2>5. {"sample", "drain", "check"} \subseteq Steps
    BY DEF Steps, RunSteps
  <2>6. pc' \in [Procs -> Steps]
    BY <1>1, <2>5 DEF TInv, TypeOK
  <2> QED BY <2>2, <2>4, <2>6
<1>3. TypeOK'
  BY <1>1, <1>2 DEF TInv, TypeOK, session, local
<1>4. HoldsVictim' /\ HoldsRef' /\ HoldsStart'
  BY <1>1 DEF TInv, TypeOK, HoldsVictim, HoldsRef, HoldsStart, StartSteps, local
<1> QED BY <1>3, <1>4 DEF TInv

\* run_turn returns before sampling.
LEMMA EnterFailsType ==
    ASSUME TInv, NEW t \in Turns, EnterFails(t)
    PROVE  TInv'
<1>1. Range(input[t]) \subseteq Inputs
  BY RangeIn DEF TInv, TypeOK
<1> QED
  BY SMTT(60), ProcsAssumption, <1>1
     DEF EnterFails, Procs, session, record, task, local, Goto, TInv, HoldsVictim,
     HoldsRef, HoldsStart, TypeOK, Steps, AbortSteps, StartSteps, WakeSteps,
     RunSteps, EndSteps

\* Drained input enters the history.
LEMMA AcceptPendingType ==
    ASSUME TInv, NEW t \in Turns, AcceptPending(t)
    PROVE  TInv'
<1> QED
  BY ProcsAssumption
     DEF AcceptPending, Procs, session, record, task, local, Goto, TInv,
     HoldsVictim, HoldsRef, HoldsStart, TypeOK, Steps, AbortSteps, StartSteps,
     WakeSteps, RunSteps, EndSteps

\* A hook blocks one item and the rest is requeued in an allocated turn state.
LEMMA BlockPendingType ==
    ASSUME TInv, NEW t \in Turns, NEW i \in DOMAIN hand[t], BlockPending(t, i)
    PROVE  TInv'
<1> DEFINE before == SubSeq(hand[t], 1, i - 1)
           after == SubSeq(hand[t], i + 1, Len(hand[t]))
<1>1. hand[t] \in Seq(Inputs) /\ i \in 1 .. Len(hand[t])
  BY DEF TInv, TypeOK, Procs
<1>2. before \in Seq(Inputs) /\ after \in Seq(Inputs) /\ hand[t][i] \in Inputs
  BY <1>1, SubSeqProperties
<1>3. Range(after) \subseteq Inputs
  BY <1>2, RangeIn
<1>4. history \o before \in Seq(Inputs)
  BY <1>2 DEF TInv, TypeOK
<1>5. turnState' \in Seq(TurnStates) /\ DOMAIN turnState' = DOMAIN turnState
  <2>1. CASE active = NoTurn
    BY <2>1 DEF BlockPending, TInv, TypeOK
  <2>2. CASE active # NoTurn
    <3>1. after \o turnState[active.state].pending \in Seq(Inputs)
      BY <1>2, <2>2, ActiveShape, StateShape DEF TInv
    <3>2. turnState' = [turnState EXCEPT
                          ![active.state].pending = after \o turnState[active.state].pending]
      BY <2>2 DEF BlockPending
    <3> HIDE DEF after
    <3> QED BY <2>2, <3>1, <3>2, ActiveShape, SetPending DEF TInv, TypeOK
  <2> QED BY <2>1, <2>2
<1>6. dropped' \in SUBSET Inputs
  BY SMTT(60), <1>2, <1>3 DEF BlockPending, TInv, TypeOK
<1>7. history' \in Seq(Inputs) /\ hand' \in [Procs -> Seq(Inputs)]
  <2>1. history' = history \o before /\ hand' = [hand EXCEPT ![t] = <<>>]
    BY DEF BlockPending
  <2> HIDE DEF before
  <2>2. hand' \in [Procs -> Seq(Inputs)]
    BY <2>1, NoInput DEF TInv, TypeOK
  <2> QED BY <1>4, <2>1, <2>2
<1>8. \E s \in {"sample", "drain", "check"} : pc' = [pc EXCEPT ![t] = s]
  BY DEF BlockPending, Goto
<1>9. TypeOK'
  BY ProcsAssumption, <1>5, <1>6, <1>7, <1>8
     DEF BlockPending, Procs, session, record, task, local, Goto, TInv, TypeOK,
     Steps, AbortSteps, StartSteps, WakeSteps, RunSteps, EndSteps
<1>10. HoldsVictim' /\ HoldsRef' /\ HoldsStart'
  BY ProcsAssumption, <1>5, <1>6, <1>7, <1>8
     DEF BlockPending, Procs, session, record, task, local, Goto, TInv, HoldsVictim,
     HoldsRef, HoldsStart, TypeOK, StartSteps
<1> QED BY <1>9, <1>10 DEF TInv

\* defer_mailbox_delivery_to_next_turn finds the turn by a task in it.
LEMMA DeferMailboxType ==
    ASSUME TInv, NEW t \in Turns, DeferMailbox(t)
    PROVE  TInv'
<1>1. active # NoTurn
  BY DEF DeferMailbox, Tasks, Contains
<1>2. active.state \in DOMAIN turnState /\ turnState \in Seq(TurnStates)
  BY <1>1, ActiveShape DEF TInv, TypeOK
<1>3. turnState' \in Seq(TurnStates) /\ DOMAIN turnState' = DOMAIN turnState
  BY <1>2, SetPhase DEF DeferMailbox
<1> QED
  BY ProcsAssumption, <1>3
     DEF DeferMailbox, Procs, session, record, task, local, Goto, TInv, HoldsVictim,
     HoldsRef, HoldsStart, TypeOK, Steps, AbortSteps, StartSteps, WakeSteps,
     RunSteps, EndSteps

\* So does accept_mailbox_delivery_for_current_turn.
LEMMA AcceptMailboxType ==
    ASSUME TInv, NEW t \in Turns, AcceptMailbox(t)
    PROVE  TInv'
<1>1. active # NoTurn
  BY DEF AcceptMailbox, Tasks, Contains
<1>2. active.state \in DOMAIN turnState /\ turnState \in Seq(TurnStates)
  BY <1>1, ActiveShape DEF TInv, TypeOK
<1>3. turnState' \in Seq(TurnStates) /\ DOMAIN turnState' = DOMAIN turnState
  BY <1>2, SetPhase DEF AcceptMailbox
<1> QED
  BY ProcsAssumption, <1>3
     DEF AcceptMailbox, Procs, session, record, task, local, Goto, TInv,
     HoldsVictim, HoldsRef, HoldsStart, TypeOK, Steps, AbortSteps, StartSteps,
     WakeSteps, RunSteps, EndSteps

\* An approval request is kept in the active turn's state.
LEMMA RequestApprovalType ==
    ASSUME TInv, NEW t \in Turns, RequestApproval(t)
    PROVE  TInv'
<1>1. /\ active # NoTurn
      /\ active.state \in DOMAIN turnState
      /\ turnState \in Seq(TurnStates)
  BY ActiveShape DEF RequestApproval, TInv, TypeOK
<1>2. /\ turnState[active.state].pending \in Seq(Inputs)
      /\ turnState[active.state].approvals \in SUBSET Turns
  BY <1>1, StateShape DEF TInv
<1>3. turnState' \in Seq(TurnStates) /\ DOMAIN turnState' = DOMAIN turnState
  BY ZenonT(60), <1>1, <1>2, SetApprovals DEF RequestApproval
<1> QED
  BY ProcsAssumption, <1>1, <1>3
     DEF RequestApproval, Procs, session, record, task, local, Goto, TInv,
     HoldsVictim, HoldsRef, HoldsStart, TypeOK, Steps, AbortSteps, StartSteps,
     WakeSteps, RunSteps, EndSteps

\* The wait for an approval ends.
LEMMA ApprovalEndsType ==
    ASSUME TInv, NEW t \in Turns, ApprovalEnds(t)
    PROVE  TInv'
<1>1. TypeOK'
  BY ZenonT(60), ProcsAssumption
     DEF ApprovalEnds, Procs, session, record, task, local, Goto, TInv, TypeOK,
     Steps, AbortSteps, StartSteps, WakeSteps, RunSteps, EndSteps
<1>2. HoldsVictim' /\ HoldsRef' /\ HoldsStart'
  BY SMTT(60), ProcsAssumption
     DEF ApprovalEnds, Procs, session, record, task, local, Goto, TInv, HoldsVictim,
     HoldsRef, HoldsStart, TypeOK, StartSteps
<1> QED BY <1>1, <1>2 DEF TInv

\* A sampling request asks for a follow-up.
LEMMA SampleFollowsUpType ==
    ASSUME TInv, NEW t \in Turns, SampleFollowsUp(t)
    PROVE  TInv'
<1> QED
  BY ProcsAssumption
     DEF SampleFollowsUp, Procs, session, record, task, local, Goto, TInv,
     HoldsVictim, HoldsRef, HoldsStart, TypeOK, Steps, AbortSteps, StartSteps,
     WakeSteps, RunSteps, EndSteps

\* A sampling request completes the turn.
LEMMA SampleCompletesType ==
    ASSUME TInv, NEW t \in Turns, SampleCompletes(t)
    PROVE  TInv'
<1> QED
  BY ProcsAssumption
     DEF SampleCompletes, Procs, session, record, task, local, Goto, TInv,
     HoldsVictim, HoldsRef, HoldsStart, TypeOK, Steps, AbortSteps, StartSteps,
     WakeSteps, RunSteps, EndSteps

\* A sampling request fails.
LEMMA SampleFailsType ==
    ASSUME TInv, NEW t \in Turns, SampleFails(t)
    PROVE  TInv'
<1> QED
  BY ProcsAssumption
     DEF SampleFails, Procs, session, record, task, local, Goto, TInv, HoldsVictim,
     HoldsRef, HoldsStart, TypeOK, Steps, AbortSteps, StartSteps, WakeSteps,
     RunSteps, EndSteps

\* RegularTask::run decides whether to go round again.
LEMMA CheckAgainType ==
    ASSUME TInv, NEW t \in Turns, CheckAgain(t)
    PROVE  TInv'
<1> QED
  BY ProcsAssumption
     DEF CheckAgain, Procs, session, record, task, local, Goto, TInv, HoldsVictim,
     HoldsRef, HoldsStart, TypeOK, Steps, AbortSteps, StartSteps, WakeSteps,
     RunSteps, EndSteps

\* The spawned task flushes and checks its token.
LEMMA FlushRolloutType ==
    ASSUME TInv, NEW t \in Turns, FlushRollout(t)
    PROVE  TInv'
<1>1. Range(input[t]) \subseteq Inputs
  BY RangeIn DEF TInv, TypeOK
<1> QED
  BY SMTT(60), ProcsAssumption, <1>1
     DEF FlushRollout, Procs, session, record, task, local, Goto, TInv, HoldsVictim,
     HoldsRef, HoldsStart, TypeOK, Steps, AbortSteps, StartSteps, WakeSteps,
     RunSteps, EndSteps

\* on_task_finished keeps an Arc only of the turn it emptied.
LEMMA RemoveTaskType ==
    ASSUME TInv, NEW t \in Turns, RemoveTask(t)
    PROVE  TInv'
<1>1. SwapRemove(Tasks, t) \in Seq(Turns)
  <2>1. Tasks \in Seq(Turns)
    BY ActiveShape DEF Tasks, TInv
  <2> QED BY <2>1, SwapRemoveShape
<1>2. active' \in {NoTurn} \union [state : DOMAIN turnState, tasks : Seq(Turns)]
  BY <1>1, ActiveShape DEF RemoveTask, TInv
<1>3. active # NoTurn => active.state \in DOMAIN turnState /\ active.state # 0
  BY ActiveShape DEF TInv, TypeOK
<1>4. \/ /\ pc' = [pc EXCEPT ![t] = "collect"]
         /\ ref' = [ref EXCEPT ![t] = active.state]
         /\ active.state \in DOMAIN turnState /\ active.state # 0
      \/ /\ pc' = [pc EXCEPT ![t] = "complete"]
         /\ ref' = ref
  BY <1>3 DEF RemoveTask, Goto
<1>5. TypeOK'
  BY ZenonT(60), ProcsAssumption, <1>2, <1>4
     DEF RemoveTask, Procs, session, record, task, local, Goto, TInv, TypeOK, Steps,
     AbortSteps, StartSteps, WakeSteps, RunSteps, EndSteps
<1>6. HoldsVictim' /\ HoldsRef' /\ HoldsStart'
  BY ZenonT(60), ProcsAssumption, <1>2, <1>4
     DEF RemoveTask, Procs, session, record, task, local, Goto, TInv, HoldsVictim,
     HoldsRef, HoldsStart, TypeOK, StartSteps
<1> QED BY <1>5, <1>6 DEF TInv

\* It takes the late input of that turn state.
LEMMA CollectPendingType ==
    ASSUME TInv, NEW t \in Turns, CollectPending(t)
    PROVE  TInv'
<1>1. ref[t] \in DOMAIN turnState /\ turnState \in Seq(TurnStates)
  BY DEF CollectPending, TInv, TypeOK, HoldsRef, Procs
<1>2. turnState[ref[t]].pending \in Seq(Inputs)
  BY <1>1, StateShape DEF TInv
<1>3. turnState' \in Seq(TurnStates) /\ DOMAIN turnState' = DOMAIN turnState
  BY <1>1, NoInput, SetPending DEF CollectPending
<1> QED
  BY ProcsAssumption, <1>2, <1>3
     DEF CollectPending, Procs, session, record, task, local, Goto, TInv,
     HoldsVictim, HoldsRef, HoldsStart, TypeOK, Steps, AbortSteps, StartSteps,
     WakeSteps, RunSteps, EndSteps

\* It records or drops the late input item by item.
LEMMA RecordLateType ==
    ASSUME TInv, NEW t \in Turns, RecordLate(t)
    PROVE  TInv'
<1>1. Head(hand[t]) \in Inputs /\ Tail(hand[t]) \in Seq(Inputs)
  BY HeadTailProperties DEF RecordLate, TInv, TypeOK, Procs
<1>2. history' \in Seq(Inputs) /\ dropped' \in SUBSET Inputs
  <2>1. Append(history, Head(hand[t])) \in Seq(Inputs) /\ history \in Seq(Inputs)
    BY <1>1 DEF TInv, TypeOK
  <2>2. dropped \union {Head(hand[t])} \in SUBSET Inputs /\ dropped \in SUBSET Inputs
    BY <1>1 DEF TInv, TypeOK
  <2> QED BY <2>1, <2>2 DEF RecordLate
<1>3. hand' \in [Procs -> Seq(Inputs)]
  BY <1>1 DEF RecordLate, TInv, TypeOK
<1>4. TypeOK'
  BY ProcsAssumption, <1>2, <1>3
     DEF RecordLate, Procs, session, record, task, local, Goto, TInv, TypeOK, Steps,
     AbortSteps, StartSteps, WakeSteps, RunSteps, EndSteps
<1>5. HoldsVictim' /\ HoldsRef' /\ HoldsStart'
  BY ProcsAssumption, <1>2, <1>3
     DEF RecordLate, Procs, session, record, task, local, Goto, TInv, HoldsVictim,
     HoldsRef, HoldsStart, TypeOK, StartSteps
<1> QED BY <1>4, <1>5 DEF TInv

\* TurnComplete.
LEMMA ReportCompleteType ==
    ASSUME TInv, NEW t \in Turns, ReportComplete(t)
    PROVE  TInv'
<1> QED
  BY ProcsAssumption
     DEF ReportComplete, Events, Procs, session, record, task, local, Goto, TInv,
     HoldsVictim, HoldsRef, HoldsStart, TypeOK, Steps, AbortSteps, StartSteps,
     WakeSteps, RunSteps, EndSteps

\* It clears the turn it emptied, if that is still the active one.
LEMMA ReleaseTurnType ==
    ASSUME TInv, NEW t \in Turns, ReleaseTurn(t)
    PROVE  TInv'
<1>1. UNCHANGED <<turnState, queued, mailbox, record, task, starting, hand, victims,
                  reason, unsent, dropped, open>>
  BY DEF ReleaseTurn
<1>2. /\ active' = NoTurn \/ active' = active
      /\ ref' = [ref EXCEPT ![t] = 0]
      /\ \E s \in {"maybe", "done"} : pc' = [pc EXCEPT ![t] = s]
  BY DEF ReleaseTurn, Goto
<1>3. pc' \in [Procs -> Steps]
  BY <1>2 DEF TInv, TypeOK, Steps, WakeSteps
<1>4. TypeOK'
  BY <1>1, <1>2, <1>3 DEF TInv, TypeOK, record, task
<1>5. HoldsVictim' /\ HoldsRef' /\ HoldsStart'
  BY <1>1, <1>2 DEF TInv, TypeOK, HoldsVictim, HoldsRef, HoldsStart, StartSteps
<1> QED BY <1>4, <1>5 DEF TInv

-----------------------------------------------------------------------------
\* Every step of the specification, taken in a well-typed state, leads to one.
LEMMA NextType == TInv /\ [Next]_vars => TInv'
<1> SUFFICES ASSUME TInv, [Next]_vars PROVE TInv'
  OBVIOUS
<1>1. CASE LoopStep
  BY <1>1, UserInputSteersType, UserInputSpawnsType, SpawnOtherType, InterruptType,
     InterAgentType, ApproveDeniedType DEF LoopStep
<1>2. CASE ClientStep
  BY <1>2, SteerType, InjectType, NotifyApprovalType, GuardianTakeType DEF ClientStep
<1>3. ASSUME NEW d \in Procs, StartStep(d) PROVE TInv'
  BY <1>3, CheckPendingWorkType, ReserveTurnType, SkipReservedType, TakeQueuedType,
     StartTakesPendingType, StartDrainsMailboxType, AttachTurnStateType,
     PushPendingType, SpawnAndAddType DEF StartStep
<1>4. ASSUME NEW d \in Procs, AbortStep(d) PROVE TInv'
  BY <1>4, CancelTaskType, StopTaskType, MarkInterruptedType, ReportAbortedType,
     ClearPendingType DEF AbortStep
<1>5. ASSUME NEW d \in Procs \ Turns, DriverStep(d) PROVE TInv'
  BY <1>3, <1>4, <1>5, QueueForNextTurnType, TakeActiveTurnType DEF DriverStep
<1>6. ASSUME NEW t \in Turns, SampleStep(t) PROVE TInv'
  BY <1>6, DeferMailboxType, AcceptMailboxType, RequestApprovalType, ApprovalEndsType
  DEF SampleStep
<1>7. ASSUME NEW t \in Turns, TaskStep(t) PROVE TInv'
  <2>1. CASE \/ BeginTask(t) \/ OtherWork(t) \/ EnterTurn(t) \/ EnterFails(t)
             \/ TurnTakesPending(t) \/ TurnDrainsMailbox(t) \/ AcceptPending(t)
             \/ \E i \in DOMAIN hand[t] : BlockPending(t, i)
    BY <2>1, BeginTaskType, OtherWorkType, EnterTurnType, EnterFailsType,
       TurnTakesPendingType, TurnDrainsMailboxType, AcceptPendingType,
       BlockPendingType
  <2>2. CASE \/ SampleFollowsUp(t) \/ SampleCompletes(t) \/ SampleFails(t)
             \/ CheckAgain(t) \/ FlushRollout(t)
    BY <2>2, SampleFollowsUpType, SampleCompletesType, SampleFailsType,
       CheckAgainType, FlushRolloutType
  <2>3. CASE \/ RemoveTask(t) \/ CollectPending(t) \/ RecordLate(t)
             \/ ReportComplete(t) \/ ReleaseTurn(t)
    BY <2>3, RemoveTaskType, CollectPendingType, RecordLateType, ReportCompleteType,
       ReleaseTurnType
  <2>4. CASE StartStep(t)
    BY <1>3, <2>4 DEF Procs
  <2> QED
    BY <1>6, <1>7, <2>1, <2>2, <2>3, <2>4 DEF TaskStep
<1>8. CASE UNCHANGED vars
  BY <1>8 DEF vars, session, record, task, local, TInv, TypeOK, HoldsVictim, HoldsRef,
     HoldsStart
<1> QED
  BY <1>1, <1>2, <1>5, <1>7, <1>8, DropTaskType DEF Next, Quiescent

\* The specification keeps its types, for every set of turns and inputs: in
\* particular every Arc of a TurnState that a process dereferences is allocated,
\* and every victim or starting turn it names exists when it is used.
THEOREM TypeTheorem == Spec => []TypeOK
<1>1. TInv => TypeOK
  BY DEF TInv
<1> QED BY <1>1, InitType, NextType, PTL DEF Spec

-----------------------------------------------------------------------------
(* One task at a time *)

\* No work waits for an idle session, so nobody wakes one.
NothingQueued ==
    /\ queued = <<>>
    /\ \A d \in Procs : pc[d] \notin {"queue", "reserve"}

\* Only the submission loop starts turns.
OnlyLoopStarts ==
    \A d \in Procs \ {Loop} : starting[d] = NoTurn /\ pc[d] \notin StartSteps

\* From the moment it has taken the active turn until it adds the next task, the
\* loop finds no task in the session.
EmptyWhileStarting ==
    pc[Loop] \in (AbortSteps \ {"take"}) \union StartSteps => Tasks = <<>>

SInv == NothingQueued /\ OnlyLoopStarts /\ EmptyWhileStarting /\ OneTask

\* The invariant holds initially.
LEMMA InitSingle == Init => SInv
BY ProcsAssumption
   DEF Init, SInv, NothingQueued, OnlyLoopStarts, EmptyWhileStarting, OneTask, Tasks,
       Procs, StartSteps, AbortSteps

\* A step that leaves the session alone and moves a process other than the loop
\* to a step where nothing is started keeps the invariant.
LEMMA TaskMoves ==
    ASSUME TInv, SInv, NEW t \in Procs \ {Loop},
           active' = active, queued' = queued, starting' = starting,
           \/ pc' = pc
           \/ \E s \in Steps \ (StartSteps \union {"queue", "reserve"}) :
                 pc' = [pc EXCEPT ![t] = s]
    PROVE  SInv'
<1>1. pc'[Loop] = pc[Loop]
  BY DEF TInv, TypeOK, Procs
<1>2. Tasks' = Tasks
  BY DEF Tasks
<1>3. OnlyLoopStarts' /\ NothingQueued'
  BY DEF SInv, OnlyLoopStarts, NothingQueued, TInv, TypeOK
<1> QED
  BY <1>1, <1>2, <1>3 DEF SInv, EmptyWhileStarting, OneTask

\* The same for a step of the loop inside an abort or a start.
LEMMA LoopMoves ==
    ASSUME TInv, SInv, Tasks' = <<>>, queued' = <<>>,
           \A d \in Procs \ {Loop} : starting'[d] = NoTurn,
           \E s \in Steps \ {"queue", "reserve"} : pc' = [pc EXCEPT ![Loop] = s]
    PROVE  SInv'
<1>1. OnlyLoopStarts' /\ NothingQueued'
  BY DEF SInv, OnlyLoopStarts, NothingQueued, TInv, TypeOK, Procs
<1> QED
  BY <1>1 DEF SInv, EmptyWhileStarting, OneTask

\* Steps of a task's own flow of control.
LEMMA TaskStepSingle ==
    ASSUME TInv, SInv, NEW t \in Turns,
           \/ BeginTask(t)
           \/ OtherWork(t)
           \/ EnterTurn(t)
           \/ EnterFails(t)
           \/ TurnTakesPending(t)
           \/ TurnDrainsMailbox(t)
           \/ AcceptPending(t)
           \/ \E i \in DOMAIN hand[t] : BlockPending(t, i)
           \/ SampleStep(t)
           \/ SampleFollowsUp(t)
           \/ SampleCompletes(t)
           \/ SampleFails(t)
           \/ CheckAgain(t)
           \/ FlushRollout(t)
           \/ CollectPending(t)
           \/ RecordLate(t)
           \/ ReportComplete(t)
    PROVE  SInv'
<1> DEFINE Calm == Steps \ (StartSteps \union {"queue", "reserve"})
           Moves == \/ pc' = pc
                    \/ \E s \in Calm : pc' = [pc EXCEPT ![t] = s]
<1>1. t \in Procs \ {Loop}
  BY ProcsAssumption DEF Procs
<1>2. {"enter", "work", "flush", "sample", "drain", "mail", "inspect", "check",
       "approval", "finish", "done", "complete", "release"} \subseteq Calm
  BY DEF Steps, StartSteps, RunSteps, EndSteps
<1> HIDE DEF Calm
<1>3. CASE BeginTask(t) \/ OtherWork(t) \/ EnterTurn(t) \/ EnterFails(t)
  <2>1. Moves
    BY <1>2, <1>3 DEF BeginTask, OtherWork, EnterTurn, EnterFails, Goto
  <2>2. active' = active /\ queued' = queued /\ starting' = starting
    BY <1>3 DEF BeginTask, OtherWork, EnterTurn, EnterFails, session, local
  <2> QED BY <1>1, <2>1, <2>2, TaskMoves DEF Calm
<1>4. CASE TurnTakesPending(t) \/ TurnDrainsMailbox(t)
  <2>1. Moves
    BY <1>2, <1>4
    DEF TurnTakesPending, TakePending, TurnDrainsMailbox, DrainMailbox, Goto
  <2>2. active' = active /\ queued' = queued /\ starting' = starting
    BY <1>4 DEF TurnTakesPending, TakePending, TurnDrainsMailbox, DrainMailbox
  <2> QED BY <1>1, <2>1, <2>2, TaskMoves DEF Calm
<1>5. CASE AcceptPending(t) \/ \E i \in DOMAIN hand[t] : BlockPending(t, i)
  <2>1. Moves
    BY <1>2, <1>5 DEF AcceptPending, BlockPending, Goto
  <2>2. active' = active /\ queued' = queued /\ starting' = starting
    BY <1>5 DEF AcceptPending, BlockPending, session
  <2> QED BY <1>1, <2>1, <2>2, TaskMoves DEF Calm
<1>6. CASE SampleStep(t)
  <2>1. Moves
    BY <1>2, <1>6 DEF SampleStep, DeferMailbox, AcceptMailbox, RequestApproval,
       ApprovalEnds, Goto
  <2>2. active' = active /\ queued' = queued /\ starting' = starting
    BY <1>6 DEF SampleStep, DeferMailbox, AcceptMailbox, RequestApproval,
       ApprovalEnds, session, local
  <2> QED BY <1>1, <2>1, <2>2, TaskMoves DEF Calm
<1>7. CASE \/ SampleFollowsUp(t) \/ SampleCompletes(t) \/ SampleFails(t)
           \/ CheckAgain(t) \/ FlushRollout(t)
  <2>1. Moves
    BY <1>2, <1>7 DEF SampleFollowsUp, SampleCompletes, SampleFails, CheckAgain,
       FlushRollout, Goto
  <2>2. active' = active /\ queued' = queued /\ starting' = starting
    BY <1>7 DEF SampleFollowsUp, SampleCompletes, SampleFails, CheckAgain,
       FlushRollout, session, local
  <2> QED BY <1>1, <2>1, <2>2, TaskMoves DEF Calm
<1>8. CASE CollectPending(t) \/ RecordLate(t) \/ ReportComplete(t)
  <2>1. Moves
    BY <1>2, <1>8 DEF CollectPending, RecordLate, ReportComplete, Goto
  <2>2. active' = active /\ queued' = queued /\ starting' = starting
    BY <1>8 DEF CollectPending, RecordLate, ReportComplete, session, local
  <2> QED BY <1>1, <2>1, <2>2, TaskMoves DEF Calm
<1> QED BY <1>3, <1>4, <1>5, <1>6, <1>7, <1>8

\* Removing a task leaves at most the tasks there were.
LEMMA SwapRemoveShorter ==
    ASSUME NEW s \in Seq(Turns), NEW t
    PROVE  /\ Len(s) <= 1 => Len(SwapRemove(s, t)) <= 1
           /\ s = <<>> => SwapRemove(s, t) = <<>>
<1>1. CASE ~Contains(s, t)
  BY <1>1 DEF SwapRemove
<1>2. CASE Contains(s, t)
  <2> DEFINE i == CHOOSE j \in DOMAIN s : s[j] = t
  <2>1. i \in DOMAIN s /\ Len(s) \in DOMAIN s
    BY <1>2 DEF Contains
  <2> DEFINE u == [s EXCEPT ![i] = Last(s)]
  <2>2. u \in Seq(Turns) /\ Len(u) = Len(s)
    BY <2>1 DEF Last
  <2>3. SwapRemove(s, t) = SubSeq(u, 1, Len(u) - 1)
    BY <1>2 DEF SwapRemove, Front
  <2> HIDE DEF u
  <2>4. Len(SwapRemove(s, t)) = Len(s) - 1
    BY <2>1, <2>2, <2>3
  <2> QED BY <2>1, <2>4
<1> QED BY <1>1, <1>2

\* The end of a task: it leaves the active turn, and an emptied turn is released.
LEMMA TaskEndsSingle ==
    ASSUME TInv, SInv, NEW t \in Turns, RemoveTask(t) \/ ReleaseTurn(t)
    PROVE  SInv'
<1>1. t \in Procs \ {Loop}
  BY ProcsAssumption DEF Procs
<1>2. Tasks \in Seq(Turns)
  BY ActiveShape DEF Tasks, TInv
<1>3. /\ Len(Tasks') <= 1
      /\ Tasks = <<>> => Tasks' = <<>>
  <2>1. CASE RemoveTask(t)
    <3>1. active' = NoTurn \/ Tasks' = SwapRemove(Tasks, t)
      <4>1. CASE active = NoTurn
        BY <2>1, <4>1 DEF RemoveTask
      <4>2. CASE active # NoTurn
        <5>1. active \in [state : DOMAIN turnState, tasks : Seq(Turns)]
          BY <4>2, ActiveShape DEF TInv
        <5>2. active' = [active EXCEPT !.tasks = SwapRemove(Tasks, t)]
          BY <2>1, <4>2 DEF RemoveTask
        <5>3. active'.tasks = SwapRemove(Tasks, t)
          BY <5>1, <5>2
        <5> QED BY <5>3 DEF Tasks
      <4> QED BY <4>1, <4>2
    <3>2. active' = NoTurn => Tasks' = <<>>
      BY DEF Tasks
    <3> QED BY <1>2, <3>1, <3>2, SwapRemoveShorter DEF SInv, OneTask
  <2>2. CASE ReleaseTurn(t)
    BY <2>2 DEF ReleaseTurn, SInv, OneTask, Tasks
  <2> QED BY <2>1, <2>2
<1>4. /\ queued' = queued /\ starting' = starting
      /\ \E s \in {"collect", "complete", "maybe", "done"} : pc' = [pc EXCEPT ![t] = s]
  BY DEF RemoveTask, ReleaseTurn, Goto
<1>5. pc'[Loop] = pc[Loop]
  BY <1>1, <1>4 DEF TInv, TypeOK, Procs
<1>6. NothingQueued' /\ OnlyLoopStarts'
  BY <1>1, <1>4 DEF SInv, NothingQueued, OnlyLoopStarts, StartSteps, TInv, TypeOK
<1> QED
  BY <1>3, <1>5, <1>6 DEF SInv, EmptyWhileStarting, OneTask

\* Operations of the loop and calls from other threads.
LEMMA CallsSingle ==
    ASSUME Grants = {}, TInv, SInv, LoopStep \/ ClientStep
    PROVE  SInv'
<1> USE DEF SInv
<1>1. ASSUME NEW p \in Prompts, UserInputSteers(p) \/ Steer(p) PROVE SInv'
  BY <1>1 DEF UserInputSteers, Steer, Steered, local, NothingQueued, OnlyLoopStarts,
     EmptyWhileStarting, OneTask, Tasks
<1>2. ASSUME NEW p \in Prompts, NEW t \in Turns, UserInputSpawns(p, t) PROVE SInv'
  BY <1>2, ProcsAssumption DEF UserInputSpawns, SpawnTask, Goto, session, LoopReady,
     NothingQueued, OnlyLoopStarts, EmptyWhileStarting, OneTask, Tasks, TInv, TypeOK,
     Procs, AbortSteps, StartSteps
<1>3. ASSUME NEW t \in Turns, NEW k \in OtherKinds, SpawnOther(t, k) PROVE SInv'
  BY <1>3, ProcsAssumption DEF SpawnOther, SpawnTask, Goto, session, LoopReady,
     NothingQueued, OnlyLoopStarts, EmptyWhileStarting, OneTask, Tasks, TInv, TypeOK,
     Procs, AbortSteps, StartSteps
<1>4. ASSUME NEW op \in Stops, Interrupt(op) PROVE SInv'
  BY <1>4, ProcsAssumption DEF Interrupt, Goto, session, LoopReady,
     NothingQueued, OnlyLoopStarts, EmptyWhileStarting, OneTask, Tasks, TInv, TypeOK,
     Procs, AbortSteps, StartSteps
<1>5. ASSUME NEW m \in Mail, InterAgentCommunication(m) PROVE SInv'
  BY <1>5, ProcsAssumption DEF InterAgentCommunication, Goto, local, LoopReady,
     NothingQueued, OnlyLoopStarts, EmptyWhileStarting, OneTask, Tasks, TInv, TypeOK,
     Procs, AbortSteps, StartSteps
<1>6. ASSUME NEW n \in Notes, Inject(n) PROVE SInv'
  BY <1>6 DEF Inject, Injected, local, NothingQueued, OnlyLoopStarts,
     EmptyWhileStarting, OneTask, Tasks
<1>7. ASSUME NEW t \in Turns, NotifyApproval(t) PROVE SInv'
  <2>1. t \in Procs \ {Loop} /\ "sample" \in Steps \ (StartSteps \union {"queue", "reserve"})
    BY ProcsAssumption DEF Procs, Steps, RunSteps, StartSteps
  <2>2. active' = active /\ queued' = queued /\ starting' = starting
    BY <1>7 DEF NotifyApproval, local
  <2>3. pc' = pc \/ pc' = [pc EXCEPT ![t] = "sample"]
    BY <1>7 DEF NotifyApproval, Goto
  <2> QED BY <2>1, <2>2, <2>3, TaskMoves
<1>8. ASSUME NEW d \in Guardians, NEW t \in Turns, GuardianTake(d, t) PROVE SInv'
  BY <1>8, ProcsAssumption DEF GuardianTake, Goto,
     NothingQueued, OnlyLoopStarts, EmptyWhileStarting, OneTask, Tasks, TInv, TypeOK,
     Procs, AbortSteps, StartSteps
<1> QED
  BY <1>1, <1>2, <1>3, <1>4, <1>5, <1>6, <1>7, <1>8 DEF LoopStep, ClientStep

\* Aborting and starting, run by the loop, a guardian or a finished task.
LEMMA DriverSingle ==
    ASSUME Trigger = {}, TInv, SInv, NEW d \in Procs,
           \/ d = Loop /\ QueueForNextTurn
           \/ d = Loop /\ TakeActiveTurn
           \/ d \notin Turns /\ AbortStep(d)
           \/ StartStep(d)
    PROVE  SInv'
<1>1. CASE d = Loop /\ QueueForNextTurn
  BY <1>1 DEF SInv, QueueForNextTurn, NothingQueued, Procs
<1>2. CASE d = Loop /\ TakeActiveTurn
  <2>1. Tasks' = <<>> /\ queued' = <<>> /\ starting' = starting
    BY <1>2 DEF SInv, TakeActiveTurn, Tasks, NothingQueued
  <2>2. \E s \in {"queued", "maybe", "idle", "cancel"} : pc' = [pc EXCEPT ![Loop] = s]
    BY <1>2, ProcsAssumption DEF TakeActiveTurn, AfterAbort, Idle, Goto
  <2>3. \E s \in Steps \ {"queue", "reserve"} : pc' = [pc EXCEPT ![Loop] = s]
    BY <2>2 DEF Steps, StartSteps, WakeSteps, AbortSteps
  <2>4. \A e \in Procs \ {Loop} : starting'[e] = NoTurn
    BY <2>1 DEF SInv, OnlyLoopStarts
  <2> QED BY <2>1, <2>3, <2>4, LoopMoves
<1>3. CASE d \notin Turns /\ AbortStep(d)
  <2>1. active' = active /\ queued' = queued
    BY <1>3 DEF AbortStep, CancelTask, StopTask, MarkInterrupted, ReportAborted,
       ClearPending, session
  <2>2. Tasks' = Tasks
    BY <2>1 DEF Tasks
  <2>3. starting' = starting /\ pc[d] \in AbortSteps \ {"take"}
    BY <1>3 DEF AbortStep, CancelTask, StopTask, MarkInterrupted, ReportAborted,
       ClearPending, local, AbortSteps
  <2>4. \/ \E s \in {"cancel", "wait", "mark", "clear", "report", "maybe", "idle"} :
              pc' = [pc EXCEPT ![d] = s]
        \/ starting[d] # NoTurn /\ pc' = [pc EXCEPT ![d] = "queued"]
    BY <1>3 DEF AbortStep, CancelTask, StopTask, MarkInterrupted, ReportAborted,
       ClearPending, AfterAbort, Idle, Goto
  <2> QED
    BY <2>1, <2>2, <2>3, <2>4
    DEF SInv, NothingQueued, OnlyLoopStarts, EmptyWhileStarting, OneTask, TInv, TypeOK,
        Procs, AbortSteps, StartSteps
<1>4. CASE CheckPendingWork(d)
  <2>1. /\ active' = active /\ queued' = queued /\ starting' = starting
        /\ pc' = [pc EXCEPT ![d] = Idle(d)]
    BY <1>4 DEF SInv, CheckPendingWork, NothingQueued, Goto, session, local
  <2> QED
    BY <2>1 DEF SInv, Idle, NothingQueued, OnlyLoopStarts, EmptyWhileStarting, OneTask,
       Tasks, TInv, TypeOK, Procs, AbortSteps, StartSteps
<1>5. CASE (\E t \in Turns : ReserveTurn(d, t)) \/ SkipReserved(d)
  BY <1>5 DEF SInv, ReserveTurn, SkipReserved, NothingQueued
<1>6. CASE \/ TakeQueued(d) \/ StartTakesPending(d) \/ StartDrainsMailbox(d)
           \/ AttachTurnState(d) \/ PushPending(d) \/ SpawnAndAdd(d)
  <2>1. pc[d] \in StartSteps
    BY <1>6 DEF TakeQueued, StartTakesPending, TakePending, StartDrainsMailbox,
       DrainMailbox, AttachTurnState, PushPending, SpawnAndAdd, StartSteps
  <2>2. d = Loop
    BY <2>1 DEF SInv, OnlyLoopStarts
  <2>3. Tasks = <<>>
    BY <2>1, <2>2 DEF SInv, EmptyWhileStarting
  <2>4. CASE SpawnAndAdd(d)
    <3>1. starting[Loop] \in Turns
      BY <2>1, <2>2 DEF TInv, HoldsStart
    <3>2. GetOrInsert \in [state : DOMAIN Allocated, tasks : Seq(Turns)]
      BY AllocatedShape DEF TInv
    <3>3. GetOrInsert.tasks = <<>>
      BY <2>3 DEF GetOrInsert, Tasks
    <3>4. active' = [GetOrInsert EXCEPT !.tasks = <<starting[Loop]>>]
      BY <2>2, <2>4, <3>3 DEF SpawnAndAdd
    <3>5. active'.tasks = <<starting[Loop]>>
      BY <3>2, <3>4
    <3>6. Len(Tasks') <= 1
      BY <3>5 DEF Tasks
    <3>7. /\ pc' = [pc EXCEPT ![starting[Loop]] = "start", ![Loop] = "idle"]
          /\ starting' = [starting EXCEPT ![Loop] = NoTurn]
          /\ queued' = queued
      BY <2>2, <2>4, ProcsAssumption DEF SpawnAndAdd, Idle
    <3> QED
      BY <3>1, <3>6, <3>7, ProcsAssumption
      DEF SInv, NothingQueued, OnlyLoopStarts, EmptyWhileStarting, OneTask, TInv, TypeOK,
          Procs, AbortSteps, StartSteps
  <2>5. CASE ~SpawnAndAdd(d)
    <3>1. \E s \in {"pending", "mailbox", "attach", "push", "spawn"} :
             pc' = [pc EXCEPT ![Loop] = s]
      BY <1>6, <2>2, <2>5 DEF TakeQueued, StartTakesPending, TakePending,
         StartDrainsMailbox, DrainMailbox, AttachTurnState, PushPending, Goto
    <3>2. \E s \in Steps \ {"queue", "reserve"} : pc' = [pc EXCEPT ![Loop] = s]
      BY <3>1 DEF Steps, StartSteps
    <3>3. queued' = <<>> /\ starting' = starting
      BY <1>6, <2>5 DEF SInv, TakeQueued, StartTakesPending, TakePending,
         StartDrainsMailbox, DrainMailbox, AttachTurnState, PushPending, NothingQueued
    <3>4. active' = active \/ active' = GetOrInsert
      BY <1>6, <2>5 DEF TakeQueued, StartTakesPending, TakePending,
         StartDrainsMailbox, DrainMailbox, AttachTurnState, PushPending
    <3>5. Tasks' = <<>>
      BY <2>3, <3>4 DEF GetOrInsert, Tasks
    <3>6. \A e \in Procs \ {Loop} : starting'[e] = NoTurn
      BY <3>3 DEF SInv, OnlyLoopStarts
    <3> QED BY <3>2, <3>3, <3>5, <3>6, LoopMoves
  <2> QED BY <2>4, <2>5
<1> QED
  BY <1>1, <1>2, <1>3, <1>4, <1>5, <1>6 DEF StartStep

\* A dropped task neither starts a turn nor leaves the active one.
LEMMA DropTaskSingle ==
    ASSUME TInv, SInv, NEW t \in Turns, DropTask(t)
    PROVE  SInv'
<1>1. t \in Procs \ {Loop}
  BY ProcsAssumption DEF Procs
<1>2. /\ active' = active /\ queued' = queued
      /\ starting' = [starting EXCEPT ![t] = NoTurn]
      /\ pc' = [pc EXCEPT ![t] = "dead"]
  BY DEF DropTask, session, Goto
<1>3. starting' = starting
  BY <1>1, <1>2 DEF SInv, OnlyLoopStarts, TInv, TypeOK
<1>4. "dead" \in Steps \ (StartSteps \union {"queue", "reserve"})
  BY DEF Steps, StartSteps
<1> QED BY <1>1, <1>2, <1>3, <1>4, TaskMoves

\* Every step keeps the invariant.
LEMMA NextSingle ==
    ASSUME Grants = {}, Trigger = {}, TInv, SInv, [Next]_vars
    PROVE  SInv'
<1>1. CASE LoopStep \/ ClientStep
  BY <1>1, CallsSingle
<1>2. ASSUME NEW d \in Procs \ Turns, DriverStep(d) PROVE SInv'
  BY <1>2, DriverSingle DEF DriverStep
<1>3. ASSUME NEW t \in Turns, TaskStep(t) PROVE SInv'
  <2>1. CASE RemoveTask(t) \/ ReleaseTurn(t)
    BY <2>1, TaskEndsSingle
  <2>2. CASE StartStep(t)
    BY <2>2, DriverSingle DEF Procs
  <2> QED BY <1>3, <2>1, <2>2, TaskStepSingle DEF TaskStep
<1>4. CASE UNCHANGED vars
  BY <1>4 DEF vars, session, local, SInv, NothingQueued, OnlyLoopStarts,
     EmptyWhileStarting, OneTask, Tasks
<1> QED
  BY <1>1, <1>2, <1>3, <1>4, DropTaskSingle DEF Next, Quiescent

\* No session that starts turns only for user operations (no approved denials, no
\* trigger_turn mail) ever holds two tasks, whatever its clients, guardians and
\* tasks do: spawn_task aborts before it starts, and only the loop starts.
THEOREM OneTaskTheorem ==
    ASSUME Grants = {}, Trigger = {}
    PROVE  Spec => []OneTask
<1>1. Init => TInv /\ SInv
  BY InitType, InitSingle
<1>2. TInv /\ SInv /\ [Next]_vars => (TInv /\ SInv)'
  BY NextType, NextSingle
<1>3. TInv /\ SInv => OneTask
  BY DEF SInv
<1> QED BY <1>1, <1>2, <1>3, PTL DEF Spec

=============================================================================
