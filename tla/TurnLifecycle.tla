--------------------------- MODULE TurnLifecycle ---------------------------
(***************************************************************************)
(* The turn lifecycle of a core session: how a task is started, steered,   *)
(* interrupted, replaced and finished (core/src/tasks/mod.rs, state/turn.rs*)
(* and the pending-input half of session/mod.rs).                          *)
(*                                                                         *)
(* Processes.  The submission loop handles one operation at a time.  Every *)
(* started turn is a spawned task with its own flow of control; when it    *)
(* finishes it may itself start the next turn.  A guardian circuit breaker *)
(* interrupts a turn from a spawned task of its own.  Steering and         *)
(* injection arrive from any thread.  Each action is one critical section  *)
(* (one lock of `active_turn`, of a turn state, of the mailbox or of the   *)
(* idle queue); everything between two locks is interleaved.               *)
(*                                                                         *)
(* `handle.abort()` only asks the runtime to drop the task.  Nobody joins  *)
(* it, and a task that is being polled goes on until that poll ends; how   *)
(* many of its critical sections the poll still spans is left open.        *)
(* Feature::Goals is off, which is its default.                            *)
(***************************************************************************)
EXTENDS Naturals, Sequences, FiniteSets, SequencesExt

CONSTANTS
    Turns,      \* sub-ids of turns (bounds how many turns a behaviour starts)
    Prompts,    \* user inputs, submitted to the loop or steered
    Notes,      \* items other components pass to inject_response_items
    Grants,     \* items of an approved guardian denial: injected, or queued
    Mail,       \* inter-agent communications
    Trigger,    \* those of them marked trigger_turn
    OtherKinds, \* kinds of the non-steerable tasks the loop may start
    Stops,      \* which of Op::Interrupt and Op::Shutdown clients send
    Loop,       \* the submission loop
    Guardians,  \* the spawned guardian interrupters, at most a few
    NoTurn      \* the None of Option<ActiveTurn> and of an optional sub-id

Procs == {Loop} \union Guardians \union Turns
Inputs == Prompts \union Notes \union Grants \union Mail

ASSUME TriggerAssumption == Trigger \subseteq Mail
ASSUME KindsAssumption == OtherKinds \subseteq {"Review", "Compact"}
ASSUME StopsAssumption == Stops \subseteq {"Interrupt", "Shutdown"}
ASSUME ProcsAssumption ==
    /\ Loop \notin Guardians \union Turns
    /\ Guardians \intersect Turns = {}
    /\ NoTurn \notin Turns
ASSUME NoneAssumption == NoTurn \notin [state : Nat, tasks : Seq(Turns)]

VARIABLES
    active,     \* Session::active_turn: NoTurn or [state, tasks]
    turnState,  \* every TurnState allocated; `state` and `ref` are its Arcs
    queued,     \* Session::idle_pending_input
    mailbox,    \* MailboxReceiver::pending_mails with what is in the channel
    history,    \* model-visible conversation history (inputs only)
    marked,     \* turns whose interrupted marker is recorded and flushed
    emitted,    \* lifecycle events sent to the client, per turn
    kind,       \* RunningTask::kind
    input,      \* the input a task was started with and has not used yet
    cancelled,  \* RunningTask::cancellation_token
    aborted,    \* whether abort() was called on RunningTask::handle
    pc,         \* where each process is
    starting,   \* the turn a process is about to start
    hand,       \* inputs a process has taken out of a queue
    ref,        \* the TurnState a process holds an Arc of (0: none)
    victims,    \* the drained tasks an aborting process has still to abort
    reason,     \* TurnAbortReason of a process's current abort
    unsent,     \* inputs nobody has submitted yet
    dropped,    \* inputs discarded on purpose: interrupted or hook-blocked
    open        \* FALSE once Op::Shutdown has been received

session == <<active, turnState, queued, mailbox>>
record  == <<history, marked, emitted>>
task    == <<kind, input, cancelled, aborted>>
local   == <<starting, hand, ref, victims, reason>>
vars == <<session, record, task, local, pc, unsent, dropped, open>>

-----------------------------------------------------------------------------
(* Vocabulary *)

Kinds == {"Regular", "Review", "Compact"}
Reasons == {"Replaced", "Interrupted"}
\* TurnStarted, TurnComplete, and TurnAborted with its reason.
Events == {"Started", "Complete"} \union Reasons

AbortSteps == {"take", "cancel", "wait", "mark", "report", "clear"}
StartSteps == {"queued", "pending", "mailbox", "attach", "push", "spawn"}
WakeSteps  == {"maybe", "reserve"}
\* A task between its spawn and its removal from the active turn.
RunSteps   == {"start", "enter", "drain", "mail", "inspect", "sample",
               "approval", "check", "work", "flush", "finish"}
EndSteps   == {"collect", "complete", "release"}

\* The TurnState record: what is pending in the turn and where mail goes.
TurnStates == [pending : Seq(Inputs), phase : {"CurrentTurn", "NextTurn"},
               approvals : SUBSET Turns]
Default == [pending |-> <<>>, phase |-> "CurrentTurn", approvals |-> {}]

\* ActiveTurn::tasks of the active turn; its first task is the one steered.
Tasks == IF active = NoTurn THEN <<>> ELSE active.tasks

\* IndexMap::swap_remove: the last entry takes the place of the removed one.
SwapRemove(s, t) ==
    IF ~Contains(s, t) THEN s
    ELSE LET i == CHOOSE j \in DOMAIN s : s[j] = t
         IN  Front([s EXCEPT ![i] = Last(s)])

\* Sub-ids nobody uses yet: a fresh submission id or Uuid::new_v4.
Unused == {t \in Turns : pc[t] = "none" /\ \A d \in Procs : starting[d] # t}

\* Session::has_pending_input.
HasPendingInput ==
    IF active = NoTurn THEN mailbox # <<>>
    ELSE LET ts == turnState[active.state]
         IN  ts.pending # <<>> \/ (ts.phase = "CurrentTurn" /\ mailbox # <<>>)

\* Option::get_or_insert_with(ActiveTurn::default), and what it allocates.
GetOrInsert ==
    IF active = NoTurn
    THEN [state |-> Len(turnState) + 1, tasks |-> <<>>]
    ELSE active
FaultyAllocated == turnState   \* faulty: forgets the new TurnState
Allocated ==
    IF active = NoTurn THEN Append(turnState, Default) ELSE turnState

\* Where control goes when a process has nothing more to do: the loop and the
\* guardian wait for work, a task notifies `done` and ends.
Idle(d) == IF d \in Turns THEN "done" ELSE "idle"

Goto(d, step) == pc' = [pc EXCEPT ![d] = step]

-----------------------------------------------------------------------------
Init ==
    /\ active = NoTurn
    /\ turnState = <<>>
    /\ queued = <<>>
    /\ mailbox = <<>>
    /\ history = <<>>
    /\ marked = {}
    /\ emitted = [t \in Turns |-> {}]
    /\ kind = [t \in Turns |-> "Regular"]
    /\ input = [t \in Turns |-> <<>>]
    /\ cancelled = [t \in Turns |-> FALSE]
    /\ aborted = [t \in Turns |-> FALSE]
    /\ pc = [d \in Procs |-> IF d \in Turns THEN "none" ELSE "idle"]
    /\ starting = [d \in Procs |-> NoTurn]
    /\ hand = [d \in Procs |-> <<>>]
    /\ ref = [d \in Procs |-> 0]
    /\ victims = [d \in Procs |-> <<>>]
    /\ reason = [d \in Procs |-> "Replaced"]
    /\ unsent = Inputs
    /\ dropped = {}
    /\ open = TRUE

-----------------------------------------------------------------------------
(* Operations of the submission loop (session/handlers.rs) *)

LoopReady == pc[Loop] = "idle" /\ open

\* Session::steer_input under the active-turn lock: accepted only when the
\* first task of the active turn is a regular one.  Empty input, a missing or
\* different turn and a non-steerable task are refused with no effect.
Steered(p) ==
    /\ Tasks # <<>>
    /\ kind[Head(Tasks)] = "Regular"
    /\ turnState' = [turnState EXCEPT
                        ![active.state].pending = Append(@, p),
                        ![active.state].phase = "CurrentTurn"]
    /\ unsent' = unsent \ {p}

\* user_input_or_turn_inner, when steer_input accepts.
UserInputSteers(p) ==
    /\ LoopReady
    /\ p \in unsent \intersect Prompts
    /\ Steered(p)
    /\ UNCHANGED <<active, queued, mailbox, record, task, local, pc, dropped, open>>

\* Faulty: starts the task without aborting the running one.
FaultySpawnTask(t, k, in) ==
    /\ t \in Unused
    /\ kind' = [kind EXCEPT ![t] = k]
    /\ input' = [input EXCEPT ![t] = in]
    /\ starting' = [starting EXCEPT ![Loop] = t]
    /\ reason' = [reason EXCEPT ![Loop] = "Replaced"]
    /\ Goto(Loop, "queued")

\* spawn_task begins: abort everything as Replaced, then start turn t.
SpawnTask(t, k, in) ==
    /\ t \in Unused
    /\ kind' = [kind EXCEPT ![t] = k]
    /\ input' = [input EXCEPT ![t] = in]
    /\ starting' = [starting EXCEPT ![Loop] = t]
    /\ reason' = [reason EXCEPT ![Loop] = "Replaced"]
    /\ Goto(Loop, "take")

\* user_input_or_turn_inner, when steer_input answers NoActiveTurn.  The answer
\* may be stale by the time the tasks are aborted.
UserInputSpawns(p, t) ==
    /\ LoopReady
    /\ p \in unsent \intersect Prompts
    /\ Tasks = <<>>
    /\ SpawnTask(t, "Regular", <<p>>)
    /\ unsent' = unsent \ {p}
    /\ UNCHANGED <<session, record, cancelled, aborted, hand, ref, victims, dropped,
                   open>>

\* Op::Compact and Op::Review.
SpawnOther(t, k) ==
    /\ LoopReady
    /\ SpawnTask(t, k, <<>>)
    /\ UNCHANGED <<session, record, cancelled, aborted, hand, ref, victims, unsent,
                   dropped, open>>

\* Op::Interrupt, and the abort with which Op::Shutdown begins.
Interrupt(op) ==
    /\ LoopReady
    /\ open' = (op = "Interrupt")
    /\ reason' = [reason EXCEPT ![Loop] = "Interrupted"]
    /\ Goto(Loop, "take")
    /\ UNCHANGED <<session, record, task, starting, hand, ref, victims, unsent, dropped>>

\* Op::InterAgentCommunication.
InterAgentCommunication(m) ==
    /\ LoopReady
    /\ m \in unsent \intersect Mail
    /\ mailbox' = Append(mailbox, m)
    /\ unsent' = unsent \ {m}
    /\ Goto(Loop, IF m \in Trigger THEN "maybe" ELSE "idle")
    /\ UNCHANGED <<active, turnState, queued, record, task, local, dropped, open>>

\* Session::inject_response_items into whatever ActiveTurn there is, running
\* tasks or not.
Injected(i) ==
    /\ active # NoTurn
    /\ turnState' = [turnState EXCEPT ![active.state].pending = Append(@, i)]
    /\ unsent' = unsent \ {i}

\* Op::ApproveGuardianDeniedAction: inject, or queue for the next turn.
ApproveDenied(g) ==
    /\ LoopReady
    /\ g \in unsent \intersect Grants
    /\ \/ /\ Injected(g)
          /\ UNCHANGED <<hand, pc>>
       \/ /\ active = NoTurn
          /\ hand' = [hand EXCEPT ![Loop] = <<g>>]
          /\ unsent' = unsent \ {g}
          /\ Goto(Loop, "queue")
          /\ UNCHANGED turnState
    /\ UNCHANGED <<active, queued, mailbox, record, task, starting, ref, victims,
                   reason, dropped, open>>

\* Session::queue_response_items_for_next_turn.
QueueForNextTurn ==
    /\ pc[Loop] = "queue"
    /\ queued' = queued \o hand[Loop]
    /\ hand' = [hand EXCEPT ![Loop] = <<>>]
    /\ Goto(Loop, "idle")
    /\ UNCHANGED <<active, turnState, mailbox, record, task, starting, ref, victims,
                   reason, unsent, dropped, open>>

-----------------------------------------------------------------------------
(* Calls from other threads *)

\* turn/steer of the app server.
Steer(p) ==
    /\ p \in unsent \intersect Prompts
    /\ Steered(p)
    /\ UNCHANGED <<active, queued, mailbox, record, task, local, pc, dropped, open>>

\* inject_response_items by a background component (shell command output,
\* code-mode results, budget notices).  Without an ActiveTurn it is handed back.
Inject(n) ==
    /\ n \in unsent \intersect Notes
    /\ Injected(n)
    /\ UNCHANGED <<active, queued, mailbox, record, task, local, pc, dropped, open>>

\* Session::notify_approval for the request turn t waits on.
NotifyApproval(t) ==
    /\ active # NoTurn
    /\ t \in turnState[active.state].approvals
    /\ turnState' = [turnState EXCEPT ![active.state].approvals = @ \ {t}]
    /\ IF pc[t] = "approval" THEN Goto(t, "sample") ELSE UNCHANGED pc
    /\ UNCHANGED <<active, queued, mailbox, record, task, local, unsent, dropped, open>>

\* abort_turn_if_active, spawned by the guardian's rejection circuit breaker.
GuardianTake(d, t) ==
    /\ pc[d] = "idle"
    /\ Contains(Tasks, t)
    /\ victims' = [victims EXCEPT ![d] = active.tasks]
    /\ ref' = [ref EXCEPT ![d] = active.state]
    /\ reason' = [reason EXCEPT ![d] = "Interrupted"]
    /\ active' = NoTurn
    /\ Goto(d, "cancel")
    /\ UNCHANGED <<turnState, queued, mailbox, record, task, starting, hand, unsent,
                   dropped, open>>

-----------------------------------------------------------------------------
(* abort_all_tasks and handle_task_abort, run by process d *)

\* What follows an abort: start the replacing turn, wake for pending work after
\* an interrupt that aborted something, or nothing.
AfterAbort(d, drained) ==
    IF starting[d] # NoTurn THEN "queued"
    ELSE IF drained /\ reason[d] = "Interrupted" THEN "maybe"
    ELSE Idle(d)

\* Faulty: drops the pending approvals before the tasks are cancelled.
FaultyTakeActiveTurn ==
    /\ pc[Loop] = "take"
    /\ active' = NoTurn
    /\ IF Tasks = <<>>
       THEN /\ Goto(Loop, AfterAbort(Loop, FALSE))
            /\ UNCHANGED <<victims, ref, turnState>>
       ELSE /\ victims' = [victims EXCEPT ![Loop] = active.tasks]
            /\ ref' = [ref EXCEPT ![Loop] = active.state]
            /\ turnState' = [turnState EXCEPT ![active.state].approvals = {}]
            /\ Goto(Loop, "cancel")
    /\ UNCHANGED <<queued, mailbox, record, task, starting, hand, reason, unsent,
                   dropped, open>>

\* take_active_turn and drain_tasks.  An ActiveTurn without tasks is dropped.
TakeActiveTurn ==
    /\ pc[Loop] = "take"
    /\ active' = NoTurn
    /\ IF Tasks = <<>>
       THEN /\ Goto(Loop, AfterAbort(Loop, FALSE))
            /\ UNCHANGED <<victims, ref>>
       ELSE /\ victims' = [victims EXCEPT ![Loop] = active.tasks]
            /\ ref' = [ref EXCEPT ![Loop] = active.state]
            /\ Goto(Loop, "cancel")
    /\ UNCHANGED <<turnState, queued, mailbox, record, task, starting, hand, reason,
                   unsent, dropped, open>>

\* The next victim's token is cancelled; a victim cancelled before is skipped.
CancelTask(d) ==
    /\ pc[d] = "cancel"
    /\ LET v == Head(victims[d])
           rest == Tail(victims[d])
       IN  IF cancelled[v]
           THEN /\ victims' = [victims EXCEPT ![d] = rest]
                /\ Goto(d, IF rest = <<>> THEN "clear" ELSE "cancel")
                /\ UNCHANGED cancelled
           ELSE /\ cancelled' = [cancelled EXCEPT ![v] = TRUE]
                /\ Goto(d, "wait")
                /\ UNCHANGED victims
    /\ UNCHANGED <<session, record, kind, input, aborted, starting, hand, ref, reason,
                   unsent, dropped, open>>

\* Faulty: gives up after the grace period without aborting the handle.
FaultyStopTask(d) ==
    /\ pc[d] = "wait"
    /\ Goto(d, "mark")
    /\ UNCHANGED <<session, record, task, local, unsent, dropped, open>>

\* The grace period ends: `done` was notified or the 100 ms are over, and
\* abort() is called on the handle, which is not awaited.
StopTask(d) ==
    /\ pc[d] = "wait"
    /\ aborted' = [aborted EXCEPT ![Head(victims[d])] = TRUE]
    /\ Goto(d, "mark")
    /\ UNCHANGED <<session, record, kind, input, cancelled, local, unsent, dropped,
                   open>>

\* Faulty: a task that ended within the grace period gets no marker.
FaultyMarkInterrupted(d) ==
    /\ pc[d] = "mark"
    /\ marked' = IF reason[d] = "Interrupted" /\ pc[Head(victims[d])] # "done"
                 THEN marked \union {Head(victims[d])} ELSE marked
    /\ Goto(d, "report")
    /\ UNCHANGED <<session, history, emitted, task, local, unsent, dropped, open>>

\* interrupted_turn_history_marker, recorded, persisted and flushed.
MarkInterrupted(d) ==
    /\ pc[d] = "mark"
    /\ marked' = IF reason[d] = "Interrupted"
                 THEN marked \union {Head(victims[d])} ELSE marked
    /\ Goto(d, "report")
    /\ UNCHANGED <<session, history, emitted, task, local, unsent, dropped, open>>

\* EventMsg::TurnAborted; on to the next victim or to the clean-up.
ReportAborted(d) ==
    /\ pc[d] = "report"
    /\ LET rest == Tail(victims[d])
       IN  /\ emitted' = [emitted EXCEPT ![Head(victims[d])] = @ \union {reason[d]}]
           /\ victims' = [victims EXCEPT ![d] = rest]
           /\ Goto(d, IF rest = <<>> THEN "clear" ELSE "cancel")
    /\ UNCHANGED <<session, history, marked, task, starting, hand, ref, reason, unsent,
                   dropped, open>>

\* ActiveTurn::clear_pending drops approvals and pending input.
ClearPending(d) ==
    /\ pc[d] = "clear"
    /\ dropped' = dropped \union Range(turnState[ref[d]].pending)
    /\ turnState' = [turnState EXCEPT ![ref[d]].pending = <<>>,
                                      ![ref[d]].approvals = {}]
    /\ ref' = [ref EXCEPT ![d] = 0]
    /\ Goto(d, AfterAbort(d, TRUE))
    /\ UNCHANGED <<active, queued, mailbox, record, task, starting, hand, victims,
                   reason, unsent, open>>

-----------------------------------------------------------------------------
(* maybe_start_turn_for_pending_work and start_task, run by process d *)

\* Queued next-turn items or trigger_turn mail wake an idle session.
CheckPendingWork(d) ==
    /\ pc[d] = "maybe"
    /\ Goto(d, IF queued # <<>> \/ Range(mailbox) \intersect Trigger # {}
               THEN "reserve" ELSE Idle(d))
    /\ UNCHANGED <<session, record, task, local, unsent, dropped, open>>

\* Reserve the idle session with an ActiveTurn that has no tasks yet.
ReserveTurn(d, t) ==
    /\ pc[d] = "reserve"
    /\ active = NoTurn
    /\ t \in Unused
    /\ active' = GetOrInsert
    /\ turnState' = Allocated
    /\ starting' = [starting EXCEPT ![d] = t]
    /\ Goto(d, "queued")
    /\ UNCHANGED <<queued, mailbox, record, task, hand, ref, victims, reason, unsent,
                   dropped, open>>

SkipReserved(d) ==
    /\ pc[d] = "reserve"
    /\ active # NoTurn
    /\ Goto(d, Idle(d))
    /\ UNCHANGED <<session, record, task, local, unsent, dropped, open>>

\* take_queued_response_items_for_next_turn.
TakeQueued(d) ==
    /\ pc[d] = "queued"
    /\ hand' = [hand EXCEPT ![d] = queued]
    /\ queued' = <<>>
    /\ Goto(d, "pending")
    /\ UNCHANGED <<active, turnState, mailbox, record, task, starting, ref, victims,
                   reason, unsent, dropped, open>>

\* Faulty: copies the pending input instead of taking it.
FaultyTakePending(d, from, mail, next) ==
    /\ pc[d] = from
    /\ hand' = IF active = NoTurn THEN hand
               ELSE [hand EXCEPT ![d] = @ \o turnState[active.state].pending]
    /\ Goto(d, mail)
    /\ UNCHANGED <<session, record, task, starting, ref, victims, reason, unsent,
                   dropped, open>>

\* get_pending_input, first lock: the pending input of whichever turn is
\* active; the mailbox is visited only while that turn accepts deliveries.
TakePending(d, from, mail, next) ==
    /\ pc[d] = from
    /\ IF active = NoTurn
       THEN Goto(d, mail) /\ UNCHANGED <<hand, turnState>>
       ELSE LET ts == turnState[active.state]
            IN  /\ hand' = [hand EXCEPT ![d] = @ \o ts.pending]
                /\ turnState' = [turnState EXCEPT ![active.state].pending = <<>>]
                /\ Goto(d, IF ts.phase = "CurrentTurn" THEN mail ELSE next)
    /\ UNCHANGED <<active, queued, mailbox, record, task, starting, ref, victims,
                   reason, unsent, dropped, open>>

\* get_pending_input, second lock: drain the mailbox.
DrainMailbox(d, from, next) ==
    /\ pc[d] = from
    /\ hand' = [hand EXCEPT ![d] = @ \o mailbox]
    /\ mailbox' = <<>>
    /\ Goto(d, next)
    /\ UNCHANGED <<active, turnState, queued, record, task, starting, ref, victims,
                   reason, unsent, dropped, open>>

StartTakesPending(d) == TakePending(d, "pending", "mailbox", "attach")
StartDrainsMailbox(d) == DrainMailbox(d, "mailbox", "attach")

\* First lock of active_turn in start_task: find or create the ActiveTurn.
AttachTurnState(d) ==
    /\ pc[d] = "attach"
    /\ active' = GetOrInsert
    /\ turnState' = Allocated
    /\ ref' = [ref EXCEPT ![d] = GetOrInsert.state]
    /\ Goto(d, "push")
    /\ UNCHANGED <<queued, mailbox, record, task, starting, hand, victims, reason,
                   unsent, dropped, open>>

\* The items taken become pending input of the turn state found above.
PushPending(d) ==
    /\ pc[d] = "push"
    /\ turnState' = [turnState EXCEPT ![ref[d]].pending = @ \o hand[d]]
    /\ hand' = [hand EXCEPT ![d] = <<>>]
    /\ ref' = [ref EXCEPT ![d] = 0]
    /\ Goto(d, "spawn")
    /\ UNCHANGED <<active, queued, mailbox, record, task, starting, victims, reason,
                   unsent, dropped, open>>

\* Second lock: find or create the ActiveTurn again, spawn and add_task.
SpawnAndAdd(d) ==
    /\ pc[d] = "spawn"
    /\ active' = [GetOrInsert EXCEPT !.tasks = Append(@, starting[d])]
    /\ turnState' = Allocated
    /\ pc' = [pc EXCEPT ![starting[d]] = "start", ![d] = Idle(d)]
    /\ starting' = [starting EXCEPT ![d] = NoTurn]
    /\ UNCHANGED <<queued, mailbox, record, task, hand, ref, victims, reason, unsent,
                   dropped, open>>

-----------------------------------------------------------------------------
(* The spawned task of turn t: RegularTask::run and run_turn *)

\* EventMsg::TurnStarted, which a review does not send.  A regular task whose
\* startup prewarm reports the cancellation returns at once.
BeginTask(t) ==
    /\ pc[t] = "start"
    /\ emitted' = IF kind[t] = "Review" THEN emitted
                  ELSE [emitted EXCEPT ![t] = @ \union {"Started"}]
    /\ \/ Goto(t, IF kind[t] = "Regular" THEN "enter" ELSE "work")
       \/ cancelled[t] /\ kind[t] = "Regular" /\ Goto(t, "flush")
    /\ UNCHANGED <<session, history, marked, task, local, unsent, dropped, open>>

\* The body of a compact or review task.
OtherWork(t) ==
    /\ pc[t] = "work"
    /\ Goto(t, "flush")
    /\ UNCHANGED <<session, record, task, local, unsent, dropped, open>>

\* run_turn with neither input nor pending input returns; with input it records
\* the prompt and samples before draining; without it drains first.
EnterTurn(t) ==
    /\ pc[t] = "enter"
    /\ history' = history \o input[t]
    /\ input' = [input EXCEPT ![t] = <<>>]
    /\ Goto(t, IF input[t] # <<>> THEN "sample"
               ELSE IF HasPendingInput THEN "drain" ELSE "check")
    /\ UNCHANGED <<session, marked, emitted, kind, cancelled, aborted, local, unsent,
                   dropped, open>>

\* run_turn returns before sampling: pre-sampling compaction failed or a hook
\* stopped the turn.  The prompt it was given is not recorded.
EnterFails(t) ==
    /\ pc[t] = "enter"
    /\ input[t] # <<>> \/ HasPendingInput
    /\ dropped' = dropped \union Range(input[t])
    /\ input' = [input EXCEPT ![t] = <<>>]
    /\ Goto(t, "check")
    /\ UNCHANGED <<session, record, kind, cancelled, aborted, local, unsent, open>>

TurnTakesPending(t) == TakePending(t, "drain", "mail", "inspect")
TurnDrainsMailbox(t) == DrainMailbox(t, "mail", "inspect")

\* Every drained item passes the user-prompt hook and is recorded.
AcceptPending(t) ==
    /\ pc[t] = "inspect"
    /\ history' = history \o hand[t]
    /\ hand' = [hand EXCEPT ![t] = <<>>]
    /\ Goto(t, "sample")
    /\ UNCHANGED <<session, marked, emitted, task, starting, ref, victims, reason,
                   unsent, dropped, open>>

\* The hook blocks item i: the items before it are recorded, the ones after it
\* go back to the front of the active turn's pending input, if there is one.
BlockPending(t, i) ==
    LET before == SubSeq(hand[t], 1, i - 1)
        after  == SubSeq(hand[t], i + 1, Len(hand[t]))
    IN  /\ pc[t] = "inspect"
        /\ i \in DOMAIN hand[t]
        /\ history' = history \o before
        /\ hand' = [hand EXCEPT ![t] = <<>>]
        /\ IF active = NoTurn
           THEN /\ dropped' = dropped \union {hand[t][i]} \union Range(after)
                /\ UNCHANGED turnState
           ELSE /\ dropped' = dropped \union {hand[t][i]}
                /\ turnState' = [turnState EXCEPT
                                    ![active.state].pending = after \o @]
        /\ Goto(t, IF before # <<>> THEN "sample"
                   ELSE IF after # <<>> THEN "drain" ELSE "check")
        /\ UNCHANGED <<active, queued, mailbox, marked, emitted, task, starting, ref,
                       victims, reason, unsent, open>>

\* Visible final text: defer_mailbox_delivery_to_next_turn, unless input is
\* already pending.
DeferMailbox(t) ==
    /\ pc[t] = "sample"
    /\ Contains(Tasks, t)
    /\ turnState[active.state].pending = <<>>
    /\ turnState' = [turnState EXCEPT ![active.state].phase = "NextTurn"]
    /\ UNCHANGED <<active, queued, mailbox, record, task, local, pc, unsent, dropped,
                   open>>

\* A tool call after visible text reopens delivery to this turn.
AcceptMailbox(t) ==
    /\ pc[t] = "sample"
    /\ Contains(Tasks, t)
    /\ turnState' = [turnState EXCEPT ![active.state].phase = "CurrentTurn"]
    /\ UNCHANGED <<active, queued, mailbox, record, task, local, pc, unsent, dropped,
                   open>>

\* request_command_approval: the sender goes into the active turn's state.  With
\* no active turn it is dropped and the request answered Abort at once.
RequestApproval(t) ==
    /\ pc[t] = "sample"
    /\ active # NoTurn
    /\ turnState' = [turnState EXCEPT ![active.state].approvals = @ \union {t}]
    /\ Goto(t, "approval")
    /\ UNCHANGED <<active, queued, mailbox, record, task, local, unsent, dropped, open>>

\* TurnStates something still holds; the senders of any other are dropped.
Held == {i \in DOMAIN turnState :
            \/ active # NoTurn /\ active.state = i
            \/ \E d \in Procs : ref[d] = i}

SenderAlive(t) == \E i \in Held : t \in turnState[i].approvals

\* The wait ends: by cancellation of the sampling future, or with Abort because
\* the sender is gone.
ApprovalEnds(t) ==
    /\ pc[t] = "approval"
    /\ \/ cancelled[t] /\ Goto(t, "check")
       \/ ~SenderAlive(t) /\ Goto(t, "sample")
    /\ UNCHANGED <<session, record, task, local, unsent, dropped, open>>

\* The model wants a follow-up (tool results, possibly after a mid-turn
\* compaction) or a stop hook continues the turn.
SampleFollowsUp(t) ==
    /\ pc[t] = "sample"
    /\ Goto(t, "drain")
    /\ UNCHANGED <<session, record, task, local, unsent, dropped, open>>

\* The model is done: the turn continues only if input is pending.
SampleCompletes(t) ==
    /\ pc[t] = "sample"
    /\ Goto(t, IF HasPendingInput THEN "drain" ELSE "check")
    /\ UNCHANGED <<session, record, task, local, unsent, dropped, open>>

\* The request failed, was cancelled, or mid-turn compaction failed.
SampleFails(t) ==
    /\ pc[t] = "sample"
    /\ Goto(t, "check")
    /\ UNCHANGED <<session, record, task, local, unsent, dropped, open>>

\* RegularTask::run goes round again while input is pending.
CheckAgain(t) ==
    /\ pc[t] = "check"
    /\ Goto(t, IF HasPendingInput THEN "enter" ELSE "flush")
    /\ UNCHANGED <<session, record, task, local, unsent, dropped, open>>

\* flush_rollout, then on_task_finished unless the token is cancelled.  Input a
\* prewarm cancellation left unused goes with the task.
FlushRollout(t) ==
    /\ pc[t] = "flush"
    /\ Goto(t, IF cancelled[t] THEN "done" ELSE "finish")
    /\ dropped' = dropped \union Range(input[t])
    /\ input' = [input EXCEPT ![t] = <<>>]
    /\ UNCHANGED <<session, record, kind, cancelled, aborted, local, unsent, open>>

-----------------------------------------------------------------------------
(* on_task_finished, run by the task of turn t *)

\* remove_task says whether no task is left in whichever turn is active; it does
\* not say whether t was one of them.
RemoveTask(t) ==
    /\ pc[t] = "finish"
    /\ LET rest == SwapRemove(Tasks, t)
       IN  /\ active' = IF active = NoTurn THEN NoTurn
                        ELSE [active EXCEPT !.tasks = rest]
           /\ IF active # NoTurn /\ rest = <<>>
              THEN /\ ref' = [ref EXCEPT ![t] = active.state]
                   /\ Goto(t, "collect")
              ELSE /\ Goto(t, "complete")
                   /\ UNCHANGED ref
    /\ UNCHANGED <<turnState, queued, mailbox, record, task, starting, hand, victims,
                   reason, unsent, dropped, open>>

\* Faulty: ignores input that arrived after the last check.
FaultyCollectPending(t) ==
    /\ pc[t] = "collect"
    /\ Goto(t, "complete")
    /\ UNCHANGED <<session, record, task, local, unsent, dropped, open>>

\* Input that arrived after the last check is taken from that turn state.
CollectPending(t) ==
    /\ pc[t] = "collect"
    /\ hand' = [hand EXCEPT ![t] = turnState[ref[t]].pending]
    /\ turnState' = [turnState EXCEPT ![ref[t]].pending = <<>>]
    /\ Goto(t, "complete")
    /\ UNCHANGED <<active, queued, mailbox, record, task, starting, ref, victims,
                   reason, unsent, dropped, open>>

\* The hook lets the next of them into the history or blocks it.
RecordLate(t) ==
    /\ pc[t] = "complete"
    /\ hand[t] # <<>>
    /\ \/ history' = Append(history, Head(hand[t])) /\ UNCHANGED dropped
       \/ dropped' = dropped \union {Head(hand[t])} /\ UNCHANGED history
    /\ hand' = [hand EXCEPT ![t] = Tail(@)]
    /\ UNCHANGED <<session, marked, emitted, task, starting, ref, victims, reason, pc,
                   unsent, open>>

\* EventMsg::TurnComplete.
ReportComplete(t) ==
    /\ pc[t] = "complete"
    /\ hand[t] = <<>>
    /\ emitted' = [emitted EXCEPT ![t] = @ \union {"Complete"}]
    /\ Goto(t, IF ref[t] = 0 THEN "done" ELSE "release")
    /\ UNCHANGED <<session, history, marked, task, local, unsent, dropped, open>>

\* Faulty: clears the turn and does not look for pending work.
FaultyReleaseTurn(t) ==
    /\ pc[t] = "release"
    /\ ref' = [ref EXCEPT ![t] = 0]
    /\ active' = IF active # NoTurn /\ Tasks = <<>> /\ active.state = ref[t]
                 THEN NoTurn ELSE active
    /\ Goto(t, "done")
    /\ UNCHANGED <<turnState, queued, mailbox, record, task, starting, hand, victims,
                   reason, unsent, dropped, open>>

\* The active turn is cleared only if it is still the one emptied above; then
\* MaybeContinueIfIdle looks for pending work.
ReleaseTurn(t) ==
    /\ pc[t] = "release"
    /\ ref' = [ref EXCEPT ![t] = 0]
    /\ IF active # NoTurn /\ Tasks = <<>> /\ active.state = ref[t]
       THEN active' = NoTurn /\ Goto(t, "maybe")
       ELSE Goto(t, "done") /\ UNCHANGED active
    /\ UNCHANGED <<turnState, queued, mailbox, record, task, starting, hand, victims,
                   reason, unsent, dropped, open>>

-----------------------------------------------------------------------------
(* The runtime *)

\* A task whose handle was aborted is dropped when its poll ends, with what it
\* holds.
DropTask(t) ==
    /\ aborted[t]
    /\ pc[t] \notin {"done", "dead"}
    /\ Goto(t, "dead")
    /\ dropped' = dropped \union Range(hand[t]) \union Range(input[t])
    /\ hand' = [hand EXCEPT ![t] = <<>>]
    /\ input' = [input EXCEPT ![t] = <<>>]
    /\ ref' = [ref EXCEPT ![t] = 0]
    /\ starting' = [starting EXCEPT ![t] = NoTurn]
    /\ UNCHANGED <<session, record, kind, cancelled, aborted, victims, reason, unsent,
                   open>>

-----------------------------------------------------------------------------
LoopStep ==
    \/ \E p \in Prompts : UserInputSteers(p)
    \/ \E p \in Prompts, t \in Turns : UserInputSpawns(p, t)
    \/ \E t \in Turns, k \in OtherKinds : SpawnOther(t, k)
    \/ \E op \in Stops : Interrupt(op)
    \/ \E m \in Mail : InterAgentCommunication(m)
    \/ \E g \in Grants : ApproveDenied(g)

ClientStep ==
    \/ \E p \in Prompts : Steer(p)
    \/ \E n \in Notes : Inject(n)
    \/ \E t \in Turns : NotifyApproval(t)
    \/ \E d \in Guardians, t \in Turns : GuardianTake(d, t)

AbortStep(d) ==
    \/ CancelTask(d)
    \/ StopTask(d)
    \/ MarkInterrupted(d)
    \/ ReportAborted(d)
    \/ ClearPending(d)

StartStep(d) ==
    \/ CheckPendingWork(d)
    \/ \E t \in Turns : ReserveTurn(d, t)
    \/ SkipReserved(d)
    \/ TakeQueued(d)
    \/ StartTakesPending(d)
    \/ StartDrainsMailbox(d)
    \/ AttachTurnState(d)
    \/ PushPending(d)
    \/ SpawnAndAdd(d)

\* What the loop and the guardian do once an operation is under way.
DriverStep(d) ==
    \/ d = Loop /\ QueueForNextTurn
    \/ d = Loop /\ TakeActiveTurn
    \/ AbortStep(d)
    \/ StartStep(d)

SampleStep(t) ==
    \/ DeferMailbox(t)
    \/ AcceptMailbox(t)
    \/ RequestApproval(t)
    \/ ApprovalEnds(t)

TaskStep(t) ==
    \/ BeginTask(t)
    \/ OtherWork(t)
    \/ EnterTurn(t)
    \/ EnterFails(t)
    \/ TurnTakesPending(t)
    \/ TurnDrainsMailbox(t)
    \/ AcceptPending(t)
    \/ \E i \in DOMAIN hand[t] : BlockPending(t, i)
    \/ SampleStep(t)
    \/ SampleFollowsUp(t)
    \/ SampleCompletes(t)
    \/ SampleFails(t)
    \/ CheckAgain(t)
    \/ FlushRollout(t)
    \/ RemoveTask(t)
    \/ CollectPending(t)
    \/ RecordLate(t)
    \/ ReportComplete(t)
    \/ ReleaseTurn(t)
    \/ StartStep(t)

\* The session waits for its next operation: everything started is over, or
\* waits for a sub-id this instance does not have.
Quiescent ==
    /\ \A d \in Procs : \/ pc[d] \in {"idle", "none", "done", "dead"}
                        \/ pc[d] = "reserve" /\ Unused = {}
    /\ UNCHANGED vars

Next ==
    \/ LoopStep
    \/ ClientStep
    \/ \E d \in Procs \ Turns : DriverStep(d)
    \/ \E t \in Turns : TaskStep(t) \/ DropTask(t)
    \/ Quiescent

Spec == Init /\ [][Next]_vars

\* What the runtime and the outside world are assumed to do eventually: every
\* process runs, a poll ends, clients answer approvals, the model stops asking for
\* follow-ups, and what fails before sampling does not fail for ever.
Fairness ==
    /\ \A d \in Procs \ Turns : WF_vars(DriverStep(d))
    /\ \A t \in Turns :
        /\ WF_vars(TaskStep(t) /\ (pc'[t] # pc[t] \/ hand'[t] # hand[t]))
        /\ WF_vars(DropTask(t))
        /\ WF_vars(NotifyApproval(t))
        /\ SF_vars(SampleCompletes(t) \/ SampleFails(t))
        /\ SF_vars(EnterTurn(t))

FairSpec == Spec /\ Fairness

-----------------------------------------------------------------------------
(* Properties *)

Steps == {"idle", "queue", "none", "done", "dead"} \union AbortSteps \union StartSteps
         \union WakeSteps \union RunSteps \union EndSteps

\* Type invariant: every variable has the shape of the Rust type it models, and
\* every Arc of a TurnState that is held refers to an allocated one.
TypeOK ==
    /\ turnState \in Seq(TurnStates)
    /\ active \in {NoTurn} \union [state : DOMAIN turnState, tasks : Seq(Turns)]
    /\ queued \in Seq(Inputs)
    /\ mailbox \in Seq(Mail)
    /\ history \in Seq(Inputs)
    /\ marked \in SUBSET Turns
    /\ emitted \in [Turns -> SUBSET Events]
    /\ kind \in [Turns -> Kinds]
    /\ input \in [Turns -> Seq(Inputs)]
    /\ cancelled \in [Turns -> BOOLEAN]
    /\ aborted \in [Turns -> BOOLEAN]
    /\ pc \in [Procs -> Steps]
    /\ starting \in [Procs -> Turns \union {NoTurn}]
    /\ hand \in [Procs -> Seq(Inputs)]
    /\ ref \in [Procs -> {0} \union DOMAIN turnState]
    /\ victims \in [Procs -> Seq(Turns)]
    /\ reason \in [Procs -> Reasons]
    /\ unsent \in SUBSET Inputs
    /\ dropped \in SUBSET Inputs
    /\ open \in BOOLEAN

\* "Session has at most one Task running at a time" (docs/protocol_v1.md), the
\* debug_assert of start_task: a task is only ever added to an empty turn.
OneTask == Len(Tasks) <= 1

\* The same sentence of all tasks, in the active turn or taken out of it by an
\* abort: a second one starts only when the first has been told to stop and its
\* handle aborted.  (An aborted task whose last poll is not over may run beside it.)
OneLive ==
    \A t, u \in Turns :
        {pc[t], pc[u]} \subseteq RunSteps /\ ~aborted[t] /\ ~aborted[u] => t = u

\* Input accepted from anyone is recorded, still on its way in a structure that
\* something holds, or was discarded on purpose by an abort or a hook: it never
\* disappears because the turn it was given to finished, was replaced or reused.
NothingVanishes ==
    \A i \in Inputs :
        \/ i \in unsent \union dropped
        \/ i \in Range(history) \union Range(queued) \union Range(mailbox)
        \/ \E d \in Procs : i \in Range(hand[d])
        \/ \E t \in Turns : i \in Range(input[t])
        \/ \E s \in Held : i \in Range(turnState[s].pending)

\* The places an input can be in, and the items at a place.
Places == ({"session"} \X {"history", "queued", "mailbox"})
          \union ({"hand"} \X Procs) \union ({"input"} \X Turns)
          \union ({"pending"} \X DOMAIN turnState)
ItemsAt(p) ==
    CASE p[1] = "hand" -> hand[p[2]]
      [] p[1] = "input" -> input[p[2]]
      [] p[1] = "pending" -> turnState[p[2]].pending
      [] p = <<"session", "history">> -> history
      [] p = <<"session", "queued">> -> queued
      [] p = <<"session", "mailbox">> -> mailbox

\* No input is recorded twice or is on its way twice, whoever takes and requeues
\* it: each occurrence anywhere is the only one.
NoDuplicate ==
    \A p, q \in Places : \A j \in DOMAIN ItemsAt(p), k \in DOMAIN ItemsAt(q) :
        ItemsAt(p)[j] = ItemsAt(q)[k] => p = q /\ j = k

\* An approval wait never sees its sender dropped before its task is cancelled:
\* clear_pending comes after the grace period, not before.
RejectionAfterCancel ==
    \A t \in Turns : pc[t] = "approval" /\ ~SenderAlive(t) => cancelled[t]

Aborted(t) == emitted[t] \intersect Reasons # {}

\* What a client can rely on: from TurnAborted on the task is cancelled, its handle
\* is aborted, it is out of the session for good, so that no input is steered into
\* it, and the marker a re-read of the rollout must show is recorded if it was
\* interrupted.
AbortedIsDetached ==
    \A t \in Turns : Aborted(t) =>
        /\ cancelled[t] /\ aborted[t]
        /\ ~Contains(Tasks, t)
        /\ \A d \in Procs : starting[d] # t
        /\ "Interrupted" \in emitted[t] => t \in marked

\* "Starts a regular turn when the session is idle and pending work is waiting":
\* trigger_turn mail does not stay in the mailbox of an idle session; some turn
\* takes it, unless the session shuts down or a process that is about to start
\* that turn finds no sub-id left in this instance.
WakeupServed ==
    \A m \in Trigger :
        Contains(mailbox, m) ~>
            (~Contains(mailbox, m) \/ ~open \/ \E d \in Procs : pc[d] = "reserve" /\ Unused = {})

=============================================================================
