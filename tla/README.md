# TLA+ verification of the concurrent core of codex

This directory holds TLA+ modules for the concurrent core of the repository, the TLC
configurations that check them on small instances, and proofs that TLAPS checks for
every instance. `PROJECT.json` lists components, runs, mutants, the map from definitions
to source lines, findings, hazards and theorems. All source paths below are relative to
`src/codex-rs/`.

## 1. Inventory

The program is an agent: a *session* receives operations from a client, runs *turns*
(tasks that sample a model and call tools), and reports events. Tools run commands,
locally or through an *exec-server* reached over a websocket. A thread is kept in a rollout
file; memories are extracted from the threads by jobs that several processes share through
SQLite; remote clients reach an app-server through a websocket. Everything is asynchronous
Rust on tokio; state is shared under `tokio::sync::Mutex`es that are released between
steps.

| Component | State | Operations | Interacts with | What is hard | What makes it correct |
|---|---|---|---|---|---|
| Turn lifecycle (`core/src/tasks`, `state/turn.rs`) | `active_turn` (tasks, turn state with pending input, approvals, mailbox phase), idle queue, mailbox | start, replace, abort, finish a task; continue when idle | submission loop, tasks, guardian | several critical sections per operation, run by the loop, by every task and by guardians | one task per session that is not aborted; accepted input is neither lost nor duplicated; an aborted turn is detached and marked when it is reported; pending work wakes an idle session |
| Submission loop (`core/src/session/handlers.rs`, `session/mod.rs`) | operation queue | user input, interrupt, compact, review, inter-agent mail, approvals, shutdown | turn lifecycle, clients | steering and injection bypass the loop | as above |
| Process output of the exec-server (`exec-server/src/local_process.rs`) | per process: sequence counter, retained chunks, open streams, exit, closed | start, stream output, watch exit, emit closed, read, terminate, evict | client over notifications and `process/read` | three tasks per process | events numbered without gaps, Closed last |
| Exec-server client (`exec-server/src/client.rs`) | routes by process id, ordered-event buffer, failure | receive notifications, publish, read, fail | MCP transport and unified exec | notifications out of order, lost transport | consumers see a prefix of the server's stream, then Closed or one Failed |
| Unified exec polling (`core/src/unified_exec/process.rs`) | cursor, process state | wake, read, stop | exec-server client | wake-ups between read and wait | skips nothing that is retained; stops after Closed |
| Exec-server sessions (`exec-server/src/server`) | registry, attachment and deadline, sender, process map | attach, resume, expire, detach, shutdown | connections, timers, processes | timers of earlier detachments, futures dropped with their connection | an attached session is safe, a detached one is kept for the TTL, children never outlive their session |
| Rollout recorder (`rollout/src/recorder.rs`) | command channel, pending items, file, deferred file, meta | add, persist, flush, shutdown, retry, resume, append | session, thread store | partial and failed writes, kills | each item once and in order in the file; what was acknowledged stays in it |
| Memory jobs (`state/src/runtime/memories.rs`, `memories/write`) | SQLite rows with status, lease, token, watermarks; the memory directory and its baseline | scan, claim, heartbeat, succeed, fail, prune, pollute, clear | several processes on one database and one directory | take-over of stale leases, late results | one owner; a late owner changes nothing; the running limit and the retry budget are kept; the baseline holds only what was consolidated |
| Remote control (`app-server/src/transport/remote_control`) | sequence ids, bounded unacknowledged buffer, client tracker | initialize, ping, close, send, acknowledge, reconnect, replay | app-server transport, backend | loss and replay, full buffer, tasks that end late | every stream complete and in order; no stall; no connection left behind |
| App-server requests (`app-server/src/outgoing_message.rs`) | request callbacks by id | send, answer, cancel, replay | turn approvals | answers after cancellation | each request resolved at most once, none leaked |
| Agent backend (`agent-backend`, `jsonrpc-framing`) | pending requests, child | request, notify, shut down | desktop UI | reader ends with requests pending | every pending request is answered or failed |
| Agent registry, unified-exec store, readiness flag, network approval | small lock-protected maps | reserve, release, prune, subscribe | sessions | limits | never above the limit, no lost release |
| Context manager, apply-patch, exec policy, sandboxes, login, TUI, drift log | sequential or I/O | | | | see `PROJECT.json` for why they are left out |

## 2. Modules

### TurnLifecycle

Processes: the submission loop, every started turn, and guardians. `pc[d]` says which
critical section process `d` reaches next; each action is one critical section (one lock
of `active_turn`, of a turn state, of the mailbox or of the idle queue), and processes
interleave between them. `active` is `Session::active_turn`; `turnState` keeps every
allocated `TurnState` so that `ref[d]` can be an `Arc` to one that is no longer active;
`hand[d]` are items taken from one queue and not yet put in another.

| Code | Actions |
|---|---|
| `user_input_or_turn_inner`, `compact`, review, `interrupt`, `shutdown`, mail, approved denials | `UserInputSteers`, `UserInputSpawns`, `SpawnOther`, `Interrupt`, `InterAgentCommunication`, `ApproveDenied`, `QueueForNextTurn` |
| `steer_input`, `inject_response_items`, `notify_approval` | `Steer`, `Inject`, `NotifyApproval` |
| `abort_all_tasks`, `abort_turn_if_active`, `handle_task_abort` | `TakeActiveTurn`, `GuardianTake`, `CancelTask`, `StopTask`, `MarkInterrupted`, `ReportAborted`, `ClearPending` |
| `start_task` | `TakeQueued`, `StartTakesPending`, `StartDrainsMailbox`, `AttachTurnState`, `PushPending`, `SpawnAndAdd` |
| the runtime | `DropTask` |
| `RegularTask::run`, `run_turn` | `BeginTask`, `EnterTurn`, `EnterFails`, `TurnTakesPending`, `TurnDrainsMailbox`, `AcceptPending`, `BlockPending`, the sampling steps, `CheckAgain` |
| `on_task_finished` | `FlushRollout`, `RemoveTask`, `CollectPending`, `RecordLate`, `ReportComplete`, `ReleaseTurn` |
| `maybe_start_turn_for_pending_work` | `CheckPendingWork`, `ReserveTurn`, `SkipReserved` |

`handle.abort()` only asks the runtime to drop the task, and nobody joins it
(`tasks/mod.rs:768`): `StopTask` sets `aborted[t]` and goes on to the marker, while the
task takes any number of its own steps until `DropTask` takes it. A poll that ends at the
next `.await` may cross several critical sections when their locks are free, so how many
it still spans is left open. (`handle_task_abort` skips a victim that is cancelled already,
and dropping its handle aborts it too; no abort meets one, since each takes its victims
out of the session first.) What a dropped task has in hand goes with it and counts as
dropped by the abort; it may by then have taken input of the turn that follows it.

Abstractions: an input is a model value; a sampling request completes, asks for a
follow-up or fails (mid-turn compaction and stop hooks are among the follow-ups and
failures); a task is dropped between two critical sections, since one that is dropped at
an await inside a critical section has changed nothing in it yet; `HasPendingInput` and `CheckPendingWork` read the two locks they take as one;
`Feature::Goals` is off, its default (`features/src/lib.rs:950`); an interrupted marker
counts as recorded even if its flush fails, since the code goes on.

### EventStream and ProcessEvents

`EventStream` is what a subscriber of a process is promised: an ordered stream that is a
prefix of what the process produced and that ends with Closed. `ProcessEvents` is the
implementation: two stream tasks and the exit watcher number events under the process
lock and send them after releasing it, the connection may be lost, the client's reader
task re-orders (`Receive`, `PublishReady`), a failed read or the disconnect records a
failure, and a polling consumer, unified exec's loop, wakes and reads with a cursor. The
refinement maps `produced` to the server's log and `seen` to the published events
without the one Failed (`WithoutFailed`).

A `Reply` moves the cursor as `exec_read` does (`NextSeq`): past its last chunk, or, when it
has none, past the last number given out, so that an exit or the close behind the last
chunk is read again by the next, empty reply.

Abstractions: a chunk is one byte, so `Retained` bounds chunks; retention of a closed
process may end at any time; `exec_read` is called without a wait and without a byte
limit, as unified exec calls it; a sequence number identifies its event, so
`or_insert` on the pending map is a union; a subscriber drop unregisters the route.
Not modelled: malformed notifications, HTTP body streams, the bounds of the broadcast
and replay buffers, a second connection (`ExecSessions` has resumption). The client's
disconnect latch is set only once the connection is down and refuses what the RPC client
refuses anyway, and the server's sender is of no use on a connection that is down; `up`
stands for both. `Consumers` says who uses the process: unified exec, which polls, or
the MCP transport, which only subscribes.

### ExecSessions

Connections, their handlers and the session registry. A connection is `open`, inside a
request (`spawning`, `expired`), or ending (`closing`, `clear`, `gone`). `attachment[s]`
is `AttachmentState` with what is left of the deadline instead of the deadline itself,
so that no clock bound is needed; `timers` are the sleeping `expire_if_detached` tasks;
`expiring` are sessions such a task has removed and is about to shut down. `entry` is
the process map and `child` the operating system's view of the same processes.
A connection's transport may be lost while a request is being handled: `run_connection`
then drops the request's future at its await (`RequestDropped`). A start leaves its id
reserved; a shutdown of an expired session does not happen, and the connection is `lost`
with the session it was to shut down. A child that has been spawned but not entered is
killed when its handle is dropped. Requests that fail without changing anything are not
steps.

| Code | Actions |
|---|---|
| `SessionRegistry::attach`, `ExecServerHandler::initialize`, `initialized` | `AttachNew`, `Resume`, `ResumeExpired`, `ShutdownExpired`, `Initialized` |
| `run_connection`, `SessionHandle::detach` | `Disconnect`, `RequestDropped`, `Detach`, `ClearSender` |
| `expire_if_detached` | `TimerFires`, `ShutdownSession` |
| `start_process`, `terminate_process`, `maybe_emit_closed` | `StartProcess`, `Spawned`, `SpawnFails`, `TerminateProcess`, `Closes`, `Cleanup` |

### RolloutWriter

One thread's file and its writer task. `queue` is the command channel, `state` is
`RolloutWriterState`, `task` the control of `rollout_writer` with the command it handles,
the attempt it is in and `written_count`. `file` is the sequence of lines that reached the
disk, each whole or cut; items are numbered in the order in which the channel takes them.
A step ends at the next write, so failures and kills fall between any two lines or inside
one.

| Code | Actions |
|---|---|
| `record_items`; `persist`, `flush`, `shutdown` | `RecordItems`; `Call` |
| `rollout_writer` | `Receive`, with `WritesFor` (does the command touch the file?) and `Answer` |
| `write_pending_with_recovery`, `enter_recovery_mode` | `EnsureWriterOpen`, `FlushFile`, `Fails` |
| `write_session_meta_if_needed`, `write_pending_items_once` | `WriteSessionMeta`, `WriteItem`, `ItemsWritten` |
| a killed process, `load_rollout_items`, `new` with `Resume` | `Killed`, `Resume` |
| `append_rollout_item_to_path` | `AppendToPath` |

Abstractions: a batch of items is one item (a larger batch behaves like several commands
without a barrier in between); data that the file accepted survives the process, so the
loss of a page cache with the machine is not modelled; the state database that mirrors
the file is left out.

### RemoteControl

`clients` is the tracker's map, `conn` every connection ever opened with its outbound task
(`run_client_outbound`), its cancellation token and whether the app-server was told that
it is closed. `channel` is `server_event_tx`; `next`, `buffer` and `changed` are the
sequence ids, `BoundedOutboundBuffer` and its usage watch; `writer` is the loop that
writes the websocket; `wire` and `got` are the connection and the backend.

| Code | Actions |
|---|---|
| `ClientTracker::handle_message`, `close_expired_clients` | `Initialize`, `Ping`, `CloseClient` |
| `bookkeep_join_set`, `shutdown` | `BookkeepJoinSet`, `Shutdown` |
| `run_client_outbound`, the pong to an unknown client | `TakeMessage`, `Forward`, `OutboundEnds`, `UnknownPong` |
| `run_server_writer_inner` | `Replay`, `ReplayDone`, `TakeEvent`, `Send`, `UsageChanged`, `PingInterval` |
| `connect`, `run_connection` | `Connect`, `ConnectionLost` |
| `run_websocket_reader_inner`: `Ack` | `Ack` |

The app-server (`AppSends`, `AppDisconnects`) and the backend (`Receive`, and which
acknowledgements it sends) are external. An initialize is one step although it awaits the
transport channel, because the reader holds the tracker for all of it. `changed` after
`Connect` follows the watch: the writer clones a receiver that has never been marked as
seen. Client messages and their sequence ids, legacy clients without a stream id,
enrolment and authentication are left out.

### MemoryJobs

Several `worker`s, one per process, run the pipeline against the rows of the job table
(`job`, one per thread, and `lock`, the single phase-2 row), the outputs and the memory
directory (`workspace`, and `baseline`, its last commit). A transaction is one step; what
a worker learned in an earlier transaction is in its record and may be out of date.
Leases, retry delays and the cooldown are counted down.

| Code | Actions |
|---|---|
| `claim_stage1_jobs_for_startup`, `try_claim_stage1_job` | `Scan`, `ClaimStage1` with `Claimable` |
| `mark_stage1_job_succeeded`, `..._no_output`, `..._failed` | `Stage1Succeeded`, `Stage1NoOutput`, `Stage1Failed` |
| `prune_stage1_outputs_for_retention`, `mark_thread_memory_mode_polluted`, `clear_memory_data` | `Prune`, `Pollute`, `ClearMemoryData` |
| `try_claim_global_phase2_job`; `phase2::run` to the agent | `ClaimPhase2`; `Prepare`, `LoadInputs`, `CompareWithBaseline` |
| `loop_agent`; `agent::handle` | `Heartbeat`, `AgentCompletes`; `ConfirmLock`, `RemoveBaseline`, `ResetBaseline`, `Phase2Succeeded`, `Phase2Failed` |

The baseline has two writers. `reset_memory_workspace_baseline` removes the repository and
makes a new one in separate steps (`git-utils/src/baseline.rs:94`), so that a worker which is
killed or fails in between leaves none (`usable`). `prepare_memory_workspace` keeps a
repository that can be read and otherwise commits the directory as it is
(`baseline.rs:78`, `Prepare`), whoever left it that way. `LoseRepository` is what else may
happen to the repository; from then on until an agent's work is committed, `damaged` holds.

Abstractions: the ownership token is the worker, since a worker has one job at a time and
takes a row that names it only with a new claim; a worker that waits for a model (`sampling`,
`agent`) may sleep past its lease, and its other steps take less than a lease; the
selection of inputs may leave out any output (age and rank are not modelled); the inputs
are put into the directory in one step, and the commit and its index are written in one
(without the index the repository can still be read); the agent's
own files make the directory differ from its baseline, so an agent may run on unchanged
inputs. `mark_global_phase2_job_failed_if_unowned` finds no unowned running row, since
every claim writes a token. The watermarks and the retry count of the phase-2 row are
written and never compared.

## 3. Runs

Passing runs:

| Run | Instance | Shows |
|---|---|---|
| `turn_loop` | three turns, a prompt, compaction, interrupts | `TypeOK`; `OneTask`; `OneLive`: a second task only starts once the first has been told to stop and aborted; `RejectionAfterCancel` |
| `turn_abort` | two turns, two prompts, compaction, interrupt, shutdown, and a guardian | `AbortedIsDetached`: when TurnAborted is sent the task is cancelled and aborted, out of the session for good, and the marker is recorded; `NothingVanishes`: each accepted prompt is in some queue, in a hand, in the history or dropped on purpose; `NoDuplicate` |
| `turn_wakeup` | two turns, a prompt, a note, an approved denial, trigger mail, no interrupts; fair | `NoDuplicate` where items are injected, queued and moved by synthetic turns; `WakeupServed` |
| `event_order` | two streams, two chunks in all, one retained, poller | the refinement `StreamSpec`: subscribers see the numbered events in order, and nothing is numbered after Closed; `InOrder`; `OneFailed`; `PollSkipsNothing` while chunks are evicted before, between and after reads |
| `event_ends` | two streams, one chunk in all, subscriber or poller; fair | `TypeOK`; `PushEnds`; `PollStops` |
| `sessions` | three connections, a session, a process id, TTL 2, transports lost inside and between requests | `TypeOK`, `KeepsSession`, `ResumeWindow`, `NoOrphan`, `StartIsOwned`, `Reclaimed` |
| `rollout` | three items, a channel of two commands, two failed or cut writes, any number of kills and resumes | `TypeOK`; `FileInOrder`; `AckedIsWritten`; `NothingLost`: an item is in the channel, in the buffer or in the file, and in one of them; `WrittenUnasked` |
| `remote_control` | one client stream, two connections, channel and buffer of one, two messages or pings, two losses | `TypeOK`; `StreamIsComplete`; `KeptUntilAcked`; `NothingLeftBehind`; `Delivered`; `DisconnectCloses` |
| `memory_jobs` | two threads, two workers, two versions, one running job, one retry, leases and delays of one tick, two events from outside | `TypeOK`; `OutputIsOfSuccess`: a late result is not stored; `OneOwner`; `RunningLimit`; `RetryBudget`; `BaselineIsSeen` |

Runs that TLC refutes, each a disagreement between the code and a document, comment or
assertion (quoted under `findings`):

| Run | What happens |
|---|---|
| `turn_double_start` | the synthetic turn and the user's turn are both added to the session |
| `session_sender` | a resume between the two halves of a detach loses its notification sender |
| `remote_reinit` | the ended task of a connection closes the connection that the same client and stream have opened since |

Each passing run restricts its inputs to where its properties hold, and the restriction
says where they do not:

* `OneTask` needs turns that only user operations start: with trigger mail,
  `turn_double_start` refutes it.
* `OneLive` also needs that no guardian aborts: a guardian takes the turn out of the
  session, and the loop then starts the next task while the old one is still stopping.
  So does `RejectionAfterCancel`: the old task, not cancelled yet, asks for an approval
  in the new turn, and that turn may be over or aborted before the guardian cancels.
* `NothingVanishes` needs that input reaches a turn only when the loop starts it or a
  client steers it. `inject_response_items` accepts a note or a grant for a turn that has
  just lost its task and whose pending input has already been collected, and the item goes
  with the turn. Mail that `start_task` has put into a turn which has no task yet is lost
  when somebody else takes or releases that turn: the loop, which replaces the turn that a
  finished task is starting for trigger mail; or a finishing task that a guardian has taken
  out of the session, which empties and releases whichever turn is active
  (`state/turn.rs:88`). TLC finds each of the four (a note; a grant; trigger mail; mail and
  a guardian) with three turns and two prompts. Prompts alone survive a guardian in
  `turn_abort`.
  A task that outlives its abort may moreover take the input of the turn that follows
  (below); what it has in hand when it is dropped counts as dropped by the abort.
* `WakeupServed` needs that no turn is interrupted or replaced. An interrupt that takes the
  emptied turn of a finishing task finds no task to abort and does not look for pending
  work, and the task, whose turn is gone, does not either (`tasks/mod.rs:708`); the mail
  then waits in an idle session. A task that is aborted while it finishes may be dropped
  between the release of its turn and its check for pending work, with the same result.
* `NoOrphan`, `StartIsOwned` and `Reclaimed` except what a dropped request leaves behind:
  the children of an expired session whose shutdown was awaited
  (`session_registry.rs:107`), and an id whose start was awaited (`local_process.rs:162`),
  which stays reserved as long as the session. The exception names the connection and the
  session, so anything else left behind violates them.
* `OneOwner` and `BaselineIsSeen` are about the time before a reset of all memories:
  `clear_memory_data` removes the rows of jobs that are still running.
* `BaselineIsSeen` is also about the time before something other than a worker loses the
  repository. The next worker then commits the directory as it finds it, with whatever a
  failed or killed agent left unconsolidated, as `memories/write/src/workspace.rs:10` says
  it should; `memories/README.md:105` and `:133` speak of the last successful run only.
  The property holds again once an agent's work is committed.

Two more things are false in the model, and no run states them. A turn may be reported
twice: a task past its cancellation check (`tasks/mod.rs:389`) completes and is reported
aborted as well. And an item that was acknowledged may be unreadable: a line cut by a
kill or a failed write swallows the line appended to it (`recorder.rs:1803`), whoever
wrote that.

Disagreements with documents that have no run:

* An aborted task that is still being polled when the grace period of 100 ms ends goes on
  beside the turn that replaces it and after its own TurnAborted, since nobody joins its
  handle (`tasks/mod.rs:768`). `docs/protocol_v1.md:25` says that at most one task runs at a
  time; that holds of the tasks nobody has aborted (`OneLive`). `app-server/README.md:797`
  says that `turn/completed` tells when an interruption has finished; what holds then is
  `AbortedIsDetached`.
* `exec-server/README.md:42` says that the server terminates the processes of a connection
  that closes. The code keeps them with the session for the TTL, and for good when another
  connection resumes it, which `exec-server/tests/process.rs:175` tests. `NoOrphan` and
  `Reclaimed` state what the code does.
* `exec-server/src/client.rs:516` says that queued notifications come before the disconnect,
  while a read that notices the lost connection publishes Failed ahead of what the reader
  task still holds (`InOrder` is therefore stated about the numbered events only).

### Bounds

Two or three turns are enough for a turn to finish, be replaced and start a successor
while another process is at any step of its own start or abort; two prompts let one
start a turn and the other be steered into it. Two chunks, from one stream or
from each, with one retained, give re-ordering across streams and evictions, and up to
four numbered events that overtake each other; the first chunk may be evicted before the
poller reads it, between two reads and after the last, and the poller may be behind by
one or by both. Whether the streams and the poll loop end depends on who closes, fails or
wakes whom and not on how many chunks there are, so one chunk is enough for `event_ends`.
The streams are symmetric in `event_order`, which has no fairness. `Streams` has two members in every
run because the code starts every process with `open_streams: 2`. Three connections give a detach, a resume, and a late timer of the first; a TTL
of two ticks lets a resume fall before and after a part of the deadline has passed.
Three items let a failed attempt have written some and not others while one more is in the
channel; two faults fail both attempts, or one and a later command's. With capacity one
the second message finds the buffer full, and two losses let a replay be lost as well; a
second connection of the same key is the case `remote_reinit` is about. Two workers and
two threads let a job be taken over and the limit be reached by the other thread; two
versions let a claim be out of date; the two outside events are any of an update, a
prune, a pollution, a reset and a kill. Threads are symmetric, and so are workers.
Every action of every next-state relation fires in some passing run.

`CHECK_DEADLOCK FALSE` is used where the system may stop: all connections may be gone and
all sessions expired (`ExecSessions`), the recorder may be shut down with every item
recorded (`RolloutWriter`), remote control may be stopped (`RemoteControl`), and every
thread may have been extracted and consolidated (`MemoryJobs`). The other modules stutter
explicitly in `Quiescent` states, which are those where everything has ended, so TLC still
finds a deadlock anywhere else.

### Fairness

* `TurnLifecycle`: every process that can take a step eventually does (tokio schedules
  every ready task; mutexes are fair); the poll of an aborted task ends; clients answer approvals; the model does not ask
  for follow-ups for ever, and `run_turn` does not fail before sampling for ever (strong
  fairness). The last two are assumptions about the service, not about this code;
  without them a turn may legitimately go on. No client need send or interrupt.
* `ProcessEvents`: the tasks that notify, finish and close, the reader and the poll loop
  are weakly fair. Nothing makes a child write, exit or the connection break.
* `ExecSessions`: time passes, and timers, shutdowns and the steps of a closing
  connection are weakly fair. No client need resume, and no child need exit.
* `RolloutWriter`: the writer task is weakly fair. Nobody need call it.
* `RemoteControl`: the writer and its reconnects, outbound tasks that are told to end and
  the reader's handling of ended tasks are weakly fair, and the backend reads and
  acknowledges. `PingInterval` is not fair: a stall must not be mended by a ping.
* `MemoryJobs` has no fairness: a worker may be killed, or its model never answer.

## 4. Proofs

The theorems of the `...Proofs` modules hold for every value of the constants under the
named assumptions of the modules they extend.

* `TypeTheorem` (`TurnLifecycle`): `TypeOK` is not inductive, since a step may use a
  victim, a reference or a turn to start that exists only because of where its process
  is. `TInv` adds that: `HoldsVictim` (an aborting process has a victim), `HoldsRef` (a
  process between two locks holds an allocated turn state), `HoldsStart` (a starting
  process knows its turn).
* `OneTaskTheorem`: for sessions whose turns are started by user operations only (no
  trigger mail and no grants, the case that `turn_double_start` shows to be necessary),
  `SInv` adds that nothing is queued, that only the loop starts turns, and that no task
  is in place while it does.
* `AbortedIsDetachedTheorem` (module `TurnAbortProofs`): for every instance, guardians and
  synthetic turns included, and however long an aborted task goes on. `AInv` follows the
  victim of an abort: out of the session from the start (`Detached`), cancelled
  (`VictimCancelled`), aborted once the grace period is over (`VictimAborted`), marked
  before it is reported (`VictimMarked`). That it does not come back needs that nobody
  spawns a turn twice: a turn a process set out to start is not spawned, and no other
  process set out for it (`FreshStart`), while tasks of the session and victims are spawned.
* `OneLiveTheorem`, `RejectionAfterCancelTheorem`: for sessions whose turns only the loop
  starts and aborts (no trigger mail, no grants, no guardians; section 3 says why each
  is needed). `RInv`, on top of `SInv` and `AInv`, says that a running task that is not aborted
  is the one task of the session or the loop's victim before its grace period is over
  (`Running`), that a cancelled
  task runs in its grace period only, and that the sender of an awaited approval is in the
  active turn, or in the one the loop has taken until it has cancelled (`Sender`).
  `NoneAssumption` says that the None of `Option<ActiveTurn>` is not a Some.
* `NoDuplicateTheorem` (module `TurnInputProofs`): for every instance. The history, the
  queues, the hands, the inputs of tasks and the pending input of every turn state are the
  places of one `Shelf`. `UInv` says that no input is at two places of it or twice at one
  (`Unique`), that an unsent one is nowhere (`Sent`) and that any other is somewhere or was
  dropped on purpose (`Found`). `Rearranged` says once when a change of some places keeps
  this; `Put`, `Pour` and `Emptied` are the three kinds of change, and there is one lemma
  per action (`...Shelf`). Some actions overwrite a place, so `HInv` adds that it is empty
  by then: a process has items in hand only between a take and the matching put, and only
  the turn the loop is about to start has an input without being spawned.
* `OnlyLostWithItsTurnTheorem`: the third part of `UInv` by itself, again for every
  instance. Whatever loses an input in section 3 loses it with a turn state.
* `NothingVanishesTheorem`: for sessions whose turns only the loop starts and aborts and
  into which nothing is injected, the restrictions of section 3, and for the behaviours in
  which the last poll of an aborted task is over before its abort is (`ShortPolls`). A task
  that outlives its abort may take over or release the turn state the loop is about to
  fill, and the proof would have to follow it there. `turn_abort` does not assume it.
  `KInv` adds to `RInv`,
  `HInv` and `UInv` that a turn state with pending input has somebody who will take it: a
  task of the active turn or the one about to be added, the abort that has taken the turn,
  or the last task, which collects (`PendingBacked`). It is kept because the turn state
  that `start_task` fills is one that no finished task has an Arc of (`OwnTurn`), because
  the tasks of the session have not finished (`TasksRun`) and because the victim of an
  abort is not the one that collects (`VictimsOut`).
* `SessionTypes`, `KeepsSessionTheorem`, `ResumeWindowTheorem`: `RInv` is `TypeOK` and
  `KeepsSession` with two strengthenings, `DeadlineIsDetached` (a deadline runs only
  while nobody is attached, so an expiry never hits an attached session) and
  `HasSession` (a connection that uses a session has one). There is one lemma per action
  (`...R`). `ResumeWindow` follows because only `ResumeExpired` and `TimerFires` remove a
  session, both at a deadline of zero.
* `NoOrphanTheorem`, `StartIsOwnedTheorem`: `OInv` adds that a running child is entered,
  that a session with entries is registered, due for shutdown or was left by a dropped
  request, that a session due for shutdown is unregistered and stays expired (so it
  cannot be attached again), and that a spawning connection holds its reservation.
  There is one lemma per action (`...O`).
* `TypeTheorem` (`MemoryJobs`), `RetryBudgetTheorem`: the types need the budget, since a
  failure subtracts a retry, and `HasThread`: a worker that has scanned or extracts has a
  thread and a version. `TInv` is the three together.
* `OutputIsOfSuccessTheorem`: `RInv` adds to `TInv` that a worker which owns its row works
  on exactly the version the row has as its input (`RowIsOwners`), so that a completion
  marks the version it stores, and that a running row's input is newer than the output
  there is (`OwnedIsNewer`), so that the completion does store it.
* `OneOwnerTheorem`: `LInv` adds to `TInv` that what a worker believes to have left of its
  lease is never more than what the row or the lock has, and that the row or the lock then
  names it (`HoldsJob`, `HoldsLock`); a claimed or confirmed lock has its whole lease
  (`PipelineOK`). `LeavesOthers` is the argument that other workers' leases survive a
  step, once for all actions. After a reset of all memories nothing is claimed.
* `BaselineIsSeenTheorem`: `BInv` adds to `LInv` that the directory holds the inputs of the
  worker that owns the lock, that a completed agent's inputs are seen, and that, as long as
  nothing else has touched the repository, the directory is seen whenever there is no
  repository (`RemovedIsSeen`: only a worker whose agent had completed removes it, and the
  next one commits it before it loads inputs of its own). The directory is
  written and the baseline reset only with a whole lease, hence by the owner.
* `RunningLimitTheorem`: needs only `TInv` and that `Threads` is finite. Every step but a
  claim leaves the set of leased jobs the same or smaller; a claim adds one job below the
  limit.
* `TypeTheorem`, `FileInOrderTheorem`, `AckedIsWrittenTheorem`, `NothingLostTheorem`
  (`RolloutWriter`): one `IInv` for all four, since none is inductive without the others.
  It follows an item from the channel over the buffer to the file: `Numbered` (nothing has a
  number that was not given out), `QueueInOrder`, `CommandFirst` (a command that is carried
  out comes before the items behind it), `BufferInOrder` (what is buffered and not yet
  written comes after the file and before the channel), `Complete` (no item since the last
  resume is missing), `Counted` (only the loop over the buffer counts written items, from 0 for each buffer),
  `MetaFirst`, `AckedIsWhole`. A lost acknowledgement is excluded because a barrier is
  answered only with an empty buffer, and every item before it is then in the file.
* `TypeTheorem`, `InOrderTheorem`, `OneFailedTheorem`, `PollSkipsNothingTheorem`
  (`ProcessEvents`): `IInv` adds `Counted` (what `open_streams`, `exited` and `closed` say of
  where the three tasks are: nobody gives out a number once the process is closed),
  `Logged`, `InFlight` (whatever is held by a task, on the wire, pending or ready stands in
  the log under its number), `InTurnNext` (what is ready continues what is published, and
  what is pending comes later), `FailedOnce` (who set the failure publishes Failed, once),
  and `Polled` (a reply in flight has every chunk that is still retained between the
  poller's cursor and the one it will set).
* `StreamTheorem`: `Spec => Stream!Spec`. `Visible` shows that a step changes nothing a
  subscriber sees, numbers one event, publishes the next one or publishes the first Failed;
  `NumberingProduces`, `PublishDelivers` and `FailedIsInvisible` map these to `Produce`,
  `Deliver` and a stutter.

* `NothingLeftBehindTheorem` (`RemoteControl`): `ConnInv` adds that connections are numbered
  as they are opened (so `initialize` takes a fresh one), that an unopened one was never
  closed, and that the tracker's connection of a key has that key.
* `KeptUntilAckedTheorem`: `SeqInv` says where the numbers of a stream are. What is buffered
  are the last ones given out and everything before was received (`BufferIsLast`); the same
  for what the writer has still to send, with sent instead of received (`TodoIsLast`); an
  envelope on the wire or at the backend has all lower numbers in front of it
  (`WireInTurn`, `GotInTurn`); and a writer that waits for an event has room (`Room`). That
  an acknowledgement frees only what was received needs `GotInTurn`: the backend
  acknowledges a number, and the buffer frees everything below it as well.
* `StreamIsCompleteTheorem`: `OrderInv` follows a message from the app-server over the task's
  queue, its hand and the channel to the envelopes, which are in the buffer, in the
  writer's copy, on the wire and at the backend at once (`All`). A number that was not given
  out is on no envelope and one that was is on one (`Below`, `OneMeaning`); at each place a
  message comes after those of its connection that are further on. That the received numbers
  are `1..n` follows from `GotInTurn` and finiteness (`Gapless`).
* `TypeTheorem` (`RemoteControl`): `IInv` is all of these with the types, one lemma per action
  (`...C`, `...S`, `...O` for the three parts, `...I` for the whole). It assumes that there is
  a client stream (`RemoteBounds`).

Only model-checked: the liveness properties (the prover does not treat fairness and
ENABLED), and `NothingVanishes` where a guardian aborts or a task outlives its abort, which
`turn_abort` checks and the theorem excludes. Every other invariant and action property of the passing runs has a
theorem.

## 5. Plan

Done: `TurnLifecycle`, `EventStream` and `ProcessEvents`, `ExecSessions`, `RolloutWriter`,
`RemoteControl`, `MemoryJobs`, with the theorems above. Next, in this order:

1. The MCP transport over a remote process (`rmcp-client/src/executor_process_transport.rs`):
   a subscriber that lags and recovers from the retained output.
2. `outgoing_message.rs` of the app-server and `agent-backend`: tables of pending requests;
   to prove: each request is resolved at most once.
3. A composition of `ExecSessions` with `ProcessEvents`: events across a resumed session.
4. A proof of `NothingVanishes` for prompts in a session that guardians abort too.

## 6. Not modelled

`PROJECT.json` lists every component. Left out for good: the terminal UI, login, sandboxes,
exec policy, apply-patch and the drift log, which are sequential, text processing or calls
to the operating system; generated protocol types. They are also most of the repository's
lines, so the map covers a small part of it: the part where interleavings, failures and
recovery decide what is correct. Left out until now: the components of the plan, the agent
registry, the unified-exec store, network approval, the readiness flag and thread goals.
