----------------------------- MODULE MemoryJobs -----------------------------
(* The memory pipeline that every root session starts, and the job table        *)
(* through which the pipelines of several processes share the work              *)
(* (state/src/runtime/memories.rs, memories/write/src/phase1.rs, phase2.rs).    *)
(*                                                                              *)
(* Phase 1 extracts an output from each thread that has changed; a job row per  *)
(* thread carries the lease, the retries and the watermark.  Phase 2 gives the  *)
(* outputs to an agent that works in one directory, under the lock of a single  *)
(* job row, and commits the directory as the new baseline.  The baseline is a   *)
(* git repository in that directory; when it is missing or cannot be read, the  *)
(* next worker commits the directory as it finds it.                            *)
(*                                                                              *)
(* A transaction is one step.  Leases and delays are what is left of them.  A   *)
(* worker may be killed anywhere, or sleep beyond its lease while a model works *)
(* for it; its other steps take less than a lease.  The watermarks and the      *)
(* retry count of the phase-2 row, which decide nothing, are left out.          *)
EXTENDS Naturals, FiniteSets

CONSTANTS
    Threads, Workers,
    NoWorker, NoThread,
    MaxRunning,    \* max_rollouts_per_startup
    Retries,       \* DEFAULT_RETRY_REMAINING
    Lease,         \* JOB_LEASE_SECONDS, in ticks
    Delay,         \* JOB_RETRY_DELAY_SECONDS, and the cooldown after a success
    Versions,      \* bound: versions of a thread
    Events         \* bound: what happens to the pipelines from outside

ASSUME JobConstants ==
    /\ IsFiniteSet(Threads)
    /\ NoWorker \notin Workers /\ NoThread \notin Threads
    /\ MaxRunning \in Nat \ {0} /\ Retries \in Nat \ {0}
    /\ Lease \in Nat \ {0} /\ Delay \in Nat /\ Versions \in Nat \ {0} /\ Events \in Nat

VARIABLES
    version,       \* updated_at of each thread
    polluted,      \* threads whose memory_mode is polluted
    job,           \* the stage-1 rows of the job table
    output,        \* stage1_outputs: the version of each thread's output, 0 for none
    selected,      \* selected_for_phase2: threads whose output is marked
    lock,          \* the phase-2 row of the job table
    worker,        \* each worker's pipeline
    workspace,     \* the inputs in the memory directory
    baseline,      \* the inputs in its git baseline
    usable,        \* the baseline's repository is there and can be read
    seen,          \* inputs that an agent has finished with
    events,        \* events from outside so far
    cleared,       \* all memories have been reset
    damaged        \* the repository was lost, and no agent's work has replaced it

database == <<job, output, selected, lock>>
repository == <<baseline, usable>>
files == <<workspace, repository, seen>>
outside == <<events, cleared, damaged>>
vars == <<version, polluted, database, worker, files, outside>>

\* A row has an owner while its status is "running"; the other statuses decide nothing.
\* Versions start at 1, so a row that was ever claimed has an input.
NoJob == [owner |-> NoWorker, left |-> 0, retry |-> 0, remaining |-> 0, input |-> 0, success |-> 0]
Free == [owner |-> NoWorker, left |-> 0, retry |-> 0, cooldown |-> 0]
Idle == [at |-> "idle", thread |-> NoThread, version |-> 0, inputs |-> {}, left |-> 0]

Init ==
    /\ version = [t \in Threads |-> 1]
    /\ polluted = {}
    /\ job = [t \in Threads |-> NoJob]
    /\ output = [t \in Threads |-> 0]
    /\ selected = {}
    /\ lock = Free
    /\ worker = [w \in Workers |-> Idle]
    /\ workspace = {} /\ baseline = {} /\ usable = FALSE /\ seen = {}
    /\ events = 0 /\ cleared = FALSE /\ damaged = FALSE

\* Counts an event from outside.
External == events < Events /\ events' = events + 1

\* enqueue_global_consolidation.
Enqueued ==
    IF lock.owner # NoWorker THEN lock ELSE [lock EXCEPT !.retry = 0]

-----------------------------------------------------------------------------
(* Phase 1 *)

\* The thread goes on.
UpdateThread(t) ==
    /\ External
    /\ version[t] < Versions
    /\ version' = [version EXCEPT ![t] = @ + 1]
    /\ UNCHANGED <<polluted, database, worker, files, cleared, damaged>>

\* claim_stage1_jobs_for_startup, the query.
Scan(w, t) ==
    /\ worker[w].at = "idle"
    /\ t \notin polluted
    /\ version[t] > output[t] /\ version[t] > job[t].success
    /\ worker' = [worker EXCEPT ![w] = [Idle EXCEPT !.at = "scanned", !.thread = t, !.version = version[t]]]
    /\ UNCHANGED <<version, polluted, database, files, outside>>

LiveJobs == {t \in Threads : job[t].left > 0}

\* Faulty: the rows that run are counted without the one that is claimed, whose lease
\* need not have ended.
ClaimableOverLease(t, v) ==
    /\ v > output[t] /\ v > job[t].success
    /\ v > job[t].input \/ (job[t].retry = 0 /\ job[t].remaining > 0)
    /\ Cardinality(LiveJobs \ {t}) < MaxRunning

\* Faulty: the limit on running jobs is not looked at again.
ClaimableOverLimit(t, v) ==
    /\ v > output[t] /\ v > job[t].success
    /\ job[t].left = 0
    /\ v > job[t].input \/ (job[t].retry = 0 /\ job[t].remaining > 0)

\* Faulty: retries are unlimited.
ClaimableForever(t, v) ==
    /\ v > output[t] /\ v > job[t].success
    /\ job[t].left = 0
    /\ v > job[t].input \/ job[t].retry = 0
    /\ Cardinality(LiveJobs \ {t}) < MaxRunning

\* try_claim_stage1_job, its conditions.
Claimable(t, v) ==
    /\ v > output[t] /\ v > job[t].success
    /\ job[t].left = 0
    /\ v > job[t].input \/ (job[t].retry = 0 /\ job[t].remaining > 0)
    /\ Cardinality(LiveJobs \ {t}) < MaxRunning

\* try_claim_stage1_job, with what the query saw.
ClaimStage1(w) ==
    /\ worker[w].at = "scanned"
    /\ LET t == worker[w].thread
           v == worker[w].version
       IN  IF Claimable(t, v)
           THEN /\ job' = [job EXCEPT ![t] =
                      [owner |-> w, left |-> Lease, retry |-> 0,
                       remaining |-> IF v > @.input THEN Retries ELSE @.remaining,
                       input |-> v, success |-> @.success]]
                /\ worker' = [worker EXCEPT ![w].at = "sampling", ![w].left = Lease]
           ELSE UNCHANGED job /\ worker' = [worker EXCEPT ![w] = Idle]
    /\ UNCHANGED <<version, polluted, output, selected, lock, files, outside>>

\* Faulty: any running row is taken for the worker's own.
OwnsAny(w) == job[worker[w].thread].owner # NoWorker

\* The row is running and has the worker's token.
Owns(w) == job[worker[w].thread].owner = w

Done(row) == [row EXCEPT !.owner = NoWorker, !.left = 0, !.success = row.input]

\* mark_stage1_job_succeeded.
Stage1Succeeded(w) ==
    /\ worker[w].at = "sampling"
    /\ LET t == worker[w].thread
       IN  IF Owns(w)
           THEN /\ job' = [job EXCEPT ![t] = Done(@)]
                /\ output' = [output EXCEPT ![t] = IF worker[w].version >= @ THEN worker[w].version ELSE @]
                /\ lock' = Enqueued
           ELSE UNCHANGED <<job, output, lock>>
    /\ worker' = [worker EXCEPT ![w] = Idle]
    /\ UNCHANGED <<version, polluted, selected, files, outside>>

\* mark_stage1_job_succeeded_no_output.
Stage1NoOutput(w) ==
    /\ worker[w].at = "sampling"
    /\ LET t == worker[w].thread
       IN  IF Owns(w)
           THEN /\ job' = [job EXCEPT ![t] = Done(@)]
                /\ output' = [output EXCEPT ![t] = 0]
                /\ selected' = selected \ {t}
                /\ lock' = IF output[t] # 0 THEN Enqueued ELSE lock
           ELSE UNCHANGED database
    /\ worker' = [worker EXCEPT ![w] = Idle]
    /\ UNCHANGED <<version, polluted, files, outside>>

\* mark_stage1_job_failed.
Stage1Failed(w) ==
    /\ worker[w].at = "sampling"
    /\ LET t == worker[w].thread
       IN  job' = IF Owns(w)
                  THEN [job EXCEPT ![t].owner = NoWorker, ![t].left = 0, ![t].retry = Delay,
                                   ![t].remaining = @ - 1]
                  ELSE job
    /\ worker' = [worker EXCEPT ![w] = Idle]
    /\ UNCHANGED <<version, polluted, output, selected, lock, files, outside>>

\* prune_stage1_outputs_for_retention, of an output that is old enough.
Prune(t) ==
    /\ External
    /\ output[t] # 0 /\ t \notin selected
    /\ output' = [output EXCEPT ![t] = 0]
    /\ UNCHANGED <<version, polluted, job, selected, lock, worker, files, cleared, damaged>>

\* mark_thread_memory_mode_polluted.
Pollute(t) ==
    /\ External
    /\ t \notin polluted
    /\ polluted' = polluted \union {t}
    /\ lock' = IF t \in selected THEN Enqueued ELSE lock
    /\ UNCHANGED <<version, job, output, selected, worker, files, cleared, damaged>>

-----------------------------------------------------------------------------
(* Phase 2 *)

\* try_claim_global_phase2_job, its conditions.
LockFree == lock.left = 0 /\ lock.retry = 0 /\ lock.cooldown = 0

ClaimPhase2(w) ==
    /\ worker[w].at = "idle" /\ LockFree
    /\ lock' = [owner |-> w, left |-> Lease, retry |-> 0, cooldown |-> 0]
    /\ worker' = [worker EXCEPT ![w] = [Idle EXCEPT !.at = "claimed", !.left = Lease]]
    /\ UNCHANGED <<version, polluted, job, output, selected, files, outside>>

OwnsLock(w) == lock.owner = w

\* job::failed.
LockAfterFailure(w) == IF OwnsLock(w) THEN [Free EXCEPT !.retry = Delay] ELSE lock

\* Any step before the agent runs fails, the agent fails, or the baseline cannot be
\* reset, wherever that stops.
Phase2Failed(w) ==
    /\ worker[w].at \in {"claimed", "prepared", "synced", "agent", "completed", "confirmed",
                        "removed", "committed"}
    /\ lock' = LockAfterFailure(w)
    /\ worker' = [worker EXCEPT ![w] = Idle]
    /\ UNCHANGED <<version, polluted, job, output, selected, files, outside>>

\* The directory is the only commit of a new repository.
CommitCurrentTree == baseline' = workspace /\ usable' = TRUE

\* prepare_memory_workspace: a repository that can be read is kept, and in place of any
\* other the directory is committed as it is, consolidated or not.
Prepare(w) ==
    /\ worker[w].at = "claimed"
    /\ IF usable THEN UNCHANGED repository ELSE CommitCurrentTree
    /\ worker' = [worker EXCEPT ![w].at = "prepared"]
    /\ UNCHANGED <<version, polluted, database, workspace, seen, outside>>

\* get_phase2_input_selection: outputs of threads that are not polluted, less those that
\* are too old or rank too low; and sync_phase2_workspace_inputs.
LoadInputs(w) ==
    /\ worker[w].at = "prepared"
    /\ \E inputs \in SUBSET {<<t, output[t]>> : t \in {u \in Threads \ polluted : output[u] # 0}} :
         /\ workspace' = inputs
         /\ worker' = [worker EXCEPT ![w].inputs = inputs, ![w].at = "synced"]
    /\ UNCHANGED <<version, polluted, database, repository, seen, outside>>

\* memory_workspace_diff, which needs the repository: an agent is spawned when the inputs
\* differ from the baseline, or when an earlier agent left work of its own behind.
CompareWithBaseline(w) ==
    /\ worker[w].at = "synced" /\ usable
    /\ \E next \in {"unchanged", "agent"} :
         /\ next = "unchanged" => workspace = baseline
         /\ worker' = [worker EXCEPT ![w].at = next]
    /\ UNCHANGED <<version, polluted, database, files, outside>>

\* loop_agent: a heartbeat, which finds out whether the lock is lost.
Heartbeat(w) ==
    /\ worker[w].at = "agent"
    /\ IF OwnsLock(w)
       THEN /\ lock' = [lock EXCEPT !.left = Lease]
            /\ worker' = [worker EXCEPT ![w].left = Lease]
       ELSE UNCHANGED lock /\ worker' = [worker EXCEPT ![w] = Idle]
    /\ UNCHANGED <<version, polluted, job, output, selected, files, outside>>

\* The agent has consolidated its inputs.
AgentCompletes(w) ==
    /\ worker[w].at = "agent"
    /\ seen' = seen \union worker[w].inputs
    /\ worker' = [worker EXCEPT ![w].at = "completed"]
    /\ UNCHANGED <<version, polluted, database, workspace, repository, outside>>

\* Faulty: the lock is not confirmed.
TrustsLock(w) ==
    /\ worker[w].at = "completed"
    /\ worker' = [worker EXCEPT ![w].at = "confirmed"]
    /\ UNCHANGED <<version, polluted, database, files, outside>>

\* agent::handle: "Do not reset the workspace baseline if we lost the lock."
ConfirmLock(w) ==
    /\ worker[w].at = "completed"
    /\ IF OwnsLock(w)
       THEN /\ lock' = [lock EXCEPT !.left = Lease]
            /\ worker' = [worker EXCEPT ![w].at = "confirmed", ![w].left = Lease]
       ELSE UNCHANGED lock /\ worker' = [worker EXCEPT ![w] = Idle]
    /\ UNCHANGED <<version, polluted, job, output, selected, files, outside>>

\* reset_memory_workspace_baseline: the old repository is removed first.
RemoveBaseline(w) ==
    /\ worker[w].at = "confirmed"
    /\ baseline' = {} /\ usable' = FALSE
    /\ worker' = [worker EXCEPT ![w].at = "removed"]
    /\ UNCHANGED <<version, polluted, database, workspace, seen, outside>>

\* A new one is made, and the directory committed to it.
ResetBaseline(w) ==
    /\ worker[w].at = "removed"
    /\ CommitCurrentTree
    /\ damaged' = FALSE
    /\ worker' = [worker EXCEPT ![w].at = "committed"]
    /\ UNCHANGED <<version, polluted, database, workspace, seen, events, cleared>>

\* mark_global_phase2_job_succeeded: only outputs that are still the ones consolidated
\* are marked.
Phase2Succeeded(w) ==
    /\ worker[w].at \in {"unchanged", "committed"}
    /\ IF OwnsLock(w)
       THEN /\ lock' = [Free EXCEPT !.cooldown = Delay]
            /\ selected' = {t \in Threads : output[t] # 0 /\ <<t, output[t]>> \in worker[w].inputs}
       ELSE UNCHANGED <<lock, selected>>
    /\ worker' = [worker EXCEPT ![w] = Idle]
    /\ UNCHANGED <<version, polluted, job, output, files, outside>>

-----------------------------------------------------------------------------
\* A worker's process is killed.
Killed(w) ==
    /\ External
    /\ worker[w] # Idle
    /\ worker' = [worker EXCEPT ![w] = Idle]
    /\ UNCHANGED <<version, polluted, database, files, cleared, damaged>>

\* clear_memory_data, and the memory directory with it.
ClearMemoryData ==
    /\ External /\ cleared' = TRUE
    /\ job' = [t \in Threads |-> NoJob]
    /\ output' = [t \in Threads |-> 0]
    /\ selected' = {}
    /\ lock' = Free
    /\ workspace' = {} /\ baseline' = {} /\ usable' = FALSE
    /\ UNCHANGED <<version, polluted, worker, seen, damaged>>

\* The repository is removed or becomes unreadable.
LoseRepository ==
    /\ External
    /\ usable
    /\ baseline' = {} /\ usable' = FALSE /\ damaged' = TRUE
    /\ UNCHANGED <<version, polluted, database, worker, workspace, seen, cleared>>

Less(n) == IF n > 0 THEN n - 1 ELSE 0

\* Time passes while every worker is idle or waits for a model.
Tick ==
    /\ \A w \in Workers : worker[w].at \in {"idle", "scanned", "sampling", "agent"}
    /\ \/ \E t \in Threads : job[t].left + job[t].retry > 0
       \/ lock.left + lock.retry + lock.cooldown > 0
    /\ job' = [t \in Threads |-> [job[t] EXCEPT !.left = Less(@), !.retry = Less(@)]]
    /\ lock' = [lock EXCEPT !.left = Less(@), !.retry = Less(@), !.cooldown = Less(@)]
    /\ worker' = [w \in Workers |-> [worker[w] EXCEPT !.left = Less(@)]]
    /\ UNCHANGED <<version, polluted, output, selected, files, outside>>

Next ==
    \/ \E t \in Threads : UpdateThread(t) \/ Prune(t) \/ Pollute(t)
    \/ \E w \in Workers :
         \/ \E t \in Threads : Scan(w, t)
         \/ ClaimStage1(w)
         \/ Stage1Succeeded(w) \/ Stage1NoOutput(w) \/ Stage1Failed(w)
         \/ ClaimPhase2(w) \/ Prepare(w) \/ LoadInputs(w) \/ CompareWithBaseline(w)
         \/ Heartbeat(w) \/ AgentCompletes(w)
         \/ ConfirmLock(w) \/ RemoveBaseline(w) \/ ResetBaseline(w) \/ Phase2Succeeded(w)
         \/ Phase2Failed(w)
         \/ Killed(w)
    \/ ClearMemoryData \/ LoseRepository
    \/ Tick

Spec == Init /\ [][Next]_vars

-----------------------------------------------------------------------------
Inputs == Threads \X (1..Versions)
JobRows ==
    [owner : Workers \union {NoWorker}, left : 0..Lease, retry : 0..Delay,
     remaining : 0..Retries, input : 0..Versions, success : 0..Versions]
LockRows ==
    [owner : Workers \union {NoWorker}, left : 0..Lease, retry : 0..Delay, cooldown : 0..Delay]
Pipelines ==
    [at : {"idle", "scanned", "sampling", "claimed", "prepared", "synced", "unchanged", "agent",
           "completed", "confirmed", "removed", "committed"},
     thread : Threads \union {NoThread}, version : 0..Versions, inputs : SUBSET Inputs,
     left : 0..Lease]

TypeOK ==
    /\ version \in [Threads -> 1..Versions]
    /\ polluted \subseteq Threads
    /\ job \in [Threads -> JobRows]
    /\ output \in [Threads -> 0..Versions]
    /\ selected \subseteq {t \in Threads : output[t] # 0}
    /\ lock \in LockRows
    /\ worker \in [Workers -> Pipelines]
    /\ workspace \subseteq Inputs /\ baseline \subseteq Inputs /\ seen \subseteq Inputs
    /\ usable \in BOOLEAN
    /\ events \in 0..Events /\ cleared \in BOOLEAN /\ damaged \in BOOLEAN

\* A thread's output is of the version its job row says was extracted: the late result of
\* a worker whose job was taken over, or whose row was cleared, is not stored and does
\* not pass for the newer version (mark_stage1_job_succeeded: only "the currently owned
\* running row").
OutputIsOfSuccess ==
    \A t \in Threads : output[t] # 0 => output[t] = job[t].success

\* No two workers have the same job while the leases they were given last, unless all
\* memories were cleared in between.
OneOwner ==
    ~cleared => \A w, x \in Workers : w # x /\ worker[w].left > 0 /\ worker[x].left > 0 =>
        worker[w].thread # worker[x].thread

\* Across processes, no more jobs hold a lease than one startup may run.
RunningLimit == Cardinality(LiveJobs) <= MaxRunning

\* A job that runs has a retry left, whoever claimed it and with whichever version: the
\* budget is never overdrawn.
RetryBudget ==
    \A t \in Threads : job[t].owner # NoWorker => job[t].remaining \in 1..Retries

\* The baseline holds nothing that no agent has consolidated: a worker that lost the lock
\* does not commit what another one has put into the directory, and what is committed in
\* place of a repository that a killed worker had removed was consolidated.  Only where
\* the repository was lost to something else does the next worker commit inputs that no
\* agent has seen, until an agent's work is committed again.
BaselineIsSeen == ~cleared /\ ~damaged => baseline \subseteq seen
=============================================================================
