-------------------------- MODULE MemoryJobsProofs --------------------------
(* Proofs about MemoryJobs for every finite set of threads, every set of        *)
(* workers and every lease, delay, limit and number of retries.                 *)
EXTENDS MemoryJobs, FiniteSetTheorems, TLAPS

\* A worker that has picked a thread has one, in a version that exists.
HasThread ==
    \A w \in Workers : worker[w].at \in {"scanned", "sampling"} =>
        worker[w].thread \in Threads /\ worker[w].version \in 1..Versions

\* The inductive invariant of the types: a failed job has a retry to lose.
TInv == TypeOK /\ HasThread /\ RetryBudget

\* The records that a row or a pipeline starts from have their types.
LEMMA FreshRows == Idle \in Pipelines /\ Free \in LockRows /\ NoJob \in JobRows
BY JobConstants DEF Idle, Free, NoJob, Pipelines, LockRows, JobRows

\* Initially nothing is claimed.
LEMMA InitTypes == Init => TInv
<1> SUFFICES ASSUME Init PROVE TInv
  OBVIOUS
<1>1. TypeOK
  <2>1. /\ job \in [Threads -> JobRows] /\ lock \in LockRows
        /\ worker \in [Workers -> Pipelines]
    BY FreshRows DEF Init
  <2>2. version \in [Threads -> 1..Versions] /\ output \in [Threads -> 0..Versions]
    BY JobConstants DEF Init
  <2>3. /\ polluted \subseteq Threads /\ events \in 0..Events
        /\ selected \subseteq {t \in Threads : output[t] # 0}
        /\ workspace \subseteq Inputs /\ baseline \subseteq Inputs /\ seen \subseteq Inputs
    BY JobConstants DEF Init
  <2>4. cleared \in BOOLEAN /\ damaged \in BOOLEAN /\ usable \in BOOLEAN
    BY DEF Init
  <2>5. QED
    BY <2>1, <2>2, <2>3, <2>4 DEF TypeOK
<1>2. HasThread /\ RetryBudget
  BY DEF Init, HasThread, RetryBudget, Idle, NoJob
<1>3. QED
  BY <1>1, <1>2 DEF TInv

\* A finished job is nobody's and keeps the version it was claimed with.
LEMMA DoneType ==
    ASSUME NEW r \in JobRows
    PROVE  LET q == Done(r)
           IN  /\ q \in JobRows
               /\ q.owner = NoWorker /\ q.left = 0 /\ q.retry = r.retry
               /\ q.remaining = r.remaining /\ q.input = r.input /\ q.success = r.input
<1> DEFINE a == [r EXCEPT !.owner = NoWorker]
<1>1. /\ a \in JobRows
      /\ a.owner = NoWorker /\ a.left = r.left /\ a.retry = r.retry
      /\ a.remaining = r.remaining /\ a.input = r.input /\ a.success = r.success
  BY JobConstants DEF JobRows
<1> HIDE DEF a
<1> DEFINE b == [a EXCEPT !.left = 0]
<1>2. /\ b \in JobRows
      /\ b.owner = NoWorker /\ b.left = 0 /\ b.retry = r.retry
      /\ b.remaining = r.remaining /\ b.input = r.input /\ b.success = r.success
  BY <1>1, JobConstants DEF JobRows
<1> HIDE DEF b
<1> DEFINE c == [b EXCEPT !.success = r.input]
<1>3. /\ c \in JobRows
      /\ c.owner = NoWorker /\ c.left = 0 /\ c.retry = r.retry
      /\ c.remaining = r.remaining /\ c.input = r.input /\ c.success = r.input
  BY <1>2, JobConstants DEF JobRows
<1> HIDE DEF c
<1>4. Done(r) = c
  BY DEF Done, a, b, c
<1>5. QED
  BY <1>3, <1>4

\* A worker that has picked version v of a thread.
LEMMA ScannedType ==
    ASSUME NEW t \in Threads, NEW v \in 1..Versions
    PROVE  LET q == [Idle EXCEPT !.at = "scanned", !.thread = t, !.version = v]
           IN  /\ q \in Pipelines
               /\ q.at = "scanned" /\ q.thread = t /\ q.version = v
               /\ q.inputs = Idle.inputs /\ q.left = Idle.left
<1> DEFINE a == [Idle EXCEPT !.at = "scanned"]
<1>1. /\ a \in Pipelines
      /\ a.at = "scanned" /\ a.thread = Idle.thread /\ a.version = Idle.version
      /\ a.inputs = Idle.inputs /\ a.left = Idle.left
  BY FreshRows, JobConstants DEF Pipelines
<1> HIDE DEF a
<1> DEFINE b == [a EXCEPT !.thread = t]
<1>2. /\ b \in Pipelines
      /\ b.at = "scanned" /\ b.thread = t /\ b.version = Idle.version
      /\ b.inputs = Idle.inputs /\ b.left = Idle.left
  BY <1>1, JobConstants DEF Pipelines
<1> HIDE DEF b
<1> DEFINE c == [b EXCEPT !.version = v]
<1>3. /\ c \in Pipelines
      /\ c.at = "scanned" /\ c.thread = t /\ c.version = v
      /\ c.inputs = Idle.inputs /\ c.left = Idle.left
  BY <1>2, JobConstants DEF Pipelines
<1> HIDE DEF c
<1>4. [Idle EXCEPT !.at = "scanned", !.thread = t, !.version = v] = c
  BY DEF a, b, c
<1>5. QED
  BY <1>3, <1>4

\* A worker that has been given the lock.
LEMMA ClaimedType ==
    LET q == [Idle EXCEPT !.at = "claimed", !.left = Lease]
    IN  /\ q \in Pipelines
        /\ q.at = "claimed" /\ q.thread = Idle.thread /\ q.version = Idle.version
        /\ q.inputs = Idle.inputs /\ q.left = Lease
<1> DEFINE a == [Idle EXCEPT !.at = "claimed"]
<1>1. /\ a \in Pipelines
      /\ a.at = "claimed" /\ a.thread = Idle.thread /\ a.version = Idle.version
      /\ a.inputs = Idle.inputs /\ a.left = Idle.left
  BY FreshRows, JobConstants DEF Pipelines
<1> HIDE DEF a
<1> DEFINE b == [a EXCEPT !.left = Lease]
<1>2. /\ b \in Pipelines
      /\ b.at = "claimed" /\ b.thread = Idle.thread /\ b.version = Idle.version
      /\ b.inputs = Idle.inputs /\ b.left = Lease
  BY <1>1, JobConstants DEF Pipelines
<1> HIDE DEF b
<1>3. [Idle EXCEPT !.at = "claimed", !.left = Lease] = b
  BY DEF a, b
<1>4. QED
  BY <1>2, <1>3

\* A worker that goes on with a whole lease.
LEMMA LeasedType ==
    ASSUME NEW p \in Pipelines, NEW step \in {"sampling", "confirmed"}
    PROVE  LET q == [p EXCEPT !.at = step, !.left = Lease]
           IN  /\ q \in Pipelines
               /\ q.at = step /\ q.thread = p.thread /\ q.version = p.version
               /\ q.inputs = p.inputs /\ q.left = Lease
<1> DEFINE a == [p EXCEPT !.at = step]
<1>1. /\ a \in Pipelines
      /\ a.at = step /\ a.thread = p.thread /\ a.version = p.version
      /\ a.inputs = p.inputs /\ a.left = p.left
  BY JobConstants DEF Pipelines
<1> HIDE DEF a
<1> DEFINE b == [a EXCEPT !.left = Lease]
<1>2. /\ b \in Pipelines
      /\ b.at = step /\ b.thread = p.thread /\ b.version = p.version
      /\ b.inputs = p.inputs /\ b.left = Lease
  BY <1>1, JobConstants DEF Pipelines
<1> HIDE DEF b
<1>3. [p EXCEPT !.at = step, !.left = Lease] = b
  BY DEF a, b
<1>4. QED
  BY <1>2, <1>3

\* A job row after a tick.
LEMMA TickedJob ==
    ASSUME NEW r \in JobRows, Less(r.left) \in 0..Lease, Less(r.retry) \in 0..Delay
    PROVE  LET q == [r EXCEPT !.left = Less(r.left), !.retry = Less(r.retry)]
           IN  /\ q \in JobRows
               /\ q.owner = r.owner /\ q.left = Less(r.left) /\ q.retry = Less(r.retry)
               /\ q.remaining = r.remaining /\ q.input = r.input /\ q.success = r.success
<1> DEFINE a == [r EXCEPT !.left = Less(r.left)]
<1>1. /\ a \in JobRows
      /\ a.owner = r.owner /\ a.left = Less(r.left) /\ a.retry = r.retry
      /\ a.remaining = r.remaining /\ a.input = r.input /\ a.success = r.success
  BY JobConstants DEF JobRows
<1> HIDE DEF a
<1> DEFINE b == [a EXCEPT !.retry = Less(r.retry)]
<1>2. /\ b \in JobRows
      /\ b.owner = r.owner /\ b.left = Less(r.left) /\ b.retry = Less(r.retry)
      /\ b.remaining = r.remaining /\ b.input = r.input /\ b.success = r.success
  BY <1>1, JobConstants DEF JobRows
<1> HIDE DEF b
<1>3. [r EXCEPT !.left = Less(r.left), !.retry = Less(r.retry)] = b
  BY DEF a, b
<1>4. QED
  BY <1>2, <1>3

\* The lock after a tick.
LEMMA TickedLock ==
    ASSUME NEW r \in LockRows, Less(r.left) \in 0..Lease, Less(r.retry) \in 0..Delay,
           Less(r.cooldown) \in 0..Delay
    PROVE  LET q == [r EXCEPT !.left = Less(r.left), !.retry = Less(r.retry),
                              !.cooldown = Less(r.cooldown)]
           IN  /\ q \in LockRows
               /\ q.owner = r.owner /\ q.left = Less(r.left) /\ q.retry = Less(r.retry)
               /\ q.cooldown = Less(r.cooldown)
<1> DEFINE a == [r EXCEPT !.left = Less(r.left)]
<1>1. /\ a \in LockRows
      /\ a.owner = r.owner /\ a.left = Less(r.left) /\ a.retry = r.retry
      /\ a.cooldown = r.cooldown
  BY JobConstants DEF LockRows
<1> HIDE DEF a
<1> DEFINE b == [a EXCEPT !.retry = Less(r.retry)]
<1>2. /\ b \in LockRows
      /\ b.owner = r.owner /\ b.left = Less(r.left) /\ b.retry = Less(r.retry)
      /\ b.cooldown = r.cooldown
  BY <1>1, JobConstants DEF LockRows
<1> HIDE DEF b
<1> DEFINE c == [b EXCEPT !.cooldown = Less(r.cooldown)]
<1>3. /\ c \in LockRows
      /\ c.owner = r.owner /\ c.left = Less(r.left) /\ c.retry = Less(r.retry)
      /\ c.cooldown = Less(r.cooldown)
  BY <1>2, JobConstants DEF LockRows
<1> HIDE DEF c
<1>4. [r EXCEPT !.left = Less(r.left), !.retry = Less(r.retry), !.cooldown = Less(r.cooldown)] = c
  BY DEF a, b, c
<1>5. QED
  BY <1>3, <1>4

\* What is left of a lease shrinks to nothing.
LEMMA LessType == ASSUME NEW n \in Nat PROVE Less(n) \in 0..n /\ (Less(n) > 0 => n > 0)
BY DEF Less

\* What a tick does to a job row.
LEMMA TickedJobs ==
    ASSUME Tick, job \in [Threads -> JobRows], NEW t \in Threads
    PROVE  /\ job'[t] \in JobRows /\ job'[t].owner = job[t].owner
           /\ job'[t].remaining = job[t].remaining /\ job'[t].input = job[t].input
           /\ job'[t].success = job[t].success /\ job'[t].left = Less(job[t].left)
<1>1. job[t] \in JobRows /\ job[t].left \in 0..Lease /\ job[t].retry \in 0..Delay
  BY DEF JobRows
<1>2. Less(job[t].left) \in 0..Lease /\ Less(job[t].retry) \in 0..Delay
  BY <1>1, JobConstants DEF Less
<1>3. job'[t] = [job[t] EXCEPT !.left = Less(job[t].left), !.retry = Less(job[t].retry)]
  BY DEF Tick
<1>4. QED
  BY ZenonT(60), <1>1, <1>2, <1>3, TickedJob

\* What a tick does to the lock.
LEMMA TickedTheLock ==
    ASSUME Tick, lock \in LockRows
    PROVE  lock' \in LockRows /\ lock'.owner = lock.owner /\ lock'.left = Less(lock.left)
<1>1. lock.left \in 0..Lease /\ lock.retry \in 0..Delay /\ lock.cooldown \in 0..Delay
  BY DEF LockRows
<1>2. /\ Less(lock.left) \in 0..Lease /\ Less(lock.retry) \in 0..Delay
      /\ Less(lock.cooldown) \in 0..Delay
  BY <1>1, JobConstants DEF Less
<1>3. lock' = [lock EXCEPT !.left = Less(lock.left), !.retry = Less(lock.retry),
                           !.cooldown = Less(lock.cooldown)]
  BY DEF Tick
<1>4. QED
  BY <1>2, <1>3, TickedLock

\* What a tick does to a worker.
LEMMA TickedWorker ==
    ASSUME Tick, worker \in [Workers -> Pipelines], NEW w \in Workers
    PROVE  /\ worker'[w] \in Pipelines /\ worker'[w].at = worker[w].at
           /\ worker'[w].thread = worker[w].thread /\ worker'[w].version = worker[w].version
           /\ worker'[w].inputs = worker[w].inputs /\ worker'[w].left = Less(worker[w].left)
<1>1. worker[w] \in Pipelines /\ worker[w].left \in 0..Lease
  BY DEF Pipelines
<1>2. Less(worker[w].left) \in 0..Lease
  BY <1>1, JobConstants DEF Less
<1>3. worker'[w] = [worker[w] EXCEPT !.left = Less(worker[w].left)]
  BY DEF Tick
<1>4. QED
  BY <1>1, <1>2, <1>3 DEF Pipelines

\* An enqueued consolidation keeps the lock's type.
LEMMA EnqueuedType == lock \in LockRows => Enqueued \in LockRows
BY JobConstants DEF Enqueued, LockRows

\* UpdateThread keeps the types.
LEMMA UpdateThreadT ==
    ASSUME TInv, NEW t \in Threads, UpdateThread(t) PROVE TInv'
<1> USE JobConstants DEF TInv, UpdateThread, External, database, files, repository, outside
<1>1. TypeOK'
  BY DEF TypeOK, HasThread, RetryBudget, JobRows, LockRows, Pipelines, Inputs
<1>2. HasThread'
  BY DEF TypeOK, HasThread, Pipelines
<1>3. RetryBudget'
  BY DEF TypeOK, HasThread, RetryBudget, JobRows, LockRows, Pipelines
<1>4. QED
  BY <1>1, <1>2, <1>3

\* Prune keeps the types.
LEMMA PruneT ==
    ASSUME TInv, NEW t \in Threads, Prune(t) PROVE TInv'
<1> USE JobConstants DEF TInv, Prune, External, database, files, repository, outside
<1>1. TypeOK'
  BY DEF TypeOK, HasThread, RetryBudget, JobRows, LockRows, Pipelines, Inputs
<1>2. HasThread'
  BY DEF TypeOK, HasThread, Pipelines
<1>3. RetryBudget'
  BY DEF TypeOK, HasThread, RetryBudget, JobRows, LockRows, Pipelines
<1>4. QED
  BY <1>1, <1>2, <1>3

\* Pollute keeps the types.
LEMMA PolluteT ==
    ASSUME TInv, NEW t \in Threads, Pollute(t) PROVE TInv'
<1> USE JobConstants DEF TInv, Pollute, External, Enqueued, database, files, repository, outside
<1>1. TypeOK'
  BY SMTT(60) DEF TypeOK, HasThread, RetryBudget, JobRows, LockRows, Pipelines, Inputs
<1>2. HasThread'
  BY DEF TypeOK, HasThread, Pipelines
<1>3. RetryBudget'
  BY DEF TypeOK, HasThread, RetryBudget, JobRows, LockRows, Pipelines
<1>4. QED
  BY <1>1, <1>2, <1>3

\* Scan keeps the types.
LEMMA ScanT ==
    ASSUME TInv, NEW w \in Workers, NEW t \in Threads, Scan(w, t) PROVE TInv'
<1>0. PICK v \in 1..Versions : v = version[t]
  BY DEF TInv, TypeOK
<1> DEFINE P == [Idle EXCEPT !.at = "scanned", !.thread = t, !.version = v]
<1>1. P \in Pipelines /\ P.thread = t /\ P.version = v
  BY ZenonT(60), ScannedType
<1> USE JobConstants DEF TInv, Scan, database, files, repository, outside
<1>2. worker' = [worker EXCEPT ![w] = P]
  BY <1>0
<1> HIDE DEF P
<1>3. TypeOK'
  BY <1>1, <1>2 DEF TypeOK
<1>4. HasThread'
  BY <1>1, <1>2 DEF TypeOK, HasThread
<1>5. RetryBudget'
  BY DEF RetryBudget
<1>6. QED
  BY <1>3, <1>4, <1>5

\* ClaimStage1 keeps the types.
LEMMA ClaimStage1T ==
    ASSUME TInv, NEW w \in Workers, ClaimStage1(w) PROVE TInv'
<1> USE JobConstants DEF TInv, ClaimStage1, database, files, repository, outside
<1> DEFINE u == worker[w].thread
           v == worker[w].version
           Row == [owner |-> w, left |-> Lease, retry |-> 0,
                   remaining |-> IF v > job[u].input THEN Retries ELSE job[u].remaining,
                   input |-> v, success |-> job[u].success]
           P == [worker[w] EXCEPT !.at = "sampling", !.left = Lease]
<1>1. u \in Threads /\ v \in 1..Versions /\ worker[w] \in Pipelines /\ job[u] \in JobRows
  BY DEF HasThread, TypeOK
<1>2. CASE Claimable(u, v)
  <2>1. job' = [job EXCEPT ![u] = Row] /\ worker' = [worker EXCEPT ![w] = P]
    BY <1>1, <1>2 DEF TypeOK, Pipelines
  <2>2. Row \in JobRows /\ Row.owner = w /\ Row.remaining \in 1..Retries
    BY <1>1, <1>2 DEF JobRows, Claimable
  <2>3. P \in Pipelines /\ P.thread = u /\ P.version = v
    BY <1>1, LeasedType
  <2> HIDE DEF Row, P, u, v
  <2>4. TypeOK'
    BY <1>1, <2>1, <2>2, <2>3 DEF TypeOK
  <2>5. HasThread'
    BY <1>1, <2>1, <2>3 DEF TypeOK, HasThread
  <2>6. RetryBudget'
    BY <1>1, <2>1, <2>2 DEF TypeOK, RetryBudget
  <2>7. QED
    BY <2>4, <2>5, <2>6
<1>3. CASE ~Claimable(u, v)
  <2>1. UNCHANGED job /\ worker' = [worker EXCEPT ![w] = Idle]
    BY <1>3
  <2>2. TypeOK' /\ RetryBudget'
    BY <2>1, FreshRows DEF TypeOK, RetryBudget
  <2>3. HasThread'
    BY <2>1 DEF TypeOK, HasThread, Idle
  <2>4. QED
    BY <2>2, <2>3
<1>4. QED
  BY <1>2, <1>3

\* Stage1Succeeded keeps the types.
LEMMA Stage1SucceededT ==
    ASSUME TInv, NEW w \in Workers, Stage1Succeeded(w) PROVE TInv'
<1> USE JobConstants DEF TInv, Stage1Succeeded, database, files, repository, outside
<1> DEFINE u == worker[w].thread
<1>1. u \in Threads /\ worker[w].version \in 1..Versions /\ job[u] \in JobRows
  BY DEF HasThread, TypeOK
<1>2. Done(job[u]) \in JobRows /\ Done(job[u]).owner = NoWorker
  BY <1>1, DoneType
<1>3. job' \in [Threads -> JobRows] /\ RetryBudget'
  <2>1. CASE Owns(w)
    <3>1. job' = [job EXCEPT ![u] = Done(job[u])]
      BY <2>1
    <3>2. QED
      BY <1>1, <1>2, <3>1 DEF TypeOK, RetryBudget
  <2>2. CASE ~Owns(w)
    BY <2>2 DEF TypeOK, RetryBudget
  <2>3. QED
    BY <2>1, <2>2
<1>4. output' \in [Threads -> 0..Versions] /\ selected' \subseteq {t \in Threads : output'[t] # 0}
  BY <1>1 DEF TypeOK
<1>5. lock' \in LockRows
  BY EnqueuedType DEF TypeOK
<1>6. worker' \in [Workers -> Pipelines]
  BY FreshRows DEF TypeOK
<1>7. TypeOK'
  BY <1>3, <1>4, <1>5, <1>6 DEF TypeOK
<1>8. HasThread'
  BY DEF TypeOK, HasThread, Idle
<1>9. QED
  BY <1>3, <1>7, <1>8

\* Stage1NoOutput keeps the types.
LEMMA Stage1NoOutputT ==
    ASSUME TInv, NEW w \in Workers, Stage1NoOutput(w) PROVE TInv'
<1> USE JobConstants DEF TInv, Stage1NoOutput, database, files, repository, outside
<1> DEFINE u == worker[w].thread
<1>1. u \in Threads /\ worker[w].version \in 1..Versions /\ job[u] \in JobRows
  BY DEF HasThread, TypeOK
<1>2. Done(job[u]) \in JobRows /\ Done(job[u]).owner = NoWorker
  BY <1>1, DoneType
<1>3. job' \in [Threads -> JobRows] /\ RetryBudget'
  <2>1. CASE Owns(w)
    <3>1. job' = [job EXCEPT ![u] = Done(job[u])]
      BY <2>1
    <3>2. QED
      BY <1>1, <1>2, <3>1 DEF TypeOK, RetryBudget
  <2>2. CASE ~Owns(w)
    BY <2>2 DEF TypeOK, RetryBudget
  <2>3. QED
    BY <2>1, <2>2
<1>4. output' \in [Threads -> 0..Versions] /\ selected' \subseteq {t \in Threads : output'[t] # 0}
  BY <1>1 DEF TypeOK
<1>5. lock' \in LockRows
  BY EnqueuedType DEF TypeOK
<1>6. worker' \in [Workers -> Pipelines]
  BY FreshRows DEF TypeOK
<1>7. TypeOK'
  BY <1>3, <1>4, <1>5, <1>6 DEF TypeOK
<1>8. HasThread'
  BY DEF TypeOK, HasThread, Idle
<1>9. QED
  BY <1>3, <1>7, <1>8

\* A failed job is nobody's and has lost a retry.
LEMMA FailedType ==
    ASSUME NEW r \in JobRows, r.remaining \in 1..Retries
    PROVE  LET q == [r EXCEPT !.owner = NoWorker, !.left = 0, !.retry = Delay, !.remaining = r.remaining - 1]
           IN  /\ q \in JobRows
               /\ q.owner = NoWorker /\ q.left = 0 /\ q.retry = Delay
               /\ q.remaining = r.remaining - 1 /\ q.input = r.input /\ q.success = r.success
<1> DEFINE a == [r EXCEPT !.owner = NoWorker]
<1>1. /\ a \in JobRows
      /\ a.owner = NoWorker /\ a.left = r.left /\ a.retry = r.retry
      /\ a.remaining = r.remaining /\ a.input = r.input /\ a.success = r.success
  BY JobConstants DEF JobRows
<1> HIDE DEF a
<1> DEFINE b == [a EXCEPT !.left = 0]
<1>2. /\ b \in JobRows
      /\ b.owner = NoWorker /\ b.left = 0 /\ b.retry = r.retry
      /\ b.remaining = r.remaining /\ b.input = r.input /\ b.success = r.success
  BY <1>1, JobConstants DEF JobRows
<1> HIDE DEF b
<1> DEFINE c == [b EXCEPT !.retry = Delay]
<1>3. /\ c \in JobRows
      /\ c.owner = NoWorker /\ c.left = 0 /\ c.retry = Delay
      /\ c.remaining = r.remaining /\ c.input = r.input /\ c.success = r.success
  BY <1>2, JobConstants DEF JobRows
<1> HIDE DEF c
<1> DEFINE d == [c EXCEPT !.remaining = r.remaining - 1]
<1>4. /\ d \in JobRows
      /\ d.owner = NoWorker /\ d.left = 0 /\ d.retry = Delay
      /\ d.remaining = r.remaining - 1 /\ d.input = r.input /\ d.success = r.success
  BY <1>3, JobConstants DEF JobRows
<1> HIDE DEF d
<1>5. [r EXCEPT !.owner = NoWorker, !.left = 0, !.retry = Delay, !.remaining = r.remaining - 1] = d
  BY DEF a, b, c, d
<1>6. QED
  BY <1>4, <1>5

\* Stage1Failed keeps the types: the job that fails had a retry left.
LEMMA Stage1FailedT ==
    ASSUME TInv, NEW w \in Workers, Stage1Failed(w) PROVE TInv'
<1> DEFINE u == worker[w].thread
           Row == [job[u] EXCEPT !.owner = NoWorker, !.left = 0, !.retry = Delay,
                                 !.remaining = job[u].remaining - 1]
<1>1. /\ u \in Threads /\ job \in [Threads -> JobRows] /\ job[u] \in JobRows
      /\ worker \in [Workers -> Pipelines] /\ Idle \in Pipelines
  BY FreshRows DEF TInv, HasThread, TypeOK, Stage1Failed
<1>2. job' = job \/ (Owns(w) /\ job' = [job EXCEPT ![u] = Row])
  BY DEF Stage1Failed
<1>3. Owns(w) => Row \in JobRows /\ Row.owner = NoWorker
  <2>1. Owns(w) => job[u].remaining \in 1..Retries
    BY <1>1, JobConstants DEF Owns, TInv, RetryBudget
  <2>2. QED
    BY <1>1, <2>1, FailedType
<1> HIDE DEF Row
<1>4. /\ worker' = [worker EXCEPT ![w] = Idle] /\ Idle.at = "idle"
      /\ UNCHANGED <<version, polluted, output, selected, lock, workspace, baseline, seen,
                     usable, events, cleared, damaged>>
  BY DEF Stage1Failed, files, repository, outside, Idle
<1>5. TypeOK'
  <2>1. job' \in [Threads -> JobRows] /\ worker' \in [Workers -> Pipelines]
    BY <1>1, <1>2, <1>3, <1>4
  <2>2. QED
    BY <1>4, <2>1 DEF TInv, TypeOK
<1>6. HasThread'
  BY <1>1, <1>4 DEF TInv, HasThread
<1>7. RetryBudget'
  BY <1>1, <1>2, <1>3 DEF TInv, RetryBudget
<1>8. QED
  BY <1>5, <1>6, <1>7 DEF TInv

\* ClaimPhase2 keeps the types.
LEMMA ClaimPhase2T ==
    ASSUME TInv, NEW w \in Workers, ClaimPhase2(w) PROVE TInv'
<1> USE JobConstants DEF TInv, ClaimPhase2, database, files, repository, outside
<1> DEFINE P == [Idle EXCEPT !.at = "claimed", !.left = Lease]
<1>1. P \in Pipelines /\ P.at = "claimed"
  BY ClaimedType
<1>2. worker' = [worker EXCEPT ![w] = P]
  OBVIOUS
<1>3. lock' \in LockRows
  BY DEF LockRows
<1> HIDE DEF P
<1>4. TypeOK'
  BY <1>1, <1>2, <1>3 DEF TypeOK
<1>5. HasThread' /\ RetryBudget'
  BY <1>1, <1>2 DEF TypeOK, HasThread, RetryBudget
<1>6. QED
  BY <1>4, <1>5

\* Prepare keeps the types.
LEMMA PrepareT ==
    ASSUME TInv, NEW w \in Workers, Prepare(w) PROVE TInv'
<1> USE JobConstants DEF TInv, Prepare, CommitCurrentTree, database, files, repository, outside
<1>1. TypeOK'
  <2>1. worker' \in [Workers -> Pipelines]
    BY DEF TypeOK, Pipelines
  <2>2. QED
    BY <2>1 DEF TypeOK
<1>2. HasThread'
  BY DEF TypeOK, HasThread, Pipelines
<1>3. RetryBudget'
  BY DEF TypeOK, HasThread, RetryBudget, JobRows, LockRows, Pipelines
<1>4. QED
  BY <1>1, <1>2, <1>3

\* LoadInputs keeps the types.
LEMMA LoadInputsT ==
    ASSUME TInv, NEW w \in Workers, LoadInputs(w) PROVE TInv'
<1> USE JobConstants DEF TInv, LoadInputs, Inputs, database, files, repository, outside
<1>1. TypeOK'
  BY DEF TypeOK, HasThread, RetryBudget, JobRows, LockRows, Pipelines, Inputs
<1>2. HasThread'
  BY DEF TypeOK, HasThread, Pipelines
<1>3. RetryBudget'
  BY DEF TypeOK, HasThread, RetryBudget, JobRows, LockRows, Pipelines
<1>4. QED
  BY <1>1, <1>2, <1>3

\* CompareWithBaseline keeps the types.
LEMMA CompareWithBaselineT ==
    ASSUME TInv, NEW w \in Workers, CompareWithBaseline(w) PROVE TInv'
<1> USE JobConstants DEF TInv, CompareWithBaseline, database, files, repository, outside
<1>1. TypeOK'
  <2>1. worker' \in [Workers -> Pipelines]
    BY DEF TypeOK, Pipelines
  <2>2. QED
    BY <2>1 DEF TypeOK
<1>2. HasThread'
  BY DEF TypeOK, HasThread, Pipelines
<1>3. RetryBudget'
  BY DEF TypeOK, HasThread, RetryBudget, JobRows, LockRows, Pipelines
<1>4. QED
  BY <1>1, <1>2, <1>3

\* Heartbeat keeps the types.
LEMMA HeartbeatT ==
    ASSUME TInv, NEW w \in Workers, Heartbeat(w) PROVE TInv'
<1> USE JobConstants DEF TInv, Heartbeat, database, files, repository, outside
<1> DEFINE P == IF OwnsLock(w) THEN [worker[w] EXCEPT !.left = Lease] ELSE Idle
<1>1. P \in Pipelines /\ P.at \in {"agent", "confirmed", "idle"}
  BY FreshRows, LeasedType DEF TypeOK, Pipelines, Idle
<1>2. worker' = [worker EXCEPT ![w] = P]
  BY DEF TypeOK, Pipelines
<1>3. lock' \in LockRows
  BY DEF TypeOK, LockRows
<1> HIDE DEF P
<1>4. TypeOK'
  BY <1>1, <1>2, <1>3 DEF TypeOK
<1>5. HasThread' /\ RetryBudget'
  BY <1>1, <1>2 DEF TypeOK, HasThread, RetryBudget
<1>6. QED
  BY <1>4, <1>5

\* AgentCompletes keeps the types.
LEMMA AgentCompletesT ==
    ASSUME TInv, NEW w \in Workers, AgentCompletes(w) PROVE TInv'
<1> USE JobConstants DEF TInv, AgentCompletes, database, files, repository, outside
<1>1. TypeOK'
  BY SMTT(60) DEF TypeOK, HasThread, RetryBudget, JobRows, LockRows, Pipelines, Inputs
<1>2. HasThread'
  BY DEF TypeOK, HasThread, Pipelines
<1>3. RetryBudget'
  BY DEF TypeOK, HasThread, RetryBudget, JobRows, LockRows, Pipelines
<1>4. QED
  BY <1>1, <1>2, <1>3

\* ConfirmLock keeps the types.
LEMMA ConfirmLockT ==
    ASSUME TInv, NEW w \in Workers, ConfirmLock(w) PROVE TInv'
<1> USE JobConstants DEF TInv, ConfirmLock, database, files, repository, outside
<1> DEFINE P == IF OwnsLock(w) THEN [worker[w] EXCEPT !.at = "confirmed", !.left = Lease] ELSE Idle
<1>1. P \in Pipelines /\ P.at \in {"agent", "confirmed", "idle"}
  BY FreshRows, LeasedType DEF TypeOK, Pipelines, Idle
<1>2. worker' = [worker EXCEPT ![w] = P]
  BY DEF TypeOK, Pipelines
<1>3. lock' \in LockRows
  BY DEF TypeOK, LockRows
<1> HIDE DEF P
<1>4. TypeOK'
  BY <1>1, <1>2, <1>3 DEF TypeOK
<1>5. HasThread' /\ RetryBudget'
  BY <1>1, <1>2 DEF TypeOK, HasThread, RetryBudget
<1>6. QED
  BY <1>4, <1>5

\* RemoveBaseline keeps the types.
LEMMA RemoveBaselineT ==
    ASSUME TInv, NEW w \in Workers, RemoveBaseline(w) PROVE TInv'
<1> USE JobConstants DEF TInv, RemoveBaseline, database, files, repository, outside
<1>1. TypeOK'
  <2>1. worker' \in [Workers -> Pipelines]
    BY DEF TypeOK, Pipelines
  <2>2. QED
    BY <2>1 DEF TypeOK
<1>2. HasThread'
  BY DEF TypeOK, HasThread, Pipelines
<1>3. RetryBudget'
  BY DEF TypeOK, HasThread, RetryBudget, JobRows, LockRows, Pipelines
<1>4. QED
  BY <1>1, <1>2, <1>3

\* ResetBaseline keeps the types.
LEMMA ResetBaselineT ==
    ASSUME TInv, NEW w \in Workers, ResetBaseline(w) PROVE TInv'
<1> USE JobConstants DEF TInv, ResetBaseline, CommitCurrentTree, database, files, repository,
        outside
<1>1. TypeOK'
  <2>1. worker' \in [Workers -> Pipelines]
    BY DEF TypeOK, Pipelines
  <2>2. QED
    BY <2>1 DEF TypeOK
<1>2. HasThread'
  BY DEF TypeOK, HasThread, Pipelines
<1>3. RetryBudget'
  BY DEF TypeOK, HasThread, RetryBudget, JobRows, LockRows, Pipelines
<1>4. QED
  BY <1>1, <1>2, <1>3

\* Phase2Succeeded keeps the types.
LEMMA Phase2SucceededT ==
    ASSUME TInv, NEW w \in Workers, Phase2Succeeded(w) PROVE TInv'
<1> USE JobConstants DEF TInv, Phase2Succeeded, database, files, repository, outside
<1>1. worker' \in [Workers -> Pipelines]
  BY FreshRows DEF TypeOK
<1>2. lock' \in LockRows
  BY FreshRows DEF TypeOK, LockRows
<1>3. selected' \subseteq {t \in Threads : output[t] # 0}
  BY DEF TypeOK
<1>4. TypeOK'
  BY <1>1, <1>2, <1>3 DEF TypeOK
<1>5. HasThread' /\ RetryBudget'
  BY DEF TypeOK, HasThread, RetryBudget, Idle
<1>6. QED
  BY <1>4, <1>5

\* Phase2Failed keeps the types.
LEMMA Phase2FailedT ==
    ASSUME TInv, NEW w \in Workers, Phase2Failed(w) PROVE TInv'
<1> USE JobConstants DEF TInv, Phase2Failed, OwnsLock, LockAfterFailure, Free, Idle, database,
        files, repository, outside
<1>1. TypeOK'
  BY DEF TypeOK, HasThread, RetryBudget, JobRows, LockRows, Pipelines, Inputs
<1>2. HasThread'
  BY DEF TypeOK, HasThread, Pipelines
<1>3. RetryBudget'
  BY DEF TypeOK, HasThread, RetryBudget, JobRows, LockRows, Pipelines
<1>4. QED
  BY <1>1, <1>2, <1>3

\* Killed keeps the types.
LEMMA KilledT ==
    ASSUME TInv, NEW w \in Workers, Killed(w) PROVE TInv'
<1> USE JobConstants DEF TInv, Killed, External, Idle, database, files, repository, outside
<1>1. TypeOK'
  BY DEF TypeOK, HasThread, RetryBudget, JobRows, LockRows, Pipelines, Inputs
<1>2. HasThread'
  BY DEF TypeOK, HasThread, Pipelines
<1>3. RetryBudget'
  BY DEF TypeOK, HasThread, RetryBudget, JobRows, LockRows, Pipelines
<1>4. QED
  BY <1>1, <1>2, <1>3

\* ClearMemoryData keeps the types.
LEMMA ClearMemoryDataT ==
    ASSUME TInv, ClearMemoryData PROVE TInv'
<1> USE JobConstants DEF TInv, ClearMemoryData, External, NoJob, Free, database, files,
        repository, outside
<1>1. TypeOK'
  <2>1. job' \in [Threads -> JobRows] /\ lock' \in LockRows
    BY DEF JobRows, LockRows
  <2>2. selected' \subseteq {t \in Threads : output'[t] # 0}
    OBVIOUS
  <2>3. output' \in [Threads -> 0..Versions] /\ events' \in 0..Events
    BY DEF TypeOK
  <2>4. QED
    BY <2>1, <2>2, <2>3 DEF TypeOK
<1>2. HasThread'
  BY DEF TypeOK, HasThread, Pipelines
<1>3. RetryBudget'
  BY DEF TypeOK, HasThread, RetryBudget, JobRows, LockRows, Pipelines
<1>4. QED
  BY <1>1, <1>2, <1>3

\* LoseRepository keeps the types.
LEMMA LoseRepositoryT == ASSUME TInv, LoseRepository PROVE TInv'
<1>1. TypeOK'
  <2>1. events' \in 0..Events
    BY JobConstants DEF TInv, TypeOK, LoseRepository, External
  <2>2. /\ UNCHANGED <<version, polluted, job, output, selected, lock, worker, workspace, seen,
                      cleared>>
        /\ baseline' = {} /\ usable' \in BOOLEAN /\ damaged' \in BOOLEAN
    BY DEF LoseRepository, database
  <2>3. QED
    BY <2>1, <2>2 DEF TInv, TypeOK
<1>2. HasThread' /\ RetryBudget'
  BY DEF TInv, LoseRepository, HasThread, RetryBudget, database
<1>3. QED
  BY <1>1, <1>2 DEF TInv

\* Tick keeps the types.
LEMMA TickT ==
    ASSUME TInv, Tick PROVE TInv'
<1> USE DEF TInv, Tick, outside
<1>1. ASSUME NEW t \in Threads
      PROVE  /\ job'[t] \in JobRows /\ job'[t].owner = job[t].owner
             /\ job'[t].remaining = job[t].remaining
  BY TickedJobs DEF TypeOK
<1>2. lock' \in LockRows
  BY TickedTheLock DEF TypeOK
<1>3. ASSUME NEW w \in Workers
      PROVE  /\ worker'[w] \in Pipelines /\ worker'[w].at = worker[w].at
             /\ worker'[w].thread = worker[w].thread /\ worker'[w].version = worker[w].version
  BY TickedWorker DEF TypeOK
<1>4. job' \in [Threads -> JobRows] /\ worker' \in [Workers -> Pipelines]
  BY <1>1, <1>3
<1>5. TypeOK'
  BY <1>2, <1>4 DEF TypeOK, files, repository
<1>6. HasThread' /\ RetryBudget'
  BY <1>1, <1>3 DEF HasThread, RetryBudget
<1>7. QED
  BY <1>5, <1>6

\* Every step keeps the types.
LEMMA StepTypes == TInv /\ [Next]_vars => TInv'
<1> SUFFICES ASSUME TInv, [Next]_vars PROVE TInv'
  OBVIOUS
<1>1. CASE UNCHANGED vars
  BY <1>1 DEF vars, database, files, repository, outside, TInv, TypeOK, HasThread, RetryBudget
<1>2. CASE Next
  BY <1>2, UpdateThreadT, PruneT, PolluteT, ScanT, ClaimStage1T, Stage1SucceededT,
    Stage1NoOutputT, Stage1FailedT, ClaimPhase2T, PrepareT, LoadInputsT,
    CompareWithBaselineT, HeartbeatT, AgentCompletesT, ConfirmLockT, RemoveBaselineT,
    ResetBaselineT, Phase2SucceededT, Phase2FailedT, KilledT, ClearMemoryDataT, LoseRepositoryT,
    TickT DEF Next
<1>3. QED
  BY <1>1, <1>2

\* Rows, locks and pipelines keep their types, and the retries left are never negative.
THEOREM TypeTheorem == Spec => []TypeOK
<1>1. TInv => TypeOK
  BY DEF TInv
<1>2. QED
  BY <1>1, InitTypes, StepTypes, PTL DEF Spec

\* A job that runs has a retry left: a claim gives it one or finds one.
THEOREM RetryBudgetTheorem == Spec => []RetryBudget
<1>1. TInv => RetryBudget
  BY DEF TInv
<1>2. QED
  BY <1>1, InitTypes, StepTypes, PTL DEF Spec

-----------------------------------------------------------------------------
(* Results: a late one is not stored. *)

\* The row of a job names the version that its owner works on.
RowIsOwners ==
    \A w \in Workers :
        worker[w].at = "sampling" /\ job[worker[w].thread].owner = w =>
            job[worker[w].thread].input = worker[w].version

\* A job that runs is about a newer version than the output there is.
OwnedIsNewer ==
    \A t \in Threads : job[t].owner # NoWorker => output[t] < job[t].input

\* The inductive invariant of the results.
RInv == TInv /\ RowIsOwners /\ OwnedIsNewer /\ OutputIsOfSuccess

\* A step that touches neither rows nor outputs and lets no worker begin a job.
Elsewhere ==
    /\ UNCHANGED <<job, output>>
    /\ \A w \in Workers : worker'[w].at = "sampling" => worker'[w] = worker[w]

\* Such a step keeps the results.
LEMMA ElsewhereR == ASSUME RInv, TInv', Elsewhere PROVE RInv'
<1> USE DEF RInv, Elsewhere
<1>1. RowIsOwners'
  BY DEF RowIsOwners
<1>2. OwnedIsNewer' /\ OutputIsOfSuccess'
  BY DEF OwnedIsNewer, OutputIsOfSuccess
<1>3. QED
  BY <1>1, <1>2

\* The scans, the steps of phase 2 and a kill are such steps.
LEMMA ElsewhereSteps ==
    ASSUME TInv, NEW w \in Workers,
           \/ (\E t \in Threads : Scan(w, t)) \/ ClaimPhase2(w) \/ Prepare(w) \/ LoadInputs(w)
           \/ CompareWithBaseline(w) \/ Heartbeat(w) \/ AgentCompletes(w) \/ ConfirmLock(w)
           \/ RemoveBaseline(w) \/ ResetBaseline(w) \/ Phase2Succeeded(w) \/ Phase2Failed(w)
           \/ Killed(w)
    PROVE  Elsewhere
<1> USE DEF TInv, TypeOK, Elsewhere, database, files, repository, outside
<1>1. CASE \E t \in Threads : Scan(w, t)
  BY <1>1 DEF Scan, Idle
<1>2. CASE ClaimPhase2(w)
  BY <1>2 DEF ClaimPhase2, Idle
<1>3. CASE LoadInputs(w)
  BY ZenonT(60), <1>3 DEF LoadInputs, Pipelines
<1>4. CASE Heartbeat(w)
  BY <1>4 DEF Heartbeat, Idle, Pipelines
<1>5. CASE AgentCompletes(w)
  BY <1>5 DEF AgentCompletes, Pipelines
<1>6. CASE ConfirmLock(w)
  BY <1>6 DEF ConfirmLock, Idle, Pipelines
<1>7. CASE Prepare(w) \/ CompareWithBaseline(w) \/ RemoveBaseline(w) \/ ResetBaseline(w)
  BY <1>7 DEF Prepare, CompareWithBaseline, RemoveBaseline, ResetBaseline, Pipelines
<1>8. CASE Phase2Succeeded(w) \/ Phase2Failed(w) \/ Killed(w)
  BY <1>8 DEF Phase2Succeeded, Phase2Failed, Killed, Idle
<1>9. QED
  BY <1>1, <1>2, <1>3, <1>4, <1>5, <1>6, <1>7, <1>8

\* Pruning keeps the results.
LEMMA PruneR == ASSUME RInv, TInv', NEW t \in Threads, Prune(t) PROVE RInv'
<1> USE DEF RInv, Prune
<1>1. RowIsOwners'
  BY DEF RowIsOwners
<1>2. OwnedIsNewer' /\ OutputIsOfSuccess'
  BY DEF OwnedIsNewer, OutputIsOfSuccess, TInv, TypeOK, JobRows
<1>3. QED
  BY <1>1, <1>2

\* A claim keeps the results: the row takes the claimed version, which is newer.
LEMMA ClaimStage1R == ASSUME RInv, TInv', NEW w \in Workers, ClaimStage1(w) PROVE RInv'
<1> DEFINE u == worker[w].thread
           v == worker[w].version
<1> USE DEF RInv, ClaimStage1
<1>1. /\ u \in Threads /\ v \in 1..Versions
      /\ worker \in [Workers -> Pipelines] /\ job \in [Threads -> JobRows]
  BY DEF TInv, HasThread, TypeOK
<1>2. CASE Claimable(u, v)
  <2>1. /\ job'[u].owner = w /\ job'[u].input = v /\ job'[u].success = job[u].success
        /\ \A t \in Threads \ {u} : job'[t] = job[t]
    BY <1>1, <1>2
  <2>2. worker'[w] = [worker[w] EXCEPT !.at = "sampling", !.left = Lease]
    BY <1>1, <1>2
  <2>3. \A x \in Workers \ {w} : worker'[x] = worker[x]
    BY <1>1, <1>2
  <2> HIDE DEF RInv, ClaimStage1
  <2>4. worker'[w].thread = worker[w].thread /\ worker'[w].version = worker[w].version
    <3>1. worker[w] \in Pipelines
      BY <1>1
    <3>2. QED
      BY ZenonT(60), <2>2, <3>1, LeasedType
  <2> HIDE DEF u, v
  <2>5. worker'[w].thread = u /\ worker'[w].version = v
    BY <2>4 DEF u, v
  <2>6. RowIsOwners'
    BY <1>1, <2>1, <2>3, <2>5 DEF RInv, RowIsOwners, TInv, HasThread
  <2>7. UNCHANGED output /\ v > output[u]
    BY <1>2 DEF ClaimStage1, Claimable
  <2>8. OwnedIsNewer' /\ OutputIsOfSuccess'
    BY <1>1, <2>1, <2>7 DEF RInv, OwnedIsNewer, OutputIsOfSuccess, TInv, TypeOK
  <2>9. QED
    BY <2>6, <2>8 DEF RInv
<1>3. CASE ~Claimable(u, v)
  <2>1. Elsewhere
    BY <1>1, <1>3 DEF Elsewhere, Idle
  <2>2. QED
    BY <2>1, ElsewhereR
<1>4. QED
  BY <1>2, <1>3

\* A worker that no longer owns its row only goes idle, and the worker that does ends
\* its job.
LEMMA SampledR ==
    ASSUME RInv, TInv', NEW w \in Workers, worker[w].at = "sampling",
           worker' = [worker EXCEPT ![w] = Idle],
           \/ UNCHANGED <<job, output>>
           \/ /\ Owns(w)
              /\ \A t \in Threads \ {worker[w].thread} : job'[t] = job[t] /\ output'[t] = output[t]
              /\ job'[worker[w].thread].owner = NoWorker
              /\ \/ output'[worker[w].thread] \in {0, job'[worker[w].thread].success}
                 \/ /\ output'[worker[w].thread] = output[worker[w].thread]
                    /\ job'[worker[w].thread].success = job[worker[w].thread].success
    PROVE  RInv'
<1> DEFINE u == worker[w].thread
<1> USE DEF RInv
<1>1. /\ u \in Threads /\ worker \in [Workers -> Pipelines]
      /\ \A x \in Workers \ {w} : worker'[x] = worker[x]
      /\ worker'[w].at = "idle"
  BY DEF TInv, HasThread, TypeOK, Idle
<1>2. CASE UNCHANGED <<job, output>>
  <2>1. Elsewhere
    BY <1>1, <1>2 DEF Elsewhere
  <2>2. QED
    BY <2>1, ElsewhereR
<1>3. CASE /\ \A t \in Threads \ {u} : job'[t] = job[t] /\ output'[t] = output[t]
           /\ job'[u].owner = NoWorker
           /\ \/ output'[u] \in {0, job'[u].success}
              \/ output'[u] = output[u] /\ job'[u].success = job[u].success
  <2>1. RowIsOwners'
    <3> SUFFICES ASSUME NEW x \in Workers, worker'[x].at = "sampling",
                        job'[worker'[x].thread].owner = x
                 PROVE  job'[worker'[x].thread].input = worker'[x].version
      BY DEF RowIsOwners
    <3>1. x # w /\ worker'[x] = worker[x] /\ worker[x].thread \in Threads
      BY <1>1 DEF TInv, HasThread
    <3>2. worker[x].thread # u
      BY <1>3, <3>1, JobConstants
    <3>3. job'[worker[x].thread] = job[worker[x].thread]
      BY <1>3, <3>1, <3>2
    <3>4. QED
      BY <3>1, <3>3 DEF RowIsOwners
  <2>2. OwnedIsNewer'
    BY <1>1, <1>3 DEF OwnedIsNewer
  <2>3. OutputIsOfSuccess'
    BY <1>1, <1>3 DEF OutputIsOfSuccess
  <2>4. QED
    BY <2>1, <2>2, <2>3
<1>4. QED
  BY <1>2, <1>3

\* The three ends of a stage-1 job keep the results.
LEMMA Stage1SucceededR == ASSUME RInv, TInv', NEW w \in Workers, Stage1Succeeded(w) PROVE RInv'
<1> DEFINE u == worker[w].thread
<1> USE DEF Stage1Succeeded
<1>1. /\ u \in Threads /\ worker[w].version \in 1..Versions /\ job \in [Threads -> JobRows]
      /\ output \in [Threads -> 0..Versions] /\ job[u] \in JobRows
  BY DEF RInv, TInv, HasThread, TypeOK
<1>2. CASE Owns(w)
  <2>1. job' = [job EXCEPT ![u] = Done(job[u])]
    BY <1>2
  <2>2. job'[u].owner = NoWorker /\ job'[u].success = job[u].input
    BY <1>1, <2>1, DoneType
  <2>3. job[u].input = worker[w].version /\ output[u] < job[u].input
    BY <1>1, <1>2, JobConstants DEF RInv, RowIsOwners, OwnedIsNewer, Owns
  <2>4. output'[u] = job'[u].success
    BY <1>1, <1>2, <2>2, <2>3
  <2>5. \A t \in Threads \ {u} : job'[t] = job[t] /\ output'[t] = output[t]
    BY <1>1, <1>2
  <2>6. QED
    BY <1>2, <2>2, <2>4, <2>5, SampledR
<1>3. CASE ~Owns(w)
  BY <1>3, SampledR
<1>4. QED
  BY <1>2, <1>3

\* Stage1NoOutput keeps the results.
LEMMA Stage1NoOutputR == ASSUME RInv, TInv', NEW w \in Workers, Stage1NoOutput(w) PROVE RInv'
<1> DEFINE u == worker[w].thread
<1> USE DEF Stage1NoOutput, database
<1>1. /\ u \in Threads /\ job \in [Threads -> JobRows]
      /\ output \in [Threads -> 0..Versions] /\ job[u] \in JobRows
  BY DEF RInv, TInv, HasThread, TypeOK
<1>2. CASE Owns(w)
  <2>1. job' = [job EXCEPT ![u] = Done(job[u])]
    BY <1>2
  <2>2. job'[u].owner = NoWorker /\ output'[u] = 0
    BY <1>1, <1>2, <2>1, DoneType
  <2>3. \A t \in Threads \ {u} : job'[t] = job[t] /\ output'[t] = output[t]
    BY <1>1, <1>2
  <2>4. QED
    BY <1>2, <2>2, <2>3, SampledR
<1>3. CASE ~Owns(w)
  BY <1>3, SampledR
<1>4. QED
  BY <1>2, <1>3

\* Stage1Failed keeps the results.
LEMMA Stage1FailedR == ASSUME RInv, TInv', NEW w \in Workers, Stage1Failed(w) PROVE RInv'
<1> DEFINE u == worker[w].thread
<1> USE DEF Stage1Failed
<1>1. u \in Threads /\ job \in [Threads -> JobRows]
  BY DEF RInv, TInv, HasThread, TypeOK
<1>2. CASE Owns(w)
  <2>1. job'[u].owner = NoWorker /\ job'[u].success = job[u].success
    <3>1. job'[u] = [job[u] EXCEPT !.owner = NoWorker, !.left = 0, !.retry = Delay,
                                   !.remaining = job[u].remaining - 1]
      BY <1>1, <1>2
    <3>2. job[u] \in JobRows /\ job[u].remaining \in 1..Retries
      BY <1>1, <1>2, JobConstants DEF Owns, RInv, TInv, RetryBudget
    <3> HIDE DEF Stage1Failed, u
    <3>3. QED
      BY <3>1, <3>2, FailedType
  <2>2. \A t \in Threads \ {u} : job'[t] = job[t] /\ output'[t] = output[t]
    BY <1>1, <1>2
  <2>3. QED
    BY <1>2, <2>1, <2>2, SampledR
<1>3. CASE ~Owns(w)
  BY <1>3, SampledR
<1>4. QED
  BY <1>2, <1>3

\* A reset of all memories leaves no owner and no output.
LEMMA ClearMemoryDataR == ASSUME RInv, TInv', ClearMemoryData PROVE RInv'
<1>1. \A t \in Threads : job'[t].owner = NoWorker /\ output'[t] = 0
  BY DEF ClearMemoryData, NoJob
<1>2. RowIsOwners'
  BY <1>1, JobConstants DEF RowIsOwners, TInv, HasThread
<1>3. OwnedIsNewer' /\ OutputIsOfSuccess'
  BY <1>1 DEF OwnedIsNewer, OutputIsOfSuccess
<1>4. QED
  BY <1>2, <1>3 DEF RInv

\* Time keeps the results.
LEMMA TickR == ASSUME RInv, TInv', Tick PROVE RInv'
<1> USE DEF RInv
<1>1. job \in [Threads -> JobRows] /\ worker \in [Workers -> Pipelines]
  BY DEF TInv, TypeOK
<1>2. RowIsOwners'
  BY <1>1, TickedJobs, TickedWorker DEF RowIsOwners, TInv, HasThread
<1>3. OwnedIsNewer' /\ OutputIsOfSuccess'
  BY <1>1, TickedJobs DEF OwnedIsNewer, OutputIsOfSuccess, Tick
<1>4. QED
  BY <1>2, <1>3

\* Every step keeps the results.
LEMMA StepResults == RInv /\ [Next]_vars => RInv'
<1> SUFFICES ASSUME RInv, [Next]_vars PROVE RInv'
  OBVIOUS
<1>1. TInv'
  BY StepTypes DEF RInv
<1>2. CASE UNCHANGED vars
  BY <1>1, <1>2 DEF vars, database, RInv, RowIsOwners, OwnedIsNewer, OutputIsOfSuccess
<1>3. ASSUME NEW t \in Threads, UpdateThread(t) \/ Prune(t) \/ Pollute(t) PROVE RInv'
  <2>1. CASE Prune(t)
    BY <1>1, <2>1, PruneR
  <2>2. CASE UpdateThread(t) \/ Pollute(t)
    BY <1>1, <2>2, ElsewhereR DEF UpdateThread, Pollute, Elsewhere, database, RInv
  <2>3. QED
    BY <1>3, <2>1, <2>2
<1>4. ASSUME NEW w \in Workers,
             \/ (\E t \in Threads : Scan(w, t)) \/ ClaimPhase2(w) \/ Prepare(w) \/ LoadInputs(w)
             \/ CompareWithBaseline(w) \/ Heartbeat(w) \/ AgentCompletes(w) \/ ConfirmLock(w)
             \/ RemoveBaseline(w) \/ ResetBaseline(w) \/ Phase2Succeeded(w) \/ Phase2Failed(w)
             \/ Killed(w)
      PROVE  RInv'
  BY <1>1, <1>4, ElsewhereSteps, ElsewhereR DEF RInv
<1>5. ASSUME NEW w \in Workers,
             ClaimStage1(w) \/ Stage1Succeeded(w) \/ Stage1NoOutput(w) \/ Stage1Failed(w)
      PROVE  RInv'
  BY <1>1, <1>5, ClaimStage1R, Stage1SucceededR, Stage1NoOutputR, Stage1FailedR
<1>6. CASE ClearMemoryData \/ Tick
  BY <1>1, <1>6, ClearMemoryDataR, TickR
<1>7. CASE LoseRepository
  BY <1>1, <1>7, ElsewhereR DEF LoseRepository, Elsewhere, database
<1>8. QED
  BY <1>2, <1>3, <1>4, <1>5, <1>6, <1>7 DEF Next

\* A thread's output is of the version its row says was extracted: a result is stored
\* only by the owner of the row, which names that version.
THEOREM OutputIsOfSuccessTheorem == Spec => []OutputIsOfSuccess
<1>1. Init => RInv
  BY InitTypes DEF Init, RInv, RowIsOwners, OwnedIsNewer, OutputIsOfSuccess, NoJob, Idle
<1>2. RInv => OutputIsOfSuccess
  BY DEF RInv
<1>3. QED
  BY <1>1, <1>2, StepResults, PTL DEF Spec

-----------------------------------------------------------------------------
(* Leases: who has one. *)

Consolidating ==
    {"claimed", "prepared", "synced", "unchanged", "agent", "completed", "confirmed", "removed",
     "committed"}

\* The steps to which no time can have passed since the lease was given or confirmed.
Whole == {"claimed", "prepared", "synced", "confirmed", "removed"}

\* Where a worker has a lease, and where it has a whole one.
PipelineOK(w) ==
    /\ worker[w].at \in {"idle", "scanned"} => worker[w].left = 0
    /\ worker[w].at \in Whole => worker[w].left = Lease
    /\ worker[w].at \in Consolidating => worker[w].thread = NoThread

\* A worker that extracts within its lease owns the row, which lasts as long.
HoldsJob(w) ==
    worker[w].at = "sampling" /\ worker[w].left > 0 =>
        job[worker[w].thread].owner = w /\ worker[w].left <= job[worker[w].thread].left

\* A worker that consolidates within its lease owns the lock, which lasts as long.
HoldsLock(w) ==
    worker[w].at \in Consolidating /\ worker[w].left > 0 =>
        lock.owner = w /\ worker[w].left <= lock.left

\* The inductive invariant of the leases.
LInv ==
    /\ TInv
    /\ \A w \in Workers : PipelineOK(w) /\ (~cleared => HoldsJob(w) /\ HoldsLock(w))

\* A step of worker w leaves what others hold alone.
LeavesOthers(w) ==
    /\ \A x \in Workers \ {w} : worker'[x] = worker[x]
    /\ \A t \in Threads : job[t].left > 0 /\ job[t].owner # w =>
         job'[t].owner = job[t].owner /\ job'[t].left = job[t].left
    /\ lock.left > 0 /\ lock.owner # w => lock'.owner = lock.owner /\ lock'.left = lock.left
    /\ UNCHANGED cleared

\* The leases only have to be looked at for the worker that takes the step.
LEMMA LeavesOthersL ==
    ASSUME LInv, TInv', NEW w \in Workers, LeavesOthers(w), PipelineOK(w)',
           ~cleared => HoldsJob(w)' /\ HoldsLock(w)'
    PROVE  LInv'
<1> SUFFICES ASSUME NEW x \in Workers \ {w}
             PROVE  PipelineOK(x)' /\ (~cleared => HoldsJob(x)' /\ HoldsLock(x)')
  BY DEF LInv, LeavesOthers
<1>1. worker'[x] = worker[x] /\ worker[x] \in Pipelines
  BY DEF LeavesOthers, LInv, TInv, TypeOK
<1>2. PipelineOK(x)'
  BY <1>1 DEF LInv, PipelineOK
<1>3. ASSUME ~cleared PROVE HoldsJob(x)'
  <2> SUFFICES ASSUME worker[x].at = "sampling", worker[x].left > 0
               PROVE  /\ job'[worker[x].thread].owner = x
                      /\ worker[x].left <= job'[worker[x].thread].left
    BY <1>1 DEF HoldsJob
  <2>1. worker[x].thread \in Threads /\ job[worker[x].thread] \in JobRows
    BY DEF LInv, TInv, HasThread, TypeOK
  <2>2. /\ job[worker[x].thread].owner = x
        /\ worker[x].left <= job[worker[x].thread].left
    BY <1>3 DEF LInv, HoldsJob
  <2>3. job[worker[x].thread].left > 0
    BY <1>1, <2>1, <2>2, JobConstants DEF Pipelines, JobRows
  <2>4. QED
    BY <2>1, <2>2, <2>3 DEF LeavesOthers
<1>4. ASSUME ~cleared PROVE HoldsLock(x)'
  <2> SUFFICES ASSUME worker[x].at \in Consolidating, worker[x].left > 0
               PROVE  lock'.owner = x /\ worker[x].left <= lock'.left
    BY <1>1 DEF HoldsLock
  <2>1. lock.owner = x /\ worker[x].left <= lock.left /\ lock \in LockRows
    BY <1>4 DEF LInv, HoldsLock, TInv, TypeOK
  <2>2. lock.left > 0
    BY <1>1, <2>1, JobConstants DEF Pipelines, LockRows
  <2>3. QED
    BY <2>1, <2>2 DEF LeavesOthers
<1>5. QED
  BY <1>2, <1>3, <1>4

\* A worker that is idle again holds nothing.
LEMMA IdleL ==
    ASSUME LInv, TInv', NEW w \in Workers, LeavesOthers(w), worker'[w] = Idle
    PROVE  LInv'
<1>1. PipelineOK(w)' /\ HoldsJob(w)' /\ HoldsLock(w)'
  BY DEF PipelineOK, HoldsJob, HoldsLock, Idle, Consolidating, Whole
<1>2. QED
  BY <1>1, LeavesOthersL

\* Scan keeps the leases.
LEMMA ScanL == ASSUME LInv, TInv', NEW w \in Workers, NEW t \in Threads, Scan(w, t) PROVE LInv'
<1>1. PICK v \in 1..Versions : v = version[t]
  BY DEF LInv, TInv, TypeOK
<1>2. worker' = [worker EXCEPT ![w] = [Idle EXCEPT !.at = "scanned", !.thread = t, !.version = v]]
  BY <1>1 DEF Scan
<1>3. /\ worker'[w].at = "scanned" /\ worker'[w].left = 0
      /\ \A x \in Workers \ {w} : worker'[x] = worker[x]
  BY <1>2, ScannedType DEF LInv, TInv, TypeOK, Idle
<1>4. LeavesOthers(w)
  BY <1>3 DEF LeavesOthers, Scan, database, outside
<1>5. PipelineOK(w)' /\ HoldsJob(w)' /\ HoldsLock(w)'
  BY <1>3 DEF PipelineOK, HoldsJob, HoldsLock, Consolidating, Whole
<1>6. QED
  BY <1>4, <1>5, LeavesOthersL

\* ClaimStage1 keeps the leases: the claimed row's lease had ended.
LEMMA ClaimStage1L == ASSUME LInv, TInv', NEW w \in Workers, ClaimStage1(w) PROVE LInv'
<1> DEFINE u == worker[w].thread
           v == worker[w].version
<1>1. /\ u \in Threads /\ worker[w] \in Pipelines
      /\ worker \in [Workers -> Pipelines] /\ job \in [Threads -> JobRows]
  BY DEF LInv, TInv, HasThread, TypeOK, ClaimStage1
<1>2. CASE Claimable(u, v)
  <2>1. /\ job'[u].owner = w /\ job'[u].left = Lease /\ job[u].left = 0
        /\ \A t \in Threads \ {u} : job'[t] = job[t]
    BY <1>1, <1>2 DEF ClaimStage1, Claimable
  <2>2. worker'[w] = [worker[w] EXCEPT !.at = "sampling", !.left = Lease]
    BY <1>1, <1>2 DEF ClaimStage1
  <2>3. /\ worker'[w].at = "sampling" /\ worker'[w].thread = u /\ worker'[w].left = Lease
        /\ \A x \in Workers \ {w} : worker'[x] = worker[x]
    <3>1. \A x \in Workers \ {w} : worker'[x] = worker[x]
      BY <1>1, <1>2 DEF ClaimStage1
    <3>2. /\ worker'[w].at = "sampling" /\ worker'[w].thread = worker[w].thread
          /\ worker'[w].left = Lease
      BY ZenonT(60), <1>1, <2>2, LeasedType
    <3>3. QED
      BY <3>1, <3>2
  <2>4. UNCHANGED <<lock, cleared>>
    BY DEF ClaimStage1, outside
  <2>5. LeavesOthers(w)
    BY <1>1, <2>1, <2>3, <2>4 DEF LeavesOthers
  <2>6. PipelineOK(w)' /\ HoldsJob(w)' /\ HoldsLock(w)'
    BY <2>1, <2>3, JobConstants DEF PipelineOK, HoldsJob, HoldsLock, Consolidating
  <2>7. QED
    BY <2>5, <2>6, LeavesOthersL
<1>3. CASE ~Claimable(u, v)
  <2>1. LeavesOthers(w) /\ worker'[w] = Idle
    BY <1>1, <1>3 DEF ClaimStage1, LeavesOthers, outside
  <2>2. QED
    BY <2>1, IdleL
<1>4. QED
  BY <1>2, <1>3

\* An enqueued consolidation leaves the lock to its owner.
LEMMA EnqueuedL == lock \in LockRows => Enqueued.owner = lock.owner /\ Enqueued.left = lock.left
BY DEF Enqueued, LockRows

\* The ends of a stage-1 job keep the leases.
LEMMA Stage1EndsL ==
    ASSUME LInv, TInv', NEW w \in Workers,
           Stage1Succeeded(w) \/ Stage1NoOutput(w) \/ Stage1Failed(w)
    PROVE  LInv'
<1>1. /\ worker[w].thread \in Threads /\ worker \in [Workers -> Pipelines]
      /\ job \in [Threads -> JobRows] /\ lock \in LockRows
  BY DEF LInv, TInv, HasThread, TypeOK, Stage1Succeeded, Stage1NoOutput, Stage1Failed
<1>2. /\ \A x \in Workers \ {w} : worker'[x] = worker[x]
      /\ worker'[w] = Idle /\ UNCHANGED cleared
  BY <1>1 DEF Stage1Succeeded, Stage1NoOutput, Stage1Failed, outside
<1>3. \A t \in Threads : job[t].owner # w => job'[t] = job[t]
  <2>1. CASE Owns(w)
    BY <1>1, <2>1 DEF Owns, Stage1Succeeded, Stage1NoOutput, Stage1Failed
  <2>2. CASE ~Owns(w)
    BY <2>2 DEF Stage1Succeeded, Stage1NoOutput, Stage1Failed, database
  <2>3. QED
    BY <2>1, <2>2
<1>4. lock'.owner = lock.owner /\ lock'.left = lock.left
  <2>1. lock' = lock \/ lock' = Enqueued
    BY DEF Stage1Succeeded, Stage1NoOutput, Stage1Failed, database
  <2>2. QED
    BY <1>1, <2>1, EnqueuedL
<1>5. QED
  BY <1>2, <1>3, <1>4, IdleL DEF LeavesOthers

\* ClaimPhase2 keeps the leases: the lease of the lock had ended.
LEMMA ClaimPhase2L == ASSUME LInv, TInv', NEW w \in Workers, ClaimPhase2(w) PROVE LInv'
<1>1. worker' = [worker EXCEPT ![w] = [Idle EXCEPT !.at = "claimed", !.left = Lease]]
  BY DEF ClaimPhase2
<1>2. /\ worker'[w].at = "claimed" /\ worker'[w].left = Lease /\ worker'[w].thread = NoThread
      /\ \A x \in Workers \ {w} : worker'[x] = worker[x]
  BY <1>1, ClaimedType DEF LInv, TInv, TypeOK, Idle
<1>3. lock'.owner = w /\ lock'.left = Lease /\ lock.left = 0
  BY DEF ClaimPhase2, LockFree
<1>4. LeavesOthers(w)
  BY <1>2, <1>3 DEF LeavesOthers, ClaimPhase2, outside
<1>5. PipelineOK(w)' /\ HoldsJob(w)' /\ HoldsLock(w)'
  BY <1>2, <1>3, JobConstants DEF PipelineOK, HoldsJob, HoldsLock
<1>6. QED
  BY <1>4, <1>5, LeavesOthersL

\* Steps of phase 2 that only move the worker on keep the leases.
LEMMA MovesOnL ==
    ASSUME LInv, TInv', NEW w \in Workers,
           \/ Prepare(w) \/ LoadInputs(w) \/ CompareWithBaseline(w) \/ AgentCompletes(w)
           \/ RemoveBaseline(w) \/ ResetBaseline(w)
    PROVE  LInv'
<1>1. worker \in [Workers -> Pipelines]
  BY DEF LInv, TInv, TypeOK
<1>2. /\ worker[w].at \in Consolidating /\ worker'[w].at \in Consolidating
      /\ worker'[w].at \in Whole => worker[w].at \in Whole
      /\ worker'[w].thread = worker[w].thread /\ worker'[w].left = worker[w].left
      /\ \A x \in Workers \ {w} : worker'[x] = worker[x]
  <2>1. CASE LoadInputs(w)
    BY ZenonT(60), <1>1, <2>1 DEF LoadInputs, Pipelines, Consolidating, Whole
  <2>2. CASE Prepare(w) \/ CompareWithBaseline(w)
    BY <1>1, <2>2 DEF Prepare, CompareWithBaseline, Pipelines, Consolidating, Whole
  <2>3. CASE AgentCompletes(w) \/ RemoveBaseline(w) \/ ResetBaseline(w)
    BY <1>1, <2>3 DEF AgentCompletes, RemoveBaseline, ResetBaseline, Pipelines, Consolidating,
                      Whole
  <2>4. QED
    BY <2>1, <2>2, <2>3
<1>3. UNCHANGED <<job, lock, cleared>>
  BY DEF Prepare, LoadInputs, CompareWithBaseline, AgentCompletes, RemoveBaseline, ResetBaseline,
         database, outside
<1>4. LeavesOthers(w)
  BY <1>2, <1>3 DEF LeavesOthers
<1>5. PipelineOK(w)'
  BY <1>2 DEF LInv, PipelineOK, Consolidating
<1>6. ~cleared => HoldsJob(w)' /\ HoldsLock(w)'
  BY <1>2, <1>3 DEF LInv, HoldsJob, HoldsLock, Consolidating
<1>7. QED
  BY <1>4, <1>5, <1>6, LeavesOthersL

\* A heartbeat and the confirmation of the lock keep the leases.
LEMMA HeartbeatL ==
    ASSUME LInv, TInv', NEW w \in Workers, Heartbeat(w) \/ ConfirmLock(w) PROVE LInv'
<1>1. worker \in [Workers -> Pipelines] /\ worker[w] \in Pipelines /\ lock \in LockRows
  BY DEF LInv, TInv, TypeOK
<1>2. CASE OwnsLock(w)
  <2>1. /\ worker'[w].at \in {"agent", "confirmed"} /\ worker'[w].left = Lease
        /\ worker'[w].thread = worker[w].thread
    <3>1. CASE Heartbeat(w)
      BY <1>1, <1>2, <3>1 DEF Heartbeat, Pipelines
    <3>2. CASE ConfirmLock(w)
      <4>1. worker'[w] = [worker[w] EXCEPT !.at = "confirmed", !.left = Lease]
        BY <1>1, <1>2, <3>2 DEF ConfirmLock
      <4>2. QED
        BY ZenonT(60), <1>1, <4>1, LeasedType
    <3>3. QED
      BY <3>1, <3>2
  <2>2. \A x \in Workers \ {w} : worker'[x] = worker[x]
    BY <1>1, <1>2 DEF Heartbeat, ConfirmLock
  <2>3. lock'.owner = w /\ lock'.left = Lease
    BY <1>1, <1>2 DEF Heartbeat, ConfirmLock, OwnsLock, LockRows
  <2>4. LeavesOthers(w)
    BY <1>2, <2>2, <2>3 DEF LeavesOthers, OwnsLock, Heartbeat, ConfirmLock, outside
  <2>5. worker[w].thread = NoThread
    BY DEF LInv, PipelineOK, Heartbeat, ConfirmLock, Consolidating
  <2>6. PipelineOK(w)' /\ HoldsJob(w)' /\ HoldsLock(w)'
    BY <2>1, <2>3, <2>5, JobConstants DEF PipelineOK, HoldsJob, HoldsLock
  <2>7. QED
    BY <2>4, <2>6, LeavesOthersL
<1>3. CASE ~OwnsLock(w)
  <2>1. LeavesOthers(w) /\ worker'[w] = Idle
    BY <1>1, <1>3 DEF LeavesOthers, Heartbeat, ConfirmLock, outside
  <2>2. QED
    BY <2>1, IdleL
<1>4. QED
  BY <1>2, <1>3

\* The ends of phase 2 and a kill keep the leases.
LEMMA Phase2EndsL ==
    ASSUME LInv, TInv', NEW w \in Workers, Phase2Succeeded(w) \/ Phase2Failed(w) \/ Killed(w)
    PROVE  LInv'
<1>1. worker \in [Workers -> Pipelines]
  BY DEF LInv, TInv, TypeOK
<1>2. /\ worker'[w] = Idle /\ \A x \in Workers \ {w} : worker'[x] = worker[x]
      /\ UNCHANGED <<job, cleared>>
  BY <1>1 DEF Phase2Succeeded, Phase2Failed, Killed, database, outside
<1>3. lock.owner # w => lock' = lock
  BY DEF Phase2Succeeded, Phase2Failed, Killed, LockAfterFailure, OwnsLock, database
<1>4. QED
  BY <1>2, <1>3, IdleL DEF LeavesOthers

\* What happens to threads keeps the leases.
LEMMA ThreadL ==
    ASSUME LInv, TInv', NEW t \in Threads, UpdateThread(t) \/ Prune(t) \/ Pollute(t) PROVE LInv'
<1>1. UNCHANGED <<worker, job, cleared>> /\ (lock' = lock \/ lock' = Enqueued)
  BY DEF UpdateThread, Prune, Pollute, database
<1>2. lock'.owner = lock.owner /\ lock'.left = lock.left
  BY <1>1, EnqueuedL DEF LInv, TInv, TypeOK
<1>3. QED
  BY <1>1, <1>2 DEF LInv, PipelineOK, HoldsJob, HoldsLock

\* After a reset of all memories nobody is said to hold anything.
LEMMA ClearMemoryDataL == ASSUME LInv, TInv', ClearMemoryData PROVE LInv'
<1>1. cleared' /\ UNCHANGED worker
  BY DEF ClearMemoryData
<1>2. QED
  BY <1>1 DEF LInv, PipelineOK

\* Time takes as much from a row as from its owner.
LEMMA TickL == ASSUME LInv, TInv', Tick PROVE LInv'
<1> SUFFICES ASSUME NEW w \in Workers
             PROVE  PipelineOK(w)' /\ (~cleared => HoldsJob(w)' /\ HoldsLock(w)')
  BY DEF LInv, Tick, outside
<1>1. /\ worker \in [Workers -> Pipelines] /\ worker[w] \in Pipelines
      /\ job \in [Threads -> JobRows] /\ lock \in LockRows
  BY DEF LInv, TInv, TypeOK
<1>2. /\ worker'[w].at = worker[w].at /\ worker'[w].thread = worker[w].thread
      /\ worker'[w].left = Less(worker[w].left) /\ worker[w].left \in Nat
  BY <1>1, TickedWorker, JobConstants DEF Pipelines
<1>3. PipelineOK(w)'
  <2>1. worker[w].at \in {"idle", "scanned", "sampling", "agent"}
    BY DEF Tick
  <2>2. /\ worker[w].at \in {"idle", "scanned"} => worker[w].left = 0
        /\ worker[w].at \in Consolidating => worker[w].thread = NoThread
    BY DEF LInv, PipelineOK
  <2>3. Less(0) = 0
    BY DEF Less
  <2>4. QED
    BY <1>2, <2>1, <2>2, <2>3 DEF PipelineOK, Whole
<1>4. ASSUME ~cleared PROVE HoldsJob(w)'
  <2> SUFFICES ASSUME worker'[w].at = "sampling", worker'[w].left > 0
               PROVE  /\ job'[worker'[w].thread].owner = w
                      /\ worker'[w].left <= job'[worker'[w].thread].left
    BY DEF HoldsJob
  <2> DEFINE u == worker[w].thread
  <2>1. u \in Threads /\ job[u] \in JobRows
    BY <1>1, <1>2 DEF LInv, TInv, HasThread
  <2>2. job'[u].owner = job[u].owner /\ job'[u].left = Less(job[u].left) /\ job[u].left \in Nat
    BY <1>1, <2>1, TickedJobs, JobConstants DEF JobRows
  <2>3. job[u].owner = w /\ worker[w].left <= job[u].left
    BY <1>2, <1>4, LessType DEF LInv, HoldsJob
  <2>4. QED
    BY <1>2, <2>2, <2>3 DEF Less
<1>5. ASSUME ~cleared PROVE HoldsLock(w)'
  <2> SUFFICES ASSUME worker'[w].at \in Consolidating, worker'[w].left > 0
               PROVE  lock'.owner = w /\ worker'[w].left <= lock'.left
    BY DEF HoldsLock
  <2>1. lock'.owner = lock.owner /\ lock'.left = Less(lock.left) /\ lock.left \in Nat
    BY <1>1, TickedTheLock, JobConstants DEF LockRows
  <2>2. lock.owner = w /\ worker[w].left <= lock.left
    BY <1>2, <1>5, LessType DEF LInv, HoldsLock
  <2>3. QED
    BY <1>2, <2>1, <2>2 DEF Less
<1>6. QED
  BY <1>3, <1>4, <1>5

\* Every step keeps the leases.
LEMMA StepLeases == LInv /\ [Next]_vars => LInv'
<1> SUFFICES ASSUME LInv, [Next]_vars PROVE LInv'
  OBVIOUS
<1>1. TInv'
  BY StepTypes DEF LInv
<1>2. CASE UNCHANGED vars
  BY <1>1, <1>2 DEF vars, database, outside, LInv, PipelineOK, HoldsJob, HoldsLock
<1>3. ASSUME NEW w \in Workers,
             \/ (\E t \in Threads : Scan(w, t)) \/ ClaimStage1(w)
             \/ Stage1Succeeded(w) \/ Stage1NoOutput(w) \/ Stage1Failed(w)
      PROVE  LInv'
  BY <1>1, <1>3, ScanL, ClaimStage1L, Stage1EndsL
<1>4. ASSUME NEW w \in Workers,
             \/ ClaimPhase2(w) \/ Prepare(w) \/ LoadInputs(w) \/ CompareWithBaseline(w)
             \/ Heartbeat(w) \/ AgentCompletes(w) \/ ConfirmLock(w) \/ RemoveBaseline(w)
             \/ ResetBaseline(w) \/ Phase2Succeeded(w) \/ Phase2Failed(w) \/ Killed(w)
      PROVE  LInv'
  BY <1>1, <1>4, ClaimPhase2L, MovesOnL, HeartbeatL, Phase2EndsL
<1>5. CASE LoseRepository
  BY <1>1, <1>5 DEF LoseRepository, database, LInv, PipelineOK, HoldsJob, HoldsLock
<1>6. QED
  BY <1>1, <1>2, <1>3, <1>4, <1>5, ThreadL, ClearMemoryDataL, TickL DEF Next

\* Initially nobody has a lease.
LEMMA InitLeases == Init => LInv
BY InitTypes DEF Init, LInv, PipelineOK, HoldsJob, HoldsLock, Idle, Consolidating, Whole

\* No two workers have the same job while their leases last: a lease is only given on a
\* row or a lock whose last one has ended.
THEOREM OneOwnerTheorem == Spec => []OneOwner
<1>1. LInv => OneOwner
  <2> SUFFICES ASSUME LInv, ~cleared, NEW w \in Workers, NEW x \in Workers, w # x,
                      worker[w].left > 0, worker[x].left > 0,
                      worker[w].thread = worker[x].thread
               PROVE  FALSE
    BY DEF OneOwner
  <2>1. \A y \in {w, x} : worker[y].at \in Consolidating \union {"sampling"}
    BY DEF LInv, PipelineOK, TInv, TypeOK, Pipelines, Consolidating
  <2>2. \A y \in {w, x} : worker[y].at = "sampling" => worker[y].thread \in Threads
    BY DEF LInv, TInv, HasThread
  <2>3. \A y \in {w, x} : worker[y].at \in Consolidating => worker[y].thread \notin Threads
    BY JobConstants DEF LInv, PipelineOK
  <2>4. QED
    BY <2>1, <2>2, <2>3 DEF LInv, HoldsJob, HoldsLock
<1>2. QED
  BY <1>1, InitLeases, StepLeases, PTL DEF Spec

-----------------------------------------------------------------------------
(* The baseline.  Who resets it owns the lock, so that the directory holds what its *)
(* own agent has seen.                                                             *)

\* The steps of phase 2 between the inputs and the baseline.
WithInputs == {"synced", "agent", "completed", "confirmed", "removed"}
Consolidated == {"completed", "confirmed", "removed"}

\* What an agent that has completed was given, it has seen.
InputsSeen == \A w \in Workers : worker[w].at \in Consolidated => worker[w].inputs \subseteq seen

\* The directory holds the inputs of the worker that owns the lock.
WorkspaceIsOwners ==
    ~cleared => \A w \in Workers : lock.owner = w /\ worker[w].at \in WithInputs =>
                    workspace = worker[w].inputs

\* Where there is no repository that was not lost, the directory may be committed as it
\* is; and a worker that may overwrite the directory has a repository.
RemovedIsSeen ==
    ~cleared /\ ~damaged =>
        /\ ~usable => workspace \subseteq seen
        /\ \A w \in Workers : worker[w].at = "prepared" => usable

\* The inductive invariant of the baseline.
BInv == LInv /\ InputsSeen /\ WorkspaceIsOwners /\ RemovedIsSeen /\ BaselineIsSeen

\* A step that leaves the files alone, gives no consolidating worker the lock and moves
\* none into or forward through the consolidation, but from "synced" to "agent" and from
\* "completed" to "confirmed".
LeavesFiles ==
    /\ UNCHANGED <<workspace, baseline, usable, seen, cleared, damaged>>
    /\ \A w \in Workers :
         /\ worker'[w].at \in WithInputs =>
              /\ worker[w].at \in WithInputs /\ worker'[w].inputs = worker[w].inputs
              /\ worker'[w].at \in Consolidated => worker[w].at \in Consolidated
              /\ lock'.owner = w => lock.owner = w
         /\ worker'[w].at = "prepared" => worker[w].at = "prepared"

\* Such a step keeps the baseline.
LEMMA LeavesFilesB == ASSUME BInv, LInv', LeavesFiles PROVE BInv'
<1>1. InputsSeen'
  BY DEF BInv, InputsSeen, LeavesFiles, Consolidated, WithInputs
<1>2. WorkspaceIsOwners'
  BY DEF BInv, WorkspaceIsOwners, LeavesFiles
<1>3. RemovedIsSeen' /\ BaselineIsSeen'
  BY DEF BInv, RemovedIsSeen, BaselineIsSeen, LeavesFiles
<1>4. QED
  BY <1>1, <1>2, <1>3 DEF BInv

\* The steps of one worker outside the consolidation, or that end it, leave the files
\* alone.
LEMMA WorkerFiles ==
    ASSUME TInv, NEW w \in Workers,
           \/ (\E t \in Threads : Scan(w, t)) \/ ClaimStage1(w)
           \/ Stage1Succeeded(w) \/ Stage1NoOutput(w) \/ Stage1Failed(w)
           \/ ClaimPhase2(w) \/ Phase2Succeeded(w) \/ Phase2Failed(w) \/ Killed(w)
    PROVE  LeavesFiles
<1>1. /\ worker \in [Workers -> Pipelines] /\ worker[w] \in Pipelines /\ lock \in LockRows
      /\ version \in [Threads -> 1..Versions]
  BY DEF TInv, TypeOK
<1>2. Idle.at = "idle"
  BY DEF Idle
<1>3. UNCHANGED <<workspace, baseline, usable, seen, cleared, damaged>>
  BY ZenonT(60) DEF Scan, ClaimStage1, Stage1Succeeded, Stage1NoOutput, Stage1Failed, ClaimPhase2,
         Phase2Succeeded, Phase2Failed, Killed, files, repository, outside
<1>4. \A x \in Workers \ {w} : worker'[x] = worker[x]
  BY <1>1 DEF Scan, ClaimStage1, Stage1Succeeded, Stage1NoOutput, Stage1Failed, ClaimPhase2,
         Phase2Succeeded, Phase2Failed, Killed
<1>5. worker'[w].at \notin WithInputs /\ worker'[w].at # "prepared"
  <2>1. CASE \E t \in Threads : Scan(w, t)
    <3>1. PICK t \in Threads : Scan(w, t)
      BY <2>1
    <3>2. PICK v \in 1..Versions : v = version[t]
      BY <1>1
    <3>3. worker'[w] = [Idle EXCEPT !.at = "scanned", !.thread = t, !.version = v]
      BY <1>1, <3>1, <3>2 DEF Scan
    <3>4. worker'[w].at = "scanned"
      BY <3>3, ScannedType DEF Idle
    <3>5. QED
      BY <3>4 DEF WithInputs
  <2>2. CASE ClaimStage1(w)
    <3>1. \/ worker'[w] = [worker[w] EXCEPT !.at = "sampling", !.left = Lease]
          \/ worker'[w] = Idle
      BY <1>1, <2>2 DEF ClaimStage1
    <3>2. worker'[w].at \in {"sampling", "idle"}
      BY ZenonT(60), <1>1, <1>2, <3>1, LeasedType
    <3>3. QED
      BY <3>2 DEF WithInputs
  <2>3. CASE ClaimPhase2(w)
    <3>1. worker'[w] = [Idle EXCEPT !.at = "claimed", !.left = Lease]
      BY <1>1, <2>3 DEF ClaimPhase2
    <3>2. QED
      BY <3>1, ClaimedType DEF WithInputs
  <2>4. CASE \/ Stage1Succeeded(w) \/ Stage1NoOutput(w) \/ Stage1Failed(w)
             \/ Phase2Succeeded(w) \/ Phase2Failed(w) \/ Killed(w)
    <3>1. worker'[w] = Idle
      BY <1>1, <2>4 DEF Stage1Succeeded, Stage1NoOutput, Stage1Failed,
         Phase2Succeeded, Phase2Failed, Killed
    <3>2. QED
      BY <1>2, <3>1 DEF WithInputs
  <2>5. QED
    BY <2>1, <2>2, <2>3, <2>4
<1>6. \A x \in Workers \ {w} : lock'.owner = x => lock.owner = x
  <2>1. Enqueued.owner = lock.owner
    BY <1>1, EnqueuedL
  <2>2. /\ [Free EXCEPT !.retry = Delay].owner = NoWorker
        /\ [Free EXCEPT !.cooldown = Delay].owner = NoWorker
    BY DEF Free
  <2>3. \/ lock' \in {lock, Enqueued,
                     [Free EXCEPT !.retry = Delay], [Free EXCEPT !.cooldown = Delay]}
        \/ lock'.owner = w
    <3>1. CASE ClaimPhase2(w)
      BY <3>1 DEF ClaimPhase2
    <3>2. CASE Phase2Succeeded(w) \/ Phase2Failed(w)
      BY <3>2 DEF Phase2Succeeded, Phase2Failed, LockAfterFailure
    <3>3. CASE Stage1Succeeded(w) \/ Stage1NoOutput(w)
      BY <3>3 DEF Stage1Succeeded, Stage1NoOutput, database
    <3>4. CASE \/ (\E t \in Threads : Scan(w, t)) \/ ClaimStage1(w)
               \/ Stage1Failed(w) \/ Killed(w)
      BY <3>4 DEF Scan, ClaimStage1, Stage1Failed, Killed, database
    <3>5. QED
      BY <3>1, <3>2, <3>3, <3>4
  <2>4. NoWorker \notin Workers
    BY JobConstants
  <2>5. QED
    BY <2>1, <2>2, <2>3, <2>4
<1>7. QED
  BY <1>3, <1>4, <1>5, <1>6 DEF LeavesFiles

\* A heartbeat and the confirmation of the lock leave the files alone.
LEMMA HeartbeatFiles ==
    ASSUME TInv, NEW w \in Workers, Heartbeat(w) \/ ConfirmLock(w) PROVE LeavesFiles
<1>1. worker \in [Workers -> Pipelines] /\ worker[w] \in Pipelines /\ lock \in LockRows
  BY DEF TInv, TypeOK
<1>2. UNCHANGED <<workspace, baseline, usable, seen, cleared, damaged>>
  BY DEF Heartbeat, ConfirmLock, files, repository, outside
<1>3. \A x \in Workers \ {w} : worker'[x] = worker[x]
  BY <1>1 DEF Heartbeat, ConfirmLock
<1>4. lock'.owner = lock.owner
  BY <1>1 DEF Heartbeat, ConfirmLock, LockRows
<1>5. worker'[w].at \in WithInputs =>
        /\ worker[w].at \in WithInputs /\ worker'[w].inputs = worker[w].inputs
        /\ worker'[w].at \in Consolidated => worker[w].at \in Consolidated
  <2>1. CASE Heartbeat(w)
    <3>1. worker[w].at = "agent"
      BY <2>1 DEF Heartbeat
    <3>2. worker'[w] = [worker[w] EXCEPT !.left = Lease] \/ worker'[w] = Idle
      BY <1>1, <2>1 DEF Heartbeat
    <3>3. \/ worker'[w].at = "agent" /\ worker'[w].inputs = worker[w].inputs
          \/ worker'[w].at = "idle"
      BY <1>1, <3>1, <3>2 DEF Pipelines, Idle
    <3>4. QED
      BY <3>1, <3>3 DEF WithInputs, Consolidated
  <2>2. CASE ConfirmLock(w)
    <3>1. worker[w].at = "completed"
      BY <2>2 DEF ConfirmLock
    <3>2. \/ worker'[w] = [worker[w] EXCEPT !.at = "confirmed", !.left = Lease]
          \/ worker'[w] = Idle
      BY <1>1, <2>2 DEF ConfirmLock
    <3>3. CASE worker'[w] = Idle
      BY <3>3 DEF Idle, WithInputs
    <3>4. CASE worker'[w] = [worker[w] EXCEPT !.at = "confirmed", !.left = Lease]
      <4>1. worker'[w].at = "confirmed" /\ worker'[w].inputs = worker[w].inputs
        BY <1>1, <3>4, LeasedType
      <4>2. QED
        BY <3>1, <4>1 DEF WithInputs, Consolidated
    <3>5. QED
      BY <3>2, <3>3, <3>4
  <2>3. QED
    BY <2>1, <2>2
<1>6. worker'[w].at # "prepared"
  <2>1. \/ worker'[w] = Idle
        \/ worker'[w] = [worker[w] EXCEPT !.left = Lease]
        \/ worker'[w] = [worker[w] EXCEPT !.at = "confirmed", !.left = Lease]
    <3>1. CASE Heartbeat(w)
      BY <1>1, <3>1 DEF Heartbeat
    <3>2. CASE ConfirmLock(w)
      BY <1>1, <3>2 DEF ConfirmLock
    <3>3. QED
      BY <3>1, <3>2
  <2>2. worker[w].at \in {"agent", "completed"}
    BY DEF Heartbeat, ConfirmLock
  <2>3. [worker[w] EXCEPT !.left = Lease].at = worker[w].at
    BY <1>1 DEF Pipelines
  <2>4. [worker[w] EXCEPT !.at = "confirmed", !.left = Lease].at = "confirmed"
    BY <1>1, LeasedType
  <2>5. Idle.at = "idle"
    BY DEF Idle
  <2>6. worker'[w].at \in {"idle", "agent", "completed", "confirmed"}
    BY Zenon, <2>1, <2>2, <2>3, <2>4, <2>5
  <2>7. QED
    BY <2>6
<1>7. QED
  BY <1>2, <1>3, <1>4, <1>5, <1>6 DEF LeavesFiles

\* The comparison with the baseline leaves the files alone.
LEMMA CompareFiles ==
    ASSUME TInv, NEW w \in Workers, CompareWithBaseline(w) PROVE LeavesFiles
<1>1. worker \in [Workers -> Pipelines] /\ worker[w] \in Pipelines
  BY DEF TInv, TypeOK
<1>2. UNCHANGED <<workspace, baseline, usable, seen, cleared, damaged, lock>>
  BY DEF CompareWithBaseline, files, repository, outside, database
<1>3. /\ worker[w].at = "synced" /\ worker'[w].at \in {"unchanged", "agent"}
      /\ worker'[w].inputs = worker[w].inputs
      /\ \A x \in Workers \ {w} : worker'[x] = worker[x]
  BY <1>1 DEF CompareWithBaseline, Pipelines
<1>4. QED
  BY <1>2, <1>3 DEF LeavesFiles, WithInputs, Consolidated

\* What happens to threads, and time, leave the files alone.
LEMMA OutsideFiles ==
    ASSUME TInv, (\E t \in Threads : UpdateThread(t) \/ Prune(t) \/ Pollute(t)) \/ Tick
    PROVE  LeavesFiles
<1>1. worker \in [Workers -> Pipelines] /\ lock \in LockRows
  BY DEF TInv, TypeOK
<1>2. CASE \E t \in Threads : UpdateThread(t) \/ Prune(t) \/ Pollute(t)
  <2>1. /\ UNCHANGED <<worker, workspace, baseline, usable, seen, cleared, damaged>>
        /\ lock' = lock \/ lock' = Enqueued
    BY <1>2 DEF UpdateThread, Prune, Pollute, database, files, repository
  <2>2. lock'.owner = lock.owner
    BY <1>1, <2>1, EnqueuedL
  <2>3. QED
    BY <2>1, <2>2 DEF LeavesFiles
<1>3. CASE Tick
  <2>1. UNCHANGED <<workspace, baseline, usable, seen, cleared, damaged>>
    BY <1>3 DEF Tick, files, repository, outside
  <2>2. lock'.owner = lock.owner
    BY <1>1, <1>3, TickedTheLock
  <2>3. \A w \in Workers : worker'[w].at = worker[w].at /\ worker'[w].inputs = worker[w].inputs
    BY <1>1, <1>3, TickedWorker
  <2>4. QED
    BY <2>1, <2>2, <2>3 DEF LeavesFiles
<1>4. QED
  BY <1>2, <1>3

\* A worker whose lease is whole has the lock.
LEMMA WholeLease ==
    ASSUME LInv, ~cleared, NEW w \in Workers, worker[w].at \in Whole
    PROVE  lock.owner = w
BY JobConstants DEF LInv, PipelineOK, HoldsLock, Consolidating, Whole

\* A worker that prepares commits only what was consolidated, unless the repository was
\* lost.
LEMMA PrepareB == ASSUME BInv, LInv', NEW w \in Workers, Prepare(w) PROVE BInv'
<1>1. worker \in [Workers -> Pipelines] /\ worker[w] \in Pipelines /\ usable \in BOOLEAN
  BY DEF BInv, LInv, TInv, TypeOK
<1>2. worker'[w].at = "prepared" /\ \A x \in Workers \ {w} : worker'[x] = worker[x]
  BY <1>1 DEF Prepare, Pipelines
<1>3. /\ UNCHANGED <<lock, workspace, seen, cleared, damaged>> /\ usable'
      /\ baseline' = IF usable THEN baseline ELSE workspace
  BY <1>1 DEF Prepare, CommitCurrentTree, repository, database, outside
<1>4. InputsSeen' /\ WorkspaceIsOwners'
  BY <1>2, <1>3 DEF BInv, InputsSeen, WorkspaceIsOwners, Consolidated, WithInputs
<1>5. RemovedIsSeen' /\ BaselineIsSeen'
  BY <1>3 DEF BInv, RemovedIsSeen, BaselineIsSeen
<1>6. QED
  BY <1>4, <1>5 DEF BInv

\* Who loads its inputs owns the lock, so that nobody else's are overwritten, and has a
\* repository, so that they are not taken for consolidated ones.
LEMMA LoadInputsB == ASSUME BInv, LInv', NEW w \in Workers, LoadInputs(w) PROVE BInv'
<1>1. worker \in [Workers -> Pipelines] /\ worker[w] \in Pipelines
  BY DEF BInv, LInv, TInv, TypeOK
<1>2. PICK inputs : /\ workspace' = inputs
                    /\ worker' = [worker EXCEPT ![w].inputs = inputs, ![w].at = "synced"]
  BY DEF LoadInputs
<1>3. /\ worker'[w].at = "synced" /\ worker'[w].inputs = inputs
      /\ \A x \in Workers \ {w} : worker'[x] = worker[x]
  BY <1>1, <1>2 DEF Pipelines
<1>4. /\ UNCHANGED <<lock, baseline, usable, seen, cleared, damaged>>
      /\ worker[w].at = "prepared"
  BY DEF LoadInputs, repository, database, outside
<1>5. ~cleared => lock.owner = w
  BY <1>4, WholeLease DEF BInv, Whole
<1>6. InputsSeen'
  BY <1>3, <1>4 DEF BInv, InputsSeen, Consolidated
<1>7. WorkspaceIsOwners'
  BY <1>2, <1>3, <1>4, <1>5 DEF WorkspaceIsOwners
<1>8. RemovedIsSeen' /\ BaselineIsSeen'
  BY <1>3, <1>4 DEF BInv, RemovedIsSeen, BaselineIsSeen
<1>9. QED
  BY <1>6, <1>7, <1>8 DEF BInv

\* An agent that completes has seen its inputs.
LEMMA AgentCompletesB == ASSUME BInv, LInv', NEW w \in Workers, AgentCompletes(w) PROVE BInv'
<1>1. worker \in [Workers -> Pipelines] /\ worker[w] \in Pipelines
  BY DEF BInv, LInv, TInv, TypeOK
<1>2. /\ worker'[w].at = "completed" /\ worker'[w].inputs = worker[w].inputs
      /\ \A x \in Workers \ {w} : worker'[x] = worker[x]
  BY <1>1 DEF AgentCompletes, Pipelines
<1>3. /\ UNCHANGED <<lock, workspace, baseline, usable, cleared, damaged>>
      /\ worker[w].at = "agent"
      /\ seen' = seen \union worker[w].inputs
  BY DEF AgentCompletes, repository, database, outside
<1>4. InputsSeen'
  <2> SUFFICES ASSUME NEW x \in Workers, worker'[x].at \in Consolidated
               PROVE  worker'[x].inputs \subseteq seen'
    BY DEF InputsSeen
  <2>1. CASE x = w
    BY <1>2, <1>3, <2>1
  <2>2. CASE x # w
    BY <1>2, <1>3, <2>2 DEF BInv, InputsSeen
  <2>3. QED
    BY <2>1, <2>2
<1>5. WorkspaceIsOwners'
  BY <1>2, <1>3 DEF BInv, WorkspaceIsOwners, WithInputs
<1>6. RemovedIsSeen' /\ BaselineIsSeen'
  BY <1>2, <1>3 DEF BInv, RemovedIsSeen, BaselineIsSeen
<1>7. QED
  BY <1>4, <1>5, <1>6 DEF BInv

\* A worker that replaces the baseline owns the lock, and the directory holds what its
\* agent has seen.
LEMMA OwnInputs ==
    ASSUME BInv, ~cleared, NEW w \in Workers, worker[w].at \in {"confirmed", "removed"}
    PROVE  lock.owner = w /\ workspace \subseteq seen
<1>1. lock.owner = w
  BY WholeLease DEF BInv, Whole
<1>2. workspace = worker[w].inputs
  BY <1>1 DEF BInv, WorkspaceIsOwners, WithInputs
<1>3. worker[w].inputs \subseteq seen
  BY DEF BInv, InputsSeen, Consolidated
<1>4. QED
  BY <1>1, <1>2, <1>3

\* The repository that is removed leaves a directory behind that may be committed.
LEMMA RemoveBaselineB == ASSUME BInv, LInv', NEW w \in Workers, RemoveBaseline(w) PROVE BInv'
<1>1. worker \in [Workers -> Pipelines] /\ worker[w] \in Pipelines
  BY DEF BInv, LInv, TInv, TypeOK
<1>2. /\ worker'[w].at = "removed" /\ worker'[w].inputs = worker[w].inputs
      /\ \A x \in Workers \ {w} : worker'[x] = worker[x]
  BY <1>1 DEF RemoveBaseline, Pipelines
<1>3. /\ UNCHANGED <<lock, workspace, seen, cleared, damaged>> /\ worker[w].at = "confirmed"
      /\ baseline' = {}
  BY DEF RemoveBaseline, database, outside
<1>4. InputsSeen'
  BY <1>2, <1>3 DEF BInv, InputsSeen, Consolidated
<1>5. WorkspaceIsOwners'
  BY <1>2, <1>3 DEF BInv, WorkspaceIsOwners, WithInputs
<1>6. RemovedIsSeen'
  <2> SUFFICES ASSUME ~cleared
               PROVE  /\ workspace \subseteq seen
                      /\ \A x \in Workers : worker'[x].at # "prepared"
    BY <1>3 DEF RemovedIsSeen
  <2>1. lock.owner = w /\ workspace \subseteq seen
    BY <1>3, OwnInputs
  <2>2. \A x \in Workers : worker[x].at = "prepared" => lock.owner = x
    BY WholeLease DEF BInv, Whole
  <2>3. QED
    BY <1>2, <2>1, <2>2
<1>7. BaselineIsSeen'
  BY <1>3 DEF BaselineIsSeen
<1>8. QED
  BY <1>4, <1>5, <1>6, <1>7 DEF BInv

\* The baseline that is committed is what the agent of the worker has seen.
LEMMA ResetBaselineB == ASSUME BInv, LInv', NEW w \in Workers, ResetBaseline(w) PROVE BInv'
<1>1. worker \in [Workers -> Pipelines] /\ worker[w] \in Pipelines
  BY DEF BInv, LInv, TInv, TypeOK
<1>2. worker'[w].at = "committed" /\ \A x \in Workers \ {w} : worker'[x] = worker[x]
  BY <1>1 DEF ResetBaseline, Pipelines
<1>3. /\ UNCHANGED <<lock, workspace, seen, cleared>> /\ worker[w].at = "removed"
      /\ baseline' = workspace /\ usable'
  BY DEF ResetBaseline, CommitCurrentTree, database
<1>4. BaselineIsSeen'
  BY <1>3, OwnInputs DEF BaselineIsSeen
<1>5. InputsSeen'
  BY <1>2, <1>3 DEF BInv, InputsSeen, Consolidated
<1>6. WorkspaceIsOwners'
  BY <1>2, <1>3 DEF BInv, WorkspaceIsOwners, WithInputs
<1>7. RemovedIsSeen'
  BY <1>3 DEF RemovedIsSeen
<1>8. QED
  BY <1>4, <1>5, <1>6, <1>7 DEF BInv

\* A repository that is lost is not spoken of.
LEMMA LoseRepositoryB == ASSUME BInv, LInv', LoseRepository PROVE BInv'
<1>1. damaged' /\ UNCHANGED <<worker, lock, workspace, seen, cleared>>
  BY DEF LoseRepository, database
<1>2. QED
  BY <1>1 DEF BInv, InputsSeen, WorkspaceIsOwners, RemovedIsSeen, BaselineIsSeen

\* After a reset of all memories only the inputs that were seen are said anything of.
LEMMA ClearMemoryDataB == ASSUME BInv, LInv', ClearMemoryData PROVE BInv'
<1>1. cleared' /\ UNCHANGED <<worker, seen>>
  BY DEF ClearMemoryData
<1>2. QED
  BY <1>1 DEF BInv, InputsSeen, WorkspaceIsOwners, RemovedIsSeen, BaselineIsSeen

\* Every step keeps the baseline.
LEMMA StepBaseline == BInv /\ [Next]_vars => BInv'
<1> SUFFICES ASSUME BInv, [Next]_vars PROVE BInv'
  OBVIOUS
<1>1. LInv' /\ TInv
  BY StepLeases DEF BInv, LInv
<1>2. CASE UNCHANGED vars
  BY <1>1, <1>2 DEF vars, database, files, repository, outside, BInv, InputsSeen,
                    WorkspaceIsOwners, RemovedIsSeen, BaselineIsSeen
<1>3. CASE LeavesFiles
  BY <1>1, <1>3, LeavesFilesB
<1>4. ASSUME NEW w \in Workers,
             \/ (\E t \in Threads : Scan(w, t)) \/ ClaimStage1(w)
             \/ Stage1Succeeded(w) \/ Stage1NoOutput(w) \/ Stage1Failed(w)
             \/ ClaimPhase2(w) \/ Phase2Succeeded(w) \/ Phase2Failed(w) \/ Killed(w)
             \/ Heartbeat(w) \/ ConfirmLock(w) \/ CompareWithBaseline(w)
      PROVE  LeavesFiles
  BY <1>1, <1>4, WorkerFiles, HeartbeatFiles, CompareFiles
<1>5. ASSUME NEW w \in Workers,
             \/ Prepare(w) \/ LoadInputs(w) \/ AgentCompletes(w) \/ RemoveBaseline(w)
             \/ ResetBaseline(w)
      PROVE  BInv'
  BY <1>1, <1>5, PrepareB, LoadInputsB, AgentCompletesB, RemoveBaselineB, ResetBaselineB
<1>6. QED
  BY <1>1, <1>2, <1>3, <1>4, <1>5, OutsideFiles, ClearMemoryDataB, LoseRepositoryB DEF Next

\* Initially nothing is consolidated.
LEMMA InitBaseline == Init => BInv
BY InitLeases DEF Init, BInv, InputsSeen, WorkspaceIsOwners, RemovedIsSeen, BaselineIsSeen,
                  Idle, WithInputs, Consolidated

\* The baseline holds nothing that no agent has consolidated, unless the repository was
\* lost: the worker that replaces it has confirmed the lock within a lease, whoever else
\* would have written to the directory has had to own the lock for it, and the directory
\* that a worker commits to prepare it is one whose repository such a worker had removed.
THEOREM BaselineIsSeenTheorem == Spec => []BaselineIsSeen
<1>1. BInv => BaselineIsSeen
  BY DEF BInv
<1>2. QED
  BY <1>1, InitBaseline, StepBaseline, PTL DEF Spec

-----------------------------------------------------------------------------
(* The number of jobs that run. *)

\* Steps that claim no stage-1 job start no lease.
LEMMA NoNewLease ==
    ASSUME TInv, [Next]_vars,
           \A w \in Workers : ~ClaimStage1(w) PROVE LiveJobs' \subseteq LiveJobs
<1> SUFFICES ASSUME NEW t \in Threads, job'[t].left > 0 PROVE job[t].left > 0
  BY DEF LiveJobs
<1>1. job \in [Threads -> JobRows] /\ job[t] \in JobRows
  BY DEF TInv, TypeOK
<1>2. CASE UNCHANGED job
  BY <1>2
<1>3. CASE UNCHANGED vars \/ \E u \in Threads : UpdateThread(u) \/ Prune(u) \/ Pollute(u)
  <2>1. UNCHANGED job
    BY <1>3 DEF vars, database, UpdateThread, Prune, Pollute
  <2>2. QED
    BY <2>1
<1>4. CASE Tick
  <2>1. job'[t].left = Less(job[t].left) /\ job[t].left \in Nat
    BY <1>1, <1>4, TickedJobs, JobConstants DEF JobRows
  <2>2. QED
    BY <2>1, LessType
<1>5. CASE ClearMemoryData
  BY <1>5 DEF ClearMemoryData, NoJob
<1>6. ASSUME NEW w \in Workers, Stage1Succeeded(w) \/ Stage1NoOutput(w) \/ Stage1Failed(w)
      PROVE  job[t].left > 0
  <2>1. worker[w].thread \in Threads
    BY <1>6 DEF TInv, HasThread, Stage1Succeeded, Stage1NoOutput, Stage1Failed
  <2>2. CASE Stage1Succeeded(w) \/ Stage1NoOutput(w)
    <3>1. job'[t] = job[t] \/ job'[t] = Done(job[t])
      BY <1>1, <2>1, <2>2 DEF Stage1Succeeded, Stage1NoOutput, database
    <3>2. Done(job[t]).left = 0
      BY <1>1, DoneType
    <3>3. QED
      BY <3>1, <3>2
  <2>3. CASE Stage1Failed(w)
    <3>1. job'[t].left \in {0, job[t].left}
      BY <1>1, <2>1, <2>3 DEF Stage1Failed, JobRows
    <3>2. QED
      BY <3>1
  <2>4. QED
    BY <1>6, <2>2, <2>3
<1>7. ASSUME NEW w \in Workers,
             \/ (\E u \in Threads : Scan(w, u)) \/ ClaimPhase2(w) \/ Prepare(w) \/ LoadInputs(w)
             \/ CompareWithBaseline(w) \/ Heartbeat(w) \/ AgentCompletes(w) \/ ConfirmLock(w)
             \/ RemoveBaseline(w) \/ ResetBaseline(w) \/ Phase2Succeeded(w) \/ Phase2Failed(w)
             \/ Killed(w)
      PROVE  UNCHANGED job
  BY <1>7 DEF Scan, ClaimPhase2, Prepare, LoadInputs, CompareWithBaseline, Heartbeat,
              AgentCompletes, ConfirmLock, RemoveBaseline, ResetBaseline, Phase2Succeeded,
              Phase2Failed, Killed, database
<1>8. CASE LoseRepository
  BY <1>2, <1>8 DEF LoseRepository, database
<1>9. QED
  BY <1>2, <1>3, <1>4, <1>5, <1>6, <1>7, <1>8 DEF Next

\* A claim adds one lease, and only below the limit.
LEMMA ClaimStage1Limit ==
    ASSUME TInv, RunningLimit, NEW w \in Workers, ClaimStage1(w) PROVE RunningLimit'
<1> DEFINE t == worker[w].thread
           Others == LiveJobs \ {t}
<1>1. t \in Threads /\ job \in [Threads -> JobRows] /\ IsFiniteSet(LiveJobs)
  <2>1. t \in Threads /\ job \in [Threads -> JobRows]
    BY DEF TInv, TypeOK, HasThread, ClaimStage1
  <2>2. LiveJobs \in SUBSET Threads
    BY DEF LiveJobs
  <2>3. QED
    BY <2>1, <2>2, FS_Subset, JobConstants
<1>2. CASE UNCHANGED job
  BY <1>2 DEF RunningLimit, LiveJobs
<1>3. CASE Claimable(t, worker[w].version)
  <2>1. \A u \in Threads \ {t} : job'[u] = job[u]
    BY <1>1, <1>3 DEF ClaimStage1
  <2>2. LiveJobs' \in SUBSET (Others \union {t})
    BY <2>1 DEF LiveJobs
  <2>3. Cardinality(Others) < MaxRunning
    BY <1>3 DEF Claimable
  <2>4. IsFiniteSet(Others) /\ t \notin Others /\ Cardinality(Others) \in Nat
    BY <1>1, FS_RemoveElement, FS_CardinalityType
  <2>5. /\ IsFiniteSet(Others \union {t})
        /\ Cardinality(Others \union {t}) = Cardinality(Others) + 1
    BY <2>4, FS_AddElement
  <2>6. Cardinality(LiveJobs') \in Nat /\ Cardinality(LiveJobs') <= Cardinality(Others) + 1
    BY <2>2, <2>5, FS_Subset, FS_CardinalityType
  <2>7. Cardinality(LiveJobs') <= MaxRunning
    BY <2>3, <2>4, <2>6, JobConstants
  <2>8. QED
    BY <2>7 DEF RunningLimit
<1>4. QED
  BY <1>2, <1>3 DEF ClaimStage1

\* Every step keeps the limit.
LEMMA StepLimit == TInv /\ RunningLimit /\ [Next]_vars => RunningLimit'
<1> SUFFICES ASSUME TInv, RunningLimit, [Next]_vars PROVE RunningLimit'
  OBVIOUS
<1>1. CASE \E w \in Workers : ClaimStage1(w)
  BY <1>1, ClaimStage1Limit
<1>2. CASE \A w \in Workers : ~ClaimStage1(w)
  <2>1. LiveJobs' \in SUBSET LiveJobs
    BY <1>2, NoNewLease
  <2>2. LiveJobs \in SUBSET Threads
    BY DEF LiveJobs
  <2>3. IsFiniteSet(LiveJobs) /\ IsFiniteSet(LiveJobs')
    BY <2>1, <2>2, FS_Subset, JobConstants
  <2>4. Cardinality(LiveJobs') <= Cardinality(LiveJobs)
    BY <2>1, <2>3, FS_Subset
  <2>5. Cardinality(LiveJobs') \in Nat /\ Cardinality(LiveJobs) \in Nat
    BY <2>3, FS_CardinalityType
  <2>6. Cardinality(LiveJobs') <= MaxRunning
    BY <2>4, <2>5, JobConstants DEF RunningLimit
  <2>7. QED
    BY <2>6 DEF RunningLimit
<1>3. QED
  BY <1>1, <1>2

\* However many processes claim jobs, those with a lease are never more than one startup
\* may run: the count and the claim are one transaction.
THEOREM RunningLimitTheorem == Spec => []RunningLimit
<1>1. Init => RunningLimit
  <2> SUFFICES ASSUME Init PROVE RunningLimit
    OBVIOUS
  <2>1. LiveJobs = {}
    BY DEF Init, LiveJobs, NoJob
  <2>2. QED
    BY <2>1, FS_EmptySet, JobConstants DEF RunningLimit
<1>2. QED
  BY <1>1, InitTypes, StepTypes, StepLimit, PTL DEF Spec

=============================================================================
