------------------------------ MODULE JobQueue ------------------------------
(***************************************************************************)
(* The durable job queue of beampipe: the PostgreSQL tables jobs,          *)
(* worker_instances and job_claim_history, and the worker processes that   *)
(* claim, renew and settle jobs under expiring, token-fenced leases        *)
(* (crates/beampipe-db/src/repo.rs, crates/beampipe-jobs/src/lib.rs).      *)
(*                                                                         *)
(* Time is relative: a job row keeps the ticks left until its lease        *)
(* expires and until next_run_at, so now() > lease_expires_at is           *)
(* "lease = 0".  A claim token is a fresh number standing for the          *)
(* Uuid::now_v7() of the code; 0 is SQL NULL.                              *)
(***************************************************************************)
EXTENDS Integers, FiniteSets

CONSTANTS
    Workers,        \* worker process instances (a restart is a new instance)
    Slots,          \* the consumer loops of all the workers
    WorkerOf,       \* the worker whose process runs a slot
    Pools,          \* worker pools
    PoolOf,         \* the configured pool of a worker
    DefaultPool,    \* the pool column's default
    Jobs,           \* job identities (idempotency keys)
    Kind,           \* the kind of a job, up to what the queue distinguishes
    CapableOf,      \* the jobs whose capabilities and labels a worker covers
    MaxAttempts,    \* jobs.max_attempts
    LockTicks,      \* config.lock_seconds
    DelayTicks,     \* retry and reschedule delays
    MaxClaims,      \* bound on the claims ever made
    MaxFaults,      \* bound on crashes, stalls and lost connections
    NoWorker, NoJob

Kinds == {"execute", "batch", "tick", "poll_tick"}

ASSUME QueueAssumption ==
    /\ WorkerOf \in [Slots -> Workers]
    /\ DefaultPool \in Pools
    /\ PoolOf \in [Workers -> Pools]
    /\ Kind \in [Jobs -> Kinds]
    /\ CapableOf \in [Workers -> SUBSET Jobs]
    /\ MaxAttempts \in Nat \ {0}
    /\ LockTicks \in Nat \ {0}
    /\ DelayTicks \in Nat \ {0}
    /\ MaxClaims \in Nat
    /\ MaxFaults \in Nat
    /\ NoWorker \notin Workers
    /\ NoJob \notin Jobs

\* A deployment has finitely many consumer loops and rows of the jobs table:
\* the capacity checks count them.
ASSUME FiniteAssumption == IsFiniteSet(Slots) /\ IsFiniteSet(Jobs)

VARIABLES
    jobs,       \* the jobs table
    registry,   \* worker_instances.status, "absent" when there is no row
    proc,       \* the state of each worker process
    slots,      \* the local state of each consumer loop
    history,    \* the rows of job_claim_history
    claims,     \* claims made so far; the next token is claims + 1
    faults      \* faults spent

vars == <<jobs, registry, proc, slots, history, claims, faults>>

JobStatus == {"absent", "queued", "running", "completed", "failed",
              "dead_letter", "cancelled"}
Settled == {"completed", "failed", "dead_letter"}
Outcomes == {"completed", "requeued", "failed", "dead_lettered"}
Results == {"ok", "retryable", "permanent"}

JobRow == [status : JobStatus, attempts : Nat, pool : Pools,
           owner : Workers \cup {NoWorker}, token : Nat,
           lease : 0..LockTicks, wait : 0..DelayTicks]
Slot == [pc : {"down", "idle", "claiming", "running", "finishing"},
         job : Jobs \cup {NoJob}, token : Nat, result : Results]
ClaimRow == [job : Jobs, worker : Workers, token : Nat,
             event : Outcomes \cup {"claimed", "recovered", "released"},
             prev : Nat]

TypeOK ==
    /\ jobs \in [Jobs -> JobRow]
    /\ registry \in [Workers -> {"absent", "active", "draining", "stopped"}]
    /\ proc \in [Workers -> {"off", "booting", "up", "stopping", "dead"}]
    /\ slots \in [Slots -> Slot]
    /\ history \subseteq ClaimRow
    /\ claims \in 0..MaxClaims
    /\ faults \in 0..MaxFaults

----------------------------------------------------------------------------
\* Row values

NoClaim == [pc |-> "idle", job |-> NoJob, token |-> 0, result |-> "ok"]
SlotDown == [pc |-> "down", job |-> NoJob, token |-> 0, result |-> "ok"]

\* A row without a claim.  Every INSERT leaves locked_until, lease_owner,
\* lease_token, lease_expires_at and heartbeat_at NULL, every UPDATE that ends a
\* claim clears them together.
Unclaimed(status, attempts, pool, wait) ==
    [status |-> status, attempts |-> attempts, pool |-> pool,
     owner |-> NoWorker, token |-> 0, lease |-> 0, wait |-> wait]

AbsentJob == Unclaimed("absent", 0, DefaultPool, 0)

Released(row, status) == Unclaimed(status, row.attempts, row.pool, row.wait)

\* The claim's UPDATE.
Claimed(row, w, t) ==
    [status |-> "running", attempts |-> row.attempts + 1, pool |-> row.pool,
     owner |-> w, token |-> t, lease |-> LockTicks, wait |-> row.wait]

\* The two branches of a recurring enqueue: a new or settled job starts over, a
\* queued, running or cancelled one keeps its status, attempts and lease.
Rearmed(row) ==
    IF row.status \in Settled \cup {"absent"}
      THEN Unclaimed("queued", 0, row.pool, 0)
      ELSE row

Init ==
    /\ jobs = [j \in Jobs |-> AbsentJob]
    /\ registry = [w \in Workers |-> "absent"]
    /\ proc = [w \in Workers |-> "off"]
    /\ slots = [s \in Slots |-> SlotDown]
    /\ history = {}
    /\ claims = 0
    /\ faults = 0

----------------------------------------------------------------------------
\* Capacity and eligibility, as the claim transaction computes them

SlotsOf(w) == {s \in Slots : WorkerOf[s] = w}

\* concurrency_limit = config.concurrency.max(1), which is also the number of
\* consumer loops spawn_workers starts.
ConcurrencyLimit(w) == Cardinality(SlotsOf(w))

ActiveLeases(w) ==
    {j \in Jobs : jobs[j].status = "running" /\ jobs[j].owner = w /\ jobs[j].lease > 0}

\* SUM(concurrency_limit) over the pool's active rows: all of their slots.
PoolLimit(p) ==
    Cardinality({s \in Slots : PoolOf[WorkerOf[s]] = p /\ registry[WorkerOf[s]] = "active"})

PoolLeases(p) ==
    {j \in Jobs : jobs[j].pool = p /\ jobs[j].status = "running" /\ jobs[j].lease > 0}

\* Defect for a mutant run: <= for < in the worker limit.
HasCapacityOverOne(w) ==
    /\ Cardinality(ActiveLeases(w)) <= ConcurrencyLimit(w)
    /\ Cardinality(PoolLeases(PoolOf[w])) < PoolLimit(PoolOf[w])

HasCapacity(w) ==
    /\ Cardinality(ActiveLeases(w)) < ConcurrencyLimit(w)
    /\ Cardinality(PoolLeases(PoolOf[w])) < PoolLimit(PoolOf[w])

\* Defect for a mutant run: expired running jobs are not recovered.
ClaimableQueued(w, j) ==
    /\ jobs[j].pool = PoolOf[w]
    /\ j \in CapableOf[w]
    /\ jobs[j].status = "queued" /\ jobs[j].wait = 0

\* The WHERE clause of the candidate query.  Recovery of an expired running
\* job does not look at attempts.
Claimable(w, j) ==
    /\ jobs[j].pool = PoolOf[w]
    /\ j \in CapableOf[w]
    /\ \/ jobs[j].status = "queued" /\ jobs[j].wait = 0
       \/ jobs[j].status = "running"
    /\ jobs[j].lease = 0

\* Defect for a mutant run: neither owner nor token is compared.
FencedByStatus(s) == jobs[slots[s].job].status = "running"

\* The fence every lease-holding UPDATE repeats in its WHERE clause.
Fenced(s) ==
    /\ jobs[slots[s].job].status = "running"
    /\ jobs[slots[s].job].owner = WorkerOf[s]
    /\ jobs[slots[s].job].token = slots[s].token

Record(j, w, t, event, prev) ==
    history' = history \cup
        {[job |-> j, worker |-> w, token |-> t, event |-> event, prev |-> prev]}

----------------------------------------------------------------------------
\* Enqueueing

\* enqueue_job_with_options: an existing idempotency key only has updated_at
\* touched, so a job identity is inserted once.
EnqueueJob(j) ==
    /\ Kind[j] \in {"execute", "batch"}
    /\ jobs[j].status = "absent"
    /\ \E d \in {0, DelayTicks}, p \in Pools :
         jobs' = [jobs EXCEPT ![j] = Unclaimed("queued", 0, p, d)]
    /\ UNCHANGED <<registry, proc, slots, history, claims, faults>>

\* enqueue_recurring_job_with_options, called by bootstrap_schedulers on every
\* scheduler interval of every process: the pool is overwritten whatever the
\* status, also while the job runs.
EnqueueRecurring(w, j) ==
    /\ proc[w] \in {"booting", "up", "stopping"}
    /\ Kind[j] \in {"tick", "poll_tick"}
    /\ jobs' = [jobs EXCEPT ![j] = [Rearmed(jobs[j]) EXCEPT !.pool = PoolOf[w]]]
    /\ UNCHANGED <<registry, proc, slots, history, claims, faults>>

\* The job half of mark_sources_and_enqueue_discovery_tick: the same reset,
\* but the pool of an existing job is kept.
TriggerDiscovery(j) ==
    /\ Kind[j] = "tick"
    /\ jobs' = [jobs EXCEPT ![j] = Rearmed(jobs[j])]
    /\ UNCHANGED <<registry, proc, slots, history, claims, faults>>

----------------------------------------------------------------------------
\* Worker processes and their registration

\* spawn_workers: the consumer loops start at once, registration runs beside
\* them in the heartbeat task.
Spawn(w) ==
    /\ proc[w] = "off"
    /\ proc' = [proc EXCEPT ![w] = "booting"]
    /\ slots' = [s \in Slots |-> IF WorkerOf[s] = w THEN NoClaim ELSE slots[s]]
    /\ UNCHANGED <<jobs, registry, history, claims, faults>>

\* register_worker_instance: retried until acknowledged, also while the process
\* shuts down; re-registration keeps a draining row draining.
Register(w, acknowledged) ==
    /\ proc[w] = "booting" \/ (proc[w] = "stopping" /\ registry[w] = "absent")
    /\ registry' = [registry EXCEPT ![w] = IF @ = "draining" THEN "draining" ELSE "active"]
    /\ proc' = [proc EXCEPT ![w] = IF @ = "booting" /\ acknowledged THEN "up" ELSE @]
    /\ UNCHANGED <<jobs, slots, history, claims, faults>>

\* set_worker_draining, from the API's drain and resume operations.
SetDraining(w, draining) ==
    /\ registry[w] \in {"active", "draining"}
    /\ registry' = [registry EXCEPT ![w] = IF draining THEN "draining" ELSE "active"]
    /\ UNCHANGED <<jobs, proc, slots, history, claims, faults>>

\* WorkerPool::shutdown, first half: drain once.
BeginShutdown(w) ==
    /\ proc[w] \in {"booting", "up"}
    /\ proc' = [proc EXCEPT ![w] = "stopping"]
    /\ registry' = [registry EXCEPT ![w] = IF @ = "absent" THEN @ ELSE "draining"]
    /\ UNCHANGED <<jobs, slots, history, claims, faults>>

\* WorkerPool::shutdown, second half: no active lease was counted, or the grace
\* period ran out; the loops are aborted wherever they are and the row stopped.
FinishShutdown(w) ==
    /\ proc[w] = "stopping"
    /\ proc' = [proc EXCEPT ![w] = "dead"]
    /\ registry' = [registry EXCEPT ![w] = IF @ = "absent" THEN @ ELSE "stopped"]
    /\ slots' = [s \in Slots |-> IF WorkerOf[s] = w THEN SlotDown ELSE slots[s]]
    /\ UNCHANGED <<jobs, history, claims, faults>>

\* The process dies: its row stays as it was, its leases run out.
Crash(w) ==
    /\ proc[w] \in {"booting", "up", "stopping"}
    /\ faults < MaxFaults
    /\ faults' = faults + 1
    /\ proc' = [proc EXCEPT ![w] = "dead"]
    /\ slots' = [s \in Slots |-> IF WorkerOf[s] = w THEN SlotDown ELSE slots[s]]
    /\ UNCHANGED <<jobs, registry, history, claims>>

----------------------------------------------------------------------------
\* One consumer loop: tick_for_worker and dispatch_with_lease

\* The claim transaction reads its worker row before it waits for the pool's
\* advisory lock.
ClaimBegin(s) ==
    /\ slots[s].pc = "idle"
    /\ registry[WorkerOf[s]] = "active"
    /\ slots' = [slots EXCEPT ![s].pc = "claiming"]
    /\ UNCHANGED <<jobs, registry, proc, history, claims, faults>>

\* ... and under that lock counts leases, picks a candidate and takes it.
\* Which candidate (priority with aging, next_run_at) is left open.
ClaimCommit(s, j) ==
    LET w == WorkerOf[s] IN
    /\ slots[s].pc = "claiming"
    /\ claims < MaxClaims
    /\ HasCapacity(w)
    /\ Claimable(w, j)
    /\ claims' = claims + 1
    /\ jobs' = [jobs EXCEPT ![j] = Claimed(jobs[j], w, claims + 1)]
    /\ Record(j, w, claims + 1,
              IF jobs[j].status = "running" THEN "recovered" ELSE "claimed",
              jobs[j].token)
    /\ slots' = [slots EXCEPT ![s] = [pc |-> "running", job |-> j,
                                      token |-> claims + 1, result |-> "ok"]]
    /\ UNCHANGED <<registry, proc, faults>>

\* No capacity or no candidate: back to sleep until the next poll.
ClaimNothing(s) ==
    /\ slots[s].pc = "claiming"
    /\ ~HasCapacity(WorkerOf[s]) \/ \A j \in Jobs : ~Claimable(WorkerOf[s], j)
    /\ slots' = [slots EXCEPT ![s] = NoClaim]
    /\ UNCHANGED <<jobs, registry, proc, history, claims, faults>>

\* renew_job_lease needs the fence and an unexpired lease.
Renew(s) ==
    /\ slots[s].pc = "running"
    /\ Fenced(s)
    /\ jobs[slots[s].job].lease > 0
    /\ jobs' = [jobs EXCEPT ![slots[s].job].lease = LockTicks]
    /\ UNCHANGED <<registry, proc, slots, history, claims, faults>>

\* A refused renewal drops the handler's future.
RenewRefused(s) ==
    /\ slots[s].pc = "running"
    /\ ~(Fenced(s) /\ jobs[slots[s].job].lease > 0)
    /\ slots' = [slots EXCEPT ![s] = NoClaim]
    /\ UNCHANGED <<jobs, registry, proc, history, claims, faults>>

\* The handler returns; its result is classified (is_non_retryable_job_error).
HandlerReturns(s, result) ==
    /\ slots[s].pc = "running"
    /\ slots' = [slots EXCEPT ![s] = [@ EXCEPT !.pc = "finishing", !.result = result]]
    /\ UNCHANGED <<jobs, registry, proc, history, claims, faults>>

\* What the settling UPDATE makes of a job row, per result.
SettledRow(j, result) ==
    LET row == jobs[j] IN
    CASE result = "ok" /\ Kind[j] = "poll_tick" ->
           Unclaimed("queued", 0, row.pool, DelayTicks)
      [] result = "ok" /\ Kind[j] # "poll_tick" ->
           Released(row, "completed")
      [] result = "permanent" ->
           Released(row, "failed")
      [] result = "retryable" ->
           Unclaimed(IF row.attempts >= MaxAttempts THEN "dead_letter" ELSE "queued",
                     row.attempts, row.pool, DelayTicks)

EventOf(status) ==
    CASE status = "queued" -> "requeued"
      [] status = "dead_letter" -> "dead_lettered"
      [] OTHER -> status

\* complete_, reschedule_recurring_, fail_job_permanently_ and
\* fail_or_retry_job_with_lease: fenced by owner and token, not by expiry.
Finish(s) ==
    LET j == slots[s].job
        row == SettledRow(j, slots[s].result)
    IN
    /\ slots[s].pc = "finishing"
    /\ Fenced(s)
    /\ jobs' = [jobs EXCEPT ![j] = row]
    /\ Record(j, WorkerOf[s], slots[s].token, EventOf(row.status), 0)
    /\ slots' = [slots EXCEPT ![s] = NoClaim]
    /\ UNCHANGED <<registry, proc, claims, faults>>

FinishRejected(s) ==
    /\ slots[s].pc = "finishing"
    /\ ~Fenced(s)
    /\ slots' = [slots EXCEPT ![s] = NoClaim]
    /\ UNCHANGED <<jobs, registry, proc, history, claims, faults>>

\* A statement of the loop fails: tick_for_worker returns Err and the loop
\* starts over, leaving a claimed job running until its lease expires.
LoseDatabase(s) ==
    /\ slots[s].pc \in {"claiming", "running", "finishing"}
    /\ faults < MaxFaults
    /\ faults' = faults + 1
    /\ slots' = [slots EXCEPT ![s] = NoClaim]
    /\ UNCHANGED <<jobs, registry, proc, history, claims>>

----------------------------------------------------------------------------
\* Writes to the jobs table from the execution ledger

\* cancel_execution: the execute jobs of the execution lose their lease, active
\* or not, and no claim-history row is written.
CancelJob(j) ==
    /\ Kind[j] = "execute"
    /\ jobs[j].status \in {"queued", "running"}
    /\ jobs' = [jobs EXCEPT ![j] = Released(jobs[j], "cancelled")]
    /\ UNCHANGED <<registry, proc, slots, history, claims, faults>>

\* abandon_slurm_submission: only when no execute lease is active; the claim of
\* an expired one is recorded as released.
ReleaseAbandoned(j) ==
    /\ Kind[j] = "execute"
    /\ jobs[j].status \in {"queued", "running"}
    /\ jobs[j].lease = 0
    /\ jobs' = [jobs EXCEPT ![j] = Released(jobs[j], "cancelled")]
    /\ IF jobs[j].token # 0
         THEN Record(j, jobs[j].owner, jobs[j].token, "released", 0)
         ELSE UNCHANGED history
    /\ UNCHANGED <<registry, proc, slots, claims, faults>>

----------------------------------------------------------------------------
\* The clock

Countdown(n) == IF n = 0 THEN 0 ELSE n - 1

\* A live handler renews every third of its lease, so that its lease runs out
\* under it is a fault: a stalled process or an unreachable database.
Stalling == \E s \in Slots : /\ slots[s].pc \in {"running", "finishing"}
                             /\ Fenced(s)
                             /\ jobs[slots[s].job].lease = 1

Tick ==
    /\ \E j \in Jobs : jobs[j].lease > 0 \/ jobs[j].wait > 0
    /\ jobs' = [j \in Jobs |-> [jobs[j] EXCEPT !.lease = Countdown(@),
                                               !.wait = Countdown(@)]]
    /\ IF Stalling THEN faults < MaxFaults /\ faults' = faults + 1
                   ELSE UNCHANGED faults
    /\ UNCHANGED <<registry, proc, slots, history, claims>>

Consume(s) ==
    \/ ClaimBegin(s)
    \/ \E j \in Jobs : ClaimCommit(s, j)
    \/ ClaimNothing(s)
    \/ Renew(s)
    \/ RenewRefused(s)
    \/ \E result \in Results : HandlerReturns(s, result)
    \/ Finish(s)
    \/ FinishRejected(s)
    \/ LoseDatabase(s)

Next ==
    \/ \E j \in Jobs : \/ EnqueueJob(j)
                       \/ TriggerDiscovery(j)
                       \/ CancelJob(j)
                       \/ ReleaseAbandoned(j)
    \/ \E w \in Workers : \/ Spawn(w)
                          \/ \E b \in BOOLEAN : Register(w, b) \/ SetDraining(w, b)
                          \/ BeginShutdown(w)
                          \/ FinishShutdown(w)
                          \/ Crash(w)
                          \/ \E j \in Jobs : EnqueueRecurring(w, j)
    \/ \E s \in Slots : Consume(s)
    \/ Tick

Spec == Init /\ [][Next]_vars

\* The scheduling the code gives: consumer loops, renewals and the clock never
\* stop; operators, crashes and cancellations need not act.
Fairness ==
    /\ WF_vars(Tick)
    /\ \A s \in Slots :
         /\ WF_vars(ClaimBegin(s))
         /\ WF_vars(ClaimNothing(s) \/ \E j \in Jobs : ClaimCommit(s, j))
         /\ WF_vars(RenewRefused(s) \/ \E r \in Results : HandlerReturns(s, r))
         /\ WF_vars(Finish(s) \/ FinishRejected(s))

FairSpec == Spec /\ Fairness

----------------------------------------------------------------------------
\* Safety

\* Fencing: a claim that another worker has recovered never settles its job.
\* The claim history would show an outcome under the token that a later
\* "recovered" row names as the previous one.
RecoveredClaimNeverSettles ==
    \A r, q \in history :
        (r.event = "recovered" /\ q.event \in Outcomes) => q.token # r.prev

\* Only the latest claim of a job ever settles it, at most once, and never after
\* an abandonment recorded it as released: also when the job was not recovered
\* but requeued, cancelled or rearmed in between.
OnlyLatestClaimSettles ==
    [][\A r \in history' \ history :
         r.event \in Outcomes =>
           \A q \in history : q.job = r.job =>
             \/ q.token < r.token
             \/ q.token = r.token /\ q.event \in {"claimed", "recovered"}]_vars

\* However many handlers run for one job at a time (an expired holder does not
\* know it), at most one of them holds a claim that can still settle it.
OneLiveHolder ==
    \A s, t \in Slots :
        ( /\ slots[s].pc \in {"running", "finishing"}
          /\ slots[t].pc \in {"running", "finishing"}
          /\ slots[s].job = slots[t].job
          /\ Fenced(s) /\ Fenced(t) ) => s = t

\* A worker never has more unexpired leases than its concurrency limit, though
\* leases survive the loop that took them and recurring jobs change pools.
WorkerWithinLimit ==
    \A w \in Workers : Cardinality(ActiveLeases(w)) <= ConcurrencyLimit(w)

\* A queued job always has an attempt left: what was exhausted is dead-lettered
\* or starts over with zero attempts.
QueuedHasAttemptsLeft ==
    \A j \in Jobs : jobs[j].status = "queued" => jobs[j].attempts < MaxAttempts

\* "An active lease cannot be stolen": a claim token is replaced by another
\* only once its lease has run out.
ActiveLeaseNotStolen ==
    [][\A j \in Jobs :
         (jobs[j].lease > 0 /\ jobs'[j].token # jobs[j].token)
            => jobs'[j].token = 0]_vars

\* The queue implements the abstract lease: whatever a worker, an operator, the
\* clock or a failure does is a grant to an unleased job, a settlement by the
\* current holder, a revocation, an expiry, or nothing.
Lease == INSTANCE FencedLease WITH
           holder <- [j \in Jobs |-> jobs[j].token],
           live <- {j \in Jobs : jobs[j].lease > 0},
           issued <- claims,
           settled <- {r.token : r \in {q \in history : q.event \in Outcomes}}

ImplementsFencedLease == Lease!Spec

\* What the operator documentation says of retries: exhausted work becomes
\* operator-visible instead of looping forever.
AttemptsBounded == \A j \in Jobs : jobs[j].attempts <= MaxAttempts

\* Liveness: if from some point on one consumer loop of an active worker covers
\* the job and its pool, the job settles or is cancelled, crashes, stalls and
\* lost connections of its holders notwithstanding.
Serves(s, j) ==
    /\ slots[s].pc # "down"
    /\ registry[WorkerOf[s]] = "active"
    /\ jobs[j].pool = PoolOf[WorkerOf[s]]
    /\ j \in CapableOf[WorkerOf[s]]

JobsSettle ==
    \A s \in Slots, j \in Jobs :
        <>[]Serves(s, j) =>
            (jobs[j].status \in {"queued", "running"}
               ~> jobs[j].status \in Settled \cup {"cancelled"})
=============================================================================
