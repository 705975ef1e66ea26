--------------------------- MODULE SourceRegistry ---------------------------
(***************************************************************************)
(* The sources of one project: their discovery under time-limited claims,  *)
(* the mark that makes a changed one pending, the scheduler tick that      *)
(* admits pending sources into executions, and what an execution writes    *)
(* back when it ends.                                                      *)
(* (crates/beampipe-db/src/repo.rs, crates/beampipe-jobs/src/lib.rs)       *)
(*                                                                         *)
(* Every transaction is one step.  A claim is a token and an expiry; some  *)
(* writers compare the token, others clear the claim whoever holds it.     *)
(***************************************************************************)
EXTENDS Integers, FiniteSets

CONSTANTS
    Sources,        \* the enabled sources of the project
    MaxVersion,     \* bound on changes of a source in the archive
    Empty,          \* archive versions with no records
    Kept,           \* versions whose stored metadata is complete: it answers for the archive
    Batches,        \* discover_batch jobs that can exist at a time
    Runners,        \* consumer loops that run discover_batch jobs
    Ticks,          \* claim tokens of the execution scheduler's ticks
    Execs,          \* executions that can be created
    BatchSize,      \* sources of one discovery claim
    ClaimLimit,     \* tick_execution_source_limit
    ChunkSize,      \* max_sources_per_execution
    ProfileCap,     \* max_concurrent_executions of the deployment profile
    MaxUpsets,      \* bound on faults and operator requests
    NoBatch, NoTick

ASSUME RegistryAssumption ==
    /\ MaxVersion \in Nat \ {0}
    /\ Empty \subseteq 1..MaxVersion
    /\ \A v, w \in Empty : v = w     \* they all have no_records_signature
    /\ Kept \subseteq (1..MaxVersion) \ Empty
    /\ BatchSize \in Nat \ {0}
    /\ ClaimLimit \in Nat \ {0}
    /\ ChunkSize \in Nat \ {0}
    /\ ProfileCap \in Nat \ {0}
    /\ MaxUpsets \in Nat
    /\ NoBatch \notin Batches
    /\ NoTick \notin Ticks

VARIABLES
    archive,    \* the version of each source the archive would answer with
    reg,        \* source_registry
    batch,      \* the discover_batch jobs
    runner,     \* their handlers
    tick,       \* the execution scheduler's ticks
    exec,       \* the executions, as far as they concern sources
    upsets      \* lost handlers, expired claims, lost writes, operator requests

vars == <<archive, reg, batch, runner, tick, exec, upsets>>

----------------------------------------------------------------------------
\* A discovery signature stands for the version it digests, 0 for NULL.
Signature == 0..MaxVersion

Entry == [sig : Signature, last : Signature, pending : BOOLEAN,
          checked : {"never", "stale", "fresh"},
          dtoken : Batches \cup {NoBatch}, dlive : BOOLEAN,
          wtoken : Ticks \cup {NoTick}, wlive : BOOLEAN]

\* "claimed" is a batch whose sources are claimed but which is not enqueued.
\* "again" says that the job was delivered more than once.
Batch == [job : {"none", "claimed", "queued", "running"}, src : SUBSET Sources,
          again : BOOLEAN]

\* "kept" are the sources whose stored metadata answered; "holder" says that
\* the runner still has the lease of its job.
Runner == [pc : {"idle", "query", "persist", "release", "settle"},
           batch : Batches \cup {NoBatch}, todo : SUBSET Sources,
           kept : SUBSET Sources, seen : [Sources -> Signature], holder : BOOLEAN]

Tick == [pc : {"idle", "partition", "sweep", "create", "clear", "release"},
         src : SUBSET Sources, todo : SUBSET Sources, already : SUBSET Sources,
         valid : SUBSET Sources, admitted : SUBSET Sources]

\* "outside" says that work was submitted.  "owes" is the write to the
\* registry that is still to follow the execution's last status.
Exec == [status : {"unused", "admitted", "running", "completed", "failed", "cancelled"},
         src : SUBSET Sources, sig : [Sources -> Signature], outside : BOOLEAN,
         owes : {"nothing", "remark", "pollremark", "finalize", "clear"}]

NoJob == [job |-> "none", src |-> {}, again |-> FALSE]
Nothing == [s \in Sources |-> 0]
IdleRunner == [pc |-> "idle", batch |-> NoBatch, todo |-> {}, kept |-> {},
               seen |-> Nothing, holder |-> FALSE]
IdleTick == [pc |-> "idle", src |-> {}, todo |-> {}, already |-> {}, valid |-> {},
             admitted |-> {}]

Init ==
    /\ archive = [s \in Sources |-> 1]
    /\ reg = [s \in Sources |->
                [sig |-> 0, last |-> 0, pending |-> FALSE, checked |-> "never",
                 dtoken |-> NoBatch, dlive |-> FALSE, wtoken |-> NoTick, wlive |-> FALSE]]
    /\ batch = [b \in Batches |-> NoJob]
    /\ runner = [r \in Runners |-> IdleRunner]
    /\ tick = [k \in Ticks |-> IdleTick]
    /\ exec = [e \in Execs |-> [status |-> "unused", src |-> {}, sig |-> Nothing,
                                outside |-> FALSE, owes |-> "nothing"]]
    /\ upsets = 0

----------------------------------------------------------------------------
(* The updates of source_registry that several operations share.           *)

Upset == upsets < MaxUpsets /\ upsets' = upsets + 1

\* clear_workflow_pending_for_sources: the claim goes too, whoever holds it.
ClearPending(ss) ==
    reg' = [s \in Sources |->
              IF s \in ss
                THEN [reg[s] EXCEPT !.pending = FALSE, !.wtoken = NoTick, !.wlive = FALSE]
                ELSE reg[s]]

\* mark_sources_pending_workflow_run: so does the claim here.
MarkPending(ss) ==
    reg' = [s \in Sources |->
              IF s \in ss
                THEN [reg[s] EXCEPT !.pending = TRUE, !.wtoken = NoTick, !.wlive = FALSE]
                ELSE reg[s]]

\* The combined signature of an execution is the one its sources have now.
SignatureIsCurrent(e) == \A s \in exec[e].src : reg[s].sig = exec[e].sig[s]

\* Defect for a mutant run: a completed execution consumes what it finds.
FinalizeAnySignature(e) ==
    reg' = [s \in Sources |->
              IF s \in exec[e].src
                THEN [reg[s] EXCEPT !.pending = FALSE, !.last = reg[s].sig,
                                    !.wtoken = NoTick, !.wlive = FALSE]
                ELSE reg[s]]

\* finalize_successful_sources: what was admitted is consumed; if any source
\* changed since, all of them go back to the scheduler and keep their claims.
FinalizeSources(e) ==
    reg' = [s \in Sources |->
              IF s \notin exec[e].src THEN reg[s]
              ELSE IF SignatureIsCurrent(e) /\ \A t \in exec[e].src : reg[t].sig # 0
                THEN [reg[s] EXCEPT !.pending = FALSE, !.last = reg[s].sig,
                                    !.wtoken = NoTick, !.wlive = FALSE]
                ELSE [reg[s] EXCEPT !.pending = TRUE]]

\* parsed_source_readiness_error.  A claim that expired still counts.
Ready(s) == reg[s].checked # "never" /\ reg[s].sig # 0 /\ reg[s].dtoken = NoBatch

AlreadyExecuted(s) == reg[s].sig # 0 /\ reg[s].sig = reg[s].last

FirstFew(n, ss) ==
    {t \in SUBSET ss : Cardinality(t) = (IF Cardinality(ss) < n THEN Cardinality(ss) ELSE n)}

----------------------------------------------------------------------------
(* Discovery.                                                              *)

\* Defect for a mutant run: only a released source can be claimed.
StaleAndReleased ==
    {s \in Sources : reg[s].dtoken = NoBatch /\ reg[s].checked # "fresh"}

StaleAndUnclaimed ==
    {s \in Sources : ~reg[s].dlive /\ reg[s].checked # "fresh"}

\* claim_source_rows_for_discovery, its update.
ClaimForDiscovery(b, ss) ==
    reg' = [s \in Sources |->
              IF s \in ss THEN [reg[s] EXCEPT !.dtoken = b, !.dlive = TRUE] ELSE reg[s]]

\* run_scheduler_tick up to the claim.  An unreachable archive, a full queue and
\* the limits on batches in flight end the tick before it claims: they put this
\* action off.  The token is new: no job and no handler has it.
ClaimSources(b) ==
    /\ batch[b].job = "none"
    /\ \A r \in Runners : runner[r].batch # b
    /\ StaleAndUnclaimed # {}
    /\ \E ss \in FirstFew(BatchSize, StaleAndUnclaimed) :
         /\ ClaimForDiscovery(b, ss)
         /\ batch' = [batch EXCEPT ![b] = [NoJob EXCEPT !.job = "claimed", !.src = ss]]
    /\ UNCHANGED <<archive, runner, tick, exec, upsets>>

\* The job is inserted by a second transaction.
EnqueueBatch(b) ==
    /\ batch[b].job = "claimed"
    /\ batch' = [batch EXCEPT ![b].job = "queued"]
    /\ UNCHANGED <<archive, reg, runner, tick, exec, upsets>>

\* The tick ends in between: the claim stays until it expires.
EnqueueLost(b) ==
    /\ batch[b].job = "claimed"
    /\ Upset
    /\ batch' = [batch EXCEPT ![b] = NoJob]
    /\ UNCHANGED <<archive, reg, runner, tick, exec>>

StartBatch(r, b) ==
    /\ runner[r].pc = "idle"
    /\ batch[b].job = "queued"
    /\ batch' = [batch EXCEPT ![b].job = "running"]
    /\ runner' = [runner EXCEPT ![r] = [pc |-> "query", batch |-> b, todo |-> batch[b].src,
                                        kept |-> {}, seen |-> Nothing, holder |-> TRUE]]
    /\ UNCHANGED <<archive, reg, tick, exec, upsets>>

\* Defect for a mutant run: whatever was discovered once answers.
CachedAlways(s) == reg[s].sig # 0

\* discover_source: prepared metadata that is complete, and still digests to
\* the signature it was stored with, answers "unchanged".  A project that
\* requires no fields of it finds any complete (prepared_metadata_cache_complete):
\* then every version with records is in Kept.
Cached(s) == reg[s].sig \in Kept

\* discover_source, where it asks: the records found, or that there are none.
Answer(s) == archive[s]

\* discover_sources_parallel: the archive is asked for the others.
Query(r) ==
    /\ runner[r].pc = "query"
    /\ LET kept == {s \in runner[r].todo : Cached(s)}
           asked == runner[r].todo \ kept
       IN runner' = [runner EXCEPT ![r].pc = "persist", ![r].todo = asked, ![r].kept = kept,
                                   ![r].seen = [s \in Sources |->
                                      IF s \in asked THEN Answer(s) ELSE 0]]
    /\ UNCHANGED <<archive, reg, batch, tick, exec, upsets>>

\* A source that timed out or failed is left as it was.
QueryFails(r, s) ==
    /\ runner[r].pc = "query"
    /\ s \in runner[r].todo
    /\ Upset
    /\ runner' = [runner EXCEPT ![r].todo = @ \ {s}]
    /\ UNCHANGED <<archive, reg, batch, tick, exec>>

\* persist_changed_or_unchanged, where the signature changed: the metadata is
\* replaced and the source becomes pending, ...
Changed(row, v) == [row EXCEPT !.sig = v, !.checked = "fresh", !.pending = TRUE]

\* ... and where it did not.
Unchanged(row) == [row EXCEPT !.checked = "fresh"]

\* persist_no_records: the signature is the one of no records, a source that is
\* pending stays so and one that is not does not become it.
NoRecords(row, v) == [row EXCEPT !.sig = v, !.checked = "fresh"]

Persisted(row, v) ==
    IF v \in Empty THEN NoRecords(row, v)
    ELSE IF v = row.sig THEN Unchanged(row)
    ELSE Changed(row, v)

\* Defect for a mutant run: the row is updated whoever claims it.
PersistAnyClaim(r, s) ==
    /\ runner[r].pc = "persist"
    /\ s \in runner[r].todo
    /\ runner' = [runner EXCEPT ![r].todo = @ \ {s}]
    /\ reg' = [reg EXCEPT ![s] = Persisted(@, runner[r].seen[s])]
    /\ UNCHANGED <<archive, batch, tick, exec, upsets>>

\* persist_discovery_results: one transaction for each source, which finds the
\* row by its claim.
PersistSource(r, s) ==
    /\ runner[r].pc = "persist"
    /\ s \in runner[r].todo
    /\ runner' = [runner EXCEPT ![r].todo = @ \ {s}]
    /\ reg' = IF reg[s].dtoken # runner[r].batch THEN reg
              ELSE [reg EXCEPT ![s] = Persisted(@, runner[r].seen[s])]
    /\ UNCHANGED <<archive, batch, tick, exec, upsets>>

\* mark_sources_checked_if_claimed, after the last source: nothing else of a
\* kept one is written.
CheckKept(r) ==
    /\ runner[r].pc = "persist"
    /\ runner[r].todo = {} /\ runner[r].kept # {}
    /\ reg' = [s \in Sources |->
                 IF s \in runner[r].kept /\ reg[s].dtoken = runner[r].batch
                   THEN [reg[s] EXCEPT !.checked = "fresh"]
                   ELSE reg[s]]
    /\ runner' = [runner EXCEPT ![r].kept = {}]
    /\ UNCHANGED <<archive, batch, tick, exec, upsets>>

\* release_discovery_claim comes last.
ReleaseBatch(r) ==
    /\ runner[r].pc = "persist"
    /\ runner[r].todo = {} /\ runner[r].kept = {}
    /\ runner' = [runner EXCEPT ![r].pc = "settle"]
    /\ LET b == runner[r].batch IN
       reg' = [s \in Sources |->
                 IF s \in batch[b].src /\ reg[s].dtoken = b
                   THEN [reg[s] EXCEPT !.dtoken = NoBatch, !.dlive = FALSE]
                   ELSE reg[s]]
    /\ UNCHANGED <<archive, batch, tick, exec, upsets>>

\* The payload stays where another handler of the job goes on.
Ended(r) ==
    LET b == runner[r].batch IN
    IF \E q \in Runners \ {r} : runner[q].batch = b
      THEN [batch EXCEPT ![b].job = "none"]
      ELSE [batch EXCEPT ![b] = NoJob]

\* run_discover_batch ends: the job is completed, if the runner still has its
\* lease.
SettleBatch(r) ==
    /\ runner[r].pc = "settle"
    /\ batch' = IF runner[r].holder THEN Ended(r) ELSE batch
    /\ runner' = [runner EXCEPT ![r] = IdleRunner]
    /\ UNCHANGED <<archive, reg, tick, exec, upsets>>

Requeued(b) == [batch EXCEPT ![b].job = "queued", ![b].again = TRUE]

\* The handler dies or fails half way.  Its job is tried again, or dead.
LoseRunner(r) ==
    /\ runner[r].pc # "idle"
    /\ Upset
    /\ runner' = [runner EXCEPT ![r] = IdleRunner]
    /\ \/ ~runner[r].holder /\ batch' = batch
       \/ /\ runner[r].holder
          /\ batch' = Requeued(runner[r].batch) \/ batch' = Ended(r)
    /\ UNCHANGED <<archive, reg, tick, exec>>

\* The lease of the job expires under a handler that goes on.
LoseLease(r) ==
    /\ runner[r].holder
    /\ Upset
    /\ runner' = [runner EXCEPT ![r].holder = FALSE]
    /\ batch' = Requeued(runner[r].batch)
    /\ UNCHANGED <<archive, reg, tick, exec>>

AtWork(b) == batch[b].job # "none" \/ \E r \in Runners : runner[r].batch = b

\* The claim runs out after its batch is gone.
DeadClaimExpires(s) ==
    /\ reg[s].dlive
    /\ ~AtWork(reg[s].dtoken)
    /\ reg' = [reg EXCEPT ![s].dlive = FALSE]
    /\ UNCHANGED <<archive, batch, runner, tick, exec, upsets>>

\* The batch takes longer than its claim.
ClaimExpires(s) ==
    /\ reg[s].dlive
    /\ AtWork(reg[s].dtoken)
    /\ Upset
    /\ reg' = [reg EXCEPT ![s].dlive = FALSE]
    /\ UNCHANGED <<archive, batch, runner, tick, exec>>

\* stale_after_hours pass.
GoStale(s) ==
    /\ reg[s].checked = "fresh"
    /\ reg' = [reg EXCEPT ![s].checked = "stale"]
    /\ UNCHANGED <<archive, batch, runner, tick, exec, upsets>>

\* The archive has something new.
ArchiveChanges(s) ==
    /\ archive[s] < MaxVersion
    /\ archive' = [archive EXCEPT ![s] = @ + 1]
    /\ UNCHANGED <<reg, batch, runner, tick, exec, upsets>>

----------------------------------------------------------------------------
(* The execution scheduler's tick.                                         *)

\* Defect for a mutant run: only a released source can be claimed.
PendingAndReleased == {s \in Sources : reg[s].pending /\ reg[s].wtoken = NoTick}

PendingAndUnclaimed == {s \in Sources : reg[s].pending /\ ~reg[s].wlive}

InFlight == {e \in Execs : exec[e].status \in {"admitted", "running"}}

\* claim_pending_sources_for_workflow_run, its update.
ClaimForAdmission(k, ss) ==
    reg' = [s \in Sources |->
              IF s \in ss THEN [reg[s] EXCEPT !.wtoken = k, !.wlive = TRUE] ELSE reg[s]]

\* schedule_project_executions up to claim_pending_sources_for_workflow_run.
\* A project has one recurring job for it, so one tick at a time.
TickClaim(k) ==
    /\ tick[k].pc = "idle"
    /\ \A j \in Ticks : tick[j].pc = "idle"
    /\ Cardinality(InFlight) < ProfileCap
    /\ PendingAndUnclaimed # {}
    /\ \E ss \in FirstFew(ClaimLimit, PendingAndUnclaimed) :
         /\ ClaimForAdmission(k, ss)
         /\ tick' = [tick EXCEPT ![k] = [IdleTick EXCEPT !.pc = "partition", !.src = ss,
                                                         !.todo = ss]]
    /\ UNCHANGED <<archive, batch, runner, exec, upsets>>

AfterChunk(todo) == IF todo = {} THEN "clear" ELSE "partition"

\* partition_sources_ready_for_execution, its reads: one chunk of the claim.
TickPartition(k) ==
    /\ tick[k].pc = "partition"
    /\ \E chunk \in FirstFew(ChunkSize, tick[k].todo) :
         LET already == {s \in chunk : AlreadyExecuted(s)}
             valid == {s \in chunk \ already : Ready(s)}
             todo == tick[k].todo \ chunk
         IN tick' = [tick EXCEPT ![k].already = already, ![k].valid = valid, ![k].todo = todo,
                                 ![k].pc = IF already # {} THEN "sweep"
                                           ELSE IF valid # {} THEN "create"
                                           ELSE AfterChunk(todo)]
    /\ UNCHANGED <<archive, reg, batch, runner, exec, upsets>>

\* Its write: a source that was executed already is not pending.
TickSweep(k) ==
    /\ tick[k].pc = "sweep"
    /\ ClearPending(tick[k].already)
    /\ tick' = [tick EXCEPT ![k].already = {},
                            ![k].pc = IF tick[k].valid # {} THEN "create"
                                      ELSE AfterChunk(tick[k].todo)]
    /\ UNCHANGED <<archive, batch, runner, exec, upsets>>

\* create_execution_internal: the signatures are read where the execution and
\* its job are inserted, after the profile's limit was looked at again.
TickCreate(k) ==
    /\ tick[k].pc = "create"
    /\ Cardinality(InFlight) < ProfileCap
    /\ \E e \in Execs :
         /\ exec[e].status = "unused"
         /\ exec' = [exec EXCEPT ![e].status = "admitted", ![e].src = tick[k].valid,
                                 ![e].sig = [s \in Sources |->
                                    IF s \in tick[k].valid THEN reg[s].sig ELSE 0]]
    /\ tick' = [tick EXCEPT ![k].admitted = @ \cup tick[k].valid, ![k].valid = {},
                            ![k].pc = AfterChunk(tick[k].todo)]
    /\ UNCHANGED <<archive, reg, batch, runner, upsets>>

\* The limit is reached: the rest of the claim is left for another tick.
TickCapped(k) ==
    /\ tick[k].pc = "create"
    /\ Cardinality(InFlight) >= ProfileCap
    /\ tick' = [tick EXCEPT ![k].valid = {}, ![k].todo = {}, ![k].pc = "clear"]
    /\ UNCHANGED <<archive, reg, batch, runner, exec, upsets>>

\* clear_workflow_pending_for_sources for what was admitted, ...
TickClear(k) ==
    /\ tick[k].pc = "clear"
    /\ ClearPending(tick[k].admitted)
    /\ tick' = [tick EXCEPT ![k].pc = "release"]
    /\ UNCHANGED <<archive, batch, runner, exec, upsets>>

\* ... and release_workflow_claim for all that was claimed.
TickRelease(k) ==
    /\ tick[k].pc = "release"
    /\ reg' = [s \in Sources |->
                 IF s \in tick[k].src /\ reg[s].wtoken = k
                   THEN [reg[s] EXCEPT !.wtoken = NoTick, !.wlive = FALSE]
                   ELSE reg[s]]
    /\ tick' = [tick EXCEPT ![k] = IdleTick]
    /\ UNCHANGED <<archive, batch, runner, exec, upsets>>

\* The worker dies, or a statement fails: the job runs again from the start.
TickDies(k) ==
    /\ tick[k].pc # "idle"
    /\ Upset
    /\ tick' = [tick EXCEPT ![k] = IdleTick]
    /\ UNCHANGED <<archive, reg, batch, runner, exec>>

\* claim_ttl_minutes pass after the tick is gone, ...
DeadAdmissionExpires(s) ==
    /\ reg[s].wlive
    /\ s \notin tick[reg[s].wtoken].src
    /\ reg' = [reg EXCEPT ![s].wlive = FALSE]
    /\ UNCHANGED <<archive, batch, runner, tick, exec, upsets>>

\* ... or under it.
AdmissionExpires(s) ==
    /\ reg[s].wlive
    /\ s \in tick[reg[s].wtoken].src
    /\ Upset
    /\ reg' = [reg EXCEPT ![s].wlive = FALSE]
    /\ UNCHANGED <<archive, batch, runner, tick, exec>>

----------------------------------------------------------------------------
(* The executions (ExecutionLedger has them in full).                      *)

\* ensure_execution_active rechecks the sources and the archive must have
\* records before anything is done outside.
Dispatchable(e) ==
    /\ SignatureIsCurrent(e)
    /\ \A s \in exec[e].src : Ready(s) /\ reg[s].sig \notin Empty

Dispatch(e) ==
    /\ exec[e].status = "admitted"
    /\ Dispatchable(e)
    /\ exec' = [exec EXCEPT ![e].status = "running", ![e].outside = TRUE]
    /\ UNCHANGED <<archive, reg, batch, runner, tick, upsets>>

\* terminal_execute_failure: the check, the staging or the backend refuses.
ExecuteFails(e) ==
    /\ exec[e].status = "admitted"
    /\ exec' = [exec EXCEPT ![e].status = "failed", ![e].owes = "remark"]
    /\ UNCHANGED <<archive, reg, batch, runner, tick, upsets>>

\* Its last write, and that of a poll that saw a failure.
Remark(e) ==
    /\ exec[e].owes \in {"remark", "pollremark"}
    /\ MarkPending(exec[e].src)
    /\ exec' = [exec EXCEPT ![e].owes = "nothing"]
    /\ UNCHANGED <<archive, batch, runner, tick, upsets>>

\* Completion with verified outputs finalises the sources at once, ...
CompleteVerified(e) ==
    /\ exec[e].status = "running"
    /\ exec' = [exec EXCEPT ![e].status = "completed"]
    /\ FinalizeSources(e)
    /\ UNCHANGED <<archive, batch, runner, tick, upsets>>

\* ... the others in a transaction of their own: finalize_execution_source_pending
\* makes the sources pending, finalises them or clears them.
Owed == [failed |-> "pollremark", completed |-> "finalize", cancelled |-> "clear"]

PollEnds(e) ==
    /\ exec[e].status = "running"
    /\ \E end \in {"completed", "failed", "cancelled"} :
         exec' = [exec EXCEPT ![e].status = end, ![e].owes = Owed[end]]
    /\ UNCHANGED <<archive, reg, batch, runner, tick, upsets>>

Finalize(e) ==
    /\ exec[e].owes = "finalize"
    /\ FinalizeSources(e)
    /\ exec' = [exec EXCEPT ![e].owes = "nothing"]
    /\ UNCHANGED <<archive, batch, runner, tick, upsets>>

ClearCancelled(e) ==
    /\ exec[e].owes = "clear"
    /\ ClearPending(exec[e].src)
    /\ exec' = [exec EXCEPT ![e].owes = "nothing"]
    /\ UNCHANGED <<archive, batch, runner, tick, upsets>>

\* The process dies in between.  A job that is tried again finds the
\* execution terminal and returns.
OwedIsLost(e) ==
    /\ exec[e].owes # "nothing"
    /\ Upset
    /\ exec' = [exec EXCEPT ![e].owes = "nothing"]
    /\ UNCHANGED <<archive, reg, batch, runner, tick>>

----------------------------------------------------------------------------
(* The operator.                                                           *)

\* mark_sources_for_rediscovery clears every claim of a source.
Rediscovered(row) ==
    [row EXCEPT !.checked = "never", !.dtoken = NoBatch, !.dlive = FALSE,
                !.wtoken = NoTick, !.wlive = FALSE]

\* mark_sources_and_enqueue_discovery_tick.
Rediscover(ss) ==
    /\ Upset
    /\ reg' = [s \in Sources |-> IF s \in ss THEN Rediscovered(reg[s]) ELSE reg[s]]
    /\ UNCHANGED <<archive, batch, runner, tick, exec>>

\* retry_execution: not while its job is active or a source is claimed.
Retry(e) ==
    /\ Upset
    /\ exec[e].status = "failed"
    /\ ~exec[e].outside
    /\ exec[e].owes # "remark"
    /\ \A s \in exec[e].src : reg[s].wtoken = NoTick
    /\ ClearPending(exec[e].src)
    /\ exec' = [exec EXCEPT ![e].status = "admitted"]
    /\ UNCHANGED <<archive, batch, runner, tick>>

\* cancel_execution: the sources are left alone.
Cancel(e) ==
    /\ Upset
    /\ exec[e].status \in {"admitted", "running"}
    /\ exec' = [exec EXCEPT ![e].status = "cancelled"]
    /\ UNCHANGED <<archive, reg, batch, runner, tick>>

----------------------------------------------------------------------------
Discovery ==
    \/ \E b \in Batches : ClaimSources(b) \/ EnqueueBatch(b) \/ EnqueueLost(b)
    \/ \E r \in Runners, b \in Batches : StartBatch(r, b)
    \/ \E r \in Runners :
         \/ Query(r) \/ CheckKept(r) \/ ReleaseBatch(r) \/ SettleBatch(r)
         \/ LoseRunner(r) \/ LoseLease(r)
    \/ \E r \in Runners, s \in Sources : QueryFails(r, s) \/ PersistSource(r, s)
    \/ \E s \in Sources :
         DeadClaimExpires(s) \/ ClaimExpires(s) \/ GoStale(s) \/ ArchiveChanges(s)

Scheduling ==
    \/ \E k \in Ticks :
         \/ TickClaim(k) \/ TickPartition(k) \/ TickSweep(k) \/ TickCreate(k)
         \/ TickCapped(k) \/ TickClear(k) \/ TickRelease(k) \/ TickDies(k)
    \/ \E s \in Sources : DeadAdmissionExpires(s) \/ AdmissionExpires(s)

Executing ==
    \E e \in Execs :
      \/ Dispatch(e) \/ ExecuteFails(e) \/ Remark(e) \/ CompleteVerified(e)
      \/ PollEnds(e) \/ Finalize(e) \/ ClearCancelled(e) \/ OwedIsLost(e)

Operating ==
    \/ \E ss \in SUBSET Sources \ {{}} : Rediscover(ss)
    \/ \E e \in Execs : Retry(e) \/ Cancel(e)

Next == Discovery \/ Scheduling \/ Executing \/ Operating

Spec == Init /\ [][Next]_vars

\* Recurring ticks come back, handlers end, claims run out.  An archive that
\* changes, time that makes a check stale, faults and operators owe nothing.
Fairness ==
    /\ \A b \in Batches : WF_vars(ClaimSources(b)) /\ WF_vars(EnqueueBatch(b))
    /\ \A b \in Batches : WF_vars(\E r \in Runners : StartBatch(r, b))
    /\ \A r \in Runners :
         /\ WF_vars(Query(r) \/ CheckKept(r) \/ ReleaseBatch(r) \/ SettleBatch(r))
         /\ WF_vars(\E s \in Sources : PersistSource(r, s))
    /\ \A s \in Sources : WF_vars(DeadClaimExpires(s)) /\ WF_vars(DeadAdmissionExpires(s))
    /\ \A k \in Ticks :
         /\ WF_vars(TickClaim(k))
         /\ WF_vars(TickPartition(k) \/ TickSweep(k) \/ TickCreate(k) \/ TickCapped(k)
                      \/ TickClear(k) \/ TickRelease(k))

FairSpec == Spec /\ Fairness

----------------------------------------------------------------------------
(* Properties.                                                             *)

\* Every variable has its type, and a claim that runs has a token.
TypeOK ==
    /\ archive \in [Sources -> 1..MaxVersion]
    /\ reg \in [Sources -> Entry]
    /\ \A s \in Sources : /\ reg[s].dlive => reg[s].dtoken # NoBatch
                          /\ reg[s].wlive => reg[s].wtoken # NoTick
    /\ batch \in [Batches -> Batch]
    /\ runner \in [Runners -> Runner]
    /\ tick \in [Ticks -> Tick]
    /\ exec \in [Execs -> Exec]
    /\ upsets \in 0..MaxUpsets

\* A source's last executed signature is one that a completed execution was
\* admitted with, however discovery changes it before the execution ends
\* (finalize_successful_sources).
ConsumedWasAdmitted ==
    \A s \in Sources :
      reg[s].last # 0 =>
        \E e \in Execs : /\ exec[e].status = "completed"
                         /\ s \in exec[e].src
                         /\ exec[e].sig[s] = reg[s].last

\* The signature of a source does not go back to an older state of the archive
\* although batches outlive their claims, unless the batch that has the claim
\* was delivered twice: its handlers share one token (discovery_claim_token).
RegistryNeverGoesBack ==
    [][\A s \in Sources :
         reg'[s].sig < reg[s].sig =>
           reg[s].dtoken # NoBatch /\ batch[reg[s].dtoken].again]_vars

\* A source that is due for discovery is checked, although batches, the tick
\* that enqueues them and claims are lost (claim_source_rows_for_discovery).
DueIsChecked ==
    \A s \in Sources : reg[s].checked # "fresh" ~> reg[s].checked = "fresh"

\* first-run.md, "The scheduler claims it and a worker executes the project-
\* defined TAP queries": what the archive has of a source gets into the registry
\* while it keeps becoming due.  It does not where complete metadata answers.
ArchiveIsFollowed ==
    \A s \in Sources :
      []<>(reg[s].checked # "fresh") => []<>(reg[s].sig = archive[s])

\* A source without metadata, or with metadata that lacks a required field, is
\* not left with it: while it keeps becoming due, the registry gets to what the
\* archive has or to a version that is complete, however batches are lost and
\* overtake each other (prepared_metadata_cache_complete, discover_source,
\* persist_discovery_results).  Nothing is promised after a complete version.
IncompleteIsFollowed ==
    \A s \in Sources :
      []<>(reg[s].checked # "fresh") => []<>(reg[s].sig \in Kept \cup {archive[s]})

\* A pending source that is ready does not stay so while there is room for
\* another execution, although ticks die with their claims
\* (claim_pending_sources_for_workflow_run).
ReadyIsAdmitted ==
    \A s \in Sources :
      []<>(\/ ~reg[s].pending
           \/ ~Ready(s)
           \/ Cardinality(InFlight) >= ProfileCap
           \/ \A e \in Execs : exec[e].status # "unused")

\* dashboard-workflow.md, "changed discovery also marks it pending for
\* recurring admission": a signature with records that was not consumed is
\* pending, or an execution that has the source is in flight, or one ended with
\* just this signature and without success, where an operator sees it
\* (clear_workflow_pending_for_sources).
ChangeIsAnswered ==
    \A s \in Sources :
      reg[s].sig \notin Empty \cup {0, reg[s].last} =>
        \/ reg[s].pending
        \/ \E e \in Execs :
             /\ s \in exec[e].src
             /\ \/ exec[e].status \in {"admitted", "running"}
                \/ exec[e].owes # "nothing"
                \/ exec[e].sig[s] = reg[s].sig /\ exec[e].status \in {"failed", "cancelled"}
=============================================================================
