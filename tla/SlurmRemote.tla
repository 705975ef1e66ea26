----------------------------- MODULE SlurmRemote -----------------------------
(***************************************************************************)
(* One execution on a remote Slurm cluster, end to end over SSH and SFTP   *)
(* (crates/beampipe-orchestration/src): the deployer that stages the       *)
(* artifacts and dispatches sbatch (slurm_deploy.rs, slurm_ssh.rs), the    *)
(* queries squeue and sacct answer (scheduler.rs, slurm_batch.rs), the     *)
(* confirmed cancellation (cancel.rs) and the retrieval of the output      *)
(* inventory (slurm_sftp.rs), with what beampipe-jobs and beampipe-db      *)
(* record of each on the execution's row.  ExecutionLedger takes one call  *)
(* to the backend for one step; here it is the commands it is made of.     *)
(***************************************************************************)
EXTENDS ExecutionStatus, Integers

CONSTANTS
    MaxRetries,       \* bound on the operator's retries
    MaxCancelPolls,   \* SLURM_CANCEL_MAX_POLLS
    MaxCancels,       \* bound on the cancellation requests
    JobEnds,          \* how a job and its steps may end
    OutputRequired,   \* the project requires verified outputs
    CommitFaults      \* the database may fail while an inventory is committed

ASSUME BoundsAssumption ==
    MaxRetries \in Nat /\ MaxCancelPolls \in Nat \ {0} /\ MaxCancels \in Nat
ASSUME FlagsAssumption == OutputRequired \in BOOLEAN /\ CommitFaults \in BOOLEAN

VARIABLES
    row,        \* the row of batch_execution_record
    deployer,   \* the execute handler inside submit_slurm_session
    lease,      \* who holds the lease of the execute job
    slurm,      \* per attempt: its sbatch command, and the job it became
    inventory,  \* per attempt: the publisher's handoff, as the login node shows it
    tick,       \* the recurring poll tick: lookup by name, status, retrieval
    cancel,     \* the cancellation an operator asked for
    cancels     \* how many have been asked for

vars == <<row, deployer, lease, slurm, inventory, tick, cancel, cancels>>

\* Attempts are counted from one: row.attempt is retry_count + 1, and a job is
\* named by the attempt that dispatched it.
Attempts == 1 .. MaxRetries + 1

Ended == {"succeeded", "failed", "cancelled"}

\* The job's own end, those of its steps, and whether accounting may omit the row
\* of the job itself, the root of its steps'
JobEnd == [state : Ended, steps : SUBSET Ended, rootless : BOOLEAN]

ASSUME JobEndsAssumption ==
    JobEnds \subseteq {end \in JobEnd : end.rootless => end.steps # {}}

InSlurm == {"pending", "running"} \cup Ended
Command == {"none", "sent", "refused"} \cup InSlurm

\* What one query can say of a job.
Answers == InSlurm \cup {"none", "unknown"}
Nothing == [a \in Attempts |-> "none"]

DeployerAt == {"idle", "upload", "prepare", "dispatch", "sent", "refused", "reply", "receipt"}
TickAt == {"idle", "first", "second", "record", "apply", "inspect", "commit", "reject"}
CancelAt == {"idle", "signal", "first", "second", "answered", "confirmed"}

NoJob ==
    [state |-> "none", steps |-> {}, rootless |-> FALSE, queued |-> FALSE, accounted |-> FALSE]
NoDeployer == [pc |-> "idle", attempt |-> 0]
NoTick == [pc |-> "idle", named |-> FALSE, of |-> 0, seen |-> Nothing, existed |-> FALSE]
NoCancel == [pc |-> "idle", of |-> 0, seen |-> "none", polls |-> 0]

Exists(a) == slurm[a].state \in InSlurm

RowType ==
    [status : Status, phase : Phase, submission : SubmissionState,
     scheduler : SchedulerState, daliuge : DaliugeState, outputs : OutputState,
     outcome : Outcome, jobId : {0} \cup Attempts, manifest : BOOLEAN,
     receipted : BOOLEAN, attempt : Attempts]

DeployerType == [pc : DeployerAt, attempt : {0} \cup Attempts]

JobType ==
    [state : Command, steps : SUBSET Ended, rootless : BOOLEAN,
     queued : BOOLEAN, accounted : BOOLEAN]

TickType ==
    [pc : TickAt, named : BOOLEAN, of : {0} \cup Attempts,
     seen : [Attempts -> Answers], existed : BOOLEAN]

CancelType ==
    [pc : CancelAt, of : {0} \cup Attempts, seen : Answers, polls : 0 .. MaxCancelPolls - 1]

TypeOK ==
    /\ row \in RowType
    /\ deployer \in DeployerType
    /\ lease \in {"none", "deployer", "expired", "redelivered"}
    /\ slurm \in [Attempts -> JobType]
    /\ inventory \in [Attempts -> {"absent", "valid", "invalid"}]
    /\ tick \in TickType
    /\ cancel \in CancelType
    /\ cancels \in 0 .. MaxCancels

\* The manifest is pinned and the submit phase begins.
Init ==
    /\ row = [status |-> "running", phase |-> "submit", submission |-> "not_started",
              scheduler |-> "not_submitted", daliuge |-> "not_created",
              outputs |-> IF OutputRequired THEN "pending" ELSE "not_started",
              outcome |-> "none", jobId |-> 0, manifest |-> TRUE, receipted |-> FALSE,
              attempt |-> 1]
    /\ deployer = NoDeployer
    /\ lease = "none"
    /\ slurm = [a \in Attempts |-> NoJob]
    /\ inventory = [a \in Attempts |-> "absent"]
    /\ tick = NoTick
    /\ cancel = NoCancel
    /\ cancels = 0

StatePatch(axes) == row' = Patched(row, axes, OutputRequired)

cluster == <<slurm, inventory>>
clients == <<tick, cancel, cancels>>

----------------------------------------------------------------------------
\* The deployer: run_submit_phase and submit_slurm_session

Unresolved ==
    /\ row.status \notin Terminal
    /\ row.submission \in {"in_flight", "uncertain"}

\* run_execute returns, and with it goes its lease, if it still had it.
Done ==
    /\ deployer' = NoDeployer
    /\ lease' = IF lease = "deployer" THEN "none" ELSE lease

Begin ==
    /\ deployer.pc = "idle" /\ lease = "none"
    /\ row.status \in {"running", "retrying"}
    /\ row.submission \notin Holds
    /\ row' = [row EXCEPT !.status = "running", !.submission = "in_flight",
                          !.daliuge = "not_created"]
    /\ deployer' = [pc |-> "upload", attempt |-> row.attempt]
    /\ lease' = "deployer"
    /\ UNCHANGED <<cluster, clients>>

Deploying(from, to) ==
    /\ deployer.pc = from
    /\ deployer' = [deployer EXCEPT !.pc = to]
    /\ UNCHANGED <<row, lease, clients>>

\* Each artifact is renamed into place whole (finish_atomic_upload), in the
\* staging directory the attempts of an execution share.
Uploaded == Deploying("upload", "prepare") /\ UNCHANGED cluster

\* create_dlg_job writes the job script, in a session directory of its own.
Prepared == Deploying("prepare", "dispatch") /\ UNCHANGED cluster

\* run_submission_command opens its channel and sends sbatch.
Dispatch ==
    /\ Deploying("dispatch", "sent")
    /\ slurm' = [slurm EXCEPT ![deployer.attempt].state = "sent"]
    /\ UNCHANGED inventory

\* run_command_output_inner: the exit status of sbatch arrives.
ExitStatus ==
    /\ \/ Deploying("sent", "refused") /\ slurm[deployer.attempt].state = "refused"
       \/ Deploying("sent", "reply") /\ Exists(deployer.attempt)
    /\ UNCHANGED cluster

\* parse_sbatch_job_id: the reply is a receipt if exactly one of its lines is a
\* job id; with none or several the submission is uncertain.
Receive == Deploying("reply", "receipt") /\ UNCHANGED cluster

\* Defect for a mutant run: a lost response counts as a failed command.
DefiniteIfUnanswered == deployer.pc \in {"upload", "prepare", "dispatch", "sent", "refused"}

\* submission_error_is_uncertain: an error before sbatch is dispatched and a
\* non-zero exit of it are definite.
Definite == deployer.pc \in {"upload", "prepare", "dispatch", "refused"}

SubmissionFailed ==
    /\ Definite
    /\ StatePatch([row EXCEPT !.submission = "failed"])
    /\ Done
    /\ UNCHANGED <<cluster, clients>>

\* A lost or unreadable response, the submission deadline, a receipt that could
\* not be recorded
SubmissionUncertain ==
    /\ deployer.pc # "idle"
    /\ StatePatch([row EXCEPT !.submission = "uncertain"])
    /\ Done
    /\ UNCHANGED <<cluster, clients>>

\* record_submission_receipt: a job recovered by name keeps the state seen then.
Recovered(a) == row.submission = "uncertain" /\ row.jobId = a

ReceiptRefused(a) ==
    \/ row.jobId \notin {0, a}
    \/ row.submission \notin {"in_flight", "uncertain"}
    \/ row.receipted

Receipted(a) ==
    LET filed == [row EXCEPT !.jobId = a, !.receipted = TRUE, !.submission = "submitted"]
    IN IF row.status \in Terminal THEN filed
       ELSE IF Recovered(a)
         THEN [filed EXCEPT !.status = Reconcile(filed, OutputRequired).status]
       ELSE [filed EXCEPT !.status = "awaiting_scheduler", !.scheduler = "pending",
                          !.daliuge = "not_created", !.outcome = "none"]

RecordReceipt ==
    /\ deployer.pc = "receipt"
    /\ IF ReceiptRefused(deployer.attempt)
         THEN StatePatch(IF row.submission = "in_flight"
                           THEN [row EXCEPT !.submission = "uncertain"] ELSE row)
         ELSE row' = Receipted(deployer.attempt)
    /\ Done
    /\ UNCHANGED <<cluster, clients>>

\* The lease of the execute job is lost; its handler goes on until the refused
\* renewal, or the death of its process, drops it.
LeaseLost ==
    /\ lease = "deployer"
    /\ lease' = "expired"
    /\ UNCHANGED <<row, deployer, cluster, clients>>

Dropped ==
    /\ deployer.pc # "idle" /\ lease # "deployer"
    /\ Done
    /\ UNCHANGED <<row, cluster, clients>>

\* Another worker recovers the job, finds the submission held or the execution
\* over, and completes it.
Redelivered ==
    /\ lease = "expired"
    /\ row.submission \in Holds \/ row.status \in Terminal
    /\ lease' = "redelivered"
    /\ UNCHANGED <<row, deployer, cluster, clients>>

Settled ==
    /\ lease = "redelivered"
    /\ lease' = "none"
    /\ UNCHANGED <<row, deployer, cluster, clients>>

Deployer ==
    \/ Begin \/ Uploaded \/ Prepared \/ Dispatch \/ ExitStatus \/ Receive \/ SubmissionFailed
    \/ SubmissionUncertain \/ RecordReceipt \/ LeaseLost \/ Dropped
    \/ Redelivered \/ Settled

----------------------------------------------------------------------------
\* The cluster.  A command that was sent is executed, or never is, whether or
\* not its response arrives; a refused one leaves no job.  A job stays in the
\* queue at least until accounting has it.

Become(a, state) == slurm' = [slurm EXCEPT ![a].state = state]

Accept(a) ==
    /\ slurm[a].state = "sent"
    /\ \/ Become(a, "refused")
       \/ slurm' = [slurm EXCEPT ![a].state = "pending", ![a].queued = TRUE]
    /\ UNCHANGED inventory

\* The job starts, or ends: by itself, by its time limit, or cancelled.  Its
\* steps have ended by then, each in its own way.
Proceed(a) ==
    /\ \/ slurm[a].state = "pending" /\ \E s \in {"running", "cancelled"} : Become(a, s)
       \/ /\ slurm[a].state = "running"
          /\ \E end \in JobEnds :
                slurm' = [slurm EXCEPT ![a].state = end.state, ![a].steps = end.steps,
                                       ![a].rootless = end.rootless]
    /\ UNCHANGED inventory

Account(a) ==
    /\ slurm[a].queued /\ ~slurm[a].accounted
    /\ slurm' = [slurm EXCEPT ![a].accounted = TRUE]
    /\ UNCHANGED inventory

LeaveQueue(a) ==
    /\ slurm[a].queued /\ slurm[a].accounted /\ slurm[a].state \in Ended
    /\ slurm' = [slurm EXCEPT ![a].queued = FALSE]
    /\ UNCHANGED inventory

\* The graph's publisher puts its inventory in the attempt's own directory, in
\* one rename; the login node may show it after the job has ended.
Publish(a) ==
    /\ slurm[a].state \in {"running", "succeeded"}
    /\ inventory[a] = "absent"
    /\ \E i \in {"valid", "invalid"} : inventory' = [inventory EXCEPT ![a] = i]
    /\ UNCHANGED slurm

Cluster(a) ==
    /\ Accept(a) \/ Proceed(a) \/ Account(a) \/ LeaveQueue(a) \/ Publish(a)
    /\ UNCHANGED <<row, deployer, lease, clients>>

----------------------------------------------------------------------------
\* What the scheduler's two sources say

\* The row squeue has of a job: one that is completing still runs, and a lookup
\* by name does not know its state.
QueueSays(a) ==
    IF ~slurm[a].queued THEN {"none"}
    ELSE {slurm[a].state} \cup (IF slurm[a].state \in Ended THEN {"running", "unknown"} ELSE {})

\* While a job runs any of its steps may have ended.
StepRows(a) == IF slurm[a].state = "running" THEN SUBSET Ended ELSE {slurm[a].steps}

\* A root row that may be omitted need not be each time.
RootRows(a) == {slurm[a].state} \cup (IF slurm[a].rootless THEN {"none"} ELSE {})

\* state_rank; a time limit, which is a failure too, is in between.
Rank == [pending |-> 1, running |-> 2, succeeded |-> 3, cancelled |-> 4, failed |-> 6]

Highest(states) == CHOOSE s \in states : \A t \in states : Rank[t] <= Rank[s]

\* Defect for a mutant run: all rows are folded by rank.
HighestRow(root, steps) == Highest(({root} \ {"none"}) \cup steps)

\* parse_sacct_batch: the root row is authoritative when there is one, or else the
\* steps' of the highest rank.
SacctRow(root, steps) == IF root # "none" THEN root ELSE Highest(steps)

\* A lookup by name asks for allocations alone (sacct -X) and does not know every
\* kind of failure; a poll by job id is told the steps too.
AccountingSays(a, named) ==
    IF ~slurm[a].accounted THEN {"none"}
    ELSE IF named THEN {slurm[a].state} \cup (IF slurm[a].state = "failed" THEN {"unknown"} ELSE {})
    ELSE {SacctRow(root, steps) : root \in RootRows(a), steps \in StepRows(a)}

\* Defect for a mutant run: accounting is asked before the queue.
AccountingFirst == <<"accounting", "queue">>

\* find_by_name and query_slurm_states_batch ask the queue first.
Sources == <<"queue", "accounting">>

Says(source, a, named) ==
    IF source = "queue" THEN QueueSays(a) ELSE AccountingSays(a, named)

\* A live queue row is authoritative; accounting fills in what is missing.
Merged(seen, answer) == IF seen # "none" THEN seen ELSE answer

----------------------------------------------------------------------------
\* The poll tick (run_slurm_poll_tick): its three parts run one after another,
\* each over the rows its query lists.

outside == <<deployer, lease, cluster, cancel, cancels>>

Leased == lease \in {"deployer", "redelivered"}

\* list_slurm_submissions_pending_reconciliation
LookupListed ==
    Unresolved /\ row.jobId = 0 /\ row.outcome = "none" /\ ~Leased

\* list_slurm_executions_pending_poll
PollListed ==
    /\ row.jobId # 0
    /\ row.status \in {"awaiting_scheduler", "running"}
    /\ row.scheduler # "succeeded"
    /\ ~Leased

StartLookup ==
    /\ tick.pc = "idle"
    /\ LookupListed
    /\ tick' = [NoTick EXCEPT !.pc = "first", !.named = TRUE, !.of = row.attempt,
                              !.existed = \E a \in Attempts : Exists(a)]
    /\ UNCHANGED <<row, outside>>

StartPoll ==
    /\ tick.pc = "idle"
    /\ PollListed
    /\ tick' = [NoTick EXCEPT !.pc = "first", !.of = row.jobId,
                              !.existed = Exists(row.jobId)]
    /\ UNCHANGED <<row, outside>>

\* All attempts of an execution submit under one session name.
Asked(a) == tick.named \/ a = tick.of

Answered(source) ==
    {seen \in [Attempts -> Answers] :
        \A a \in Attempts :
            seen[a] \in IF ~Asked(a) THEN {"none"}
                        ELSE {Merged(tick.seen[a], answer) : answer \in Says(source, a, tick.named)}}

QueryFirst ==
    /\ tick.pc = "first"
    /\ \E seen \in Answered(Sources[1]) : tick' = [tick EXCEPT !.pc = "second", !.seen = seen]
    /\ UNCHANGED <<row, outside>>

QuerySecond ==
    /\ tick.pc = "second"
    /\ \E seen \in Answered(Sources[2]) :
         tick' = [tick EXCEPT !.pc = IF tick.named THEN "record" ELSE "apply", !.seen = seen]
    /\ UNCHANGED <<row, outside>>

\* A connection or command fails, or the target's time is up: the axes keep
\* what they had.  The tick's worker may also die.
QueryFails ==
    /\ tick.pc \notin {"idle", "inspect"}
    /\ tick' = NoTick
    /\ UNCHANGED <<row, outside>>

Matches == {a \in Attempts : tick.seen[a] # "none"}

\* record_slurm_name_lookup: only an unresolved submission without a receipt
\* and without a live worker is changed by a lookup.
MayRecord == Unresolved /\ row.jobId = 0 /\ ~row.receipted /\ ~Leased

RecordLookup ==
    /\ tick.pc = "record"
    /\ \/ /\ tick.of = row.attempt
          /\ \E a \in Matches : Matches = {a}
          /\ row' = IF MayRecord
                      THEN [row EXCEPT !.submission = "uncertain",
                                       !.jobId = CHOOSE a \in Matches : TRUE,
                                       !.scheduler = tick.seen[CHOOSE a \in Matches : TRUE]]
                      ELSE row
          /\ tick' = [tick EXCEPT !.pc = "apply", !.of = CHOOSE a \in Matches : TRUE]
       \/ /\ tick.of = row.attempt
          /\ ~\E a \in Matches : Matches = {a}
          /\ row' = IF MayRecord THEN [row EXCEPT !.scheduler = "unknown"] ELSE row
          /\ tick' = NoTick
       \/ /\ tick.of # row.attempt
          /\ tick' = NoTick
          /\ UNCHANGED row
    /\ UNCHANGED outside

\* apply_slurm_poll_update: the end of the allocation is taken for the session's.
Observed(state) ==
    [row EXCEPT !.scheduler = IF state = "none" THEN "unknown" ELSE state,
                !.daliuge = IF state = "succeeded" THEN "finished" ELSE @]

ApplyPoll ==
    /\ tick.pc = "apply"
    /\ StatePatch(Observed(tick.seen[tick.of]))
    /\ tick' = NoTick
    /\ UNCHANGED outside

----------------------------------------------------------------------------
\* The output inventory (retrieve_slurm_output_inventories)

\* list_slurm_executions_pending_output_inventory: a job without a receipt has
\* no recorded session directory.
RetrievalListed ==
    /\ OutputRequired
    /\ row.jobId # 0
    /\ row.receipted
    /\ row.scheduler = "succeeded"
    /\ row.daliuge = "finished"
    /\ row.outputs \notin {"verified", "failed"}
    /\ row.status \in {"awaiting_scheduler", "running"}
    /\ row.outcome = "none"
    /\ ~Leased

StartRetrieval ==
    /\ tick.pc = "idle"
    /\ RetrievalListed
    /\ tick' = [NoTick EXCEPT !.pc = "inspect", !.of = row.attempt]
    /\ UNCHANGED <<row, outside>>

\* output_inventory_remote_paths: every attempt has a directory of its own
\* beneath the session directory the receipt recorded.
Handoff == inventory[tick.of]

\* The handoff is not there yet, or cannot be read for now.
NotReady ==
    /\ tick.pc = "inspect"
    /\ StatePatch([row EXCEPT !.outputs = "pending"])
    /\ tick' = NoTick
    /\ UNCHANGED outside

Retrieved ==
    /\ tick.pc = "inspect"
    /\ Handoff # "absent"
    /\ tick' = [tick EXCEPT !.pc = "commit"]
    /\ UNCHANGED <<row, outside>>

\* Defect for a mutant run: an inventory of any attempt will do.
AcceptsAnyInventory == row.status \notin Terminal

\* validate_output_verification_request and verify_execution_outputs: the
\* inventory meets the pinned contract and is of the row's attempt, and the row
\* waits for it.
AcceptsInventory ==
    /\ Handoff = "valid"
    /\ tick.of = row.attempt
    /\ row.status \notin Terminal
    /\ ExternalComplete(row)
    /\ Reconcile(row, OutputRequired).status = "running"

CommitInventory ==
    /\ tick.pc = "commit"
    /\ \/ /\ AcceptsInventory
          /\ row' = [row EXCEPT !.outputs = "verified", !.status = "completed",
                                !.phase = "none", !.outcome = "succeeded"]
          /\ tick' = NoTick
       \/ /\ ~AcceptsInventory \/ CommitFaults
          /\ row.outputs # "verified"
          /\ tick' = [tick EXCEPT !.pc = "reject"]
          /\ UNCHANGED row
    /\ UNCHANGED outside

\* Every error of the commit is recorded as a rejected inventory.
RejectInventory ==
    /\ tick.pc = "reject"
    /\ StatePatch([row EXCEPT !.outputs = "failed"])
    /\ tick' = NoTick
    /\ UNCHANGED outside

Querying == QueryFirst \/ QuerySecond \/ RecordLookup \/ ApplyPoll
Retrieving == Retrieved \/ CommitInventory \/ RejectInventory

Tick ==
    \/ StartLookup \/ StartPoll \/ StartRetrieval \/ Querying \/ QueryFails
    \/ NotReady \/ Retrieving

----------------------------------------------------------------------------
\* The operator

cancelling == <<row, deployer, lease, cluster, tick>>

\* patch_execution: a job is known, and the outcome of its submission with it.
RequestCancel ==
    /\ cancel.pc = "idle"
    /\ cancels < MaxCancels
    /\ row.jobId # 0
    /\ row.status \in {"awaiting_scheduler", "running"}
    /\ row.submission = "uncertain" \/ row.scheduler \notin Ended
    /\ cancel' = [NoCancel EXCEPT !.pc = "signal", !.of = row.jobId]
    /\ cancels' = cancels + 1
    /\ UNCHANGED cancelling

\* scancel returns; the job ends cancelled if nothing else ends it before.
Signal ==
    /\ cancel.pc = "signal"
    /\ cancel' = [cancel EXCEPT !.pc = "first"]
    /\ UNCHANGED <<cancelling, cancels>>

CancelQuery(pc, source, next) ==
    /\ cancel.pc = pc
    /\ \E answer \in Says(source, cancel.of, FALSE) :
         cancel' = [cancel EXCEPT !.pc = next, !.seen = Merged(cancel.seen, answer)]
    /\ UNCHANGED <<cancelling, cancels>>

LastPoll == cancel.polls + 1 >= MaxCancelPolls

\* confirm_slurm_cancellation: only the job's own cancellation confirms it.
Confirm ==
    /\ cancel.pc = "answered"
    /\ cancel' = IF cancel.seen = "cancelled" THEN [cancel EXCEPT !.pc = "confirmed"]
                 ELSE IF cancel.seen \in Ended \/ LastPoll
                   THEN NoCancel
                 ELSE [cancel EXCEPT !.pc = "first", !.seen = "none", !.polls = @ + 1]
    /\ UNCHANGED <<cancelling, cancels>>

\* An error or a timeout leaves the cancellation unconfirmed.
GiveUp ==
    /\ cancel.pc \in {"signal", "first", "second"}
    /\ cancel' = NoCancel
    /\ UNCHANGED <<cancelling, cancels>>

\* cancel_execution_with_correlation_inner
CancelAllowed ==
    /\ row.status \in {"pending", "running", "awaiting_scheduler", "retrying", "cancelled"}
    /\ row.jobId = cancel.of

CommitCancel ==
    /\ cancel.pc = "confirmed"
    /\ row' = IF CancelAllowed
                THEN [row EXCEPT !.status = "cancelled", !.phase = "none",
                                 !.outcome = "cancelled", !.scheduler = "cancelled"]
                ELSE row
    /\ cancel' = NoCancel
    /\ UNCHANGED <<deployer, lease, cluster, tick, cancels>>

\* retry_execution: the axes, the job and its session directory start over.
Retry ==
    /\ RetryAccepted(row)
    /\ row.attempt <= MaxRetries
    /\ lease = "none"
    /\ row' = [row EXCEPT !.status = "retrying", !.submission = "not_started",
                          !.scheduler = "not_submitted", !.daliuge = "not_created",
                          !.outputs = IF OutputRequired THEN "pending" ELSE "not_started",
                          !.outcome = "none", !.phase = RetryStage(row),
                          !.receipted = FALSE, !.attempt = @ + 1]
    /\ UNCHANGED <<deployer, lease, cluster, clients>>

Operator ==
    \/ RequestCancel \/ Signal
    \/ CancelQuery("first", Sources[1], "second")
    \/ CancelQuery("second", Sources[2], "answered")
    \/ Confirm \/ GiveUp \/ CommitCancel
    \/ Retry

----------------------------------------------------------------------------
Next ==
    \/ Deployer
    \/ \E a \in Attempts : Cluster(a)
    \/ Tick
    \/ Operator

Spec == Init /\ [][Next]_vars

\* The tick recurs and its steps are bounded by timeouts; a query or a read that
\* is repeated for ever succeeds in the end.  The deployer runs under the
\* submission deadline, a lost job is claimed again, and accounting catches up.
FairSpec ==
    /\ Spec
    /\ SF_vars(StartLookup) /\ SF_vars(StartPoll) /\ SF_vars(StartRetrieval)
    /\ SF_vars(QueryFirst) /\ SF_vars(QuerySecond)
    /\ SF_vars(RecordLookup) /\ SF_vars(ApplyPoll)
    /\ SF_vars(Retrieved) /\ SF_vars(CommitInventory) /\ WF_vars(RejectInventory)
    /\ \A a \in Attempts : WF_vars(Account(a) /\ UNCHANGED <<row, deployer, lease, clients>>)
    /\ \A a \in Attempts : WF_vars(LeaveQueue(a) /\ UNCHANGED <<row, deployer, lease, clients>>)
    /\ WF_vars(SubmissionUncertain) /\ WF_vars(Dropped)
    /\ WF_vars(Redelivered) /\ WF_vars(Settled)

----------------------------------------------------------------------------
\* Properties

\* A submission is recorded as failed only when its sbatch left no job, however
\* the response, the deadline and the cluster race: retry_execution submits
\* again under the same session name.
RejectionIsDefinite ==
    row.submission = "failed" => slurm[row.attempt].state \in {"none", "refused"}

\* A completed pair of queries that finds nothing proves that nothing was there
\* when it began (complete_named_job_lookup; eligible_for_abandonment relies on
\* it), although the job moves from the queue to accounting in between.
AnswersAreComplete ==
    /\ tick.pc = "record" /\ Matches = {} => ~tick.existed
    /\ tick.pc = "apply" => tick.seen[tick.of] # "none"

\* What accounting reports of a job that ended: its own end or, if it omits the
\* root row, the worst of its steps'
Reported(a) ==
    IF slurm[a].state \notin Ended THEN {}
    ELSE {slurm[a].state} \cup (IF slurm[a].rootless THEN {Highest(slurm[a].steps)} ELSE {})

\* The row records an end only of a job that ended, and the one that accounting
\* reports of it: that of a step only if the root row may be missing
\* (parse_sacct_batch), and never one that a receipt, a lookup, a poll that came
\* too early or a cancellation made up.
EndIsReal ==
    row.scheduler \in Ended => row.scheduler \in Reported(row.attempt)

\* Verified outputs are those this very attempt published, of a job that accounting
\* reports as succeeded.
VerifiedIsPublished ==
    row.outputs = "verified" =>
        /\ row.jobId = row.attempt
        /\ "succeeded" \in Reported(row.attempt)
        /\ inventory[row.attempt] = "valid"

\* Down to its commands, a submission on Slurm implements the promise of a single
\* submission: an attempt is what is submitted, by its sbatch; the claim is open
\* while the deployer still uploads, and the row's once sbatch may have run.
Work(a) ==
    CASE slurm[a].state = "sent"                   -> "asked"
      [] slurm[a].state \in {"pending", "running"} -> "active"
      [] OTHER                                     -> slurm[a].state

Works == [a \in Attempts |-> Work(a)]

ClaimHeld ==
    IF deployer.pc \in {"upload", "prepare", "dispatch"} THEN "open"
    ELSE IF row.submission \in Holds THEN "used" ELSE "free"

\* That an end is on record; which one the steps may have said is EndIsReal's.
KnownEnd == IF row.scheduler \in Ended THEN Work(row.attempt) ELSE "none"

Submission == INSTANCE SingleSubmission WITH
                Submissions <- Attempts, work <- Works, claim <- ClaimHeld, known <- KnownEnd

ImplementsSingleSubmission == Submission!Spec

Awaiting == row.status \notin Terminal /\ slurm[row.attempt].state = "succeeded"

\* CHANGELOG.md: "Output verification remains pending and retryable until Core
\* retrieves a valid attempt-scoped inventory."
PublishedOutputsAreVerified ==
    Awaiting /\ inventory[row.attempt] = "valid" ~> row.status \in Terminal
=============================================================================
