--------------------------- MODULE ExecutionLedger ---------------------------
(***************************************************************************)
(* One execution from its first execute job to its verdict: the row of     *)
(* batch_execution_record, the execute handlers that stage it and submit   *)
(* it to the outside, the pollers that reconcile it, and the operator's    *)
(* retry, cancellation and abandonment.                                    *)
(* (crates/beampipe-jobs/src/lib.rs, crates/beampipe-db/src/repo.rs)       *)
(*                                                                         *)
(* Every transaction is one step.  None of them repeats the job's lease    *)
(* fence, so a handler whose lease another one has taken over (the claim   *)
(* protocol is JobQueue's) goes on until its own renewal is refused.       *)
(***************************************************************************)
EXTENDS ExecutionStatus, Integers

CONSTANTS
    Handlers,           \* consumer loops that run execute jobs
    Deployments,        \* the backends and output policies that may be pinned
    StaleHandlers,      \* may a handler go on after its lease expired?
    NegativeLookups,    \* SUBMISSION_ABANDONMENT_NEGATIVE_COUNT
    MaxRetries,         \* bound on operator retries
    MaxIntents,         \* bound on submission intents
    MaxFaults,          \* bound on expired leases and failed execute jobs
    MaxPollFaults,      \* bound on poll ticks that die half way
    NoHandler

ASSUME LedgerAssumption ==
    /\ Deployments \subseteq [backend : {"slurm", "daliuge"},
                              outputRequired : BOOLEAN]
    /\ StaleHandlers \in BOOLEAN
    /\ NegativeLookups \in Nat \ {0}
    /\ MaxRetries \in Nat
    /\ MaxIntents \in Nat
    /\ MaxFaults \in Nat
    /\ MaxPollFaults \in Nat
    /\ NoHandler \notin Handlers

VARIABLES
    row,        \* the execution's row
    job,        \* its execute jobs, by retry number
    run,        \* the handlers
    call,       \* what became of backend.submit, by submission intent
    intents,    \* the submission intents persisted so far
    poll,       \* the poll tick of the execution's backend
    cancel,     \* a cancellation request the API is serving
    negatives,  \* eligible negative name lookups since the last execute activity
    faults, pollFaults

vars == <<row, job, run, call, intents, poll, cancel, negatives, faults, pollFaults>>

Attempts == 0..MaxRetries
Intents == 1..MaxIntents

\* scheduler_job_id is the intent it came from, 0 for NULL; "named" says that
\* scheduler_name and daliuge_session_id are set, "graph" that there is a
\* physical_graph artifact.
Row == [status : Status, phase : Phase, submission : SubmissionState,
        scheduler : SchedulerState, daliuge : DaliugeState,
        outputs : OutputState, outcome : Outcome, jobId : 0..MaxIntents,
        named : BOOLEAN, manifest : BOOLEAN, graph : BOOLEAN,
        abandoned : BOOLEAN, retries : Attempts, deployment : Deployments]

\* The row is pinned to its deployment profile and output policy.
Backend == row.deployment.backend
OutputRequired == row.deployment.outputRequired

ExecuteJob == [status : {"absent", "queued", "running", "done", "cancelled"},
               holder : Handlers \cup {NoHandler}, leased : BOOLEAN,
               submit : BOOLEAN]

\* The steps of run_execute_body that end in an error message when a
\* statement, a check or an external call of theirs fails.
BodySteps == {"preflight", "resume", "admit", "start", "stage", "artifacts",
              "not_submitted", "manifest", "recheck", "begin", "calling"}
Steps == {"idle", "read", "failing", "hold", "fail_axes", "fail_ledger",
          "raise", "settle"} \cup BodySteps

Handler == [pc : Steps, job : Attempts, replay : BOOLEAN, retrying : BOOLEAN,
            intent : 0..MaxIntents]

Ended == {"succeeded", "failed", "cancelled"}
Accepted == {"active"} \cup Ended
CallState == {"unused", "sent", "rejected"} \cup Accepted

PollSteps == {"idle", "lookup", "apply", "exhausted", "expire"}
Seen == SchedulerState \cup DaliugeState \cup {"not_found", "error"}
Poll == [pc : PollSteps, seen : Seen, of : 0..MaxIntents]

Cancel == [pc : {"idle", "local", "external", "confirmed"}, of : 0..MaxIntents]

TypeOK ==
    /\ row \in Row
    /\ job \in [Attempts -> ExecuteJob]
    /\ run \in [Handlers -> Handler]
    /\ call \in [Intents -> CallState]
    /\ intents \in 0..MaxIntents
    /\ poll \in Poll
    /\ cancel \in Cancel
    /\ negatives \in 0..NegativeLookups
    /\ faults \in 0..MaxFaults
    /\ pollFaults \in 0..MaxPollFaults

Idle == [pc |-> "idle", job |-> 0, replay |-> FALSE, retrying |-> FALSE, intent |-> 0]
NoPoll == [pc |-> "idle", seen |-> "unknown", of |-> 0]
NoCancel == [pc |-> "idle", of |-> 0]
NoJob(submit) ==
    [status |-> "absent", holder |-> NoHandler, leased |-> FALSE, submit |-> submit]

InitialOutputs(required) == IF required THEN "pending" ELSE "not_started"

\* create_automated_execution_and_enqueue: a pending row and its first execute
\* job; an API caller may ask for staging without submission.
Init ==
    /\ \E deployment \in Deployments :
         row = [status |-> "pending", phase |-> "none",
                submission |-> "not_started", scheduler |-> "not_submitted",
                daliuge |-> "not_created",
                outputs |-> InitialOutputs(deployment.outputRequired),
                outcome |-> "none", jobId |-> 0, named |-> FALSE,
                manifest |-> FALSE, graph |-> FALSE, abandoned |-> FALSE,
                retries |-> 0, deployment |-> deployment]
    /\ \E submit \in BOOLEAN :
         job = [n \in Attempts |-> IF n = 0 THEN [NoJob(submit) EXCEPT !.status = "queued"]
                                            ELSE NoJob(TRUE)]
    /\ run = [h \in Handlers |-> Idle]
    /\ call = [i \in Intents |-> "unused"]
    /\ intents = 0
    /\ poll = NoPoll
    /\ cancel = NoCancel
    /\ negatives = 0
    /\ faults = 0
    /\ pollFaults = 0

----------------------------------------------------------------------------
\* The two ways a transaction patches the row

\* apply_execution_state_patch
StatePatch(patched) == row' = Patched(row, patched, OutputRequired)

\* apply_execution_patch with a status: LedgerState::apply_patch refuses a move
\* the status machine does not know; a locked terminal status ignores it.
LedgerRefuses(next) ==
    /\ row.status \notin LockedTerminal
    /\ next # row.status
    /\ next \notin Allows(row.status)

VerdictOf(status) ==
    CASE status = "completed" -> "succeeded"
      [] status \in {"failed", "cancelled"} -> status
      [] OTHER -> "none"

LedgerPatch(next, phase, manifest) ==
    LET status == IF row.status \in LockedTerminal THEN row.status ELSE next
        outcome == IF row.outcome = "none" THEN VerdictOf(status) ELSE row.outcome
    IN row' = [row EXCEPT !.status = status, !.phase = phase, !.outcome = outcome,
                          !.manifest = manifest]

----------------------------------------------------------------------------
\* Execute jobs as the queue hands them out

Active(n) == job[n].status \in {"queued", "running"}

\* execute_job_has_active_lease, over the execution's execute jobs
LeaseActive == \E n \in Attempts : job[n].status = "running" /\ job[n].leased

Owns(h) == job[run[h].job].status = "running" /\ job[run[h].job].holder = h

\* A handler whose job another one recovered, or that was cancelled under it.
Stale(h) == run[h].pc # "idle" /\ ~Owns(h)

Goto(h, pc) == run' = [run EXCEPT ![h].pc = pc]

\* What a handler's own steps leave alone.
elsewhere == <<job, poll, cancel, negatives, faults, pollFaults>>
outside == <<call, intents>>

Deliver(h, n) ==
    /\ run[h].pc = "idle"
    /\ job[n].status = "queued" \/ (job[n].status = "running" /\ ~job[n].leased)
    /\ job' = [job EXCEPT ![n] = [@ EXCEPT !.status = "running", !.holder = h,
                                           !.leased = TRUE]]
    /\ run' = [run EXCEPT ![h] = [Idle EXCEPT !.pc = "read", !.job = n]]
    /\ negatives' = 0
    /\ UNCHANGED <<row, outside, poll, cancel, faults, pollFaults>>

\* The holder crashed, or it stalled or lost the database for a whole lease and
\* may come back.
LeaseExpires(n) ==
    /\ job[n].status = "running" /\ job[n].leased
    /\ faults < MaxFaults
    /\ faults' = faults + 1
    /\ job' = [job EXCEPT ![n].leased = FALSE]
    /\ run' = IF StaleHandlers THEN run
              ELSE [h \in Handlers |-> IF Owns(h) /\ run[h].job = n THEN Idle ELSE run[h]]
    /\ negatives' = 0
    /\ UNCHANGED <<row, outside, poll, cancel, pollFaults>>

\* The process died, or its refused renewal dropped the handler.  A call to the
\* backend that was under way stays under way.
Drop(h) ==
    /\ run[h].pc # "idle"
    /\ ~(Owns(h) /\ job[run[h].job].leased)
    /\ run' = [run EXCEPT ![h] = Idle]
    /\ UNCHANGED <<row, outside, elsewhere>>

\* run_execute returns Err: the job is retried or, its attempts exhausted,
\* dead-lettered; a stale holder's report is rejected.
Fails(h) ==
    /\ \E status \in {"queued", "done"} :
         job' = IF Owns(h)
                THEN [job EXCEPT ![run[h].job] = [@ EXCEPT !.status = status,
                                                           !.holder = NoHandler,
                                                           !.leased = FALSE]]
                ELSE job
    /\ run' = [run EXCEPT ![h] = Idle]
    /\ negatives' = IF Owns(h) THEN 0 ELSE negatives
    /\ UNCHANGED <<row, outside, poll, cancel, pollFaults>>

\* A statement of run_execute itself fails.
FailJob(h) ==
    /\ run[h].pc \in {"read", "failing", "fail_axes", "fail_ledger"}
    /\ faults < MaxFaults
    /\ faults' = faults + 1
    /\ Fails(h)

Raise(h) ==
    /\ run[h].pc = "raise"
    /\ Fails(h)
    /\ UNCHANGED faults

\* complete_job_with_lease, rejected for a stale holder.
Settle(h) ==
    /\ run[h].pc = "settle"
    /\ job' = IF Owns(h)
              THEN [job EXCEPT ![run[h].job] = [@ EXCEPT !.status = "done",
                                                         !.holder = NoHandler,
                                                         !.leased = FALSE]]
              ELSE job
    /\ negatives' = IF Owns(h) THEN 0 ELSE negatives
    /\ run' = [run EXCEPT ![h] = Idle]
    /\ UNCHANGED <<row, outside, poll, cancel, faults, pollFaults>>

----------------------------------------------------------------------------
\* run_execute and run_execute_body: one handler, step by step

\* The row is read once; what the handler does next depends on that snapshot.
Read(h) ==
    /\ run[h].pc = "read"
    /\ run' = [run EXCEPT ![h] =
         IF row.status \in Terminal \/ row.submission \in Holds
           THEN [@ EXCEPT !.pc = "settle"]
           ELSE [@ EXCEPT !.pc = "preflight",
                          !.replay = row.phase = "submit" /\ row.manifest,
                          !.retrying = row.status = "retrying"]]
    /\ UNCHANGED <<row, outside, elsewhere>>

\* Configuration, source readiness, preflight, staging, manifest, graph and
\* artifact errors, and failed statements: they surface as an error message.
BodyFails(h) ==
    /\ run[h].pc \in BodySteps
    /\ Goto(h, "failing")
    /\ UNCHANGED <<row, outside, elsewhere>>

\* ensure_execution_active before a phase
Checked(h, next) ==
    /\ Goto(h, IF row.status \in Terminal THEN "failing" ELSE next)
    /\ UNCHANGED <<row, outside, elsewhere>>

Preflight(h) ==
    /\ run[h].pc = "preflight"
    /\ Checked(h, IF run[h].replay /\ run[h].retrying THEN "resume" ELSE "admit")

\* A ledger patch of the handler's, or the error it meets.
LedgerStep(h, status, phase, manifest, next) ==
    /\ IF LedgerRefuses(status)
         THEN Goto(h, "failing") /\ UNCHANGED row
         ELSE Goto(h, next) /\ LedgerPatch(status, phase, manifest)
    /\ UNCHANGED <<outside, elsewhere>>

Resume(h) ==
    /\ run[h].pc = "resume"
    /\ LedgerStep(h, "running", "submit", row.manifest, "admit")

Admit(h) ==
    /\ run[h].pc = "admit"
    /\ StatePatch(row)
    /\ Goto(h, IF run[h].replay THEN "artifacts" ELSE "start")
    /\ UNCHANGED <<outside, elsewhere>>

Start(h) ==
    /\ run[h].pc = "start"
    /\ LedgerStep(h, "running", "stage_and_manifest", row.manifest, "stage")

Stage(h) ==
    /\ run[h].pc = "stage"
    /\ Checked(h, "artifacts")

StoreArtifacts(h) ==
    /\ run[h].pc = "artifacts"
    /\ StatePatch(row)
    /\ Goto(h, IF job[run[h].job].submit THEN "manifest" ELSE "not_submitted")
    /\ UNCHANGED <<outside, elsewhere>>

\* The end of a run that only stages.
FinishUnsubmitted(h) ==
    /\ run[h].pc = "not_submitted"
    /\ LedgerStep(h, "not_submitted", "none", TRUE, "settle")

PinManifest(h) ==
    /\ run[h].pc = "manifest"
    /\ row' = [row EXCEPT !.phase = "submit", !.manifest = TRUE]
    /\ Goto(h, "recheck")
    /\ UNCHANGED <<outside, elsewhere>>

Recheck(h) ==
    /\ run[h].pc = "recheck"
    /\ Checked(h, "begin")

\* Defect for a mutant run: a held submission is not looked at.
MayBeginAgain == row.status \notin Terminal

\* begin_execution_submission persists the intent before the backend is called.
MayBegin == row.status \notin Terminal /\ row.submission \notin Holds

\* Held or terminal: another worker got there first.
BeginRefused(h) ==
    /\ run[h].pc = "begin"
    /\ ~MayBegin
    /\ Goto(h, "settle")
    /\ UNCHANGED <<row, outside, elsewhere>>

IntentRow == [row EXCEPT !.submission = "in_flight", !.named = TRUE,
                         !.daliuge = "not_created"]

BeginSubmission(h) ==
    /\ run[h].pc = "begin"
    /\ MayBegin
    /\ intents < MaxIntents
    /\ intents' = intents + 1
    /\ row' = IntentRow
    /\ call' = [call EXCEPT ![intents + 1] = "sent"]
    /\ run' = [run EXCEPT ![h] = [@ EXCEPT !.pc = "calling", !.intent = intents + 1]]
    /\ negatives' = 0
    /\ UNCHANGED <<job, poll, cancel, faults, pollFaults>>

\* backend.submit fails with an error that proves nothing was created.
RecordRejection(h) ==
    /\ run[h].pc = "calling"
    /\ call[run[h].intent] = "rejected"
    /\ StatePatch([row EXCEPT !.submission = "failed"])
    /\ Goto(h, "failing")
    /\ UNCHANGED <<outside, elsewhere>>

\* It fails with any other error, or not before the submission deadline
\* (submission_error_is_uncertain).
RecordUncertain(h) ==
    /\ run[h].pc = "calling"
    /\ StatePatch([row EXCEPT !.submission = "uncertain"])
    /\ Goto(h, "failing")
    /\ UNCHANGED <<outside, elsewhere>>

\* It returns a receipt, which record_submission_receipt files.  A job that a
\* name lookup has already recovered keeps the scheduler state seen by then.
Recovered(i) ==
    row.submission = "uncertain" /\ Backend = "slurm" /\ row.jobId = i

\* The one status a receipt of each backend may enter (validate_submission_receipt).
EnteredStatus == IF Backend = "slurm" THEN "awaiting_scheduler" ELSE "running"

ReceiptStatus(i) ==
    IF Recovered(i)
      THEN Reconcile([row EXCEPT !.submission = "submitted"], OutputRequired).status
      ELSE EnteredStatus

IntentConflicts(i) == row.jobId \notin {0, i}

\* There is a receipt already, or none is waited for.
NotAwaited == row.submission \notin {"in_flight", "uncertain"}

MoveRefused(next) ==
    row.status \notin Terminal \cup {next} /\ next \notin Allows(row.status)

ReceiptRefused(i) ==
    IntentConflicts(i) \/ NotAwaited \/ MoveRefused(ReceiptStatus(i)) \/ row.graph

\* scheduler_job_id, physical_graph_sha256, workflow_manifest and, unless the
\* operator has given the submission up, submission_state.
Receipted(i) ==
    [row EXCEPT !.jobId = IF Backend = "slurm" THEN i ELSE 0,
                !.graph = TRUE, !.manifest = TRUE,
                !.submission = IF row.abandoned THEN @ ELSE "submitted"]

\* What a receipt says of the scheduler and of the session.
SchedulerReceived(i) ==
    IF Recovered(i) THEN row.scheduler
    ELSE IF Backend = "slurm" THEN "pending" ELSE "not_submitted"

SessionReceived == IF Backend = "slurm" THEN "not_created" ELSE "running"

LiveReceipt(i) ==
    [Receipted(i) EXCEPT !.status = ReceiptStatus(i), !.phase = "submit", !.outcome = "none",
                         !.scheduler = SchedulerReceived(i), !.daliuge = SessionReceived]

RecordReceipt(h) ==
    LET i == run[h].intent IN
    /\ run[h].pc = "calling"
    /\ call[i] \in Accepted
    /\ IF ReceiptRefused(i)
         THEN UNCHANGED row /\ Goto(h, "failing")
         ELSE /\ row' = IF row.status \in Terminal THEN Receipted(i) ELSE LiveReceipt(i)
              /\ Goto(h, "settle")
    /\ UNCHANGED <<outside, elsewhere>>

\* run_execute on an error: what the row says by then decides whether the
\* submission is held for reconciliation or the execution fails.
Failing(h) ==
    /\ run[h].pc = "failing"
    /\ Goto(h, IF row.status \in Terminal THEN "settle"
               ELSE IF row.submission = "in_flight" THEN "hold"
               ELSE IF row.submission \in Holds THEN "settle"
               ELSE "fail_axes")
    /\ UNCHANGED <<row, outside, elsewhere>>

\* Defect for a mutant run: an interrupted submission is recorded as failed.
HoldAsFailed(h) ==
    /\ run[h].pc = "hold"
    /\ StatePatch([row EXCEPT !.submission = "failed"])
    /\ Goto(h, "settle")
    /\ UNCHANGED <<outside, elsewhere>>

\* An error of the patch is ignored (let _ = ...): the job completes with the
\* submission in_flight.
HoldSubmission(h) ==
    /\ run[h].pc = "hold"
    /\ StatePatch([row EXCEPT !.submission = "uncertain"]) \/ UNCHANGED row
    /\ Goto(h, "settle")
    /\ UNCHANGED <<outside, elsewhere>>

\* terminal_execute_failure: two transactions on the row, and one on its
\* sources that is left out with the source registry.
FailAxes(h) ==
    /\ run[h].pc = "fail_axes"
    /\ StatePatch([row EXCEPT !.outcome = "failed"])
    /\ Goto(h, "fail_ledger")
    /\ UNCHANGED <<outside, elsewhere>>

FailLedger(h) ==
    /\ run[h].pc = "fail_ledger"
    /\ IF LedgerRefuses("failed")
         THEN Goto(h, "raise") /\ UNCHANGED row
         ELSE Goto(h, "settle") /\ LedgerPatch("failed", row.phase, row.manifest)
    /\ UNCHANGED <<outside, elsewhere>>

HandlerStep(h) ==
    \/ Read(h) \/ BodyFails(h) \/ Preflight(h) \/ Resume(h) \/ Admit(h)
    \/ Start(h) \/ Stage(h) \/ StoreArtifacts(h) \/ FinishUnsubmitted(h)
    \/ PinManifest(h) \/ Recheck(h) \/ BeginRefused(h) \/ BeginSubmission(h)
    \/ RecordRejection(h) \/ RecordUncertain(h) \/ RecordReceipt(h)
    \/ Failing(h) \/ HoldSubmission(h) \/ FailAxes(h) \/ FailLedger(h)

----------------------------------------------------------------------------
\* The backend

\* backend.submit is answered, or turns out never to have reached the backend;
\* an accepted submission runs and ends.
Answer(i) ==
    /\ \/ call[i] = "sent" /\ \E c \in {"active", "rejected"} : call' = [call EXCEPT ![i] = c]
       \/ call[i] = "active" /\ \E c \in Ended : call' = [call EXCEPT ![i] = c]
    /\ UNCHANGED <<row, job, run, intents, poll, cancel, negatives, faults, pollFaults>>

\* The answers the scheduler and the DALiuGE manager can give about a
\* submission; a failed query answers "error".
SchedulerSays(i) ==
    CASE call[i] = "active"  -> {"pending", "running"}
      [] call[i] \in Ended   -> {call[i]}
      [] OTHER               -> {}

SessionSays(i) ==
    CASE call[i] = "active"                -> {"running", "unknown"}
      [] call[i] = "succeeded"             -> {"finished"}
      [] call[i] \in {"failed", "cancelled"} -> {call[i]}
      [] OTHER                             -> {"not_created"}

----------------------------------------------------------------------------
\* The poll ticks of the two backends (run_slurm_poll_tick, run_dim_poll_tick).
\* Each reads the row, asks the backend and applies the answer, a transaction
\* at a time.

polling == <<job, run, cancel, faults, pollFaults>>

Polled(pc, seen, i) == poll' = [pc |-> pc, seen |-> seen, of |-> i]

Unresolved ==
    /\ row.named
    /\ row.status \notin Terminal
    /\ row.submission \in {"in_flight", "uncertain"}

\* list_slurm_submissions_pending_reconciliation
LookupDue ==
    /\ Unresolved
    /\ row.jobId = 0
    /\ row.outcome = "none"
    /\ ~row.abandoned
    /\ ~LeaseActive

\* find_by_name; when it fails, record_slurm_name_lookup refuses the error (its
\* accounting bound is not the truncated one), and the tick ends there.
LookupAnswers ==
    IF SchedulerSays(intents) = {} THEN {"not_found"} ELSE SchedulerSays(intents)

LookupQuery ==
    /\ Backend = "slurm"
    /\ poll.pc = "idle"
    /\ LookupDue
    /\ \E seen \in LookupAnswers : Polled("lookup", seen, intents)
    /\ UNCHANGED <<row, outside, negatives, polling>>

\* record_slurm_name_lookup's canonical_state_mutation_allowed
MayRecord ==
    Unresolved /\ ~row.abandoned /\ row.jobId = 0 /\ ~row.graph /\ ~LeaseActive

\* The lookup is no longer about the latest intent: the tick ends in an error.
LookupOutdated == poll.of # intents \/ ~row.named

\* A complete negative that MayRecord is kept as evidence for an abandonment
\* (eligible_for_abandonment).
MoreNegatives == IF negatives < NegativeLookups THEN negatives + 1 ELSE negatives

RecordNotFound ==
    /\ poll.pc = "lookup"
    /\ poll.seen = "not_found"
    /\ IF MayRecord /\ ~LookupOutdated
         THEN row' = [row EXCEPT !.scheduler = "unknown"] /\ negatives' = MoreNegatives
         ELSE UNCHANGED <<row, negatives>>
    /\ poll' = NoPoll
    /\ UNCHANGED <<outside, polling>>

\* A late match is recorded on an abandoned submission too, and not polled any
\* further.
MatchIgnored ==
    LookupOutdated \/ row.jobId \notin {0, poll.of} \/ ~(MayRecord \/ row.abandoned)

MatchedRow ==
    [row EXCEPT !.jobId = poll.of, !.scheduler = poll.seen,
                !.submission = IF row.abandoned THEN @ ELSE "uncertain"]

RecordMatch ==
    /\ poll.pc = "lookup"
    /\ poll.seen # "not_found"
    /\ row' = IF MatchIgnored THEN row ELSE MatchedRow
    /\ poll' = IF LookupOutdated \/ row.abandoned THEN NoPoll
               ELSE [poll EXCEPT !.pc = "apply"]
    /\ UNCHANGED <<outside, negatives, polling>>

\* Defect for a mutant run: running rows are not polled.
PollDueWaiting ==
    /\ row.jobId # 0
    /\ row.status = "awaiting_scheduler"
    /\ row.scheduler # "succeeded"
    /\ ~LeaseActive

\* list_slurm_executions_pending_poll
PollDue ==
    /\ row.jobId # 0
    /\ row.status \in {"awaiting_scheduler", "running"}
    /\ row.scheduler # "succeeded"
    /\ ~LeaseActive

\* query_slurm_states
PollQuery ==
    /\ Backend = "slurm"
    /\ poll.pc = "idle"
    /\ PollDue
    /\ \E state \in SchedulerSays(row.jobId) \cup {"error"} : Polled("apply", state, row.jobId)
    /\ UNCHANGED <<row, outside, negatives, polling>>

\* list_rest_executions_pending_poll
SessionDue ==
    /\ row.named
    /\ row.status = "running" \/ Unresolved
    /\ row.outcome = "none"
    /\ row.daliuge \notin {"finished", "failed", "cancelled"}
    /\ ~LeaseActive

\* The session's status at the DALiuGE manager.
SessionQuery ==
    /\ Backend = "daliuge"
    /\ poll.pc = "idle"
    /\ SessionDue
    /\ \E state \in SessionSays(intents) \cup {"error"} : Polled("apply", state, intents)
    /\ UNCHANGED <<row, outside, negatives, polling>>

\* Defect for a mutant run: a success does not end the session axis.
ObservedAlone(seen) == [row EXCEPT !.scheduler = seen]

\* The axes after a status of the Slurm job: the end of the allocation is taken
\* for the session's.
ObservedJob(seen) ==
    [row EXCEPT !.scheduler = seen, !.daliuge = IF seen = "succeeded" THEN "finished" ELSE @]

\* apply_slurm_poll_update: however many rounds it has been, an unfinished job
\* stays to be polled, only escalated to the operator.
ApplyJobStatus ==
    /\ poll.pc = "apply"
    /\ Backend = "slurm"
    /\ poll.seen # "error"
    /\ StatePatch(ObservedJob(poll.seen))
    /\ poll' = NoPoll
    /\ UNCHANGED <<outside, negatives, polling>>

\* record_slurm_poll_failure leaves the axes as they are.
JobStatusFails ==
    /\ poll.pc = "apply"
    /\ Backend = "slurm"
    /\ poll.seen = "error"
    /\ StatePatch(row)
    /\ poll' = NoPoll
    /\ UNCHANGED <<outside, negatives, polling>>

\* apply_dim_poll_update: a session still running in its last poll round is
\* given up.
ApplySessionStatus ==
    /\ poll.pc = "apply"
    /\ Backend = "daliuge"
    /\ poll.seen # "error"
    /\ StatePatch([row EXCEPT !.daliuge = poll.seen])
    /\ \/ poll' = NoPoll
       \/ /\ poll.seen \in {"running", "unknown"}
          /\ row.status \notin Terminal
          /\ Polled("exhausted", poll.seen, poll.of)
    /\ UNCHANGED <<outside, negatives, polling>>

\* record_dim_reconciliation_error
SessionStatusFails ==
    /\ poll.pc = "apply"
    /\ Backend = "daliuge"
    /\ poll.seen = "error"
    /\ StatePatch([row EXCEPT !.daliuge = "unreachable"])
    /\ poll' = NoPoll
    /\ UNCHANGED <<outside, negatives, polling>>

PollExhausted ==
    /\ poll.pc = "exhausted"
    /\ StatePatch(row)
    /\ Polled("expire", poll.seen, poll.of)
    /\ UNCHANGED <<outside, negatives, polling>>

PollExpire ==
    /\ poll.pc = "expire"
    /\ IF LedgerRefuses("failed") THEN UNCHANGED row
       ELSE LedgerPatch("failed", IF row.status \in LockedTerminal THEN row.phase ELSE "none",
                        row.manifest)
    /\ poll' = NoPoll
    /\ UNCHANGED <<outside, negatives, polling>>

\* The tick's worker dies, or one of its statements fails, between two of its
\* transactions; the recurring job starts over.
PollDies ==
    /\ poll.pc # "idle"
    /\ pollFaults < MaxPollFaults
    /\ pollFaults' = pollFaults + 1
    /\ poll' = NoPoll
    /\ UNCHANGED <<row, outside, negatives, job, run, cancel, faults>>

\* verify_execution_outputs, called with the inventory of the finished run
AwaitsOutputs == Reconcile(row, OutputRequired).status = "running" /\ ExternalComplete(row)

VerifiedRow == [row EXCEPT !.outputs = "verified", !.status = "completed",
                           !.phase = "none", !.outcome = "succeeded"]

VerifyOutputs ==
    /\ row.status \notin Terminal
    /\ row.outputs # "verified"
    /\ AwaitsOutputs
    /\ row' = VerifiedRow
    /\ UNCHANGED <<outside, elsewhere, run>>

Poller ==
    \/ LookupQuery \/ RecordNotFound \/ RecordMatch \/ PollQuery \/ SessionQuery
    \/ ApplyJobStatus \/ JobStatusFails \/ ApplySessionStatus \/ SessionStatusFails
    \/ PollExhausted \/ PollExpire

----------------------------------------------------------------------------
\* The operator: cancellation, abandonment and retry

\* patch_execution decides from one read of the row whether the backend has to
\* be asked, and refuses while the submission's outcome is unresolved.
RecoveredUncertain ==
    row.submission = "uncertain" /\ Backend = "slurm" /\ row.jobId # 0

SchedulerMayRun ==
    /\ row.jobId # 0
    /\ row.scheduler \notin {"not_submitted", "succeeded", "failed", "cancelled", "timed_out"}

SessionMayRun ==
    row.named /\ row.daliuge \notin {"not_created", "finished", "failed", "cancelled"}

CancelNeedsBackend ==
    \/ RecoveredUncertain
    \/ row.status \in {"awaiting_scheduler", "running"} /\ (SchedulerMayRun \/ SessionMayRun)

operating == <<row, job, run, call, intents, poll, negatives, faults, pollFaults>>

CancelRequest ==
    /\ cancel.pc = "idle"
    /\ row.status \notin Terminal
    /\ row.submission \in {"in_flight", "uncertain"} => RecoveredUncertain
    /\ cancel' = [NoCancel EXCEPT !.pc = IF CancelNeedsBackend THEN "external" ELSE "local"]
    /\ UNCHANGED operating

\* cancel_execution_scheduler reads the identifiers anew; only a confirmed
\* cancellation goes on to the row.
CancelExternal ==
    LET of == IF Backend = "slurm" THEN row.jobId ELSE IF row.named THEN intents ELSE 0 IN
    /\ cancel.pc = "external"
    /\ \/ /\ cancel' = NoCancel
          /\ UNCHANGED call
       \/ /\ of # 0
          /\ call[of] \in {"active", "cancelled"}
          /\ call' = [call EXCEPT ![of] = "cancelled"]
          /\ cancel' = [pc |-> "confirmed", of |-> of]
    /\ UNCHANGED <<row, job, run, intents, poll, negatives, faults, pollFaults>>

\* The WHERE clause of cancel_execution_with_correlation_inner.
Confirmed == cancel.pc = "confirmed"

\* Defect for a mutant run: the submission state is not looked at.
CancelAnySubmission ==
    /\ row.status \in {"pending", "running", "awaiting_scheduler", "retrying", "cancelled"}
    /\ Confirmed => row.named /\ (Backend = "slurm" => row.jobId = cancel.of)

CancelAllowed ==
    /\ row.status \in {"pending", "running", "awaiting_scheduler", "retrying", "cancelled"}
    /\ Confirmed => row.named /\ (Backend = "slurm" => row.jobId = cancel.of)
    /\ row.submission \in {"in_flight", "uncertain"} => Confirmed /\ RecoveredUncertain

CancelledRow ==
    [row EXCEPT !.status = "cancelled", !.phase = "none", !.outcome = "cancelled",
                !.scheduler = IF Confirmed /\ Backend = "slurm" THEN "cancelled" ELSE @,
                !.daliuge = IF Confirmed /\ Backend = "daliuge" THEN "cancelled" ELSE @]

ActiveJobsCancelled ==
    job' = [n \in Attempts |->
              IF Active(n) THEN [NoJob(job[n].submit) EXCEPT !.status = "cancelled"]
                           ELSE job[n]]

CancelCommit ==
    /\ cancel.pc \in {"local", "confirmed"}
    /\ IF CancelAllowed
         THEN row' = CancelledRow /\ ActiveJobsCancelled
         ELSE UNCHANGED <<row, job>>
    /\ negatives' = IF CancelAllowed THEN 0 ELSE negatives
    /\ cancel' = NoCancel
    /\ UNCHANGED <<run, outside, poll, faults, pollFaults>>

\* abandon_slurm_submission: what its locked row must still be like.
MayAbandon ==
    /\ Backend = "slurm"
    /\ Unresolved
    /\ ~row.abandoned
    /\ row.jobId = 0
    /\ row.daliuge \notin {"deploying", "running"}

\* validate_slurm_abandonment_evidence: enough eligible lookups since the execute
\* jobs went quiet.  How long the quiet and the lookups must span is left to
\* their number.
EvidenceHolds == negatives = NegativeLookups

AbandonedRow == [row EXCEPT !.status = "failed", !.phase = "none",
                            !.outcome = "inconsistent", !.abandoned = TRUE]

Abandon ==
    /\ MayAbandon
    /\ ~LeaseActive
    /\ EvidenceHolds
    /\ row' = AbandonedRow
    /\ ActiveJobsCancelled
    /\ UNCHANGED <<run, outside, poll, cancel, negatives, faults, pollFaults>>

\* retry_execution: the axes start over, the graph and the manifest stay.
Retried ==
    [row EXCEPT !.status = "retrying", !.phase = RetryStage(row),
                !.submission = "not_started", !.scheduler = "not_submitted",
                !.daliuge = "not_created", !.outputs = InitialOutputs(OutputRequired),
                !.outcome = "none", !.jobId = 0, !.named = FALSE,
                !.retries = row.retries + 1]

RetryJobQueued == job' = [job EXCEPT ![row.retries + 1].status = "queued"]

Retry ==
    /\ RetryAccepted(row)
    /\ row.retries < MaxRetries
    /\ \A n \in Attempts : ~Active(n)
    /\ row' = Retried
    /\ RetryJobQueued
    /\ negatives' = 0
    /\ UNCHANGED <<run, outside, poll, cancel, faults, pollFaults>>

Operator ==
    \/ CancelRequest \/ CancelExternal \/ CancelCommit \/ Abandon \/ Retry
    \/ VerifyOutputs

----------------------------------------------------------------------------
Queue ==
    \/ \E h \in Handlers, n \in Attempts : Deliver(h, n)
    \/ \E n \in Attempts : LeaseExpires(n)
    \/ \E h \in Handlers : Drop(h) \/ FailJob(h) \/ Raise(h) \/ Settle(h)

Next ==
    \/ Queue
    \/ \E h \in Handlers : HandlerStep(h)
    \/ \E i \in Intents : Answer(i)
    \/ Poller \/ PollDies
    \/ Operator

Spec == Init /\ [][Next]_vars

\* Consumer loops keep claiming, live handlers keep going (every await of theirs
\* is bounded by a timeout), the recurring poll job keeps ticking, and a status
\* query that is repeated for ever is answered in the end.  Nothing is promised
\* about the submission or the operator.
FairSpec ==
    /\ Spec
    /\ \A n \in Attempts : WF_vars(\E h \in Handlers : Deliver(h, n))
    /\ \A h \in Handlers : WF_vars(HandlerStep(h) \/ Settle(h) \/ Raise(h) \/ Drop(h))
    /\ SF_vars(LookupQuery)
    /\ SF_vars(PollQuery /\ poll'.seen # "error")
    /\ SF_vars(SessionQuery /\ poll'.seen # "error")
    /\ WF_vars(RecordNotFound \/ RecordMatch \/ ApplyJobStatus \/ JobStatusFails)
    /\ WF_vars(ApplySessionStatus \/ SessionStatusFails \/ PollExhausted \/ PollExpire)

----------------------------------------------------------------------------
\* Properties

\* At most one submission intent is unanswered or accepted by the backend:
\* neither redelivery, recovery, a stale handler nor a retry gets past
\* begin_execution_submission again while external work may exist.
AtMostOneSubmission ==
    \A i, k \in Intents :
        call[i] \in {"sent"} \cup Accepted /\ call[k] \in {"sent"} \cup Accepted => i = k

\* While nobody knows whether the backend took the submission, the row says so
\* (run_execute's hold, record_submission_receipt, retry and abandonment all
\* rely on it), so nothing that reads the row treats the outside as empty.
UnansweredIsHeld ==
    (\E i \in Intents : call[i] = "sent") => row.submission \in {"in_flight", "uncertain"}

\* An execution plan_execution_retry would accept has no external work.
RetryFindsNothingOutside ==
    RetrySafe(row) => \A i \in Intents : call[i] \in {"unused", "rejected"}

\* cancel_execution never records a cancellation while the submission is
\* unanswered, however old the read patch_execution decided on.
CancelledIsAnswered ==
    row.status = "cancelled" => \A i \in Intents : call[i] # "sent"

\* What receipts and name lookups file on the row (a job id, a graph, the state
\* submitted) is the latest intent's, and the backend did take that one.
SubmittedIsReal ==
    row.jobId # 0 \/ row.graph \/ row.submission = "submitted" =>
        /\ intents # 0
        /\ call[intents] \in Accepted
        /\ row.jobId \in {0, intents}

\* The ledger implements the promise of a single submission: an intent is what is
\* submitted, the claim is a submission state begin_execution_submission refuses,
\* and the end on record is the scheduler's or else the session's.
Work(i) ==
    CASE call[i] = "unused"   -> "none"
      [] call[i] = "sent"     -> "asked"
      [] call[i] = "rejected" -> "refused"
      [] OTHER                -> call[i]

SessionEnd(daliuge) == IF daliuge = "finished" THEN "succeeded" ELSE daliuge

KnownEnd ==
    IF row.scheduler \in Ended THEN row.scheduler
    ELSE IF SessionEnd(row.daliuge) \in Ended THEN SessionEnd(row.daliuge)
    ELSE "none"

Works == [i \in Intents |-> Work(i)]

ClaimHeld == IF row.submission \in Holds THEN "used" ELSE "free"

Submission == INSTANCE SingleSubmission WITH
                Submissions <- Intents, work <- Works, claim <- ClaimHeld, known <- KnownEnd

ImplementsSingleSubmission == Submission!Spec

\* Nothing moves an execution out of completed or cancelled
\* (is_locked_terminal): no late receipt, stale handler, poll or operator.
FinalStatusIsFinal ==
    [][row.status \in LockedTerminal => row'.status = row.status]_vars

\* What an operator has abandoned stays abandoned, and it is not submitted again
\* while the backend may have taken it: not by a stale handler whose ledger patch
\* brings the row back to running, nor once the abandoned call is answered.
AbandonmentHolds ==
    [][row.abandoned =>
         /\ row'.abandoned
         /\ intents' = intents \/ call[intents] = "rejected"]_vars

\* What the ledger has to say of ended work: a verdict, or that only the
\* verification of the outputs is left.
Reconciled == row.status \in Terminal \/ (OutputRequired /\ ExternalComplete(row))

WorkEnded == \E i \in Intents : call[i] \in Ended

\* External work that has ended is reconciled into the ledger by the name
\* lookups and polls, unless the row carries the outcome of a failure half
\* recorded by terminal_execute_failure.
EndedWorkIsReconciled == WorkEnded ~> Reconciled \/ row.outcome # "none"

\* The scheduler's success, once recorded, is followed by the session's:
\* list_slurm_executions_pending_poll skips a succeeded row because "successful
\* compute waiting for output verification remains excluded".
SuccessIsConcluded ==
    row.scheduler = "succeeded" /\ row.status \notin Terminal ~> Reconciled

\* workers-scheduling.md: "Fencing prevents a stale worker from committing after
\* another worker has recovered the job."
StaleWorkerNeverCommits ==
    [][\A h \in Handlers : Stale(h) /\ run'[h] # run[h] => row' = row]_vars

\* recovery.md: "The backend adapter first requests cancellation.  Beampipe
\* records the terminal transition only after the result can be classified."
CancelledWorkIsStopped ==
    row.status = "cancelled" /\ row.outcome = "cancelled" =>
        \A i \in Intents : call[i] # "active"
=============================================================================
