--------------------------- MODULE ExecutionStatus ---------------------------
(***************************************************************************)
(* The pure part of the execution ledger (crates/beampipe-domain/src):     *)
(* the status machine of execution.rs, the reconciliation of the external  *)
(* axes of external_state.rs, and the rule that decides whether a failed   *)
(* execution may be retried in place.                                      *)
(***************************************************************************)

Status == {"pending", "running", "awaiting_scheduler", "not_submitted",
           "completed", "failed", "retrying", "cancelled"}
Phase == {"none", "stage_and_manifest", "submit"}
SubmissionState == {"not_started", "preparing", "in_flight", "submitted",
                    "uncertain", "failed"}
SchedulerState == {"not_submitted", "pending", "running", "succeeded",
                   "failed", "cancelled", "timed_out", "unknown"}
DaliugeState == {"not_created", "pristine", "building", "deploying", "running",
                 "finished", "cancelled", "failed", "unknown", "unreachable"}
OutputState == {"not_started", "pending", "verifying", "verified", "failed",
                "unknown"}
Outcome == {"none", "succeeded", "failed", "cancelled", "inconsistent"}

Terminal == {"completed", "failed", "cancelled", "not_submitted"}
LockedTerminal == {"completed", "cancelled"}

\* ExecutionStatus::allows
Allows(from) ==
    CASE from = "pending"            -> {"running", "cancelled", "failed"}
      [] from = "running"            -> {"awaiting_scheduler", "completed",
                                         "not_submitted", "failed", "cancelled"}
      [] from = "awaiting_scheduler" -> {"running", "completed", "failed", "cancelled"}
      [] from = "not_submitted"      -> {"running", "cancelled"}
      [] from = "failed"             -> {"retrying", "running", "cancelled"}
      [] from = "retrying"           -> {"running", "failed", "cancelled"}
      [] from \in LockedTerminal     -> {}

\* submission_state_holds_automatic_work
Holds == {"in_flight", "uncertain", "submitted"}

SchedulerActive == {"pending", "running"}
DaliugeActive == {"pristine", "building", "deploying", "running"}

----------------------------------------------------------------------------
\* ExecutionAxes::reconcile.  The axes say of the outside what was observed of
\* it; the decision is the status and the outcome they add up to.  The branches
\* are tried in this order.

Failure(a) ==
    \/ a.outputs = "failed"
    \/ a.submission = "failed"
    \/ a.daliuge = "failed"
    \/ a.scheduler \in {"failed", "timed_out"}

FinishedUnderDaliuge(a) == a.scheduler = "succeeded" /\ a.daliuge \in DaliugeActive

Cancellation(a) == a.scheduler = "cancelled" \/ a.daliuge = "cancelled"

StillActive(a) == a.scheduler \in SchedulerActive \/ a.daliuge \in DaliugeActive

ExternalComplete(a) ==
    a.daliuge = "finished" /\ a.scheduler \in {"succeeded", "not_submitted"}

Unconfirmed(a) ==
    a.scheduler = "succeeded" /\ a.daliuge \in {"unknown", "unreachable", "not_created"}

Decision(status, outcome) == [status |-> status, outcome |-> outcome]

Reconcile(a, verificationRequired) ==
    IF Failure(a) THEN Decision("failed", "failed")
    ELSE IF FinishedUnderDaliuge(a) THEN Decision("failed", "inconsistent")
    ELSE IF Cancellation(a)
      THEN Decision("cancelled", IF StillActive(a) THEN "inconsistent" ELSE "cancelled")
    ELSE IF ExternalComplete(a)
      THEN IF verificationRequired /\ a.outputs # "verified"
             THEN Decision("running", "none")
             ELSE Decision("completed", "succeeded")
    ELSE IF a.submission = "uncertain" \/ a.scheduler = "pending"
      THEN Decision("awaiting_scheduler", "none")
    ELSE IF StillActive(a) THEN Decision("running", "none")
    ELSE IF Unconfirmed(a) \/ a.scheduler = "unknown"
      THEN Decision("awaiting_scheduler", "none")
    ELSE Decision("pending", "none")

\* apply_execution_state_patch_with_transition on a row whose axes have been
\* patched: a terminal row ignores it, any other takes the status and outcome
\* that its axes add up to.
Patched(row, axes, verificationRequired) ==
    LET decision == Reconcile(axes, verificationRequired) IN
    IF row.status \in Terminal THEN row
    ELSE [axes EXCEPT !.status = IF decision.status = "pending" THEN row.status
                                 ELSE decision.status,
                      !.outcome = IF decision.outcome = "none" THEN @
                                  ELSE decision.outcome]

----------------------------------------------------------------------------
\* Defect for a mutant run: the submission state is not looked at.
RetryAnySubmission(row) ==
    /\ row.status = "failed"
    /\ row.outcome # "inconsistent"
    /\ row.jobId = 0
    /\ row.scheduler = "not_submitted"
    /\ row.daliuge = "not_created"

\* plan_execution_retry: only a failed execution of which nothing can exist
\* outside is retried, from the last stage that is safe to repeat.
RetrySafe(row) ==
    /\ row.status = "failed"
    /\ row.outcome # "inconsistent"
    /\ row.submission \notin {"preparing", "in_flight", "submitted", "uncertain"}
    /\ row.jobId = 0
    /\ row.scheduler = "not_submitted"
    /\ row.daliuge = "not_created"

RetryFromSubmit(row) ==
    row.phase = "submit" \/ (row.submission = "failed" /\ row.manifest)

RetryAccepted(row) == RetrySafe(row) /\ (RetryFromSubmit(row) => row.manifest)

RetryStage(row) == IF RetryFromSubmit(row) THEN "submit" ELSE "stage_and_manifest"
=============================================================================
