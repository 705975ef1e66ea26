--------------------------- MODULE SlurmRemoteProofs ---------------------------
(***************************************************************************)
(* Proofs about SlurmRemote for every number of retries, of cancellations  *)
(* and of cancellation polls, and for all the ways a job and its steps may *)
(* end.  The argument: a job that ended has ended for good, its steps with *)
(* it, and accounting never forgets one, so an answer may be recorded as   *)
(* late as a worker likes; and only the attempt of the row can have left a *)
(* job, since what is retried has left none.                               *)
(***************************************************************************)
EXTENDS SlurmRemote, TLAPS

Unsent == {"none", "refused"}

\* One attempt at a time: an earlier one has left nothing on the cluster, and a
\* deployer works for the attempt of the row, whatever became of its lease.
AttemptInv ==
    /\ deployer.pc # "idle" =>
         deployer.attempt = row.attempt /\ row.submission \in {"in_flight", "uncertain"}
    /\ \A a \in Attempts : slurm[a].state \notin Unsent => a = row.attempt
    /\ \A a \in Attempts : a > row.attempt => slurm[a].state = "none"

\* What the deployer and the row say of this attempt's sbatch.
CommandInv ==
    /\ deployer.pc \in {"upload", "prepare", "dispatch"} => slurm[row.attempt].state = "none"
    /\ row.submission \in {"not_started", "preparing"} => slurm[row.attempt].state = "none"
    /\ row.submission = "failed" => row.status = "failed" /\ slurm[row.attempt].state \in Unsent
    /\ deployer.pc = "refused" => slurm[row.attempt].state = "refused"
    /\ deployer.pc \in {"reply", "receipt"} => Exists(row.attempt)

\* A job is in the queue, or accounting has it; only of a job that ended, with
\* steps, may accounting omit the root row.
JobInv ==
    \A a \in Attempts :
        /\ slurm[a].queued \/ slurm[a].accounted => Exists(a)
        /\ Exists(a) => slurm[a].queued \/ slurm[a].accounted
        /\ slurm[a].rootless => slurm[a].state \in Ended /\ slurm[a].steps # {}

\* What the row knows of its job is so.
KnownInv ==
    /\ row.jobId # 0 => Exists(row.jobId)
    /\ row.scheduler \in Ended => row.scheduler \in Reported(row.attempt)
    /\ row.daliuge = "finished" => "succeeded" \in Reported(row.attempt)
    /\ VerifiedIsPublished

\* What the tick was told was so then, and an end it was told of is so still.
SeenInv ==
    \A a \in Attempts :
        /\ tick.seen[a] # "none" => Exists(a)
        /\ tick.seen[a] \in Ended => tick.seen[a] \in Reported(a)

\* A job that a query of the queue missed is found by the query of accounting.
TickInv ==
    /\ tick.pc = "first" =>
         /\ tick.existed => \E a \in Attempts : Exists(a)
         /\ ~ tick.named => tick.of \in Attempts /\ Exists(tick.of)
    /\ tick.pc = "second" =>
         /\ tick.named /\ tick.existed =>
              \E a \in Attempts : tick.seen[a] # "none" \/ slurm[a].accounted
         /\ ~ tick.named =>
              /\ tick.of \in Attempts
              /\ tick.seen[tick.of] # "none" \/ slurm[tick.of].accounted
    /\ tick.pc = "record" => (tick.existed => \E a \in Attempts : tick.seen[a] # "none")
    /\ tick.pc = "apply" => tick.of \in Attempts /\ tick.seen[tick.of] # "none"
    /\ tick.pc \in {"inspect", "commit", "reject"} => row.jobId # 0

CancelInv ==
    /\ cancel.pc # "idle" => cancel.of \in Attempts /\ Exists(cancel.of)
    /\ cancel.pc # "idle" /\ cancel.seen \in Ended => cancel.seen \in Reported(cancel.of)
    /\ cancel.pc = "confirmed" => cancel.seen = "cancelled"

IInv ==
    /\ TypeOK
    /\ AttemptInv
    /\ CommandInv
    /\ JobInv
    /\ KnownInv
    /\ SeenInv
    /\ TickInv
    /\ CancelInv

----------------------------------------------------------------------------
\* The row's reconciliation.

\* What a decision is
LEMMA DecidedTypes ==
    ASSUME NEW a, NEW v
    PROVE  Reconcile(a, v).status \in Status /\ Reconcile(a, v).outcome \in Outcome
<1> DEFINE Of(d) == d.status \in Status /\ d.outcome \in Outcome
<1>1. \A s \in Status, o \in Outcome : Of(Decision(s, o))
  BY DEF Decision
<1>2. /\ Of(Decision("failed", "failed")) /\ Of(Decision("failed", "inconsistent"))
      /\ Of(Decision("cancelled", "inconsistent")) /\ Of(Decision("cancelled", "cancelled"))
      /\ Of(Decision("running", "none")) /\ Of(Decision("completed", "succeeded"))
      /\ Of(Decision("awaiting_scheduler", "none")) /\ Of(Decision("pending", "none"))
  <2>1. /\ {"failed", "cancelled", "running", "completed", "awaiting_scheduler", "pending"} \subseteq Status
        /\ {"failed", "inconsistent", "cancelled", "none", "succeeded"} \subseteq Outcome
    BY DEF Status, Outcome
  <2> HIDE DEF Of
  <2> QED BY <1>1, <2>1
<1> HIDE DEF Of
<1>3. Of(Reconcile(a, v))
  BY <1>2 DEF Reconcile
<1> QED BY <1>3 DEF Of

\* A patch of the axes of a row
LEMMA PatchedRow ==
    ASSUME NEW r \in RowType, NEW a \in RowType
    PROVE  LET q == Patched(r, a, OutputRequired)
           IN  /\ q \in RowType
               /\ r.status \in Terminal => q = r
               /\ r.status \notin Terminal =>
                    /\ q.submission = a.submission /\ q.scheduler = a.scheduler
                    /\ q.daliuge = a.daliuge /\ q.outputs = a.outputs
                    /\ q.jobId = a.jobId /\ q.attempt = a.attempt
                    /\ q.submission = "failed" => q.status = "failed"
<1> DEFINE decision == Reconcile(a, OutputRequired)
           status == IF decision.status = "pending" THEN r.status ELSE decision.status
           outcome == IF decision.outcome = "none" THEN a.outcome ELSE decision.outcome
           q == Patched(r, a, OutputRequired)
<1>1. CASE r.status \in Terminal
  <2>1. q = r
    BY <1>1 DEF Patched
  <2> QED BY <1>1, <2>1
<1>2. CASE r.status \notin Terminal
  <2>1. status \in Status /\ outcome \in Outcome
    <3>1. r.status \in Status /\ a.outcome \in Outcome
      BY DEF RowType
    <3>2. decision.status \in Status /\ decision.outcome \in Outcome
      BY DecidedTypes
    <3> HIDE DEF decision
    <3> QED BY <3>1, <3>2
  <2>2. q = [a EXCEPT !.status = status, !.outcome = outcome]
    BY <1>2 DEF Patched
  <2>4. a.submission = "failed" => status = "failed"
    BY DEF Reconcile, Failure, Decision
  <2> HIDE DEF status, outcome, q
  <2>3. /\ q \in RowType
        /\ q.submission = a.submission /\ q.scheduler = a.scheduler
        /\ q.daliuge = a.daliuge /\ q.outputs = a.outputs
        /\ q.jobId = a.jobId /\ q.attempt = a.attempt
        /\ q.submission = "failed" => q.status = "failed"
    <3> HIDE DEF Status, Outcome
    <3> QED BY <2>1, <2>2, <2>4 DEF RowType
  <2> QED BY <1>2, <2>3 DEF q
<1> QED BY <1>1, <1>2

----------------------------------------------------------------------------
\* Types.

LEMMA Types ==
    ASSUME TypeOK
    PROVE  /\ row \in RowType /\ row.submission \in SubmissionState
           /\ row.scheduler \in SchedulerState /\ row.daliuge \in DaliugeState
           /\ row.outputs \in OutputState
           /\ row.jobId \in {0} \cup Attempts /\ row.attempt \in Attempts
           /\ deployer \in DeployerType /\ deployer.pc \in DeployerAt
           /\ deployer.attempt \in {0} \cup Attempts
           /\ slurm \in [Attempts -> JobType]
           /\ \A a \in Attempts : slurm[a] \in JobType /\ slurm[a].state \in Command
                                  /\ slurm[a].queued \in BOOLEAN /\ slurm[a].accounted \in BOOLEAN
                                  /\ slurm[a].steps \in SUBSET Ended
                                  /\ slurm[a].rootless \in BOOLEAN
           /\ inventory \in [Attempts -> {"absent", "valid", "invalid"}]
           /\ tick \in TickType /\ tick.of \in {0} \cup Attempts /\ tick.named \in BOOLEAN
           /\ tick.existed \in BOOLEAN /\ tick.seen \in [Attempts -> Answers]
           /\ cancel \in CancelType /\ cancel.of \in {0} \cup Attempts
           /\ cancel.seen \in Answers /\ cancel.polls \in 0 .. MaxCancelPolls - 1
<1>1. /\ row \in RowType /\ deployer \in DeployerType /\ slurm \in [Attempts -> JobType]
      /\ tick \in TickType /\ cancel \in CancelType
      /\ inventory \in [Attempts -> {"absent", "valid", "invalid"}]
  BY DEF TypeOK
<1>2. \A j \in JobType : /\ j.state \in Command /\ j.queued \in BOOLEAN /\ j.accounted \in BOOLEAN
                         /\ j.steps \in SUBSET Ended /\ j.rootless \in BOOLEAN
  <2> HIDE DEF Command
  <2> QED BY DEF JobType
<1>3. \A a \in Attempts : slurm[a] \in JobType /\ slurm[a].state \in Command
                          /\ slurm[a].queued \in BOOLEAN /\ slurm[a].accounted \in BOOLEAN
                          /\ slurm[a].steps \in SUBSET Ended /\ slurm[a].rootless \in BOOLEAN
  BY <1>1, <1>2
<1>4. /\ row.submission \in SubmissionState /\ row.scheduler \in SchedulerState
      /\ row.daliuge \in DaliugeState /\ row.outputs \in OutputState
      /\ row.jobId \in {0} \cup Attempts /\ row.attempt \in Attempts
  <2> HIDE DEF Attempts, SubmissionState, SchedulerState, DaliugeState, OutputState
  <2> QED BY <1>1 DEF RowType
<1>5. deployer.pc \in DeployerAt /\ deployer.attempt \in {0} \cup Attempts
  <2> HIDE DEF Attempts, DeployerAt
  <2> QED BY <1>1 DEF DeployerType
<1>6. /\ tick.of \in {0} \cup Attempts /\ tick.named \in BOOLEAN /\ tick.existed \in BOOLEAN
      /\ tick.seen \in [Attempts -> Answers]
  <2> HIDE DEF Attempts, Answers
  <2> QED BY <1>1 DEF TickType
<1>7. /\ cancel.of \in {0} \cup Attempts /\ cancel.seen \in Answers
      /\ cancel.polls \in 0 .. MaxCancelPolls - 1
  <2> HIDE DEF Attempts, Answers
  <2> QED BY <1>1 DEF CancelType
<1> QED BY <1>1, <1>3, <1>4, <1>5, <1>6, <1>7

LEMMA Idle ==
    /\ 1 \in Attempts
    /\ NoDeployer \in DeployerType /\ NoDeployer.pc = "idle"
    /\ NoTick \in TickType /\ NoTick.pc = "idle" /\ NoTick.seen = Nothing
    /\ NoCancel \in CancelType /\ NoCancel.pc = "idle"
    /\ \A a \in Attempts : Nothing[a] = "none"
<1>1. 1 \in Attempts
  BY BoundsAssumption DEF Attempts
<1>2. NoDeployer \in DeployerType /\ NoDeployer.pc = "idle"
  BY DEF NoDeployer, DeployerType, DeployerAt
<1>3. Nothing \in [Attempts -> Answers] /\ \A a \in Attempts : Nothing[a] = "none"
  BY DEF Nothing, Answers
<1>4. NoTick \in TickType /\ NoTick.pc = "idle" /\ NoTick.seen = Nothing
  <2> HIDE DEF Attempts, Answers, Nothing
  <2> QED BY <1>3 DEF NoTick, TickType, TickAt
<1>5. NoCancel \in CancelType /\ NoCancel.pc = "idle"
  <2>1. 0 \in 0 .. MaxCancelPolls - 1
    BY BoundsAssumption
  <2> HIDE DEF Attempts
  <2> QED BY <2>1 DEF NoCancel, CancelType, CancelAt, Answers
<1> QED BY <1>1, <1>2, <1>3, <1>4, <1>5

\* The worst end of some steps is the end of one of them.
LEMMA WorstIsOne ==
    ASSUME NEW steps \in SUBSET Ended, steps # {}
    PROVE  Highest(steps) \in steps
<1>1. /\ Rank["succeeded"] = 3 /\ Rank["cancelled"] = 4 /\ Rank["failed"] = 6
  BY DEF Rank
<1>2. \E s \in steps : \A t \in steps : Rank[t] <= Rank[s]
  <2>1. CASE "failed" \in steps
    BY <1>1, <2>1 DEF Ended
  <2>2. CASE "failed" \notin steps /\ "cancelled" \in steps
    BY <1>1, <2>2 DEF Ended
  <2>3. CASE steps = {"succeeded"}
    BY <1>1, <2>3
  <2> QED BY <2>1, <2>2, <2>3 DEF Ended
<1> QED BY <1>2 DEF Highest

\* Only of a job that ended does accounting report an end.
LEMMA ReportedEnds ==
    ASSUME TypeOK, JobInv, NEW a \in Attempts
    PROVE  /\ Reported(a) \subseteq Ended
           /\ Reported(a) # {} => slurm[a].state \in Ended
           /\ slurm[a].state \in Ended => slurm[a].state \in Reported(a)
<1>1. slurm[a].rootless => Highest(slurm[a].steps) \in slurm[a].steps
  BY Types, WorstIsOne DEF JobInv
<1>2. slurm[a].steps \in SUBSET Ended
  BY Types
<1> QED BY <1>1, <1>2 DEF Reported

LEMMA InitStep == Init => IInv
<1> SUFFICES ASSUME Init PROVE IInv
  OBVIOUS
<1>1. /\ row \in RowType /\ row.submission = "not_started" /\ row.scheduler = "not_submitted"
      /\ row.daliuge = "not_created" /\ row.outputs # "verified" /\ row.jobId = 0
      /\ row.attempt = 1
  <2>1. (IF OutputRequired THEN "pending" ELSE "not_started") \in OutputState
    BY DEF OutputState
  <2> HIDE DEF Attempts
  <2> QED BY <2>1, Idle DEF Init, RowType, Status, Phase, SubmissionState, SchedulerState,
                             DaliugeState, Outcome
<1>2. /\ NoJob \in JobType /\ NoJob.state = "none" /\ ~ NoJob.rootless
      /\ ~ NoJob.queued /\ ~ NoJob.accounted
  BY DEF NoJob, JobType, Command
<1>3. slurm \in [Attempts -> JobType] /\ \A a \in Attempts : slurm[a] = NoJob
  <2>1. slurm = [a \in Attempts |-> NoJob]
    BY DEF Init
  <2> QED BY <1>2, <2>1
<1>4. /\ deployer = NoDeployer /\ lease = "none" /\ tick = NoTick /\ cancel = NoCancel
      /\ cancels = 0 /\ inventory \in [Attempts -> {"absent", "valid", "invalid"}]
  BY DEF Init
<1>5. TypeOK
  <2> HIDE DEF RowType, JobType, Attempts
  <2> QED BY <1>1, <1>3, <1>4, Idle, BoundsAssumption DEF TypeOK
<1>6. \A a \in Attempts : /\ slurm[a].state = "none" /\ ~ slurm[a].queued /\ ~ slurm[a].accounted
                          /\ ~ Exists(a) /\ ~ slurm[a].rootless
  BY <1>2, <1>3 DEF Exists, InSlurm, Ended
<1>7. AttemptInv /\ CommandInv
  <2> HIDE DEF Attempts
  <2> QED BY <1>1, <1>4, <1>6, Idle DEF AttemptInv, CommandInv, Unsent
<1>8. JobInv /\ KnownInv
  BY <1>1, <1>6 DEF JobInv, KnownInv, VerifiedIsPublished, Ended
<1>9. SeenInv
  BY <1>4, Idle DEF SeenInv, Ended
<1>10. TickInv /\ CancelInv
  BY <1>4, Idle DEF TickInv, CancelInv
<1> QED BY <1>5, <1>7, <1>8, <1>9, <1>10 DEF IInv

----------------------------------------------------------------------------
\* What is kept while the cluster is left alone.

LEMMA ClusterKept ==
    ASSUME UNCHANGED <<slurm, inventory>>
    PROVE  /\ \A a : (Exists(a)' <=> Exists(a)) /\ Reported(a)' = Reported(a)
           /\ JobInv => JobInv'
           /\ UNCHANGED tick /\ (row.jobId # 0 => row'.jobId # 0) /\ SeenInv /\ TickInv
                => SeenInv' /\ TickInv'
           /\ UNCHANGED cancel /\ CancelInv => CancelInv'
BY DEF Exists, Reported, JobInv, SeenInv, TickInv, CancelInv

\* A row that a step of the deployer, of the tick or of the operator writes
LEMMA RowKept ==
    ASSUME IInv, UNCHANGED <<slurm, inventory>>,
           row' \in RowType, row'.attempt = row.attempt,
           \/ deployer'.pc = "idle"
           \/ /\ deployer' = deployer
              /\ \/ row'.submission = row.submission
                 \/ row'.submission = "uncertain",
           row'.submission \in {"not_started", "preparing"} => row'.submission = row.submission,
           row'.submission = "failed" => row'.status = "failed" /\ slurm[row.attempt].state \in Unsent,
           row'.jobId = row.jobId \/ (row'.jobId # 0 => Exists(row'.jobId)),
           row'.scheduler \in Ended => row'.scheduler \in Reported(row.attempt),
           row'.daliuge = "finished" => "succeeded" \in Reported(row.attempt),
           row'.outputs = "verified" =>
             /\ row'.jobId = row.attempt
             /\ "succeeded" \in Reported(row.attempt)
             /\ inventory[row.attempt] = "valid"
    PROVE  AttemptInv' /\ CommandInv' /\ JobInv' /\ KnownInv'
<1>1. AttemptInv /\ CommandInv /\ JobInv /\ KnownInv
  BY DEF IInv
<1>2. AttemptInv'
  BY <1>1 DEF AttemptInv
<1>3. CommandInv'
  BY <1>1, ClusterKept DEF CommandInv
<1>4. JobInv'
  BY <1>1, ClusterKept
<1>5. KnownInv'
  <2>1. row'.jobId # 0 => Exists(row'.jobId)
    BY <1>1 DEF KnownInv
  <2>2. VerifiedIsPublished'
    BY DEF VerifiedIsPublished, Reported
  <2> QED BY <2>1, <2>2 DEF KnownInv, Exists, Reported
<1> QED BY <1>2, <1>3, <1>4, <1>5

\* A job that exists is the row's.
LEMMA OneJob ==
    ASSUME IInv, NEW a \in Attempts, Exists(a)
    PROVE  a = row.attempt
BY DEF IInv, AttemptInv, Exists, Unsent, InSlurm, Ended
----------------------------------------------------------------------------
\* The deployer.

LEMMA BeginStep ==
    ASSUME IInv, Begin
    PROVE  IInv'
<1> DEFINE begun == [row EXCEPT !.status = "running", !.submission = "in_flight",
                                !.daliuge = "not_created"]
           deploying == [pc |-> "upload", attempt |-> row.attempt]
<1>1. /\ deployer.pc = "idle" /\ row.submission \notin Holds
      /\ row' = begun /\ deployer' = deploying /\ lease' = "deployer"
      /\ UNCHANGED <<slurm, inventory, tick, cancel, cancels>>
  BY DEF Begin, cluster, clients
<1>2. TypeOK
  BY DEF IInv
<1>3. /\ begun \in RowType /\ begun.submission = "in_flight" /\ begun.daliuge = "not_created"
      /\ begun.attempt = row.attempt /\ begun.jobId = row.jobId
      /\ begun.scheduler = row.scheduler /\ begun.outputs = row.outputs
  <2>1. row \in RowType
    BY <1>2, Types
  <2>2. "running" \in Status /\ "in_flight" \in SubmissionState /\ "not_created" \in DaliugeState
    BY DEF Status, SubmissionState, DaliugeState
  <2> HIDE DEF Status, Phase, SubmissionState, SchedulerState, DaliugeState, OutputState,
               Outcome, Attempts
  <2> QED BY <2>1, <2>2 DEF RowType
<1>4. /\ deploying \in DeployerType /\ deploying.pc = "upload"
      /\ deploying.attempt = row.attempt
  <2> HIDE DEF Attempts
  <2> QED BY <1>2, Types DEF DeployerType, DeployerAt
<1> HIDE DEF begun, deploying
<1>5. TypeOK'
  <2> HIDE DEF RowType, DeployerType, JobType, TickType, CancelType, Attempts
  <2> QED BY <1>1, <1>2, <1>3, <1>4 DEF TypeOK
<1>6. row.submission \in {"not_started", "preparing"}
  <2>1. row.status # "failed"
    BY DEF Begin
  <2>2. row.submission # "failed"
    BY <2>1 DEF IInv, CommandInv
  <2> QED BY <1>1, <1>2, <2>2, Types DEF SubmissionState, Holds
<1>7. AttemptInv'
  BY <1>1, <1>3, <1>4 DEF IInv, AttemptInv
<1>8. CommandInv'
  <2>1. slurm[row.attempt].state = "none"
    BY <1>6 DEF IInv, CommandInv
  <2> QED BY <1>1, <1>3, <1>4, <2>1 DEF CommandInv
<1>9. JobInv' /\ SeenInv' /\ TickInv' /\ CancelInv'
  BY <1>1, <1>3, ClusterKept DEF IInv
<1>10. KnownInv'
  BY <1>1, <1>3 DEF IInv, KnownInv, VerifiedIsPublished, Exists, Reported
<1> QED BY <1>5, <1>7, <1>8, <1>9, <1>10 DEF IInv

\* Uploaded, Prepared, ExitStatus and Receive
LEMMA DeployingStep ==
    ASSUME IInv, Uploaded \/ Prepared \/ ExitStatus \/ Receive
    PROVE  IInv'
<1>1. TypeOK /\ deployer \in DeployerType
  BY Types DEF IInv
<1>2. PICK to \in DeployerAt :
        /\ deployer' = [deployer EXCEPT !.pc = to]
        /\ \/ deployer.pc \in {"upload", "prepare"} /\ to \in {"prepare", "dispatch"}
           \/ to = "refused" /\ slurm[deployer.attempt].state = "refused"
           \/ to \in {"reply", "receipt"} /\ deployer.pc = "sent" /\ Exists(deployer.attempt)
           \/ to \in {"reply", "receipt"} /\ deployer.pc = "reply"
        /\ deployer.pc # "idle"
  BY DEF Uploaded, Prepared, ExitStatus, Receive, Deploying, DeployerAt
<1>3. UNCHANGED <<row, lease, slurm, inventory, tick, cancel, cancels>>
  BY DEF Uploaded, Prepared, ExitStatus, Receive, Deploying, cluster, clients
<1>4. deployer' \in DeployerType /\ deployer'.pc = to /\ deployer'.attempt = deployer.attempt
  BY <1>1, <1>2 DEF DeployerType
<1>5. TypeOK'
  <2> HIDE DEF RowType, DeployerType, JobType, TickType, CancelType, Attempts
  <2> QED BY <1>1, <1>3, <1>4 DEF TypeOK
<1>6. deployer.attempt = row.attempt /\ row.submission \in {"in_flight", "uncertain"}
  BY <1>2 DEF IInv, AttemptInv
<1>7. AttemptInv'
  BY <1>3, <1>4, <1>6 DEF IInv, AttemptInv
<1>8. CommandInv'
  BY <1>2, <1>3, <1>4, <1>6 DEF IInv, CommandInv, Exists
<1>9. JobInv' /\ SeenInv' /\ TickInv' /\ CancelInv'
  BY <1>3, ClusterKept DEF IInv
<1>10. KnownInv'
  BY <1>3 DEF IInv, KnownInv, VerifiedIsPublished, Exists, Reported
<1> QED BY <1>5, <1>7, <1>8, <1>9, <1>10 DEF IInv

LEMMA DispatchStep ==
    ASSUME IInv, Dispatch
    PROVE  IInv'
<1> DEFINE job == [slurm[row.attempt] EXCEPT !.state = "sent"]
<1>1. /\ TypeOK /\ deployer \in DeployerType /\ slurm \in [Attempts -> JobType]
      /\ row.attempt \in Attempts
  BY Types DEF IInv
<1>2. /\ deployer.pc = "dispatch" /\ deployer' = [deployer EXCEPT !.pc = "sent"]
      /\ slurm' = [slurm EXCEPT ![deployer.attempt].state = "sent"]
      /\ UNCHANGED <<row, lease, inventory, tick, cancel, cancels>>
  BY DEF Dispatch, Deploying, clients
<1>3. /\ deployer.attempt = row.attempt /\ row.submission \in {"in_flight", "uncertain"}
      /\ slurm[row.attempt].state = "none"
  BY <1>2 DEF IInv, AttemptInv, CommandInv
<1>4. deployer' \in DeployerType /\ deployer'.pc = "sent" /\ deployer'.attempt = row.attempt
  BY <1>1, <1>2, <1>3 DEF DeployerType, DeployerAt
<1>5. /\ job \in JobType /\ job.state = "sent" /\ job.queued = slurm[row.attempt].queued
      /\ job.accounted = slurm[row.attempt].accounted
      /\ job.rootless = slurm[row.attempt].rootless
  BY <1>1 DEF JobType, Command
<1> HIDE DEF job
<1>6. slurm' = [slurm EXCEPT ![row.attempt] = job]
  BY <1>1, <1>2, <1>3 DEF job
<1>7. /\ slurm' \in [Attempts -> JobType] /\ slurm'[row.attempt] = job
      /\ \A a \in Attempts : a # row.attempt => slurm'[a] = slurm[a]
  <2> HIDE DEF Attempts
  <2> QED BY <1>1, <1>5, <1>6
<1>8. TypeOK'
  <2> HIDE DEF RowType, DeployerType, JobType, TickType, CancelType, Attempts
  <2> QED BY <1>1, <1>2, <1>4, <1>7 DEF TypeOK
<1>9. AttemptInv'
  BY <1>1, <1>2, <1>3, <1>4, <1>7 DEF IInv, AttemptInv, Attempts
<1>10. CommandInv'
  BY <1>2, <1>3, <1>4 DEF CommandInv
\* No job is known that this is the command of.
<1>11. ~ Exists(row.attempt) /\ Reported(row.attempt) = {} /\ ~ slurm[row.attempt].rootless
  BY <1>1, <1>3 DEF IInv, JobInv, Exists, Reported, InSlurm, Ended
<1>12. \A a \in Attempts : Exists(a)' <=> Exists(a)
  BY <1>1, <1>5, <1>7, <1>11 DEF Exists, InSlurm, Ended
<1>13. JobInv'
  BY <1>5, <1>7, <1>11, <1>12 DEF IInv, JobInv
<1>14. \A a \in Attempts : Exists(a) => slurm'[a] = slurm[a] /\ Reported(a)' = Reported(a)
  BY <1>7, <1>11 DEF Reported
<1>15. KnownInv'
  <2>1. row.jobId = 0 /\ row.scheduler \notin Ended /\ row.daliuge # "finished"
    <3>1. row.jobId # 0 => row.jobId = row.attempt /\ Exists(row.jobId)
      BY <1>1, OneJob, Types DEF IInv, KnownInv
    <3> QED BY <1>11, <3>1 DEF IInv, KnownInv
  <2>2. row.outputs # "verified"
    BY <1>11 DEF IInv, KnownInv, VerifiedIsPublished
  <2> QED BY <1>2, <2>1, <2>2 DEF KnownInv, VerifiedIsPublished
<1>16. SeenInv'
  BY <1>2, <1>12, <1>14 DEF IInv, SeenInv, Ended
<1>17. TickInv'
  <2>1. \A a \in Attempts : slurm[a].accounted => slurm'[a].accounted
    BY <1>5, <1>7
  <2> QED BY <1>2, <1>12, <2>1 DEF IInv, TickInv
<1>18. CancelInv'
  BY <1>2, <1>12, <1>14 DEF IInv, CancelInv
<1> QED BY <1>8, <1>9, <1>10, <1>13, <1>15, <1>16, <1>17, <1>18 DEF IInv

\* SubmissionFailed and SubmissionUncertain
LEMMA UnsubmittedStep ==
    ASSUME IInv, SubmissionFailed \/ SubmissionUncertain
    PROVE  IInv'
<1>1. TypeOK /\ row \in RowType
  BY Types DEF IInv
<1>2. PICK s \in {"failed", "uncertain"} :
        /\ row' = Patched(row, [row EXCEPT !.submission = s], OutputRequired)
        /\ s = "failed" => deployer.pc \in {"upload", "prepare", "dispatch", "refused"}
  <2>1. CASE SubmissionFailed
    BY <2>1 DEF SubmissionFailed, StatePatch, Definite
  <2>2. CASE SubmissionUncertain
    BY <2>2 DEF SubmissionUncertain, StatePatch
  <2> QED BY <2>1, <2>2
<1>3. /\ deployer.pc # "idle" /\ Done
      /\ UNCHANGED <<slurm, inventory, tick, cancel, cancels>>
  BY DEF SubmissionFailed, SubmissionUncertain, Definite, cluster, clients
<1>4. deployer' \in DeployerType /\ deployer'.pc = "idle" /\ lease' \in {"none", lease}
  BY <1>3, Idle DEF Done
<1> DEFINE a == [row EXCEPT !.submission = s]
<1>5. /\ a \in RowType /\ a.submission = s /\ a.scheduler = row.scheduler
      /\ a.daliuge = row.daliuge /\ a.outputs = row.outputs
      /\ a.jobId = row.jobId /\ a.attempt = row.attempt
  <2>1. s \in SubmissionState
    BY DEF SubmissionState
  <2> HIDE DEF Status, Phase, SubmissionState, SchedulerState, DaliugeState, OutputState,
               Outcome, Attempts
  <2> QED BY <1>1, <2>1 DEF RowType
<1>6. row' = Patched(row, a, OutputRequired)
  BY <1>2
<1> HIDE DEF a
<1>7. /\ row' \in RowType
      /\ row'.scheduler = row.scheduler /\ row'.daliuge = row.daliuge
      /\ row'.outputs = row.outputs /\ row'.jobId = row.jobId /\ row'.attempt = row.attempt
      /\ row'.submission \in {row.submission, s}
      /\ row'.submission = "failed" /\ row.submission # "failed" => row'.status = "failed"
  BY <1>1, <1>5, <1>6, PatchedRow
<1>8. row.submission \in {"in_flight", "uncertain"}
  BY <1>3 DEF IInv, AttemptInv
<1>9. s = "failed" => slurm[row.attempt].state \in Unsent
  BY <1>2 DEF IInv, CommandInv, Unsent
<1>10. TypeOK'
  <2> HIDE DEF RowType, DeployerType, JobType, TickType, CancelType, Attempts
  <2> QED BY <1>1, <1>3, <1>4, <1>7 DEF TypeOK
<1>11. /\ row'.submission = "failed" =>
            row'.status = "failed" /\ slurm[row.attempt].state \in Unsent
       /\ row'.submission \notin {"not_started", "preparing"}
  BY <1>7, <1>8, <1>9
<1>12. AttemptInv' /\ CommandInv' /\ JobInv' /\ KnownInv'
  BY <1>3, <1>4, <1>7, <1>11, RowKept DEF IInv, KnownInv, VerifiedIsPublished
<1>13. SeenInv' /\ TickInv' /\ CancelInv'
  BY <1>3, <1>7, ClusterKept DEF IInv
<1> QED BY <1>10, <1>12, <1>13 DEF IInv

LEMMA ReceiptStep ==
    ASSUME IInv, RecordReceipt
    PROVE  IInv'
<1> DEFINE a == deployer.attempt
<1>1. /\ TypeOK /\ row \in RowType /\ row.attempt \in Attempts
  BY Types DEF IInv
<1>2. /\ deployer.pc = "receipt" /\ Done
      /\ UNCHANGED <<slurm, inventory, tick, cancel, cancels>>
  BY DEF RecordReceipt, cluster, clients
<1>3. /\ a = row.attempt /\ row.submission \in {"in_flight", "uncertain"} /\ Exists(row.attempt)
  BY <1>2 DEF IInv, AttemptInv, CommandInv
<1>4. deployer' \in DeployerType /\ deployer'.pc = "idle" /\ lease' \in {"none", lease}
  BY <1>2, Idle DEF Done
<1>5. row.jobId \in {0, row.attempt}
  BY <1>1, OneJob, Types DEF IInv, KnownInv
<1>6. 0 \notin Attempts
  BY DEF Attempts
<1>7. /\ row' \in RowType /\ row'.attempt = row.attempt
      /\ row'.submission \in {"in_flight", "uncertain", "submitted"}
      /\ row'.jobId \in {row.jobId, row.attempt}
      /\ row'.scheduler \in {row.scheduler, "pending"}
      /\ row'.daliuge \in {row.daliuge, "not_created"}
      /\ row'.outputs = row.outputs
  <2> HIDE DEF a
  <2>1. CASE ReceiptRefused(a)
    <3> DEFINE b == IF row.submission = "in_flight"
                      THEN [row EXCEPT !.submission = "uncertain"] ELSE row
    <3>1. row' = Patched(row, b, OutputRequired)
      BY <2>1 DEF RecordReceipt, StatePatch, a
    <3>2. /\ b \in RowType /\ b.submission = "uncertain" /\ b.scheduler = row.scheduler
          /\ b.daliuge = row.daliuge /\ b.outputs = row.outputs
          /\ b.jobId = row.jobId /\ b.attempt = row.attempt
      <4>1. "uncertain" \in SubmissionState
        BY DEF SubmissionState
      <4> HIDE DEF Status, Phase, SubmissionState, SchedulerState, DaliugeState, OutputState,
                   Outcome, Attempts
      <4> QED BY <1>1, <1>3, <4>1 DEF RowType
    <3> HIDE DEF b
    <3> QED BY <1>1, <1>3, <3>1, <3>2, PatchedRow
  <2>2. CASE ~ ReceiptRefused(a)
    <3> DEFINE filed == [row EXCEPT !.jobId = a, !.receipted = TRUE, !.submission = "submitted"]
               status == Reconcile(filed, OutputRequired).status
    <3>1. row' = Receipted(a)
      BY <2>2 DEF RecordReceipt, a
    <3>2. /\ filed \in RowType /\ filed.submission = "submitted" /\ filed.scheduler = row.scheduler
          /\ filed.daliuge = row.daliuge /\ filed.outputs = row.outputs
          /\ filed.jobId = row.attempt /\ filed.attempt = row.attempt
      <4>1. "submitted" \in SubmissionState /\ a \in {0} \cup Attempts /\ a = row.attempt
        BY <1>1, <1>3 DEF SubmissionState, a
      <4> HIDE DEF Status, Phase, SubmissionState, SchedulerState, DaliugeState, OutputState,
                   Outcome, Attempts
      <4> QED BY <1>1, <4>1 DEF RowType
    <3>3. status \in Status
      BY DecidedTypes
    <3> HIDE DEF filed, status
    <3>4. CASE row.status \in Terminal
      BY <3>1, <3>2, <3>4 DEF Receipted, filed
    <3>5. CASE row.status \notin Terminal /\ Recovered(a)
      <4>1. row' = [filed EXCEPT !.status = status]
        BY <3>1, <3>5 DEF Receipted, filed, status
      <4> HIDE DEF Status, Phase, SubmissionState, SchedulerState, DaliugeState, OutputState,
                   Outcome, Attempts
      <4> QED BY <3>2, <3>3, <4>1 DEF RowType
    <3>6. CASE row.status \notin Terminal /\ ~ Recovered(a)
      <4>1. row' = [filed EXCEPT !.status = "awaiting_scheduler", !.scheduler = "pending",
                                 !.daliuge = "not_created", !.outcome = "none"]
        BY <3>1, <3>6 DEF Receipted, filed
      <4>2. /\ "awaiting_scheduler" \in Status /\ "pending" \in SchedulerState
            /\ "not_created" \in DaliugeState /\ "none" \in Outcome
        BY DEF Status, SchedulerState, DaliugeState, Outcome
      <4> HIDE DEF Status, Phase, SubmissionState, SchedulerState, DaliugeState, OutputState,
                   Outcome, Attempts
      <4> QED BY <3>2, <4>1, <4>2 DEF RowType
    <3> QED BY <3>4, <3>5, <3>6
  <2> QED BY <2>1, <2>2
<1>8. TypeOK'
  <2> HIDE DEF RowType, DeployerType, JobType, TickType, CancelType, Attempts
  <2> QED BY <1>1, <1>2, <1>4, <1>7 DEF TypeOK
<1>9. /\ row'.scheduler \in Ended => row'.scheduler \in Reported(row.attempt)
      /\ row'.daliuge = "finished" => "succeeded" \in Reported(row.attempt)
      /\ row'.outputs = "verified" =>
           /\ row'.jobId = row.attempt
           /\ "succeeded" \in Reported(row.attempt)
           /\ inventory[row.attempt] = "valid"
  BY <1>7 DEF IInv, KnownInv, VerifiedIsPublished, Ended
<1>10. row'.jobId = row.jobId \/ (row'.jobId # 0 => Exists(row'.jobId))
  BY <1>3, <1>7
<1>11. AttemptInv' /\ CommandInv' /\ JobInv' /\ KnownInv'
  BY <1>2, <1>4, <1>7, <1>9, <1>10, RowKept
<1>12. row.jobId # 0 => row'.jobId # 0
  BY <1>1, <1>6, <1>7
<1>13. SeenInv' /\ TickInv' /\ CancelInv'
  BY <1>2, <1>12, ClusterKept DEF IInv
<1> QED BY <1>8, <1>11, <1>13 DEF IInv

\* LeaseLost, Dropped, Redelivered and Settled
LEMMA LeaseStep ==
    ASSUME IInv, LeaseLost \/ Dropped \/ Redelivered \/ Settled
    PROVE  IInv'
<1>1. TypeOK
  BY DEF IInv
<1>2. /\ UNCHANGED <<row, slurm, inventory, tick, cancel, cancels>>
      /\ deployer' \in {deployer, NoDeployer}
      /\ lease' \in {"none", "expired", "redelivered", lease}
  BY DEF LeaseLost, Dropped, Redelivered, Settled, Done, cluster, clients
<1>3. deployer' \in DeployerType
  BY <1>1, <1>2, Idle, Types
<1>4. TypeOK'
  <2> HIDE DEF RowType, DeployerType, JobType, TickType, CancelType, Attempts
  <2> QED BY <1>1, <1>2, <1>3 DEF TypeOK
<1>5. AttemptInv' /\ CommandInv'
  BY <1>2, Idle DEF IInv, AttemptInv, CommandInv, Exists
<1>6. KnownInv'
  BY <1>2 DEF IInv, KnownInv, VerifiedIsPublished, Exists, Reported
<1>7. JobInv' /\ SeenInv' /\ TickInv' /\ CancelInv'
  BY <1>2, ClusterKept DEF IInv
<1> QED BY <1>4, <1>5, <1>6, <1>7 DEF IInv

----------------------------------------------------------------------------
\* The cluster.

\* The one command that was sent, or the job it became, goes on.
LEMMA JobStep ==
    ASSUME IInv, NEW a \in Attempts, NEW j \in JobType,
           slurm' = [slurm EXCEPT ![a] = j],
           UNCHANGED <<row, deployer, lease, inventory, tick, cancel, cancels>>,
           slurm[a].state \notin Unsent,
           Exists(a) => j.state \in InSlurm,
           slurm[a].state \in Ended =>
             j.state = slurm[a].state /\ j.steps = slurm[a].steps /\ j.rootless = slurm[a].rootless,
           slurm[a].accounted => j.accounted,
           j.state \in InSlurm <=> j.queued \/ j.accounted,
           j.rootless => j.state \in Ended /\ j.steps # {}
    PROVE  IInv'
<1>1. TypeOK /\ slurm \in [Attempts -> JobType]
  BY Types DEF IInv
<1>2. a = row.attempt
  BY DEF IInv, AttemptInv
<1>3. /\ slurm' \in [Attempts -> JobType] /\ slurm'[a] = j
      /\ \A b \in Attempts : b # a => slurm'[b] = slurm[b]
  <2> HIDE DEF Attempts
  <2> QED BY <1>1
<1>4. \A b \in Attempts : Exists(b) => Exists(b)'
  BY <1>3 DEF Exists
<1>5. \A b \in Attempts : slurm[b].accounted => slurm'[b].accounted
  BY <1>3
<1>6. \A b \in Attempts : Reported(b) \subseteq Reported(b)'
  BY <1>3 DEF Reported
<1>7. TypeOK'
  <2> HIDE DEF RowType, DeployerType, JobType, TickType, CancelType, Attempts
  <2> QED BY <1>1, <1>3 DEF TypeOK
<1>8. AttemptInv'
  <2>1. row.attempt \in Int
    BY <1>1, Types DEF Attempts
  <2> QED BY <1>2, <1>3, <2>1 DEF IInv, AttemptInv, Attempts
<1>9. CommandInv'
  BY <1>2, <1>4 DEF IInv, CommandInv, Unsent
<1>10. JobInv'
  BY <1>3 DEF IInv, JobInv, Exists
<1>11. KnownInv'
  <2>1. row.jobId # 0 => Exists(row.jobId)'
    BY <1>1, <1>4, Types DEF IInv, KnownInv
  <2>2. Reported(row.attempt) \subseteq Reported(row.attempt)'
    BY <1>1, <1>2, <1>6
  <2>3. row.scheduler \in Ended => row.scheduler \in Reported(row.attempt)'
    BY <2>2 DEF IInv, KnownInv
  <2>4. row.daliuge = "finished" => "succeeded" \in Reported(row.attempt)'
    BY <2>2 DEF IInv, KnownInv
  <2>5. VerifiedIsPublished'
    BY <2>2 DEF IInv, KnownInv, VerifiedIsPublished
  <2> QED BY <2>1, <2>3, <2>4, <2>5 DEF KnownInv
<1>12. SeenInv'
  BY <1>4, <1>6 DEF IInv, SeenInv
<1>13. TickInv'
  BY <1>4, <1>5 DEF IInv, TickInv
<1>14. CancelInv'
  BY <1>4, <1>6 DEF IInv, CancelInv
<1> QED BY <1>7, <1>8, <1>9, <1>10, <1>11, <1>12, <1>13, <1>14 DEF IInv

LEMMA ClusterStep ==
    ASSUME IInv, NEW a \in Attempts, Cluster(a)
    PROVE  IInv'
<1>1. /\ TypeOK /\ slurm \in [Attempts -> JobType] /\ slurm[a] \in JobType
      /\ slurm[a].state \in Command
      /\ slurm[a].queued \in BOOLEAN /\ slurm[a].accounted \in BOOLEAN
      /\ slurm[a].steps \in SUBSET Ended /\ slurm[a].rootless \in BOOLEAN
      /\ slurm[a].rootless => slurm[a].state \in Ended /\ slurm[a].steps # {}
  BY Types DEF IInv, JobInv
<1>2. UNCHANGED <<row, deployer, lease, tick, cancel, cancels>>
  BY DEF Cluster, clients
<1>3. Exists(a) <=> slurm[a].queued \/ slurm[a].accounted
  BY DEF IInv, JobInv
<1>4. CASE Publish(a)
  <2>1. /\ UNCHANGED slurm /\ inventory[a] = "absent"
        /\ \E i \in {"valid", "invalid"} : inventory' = [inventory EXCEPT ![a] = i]
    BY <1>4 DEF Publish
  <2>2. /\ inventory' \in [Attempts -> {"absent", "valid", "invalid"}]
        /\ \A b \in Attempts : inventory[b] # "absent" => inventory'[b] = inventory[b]
    <3> HIDE DEF Attempts
    <3> QED BY <1>1, <2>1, Types
  <2>3. TypeOK'
    <3> HIDE DEF RowType, DeployerType, JobType, TickType, CancelType, Attempts
    <3> QED BY <1>1, <1>2, <2>1, <2>2 DEF TypeOK
  <2>4. VerifiedIsPublished'
    BY <1>1, <1>2, <2>1, <2>2, Types DEF IInv, KnownInv, VerifiedIsPublished, Reported
  <2>5. AttemptInv' /\ CommandInv' /\ JobInv'
    BY <1>2, <2>1 DEF IInv, AttemptInv, CommandInv, JobInv, Exists
  <2>6. KnownInv'
    BY <1>2, <2>1, <2>4 DEF IInv, KnownInv, Exists, Reported
  <2>7. SeenInv' /\ TickInv' /\ CancelInv'
    BY <1>2, <2>1 DEF IInv, SeenInv, TickInv, CancelInv, Exists, Reported
  <2> QED BY <2>3, <2>4, <2>5, <2>6, <2>7 DEF IInv
<1>5. CASE ~ Publish(a)
  <2>1. PICK j \in JobType :
          /\ slurm' = [slurm EXCEPT ![a] = j]
          /\ slurm[a].state \notin Unsent
          /\ Exists(a) => j.state \in InSlurm
          /\ slurm[a].state \in Ended =>
               j.state = slurm[a].state /\ j.steps = slurm[a].steps
               /\ j.rootless = slurm[a].rootless
          /\ slurm[a].accounted => j.accounted
          /\ j.state \in InSlurm <=> j.queued \/ j.accounted
          /\ j.rootless => j.state \in Ended /\ j.steps # {}
    <3>1. CASE Accept(a) /\ slurm' = [slurm EXCEPT ![a].state = "refused"]
      <4> DEFINE j == [slurm[a] EXCEPT !.state = "refused"]
      <4>1. slurm[a].state = "sent"
        BY <3>1 DEF Accept
      <4>2. ~ slurm[a].queued /\ ~ slurm[a].accounted /\ ~ slurm[a].rootless
        BY <1>1, <1>3, <4>1 DEF Exists, InSlurm, Ended
      <4>3. /\ j \in JobType /\ j.state = "refused" /\ ~ j.queued /\ ~ j.accounted
            /\ ~ j.rootless
        BY <1>1, <4>2 DEF JobType, Command
      <4> HIDE DEF j
      <4>4. slurm' = [slurm EXCEPT ![a] = j]
        BY <1>1, <3>1 DEF j
      <4> QED BY <4>1, <4>2, <4>3, <4>4 DEF Unsent, Exists, InSlurm, Ended
    <3>2. CASE Accept(a) /\ slurm' # [slurm EXCEPT ![a].state = "refused"]
      <4> DEFINE j == [slurm[a] EXCEPT !.state = "pending", !.queued = TRUE]
      <4>1. /\ slurm[a].state = "sent"
            /\ slurm' = [slurm EXCEPT ![a].state = "pending", ![a].queued = TRUE]
        BY <3>2 DEF Accept, Become
      <4>2. ~ slurm[a].accounted /\ ~ slurm[a].rootless
        BY <1>1, <1>3, <4>1 DEF Exists, InSlurm, Ended
      <4>3. j \in JobType /\ j.state = "pending" /\ j.queued /\ ~ j.rootless
        BY <1>1, <4>2 DEF JobType, Command, InSlurm
      <4> HIDE DEF j
      <4>4. slurm' = [slurm EXCEPT ![a] = j]
        BY <1>1, <4>1 DEF j
      <4> QED BY <4>1, <4>2, <4>3, <4>4 DEF Unsent, Exists, InSlurm, Ended
    <3>3. CASE Proceed(a) /\ slurm[a].state = "pending"
      <4>1. PICK s \in {"running", "cancelled"} : slurm' = [slurm EXCEPT ![a].state = s]
        BY <3>3 DEF Proceed, Become
      <4> DEFINE j == [slurm[a] EXCEPT !.state = s]
      <4>2. /\ j \in JobType /\ j.state = s /\ j.queued = slurm[a].queued
            /\ j.accounted = slurm[a].accounted /\ j.rootless = slurm[a].rootless
        <5>1. s \in Command
          BY DEF Command, InSlurm, Ended
        <5> HIDE DEF Command
        <5> QED BY <1>1, <5>1 DEF JobType
      <4> HIDE DEF j
      <4>3. slurm' = [slurm EXCEPT ![a] = j]
        BY <1>1, <4>1 DEF j
      <4>4. /\ Exists(a) /\ j.state \in InSlurm /\ slurm[a].state \notin Unsent
            /\ slurm[a].state \notin Ended
        BY <3>3, <4>1, <4>2 DEF Exists, InSlurm, Ended, Unsent
      <4> QED BY <1>1, <1>3, <4>2, <4>3, <4>4
    <3>4. CASE Proceed(a) /\ slurm[a].state # "pending"
      <4>1. PICK end \in JobEnds :
              slurm' = [slurm EXCEPT ![a].state = end.state, ![a].steps = end.steps,
                                     ![a].rootless = end.rootless]
        BY <3>4 DEF Proceed
      <4>2. slurm[a].state = "running"
        BY <3>4 DEF Proceed
      <4>3. /\ end.state \in Ended /\ end.steps \in SUBSET Ended /\ end.rootless \in BOOLEAN
            /\ end.rootless => end.steps # {}
        BY JobEndsAssumption DEF JobEnd
      <4> DEFINE j == [slurm[a] EXCEPT !.state = end.state, !.steps = end.steps,
                                       !.rootless = end.rootless]
      <4>4. /\ j \in JobType /\ j.state = end.state /\ j.steps = end.steps
            /\ j.rootless = end.rootless /\ j.queued = slurm[a].queued
            /\ j.accounted = slurm[a].accounted
        <5>1. end.state \in Command
          BY <4>3 DEF Command, InSlurm
        <5> HIDE DEF Command
        <5> QED BY <1>1, <4>3, <5>1 DEF JobType
      <4> HIDE DEF j
      <4>5. slurm' = [slurm EXCEPT ![a] = j]
        BY <1>1, <4>1 DEF j
      <4>6. /\ Exists(a) /\ j.state \in InSlurm /\ slurm[a].state \notin Unsent
            /\ slurm[a].state \notin Ended
        BY <4>2, <4>3, <4>4 DEF Exists, InSlurm, Ended, Unsent
      <4> QED BY <1>3, <4>3, <4>4, <4>5, <4>6
    <3>5. CASE Account(a)
      <4>1. slurm' = [slurm EXCEPT ![a].accounted = TRUE] /\ slurm[a].queued
        BY <3>5 DEF Account
      <4> DEFINE j == [slurm[a] EXCEPT !.accounted = TRUE]
      <4>2. /\ j \in JobType /\ j.state = slurm[a].state /\ j.queued = slurm[a].queued
            /\ j.accounted /\ j.steps = slurm[a].steps /\ j.rootless = slurm[a].rootless
        <5> HIDE DEF Command
        <5> QED BY <1>1 DEF JobType
      <4> HIDE DEF j
      <4>3. slurm' = [slurm EXCEPT ![a] = j]
        BY <1>1, <4>1 DEF j
      <4>4. slurm[a].state \in InSlurm /\ slurm[a].state \notin Unsent
        BY <1>3, <4>1 DEF Exists, InSlurm, Ended, Unsent
      <4> QED BY <1>1, <4>2, <4>3, <4>4
    <3>6. CASE LeaveQueue(a)
      <4>1. slurm' = [slurm EXCEPT ![a].queued = FALSE] /\ slurm[a].queued /\ slurm[a].accounted
        BY <3>6 DEF LeaveQueue
      <4> DEFINE j == [slurm[a] EXCEPT !.queued = FALSE]
      <4>2. /\ j \in JobType /\ j.state = slurm[a].state
            /\ j.accounted = slurm[a].accounted
            /\ j.steps = slurm[a].steps /\ j.rootless = slurm[a].rootless
        <5> HIDE DEF Command
        <5> QED BY <1>1 DEF JobType
      <4> HIDE DEF j
      <4>3. slurm' = [slurm EXCEPT ![a] = j]
        BY <1>1, <4>1 DEF j
      <4>4. slurm[a].state \in InSlurm /\ slurm[a].state \notin Unsent
        BY <1>3, <4>1 DEF Exists, InSlurm, Ended, Unsent
      <4> QED BY <1>1, <4>1, <4>2, <4>3, <4>4
    <3> QED BY <1>5, <3>1, <3>2, <3>3, <3>4, <3>5, <3>6 DEF Cluster
  <2>2. UNCHANGED inventory
    BY <1>5 DEF Cluster, Accept, Proceed, Account, LeaveQueue
  <2> QED BY <1>2, <2>1, <2>2, JobStep
<1> QED BY <1>4, <1>5

----------------------------------------------------------------------------
\* What the scheduler says.

\* An answer is of a job that exists, an end it gives is one that accounting
\* reports, and silence is of a job that the source does not have.
LEMMA SaysSo ==
    ASSUME IInv, NEW a \in Attempts, NEW source \in {"queue", "accounting"},
           NEW named \in BOOLEAN, NEW answer \in Says(source, a, named)
    PROVE  /\ answer \in Answers
           /\ answer # "none" => Exists(a)
           /\ answer \in Ended => answer \in Reported(a)
           /\ answer = "none" /\ source = "queue" => ~ slurm[a].queued
           /\ answer = "none" /\ source = "accounting" => ~ slurm[a].accounted
<1>1. /\ slurm[a].state \in Command
      /\ slurm[a].queued \/ slurm[a].accounted => Exists(a)
  BY Types DEF IInv, JobInv
<1>2. Exists(a) => slurm[a].state \in Answers /\ slurm[a].state # "none"
  BY DEF Exists, Answers, InSlurm, Ended
<1>3. slurm[a].state \in Ended => slurm[a].state \in Reported(a)
  BY ReportedEnds DEF IInv
<1>4. CASE source = "queue"
  <2>1. answer \in QueueSays(a)
    BY <1>4 DEF Says
  <2>2. CASE ~ slurm[a].queued
    BY <1>4, <2>1, <2>2 DEF QueueSays, Answers, Ended
  <2>3. CASE slurm[a].queued
    <3>1. answer \in {slurm[a].state, "unknown", "running"}
      BY <2>1, <2>3 DEF QueueSays
    <3> QED BY <1>1, <1>2, <1>3, <1>4, <2>3, <3>1 DEF Answers, InSlurm, Ended
  <2> QED BY <2>2, <2>3
<1>5. CASE source = "accounting"
  <2>1. answer \in AccountingSays(a, named)
    BY <1>5 DEF Says
  <2>2. CASE ~ slurm[a].accounted
    BY <1>5, <2>1, <2>2 DEF AccountingSays, Answers, Ended
  <2>3. CASE slurm[a].accounted /\ named
    <3>1. answer \in {slurm[a].state, "unknown"}
      BY <2>1, <2>3 DEF AccountingSays
    <3> QED BY <1>1, <1>2, <1>3, <1>5, <2>3, <3>1 DEF Answers, InSlurm, Ended
  <2>4. CASE slurm[a].accounted /\ ~ named
    <3>1. PICK root \in RootRows(a), steps \in StepRows(a) : answer = SacctRow(root, steps)
      BY <2>1, <2>4 DEF AccountingSays
    <3>2. CASE root # "none"
      <4>1. answer = slurm[a].state
        BY <3>1, <3>2 DEF RootRows, SacctRow
      <4> QED BY <1>1, <1>2, <1>3, <1>5, <2>4, <4>1
\* The root row is omitted: the job has ended, and its steps with it.
    <3>3. CASE root = "none"
      <4>1. slurm[a].rootless
        BY <1>1, <1>2, <2>4, <3>3 DEF RootRows
      <4>2. /\ slurm[a].state \in Ended /\ slurm[a].steps # {}
            /\ slurm[a].steps \in SUBSET Ended
        BY <4>1, Types DEF IInv, JobInv
      <4>3. steps = slurm[a].steps
        BY <4>2 DEF StepRows, Ended
      <4>4. answer = Highest(slurm[a].steps)
        BY <3>1, <3>3, <4>3 DEF SacctRow
      <4>5. answer \in Ended
        BY <4>2, <4>4, WorstIsOne
      <4>6. answer \in Reported(a)
        BY <4>1, <4>2, <4>4 DEF Reported
      <4> QED BY <1>1, <1>5, <2>4, <4>5, <4>6 DEF Answers, InSlurm, Ended
    <3> QED BY <3>2, <3>3
  <2> QED BY <2>2, <2>3, <2>4
<1> QED BY <1>4, <1>5

\* The states after one source has been asked
LEMMA Queried ==
    ASSUME IInv, NEW source \in {"queue", "accounting"}, NEW seen \in Answered(source)
    PROVE  /\ seen \in [Attempts -> Answers]
           /\ \A a \in Attempts :
                /\ seen[a] # "none" => Exists(a)
                /\ seen[a] \in Ended => seen[a] \in Reported(a)
                /\ Asked(a) /\ tick.seen[a] # "none" => seen[a] # "none"
                /\ Asked(a) /\ source = "queue" => seen[a] # "none" \/ ~ slurm[a].queued
                /\ Asked(a) /\ source = "accounting" => seen[a] # "none" \/ ~ slurm[a].accounted
<1>1. seen \in [Attempts -> Answers]
  BY DEF Answered
<1>2. ASSUME NEW a \in Attempts
      PROVE  /\ seen[a] # "none" => Exists(a)
             /\ seen[a] \in Ended => seen[a] \in Reported(a)
             /\ Asked(a) /\ tick.seen[a] # "none" => seen[a] # "none"
             /\ Asked(a) /\ source = "queue" => seen[a] # "none" \/ ~ slurm[a].queued
             /\ Asked(a) /\ source = "accounting" => seen[a] # "none" \/ ~ slurm[a].accounted
  <2>1. CASE ~ Asked(a)
    <3>1. seen[a] = "none"
      BY <2>1 DEF Answered
    <3> QED BY <2>1, <3>1 DEF Ended
  <2>2. CASE Asked(a)
    <3>1. PICK answer \in Says(source, a, tick.named) : seen[a] = Merged(tick.seen[a], answer)
      BY <2>2 DEF Answered
    <3>2. CASE tick.seen[a] # "none"
      <4>1. seen[a] = tick.seen[a]
        BY <3>1, <3>2 DEF Merged
      <4> QED BY <3>2, <4>1 DEF IInv, SeenInv
    <3>3. CASE tick.seen[a] = "none"
      <4>1. seen[a] = answer
        BY <3>1, <3>3 DEF Merged
      <4>2. tick.named \in BOOLEAN
        BY Types DEF IInv
      <4> QED BY <3>3, <4>1, <4>2, SaysSo
    <3> QED BY <3>2, <3>3
  <2> QED BY <2>1, <2>2
<1> QED BY <1>1, <1>2

----------------------------------------------------------------------------
\* The poll tick.

LEMMA TickKept ==
    ASSUME IInv, UNCHANGED <<row, deployer, lease, slurm, inventory, cancel, cancels>>,
           tick' \in TickType, SeenInv', TickInv'
    PROVE  IInv'
<1>1. TypeOK'
  <2> HIDE DEF RowType, DeployerType, JobType, TickType, CancelType, Attempts
  <2> QED BY DEF IInv, TypeOK
<1>2. AttemptInv' /\ CommandInv' /\ JobInv' /\ CancelInv'
  BY DEF IInv, AttemptInv, CommandInv, JobInv, CancelInv, Exists, Reported
<1>3. KnownInv'
  BY DEF IInv, KnownInv, VerifiedIsPublished, Exists, Reported
<1> QED BY <1>1, <1>2, <1>3 DEF IInv

LEMMA NoTickKept ==
    ASSUME tick' = NoTick
    PROVE  tick' \in TickType /\ SeenInv' /\ TickInv'
BY Idle DEF SeenInv, TickInv, Ended

\* StartLookup, StartPoll and StartRetrieval
LEMMA StartStep ==
    ASSUME IInv, StartLookup \/ StartPoll \/ StartRetrieval
    PROVE  IInv'
<1>1. TypeOK /\ row.attempt \in Attempts /\ row.jobId \in {0} \cup Attempts
  BY Types DEF IInv
<1>2. UNCHANGED <<row, deployer, lease, slurm, inventory, cancel, cancels>>
  BY DEF StartLookup, StartPoll, StartRetrieval, outside, cluster
<1>3. PICK pc \in TickAt, named \in BOOLEAN, of \in Attempts, existed \in BOOLEAN :
        /\ tick' = [NoTick EXCEPT !.pc = pc, !.named = named, !.of = of, !.existed = existed]
        /\ pc \in {"first", "inspect"}
        /\ existed => \E a \in Attempts : Exists(a)
        /\ pc = "first" /\ ~ named => Exists(of)
        /\ pc = "inspect" => row.jobId # 0
  <2>1. CASE StartLookup
    <3> DEFINE existed == \E a \in Attempts : Exists(a)
    <3>1. tick' = [NoTick EXCEPT !.pc = "first", !.named = TRUE, !.of = row.attempt,
                                 !.existed = existed]
      BY <2>1 DEF StartLookup
    <3>2. existed \in BOOLEAN /\ "first" \in TickAt /\ TRUE \in BOOLEAN
      BY DEF TickAt
    <3>3. existed => \E a \in Attempts : Exists(a)
      OBVIOUS
    <3> HIDE DEF existed
    <3> QED BY <1>1, <3>1, <3>2, <3>3
  <2>2. CASE StartPoll
    <3> DEFINE existed == Exists(row.jobId)
               of == row.jobId
    <3>1. row.jobId # 0
      BY <2>2 DEF StartPoll, PollListed
    <3>2. of \in Attempts /\ Exists(of)
      BY <1>1, <3>1 DEF IInv, KnownInv
    <3>3. tick' = [NoTick EXCEPT !.pc = "first", !.named = FALSE, !.of = of,
                                 !.existed = existed]
      <4>1. tick' = [NoTick EXCEPT !.pc = "first", !.of = of, !.existed = existed]
        BY <2>2 DEF StartPoll
      <4>2. NoTick.named = FALSE
        BY DEF NoTick
      <4>3. NoTick \in TickType
        BY Idle
      <4> HIDE DEF existed, of, NoTick
      <4> QED BY <4>1, <4>2, <4>3 DEF TickType
    <3>4. existed \in BOOLEAN /\ "first" \in TickAt /\ FALSE \in BOOLEAN
      BY DEF TickAt, Exists
    <3>5. existed => \E a \in Attempts : Exists(a)
      BY <3>2
    <3> HIDE DEF existed, of
    <3> QED BY <3>2, <3>3, <3>4, <3>5
  <2>3. CASE StartRetrieval
    <3>1. tick' = [NoTick EXCEPT !.pc = "inspect", !.named = FALSE, !.of = row.attempt,
                                 !.existed = FALSE]
      <4>1. tick' = [NoTick EXCEPT !.pc = "inspect", !.of = row.attempt]
        BY <2>3 DEF StartRetrieval
      <4>2. NoTick.named = FALSE /\ NoTick.existed = FALSE
        BY DEF NoTick
      <4>3. NoTick \in TickType
        BY Idle
      <4> HIDE DEF NoTick
      <4> QED BY <4>1, <4>2, <4>3 DEF TickType
    <3>2. row.jobId # 0 /\ "inspect" \in TickAt /\ FALSE \in BOOLEAN
      BY <2>3 DEF StartRetrieval, RetrievalListed, TickAt
    <3> QED BY <1>1, <3>1, <3>2
  <2> QED BY <2>1, <2>2, <2>3
<1>4. /\ tick' \in TickType /\ tick'.pc = pc /\ tick'.named = named /\ tick'.of = of
      /\ tick'.existed = existed /\ tick'.seen = Nothing
  <2>1. NoTick \in TickType /\ NoTick.seen = Nothing
    BY Idle
  <2> HIDE DEF NoTick, Attempts, Answers, TickAt
  <2> QED BY <1>3, <2>1 DEF TickType
<1>5. SeenInv'
  BY <1>4, Idle DEF SeenInv, Ended
<1>6. TickInv'
  BY <1>2, <1>3, <1>4 DEF TickInv, Exists
<1> QED BY <1>2, <1>4, <1>5, <1>6, TickKept

\* QueryFirst and QuerySecond
LEMMA QueryStep ==
    ASSUME IInv, QueryFirst \/ QuerySecond
    PROVE  IInv'
<1>1. TypeOK /\ tick \in TickType /\ tick.of \in {0} \cup Attempts
  BY Types DEF IInv
<1>2. UNCHANGED <<row, deployer, lease, slurm, inventory, cancel, cancels>>
  BY DEF QueryFirst, QuerySecond, outside, cluster
<1>3. CASE QueryFirst
  <2>1. PICK seen \in Answered("queue") : tick' = [tick EXCEPT !.pc = "second", !.seen = seen]
    BY <1>3 DEF QueryFirst, Sources
  <2>2. tick.pc = "first"
    BY <1>3 DEF QueryFirst
  <2>3. /\ seen \in [Attempts -> Answers]
        /\ \A a \in Attempts :
             /\ seen[a] # "none" => Exists(a)
             /\ seen[a] \in Ended => seen[a] \in Reported(a)
             /\ Asked(a) => seen[a] # "none" \/ ~ slurm[a].queued
    BY Queried
  <2>4. /\ tick' \in TickType /\ tick'.pc = "second" /\ tick'.seen = seen
        /\ tick'.named = tick.named /\ tick'.of = tick.of /\ tick'.existed = tick.existed
    <3>1. "second" \in TickAt
      BY DEF TickAt
    <3> HIDE DEF Attempts, Answers, TickAt
    <3> QED BY <1>1, <2>1, <2>3, <3>1 DEF TickType
  <2>5. SeenInv'
    BY <1>2, <2>3, <2>4 DEF SeenInv, Exists, Reported
  <2>6. \A a \in Attempts : Asked(a) /\ Exists(a) => seen[a] # "none" \/ slurm[a].accounted
    BY <2>3 DEF IInv, JobInv
  <2>7. TickInv'
    <3>1. tick.named /\ tick.existed => \E a \in Attempts : seen[a] # "none" \/ slurm[a].accounted
      BY <2>2, <2>6 DEF IInv, TickInv, Asked
    <3>2. ~ tick.named =>
            /\ tick.of \in Attempts
            /\ seen[tick.of] # "none" \/ slurm[tick.of].accounted
      BY <2>2, <2>6 DEF IInv, TickInv, Asked
    <3> QED BY <1>2, <2>4, <3>1, <3>2 DEF TickInv
  <2> QED BY <1>2, <2>4, <2>5, <2>7, TickKept
<1>4. CASE QuerySecond
  <2> DEFINE pc == IF tick.named THEN "record" ELSE "apply"
  <2>1. PICK seen \in Answered("accounting") : tick' = [tick EXCEPT !.pc = pc, !.seen = seen]
    BY <1>4 DEF QuerySecond, Sources
  <2>2. tick.pc = "second"
    BY <1>4 DEF QuerySecond
  <2>3. /\ seen \in [Attempts -> Answers]
        /\ \A a \in Attempts :
             /\ seen[a] # "none" => Exists(a)
             /\ seen[a] \in Ended => seen[a] \in Reported(a)
             /\ Asked(a) /\ tick.seen[a] # "none" => seen[a] # "none"
             /\ Asked(a) => seen[a] # "none" \/ ~ slurm[a].accounted
    BY Queried
  <2>4. /\ tick' \in TickType /\ tick'.pc = pc /\ tick'.seen = seen
        /\ tick'.named = tick.named /\ tick'.of = tick.of /\ tick'.existed = tick.existed
    <3>1. pc \in TickAt
      BY DEF TickAt
    <3> HIDE DEF Attempts, Answers, TickAt, pc
    <3> QED BY <1>1, <2>1, <2>3, <3>1 DEF TickType
  <2>5. SeenInv'
    BY <1>2, <2>3, <2>4 DEF SeenInv, Exists, Reported
  <2>6. TickInv'
    <3>1. tick.named /\ tick.existed => \E a \in Attempts : seen[a] # "none"
      BY <2>2, <2>3 DEF IInv, TickInv, Asked
    <3>2. ~ tick.named => tick.of \in Attempts /\ seen[tick.of] # "none"
      BY <2>2, <2>3 DEF IInv, TickInv, Asked
    <3> QED BY <1>2, <2>4, <3>1, <3>2 DEF TickInv
  <2> QED BY <1>2, <2>4, <2>5, <2>6, TickKept
<1> QED BY <1>3, <1>4

\* The steps of the tick that leave the row alone: QueryFails, Retrieved, and an
\* inventory that is not accepted
LEMMA MoveOnStep ==
    ASSUME IInv,
           \/ QueryFails
           \/ Retrieved
           \/ /\ tick.pc = "commit"
              /\ tick' = [tick EXCEPT !.pc = "reject"]
              /\ UNCHANGED <<row, outside>>
    PROVE  IInv'
<1>1. TypeOK /\ tick \in TickType
  BY Types DEF IInv
<1>2. UNCHANGED <<row, deployer, lease, slurm, inventory, cancel, cancels>>
  BY DEF QueryFails, Retrieved, outside, cluster
<1>3. CASE tick' = NoTick
  BY <1>2, <1>3, NoTickKept, TickKept
<1>4. CASE tick' # NoTick
  <2>1. PICK pc \in {"commit", "reject"} :
          tick.pc \in {"inspect", "commit"} /\ tick' = [tick EXCEPT !.pc = pc]
    BY <1>4 DEF QueryFails, Retrieved
  <2>2. /\ tick' \in TickType /\ tick'.pc = pc /\ tick'.seen = tick.seen
    <3>1. pc \in TickAt
      BY DEF TickAt
    <3> HIDE DEF Attempts, Answers, TickAt
    <3> QED BY <1>1, <2>1, <3>1 DEF TickType
  <2>3. SeenInv'
    BY <1>2, <2>2 DEF IInv, SeenInv, Exists, Reported
  <2>4. TickInv'
    BY <1>2, <2>1, <2>2 DEF IInv, TickInv
  <2> QED BY <1>2, <2>2, <2>3, <2>4, TickKept
<1> QED BY <1>3, <1>4

\* A step of the tick that writes the row
LEMMA TickWrites ==
    ASSUME IInv, UNCHANGED <<deployer, lease, slurm, inventory, cancel, cancels>>,
           tick' \in TickType, SeenInv', TickInv',
           row' \in RowType, row'.attempt = row.attempt,
           row'.submission \in {row.submission, "uncertain"},
           row'.submission = "failed" => row'.status = "failed",
           row'.jobId = row.jobId \/ (row'.jobId # 0 => Exists(row'.jobId)),
           row'.scheduler \in Ended => row'.scheduler \in Reported(row.attempt),
           row'.daliuge = "finished" => "succeeded" \in Reported(row.attempt),
           row'.outputs = "verified" =>
             /\ row'.jobId = row.attempt
             /\ "succeeded" \in Reported(row.attempt)
             /\ inventory[row.attempt] = "valid"
    PROVE  IInv'
<1>1. TypeOK'
  <2> HIDE DEF RowType, DeployerType, JobType, TickType, CancelType, Attempts
  <2> QED BY DEF IInv, TypeOK
<1>2. row'.submission = "failed" => row'.status = "failed" /\ slurm[row.attempt].state \in Unsent
  BY DEF IInv, CommandInv
<1>3. row'.submission \in {"not_started", "preparing"} => row'.submission = row.submission
  OBVIOUS
<1>4. AttemptInv' /\ CommandInv' /\ JobInv' /\ KnownInv'
  BY <1>2, <1>3, RowKept
<1>5. CancelInv'
  BY ClusterKept DEF IInv
<1> QED BY <1>1, <1>4, <1>5 DEF IInv

\* record_slurm_name_lookup
LEMMA LookupStep ==
    ASSUME IInv, RecordLookup
    PROVE  IInv'
<1>1. /\ TypeOK /\ row \in RowType /\ row.attempt \in Attempts /\ tick \in TickType
      /\ tick.seen \in [Attempts -> Answers]
  BY Types DEF IInv
<1>2. tick.pc = "record" /\ UNCHANGED <<deployer, lease, slurm, inventory, cancel, cancels>>
  BY DEF RecordLookup, outside, cluster
<1>3. CASE UNCHANGED row /\ tick' = NoTick
  BY <1>2, <1>3, NoTickKept, TickKept
\* The outside is not known.
<1>4. CASE row' = [row EXCEPT !.scheduler = "unknown"] /\ tick' = NoTick
  <2>1. /\ row' \in RowType /\ row'.attempt = row.attempt /\ row'.submission = row.submission
        /\ row'.status = row.status /\ row'.jobId = row.jobId /\ row'.scheduler = "unknown"
        /\ row'.daliuge = row.daliuge /\ row'.outputs = row.outputs
    <3>1. "unknown" \in SchedulerState
      BY DEF SchedulerState
    <3> HIDE DEF Status, Phase, SubmissionState, SchedulerState, DaliugeState, OutputState,
                 Outcome, Attempts
    <3> QED BY <1>1, <1>4, <3>1 DEF RowType
  <2>2. row'.submission = "failed" => row'.status = "failed"
    BY <2>1 DEF IInv, CommandInv
  <2>3. row'.daliuge = "finished" => "succeeded" \in Reported(row.attempt)
    BY <2>1 DEF IInv, KnownInv
  <2>4. row'.outputs = "verified" =>
          /\ row'.jobId = row.attempt
          /\ "succeeded" \in Reported(row.attempt)
          /\ inventory[row.attempt] = "valid"
    BY <2>1 DEF IInv, KnownInv, VerifiedIsPublished
  <2>5. row'.scheduler \notin Ended
    BY <2>1 DEF Ended
  <2> QED BY <1>2, <1>4, <2>1, <2>2, <2>3, <2>4, <2>5, NoTickKept, TickWrites
\* The lookup names one job.
<1>5. CASE \E a \in Matches : Matches = {a} /\ tick' = [tick EXCEPT !.pc = "apply", !.of = a]
                              /\ row' = IF MayRecord
                                          THEN [row EXCEPT !.submission = "uncertain", !.jobId = a,
                                                           !.scheduler = tick.seen[a]]
                                          ELSE row
  <2>1. PICK a \in Matches :
          /\ tick' = [tick EXCEPT !.pc = "apply", !.of = a]
          /\ row' = IF MayRecord
                      THEN [row EXCEPT !.submission = "uncertain", !.jobId = a,
                                       !.scheduler = tick.seen[a]]
                      ELSE row
    BY <1>5
  <2>2. a \in Attempts /\ tick.seen[a] # "none" /\ Exists(a) /\ a # 0
    BY DEF IInv, SeenInv, Matches, Attempts
  <2>3. a = row.attempt
    BY <2>2, OneJob
  <2>4. tick' \in TickType /\ tick'.pc = "apply" /\ tick'.of = a /\ tick'.seen = tick.seen
    <3>1. "apply" \in TickAt
      BY DEF TickAt
    <3> HIDE DEF Attempts, Answers, TickAt
    <3> QED BY <1>1, <2>1, <2>2, <3>1 DEF TickType
  <2>5. SeenInv' /\ TickInv'
    BY <1>2, <2>2, <2>4 DEF IInv, SeenInv, TickInv, Exists, Reported
  <2>6. CASE ~ MayRecord
    BY <1>2, <2>1, <2>4, <2>5, <2>6, TickKept
  <2>7. CASE MayRecord
    <3> DEFINE seen == tick.seen[a]
    <3>1. seen \in SchedulerState /\ (seen \in Ended => seen \in Reported(row.attempt))
      <4>1. seen \in Answers
        BY <1>1, <2>2
      <4>2. seen \in SchedulerState
        BY <2>2, <4>1 DEF Answers, InSlurm, Ended, SchedulerState
      <4>3. seen \in Ended => seen \in Reported(row.attempt)
        BY <2>2, <2>3 DEF IInv, SeenInv
      <4> QED BY <4>2, <4>3
    <3> HIDE DEF seen
    <3>2. /\ row' \in RowType /\ row'.attempt = row.attempt /\ row'.submission = "uncertain"
          /\ row'.jobId = a /\ row'.scheduler = seen
          /\ row'.daliuge = row.daliuge /\ row'.outputs = row.outputs
      <4>1. row' = [row EXCEPT !.submission = "uncertain", !.jobId = a, !.scheduler = seen]
        BY <2>1, <2>7 DEF seen
      <4>2. "uncertain" \in SubmissionState
        BY DEF SubmissionState
      <4> HIDE DEF Status, Phase, SubmissionState, SchedulerState, DaliugeState, OutputState,
                   Outcome, Attempts
      <4> QED BY <1>1, <2>2, <3>1, <4>1, <4>2 DEF RowType
    <3>3. row'.daliuge = "finished" => "succeeded" \in Reported(row.attempt)
      BY <3>2 DEF IInv, KnownInv
    <3>4. row'.outputs = "verified" =>
            /\ row'.jobId = row.attempt
            /\ "succeeded" \in Reported(row.attempt)
            /\ inventory[row.attempt] = "valid"
      BY <2>3, <3>2 DEF IInv, KnownInv, VerifiedIsPublished
    <3> QED BY <1>2, <2>2, <2>4, <2>5, <3>1, <3>2, <3>3, <3>4, TickWrites
  <2> QED BY <2>6, <2>7
<1> QED
  <2>1. CASE tick.of = row.attempt /\ \E a \in Matches : Matches = {a}
    <3> DEFINE a == CHOOSE b \in Matches : TRUE
    <3>1. a \in Matches /\ Matches = {a}
      BY <2>1
    <3>2. /\ tick' = [tick EXCEPT !.pc = "apply", !.of = a]
          /\ row' = IF MayRecord
                      THEN [row EXCEPT !.submission = "uncertain", !.jobId = a,
                                       !.scheduler = tick.seen[a]]
                      ELSE row
      BY <2>1 DEF RecordLookup
    <3> HIDE DEF a
    <3> QED BY <1>5, <3>1, <3>2
  <2>2. CASE ~ (tick.of = row.attempt /\ \E a \in Matches : Matches = {a})
    BY <1>3, <1>4, <2>2 DEF RecordLookup
  <2> QED BY <2>1, <2>2

\* ApplyPoll, NotReady and RejectInventory: an axis is observed
LEMMA ObserveStep ==
    ASSUME IInv, ApplyPoll \/ NotReady \/ RejectInventory
    PROVE  IInv'
<1>1. /\ TypeOK /\ row \in RowType /\ row.attempt \in Attempts
      /\ tick.seen \in [Attempts -> Answers]
  BY Types DEF IInv
<1>2. /\ UNCHANGED <<deployer, lease, slurm, inventory, cancel, cancels>>
      /\ tick' = NoTick
  BY DEF ApplyPoll, NotReady, RejectInventory, outside, cluster
<1>3. PICK a \in RowType :
        /\ row' = Patched(row, a, OutputRequired)
        /\ a.submission = row.submission /\ a.jobId = row.jobId /\ a.attempt = row.attempt
        /\ a.scheduler \in Ended => a.scheduler \in Reported(row.attempt)
        /\ a.daliuge = "finished" => "succeeded" \in Reported(row.attempt)
        /\ a.outputs \in {row.outputs, "pending", "failed"}
  <2>1. CASE ApplyPoll
    <3> DEFINE state == tick.seen[tick.of]
               daliuge == IF state = "succeeded" THEN "finished" ELSE row.daliuge
               a == [row EXCEPT !.scheduler = state, !.daliuge = daliuge]
    <3>1. tick.of \in Attempts /\ state # "none"
      BY <2>1 DEF ApplyPoll, IInv, TickInv
    <3>2. state \in SchedulerState
      BY <1>1, <3>1 DEF Answers, InSlurm, Ended, SchedulerState
    <3>3. tick.of = row.attempt /\ (state \in Ended => state \in Reported(row.attempt))
      <4>1. Exists(tick.of)
        BY <3>1 DEF IInv, SeenInv
      <4>2. tick.of = row.attempt
        BY <3>1, <4>1, OneJob
      <4> QED BY <3>1, <4>2 DEF IInv, SeenInv
    <3>4. row' = Patched(row, a, OutputRequired)
      BY <2>1, <3>1 DEF ApplyPoll, StatePatch, Observed
    <3>5. daliuge \in DaliugeState /\ (daliuge = "finished" => "succeeded" \in Reported(row.attempt))
      <4>1. row.daliuge \in DaliugeState
        BY <1>1, Types
      <4> QED BY <3>3, <4>1 DEF IInv, KnownInv, DaliugeState, Ended
    <3> HIDE DEF state, daliuge
    <3>6. /\ a \in RowType /\ a.submission = row.submission /\ a.jobId = row.jobId
          /\ a.attempt = row.attempt /\ a.scheduler = state /\ a.daliuge = daliuge
          /\ a.outputs = row.outputs
      <4> HIDE DEF Status, Phase, SubmissionState, SchedulerState, DaliugeState, OutputState,
                   Outcome, Attempts
      <4> QED BY <1>1, <3>2, <3>5 DEF RowType
    <3> HIDE DEF a
    <3> QED BY <3>3, <3>4, <3>5, <3>6
  <2>2. CASE NotReady \/ RejectInventory
    <3>1. PICK outputs \in {"pending", "failed"} :
            row' = Patched(row, [row EXCEPT !.outputs = outputs], OutputRequired)
      BY <2>2 DEF NotReady, RejectInventory, StatePatch
    <3> DEFINE a == [row EXCEPT !.outputs = outputs]
    <3>2. /\ a \in RowType /\ a.submission = row.submission /\ a.jobId = row.jobId
          /\ a.attempt = row.attempt /\ a.scheduler = row.scheduler /\ a.daliuge = row.daliuge
          /\ a.outputs = outputs
      <4>1. outputs \in OutputState
        BY DEF OutputState
      <4> HIDE DEF Status, Phase, SubmissionState, SchedulerState, DaliugeState, OutputState,
                   Outcome, Attempts
      <4> QED BY <1>1, <4>1 DEF RowType
    <3>3. row' = Patched(row, a, OutputRequired)
      BY <3>1
    <3> HIDE DEF a
    <3> QED BY <3>2, <3>3 DEF IInv, KnownInv
  <2> QED BY <2>1, <2>2
<1>4. /\ row' \in RowType
      /\ row.status \in Terminal => row' = row
      /\ row.status \notin Terminal =>
           /\ row'.submission = a.submission /\ row'.scheduler = a.scheduler
           /\ row'.daliuge = a.daliuge /\ row'.outputs = a.outputs
           /\ row'.jobId = a.jobId /\ row'.attempt = a.attempt
           /\ row'.submission = "failed" => row'.status = "failed"
  BY <1>1, <1>3, PatchedRow
<1>5. /\ row'.attempt = row.attempt /\ row'.submission = row.submission /\ row'.jobId = row.jobId
      /\ row'.submission = "failed" => row'.status = "failed"
  BY <1>3, <1>4 DEF IInv, CommandInv
<1>6. /\ row'.scheduler \in Ended => row'.scheduler \in Reported(row.attempt)
      /\ row'.daliuge = "finished" => "succeeded" \in Reported(row.attempt)
  BY <1>3, <1>4 DEF IInv, KnownInv
<1>7. row'.outputs = "verified" =>
        /\ row'.jobId = row.attempt
        /\ "succeeded" \in Reported(row.attempt)
        /\ inventory[row.attempt] = "valid"
  BY <1>3, <1>4 DEF IInv, KnownInv, VerifiedIsPublished
<1> QED BY <1>2, <1>4, <1>5, <1>6, <1>7, NoTickKept, TickWrites

\* verify_execution_outputs
LEMMA VerifyStep ==
    ASSUME IInv, tick.pc = "commit", AcceptsInventory, tick' = NoTick, UNCHANGED outside,
           row' = [row EXCEPT !.outputs = "verified", !.status = "completed",
                              !.phase = "none", !.outcome = "succeeded"]
    PROVE  IInv'
<1>1. TypeOK /\ row \in RowType /\ row.attempt \in Attempts /\ row.jobId \in {0} \cup Attempts
  BY Types DEF IInv
<1>2. UNCHANGED <<deployer, lease, slurm, inventory, cancel, cancels>>
  BY DEF outside, cluster
<1>3. /\ row' \in RowType /\ row'.attempt = row.attempt /\ row'.submission = row.submission
      /\ row'.jobId = row.jobId /\ row'.scheduler = row.scheduler
      /\ row'.daliuge = row.daliuge
  <2>1. "verified" \in OutputState /\ "completed" \in Status /\ "none" \in Phase
        /\ "succeeded" \in Outcome
    BY DEF OutputState, Status, Phase, Outcome
  <2> HIDE DEF Status, Phase, SubmissionState, SchedulerState, DaliugeState, OutputState,
               Outcome, Attempts
  <2> QED BY <1>1, <2>1 DEF RowType
<1>4. row.submission # "failed"
  BY DEF AcceptsInventory, IInv, CommandInv, Terminal
<1>5. row.jobId = row.attempt
  <2>1. row.jobId # 0
    BY DEF IInv, TickInv
  <2> QED BY <1>1, <2>1, OneJob DEF IInv, KnownInv
<1>6. "succeeded" \in Reported(row.attempt)
  BY DEF AcceptsInventory, ExternalComplete, IInv, KnownInv
<1>7. inventory[row.attempt] = "valid"
  BY DEF AcceptsInventory, Handoff
<1>8. row'.scheduler \in Ended => row'.scheduler \in Reported(row.attempt)
  BY <1>3 DEF IInv, KnownInv
<1> QED BY <1>2, <1>3, <1>4, <1>5, <1>6, <1>7, <1>8, NoTickKept, TickWrites

LEMMA TickStep ==
    ASSUME IInv, Tick
    PROVE  IInv'
<1>1. CASE CommitInventory
  BY <1>1, VerifyStep, MoveOnStep DEF CommitInventory
<1>2. CASE ~ CommitInventory
  BY <1>2, StartStep, QueryStep, LookupStep, ObserveStep, MoveOnStep
     DEF Tick, Querying, Retrieving
<1> QED BY <1>1, <1>2

----------------------------------------------------------------------------
\* The operator.

\* RequestCancel, Signal, CancelQuery, Confirm and GiveUp
LEMMA CancelStep ==
    ASSUME IInv,
           \/ RequestCancel \/ Signal \/ Confirm \/ GiveUp
           \/ CancelQuery("first", "queue", "second")
           \/ CancelQuery("second", "accounting", "answered")
    PROVE  IInv'
<1>1. /\ TypeOK /\ cancel \in CancelType /\ cancel.of \in {0} \cup Attempts
      /\ cancel.seen \in Answers /\ cancel.polls \in 0 .. MaxCancelPolls - 1
      /\ row.jobId \in {0} \cup Attempts
  BY Types DEF IInv
<1>2. UNCHANGED <<row, deployer, lease, slurm, inventory, tick>>
  BY DEF RequestCancel, Signal, CancelQuery, Confirm, GiveUp, cancelling, cluster
<1>3. cancels' \in 0 .. MaxCancels
  <2>1. cancels \in 0 .. MaxCancels /\ MaxCancels \in Nat
    BY <1>1, BoundsAssumption DEF TypeOK
  <2>2. cancels' = cancels \/ (cancels' = cancels + 1 /\ cancels < MaxCancels)
    BY DEF RequestCancel, Signal, CancelQuery, Confirm, GiveUp
  <2> QED BY <2>1, <2>2
<1>4. cancel' \in CancelType /\ CancelInv'
  <2>1. CASE RequestCancel
    <3>1. /\ cancel' = [NoCancel EXCEPT !.pc = "signal", !.of = row.jobId]
          /\ row.jobId # 0
      BY <2>1 DEF RequestCancel
    <3>2. row.jobId \in Attempts /\ Exists(row.jobId)
      BY <1>1, <3>1 DEF IInv, KnownInv
    <3>3. /\ cancel' \in CancelType /\ cancel'.pc = "signal" /\ cancel'.of = row.jobId
          /\ cancel'.seen = "none"
      <4>1. NoCancel \in CancelType /\ "signal" \in CancelAt
        BY Idle DEF CancelAt
      <4>2. NoCancel.seen = "none"
        BY DEF NoCancel
      <4> HIDE DEF NoCancel, Attempts, Answers, CancelAt
      <4> QED BY <1>1, <3>1, <4>1, <4>2 DEF CancelType
    <3> QED BY <1>2, <3>2, <3>3 DEF CancelInv, Exists, Ended
  <2>2. CASE Signal
    <3>1. cancel.pc = "signal" /\ cancel' = [cancel EXCEPT !.pc = "first"]
      BY <2>2 DEF Signal
    <3>2. /\ cancel' \in CancelType /\ cancel'.pc = "first" /\ cancel'.of = cancel.of
          /\ cancel'.seen = cancel.seen
      <4>1. "first" \in CancelAt
        BY DEF CancelAt
      <4> HIDE DEF Attempts, Answers, CancelAt
      <4> QED BY <1>1, <3>1, <4>1 DEF CancelType
    <3> QED BY <1>2, <3>1, <3>2 DEF IInv, CancelInv, Exists, Reported
  <2>3. CASE CancelQuery("first", "queue", "second") \/ CancelQuery("second", "accounting", "answered")
    <3>1. PICK source \in {"queue", "accounting"}, pc \in {"second", "answered"} :
            /\ cancel.pc \in {"first", "second"}
            /\ \E answer \in Says(source, cancel.of, FALSE) :
                 cancel' = [cancel EXCEPT !.pc = pc, !.seen = Merged(cancel.seen, answer)]
      BY <2>3 DEF CancelQuery
    <3>2. PICK answer \in Says(source, cancel.of, FALSE) :
            cancel' = [cancel EXCEPT !.pc = pc, !.seen = Merged(cancel.seen, answer)]
      BY <3>1
    <3>3. cancel.of \in Attempts /\ Exists(cancel.of)
      BY <3>1 DEF IInv, CancelInv
    <3>4. answer \in Answers /\ (answer \in Ended => answer \in Reported(cancel.of))
      BY <3>3, SaysSo
    <3> DEFINE seen == Merged(cancel.seen, answer)
    <3>5. seen \in Answers /\ (seen \in Ended => seen \in Reported(cancel.of))
      BY <1>1, <3>1, <3>4 DEF Merged, IInv, CancelInv
    <3> HIDE DEF seen
    <3>6. /\ cancel' \in CancelType /\ cancel'.pc = pc /\ cancel'.of = cancel.of
          /\ cancel'.seen = seen
      <4>1. pc \in CancelAt /\ cancel' = [cancel EXCEPT !.pc = pc, !.seen = seen]
        BY <3>2 DEF CancelAt, seen
      <4> HIDE DEF Attempts, Answers, CancelAt
      <4> QED BY <1>1, <3>5, <4>1 DEF CancelType
    <3> QED BY <1>2, <3>3, <3>5, <3>6 DEF CancelInv, Exists, Reported
  <2>4. CASE Confirm /\ cancel.seen = "cancelled"
    <3>1. cancel.pc = "answered" /\ cancel' = [cancel EXCEPT !.pc = "confirmed"]
      BY <2>4 DEF Confirm
    <3>2. /\ cancel' \in CancelType /\ cancel'.pc = "confirmed" /\ cancel'.of = cancel.of
          /\ cancel'.seen = cancel.seen
      <4>1. "confirmed" \in CancelAt
        BY DEF CancelAt
      <4> HIDE DEF Attempts, Answers, CancelAt
      <4> QED BY <1>1, <3>1, <4>1 DEF CancelType
    <3> QED BY <1>2, <2>4, <3>1, <3>2 DEF IInv, CancelInv, Exists, Reported
  <2>5. CASE cancel' = NoCancel
    BY <2>5, Idle DEF CancelInv
  <2>6. CASE Confirm /\ cancel.seen # "cancelled" /\ cancel' # NoCancel
    <3>1. /\ cancel.pc = "answered" /\ ~ LastPoll
          /\ cancel' = [cancel EXCEPT !.pc = "first", !.seen = "none", !.polls = cancel.polls + 1]
      BY <2>6 DEF Confirm
    <3>2. cancel.polls + 1 \in 0 .. MaxCancelPolls - 1
      BY <1>1, <3>1, BoundsAssumption DEF LastPoll
    <3>3. /\ cancel' \in CancelType /\ cancel'.pc = "first" /\ cancel'.of = cancel.of
          /\ cancel'.seen = "none"
      <4>1. "first" \in CancelAt /\ "none" \in Answers
        BY DEF CancelAt, Answers
      <4> HIDE DEF Attempts, Answers, CancelAt
      <4> QED BY <1>1, <3>1, <3>2, <4>1 DEF CancelType
    <3> QED BY <1>2, <3>1, <3>3 DEF IInv, CancelInv, Exists, Ended
  <2> QED BY <2>1, <2>2, <2>3, <2>4, <2>5, <2>6 DEF GiveUp
<1>5. TypeOK'
  <2> HIDE DEF RowType, DeployerType, JobType, TickType, CancelType, Attempts
  <2> QED BY <1>1, <1>2, <1>3, <1>4 DEF TypeOK
<1>6. AttemptInv' /\ CommandInv' /\ KnownInv'
  BY <1>2 DEF IInv, AttemptInv, CommandInv, KnownInv, VerifiedIsPublished, Exists, Reported
<1>7. JobInv' /\ SeenInv' /\ TickInv'
  BY <1>2, ClusterKept DEF IInv
<1> QED BY <1>4, <1>5, <1>6, <1>7 DEF IInv

LEMMA CommitCancelStep ==
    ASSUME IInv, CommitCancel
    PROVE  IInv'
<1>1. TypeOK /\ row \in RowType
  BY Types DEF IInv
<1>2. /\ UNCHANGED <<deployer, lease, slurm, inventory, tick, cancels>>
      /\ cancel' = NoCancel /\ cancel.pc = "confirmed"
  BY DEF CommitCancel, cluster
<1>3. /\ row' \in RowType /\ row'.attempt = row.attempt /\ row'.submission = row.submission
      /\ row'.jobId = row.jobId /\ row'.daliuge = row.daliuge /\ row'.outputs = row.outputs
      /\ row'.submission = "failed" => row'.status = "failed"
      /\ row'.scheduler \in Ended => row'.scheduler \in Reported(row.attempt)
  <2>1. CASE CancelAllowed
    <3>1. row' = [row EXCEPT !.status = "cancelled", !.phase = "none",
                             !.outcome = "cancelled", !.scheduler = "cancelled"]
      BY <2>1 DEF CommitCancel
    <3>2. row.submission # "failed"
      BY <2>1 DEF CancelAllowed, IInv, CommandInv
    <3>3. "cancelled" \in Reported(row.attempt)
      <4>1. /\ cancel.of \in Attempts /\ Exists(cancel.of)
            /\ "cancelled" \in Reported(cancel.of)
        BY <1>2 DEF IInv, CancelInv, Ended
      <4> QED BY <4>1, OneJob
    <3>4. /\ "cancelled" \in Status /\ "none" \in Phase /\ "cancelled" \in Outcome
          /\ "cancelled" \in SchedulerState
      BY DEF Status, Phase, Outcome, SchedulerState
    <3> HIDE DEF Status, Phase, SubmissionState, SchedulerState, DaliugeState, OutputState,
                 Outcome, Attempts
    <3> QED BY <1>1, <3>1, <3>2, <3>3, <3>4 DEF RowType
  <2>2. CASE ~ CancelAllowed
    BY <1>1, <2>2 DEF CommitCancel, IInv, CommandInv, KnownInv
  <2> QED BY <2>1, <2>2
<1>4. TypeOK'
  <2> HIDE DEF RowType, DeployerType, JobType, TickType, CancelType, Attempts
  <2> QED BY <1>1, <1>2, <1>3, Idle DEF TypeOK
<1>5. /\ row'.submission = "failed" =>
           row'.status = "failed" /\ slurm[row.attempt].state \in Unsent
      /\ row'.daliuge = "finished" => "succeeded" \in Reported(row.attempt)
      /\ row'.outputs = "verified" =>
           /\ row'.jobId = row.attempt
           /\ "succeeded" \in Reported(row.attempt)
           /\ inventory[row.attempt] = "valid"
  BY <1>3 DEF IInv, CommandInv, KnownInv, VerifiedIsPublished
<1>6. AttemptInv' /\ CommandInv' /\ JobInv' /\ KnownInv'
  BY <1>2, <1>3, <1>5, RowKept
<1>7. SeenInv' /\ TickInv'
  BY <1>2, <1>3, ClusterKept DEF IInv
<1>8. CancelInv'
  BY <1>2, Idle DEF CancelInv
<1> QED BY <1>4, <1>6, <1>7, <1>8 DEF IInv

\* What is retried has left no job.
LEMMA RetryStep ==
    ASSUME IInv, Retry
    PROVE  IInv'
<1> DEFINE outputs == IF OutputRequired THEN "pending" ELSE "not_started"
           fresh == [row EXCEPT !.status = "retrying", !.submission = "not_started",
                                !.scheduler = "not_submitted", !.daliuge = "not_created",
                                !.outputs = outputs,
                                !.outcome = "none", !.phase = RetryStage(row),
                                !.receipted = FALSE, !.attempt = row.attempt + 1]
<1>1. /\ TypeOK /\ row \in RowType /\ row.attempt \in Attempts
  BY Types DEF IInv
<1>2. /\ UNCHANGED <<deployer, lease, slurm, inventory, tick, cancel, cancels>>
      /\ row' = fresh
  BY DEF Retry, cluster, clients
<1>3. /\ row.submission \in {"not_started", "failed"} /\ row.jobId = 0
      /\ row.attempt <= MaxRetries
  BY <1>1, Types DEF Retry, RetryAccepted, RetrySafe, SubmissionState
<1>4. row.attempt + 1 \in Attempts /\ row.attempt + 1 > row.attempt
  BY <1>1, <1>3, BoundsAssumption DEF Attempts
<1>5. /\ fresh \in RowType /\ fresh.submission = "not_started" /\ fresh.jobId = 0
      /\ fresh.scheduler = "not_submitted" /\ fresh.daliuge = "not_created"
      /\ fresh.outputs = outputs /\ fresh.attempt = row.attempt + 1
  <2>1. /\ RetryStage(row) \in Phase /\ "none" \in Outcome /\ "retrying" \in Status
        /\ "not_started" \in SubmissionState /\ "not_created" \in DaliugeState
        /\ "not_submitted" \in SchedulerState /\ outputs \in OutputState
    BY DEF RetryStage, Phase, Outcome, Status, SubmissionState, DaliugeState, SchedulerState,
           OutputState
  <2> HIDE DEF Status, Phase, SubmissionState, SchedulerState, DaliugeState, OutputState,
               Outcome, Attempts, RetryStage, outputs
  <2> QED BY <1>1, <1>3, <1>4, <2>1 DEF RowType
<1>6. outputs # "verified"
  OBVIOUS
<1> HIDE DEF fresh, outputs
<1>7. TypeOK'
  <2> HIDE DEF RowType, DeployerType, JobType, TickType, CancelType, Attempts
  <2> QED BY <1>1, <1>2, <1>5 DEF TypeOK
<1>8. deployer.pc = "idle" /\ slurm[row.attempt].state \in Unsent
  BY <1>3 DEF IInv, AttemptInv, CommandInv, Unsent
<1>9. \A a \in Attempts : slurm[a].state \in Unsent /\ ~ Exists(a)
  <2>1. \A a \in Attempts : slurm[a].state \in Unsent
    BY <1>8 DEF IInv, AttemptInv
  <2> QED BY <2>1 DEF Unsent, Exists, InSlurm, Ended
<1>10. slurm[row.attempt + 1].state = "none"
  BY <1>4 DEF IInv, AttemptInv
<1>11. AttemptInv'
  <2>1. \A a \in Attempts : a > row.attempt + 1 => a > row.attempt
    BY <1>1 DEF Attempts
  <2> QED BY <1>2, <1>5, <1>8, <1>9, <2>1 DEF IInv, AttemptInv
<1>12. CommandInv'
  BY <1>2, <1>5, <1>8, <1>10 DEF CommandInv
<1>13. KnownInv'
  BY <1>2, <1>5, <1>6 DEF KnownInv, VerifiedIsPublished, Ended
<1>14. tick.pc \notin {"inspect", "commit", "reject"}
  BY <1>3 DEF IInv, TickInv
<1>15. SeenInv' /\ TickInv'
  BY <1>2, <1>14 DEF IInv, SeenInv, TickInv, Exists, Reported
<1>16. JobInv' /\ CancelInv'
  BY <1>2, ClusterKept DEF IInv
<1> QED BY <1>7, <1>11, <1>12, <1>13, <1>15, <1>16 DEF IInv

LEMMA NextStep == IInv /\ [Next]_vars => IInv'
<1> SUFFICES ASSUME IInv, [Next]_vars PROVE IInv'
  OBVIOUS
<1>1. CASE Deployer
  BY <1>1, BeginStep, DeployingStep, DispatchStep, UnsubmittedStep, ReceiptStep, LeaseStep
     DEF Deployer
<1>2. CASE \E a \in Attempts : Cluster(a)
  BY <1>2, ClusterStep
<1>3. CASE Tick
  BY <1>3, TickStep
<1>4. CASE Operator
  BY <1>4, CancelStep, CommitCancelStep, RetryStep DEF Operator, Sources
<1>5. CASE UNCHANGED vars
  <2>1. UNCHANGED <<row, deployer, lease, slurm, inventory, tick, cancel, cancels>>
    BY <1>5 DEF vars
  <2>2. tick' \in TickType /\ SeenInv' /\ TickInv'
    BY <2>1, Types, ClusterKept DEF IInv
  <2> QED BY <2>1, <2>2, TickKept
<1> QED BY <1>1, <1>2, <1>3, <1>4, <1>5 DEF Next

----------------------------------------------------------------------------
\* What follows from the invariant.

\* The inductive invariant holds of every reachable state, for every number of
\* retries, of cancellations and of cancellation polls, and every JobEnds.
THEOREM SlurmInvariant == Spec => []IInv
BY InitStep, NextStep, PTL DEF Spec

\* Every variable keeps its type: in particular a row, a tick and a cancellation
\* only ever name an attempt that the operator's retries allow.
THEOREM SlurmTypes == Spec => []TypeOK
<1>1. IInv => TypeOK
  BY DEF IInv
<1> QED BY <1>1, SlurmInvariant, PTL

\* A submission recorded as failed has left no job on the cluster, whatever the
\* lease, the deadline and the cluster do (submission_error_is_uncertain).
THEOREM RejectionDefinite == Spec => []RejectionIsDefinite
<1>1. IInv => RejectionIsDefinite
  BY DEF IInv, CommandInv, Unsent, RejectionIsDefinite
<1> QED BY <1>1, SlurmInvariant, PTL

\* A completed pair of queries is silent only about a job that did not exist
\* when it began (find_by_name, query_slurm_states_batch).
THEOREM AnswersComplete == Spec => []AnswersAreComplete
<1>1. ASSUME IInv PROVE AnswersAreComplete
  <2>1. tick.pc = "record" /\ Matches = {} => ~ tick.existed
    BY <1>1 DEF IInv, TickInv, Matches
  <2> QED BY <1>1, <2>1 DEF IInv, TickInv, AnswersAreComplete
<1> QED BY <1>1, SlurmInvariant, PTL

\* The end that the row records is one that accounting reports of the job of its
\* attempt, however its steps ended: the job's own or, only where the root row may
\* be omitted, the worst of its steps' (parse_sacct_batch).  No poll, name lookup,
\* receipt or cancellation makes one up, or takes another attempt's.
THEOREM EndsAreReal == Spec => []EndIsReal
<1>1. IInv => EndIsReal
  BY DEF IInv, KnownInv, EndIsReal
<1> QED BY <1>1, SlurmInvariant, PTL

\* Outputs are verified only from the valid inventory that the attempt of the
\* row published, and only when accounting reports its job as succeeded
\* (verify_execution_outputs).
THEOREM VerifiedPublished == Spec => []VerifiedIsPublished
<1>1. IInv => VerifiedIsPublished
  BY DEF IInv, KnownInv
<1> QED BY <1>1, SlurmInvariant, PTL

----------------------------------------------------------------------------
\* The promise of a single submission is kept (SingleSubmission).

abstract == <<Works, ClaimHeld, KnownEnd>>

\* Under a claim that is not used up there is nothing outside.
LEMMA UnusedIsQuiet == IInv /\ ClaimHeld # "used" => Submission!Quiet
<1> SUFFICES ASSUME IInv, ClaimHeld # "used" PROVE Submission!Quiet
  OBVIOUS
<1>1. /\ row.submission \in {"not_started", "preparing", "failed"}
         \/ deployer.pc \in {"upload", "prepare", "dispatch"}
      /\ row.attempt \in Attempts
  BY Types DEF IInv, TypeOK, RowType, ClaimHeld, Holds, SubmissionState
<1>2. slurm[row.attempt].state \in Unsent
  BY <1>1 DEF IInv, CommandInv, Unsent
<1>3. \A a \in Attempts : slurm[a].state \in Unsent
  BY <1>2 DEF IInv, AttemptInv
<1> QED BY <1>3 DEF Submission!Quiet, Works, Work, Unsent

\* An end on record is the end of the work of the row's attempt.
Learnt ==
    KnownEnd = "none" \/ \E a \in Attempts : Works[a] \in Submission!Ended /\ KnownEnd = Works[a]

LEMMA KnownIsLearnt == IInv => Learnt
<1> SUFFICES ASSUME IInv PROVE Learnt
  OBVIOUS
<1>1. row.attempt \in Attempts
  BY Types DEF IInv, TypeOK, RowType
<1>2. CASE row.scheduler \in Ended
  <2>1. slurm[row.attempt].state \in Ended
    BY <1>1, <1>2, ReportedEnds DEF IInv, KnownInv
  <2>2. Works[row.attempt] = slurm[row.attempt].state /\ Work(row.attempt) = Works[row.attempt]
    BY <1>1, <2>1 DEF Works, Work, Ended
  <2> QED BY <1>1, <1>2, <2>1, <2>2 DEF KnownEnd, Ended, Submission!Ended, Learnt
<1> QED BY <1>2 DEF KnownEnd, Learnt

\* A step that leaves the work as it is moves the claim, or what is known; not
\* both, as nothing is known while the claim may move.
LEMMA RecordIsAllowed ==
    ASSUME IInv, IInv', Works' = Works, ClaimHeld' = "open" => ClaimHeld # "used"
    PROVE  [Submission!Next]_abstract
<1>1. /\ Learnt /\ Learnt'
      /\ ClaimHeld # "used" => Submission!Quiet
      /\ (ClaimHeld # "used" => Submission!Quiet)'
  BY KnownIsLearnt, UnusedIsQuiet, PTL
<1>2. CASE ClaimHeld' = ClaimHeld
  <2>1. CASE KnownEnd' = "none"
    BY <1>2, <2>1 DEF Submission!Next, Submission!Forget
  <2>2. ASSUME NEW a \in Attempts, Works'[a] \in Submission!Ended, KnownEnd' = Works'[a]
        PROVE  Submission!Learn(a)
    BY <1>2, <2>2 DEF Submission!Learn
  <2> QED BY <1>1, <2>1, <2>2 DEF Learnt, Submission!Next, Submission!Ended
<1>3. CASE ClaimHeld' # ClaimHeld
  <2>1. ClaimHeld \in {"free", "open", "used"} /\ ClaimHeld' \in {"free", "open", "used"}
    BY DEF ClaimHeld
  <2>2. Submission!Quiet
    BY <1>1, <1>3, <2>1 DEF Submission!Quiet
  <2>3. KnownEnd = "none" /\ KnownEnd' = "none"
    BY <1>1, <2>2 DEF Learnt, Submission!Quiet, Submission!Ended
  <2> QED BY <1>3, <2>1, <2>2, <2>3
          DEF Submission!Next, Submission!Release, Submission!Spend, Submission!Claim
<1> QED BY <1>2, <1>3

\* Work is as it was when every command and job is.
LEMMA WorkKept ==
    ASSUME \A a \in Attempts : slurm'[a].state = slurm[a].state
    PROVE  Works' = Works
BY DEF Works, Work

LEMMA DeployerIsAllowed ==
    ASSUME IInv, IInv', Deployer
    PROVE  [Submission!Next]_abstract
<1> DEFINE unsent == {"upload", "prepare", "dispatch"}
<1>1. TypeOK /\ row \in RowType /\ row.attempt \in Attempts /\ slurm \in [Attempts -> JobType]
  BY Types DEF IInv, TypeOK
<1>2. CASE Dispatch
  <2>1. /\ deployer.pc = "dispatch" /\ deployer'.pc = "sent" /\ row' = row
        /\ deployer.attempt = row.attempt /\ row.submission \in {"in_flight", "uncertain"}
        /\ slurm' = [slurm EXCEPT ![row.attempt].state = "sent"]
    BY <1>1, <1>2, Types DEF Dispatch, Deploying, IInv, AttemptInv, DeployerType
  <2>2. slurm[row.attempt].state = "none"
    BY <2>1 DEF IInv, CommandInv
  <2>3. Works' = [Works EXCEPT ![row.attempt] = "asked"] /\ Works[row.attempt] = "none"
    BY <1>1, <2>1, <2>2 DEF Works, Work, JobType
  <2>4. ClaimHeld = "open" /\ ClaimHeld' = "used"
    BY <2>1 DEF ClaimHeld, Holds
  <2>5. row.scheduler \notin Ended
    BY <1>1, <2>2 DEF IInv, KnownInv, Reported, Ended
  <2>6. KnownEnd' = KnownEnd
    BY <2>1, <2>5 DEF KnownEnd
  <2>7. Submission!Submit(row.attempt)
    BY <2>3, <2>4, <2>6 DEF Submission!Submit
  <2> QED BY <1>1, <2>7 DEF Submission!Next
<1>3. CASE ~Dispatch
  <2>1. UNCHANGED slurm
    BY <1>3 DEF Deployer, Begin, Uploaded, Prepared, ExitStatus, Receive, SubmissionFailed,
                SubmissionUncertain, RecordReceipt, LeaseLost, Dropped, Redelivered, Settled,
                cluster
  <2>2. Works' = Works
    BY <2>1, WorkKept
  <2>3. ClaimHeld' = "open" => ClaimHeld # "used"
    <3>1. deployer'.pc \in unsent => deployer.pc \in unsent \/ Begin
      BY <1>1, <1>3, Types
         DEF Deployer, Uploaded, Prepared, ExitStatus, Receive, SubmissionFailed, Deploying,
             SubmissionUncertain, RecordReceipt, LeaseLost, Dropped, Redelivered, Settled,
             Done, NoDeployer, DeployerType
    <3>2. Begin => ClaimHeld = "free"
      BY DEF Begin, ClaimHeld
    <3> QED BY <3>1, <3>2 DEF ClaimHeld
  <2> QED BY <2>2, <2>3, RecordIsAllowed
<1> QED BY <1>2, <1>3

\* The cluster answers an sbatch, and ends what it has accepted.
LEMMA ClusterIsAllowed ==
    ASSUME IInv, NEW a \in Attempts, Cluster(a)
    PROVE  [Submission!Next]_abstract
<1>1. slurm \in [Attempts -> JobType] /\ slurm[a].state \in Command
  BY Types DEF IInv, TypeOK, JobType
<1>2. ClaimHeld' = ClaimHeld /\ KnownEnd' = KnownEnd
  <2>1. UNCHANGED <<row, deployer>>
    BY DEF Cluster
\* An end on record is of a job that has ended, for good.
  <2>2. row.scheduler \in Ended => slurm[row.attempt].state \in Ended
    BY Types, ReportedEnds DEF IInv, KnownInv
  <2>3. slurm[row.attempt].state \in Ended => slurm'[row.attempt].state = slurm[row.attempt].state
    <3>1. row.attempt \in Attempts
      BY Types DEF IInv
    <3>2. CASE Accept(a)
      BY <1>1, <3>1, <3>2 DEF Accept, Become, Ended, JobType
    <3>3. CASE Proceed(a)
      BY <1>1, <3>1, <3>3 DEF Proceed, Become, Ended, JobType
    <3>4. CASE Account(a) \/ LeaveQueue(a) \/ Publish(a)
      BY <1>1, <3>1, <3>4 DEF Account, LeaveQueue, Publish, JobType
    <3> QED BY <3>2, <3>3, <3>4 DEF Cluster
  <2>4. KnownEnd' = KnownEnd
    BY <2>1, <2>2, <2>3 DEF KnownEnd, Work, Ended
  <2> QED BY <2>1, <2>4 DEF ClaimHeld
<1>3. CASE Accept(a)
  <2>1. PICK s \in {"refused", "pending"} :
          /\ \A b \in Attempts \ {a} : slurm'[b].state = slurm[b].state
          /\ slurm'[a].state = s
    BY <1>1, <1>3 DEF Accept, Become, JobType
  <2>2. PICK w \in {"refused", "active"} : Works' = [Works EXCEPT ![a] = w]
    BY <2>1 DEF Works, Work
  <2>3. Works[a] = "asked"
    BY <1>3 DEF Accept, Works, Work
  <2> QED BY <1>2, <2>2, <2>3 DEF Submission!Answer, Submission!Next
<1>4. CASE Proceed(a)
  <2>1. PICK s \in {"running"} \cup Ended :
          /\ \A b \in Attempts \ {a} : slurm'[b].state = slurm[b].state
          /\ slurm'[a].state = s /\ slurm[a].state \in {"pending", "running"}
    <3>1. \A end \in JobEnds : end.state \in Ended
      BY JobEndsAssumption DEF JobEnd
    <3>2. CASE slurm[a].state = "pending"
      BY <1>1, <1>4, <3>2 DEF Proceed, Become, JobType, Ended
    <3>3. CASE slurm[a].state # "pending"
      <4>1. PICK end \in JobEnds :
              slurm' = [slurm EXCEPT ![a].state = end.state, ![a].steps = end.steps,
                                     ![a].rootless = end.rootless]
        BY <1>4, <3>3 DEF Proceed
      <4>2. slurm'[a].state = end.state /\ \A b \in Attempts \ {a} : slurm'[b] = slurm[b]
        BY <1>1, <4>1 DEF JobType
      <4>3. slurm[a].state = "running"
        BY <1>4, <3>3 DEF Proceed
      <4> QED BY <3>1, <4>2, <4>3
    <3> QED BY <3>2, <3>3
  <2>2. Works[a] = "active"
    BY <2>1 DEF Works, Work
  <2>3. CASE s = "running"
    BY <1>2, <2>1, <2>3 DEF Works, Work, abstract
  <2>4. CASE s \in Ended
    <3>1. Works' = [Works EXCEPT ![a] = s]
      BY <2>1, <2>4 DEF Works, Work, Ended
    <3> QED BY <1>2, <2>2, <2>4, <3>1 DEF Submission!End, Submission!Next, Submission!Ended, Ended
  <2> QED BY <2>1, <2>3, <2>4
<1>5. CASE Account(a) \/ LeaveQueue(a) \/ Publish(a)
  <2>1. \A b \in Attempts : slurm'[b].state = slurm[b].state
    BY <1>1, <1>5 DEF Account, LeaveQueue, Publish, JobType
  <2> QED BY <1>2, <2>1, WorkKept DEF abstract
<1> QED BY <1>3, <1>4, <1>5 DEF Cluster

\* A poll or an operator neither opens a claim nor touches the work.
LEMMA OthersAreAllowed ==
    ASSUME IInv, IInv', Tick \/ Operator \/ UNCHANGED vars
    PROVE  [Submission!Next]_abstract
<1>1. UNCHANGED <<slurm, deployer>>
  <2>1. CASE Tick
    <3>1. UNCHANGED outside
      BY <2>1, Zenon
         DEF Tick, StartLookup, StartPoll, StartRetrieval, Querying, QueryFirst, QuerySecond,
             RecordLookup, ApplyPoll, QueryFails, NotReady, Retrieving, Retrieved,
             CommitInventory, RejectInventory
    <3> QED BY <3>1 DEF outside, cluster
  <2>2. CASE CommitCancel \/ Retry
    BY <2>2 DEF CommitCancel, Retry, cluster
  <2>3. CASE Operator /\ ~(CommitCancel \/ Retry)
    <3>1. UNCHANGED cancelling
      BY <2>3, Zenon DEF Operator, RequestCancel, Signal, CancelQuery, Confirm, GiveUp
    <3> QED BY <3>1 DEF cancelling, cluster
  <2> QED BY <2>1, <2>2, <2>3 DEF vars
<1>2. Works' = Works
  BY <1>1, WorkKept
<1> QED BY <1>1, <1>2, RecordIsAllowed DEF ClaimHeld

\* A submission on Slurm, command by command and under every loss of a lease, a
\* response or a poll, never does more than a single submission may: sbatch is
\* sent under a claim no one else can get, the claim is given back only when no
\* job can be there, and an end goes on record only of a job that has ended.
THEOREM Refinement == Spec => ImplementsSingleSubmission
<1>1. Init => Submission!Init
  BY DEF Init, Submission!Init, Works, Work, ClaimHeld, KnownEnd, Holds, NoDeployer, NoJob, Ended
<1>2. IInv /\ IInv' /\ [Next]_vars => [Submission!Next]_abstract
  BY DeployerIsAllowed, ClusterIsAllowed, OthersAreAllowed DEF Next
<1> QED BY <1>1, <1>2, SlurmInvariant, PTL
        DEF Spec, ImplementsSingleSubmission, Submission!Spec, abstract
===============================================================================
