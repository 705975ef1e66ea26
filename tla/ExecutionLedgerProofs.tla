------------------------ MODULE ExecutionLedgerProofs ------------------------
(***************************************************************************)
(* Proofs about ExecutionLedger for every number of handlers, retries,     *)
(* submission intents, lookups and faults, and every pinned deployment.    *)
(* The argument: an intent whose call may have reached the backend is the  *)
(* latest one, and the submission state holds automatic work as long as it *)
(* exists; only the handler that made the call, while it waits for it, can *)
(* take that state back, and it does so on a certain refusal.  Whatever    *)
(* else the row says of the outside is true of that latest intent.         *)
(***************************************************************************)
EXTENDS ExecutionLedger, TLAPS

\* The backend may have external work of the intent, or come to have it.
MayExist == {"sent"} \cup Accepted
Pending == {"in_flight", "uncertain"}
Calling(h) == run[h].pc = "calling"

\* The backend took the latest submission.
Taken == intents # 0 /\ call[intents] \in Accepted

\* Intents are numbered in the order of their calls.
IntentInv == \A i \in Intents : call[i] = "unused" <=> i > intents

\* What may exist is the latest intent's, and the row holds the work.
HeldInv ==
    \A i \in Intents : call[i] \in MayExist =>
        /\ i = intents
        /\ row.submission \in Holds
        /\ call[i] = "sent" => row.submission \in Pending

\* One handler at most waits for the backend, for the latest intent, and the
\* row says so.
CallingInv ==
    \A h \in Handlers : Calling(h) =>
        /\ run[h].intent = intents
        /\ intents # 0
        /\ row.submission \in Pending
        /\ \A g \in Handlers : Calling(g) => g = h

\* What the row says of the outside is true.
RowInv ==
    /\ row.named \/ row.abandoned => intents # 0
    /\ row.jobId # 0 => row.jobId = intents /\ Taken
    /\ row.graph \/ row.submission = "submitted" => Taken
    /\ row.scheduler \notin {"not_submitted", "unknown"} => Taken
    /\ row.daliuge \notin {"not_created", "unreachable"} => Taken
    /\ row.status = "cancelled" => \A i \in Intents : call[i] # "sent"

\* What the poller has seen and will apply is, too.
SeenOfJob == {"pending", "running"} \cup Ended
SeenOfSession == {"running", "unknown", "finished", "failed", "cancelled"}

PollInv ==
    /\ poll.pc = "lookup" =>
         Backend = "slurm" /\ (poll.seen = "not_found" \/ (poll.seen \in SeenOfJob /\ Taken))
    /\ poll.pc = "apply" =>
         \/ poll.seen = "error"
         \/ Backend = "slurm" /\ poll.seen \in SeenOfJob /\ Taken
         \/ Backend = "daliuge" /\ poll.seen = "not_created"
         \/ Backend = "daliuge" /\ poll.seen \in SeenOfSession /\ Taken

\* A confirmed cancellation is of external work that existed.
CancelInv ==
    cancel.pc = "confirmed" => cancel.of # 0 /\ call[cancel.of] \in Accepted

\* The part of the row that speaks of the outside.
RowOutside(r) ==
    <<r.submission, r.scheduler, r.daliuge, r.jobId, r.named, r.graph, r.abandoned,
      r.deployment>>

IInv ==
    /\ TypeOK /\ IntentInv /\ HeldInv /\ CallingInv
    /\ RowInv /\ PollInv /\ CancelInv

----------------------------------------------------------------------------
(* What the two ways of patching a row do                                   *)

\* ExecutionAxes::reconcile gives a status and an outcome of the ledger, and a
\* cancellation only on an axis that says so.
LEMMA ReconcileDecides ==
  ASSUME NEW axes, NEW required
  PROVE  LET decision == Reconcile(axes, required)
         IN /\ decision.status \in Status
            /\ decision.outcome \in Outcome
            /\ decision.status = "cancelled" => Cancellation(axes)
BY DEF Reconcile, Decision, Status, Outcome

\* A patch of the axes moves nothing of a terminal row; of any other the axes
\* come out as patched, with a status and an outcome.
LEMMA PatchedRow ==
  ASSUME NEW old \in Row, NEW axes \in Row, NEW required
  PROVE  /\ Patched(old, axes, required) \in Row
         /\ old.status \in Terminal => Patched(old, axes, required) = old
         /\ old.status \notin Terminal =>
              /\ RowOutside(Patched(old, axes, required)) = RowOutside(axes)
              /\ Patched(old, axes, required).status = "cancelled" => Cancellation(axes)
<1> DEFINE decision == Reconcile(axes, required)
           status == IF decision.status = "pending" THEN old.status ELSE decision.status
           outcome == IF decision.outcome = "none" THEN axes.outcome ELSE decision.outcome
<1>1. CASE old.status \in Terminal
  BY <1>1 DEF Patched
<1>2. CASE old.status \notin Terminal
  <2>1. Patched(old, axes, required) = [axes EXCEPT !.status = status, !.outcome = outcome]
    BY <1>2 DEF Patched, Row
  <2>2. status \in Status /\ outcome \in Outcome
    BY ReconcileDecides DEF Row
  <2>3. status = "cancelled" => Cancellation(axes)
    BY <1>2, ReconcileDecides DEF Terminal
  <2> HIDE DEF status, outcome
  <2>4. [axes EXCEPT !.status = status, !.outcome = outcome] \in Row
    BY <2>2 DEF Row
  <2>5. RowOutside([axes EXCEPT !.status = status, !.outcome = outcome]) = RowOutside(axes)
    BY DEF RowOutside, Row
  <2>6. [axes EXCEPT !.status = status, !.outcome = outcome].status = status
    BY DEF Row
  <2> QED BY <1>2, <2>1, <2>3, <2>4, <2>5, <2>6
<1> QED BY <1>1, <1>2

\* The same of StatePatch, as far as the argument looks at it.
LEMMA StatePatchStep ==
  ASSUME TypeOK, NEW axes \in Row, StatePatch(axes)
  PROVE  /\ row' \in Row
         /\ \/ row' = row
            \/ /\ row.status \notin Terminal
               /\ RowOutside(row') = RowOutside(axes)
               /\ row'.status = "cancelled" => Cancellation(axes)
<1>1. row \in Row /\ row' = Patched(row, axes, OutputRequired)
  BY DEF TypeOK, StatePatch
<1> QED BY <1>1, PatchedRow

\* A ledger patch leaves what the row says of the outside alone.
LEMMA LedgerPatchStep ==
  ASSUME TypeOK, NEW next \in Status \ {"cancelled"}, NEW phase \in Phase,
         NEW manifest \in BOOLEAN, LedgerPatch(next, phase, manifest)
  PROVE  /\ row' \in Row
         /\ RowOutside(row') = RowOutside(row)
         /\ row'.status = "cancelled" => row.status = "cancelled"
<1> DEFINE status == IF row.status \in LockedTerminal THEN row.status ELSE next
           outcome == IF row.outcome = "none" THEN VerdictOf(status) ELSE row.outcome
<1>1. row' = [row EXCEPT !.status = status, !.phase = phase, !.outcome = outcome,
                         !.manifest = manifest]
  BY DEF LedgerPatch
<1>2. row \in Row
  BY DEF TypeOK
<1>3. status \in Status /\ (status = "cancelled" => row.status = "cancelled")
  BY <1>2 DEF Row
<1>4. outcome \in Outcome
  <2>1. VerdictOf(status) \in Outcome
    BY DEF VerdictOf, Outcome
  <2> QED BY <1>2, <2>1 DEF Row
<1> HIDE DEF status, outcome
<1> QED BY <1>1, <1>2, <1>3, <1>4 DEF Row, RowOutside

----------------------------------------------------------------------------
(* Steps that begin no submission and change no call                        *)

\* What a tame step may do: the row says nothing new of the outside unless the
\* backend took the latest submission, no submission state that holds the work
\* is taken back, and nobody starts to wait for the backend.
TameRow ==
    /\ row'.deployment = row.deployment
    /\ row'.submission \in {row.submission, "uncertain"}
    /\ row'.named \/ row'.abandoned => row.named \/ row.abandoned
    /\ row'.jobId # 0 => row'.jobId = row.jobId \/ (row'.jobId = intents /\ Taken)
    /\ row'.graph => row.graph
    /\ \/ row'.scheduler \in {row.scheduler, "not_submitted", "unknown"}
       \/ Taken
    /\ \/ row'.daliuge \in {row.daliuge, "not_created", "unreachable"}
       \/ Taken
    /\ row'.status = "cancelled" => \A i \in Intents : call[i] # "sent"

TameRun == \A h \in Handlers :
    run'[h].pc = "calling" => run[h].pc = "calling" /\ run'[h].intent = run[h].intent

TamePoll ==
    \/ poll' = poll
    \/ poll'.pc \notin {"lookup", "apply"}
    \/ /\ poll.pc = "lookup" /\ poll.seen # "not_found"
       /\ poll'.pc = "apply" /\ poll'.seen = poll.seen

TameCancel == cancel' = cancel \/ cancel'.pc # "confirmed"

Tame == UNCHANGED outside /\ TameRow /\ TameRun /\ TamePoll /\ TameCancel

\* A tame step keeps the invariant if it keeps the types.
LEMMA TameStep ==
  ASSUME IInv, TypeOK', Tame
  PROVE  IInv'
<1>1. call' = call /\ intents' = intents /\ (Taken' <=> Taken)
  BY DEF Tame, outside, Taken
<1>2. IntentInv'
  BY <1>1 DEF IInv, IntentInv
<1>3. HeldInv'
  BY <1>1 DEF IInv, HeldInv, Tame, TameRow, Holds, Pending
<1>4. CallingInv'
  <2>1. row.submission \in Pending => row'.submission \in Pending
    BY DEF Tame, TameRow, Pending
  <2> QED BY <1>1, <2>1 DEF IInv, CallingInv, Calling, Tame, TameRun
<1>5. RowInv'
  <2>1. row'.named \/ row'.abandoned => intents' # 0
    BY <1>1 DEF IInv, RowInv, Tame, TameRow
  <2>2. row'.jobId # 0 => row'.jobId = intents' /\ Taken'
    BY <1>1 DEF IInv, RowInv, Tame, TameRow
  <2>3. row'.graph \/ row'.submission = "submitted" => Taken'
    BY <1>1 DEF IInv, RowInv, Tame, TameRow
  <2>4. row'.scheduler \notin {"not_submitted", "unknown"} => Taken'
    BY <1>1 DEF IInv, RowInv, Tame, TameRow
  <2>5. row'.daliuge \notin {"not_created", "unreachable"} => Taken'
    BY <1>1 DEF IInv, RowInv, Tame, TameRow
  <2>6. row'.status = "cancelled" => \A i \in Intents : call'[i] # "sent"
    BY <1>1 DEF Tame, TameRow
  <2> QED BY <2>1, <2>2, <2>3, <2>4, <2>5, <2>6 DEF RowInv
<1>6. PollInv'
  <2>1. Backend' = Backend
    BY DEF Tame, TameRow, Backend
  <2> QED BY <1>1, <2>1 DEF IInv, PollInv, Tame, TamePoll
<1>7. CancelInv'
  BY <1>1 DEF IInv, CancelInv, Tame, TameCancel
<1> QED BY <1>2, <1>3, <1>4, <1>5, <1>6, <1>7 DEF IInv

\* Once the backend took the latest submission, no call is unanswered.
LEMMA TakenIsAnswered ==
  ASSUME IInv, Taken
  PROVE  \A i \in Intents : call[i] # "sent"
BY DEF IInv, HeldInv, Taken, MayExist, Accepted, Ended

\* A row whose axes speak of a cancellation has no unanswered call.
LEMMA CancellationIsAnswered ==
  ASSUME IInv, Cancellation(row)
  PROVE  \A i \in Intents : call[i] # "sent"
<1>1. Taken
  BY DEF IInv, RowInv, Cancellation
<1> QED BY <1>1, TakenIsAnswered

\* What is unchanged of the row, or only patched by StatePatch or LedgerPatch, is
\* tame.
LEMMA TameRows ==
  ASSUME IInv, row' \in Row, RowOutside(row') = RowOutside(row),
         row'.status = "cancelled" =>
            row.status = "cancelled" \/ Cancellation(row)
  PROVE  TameRow
<1>1. row'.status = "cancelled" => \A i \in Intents : call[i] # "sent"
  BY CancellationIsAnswered DEF IInv, RowInv
<1> QED BY <1>1 DEF TameRow, RowOutside

LEMMA StatePatchIsTame ==
  ASSUME IInv, StatePatch(row)
  PROVE  row' \in Row /\ TameRow
<1>1. TypeOK /\ row \in Row
  BY DEF IInv, TypeOK
<1> QED BY <1>1, StatePatchStep, TameRows

LEMMA LedgerPatchIsTame ==
  ASSUME IInv, NEW next \in Status \ {"cancelled"}, NEW phase \in Phase,
         NEW manifest \in BOOLEAN, LedgerPatch(next, phase, manifest)
  PROVE  row' \in Row /\ TameRow
<1>1. TypeOK
  BY DEF IInv
<1> QED BY <1>1, LedgerPatchStep, TameRows

LEMMA SameRowIsTame ==
  ASSUME IInv, row' = row
  PROVE  row' \in Row /\ TameRow
<1>1. row \in Row
  BY DEF IInv, TypeOK
<1> QED BY <1>1, TameRows

\* A handler goes to another step than waiting for the backend.
LEMMA GotoIsTame ==
  ASSUME TypeOK, NEW h \in Handlers, NEW pc \in Steps \ {"calling"}, Goto(h, pc)
  PROVE  run' \in [Handlers -> Handler] /\ TameRun
BY DEF TypeOK, Goto, Handler, TameRun

\* The step of a handler that only patches the row and moves on.
LEMMA HandlerIsTame ==
  ASSUME IInv, row' \in Row, TameRow, run' \in [Handlers -> Handler], TameRun,
         UNCHANGED <<outside, elsewhere>>
  PROVE  IInv'
<1>1. TypeOK'
  BY DEF IInv, TypeOK, outside, elsewhere
<1>2. Tame
  BY DEF Tame, TamePoll, TameCancel, outside, elsewhere
<1> QED BY <1>1, <1>2, TameStep

LEMMA LedgerStepHolds ==
  ASSUME IInv, NEW h \in Handlers, NEW status \in Status \ {"cancelled"},
         NEW phase \in Phase, NEW manifest \in BOOLEAN,
         NEW next \in Steps \ {"calling"},
         LedgerStep(h, status, phase, manifest, next)
  PROVE  IInv'
<1>1. TypeOK
  BY DEF IInv
<1>2. UNCHANGED <<outside, elsewhere>>
  BY DEF LedgerStep
<1>3. CASE LedgerRefuses(status)
  <2>1. Goto(h, "failing") /\ row' = row
    BY <1>3 DEF LedgerStep
  <2> QED BY <1>1, <1>2, <2>1, SameRowIsTame, GotoIsTame, HandlerIsTame DEF Steps, BodySteps
<1>4. CASE ~LedgerRefuses(status)
  <2>1. Goto(h, next) /\ LedgerPatch(status, phase, manifest)
    BY <1>4 DEF LedgerStep
  <2>2. row' \in Row /\ TameRow
    BY <2>1, LedgerPatchIsTame
  <2>3. run' \in [Handlers -> Handler] /\ TameRun
    BY <1>1, <2>1, GotoIsTame
  <2> QED BY <1>2, <2>2, <2>3, HandlerIsTame
<1> QED BY <1>3, <1>4

LEMMA CheckedHolds ==
  ASSUME IInv, NEW h \in Handlers, NEW next \in Steps \ {"calling"}, Checked(h, next)
  PROVE  IInv'
<1>1. TypeOK
  BY DEF IInv
<1>2. PICK pc \in {"failing", next} : Goto(h, pc)
  BY DEF Checked
<1>3. run' \in [Handlers -> Handler] /\ TameRun
  BY <1>1, <1>2, GotoIsTame DEF Steps, BodySteps
<1>4. row' = row /\ UNCHANGED <<outside, elsewhere>>
  BY DEF Checked
<1> QED BY <1>3, <1>4, SameRowIsTame, HandlerIsTame

\* A handler patches the axes as they are, or not at all, and moves on.
LEMMA AxesStepHolds ==
  ASSUME IInv, NEW h \in Handlers, NEW next \in Steps \ {"calling"},
         StatePatch(row) \/ row' = row, Goto(h, next), UNCHANGED <<outside, elsewhere>>
  PROVE  IInv'
<1>1. TypeOK
  BY DEF IInv
<1>2. row' \in Row /\ TameRow
  BY StatePatchIsTame, SameRowIsTame
<1>3. run' \in [Handlers -> Handler] /\ TameRun
  BY <1>1, GotoIsTame
<1> QED BY <1>2, <1>3, HandlerIsTame

----------------------------------------------------------------------------
(* The queue and the backend                                                *)

\* What a step of the queue alone changes keeps the invariant.
LEMMA QueueIsTame ==
  ASSUME IInv, row' = row, run' \in [Handlers -> Handler], TameRun,
         job' \in [Attempts -> ExecuteJob],
         negatives' \in {0, negatives}, faults' \in 0..MaxFaults,
         UNCHANGED <<outside, poll, cancel, pollFaults>>
  PROVE  IInv'
<1>1. TypeOK'
  BY LedgerAssumption DEF IInv, TypeOK, outside
<1>2. Tame
  BY SameRowIsTame DEF Tame, TamePoll, TameCancel, outside
<1> QED BY <1>1, <1>2, TameStep

\* A job row that is claimed, requeued or settled is one.
LEMMA JobTyped ==
  ASSUME TypeOK, NEW n \in Attempts,
         NEW status \in {"absent", "queued", "running", "done", "cancelled"},
         NEW holder \in Handlers \cup {NoHandler}, NEW leased \in BOOLEAN
  PROVE  [job EXCEPT ![n] = [job[n] EXCEPT !.status = status, !.holder = holder,
                                           !.leased = leased]] \in [Attempts -> ExecuteJob]
BY DEF TypeOK, ExecuteJob

\* A handler that is dropped, or gives its job back, is idle.
LEMMA IdleIsTame ==
  ASSUME TypeOK, NEW h \in Handlers, run' = [run EXCEPT ![h] = Idle]
  PROVE  run' \in [Handlers -> Handler] /\ TameRun
<1>1. Idle \in Handler
  BY LedgerAssumption DEF Idle, Handler, Steps, Attempts
<1> QED BY <1>1 DEF TypeOK, TameRun, Idle

LEMMA FaultCounted ==
  ASSUME TypeOK, faults < MaxFaults, faults' = faults + 1
  PROVE  faults' \in 0..MaxFaults
BY LedgerAssumption DEF TypeOK

LEMMA QueueStep ==
  ASSUME IInv, Queue
  PROVE  IInv'
<1>1. TypeOK /\ faults \in 0..MaxFaults
  BY DEF IInv, TypeOK
<1>2. ASSUME NEW h \in Handlers, NEW n \in Attempts, Deliver(h, n)
      PROVE  IInv'
  <2>1. job' \in [Attempts -> ExecuteJob]
    BY <1>1, <1>2, JobTyped DEF Deliver
  <2>2. [Idle EXCEPT !.pc = "read", !.job = n] \in Handler
    <3>1. Idle \in Handler
      BY LedgerAssumption DEF Idle, Handler, Steps, Attempts
    <3> QED BY <3>1 DEF Handler, Steps
  <2>3. run' \in [Handlers -> Handler] /\ TameRun
    BY <1>1, <1>2, <2>2 DEF Deliver, TypeOK, TameRun, Idle
  <2> QED BY <1>1, <1>2, <2>1, <2>3, QueueIsTame DEF Deliver
<1>3. ASSUME NEW n \in Attempts, LeaseExpires(n)
      PROVE  IInv'
  <2>1. job' \in [Attempts -> ExecuteJob]
    <3>1. job' = [job EXCEPT ![n] = [job[n] EXCEPT !.leased = FALSE]]
      BY <1>3 DEF LeaseExpires
    <3> QED BY <1>1, <3>1 DEF TypeOK, ExecuteJob
  <2>2. Idle \in Handler
    BY LedgerAssumption DEF Idle, Handler, Steps, Attempts
  <2>3. run' \in [Handlers -> Handler] /\ TameRun
    BY <1>1, <1>3, <2>2 DEF LeaseExpires, TypeOK, TameRun, Idle
  <2>4. faults' \in 0..MaxFaults
    BY <1>1, <1>3, FaultCounted DEF LeaseExpires
  <2> QED BY <1>3, <2>1, <2>3, <2>4, QueueIsTame DEF LeaseExpires
<1>4. ASSUME NEW h \in Handlers, Drop(h)
      PROVE  IInv'
  <2>1. run' \in [Handlers -> Handler] /\ TameRun
    BY <1>1, <1>4, IdleIsTame DEF Drop
  <2>2. job' \in [Attempts -> ExecuteJob]
    BY <1>1, <1>4 DEF Drop, elsewhere, TypeOK
  <2> QED BY <1>1, <1>4, <2>1, <2>2, QueueIsTame DEF Drop, elsewhere
<1>5. ASSUME NEW h \in Handlers, Fails(h), faults' \in 0..MaxFaults
      PROVE  IInv'
  <2>1. run' \in [Handlers -> Handler] /\ TameRun
    BY <1>1, <1>5, IdleIsTame DEF Fails
  <2>2. run[h].job \in Attempts /\ job \in [Attempts -> ExecuteJob]
    BY <1>1 DEF TypeOK, Handler
  <2>3. PICK status \in {"queued", "done"} :
          job' = IF Owns(h)
                 THEN [job EXCEPT ![run[h].job] = [job[run[h].job] EXCEPT
                                      !.status = status, !.holder = NoHandler,
                                      !.leased = FALSE]]
                 ELSE job
    BY <1>5 DEF Fails
  <2>4. job' \in [Attempts -> ExecuteJob]
    BY <1>1, <2>2, <2>3, JobTyped
  <2> QED BY <1>5, <2>1, <2>4, QueueIsTame DEF Fails
<1>6. ASSUME NEW h \in Handlers, Settle(h)
      PROVE  IInv'
  <2>1. run' \in [Handlers -> Handler] /\ TameRun
    BY <1>1, <1>6, IdleIsTame DEF Settle
  <2>2. run[h].job \in Attempts /\ job \in [Attempts -> ExecuteJob]
    BY <1>1 DEF TypeOK, Handler
  <2>3. job' \in [Attempts -> ExecuteJob]
    BY <1>1, <1>6, <2>2, JobTyped DEF Settle
  <2> QED BY <1>1, <1>6, <2>1, <2>3, QueueIsTame DEF Settle
<1>7. ASSUME NEW h \in Handlers, FailJob(h) \/ Raise(h)
      PROVE  IInv'
  <2>1. Fails(h) /\ faults' \in 0..MaxFaults
    BY <1>1, <1>7, FaultCounted DEF FailJob, Raise
  <2> QED BY <1>5, <2>1
<1> QED BY <1>2, <1>3, <1>4, <1>6, <1>7 DEF Queue

\* A call that may exist is answered, or goes on; what the backend took stays
\* taken.
LEMMA CallStep ==
  ASSUME IInv, NEW i \in Intents, NEW c \in {"rejected"} \cup Accepted,
         call[i] \in MayExist, call[i] \in Accepted => c \in Accepted,
         call' = [call EXCEPT ![i] = c], cancel' \in Cancel,
         cancel' = cancel \/ (cancel'.of = i /\ c \in Accepted),
         UNCHANGED <<row, job, run, intents, poll, negatives, faults, pollFaults>>
  PROVE  IInv'
<1>1. call \in [Intents -> CallState] /\ call' \in [Intents -> CallState]
  BY DEF IInv, TypeOK, CallState, Accepted, Ended
<1>2. /\ call'[i] # "unused" /\ call'[i] # "sent" /\ call'[i] = c
      /\ \A k \in Intents \ {i} : call'[k] = call[k]
  BY <1>1 DEF Accepted, Ended
<1>3. Taken => Taken'
  BY <1>2 DEF IInv, TypeOK, Taken, Intents
<1>4. TypeOK'
  BY <1>1 DEF IInv, TypeOK
<1>5. IntentInv'
  BY <1>2 DEF IInv, IntentInv, MayExist, Accepted, Ended
<1>6. HeldInv'
  BY <1>2 DEF IInv, HeldInv
<1>7. CallingInv'
  BY DEF IInv, CallingInv, Calling
<1>8. RowInv' /\ PollInv'
  BY <1>2, <1>3 DEF IInv, RowInv, PollInv, Backend
<1>9. CancelInv'
  <2>1. i # 0
    BY LedgerAssumption DEF Intents
  <2>2. CASE cancel' = cancel
    BY <1>2, <2>2 DEF IInv, TypeOK, Cancel, Intents, CancelInv
  <2>3. CASE cancel'.of = i /\ c \in Accepted
    BY <1>2, <2>1, <2>3 DEF CancelInv
  <2> QED BY <2>2, <2>3
<1> QED BY <1>4, <1>5, <1>6, <1>7, <1>8, <1>9 DEF IInv

LEMMA AnswerStep ==
  ASSUME IInv, NEW i \in Intents, Answer(i)
  PROVE  IInv'
<1>1. /\ UNCHANGED <<row, job, run, intents, poll, negatives, faults, pollFaults>>
      /\ cancel' = cancel /\ cancel' \in Cancel
  BY DEF Answer, IInv, TypeOK
<1>2. CASE call[i] = "sent"
  <2>1. PICK c \in {"active", "rejected"} : call' = [call EXCEPT ![i] = c]
    BY <1>2 DEF Answer
  <2> QED BY <1>1, <1>2, <2>1, CallStep DEF MayExist, Accepted, Ended
<1>3. CASE call[i] # "sent"
  <2>1. PICK c \in Ended : call' = [call EXCEPT ![i] = c]
    BY <1>3 DEF Answer
  <2> QED BY <1>1, <1>3, <2>1, CallStep DEF Answer, MayExist, Accepted
<1> QED BY <1>2, <1>3

----------------------------------------------------------------------------
(* The handlers                                                             *)

\* Without external work of the latest intent, and with nobody waiting for it,
\* the row may be anything that says nothing of the outside.
LEMMA EmptyStep ==
  ASSUME IInv, TypeOK', UNCHANGED outside, TamePoll, TameCancel,
         \A i \in Intents : call[i] \notin MayExist,
         \A h \in Handlers : run'[h].pc # "calling",
         row'.deployment = row.deployment,
         row'.jobId = 0, ~row'.graph, row'.submission # "submitted",
         row'.scheduler \in {"not_submitted", "unknown"},
         row'.daliuge \in {"not_created", "unreachable"},
         row'.named \/ row'.abandoned => row.named \/ row.abandoned
  PROVE  IInv'
<1>1. call' = call /\ intents' = intents /\ (Taken' <=> Taken)
  BY DEF outside, Taken
<1>2. IntentInv' /\ HeldInv'
  BY <1>1 DEF IInv, IntentInv, HeldInv
<1>3. CallingInv'
  BY DEF CallingInv, Calling
<1>4. RowInv'
  <2>1. row'.named \/ row'.abandoned => intents' # 0
    BY <1>1 DEF IInv, RowInv
  <2>2. \A i \in Intents : call'[i] # "sent"
    BY <1>1 DEF MayExist
  <2> QED BY <2>1, <2>2 DEF RowInv
<1>5. PollInv'
  <2>1. Backend' = Backend
    BY DEF Backend
  <2> QED BY <1>1, <2>1 DEF IInv, PollInv, TamePoll
<1>6. CancelInv'
  BY <1>1 DEF IInv, CancelInv, TameCancel
<1> QED BY <1>2, <1>3, <1>4, <1>5, <1>6 DEF IInv

\* A row that does not hold the work has nothing outside, and nobody waits.
LEMMA NothingOutside ==
  ASSUME IInv, row.submission \notin Holds
  PROVE  /\ \A i \in Intents : call[i] \notin MayExist
         /\ \A h \in Handlers : ~Calling(h)
         /\ ~Taken
<1>1. \A i \in Intents : call[i] \notin MayExist
  BY DEF IInv, HeldInv
<1>2. \A h \in Handlers : ~Calling(h)
  BY DEF IInv, CallingInv, Pending, Holds
<1>3. ~Taken
  BY <1>1 DEF IInv, TypeOK, Taken, MayExist, Intents
<1> QED BY <1>1, <1>2, <1>3

\* Without a submission that the backend took, the row says nothing of one.
LEMMA UntakenRow ==
  ASSUME IInv, ~Taken
  PROVE  /\ row.jobId = 0 /\ ~row.graph /\ row.submission # "submitted"
         /\ row.scheduler \in {"not_submitted", "unknown"}
         /\ row.daliuge \in {"not_created", "unreachable"}
BY DEF IInv, RowInv

LEMMA BeginStep ==
  ASSUME IInv, NEW h \in Handlers, BeginSubmission(h)
  PROVE  IInv'
<1> DEFINE i == intents + 1
<1>1. /\ i \in Intents /\ i # intents /\ call \in [Intents -> CallState]
      /\ intents \in 0..MaxIntents /\ row \in Row /\ run \in [Handlers -> Handler]
  BY LedgerAssumption DEF IInv, TypeOK, BeginSubmission, Intents
<1>2. /\ intents' = i /\ call' = [call EXCEPT ![i] = "sent"] /\ row' = IntentRow
      /\ run' = [run EXCEPT ![h] = [run[h] EXCEPT !.pc = "calling", !.intent = i]]
      /\ negatives' = 0 /\ UNCHANGED <<job, poll, cancel, faults, pollFaults>>
  BY DEF BeginSubmission
<1>3. /\ \A k \in Intents : call[k] \notin MayExist
      /\ \A g \in Handlers : ~Calling(g)
      /\ ~Taken
  BY NothingOutside DEF BeginSubmission, MayBegin
<1>4. /\ row'.submission = "in_flight" /\ row'.daliuge = "not_created" /\ row'.named
      /\ row'.status = row.status /\ row'.scheduler = row.scheduler
      /\ row'.jobId = row.jobId /\ row'.graph = row.graph
      /\ row'.deployment = row.deployment /\ row' \in Row
  BY <1>1, <1>2 DEF IntentRow, Row, SubmissionState, DaliugeState
<1>5. TypeOK'
  <2>1. run' \in [Handlers -> Handler]
    <3>1. i \in 0..MaxIntents /\ "calling" \in Steps
      BY <1>1, LedgerAssumption DEF Intents, Steps, BodySteps
    <3>2. [run[h] EXCEPT !.pc = "calling", !.intent = i] \in Handler
      BY <1>1, <3>1 DEF Handler
    <3> QED BY <1>1, <1>2, <3>2
  <2>2. call' \in [Intents -> CallState]
    BY <1>1, <1>2 DEF CallState
  <2>3. intents' \in 0..MaxIntents /\ negatives' \in 0..NegativeLookups
    BY <1>1, <1>2, LedgerAssumption DEF Intents
  <2> QED BY <1>2, <1>4, <2>1, <2>2, <2>3 DEF IInv, TypeOK
<1>6. IntentInv'
  <2>1. ASSUME NEW k \in Intents PROVE call'[k] = "unused" <=> k > intents'
    <3>1. k \in Int /\ intents \in Int
      BY <1>1, LedgerAssumption DEF Intents
    <3>2. call[k] = "unused" <=> k > intents
      BY DEF IInv, IntentInv
    <3>3. call'[k] = IF k = i THEN "sent" ELSE call[k]
      BY <1>1, <1>2
    <3> QED BY <1>2, <3>1, <3>2, <3>3
  <2> QED BY <2>1 DEF IntentInv
<1>7. HeldInv'
  BY <1>1, <1>2, <1>3, <1>4 DEF HeldInv, Holds, Pending
<1>8. CallingInv'
  <2>1. \A g \in Handlers : Calling(g)' => g = h
    BY <1>1, <1>2, <1>3 DEF Calling
  <2>2. run'[h].intent = i /\ i # 0
    BY <1>1, <1>2, LedgerAssumption DEF Intents, Handler
  <2> QED BY <1>2, <1>4, <2>1, <2>2 DEF CallingInv, Pending
<1>9. RowInv'
  <2>1. row'.status # "cancelled"
    BY <1>4 DEF BeginSubmission, MayBegin, Terminal
  <2>2. intents' # 0
    BY <1>1, <1>2, LedgerAssumption
  <2> QED BY <1>3, <1>4, <2>1, <2>2, UntakenRow DEF RowInv
<1>10. PollInv'
  <2>1. Backend' = Backend
    BY <1>4 DEF Backend
  <2> QED BY <1>2, <1>3, <2>1 DEF IInv, PollInv
<1>11. CancelInv'
  BY <1>1, <1>2, <1>3 DEF IInv, TypeOK, Cancel, CancelInv, Intents, MayExist
<1> QED BY <1>5, <1>6, <1>7, <1>8, <1>9, <1>10, <1>11 DEF IInv

\* Only the one handler that waits for the backend records a refusal, and by
\* then nothing exists outside.
LEMMA RejectionStep ==
  ASSUME IInv, NEW h \in Handlers, RecordRejection(h)
  PROVE  IInv'
<1> DEFINE axes == [row EXCEPT !.submission = "failed"]
<1>1. /\ Calling(h) /\ call[intents] = "rejected" /\ intents \in Intents
      /\ \A g \in Handlers \ {h} : ~Calling(g)
  BY DEF IInv, TypeOK, CallingInv, Calling, RecordRejection, Intents
<1>2. \A i \in Intents : call[i] \notin MayExist
  BY <1>1 DEF IInv, HeldInv, MayExist, Accepted, Ended
<1>3. ~Taken
  BY <1>1 DEF Taken, Accepted, Ended
<1>4. TypeOK /\ row \in Row /\ axes \in Row
  BY DEF IInv, TypeOK, Row, SubmissionState
<1>5. row' \in Row /\ (row' = row \/ RowOutside(row') = RowOutside(axes))
  BY <1>4, StatePatchStep DEF RecordRejection
<1>6. UNCHANGED <<outside, elsewhere>>
  BY DEF RecordRejection
<1>7. run' \in [Handlers -> Handler] /\ TameRun
  BY <1>4, GotoIsTame DEF RecordRejection, Steps, BodySteps
<1>8. \A g \in Handlers : run'[g].pc # "calling"
  BY <1>1, <1>4 DEF RecordRejection, Goto, TypeOK, Calling
<1>9. CASE row' = row
  BY <1>6, <1>7, <1>9, SameRowIsTame, HandlerIsTame
<1>10. CASE RowOutside(row') = RowOutside(axes)
  <2>1. /\ row'.submission = "failed" /\ row'.deployment = row.deployment
        /\ row'.jobId = row.jobId /\ row'.graph = row.graph
        /\ row'.scheduler = row.scheduler /\ row'.daliuge = row.daliuge
        /\ row'.named = row.named /\ row'.abandoned = row.abandoned
    BY <1>4, <1>10 DEF RowOutside, Row
  <2>2. TypeOK'
    BY <1>5, <1>6, <1>7 DEF IInv, TypeOK, outside, elsewhere
  <2>3. TamePoll /\ TameCancel
    BY <1>6 DEF elsewhere, TamePoll, TameCancel
  <2> QED BY <1>2, <1>3, <1>6, <1>8, <2>1, <2>2, <2>3, UntakenRow, EmptyStep
<1> QED BY <1>5, <1>9, <1>10

\* Once the backend took the latest submission, whatever the row says of the
\* outside is true as long as it names that one and holds the work.
LEMMA TakenStep ==
  ASSUME IInv, TypeOK', Taken, UNCHANGED outside, TameRun, TamePoll, TameCancel,
         row'.deployment = row.deployment,
         row'.submission \in Holds,
         \A h \in Handlers : run'[h].pc = "calling" => row'.submission \in Pending,
         row'.jobId \in {0, intents}
  PROVE  IInv'
<1>1. call' = call /\ intents' = intents /\ Taken'
  BY DEF outside, Taken
<1>2. \A i \in Intents : call'[i] # "sent"
  BY <1>1, TakenIsAnswered
<1>3. IntentInv' /\ HeldInv'
  BY <1>1, <1>2 DEF IInv, IntentInv, HeldInv
<1>4. CallingInv'
  BY <1>1 DEF IInv, CallingInv, Calling, TameRun
<1>5. RowInv'
  BY <1>1, <1>2 DEF RowInv, Taken
<1>6. PollInv'
  <2>1. Backend' = Backend
    BY DEF Backend
  <2> QED BY <1>1, <2>1 DEF IInv, PollInv, TamePoll
<1>7. CancelInv'
  BY <1>1 DEF IInv, CancelInv, TameCancel
<1> QED BY <1>3, <1>4, <1>5, <1>6, <1>7 DEF IInv

\* The rows that a receipt makes are rows.
LEMMA ReceiptTyped ==
  ASSUME TypeOK, NEW i \in Intents
  PROVE  /\ Receipted(i) \in Row /\ LiveReceipt(i) \in Row
         /\ \A r \in {Receipted(i), LiveReceipt(i)} :
              /\ r.deployment = row.deployment
              /\ r.submission = "submitted" \/ r.submission = row.submission
              /\ r.jobId \in {0, i}
<1>1. row \in Row /\ i \in 0..MaxIntents
  BY LedgerAssumption DEF TypeOK, Intents
<1>2. /\ Receipted(i) \in Row
      /\ Receipted(i).deployment = row.deployment
      /\ Receipted(i).submission = "submitted" \/ Receipted(i).submission = row.submission
      /\ Receipted(i).jobId \in {0, i}
  <2> DEFINE jobId == IF Backend = "slurm" THEN i ELSE 0
             submission == IF row.abandoned THEN row.submission ELSE "submitted"
  <2>1. Receipted(i) = [row EXCEPT !.jobId = jobId, !.graph = TRUE, !.manifest = TRUE,
                                   !.submission = submission]
    BY DEF Receipted
  <2>2. /\ jobId \in {0, i} /\ jobId \in 0..MaxIntents
        /\ submission \in {"submitted", row.submission} /\ submission \in SubmissionState
    BY <1>1, LedgerAssumption DEF Row, SubmissionState
  <2> HIDE DEF jobId, submission
  <2> QED BY <1>1, <2>1, <2>2 DEF Row
<1>3. /\ ReceiptStatus(i) \in Status
      /\ SchedulerReceived(i) \in SchedulerState
      /\ SessionReceived \in DaliugeState
  BY <1>1, ReconcileDecides
     DEF ReceiptStatus, EnteredStatus, SchedulerReceived, SessionReceived, Row, Status,
         SchedulerState, DaliugeState
<1>4. /\ LiveReceipt(i) \in Row
      /\ LiveReceipt(i).deployment = Receipted(i).deployment
      /\ LiveReceipt(i).submission = Receipted(i).submission
      /\ LiveReceipt(i).jobId = Receipted(i).jobId
  <2> DEFINE r == Receipted(i)
             status == ReceiptStatus(i)
             scheduler == SchedulerReceived(i)
             daliuge == SessionReceived
  <2>1. LiveReceipt(i) = [r EXCEPT !.status = status, !.phase = "submit",
                                   !.outcome = "none", !.scheduler = scheduler,
                                   !.daliuge = daliuge]
    BY DEF LiveReceipt
  <2>2. "submit" \in Phase /\ "none" \in Outcome
    BY DEF Phase, Outcome
  <2>3. r \in Row /\ status \in Status /\ scheduler \in SchedulerState
        /\ daliuge \in DaliugeState
    BY <1>2, <1>3
  <2> HIDE DEF r, status, scheduler, daliuge
  <2>4. /\ LiveReceipt(i) \in Row /\ LiveReceipt(i).deployment = r.deployment
        /\ LiveReceipt(i).submission = r.submission /\ LiveReceipt(i).jobId = r.jobId
    BY <2>1, <2>2, <2>3 DEF Row
  <2> QED BY <2>4 DEF r
<1> QED BY <1>2, <1>4

LEMMA ReceiptStep ==
  ASSUME IInv, NEW h \in Handlers, RecordReceipt(h)
  PROVE  IInv'
<1> DEFINE i == run[h].intent
<1>1. /\ i = intents /\ i \in Intents /\ Taken /\ row.submission \in Pending
      /\ \A g \in Handlers \ {h} : ~Calling(g)
  BY DEF IInv, TypeOK, CallingInv, Calling, RecordReceipt, Intents, Taken
<1>2. TypeOK /\ UNCHANGED <<outside, elsewhere>>
  BY DEF IInv, RecordReceipt
<1>3. CASE ReceiptRefused(i)
  <2>1. row' = row /\ Goto(h, "failing")
    BY <1>3 DEF RecordReceipt
  <2> QED BY <1>2, <2>1, AxesStepHolds DEF Steps, BodySteps
<1>4. CASE ~ReceiptRefused(i)
  <2>1. Goto(h, "settle") /\ row' \in {Receipted(i), LiveReceipt(i)}
    BY <1>4 DEF RecordReceipt
  <2>2. run' \in [Handlers -> Handler] /\ TameRun
    BY <1>2, <2>1, GotoIsTame DEF Steps, BodySteps
  <2>3. \A g \in Handlers : run'[g].pc # "calling"
    BY <1>1, <1>2, <2>1 DEF Goto, TypeOK, Calling
  <2>4. row' \in Row
    BY <1>1, <1>2, <2>1, ReceiptTyped
  <2>5. /\ row'.deployment = row.deployment
        /\ row'.submission \in {"submitted", row.submission}
        /\ row'.jobId \in {0, intents}
    BY <1>1, <1>2, <2>1, ReceiptTyped
  <2>6. row'.submission \in Holds
    BY <1>1, <2>5 DEF Holds, Pending
  <2>7. TypeOK'
    BY <1>2, <2>2, <2>4 DEF TypeOK, outside, elsewhere
  <2>8. TamePoll /\ TameCancel /\ UNCHANGED outside
    BY <1>2 DEF elsewhere, TamePoll, TameCancel
  <2> QED BY <1>1, <2>2, <2>3, <2>5, <2>6, <2>7, <2>8, TakenStep
<1> QED BY <1>3, <1>4

\* A submission whose outcome is unknown is held.
LEMMA UncertainIsTame ==
  ASSUME IInv, StatePatch([row EXCEPT !.submission = "uncertain"])
  PROVE  row' \in Row /\ TameRow
<1> DEFINE axes == [row EXCEPT !.submission = "uncertain"]
<1>1. TypeOK /\ row \in Row /\ axes \in Row
  BY DEF IInv, TypeOK, Row, SubmissionState
<1>2. /\ row' \in Row
      /\ \/ row' = row
         \/ /\ RowOutside(row') = RowOutside(axes)
            /\ row'.status = "cancelled" => Cancellation(axes)
  BY <1>1, StatePatchStep
<1>3. CASE row' = row
  BY <1>3, SameRowIsTame
<1>4. CASE RowOutside(row') = RowOutside(axes) /\ (row'.status = "cancelled" => Cancellation(axes))
  <2>1. /\ row'.submission = "uncertain" /\ row'.deployment = row.deployment
        /\ row'.jobId = row.jobId /\ row'.graph = row.graph
        /\ row'.scheduler = row.scheduler /\ row'.daliuge = row.daliuge
        /\ row'.named = row.named /\ row'.abandoned = row.abandoned
    BY <1>1, <1>4 DEF RowOutside, Row
  <2>2. Cancellation(axes) <=> Cancellation(row)
    BY <1>1 DEF Cancellation, Row
  <2> QED BY <1>2, <1>4, <2>1, <2>2, CancellationIsAnswered DEF TameRow
<1> QED BY <1>2, <1>3, <1>4

\* A handler starts from what it reads, and stops where work is held.
LEMMA ReadStep ==
  ASSUME IInv, NEW h \in Handlers, Read(h)
  PROVE  IInv'
<1> DEFINE next == IF row.status \in Terminal \/ row.submission \in Holds
                   THEN [run[h] EXCEPT !.pc = "settle"]
                   ELSE [run[h] EXCEPT !.pc = "preflight",
                                       !.replay = row.phase = "submit" /\ row.manifest,
                                       !.retrying = row.status = "retrying"]
<1>1. run' = [run EXCEPT ![h] = next] /\ row' = row /\ UNCHANGED <<outside, elsewhere>>
  BY DEF Read
<1>2. run \in [Handlers -> Handler] /\ run[h] \in Handler /\ row.manifest \in BOOLEAN
  BY DEF IInv, TypeOK, Row
<1>3. next \in Handler /\ next.pc # "calling"
  <2> DEFINE replay == row.phase = "submit" /\ row.manifest
             retrying == row.status = "retrying"
  <2>1. replay \in BOOLEAN /\ retrying \in BOOLEAN
    OBVIOUS
  <2>2. {"settle", "preflight"} \subseteq Steps
    BY DEF Steps, BodySteps
  <2> HIDE DEF replay, retrying
  <2>3. /\ [run[h] EXCEPT !.pc = "preflight", !.replay = replay,
                          !.retrying = retrying] \in Handler
        /\ [run[h] EXCEPT !.pc = "preflight", !.replay = replay,
                          !.retrying = retrying].pc = "preflight"
    BY <1>2, <2>1, <2>2 DEF Handler
  <2>4. /\ [run[h] EXCEPT !.pc = "settle"] \in Handler
        /\ [run[h] EXCEPT !.pc = "settle"].pc = "settle"
    BY <1>2, <2>2 DEF Handler
  <2> QED BY <2>3, <2>4 DEF replay, retrying
<1> HIDE DEF next
<1>4. run' \in [Handlers -> Handler] /\ TameRun
  BY <1>1, <1>2, <1>3 DEF TameRun
<1> QED BY <1>1, <1>4, SameRowIsTame, HandlerIsTame

\* Every step of run_execute and run_execute_body keeps the invariant.
LEMMA HandlerStepHolds ==
  ASSUME IInv, NEW h \in Handlers, HandlerStep(h)
  PROVE  IInv'
<1> DEFINE At(pcs) == pcs \subseteq Steps \ {"calling"}
<1>1. At({"failing", "resume", "admit", "start", "stage", "artifacts", "manifest",
          "not_submitted", "recheck", "begin", "hold", "settle", "fail_axes",
          "fail_ledger", "raise"})
  BY DEF Steps, BodySteps
<1>2. /\ {"running", "not_submitted", "failed"} \subseteq Status \ {"cancelled"}
      /\ row.phase \in Phase /\ {"none", "submit", "stage_and_manifest"} \subseteq Phase
      /\ row.manifest \in BOOLEAN /\ row \in Row
  BY DEF IInv, TypeOK, Row, Status, Phase
<1>3. CASE Read(h)
  BY <1>3, ReadStep
<1>4. CASE BodyFails(h)
  BY <1>1, <1>4, AxesStepHolds DEF BodyFails
<1>5. CASE Preflight(h) \/ Stage(h) \/ Recheck(h)
  BY <1>1, <1>5, CheckedHolds DEF Preflight, Stage, Recheck
<1>6. CASE Resume(h) \/ Start(h)
  BY <1>1, <1>2, <1>6, LedgerStepHolds DEF Resume, Start
<1>7. CASE FinishUnsubmitted(h)
  BY <1>1, <1>2, <1>7, LedgerStepHolds DEF FinishUnsubmitted
<1>8. CASE Admit(h) \/ StoreArtifacts(h)
  BY <1>1, <1>8, AxesStepHolds DEF Admit, StoreArtifacts
<1>9. CASE PinManifest(h)
  <2>1. row' \in Row /\ RowOutside(row') = RowOutside(row) /\ row'.status = row.status
    BY <1>2, <1>9 DEF PinManifest, Row, RowOutside
  <2>2. TypeOK /\ Goto(h, "recheck") /\ UNCHANGED <<outside, elsewhere>>
    BY <1>9 DEF PinManifest, IInv
  <2> QED BY <1>1, <2>1, <2>2, TameRows, GotoIsTame, HandlerIsTame
<1>10. CASE BeginRefused(h) \/ Failing(h)
  BY <1>1, <1>10, AxesStepHolds DEF BeginRefused, Failing
<1>11. CASE BeginSubmission(h)
  BY <1>11, BeginStep
<1>12. CASE RecordRejection(h)
  BY <1>12, RejectionStep
<1>13. CASE RecordReceipt(h)
  BY <1>13, ReceiptStep
<1>14. CASE RecordUncertain(h) \/ HoldSubmission(h)
  <2>1. row' \in Row /\ TameRow
    BY <1>14, UncertainIsTame, SameRowIsTame DEF RecordUncertain, HoldSubmission
  <2>2. run' \in [Handlers -> Handler] /\ TameRun
    BY <1>1, <1>14, GotoIsTame DEF RecordUncertain, HoldSubmission, IInv
  <2> QED BY <1>14, <2>1, <2>2, HandlerIsTame DEF RecordUncertain, HoldSubmission
<1>15. CASE FailAxes(h)
  <2> DEFINE axes == [row EXCEPT !.outcome = "failed"]
  <2>1. axes \in Row /\ RowOutside(axes) = RowOutside(row)
        /\ (Cancellation(axes) <=> Cancellation(row))
    BY <1>2 DEF Row, Outcome, RowOutside, Cancellation
  <2>2. TypeOK /\ StatePatch(axes) /\ Goto(h, "fail_ledger")
        /\ UNCHANGED <<outside, elsewhere>>
    BY <1>15 DEF FailAxes, IInv
  <2>3. row' \in Row /\ RowOutside(row') = RowOutside(row)
        /\ (row'.status = "cancelled" => row.status = "cancelled" \/ Cancellation(row))
    BY <2>1, <2>2, StatePatchStep
  <2> QED BY <1>1, <2>2, <2>3, TameRows, GotoIsTame, HandlerIsTame
<1>16. CASE FailLedger(h)
  <2>1. TypeOK /\ UNCHANGED <<outside, elsewhere>>
    BY <1>16 DEF FailLedger, IInv
  <2>2. row' \in Row /\ TameRow
    BY <1>2, <1>16, LedgerPatchIsTame, SameRowIsTame DEF FailLedger
  <2>3. run' \in [Handlers -> Handler] /\ TameRun
    BY <1>1, <1>16, <2>1, GotoIsTame DEF FailLedger
  <2> QED BY <2>1, <2>2, <2>3, HandlerIsTame
<1> QED BY <1>3, <1>4, <1>5, <1>6, <1>7, <1>8, <1>9, <1>10, <1>11, <1>12, <1>13, <1>14,
           <1>15, <1>16 DEF HandlerStep

----------------------------------------------------------------------------
(* The pollers                                                              *)

\* A poll tick moves the row, its own step and the lookups' count only.
LEMMA PollIsTame ==
  ASSUME IInv, row' \in Row, TameRow, poll' \in Poll, TamePoll,
         negatives' \in 0..NegativeLookups, pollFaults' \in 0..MaxPollFaults,
         UNCHANGED <<outside, job, run, cancel, faults>>
  PROVE  IInv'
<1>1. TypeOK'
  BY DEF IInv, TypeOK, outside
<1>2. Tame
  BY DEF Tame, TameRun, TameCancel, outside
<1> QED BY <1>1, <1>2, TameStep

LEMMA PollTyped ==
  /\ NoPoll \in Poll /\ NoPoll.pc = "idle"
  /\ \A pc \in PollSteps, seen \in Seen, i \in 0..MaxIntents :
       [pc |-> pc, seen |-> seen, of |-> i] \in Poll
<1>1. NoPoll \in Poll /\ NoPoll.pc = "idle"
  BY LedgerAssumption DEF NoPoll, Poll, PollSteps, Seen, SchedulerState
<1> QED BY <1>1 DEF Poll

\* Asking the backend changes nothing but what the tick has seen.
LEMMA QueryHolds ==
  ASSUME IInv, poll' \in Poll, PollInv', UNCHANGED <<row, outside, negatives, polling>>
  PROVE  IInv'
<1>1. TypeOK'
  BY DEF IInv, TypeOK, outside, polling
<1>2. IntentInv' /\ HeldInv' /\ CallingInv'
  BY DEF IInv, IntentInv, HeldInv, CallingInv, Calling, outside, polling
<1>3. RowInv' /\ CancelInv'
  BY DEF IInv, RowInv, Taken, CancelInv, outside, polling
<1> QED BY <1>1, <1>2, <1>3 DEF IInv

\* What the scheduler and the DALiuGE manager can say of the latest intent.
LEMMA Answers ==
  ASSUME IInv, intents # 0
  PROVE  /\ SchedulerSays(intents) # {} => Taken
         /\ SchedulerSays(intents) \subseteq SeenOfJob
         /\ SessionSays(intents) \subseteq SeenOfSession \cup {"not_created"}
         /\ SessionSays(intents) # {"not_created"} => Taken
<1>1. call[intents] \in CallState
  BY DEF IInv, TypeOK, Intents
<1>2. CASE call[intents] = "active"
  BY <1>2 DEF SchedulerSays, SessionSays, SeenOfJob, SeenOfSession, Taken, Accepted, Ended
<1>3. CASE call[intents] = "succeeded"
  BY <1>3 DEF SchedulerSays, SessionSays, SeenOfJob, SeenOfSession, Taken, Accepted, Ended
<1>4. CASE call[intents] \in {"failed", "cancelled"}
  BY <1>4 DEF SchedulerSays, SessionSays, SeenOfJob, SeenOfSession, Taken, Accepted, Ended
<1>5. CASE call[intents] \in {"unused", "sent", "rejected"}
  BY <1>5 DEF SchedulerSays, SessionSays, Ended
<1> QED BY <1>1, <1>2, <1>3, <1>4, <1>5 DEF CallState, Accepted, Ended

LEMMA QueryStep ==
  ASSUME IInv, LookupQuery \/ PollQuery \/ SessionQuery
  PROVE  IInv'
<1>1. UNCHANGED <<row, outside, negatives, polling>>
  BY DEF LookupQuery, PollQuery, SessionQuery
<1>2. intents \in 0..MaxIntents /\ row.jobId \in 0..MaxIntents
  BY DEF IInv, TypeOK, Row
<1>3. {"lookup", "apply"} \subseteq PollSteps
      /\ SeenOfJob \cup SeenOfSession \cup {"not_created", "not_found", "error"} \subseteq Seen
  BY DEF PollSteps, Seen, SeenOfJob, SeenOfSession, Ended, SchedulerState, DaliugeState
<1>4. (Taken' <=> Taken) /\ Backend' = Backend
  BY <1>1 DEF Taken, outside, Backend
<1>5. CASE LookupQuery
  <2>1. intents # 0 /\ Backend = "slurm"
    BY <1>5 DEF LookupQuery, LookupDue, Unresolved, IInv, RowInv
  <2>2. PICK seen \in LookupAnswers :
          poll' = [pc |-> "lookup", seen |-> seen, of |-> intents]
    BY <1>5 DEF LookupQuery, Polled
  <2>3. seen = "not_found" \/ (seen \in SeenOfJob /\ Taken)
    BY <2>1, Answers DEF LookupAnswers
  <2>4. poll' \in Poll
    BY <1>2, <1>3, <2>2, <2>3, PollTyped
  <2>5. PollInv'
    BY <1>4, <2>1, <2>2, <2>3 DEF PollInv
  <2> QED BY <1>1, <2>4, <2>5, QueryHolds
<1>6. CASE PollQuery
  <2>1. row.jobId = intents /\ intents # 0 /\ Taken /\ Backend = "slurm"
    BY <1>6 DEF PollQuery, PollDue, IInv, RowInv
  <2>2. PICK seen \in SchedulerSays(intents) \cup {"error"} :
          poll' = [pc |-> "apply", seen |-> seen, of |-> intents]
    BY <1>6, <2>1 DEF PollQuery, Polled
  <2>3. seen = "error" \/ seen \in SeenOfJob
    BY <2>1, <2>2, Answers
  <2>4. poll' \in Poll
    BY <1>2, <1>3, <2>2, <2>3, PollTyped
  <2>5. PollInv'
    BY <1>4, <2>1, <2>2, <2>3 DEF PollInv
  <2> QED BY <1>1, <2>4, <2>5, QueryHolds
<1>7. CASE SessionQuery
  <2>1. intents # 0 /\ Backend = "daliuge"
    BY <1>7 DEF SessionQuery, SessionDue, IInv, RowInv
  <2>2. PICK seen \in SessionSays(intents) \cup {"error"} :
          poll' = [pc |-> "apply", seen |-> seen, of |-> intents]
    BY <1>7 DEF SessionQuery, Polled
  <2>3. seen \in {"error", "not_created"} \/ (seen \in SeenOfSession /\ Taken)
    <3>1. CASE SessionSays(intents) = {"not_created"}
      BY <2>2, <3>1
    <3>2. CASE SessionSays(intents) # {"not_created"}
      BY <2>1, <2>2, <3>2, Answers
    <3> QED BY <3>1, <3>2
  <2>4. poll' \in Poll
    BY <1>2, <1>3, <2>2, <2>3, PollTyped
  <2>5. PollInv'
    BY <1>4, <2>1, <2>2, <2>3 DEF PollInv
  <2> QED BY <1>1, <2>4, <2>5, QueryHolds
<1> QED BY <1>5, <1>6, <1>7

\* A patch of the two observed axes with what the backend took, or with what says
\* nothing of it.
LEMMA ObservedIsTame ==
  ASSUME IInv, NEW scheduler \in SchedulerState, NEW daliuge \in DaliugeState,
         scheduler \in {row.scheduler, "not_submitted", "unknown"} \/ Taken,
         daliuge \in {row.daliuge, "not_created", "unreachable"} \/ Taken,
         StatePatch([row EXCEPT !.scheduler = scheduler, !.daliuge = daliuge])
  PROVE  row' \in Row /\ TameRow
<1> DEFINE axes == [row EXCEPT !.scheduler = scheduler, !.daliuge = daliuge]
<1>1. TypeOK /\ row \in Row /\ axes \in Row
  BY DEF IInv, TypeOK, Row
<1>2. /\ row' \in Row
      /\ \/ row' = row
         \/ /\ RowOutside(row') = RowOutside(axes)
            /\ row'.status = "cancelled" => Cancellation(axes)
  BY <1>1, StatePatchStep
<1>3. CASE row' = row
  BY <1>3, SameRowIsTame
<1>4. CASE RowOutside(row') = RowOutside(axes) /\ (row'.status = "cancelled" => Cancellation(axes))
  <2>1. /\ row'.submission = row.submission /\ row'.deployment = row.deployment
        /\ row'.jobId = row.jobId /\ row'.graph = row.graph
        /\ row'.scheduler = scheduler /\ row'.daliuge = daliuge
        /\ row'.named = row.named /\ row'.abandoned = row.abandoned
    BY <1>1, <1>4 DEF RowOutside, Row
  <2>2. Cancellation(axes) => Cancellation(row) \/ Taken
    BY <1>1 DEF Cancellation, Row
  <2> QED BY <1>2, <1>4, <2>1, <2>2, CancellationIsAnswered, TakenIsAnswered DEF TameRow
<1> QED BY <1>2, <1>3, <1>4

\* Applying what was seen, or that nothing was.
LEMMA ApplyStep ==
  ASSUME IInv, ApplyJobStatus \/ JobStatusFails \/ ApplySessionStatus \/ SessionStatusFails
  PROVE  IInv'
<1>1. TypeOK /\ row \in Row /\ negatives \in 0..NegativeLookups
      /\ pollFaults \in 0..MaxPollFaults /\ poll \in Poll
  BY DEF IInv, TypeOK
<1>2. UNCHANGED <<outside, negatives, polling>>
  BY DEF ApplyJobStatus, JobStatusFails, ApplySessionStatus, SessionStatusFails
<1>3. poll.pc = "apply"
  BY DEF ApplyJobStatus, JobStatusFails, ApplySessionStatus, SessionStatusFails
<1>4. poll' \in Poll /\ TamePoll
  <2>1. poll' = NoPoll \/ poll' = [pc |-> "exhausted", seen |-> poll.seen, of |-> poll.of]
    BY DEF ApplyJobStatus, JobStatusFails, ApplySessionStatus, SessionStatusFails, Polled
  <2>2. poll.seen \in Seen /\ poll.of \in 0..MaxIntents /\ "exhausted" \in PollSteps
    BY <1>1 DEF Poll, PollSteps
  <2>3. poll'.pc \in {"idle", "exhausted"}
    BY <2>1, PollTyped
  <2> QED BY <2>1, <2>2, <2>3, PollTyped DEF TamePoll
<1>5. row' \in Row /\ TameRow
  <2>1. CASE ApplyJobStatus
    <3> DEFINE daliuge == IF poll.seen = "succeeded" THEN "finished" ELSE row.daliuge
    <3>1. poll.seen \in SeenOfJob /\ Taken
      BY <1>3, <2>1 DEF ApplyJobStatus, IInv, PollInv
    <3>2. poll.seen \in SchedulerState /\ daliuge \in DaliugeState
      BY <1>1, <3>1 DEF SeenOfJob, Ended, SchedulerState, DaliugeState, Row
    <3>3. StatePatch([row EXCEPT !.scheduler = poll.seen, !.daliuge = daliuge])
      BY <2>1 DEF ApplyJobStatus, ObservedJob
    <3> HIDE DEF daliuge
    <3> QED BY <3>1, <3>2, <3>3, ObservedIsTame
  <2>2. CASE JobStatusFails
    BY <2>2, StatePatchIsTame DEF JobStatusFails
  <2>3. ASSUME NEW daliuge \in DaliugeState, daliuge \in {"not_created", "unreachable"} \/ Taken,
               StatePatch([row EXCEPT !.daliuge = daliuge])
        PROVE  row' \in Row /\ TameRow
    <3>1. row.scheduler \in SchedulerState
      BY <1>1 DEF Row
    <3>2. [row EXCEPT !.daliuge = daliuge]
            = [row EXCEPT !.scheduler = row.scheduler, !.daliuge = daliuge]
      BY <1>1 DEF Row
    <3> QED BY <2>3, <3>1, <3>2, ObservedIsTame
  <2>4. CASE ApplySessionStatus
    <3>1. poll.seen = "not_created" \/ (poll.seen \in SeenOfSession /\ Taken)
      BY <1>3, <2>4 DEF ApplySessionStatus, IInv, PollInv
    <3>2. poll.seen \in DaliugeState
      BY <3>1 DEF SeenOfSession, DaliugeState
    <3> QED BY <2>3, <2>4, <3>1, <3>2 DEF ApplySessionStatus
  <2>5. CASE SessionStatusFails
    BY <2>3, <2>5 DEF SessionStatusFails, DaliugeState
  <2> QED BY <2>1, <2>2, <2>4, <2>5
<1> QED BY <1>1, <1>2, <1>4, <1>5, PollIsTame DEF polling

\* A name lookup files what it found on the latest intent's row.
LEMMA LookupStep ==
  ASSUME IInv, RecordNotFound \/ RecordMatch
  PROVE  IInv'
<1>1. /\ TypeOK /\ row \in Row /\ poll \in Poll /\ negatives \in 0..NegativeLookups
      /\ pollFaults \in 0..MaxPollFaults
  BY DEF IInv, TypeOK
<1>2. CASE RecordNotFound
  <2>1. row' = row \/ row' = [row EXCEPT !.scheduler = "unknown"]
    BY <1>2 DEF RecordNotFound
  <2>2. row' \in Row /\ TameRow
    <3>1. CASE row' = row
      BY <3>1, SameRowIsTame
    <3>2. CASE row' = [row EXCEPT !.scheduler = "unknown"]
      BY <1>1, <3>2 DEF Row, SchedulerState, TameRow, IInv, RowInv
    <3> QED BY <2>1, <3>1, <3>2
  <2>3. negatives' \in 0..NegativeLookups
    BY <1>1, <1>2, LedgerAssumption DEF RecordNotFound, MoreNegatives
  <2>4. poll' = NoPoll
    BY <1>2 DEF RecordNotFound
  <2> QED BY <1>1, <1>2, <2>2, <2>3, <2>4, PollTyped, PollIsTame
          DEF RecordNotFound, polling, TamePoll
<1>3. CASE RecordMatch
  <2>1. /\ poll.pc = "lookup" /\ poll.seen # "not_found"
        /\ poll.seen \in SeenOfJob /\ Taken /\ poll.of \in 0..MaxIntents
    BY <1>1, <1>3 DEF RecordMatch, IInv, PollInv, Poll
  <2>2. ASSUME ~MatchIgnored PROVE row' \in Row /\ TameRow
    <3> DEFINE submission == IF row.abandoned THEN row.submission ELSE "uncertain"
    <3>1. poll.of = intents /\ row' = MatchedRow
      BY <1>3, <2>2 DEF RecordMatch, MatchIgnored, LookupOutdated
    <3>2. row' = [row EXCEPT !.jobId = poll.of, !.scheduler = poll.seen,
                             !.submission = submission]
      BY <3>1 DEF MatchedRow
    <3>3. /\ submission \in {row.submission, "uncertain"}
          /\ submission \in SubmissionState /\ poll.seen \in SchedulerState
      BY <1>1, <2>1 DEF Row, SubmissionState, SchedulerState, SeenOfJob, Ended
    <3>4. row.status = "cancelled" => \A i \in Intents : call[i] # "sent"
      BY DEF IInv, RowInv
    <3> HIDE DEF submission
    <3>5. /\ row' \in Row /\ row'.jobId = intents /\ row'.submission = submission
          /\ row'.status = row.status /\ row'.deployment = row.deployment
          /\ row'.named = row.named /\ row'.abandoned = row.abandoned
          /\ row'.graph = row.graph /\ row'.daliuge = row.daliuge
      BY <1>1, <2>1, <3>1, <3>2, <3>3 DEF Row
    <3> QED BY <2>1, <3>3, <3>4, <3>5 DEF TameRow
  <2>3. row' \in Row /\ TameRow
    BY <1>3, <2>2, SameRowIsTame DEF RecordMatch
  <2>4. poll' \in Poll /\ TamePoll
    <3>1. poll' = NoPoll \/ poll' = [poll EXCEPT !.pc = "apply"]
      BY <1>3 DEF RecordMatch
    <3>2. [poll EXCEPT !.pc = "apply"] \in Poll
      BY <1>1 DEF Poll, PollSteps
    <3> QED BY <1>1, <2>1, <3>1, <3>2, PollTyped DEF TamePoll, Poll
  <2> QED BY <1>1, <1>3, <2>3, <2>4, PollIsTame DEF RecordMatch, polling
<1> QED BY <1>2, <1>3

\* The last round of a session's poll, and the death of a tick.
LEMMA PollEndStep ==
  ASSUME IInv, PollExhausted \/ PollExpire \/ PollDies
  PROVE  IInv'
<1>1. /\ TypeOK /\ row \in Row /\ poll \in Poll /\ negatives \in 0..NegativeLookups
      /\ pollFaults \in 0..MaxPollFaults
  BY DEF IInv, TypeOK
<1>2. CASE PollExhausted
  <2>1. row' \in Row /\ TameRow
    BY <1>2, StatePatchIsTame DEF PollExhausted
  <2>2. poll' = [pc |-> "expire", seen |-> poll.seen, of |-> poll.of]
    BY <1>2 DEF PollExhausted, Polled
  <2>3. poll' \in Poll /\ TamePoll
    BY <1>1, <2>2, PollTyped DEF Poll, PollSteps, TamePoll
  <2> QED BY <1>1, <1>2, <2>1, <2>3, PollIsTame DEF PollExhausted, polling
<1>3. CASE PollExpire
  <2>1. row' \in Row /\ TameRow
    <3>1. CASE row' = row
      BY <3>1, SameRowIsTame
    <3>2. CASE row' # row
      <4> DEFINE phase == IF row.status \in LockedTerminal THEN row.phase ELSE "none"
      <4>1. LedgerPatch("failed", phase, row.manifest)
        BY <1>3, <3>2 DEF PollExpire
      <4>2. "failed" \in Status \ {"cancelled"} /\ phase \in Phase /\ row.manifest \in BOOLEAN
        BY <1>1 DEF Status, Phase, Row
      <4> HIDE DEF phase
      <4> QED BY <4>1, <4>2, LedgerPatchIsTame
    <3> QED BY <3>1, <3>2
  <2>2. poll' = NoPoll
    BY <1>3 DEF PollExpire
  <2> QED BY <1>1, <1>3, <2>1, <2>2, PollTyped, PollIsTame DEF PollExpire, polling, TamePoll
<1>4. CASE PollDies
  <2>1. row' \in Row /\ TameRow
    BY <1>4, SameRowIsTame DEF PollDies
  <2>2. pollFaults' \in 0..MaxPollFaults /\ poll' = NoPoll
    BY <1>1, <1>4, LedgerAssumption DEF PollDies
  <2> QED BY <1>1, <1>4, <2>1, <2>2, PollTyped, PollIsTame DEF PollDies, TamePoll
<1> QED BY <1>2, <1>3, <1>4

----------------------------------------------------------------------------
(* The operator                                                             *)

\* Cancelled jobs are jobs.
LEMMA CancelledJobsTyped ==
  ASSUME TypeOK, ActiveJobsCancelled
  PROVE  job' \in [Attempts -> ExecuteJob]
<1>1. ASSUME NEW n \in Attempts
      PROVE  job'[n] \in ExecuteJob
  <2>1. job'[n] = IF Active(n) THEN [NoJob(job[n].submit) EXCEPT !.status = "cancelled"]
                              ELSE job[n]
    BY <1>1 DEF ActiveJobsCancelled
  <2>2. job[n] \in ExecuteJob
    BY DEF TypeOK
  <2> QED BY <2>1, <2>2 DEF NoJob, ExecuteJob
<1> QED BY <1>1 DEF ActiveJobsCancelled

\* An operator's patch of the row that cancels jobs or not.
LEMMA OperatorIsTame ==
  ASSUME IInv, row' \in Row, TameRow, job' \in [Attempts -> ExecuteJob],
         cancel' \in Cancel, TameCancel, negatives' \in 0..NegativeLookups,
         UNCHANGED <<run, outside, poll, faults, pollFaults>>
  PROVE  IInv'
<1>1. TypeOK'
  BY DEF IInv, TypeOK, outside
<1>2. Tame
  BY DEF Tame, TameRun, TamePoll, outside
<1> QED BY <1>1, <1>2, TameStep

\* A confirmed cancellation is of the latest submission.
LEMMA ConfirmedIsTaken ==
  ASSUME IInv, Confirmed
  PROVE  Taken
BY DEF IInv, TypeOK, Cancel, Confirmed, CancelInv, HeldInv, MayExist, Taken, Intents

LEMMA CancelStep ==
  ASSUME IInv, CancelRequest \/ CancelExternal \/ CancelCommit
  PROVE  IInv'
<1>1. /\ TypeOK /\ row \in Row /\ job \in [Attempts -> ExecuteJob] /\ cancel \in Cancel
      /\ negatives \in 0..NegativeLookups
  BY DEF IInv, TypeOK
<1>2. /\ NoCancel \in Cancel /\ NoCancel.pc = "idle"
      /\ \A pc \in {"local", "external"} : [NoCancel EXCEPT !.pc = pc] \in Cancel
                                           /\ [NoCancel EXCEPT !.pc = pc].pc = pc
      /\ \A of \in 0..MaxIntents : [pc |-> "confirmed", of |-> of] \in Cancel
  BY LedgerAssumption DEF NoCancel, Cancel
<1>3. CASE CancelRequest
  <2>1. PICK pc \in {"local", "external"} : cancel' = [NoCancel EXCEPT !.pc = pc]
    BY <1>3 DEF CancelRequest
  <2>2. cancel' \in Cancel /\ TameCancel
    BY <1>2, <2>1 DEF TameCancel
  <2>3. UNCHANGED <<row, job, run, outside, poll, negatives, faults, pollFaults>>
    BY <1>3 DEF CancelRequest, operating, outside
  <2> QED BY <1>1, <2>2, <2>3, SameRowIsTame, OperatorIsTame
<1>4. CASE CancelExternal
  <2> DEFINE of == IF Backend = "slurm" THEN row.jobId ELSE IF row.named THEN intents ELSE 0
  <2>1. UNCHANGED <<row, job, run, intents, poll, negatives, faults, pollFaults>>
    BY <1>4 DEF CancelExternal
  <2>2. CASE cancel' = NoCancel /\ UNCHANGED call
    BY <1>1, <1>2, <2>1, <2>2, SameRowIsTame, OperatorIsTame DEF TameCancel, outside
  <2>3. CASE ~(cancel' = NoCancel /\ UNCHANGED call)
    <3>1. /\ of # 0 /\ call[of] \in {"active", "cancelled"}
          /\ call' = [call EXCEPT ![of] = "cancelled"]
          /\ cancel' = [pc |-> "confirmed", of |-> of]
      BY <1>4, <2>3 DEF CancelExternal
    <3>2. of \in 0..MaxIntents /\ of \in Intents
      BY <1>1, <3>1 DEF TypeOK, Row, Intents
    <3> HIDE DEF of
    <3> QED BY <1>2, <2>1, <3>1, <3>2, CallStep DEF MayExist, Accepted, Ended
  <2> QED BY <2>2, <2>3
<1>5. CASE CancelCommit
  <2>1. /\ UNCHANGED <<run, outside, poll, faults, pollFaults>>
        /\ cancel' \in Cancel /\ TameCancel
    BY <1>2, <1>5 DEF CancelCommit, TameCancel
  <2>2. negatives' \in 0..NegativeLookups
    BY <1>1, <1>5, LedgerAssumption DEF CancelCommit
  <2>3. CASE ~CancelAllowed
    BY <1>1, <1>5, <2>1, <2>2, <2>3, SameRowIsTame, OperatorIsTame DEF CancelCommit
  <2>4. CASE CancelAllowed
    <3>1. row' = CancelledRow /\ job' \in [Attempts -> ExecuteJob]
      BY <1>1, <1>5, <2>4, CancelledJobsTyped DEF CancelCommit
    <3>2. \A i \in Intents : call[i] # "sent"
      <4>1. CASE row.submission \in Pending
        <5>1. Taken
          BY <2>4, <4>1 DEF CancelAllowed, RecoveredUncertain, Pending, IInv, RowInv
        <5> QED BY <5>1, TakenIsAnswered
      <4>2. CASE row.submission \notin Pending
        BY <4>2 DEF IInv, HeldInv, MayExist
      <4> QED BY <4>1, <4>2
    <3> DEFINE scheduler == IF Confirmed /\ Backend = "slurm" THEN "cancelled" ELSE row.scheduler
               daliuge == IF Confirmed /\ Backend = "daliuge" THEN "cancelled" ELSE row.daliuge
    <3>3. row' = [row EXCEPT !.status = "cancelled", !.phase = "none",
                             !.outcome = "cancelled", !.scheduler = scheduler,
                             !.daliuge = daliuge]
      BY <3>1 DEF CancelledRow
    <3>4. /\ scheduler \in SchedulerState /\ daliuge \in DaliugeState
          /\ scheduler = row.scheduler \/ Taken
          /\ daliuge = row.daliuge \/ Taken
      BY <1>1, ConfirmedIsTaken DEF Row, SchedulerState, DaliugeState
    <3> HIDE DEF scheduler, daliuge
    <3>5. row' \in Row /\ TameRow
      BY <1>1, <3>2, <3>3, <3>4 DEF Row, Status, Phase, Outcome, TameRow
    <3> QED BY <2>1, <2>2, <3>1, <3>5, OperatorIsTame
  <2> QED BY <2>3, <2>4
<1> QED BY <1>3, <1>4, <1>5

LEMMA OperatorStep ==
  ASSUME IInv, Operator
  PROVE  IInv'
<1>1. /\ TypeOK /\ row \in Row /\ job \in [Attempts -> ExecuteJob] /\ cancel \in Cancel
      /\ negatives \in 0..NegativeLookups
  BY DEF IInv, TypeOK
<1>2. CASE CancelRequest \/ CancelExternal \/ CancelCommit
  BY <1>2, CancelStep
<1>3. CASE Abandon
  <2>1. row' = AbandonedRow /\ job' \in [Attempts -> ExecuteJob] /\ row.named
    BY <1>1, <1>3, CancelledJobsTyped DEF Abandon, MayAbandon, Unresolved
  <2>2. row' \in Row /\ TameRow
    BY <1>1, <2>1 DEF AbandonedRow, Row, Status, Phase, Outcome, TameRow
  <2> QED BY <1>1, <1>3, <2>1, <2>2, OperatorIsTame DEF Abandon, TameCancel
<1>4. CASE Retry
  <2>1. /\ row.submission \notin Holds /\ row.retries < MaxRetries
        /\ row' = Retried /\ RetryJobQueued /\ negatives' = 0
        /\ UNCHANGED <<run, outside, poll, cancel, faults, pollFaults>>
    BY <1>4 DEF Retry, RetryAccepted, RetrySafe, Holds
  <2>2. row.retries + 1 \in Attempts
    BY <1>1, <2>1, LedgerAssumption DEF Row, Attempts
  <2>3. job' \in [Attempts -> ExecuteJob]
    BY <1>1, <2>1, <2>2 DEF RetryJobQueued, ExecuteJob
  <2>4. RetryStage(row) \in Phase /\ InitialOutputs(OutputRequired) \in OutputState
    BY DEF RetryStage, Phase, InitialOutputs, OutputState
  <2>5. /\ row' \in Row /\ row'.jobId = 0 /\ row'.submission = "not_started"
        /\ row'.scheduler = "not_submitted" /\ row'.daliuge = "not_created"
        /\ row'.graph = row.graph /\ row'.deployment = row.deployment
        /\ ~row'.named /\ row'.abandoned = row.abandoned
    <3> DEFINE stage == RetryStage(row)
               outputs == InitialOutputs(OutputRequired)
               retries == row.retries + 1
    <3>1. row' = [row EXCEPT !.status = "retrying", !.phase = stage,
                             !.submission = "not_started", !.scheduler = "not_submitted",
                             !.daliuge = "not_created", !.outputs = outputs,
                             !.outcome = "none", !.jobId = 0, !.named = FALSE,
                             !.retries = retries]
      BY <2>1 DEF Retried
    <3>2. /\ "retrying" \in Status /\ "none" \in Outcome /\ "not_started" \in SubmissionState
          /\ "not_submitted" \in SchedulerState /\ "not_created" \in DaliugeState
          /\ 0 \in 0..MaxIntents
      BY LedgerAssumption DEF Status, Outcome, SubmissionState, SchedulerState, DaliugeState
    <3>3. stage \in Phase /\ outputs \in OutputState /\ retries \in Attempts
      BY <2>2, <2>4
    <3> HIDE DEF stage, outputs, retries
    <3> QED BY <1>1, <3>1, <3>2, <3>3 DEF Row
  <2>6. TypeOK'
    BY <2>1, <2>3, <2>5, LedgerAssumption DEF IInv, TypeOK, outside
  <2>7. ~row'.graph
    BY <2>1, <2>5, NothingOutside, UntakenRow
  <2> QED BY <2>1, <2>5, <2>6, <2>7, NothingOutside, EmptyStep
          DEF Calling, TamePoll, TameCancel
<1>5. CASE VerifyOutputs
  <2>1. row' \in Row /\ RowOutside(row') = RowOutside(row) /\ row'.status = "completed"
    BY <1>1, <1>5 DEF VerifyOutputs, VerifiedRow, Row, Status, Phase, Outcome, OutputState,
                      RowOutside
  <2> QED BY <1>1, <1>5, <2>1, TameRows, OperatorIsTame
          DEF VerifyOutputs, elsewhere, TameCancel
<1> QED BY <1>2, <1>3, <1>4, <1>5 DEF Operator

----------------------------------------------------------------------------
(* What no step takes back                                                  *)

\* A final status and an abandonment stay.
Kept ==
    /\ row.status \in LockedTerminal => row'.status = row.status
    /\ row.abandoned => row'.abandoned

LEMMA StatePatchKeeps ==
  ASSUME TypeOK, NEW axes \in Row, axes.abandoned = row.abandoned, StatePatch(axes)
  PROVE  Kept
<1>1. \/ row' = row
      \/ row.status \notin Terminal /\ row'.abandoned = row.abandoned
  BY StatePatchStep DEF RowOutside
<1> QED BY <1>1 DEF Kept, LockedTerminal, Terminal

LEMMA LedgerPatchKeeps ==
  ASSUME TypeOK, NEW next, NEW phase, NEW manifest, LedgerPatch(next, phase, manifest)
  PROVE  Kept
<1> DEFINE status == IF row.status \in LockedTerminal THEN row.status ELSE next
           outcome == IF row.outcome = "none" THEN VerdictOf(status) ELSE row.outcome
<1>1. row' = [row EXCEPT !.status = status, !.phase = phase, !.outcome = outcome,
                         !.manifest = manifest]
  BY DEF LedgerPatch
<1>2. row.status \in LockedTerminal => status = row.status
  OBVIOUS
<1>3. row \in Row
  BY DEF TypeOK
<1> HIDE DEF status, outcome
<1>4. row'.status = status /\ row'.abandoned = row.abandoned
  BY <1>1, <1>3 DEF Row
<1> QED BY <1>2, <1>4 DEF Kept

\* A receipt for a row that is final fills in its artifacts only.
LEMMA ReceiptKeeps ==
  ASSUME TypeOK, NEW h \in Handlers, RecordReceipt(h)
  PROVE  Kept
<1> DEFINE i == run[h].intent
<1>1. row \in Row
  BY DEF TypeOK
<1>2. Receipted(i).status = row.status /\ Receipted(i).abandoned = row.abandoned
  <2> DEFINE id == IF Backend = "slurm" THEN i ELSE 0
             submission == IF row.abandoned THEN row.submission ELSE "submitted"
  <2>1. Receipted(i) = [row EXCEPT !.jobId = id, !.graph = TRUE, !.manifest = TRUE,
                                   !.submission = submission]
    BY DEF Receipted
  <2> HIDE DEF id, submission
  <2> QED BY <1>1, <2>1 DEF Row
<1>3. LiveReceipt(i).abandoned = row.abandoned
  <2> DEFINE status == ReceiptStatus(i)
             scheduler == SchedulerReceived(i)
  <2>1. LiveReceipt(i) =
          [Receipted(i) EXCEPT !.status = status, !.phase = "submit", !.outcome = "none",
                               !.scheduler = scheduler, !.daliuge = SessionReceived]
    BY DEF LiveReceipt
  <2> DEFINE filed == Receipted(i)
             daliuge == SessionReceived
  <2>2. filed.abandoned = row.abandoned
    BY <1>2
  <2>3. LiveReceipt(i) =
          [filed EXCEPT !.status = status, !.phase = "submit", !.outcome = "none",
                        !.scheduler = scheduler, !.daliuge = daliuge]
    BY <2>1
  <2>4. "abandoned" \in DOMAIN filed
    BY <1>1 DEF Receipted, Row
  <2> HIDE DEF status, scheduler, filed, daliuge
  <2> QED BY <2>2, <2>3, <2>4
<1>4. CASE row.status \in Terminal
  <2>1. row' = row \/ row' = Receipted(i)
    BY <1>4 DEF RecordReceipt
  <2> QED BY <1>2, <2>1 DEF Kept
<1>5. CASE row.status \notin Terminal
  <2>1. row' = row \/ row' = LiveReceipt(i)
    BY <1>5 DEF RecordReceipt
  <2> QED BY <1>3, <1>5, <2>1 DEF Kept, Terminal, LockedTerminal
<1> QED BY <1>4, <1>5

LEMMA HandlerKeeps ==
  ASSUME TypeOK, NEW h \in Handlers, HandlerStep(h)
  PROVE  Kept
<1>1. row \in Row /\ (row' = row => Kept)
  BY DEF TypeOK, Kept
<1>2. \A state \in SubmissionState :
        /\ [row EXCEPT !.submission = state] \in Row
        /\ [row EXCEPT !.submission = state].abandoned = row.abandoned
  BY <1>1 DEF Row
<1>3. [row EXCEPT !.outcome = "failed"] \in Row
      /\ [row EXCEPT !.outcome = "failed"].abandoned = row.abandoned
  BY <1>1 DEF Row, Outcome
<1>4. ASSUME NEW status, NEW phase, NEW manifest, NEW next,
             LedgerStep(h, status, phase, manifest, next)
      PROVE  Kept
  BY <1>1, <1>4, LedgerPatchKeeps DEF LedgerStep
<1>5. CASE Read(h) \/ BodyFails(h) \/ Preflight(h) \/ Stage(h) \/ Recheck(h)
           \/ BeginRefused(h) \/ Failing(h)
  BY <1>1, <1>5 DEF Read, BodyFails, Preflight, Stage, Recheck, BeginRefused, Failing, Checked
<1>6. CASE Resume(h) \/ Start(h) \/ FinishUnsubmitted(h)
  BY <1>4, <1>6 DEF Resume, Start, FinishUnsubmitted
<1>7. CASE Admit(h) \/ StoreArtifacts(h)
  BY <1>1, <1>7, StatePatchKeeps DEF Admit, StoreArtifacts
<1>8. CASE PinManifest(h)
  BY <1>1, <1>8 DEF PinManifest, Row, Kept
<1>9. CASE BeginSubmission(h)
  <2>1. row' = [row EXCEPT !.submission = "in_flight", !.named = TRUE,
                           !.daliuge = "not_created"]
    BY <1>9 DEF BeginSubmission, IntentRow
  <2> QED BY <1>1, <2>1 DEF Row, Kept
<1>10. CASE RecordRejection(h) \/ RecordUncertain(h) \/ HoldSubmission(h)
  <2>1. row' = row \/ \E state \in {"failed", "uncertain"} :
                         StatePatch([row EXCEPT !.submission = state])
    BY <1>10 DEF RecordRejection, RecordUncertain, HoldSubmission
  <2> QED BY <1>1, <1>2, <2>1, StatePatchKeeps DEF SubmissionState
<1>11. CASE RecordReceipt(h)
  BY <1>11, ReceiptKeeps
<1>12. CASE FailAxes(h)
  BY <1>3, <1>12, StatePatchKeeps DEF FailAxes
<1>13. CASE FailLedger(h)
  BY <1>1, <1>13, LedgerPatchKeeps DEF FailLedger
<1> QED BY <1>5, <1>6, <1>7, <1>8, <1>9, <1>10, <1>11, <1>12, <1>13 DEF HandlerStep

LEMMA PollerKeeps ==
  ASSUME IInv, Poller \/ PollDies
  PROVE  Kept
<1>1. TypeOK /\ row \in Row /\ (row' = row => Kept)
  BY DEF IInv, TypeOK, Kept
<1>2. CASE LookupQuery \/ PollQuery \/ SessionQuery \/ PollDies
  BY <1>1, <1>2 DEF LookupQuery, PollQuery, SessionQuery, PollDies
<1>3. CASE RecordNotFound
  <2>1. row' = row \/ row' = [row EXCEPT !.scheduler = "unknown"]
    BY <1>3 DEF RecordNotFound
  <2> QED BY <1>1, <2>1 DEF Row, Kept
<1>4. CASE RecordMatch
  <2> DEFINE submission == IF row.abandoned THEN row.submission ELSE "uncertain"
  <2>1. row' = row \/ row' = [row EXCEPT !.jobId = poll.of, !.scheduler = poll.seen,
                                         !.submission = submission]
    BY <1>4 DEF RecordMatch, MatchedRow
  <2> HIDE DEF submission
  <2> QED BY <1>1, <2>1 DEF Row, Kept
<1>5. CASE ApplyJobStatus
  <2> DEFINE daliuge == IF poll.seen = "succeeded" THEN "finished" ELSE row.daliuge
             axes == [row EXCEPT !.scheduler = poll.seen, !.daliuge = daliuge]
  <2>1. poll.seen \in SchedulerState
    BY <1>5 DEF ApplyJobStatus, IInv, PollInv, SeenOfJob, Ended, SchedulerState
  <2>2. daliuge \in DaliugeState
    BY <1>1 DEF Row, DaliugeState
  <2>3. StatePatch(axes)
    BY <1>5 DEF ApplyJobStatus, ObservedJob
  <2> HIDE DEF daliuge
  <2>4. axes \in Row /\ axes.abandoned = row.abandoned
    BY <1>1, <2>1, <2>2 DEF Row
  <2> HIDE DEF axes
  <2> QED BY <1>1, <2>3, <2>4, StatePatchKeeps
<1>6. CASE JobStatusFails \/ PollExhausted
  BY <1>1, <1>6, StatePatchKeeps DEF JobStatusFails, PollExhausted
<1>7. CASE ApplySessionStatus \/ SessionStatusFails
  <2>1. PICK daliuge \in DaliugeState : StatePatch([row EXCEPT !.daliuge = daliuge])
    BY <1>7 DEF ApplySessionStatus, SessionStatusFails, IInv, PollInv, SeenOfSession,
                DaliugeState
  <2>2. [row EXCEPT !.daliuge = daliuge] \in Row
        /\ [row EXCEPT !.daliuge = daliuge].abandoned = row.abandoned
    BY <1>1 DEF Row
  <2> QED BY <1>1, <2>1, <2>2, StatePatchKeeps
<1>8. CASE PollExpire
  BY <1>1, <1>8, LedgerPatchKeeps DEF PollExpire
<1> QED BY <1>2, <1>3, <1>4, <1>5, <1>6, <1>7, <1>8 DEF Poller

LEMMA OperatorKeeps ==
  ASSUME TypeOK, Operator
  PROVE  Kept
<1>1. row \in Row /\ (row' = row => Kept)
  BY DEF TypeOK, Kept
<1>2. CASE CancelRequest \/ CancelExternal
  BY <1>1, <1>2 DEF CancelRequest, CancelExternal, operating
<1>3. CASE CancelCommit
  <2> DEFINE scheduler == IF Confirmed /\ Backend = "slurm" THEN "cancelled" ELSE row.scheduler
             daliuge == IF Confirmed /\ Backend = "daliuge" THEN "cancelled" ELSE row.daliuge
  <2>1. CASE CancelAllowed
    <3>1. row' = [row EXCEPT !.status = "cancelled", !.phase = "none",
                             !.outcome = "cancelled", !.scheduler = scheduler,
                             !.daliuge = daliuge]
      BY <1>3, <2>1 DEF CancelCommit, CancelledRow
    <3>2. row.status # "completed"
      BY <2>1 DEF CancelAllowed
    <3> HIDE DEF scheduler, daliuge
    <3> QED BY <1>1, <3>1, <3>2 DEF Row, Kept, LockedTerminal
  <2>2. CASE ~CancelAllowed
    BY <1>1, <1>3, <2>2 DEF CancelCommit
  <2> QED BY <2>1, <2>2
<1>4. CASE Abandon
  <2>1. row.status \notin Terminal /\ row' = AbandonedRow
    BY <1>4 DEF Abandon, MayAbandon, Unresolved
  <2> QED BY <1>1, <2>1 DEF AbandonedRow, Row, Kept, Terminal, LockedTerminal
<1>5. CASE Retry
  <2> DEFINE stage == RetryStage(row)
             outputs == InitialOutputs(OutputRequired)
             retries == row.retries + 1
  <2>1. row' = [row EXCEPT !.status = "retrying", !.phase = stage,
                           !.submission = "not_started", !.scheduler = "not_submitted",
                           !.daliuge = "not_created", !.outputs = outputs,
                           !.outcome = "none", !.jobId = 0, !.named = FALSE,
                           !.retries = retries]
    BY <1>5 DEF Retry, Retried
  <2>2. row.status = "failed"
    BY <1>5 DEF Retry, RetryAccepted, RetrySafe
  <2> HIDE DEF stage, outputs, retries
  <2> QED BY <1>1, <2>1, <2>2 DEF Row, Kept, LockedTerminal
<1>6. CASE VerifyOutputs
  BY <1>1, <1>6 DEF VerifyOutputs, VerifiedRow, Row, Kept, Terminal, LockedTerminal
<1> QED BY <1>2, <1>3, <1>4, <1>5, <1>6 DEF Operator

LEMMA StepKeeps == IInv /\ [Next]_vars => Kept
<1> SUFFICES ASSUME IInv, [Next]_vars PROVE Kept
  OBVIOUS
<1>1. TypeOK /\ (row' = row => Kept)
  BY DEF IInv, Kept
<1>2. CASE Queue
  BY <1>1, <1>2 DEF Queue, Deliver, LeaseExpires, Drop, FailJob, Raise, Fails, Settle
<1>3. ASSUME NEW h \in Handlers, HandlerStep(h) PROVE Kept
  BY <1>1, <1>3, HandlerKeeps
<1>4. ASSUME NEW i \in Intents, Answer(i) PROVE Kept
  BY <1>1, <1>4 DEF Answer
<1>5. CASE Poller \/ PollDies
  BY <1>5, PollerKeeps
<1>6. CASE Operator
  BY <1>1, <1>6, OperatorKeeps
<1>7. CASE UNCHANGED vars
  BY <1>1, <1>7 DEF vars
<1> QED BY <1>2, <1>3, <1>4, <1>5, <1>6, <1>7 DEF Next

\* A new intent is persisted only when nothing of the latest one may exist.
LEMMA NewIntent == IInv /\ [Next]_vars =>
    intents' = intents \/ \A i \in Intents : call[i] \notin MayExist
<1> SUFFICES ASSUME IInv, [Next]_vars, \E i \in Intents : call[i] \in MayExist
             PROVE  intents' = intents
  OBVIOUS
<1>1. row.submission \in Holds
  BY DEF IInv, HeldInv
<1>2. CASE Queue
  BY <1>2 DEF Queue, Deliver, LeaseExpires, Drop, FailJob, Raise, Fails, Settle, outside
<1>3. ASSUME NEW h \in Handlers, HandlerStep(h) PROVE intents' = intents
  <2>1. ~BeginSubmission(h)
    BY <1>1 DEF BeginSubmission, MayBegin
  <2> QED BY <1>3, <2>1
          DEF HandlerStep, Read, BodyFails, Preflight, Resume, Admit, Start, Stage,
              StoreArtifacts, FinishUnsubmitted, PinManifest, Recheck, BeginRefused,
              RecordRejection, RecordUncertain, RecordReceipt, Failing, HoldSubmission,
              FailAxes, FailLedger, Checked, LedgerStep, outside
<1>4. ASSUME NEW i \in Intents, Answer(i) PROVE intents' = intents
  BY <1>4 DEF Answer
<1>5. CASE Poller \/ PollDies
  BY <1>5 DEF Poller, PollDies, LookupQuery, RecordNotFound, RecordMatch, PollQuery,
              SessionQuery, ApplyJobStatus, JobStatusFails, ApplySessionStatus,
              SessionStatusFails, PollExhausted, PollExpire, outside
<1>6. CASE Operator
  BY <1>6 DEF Operator, CancelRequest, CancelExternal, CancelCommit, Abandon, Retry,
              VerifyOutputs, operating, outside
<1>7. CASE UNCHANGED vars
  BY <1>7 DEF vars
<1> QED BY <1>2, <1>3, <1>4, <1>5, <1>6, <1>7 DEF Next

----------------------------------------------------------------------------
(* What the ledger knows of an end                                          *)

\* An end that is told of is the end the latest submission had.
Real(end) == end \in Ended => intents # 0 /\ call[intents] = end

AxesReal(r) == Real(r.scheduler) /\ Real(SessionEnd(r.daliuge))

Asking == {"lookup", "apply"}

EndInv ==
    /\ AxesReal(row)
    /\ poll.pc \in Asking => Real(SessionEnd(poll.seen))
    /\ cancel.pc = "confirmed" => intents # 0 /\ call[intents] = "cancelled"

\* An answered submission that ended has ended for good.
LEMMA EndedStays == IInv /\ [Next]_vars =>
    \A i \in Intents : call[i] \in Ended => call'[i] = call[i]
<1> SUFFICES ASSUME IInv, [Next]_vars, NEW i \in Intents, call[i] \in Ended
             PROVE  call'[i] = call[i]
  OBVIOUS
<1>1. call \in [Intents -> CallState]
  BY DEF IInv, TypeOK
<1>2. CASE Queue
  <2>1. UNCHANGED outside
    BY <1>2, Zenon DEF Queue, Deliver, LeaseExpires, Drop, FailJob, Raise, Fails, Settle
  <2> QED BY <2>1 DEF outside
<1>3. ASSUME NEW h \in Handlers, HandlerStep(h) PROVE call'[i] = call[i]
  <2>1. CASE BeginSubmission(h)
    <3>1. call' = [call EXCEPT ![intents + 1] = "sent"]
      BY <2>1 DEF BeginSubmission
    <3>2. i # intents + 1
      BY LedgerAssumption DEF IInv, TypeOK, IntentInv, Intents, Ended
    <3> QED BY <1>1, <3>1, <3>2
  <2>2. CASE ~BeginSubmission(h)
    BY <1>3, <2>2
       DEF HandlerStep, Read, BodyFails, Preflight, Resume, Admit, Start, Stage, StoreArtifacts,
           FinishUnsubmitted, PinManifest, Recheck, BeginRefused, RecordRejection,
           RecordUncertain, RecordReceipt, Failing, HoldSubmission, FailAxes, FailLedger,
           Checked, LedgerStep, outside
  <2> QED BY <2>1, <2>2
<1>4. ASSUME NEW k \in Intents, Answer(k) PROVE call'[i] = call[i]
  BY <1>1, <1>4 DEF Answer, Ended
<1>5. CASE Poller \/ PollDies
  BY <1>5 DEF Poller, PollDies, LookupQuery, RecordNotFound, RecordMatch, PollQuery, SessionQuery,
              ApplyJobStatus, JobStatusFails, ApplySessionStatus, SessionStatusFails,
              PollExhausted, PollExpire, outside
<1>6. CASE CancelExternal
  BY <1>1, <1>6 DEF CancelExternal, Ended
<1>7. CASE Operator /\ ~CancelExternal
  BY <1>7 DEF Operator, CancelRequest, CancelCommit, Abandon, Retry, VerifyOutputs, operating,
              outside
<1>8. CASE UNCHANGED vars
  BY <1>8 DEF vars
<1> QED BY <1>2, <1>3, <1>4, <1>5, <1>6, <1>7, <1>8 DEF Next

\* What was told of an end stays so: nothing is submitted after it.
LEMMA RealStays ==
  ASSUME IInv, [Next]_vars, NEW end, Real(end)
  PROVE  end \in Ended => intents' # 0 /\ call'[intents'] = end
<1> SUFFICES ASSUME end \in Ended PROVE intents' # 0 /\ call'[intents'] = end
  OBVIOUS
<1>1. intents \in Intents /\ call[intents] = end
  BY DEF Real, IInv, TypeOK, Intents
<1>2. intents' = intents
  BY <1>1, NewIntent DEF MayExist, Accepted
<1> QED BY <1>1, <1>2, EndedStays DEF Intents

\* Patches of the rest of the row leave the ends it tells of.
LEMMA StatePatchReal ==
  ASSUME TypeOK, AxesReal(row), NEW axes \in Row, AxesReal(axes), StatePatch(axes)
  PROVE  AxesReal(row')
<1>1. row' = row \/ (row'.scheduler = axes.scheduler /\ row'.daliuge = axes.daliuge)
  BY StatePatchStep DEF RowOutside
<1> QED BY <1>1 DEF AxesReal

LEMMA LedgerPatchReal ==
  ASSUME TypeOK, AxesReal(row), NEW next, NEW phase, NEW manifest,
         LedgerPatch(next, phase, manifest)
  PROVE  AxesReal(row')
<1> DEFINE status == IF row.status \in LockedTerminal THEN row.status ELSE next
           outcome == IF row.outcome = "none" THEN VerdictOf(status) ELSE row.outcome
<1>1. row' = [row EXCEPT !.status = status, !.phase = phase, !.outcome = outcome,
                         !.manifest = manifest]
  BY DEF LedgerPatch
<1>2. row \in Row
  BY DEF TypeOK
<1> HIDE DEF status, outcome
<1>3. row'.scheduler = row.scheduler /\ row'.daliuge = row.daliuge
  BY <1>1, <1>2 DEF Row
<1> QED BY <1>3 DEF AxesReal

\* A receipt says that work goes on, or keeps the state a lookup has seen.
LEMMA ReceiptReal ==
  ASSUME TypeOK, AxesReal(row), NEW h \in Handlers, RecordReceipt(h)
  PROVE  AxesReal(row')
<1> DEFINE i == run[h].intent
           id == IF Backend = "slurm" THEN i ELSE 0
           submission == IF row.abandoned THEN row.submission ELSE "submitted"
           filed == [row EXCEPT !.jobId = id, !.graph = TRUE, !.manifest = TRUE,
                                !.submission = submission]
           status == ReceiptStatus(i)
           scheduler == SchedulerReceived(i)
           daliuge == SessionReceived
           live == [filed EXCEPT !.status = status, !.phase = "submit", !.outcome = "none",
                                 !.scheduler = scheduler, !.daliuge = daliuge]
<1>1. row \in Row
  BY DEF TypeOK
<1>2. row' \in {row, filed, live}
  BY DEF RecordReceipt, Receipted, LiveReceipt
<1>3. scheduler \in {row.scheduler, "pending", "not_submitted"}
      /\ daliuge \in {"not_created", "running"}
  BY DEF SchedulerReceived, SessionReceived
<1> HIDE DEF id, submission, status, scheduler, daliuge
<1>4. /\ filed.scheduler = row.scheduler /\ filed.daliuge = row.daliuge
      /\ live.scheduler = scheduler /\ live.daliuge = daliuge
  BY <1>1 DEF Row
<1> HIDE DEF filed, live
<1> QED BY <1>2, <1>3, <1>4 DEF AxesReal, Real, SessionEnd, Ended

LEMMA HandlerReal ==
  ASSUME TypeOK, AxesReal(row), NEW h \in Handlers, HandlerStep(h)
  PROVE  AxesReal(row')
<1>1. row \in Row /\ (row' = row => AxesReal(row'))
  BY DEF TypeOK
<1>2. \A state \in SubmissionState :
        /\ [row EXCEPT !.submission = state] \in Row
        /\ AxesReal([row EXCEPT !.submission = state])
  BY <1>1 DEF Row, AxesReal
<1>3. [row EXCEPT !.outcome = "failed"] \in Row /\ AxesReal([row EXCEPT !.outcome = "failed"])
  BY <1>1 DEF Row, Outcome, AxesReal
<1>4. ASSUME NEW status, NEW phase, NEW manifest, NEW next,
             LedgerStep(h, status, phase, manifest, next)
      PROVE  AxesReal(row')
  BY <1>1, <1>4, LedgerPatchReal DEF LedgerStep
<1>5. CASE Read(h) \/ BodyFails(h) \/ Preflight(h) \/ Stage(h) \/ Recheck(h)
           \/ BeginRefused(h) \/ Failing(h)
  BY <1>1, <1>5 DEF Read, BodyFails, Preflight, Stage, Recheck, BeginRefused, Failing, Checked
<1>6. CASE Resume(h) \/ Start(h) \/ FinishUnsubmitted(h)
  BY <1>4, <1>6 DEF Resume, Start, FinishUnsubmitted
<1>7. CASE Admit(h) \/ StoreArtifacts(h)
  BY <1>1, <1>7, StatePatchReal DEF Admit, StoreArtifacts
<1>8. CASE PinManifest(h)
  BY <1>1, <1>8 DEF PinManifest, Row, AxesReal
<1>9. CASE BeginSubmission(h)
  <2>1. row' = [row EXCEPT !.submission = "in_flight", !.named = TRUE,
                           !.daliuge = "not_created"]
    BY <1>9 DEF BeginSubmission, IntentRow
  <2>2. row'.scheduler = row.scheduler /\ row'.daliuge = "not_created"
    BY <1>1, <2>1 DEF Row
  <2> QED BY <2>2 DEF AxesReal, Real, SessionEnd, Ended
<1>10. CASE RecordRejection(h) \/ RecordUncertain(h) \/ HoldSubmission(h)
  <2>1. row' = row \/ \E state \in {"failed", "uncertain"} :
                         StatePatch([row EXCEPT !.submission = state])
    BY <1>10 DEF RecordRejection, RecordUncertain, HoldSubmission
  <2> QED BY <1>1, <1>2, <2>1, StatePatchReal DEF SubmissionState
<1>11. CASE RecordReceipt(h)
  BY <1>11, ReceiptReal
<1>12. CASE FailAxes(h)
  BY <1>3, <1>12, StatePatchReal DEF FailAxes
<1>13. CASE FailLedger(h)
  BY <1>1, <1>13, LedgerPatchReal DEF FailLedger
<1> QED BY <1>5, <1>6, <1>7, <1>8, <1>9, <1>10, <1>11, <1>12, <1>13 DEF HandlerStep

\* What the poller files of an end is what it was told.
LEMMA PollerReal ==
  ASSUME IInv, EndInv, Poller \/ PollDies
  PROVE  AxesReal(row')
<1>1. TypeOK /\ row \in Row /\ AxesReal(row) /\ (row' = row => AxesReal(row'))
  BY DEF IInv, EndInv, TypeOK
<1>2. CASE LookupQuery \/ PollQuery \/ SessionQuery \/ PollDies
  BY <1>1, <1>2 DEF LookupQuery, PollQuery, SessionQuery, PollDies
<1>3. CASE RecordNotFound
  <2>1. row' = row \/ row' = [row EXCEPT !.scheduler = "unknown"]
    BY <1>3 DEF RecordNotFound
  <2>2. row' = row \/ (row'.scheduler = "unknown" /\ row'.daliuge = row.daliuge)
    BY <1>1, <2>1 DEF Row
  <2> QED BY <1>1, <2>2 DEF AxesReal, Real, Ended
<1>4. CASE RecordMatch
  <2> DEFINE submission == IF row.abandoned THEN row.submission ELSE "uncertain"
  <2>1. row' = row \/ row' = [row EXCEPT !.jobId = poll.of, !.scheduler = poll.seen,
                                         !.submission = submission]
    BY <1>4 DEF RecordMatch, MatchedRow
  <2>2. Real(poll.seen)
    BY <1>4 DEF RecordMatch, EndInv, Asking, SessionEnd, Real, Ended
  <2> HIDE DEF submission
  <2>3. row' = row \/ (row'.scheduler = poll.seen /\ row'.daliuge = row.daliuge)
    BY <1>1, <2>1 DEF Row
  <2> QED BY <1>1, <2>2, <2>3 DEF AxesReal
<1>5. CASE ApplyJobStatus
  <2> DEFINE daliuge == IF poll.seen = "succeeded" THEN "finished" ELSE row.daliuge
             axes == [row EXCEPT !.scheduler = poll.seen, !.daliuge = daliuge]
  <2>1. poll.seen \in SchedulerState /\ Real(poll.seen)
    BY <1>5 DEF ApplyJobStatus, IInv, PollInv, SeenOfJob, Ended, SchedulerState, EndInv, Asking,
                SessionEnd, Real
  <2>2. daliuge \in DaliugeState /\ Real(SessionEnd(daliuge))
    BY <1>1, <2>1 DEF Row, DaliugeState, AxesReal, SessionEnd
  <2>3. StatePatch(axes)
    BY <1>5 DEF ApplyJobStatus, ObservedJob
  <2> HIDE DEF daliuge
  <2>4. axes \in Row /\ AxesReal(axes)
    BY <1>1, <2>1, <2>2 DEF Row, AxesReal
  <2> HIDE DEF axes
  <2> QED BY <1>1, <2>3, <2>4, StatePatchReal
<1>6. CASE JobStatusFails \/ PollExhausted
  BY <1>1, <1>6, StatePatchReal DEF JobStatusFails, PollExhausted
<1>7. CASE ApplySessionStatus \/ SessionStatusFails
  <2>1. PICK daliuge \in DaliugeState :
          StatePatch([row EXCEPT !.daliuge = daliuge]) /\ Real(SessionEnd(daliuge))
    <3>1. CASE ApplySessionStatus
      BY <3>1 DEF ApplySessionStatus, IInv, PollInv, SeenOfSession, DaliugeState, EndInv, Asking
    <3>2. CASE SessionStatusFails
      BY <3>2 DEF SessionStatusFails, DaliugeState, Real, SessionEnd, Ended
    <3> QED BY <1>7, <3>1, <3>2
  <2>2. [row EXCEPT !.daliuge = daliuge] \in Row
        /\ AxesReal([row EXCEPT !.daliuge = daliuge])
    BY <1>1, <2>1 DEF Row, AxesReal
  <2> QED BY <1>1, <2>1, <2>2, StatePatchReal
<1>8. CASE PollExpire
  BY <1>1, <1>8, LedgerPatchReal DEF PollExpire
<1> QED BY <1>2, <1>3, <1>4, <1>5, <1>6, <1>7, <1>8 DEF Poller

\* A cancellation goes on record only when the backend has confirmed it.
LEMMA OperatorReal ==
  ASSUME IInv, EndInv, Operator
  PROVE  AxesReal(row')
<1>1. row \in Row /\ AxesReal(row) /\ (row' = row => AxesReal(row'))
  BY DEF IInv, EndInv, TypeOK
<1>2. CASE CancelRequest \/ CancelExternal
  BY <1>1, <1>2 DEF CancelRequest, CancelExternal, operating
<1>3. CASE CancelCommit
  <2> DEFINE scheduler == IF Confirmed /\ Backend = "slurm" THEN "cancelled" ELSE row.scheduler
             daliuge == IF Confirmed /\ Backend = "daliuge" THEN "cancelled" ELSE row.daliuge
  <2>1. CASE CancelAllowed
    <3>1. row' = [row EXCEPT !.status = "cancelled", !.phase = "none",
                             !.outcome = "cancelled", !.scheduler = scheduler,
                             !.daliuge = daliuge]
      BY <1>3, <2>1 DEF CancelCommit, CancelledRow
    <3>2. Confirmed => Real("cancelled")
      BY DEF Confirmed, EndInv, Real
    <3>3. Real(scheduler) /\ Real(SessionEnd(daliuge))
      BY <1>1, <3>2 DEF AxesReal, SessionEnd
    <3> HIDE DEF scheduler, daliuge
    <3>4. row'.scheduler = scheduler /\ row'.daliuge = daliuge
      BY <1>1, <3>1 DEF Row
    <3> QED BY <3>3, <3>4 DEF AxesReal
  <2>2. CASE ~CancelAllowed
    BY <1>1, <1>3, <2>2 DEF CancelCommit
  <2> QED BY <2>1, <2>2
<1>4. CASE Abandon
  <2>1. row'.scheduler = row.scheduler /\ row'.daliuge = row.daliuge
    BY <1>1, <1>4 DEF Abandon, AbandonedRow, Row
  <2> QED BY <1>1, <2>1 DEF AxesReal
<1>5. CASE Retry
  <2>1. row' = Retried
    BY <1>5 DEF Retry
  <2>2. Retried.scheduler = "not_submitted" /\ Retried.daliuge = "not_created"
    BY <1>1 DEF Retried, Row
  <2> QED BY <2>1, <2>2 DEF AxesReal, Real, SessionEnd, Ended
<1>6. CASE VerifyOutputs
  <2>1. row'.scheduler = row.scheduler /\ row'.daliuge = row.daliuge
    BY <1>1, <1>6 DEF VerifyOutputs, VerifiedRow, Row
  <2> QED BY <1>1, <2>1 DEF AxesReal
<1> QED BY <1>2, <1>3, <1>4, <1>5, <1>6 DEF Operator

\* A poll is told of no end but the one there is.
LEMMA ToldIsReal ==
  ASSUME IInv, intents # 0
  PROVE  /\ \A seen \in SchedulerSays(intents) : Real(SessionEnd(seen))
         /\ \A seen \in SessionSays(intents) : Real(SessionEnd(seen))
         /\ Real(SessionEnd("not_found")) /\ Real(SessionEnd("error"))
<1>1. call[intents] \in CallState
  BY DEF IInv, TypeOK, Intents
<1> QED BY <1>1 DEF SchedulerSays, SessionSays, SessionEnd, Real, Ended, CallState, Accepted

LEMMA PollReal ==
  ASSUME IInv, EndInv, [Next]_vars, poll'.pc \in Asking
  PROVE  Real(SessionEnd(poll'.seen))
<1>1. CASE poll' = poll
  BY <1>1 DEF EndInv
<1>2. CASE LookupQuery \/ PollQuery \/ SessionQuery
  <2>1. intents # 0 /\ row.jobId \in {0, intents}
    BY <1>2 DEF LookupQuery, PollQuery, SessionQuery, LookupDue, Unresolved, PollDue, SessionDue,
                IInv, RowInv
  <2>2. PICK seen \in SchedulerSays(intents) \cup SessionSays(intents)
                        \cup {"not_found", "error"} : poll'.seen = seen
    BY <1>2, <2>1 DEF LookupQuery, PollQuery, SessionQuery, LookupAnswers, PollDue, Polled
  <2> QED BY <2>1, <2>2, ToldIsReal
<1>3. CASE RecordMatch
  <2>1. poll.pc \in Asking /\ (poll' = NoPoll \/ poll' = [poll EXCEPT !.pc = "apply"])
    BY <1>3 DEF RecordMatch, Asking
  <2>2. poll'.seen = poll.seen
    BY <2>1 DEF NoPoll, Asking, IInv, TypeOK, Poll
  <2> QED BY <2>1, <2>2 DEF EndInv
<1>4. CASE ~(LookupQuery \/ PollQuery \/ SessionQuery \/ RecordMatch)
  <2>1. CASE Poller \/ PollDies
    BY <1>4, <2>1 DEF Poller, PollDies, RecordNotFound, ApplyJobStatus, JobStatusFails,
                      ApplySessionStatus, SessionStatusFails, PollExhausted, PollExpire, Polled,
                      NoPoll, Asking
  <2>2. CASE Queue
    BY <1>1, <2>2, Zenon DEF Queue, Deliver, LeaseExpires, Drop, FailJob, Raise, Fails, Settle,
                             elsewhere
  <2>3. ASSUME NEW h \in Handlers, HandlerStep(h) PROVE poll' = poll
    <3>1. CASE BeginSubmission(h)
      BY <3>1 DEF BeginSubmission
    <3>2. UNCHANGED elsewhere \/ BeginSubmission(h)
      BY <2>3, Zenon
         DEF HandlerStep, Read, BodyFails, Preflight, Resume, Admit, Start, Stage, StoreArtifacts,
             FinishUnsubmitted, PinManifest, Recheck, BeginRefused, RecordRejection,
             RecordUncertain, RecordReceipt, Failing, HoldSubmission, FailAxes, FailLedger,
             Checked, LedgerStep
    <3> QED BY <3>1, <3>2 DEF elsewhere
  <2>4. CASE Operator \/ (\E i \in Intents : Answer(i)) \/ UNCHANGED vars
    <3>1. poll' = poll
      BY <2>4 DEF Operator, CancelRequest, CancelExternal, CancelCommit, Abandon, Retry,
                  VerifyOutputs, operating, elsewhere, Answer, vars
    <3> QED BY <1>1, <3>1
  <2> QED BY <1>1, <2>1, <2>2, <2>3, <2>4 DEF Next
<1> QED BY <1>2, <1>3, <1>4

\* A confirmed cancellation has cancelled the latest submission.
LEMMA CancelReal ==
  ASSUME IInv, EndInv, [Next]_vars, cancel'.pc = "confirmed"
  PROVE  intents' # 0 /\ call'[intents'] = "cancelled"
<1>1. CASE CancelExternal
  <2> DEFINE of == IF Backend = "slurm" THEN row.jobId ELSE IF row.named THEN intents ELSE 0
  <2>1. /\ of # 0 /\ call' = [call EXCEPT ![of] = "cancelled"] /\ intents' = intents
    BY <1>1 DEF CancelExternal, NoCancel
  <2>2. of = intents /\ intents \in Intents
    BY <2>1 DEF IInv, RowInv, TypeOK, Intents
  <2> HIDE DEF of
  <2> QED BY <2>1, <2>2 DEF IInv, TypeOK, Intents
<1>2. CASE ~CancelExternal
  <2>1. CASE cancel' = cancel
    <3>1. Real("cancelled")
      BY <2>1 DEF EndInv, Real
    <3> QED BY <3>1, RealStays DEF Ended
  <2>2. cancel' = cancel
    <3>1. CASE Operator
      BY <1>2, <3>1 DEF Operator, CancelRequest, CancelCommit, Abandon, Retry, VerifyOutputs,
                        NoCancel, elsewhere
    <3>2. CASE Queue
      BY <3>2, Zenon DEF Queue, Deliver, LeaseExpires, Drop, FailJob, Raise, Fails, Settle,
                         elsewhere
    <3>3. ASSUME NEW h \in Handlers, HandlerStep(h) PROVE cancel' = cancel
      <4>1. CASE BeginSubmission(h)
        BY <4>1 DEF BeginSubmission
      <4>2. UNCHANGED elsewhere \/ BeginSubmission(h)
        BY <3>3, Zenon
           DEF HandlerStep, Read, BodyFails, Preflight, Resume, Admit, Start, Stage, StoreArtifacts,
               FinishUnsubmitted, PinManifest, Recheck, BeginRefused, RecordRejection,
               RecordUncertain, RecordReceipt, Failing, HoldSubmission, FailAxes, FailLedger,
               Checked, LedgerStep
      <4> QED BY <4>1, <4>2 DEF elsewhere
    <3>4. CASE Poller \/ PollDies \/ (\E i \in Intents : Answer(i)) \/ UNCHANGED vars
      BY <3>4 DEF Poller, PollDies, LookupQuery, RecordNotFound, RecordMatch, PollQuery,
                  SessionQuery, ApplyJobStatus, JobStatusFails, ApplySessionStatus,
                  SessionStatusFails, PollExhausted, PollExpire, polling, Answer, vars
    <3> QED BY <3>1, <3>2, <3>3, <3>4 DEF Next
  <2> QED BY <2>1, <2>2
<1> QED BY <1>1, <1>2

LEMMA EndsKept == IInv /\ EndInv /\ [Next]_vars => EndInv'
<1> SUFFICES ASSUME IInv, EndInv, [Next]_vars PROVE EndInv'
  OBVIOUS
<1>1. TypeOK /\ AxesReal(row)
  BY DEF IInv, EndInv
<1>2. AxesReal(row')
  <2>1. CASE Queue
    <3>1. row' = row
      BY <2>1, Zenon DEF Queue, Deliver, LeaseExpires, Drop, FailJob, Raise, Fails, Settle
    <3> QED BY <1>1, <3>1
  <2>2. ASSUME NEW h \in Handlers, HandlerStep(h) PROVE AxesReal(row')
    BY <1>1, <2>2, HandlerReal
  <2>3. CASE (\E i \in Intents : Answer(i)) \/ UNCHANGED vars
    BY <1>1, <2>3 DEF Answer, vars
  <2> QED BY <2>1, <2>2, <2>3, PollerReal, OperatorReal DEF Next
<1>3. AxesReal(row)'
  <2>1. Real(row'.scheduler) /\ Real(SessionEnd(row'.daliuge))
    BY <1>2 DEF AxesReal
  <2>2. row'.scheduler \in Ended => intents' # 0 /\ call'[intents'] = row'.scheduler
    BY <2>1, RealStays
  <2>3. SessionEnd(row'.daliuge) \in Ended =>
          intents' # 0 /\ call'[intents'] = SessionEnd(row'.daliuge)
    BY <2>1, RealStays
  <2> QED BY <2>2, <2>3 DEF AxesReal, Real
<1>4. (poll.pc \in Asking => Real(SessionEnd(poll.seen)))'
  <2> SUFFICES ASSUME poll'.pc \in Asking, SessionEnd(poll'.seen) \in Ended
               PROVE  intents' # 0 /\ call'[intents'] = SessionEnd(poll'.seen)
    BY DEF Real
  <2> QED BY PollReal, RealStays
<1>5. (cancel.pc = "confirmed" => intents # 0 /\ call[intents] = "cancelled")'
  BY CancelReal
<1> QED BY <1>3, <1>4, <1>5 DEF EndInv

----------------------------------------------------------------------------
(* The promise of a single submission is kept (SingleSubmission)            *)

abstract == <<Works, ClaimHeld, KnownEnd>>

FInv == IInv /\ EndInv

\* Under a claim that is not used there is nothing outside.
LEMMA FreeIsQuiet == IInv /\ ClaimHeld # "used" => Submission!Quiet
<1> SUFFICES ASSUME IInv, ClaimHeld # "used", NEW i \in Intents
             PROVE  Works[i] \in {"none", "refused"}
  BY DEF Submission!Quiet
<1>1. call[i] \in CallState \ MayExist
  BY DEF IInv, TypeOK, HeldInv, ClaimHeld
<1> QED BY <1>1 DEF Works, Work, CallState, MayExist

\* An end on record is the end of the work of the latest intent.
Learnt ==
    KnownEnd = "none" \/ \E i \in Intents : Works[i] \in Submission!Ended /\ KnownEnd = Works[i]

LEMMA KnownIsLearnt == FInv => Learnt
<1> SUFFICES ASSUME FInv, KnownEnd # "none" PROVE Learnt
  BY DEF Learnt
<1>1. KnownEnd \in Ended /\ Real(KnownEnd)
  BY DEF KnownEnd, FInv, EndInv, AxesReal
<1>2. intents \in Intents /\ call[intents] = KnownEnd
  BY <1>1 DEF Real, FInv, IInv, TypeOK, Intents
<1>3. Works[intents] = KnownEnd
  BY <1>1, <1>2 DEF Works, Work, Ended
<1> QED BY <1>1, <1>2, <1>3 DEF Learnt, Ended, Submission!Ended

\* A step that leaves the work as it is moves the claim, or what is known; not
\* both, as nothing is known while the claim may move.
LEMMA RecordIsAllowed ==
  ASSUME FInv, FInv', Works' = Works
  PROVE  [Submission!Next]_abstract
<1>1. /\ Learnt /\ Learnt'
      /\ ClaimHeld # "used" => Submission!Quiet
      /\ (ClaimHeld # "used" => Submission!Quiet)'
  BY KnownIsLearnt, FreeIsQuiet, PTL DEF FInv
<1>2. CASE ClaimHeld' = ClaimHeld
  <2>1. CASE KnownEnd' = "none"
    BY <1>2, <2>1 DEF Submission!Next, Submission!Forget
  <2>2. ASSUME NEW i \in Intents, Works'[i] \in Submission!Ended, KnownEnd' = Works'[i]
        PROVE  Submission!Learn(i)
    BY <1>2, <2>2 DEF Submission!Learn
  <2> QED BY <1>1, <2>1, <2>2 DEF Learnt, Submission!Next, Submission!Ended
<1>3. CASE ClaimHeld' # ClaimHeld
  <2>1. ClaimHeld \in {"free", "used"} /\ ClaimHeld' \in {"free", "used"}
    BY DEF ClaimHeld
  <2>2. Submission!Quiet
    BY <1>1, <1>3, <2>1 DEF Submission!Quiet
  <2>3. KnownEnd = "none" /\ KnownEnd' = "none"
    BY <1>1, <2>2 DEF Learnt, Submission!Quiet, Submission!Ended
  <2> QED BY <1>3, <2>1, <2>2, <2>3
          DEF Submission!Next, Submission!Release, Submission!Spend
<1> QED BY <1>2, <1>3

\* begin_execution_submission is the one step that submits.
LEMMA BeginIsAllowed ==
  ASSUME FInv, NEW h \in Handlers, BeginSubmission(h)
  PROVE  [Submission!Next]_abstract
<1> DEFINE i == intents + 1
<1>1. /\ call \in [Intents -> CallState] /\ row \in Row /\ i \in Intents
      /\ call[i] = "unused"
  BY LedgerAssumption DEF FInv, IInv, TypeOK, IntentInv, BeginSubmission, Intents
<1>2. /\ call' = [call EXCEPT ![i] = "sent"] /\ row.submission \notin Holds
      /\ row' = [row EXCEPT !.submission = "in_flight", !.named = TRUE,
                            !.daliuge = "not_created"]
  BY DEF BeginSubmission, MayBegin, IntentRow
<1> HIDE DEF i
<1>3. Works' = [Works EXCEPT ![i] = "asked"] /\ Works[i] = "none"
  BY <1>1, <1>2 DEF Works, Work
<1>4. row.scheduler \notin Ended /\ row.daliuge \in {"not_created", "unreachable"}
  BY <1>2, NothingOutside, UntakenRow DEF FInv, Ended
<1>5. /\ row'.submission = "in_flight" /\ row'.scheduler = row.scheduler
      /\ row'.daliuge = "not_created"
  BY <1>1, <1>2 DEF Row
<1>6. KnownEnd' = "none" /\ KnownEnd = "none"
  BY <1>4, <1>5 DEF KnownEnd, SessionEnd, Ended
<1>7. ClaimHeld = "free" /\ ClaimHeld' = "used"
  BY <1>2, <1>5 DEF ClaimHeld, Holds
<1>8. Submission!Submit(i)
  BY <1>3, <1>6, <1>7 DEF Submission!Submit
<1> QED BY <1>1, <1>8 DEF Submission!Next

\* The backend answers, and ends what it has accepted, by itself or cancelled.
LEMMA BackendIsAllowed ==
  ASSUME FInv, NEW i \in Intents, NEW c \in CallState, call' = [call EXCEPT ![i] = c], row' = row,
         \/ call[i] = "sent" /\ c \in {"active", "rejected"}
         \/ call[i] = "active" /\ c \in Ended
         \/ call[i] = c
  PROVE  [Submission!Next]_abstract
<1>1. call \in [Intents -> CallState]
  BY DEF FInv, IInv, TypeOK
<1>2. ClaimHeld' = ClaimHeld /\ KnownEnd' = KnownEnd
  BY DEF ClaimHeld, KnownEnd
<1>3. CASE call[i] = "sent" /\ c \in {"active", "rejected"}
  <2>1. PICK w \in {"refused", "active"} : Works' = [Works EXCEPT ![i] = w]
    BY <1>1, <1>3 DEF Works, Work
  <2>2. Works[i] = "asked"
    BY <1>3 DEF Works, Work
  <2> QED BY <1>2, <2>1, <2>2 DEF Submission!Answer, Submission!Next
<1>4. CASE call[i] = "active" /\ c \in Ended
  <2>1. Works' = [Works EXCEPT ![i] = c] /\ Works[i] = "active"
    BY <1>1, <1>4 DEF Works, Work, Ended
  <2> QED BY <1>2, <1>4, <2>1 DEF Submission!End, Submission!Next, Submission!Ended, Ended
<1>5. CASE call[i] = c
  <2>1. call' = call
    BY <1>1, <1>5
  <2> QED BY <1>2, <2>1 DEF abstract, Works, Work
<1> QED BY <1>3, <1>4, <1>5

\* Whatever else happens to the ledger is a record, not a submission.
LEMMA CallChanges ==
  ASSUME FInv, [Next]_vars
  PROVE  \/ call' = call
         \/ \E h \in Handlers : BeginSubmission(h)
         \/ CancelExternal
         \/ \E i \in Intents : Answer(i)
<1>1. CASE Queue
  <2>1. UNCHANGED outside
    BY <1>1, Zenon DEF Queue, Deliver, LeaseExpires, Drop, FailJob, Raise, Fails, Settle
  <2> QED BY <2>1 DEF outside
<1>2. ASSUME NEW h \in Handlers, HandlerStep(h), ~BeginSubmission(h) PROVE call' = call
  BY <1>2
     DEF HandlerStep, Read, BodyFails, Preflight, Resume, Admit, Start, Stage, StoreArtifacts,
         FinishUnsubmitted, PinManifest, Recheck, BeginRefused, RecordRejection,
         RecordUncertain, RecordReceipt, Failing, HoldSubmission, FailAxes, FailLedger,
         Checked, LedgerStep, outside
<1>3. CASE Poller \/ PollDies
  BY <1>3 DEF Poller, PollDies, LookupQuery, RecordNotFound, RecordMatch, PollQuery, SessionQuery,
              ApplyJobStatus, JobStatusFails, ApplySessionStatus, SessionStatusFails,
              PollExhausted, PollExpire, outside
<1>4. CASE Operator /\ ~CancelExternal
  BY <1>4 DEF Operator, CancelRequest, CancelCommit, Abandon, Retry, VerifyOutputs, operating,
              outside
<1> QED BY <1>1, <1>2, <1>3, <1>4 DEF Next, vars

LEMMA StepIsAllowed == FInv /\ FInv' /\ [Next]_vars => [Submission!Next]_abstract
<1> SUFFICES ASSUME FInv, FInv', [Next]_vars PROVE [Submission!Next]_abstract
  OBVIOUS
<1>1. CASE call' = call
  <2>1. Works' = Works
    BY <1>1 DEF Works, Work
  <2> QED BY <2>1, RecordIsAllowed
<1>2. CASE \E h \in Handlers : BeginSubmission(h)
  BY <1>2, BeginIsAllowed
<1>3. ASSUME NEW i \in Intents, Answer(i) PROVE [Submission!Next]_abstract
  <2>1. PICK c \in CallState :
          /\ call' = [call EXCEPT ![i] = c] /\ row' = row
          /\ \/ call[i] = "sent" /\ c \in {"active", "rejected"}
             \/ call[i] = "active" /\ c \in Ended
    BY <1>3 DEF Answer, CallState, Accepted, Ended
  <2> QED BY <2>1, BackendIsAllowed
<1>4. CASE CancelExternal /\ call' # call
  <2> DEFINE of == IF Backend = "slurm" THEN row.jobId ELSE IF row.named THEN intents ELSE 0
  <2>1. /\ of # 0 /\ call[of] \in {"active", "cancelled"} /\ row' = row
        /\ call' = [call EXCEPT ![of] = "cancelled"]
    BY <1>4 DEF CancelExternal
  <2>2. of \in Intents /\ "cancelled" \in CallState
    BY <2>1 DEF FInv, IInv, TypeOK, Row, Intents, CallState, Accepted, Ended
  <2> HIDE DEF of
  <2> QED BY <2>1, <2>2, BackendIsAllowed DEF Ended
<1> QED BY <1>1, <1>2, <1>3, <1>4, CallChanges

----------------------------------------------------------------------------
(* Theorems                                                                 *)

LEMMA InitHolds == Init => IInv
<1> SUFFICES ASSUME Init PROVE IInv
  OBVIOUS
<1>1. PICK deployment \in Deployments :
        row = [status |-> "pending", phase |-> "none",
               submission |-> "not_started", scheduler |-> "not_submitted",
               daliuge |-> "not_created",
               outputs |-> InitialOutputs(deployment.outputRequired),
               outcome |-> "none", jobId |-> 0, named |-> FALSE,
               manifest |-> FALSE, graph |-> FALSE, abandoned |-> FALSE,
               retries |-> 0, deployment |-> deployment]
  BY DEF Init
<1>2. row \in Row
  BY <1>1, LedgerAssumption
     DEF Row, Status, Phase, SubmissionState, SchedulerState, DaliugeState, OutputState,
         Outcome, Attempts, InitialOutputs
<1>3. job \in [Attempts -> ExecuteJob]
  <2>1. PICK submit \in BOOLEAN :
          job = [n \in Attempts |-> IF n = 0 THEN [NoJob(submit) EXCEPT !.status = "queued"]
                                             ELSE NoJob(TRUE)]
    BY DEF Init
  <2>2. [NoJob(submit) EXCEPT !.status = "queued"] \in ExecuteJob /\ NoJob(TRUE) \in ExecuteJob
    BY DEF NoJob, ExecuteJob
  <2> QED BY <2>1, <2>2
<1>4. Idle \in Handler /\ NoPoll \in Poll /\ NoCancel \in Cancel
  BY LedgerAssumption, PollTyped DEF Idle, Handler, Steps, Attempts, NoCancel, Cancel
<1>5. TypeOK
  <2>1. run \in [Handlers -> Handler] /\ call \in [Intents -> CallState]
    BY <1>4 DEF Init, CallState
  <2>2. /\ intents \in 0..MaxIntents /\ negatives \in 0..NegativeLookups
        /\ faults \in 0..MaxFaults /\ pollFaults \in 0..MaxPollFaults
    BY LedgerAssumption DEF Init
  <2>3. poll \in Poll /\ cancel \in Cancel
    BY <1>4 DEF Init
  <2> QED BY <1>2, <1>3, <2>1, <2>2, <2>3 DEF TypeOK
<1>6. IntentInv /\ HeldInv
  BY LedgerAssumption DEF Init, IntentInv, HeldInv, MayExist, Accepted, Ended, Intents
<1>7. CallingInv /\ PollInv /\ CancelInv
  BY DEF Init, CallingInv, Calling, Idle, PollInv, NoPoll, CancelInv, NoCancel
<1>8. RowInv
  BY <1>1, <1>6 DEF Init, RowInv
<1> QED BY <1>5, <1>6, <1>7, <1>8 DEF IInv

LEMMA NextHolds == IInv /\ [Next]_vars => IInv'
<1> SUFFICES ASSUME IInv, [Next]_vars PROVE IInv'
  OBVIOUS
<1>1. CASE Queue
  BY <1>1, QueueStep
<1>2. ASSUME NEW h \in Handlers, HandlerStep(h) PROVE IInv'
  BY <1>2, HandlerStepHolds
<1>3. ASSUME NEW i \in Intents, Answer(i) PROVE IInv'
  BY <1>3, AnswerStep
<1>4. CASE Poller \/ PollDies
  BY <1>4, QueryStep, ApplyStep, LookupStep, PollEndStep DEF Poller
<1>5. CASE Operator
  BY <1>5, OperatorStep
<1>6. CASE UNCHANGED vars
  <2>1. TypeOK' /\ Tame
    BY <1>6, SameRowIsTame
       DEF vars, IInv, TypeOK, Tame, TameRun, TamePoll, TameCancel, outside
  <2> QED BY <2>1, TameStep
<1> QED BY <1>1, <1>2, <1>3, <1>4, <1>5, <1>6 DEF Next

\* The inductive invariant of the ledger: what may exist outside is the latest
\* intent's and is held, and what the row says of it is true.
THEOREM LedgerInvariant == Spec => []IInv
BY InitHolds, NextHolds, PTL DEF Spec

\* Every state of the ledger is well-typed.
THEOREM LedgerTypes == Spec => []TypeOK
<1>1. IInv => TypeOK
  BY DEF IInv
<1> QED BY <1>1, LedgerInvariant, PTL

\* At most one submission may exist outside, whatever redeliveries, recoveries,
\* stale handlers and retries there are (begin_execution_submission).
THEOREM OneSubmission == Spec => []AtMostOneSubmission
<1>1. IInv => AtMostOneSubmission
  BY DEF IInv, HeldInv, MayExist, AtMostOneSubmission
<1> QED BY <1>1, LedgerInvariant, PTL

\* An unanswered submission is held by the row (run_execute).
THEOREM UnansweredHeld == Spec => []UnansweredIsHeld
<1>1. IInv => UnansweredIsHeld
  BY DEF IInv, HeldInv, MayExist, Pending, UnansweredIsHeld
<1> QED BY <1>1, LedgerInvariant, PTL

\* What plan_execution_retry accepts has no external work.
THEOREM RetryIsSafe == Spec => []RetryFindsNothingOutside
<1>1. IInv => RetryFindsNothingOutside
  <2> SUFFICES ASSUME IInv, RetrySafe(row), NEW i \in Intents
               PROVE  call[i] \in {"unused", "rejected"}
    BY DEF RetryFindsNothingOutside
  <2>1. call[i] \notin MayExist
    BY NothingOutside DEF RetrySafe, Holds
  <2>2. call[i] \in CallState
    BY DEF IInv, TypeOK
  <2> QED BY <2>1, <2>2 DEF CallState, MayExist
<1> QED BY <1>1, LedgerInvariant, PTL

\* No cancellation is recorded while the submission is unanswered
\* (cancel_execution).
THEOREM CancelAnswered == Spec => []CancelledIsAnswered
<1>1. IInv => CancelledIsAnswered
  BY DEF IInv, RowInv, CancelledIsAnswered
<1> QED BY <1>1, LedgerInvariant, PTL

\* What receipts and lookups filed on the row is the latest intent's, and the
\* backend took that one (record_submission_receipt, record_slurm_name_lookup).
THEOREM SubmittedReal == Spec => []SubmittedIsReal
<1>1. IInv => SubmittedIsReal
  BY DEF IInv, RowInv, Taken, SubmittedIsReal
<1> QED BY <1>1, LedgerInvariant, PTL

\* Nothing moves an execution out of completed or cancelled: no late receipt,
\* stale handler, poll or operator (is_locked_terminal).
THEOREM FinalStatusHolds == Spec => FinalStatusIsFinal
<1>1. IInv /\ [Next]_vars => [row.status \in LockedTerminal => row'.status = row.status]_vars
  BY StepKeeps DEF Kept
<1> QED BY <1>1, LedgerInvariant, PTL DEF Spec, FinalStatusIsFinal

\* An abandoned execution stays abandoned, and it is submitted again only once
\* the abandoned call is known to have come to nothing
\* (abandon_slurm_submission, begin_execution_submission).
THEOREM AbandonmentIsKept == Spec => AbandonmentHolds
<1>1. IInv /\ [Next]_vars =>
        [row.abandoned => row'.abandoned
                          /\ (intents' = intents \/ call[intents] = "rejected")]_vars
  <2> SUFFICES ASSUME IInv, [Next]_vars, row.abandoned
               PROVE  row'.abandoned /\ (intents' = intents \/ call[intents] = "rejected")
    OBVIOUS
  <2>1. row'.abandoned
    BY StepKeeps DEF Kept
  <2>2. intents \in Intents
    BY DEF IInv, TypeOK, RowInv, Intents
  <2>3. call[intents] \in CallState /\ call[intents] # "unused"
    BY <2>2 DEF IInv, TypeOK, IntentInv, Intents
  <2>4. intents' = intents \/ call[intents] = "rejected"
    BY <2>2, <2>3, NewIntent DEF CallState, MayExist
  <2> QED BY <2>1, <2>4
<1> QED BY <1>1, LedgerInvariant, PTL DEF Spec, AbandonmentHolds

LEMMA EndsInit == Init => EndInv
BY DEF Init, EndInv, AxesReal, Real, SessionEnd, Ended, Asking, NoPoll, NoCancel

\* The inductive invariant with it, of every reachable state.
THEOREM EndsInvariant == Spec => []FInv
BY InitHolds, EndsInit, NextHolds, EndsKept, PTL DEF Spec, FInv

\* An end that the row has on record, from a poll, a lookup, a receipt or a
\* cancellation, is the end of the work its latest intent left outside: never
\* that of an earlier one, and never one nobody saw.
THEOREM KnownEndsAreReal ==
  Spec => [](KnownEnd # "none" => intents # 0 /\ call[intents] = KnownEnd)
<1>1. ASSUME FInv, KnownEnd # "none" PROVE intents # 0 /\ call[intents] = KnownEnd
  <2>1. KnownEnd \in Ended /\ Real(KnownEnd)
    BY <1>1 DEF KnownEnd, FInv, EndInv, AxesReal
  <2> QED BY <2>1 DEF Real
<1>2. FInv => (KnownEnd # "none" => intents # 0 /\ call[intents] = KnownEnd)
  BY <1>1
<1> QED BY <1>2, EndsInvariant, PTL

\* The ledger implements the single submission: redeliveries, stale handlers,
\* polls, cancellations, abandonments and retries included, every step of it
\* submits under a free claim, is the backend's, files what is so, or gives the
\* claim back when nothing is outside (begin_execution_submission).
THEOREM Refinement == Spec => ImplementsSingleSubmission
<1>1. Init => Submission!Init
  <2> SUFFICES ASSUME Init PROVE Submission!Init
    OBVIOUS
  <2>1. /\ row.submission = "not_started" /\ row.scheduler = "not_submitted"
        /\ row.daliuge = "not_created" /\ call = [i \in Intents |-> "unused"]
    BY DEF Init
  <2> QED BY <2>1 DEF Submission!Init, Works, Work, ClaimHeld, KnownEnd, SessionEnd, Holds, Ended
<1> QED BY <1>1, StepIsAllowed, EndsInvariant, PTL
        DEF Spec, ImplementsSingleSubmission, Submission!Spec, abstract
=============================================================================
