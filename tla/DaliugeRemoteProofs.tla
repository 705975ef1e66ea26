-------------------------- MODULE DaliugeRemoteProofs --------------------------
(***************************************************************************)
(* Proofs about DaliugeRemote for every physical graph, every set of nodes *)
(* and of pollers, and every number of rounds.  The argument: an end of a  *)
(* session, of a node or of a drop is for good, so a poll may record it as *)
(* late as it likes; and what is retried has sent the manager nothing,     *)
(* since only the translator's errors make a submission fail.              *)
(***************************************************************************)
EXTENDS DaliugeRemote, TLAPS

NodeEnded == {"finished", "cancelled", "failed"}

\* The manager has nothing of this execution and will have nothing.
Nothing == (\A n \in Nodes : session[n] = "absent") /\ request["create"] = {}

\* Every node has had the session.
Everywhere == \A n \in Nodes : session[n] # "absent"

AllDone == \A d \in Drops : drop[d] = "done"
Broken == (\E d \in Drops : drop[d] = "error") \/ (\E n \in Nodes : session[n] = "failed")
Quiet == \A n \in Nodes : session[n] \in NodeEnded

\* What the deployer's step says of its submission and of the session.
Unsent == {"not_started", "preparing", "failed"}

DeployerInv ==
    /\ deployer # "idle" => row.submission = "in_flight"
    /\ row.submission \in Unsent \/ deployer \in {"unroll", "map"} => Nothing
    /\ deployer = "create" => \A n \in Nodes \ request["create"] : session[n] # "absent"
    /\ deployer \in {"append", "deploy", "receipt"} \/ row.submission = "submitted" => Everywhere

\* A submission that failed has failed the execution; one that has not begun
\* has not named its session.
RowInv ==
    /\ row.submission = "failed" => row.status = "failed"
    /\ row.submission \in {"not_started", "preparing"} => ~ row.named

\* A cancellation that asks the manager is of a session that was deployed.
CancelInv ==
    /\ cancel \in {"signal", "asked", "confirmed"} => row.submission = "submitted"
    /\ cancel = "asked" => \A n \in Nodes \ request["cancel"] : session[n] \in NodeEnded
    /\ cancel = "confirmed" => Quiet

DropInv ==
    \A d \in Drops : session[Graph[d].on] = "finished" => drop[d] # "waiting"

\* An end that a state reports is real: the state a row has, or a poll read.
Real(state) ==
    /\ state = "finished" => AllDone
    /\ state = "failed" => Broken
    /\ state = "cancelled" => Quiet

TickInv(p) ==
    /\ tick[p].pc = "graph" =>
         /\ tick[p].seen = "finished" => \A n \in Nodes : session[n] = "finished"
         /\ tick[p].seen # "finished" => Real(tick[p].seen)
    /\ tick[p].pc = "apply" => Real(tick[p].seen)
    /\ tick[p].pc = "missed" => tick[p].seen \in {"unreachable", "not_created"}
    /\ tick[p].pc = "round" => tick[p].round + 1 < MaxRounds

DeletionInv ==
    (\E p \in Pollers : tick[p].pc = "destroy") \/ request["delete"] # {} \/ deleted # {}
        => row.status \in Terminal /\ Ended(row.daliuge)

IInv ==
    /\ TypeOK
    /\ DeployerInv
    /\ RowInv
    /\ CancelInv
    /\ DropInv
    /\ Real(row.daliuge)
    /\ \A p \in Pollers : TickInv(p)
    /\ DeletionInv

----------------------------------------------------------------------------
\* The row's reconciliation.

\* What the axes of this backend add up to
LEMMA Decided ==
    ASSUME NEW a \in Row
    PROVE  /\ Reconcile(a, FALSE).status \in Status
           /\ Reconcile(a, FALSE).outcome \in Outcome
           /\ a.submission = "failed" => Reconcile(a, FALSE).status = "failed"
           /\ Ended(a.daliuge) => Reconcile(a, FALSE).status \in Terminal
<1>1. /\ a.scheduler = "not_submitted" /\ a.outputs = "not_started"
      /\ a.daliuge \in DaliugeState /\ a.submission \in SubmissionState
  BY DEF Row
<1>2. CASE Failure(a)
  <2>1. Reconcile(a, FALSE).status = "failed" /\ Reconcile(a, FALSE).outcome = "failed"
    BY <1>2 DEF Reconcile, Decision
  <2> QED BY <2>1 DEF Status, Outcome, Terminal
<1>3. CASE ~ Failure(a) /\ FinishedUnderDaliuge(a)
  BY <1>1, <1>3 DEF FinishedUnderDaliuge
<1>4. CASE ~ Failure(a) /\ Cancellation(a)
  <2>1. ~ FinishedUnderDaliuge(a)
    BY <1>1 DEF FinishedUnderDaliuge
  <2>2. /\ Reconcile(a, FALSE).status = "cancelled"
        /\ Reconcile(a, FALSE).outcome \in {"inconsistent", "cancelled"}
    BY <1>4, <2>1 DEF Reconcile, Decision
  <2>3. a.submission # "failed"
    BY <1>4 DEF Failure
  <2> QED BY <2>2, <2>3 DEF Status, Outcome, Terminal
<1>5. CASE ~ Failure(a) /\ ~ Cancellation(a) /\ ExternalComplete(a)
  <2>1. ~ FinishedUnderDaliuge(a)
    BY <1>1 DEF FinishedUnderDaliuge
  <2>2. Reconcile(a, FALSE).status = "completed" /\ Reconcile(a, FALSE).outcome = "succeeded"
    BY <1>5, <2>1 DEF Reconcile, Decision
  <2>3. a.submission # "failed"
    BY <1>5 DEF Failure
  <2> QED BY <2>2, <2>3 DEF Status, Outcome, Terminal
<1>6. CASE ~ Failure(a) /\ ~ Cancellation(a) /\ ~ ExternalComplete(a)
  <2>1. ~ FinishedUnderDaliuge(a)
    BY <1>1 DEF FinishedUnderDaliuge
  <2>2. /\ Reconcile(a, FALSE).status \in {"awaiting_scheduler", "running", "pending"}
        /\ Reconcile(a, FALSE).outcome = "none"
    BY <1>6, <2>1 DEF Reconcile, Decision
  <2>3. a.submission # "failed" /\ ~ Ended(a.daliuge)
    BY <1>1, <1>6 DEF Failure, Cancellation, ExternalComplete, Ended
  <2> QED BY <2>2, <2>3 DEF Status, Outcome
<1> QED BY <1>2, <1>3, <1>4, <1>5, <1>6

\* A patch of the axes of a row
LEMMA PatchedRow ==
    ASSUME NEW r \in Row, NEW a \in Row
    PROVE  LET q == Patched(r, a, FALSE)
           IN  /\ q \in Row
               /\ r.status \in Terminal => q = r
               /\ r.status \notin Terminal =>
                    /\ q.submission = a.submission /\ q.daliuge = a.daliuge
                    /\ q.named = a.named /\ q.rounds = a.rounds
                    /\ q.submission = "failed" => q.status = "failed"
                    /\ Ended(q.daliuge) => q.status \in Terminal
<1> DEFINE decision == Reconcile(a, FALSE)
           status == IF decision.status = "pending" THEN r.status ELSE decision.status
           outcome == IF decision.outcome = "none" THEN a.outcome ELSE decision.outcome
           q == Patched(r, a, FALSE)
<1>1. CASE r.status \in Terminal
  <2>1. q = r
    BY <1>1 DEF Patched
  <2> QED BY <1>1, <2>1
<1>2. CASE r.status \notin Terminal
  <2>1. /\ status \in Status /\ outcome \in Outcome
        /\ a.submission = "failed" => status = "failed"
        /\ Ended(a.daliuge) => status \in Terminal
    <3>1. r.status \in Status /\ a.outcome \in Outcome
      BY DEF Row
    <3> HIDE DEF decision
    <3> QED BY <3>1, Decided DEF Terminal, decision
  <2>2. q = [a EXCEPT !.status = status, !.outcome = outcome]
    BY <1>2 DEF Patched
  <2> HIDE DEF status, outcome, q
  <2>3. /\ q \in Row /\ q.status = status /\ q.submission = a.submission
        /\ q.daliuge = a.daliuge /\ q.named = a.named /\ q.rounds = a.rounds
    <3> HIDE DEF Status, Outcome
    <3> QED BY <2>1, <2>2 DEF Row
  <2> QED BY <1>2, <2>1, <2>3 DEF q
<1> QED BY <1>1, <1>2

\* session_observation recorded
LEMMA ObservedRow ==
    ASSUME NEW r \in Row, NEW seen \in DaliugeState
    PROVE  LET q == Patched(r, [r EXCEPT !.daliuge = seen], FALSE)
           IN  /\ q \in Row /\ q.submission = r.submission /\ q.named = r.named
               /\ r.status \in Terminal => q = r
               /\ r.status \notin Terminal =>
                    /\ q.daliuge = seen
                    /\ q.submission = "failed" => q.status = "failed"
                    /\ Ended(seen) => q.status \in Terminal
<1> DEFINE a == [r EXCEPT !.daliuge = seen]
<1>1. a \in Row /\ a.submission = r.submission /\ a.named = r.named /\ a.daliuge = seen
  <2> HIDE DEF Status, Outcome, DaliugeState
  <2> QED BY DEF Row
<1> HIDE DEF a
<1>2. LET q == Patched(r, a, FALSE)
      IN  /\ q \in Row
          /\ r.status \in Terminal => q = r
          /\ r.status \notin Terminal =>
               /\ q.submission = a.submission /\ q.daliuge = a.daliuge
               /\ q.named = a.named /\ q.rounds = a.rounds
               /\ q.submission = "failed" => q.status = "failed"
               /\ Ended(q.daliuge) => q.status \in Terminal
  BY <1>1, PatchedRow
<1>3. LET q == Patched(r, a, FALSE)
      IN  /\ q \in Row /\ q.submission = r.submission /\ q.named = r.named
          /\ r.status \in Terminal => q = r
          /\ r.status \notin Terminal =>
               /\ q.daliuge = seen
               /\ q.submission = "failed" => q.status = "failed"
               /\ Ended(seen) => q.status \in Terminal
  BY <1>1, <1>2
<1> QED BY <1>3 DEF a

\* A submission that failed, for certain or not
LEMMA SubmissionRow ==
    ASSUME NEW r \in Row, NEW s \in {"failed", "uncertain"}
    PROVE  LET q == Patched(r, [r EXCEPT !.submission = s], FALSE)
           IN  /\ q \in Row /\ q.daliuge = r.daliuge /\ q.named = r.named
               /\ r.status \in Terminal => q = r
               /\ r.status \notin Terminal =>
                    /\ q.submission = s
                    /\ s = "failed" => q.status = "failed"
<1> DEFINE a == [r EXCEPT !.submission = s]
<1>1. a \in Row /\ a.submission = s /\ a.named = r.named /\ a.daliuge = r.daliuge
  <2> HIDE DEF Status, Outcome, DaliugeState
  <2> QED BY DEF Row, SubmissionState
<1> HIDE DEF a
<1>2. LET q == Patched(r, a, FALSE)
      IN  /\ q \in Row
          /\ r.status \in Terminal => q = r
          /\ r.status \notin Terminal =>
               /\ q.submission = a.submission /\ q.daliuge = a.daliuge
               /\ q.named = a.named /\ q.rounds = a.rounds
               /\ q.submission = "failed" => q.status = "failed"
               /\ Ended(q.daliuge) => q.status \in Terminal
  BY <1>1, PatchedRow
<1>3. LET q == Patched(r, a, FALSE)
      IN  /\ q \in Row /\ q.daliuge = r.daliuge /\ q.named = r.named
          /\ r.status \in Terminal => q = r
          /\ r.status \notin Terminal =>
               /\ q.submission = s
               /\ s = "failed" => q.status = "failed"
  BY <1>1, <1>2
<1> QED BY <1>3 DEF a

----------------------------------------------------------------------------
\* What a step that leaves the manager alone leaves of the invariant.

LEMMA Types ==
    ASSUME TypeOK
    PROVE  /\ row \in Row /\ row.status \in Status /\ row.submission \in SubmissionState
           /\ row.daliuge \in DaliugeState /\ row.named \in BOOLEAN
           /\ deployer \in {"idle", "unroll", "map", "create", "append", "deploy", "receipt"}
           /\ session \in [Nodes -> NodeState] /\ deleted \subseteq Nodes
           /\ drop \in [Drops -> {"waiting", "done", "error"}]
           /\ request \in [Requests -> SUBSET Nodes]
           /\ tick \in [Pollers -> Tick]
           /\ cancel \in {"idle", "signal", "asked", "local", "confirmed"}
<1>1. row \in Row
  BY DEF TypeOK
<1>2. /\ row.status \in Status /\ row.submission \in SubmissionState
      /\ row.daliuge \in DaliugeState /\ row.named \in BOOLEAN
  <2> HIDE DEF Status, SubmissionState, DaliugeState
  <2> QED BY <1>1 DEF Row
<1> QED BY <1>1, <1>2 DEF TypeOK

LEMMA InitStep == Init => IInv
<1> SUFFICES ASSUME Init PROVE IInv
  OBVIOUS
<1>1. row \in Row
  BY BoundsAssumption DEF Init, Row, Status, Phase, SubmissionState, DaliugeState, Outcome
<1>2. NoTick \in Tick
  BY BoundsAssumption DEF NoTick, Tick, DaliugeState
<1>3. tick \in [Pollers -> Tick]
  BY <1>2 DEF Init
<1>4. request \in [Requests -> SUBSET Nodes] /\ session \in [Nodes -> NodeState]
  BY DEF Init, NodeState
<1>5. TypeOK
  <2> HIDE DEF Row, Tick, NodeState, Requests
  <2> QED BY <1>1, <1>3, <1>4 DEF Init, TypeOK
<1>6. /\ row.submission = "not_started" /\ row.named = FALSE /\ row.daliuge = "not_created"
      /\ deployer = "idle" /\ cancel = "idle" /\ deleted = {} /\ drop = [d \in Drops |-> "waiting"]
      /\ \A k \in Requests : request[k] = {}
      /\ \A n \in Nodes : session[n] = "absent"
      /\ \A p \in Pollers : tick[p].pc = "idle"
  BY DEF Init, NoTick
<1>7. DeployerInv /\ RowInv /\ CancelInv /\ Real(row.daliuge)
  BY <1>6 DEF DeployerInv, Nothing, Unsent, RowInv, CancelInv, Real, Requests
<1>8. DropInv
  BY <1>6, GraphAssumption DEF DropInv
<1>9. (\A p \in Pollers : TickInv(p)) /\ DeletionInv
  BY <1>6 DEF TickInv, DeletionInv, Requests
<1> QED BY <1>5, <1>7, <1>8, <1>9 DEF IInv

\* What polls have read stays real while the session and the drops are left.
LEMMA SessionKept ==
    ASSUME UNCHANGED <<session, drop>>
    PROVE  /\ DropInv => DropInv'
           /\ \A state : Real(state) => Real(state)'
           /\ Nothing /\ UNCHANGED request => Nothing'
           /\ Everywhere => Everywhere'
           /\ Quiet => Quiet'
BY DEF DropInv, Real, AllDone, Broken, Quiet, Nothing, Everywhere

LEMMA TicksKept ==
    ASSUME UNCHANGED <<session, drop, tick>>, \A p \in Pollers : TickInv(p)
    PROVE  (\A p \in Pollers : TickInv(p))'
BY DEF TickInv, Real, AllDone, Broken, Quiet

----------------------------------------------------------------------------
\* The deployer.

LEMMA BeginStep ==
    ASSUME IInv, Begin
    PROVE  IInv'
<1> DEFINE begun == [row EXCEPT !.status = "running", !.submission = "in_flight",
                                !.daliuge = "not_created", !.named = TRUE]
<1>1. /\ deployer = "idle" /\ row.status \in {"running", "retrying"} /\ row.submission \notin Holds
      /\ row' = begun /\ deployer' = "unroll" /\ lease' = "deployer"
      /\ UNCHANGED <<session, deleted, drop, request, tick, cancel>>
  BY DEF Begin, manager, clients
<1>2. TypeOK
  BY DEF IInv
<1>3. /\ begun \in Row /\ begun.submission = "in_flight" /\ begun.daliuge = "not_created"
      /\ begun.status = "running"
  <2>1. row \in Row
    BY <1>2, Types
  <2> HIDE DEF Phase, Outcome
  <2> QED BY <2>1 DEF Row, Status, SubmissionState, DaliugeState
<1> HIDE DEF begun
<1>4. TypeOK'
  <2> HIDE DEF Row, Tick, NodeState, Requests
  <2> QED BY <1>1, <1>2, <1>3 DEF TypeOK
<1>5. DeployerInv'
  <2>1. row.submission \in Unsent
    BY <1>1, <1>2, Types DEF SubmissionState, Holds, Unsent
  <2>2. Nothing'
    BY <1>1, <2>1, SessionKept DEF IInv, DeployerInv
  <2> QED BY <1>1, <1>3, <2>2 DEF DeployerInv, Unsent
<1>6. RowInv' /\ Real(row.daliuge)'
  BY <1>1, <1>3 DEF RowInv, Real
<1>7. CancelInv'
  BY <1>1 DEF IInv, CancelInv, Holds
<1>8. DropInv' /\ (\A p \in Pollers : TickInv(p))'
  BY <1>1, SessionKept, TicksKept DEF IInv
<1>9. DeletionInv'
  BY <1>1 DEF IInv, DeletionInv, Terminal
<1> QED BY <1>4, <1>5, <1>6, <1>7, <1>8, <1>9 DEF IInv

\* Unrolled, Mapped, Created, Appended and Deployed
LEMMA RequestStep ==
    ASSUME IInv, Unrolled \/ Mapped \/ Created \/ Appended \/ Deployed
    PROVE  IInv'
<1>1. TypeOK
  BY DEF IInv
<1>2. /\ UNCHANGED <<row, lease, session, deleted, drop, tick, cancel>>
      /\ \/ deployer = "unroll" /\ deployer' = "map" /\ UNCHANGED request
         \/ deployer = "map" /\ deployer' = "create" /\ Send("create")
         \/ deployer = "create" /\ request["create"] = {} /\ deployer' = "append" /\ Send("append")
         \/ deployer = "append" /\ deployer' = "deploy" /\ Send("deploy")
         \/ deployer = "deploy" /\ deployer' = "receipt" /\ UNCHANGED request
  BY DEF Unrolled, Mapped, Created, Appended, Deployed, Answered, manager, clients
<1>3. /\ request' \in [Requests -> SUBSET Nodes]
      /\ request'["cancel"] = request["cancel"] /\ request'["delete"] = request["delete"]
      /\ deployer' # "create" => request'["create"] = request["create"]
      /\ deployer' = "create" => request'["create"] = Nodes
  <2>1. request \in [Requests -> SUBSET Nodes]
    BY <1>1, Types
  <2> QED BY <1>2, <2>1 DEF Send, Requests
<1>4. TypeOK'
  <2> HIDE DEF Row, Tick, NodeState, Requests
  <2> QED BY <1>1, <1>2, <1>3 DEF TypeOK
<1>5. row.submission = "in_flight" /\ DeployerInv
  BY <1>2 DEF IInv, DeployerInv
<1>6. DeployerInv'
  <2>1. deployer' = "map" => Nothing'
    BY <1>2, <1>5, SessionKept DEF DeployerInv
  <2>2. deployer' \in {"append", "deploy", "receipt"} => Everywhere'
    <3>1. deployer' \in {"append", "deploy", "receipt"} => Everywhere
      BY <1>2, <1>5 DEF DeployerInv, Everywhere
    <3> QED BY <1>2, <3>1, SessionKept
  <2> QED BY <1>2, <1>3, <1>5, <2>1, <2>2 DEF DeployerInv, Unsent
<1>7. RowInv' /\ Real(row.daliuge)'
  BY <1>2, SessionKept DEF IInv, RowInv
<1>8. CancelInv'
  BY <1>2, <1>3, SessionKept DEF IInv, CancelInv
<1>9. DropInv' /\ (\A p \in Pollers : TickInv(p))'
  BY <1>2, SessionKept, TicksKept DEF IInv
<1>10. DeletionInv'
  BY <1>2, <1>3 DEF IInv, DeletionInv
<1> QED BY <1>4, <1>6, <1>7, <1>8, <1>9, <1>10 DEF IInv

\* SubmissionFailed and SubmissionUncertain
LEMMA UnsubmittedStep ==
    ASSUME IInv, SubmissionFailed \/ SubmissionUncertain
    PROVE  IInv'
<1>1. TypeOK /\ row \in Row
  BY Types DEF IInv
<1>2. PICK s \in {"failed", "uncertain"} :
        /\ row' = Patched(row, [row EXCEPT !.submission = s], FALSE)
        /\ s = "failed" => deployer \in {"unroll", "map"}
  <2>1. CASE SubmissionFailed
    BY <2>1 DEF SubmissionFailed, StatePatch, Definite
  <2>2. CASE SubmissionUncertain
    BY <2>2 DEF SubmissionUncertain, StatePatch
  <2> QED BY <2>1, <2>2
<1>3. /\ deployer # "idle" /\ Done
      /\ UNCHANGED <<session, deleted, drop, request, tick, cancel>>
  BY DEF SubmissionFailed, SubmissionUncertain, Definite, manager, clients
<1>4. deployer' = "idle" /\ lease' \in {"none", lease}
  BY <1>3 DEF Done
<1>5. /\ row' \in Row /\ row'.daliuge = row.daliuge /\ row'.named = row.named
      /\ row.status \in Terminal => row' = row
      /\ row.status \notin Terminal =>
           /\ row'.submission = s
           /\ s = "failed" => row'.status = "failed"
  BY <1>1, <1>2, SubmissionRow
<1>6. row.submission = "in_flight" /\ DeployerInv
  BY <1>3 DEF IInv, DeployerInv
<1>7. TypeOK'
  <2> HIDE DEF Row, Tick, NodeState, Requests
  <2> QED BY <1>1, <1>3, <1>4, <1>5 DEF TypeOK
<1>8. DeployerInv'
  <2>1. row'.submission \in Unsent => Nothing'
    BY <1>2, <1>3, <1>5, <1>6, SessionKept DEF DeployerInv, Unsent
  <2>2. row'.submission # "submitted"
    BY <1>5, <1>6
  <2> QED BY <1>4, <2>1, <2>2 DEF DeployerInv
<1>9. RowInv'
  BY <1>5, <1>6 DEF RowInv
<1>10. CancelInv'
  BY <1>3, <1>6 DEF IInv, CancelInv
<1>11. DropInv' /\ (\A p \in Pollers : TickInv(p))' /\ Real(row.daliuge)'
  BY <1>3, <1>5, SessionKept, TicksKept DEF IInv
<1>12. DeletionInv'
  BY <1>3, <1>5 DEF IInv, DeletionInv
<1> QED BY <1>7, <1>8, <1>9, <1>10, <1>11, <1>12 DEF IInv

LEMMA ReceiptStep ==
    ASSUME IInv, RecordReceipt
    PROVE  IInv'
<1>1. TypeOK /\ row \in Row
  BY Types DEF IInv
<1>2. /\ deployer = "receipt" /\ row' = Receipted /\ Done
      /\ UNCHANGED <<session, deleted, drop, request, tick, cancel>>
  BY DEF RecordReceipt, manager, clients
<1>3. deployer' = "idle" /\ lease' \in {"none", lease}
  BY <1>2 DEF Done
<1>4. /\ row' \in Row /\ row'.submission = "submitted"
      /\ row.status \in Terminal => row'.status = row.status /\ row'.daliuge = row.daliuge
      /\ row.status \notin Terminal => row'.status = "running" /\ row'.daliuge = "running"
  <2> DEFINE filed == [row EXCEPT !.submission = "submitted"]
  <2>0. /\ filed \in Row /\ filed.submission = "submitted" /\ filed.status = row.status
        /\ filed.daliuge = row.daliuge
    <3> HIDE DEF Status, Phase, DaliugeState, Outcome
    <3> QED BY <1>1 DEF Row, SubmissionState
  <2>1. CASE row.status \in Terminal
    <3>1. row' = filed
      BY <1>2, <2>1 DEF Receipted
    <3> QED BY <2>0, <2>1, <3>1
  <2>2. CASE row.status \notin Terminal
    <3> DEFINE taken == [filed EXCEPT !.status = "running", !.daliuge = "running",
                                      !.outcome = "none", !.rounds = 0]
    <3>1. row' = taken
      BY <1>2, <2>2 DEF Receipted
    <3>2. taken \in Row /\ taken.submission = "submitted" /\ taken.status = "running"
          /\ taken.daliuge = "running"
      <4>1. /\ "running" \in Status /\ "running" \in DaliugeState /\ "none" \in Outcome
            /\ 0 \in 0 .. MaxRounds
        BY BoundsAssumption DEF Status, DaliugeState, Outcome
      <4> HIDE DEF Status, Phase, SubmissionState, DaliugeState, Outcome, filed
      <4> QED BY <2>0, <4>1 DEF Row
    <3> HIDE DEF taken
    <3> QED BY <2>2, <3>1, <3>2
  <2> QED BY <2>1, <2>2
<1>5. row.submission = "in_flight" /\ Everywhere
  BY <1>2 DEF IInv, DeployerInv
<1>6. TypeOK'
  <2> HIDE DEF Row, Tick, NodeState, Requests
  <2> QED BY <1>1, <1>2, <1>3, <1>4 DEF TypeOK
<1>7. DeployerInv'
  <2>1. Everywhere'
    BY <1>2, <1>5, SessionKept
  <2> QED BY <1>3, <1>4, <2>1 DEF DeployerInv, Unsent
<1>8. RowInv'
  BY <1>4 DEF RowInv
<1>9. CancelInv'
  BY <1>2, <1>5 DEF IInv, CancelInv
<1>10. DropInv' /\ (\A p \in Pollers : TickInv(p))' /\ Real(row.daliuge)'
  <2>1. Real(row'.daliuge)
    BY <1>4 DEF IInv, Real
  <2> QED BY <1>2, <2>1, SessionKept, TicksKept DEF IInv
<1>11. DeletionInv'
  BY <1>2, <1>4 DEF IInv, DeletionInv
<1> QED BY <1>6, <1>7, <1>8, <1>9, <1>10, <1>11 DEF IInv

\* LeaseLost, Dropped, Redelivered and Settled
LEMMA LeaseStep ==
    ASSUME IInv, LeaseLost \/ Dropped \/ Redelivered \/ Settled
    PROVE  IInv'
<1>1. TypeOK
  BY DEF IInv
<1>2. /\ UNCHANGED <<row, session, deleted, drop, request, tick, cancel>>
      /\ deployer' \in {"idle", deployer}
      /\ lease' \in {"none", "expired", "redelivered"}
  BY <1>1 DEF LeaseLost, Dropped, Redelivered, Settled, Done, manager, clients, TypeOK
<1>3. TypeOK'
  <2> HIDE DEF Row, Tick, NodeState, Requests
  <2> QED BY <1>1, <1>2 DEF TypeOK
<1>4. DeployerInv'
  BY <1>2, SessionKept DEF IInv, DeployerInv
<1>5. RowInv' /\ Real(row.daliuge)'
  BY <1>2, SessionKept DEF IInv, RowInv
<1>6. CancelInv' /\ DeletionInv'
  BY <1>2, SessionKept DEF IInv, CancelInv, DeletionInv
<1>7. DropInv' /\ (\A p \in Pollers : TickInv(p))'
  BY <1>2, SessionKept, TicksKept DEF IInv
<1> QED BY <1>3, <1>4, <1>5, <1>6, <1>7 DEF IInv

----------------------------------------------------------------------------
\* The manager.

\* An end of a node is for good, and so is a session's having been there.
LEMMA EndsStay ==
    ASSUME TypeOK, session' \in [Nodes -> NodeState],
           \A n \in Nodes : \/ session'[n] = session[n]
                            \/ session[n] = "absent" /\ session'[n] \in NodeActive
                            \/ session[n] \in NodeActive /\ session'[n] \in NodeActive \cup NodeEnded
    PROVE  /\ \A n \in Nodes : session[n] \in NodeEnded => session'[n] = session[n]
           /\ \A n \in Nodes : session[n] # "absent" => session'[n] # "absent"
           /\ Everywhere => Everywhere'
           /\ Quiet => Quiet'
BY DEF NodeEnded, NodeActive, Everywhere, Quiet

\* What was read of the session's end stays real.
LEMMA RealStays ==
    ASSUME TypeOK, \A n \in Nodes : session[n] \in NodeEnded => session'[n] = session[n],
           \A d \in Drops : drop[d] # "waiting" => drop'[d] = drop[d]
    PROVE  \A state : Real(state) => Real(state)'
<1>1. AllDone => AllDone'
  BY DEF AllDone
<1>2. Broken => Broken'
  BY DEF Broken, NodeEnded
<1>3. Quiet => Quiet'
  BY DEF Quiet
<1> QED BY <1>1, <1>2, <1>3 DEF Real

LEMMA ManagerTicks ==
    ASSUME UNCHANGED tick, \A p \in Pollers : TickInv(p),
           \A n \in Nodes : session[n] = "finished" => session'[n] = "finished",
           \A state : Real(state) => Real(state)'
    PROVE  (\A p \in Pollers : TickInv(p))'
BY DEF TickInv

LEMMA EffectStep ==
    ASSUME IInv, NEW kind \in Requests, NEW n \in Nodes, TakeEffect(kind, n),
           UNCHANGED <<row, deployer, lease, clients>>
    PROVE  IInv'
<1>1. TypeOK /\ session \in [Nodes -> NodeState] /\ request \in [Requests -> SUBSET Nodes]
      /\ deleted \subseteq Nodes
  BY Types DEF IInv
<1>2. /\ n \in request[kind] /\ request' = [request EXCEPT ![kind] = @ \ {n}]
      /\ session' = [session EXCEPT ![n] = Effect(kind, @)]
      /\ deleted' = IF kind = "delete" THEN deleted \cup {n} ELSE deleted
      /\ UNCHANGED <<drop, row, deployer, lease, tick, cancel>>
  BY DEF TakeEffect, clients
<1>3. /\ session[n] = "absent" => Effect(kind, session[n]) \in {"absent", "pristine"}
      /\ session[n] = "absent" /\ kind = "create" => Effect(kind, session[n]) = "pristine"
      /\ session[n] = "absent" /\ kind # "create" => Effect(kind, session[n]) = "absent"
      /\ session[n] \in NodeActive =>
           Effect(kind, session[n]) \in NodeActive \cup {"cancelled"}
      /\ session[n] \in NodeActive /\ kind = "cancel" => Effect(kind, session[n]) = "cancelled"
      /\ session[n] \in NodeEnded => Effect(kind, session[n]) = session[n]
      /\ session[n] \in {"absent"} \cup NodeActive \cup NodeEnded
  BY <1>1 DEF Effect, NodeActive, NodeEnded, NodeState, Requests
<1>4. /\ session' \in [Nodes -> NodeState] /\ session'[n] = Effect(kind, session[n])
      /\ \A m \in Nodes : m # n => session'[m] = session[m]
  <2>1. Effect(kind, session[n]) \in NodeState
    BY <1>3 DEF NodeState, NodeActive, NodeEnded
  <2> HIDE DEF NodeState
  <2> QED BY <1>1, <1>2, <2>1
<1>5. \A m \in Nodes : \/ session'[m] = session[m]
                       \/ session[m] = "absent" /\ session'[m] \in NodeActive
                       \/ session[m] \in NodeActive /\ session'[m] \in NodeActive \cup NodeEnded
  BY <1>3, <1>4 DEF NodeActive, NodeEnded
<1>6. /\ \A m \in Nodes : session[m] \in NodeEnded => session'[m] = session[m]
      /\ \A m \in Nodes : session[m] # "absent" => session'[m] # "absent"
      /\ Everywhere => Everywhere'
      /\ Quiet => Quiet'
  BY <1>1, <1>4, <1>5, EndsStay
<1>7. /\ request' \in [Requests -> SUBSET Nodes] /\ request'[kind] = request[kind] \ {n}
      /\ \A k \in Requests : k # kind => request'[k] = request[k]
  BY <1>1, <1>2
<1>8. TypeOK'
  <2>1. deleted' \subseteq Nodes
    BY <1>1, <1>2
  <2> HIDE DEF Row, Tick, NodeState, Requests
  <2> QED BY <1>1, <1>2, <1>4, <1>7, <2>1 DEF TypeOK
<1>9. DeployerInv'
  <2>1. Nothing => Nothing'
    BY <1>2, <1>3, <1>4, <1>7 DEF Nothing, Requests
  <2>2. deployer = "create" => \A m \in Nodes \ request'["create"] : session'[m] # "absent"
    BY <1>2, <1>3, <1>4, <1>6, <1>7 DEF IInv, DeployerInv, Requests, NodeActive, NodeEnded
  <2>3. UNCHANGED <<row, deployer>> /\ DeployerInv
    BY <1>2 DEF IInv
  <2>4. deployer \in {"append", "deploy", "receipt"} \/ row.submission = "submitted" => Everywhere'
    BY <1>6, <2>3 DEF DeployerInv
  <2>5. deployer # "idle" => row.submission = "in_flight"
    BY <2>3 DEF DeployerInv
  <2>6. row.submission \in Unsent \/ deployer \in {"unroll", "map"} => Nothing'
    BY <2>1, <2>3 DEF DeployerInv
  <2> QED BY <2>2, <2>3, <2>4, <2>5, <2>6 DEF DeployerInv
<1>10. CancelInv'
  <2>1. cancel = "asked" => \A m \in Nodes \ request'["cancel"] : session'[m] \in NodeEnded
    <3> SUFFICES ASSUME cancel = "asked", NEW m \in Nodes \ request'["cancel"]
                 PROVE  session'[m] \in NodeEnded
      OBVIOUS
    <3>1. session[m] # "absent"
      BY DEF IInv, CancelInv, DeployerInv, Everywhere
    <3>2. CASE m \notin request["cancel"]
      <4>1. session[m] \in NodeEnded
        BY <3>2 DEF IInv, CancelInv
      <4> QED BY <1>6, <4>1
    <3>3. CASE m \in request["cancel"]
      <4>1. m = n /\ kind = "cancel"
        BY <1>7, <3>3 DEF Requests
      <4> QED BY <1>3, <1>4, <3>1, <4>1 DEF NodeEnded
    <3> QED BY <3>2, <3>3
  <2>2. UNCHANGED <<row, cancel>> /\ CancelInv
    BY <1>2 DEF IInv
  <2>3. cancel = "confirmed" => Quiet'
    BY <1>6, <2>2 DEF CancelInv
  <2> QED BY <2>1, <2>2, <2>3 DEF CancelInv
<1>11. /\ \A m \in Nodes : session[m] = "finished" => session'[m] = "finished"
       /\ \A m \in Nodes : session'[m] = "finished" => session[m] = "finished"
  BY <1>3, <1>4, <1>6 DEF NodeActive, NodeEnded
<1>12. DropInv'
  BY <1>2, <1>11, GraphAssumption DEF IInv, DropInv
<1>13. \A state : Real(state) => Real(state)'
  BY <1>1, <1>2, <1>6, RealStays
<1>14. (\A p \in Pollers : TickInv(p))' /\ Real(row.daliuge)'
  BY <1>2, <1>11, <1>13, ManagerTicks DEF IInv
<1>15. DeletionInv'
  <2>1. request'["delete"] # {} \/ deleted' # {} => request["delete"] # {} \/ deleted # {}
    BY <1>2, <1>7 DEF Requests
  <2> QED BY <1>2, <2>1 DEF IInv, DeletionInv
<1>16. RowInv'
  BY <1>2 DEF IInv, RowInv
<1> QED BY <1>8, <1>9, <1>10, <1>12, <1>14, <1>15, <1>16 DEF IInv

LEMMA FireStep ==
    ASSUME IInv, NEW d \in Drops, Fire(d), UNCHANGED <<row, deployer, lease, clients>>
    PROVE  IInv'
<1>1. TypeOK /\ drop \in [Drops -> {"waiting", "done", "error"}]
  BY Types DEF IInv
<1>2. PICK result \in {"done", "error"} : drop' = [drop EXCEPT ![d] = result]
  BY DEF Fire
<1>3. /\ drop[d] = "waiting"
      /\ UNCHANGED <<row, deployer, lease, session, deleted, request, tick, cancel>>
  BY DEF Fire, CanFire, clients
<1>4. /\ drop' \in [Drops -> {"waiting", "done", "error"}]
      /\ \A e \in Drops : drop[e] # "waiting" => drop'[e] = drop[e]
  BY <1>1, <1>2, <1>3
<1>5. TypeOK'
  <2> HIDE DEF Row, Tick, NodeState, Requests
  <2> QED BY <1>1, <1>3, <1>4 DEF TypeOK
<1>6. DeployerInv' /\ RowInv' /\ CancelInv' /\ DeletionInv'
  BY <1>3 DEF IInv, DeployerInv, Nothing, Everywhere, RowInv, CancelInv, Quiet, DeletionInv
<1>7. DropInv'
  BY <1>3, <1>4 DEF IInv, DropInv
<1>8. \A state : Real(state) => Real(state)'
  BY <1>1, <1>3, <1>4, RealStays
<1>9. (\A p \in Pollers : TickInv(p))' /\ Real(row.daliuge)'
  BY <1>3, <1>8, ManagerTicks DEF IInv
<1> QED BY <1>5, <1>6, <1>7, <1>9 DEF IInv

LEMMA EndStep ==
    ASSUME IInv, NEW n \in Nodes, End(n), UNCHANGED <<row, deployer, lease, clients>>
    PROVE  IInv'
<1> DEFINE settled == \A d \in Drops : Graph[d].on = n => Settles(d)
<1>1. TypeOK /\ session \in [Nodes -> NodeState]
  BY Types DEF IInv
<1>2. /\ session[n] = "running"
      /\ session' = [session EXCEPT ![n] = IF settled THEN "finished" ELSE "failed"]
      /\ UNCHANGED <<row, deployer, lease, deleted, drop, request, tick, cancel>>
  BY DEF End, clients
<1> HIDE DEF settled
<1>3. /\ session' \in [Nodes -> NodeState]
      /\ session'[n] \in {"finished", "failed"} /\ (session'[n] = "finished" => settled)
      /\ \A m \in Nodes : m # n => session'[m] = session[m]
  BY <1>1, <1>2 DEF NodeState
<1>4. \A m \in Nodes : \/ session'[m] = session[m]
                       \/ session[m] = "absent" /\ session'[m] \in NodeActive
                       \/ session[m] \in NodeActive /\ session'[m] \in NodeActive \cup NodeEnded
  BY <1>2, <1>3 DEF NodeActive, NodeEnded
<1>5. /\ \A m \in Nodes : session[m] \in NodeEnded => session'[m] = session[m]
      /\ \A m \in Nodes : session[m] # "absent" => session'[m] # "absent"
      /\ Everywhere => Everywhere'
      /\ Quiet => Quiet'
  BY <1>1, <1>3, <1>4, EndsStay
<1>6. TypeOK'
  <2> HIDE DEF Row, Tick, NodeState, Requests
  <2> QED BY <1>1, <1>2, <1>3 DEF TypeOK
<1>7. DeployerInv'
  <2>1. ~ Nothing
    BY <1>2 DEF Nothing
  <2>2. UNCHANGED <<row, deployer, request>> /\ DeployerInv
    BY <1>2 DEF IInv
  <2>3. deployer = "create" => \A m \in Nodes \ request["create"] : session'[m] # "absent"
    BY <1>5, <2>2 DEF DeployerInv
  <2>4. deployer \in {"append", "deploy", "receipt"} \/ row.submission = "submitted" => Everywhere'
    BY <1>5, <2>2 DEF DeployerInv
  <2>5. deployer # "idle" => row.submission = "in_flight"
    BY <2>2 DEF DeployerInv
  <2>6. ~ (row.submission \in Unsent \/ deployer \in {"unroll", "map"})
    BY <2>1, <2>2 DEF DeployerInv
  <2> QED BY <2>2, <2>3, <2>4, <2>5, <2>6 DEF DeployerInv
<1>8. RowInv' /\ DeletionInv'
  BY <1>2 DEF IInv, RowInv, DeletionInv
<1>9. CancelInv'
  <2>1. cancel = "asked" => \A m \in Nodes \ request["cancel"] : session'[m] \in NodeEnded
    BY <1>5 DEF IInv, CancelInv
  <2>2. UNCHANGED <<row, cancel, request>> /\ CancelInv
    BY <1>2 DEF IInv
  <2>3. cancel = "confirmed" => Quiet'
    BY <1>5, <2>2 DEF CancelInv
  <2> QED BY <2>1, <2>2, <2>3 DEF CancelInv
<1>10. DropInv'
  <2> SUFFICES ASSUME NEW d \in Drops, session'[Graph[d].on] = "finished"
               PROVE  drop'[d] # "waiting"
    BY DEF DropInv
  <2>1. Graph[d].on \in Nodes
    BY GraphAssumption
  <2>2. CASE Graph[d].on = n
    BY <1>2, <1>3, <2>2 DEF settled, Settles
  <2>3. CASE Graph[d].on # n
    BY <1>2, <1>3, <2>1, <2>3 DEF IInv, DropInv
  <2> QED BY <2>2, <2>3
<1>11. \A state : Real(state) => Real(state)'
  BY <1>1, <1>2, <1>5, RealStays
<1>12. (\A p \in Pollers : TickInv(p))' /\ Real(row.daliuge)'
  <2>1. \A m \in Nodes : session[m] = "finished" => session'[m] = "finished"
    BY <1>5 DEF NodeEnded
  <2> QED BY <1>2, <1>11, <2>1, ManagerTicks DEF IInv
<1> QED BY <1>6, <1>7, <1>8, <1>9, <1>10, <1>12 DEF IInv

LEMMA ManagerStep ==
    ASSUME IInv, Manager
    PROVE  IInv'
BY EffectStep, FireStep, EndStep DEF Manager

----------------------------------------------------------------------------
\* The poll tick.

LEMMA AggregateIsReal ==
    /\ Aggregate \in DaliugeState
    /\ Aggregate = "failed" => \E n \in Nodes : session[n] = "failed"
    /\ Aggregate = "finished" => \A n \in Nodes : session[n] = "finished"
    /\ Aggregate = "cancelled" => \A n \in Nodes : session[n] = "cancelled"
<1> DEFINE first == CHOOSE i \in DOMAIN Furthest :
                       /\ Furthest[i] \in States
                       /\ \A j \in 1 .. i - 1 : Furthest[j] \notin States
<1>1. /\ DOMAIN Furthest = 1 .. 4
      /\ Furthest[1] = "running" /\ Furthest[2] = "deploying"
      /\ Furthest[3] = "building" /\ Furthest[4] = "pristine"
  BY DEF Furthest
<1>2. ASSUME \E i \in DOMAIN Furthest : Furthest[i] \in States
      PROVE  Furthest[first] \in {"running", "deploying", "building", "pristine"}
  <2>1. \E i \in DOMAIN Furthest : /\ Furthest[i] \in States
                                   /\ \A j \in 1 .. i - 1 : Furthest[j] \notin States
    <3> HIDE DEF Furthest, States
    <3>1. CASE Furthest[1] \in States
      <4>1. 1 \in DOMAIN Furthest /\ \A j \in 1 .. 1 - 1 : Furthest[j] \notin States
        BY <1>1
      <4> QED BY <3>1, <4>1
    <3>2. CASE Furthest[1] \notin States /\ Furthest[2] \in States
      <4>1. 2 \in DOMAIN Furthest /\ \A j \in 1 .. 2 - 1 : j = 1
        BY <1>1
      <4> QED BY <3>2, <4>1
    <3>3. CASE Furthest[1] \notin States /\ Furthest[2] \notin States /\ Furthest[3] \in States
      <4>1. 3 \in DOMAIN Furthest /\ \A j \in 1 .. 3 - 1 : j = 1 \/ j = 2
        BY <1>1
      <4> QED BY <3>3, <4>1
    <3>4. CASE /\ Furthest[1] \notin States /\ Furthest[2] \notin States
               /\ Furthest[3] \notin States
      <4>1. Furthest[4] \in States
        <5>1. PICK i \in 1 .. 4 : Furthest[i] \in States
          BY <1>1, <1>2
        <5>2. i = 1 \/ i = 2 \/ i = 3 \/ i = 4
          BY <5>1
        <5> QED BY <3>4, <5>1, <5>2
      <4>2. 4 \in DOMAIN Furthest /\ \A j \in 1 .. 4 - 1 : j = 1 \/ j = 2 \/ j = 3
        BY <1>1
      <4> QED BY <3>4, <4>1, <4>2
    <3> QED BY <3>1, <3>2, <3>3, <3>4
  <2>2. first \in DOMAIN Furthest
    <3> HIDE DEF Furthest, States
    <3> QED BY <2>1
  <2>3. first = 1 \/ first = 2 \/ first = 3 \/ first = 4
    <3> HIDE DEF Furthest, first
    <3> QED BY <1>1, <2>2
  <2> HIDE DEF first, Furthest
  <2> QED BY <1>1, <2>3
<1>3. Aggregate = IF "failed" \in States THEN "failed"
                  ELSE IF States = {"finished"} THEN "finished"
                  ELSE IF States = {"cancelled"} THEN "cancelled"
                  ELSE IF \E i \in DOMAIN Furthest : Furthest[i] \in States THEN Furthest[first]
                  ELSE "unknown"
  BY DEF Aggregate
<1> HIDE DEF first
<1>4. \A n \in Nodes : n \notin deleted => session[n] \in States
  BY DEF States
<1>5. \A n \in Nodes : n \in deleted => "absent" \in States
  BY DEF States
<1>6. "failed" \in States => \E n \in Nodes : session[n] = "failed"
  BY DEF States
<1>7. Aggregate = "failed" => "failed" \in States
  BY <1>2, <1>3
<1>8. Aggregate = "finished" => States = {"finished"}
  BY <1>2, <1>3
<1>9. Aggregate = "cancelled" => States = {"cancelled"}
  BY <1>2, <1>3
<1>10. Aggregate \in {"failed", "finished", "cancelled", "running", "deploying", "building",
                      "pristine", "unknown"}
  BY <1>2, <1>3
<1> QED BY <1>4, <1>5, <1>6, <1>7, <1>8, <1>9, <1>10 DEF DaliugeState

\* What a poller may hold
Holding(t) ==
    /\ t.pc = "graph" =>
         /\ t.seen = "finished" => \A n \in Nodes : session[n] = "finished"
         /\ t.seen # "finished" => Real(t.seen)
    /\ t.pc = "apply" => Real(t.seen)
    /\ t.pc = "missed" => t.seen \in {"unreachable", "not_created"}
    /\ t.pc = "round" => t.round + 1 < MaxRounds

\* What a step of a poll leaves of the invariant
LEMMA Polls ==
    ASSUME IInv, NEW p \in Pollers, NEW t \in Tick, tick' = [tick EXCEPT ![p] = t], Holding(t),
           UNCHANGED <<deployer, lease, session, deleted, drop, cancel>>,
           row' \in Row, row'.submission = row.submission, row'.named = row.named,
           row'.submission = "failed" => row'.status = "failed", Real(row'.daliuge),
           request' \in [Requests -> SUBSET Nodes],
           \A k \in Requests : k # "delete" => request'[k] = request[k],
           \/ row'.status \in Terminal /\ Ended(row'.daliuge)
           \/ /\ t.pc # "destroy" /\ request'["delete"] = request["delete"]
              /\ row.status \notin Terminal \/ ~ Ended(row.daliuge)
           \/ /\ t.pc # "destroy" /\ request'["delete"] = request["delete"]
              /\ row'.status = row.status /\ row'.daliuge = row.daliuge
    PROVE  IInv'
<1>1. TypeOK /\ tick \in [Pollers -> Tick]
  BY Types DEF IInv
<1>2. /\ tick' \in [Pollers -> Tick] /\ tick'[p] = t
      /\ \A q \in Pollers : q # p => tick'[q] = tick[q]
  BY <1>1
<1>3. TypeOK'
  <2> HIDE DEF Row, Tick, NodeState, Requests
  <2> QED BY <1>1, <1>2 DEF TypeOK
<1>4. DeployerInv'
  <2>1. request'["create"] = request["create"]
    BY DEF Requests
  <2> QED BY <2>1 DEF IInv, DeployerInv, Nothing, Everywhere
<1>5. RowInv'
  BY DEF IInv, RowInv
<1>6. CancelInv'
  <2>1. request'["cancel"] = request["cancel"]
    BY DEF Requests
  <2> QED BY <2>1 DEF IInv, CancelInv, Quiet
<1>7. DropInv' /\ Real(row.daliuge)' /\ \A state : Real(state) => Real(state)'
  BY SessionKept DEF IInv
<1>8. ASSUME NEW q \in Pollers
      PROVE  TickInv(q)'
  <2>1. CASE q = p
    BY <1>2, <1>7, <2>1 DEF Holding, TickInv
  <2>2. CASE q # p
    <3>1. tick'[q] = tick[q] /\ TickInv(q)
      BY <1>2, <2>2 DEF IInv
    <3> QED BY <1>7, <3>1 DEF TickInv
  <2> QED BY <2>1, <2>2
<1>9. DeletionInv'
  <2>1. CASE row'.status \in Terminal /\ Ended(row'.daliuge)
    BY <2>1 DEF DeletionInv
  <2>2. CASE t.pc # "destroy" /\ request'["delete"] = request["delete"]
    <3>1. (\E q \in Pollers : tick'[q].pc = "destroy") => \E q \in Pollers : tick[q].pc = "destroy"
      BY <1>2, <2>2
    <3> QED BY <2>2, <3>1 DEF IInv, DeletionInv
  <2> QED BY <2>1, <2>2
<1> QED BY <1>3, <1>4, <1>5, <1>6, <1>7, <1>8, <1>9 DEF IInv

\* StartPoll, Unanswered, ReadStatus, ReadGraph and PollDies
LEMMA ReadStep ==
    ASSUME IInv, NEW p \in Pollers,
           StartPoll(p) \/ Unanswered(p) \/ ReadStatus(p) \/ ReadGraph(p) \/ PollDies(p)
    PROVE  IInv'
<1>1. TypeOK /\ tick \in [Pollers -> Tick] /\ row \in Row /\ request \in [Requests -> SUBSET Nodes]
  BY Types DEF IInv
<1>2. UNCHANGED <<row, deployer, lease, session, deleted, drop, request, cancel>>
  BY DEF StartPoll, Unanswered, ReadStatus, ReadGraph, PollDies, polling, manager
<1>3. tick[p] \in Tick /\ NoTick \in Tick /\ NoTick.pc = "idle"
  BY <1>1, BoundsAssumption DEF NoTick, Tick, DaliugeState
<1>4. PICK t \in Tick : tick' = [tick EXCEPT ![p] = t] /\ Holding(t) /\ t.pc # "destroy"
  <2>1. CASE StartPoll(p)
    <3> DEFINE t == [NoTick EXCEPT !.pc = "status", !.round = row.rounds]
    <3>1. row.rounds \in 0 .. MaxRounds
      BY <1>1 DEF Row
    <3>2. t \in Tick /\ t.pc = "status"
      BY <3>1 DEF NoTick, Tick, DaliugeState
    <3>3. tick' = [tick EXCEPT ![p] = t]
      BY <2>1 DEF StartPoll
    <3> HIDE DEF t
    <3>4. Holding(t)
      BY <3>2 DEF Holding
    <3> QED BY <3>2, <3>3, <3>4
  <2>2. CASE Unanswered(p)
    <3>1. PICK seen \in {"unreachable", "not_created"} :
            tick' = [tick EXCEPT ![p] = [NoTick EXCEPT !.pc = "missed", !.seen = seen]]
      BY <2>2 DEF Unanswered
    <3> DEFINE t == [NoTick EXCEPT !.pc = "missed", !.seen = seen]
    <3>2. seen \in DaliugeState
      BY DEF DaliugeState
    <3>3. t \in Tick /\ t.pc = "missed" /\ t.seen = seen
      <4> HIDE DEF DaliugeState
      <4> QED BY <1>3, <3>2 DEF Tick
    <3>4. tick' = [tick EXCEPT ![p] = t]
      BY <3>1
    <3> HIDE DEF t
    <3>5. Holding(t)
      BY <3>3 DEF Holding
    <3> QED BY <3>3, <3>4, <3>5
  <2>3. CASE ReadStatus(p)
    <3> DEFINE t == [tick[p] EXCEPT !.pc = "graph", !.seen = Aggregate]
    <3>1. t \in Tick /\ t.pc = "graph" /\ t.seen = Aggregate
      BY <1>3, AggregateIsReal DEF Tick
    <3>2. tick' = [tick EXCEPT ![p] = t]
      <4>1. tick' = [tick EXCEPT ![p].pc = "graph", ![p].seen = Aggregate]
        BY <2>3 DEF ReadStatus
      <4> QED BY <1>1, <4>1
    <3> HIDE DEF t
    <3>3. Holding(t)
      BY <3>1, AggregateIsReal DEF Holding, Real, Broken, Quiet, NodeEnded
    <3> QED BY <3>1, <3>2, <3>3
  <2>4. CASE ReadGraph(p)
    <3> DEFINE seen == WithDrops(tick[p].seen)
               t == [tick[p] EXCEPT !.pc = "apply", !.seen = seen]
    <3>1. tick[p].pc = "graph" /\ TickInv(p) /\ DropInv
      BY <2>4 DEF ReadGraph, IInv
    <3>2. seen \in DaliugeState
      BY <1>3 DEF WithDrops, Tick, DaliugeState
    <3>3. Real(seen)
      <4>1. CASE tick[p].seen # "finished"
        BY <3>1, <4>1 DEF WithDrops, TickInv
      <4>2. CASE tick[p].seen = "finished" /\ \E d \in Drops : drop[d] = "error"
        BY <4>2 DEF WithDrops, Real, Broken
      <4>3. CASE tick[p].seen = "finished" /\ ~ \E d \in Drops : drop[d] = "error"
        <5>1. \A n \in Nodes : session[n] = "finished"
          BY <3>1, <4>3 DEF TickInv
        <5>2. \A d \in Drops : drop[d] # "waiting"
          BY <3>1, <5>1, GraphAssumption DEF DropInv
        <5>3. AllDone
          BY <1>1, <4>3, <5>2, Types DEF AllDone
        <5> QED BY <4>3, <5>3 DEF WithDrops, Real
      <4> QED BY <4>1, <4>2, <4>3
    <3>4. tick' = [tick EXCEPT ![p] = t]
      <4>1. tick' = [tick EXCEPT ![p].pc = "apply", ![p].seen = WithDrops(@)]
        BY <2>4 DEF ReadGraph
      <4> QED BY <1>1, <4>1
    <3> HIDE DEF seen
    <3>5. t \in Tick /\ t.pc = "apply" /\ t.seen = seen
      BY <1>3, <3>2 DEF Tick
    <3> HIDE DEF t
    <3>6. Holding(t)
      BY <3>3, <3>5 DEF Holding
    <3> QED BY <3>4, <3>5, <3>6
  <2>5. CASE PollDies(p)
    <3>1. tick' = [tick EXCEPT ![p] = NoTick]
      BY <2>5 DEF PollDies, Stop
    <3> QED BY <1>3, <3>1 DEF Holding
  <2> QED BY <2>1, <2>2, <2>3, <2>4, <2>5
<1>5. /\ row' \in Row /\ row'.submission = row.submission /\ row'.named = row.named
      /\ row'.submission = "failed" => row'.status = "failed"
      /\ Real(row'.daliuge) /\ row'.status = row.status /\ row'.daliuge = row.daliuge
  BY <1>1, <1>2 DEF IInv, RowInv
<1>6. /\ request' \in [Requests -> SUBSET Nodes] /\ request'["delete"] = request["delete"]
      /\ \A k \in Requests : k # "delete" => request'[k] = request[k]
  BY <1>1, <1>2
<1> QED BY <1>2, <1>4, <1>5, <1>6, Polls

\* RecordMiss and ApplyPoll
LEMMA ObserveStep ==
    ASSUME IInv, NEW p \in Pollers, RecordMiss(p) \/ ApplyPoll(p)
    PROVE  IInv'
<1>1. TypeOK /\ tick \in [Pollers -> Tick] /\ row \in Row /\ request \in [Requests -> SUBSET Nodes]
  BY Types DEF IInv
<1>2. UNCHANGED <<deployer, lease, session, deleted, drop, request, cancel>>
  BY DEF RecordMiss, ApplyPoll, polling, manager
<1>3. tick[p] \in Tick /\ NoTick \in Tick /\ NoTick.pc = "idle" /\ tick[p].seen \in DaliugeState
      /\ tick[p].round \in 0 .. MaxRounds
  BY <1>1, BoundsAssumption DEF NoTick, Tick, DaliugeState
<1>4. Real(tick[p].seen) /\ TickInv(p)
  BY DEF IInv, TickInv, RecordMiss, ApplyPoll, Real
<1>5. row' = Patched(row, [row EXCEPT !.daliuge = tick[p].seen], FALSE)
  BY DEF RecordMiss, ApplyPoll, Observe, StatePatch
<1>6. /\ row' \in Row /\ row'.submission = row.submission /\ row'.named = row.named
      /\ row.status \in Terminal => row' = row
      /\ row.status \notin Terminal =>
           /\ row'.daliuge = tick[p].seen
           /\ row'.submission = "failed" => row'.status = "failed"
           /\ Ended(tick[p].seen) => row'.status \in Terminal
  BY <1>1, <1>3, <1>5, ObservedRow
<1>7. /\ row'.submission = "failed" => row'.status = "failed"
      /\ Real(row'.daliuge)
  BY <1>4, <1>6 DEF IInv, RowInv
<1>8. PICK t \in Tick :
        /\ tick' = [tick EXCEPT ![p] = t] /\ Holding(t)
        /\ t.pc = "destroy" => row'.status \in Terminal /\ Ended(row'.daliuge)
  <2>1. CASE RecordMiss(p) \/ (ApplyPoll(p) /\ NextOf(p) = "idle")
    <3>1. tick' = [tick EXCEPT ![p] = NoTick]
      BY <2>1 DEF RecordMiss, ApplyPoll, Stop
    <3> QED BY <1>3, <3>1 DEF Holding
  <2>2. CASE ApplyPoll(p) /\ NextOf(p) # "idle"
    <3> DEFINE round == IF NextOf(p) = "round" THEN tick[p].round ELSE 0
               t == [NoTick EXCEPT !.pc = NextOf(p), !.round = round]
    <3>1. tick' = [tick EXCEPT ![p] = t]
      BY <2>2 DEF ApplyPoll, Goto
    <3>2. /\ NextOf(p) \in {"destroy", "expire", "round"}
          /\ NextOf(p) = "destroy" => row.status \notin Terminal /\ Ended(tick[p].seen)
          /\ NextOf(p) = "round" => tick[p].round + 1 < MaxRounds
      <4>1. NextOf(p) = "round" => ~ (tick[p].round + 1 >= MaxRounds)
        BY <2>2 DEF NextOf
      <4>2. NextOf(p) = "round" => tick[p].round + 1 < MaxRounds
        BY <1>3, <4>1, BoundsAssumption
      <4> QED BY <2>2, <4>2 DEF NextOf
    <3>3. t \in Tick /\ t.pc = NextOf(p) /\ t.round = round
      <4>1. round \in 0 .. MaxRounds
        BY <1>3, BoundsAssumption
      <4> HIDE DEF round
      <4> QED BY <3>2, <4>1 DEF NoTick, Tick, DaliugeState
    <3> HIDE DEF t
    <3>4. Holding(t)
      BY <3>2, <3>3 DEF Holding
    <3>5. t.pc = "destroy" => row'.status \in Terminal /\ Ended(row'.daliuge)
      BY <1>6, <3>2, <3>3
    <3> QED BY <3>1, <3>3, <3>4, <3>5
  <2> QED BY <2>1, <2>2
<1>9. /\ request' \in [Requests -> SUBSET Nodes] /\ request'["delete"] = request["delete"]
      /\ \A k \in Requests : k # "delete" => request'[k] = request[k]
  BY <1>1, <1>2
<1>10. \/ row'.status \in Terminal /\ Ended(row'.daliuge)
       \/ t.pc # "destroy" /\ (row.status \notin Terminal \/ ~ Ended(row.daliuge))
       \/ t.pc # "destroy" /\ row'.status = row.status /\ row'.daliuge = row.daliuge
  BY <1>6, <1>8
<1> QED BY <1>2, <1>6, <1>7, <1>8, <1>9, <1>10, Polls

\* CountRound and Expire
LEMMA RoundStep ==
    ASSUME IInv, NEW p \in Pollers, CountRound(p) \/ Expire(p)
    PROVE  IInv'
<1>1. TypeOK /\ tick \in [Pollers -> Tick] /\ row \in Row /\ request \in [Requests -> SUBSET Nodes]
  BY Types DEF IInv
<1>2. /\ UNCHANGED <<deployer, lease, session, deleted, drop, request, cancel>>
      /\ tick' = [tick EXCEPT ![p] = NoTick]
  BY DEF CountRound, Expire, polling, manager, Stop
<1>3. NoTick \in Tick /\ Holding(NoTick) /\ NoTick.pc = "idle"
  BY BoundsAssumption DEF NoTick, Tick, DaliugeState, Holding
<1>4. /\ row' \in Row /\ row'.submission = row.submission /\ row'.named = row.named
      /\ row'.daliuge = row.daliuge
      /\ row'.status = row.status \/ (row.status \notin Terminal /\ row'.status = "failed")
  <2>1. CASE CountRound(p)
    <3>1. row' = [row EXCEPT !.rounds = tick[p].round + 1] /\ tick[p].pc = "round"
      BY <2>1 DEF CountRound
    <3>2. tick[p].round + 1 \in 0 .. MaxRounds
      <4>1. tick[p].round \in 0 .. MaxRounds
        BY <1>1 DEF Tick
      <4>2. tick[p].round + 1 < MaxRounds
        BY <3>1 DEF IInv, TickInv
      <4> QED BY <4>1, <4>2, BoundsAssumption
    <3> HIDE DEF Status, Phase, SubmissionState, DaliugeState, Outcome
    <3> QED BY <1>1, <3>1, <3>2 DEF Row
  <2>2. CASE Expire(p) /\ row.status \in Terminal
    BY <1>1, <2>2 DEF Expire
  <2>3. CASE Expire(p) /\ row.status \notin Terminal
    <3> DEFINE outcome == IF row.outcome = "none" THEN "failed" ELSE row.outcome
    <3>1. row' = [row EXCEPT !.status = "failed", !.phase = "none", !.outcome = outcome]
      BY <2>3 DEF Expire
    <3>2. outcome \in Outcome /\ "failed" \in Status /\ "none" \in Phase
      BY <1>1 DEF Row, Outcome, Status, Phase
    <3> HIDE DEF Status, Phase, SubmissionState, DaliugeState, Outcome, outcome
    <3> QED BY <1>1, <2>3, <3>1, <3>2 DEF Row
  <2> QED BY <2>1, <2>2, <2>3
<1>5. row'.submission = "failed" => row'.status = "failed"
  BY <1>4 DEF IInv, RowInv
<1>6. Real(row'.daliuge)
  BY <1>4 DEF IInv
<1>7. /\ request' \in [Requests -> SUBSET Nodes] /\ request'["delete"] = request["delete"]
      /\ \A k \in Requests : k # "delete" => request'[k] = request[k]
  BY <1>1, <1>2
<1> QED BY <1>2, <1>3, <1>4, <1>5, <1>6, <1>7, Polls

LEMMA DestroyStep ==
    ASSUME IInv, NEW p \in Pollers, Destroy(p)
    PROVE  IInv'
<1>1. TypeOK /\ tick \in [Pollers -> Tick] /\ row \in Row /\ request \in [Requests -> SUBSET Nodes]
  BY Types DEF IInv
<1>2. /\ UNCHANGED <<row, deployer, lease, session, deleted, drop, cancel>>
      /\ tick' = [tick EXCEPT ![p] = NoTick] /\ Send("delete") /\ tick[p].pc = "destroy"
  BY DEF Destroy, manager, Stop
<1>3. NoTick \in Tick /\ Holding(NoTick)
  BY BoundsAssumption DEF NoTick, Tick, DaliugeState, Holding
<1>4. row.status \in Terminal /\ Ended(row.daliuge)
  BY <1>2 DEF IInv, DeletionInv
<1>5. /\ row' \in Row /\ row'.submission = row.submission /\ row'.named = row.named
      /\ row'.submission = "failed" => row'.status = "failed"
      /\ Real(row'.daliuge) /\ row'.status \in Terminal /\ Ended(row'.daliuge)
  BY <1>1, <1>2, <1>4 DEF IInv, RowInv
<1>6. /\ request' \in [Requests -> SUBSET Nodes]
      /\ \A k \in Requests : k # "delete" => request'[k] = request[k]
  BY <1>1, <1>2 DEF Send, Requests
<1> QED BY <1>2, <1>3, <1>5, <1>6, Polls

LEMMA PollStep ==
    ASSUME IInv, NEW p \in Pollers, Poll(p)
    PROVE  IInv'
BY ReadStep, ObserveStep, RoundStep, DestroyStep DEF Poll

----------------------------------------------------------------------------
\* The operator.

\* RequestCancel, Signal, Confirm and GiveUp
LEMMA CancelStep ==
    ASSUME IInv, RequestCancel \/ Signal \/ Confirm \/ GiveUp
    PROVE  IInv'
<1>1. TypeOK /\ request \in [Requests -> SUBSET Nodes]
  BY Types DEF IInv
<1>2. UNCHANGED <<row, deployer, lease, session, deleted, drop, tick>>
  BY DEF RequestCancel, Signal, Confirm, GiveUp, operating, manager
<1>3. /\ request' \in [Requests -> SUBSET Nodes]
      /\ \A k \in Requests : k # "cancel" => request'[k] = request[k]
      /\ cancel' # "asked" => request' = request
      /\ cancel' = "asked" => request'["cancel"] = Nodes
  BY <1>1 DEF RequestCancel, Signal, Confirm, GiveUp, Send, Requests
<1>4. cancel' \in {"idle", "signal", "asked", "local", "confirmed"}
  BY DEF RequestCancel, Signal, Confirm, GiveUp
<1>5. request'["create"] = request["create"] /\ request'["delete"] = request["delete"]
  BY <1>3 DEF Requests
<1>6. TypeOK'
  <2> HIDE DEF Row, Tick, NodeState, Requests
  <2> QED BY <1>1, <1>2, <1>3, <1>4 DEF TypeOK
<1>7. /\ Nothing => Nothing'
      /\ Everywhere => Everywhere'
      /\ Quiet => Quiet'
  BY <1>2, <1>5 DEF Nothing, Everywhere, Quiet
<1>8. DeployerInv'
  BY <1>2, <1>5, <1>7 DEF IInv, DeployerInv
<1>9. RowInv' /\ Real(row.daliuge)'
  BY <1>2, SessionKept DEF IInv, RowInv
<1>10. CancelInv'
  <2>1. CASE RequestCancel
    <3>1. cancel' = "signal" => row.submission = "submitted"
      <4>1. SUFFICES ASSUME cancel' = "signal" PROVE row.submission = "submitted"
        OBVIOUS
      <4>2. /\ row.status # "failed" /\ row.named
            /\ row.submission \notin {"in_flight", "uncertain"}
        BY <2>1, <4>1 DEF RequestCancel, SessionMayRun, Terminal
      <4>3. row.submission \notin {"failed", "not_started", "preparing"}
        BY <4>2 DEF IInv, RowInv
      <4> QED BY <1>1, <4>2, <4>3, Types DEF SubmissionState
    <3>2. cancel' \in {"signal", "local"}
      BY <2>1 DEF RequestCancel
    <3> QED BY <1>2, <3>1, <3>2 DEF CancelInv
  <2>2. CASE Signal
    <3>1. cancel = "signal" /\ cancel' = "asked" /\ request'["cancel"] = Nodes
      BY <1>3, <2>2 DEF Signal
    <3> QED BY <1>2, <3>1 DEF IInv, CancelInv
  <2>3. CASE Confirm
    <3>1. cancel = "asked" /\ request["cancel"] = {} /\ cancel' = "confirmed"
      BY <2>3 DEF Confirm, Stopped
    <3>2. Quiet /\ row.submission = "submitted"
      BY <3>1 DEF IInv, CancelInv, Quiet
    <3> QED BY <1>2, <1>7, <3>1, <3>2 DEF CancelInv
  <2>4. CASE GiveUp
    BY <2>4 DEF GiveUp, CancelInv
  <2> QED BY <2>1, <2>2, <2>3, <2>4
<1>11. DropInv' /\ (\A p \in Pollers : TickInv(p))'
  BY <1>2, SessionKept, TicksKept DEF IInv
<1>12. DeletionInv'
  BY <1>2, <1>5 DEF IInv, DeletionInv
<1> QED BY <1>6, <1>8, <1>9, <1>10, <1>11, <1>12 DEF IInv

LEMMA CommitCancelStep ==
    ASSUME IInv, CommitCancel
    PROVE  IInv'
<1>1. TypeOK /\ row \in Row
  BY Types DEF IInv
<1>2. /\ UNCHANGED <<deployer, session, deleted, drop, request, tick>>
      /\ cancel \in {"local", "confirmed"} /\ cancel' = "idle"
      /\ lease' \in {"none", lease}
  BY DEF CommitCancel, manager
<1>3. CASE ~ CancelAllowed
  <2>1. UNCHANGED <<row, lease>>
    BY <1>3 DEF CommitCancel
  <2>2. TypeOK'
    <3> HIDE DEF Row, Tick, NodeState, Requests
    <3> QED BY <1>1, <1>2, <2>1 DEF TypeOK
  <2>3. DeployerInv'
    BY <1>2, <2>1, SessionKept DEF IInv, DeployerInv
  <2>4. RowInv' /\ Real(row.daliuge)' /\ CancelInv'
    BY <1>2, <2>1, SessionKept DEF IInv, RowInv, CancelInv
  <2>5. DropInv' /\ (\A p \in Pollers : TickInv(p))'
    BY <1>2, SessionKept, TicksKept DEF IInv
  <2>6. DeletionInv'
    BY <1>2, <2>1 DEF IInv, DeletionInv
  <2> QED BY <2>2, <2>3, <2>4, <2>5, <2>6 DEF IInv
<1>4. CASE CancelAllowed
  <2> DEFINE daliuge == IF cancel = "confirmed" THEN "cancelled" ELSE row.daliuge
             cancelled == [row EXCEPT !.status = "cancelled", !.phase = "none",
                                      !.outcome = "cancelled", !.daliuge = daliuge]
  <2>1. row' = cancelled
    BY <1>4 DEF CommitCancel
  <2>2. daliuge \in DaliugeState
    BY <1>1, Types DEF DaliugeState
  <2> HIDE DEF daliuge
  <2>3. /\ cancelled \in Row /\ cancelled.submission = row.submission
        /\ cancelled.named = row.named /\ cancelled.daliuge = daliuge
        /\ cancelled.status = "cancelled"
    <3>1. "cancelled" \in Status /\ "none" \in Phase /\ "cancelled" \in Outcome
      BY DEF Status, Phase, Outcome
    <3> HIDE DEF Status, Phase, Outcome, SubmissionState, DaliugeState
    <3> QED BY <1>1, <2>2, <3>1 DEF Row
  <2> HIDE DEF cancelled
  <2>4. TypeOK'
    <3> HIDE DEF Row, Tick, NodeState, Requests
    <3> QED BY <1>1, <1>2, <2>1, <2>3 DEF TypeOK
  <2>5. DeployerInv'
    BY <1>2, <2>1, <2>3, SessionKept DEF IInv, DeployerInv
  <2>6. row.submission # "failed"
    BY <1>4 DEF CancelAllowed, IInv, RowInv
  <2>7. RowInv'
    BY <2>1, <2>3, <2>6 DEF IInv, RowInv
  <2>8. CancelInv'
    BY <1>2 DEF CancelInv
  <2>9. Real(row.daliuge)'
    <3>1. CASE cancel = "confirmed"
      <4>1. Quiet
        BY <3>1 DEF IInv, CancelInv
      <4>2. row'.daliuge = "cancelled" /\ Quiet'
        BY <1>2, <2>1, <2>3, <3>1, <4>1, SessionKept DEF daliuge
      <4> QED BY <4>2 DEF Real
    <3>2. CASE cancel # "confirmed"
      <4>1. row'.daliuge = row.daliuge
        BY <2>1, <2>3, <3>2 DEF daliuge
      <4> QED BY <1>2, <4>1, SessionKept DEF IInv
    <3> QED BY <3>1, <3>2
  <2>10. DropInv' /\ (\A p \in Pollers : TickInv(p))'
    BY <1>2, SessionKept, TicksKept DEF IInv
  <2>11. DeletionInv'
    BY <1>2, <2>1, <2>3 DEF IInv, DeletionInv, Ended, Terminal, daliuge
  <2> QED BY <2>4, <2>5, <2>7, <2>8, <2>9, <2>10, <2>11 DEF IInv
<1> QED BY <1>3, <1>4

\* What is retried has left nothing with the manager.
LEMMA RetryStep ==
    ASSUME IInv, Retry
    PROVE  IInv'
<1> DEFINE fresh == [row EXCEPT !.status = "retrying", !.submission = "not_started",
                                !.daliuge = "not_created", !.outcome = "none",
                                !.phase = RetryStage(row), !.named = FALSE]
<1>1. TypeOK /\ row \in Row
  BY Types DEF IInv
<1>2. /\ UNCHANGED <<deployer, lease, session, deleted, drop, request, tick, cancel>>
      /\ row' = fresh
  BY DEF Retry, manager, clients
<1>3. row.submission \in Unsent /\ row.daliuge = "not_created"
  BY <1>1, Types DEF Retry, RetryAccepted, RetrySafe, SubmissionState, Unsent
<1>4. /\ fresh \in Row /\ fresh.submission = "not_started" /\ fresh.daliuge = "not_created"
      /\ fresh.status = "retrying" /\ fresh.named = FALSE
  <2>1. /\ RetryStage(row) \in Phase /\ "none" \in Outcome /\ "retrying" \in Status
        /\ "not_started" \in SubmissionState /\ "not_created" \in DaliugeState
    BY DEF RetryStage, Phase, Outcome, Status, SubmissionState, DaliugeState
  <2> HIDE DEF Status, Phase, Outcome, SubmissionState, DaliugeState, RetryStage
  <2> QED BY <1>1, <2>1 DEF Row
<1> HIDE DEF fresh
<1>5. TypeOK'
  <2> HIDE DEF Row, Tick, NodeState, Requests
  <2> QED BY <1>1, <1>2, <1>4 DEF TypeOK
<1>6. Nothing /\ deployer = "idle" /\ cancel \in {"idle", "local"}
  <2>1. Nothing /\ deployer = "idle"
    BY <1>3 DEF IInv, DeployerInv, Unsent
  <2>2. cancel \notin {"signal", "asked", "confirmed"}
    BY <1>3 DEF IInv, CancelInv, Unsent
  <2> QED BY <1>1, <2>1, <2>2, Types
<1>7. DeployerInv' /\ RowInv' /\ CancelInv'
  <2>1. Nothing'
    BY <1>2, <1>6, SessionKept
  <2> QED BY <1>2, <1>4, <1>6, <2>1 DEF DeployerInv, RowInv, CancelInv, Unsent
<1>8. DropInv' /\ (\A p \in Pollers : TickInv(p))' /\ Real(row.daliuge)'
  <2>1. DropInv' /\ (\A p \in Pollers : TickInv(p))'
    BY <1>2, SessionKept, TicksKept DEF IInv
  <2> QED BY <1>2, <1>4, <2>1 DEF Real
<1>9. DeletionInv'
  BY <1>2, <1>3 DEF IInv, DeletionInv, Ended
<1> QED BY <1>5, <1>7, <1>8, <1>9 DEF IInv

LEMMA NextStep == IInv /\ [Next]_vars => IInv'
<1> SUFFICES ASSUME IInv, [Next]_vars PROVE IInv'
  OBVIOUS
<1>1. CASE Deployer
  BY <1>1, BeginStep, RequestStep, UnsubmittedStep, ReceiptStep, LeaseStep DEF Deployer
<1>2. CASE Manager
  BY <1>2, ManagerStep
<1>3. CASE \E p \in Pollers : Poll(p)
  BY <1>3, PollStep
<1>4. CASE Operator
  BY <1>4, CancelStep, CommitCancelStep, RetryStep DEF Operator
<1>5. CASE UNCHANGED vars
  <2>1. UNCHANGED <<row, deployer, lease, session, deleted, drop, request, tick, cancel>>
    BY <1>5 DEF vars
  <2>2. TypeOK'
    <3> HIDE DEF Row, Tick, NodeState, Requests
    <3> QED BY <2>1 DEF IInv, TypeOK
  <2>3. DeployerInv' /\ RowInv' /\ CancelInv' /\ Real(row.daliuge)'
    BY <2>1, SessionKept DEF IInv, DeployerInv, RowInv, CancelInv
  <2>4. DropInv' /\ (\A p \in Pollers : TickInv(p))'
    BY <2>1, SessionKept, TicksKept DEF IInv
  <2>5. DeletionInv'
    BY <2>1 DEF IInv, DeletionInv
  <2> QED BY <2>2, <2>3, <2>4, <2>5 DEF IInv
<1> QED BY <1>1, <1>2, <1>3, <1>4, <1>5 DEF Next

----------------------------------------------------------------------------
\* What follows from the invariant.

\* The inductive invariant holds of every reachable state, for every graph,
\* number of nodes, pollers and rounds.
THEOREM DaliugeInvariant == Spec => []IInv
BY InitStep, NextStep, PTL DEF Spec

\* Every variable keeps its type: in particular the rounds counted on the row
\* stay within the policy's rest_max_rounds.
THEOREM DaliugeTypes == Spec => []TypeOK
<1>1. IInv => TypeOK
  BY DEF IInv
<1> QED BY <1>1, DaliugeInvariant, PTL

\* A submission recorded as failed has no session on any node and none to come,
\* whatever the lease, a second handler and the operator do
\* (submission_error_is_uncertain): retry_execution may use its name again.
THEOREM RejectionDefinite == Spec => []RejectionIsDefinite
<1>1. IInv => RejectionIsDefinite
  BY DEF IInv, DeployerInv, Unsent, Nothing, RejectionIsDefinite
<1> QED BY <1>1, DaliugeInvariant, PTL

\* The end on the row is the end of the session, however polls overlap
\* (apply_dim_poll_update, cancel_rest).
THEOREM EndsAreReal == Spec => []EndIsReal
<1>1. ASSUME IInv PROVE EndIsReal
  <2>1. Real(row.daliuge)
    BY <1>1 DEF IInv
  <2>2. Quiet => States \cap NodeActive = {}
    BY DEF Quiet, States, NodeEnded, NodeActive
  <2> QED BY <2>1, <2>2 DEF Real, AllDone, Broken, EndIsReal
<1> QED BY <1>1, DaliugeInvariant, PTL

\* No node is asked to delete a session whose end is not on the row
\* (apply_dim_poll_update comes before destroy_session).
THEOREM DestroyedConcluded == Spec => []DestroyedIsConcluded
<1>1. IInv => DestroyedIsConcluded
  BY DEF IInv, DeletionInv, DestroyedIsConcluded
<1> QED BY <1>1, DaliugeInvariant, PTL
===============================================================================
