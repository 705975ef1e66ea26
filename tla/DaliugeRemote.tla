---------------------------- MODULE DaliugeRemote ----------------------------
(***************************************************************************)
(* One execution on a DALiuGE Data Island Manager, over its REST interface *)
(* (crates/beampipe-orchestration/src): the translation and the three      *)
(* requests that deploy a session (clients.rs, dim.rs), what a poll of the *)
(* session makes of its nodes and drops (daliuge.rs, lib.rs), cancellation *)
(* (cancel.rs) and the deletion of a session that has ended, with what     *)
(* beampipe-jobs records of each on the execution's row.                   *)
(***************************************************************************)
EXTENDS ExecutionStatus, Integers, Sequences

CONSTANTS
    Nodes,        \* the nodes the manager spreads a session over
    Pollers,      \* workers that may run the poll tick at the same time
    Graph,        \* the mapped physical graph: drop -> [on, kind, inputs, outputs]
    MaxRounds     \* the poll policy's rest_max_rounds

\* prepare_physical_graph: only what has an oid is a drop.
Drops == DOMAIN Graph

\* Both ends of a link name it, as the translator writes them.
ASSUME GraphAssumption ==
    /\ Graph \in [Drops -> [on : Nodes, kind : {"app", "data"},
                            inputs : SUBSET Drops, outputs : SUBSET Drops]]
    /\ \A d, e \in Drops : e \in Graph[d].outputs <=> d \in Graph[e].inputs
ASSUME BoundsAssumption == MaxRounds \in Nat \ {0}

VARIABLES
    row,        \* the row of batch_execution_record
    deployer,   \* the execute handler inside the submit phase
    lease,      \* who holds the lease of the execute job
    session,    \* per node: the state the session reached there
    deleted,    \* the nodes it has been deleted from
    drop,       \* per drop: waiting, done or error
    request,    \* per kind of request: the nodes it may still take effect on
    tick,       \* per poller: the poll of the session
    cancel      \* the cancellation an operator asked for

vars == <<row, deployer, lease, session, deleted, drop, request, tick, cancel>>

NodeState == {"absent", "pristine", "building", "deploying", "running",
              "finished", "cancelled", "failed"}
NodeActive == {"pristine", "building", "deploying", "running"}
Requests == {"create", "append", "deploy", "cancel", "delete"}

NoTick == [pc |-> "idle", seen |-> "unknown", round |-> 0]

Row == [status : Status, phase : Phase, submission : SubmissionState,
        scheduler : {"not_submitted"}, daliuge : DaliugeState,
        outputs : {"not_started"}, outcome : Outcome, jobId : {0},
        manifest : {TRUE}, named : BOOLEAN, rounds : 0 .. MaxRounds]

Tick == [pc : {"idle", "status", "graph", "missed", "apply", "round", "expire", "destroy"},
         seen : DaliugeState, round : 0 .. MaxRounds]

TypeOK ==
    /\ row \in Row
    /\ deployer \in {"idle", "unroll", "map", "create", "append", "deploy", "receipt"}
    /\ lease \in {"none", "deployer", "expired", "redelivered"}
    /\ session \in [Nodes -> NodeState]
    /\ deleted \subseteq Nodes
    /\ drop \in [Drops -> {"waiting", "done", "error"}]
    /\ request \in [Requests -> SUBSET Nodes]
    /\ tick \in [Pollers -> Tick]
    /\ cancel \in {"idle", "signal", "asked", "local", "confirmed"}

\* The manifest is pinned and the submit phase begins.
Init ==
    /\ row = [status |-> "running", phase |-> "submit", submission |-> "not_started",
              scheduler |-> "not_submitted", daliuge |-> "not_created",
              outputs |-> "not_started", outcome |-> "none", jobId |-> 0,
              manifest |-> TRUE, named |-> FALSE, rounds |-> 0]
    /\ deployer = "idle"
    /\ lease = "none"
    /\ session = [n \in Nodes |-> "absent"]
    /\ deleted = {}
    /\ drop = [d \in Drops |-> "waiting"]
    /\ request = [k \in Requests |-> {}]
    /\ tick = [p \in Pollers |-> NoTick]
    /\ cancel = "idle"

\* ensure_publisher_delivery_supported: a project with verified outputs is not
\* run on this backend.
StatePatch(axes) == row' = Patched(row, axes, FALSE)

Send(kind) == request' = [request EXCEPT ![kind] = Nodes]

manager == <<session, deleted, drop>>
clients == <<tick, cancel>>

----------------------------------------------------------------------------
\* The deployer: run_submit_phase and RestExecutionBackend::submit

\* run_execute returns, and with it goes its lease, if it still had it.
Done ==
    /\ deployer' = "idle"
    /\ lease' = IF lease = "deployer" THEN "none" ELSE lease

Begin ==
    /\ deployer = "idle" /\ lease = "none"
    /\ row.status \in {"running", "retrying"}
    /\ row.submission \notin Holds
    /\ row' = [row EXCEPT !.status = "running", !.submission = "in_flight",
                          !.daliuge = "not_created", !.named = TRUE]
    /\ deployer' = "unroll"
    /\ lease' = "deployer"
    /\ UNCHANGED <<manager, request, clients>>

\* unroll_and_partition answers with a template, and map with a physical graph.
Unrolled ==
    /\ deployer = "unroll"
    /\ deployer' = "map"
    /\ UNCHANGED <<row, lease, manager, request, clients>>

Mapped ==
    /\ deployer = "map"
    /\ deployer' = "create"
    /\ Send("create")
    /\ UNCHANGED <<row, lease, manager, clients>>

\* HttpDimClient::deploy: each request waits for the success of the one before,
\* which is a success on every node.
Answered(kind) == deployer = kind /\ request[kind] = {}

Created == /\ Answered("create") /\ deployer' = "append" /\ Send("append")
           /\ UNCHANGED <<row, lease, manager, clients>>

Appended == /\ Answered("append") /\ deployer' = "deploy" /\ Send("deploy")
            /\ UNCHANGED <<row, lease, manager, clients>>

Deployed == /\ Answered("deploy") /\ deployer' = "receipt"
            /\ UNCHANGED <<row, lease, manager, request, clients>>

\* Defect for a mutant run: a session that could not be created was not created.
DefiniteUntilCreated == deployer \in {"unroll", "map", "create"}

\* submission_error_is_uncertain: only the translator's errors are definite.
Definite == deployer \in {"unroll", "map"}

SubmissionFailed ==
    /\ Definite
    /\ StatePatch([row EXCEPT !.submission = "failed"])
    /\ Done
    /\ UNCHANGED <<manager, request, clients>>

\* An error or a lost response of the manager, the submission deadline, a
\* receipt that could not be recorded
SubmissionUncertain ==
    /\ deployer # "idle"
    /\ StatePatch([row EXCEPT !.submission = "uncertain"])
    /\ Done
    /\ UNCHANGED <<manager, request, clients>>

\* record_submission_receipt
Receipted ==
    LET filed == [row EXCEPT !.submission = "submitted"] IN
    IF row.status \in Terminal THEN filed
    ELSE [filed EXCEPT !.status = "running", !.daliuge = "running", !.outcome = "none",
                       !.rounds = 0]

RecordReceipt ==
    /\ deployer = "receipt"
    /\ row.submission \in {"in_flight", "uncertain"}
    /\ row' = Receipted
    /\ Done
    /\ UNCHANGED <<manager, request, clients>>

\* The lease of the execute job is lost; its handler goes on until the refused
\* renewal, or the death of its process, drops it.
LeaseLost ==
    /\ lease = "deployer"
    /\ lease' = "expired"
    /\ UNCHANGED <<row, deployer, manager, request, clients>>

Dropped ==
    /\ deployer # "idle" /\ lease # "deployer"
    /\ Done
    /\ UNCHANGED <<row, manager, request, clients>>

\* Another worker recovers the job, finds the submission held or the execution
\* over, and completes it.
Redelivered ==
    /\ lease = "expired"
    /\ row.submission \in Holds \/ row.status \in Terminal
    /\ lease' = "redelivered"
    /\ UNCHANGED <<row, deployer, manager, request, clients>>

Settled ==
    /\ lease = "redelivered"
    /\ lease' = "none"
    /\ UNCHANGED <<row, deployer, manager, request, clients>>

Deployer ==
    \/ Begin \/ Unrolled \/ Mapped \/ Created \/ Appended \/ Deployed \/ SubmissionFailed
    \/ SubmissionUncertain \/ RecordReceipt \/ LeaseLost \/ Dropped
    \/ Redelivered \/ Settled

----------------------------------------------------------------------------
\* The roots of the graph

\* get_roots: what nothing feeds, data and applications alike.
Roots ==
    {d \in Drops : Graph[d].inputs = {}} \ UNION {Graph[d].outputs : d \in Drops}

----------------------------------------------------------------------------
\* The manager and its nodes.  A request takes effect on one node after the
\* other, or never does on some of them, whoever still waits for its response.

Effect(kind, state) ==
    CASE kind = "create" /\ state = "absent"        -> "pristine"
      [] kind = "append" /\ state = "pristine"      -> "building"
      [] kind = "deploy" /\ state = "building"      -> "running"
      [] kind = "cancel" /\ state \in NodeActive    -> "cancelled"
      [] OTHER                                      -> state

TakeEffect(kind, n) ==
    /\ n \in request[kind]
    /\ request' = [request EXCEPT ![kind] = @ \ {n}]
    /\ session' = [session EXCEPT ![n] = Effect(kind, @)]
    /\ deleted' = IF kind = "delete" THEN deleted \cup {n} ELSE deleted
    /\ UNCHANGED drop

Settles(d) == drop[d] # "waiting"

\* A root is triggered by the deployment; another drop by all of its inputs, a
\* data drop by any of its producers.
CanFire(d) ==
    /\ drop[d] = "waiting"
    /\ session[Graph[d].on] = "running"
    /\ \/ d \in Roots
       \/ /\ Graph[d].inputs # {}
          /\ IF Graph[d].kind = "data" THEN \E e \in Graph[d].inputs : Settles(e)
             ELSE \A e \in Graph[d].inputs : Settles(e)

\* An error is passed on to what depends on it.
Fire(d) ==
    /\ CanFire(d)
    /\ \E result \in {"done", "error"} :
         /\ (\E e \in Graph[d].inputs : drop[e] = "error") => result = "error"
         /\ drop' = [drop EXCEPT ![d] = result]
    /\ UNCHANGED <<session, deleted, request>>

\* A session ends on a node when all its drops there have, or breaks down before.
End(n) ==
    /\ session[n] = "running"
    /\ LET settled == \A d \in Drops : Graph[d].on = n => Settles(d)
       IN session' = [session EXCEPT ![n] = IF settled THEN "finished" ELSE "failed"]
    /\ UNCHANGED <<deleted, drop, request>>

Manager ==
    /\ \/ \E kind \in Requests, n \in Nodes : TakeEffect(kind, n)
       \/ \E d \in Drops : Fire(d)
       \/ \E n \in Nodes : End(n)
    /\ UNCHANGED <<row, deployer, lease, clients>>

----------------------------------------------------------------------------
\* The poll tick (run_dim_poll_tick), for this execution

Leased == lease \in {"deployer", "redelivered"}

\* list_rest_executions_pending_poll
PollListed ==
    /\ row.named
    /\ row.status = "running" \/ row.submission \in {"in_flight", "uncertain"}
    /\ row.status \notin Terminal
    /\ row.outcome = "none"
    /\ row.daliuge \notin {"finished", "failed", "cancelled"}
    /\ ~Leased

Goto(p, pc) ==
    tick' = [tick EXCEPT ![p] = [NoTick EXCEPT !.pc = pc,
                                               !.round = IF pc = "round" THEN tick[p].round ELSE 0]]
Stop(p) == tick' = [tick EXCEPT ![p] = NoTick]

polling == <<deployer, lease, manager, request, cancel>>

StartPoll(p) ==
    /\ tick[p].pc = "idle"
    /\ PollListed
    /\ tick' = [tick EXCEPT ![p] = [NoTick EXCEPT !.pc = "status", !.round = row.rounds]]
    /\ UNCHANGED <<row, polling>>

States == {IF n \in deleted THEN "absent" ELSE session[n] : n \in Nodes}

\* aggregate_node_states: the session ended one way on every node, or it is as
\* far as the furthest node that has not ended.
Furthest == <<"running", "deploying", "building", "pristine">>

Aggregate ==
    IF "failed" \in States THEN "failed"
    ELSE IF States = {"finished"} THEN "finished"
    ELSE IF States = {"cancelled"} THEN "cancelled"
    ELSE IF \E i \in DOMAIN Furthest : Furthest[i] \in States
      THEN Furthest[CHOOSE i \in DOMAIN Furthest :
                       /\ Furthest[i] \in States
                       /\ \A j \in 1 .. i - 1 : Furthest[j] \notin States]
    ELSE "unknown"

\* The manager does not know a session that is on no node (404), and answers
\* with another error when a node lacks it or cannot be reached.
Unanswered(p) ==
    /\ tick[p].pc \in {"status", "graph"}
    /\ \E seen \in {"unreachable"} \cup (IF States = {"absent"} THEN {"not_created"} ELSE {}) :
         tick' = [tick EXCEPT ![p] = [NoTick EXCEPT !.pc = "missed", !.seen = seen]]
    /\ UNCHANGED <<row, polling>>

\* session_observation
ReadStatus(p) ==
    /\ tick[p].pc = "status"
    /\ "absent" \notin States
    /\ tick' = [tick EXCEPT ![p].pc = "graph", ![p].seen = Aggregate]
    /\ UNCHANGED <<row, polling>>

\* A session that finished with drops in error has failed.
WithDrops(seen) ==
    IF seen = "finished" /\ \E d \in Drops : drop[d] = "error" THEN "failed" ELSE seen

ReadGraph(p) ==
    /\ tick[p].pc = "graph"
    /\ "absent" \notin States
    /\ tick' = [tick EXCEPT ![p].pc = "apply", ![p].seen = WithDrops(@)]
    /\ UNCHANGED <<row, polling>>

Observe(p) == StatePatch([row EXCEPT !.daliuge = tick[p].seen])

\* record_dim_reconciliation_error: no round is counted.
RecordMiss(p) ==
    /\ tick[p].pc = "missed"
    /\ Observe(p)
    /\ Stop(p)
    /\ UNCHANGED polling

Ended(state) == state \in {"finished", "failed", "cancelled"}

\* Defect for a mutant run: every poll of an ended session goes on to delete it.
NextUnlessEnded(p) ==
    IF Ended(tick[p].seen) THEN "destroy"
    ELSE IF row.status \in Terminal THEN "idle" ELSE "round"

\* What is left to do for a poll whose state has been recorded: nothing when the
\* execution had already ended.
NextOf(p) ==
    IF row.status \in Terminal THEN "idle"
    ELSE IF Ended(tick[p].seen) THEN "destroy"
    ELSE IF tick[p].round + 1 >= MaxRounds THEN "expire"
    ELSE "round"

\* apply_dim_poll_update
ApplyPoll(p) ==
    /\ tick[p].pc = "apply"
    /\ Observe(p)
    /\ IF NextOf(p) = "idle" THEN Stop(p) ELSE Goto(p, NextOf(p))
    /\ UNCHANGED polling

\* merge_dim_poll_tick_round: the round of the listed row, plus one
CountRound(p) ==
    /\ tick[p].pc = "round"
    /\ row' = [row EXCEPT !.rounds = tick[p].round + 1]
    /\ Stop(p)
    /\ UNCHANGED polling

\* The last round: the ledger fails the execution, unless it has been settled.
Expire(p) ==
    /\ tick[p].pc = "expire"
    /\ row' = IF row.status \in Terminal THEN row
              ELSE [row EXCEPT !.status = "failed", !.phase = "none",
                               !.outcome = IF @ = "none" THEN "failed" ELSE @]
    /\ Stop(p)
    /\ UNCHANGED polling

\* destroy_session, whose error is ignored
Destroy(p) ==
    /\ tick[p].pc = "destroy"
    /\ Send("delete")
    /\ Stop(p)
    /\ UNCHANGED <<row, deployer, lease, manager, cancel>>

\* The tick's worker dies, or one of its transactions fails.
PollDies(p) ==
    /\ tick[p].pc # "idle"
    /\ Stop(p)
    /\ UNCHANGED <<row, polling>>

Poll(p) ==
    \/ StartPoll(p) \/ Unanswered(p) \/ ReadStatus(p) \/ ReadGraph(p) \/ RecordMiss(p)
    \/ ApplyPoll(p) \/ CountRound(p) \/ Expire(p) \/ Destroy(p) \/ PollDies(p)

----------------------------------------------------------------------------
\* The operator

\* execution_cancel_requires_external
SessionMayRun ==
    /\ row.status \in {"awaiting_scheduler", "running"}
    /\ row.named
    /\ row.daliuge \notin {"not_created", "finished", "failed", "cancelled"}

operating == <<row, deployer, lease, manager, tick>>

\* patch_execution
RequestCancel ==
    /\ cancel = "idle"
    /\ row.status \notin Terminal
    /\ row.submission \notin {"in_flight", "uncertain"}
    /\ cancel' = IF SessionMayRun THEN "signal" ELSE "local"
    /\ UNCHANGED <<operating, request>>

Signal ==
    /\ cancel = "signal"
    /\ cancel' = "asked"
    /\ Send("cancel")
    /\ UNCHANGED operating

\* Defect for a mutant run: the manager was asked, and that is enough.
AnyAnswer == cancel = "asked"

\* cancel_rest: the success of the request, on every node, is the confirmation.
Stopped == cancel = "asked" /\ request["cancel"] = {}

Confirm ==
    /\ Stopped
    /\ cancel' = "confirmed"
    /\ UNCHANGED <<operating, request>>

\* An error or a timeout leaves the cancellation unconfirmed.
GiveUp ==
    /\ cancel \in {"signal", "asked"}
    /\ cancel' = "idle"
    /\ UNCHANGED <<operating, request>>

\* cancel_execution_with_correlation_inner
CancelAllowed ==
    /\ row.status \in {"pending", "running", "awaiting_scheduler", "retrying", "cancelled"}
    /\ cancel = "confirmed" => row.named
    /\ row.submission \notin {"in_flight", "uncertain"}

CommitCancel ==
    /\ cancel \in {"local", "confirmed"}
    /\ IF CancelAllowed
         THEN /\ row' = [row EXCEPT !.status = "cancelled", !.phase = "none",
                                    !.outcome = "cancelled",
                                    !.daliuge = IF cancel = "confirmed" THEN "cancelled" ELSE @]
              /\ lease' = "none"
         ELSE UNCHANGED <<row, lease>>
    /\ cancel' = "idle"
    /\ UNCHANGED <<deployer, manager, request, tick>>

\* retry_execution: the axes and the name of the session start over.
Retry ==
    /\ RetryAccepted(row)
    /\ lease = "none"
    /\ row' = [row EXCEPT !.status = "retrying", !.submission = "not_started",
                          !.daliuge = "not_created", !.outcome = "none",
                          !.phase = RetryStage(row), !.named = FALSE]
    /\ UNCHANGED <<deployer, lease, manager, request, clients>>

Operator ==
    \/ RequestCancel \/ Signal \/ Confirm \/ GiveUp \/ CommitCancel \/ Retry

----------------------------------------------------------------------------
Next ==
    \/ Deployer
    \/ Manager
    \/ \E p \in Pollers : Poll(p)
    \/ Operator

Spec == Init /\ [][Next]_vars

----------------------------------------------------------------------------
\* Properties

\* A submission is recorded as failed only when no node has a session or may
\* still get one: retry_execution deploys again under the same session name.
RejectionIsDefinite ==
    row.submission = "failed" =>
        \A n \in Nodes : session[n] = "absent" /\ n \notin request["create"]

\* The end the row records is the end the session had on all its nodes, however
\* polls overlap with each other, with a late deployment and with a deletion:
\* finished is every drop done, failed is a node or a drop that failed, and
\* cancelled is no node at work, although the manager passes a cancellation on
\* node by node.
EndIsReal ==
    /\ row.daliuge = "finished" => \A d \in Drops : drop[d] = "done"
    /\ row.daliuge = "failed" =>
         (\E d \in Drops : drop[d] = "error") \/ (\E n \in Nodes : session[n] = "failed")
    /\ row.daliuge = "cancelled" => States \cap NodeActive = {}

\* A session is deleted only once its end is on the row, where no poll can read
\* it any more (apply_dim_poll_update records it first).
DestroyedIsConcluded ==
    request["delete"] # {} \/ deleted # {} => row.status \in Terminal /\ Ended(row.daliuge)

\* A deployed session is never left idle: while a drop waits, one can be
\* triggered (get_roots: "Passing only data roots would leave start apps idle").
NoIdleSession ==
    /\ States \subseteq {"running", "finished"}
    /\ \E d \in Drops : drop[d] = "waiting"
    => \E d \in Drops : CanFire(d)
=============================================================================
