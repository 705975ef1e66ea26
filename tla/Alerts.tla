-------------------------------- MODULE Alerts --------------------------------
(***************************************************************************)
(* In-app alerting: operators keep notification channels and alert rules,  *)
(* the recurring evaluator job checks the scheduled rules, and the         *)
(* handlers of a failed execution or a changed discovery fire the          *)
(* immediate ones.  (crates/beampipe-alerts/src/lib.rs,                    *)
(* crates/beampipe-api/src/observability.rs,                               *)
(* crates/beampipe-db/src/repo.rs)                                         *)
(*                                                                         *)
(* Time is kept as ages that saturate at Cap: a rule that never fired and  *)
(* one that fired Cap ago pass the same checks.  There is one project      *)
(* module.  Delivery and provenance rows are written here and read by no   *)
(* step, so only what makes their insertion fail is kept.                  *)
(***************************************************************************)
EXTENDS Integers, Sequences, FiniteSets

CONSTANTS
    Kinds,        \* the rules' trigger kinds; rules are listed in this order
    Scoped,       \* the rules that name the project module
    Channels, Broken,   \* channels, and those whose endpoint always refuses
    Silent,       \* webhooks whose endpoint may accept a call and never answer it
    Workers,      \* worker loops
    Executions,
    Later,        \* the rules and channels that are made while it runs
    Cooldown,     \* by rule
    Window,       \* window_hours of daily_summary
    Threshold,    \* threshold of pending_backlog
    Cap,          \* bound on ages, past every period above
    MaxEdits,     \* bound on what operators do
    MaxFaults,    \* bound on crashes, lost leases and refused deliveries
    NoWorker, NoExecution

Rules == DOMAIN Kinds
Secrets == {"first", "second"}
Redacted == "redacted"

ASSUME AlertsAssumption ==
    /\ Scoped \subseteq Rules
    /\ Broken \subseteq Channels
    /\ Silent \subseteq Channels
    /\ Later \subseteq Rules \cup Channels
    /\ Cooldown \in [Rules -> 0..Cap]
    /\ Window \in 0..Cap
    /\ Threshold \in Nat \ {0}
    /\ MaxEdits \in Nat
    /\ MaxFaults \in Nat
    /\ NoWorker \notin Workers
    /\ NoExecution \notin Executions

VARIABLES
    rules,      \* alert_rules
    channels,   \* notification_channels
    edit,       \* the channel PATCH between its read and its write
    pending,    \* how many sources are pending execution
    execution,  \* executions and their execute jobs
    tick,       \* the alert_evaluator_tick job
    work,       \* what the workers do
    sentAge,    \* age of the last message of a rule on a channel
    disturbed,  \* rules with overlapping firings, or one cut off by a fault
    edits, faults

vars == <<rules, channels, edit, pending, execution, tick, work, sentAge,
          disturbed, edits, faults>>

----------------------------------------------------------------------------
Ages == 0..Cap

\* The last fields are a rule's last_fired_at and a channel's config, of which
\* the properties tell one secret field apart.
Existence == {"new", "live", "deleted"}
Rule == [exists : Existence, enabled : BOOLEAN, channels : SUBSET Channels, age : Ages]
Channel == [exists : Existence, enabled : BOOLEAN, secret : Secrets \cup {Redacted}]

\* A row of list_alert_rules as a firing remembers it
Snapshot == [rule : Rules, enabled : BOOLEAN, channels : SUBSET Channels, age : Ages]

Immediate == {"execution_terminal", "discovery_changed"}
Work == [pc : {"idle", "stopped", "fail", "pend", "list", "rule", "channel", "waits",
               "record"},
         kind : Immediate \cup {"tick"},
         execution : Executions \cup {NoExecution},
         todo : Seq(Snapshot), left : SUBSET Channels,
         channel : SUBSET Channels]

Execution == [status : {"running", "failed"}, job : {"queued", "running", "done"},
              raised : BOOLEAN]

NoEdit == [busy |-> FALSE]

TypeOK ==
    /\ rules \in [Rules -> Rule]
    /\ channels \in [Channels -> Channel]
    /\ pending \in 0..Threshold
    /\ execution \in [Executions -> Execution]
    /\ tick \in [status : {"queued", "running"}, holder : Workers \cup {NoWorker}]
    /\ tick.status = "running" <=> tick.holder # NoWorker
    /\ work \in [Workers -> Work]
    /\ \A w \in Workers : work[w].channel # {} => work[w].pc \in {"waits", "record"}
    /\ sentAge \in [Rules -> [Channels -> Ages]]
    /\ disturbed \subseteq Rules
    /\ edits \in 0..MaxEdits
    /\ faults \in 0..MaxFaults

Idle == [pc |-> "idle", kind |-> "tick", execution |-> NoExecution,
         todo |-> <<>>, left |-> {}, channel |-> {}]
Stopped == [Idle EXCEPT !.pc = "stopped"]
Queued == [status |-> "queued", holder |-> NoWorker]

NewRule == [exists |-> "live", enabled |-> TRUE, channels |-> Channels, age |-> Cap]
NewChannel == [exists |-> "live", enabled |-> TRUE, secret |-> "first"]

AtStart(id) == IF id \in Later THEN "new" ELSE "live"

\* Operators have set up what is not Later; anything else is yet to happen.
Init ==
    /\ rules = [r \in Rules |-> [NewRule EXCEPT !.exists = AtStart(r)]]
    /\ channels = [c \in Channels |-> [NewChannel EXCEPT !.exists = AtStart(c)]]
    /\ edit = NoEdit
    /\ pending = 0
    /\ execution = [e \in Executions |-> [status |-> "running", job |-> "queued",
                                          raised |-> FALSE]]
    /\ tick = Queued
    /\ work \in [Workers -> {Idle, Stopped}]
    /\ sentAge = [r \in Rules |-> [c \in Channels |-> Cap]]
    /\ disturbed = {}
    /\ edits \in 0..MaxEdits
    /\ faults = 0

----------------------------------------------------------------------------
\* Operators.  What is deleted does not come back under its id.

Edits == edits < MaxEdits /\ edits' = edits + 1

system == <<pending, execution, tick, work, sentAge, disturbed, faults>>

CreateRule(r) ==
    /\ Edits
    /\ rules[r].exists = "new"
    /\ rules' = [rules EXCEPT ![r] = NewRule]
    /\ UNCHANGED <<channels, edit, system>>

\* update_alert_rule: COALESCE keeps what the request leaves out.
Patched(r) ==
    {[rules[r] EXCEPT !.enabled = on, !.channels = chosen] :
        on \in BOOLEAN, chosen \in SUBSET Channels \ {{}}}

UpdateRule(r) ==
    /\ Edits
    /\ rules[r].exists = "live"
    /\ \E patched \in Patched(r) : rules' = [rules EXCEPT ![r] = patched]
    /\ UNCHANGED <<channels, edit, system>>

DeleteRule(r) ==
    /\ Edits
    /\ rules[r].exists = "live"
    /\ rules' = [rules EXCEPT ![r].exists = "deleted"]
    /\ UNCHANGED <<channels, edit, system>>

CreateChannel(c) ==
    /\ Edits
    /\ channels[c].exists = "new"
    /\ channels' = [channels EXCEPT ![c] = NewChannel]
    /\ UNCHANGED <<rules, edit, system>>

\* PATCH /notification-channels/{id} without a config is one statement.
SwitchChannel(c) ==
    /\ Edits
    /\ channels[c].exists = "live"
    /\ channels' = [channels EXCEPT ![c].enabled = ~@]
    /\ UNCHANGED <<rules, edit, system>>

\* With a config the handler reads the row first; the dashboard sends back the
\* redacted config it was shown, with the fields the operator changed.
ReadChannel(c) ==
    /\ Edits
    /\ ~edit.busy
    /\ channels[c].exists = "live"
    /\ \E patch \in Secrets \cup {Redacted} :
         edit' = [busy |-> TRUE, channel |-> c, patch |-> patch,
                  read |-> channels[c].secret]
    /\ UNCHANGED <<rules, channels, system>>

\* merge_notification_config
Merge(existing, patch) == IF patch = Redacted THEN existing ELSE patch

\* update_notification_channel finds no row of a channel deleted meanwhile.
Stored(c, config) ==
    IF channels[c].exists = "live" THEN [channels EXCEPT ![c].secret = config]
    ELSE channels

WriteChannel ==
    /\ edit.busy
    /\ channels' = Stored(edit.channel, Merge(edit.read, edit.patch))
    /\ edit' = NoEdit
    /\ UNCHANGED <<rules, edits, system>>

DeleteChannel(c) ==
    /\ Edits
    /\ channels[c].exists = "live"
    /\ channels' = [channels EXCEPT ![c].exists = "deleted"]
    /\ UNCHANGED <<rules, edit, system>>

Operate ==
    \/ \E r \in Rules : CreateRule(r) \/ UpdateRule(r) \/ DeleteRule(r)
    \/ \E c \in Channels : \/ CreateChannel(c) \/ SwitchChannel(c) \/ ReadChannel(c)
                           \/ DeleteChannel(c)
    \/ WriteChannel

----------------------------------------------------------------------------
\* Firing.  A worker lists the rules once and goes on with what it read.

Goto(w, pc) == work' = [work EXCEPT ![w].pc = pc]

Front(w) == Head(work[w].todo)

Faults == faults < MaxFaults /\ faults' = faults + 1

row == <<rules, channels, edit, edits>>

\* list_alert_rules, in the order of their names
Listed(w) ==
    LET chosen == {r \in Rules : rules[r].exists = "live"}
        snapshot(r) == [rule |-> r, enabled |-> rules[r].enabled,
                        channels |-> rules[r].channels, age |-> rules[r].age]
        named == SelectSeq([r \in Rules |-> r], LAMBDA r : r \in chosen)
    IN  [i \in DOMAIN named |-> snapshot(named[i])]

\* An immediate firing is handed to the rules when it lists them.
List(w) ==
    /\ work[w].pc = "list"
    /\ work' = [work EXCEPT ![w].pc = "rule", ![w].todo = Listed(w)]
    /\ execution' = [e \in Executions |->
                        IF e = work[w].execution THEN [execution[e] EXCEPT !.raised = TRUE]
                        ELSE execution[e]]
    /\ disturbed' = disturbed \cup
                      {r \in Rules : \E v \in Workers \ {w} :
                         \E i \in DOMAIN work[v].todo : work[v].todo[i].rule = r}
    /\ UNCHANGED <<row, pending, tick, sentAge, faults>>

\* Defect for a mutant run: the digest goes by the rule's cooldown alone.
ConditionWithoutWindow(s) ==
    IF Kinds[s.rule] = "daily_summary" THEN {TRUE} ELSE {pending >= Threshold}

\* What a check may find.  The age of the oldest pending source and of the last
\* discovery.changed event pass their limits at any time.
BacklogIsDeep == {pending >= Threshold}
PendingIsStale == {FALSE, pending > 0}
DiscoveryStalls == BOOLEAN
DigestIsDue(s) == {s.age >= Window}

\* evaluate_scheduled_rules: dependency_down asks the database that the rules
\* were just read from.
Condition(s) ==
    CASE Kinds[s.rule] = "pending_backlog" -> BacklogIsDeep
      [] Kinds[s.rule] = "pending_stale" -> PendingIsStale
      [] Kinds[s.rule] = "discovery_stall" -> DiscoveryStalls
      [] Kinds[s.rule] = "daily_summary" -> DigestIsDue(s)
      [] OTHER -> {FALSE}

\* The scheduled rules that name a module, or the immediate ones of the trigger
Meant(w, s) ==
    IF ~s.enabled THEN {FALSE}
    ELSE IF work[w].kind # "tick" THEN {Kinds[s.rule] = work[w].kind}
    ELSE IF s.rule \in Scoped THEN Condition(s)
    ELSE {FALSE}

\* fire_alert's last_fired_at is that of the list.
Fires(w, s) == {due /\ s.age >= Cooldown[s.rule] : due \in Meant(w, s)}

Skip(w) ==
    /\ work[w].pc = "rule" /\ work[w].todo # <<>>
    /\ FALSE \in Fires(w, Front(w))
    /\ work' = [work EXCEPT ![w].todo = Tail(@)]
    /\ UNCHANGED <<row, pending, execution, tick, sentAge, disturbed, faults>>

Fire(w) ==
    /\ work[w].pc = "rule" /\ work[w].todo # <<>>
    /\ TRUE \in Fires(w, Front(w))
    /\ work' = [work EXCEPT ![w].pc = "channel", ![w].left = Front(w).channels]
    /\ UNCHANGED <<row, pending, execution, tick, sentAge, disturbed, faults>>

\* get_notification_channel
Usable(c) == channels[c].exists = "live" /\ channels[c].enabled

\* deliver_webhook, deliver_email: a call that fails on the way may have been
\* delivered.
Message(r, c) ==
    LET reached == [sentAge EXCEPT ![r][c] = 0]
    IN  IF c \in Broken THEN UNCHANGED <<sentAge, faults>>
        ELSE \/ sentAge' = reached /\ UNCHANGED faults
             \/ sentAge' \in {sentAge, reached} /\ Faults

\* The call that is answered at once.  A refusal is recorded like a message sent.
Deliver(w) ==
    /\ work[w].pc = "channel"
    /\ \E c \in work[w].left :
         \/ /\ Usable(c)
            /\ work' = [work EXCEPT ![w].left = @ \ {c}, ![w].pc = "record",
                                    ![w].channel = {c}]
            /\ Message(Front(w).rule, c)
         \/ /\ ~Usable(c)
            /\ work' = [work EXCEPT ![w].left = @ \ {c}]
            /\ UNCHANGED <<sentAge, faults>>
    /\ UNCHANGED <<row, pending, execution, tick, disturbed>>

\* The client of deliver_webhook has no time-out: a call whose endpoint does not
\* answer goes on, and dispatch_with_lease renews the lease of its job meanwhile.
Await(w) ==
    /\ work[w].pc = "channel"
    /\ \E c \in work[w].left \cap Silent :
         /\ Usable(c)
         /\ work' = [work EXCEPT ![w].left = @ \ {c}, ![w].pc = "waits",
                                 ![w].channel = {c}]
         /\ \/ UNCHANGED sentAge
            \/ c \notin Broken /\ sentAge' = [sentAge EXCEPT ![Front(w).rule][c] = 0]
    /\ UNCHANGED <<row, pending, execution, tick, disturbed, faults>>

\* The endpoint answers after all, which it need not.
Answer(w) ==
    /\ work[w].pc = "waits"
    /\ Goto(w, "record")
    /\ UNCHANGED <<row, pending, execution, tick, sentAge, disturbed, faults>>

\* reschedule_recurring_job_with_lease, fail_or_retry_job_with_lease
Released == Queued

\* The end of a worker's job: ok, or an error that a tick is tried again after
\* and that the immediate firings drop.
Left(w, requeue) ==
    /\ work' = [work EXCEPT ![w] = Idle]
    /\ tick' = IF tick.holder = w THEN Released ELSE tick
    /\ execution' = [e \in Executions |->
                        IF e # work[w].execution THEN execution[e]
                        ELSE [execution[e] EXCEPT !.job = IF requeue THEN "queued"
                                                          ELSE "done"]]

\* A firing that ends between a message and its mark
CutOff(w) ==
    disturbed' = disturbed \cup (IF work[w].pc \in {"channel", "waits", "record"}
                                 THEN {Front(w).rule} ELSE {})

Recorded(w) ==
    /\ rules[Front(w).rule].exists = "live"
    /\ \A c \in work[w].channel : channels[c].exists = "live"

\* Defect for a mutant run: a refused delivery is an error of the firing.
AfterRefusal(w) ==
    IF Recorded(w) /\ work[w].channel \cap Broken = {} THEN "channel" ELSE "error"

\* insert_alert_delivery, which refers to the rule and the channel
AfterRecord(w) == IF Recorded(w) THEN "channel" ELSE "error"

Record(w) ==
    /\ work[w].pc = "record"
    /\ \/ /\ AfterRecord(w) = "channel"
          /\ work' = [work EXCEPT ![w].pc = "channel", ![w].channel = {}]
          /\ UNCHANGED <<execution, tick, disturbed>>
       \/ AfterRecord(w) = "error" /\ Left(w, FALSE) /\ CutOff(w)
    /\ UNCHANGED <<row, pending, sentAge, faults>>

\* mark_alert_rule_fired, whatever became of the deliveries, and the events
Mark(w) ==
    /\ work[w].pc = "channel" /\ work[w].left = {}
    /\ rules' = [rules EXCEPT ![Front(w).rule].age = 0]
    /\ work' = [work EXCEPT ![w].pc = "rule", ![w].todo = Tail(@)]
    /\ UNCHANGED <<channels, edit, edits, pending, execution, tick, sentAge,
                   disturbed, faults>>

\* The job is done, or it is a tick and its next run is due later.
Finish(w) ==
    /\ work[w].pc = "rule" /\ work[w].todo = <<>>
    /\ Left(w, FALSE)
    /\ UNCHANGED <<row, pending, sentAge, disturbed, faults>>

----------------------------------------------------------------------------
\* The jobs that fire rules

\* alert_evaluator_tick
ClaimTick(w) ==
    /\ work[w].pc = "idle"
    /\ tick.status = "queued"
    /\ tick' = [status |-> "running", holder |-> w]
    /\ work' = [work EXCEPT ![w].pc = "list"]
    /\ UNCHANGED <<row, pending, execution, sentAge, disturbed, faults>>

\* An execute job whose work fails for good goes through terminal_execute_failure;
\* one that finds its execution already failed has nothing left to do.
Fails(w, e) ==
    /\ work[w].pc = "idle"
    /\ execution[e].job = "queued"
    /\ IF execution[e].status = "running"
       THEN /\ work' = [work EXCEPT ![w].pc = "fail", ![w].execution = e,
                                    ![w].kind = "execution_terminal"]
            /\ execution' = [execution EXCEPT ![e].job = "running"]
       ELSE /\ execution' = [execution EXCEPT ![e].job = "done"]
            /\ UNCHANGED work
    /\ UNCHANGED <<row, pending, tick, sentAge, disturbed, faults>>

FailRow(w) ==
    /\ work[w].pc = "fail"
    /\ execution' = [execution EXCEPT ![work[w].execution].status = "failed"]
    /\ Goto(w, "pend")
    /\ UNCHANGED <<row, pending, tick, sentAge, disturbed, faults>>

SourceWaits == pending' = IF pending < Threshold THEN pending + 1 ELSE pending

\* mark_sources_pending_workflow_run
PendSources(w) ==
    /\ work[w].pc = "pend"
    /\ SourceWaits
    /\ Goto(w, "list")
    /\ UNCHANGED <<row, execution, tick, sentAge, disturbed, faults>>

\* The execution is submitted, and a poll of its backend concludes it later
\* (SlurmRemote, apply_dim_poll_update).
Submitted(e) ==
    /\ execution[e].job = "queued" /\ execution[e].status = "running"
    /\ execution' = [execution EXCEPT ![e].job = "done"]
    /\ UNCHANGED <<row, pending, tick, work, sentAge, disturbed, faults>>

PollFails(e) ==
    /\ execution[e].job = "done" /\ execution[e].status = "running"
    /\ execution' = [execution EXCEPT ![e].status = "failed"]
    /\ SourceWaits
    /\ UNCHANGED <<row, tick, work, sentAge, disturbed, faults>>

\* A discovery batch that found changes: its events, then the batched alert
Discovers(w) ==
    /\ work[w].pc = "idle"
    /\ SourceWaits
    /\ work' = [work EXCEPT ![w].pc = "list", ![w].kind = "discovery_changed"]
    /\ UNCHANGED <<row, execution, tick, sentAge, disturbed, faults>>

\* A waiting source is admitted to an execution.
Admits ==
    /\ pending > 0
    /\ pending' = pending - 1
    /\ UNCHANGED <<row, execution, tick, work, sentAge, disturbed, faults>>

\* The worker dies, or a statement of its fails, and its job is tried again.
Dies(w) ==
    /\ Faults
    /\ work[w].pc \notin {"idle", "stopped"}
    /\ Left(w, TRUE)
    /\ CutOff(w)
    /\ UNCHANGED <<row, pending, sentAge>>

\* The lease of a tick lapses under a worker that goes on for a while.
LeaseExpires ==
    /\ Faults
    /\ tick.status = "running"
    /\ tick' = Queued
    /\ UNCHANGED <<row, pending, execution, work, sentAge, disturbed>>

\* dispatch_with_lease: a renewal is refused, and the tick's work is dropped
\* where it stands.
Dropped(w) ==
    /\ work[w].pc = "waits" /\ work[w].kind = "tick"
    /\ tick.holder # w
    /\ Left(w, FALSE)
    /\ CutOff(w)
    /\ UNCHANGED <<row, pending, sentAge, faults>>

Older(age) == IF age < Cap THEN age + 1 ELSE Cap

TimePasses ==
    /\ rules' = [r \in Rules |-> [rules[r] EXCEPT !.age = Older(@)]]
    /\ work' = [w \in Workers |-> [work[w] EXCEPT !.todo =
                   [i \in DOMAIN @ |-> [@[i] EXCEPT !.age = Older(@)]]]]
    /\ sentAge' = [r \in Rules |-> [c \in Channels |-> Older(sentAge[r][c])]]
    /\ UNCHANGED <<channels, edit, edits, pending, execution, tick, disturbed, faults>>

----------------------------------------------------------------------------
WorkerStep(w) ==
    \/ List(w) \/ Skip(w) \/ Fire(w) \/ Deliver(w) \/ Record(w)
    \/ Mark(w) \/ Finish(w) \/ FailRow(w) \/ PendSources(w) \/ Dropped(w)

Next ==
    \/ Operate
    \/ \E w \in Workers : \/ ClaimTick(w) \/ Discovers(w) \/ WorkerStep(w) \/ Dies(w)
                          \/ Await(w) \/ Answer(w)
                          \/ \E e \in Executions : Fails(w, e)
    \/ \E e \in Executions : Submitted(e) \/ PollFails(e)
    \/ Admits \/ LeaseExpires \/ TimePasses

Spec == Init /\ [][Next]_vars

\* Live workers make progress, a queued tick is claimed in the end (the queue
\* ages priorities), and time goes on.  An endpoint that is silent owes no answer.
Fairness ==
    /\ \A w \in Workers : WF_vars(WorkerStep(w))
    /\ SF_vars(\E w \in Workers : ClaimTick(w))
    /\ WF_vars(TimePasses)

FairSpec == Spec /\ Fairness

----------------------------------------------------------------------------
\* Properties

\* How long a rule stays silent after a firing
Quiet(r) == IF Kinds[r] = "daily_summary" /\ Window > Cooldown[r] THEN Window
            ELSE Cooldown[r]

\* "One webhook per cooldown window": fire_alert and evaluate_scheduled_rules let
\* a rule send to a channel again only when its cooldown, and the window of a
\* digest, have passed since the last message, refused deliveries and operators'
\* edits notwithstanding.  Firings that overlap, or that a fault cuts off before
\* mark_alert_rule_fired, are not held to it: the cooldown is read with the list.
OneMessagePerWindow ==
    [][\A w \in Workers : \A c \in work'[w].channel \ work[w].channel :
         LET r == Front(w).rule
         IN  sentAge'[r][c] = 0 /\ r \notin disturbed' => sentAge[r][c] >= Quiet(r)]_vars

\* The redacted form a channel is shown in never becomes its stored secret,
\* however PATCHes interleave with one another and with a delivery
\* (merge_notification_config).
SecretIsKept == \A c \in Channels : channels[c].secret # Redacted

Backlog(r, c) ==
    /\ pending >= Threshold
    /\ rules[r].exists = "live" /\ rules[r].enabled /\ c \in rules[r].channels
    /\ channels[c].exists = "live" /\ channels[c].enabled

\* The evaluator waits for an endpoint, or every worker that serves does.
Stuck ==
    \/ \E w \in Workers : work[w].pc = "waits" /\ work[w].kind = "tick"
    \/ \A w \in Workers : work[w].pc \in {"waits", "stopped"}

\* A backlog that stays keeps being reported on every usable channel of its rule
\* while calls are answered in the end (deliver_webhook waits without a limit, and
\* one call that never returns stops every scheduled rule): another channel that
\* refuses, is slow, or is deleted during a firing, and a lease that is lost,
\* cost it single evaluations only.
BacklogIsAlerted ==
    \A r \in {q \in Scoped : Kinds[q] = "pending_backlog"},
      c \in Channels \ (Broken \cup Silent) :
        <>[]Backlog(r, c) /\ []<>~Stuck => []<>(sentAge[r][c] = 0)

\* "`execution_terminal` | Immediate, on execution failure"
\* (boilerplate_docs/operations/observability.md:94): once nothing is under way
\* for a failed execution, its failure has been put to the alert rules.
FailureIsAlerted ==
    \A e \in Executions :
        execution[e].status = "failed" /\ execution[e].job = "done" => execution[e].raised
===============================================================================
