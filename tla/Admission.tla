------------------------------- MODULE Admission -------------------------------
(***************************************************************************)
(* How an execution comes into the ledger and is started: POST /executions *)
(* with an Idempotency-Key, POST /executions/{id}/execute, the scheduling   *)
(* tick, retries and cancellations, and the deployment profiles they read   *)
(* (crates/beampipe-api/src/lib.rs, crates/beampipe-db/src/repo.rs and      *)
(* crates/beampipe-jobs/src/lib.rs).                                       *)
(*                                                                         *)
(* A request validates against a profile, reads it once more, then inserts  *)
(* in a transaction that takes up to two advisory locks.  Other requests,   *)
(* edits of the profile and the worker run between any two of these steps,  *)
(* and a caller that sees no answer sends the request again.                *)
(***************************************************************************)
EXTENDS Integers, Sequences, FiniteSets

CONSTANTS
    Callers,        \* the requests served at once, scheduling ticks included
    Schedulers,     \* those of them that may be a scheduling tick
    Keys,           \* idempotency keys, each of one user
    Profiles,       \* deployment profiles that can be created
    Limits,         \* the values of max_concurrent_executions, 0 for NULL
    ModuleCap,      \* concurrent_execution_run_limit of the project
    MaxExecutions,  \* bound: executions created
    MaxEdits,       \* bound: writes to the profiles
    MaxRetries,     \* bound: retries of an execution
    MaxStarted,     \* bound: the executions that requests start, 1..n
    NoCaller, NoKey, NoProfile

ASSUME AdmissionAssumption ==
    /\ IsFiniteSet(Callers)
    /\ Schedulers \subseteq Callers
    /\ Limits \subseteq Nat
    /\ 0 \in Limits
    /\ ModuleCap \in Nat
    /\ MaxExecutions \in Nat
    /\ MaxEdits \in Nat
    /\ MaxRetries \in Nat
    /\ MaxStarted \in Nat
    /\ NoCaller \notin Callers
    /\ NoKey \notin Keys
    /\ NoProfile \notin Profiles

VARIABLES
    profile,     \* the rows of daliuge_deployment_profile
    executions,  \* batch_execution_record, in the order of the commits
    call,        \* what each caller is doing
    keyLock,     \* the advisory locks on user and key
    capLock,     \* the advisory locks on a profile's admission
    reply,       \* the answer sent in this step, if it is one
    edits        \* the writes to the profiles so far

vars == <<profile, executions, call, keyLock, capLock, reply, edits>>

-----------------------------------------------------------------------------
(* State *)

\* A row of daliuge_deployment_profile: its limit and whether it is the
\* default.  An execution pins the revision it was created with; of that, the
\* limit matters here.
ProfileRow == [state : {"absent", "present", "deleted"}, limit : Limits,
               default : BOOLEAN]
Unlimited == 0
AbsentProfile == [state |-> "absent", limit |-> Unlimited, default |-> FALSE]

\* A request names a profile or leaves the choice to the default.
ByDefault == NoProfile
Selections == Profiles \cup {ByDefault}

Status == {"pending", "active", "ended"}
\* The job of the first start: queued or running; completed; dead-lettered
\* or cancelled.
JobStatus == {"none", "live", "completed", "lost"}

Row == [key : Keys \cup {NoKey}, selection : Selections,
        profile : Profiles \cup {NoProfile}, limit : Limits,
        automated : BOOLEAN, status : Status, retries : 0..MaxRetries,
        job : JobStatus, submit : BOOLEAN]

Steps == {"idle", "read", "validate", "resolve", "key", "cap", "insert", "chunk",
          "job", "enqueue"}

Call == [at : Steps, key : Keys \cup {NoKey}, selection : Selections,
         profile : Profiles \cup {NoProfile}, limit : Limits,
         tick : BOOLEAN, budget : Nat, execution : 0..MaxExecutions, pending : BOOLEAN,
         submit : BOOLEAN]

Idle == [at |-> "idle", key |-> NoKey, selection |-> ByDefault,
         profile |-> NoProfile, limit |-> Unlimited, tick |-> FALSE, budget |-> 0,
         execution |-> 0, pending |-> FALSE, submit |-> FALSE]

NoReply == [verdict |-> "none", key |-> NoKey, selection |-> ByDefault,
            submit |-> FALSE, execution |-> 0]

Init ==
    /\ profile \in [Profiles -> {row \in ProfileRow : row.state = "present"}
                               \cup {AbsentProfile}]
    /\ \A p, q \in Profiles :
         profile[p].default /\ profile[q].default => p = q
    /\ executions = <<>>
    /\ call = [c \in Callers |-> Idle]
    /\ keyLock = [k \in Keys |-> NoCaller]
    /\ capLock = [p \in Profiles |-> NoCaller]
    /\ reply = NoReply
    /\ edits = 0

Exists(p) == p \in Profiles /\ profile[p].state = "present"
Ids == DOMAIN executions
InFlight(e) == executions[e].status \in {"pending", "active"}

\* The execution that has the key, 0 if none has.
Holder(k) ==
    IF \E e \in Ids : executions[e].key = k /\ k # NoKey
    THEN CHOOSE e \in Ids : executions[e].key = k
    ELSE 0

\* The profile a selection stands for now.
Selected(s) ==
    IF s # ByDefault
    THEN IF Exists(s) THEN s ELSE NoProfile
    ELSE IF \E p \in Profiles : Exists(p) /\ profile[p].default
         THEN CHOOSE p \in Profiles : Exists(p) /\ profile[p].default
         ELSE NoProfile

-----------------------------------------------------------------------------
(* Ending a call: its connection is given back, its transaction is over and *)
(* its advisory locks with it.                                              *)

Unlock(c) ==
    /\ keyLock' = [k \in Keys |-> IF keyLock[k] = c THEN NoCaller
                                  ELSE keyLock[k]]
    /\ capLock' = [p \in Profiles |-> IF capLock[p] = c THEN NoCaller
                                      ELSE capLock[p]]

\* What the caller is told: that its request is execution e, that the key is
\* another request's, that the profile is full, that the database refused, or
\* that execution e is queued with the options asked for.  The other refusals
\* are not told apart from no answer.
Reply(c, verdict, e) ==
    reply' = [verdict |-> verdict, key |-> call[c].key,
              selection |-> call[c].selection, submit |-> call[c].submit,
              execution |-> e]

Silent == reply' = NoReply

\* The stored request differs from this one.
OtherRequest(c, e) == executions[e].selection # call[c].selection

\* The answer to a request whose key execution e has.
Replay(c, e) ==
    Reply(c, IF OtherRequest(c, e) THEN "conflict" ELSE "accepted", e)

Return(c) == call' = [call EXCEPT ![c] = Idle]

Goto(c, step) == call' = [call EXCEPT ![c].at = step]

Creating == {"read", "validate", "resolve", "key", "cap", "insert"}

\* The bound on executions: no more creations are begun than can end.
Room == Len(executions)
          + Cardinality({c \in Callers : call[c].at \in Creating})
            < MaxExecutions

-----------------------------------------------------------------------------
(* POST /executions                                                         *)

\* The handler looks for the key before anything else, without a lock.
Create(c, k, s) ==
    /\ call[c].at = "idle"
    /\ Room
    /\ call' = [call EXCEPT ![c] =
                  [Idle EXCEPT !.key = k, !.selection = s,
                               !.at = IF k = NoKey THEN "validate" ELSE "read"]]
    /\ Silent
    /\ UNCHANGED <<profile, executions, keyLock, capLock, edits>>

Read(c) ==
    LET e == Holder(call[c].key)
    IN  /\ call[c].at = "read"
        /\ IF e = 0 THEN Goto(c, "validate") /\ Silent
           ELSE Return(c) /\ Replay(c, e)
        /\ UNCHANGED <<profile, executions, keyLock, capLock, edits>>

\* validate_execution_admission: a request without a usable profile is
\* refused; the profile's id is passed on.
Validate(c) ==
    /\ call[c].at = "validate"
    /\ LET p == Selected(call[c].selection)
       IN  IF p = NoProfile
           THEN Return(c)
           ELSE call' = [call EXCEPT ![c].at = "resolve", ![c].profile = p]
    /\ Silent
    /\ UNCHANGED <<profile, executions, keyLock, capLock, edits>>

\* It also refuses a request whose sources, groups, archive or project
\* configuration are not in order; they are not modelled here.
Invalid(c) ==
    /\ call[c].at = "validate"
    /\ Return(c)
    /\ Silent
    /\ UNCHANGED <<profile, executions, keyLock, capLock, edits>>

\* A user without a key, as a key without a user, is refused.
KeyIsComplete(c) == call[c].tick \/ call[c].key # NoKey

\* create_execution_internal reads the profile again, and pins what it reads.
\* An automated creation may come without a profile.
Resolve(c) ==
    /\ call[c].at = "resolve"
    /\ LET p == IF call[c].profile = NoProfile THEN Selected(ByDefault)
                ELSE Selected(call[c].profile)
       IN  IF ~KeyIsComplete(c) \/ (p = NoProfile /\ call[c].profile # NoProfile)
           THEN Return(c)
           ELSE call' = [call EXCEPT
                  ![c].profile = p,
                  ![c].limit = IF p = NoProfile THEN Unlimited
                               ELSE profile[p].limit,
                  ![c].at = IF call[c].key # NoKey THEN "key" ELSE "cap"]
    /\ Silent
    /\ UNCHANGED <<profile, executions, keyLock, capLock, edits>>

\* Defect for a mutant run: the key is not looked for again under the lock.
EnterKeyBlindly(c) ==
    /\ call[c].at = "key"
    /\ keyLock[call[c].key] = NoCaller
    /\ keyLock' = [keyLock EXCEPT ![call[c].key] = c]
    /\ Goto(c, "cap")
    /\ Silent
    /\ UNCHANGED <<capLock, profile, executions, edits>>

\* The transaction, first statement: the lock on user and key, under which
\* the key is looked for again.
EnterKey(c) ==
    /\ call[c].at = "key"
    /\ keyLock[call[c].key] = NoCaller
    /\ LET e == Holder(call[c].key)
       IN  IF e = 0
           THEN /\ keyLock' = [keyLock EXCEPT ![call[c].key] = c]
                /\ Goto(c, "cap")
                /\ Silent
                /\ UNCHANGED capLock
           ELSE /\ Return(c)
                /\ Replay(c, e)
                /\ UNCHANGED <<keyLock, capLock>>
    /\ UNCHANGED <<profile, executions, edits>>

\* Defect for a mutant run: an execution that has not started does not count.
LoadStarted(p) ==
    Cardinality({e \in Ids : /\ executions[e].profile = p
                            /\ executions[e].status = "active"})

\* Executions of the profile that count against its limit.
Load(p) == Cardinality({e \in Ids : executions[e].profile = p /\ InFlight(e)})

\* The lock on the profile, under which its executions are counted.  The
\* limit is that of the revision pinned; without one there is no lock.
EnterCap(c) ==
    LET p == call[c].profile
    IN  /\ call[c].at = "cap"
        /\ IF call[c].limit = Unlimited
           THEN Goto(c, "insert") /\ Silent /\ UNCHANGED <<keyLock, capLock>>
           ELSE /\ capLock[p] = NoCaller
                /\ IF Load(p) >= call[c].limit
                   THEN /\ Reply(c, "limit", Holder(call[c].key))
                        /\ Return(c)
                        /\ Unlock(c)
                   ELSE /\ capLock' = [capLock EXCEPT ![p] = c]
                        /\ Goto(c, "insert")
                        /\ Silent
                        /\ UNCHANGED keyLock
        /\ UNCHANGED <<profile, executions, edits>>

NewRow(c) ==
    [key |-> call[c].key, selection |-> call[c].selection,
     profile |-> call[c].profile, limit |-> call[c].limit,
     automated |-> call[c].tick, status |-> "pending", retries |-> 0,
     job |-> IF call[c].tick THEN "live" ELSE "none",
     submit |-> call[c].tick]

\* execution_capabilities_from_project: a job that submits needs a pinned profile,
\* which says what its workers must be capable of.
Deployable(p, submit) == submit => p # NoProfile

\* The row, the provenance event and, for an automated execution, the execute
\* job are inserted and committed together; the foreign key and the unique
\* index on user and key are checked.
Insert(c) ==
    /\ call[c].at = "insert"
    /\ Unlock(c)
    /\ IF \/ call[c].profile # NoProfile /\ ~Exists(call[c].profile)
          \/ call[c].key # NoKey /\ Holder(call[c].key) # 0
          \/ ~Deployable(call[c].profile, call[c].tick)
       THEN /\ Reply(c, "error", Holder(call[c].key))
            /\ Return(c)
            /\ UNCHANGED executions
       ELSE /\ executions' = Append(executions, NewRow(c))
            /\ Silent
            /\ IF call[c].tick
               THEN call' = [call EXCEPT ![c] =
                       [Idle EXCEPT !.at = "chunk",
                                    !.tick = TRUE,
                                    !.profile = call[c].profile,
                                    !.budget = call[c].budget - 1]]
               ELSE Return(c)
    /\ UNCHANGED <<profile, edits>>

-----------------------------------------------------------------------------
(* The scheduling tick                                                      *)

Automated(e) == executions[e].automated

\* count_auto_in_flight_for_module: every execution of the project counts.
ModuleLoad == Cardinality({e \in Ids : InFlight(e)})

\* What the tick still may admit, from counts taken without a lock.
Budget(p) ==
    LET room == ModuleCap - ModuleLoad
        left == profile[p].limit - Load(p)
    IN  IF p = NoProfile \/ profile[p].limit = Unlimited \/ room <= left
        THEN room ELSE left

\* schedule_project_executions up to the first chunk of sources; nothing is
\* done without a budget.
TickBegin(c) ==
    LET p == Selected(ByDefault)
    IN  /\ c \in Schedulers
        /\ call[c].at = "idle"
        /\ Budget(p) > 0
        /\ call' = [call EXCEPT ![c] = [Idle EXCEPT !.at = "chunk",
                                                    !.tick = TRUE,
                                                    !.profile = p,
                                                    !.budget = Budget(p)]]
        /\ Silent
        /\ UNCHANGED <<profile, executions, keyLock, capLock, edits>>

\* The next chunk of ready sources, as long as the budget lasts.
TickChunk(c) ==
    /\ call[c].at = "chunk"
    /\ call[c].budget > 0
    /\ Room
    /\ Goto(c, "resolve")
    /\ Silent
    /\ UNCHANGED <<profile, executions, keyLock, capLock, edits>>

\* No ready source is left, or the budget is spent.
TickEnd(c) ==
    /\ call[c].at = "chunk"
    /\ Return(c)
    /\ Silent
    /\ UNCHANGED <<profile, executions, keyLock, capLock, edits>>

-----------------------------------------------------------------------------
(* POST /executions/{id}/execute                                            *)

Replayable(e) == executions[e].job \in {"live", "completed"}

\* The handler reads the row, and only then the job of the key execute:{id}.
Start(c, e, o) ==
    /\ call[c].at = "idle"
    /\ e <= MaxStarted
    /\ call' = [call EXCEPT ![c] =
                  [Idle EXCEPT !.at = "job", !.execution = e, !.submit = o,
                               !.pending = executions[e].status = "pending"]]
    /\ Silent
    /\ UNCHANGED <<profile, executions, keyLock, capLock, edits>>

Accept(c) == Reply(c, "started", call[c].execution)

\* A job with other options refuses; one that is queued, runs or has
\* completed is the answer; otherwise the row read must have been pending.
StartJob(c) ==
    LET e == call[c].execution
        found == executions[e].job # "none"
        same == executions[e].submit = call[c].submit
    IN  /\ call[c].at = "job"
        /\ \/ found /\ ~same /\ Return(c) /\ Silent
           \/ found /\ same /\ Replayable(e) /\ Return(c) /\ Accept(c)
           \/ /\ ~found \/ (same /\ ~Replayable(e))
              /\ IF call[c].pending /\ Deployable(executions[e].profile, call[c].submit)
                 THEN Goto(c, "enqueue")
                 ELSE Return(c)
              /\ Silent
        /\ UNCHANGED <<profile, executions, keyLock, capLock, edits>>

\* Defect for a mutant run: the answer is not compared with the job queued.
EnqueueAny(c) ==
    LET e == call[c].execution
        new == executions[e].job = "none"
    IN  /\ call[c].at = "enqueue"
        /\ Return(c)
        /\ executions' = IF new /\ InFlight(e)
                         THEN [executions EXCEPT ![e].job = "live",
                                                 ![e].submit = call[c].submit]
                         ELSE executions
        /\ IF InFlight(e) THEN Accept(c) ELSE Silent
        /\ UNCHANGED <<profile, keyLock, capLock, edits>>

\* enqueue_job_with_options under the row lock: nothing for a terminal
\* execution, the job that has the key if there is one, a new job otherwise.
\* The handler then compares the job it got with what it asked for.
Enqueue(c) ==
    LET e == call[c].execution
        new == executions[e].job = "none"
        same == executions[e].submit = call[c].submit
    IN  /\ call[c].at = "enqueue"
        /\ Return(c)
        /\ \/ ~InFlight(e) /\ Silent /\ UNCHANGED executions
           \/ /\ InFlight(e) /\ new
              /\ executions' = [executions EXCEPT ![e].job = "live",
                                                  ![e].submit = call[c].submit]
              /\ Accept(c)
           \/ /\ InFlight(e) /\ ~new
              /\ IF same /\ Replayable(e) THEN Accept(c) ELSE Silent
              /\ UNCHANGED executions
        /\ UNCHANGED <<profile, keyLock, capLock, edits>>

-----------------------------------------------------------------------------
(* What happens to an execution: workers, reconciliation, operators         *)

Becomes(e, status, job) ==
    /\ executions' = [executions EXCEPT ![e].status = status, ![e].job = job]
    /\ Silent
    /\ UNCHANGED <<profile, call, keyLock, capLock, edits>>

\* A worker that has the job admits the execution.
Begin(e) ==
    /\ executions[e].job = "live"
    /\ executions[e].status = "pending"
    /\ Becomes(e, "active", "live")

\* The job settles, with the execution concluded, in flight outside, or - the
\* attempts spent before the handler could write - as it was.
SettleJob(e) ==
    /\ executions[e].job = "live"
    /\ \E status \in {executions[e].status, "ended"},
          job \in {"completed", "lost"} : Becomes(e, status, job)

\* Reconciliation concludes an execution in flight.
Conclude(e) ==
    /\ executions[e].status = "active"
    /\ Becomes(e, "ended", executions[e].job)

\* cancel_execution ends the execution and its execute jobs.
Cancel(e) ==
    /\ InFlight(e)
    /\ Becomes(e, "ended", IF executions[e].job = "live" THEN "lost"
                           ELSE executions[e].job)

\* retry_execution brings an ended execution back, with a job of another
\* key.  It takes no lock on the profile and counts nothing.
Retry(e) ==
    /\ executions[e].status = "ended"
    /\ executions[e].job # "live"
    /\ executions[e].retries < MaxRetries
    /\ executions' = [executions EXCEPT ![e].status = "active",
                                        ![e].retries = @ + 1]
    /\ Silent
    /\ UNCHANGED <<profile, call, keyLock, capLock, edits>>

-----------------------------------------------------------------------------
(* The deployment profiles                                                  *)

\* Another profile of the scope is the default.
DefaultTaken(p) == \E q \in Profiles \ {p} : Exists(q) /\ profile[q].default

\* create_deployment_profile and update_deployment_profile: each write is a
\* new revision; a second default is refused.
WriteProfile(p, limit, default) ==
    /\ edits < MaxEdits
    /\ profile[p].state # "deleted"
    /\ default => ~DefaultTaken(p)
    /\ profile' = [profile EXCEPT ![p] = [state |-> "present", limit |-> limit,
                                          default |-> default]]
    /\ edits' = edits + 1
    /\ Silent
    /\ UNCHANGED <<executions, call, keyLock, capLock>>

\* A profile that an execution refers to cannot be deleted.
DeleteProfile(p) ==
    /\ Exists(p)
    /\ \A e \in Ids : executions[e].profile # p
    /\ edits < MaxEdits
    /\ profile' = [profile EXCEPT ![p] = [AbsentProfile EXCEPT
                                         !.state = "deleted"]]
    /\ edits' = edits + 1
    /\ Silent
    /\ UNCHANGED <<executions, call, keyLock, capLock>>

\* The connection of a caller, or the process that serves it, is lost.
Lose(c) ==
    /\ call[c].at # "idle"
    /\ Return(c)
    /\ Unlock(c)
    /\ Silent
    /\ UNCHANGED <<profile, executions, edits>>

-----------------------------------------------------------------------------

Serve(c) ==
    \/ \E k \in Keys \cup {NoKey}, s \in Selections : Create(c, k, s)
    \/ \E e \in Ids, o \in BOOLEAN : Start(c, e, o)
    \/ TickBegin(c)
    \/ Lose(c)

Advance(c) ==
    \/ Read(c) \/ Validate(c) \/ Invalid(c) \/ Resolve(c) \/ Insert(c)
    \/ TickChunk(c) \/ TickEnd(c)
    \/ StartJob(c) \/ Enqueue(c)

Wait(c) == EnterKey(c) \/ EnterCap(c)

Elsewhere ==
    \/ \E e \in Ids : Begin(e) \/ SettleJob(e) \/ Conclude(e)
                        \/ Cancel(e) \/ Retry(e)
    \/ \E p \in Profiles :
          \/ DeleteProfile(p)
          \/ \E limit \in Limits, default \in BOOLEAN :
                WriteProfile(p, limit, default)

Next == Elsewhere \/ \E c \in Callers : Serve(c) \/ Advance(c) \/ Wait(c)

Spec == Init /\ [][Next]_vars

-----------------------------------------------------------------------------
(* Properties                                                               *)

Verdict == {"none", "accepted", "conflict", "limit", "error", "started"}

\* Types of the variables of the admission code.
TypeOK ==
    /\ profile \in [Profiles -> ProfileRow]
    /\ executions \in Seq(Row)
    /\ Len(executions) <= MaxExecutions
    /\ call \in [Callers -> Call]
    /\ keyLock \in [Keys -> Callers \cup {NoCaller}]
    /\ capLock \in [Profiles -> Callers \cup {NoCaller}]
    /\ reply \in [verdict : Verdict, key : Keys \cup {NoKey},
                  selection : Selections, submit : BOOLEAN,
                  execution : 0..MaxExecutions]
    /\ edits \in 0..MaxEdits

\* An idempotency key is one execution, and every answer is true of it: a
\* request is answered with the execution only if it is the request that
\* created it, a conflict means that it is another one, and no request is
\* refused for the limit of the profile, or for the key being taken, that an
\* earlier copy of itself used up.
KeyIsOneExecution ==
    /\ \A d, e \in Ids : executions[d].key = executions[e].key =>
          d = e \/ executions[e].key = NoKey
    /\ LET e == reply.execution
           same == executions[e].selection = reply.selection
       IN  /\ reply.verdict = "accepted" => e # 0 /\ same
           /\ reply.verdict = "conflict" => e # 0 /\ ~same
           /\ reply.verdict \in {"limit", "error"} => e = 0

\* The executions that were admitted under the lock of e's profile before e,
\* or are e, and are still in flight.
AdmittedUpTo(e) ==
    {d \in 1..e : /\ executions[d].profile = executions[e].profile
                  /\ executions[d].limit # Unlimited
                  /\ executions[d].retries = 0
                  /\ InFlight(d)}

\* Each execution was admitted within the limit that it pinned, however the
\* requests interleave and whatever the profile has become since.
AdmittedWithinPinnedLimit ==
    \A e \in Ids :
      executions[e].limit # Unlimited =>
        Cardinality(AdmittedUpTo(e)) <= executions[e].limit

\* The scheduling ticks of one scheduler leave no more of their executions in
\* flight than the project allows, although requests create others between
\* the count and the creations.
TicksWithinModuleCap ==
    Cardinality({e \in Ids : /\ Automated(e) /\ InFlight(e)
                            /\ executions[e].retries = 0}) <= ModuleCap

\* Every start request accepted named the options of the execution's job,
\* although two requests with different options both found no job.
StartedAsAnswered ==
    reply.verdict = "started" =>
      /\ executions[reply.execution].job # "none"
      /\ executions[reply.execution].submit = reply.submit
=============================================================================
