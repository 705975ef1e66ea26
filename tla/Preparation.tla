----------------------------- MODULE Preparation -----------------------------
(***************************************************************************)
(* From the archive to the submitted manifest: the discovery that fills    *)
(* archive_metadata for a source, and the execute handlers that select an  *)
(* execution's records from it, stage them, pin the manifest and hand it   *)
(* to the backend.                                                         *)
(* (crates/beampipe-jobs/src/lib.rs, crates/beampipe-adapters,             *)
(* crates/beampipe-orchestration/src/staging.rs)                           *)
(*                                                                         *)
(* ExecutionLedger has the same handlers with every axis of the row and    *)
(* nothing of the data; here the row is what the data depends on.  One     *)
(* source stands for the selection.  Its discovery signature is the        *)
(* version of the archive its metadata came from: an archive never returns *)
(* to a former content while the execution lives.  Cancellation and the    *)
(* name lookups are left to ExecutionLedger, claims to SourceRegistry.     *)
(***************************************************************************)
EXTENDS ExecutionStatus, Integers, FiniteSets, Sequences

CONSTANTS
    Handlers,       \* consumer loops that run execute jobs
    MaxVersion,     \* bound on the versions of the archive
    Content,        \* what the archive holds of the source, by version
    Kept,           \* versions whose stored metadata answers in its place
    Selected,       \* the groups the execution selects
    Enrichments,    \* the queries after the first, TRUE for a required one
    QueryRetries,   \* adapters.tap.retries
    MaxDiscoveries, \* bound on discoveries
    MaxRetries,     \* bound on operator retries
    MaxFaults,      \* bound on expired leases and ticks that die
    NoHandler, NoManifest

Versions == 1..MaxVersion
Builds == 1..(MaxRetries + MaxFaults + 1)

VARIABLES
    registry,   \* the source's row, and the version its metadata rows are of
    discovery,  \* the discovery of the source that is under way
    row,        \* the execution's row
    job,        \* its latest execute job
    run,        \* the handlers
    tick,       \* the poll tick that has seen the execution end
    sent,       \* the manifest the backend was called with
    taken,      \* did the backend take it?
    builds,     \* manifests built so far
    lost,       \* has a live handler lost its lease?
    discoveries, faults

vars == <<registry, discovery, row, job, run, tick, sent, taken, builds,
          lost, discoveries, faults>>

----------------------------------------------------------------------------
\* Records and manifests

Identity == UNION {Content[v] : v \in Versions}
Record == {[group |-> i.group, id |-> i.id, version |-> v] : i \in Identity, v \in Versions}

\* build tells two stagings of one record apart: the archive signs new URLs.
Manifest == [records : SUBSET Record, proof : SUBSET Identity, build : Builds]

ASSUME PreparationAssumption ==
    /\ MaxVersion \in Nat \ {0}
    /\ Content \in [Versions -> SUBSET [group : Selected \cup {"other"}, id : Nat]]
    /\ Kept \subseteq Versions
    /\ Enrichments \in Seq(BOOLEAN)
    /\ QueryRetries \in Nat
    /\ MaxDiscoveries \in Nat
    /\ MaxRetries \in Nat
    /\ MaxFaults \in Nat
    /\ NoHandler \notin Handlers
    /\ NoManifest \notin Manifest

\* record_scope_from_records, and the "_beampipe.selection" proof made from it
Proof(records) == {[group |-> r.group, id |-> r.id] : r \in records}

Metadata(v) == {[group |-> i.group, id |-> i.id, version |-> v] : i \in Content[v]}

Selection(v) == {r \in Metadata(v) : r.group \in Selected}

\* select_execution_archive_metadata covers every selected group, or fails.
Covered(v) == \A g \in Selected : \E r \in Metadata(v) : r.group = g

Row == [status : Status, phase : Phase, submission : SubmissionState,
        evidence : Manifest \cup {NoManifest},
        manifest : Manifest \cup {NoManifest},
        admitted : Versions, retries : 0..MaxRetries]

Registry == [version : Versions, claimed : BOOLEAN, pending : BOOLEAN,
             consumed : 0..MaxVersion]

Findings == {"none", "rows", "failed", "unchanged"}
Discovery == [pc : {"idle", "query", "persist"}, query : 0..Len(Enrichments),
              attempt : 0..QueryRetries, of : Versions, found : Findings]

\* The steps of run_execute_body, which end in an error message when a
\* statement, a check or a call of theirs fails.
BodySteps == {"check", "select", "resume", "admit", "start", "active", "stage",
              "replay", "evidence", "pin", "recheck", "begin", "calling"}
Handler == [pc : {"idle", "read", "failing", "fail", "raise", "finalize", "settle"}
                   \cup BodySteps,
            attempt : 0..MaxRetries, submit : BOOLEAN,
            replay : BOOLEAN, retrying : BOOLEAN,
            records : SUBSET Record, manifest : Manifest \cup {NoManifest}]

Job == [status : {"queued", "running", "done"}, attempt : 0..MaxRetries,
        holder : Handlers \cup {NoHandler}, leased : BOOLEAN, submit : BOOLEAN]

TypeOK ==
    /\ registry \in Registry
    /\ discovery \in Discovery
    /\ row \in Row
    /\ job \in Job
    /\ run \in [Handlers -> Handler]
    /\ tick \in {"idle", "mark", "finalize"}
    /\ sent \in Manifest \cup {NoManifest}
    /\ taken \in BOOLEAN
    /\ builds \in 0..Cardinality(Builds)
    /\ lost \in BOOLEAN
    /\ discoveries \in 0..MaxDiscoveries
    /\ faults \in 0..MaxFaults

NoDiscovery == [pc |-> "idle", query |-> 0, attempt |-> 0, of |-> 1,
                found |-> "unchanged"]
Idle == [pc |-> "idle", attempt |-> 0, submit |-> FALSE, replay |-> FALSE,
         retrying |-> FALSE, records |-> {}, manifest |-> NoManifest]

\* A discovered source, the execution admitted for it, and its first job.
Init ==
    /\ registry = [version |-> 1, claimed |-> FALSE, pending |-> FALSE, consumed |-> 0]
    /\ discovery = NoDiscovery
    /\ row = [status |-> "pending", phase |-> "none", submission |-> "not_started",
              evidence |-> NoManifest, manifest |-> NoManifest, admitted |-> 1,
              retries |-> 0]
    /\ \E submit \in BOOLEAN :
         job = [status |-> "queued", attempt |-> 0, holder |-> NoHandler,
                leased |-> FALSE, submit |-> submit]
    /\ run = [h \in Handlers |-> Idle]
    /\ tick = "idle"
    /\ sent = NoManifest
    /\ taken = FALSE
    /\ builds = 0
    /\ lost = FALSE
    /\ discoveries = 0
    /\ faults = 0

----------------------------------------------------------------------------
\* Discovery

executing == <<row, job, run, tick, sent, taken, builds, lost, faults>>

\* claim_ready_sources; metadata that is complete under its signature answers
\* in the archive's place (DiscoverySourceResult::Unchanged).
StartDiscovery ==
    /\ discovery.pc = "idle"
    /\ discoveries < MaxDiscoveries
    /\ discoveries' = discoveries + 1
    /\ registry' = [registry EXCEPT !.claimed = TRUE]
    /\ discovery' = [NoDiscovery EXCEPT
                       !.pc = IF registry.version \in Kept THEN "persist" ELSE "query"]
    /\ UNCHANGED <<executing>>

\* The first query and the enrichments marked required decide the discovery.
Required(q) == q = 0 \/ Enrichments[q]

Found(found, v) == discovery' = [discovery EXCEPT !.pc = "persist", !.found = found,
                                                  !.of = v]

NextQuery(v) ==
    IF discovery.query = Len(Enrichments) THEN Found("rows", v)
    ELSE discovery' = [discovery EXCEPT !.query = @ + 1, !.attempt = 0, !.of = v]

\* A query is answered with rows, or with none; enrichments may have none.  The
\* archive may have moved on since the last discovery.
Answered ==
    /\ discovery.pc = "query"
    /\ IF discovery.query = 0
         THEN \E v \in Versions :
                /\ v >= registry.version
                /\ IF Content[v] = {} THEN Found("none", v) ELSE NextQuery(v)
         ELSE NextQuery(discovery.of)
    /\ UNCHANGED <<registry, executing, discoveries>>

\* Busy answers, lost connections and timeouts are asked again.
AskAgain ==
    /\ discovery.pc = "query"
    /\ discovery.attempt < QueryRetries
    /\ discovery' = [discovery EXCEPT !.attempt = @ + 1]
    /\ UNCHANGED <<registry, executing, discoveries>>

\* The last attempt timed out or failed, or an answer nothing can be done with:
\* an enrichment that is not required is left empty, and the metadata without
\* it has a signature of its own.
QueryFails ==
    /\ discovery.pc = "query"
    /\ IF Required(discovery.query)
         THEN Found("failed", 1)
         ELSE \E v \in Versions : /\ v >= discovery.of
                                  /\ Content[v] = Content[discovery.of]
                                  /\ NextQuery(v)
    /\ UNCHANGED <<registry, executing, discoveries>>

\* persist_discovery_results: rows and no rows replace the metadata and its
\* signature; only rows make the source pending.
PersistDiscovery ==
    LET changed == /\ discovery.found \in {"rows", "none"}
                   /\ discovery.of # registry.version
    IN
    /\ discovery.pc = "persist"
    /\ registry' = [registry EXCEPT !.claimed = FALSE,
                       !.version = IF changed THEN discovery.of ELSE @,
                       !.pending = @ \/ (changed /\ discovery.found = "rows")]
    /\ discovery' = NoDiscovery
    /\ UNCHANGED <<executing, discoveries>>

Discover ==
    \/ StartDiscovery \/ Answered \/ AskAgain \/ QueryFails \/ PersistDiscovery

----------------------------------------------------------------------------
\* The execute job and its lease

discovering == <<registry, discovery, discoveries>>

\* Past the body a handler keeps nothing of what it has prepared.
Goto(h, pc) ==
    run' = [run EXCEPT ![h] = IF pc \in BodySteps THEN [@ EXCEPT !.pc = pc]
                              ELSE [Idle EXCEPT !.pc = pc, !.attempt = run[h].attempt]]

Owns(h) ==
    job.status = "running" /\ job.holder = h /\ job.attempt = run[h].attempt

Deliver(h) ==
    /\ run[h].pc = "idle"
    /\ job.status = "queued" \/ (job.status = "running" /\ ~job.leased)
    /\ job' = [job EXCEPT !.status = "running", !.holder = h, !.leased = TRUE]
    /\ run' = [run EXCEPT ![h] = [Idle EXCEPT !.pc = "read", !.attempt = job.attempt,
                                           !.submit = job.submit]]
    /\ UNCHANGED <<discovering, row, tick, sent, taken, builds, lost, faults>>

\* The worker died, or it stalled for a whole lease and goes on.
LeaseExpires ==
    /\ job.status = "running" /\ job.leased
    /\ faults < MaxFaults
    /\ faults' = faults + 1
    /\ job' = [job EXCEPT !.leased = FALSE]
    /\ \/ UNCHANGED lost /\ run' = [h \in Handlers |-> IF Owns(h) THEN Idle ELSE run[h]]
       \/ lost' = TRUE /\ UNCHANGED run
    /\ UNCHANGED <<discovering, row, tick, sent, taken, builds>>

\* A refused renewal drops the handler.
Drop(h) ==
    /\ run[h].pc # "idle"
    /\ ~(Owns(h) /\ job.leased)
    /\ run' = [run EXCEPT ![h] = Idle]
    /\ UNCHANGED <<discovering, row, job, tick, sent, taken, builds, lost, faults>>

\* complete_job_with_lease, rejected for a stale holder.
Settle(h) ==
    /\ run[h].pc = "settle"
    /\ job' = IF Owns(h)
              THEN [job EXCEPT !.status = "done", !.holder = NoHandler, !.leased = FALSE]
              ELSE job
    /\ run' = [run EXCEPT ![h] = Idle]
    /\ UNCHANGED <<discovering, row, tick, sent, taken, builds, lost, faults>>

----------------------------------------------------------------------------
\* run_execute_body up to the call of the backend

preparing == <<discovering, job, tick, sent, taken, lost, faults>>

\* Defect for a mutant run: a recovery prepares everything again.
NeverReplays == FALSE

\* The snapshot decides between a new manifest and the pinned one.
Replays == row.phase = "submit" /\ row.manifest # NoManifest

Read(h) ==
    /\ run[h].pc = "read"
    /\ run' = [run EXCEPT ![h] =
         IF row.status \in Terminal \/ row.submission \in Holds
           THEN [@ EXCEPT !.pc = "settle"]
           ELSE [@ EXCEPT !.pc = "check", !.replay = Replays,
                          !.retrying = row.status = "retrying",
                          !.manifest = IF Replays THEN row.manifest ELSE NoManifest]]
    /\ UNCHANGED <<row, builds, preparing>>

\* Profile and credential errors, unreachable services, failed statements.
BodyFails(h) ==
    /\ run[h].pc \in BodySteps
    /\ Goto(h, "failing")
    /\ UNCHANGED <<row, builds, preparing>>

\* execution_source_readiness_errors
Ready ==
    /\ ~registry.claimed
    /\ Covered(registry.version)
    /\ registry.version = row.admitted

\* ensure_execution_active, before it reads the metadata
Check(h) ==
    /\ run[h].pc = "check"
    /\ Goto(h, IF row.status \notin Terminal /\ Ready THEN "select" ELSE "failing")
    /\ UNCHANGED <<row, builds, preparing>>

\* list_archive_metadata_for_sources is a read of its own.
Select(h) ==
    LET next == IF run[h].replay /\ run[h].retrying THEN "resume" ELSE "admit" IN
    /\ run[h].pc = "select"
    /\ run' = [run EXCEPT ![h] =
         IF Covered(registry.version)
           THEN [@ EXCEPT !.pc = next, !.records = Selection(registry.version)]
           ELSE [Idle EXCEPT !.pc = "failing", !.attempt = run[h].attempt]]
    /\ UNCHANGED <<row, builds, preparing>>

\* LedgerState::apply_patch, as in ExecutionLedger
LedgerRefuses(next) ==
    /\ row.status \notin LockedTerminal
    /\ next # row.status
    /\ next \notin Allows(row.status)

LedgerPatch(next, phase, manifest) ==
    row' = [row EXCEPT !.status = IF @ \in LockedTerminal THEN @ ELSE next,
                       !.phase = phase, !.manifest = manifest]

LedgerStep(h, status, phase, manifest, next) ==
    /\ IF LedgerRefuses(status) THEN Goto(h, "failing") /\ UNCHANGED row
                                ELSE Goto(h, next) /\ LedgerPatch(status, phase, manifest)
    /\ UNCHANGED <<builds, preparing>>

Resume(h) ==
    /\ run[h].pc = "resume"
    /\ LedgerStep(h, "running", "submit", row.manifest, "admit")

\* The Admitted patch of the control phase changes nothing here.
Admit(h) ==
    /\ run[h].pc = "admit"
    /\ Goto(h, IF run[h].replay THEN "replay" ELSE "start")
    /\ UNCHANGED <<row, builds, preparing>>

Start(h) ==
    /\ run[h].pc = "start"
    /\ LedgerStep(h, "running", "stage_and_manifest", row.manifest, "active")

\* ensure_execution_active without the sources
Active(h) ==
    /\ run[h].pc \in {"active", "recheck"}
    /\ Goto(h, IF row.status \in Terminal THEN "failing"
               ELSE IF run[h].pc = "active" THEN "stage" ELSE "begin")
    /\ UNCHANGED <<row, builds, preparing>>

\* Defect for a mutant run: groups the archive denied access to are left out.
StagesSome(records, skipped) == TRUE

\* validate_staged_record_scope
StagesAll(records, skipped) == skipped = {}

\* The archive stages the records a group at a time and denies access to some
\* groups; the manifest is built from the rest and carries the proof of all.
Stage(h) ==
    /\ run[h].pc = "stage"
    /\ builds < Cardinality(Builds)
    /\ \E skipped \in SUBSET Selected :
         LET records == {r \in run[h].records : r.group \notin skipped}
             built == [records |-> records, proof |-> Proof(run[h].records),
                       build |-> builds + 1]
         IN IF StagesAll(records, skipped)
              THEN /\ builds' = builds + 1
                   /\ run' = [run EXCEPT ![h] = [@ EXCEPT !.pc = "evidence",
                                                         !.manifest = built]]
              ELSE Goto(h, "failing") /\ UNCHANGED builds
    /\ UNCHANGED <<row, preparing>>

\* validate_manifest_selection_proof: the pinned manifest is of the records
\* selected now.
Replay(h) ==
    /\ run[h].pc = "replay"
    /\ Goto(h, IF run[h].manifest.proof = Proof(run[h].records) THEN "evidence"
                                                               ELSE "failing")
    /\ UNCHANGED <<row, builds, preparing>>

\* Defect for a mutant run: the first manifest's digest stays.
EvidenceOnce(h) ==
    /\ run[h].pc = "evidence"
    /\ row' = [row EXCEPT !.evidence = IF @ = NoManifest THEN run[h].manifest ELSE @]
    /\ Goto(h, "pin")
    /\ UNCHANGED <<builds, preparing>>

\* The artifacts, and apply_execution_provenance_patch with their digests
Evidence(h) ==
    /\ run[h].pc = "evidence"
    /\ row' = [row EXCEPT !.evidence = run[h].manifest]
    /\ Goto(h, "pin")
    /\ UNCHANGED <<builds, preparing>>

\* The job's own do_submit decides how the preparation ends.
FinishUnsubmitted(h) ==
    /\ run[h].pc = "pin"
    /\ ~run[h].submit
    /\ LedgerStep(h, "not_submitted", "none", run[h].manifest, "finalize")

Pin(h) ==
    /\ run[h].pc = "pin"
    /\ run[h].submit
    /\ row' = [row EXCEPT !.phase = "submit", !.manifest = run[h].manifest]
    /\ Goto(h, "recheck")
    /\ UNCHANGED <<builds, preparing>>

\* begin_execution_submission, and the call of the backend with the handler's
\* own manifest
Begin(h) ==
    /\ run[h].pc = "begin"
    /\ IF row.status \in Terminal \/ row.submission \in Holds
         THEN Goto(h, "settle") /\ UNCHANGED <<row, sent>>
         ELSE /\ row' = [row EXCEPT !.submission = "in_flight"]
              /\ sent' = run[h].manifest
              /\ Goto(h, "calling")
    /\ UNCHANGED <<discovering, job, tick, taken, builds, lost, faults>>

\* The backend takes the submission, whether or not anybody still listens.
Take ==
    /\ sent # NoManifest /\ ~taken
    /\ taken' = TRUE
    /\ UNCHANGED <<discovering, row, job, run, tick, sent, builds, lost, faults>>

\* The backend's answer: a receipt, a definite rejection, or neither.
Answer(h) ==
    /\ run[h].pc = "calling"
    /\ \/ /\ taken
          /\ row' = IF row.status \in Terminal
                      THEN [row EXCEPT !.submission = "submitted"]
                      ELSE [row EXCEPT !.submission = "submitted", !.phase = "submit",
                                       !.status = "awaiting_scheduler"]
          /\ Goto(h, "settle")
          /\ UNCHANGED sent
       \/ /\ ~taken
          /\ row' = IF row.status \in Terminal THEN row
                    ELSE [row EXCEPT !.submission = "failed"]
          /\ sent' = NoManifest
          /\ Goto(h, "failing")
       \/ /\ row' = IF row.status \in Terminal THEN row
                    ELSE [row EXCEPT !.submission = "uncertain",
                                     !.status = "awaiting_scheduler"]
          /\ Goto(h, "failing")
          /\ UNCHANGED sent
    /\ UNCHANGED <<discovering, job, tick, taken, builds, lost, faults>>

\* run_execute on an error
Failing(h) ==
    /\ run[h].pc = "failing"
    /\ Goto(h, IF row.status \in Terminal \/ row.submission \in Holds THEN "settle"
               ELSE "fail")
    /\ row' = IF row.status \notin Terminal /\ row.submission = "in_flight"
              THEN [row EXCEPT !.submission = "uncertain"] ELSE row
    /\ UNCHANGED <<builds, preparing>>

\* terminal_execute_failure, and then the sources in a statement of their own
Fail(h) ==
    /\ run[h].pc = "fail"
    /\ IF LedgerRefuses("failed") THEN Goto(h, "settle") /\ UNCHANGED row
       ELSE Goto(h, "raise") /\ LedgerPatch("failed", row.phase, row.manifest)
    /\ UNCHANGED <<builds, preparing>>

MarkPending == registry' = [registry EXCEPT !.pending = TRUE]

Raise(h) ==
    /\ run[h].pc = "raise"
    /\ MarkPending
    /\ Goto(h, "settle")
    /\ UNCHANGED <<discovery, discoveries, row, job, tick, sent, taken, builds,
                   lost, faults>>

----------------------------------------------------------------------------
\* What becomes of the sources

\* Defect for a mutant run: the current signature is not read again.
AdmittedIsCurrent == TRUE

SignatureIsCurrent == registry.version = row.admitted

\* finalize_successful_sources: the admitted signature is consumed only while it
\* is the current one; a newer one is new work.
FinalizeSources ==
    registry' = IF SignatureIsCurrent
                  THEN [registry EXCEPT !.pending = FALSE, !.consumed = registry.version]
                  ELSE [registry EXCEPT !.pending = TRUE]

\* finalize_successful_execution_sources looks at the status once more.
FinalizeIfSuccessful ==
    IF row.status \in {"completed", "not_submitted"} THEN FinalizeSources
                                                     ELSE UNCHANGED registry

Finalize(h) ==
    /\ run[h].pc = "finalize"
    /\ FinalizeIfSuccessful
    /\ Goto(h, "settle")
    /\ UNCHANGED <<discovery, discoveries, row, job, tick, sent, taken, builds,
                   lost, faults>>

ending == <<discovery, discoveries, job, run, sent, taken, builds, lost>>

\* The polls find that the submitted work has ended; verified outputs finalize
\* the sources in the same transaction, any other end in the tick's next one.
WorkEnds ==
    /\ tick = "idle"
    /\ taken
    /\ row.submission \in {"submitted", "uncertain"}
    /\ row.status \notin Terminal
    /\ \/ /\ row' = [row EXCEPT !.status = "completed"]
          /\ \/ FinalizeSources /\ UNCHANGED tick
             \/ tick' = "finalize" /\ UNCHANGED registry
       \/ /\ row' = [row EXCEPT !.status = "failed"]
          /\ tick' = "mark"
          /\ UNCHANGED registry
    /\ UNCHANGED <<ending, faults>>

TickConcludes ==
    /\ tick # "idle"
    /\ IF tick = "finalize" THEN FinalizeIfSuccessful ELSE MarkPending
    /\ tick' = "idle"
    /\ UNCHANGED <<ending, row, faults>>

TickDies ==
    /\ tick # "idle"
    /\ faults < MaxFaults
    /\ faults' = faults + 1
    /\ tick' = "idle"
    /\ UNCHANGED <<ending, row, registry>>

\* retry_execution: a failed execution whose submission cannot exist starts over
\* at its pinned manifest, or from the records.
RetriesSubmit ==
    row.phase = "submit" \/ (row.submission = "failed" /\ row.manifest # NoManifest)

Retry ==
    /\ row.status = "failed"
    /\ row.submission \notin Holds
    /\ RetriesSubmit => row.manifest # NoManifest
    /\ row.retries < MaxRetries
    /\ job.status = "done"
    /\ row' = [row EXCEPT !.status = "retrying", !.submission = "not_started",
                          !.phase = IF RetriesSubmit THEN "submit"
                                    ELSE "stage_and_manifest",
                          !.retries = @ + 1]
    /\ job' = [status |-> "queued", attempt |-> row.retries + 1, holder |-> NoHandler,
               leased |-> FALSE, submit |-> TRUE]
    /\ registry' = [registry EXCEPT !.pending = FALSE]
    /\ UNCHANGED <<discovery, discoveries, run, tick, sent, taken, builds, lost,
                   faults>>

----------------------------------------------------------------------------
HandlerStep(h) ==
    \/ Read(h) \/ BodyFails(h) \/ Check(h) \/ Select(h) \/ Resume(h) \/ Admit(h)
    \/ Start(h) \/ Active(h) \/ Stage(h) \/ Replay(h) \/ Evidence(h)
    \/ FinishUnsubmitted(h) \/ Pin(h) \/ Begin(h) \/ Answer(h)
    \/ Failing(h) \/ Fail(h) \/ Raise(h) \/ Finalize(h)

Next ==
    \/ Discover
    \/ LeaseExpires
    \/ \E h \in Handlers : Deliver(h) \/ Drop(h) \/ Settle(h) \/ HandlerStep(h)
    \/ Take \/ WorkEnds \/ TickConcludes \/ TickDies
    \/ Retry

Spec == Init /\ [][Next]_vars

----------------------------------------------------------------------------
\* Properties

\* A pinned manifest is built from all the selected records of one reading of
\* the archive metadata (select_execution_archive_metadata,
\* validate_staged_record_scope): a group the archive denied, or a discovery
\* that replaces the metadata meanwhile, never leaves it with a part.
WholeSelection ==
    row.manifest # NoManifest => \E v \in Versions : row.manifest.records = Selection(v)

\* What the backend was called with is the manifest the row and its digests
\* show, whatever crashed between artifacts, pin and submission; a handler that
\* outlives its lease may overwrite them.
SentIsPinned ==
    sent # NoManifest /\ ~lost => row.manifest = sent /\ row.evidence = sent

\* Once pinned a manifest is replayed, not built again, by every recovery and
\* retry (run_execute_body's pinned_manifest): no step of a handler, a tick or an
\* operator takes it from the row or puts another in its place.
PinnedIsReplayed ==
    [][row.manifest # NoManifest /\ ~lost => row'.manifest = row.manifest]_vars

\* A source's signature is consumed only by an execution that was prepared from
\* the metadata under that signature, although readiness, metadata and
\* finalization are reads of their own and discoveries come in between.
ConsumedIsDelivered ==
    [][registry'.consumed # registry.consumed =>
         /\ row'.manifest # NoManifest
         /\ row'.manifest.records = Selection(registry'.consumed)
         /\ row'.status = "completed" => sent.records = row'.manifest.records]_vars
=============================================================================
