--------------------------- MODULE PreparationProofs ---------------------------
(***************************************************************************)
(* Proofs about Preparation for every archive, every number of handlers,   *)
(* discoveries, retries and faults.  The argument: what a handler prepares *)
(* it has read under a version that the registry had between the admission *)
(* and now; and as long as no live handler has lost its lease one handler  *)
(* at most is at work, so what it has pinned nobody replaces.              *)
(***************************************************************************)
EXTENDS Preparation, FiniteSetTheorems, TLAPS

\* The selection of a version that the source has had since the admission
Within(records) ==
    \E v \in Versions :
        row.admitted <= v /\ v <= registry.version /\ records = Selection(v)

\* A discovery finds what the registry has, or something later.
DiscoveryInv ==
    /\ row.admitted <= registry.version
    /\ discovery.pc = "query" /\ discovery.query > 0 => registry.version <= discovery.of
    /\ discovery.pc = "persist" /\ discovery.found \in {"rows", "none"} =>
         registry.version <= discovery.of

Selecting == {"resume", "admit", "start", "active", "stage", "replay"}
Staging == {"start", "active", "stage"}
Pinning == {"evidence", "pin"}
Pinned == {"recheck", "begin", "calling"}

\* What a handler carries, at each of its steps
HandlerInv(h) ==
    /\ run[h].pc \in Selecting => Within(run[h].records)
    /\ run[h].manifest # NoManifest => Within(run[h].manifest.records)
    /\ run[h].pc \in {"resume", "replay"} => run[h].replay
    /\ run[h].pc \in Staging => ~ run[h].replay
    /\ run[h].pc \in Pinning \cup Pinned \/ (run[h].pc \in BodySteps /\ run[h].replay) =>
         run[h].manifest # NoManifest
    /\ run[h].pc \in Pinned => row.manifest # NoManifest

\* The row is never left without a manifest that was pinned or sent.
RowInv ==
    /\ row.manifest # NoManifest => Within(row.manifest.records)
    /\ sent # NoManifest => Within(sent.records) /\ row.manifest # NoManifest
    /\ taken => sent # NoManifest
    /\ row.status # "cancelled"
    /\ row.status = "completed" => taken
    /\ row.status = "not_submitted" => row.manifest # NoManifest

\* While no live handler has lost its lease: a handler at work owns the job ...
OwnerInv ==
    \A h \in Handlers : run[h].pc # "idle" => Owns(h) /\ job.leased

\* ... what it prepares is what the row has, if the row has anything ...
PreparedInv(h) ==
    /\ run[h].pc \in BodySteps \ Pinned =>
         row.manifest = IF run[h].replay THEN run[h].manifest ELSE NoManifest
    /\ run[h].pc = "pin" => row.evidence = run[h].manifest
    /\ run[h].pc \in Pinned => row.manifest = run[h].manifest /\ row.evidence = run[h].manifest
    /\ run[h].pc \in BodySteps \ {"calling"} => sent = NoManifest

\* ... and what was sent is pinned, and held.
PinnedInv ==
    /\ row.manifest # NoManifest => row.phase = "submit" \/ row.status = "not_submitted"
    /\ sent # NoManifest =>
         row.submission \in Holds /\ row.manifest = sent /\ row.evidence = sent

AloneInv == ~ lost => OwnerInv /\ (\A h \in Handlers : PreparedInv(h)) /\ PinnedInv

IInv ==
    /\ TypeOK
    /\ DiscoveryInv
    /\ \A h \in Handlers : HandlerInv(h)
    /\ RowInv
    /\ AloneInv

----------------------------------------------------------------------------
\* Types.

LEMMA Types ==
    ASSUME TypeOK
    PROVE  /\ row \in Row /\ row.status \in Status /\ row.phase \in Phase
           /\ row.submission \in SubmissionState
           /\ row.manifest \in Manifest \cup {NoManifest}
           /\ row.evidence \in Manifest \cup {NoManifest}
           /\ row.admitted \in Versions /\ row.retries \in 0..MaxRetries
           /\ registry \in Registry /\ registry.version \in Versions
           /\ discovery \in Discovery /\ discovery.of \in Versions
           /\ discovery.query \in 0..Len(Enrichments) /\ discovery.attempt \in 0..QueryRetries
           /\ job \in Job /\ job.attempt \in 0..MaxRetries /\ job.submit \in BOOLEAN
           /\ run \in [Handlers -> Handler]
           /\ sent \in Manifest \cup {NoManifest}
<1>1. /\ row \in Row /\ registry \in Registry /\ discovery \in Discovery /\ job \in Job
      /\ run \in [Handlers -> Handler] /\ sent \in Manifest \cup {NoManifest}
  BY DEF TypeOK
<1>2. /\ row.status \in Status /\ row.phase \in Phase
      /\ row.submission \in SubmissionState
      /\ row.manifest \in Manifest \cup {NoManifest}
      /\ row.evidence \in Manifest \cup {NoManifest}
      /\ row.admitted \in Versions /\ row.retries \in 0..MaxRetries
  <2> HIDE DEF Status, Phase, SubmissionState, Manifest, Versions
  <2> QED BY <1>1 DEF Row
<1>3. registry.version \in Versions
  BY <1>1 DEF Registry
<1>4. /\ discovery.of \in Versions
      /\ discovery.query \in 0..Len(Enrichments) /\ discovery.attempt \in 0..QueryRetries
  BY <1>1 DEF Discovery
<1>5. job.attempt \in 0..MaxRetries /\ job.submit \in BOOLEAN
  BY <1>1 DEF Job
<1> QED BY <1>1, <1>2, <1>3, <1>4, <1>5

LEMMA HandlerTypes ==
    ASSUME NEW g \in Handler
    PROVE  /\ g.pc \in {"idle", "read", "failing", "fail", "raise", "finalize", "settle"}
                         \cup BodySteps
           /\ g.attempt \in 0..MaxRetries /\ g.submit \in BOOLEAN /\ g.replay \in BOOLEAN
           /\ g.retrying \in BOOLEAN /\ g.records \in SUBSET Record
           /\ g.manifest \in Manifest \cup {NoManifest}
<1> HIDE DEF Record, Manifest, BodySteps
<1> QED BY DEF Handler

LEMMA SelectionTypes ==
    ASSUME NEW v \in Versions
    PROVE  Selection(v) \in SUBSET Record
<1>1. Content[v] \subseteq Identity
  BY DEF Identity
<1>2. Metadata(v) \subseteq Record
  BY <1>1 DEF Metadata, Record
<1> QED BY <1>2 DEF Selection

LEMMA ProofTypes ==
    ASSUME NEW records \in SUBSET Record
    PROVE  Proof(records) \in SUBSET Identity
<1>1. ASSUME NEW r \in records
      PROVE  [group |-> r.group, id |-> r.id] \in Identity
  <2>1. PICK i \in Identity, v \in Versions : r = [group |-> i.group, id |-> i.id, version |-> v]
    BY DEF Record
  <2>2. PICK w \in Versions : i \in Content[w]
    BY DEF Identity
  <2>3. i \in [group : Selected \cup {"other"}, id : Nat]
    BY <2>2, PreparationAssumption
  <2>4. r.group = i.group /\ r.id = i.id
    BY <2>1
  <2>5. [group |-> r.group, id |-> r.id] = i
    BY <2>3, <2>4
  <2> QED BY <2>5
<1> QED BY <1>1 DEF Proof

LEMMA BuildTypes ==
    /\ Cardinality(Builds) \in Nat
    /\ \A b \in 0..Cardinality(Builds) :
         b < Cardinality(Builds) => b + 1 \in Builds /\ b + 1 \in 0..Cardinality(Builds)
<1> DEFINE n == MaxRetries + MaxFaults + 1
<1>1. n \in Nat
  BY PreparationAssumption
<1>2. Cardinality(1..n) = n
  <2>1. IF 1 > n THEN Cardinality(1..n) = 0 ELSE Cardinality(1..n) = n - 1 + 1
    <3> HIDE DEF n
    <3> QED BY <1>1, FS_Interval
  <2>2. n - 1 + 1 = n /\ ~ (1 > n)
    BY PreparationAssumption
  <2> QED BY <2>1, <2>2
<1>3. Builds = 1..n
  BY DEF Builds
<1> HIDE DEF n
<1> QED BY <1>1, <1>2, <1>3

\* A manifest that a handler builds
LEMMA BuiltTypes ==
    ASSUME NEW records \in SUBSET Record, NEW b \in Builds
    PROVE  [records |-> records, proof |-> Proof(records), build |-> b] \in Manifest
<1>1. Proof(records) \in SUBSET Identity
  BY ProofTypes
<1> HIDE DEF Record, Identity, Builds, Proof
<1> QED BY <1>1 DEF Manifest

LEMMA IdleHandler ==
    /\ Idle \in Handler /\ Idle.pc = "idle" /\ Idle.manifest = NoManifest
    /\ "idle" \notin BodySteps
<1>1. 0 \in 0..MaxRetries
  BY PreparationAssumption
<1>2. {} \in SUBSET Record /\ NoManifest \in Manifest \cup {NoManifest} /\ "idle" \notin BodySteps
  BY DEF BodySteps
<1> HIDE DEF Record, Manifest, BodySteps
<1> QED BY <1>1, <1>2 DEF Idle, Handler

LEMMA IdleDiscovery ==
    /\ NoDiscovery \in Discovery /\ NoDiscovery.pc = "idle" /\ NoDiscovery.query = 0
    /\ NoDiscovery.found = "unchanged" /\ 1 \in Versions
<1>1. 0 \in 0..Len(Enrichments) /\ 0 \in 0..QueryRetries
  BY PreparationAssumption
<1>2. 1 \in Versions
  BY PreparationAssumption DEF Versions
<1> HIDE DEF Versions
<1> QED BY <1>1, <1>2 DEF NoDiscovery, Discovery, Findings

LEMMA InitStep == Init => IInv
<1> SUFFICES ASSUME Init PROVE IInv
  OBVIOUS
<1>1. /\ row \in Row /\ row.status = "pending" /\ row.admitted = 1 /\ row.manifest = NoManifest
  <2>1. /\ "pending" \in Status /\ "none" \in Phase /\ "not_started" \in SubmissionState
        /\ 1 \in Versions /\ 0 \in 0..MaxRetries
    BY PreparationAssumption, IdleDiscovery DEF Status, Phase, SubmissionState
  <2> HIDE DEF Status, Phase, SubmissionState, Versions, Manifest
  <2> QED BY <2>1 DEF Init, Row
<1>2. registry \in Registry /\ registry.version = 1
  <2>1. 0 \in 0..MaxVersion
    BY PreparationAssumption
  <2> HIDE DEF Versions
  <2> QED BY <2>1, IdleDiscovery DEF Init, Registry
<1>3. job \in Job
  <2>1. PICK submit \in BOOLEAN :
          job = [status |-> "queued", attempt |-> 0, holder |-> NoHandler,
                 leased |-> FALSE, submit |-> submit]
    BY DEF Init
  <2>2. 0 \in 0..MaxRetries
    BY PreparationAssumption
  <2> QED BY <2>1, <2>2 DEF Job
<1>4. /\ run \in [Handlers -> Handler] /\ \A h \in Handlers : run[h] = Idle
      /\ discovery = NoDiscovery /\ sent = NoManifest /\ taken = FALSE
      /\ tick = "idle" /\ builds = 0 /\ lost = FALSE /\ discoveries = 0 /\ faults = 0
  <2> HIDE DEF Idle, NoDiscovery
  <2> QED BY IdleHandler DEF Init
<1>5. TypeOK
  <2>1. builds \in 0..Cardinality(Builds)
    <3>1. Cardinality(Builds) \in Nat
      BY BuildTypes
    <3> HIDE DEF Builds
    <3> QED BY <1>4, <3>1
  <2>2. discoveries \in 0..MaxDiscoveries /\ faults \in 0..MaxFaults
    BY <1>4, PreparationAssumption
  <2>3. discovery \in Discovery
    <3> HIDE DEF Discovery, NoDiscovery
    <3> QED BY <1>4, IdleDiscovery
  <2> HIDE DEF Row, Registry, Job, Handler, Discovery, Manifest, Builds
  <2> QED BY <1>1, <1>2, <1>3, <1>4, <2>1, <2>2, <2>3 DEF TypeOK
<1>6. DiscoveryInv
  BY <1>1, <1>2, <1>4, IdleDiscovery DEF DiscoveryInv
<1>7. \A h \in Handlers : HandlerInv(h)
  <2> HIDE DEF Idle
  <2> QED BY <1>4, IdleHandler
         DEF HandlerInv, Selecting, Staging, Pinning, Pinned
<1>8. RowInv
  BY <1>1, <1>4 DEF RowInv
<1>9. AloneInv
  <2> HIDE DEF Idle
  <2> QED BY <1>1, <1>4, IdleHandler
         DEF AloneInv, OwnerInv, PreparedInv, PinnedInv, Pinned
<1> QED BY <1>5, <1>6, <1>7, <1>8, <1>9 DEF IInv

----------------------------------------------------------------------------
\* A step of one handler.

\* What was within the versions since the admission is so as they go on.
LEMMA WithinKept ==
    ASSUME TypeOK, registry'.version \in Versions, registry.version <= registry'.version,
           row'.admitted = row.admitted, NEW records, Within(records)
    PROVE  Within(records)'
<1>1. PICK v \in Versions :
        row.admitted <= v /\ v <= registry.version /\ records = Selection(v)
  BY DEF Within
<1>2. v <= registry'.version
  <2>1. v \in Int /\ registry.version \in Int /\ registry'.version \in Int
    BY Types DEF Versions
  <2> QED BY <1>1, <2>1
<1> QED BY <1>1, <1>2 DEF Within

\* While no lease is lost there is one handler at work.
LEMMA OneHandler ==
    ASSUME IInv, ~ lost, NEW h \in Handlers, NEW k \in Handlers,
           run[h].pc # "idle", run[k].pc # "idle"
    PROVE  h = k
BY DEF IInv, AloneInv, OwnerInv, Owns

LEMMA HandlerMoves ==
    ASSUME IInv, NEW h \in Handlers, run[h].pc # "idle", NEW g \in Handler,
           run' = [run EXCEPT ![h] = g], g.attempt = run[h].attempt,
           UNCHANGED <<discovery, discoveries, job, tick, taken, lost, faults>>,
           registry' \in Registry, registry'.version = registry.version,
           builds' \in 0..Cardinality(Builds), sent' \in Manifest \cup {NoManifest},
           row' \in Row, row'.admitted = row.admitted,
           row.manifest # NoManifest => row'.manifest # NoManifest,
           HandlerInv(h)', RowInv', ~ lost => PreparedInv(h)' /\ PinnedInv'
    PROVE  IInv'
<1>1. TypeOK /\ run \in [Handlers -> Handler]
  BY Types DEF IInv
<1>2. run' \in [Handlers -> Handler] /\ run'[h] = g /\ \A k \in Handlers : k # h => run'[k] = run[k]
  <2> HIDE DEF Handler
  <2> QED BY <1>1
<1>3. TypeOK'
  <2> HIDE DEF Row, Registry, Job, Handler, Discovery, Manifest
  <2> QED BY <1>1, <1>2 DEF TypeOK
<1>4. DiscoveryInv'
  BY DEF IInv, DiscoveryInv
<1>5. registry'.version \in Versions /\ registry.version <= registry'.version
  <2>1. registry.version \in Versions
    BY <1>1, Types
  <2> QED BY <2>1 DEF Versions
<1>6. ASSUME NEW k \in Handlers PROVE HandlerInv(k)'
  <2>1. CASE k = h
    BY <2>1
  <2>2. CASE k # h
    <3>1. run'[k] = run[k] /\ HandlerInv(k)
      BY <1>2, <2>2 DEF IInv
    <3>2. \A records : Within(records) => Within(records)'
      BY <1>1, <1>5, WithinKept
    <3> QED BY <3>1, <3>2 DEF HandlerInv
  <2> QED BY <2>1, <2>2
<1>7. AloneInv'
  <2> SUFFICES ASSUME ~ lost
               PROVE  OwnerInv' /\ (\A k \in Handlers : PreparedInv(k)') /\ PinnedInv'
    BY DEF AloneInv
  <2>1. \A k \in Handlers : k # h => run'[k].pc = "idle"
    BY <1>2, OneHandler
  <2>2. OwnerInv'
    <3>1. Owns(h) /\ job.leased
      BY DEF IInv, AloneInv, OwnerInv
    <3> QED BY <1>2, <2>1, <3>1 DEF OwnerInv, Owns
  <2>3. ASSUME NEW k \in Handlers PROVE PreparedInv(k)'
    <3>1. CASE k = h
      BY <3>1
    <3>2. CASE k # h
      BY <2>1, <3>2, IdleHandler DEF PreparedInv, Pinned
    <3> QED BY <3>1, <3>2
  <2> QED BY <2>2, <2>3
<1> QED BY <1>3, <1>4, <1>6, <1>7 DEF IInv

\* A handler that goes on with what it has, and one that has ended its body
Keeps(g, h, pc) ==
    /\ g.pc = pc /\ g.attempt = run[h].attempt /\ g.replay = run[h].replay
    /\ g.records = run[h].records /\ g.manifest = run[h].manifest

Leaves(g, h, pc) == g.pc = pc /\ g.attempt = run[h].attempt /\ g.manifest = NoManifest

Outside == {"idle", "read", "failing", "fail", "raise", "finalize", "settle"}

LEMMA LeavesBody ==
    ASSUME TypeOK, NEW h \in Handlers, NEW pc \in Outside
    PROVE  LET g == [Idle EXCEPT !.pc = pc, !.attempt = run[h].attempt]
           IN  g \in Handler /\ Leaves(g, h, pc)
<1>1. Idle \in Handler /\ Idle.manifest = NoManifest /\ run[h].attempt \in 0..MaxRetries
  <2>1. run[h] \in Handler
    BY Types
  <2> QED BY <2>1, IdleHandler, HandlerTypes
<1> HIDE DEF Idle, Record, Manifest, BodySteps
<1> QED BY <1>1 DEF Handler, Leaves, Outside

LEMMA KeepsOn ==
    ASSUME TypeOK, NEW h \in Handlers, NEW pc \in BodySteps
    PROVE  LET g == [run[h] EXCEPT !.pc = pc]
           IN  g \in Handler /\ Keeps(g, h, pc)
<1>1. run[h] \in Handler
  BY Types
<1> HIDE DEF Record, Manifest, BodySteps
<1> QED BY <1>1 DEF Handler, Keeps

LEMMA Gone ==
    ASSUME TypeOK, NEW h \in Handlers, NEW pc \in Outside \cup BodySteps, Goto(h, pc)
    PROVE  \E g \in Handler :
             /\ run' = [run EXCEPT ![h] = g]
             /\ IF pc \in BodySteps THEN Keeps(g, h, pc) ELSE Leaves(g, h, pc)
<1>1. run \in [Handlers -> Handler]
  BY Types
<1>2. CASE pc \in BodySteps
  <2> DEFINE g == [run[h] EXCEPT !.pc = pc]
  <2>1. run' = [run EXCEPT ![h] = g]
    BY <1>1, <1>2 DEF Goto
  <2>2. g \in Handler /\ Keeps(g, h, pc)
    BY <1>2, KeepsOn
  <2> HIDE DEF g
  <2> QED BY <1>2, <2>1, <2>2
<1>3. CASE pc \notin BodySteps
  <2> DEFINE g == [Idle EXCEPT !.pc = pc, !.attempt = run[h].attempt]
  <2>1. run' = [run EXCEPT ![h] = g]
    BY <1>1, <1>3 DEF Goto
  <2>2. g \in Handler /\ Leaves(g, h, pc)
    BY <1>3, LeavesBody
  <2> HIDE DEF g
  <2> QED BY <1>3, <2>1, <2>2
<1> QED BY <1>2, <1>3

\* Outside its body a handler carries nothing.
LEMMA LeavesNothing ==
    ASSUME TypeOK, NEW h \in Handlers, NEW pc \in Outside, NEW g \in Handler,
           run' = [run EXCEPT ![h] = g], Leaves(g, h, pc)
    PROVE  HandlerInv(h)' /\ PreparedInv(h)'
<1>1. run'[h].pc = pc /\ run'[h].manifest = NoManifest
  BY Types DEF Leaves
<1>2. pc \notin BodySteps /\ pc \notin Selecting /\ pc \notin Staging /\ pc \notin Pinning
      /\ pc \notin Pinned
  BY DEF Outside, BodySteps, Selecting, Staging, Pinning, Pinned
<1> HIDE DEF BodySteps, Selecting, Staging, Pinning, Pinned, Outside
<1>3. pc \notin {"resume", "replay"} /\ pc # "pin"
  BY DEF Outside
<1> QED BY <1>1, <1>2, <1>3 DEF HandlerInv, PreparedInv

\* A step of the handler alone
LEMMA HandlerAlone ==
    ASSUME IInv, NEW h \in Handlers, run[h].pc # "idle", NEW g \in Handler,
           run' = [run EXCEPT ![h] = g], g.attempt = run[h].attempt,
           UNCHANGED <<registry, discovery, discoveries, row, job, tick, sent, taken, lost, faults>>,
           builds' \in 0..Cardinality(Builds),
           HandlerInv(h)', ~ lost => PreparedInv(h)'
    PROVE  IInv'
<1>1. /\ registry' \in Registry /\ row' \in Row /\ sent' \in Manifest \cup {NoManifest}
      /\ registry'.version = registry.version /\ row'.admitted = row.admitted
  BY Types DEF IInv
<1>2. RowInv'
  BY DEF IInv, RowInv, Within
<1>3. ~ lost => PinnedInv'
  BY DEF IInv, AloneInv, PinnedInv
<1> QED BY <1>1, <1>2, <1>3, HandlerMoves

\* BodyFails, and the checks that end a body
LEMMA EndsBody ==
    ASSUME IInv, NEW h \in Handlers, run[h].pc # "idle", NEW pc \in Outside, Goto(h, pc),
           UNCHANGED <<registry, discovery, discoveries, row, job, tick, sent, taken, lost, faults,
                       builds>>
    PROVE  IInv'
<1>1. TypeOK
  BY DEF IInv
<1>2. pc \notin BodySteps
  BY DEF Outside, BodySteps
<1>3. PICK g \in Handler : run' = [run EXCEPT ![h] = g] /\ Leaves(g, h, pc)
  BY <1>1, <1>2, Gone
<1>4. HandlerInv(h)' /\ PreparedInv(h)'
  BY <1>1, <1>3, LeavesNothing
<1>5. g.attempt = run[h].attempt /\ builds' \in 0..Cardinality(Builds)
  BY <1>1, <1>3 DEF Leaves, TypeOK
<1> QED BY <1>3, <1>4, <1>5, HandlerAlone

\* A step within the body that leaves the row alone
LEMMA GoesOn ==
    ASSUME IInv, NEW h \in Handlers, run[h].pc \in BodySteps, NEW pc \in BodySteps, Goto(h, pc),
           UNCHANGED <<registry, discovery, discoveries, row, job, tick, sent, taken, lost, faults,
                       builds>>,
           run[h].pc \notin Pinned => pc \notin Pinned,
           pc \in Selecting => run[h].pc \in Selecting,
           pc \in {"resume", "replay"} => run[h].replay,
           pc \in Staging => ~ run[h].replay,
           pc \in Pinning => run[h].manifest # NoManifest,
           pc # "pin", run[h].pc # "calling",
           run[h].pc \in Pinned => pc \in Pinned
    PROVE  IInv'
<1>1. TypeOK /\ run \in [Handlers -> Handler] /\ HandlerInv(h)
  BY Types DEF IInv
<1>2. PICK g \in Handler : run' = [run EXCEPT ![h] = g] /\ Keeps(g, h, pc)
  BY <1>1, Gone
<1>3. /\ run'[h].pc = pc /\ run'[h].replay = run[h].replay
      /\ run'[h].records = run[h].records /\ run'[h].manifest = run[h].manifest
  BY <1>1, <1>2 DEF Keeps
<1>4. HandlerInv(h)'
  <2> HIDE DEF BodySteps, Selecting, Staging, Pinning, Pinned
  <2> QED BY <1>1, <1>3 DEF HandlerInv, Within
<1>5. ~ lost => PreparedInv(h)'
  <2> SUFFICES ASSUME ~ lost PROVE PreparedInv(h)'
    OBVIOUS
  <2>1. PreparedInv(h)
    BY DEF IInv, AloneInv
  <2> HIDE DEF BodySteps, Selecting, Staging, Pinning, Pinned
  <2> QED BY <1>3, <2>1 DEF PreparedInv
<1>6. g.attempt = run[h].attempt /\ builds' \in 0..Cardinality(Builds) /\ run[h].pc # "idle"
  BY <1>1, <1>2, IdleHandler DEF Keeps, TypeOK
<1> QED BY <1>2, <1>4, <1>5, <1>6, HandlerAlone

\* The steps that leave the row alone
LEMMA ReadStep == ASSUME IInv, NEW h \in Handlers, Read(h) PROVE IInv'
<1>1. /\ TypeOK /\ run \in [Handlers -> Handler] /\ run[h] \in Handler /\ HandlerInv(h)
      /\ run[h].pc = "read" /\ RowInv /\ builds' \in 0..Cardinality(Builds)
  BY Types DEF IInv, Read, TypeOK
<1>2. UNCHANGED <<registry, discovery, discoveries, row, job, tick, sent, taken, lost, faults,
                  builds>>
  BY DEF Read, preparing, discovering
<1>3. CASE row.status \in Terminal \/ row.submission \in Holds
  <2> DEFINE g == [run[h] EXCEPT !.pc = "settle"]
  <2>1. run' = [run EXCEPT ![h] = g]
    BY <1>1, <1>3 DEF Read
  <2>2. /\ g \in Handler /\ g.pc = "settle" /\ g.attempt = run[h].attempt
        /\ g.manifest = run[h].manifest
    <3> HIDE DEF Record, Manifest, BodySteps
    <3> QED BY <1>1 DEF Handler
  <2> HIDE DEF g
  <2>3. run'[h] = g
    BY <1>1, <2>1
  <2>4. HandlerInv(h)'
    BY <1>1, <1>2, <2>2, <2>3
       DEF HandlerInv, Within, BodySteps, Selecting, Staging, Pinning, Pinned
  <2>5. PreparedInv(h)'
    BY <2>2, <2>3 DEF PreparedInv, BodySteps, Pinned
  <2> QED BY <1>1, <1>2, <2>1, <2>2, <2>4, <2>5, HandlerAlone
<1>4. CASE ~ (row.status \in Terminal \/ row.submission \in Holds)
  <2> DEFINE manifest == IF Replays THEN row.manifest ELSE NoManifest
             retrying == (row.status = "retrying")
             g == [run[h] EXCEPT !.pc = "check", !.replay = Replays,
                                 !.retrying = retrying, !.manifest = manifest]
  <2>1. run' = [run EXCEPT ![h] = g]
    BY <1>1, <1>4 DEF Read
  <2>2. Replays \in BOOLEAN /\ retrying \in BOOLEAN /\ manifest \in Manifest \cup {NoManifest}
    BY <1>1, Types DEF Replays
  <2> HIDE DEF manifest, retrying
  <2>3. /\ g \in Handler /\ g.pc = "check" /\ g.attempt = run[h].attempt
        /\ g.manifest = manifest /\ g.replay = Replays
    <3>1. "check" \in BodySteps
      BY DEF BodySteps
    <3> HIDE DEF Record, Manifest, BodySteps, Replays
    <3> QED BY <1>1, <2>2, <3>1 DEF Handler
  <2> HIDE DEF g
  <2>4. run'[h] = g
    BY <1>1, <2>1
  <2>5. /\ manifest # NoManifest => manifest = row.manifest
        /\ Replays => manifest # NoManifest
    BY DEF manifest, Replays
  <2>6. HandlerInv(h)'
    <3>1. manifest # NoManifest => Within(manifest.records)
      BY <1>1, <2>5 DEF RowInv
    <3>2. run'[h].pc = "check" /\ run'[h].manifest = manifest /\ run'[h].replay = Replays
      BY <2>3, <2>4
    <3>3. "check" \notin Selecting \cup Staging \cup Pinning \cup Pinned
      BY DEF Selecting, Staging, Pinning, Pinned
    <3>4. \A records : Within(records) => Within(records)'
      BY <1>2 DEF Within
    <3> HIDE DEF Selecting, Staging, Pinning, Pinned, BodySteps, Replays
    <3> QED BY <2>5, <3>1, <3>2, <3>3, <3>4 DEF HandlerInv
  <2>7. ~ lost => PreparedInv(h)'
    <3> SUFFICES ASSUME ~ lost PROVE PreparedInv(h)'
      OBVIOUS
    <3>1. PinnedInv
      BY DEF IInv, AloneInv
    <3>2. sent = NoManifest
      BY <1>4, <3>1 DEF PinnedInv
    <3>3. ~ Replays => row.manifest = NoManifest
      BY <1>4, <3>1 DEF PinnedInv, Replays, Terminal
    <3>4. row'.manifest = IF run'[h].replay THEN run'[h].manifest ELSE NoManifest
      BY <1>2, <2>3, <2>4, <3>3 DEF manifest, Replays
    <3> QED BY <1>2, <2>3, <2>4, <3>2, <3>4 DEF PreparedInv, Pinned
  <2> QED BY <1>1, <1>2, <2>1, <2>3, <2>6, <2>7, HandlerAlone
<1> QED BY <1>3, <1>4

LEMMA BodyFailsStep == ASSUME IInv, NEW h \in Handlers, BodyFails(h) PROVE IInv'
<1>1. run[h].pc # "idle" /\ Goto(h, "failing")
  BY IdleHandler DEF BodyFails
<1>2. UNCHANGED <<registry, discovery, discoveries, row, job, tick, sent, taken, lost, faults,
                  builds>>
  BY DEF BodyFails, preparing, discovering
<1> QED BY <1>1, <1>2, EndsBody DEF Outside

LEMMA CheckStep == ASSUME IInv, NEW h \in Handlers, Check(h) PROVE IInv'
<1>1. run[h].pc = "check"
  BY DEF Check
<1>2. UNCHANGED <<registry, discovery, discoveries, row, job, tick, sent, taken, lost, faults,
                  builds>>
  BY DEF Check, preparing, discovering
<1>3. Goto(h, "select") \/ Goto(h, "failing")
  BY DEF Check
<1>4. CASE Goto(h, "select")
  BY <1>1, <1>2, <1>4, GoesOn DEF BodySteps, Selecting, Staging, Pinning, Pinned
<1>5. CASE Goto(h, "failing")
  BY <1>1, <1>2, <1>5, EndsBody DEF Outside
<1> QED BY <1>3, <1>4, <1>5

LEMMA SelectStep == ASSUME IInv, NEW h \in Handlers, Select(h) PROVE IInv'
<1>1. /\ TypeOK /\ run \in [Handlers -> Handler] /\ run[h] \in Handler /\ HandlerInv(h)
      /\ run[h].pc = "select" /\ builds' \in 0..Cardinality(Builds)
      /\ registry.version \in Versions
  BY Types DEF IInv, Select, TypeOK
<1>2. UNCHANGED <<registry, discovery, discoveries, row, job, tick, sent, taken, lost, faults,
                  builds>>
  BY DEF Select, preparing, discovering
<1>3. CASE Covered(registry.version)
  <2> DEFINE next == IF run[h].replay /\ run[h].retrying THEN "resume" ELSE "admit"
             records == Selection(registry.version)
             g == [run[h] EXCEPT !.pc = next, !.records = records]
  <2>1. run' = [run EXCEPT ![h] = g]
    BY <1>1, <1>3 DEF Select
  <2>2. /\ next \in {"resume", "admit"} /\ next \in BodySteps
        /\ next = "resume" => run[h].replay
        /\ records \in SUBSET Record
    BY <1>1, SelectionTypes DEF BodySteps
  <2>3. Within(records)
    <3>1. row.admitted <= registry.version /\ registry.version <= registry.version
      BY <1>1 DEF IInv, DiscoveryInv, Versions
    <3> QED BY <1>1, <3>1 DEF Within
  <2> HIDE DEF next, records
  <2>4. /\ g \in Handler /\ g.pc = next /\ g.attempt = run[h].attempt /\ g.records = records
        /\ g.manifest = run[h].manifest /\ g.replay = run[h].replay
    <3> HIDE DEF Record, Manifest, BodySteps
    <3> QED BY <1>1, <2>2 DEF Handler
  <2> HIDE DEF g
  <2>5. run'[h] = g
    BY <1>1, <2>1
  <2>6. HandlerInv(h)'
    <3>1. \A r : Within(r) => Within(r)'
      BY <1>2 DEF Within
    <3>2. /\ run[h].pc \in BodySteps
          /\ next \notin Staging \cup Pinning \cup Pinned /\ next # "replay"
      BY <1>1, <2>2 DEF BodySteps, Staging, Pinning, Pinned
    <3> HIDE DEF Selecting, Staging, Pinning, Pinned, BodySteps
    <3> QED BY <1>1, <2>2, <2>3, <2>4, <2>5, <3>1, <3>2 DEF HandlerInv
  <2>7. ~ lost => PreparedInv(h)'
    <3> SUFFICES ASSUME ~ lost PROVE PreparedInv(h)'
      OBVIOUS
    <3>1. PreparedInv(h)
      BY DEF IInv, AloneInv
    <3>2. /\ run[h].pc \in (BodySteps \ Pinned) \cap (BodySteps \ {"calling"})
          /\ next \in (BodySteps \ Pinned) /\ next # "pin"
      BY <1>1, <2>2 DEF BodySteps, Pinned
    <3> HIDE DEF Pinned, BodySteps
    <3> QED BY <1>2, <2>4, <2>5, <3>1, <3>2 DEF PreparedInv
  <2> QED BY <1>1, <1>2, <2>1, <2>4, <2>6, <2>7, HandlerAlone
<1>4. CASE ~ Covered(registry.version)
  <2>1. Goto(h, "failing")
    BY <1>1, <1>4 DEF Select, Goto, BodySteps
  <2> QED BY <1>1, <1>2, <2>1, EndsBody DEF Outside
<1> QED BY <1>3, <1>4

LEMMA AdmitStep == ASSUME IInv, NEW h \in Handlers, Admit(h) PROVE IInv'
<1>1. run[h].pc = "admit"
  BY DEF Admit
<1>2. UNCHANGED <<registry, discovery, discoveries, row, job, tick, sent, taken, lost, faults,
                  builds>>
  BY DEF Admit, preparing, discovering
<1>3. CASE run[h].replay
  <2>1. Goto(h, "replay")
    BY <1>3 DEF Admit
  <2> QED BY <1>1, <1>2, <1>3, <2>1, GoesOn DEF BodySteps, Selecting, Staging, Pinning, Pinned
<1>4. CASE ~ run[h].replay
  <2>1. Goto(h, "start")
    BY <1>4 DEF Admit
  <2> QED BY <1>1, <1>2, <1>4, <2>1, GoesOn DEF BodySteps, Selecting, Staging, Pinning, Pinned
<1> QED BY <1>3, <1>4

LEMMA ActiveStep == ASSUME IInv, NEW h \in Handlers, Active(h) PROVE IInv'
<1>1. run[h].pc \in {"active", "recheck"} /\ HandlerInv(h)
  BY DEF Active, IInv
<1>2. UNCHANGED <<registry, discovery, discoveries, row, job, tick, sent, taken, lost, faults,
                  builds>>
  BY DEF Active, preparing, discovering
<1>3. \/ Goto(h, "failing")
      \/ run[h].pc = "active" /\ Goto(h, "stage")
      \/ run[h].pc = "recheck" /\ Goto(h, "begin")
  BY DEF Active
<1>4. CASE Goto(h, "failing")
  BY <1>1, <1>2, <1>4, EndsBody DEF Outside
<1>5. CASE run[h].pc = "active" /\ Goto(h, "stage")
  <2>1. ~ run[h].replay
    BY <1>1, <1>5 DEF HandlerInv, Staging
  <2> QED BY <1>2, <1>5, <2>1, GoesOn DEF BodySteps, Selecting, Staging, Pinning, Pinned
<1>6. CASE run[h].pc = "recheck" /\ Goto(h, "begin")
  BY <1>2, <1>6, GoesOn DEF BodySteps, Selecting, Staging, Pinning, Pinned
<1> QED BY <1>3, <1>4, <1>5, <1>6

LEMMA ReplayStep == ASSUME IInv, NEW h \in Handlers, Replay(h) PROVE IInv'
<1>1. run[h].pc = "replay" /\ HandlerInv(h)
  BY DEF Replay, IInv
<1>2. UNCHANGED <<registry, discovery, discoveries, row, job, tick, sent, taken, lost, faults,
                  builds>>
  BY DEF Replay, preparing, discovering
<1>3. Goto(h, "evidence") \/ Goto(h, "failing")
  BY DEF Replay
<1>4. CASE Goto(h, "failing")
  BY <1>1, <1>2, <1>4, EndsBody DEF Outside
<1>5. CASE Goto(h, "evidence")
  <2>1. run[h].manifest # NoManifest
    BY <1>1 DEF HandlerInv, BodySteps
  <2> QED BY <1>1, <1>2, <1>5, <2>1, GoesOn DEF BodySteps, Selecting, Staging, Pinning, Pinned
<1> QED BY <1>3, <1>4, <1>5

LEMMA StageStep == ASSUME IInv, NEW h \in Handlers, Stage(h) PROVE IInv'
<1>1. /\ TypeOK /\ run \in [Handlers -> Handler] /\ run[h] \in Handler /\ HandlerInv(h)
      /\ run[h].pc = "stage" /\ builds \in 0..Cardinality(Builds)
      /\ builds < Cardinality(Builds)
  BY Types DEF IInv, Stage, TypeOK
<1>2. UNCHANGED <<registry, discovery, discoveries, row, job, tick, sent, taken, lost, faults>>
  BY DEF Stage, preparing, discovering
<1>3. PICK skipped \in SUBSET Selected :
        LET records == {r \in run[h].records : r.group \notin skipped}
            built == [records |-> records, proof |-> Proof(run[h].records),
                      build |-> builds + 1]
        IN IF StagesAll(records, skipped)
             THEN /\ builds' = builds + 1
                  /\ run' = [run EXCEPT ![h] = [@ EXCEPT !.pc = "evidence",
                                                        !.manifest = built]]
             ELSE Goto(h, "failing") /\ UNCHANGED builds
  BY DEF Stage
<1>4. CASE skipped # {}
  <2>1. Goto(h, "failing") /\ UNCHANGED builds
    BY <1>3, <1>4 DEF StagesAll
  <2> QED BY <1>1, <1>2, <2>1, EndsBody DEF Outside
<1>5. CASE skipped = {}
  <2> DEFINE records == run[h].records
             built == [records |-> records, proof |-> Proof(records), build |-> builds + 1]
             g == [run[h] EXCEPT !.pc = "evidence", !.manifest = built]
  <2>1. {r \in records : r.group \notin skipped} = records
    BY <1>5
  <2>2. builds' = builds + 1 /\ run' = [run EXCEPT ![h] = g]
    <3> HIDE DEF Proof
    <3> QED BY <1>1, <1>3, <1>5, <2>1 DEF StagesAll
  <2>3. built \in Manifest /\ built # NoManifest /\ builds' \in 0..Cardinality(Builds)
    <3>1. builds + 1 \in Builds /\ builds + 1 \in 0..Cardinality(Builds)
      <4> HIDE DEF Builds
      <4> QED BY <1>1, BuildTypes
    <3>2. records \in SUBSET Record
      BY <1>1, HandlerTypes
    <3>3. built \in Manifest
      <4> HIDE DEF Builds, Record, Proof
      <4> QED BY <3>1, <3>2, BuiltTypes
    <3> HIDE DEF built, Builds, Manifest
    <3> QED BY <2>2, <3>1, <3>3, PreparationAssumption
  <2>4. built.records = records
    OBVIOUS
  <2> HIDE DEF built
  <2>5. /\ g \in Handler /\ g.pc = "evidence" /\ g.attempt = run[h].attempt
        /\ g.records = run[h].records /\ g.manifest = built /\ g.replay = run[h].replay
    <3>1. "evidence" \in BodySteps
      BY DEF BodySteps
    <3> HIDE DEF Record, Manifest, BodySteps
    <3> QED BY <1>1, <2>3, <3>1 DEF Handler
  <2> HIDE DEF g
  <2>6. run'[h] = g
    BY <1>1, <2>2
  <2>7. HandlerInv(h)'
    <3>1. Within(built.records) /\ \A r : Within(r) => Within(r)'
      BY <1>1, <1>2, <2>4 DEF HandlerInv, Selecting, Within
    <3>2. "evidence" \notin Selecting \cup Staging \cup Pinned /\ "evidence" \in BodySteps
      BY DEF Selecting, Staging, Pinned, BodySteps
    <3> HIDE DEF Selecting, Staging, Pinning, Pinned, BodySteps
    <3> QED BY <2>3, <2>5, <2>6, <3>1, <3>2 DEF HandlerInv
  <2>8. ~ lost => PreparedInv(h)'
    <3> SUFFICES ASSUME ~ lost PROVE PreparedInv(h)'
      OBVIOUS
    <3>1. PreparedInv(h) /\ ~ run[h].replay
      BY <1>1 DEF IInv, AloneInv, HandlerInv, Staging
    <3>2. row.manifest = NoManifest /\ sent = NoManifest
      BY <1>1, <3>1 DEF PreparedInv, BodySteps, Pinned
    <3> QED BY <1>2, <2>5, <2>6, <3>1, <3>2 DEF PreparedInv, BodySteps, Pinned
  <2> QED BY <1>1, <1>2, <2>2, <2>3, <2>5, <2>7, <2>8, HandlerAlone
<1> QED BY <1>4, <1>5

----------------------------------------------------------------------------
\* The steps that write the row.

LEMMA GoneOn ==
    ASSUME TypeOK, NEW h \in Handlers, NEW pc \in BodySteps, Goto(h, pc)
    PROVE  /\ run'[h].pc = pc /\ run'[h].replay = run[h].replay
           /\ run'[h].records = run[h].records /\ run'[h].manifest = run[h].manifest
<1>1. PICK g \in Handler : run' = [run EXCEPT ![h] = g] /\ Keeps(g, h, pc)
  BY Gone
<1> QED BY <1>1, Types DEF Keeps

LEMMA RowMoves ==
    ASSUME IInv, NEW h \in Handlers, run[h].pc # "idle", NEW pc \in Outside \cup BodySteps,
           Goto(h, pc),
           UNCHANGED <<registry, discovery, discoveries, job, tick, taken, lost, faults, builds>>,
           sent' \in Manifest \cup {NoManifest}, row' \in Row, row'.admitted = row.admitted,
           row.manifest # NoManifest => row'.manifest # NoManifest,
           RowInv', ~ lost => PinnedInv',
           pc \in BodySteps => HandlerInv(h)' /\ (~ lost => PreparedInv(h)')
    PROVE  IInv'
<1>1. TypeOK
  BY DEF IInv
<1>2. PICK g \in Handler :
        /\ run' = [run EXCEPT ![h] = g]
        /\ IF pc \in BodySteps THEN Keeps(g, h, pc) ELSE Leaves(g, h, pc)
  BY <1>1, Gone
<1>3. HandlerInv(h)' /\ (~ lost => PreparedInv(h)')
  <2>1. CASE pc \in BodySteps
    BY <2>1
  <2>2. CASE pc \notin BodySteps
    BY <1>1, <1>2, <2>2, LeavesNothing
  <2> QED BY <2>1, <2>2
<1>4. g.attempt = run[h].attempt
  BY <1>2 DEF Keeps, Leaves
<1>5. /\ registry' \in Registry /\ registry'.version = registry.version
      /\ builds' \in 0..Cardinality(Builds)
  BY <1>1 DEF TypeOK
<1> QED BY <1>2, <1>3, <1>4, <1>5, HandlerMoves

LEMMA StillWithin ==
    ASSUME registry' = registry, row'.admitted = row.admitted
    PROVE  \A records : Within(records) => Within(records)'
BY DEF Within

LEMMA Patches ==
    ASSUME TypeOK, NEW next \in Status, NEW phase \in Phase,
           NEW manifest \in Manifest \cup {NoManifest}, LedgerPatch(next, phase, manifest)
    PROVE  /\ row' \in Row /\ row'.admitted = row.admitted
           /\ row'.status = IF row.status \in LockedTerminal THEN row.status ELSE next
           /\ row'.phase = phase /\ row'.manifest = manifest
           /\ row'.evidence = row.evidence /\ row'.submission = row.submission
<1>1. row \in Row /\ row.status \in Status
  BY Types
<1> HIDE DEF Status, Phase, SubmissionState, Manifest, Versions, LockedTerminal
<1> QED BY <1>1 DEF Row, LedgerPatch

LEMMA LedgerRefusal ==
    ASSUME IInv, NEW h \in Handlers, run[h].pc # "idle", NEW pc \in Outside, Goto(h, pc),
           UNCHANGED row, UNCHANGED <<builds, preparing>>
    PROVE  IInv'
BY EndsBody DEF preparing, discovering

LEMMA ResumeStep == ASSUME IInv, NEW h \in Handlers, Resume(h) PROVE IInv'
<1>1. /\ TypeOK /\ HandlerInv(h) /\ RowInv /\ run[h].pc = "resume" /\ run[h].pc # "idle"
      /\ row.manifest \in Manifest \cup {NoManifest} /\ sent \in Manifest \cup {NoManifest}
  BY Types DEF IInv, Resume
<1>2. UNCHANGED <<builds, preparing>>
  BY DEF Resume, LedgerStep
<1>3. CASE LedgerRefuses("running")
  <2>1. Goto(h, "failing") /\ UNCHANGED row
    BY <1>3 DEF Resume, LedgerStep
  <2> QED BY <1>1, <1>2, <2>1, LedgerRefusal DEF Outside
<1>4. CASE ~ LedgerRefuses("running")
  <2>1. Goto(h, "admit") /\ LedgerPatch("running", "submit", row.manifest)
    BY <1>4 DEF Resume, LedgerStep
  <2>2. UNCHANGED <<registry, discovery, discoveries, job, tick, sent, taken, lost, faults, builds>>
    BY <1>2 DEF preparing, discovering
  <2>3. "admit" \in BodySteps /\ "admit" \in Outside \cup BodySteps
    BY DEF BodySteps
  <2>4. /\ row' \in Row /\ row'.admitted = row.admitted
        /\ row'.status = IF row.status \in LockedTerminal THEN row.status ELSE "running"
        /\ row'.phase = "submit" /\ row'.manifest = row.manifest
        /\ row'.evidence = row.evidence /\ row'.submission = row.submission
    <3>1. "running" \in Status /\ "submit" \in Phase
      BY DEF Status, Phase
    <3> QED BY <1>1, <2>1, <3>1, Patches
  <2>5. /\ run'[h].pc = "admit" /\ run'[h].replay = run[h].replay
        /\ run'[h].records = run[h].records /\ run'[h].manifest = run[h].manifest
    BY <1>1, <2>1, <2>3, GoneOn
  <2>6. \A records : Within(records) => Within(records)'
    BY <2>2, <2>4, StillWithin
  <2>7. RowInv'
    BY <1>1, <2>2, <2>4, <2>6 DEF RowInv, LockedTerminal
  <2>8. HandlerInv(h)'
    BY <1>1, <2>4, <2>5, <2>6
       DEF HandlerInv, BodySteps, Selecting, Staging, Pinning, Pinned
  <2>9. ~ lost => PinnedInv' /\ PreparedInv(h)'
    <3> SUFFICES ASSUME ~ lost PROVE PinnedInv' /\ PreparedInv(h)'
      OBVIOUS
    <3>1. PinnedInv /\ PreparedInv(h)
      BY DEF IInv, AloneInv
    <3>2. PinnedInv'
      BY <2>2, <2>4, <3>1 DEF PinnedInv
    <3>3. PreparedInv(h)'
      BY <1>1, <2>2, <2>4, <2>5, <3>1 DEF PreparedInv, BodySteps, Pinned
    <3> QED BY <3>2, <3>3
  <2> QED BY <1>1, <2>1, <2>2, <2>3, <2>4, <2>7, <2>8, <2>9, RowMoves
<1> QED BY <1>3, <1>4

LEMMA StartStep == ASSUME IInv, NEW h \in Handlers, Start(h) PROVE IInv'
<1>1. /\ TypeOK /\ HandlerInv(h) /\ RowInv /\ run[h].pc = "start" /\ run[h].pc # "idle"
      /\ row.manifest \in Manifest \cup {NoManifest} /\ sent \in Manifest \cup {NoManifest}
  BY Types DEF IInv, Start
<1>2. UNCHANGED <<builds, preparing>>
  BY DEF Start, LedgerStep
<1>3. CASE LedgerRefuses("running")
  <2>1. Goto(h, "failing") /\ UNCHANGED row
    BY <1>3 DEF Start, LedgerStep
  <2> QED BY <1>1, <1>2, <2>1, LedgerRefusal DEF Outside
<1>4. CASE ~ LedgerRefuses("running")
  <2>1. Goto(h, "active") /\ LedgerPatch("running", "stage_and_manifest", row.manifest)
    BY <1>4 DEF Start, LedgerStep
  <2>2. UNCHANGED <<registry, discovery, discoveries, job, tick, sent, taken, lost, faults, builds>>
    BY <1>2 DEF preparing, discovering
  <2>3. "active" \in BodySteps /\ "active" \in Outside \cup BodySteps
    BY DEF BodySteps
  <2>4. /\ row' \in Row /\ row'.admitted = row.admitted
        /\ row'.status = IF row.status \in LockedTerminal THEN row.status ELSE "running"
        /\ row'.phase = "stage_and_manifest" /\ row'.manifest = row.manifest
        /\ row'.evidence = row.evidence /\ row'.submission = row.submission
    <3>1. "running" \in Status /\ "stage_and_manifest" \in Phase
      BY DEF Status, Phase
    <3> QED BY <1>1, <2>1, <3>1, Patches
  <2>5. /\ run'[h].pc = "active" /\ run'[h].replay = run[h].replay
        /\ run'[h].records = run[h].records /\ run'[h].manifest = run[h].manifest
    BY <1>1, <2>1, <2>3, GoneOn
  <2>6. \A records : Within(records) => Within(records)'
    BY <2>2, <2>4, StillWithin
  <2>7. RowInv'
    BY <1>1, <2>2, <2>4, <2>6 DEF RowInv, LockedTerminal
  <2>8. HandlerInv(h)'
    BY <1>1, <2>4, <2>5, <2>6
       DEF HandlerInv, BodySteps, Selecting, Staging, Pinning, Pinned
  <2>9. ~ lost => PinnedInv' /\ PreparedInv(h)'
    <3> SUFFICES ASSUME ~ lost PROVE PinnedInv' /\ PreparedInv(h)'
      OBVIOUS
    <3>1. PreparedInv(h) /\ ~ run[h].replay
      BY <1>1 DEF IInv, AloneInv, HandlerInv, Staging
    <3>2. row.manifest = NoManifest /\ sent = NoManifest
      BY <1>1, <3>1 DEF PreparedInv, BodySteps, Pinned
    <3>3. PinnedInv'
      BY <2>2, <2>4, <3>2 DEF PinnedInv
    <3>4. PreparedInv(h)'
      BY <1>1, <2>2, <2>4, <2>5, <3>1, <3>2 DEF PreparedInv, BodySteps, Pinned
    <3> QED BY <3>3, <3>4
  <2> QED BY <1>1, <2>1, <2>2, <2>3, <2>4, <2>7, <2>8, <2>9, RowMoves
<1> QED BY <1>3, <1>4

LEMMA FinishUnsubmittedStep == ASSUME IInv, NEW h \in Handlers, FinishUnsubmitted(h) PROVE IInv'
<1>1. /\ TypeOK /\ HandlerInv(h) /\ RowInv /\ run[h].pc = "pin" /\ run[h].pc # "idle"
      /\ run[h].manifest \in Manifest \cup {NoManifest} /\ sent \in Manifest \cup {NoManifest}
  BY Types, HandlerTypes DEF IInv, FinishUnsubmitted
<1>2. UNCHANGED <<builds, preparing>>
  BY DEF FinishUnsubmitted, LedgerStep
<1>3. CASE LedgerRefuses("not_submitted")
  <2>1. Goto(h, "failing") /\ UNCHANGED row
    BY <1>3 DEF FinishUnsubmitted, LedgerStep
  <2> QED BY <1>1, <1>2, <2>1, LedgerRefusal DEF Outside
<1>4. CASE ~ LedgerRefuses("not_submitted")
  <2>1. Goto(h, "finalize") /\ LedgerPatch("not_submitted", "none", run[h].manifest)
    BY <1>4 DEF FinishUnsubmitted, LedgerStep
  <2>2. UNCHANGED <<registry, discovery, discoveries, job, tick, sent, taken, lost, faults, builds>>
    BY <1>2 DEF preparing, discovering
  <2>3. "finalize" \notin BodySteps /\ "finalize" \in Outside \cup BodySteps
    BY DEF BodySteps, Outside
  <2>4. /\ row' \in Row /\ row'.admitted = row.admitted
        /\ row'.status = IF row.status \in LockedTerminal THEN row.status ELSE "not_submitted"
        /\ row'.phase = "none" /\ row'.manifest = run[h].manifest
        /\ row'.evidence = row.evidence /\ row'.submission = row.submission
    <3>1. "not_submitted" \in Status /\ "none" \in Phase
      BY DEF Status, Phase
    <3> QED BY <1>1, <2>1, <3>1, Patches
  <2>5. run[h].manifest # NoManifest /\ Within(run[h].manifest.records)
    BY <1>1 DEF HandlerInv, Pinning
  <2>6. \A records : Within(records) => Within(records)'
    BY <2>2, <2>4, StillWithin
  <2>7. RowInv'
    BY <1>1, <2>2, <2>4, <2>5, <2>6 DEF RowInv, LockedTerminal
  <2>8. ~ lost => PinnedInv'
    <3> SUFFICES ASSUME ~ lost PROVE PinnedInv'
      OBVIOUS
    <3>1. PreparedInv(h)
      BY DEF IInv, AloneInv
    <3>2. sent = NoManifest
      BY <1>1, <3>1 DEF PreparedInv, BodySteps
    <3>3. row.status \notin LockedTerminal
      BY <1>1, <3>2 DEF RowInv, LockedTerminal
    <3> QED BY <2>2, <2>4, <3>2, <3>3 DEF PinnedInv
  <2> QED BY <1>1, <2>1, <2>2, <2>3, <2>4, <2>5, <2>7, <2>8, RowMoves
<1> QED BY <1>3, <1>4

LEMMA FailStep == ASSUME IInv, NEW h \in Handlers, Fail(h) PROVE IInv'
<1>1. /\ TypeOK /\ RowInv /\ run[h].pc = "fail" /\ run[h].pc # "idle"
      /\ row.manifest \in Manifest \cup {NoManifest} /\ sent \in Manifest \cup {NoManifest}
      /\ row.phase \in Phase
  BY Types DEF IInv, Fail
<1>2. UNCHANGED <<builds, preparing>>
  BY DEF Fail
<1>3. CASE LedgerRefuses("failed")
  <2>1. Goto(h, "settle") /\ UNCHANGED row
    BY <1>3 DEF Fail
  <2> QED BY <1>1, <1>2, <2>1, LedgerRefusal DEF Outside
<1>4. CASE ~ LedgerRefuses("failed")
  <2>1. Goto(h, "raise") /\ LedgerPatch("failed", row.phase, row.manifest)
    BY <1>4 DEF Fail
  <2>2. UNCHANGED <<registry, discovery, discoveries, job, tick, sent, taken, lost, faults, builds>>
    BY <1>2 DEF preparing, discovering
  <2>3. "raise" \notin BodySteps /\ "raise" \in Outside \cup BodySteps
    BY DEF BodySteps, Outside
  <2>4. /\ row' \in Row /\ row'.admitted = row.admitted
        /\ row'.status = IF row.status \in LockedTerminal THEN row.status ELSE "failed"
        /\ row'.phase = row.phase /\ row'.manifest = row.manifest
        /\ row'.evidence = row.evidence /\ row'.submission = row.submission
    <3>1. "failed" \in Status
      BY DEF Status
    <3> QED BY <1>1, <2>1, <3>1, Patches
  <2>5. row.status # "not_submitted"
    BY <1>4 DEF LedgerRefuses, Allows, LockedTerminal
  <2>6. \A records : Within(records) => Within(records)'
    BY <2>2, <2>4, StillWithin
  <2>7. RowInv'
    BY <1>1, <2>2, <2>4, <2>6 DEF RowInv, LockedTerminal
  <2>8. ~ lost => PinnedInv'
    <3> SUFFICES ASSUME ~ lost PROVE PinnedInv'
      OBVIOUS
    <3>1. PinnedInv
      BY DEF IInv, AloneInv
    <3> QED BY <2>2, <2>4, <2>5, <3>1 DEF PinnedInv
  <2> QED BY <1>1, <2>1, <2>2, <2>3, <2>4, <2>7, <2>8, RowMoves
<1> QED BY <1>3, <1>4

LEMMA EvidenceStep == ASSUME IInv, NEW h \in Handlers, Evidence(h) PROVE IInv'
<1>1. /\ TypeOK /\ HandlerInv(h) /\ RowInv /\ run[h].pc = "evidence" /\ run[h].pc # "idle"
      /\ run[h].manifest \in Manifest \cup {NoManifest} /\ sent \in Manifest \cup {NoManifest}
      /\ row \in Row
  BY Types, HandlerTypes DEF IInv, Evidence
<1>2. UNCHANGED <<registry, discovery, discoveries, job, tick, sent, taken, lost, faults, builds>>
  BY DEF Evidence, preparing, discovering
<1>3. Goto(h, "pin") /\ "pin" \in BodySteps /\ "pin" \in Outside \cup BodySteps
  BY DEF Evidence, BodySteps
<1>4. /\ row' \in Row /\ row'.admitted = row.admitted /\ row'.status = row.status
      /\ row'.phase = row.phase /\ row'.manifest = row.manifest
      /\ row'.submission = row.submission /\ row'.evidence = run[h].manifest
  <2>1. row' = [row EXCEPT !.evidence = run[h].manifest]
    BY DEF Evidence
  <2> HIDE DEF Status, Phase, SubmissionState, Manifest, Versions
  <2> QED BY <1>1, <2>1 DEF Row
<1>5. /\ run'[h].pc = "pin" /\ run'[h].replay = run[h].replay
      /\ run'[h].records = run[h].records /\ run'[h].manifest = run[h].manifest
  BY <1>1, <1>3, GoneOn
<1>6. \A records : Within(records) => Within(records)'
  BY <1>2, <1>4, StillWithin
<1>7. RowInv'
  BY <1>1, <1>2, <1>4, <1>6 DEF RowInv
<1>8. HandlerInv(h)'
  BY <1>1, <1>4, <1>5, <1>6
     DEF HandlerInv, BodySteps, Selecting, Staging, Pinning, Pinned
<1>9. ~ lost => PinnedInv' /\ PreparedInv(h)'
  <2> SUFFICES ASSUME ~ lost PROVE PinnedInv' /\ PreparedInv(h)'
    OBVIOUS
  <2>1. PinnedInv /\ PreparedInv(h)
    BY DEF IInv, AloneInv
  <2>2. sent = NoManifest
    BY <1>1, <2>1 DEF PreparedInv, BodySteps
  <2>3. PinnedInv'
    BY <1>2, <1>4, <2>1, <2>2 DEF PinnedInv
  <2>4. PreparedInv(h)'
    BY <1>1, <1>2, <1>4, <1>5, <2>1 DEF PreparedInv, BodySteps, Pinned
  <2> QED BY <2>3, <2>4
<1> QED BY <1>1, <1>2, <1>3, <1>4, <1>7, <1>8, <1>9, RowMoves

LEMMA PinStep == ASSUME IInv, NEW h \in Handlers, Pin(h) PROVE IInv'
<1>1. /\ TypeOK /\ HandlerInv(h) /\ RowInv /\ run[h].pc = "pin" /\ run[h].pc # "idle"
      /\ run[h].manifest \in Manifest \cup {NoManifest} /\ sent \in Manifest \cup {NoManifest}
      /\ row \in Row
  BY Types, HandlerTypes DEF IInv, Pin
<1>2. UNCHANGED <<registry, discovery, discoveries, job, tick, sent, taken, lost, faults, builds>>
  BY DEF Pin, preparing, discovering
<1>3. Goto(h, "recheck") /\ "recheck" \in BodySteps /\ "recheck" \in Outside \cup BodySteps
  BY DEF Pin, BodySteps
<1>4. /\ row' \in Row /\ row'.admitted = row.admitted /\ row'.status = row.status
      /\ row'.phase = "submit" /\ row'.manifest = run[h].manifest
      /\ row'.submission = row.submission /\ row'.evidence = row.evidence
  <2>1. row' = [row EXCEPT !.phase = "submit", !.manifest = run[h].manifest]
    BY DEF Pin
  <2>2. "submit" \in Phase
    BY DEF Phase
  <2> HIDE DEF Status, Phase, SubmissionState, Manifest, Versions
  <2> QED BY <1>1, <2>1, <2>2 DEF Row
<1>5. /\ run'[h].pc = "recheck" /\ run'[h].replay = run[h].replay
      /\ run'[h].records = run[h].records /\ run'[h].manifest = run[h].manifest
  BY <1>1, <1>3, GoneOn
<1>6. \A records : Within(records) => Within(records)'
  BY <1>2, <1>4, StillWithin
<1>7. run[h].manifest # NoManifest /\ Within(run[h].manifest.records)
  BY <1>1 DEF HandlerInv, Pinning
<1>8. RowInv'
  BY <1>1, <1>2, <1>4, <1>6, <1>7 DEF RowInv
<1>9. HandlerInv(h)'
  BY <1>1, <1>4, <1>5, <1>6, <1>7
     DEF HandlerInv, BodySteps, Selecting, Staging, Pinning, Pinned
<1>10. ~ lost => PinnedInv' /\ PreparedInv(h)'
  <2> SUFFICES ASSUME ~ lost PROVE PinnedInv' /\ PreparedInv(h)'
    OBVIOUS
  <2>1. PreparedInv(h)
    BY DEF IInv, AloneInv
  <2>2. sent = NoManifest /\ row.evidence = run[h].manifest
    BY <1>1, <2>1 DEF PreparedInv, BodySteps
  <2>3. PinnedInv'
    BY <1>2, <1>4, <2>2 DEF PinnedInv
  <2>4. PreparedInv(h)'
    BY <1>2, <1>4, <1>5, <2>2 DEF PreparedInv, BodySteps, Pinned
  <2> QED BY <2>3, <2>4
<1> QED BY <1>1, <1>2, <1>3, <1>4, <1>7, <1>8, <1>9, <1>10, RowMoves

LEMMA BeginStep == ASSUME IInv, NEW h \in Handlers, Begin(h) PROVE IInv'
<1>1. /\ TypeOK /\ HandlerInv(h) /\ RowInv /\ run[h].pc = "begin" /\ run[h].pc # "idle"
      /\ run[h].manifest \in Manifest \cup {NoManifest} /\ row \in Row
  BY Types, HandlerTypes DEF IInv, Begin
<1>2. UNCHANGED <<registry, discovery, discoveries, job, tick, taken, lost, faults, builds>>
  BY DEF Begin, discovering
<1>3. CASE row.status \in Terminal \/ row.submission \in Holds
  <2>1. Goto(h, "settle") /\ UNCHANGED <<row, sent>>
    BY <1>3 DEF Begin
  <2> QED BY <1>1, <1>2, <2>1, EndsBody DEF Outside
<1>4. CASE ~ (row.status \in Terminal \/ row.submission \in Holds)
  <2>1. /\ row' = [row EXCEPT !.submission = "in_flight"]
        /\ sent' = run[h].manifest /\ Goto(h, "calling")
    BY <1>4 DEF Begin
  <2>2. "calling" \in BodySteps /\ "calling" \in Outside \cup BodySteps
    BY DEF BodySteps
  <2>3. /\ row' \in Row /\ row'.admitted = row.admitted /\ row'.status = row.status
        /\ row'.phase = row.phase /\ row'.manifest = row.manifest
        /\ row'.submission = "in_flight" /\ row'.evidence = row.evidence
    <3>1. "in_flight" \in SubmissionState
      BY DEF SubmissionState
    <3> HIDE DEF Status, Phase, SubmissionState, Manifest, Versions
    <3> QED BY <1>1, <2>1, <3>1 DEF Row
  <2>4. /\ run'[h].pc = "calling" /\ run'[h].replay = run[h].replay
        /\ run'[h].records = run[h].records /\ run'[h].manifest = run[h].manifest
    BY <1>1, <2>1, <2>2, GoneOn
  <2>5. \A records : Within(records) => Within(records)'
    BY <1>2, <2>3, StillWithin
  <2>6. /\ run[h].manifest # NoManifest /\ Within(run[h].manifest.records)
        /\ row.manifest # NoManifest
    BY <1>1 DEF HandlerInv, Pinned
  <2>7. RowInv'
    BY <1>1, <1>2, <2>1, <2>3, <2>5, <2>6 DEF RowInv
  <2>8. HandlerInv(h)'
    BY <1>1, <2>3, <2>4, <2>5, <2>6
       DEF HandlerInv, BodySteps, Selecting, Staging, Pinning, Pinned
  <2>9. ~ lost => PinnedInv' /\ PreparedInv(h)'
    <3> SUFFICES ASSUME ~ lost PROVE PinnedInv' /\ PreparedInv(h)'
      OBVIOUS
    <3>1. PinnedInv /\ PreparedInv(h)
      BY DEF IInv, AloneInv
    <3>2. row.manifest = run[h].manifest /\ row.evidence = run[h].manifest
      BY <1>1, <3>1 DEF PreparedInv, Pinned
    <3>3. PinnedInv'
      BY <2>1, <2>3, <3>1, <3>2 DEF PinnedInv, Holds
    <3>4. PreparedInv(h)'
      BY <2>3, <2>4, <3>2 DEF PreparedInv, BodySteps, Pinned
    <3> QED BY <3>3, <3>4
  <2> QED BY <1>1, <1>2, <2>1, <2>2, <2>3, <2>6, <2>7, <2>8, <2>9, RowMoves
<1> QED BY <1>3, <1>4

LEMMA AnswerStep == ASSUME IInv, NEW h \in Handlers, Answer(h) PROVE IInv'
<1>1. /\ TypeOK /\ RowInv /\ run[h].pc = "calling" /\ run[h].pc # "idle"
      /\ sent \in Manifest \cup {NoManifest} /\ row \in Row
  BY Types DEF IInv, Answer
<1>2. UNCHANGED <<registry, discovery, discoveries, job, tick, taken, lost, faults, builds>>
  BY DEF Answer, discovering
<1>3. ~ lost => PinnedInv
  BY DEF IInv, AloneInv
<1>4. /\ {"settle", "failing"} \subseteq Outside \cup BodySteps
      /\ "settle" \notin BodySteps /\ "failing" \notin BodySteps
  BY DEF Outside, BodySteps
<1>5. ASSUME taken, Goto(h, "settle"), UNCHANGED sent,
             row' = IF row.status \in Terminal
                      THEN [row EXCEPT !.submission = "submitted"]
                      ELSE [row EXCEPT !.submission = "submitted", !.phase = "submit",
                                       !.status = "awaiting_scheduler"]
      PROVE  IInv'
  <2>1. /\ row' \in Row /\ row'.admitted = row.admitted /\ row'.manifest = row.manifest
        /\ row'.evidence = row.evidence /\ row'.submission = "submitted"
        /\ row'.status = row.status \/ row'.status = "awaiting_scheduler"
        /\ row'.phase = "submit" \/ (row'.phase = row.phase /\ row'.status = row.status)
    <3>1. /\ "submitted" \in SubmissionState /\ "submit" \in Phase
          /\ "awaiting_scheduler" \in Status
      BY DEF SubmissionState, Phase, Status
    <3> HIDE DEF Status, Phase, SubmissionState, Manifest, Versions, Terminal
    <3> QED BY <1>1, <1>5, <3>1 DEF Row
  <2>2. \A records : Within(records) => Within(records)'
    BY <1>2, <2>1, StillWithin
  <2>3. RowInv'
    BY <1>1, <1>2, <1>5, <2>1, <2>2 DEF RowInv
  <2>4. ~ lost => PinnedInv'
    BY <1>3, <1>5, <2>1 DEF PinnedInv, Holds
  <2> QED BY <1>1, <1>2, <1>4, <1>5, <2>1, <2>3, <2>4, RowMoves
<1>6. ASSUME ~ taken, Goto(h, "failing"), sent' = NoManifest,
             row' = IF row.status \in Terminal THEN row
                    ELSE [row EXCEPT !.submission = "failed"]
      PROVE  IInv'
  <2>1. /\ row' \in Row /\ row'.admitted = row.admitted /\ row'.manifest = row.manifest
        /\ row'.status = row.status /\ row'.phase = row.phase
    <3>1. "failed" \in SubmissionState
      BY DEF SubmissionState
    <3> HIDE DEF Status, Phase, SubmissionState, Manifest, Versions, Terminal
    <3> QED BY <1>1, <1>6, <3>1 DEF Row
  <2>2. \A records : Within(records) => Within(records)'
    BY <1>2, <2>1, StillWithin
  <2>3. RowInv'
    BY <1>1, <1>2, <1>6, <2>1, <2>2 DEF RowInv
  <2>4. ~ lost => PinnedInv'
    BY <1>3, <1>6, <2>1 DEF PinnedInv
  <2> QED BY <1>1, <1>2, <1>4, <1>6, <2>1, <2>3, <2>4, RowMoves
<1>7. ASSUME Goto(h, "failing"), UNCHANGED sent,
             row' = IF row.status \in Terminal THEN row
                    ELSE [row EXCEPT !.submission = "uncertain",
                                     !.status = "awaiting_scheduler"]
      PROVE  IInv'
  <2>1. /\ row' \in Row /\ row'.admitted = row.admitted /\ row'.manifest = row.manifest
        /\ row'.evidence = row.evidence /\ row'.phase = row.phase
        /\ \/ row'.status = row.status /\ row'.submission = row.submission
           \/ /\ row'.status = "awaiting_scheduler" /\ row'.submission = "uncertain"
              /\ row.status # "not_submitted"
    <3>1. /\ "uncertain" \in SubmissionState /\ "awaiting_scheduler" \in Status
          /\ "not_submitted" \in Terminal
      BY DEF SubmissionState, Status, Terminal
    <3> HIDE DEF Status, Phase, SubmissionState, Manifest, Versions, Terminal
    <3> QED BY <1>1, <1>7, <3>1 DEF Row
  <2>2. \A records : Within(records) => Within(records)'
    BY <1>2, <2>1, StillWithin
  <2>3. RowInv'
    BY <1>1, <1>2, <1>7, <2>1, <2>2 DEF RowInv
  <2>4. ~ lost => PinnedInv'
    BY <1>3, <1>7, <2>1 DEF PinnedInv, Holds
  <2> QED BY <1>1, <1>2, <1>4, <1>7, <2>1, <2>3, <2>4, RowMoves
<1> QED BY <1>5, <1>6, <1>7 DEF Answer

LEMMA FailingStep == ASSUME IInv, NEW h \in Handlers, Failing(h) PROVE IInv'
<1>1. /\ TypeOK /\ RowInv /\ run[h].pc = "failing" /\ run[h].pc # "idle"
      /\ sent \in Manifest \cup {NoManifest} /\ row \in Row
  BY Types DEF IInv, Failing
<1>2. UNCHANGED <<registry, discovery, discoveries, job, tick, sent, taken, lost, faults, builds>>
  BY DEF Failing, preparing, discovering
<1>3. PICK pc \in {"settle", "fail"} : Goto(h, pc)
  BY DEF Failing
<1>4. pc \notin BodySteps /\ pc \in Outside \cup BodySteps
  BY <1>3 DEF BodySteps, Outside
<1>5. /\ row' \in Row /\ row'.admitted = row.admitted /\ row'.manifest = row.manifest
      /\ row'.evidence = row.evidence /\ row'.phase = row.phase /\ row'.status = row.status
      /\ row'.submission = row.submission \/ row'.submission = "uncertain"
  <2>1. row' = row \/ row' = [row EXCEPT !.submission = "uncertain"]
    BY DEF Failing
  <2>2. "uncertain" \in SubmissionState
    BY DEF SubmissionState
  <2> HIDE DEF Status, Phase, SubmissionState, Manifest, Versions
  <2> QED BY <1>1, <2>1, <2>2 DEF Row
<1>6. \A records : Within(records) => Within(records)'
  BY <1>2, <1>5, StillWithin
<1>7. RowInv'
  BY <1>1, <1>2, <1>5, <1>6 DEF RowInv
<1>8. ~ lost => PinnedInv'
  BY <1>2, <1>5 DEF IInv, AloneInv, PinnedInv, Holds
<1> QED BY <1>1, <1>2, <1>3, <1>4, <1>5, <1>7, <1>8, RowMoves

\* MarkPending and FinalizeIfSuccessful leave the version alone.
LEMMA Marks ==
    ASSUME TypeOK, MarkPending \/ FinalizeSources \/ FinalizeIfSuccessful
    PROVE  registry' \in Registry /\ registry'.version = registry.version
<1>1. registry \in Registry /\ registry.version \in 0..MaxVersion
  BY Types DEF Versions
<1> QED BY <1>1 DEF Registry, MarkPending, FinalizeSources, FinalizeIfSuccessful

LEMMA MarksStep ==
    ASSUME IInv, NEW h \in Handlers, run[h].pc # "idle", Goto(h, "settle"),
           MarkPending \/ FinalizeIfSuccessful,
           UNCHANGED <<discovery, discoveries, row, job, tick, sent, taken, builds, lost, faults>>
    PROVE  IInv'
<1>1. TypeOK /\ row \in Row /\ builds \in 0..Cardinality(Builds)
      /\ sent \in Manifest \cup {NoManifest}
  BY Types DEF IInv, TypeOK
<1>2. registry' \in Registry /\ registry'.version = registry.version
  BY <1>1, Marks
<1>3. "settle" \in Outside /\ "settle" \notin BodySteps
  BY DEF Outside, BodySteps
<1>4. PICK g \in Handler : run' = [run EXCEPT ![h] = g] /\ Leaves(g, h, "settle")
  BY <1>1, <1>3, Gone
<1>5. HandlerInv(h)' /\ PreparedInv(h)' /\ g.attempt = run[h].attempt
  BY <1>1, <1>3, <1>4, LeavesNothing DEF Leaves
<1>6. RowInv'
  BY <1>2 DEF IInv, RowInv, Within
<1>7. ~ lost => PinnedInv'
  BY DEF IInv, AloneInv, PinnedInv
<1> QED BY <1>1, <1>2, <1>4, <1>5, <1>6, <1>7, HandlerMoves

LEMMA RaiseStep == ASSUME IInv, NEW h \in Handlers, Raise(h) PROVE IInv'
BY MarksStep DEF Raise

LEMMA FinalizeStep == ASSUME IInv, NEW h \in Handlers, Finalize(h) PROVE IInv'
BY MarksStep DEF Finalize

LEMMA HandlerSteps == ASSUME IInv, NEW h \in Handlers, HandlerStep(h) PROVE IInv'
BY ReadStep, BodyFailsStep, CheckStep, SelectStep, ResumeStep, AdmitStep, StartStep, ActiveStep,
   StageStep, ReplayStep, EvidenceStep, FinishUnsubmittedStep, PinStep, BeginStep, AnswerStep,
   FailingStep, FailStep, RaiseStep, FinalizeStep
   DEF HandlerStep

----------------------------------------------------------------------------
\* The job, and handlers that begin and end.

LEMMA JobMoves ==
    ASSUME IInv, run' \in [Handlers -> Handler],
           \A k \in Handlers :
             \/ run'[k] = run[k]
             \/ run'[k].pc \in {"idle", "read"} /\ run'[k].manifest = NoManifest,
           UNCHANGED <<registry, discovery, discoveries, row, tick, sent, taken, builds>>,
           job' \in Job, lost' \in BOOLEAN, lost => lost', faults' \in 0..MaxFaults,
           ~ lost' => OwnerInv'
    PROVE  IInv'
<1>1. TypeOK'
  <2> HIDE DEF Row, Registry, Job, Handler, Discovery, Manifest
  <2> QED BY DEF IInv, TypeOK
<1>2. DiscoveryInv' /\ RowInv'
  BY DEF IInv, DiscoveryInv, RowInv, Within
<1>3. ASSUME NEW k \in Handlers PROVE HandlerInv(k)'
  <2>1. HandlerInv(k) /\ \A r : Within(r) => Within(r)'
    BY DEF IInv, Within
  <2>2. CASE run'[k] = run[k]
    BY <2>1, <2>2 DEF HandlerInv
  <2>3. CASE run'[k].pc \in {"idle", "read"} /\ run'[k].manifest = NoManifest
    BY <2>3 DEF HandlerInv, BodySteps, Selecting, Staging, Pinning, Pinned
  <2> QED BY <2>2, <2>3
<1>4. AloneInv'
  <2> SUFFICES ASSUME ~ lost' PROVE (\A k \in Handlers : PreparedInv(k)') /\ PinnedInv'
    BY DEF AloneInv
  <2>1. PinnedInv /\ \A k \in Handlers : PreparedInv(k)
    BY DEF IInv, AloneInv
  <2>2. PinnedInv'
    BY <2>1 DEF PinnedInv
  <2>3. ASSUME NEW k \in Handlers PROVE PreparedInv(k)'
    <3>1. CASE run'[k] = run[k]
      BY <2>1, <3>1 DEF PreparedInv
    <3>2. CASE run'[k].pc \in {"idle", "read"}
      BY <3>2 DEF PreparedInv, BodySteps, Pinned
    <3> QED BY <3>1, <3>2
  <2> QED BY <2>2, <2>3
<1> QED BY <1>1, <1>2, <1>3, <1>4 DEF IInv

LEMMA DeliverStep == ASSUME IInv, NEW h \in Handlers, Deliver(h) PROVE IInv'
<1> DEFINE g == [Idle EXCEPT !.pc = "read", !.attempt = job.attempt, !.submit = job.submit]
<1>1. /\ TypeOK /\ run \in [Handlers -> Handler] /\ job \in Job /\ lost \in BOOLEAN
      /\ faults \in 0..MaxFaults /\ job.attempt \in 0..MaxRetries /\ job.submit \in BOOLEAN
  BY Types DEF IInv, TypeOK
<1>2. /\ run' = [run EXCEPT ![h] = g] /\ UNCHANGED <<lost, faults>>
      /\ UNCHANGED <<registry, discovery, discoveries, row, tick, sent, taken, builds>>
  BY DEF Deliver, discovering
<1>3. /\ g \in Handler /\ g.pc = "read" /\ g.manifest = NoManifest
      /\ g.attempt = job.attempt
  <2> HIDE DEF Idle, Record, Manifest, BodySteps
  <2> QED BY <1>1, IdleHandler DEF Handler
<1>4. /\ job' \in Job /\ job'.status = "running" /\ job'.holder = h /\ job'.leased
      /\ job'.attempt = job.attempt
  BY <1>1 DEF Deliver, Job
<1> HIDE DEF g
<1>5. run' \in [Handlers -> Handler] /\ run'[h] = g /\ \A k \in Handlers : k # h => run'[k] = run[k]
  <2> HIDE DEF Handler
  <2> QED BY <1>1, <1>2, <1>3
<1>6. ~ lost' => OwnerInv'
  <2> SUFFICES ASSUME ~ lost PROVE OwnerInv'
    BY <1>2
  <2>1. \A k \in Handlers : run[k].pc = "idle"
    BY DEF IInv, AloneInv, OwnerInv, Owns, Deliver
  <2> QED BY <1>3, <1>4, <1>5, <2>1 DEF OwnerInv, Owns
<1> QED BY <1>1, <1>2, <1>3, <1>4, <1>5, <1>6, JobMoves

LEMMA LeaseExpiresStep == ASSUME IInv, LeaseExpires PROVE IInv'
<1>1. /\ TypeOK /\ run \in [Handlers -> Handler] /\ job \in Job /\ lost \in BOOLEAN
      /\ faults \in 0..MaxFaults /\ faults' \in 0..MaxFaults /\ job' \in Job
  <2>1. TypeOK /\ run \in [Handlers -> Handler] /\ job \in Job /\ lost \in BOOLEAN
        /\ faults \in 0..MaxFaults
    BY Types DEF IInv, TypeOK
  <2>2. faults' \in 0..MaxFaults
    BY <2>1, PreparationAssumption DEF LeaseExpires
  <2>3. job' \in Job
    BY <2>1 DEF LeaseExpires, Job
  <2> QED BY <2>1, <2>2, <2>3
<1>2. UNCHANGED <<registry, discovery, discoveries, row, tick, sent, taken, builds>>
  BY DEF LeaseExpires, discovering
<1>3. CASE UNCHANGED lost /\ run' = [h \in Handlers |-> IF Owns(h) THEN Idle ELSE run[h]]
  <2>1. \A k \in Handlers : run'[k] = IF Owns(k) THEN Idle ELSE run[k]
    BY <1>3
  <2>2. run' \in [Handlers -> Handler]
    <3> HIDE DEF Handler, Idle
    <3> QED BY <1>1, <1>3, IdleHandler
  <2>3. \A k \in Handlers :
          run'[k] = run[k] \/ (run'[k].pc \in {"idle", "read"} /\ run'[k].manifest = NoManifest)
    <3> HIDE DEF Idle
    <3> QED BY <2>1, IdleHandler
  <2>4. ~ lost' => OwnerInv'
    <3> SUFFICES ASSUME ~ lost PROVE OwnerInv'
      BY <1>3
    <3>1. \A k \in Handlers : run'[k].pc = "idle"
      <4> HIDE DEF Idle
      <4> QED BY <2>1, IdleHandler DEF IInv, AloneInv, OwnerInv
    <3> QED BY <3>1 DEF OwnerInv
  <2> QED BY <1>1, <1>2, <1>3, <2>2, <2>3, <2>4, JobMoves
<1>4. CASE lost' = TRUE /\ UNCHANGED run
  BY <1>1, <1>2, <1>4, JobMoves
<1> QED BY <1>3, <1>4 DEF LeaseExpires

\* Drop and Settle
LEMMA HandlerEnds ==
    ASSUME IInv, NEW h \in Handlers, run[h].pc # "idle", run' = [run EXCEPT ![h] = Idle],
           job' \in Job,
           UNCHANGED <<registry, discovery, discoveries, row, tick, sent, taken, builds, lost,
                       faults>>
    PROVE  IInv'
<1>1. /\ run \in [Handlers -> Handler] /\ lost \in BOOLEAN /\ faults \in 0..MaxFaults
  BY Types DEF IInv, TypeOK
<1>2. /\ run' \in [Handlers -> Handler] /\ run'[h] = Idle
      /\ \A k \in Handlers : k # h => run'[k] = run[k]
  <2> HIDE DEF Handler, Idle
  <2> QED BY <1>1, IdleHandler
<1>3. \A k \in Handlers :
        run'[k] = run[k] \/ (run'[k].pc \in {"idle", "read"} /\ run'[k].manifest = NoManifest)
  <2> HIDE DEF Idle
  <2> QED BY <1>2, IdleHandler
<1>4. ~ lost' => OwnerInv'
  <2> SUFFICES ASSUME ~ lost PROVE OwnerInv'
    OBVIOUS
  <2>1. \A k \in Handlers : run'[k].pc = "idle"
    <3> HIDE DEF Idle
    <3> QED BY <1>2, IdleHandler, OneHandler
  <2> QED BY <2>1 DEF OwnerInv
<1> QED BY <1>1, <1>2, <1>3, <1>4, JobMoves

LEMMA DropStep == ASSUME IInv, NEW h \in Handlers, Drop(h) PROVE IInv'
<1>1. job' \in Job
  BY Types DEF IInv, Drop
<1> QED BY <1>1, HandlerEnds DEF Drop, discovering

LEMMA SettleStep == ASSUME IInv, NEW h \in Handlers, Settle(h) PROVE IInv'
<1>1. job \in Job
  BY Types DEF IInv
<1>2. job' \in Job
  BY <1>1 DEF Settle, Job
<1>3. run[h].pc # "idle"
  BY DEF Settle
<1> QED BY <1>2, <1>3, HandlerEnds DEF Settle, discovering

----------------------------------------------------------------------------
\* The steps in which no handler moves.

LEMMA Elsewhere ==
    ASSUME IInv, UNCHANGED <<run, sent, builds, lost>>,
           registry' \in Registry, registry'.version \in Versions,
           registry.version <= registry'.version,
           discovery' \in Discovery, DiscoveryInv',
           row' \in Row, row'.admitted = row.admitted, row'.manifest = row.manifest,
           row'.evidence = row.evidence,
           job' \in Job, tick' \in {"idle", "mark", "finalize"}, taken' \in BOOLEAN,
           discoveries' \in 0..MaxDiscoveries, faults' \in 0..MaxFaults,
           taken' => sent # NoManifest, row'.status # "cancelled",
           row'.status = "completed" => taken', row'.status = "not_submitted" => row.manifest # NoManifest,
           ~ lost => OwnerInv' /\ PinnedInv'
    PROVE  IInv'
<1>1. TypeOK'
  <2> HIDE DEF Row, Registry, Job, Handler, Discovery, Manifest
  <2> QED BY DEF IInv, TypeOK
<1>2. \A r : Within(r) => Within(r)'
  BY WithinKept DEF IInv
<1>3. RowInv'
  BY <1>2 DEF IInv, RowInv
<1>4. \A k \in Handlers : HandlerInv(k)'
  BY <1>2 DEF IInv, HandlerInv
<1>5. AloneInv'
  BY DEF IInv, AloneInv, PreparedInv
<1> QED BY <1>1, <1>3, <1>4, <1>5 DEF IInv

\* The counters and the parts that a step may leave alone
LEMMA Parts ==
    ASSUME IInv
    PROVE  /\ TypeOK /\ DiscoveryInv /\ RowInv
           /\ registry \in Registry /\ registry.version \in Versions
           /\ registry.version <= registry.version
           /\ discovery \in Discovery /\ row \in Row /\ job \in Job
           /\ tick \in {"idle", "mark", "finalize"} /\ taken \in BOOLEAN
           /\ discoveries \in 0..MaxDiscoveries /\ faults \in 0..MaxFaults
           /\ taken => sent # NoManifest
           /\ row.status # "cancelled"
           /\ row.status = "completed" => taken
           /\ row.status = "not_submitted" => row.manifest # NoManifest
           /\ ~ lost => OwnerInv /\ PinnedInv
<1>1. TypeOK /\ DiscoveryInv /\ RowInv /\ (~ lost => OwnerInv /\ PinnedInv)
  BY DEF IInv, AloneInv
<1>2. registry.version \in Versions /\ registry.version <= registry.version
  BY <1>1, Types DEF Versions
<1>3. /\ registry \in Registry /\ discovery \in Discovery /\ row \in Row /\ job \in Job
      /\ tick \in {"idle", "mark", "finalize"} /\ taken \in BOOLEAN
      /\ discoveries \in 0..MaxDiscoveries /\ faults \in 0..MaxFaults
  BY <1>1 DEF TypeOK
<1> QED BY <1>1, <1>2, <1>3 DEF RowInv

\* A step of the discovery
LEMMA Discovers ==
    ASSUME IInv, UNCHANGED <<executing>>,
           registry' \in Registry, registry'.version \in Versions,
           registry.version <= registry'.version, discoveries' \in 0..MaxDiscoveries,
           discovery' \in Discovery,
           discovery'.pc = "query" /\ discovery'.query > 0 => registry'.version <= discovery'.of,
           discovery'.pc = "persist" /\ discovery'.found \in {"rows", "none"} =>
             registry'.version <= discovery'.of
    PROVE  IInv'
<1>1. UNCHANGED <<row, job, run, tick, sent, taken, builds, lost, faults>>
  BY DEF executing
<1>2. row' \in Row /\ job' \in Job /\ tick' \in {"idle", "mark", "finalize"} /\ taken' \in BOOLEAN
      /\ faults' \in 0..MaxFaults
  BY <1>1, Parts
<1>3. DiscoveryInv'
  <2>1. row.admitted <= registry.version
    BY Parts DEF DiscoveryInv
  <2>2. row.admitted \in Int /\ registry.version \in Int /\ registry'.version \in Int
    BY Parts, Types DEF Versions
  <2>3. row.admitted <= registry'.version
    BY <2>1, <2>2
  <2> QED BY <1>1, <2>3 DEF DiscoveryInv
<1>4. ~ lost => OwnerInv' /\ PinnedInv'
  BY <1>1, Parts DEF OwnerInv, Owns, PinnedInv
<1> QED BY <1>1, <1>2, <1>3, <1>4, Parts, Elsewhere

LEMMA StartDiscoveryStep == ASSUME IInv, StartDiscovery PROVE IInv'
<1>1. registry' \in Registry /\ registry'.version = registry.version
  BY Parts DEF StartDiscovery, Registry
<1>2. discoveries' \in 0..MaxDiscoveries
  BY Parts, PreparationAssumption DEF StartDiscovery
<1>3. PICK pc \in {"query", "persist"} : discovery' = [NoDiscovery EXCEPT !.pc = pc]
  BY DEF StartDiscovery
<1>4. discovery' \in Discovery /\ discovery'.query = 0 /\ discovery'.found = "unchanged"
  <2> HIDE DEF NoDiscovery, Versions, Findings
  <2> QED BY <1>3, IdleDiscovery DEF Discovery
<1>5. UNCHANGED <<executing>>
  BY DEF StartDiscovery
<1> QED BY <1>1, <1>2, <1>4, <1>5, Parts, Discovers

\* Found and NextQuery
LEMMA FoundTypes ==
    ASSUME TypeOK, NEW found \in Findings, NEW v \in Versions, Found(found, v)
    PROVE  /\ discovery' \in Discovery /\ discovery'.pc = "persist"
           /\ discovery'.found = found /\ discovery'.of = v
<1>1. discovery \in Discovery
  BY Types
<1> HIDE DEF Versions, Findings
<1> QED BY <1>1 DEF Discovery, Found

LEMMA NextQueryTypes ==
    ASSUME TypeOK, NEW v \in Versions, NextQuery(v)
    PROVE  /\ discovery' \in Discovery /\ discovery'.of = v
<1>1. /\ discovery \in Discovery /\ discovery.query \in 0..Len(Enrichments)
      /\ 0 \in 0..QueryRetries /\ Len(Enrichments) \in Nat
  BY Types, PreparationAssumption
<1>2. CASE discovery.query = Len(Enrichments)
  <2>1. "rows" \in Findings /\ Found("rows", v)
    BY <1>2 DEF NextQuery, Findings
  <2> QED BY <2>1, FoundTypes
<1>3. CASE discovery.query # Len(Enrichments)
  <2>1. discovery' = [discovery EXCEPT !.query = @ + 1, !.attempt = 0, !.of = v]
    BY <1>3 DEF NextQuery
  <2>2. discovery.query + 1 \in 0..Len(Enrichments)
    BY <1>1, <1>3
  <2> HIDE DEF Versions, Findings
  <2> QED BY <1>1, <2>1, <2>2 DEF Discovery
<1> QED BY <1>2, <1>3

LEMMA AnsweredStep == ASSUME IInv, Answered PROVE IInv'
<1>1. UNCHANGED <<registry, executing, discoveries>>
  BY DEF Answered
<1>2. PICK v \in Versions :
        /\ registry.version <= v
        /\ Found("none", v) \/ NextQuery(v)
  <2>1. CASE discovery.query = 0
    <3>1. PICK v \in Versions :
            /\ v >= registry.version
            /\ IF Content[v] = {} THEN Found("none", v) ELSE NextQuery(v)
      BY <2>1 DEF Answered
    <3>2. registry.version <= v
      BY <3>1, Parts DEF Versions
    <3> QED BY <3>1, <3>2
  <2>2. CASE discovery.query # 0
    <3>1. NextQuery(discovery.of) /\ discovery.pc = "query"
      BY <2>2 DEF Answered
    <3>2. discovery.query > 0 /\ discovery.of \in Versions
      BY <2>2, Parts, Types, PreparationAssumption
    <3>3. registry.version <= discovery.of
      BY <3>1, <3>2, Parts DEF DiscoveryInv
    <3> QED BY <3>1, <3>2, <3>3
  <2> QED BY <2>1, <2>2
<1>3. discovery' \in Discovery /\ discovery'.of = v
  <2>1. "none" \in Findings
    BY DEF Findings
  <2> QED BY <1>2, <2>1, Parts, FoundTypes, NextQueryTypes
<1> QED BY <1>1, <1>2, <1>3, Parts, Discovers

LEMMA AskAgainStep == ASSUME IInv, AskAgain PROVE IInv'
<1>1. UNCHANGED <<registry, executing, discoveries>>
  BY DEF AskAgain
<1>2. /\ discovery' \in Discovery /\ discovery'.pc = discovery.pc
      /\ discovery'.query = discovery.query /\ discovery'.of = discovery.of
      /\ discovery'.found = discovery.found
  <2>1. discovery.attempt + 1 \in 0..QueryRetries
    BY Parts, Types, PreparationAssumption DEF AskAgain
  <2> HIDE DEF Versions, Findings
  <2> QED BY <2>1, Parts DEF AskAgain, Discovery
<1> QED BY <1>1, <1>2, Parts, Discovers DEF DiscoveryInv

LEMMA QueryFailsStep == ASSUME IInv, QueryFails PROVE IInv'
<1>1. UNCHANGED <<registry, executing, discoveries>>
  BY DEF QueryFails
<1>2. CASE Required(discovery.query)
  <2>1. Found("failed", 1) /\ "failed" \in Findings
    BY <1>2 DEF QueryFails, Findings
  <2>2. discovery' \in Discovery /\ discovery'.pc = "persist" /\ discovery'.found = "failed"
    BY <2>1, Parts, IdleDiscovery, FoundTypes
  <2> QED BY <1>1, <2>2, Parts, Discovers
<1>3. CASE ~ Required(discovery.query)
  <2>1. PICK v \in Versions : v >= discovery.of /\ NextQuery(v)
    BY <1>3 DEF QueryFails
  <2>2. discovery' \in Discovery /\ discovery'.of = v
    BY <2>1, Parts, NextQueryTypes
  <2>3. discovery.query > 0 /\ discovery.of \in Versions
    BY <1>3, Parts, Types, PreparationAssumption DEF Required
  <2>4. registry.version <= discovery.of
    BY <2>3, Parts DEF DiscoveryInv, QueryFails
  <2>5. registry.version <= v
    BY <2>1, <2>3, <2>4, Parts DEF Versions
  <2> QED BY <1>1, <2>2, <2>5, Parts, Discovers
<1> QED BY <1>2, <1>3

LEMMA PersistDiscoveryStep == ASSUME IInv, PersistDiscovery PROVE IInv'
<1> DEFINE changed == /\ discovery.found \in {"rows", "none"}
                      /\ discovery.of # registry.version
           version == IF changed THEN discovery.of ELSE registry.version
           pending == registry.pending \/ (changed /\ discovery.found = "rows")
<1>1. /\ registry' = [registry EXCEPT !.claimed = FALSE, !.version = version, !.pending = pending]
      /\ discovery' = NoDiscovery /\ discovery.pc = "persist"
      /\ UNCHANGED <<executing, discoveries>>
  BY Parts DEF PersistDiscovery, Registry
<1>2. version \in Versions /\ registry.version <= version /\ pending \in BOOLEAN
  <2>1. discovery.of \in Versions
    BY Parts, Types
  <2>2. changed => registry.version <= discovery.of
    BY <1>1, Parts DEF DiscoveryInv
  <2> QED BY <2>1, <2>2, Parts DEF Registry
<1> HIDE DEF version, pending
<1>3. registry' \in Registry /\ registry'.version = version
  <2> HIDE DEF Versions
  <2> QED BY <1>1, <1>2, Parts DEF Registry
<1>4. /\ discovery' \in Discovery /\ discovery'.pc = "idle"
      /\ discoveries' \in 0..MaxDiscoveries
  BY <1>1, IdleDiscovery, Parts
<1> QED BY <1>1, <1>2, <1>3, <1>4, Discovers

LEMMA DiscoverStep == ASSUME IInv, Discover PROVE IInv'
BY StartDiscoveryStep, AnsweredStep, AskAgainStep, QueryFailsStep, PersistDiscoveryStep
   DEF Discover

LEMMA TakeStep == ASSUME IInv, Take PROVE IInv'
<1>1. /\ taken' = TRUE /\ sent # NoManifest
      /\ UNCHANGED <<registry, discovery, discoveries, row, job, run, tick, sent, builds, lost, faults>>
  BY DEF Take, discovering
<1>2. DiscoveryInv' /\ (~ lost => OwnerInv' /\ PinnedInv')
  BY <1>1, Parts DEF DiscoveryInv, OwnerInv, Owns, PinnedInv
<1> QED BY <1>1, <1>2, Parts, Elsewhere

LEMMA WorkEndsStep == ASSUME IInv, WorkEnds PROVE IInv'
<1>1. /\ taken /\ row.status \notin Terminal
      /\ UNCHANGED <<discovery, discoveries, job, run, sent, taken, builds, lost, faults>>
  BY DEF WorkEnds, ending
<1>2. PICK status \in {"completed", "failed"} : row' = [row EXCEPT !.status = status]
  BY DEF WorkEnds
<1>3. /\ row' \in Row /\ row'.status = status /\ row'.admitted = row.admitted
      /\ row'.manifest = row.manifest /\ row'.evidence = row.evidence
      /\ row'.phase = row.phase /\ row'.submission = row.submission
  <2>1. status \in Status
    BY DEF Status
  <2> HIDE DEF Status, Phase, SubmissionState, Manifest, Versions
  <2> QED BY <1>2, <2>1, Parts DEF Row
<1>4. registry' \in Registry /\ registry'.version = registry.version
  BY Parts, Marks DEF WorkEnds
<1>5. tick' \in {"idle", "mark", "finalize"}
  BY Parts DEF WorkEnds
<1>6. DiscoveryInv'
  BY <1>1, <1>3, <1>4, Parts DEF DiscoveryInv
<1>7. ~ lost => OwnerInv' /\ PinnedInv'
  BY <1>1, <1>3, Parts DEF OwnerInv, Owns, PinnedInv, Terminal
<1> QED BY <1>1, <1>2, <1>3, <1>4, <1>5, <1>6, <1>7, Parts, Elsewhere

LEMMA TickConcludesStep == ASSUME IInv, TickConcludes PROVE IInv'
<1>1. UNCHANGED <<discovery, discoveries, job, run, sent, taken, builds, lost, row, faults>>
  BY DEF TickConcludes, ending
<1>2. registry' \in Registry /\ registry'.version = registry.version
  BY Parts, Marks DEF TickConcludes
<1>3. tick' = "idle"
  BY DEF TickConcludes
<1>4. DiscoveryInv' /\ (~ lost => OwnerInv' /\ PinnedInv')
  BY <1>1, <1>2, Parts DEF DiscoveryInv, OwnerInv, Owns, PinnedInv
<1> QED BY <1>1, <1>2, <1>3, <1>4, Parts, Elsewhere

LEMMA TickDiesStep == ASSUME IInv, TickDies PROVE IInv'
<1>1. UNCHANGED <<registry, discovery, discoveries, job, run, sent, taken, builds, lost, row>>
  BY DEF TickDies, ending
<1>2. tick' = "idle" /\ faults' \in 0..MaxFaults
  BY Parts, PreparationAssumption DEF TickDies
<1>3. DiscoveryInv' /\ (~ lost => OwnerInv' /\ PinnedInv')
  BY <1>1, Parts DEF DiscoveryInv, OwnerInv, Owns, PinnedInv
<1> QED BY <1>1, <1>2, <1>3, Parts, Elsewhere

\* An execution that failed while its manifest was pinned starts over at it.
LEMMA RetryStep == ASSUME IInv, Retry PROVE IInv'
<1> DEFINE phase == IF RetriesSubmit THEN "submit" ELSE "stage_and_manifest"
<1>1. /\ row.status = "failed" /\ row.submission \notin Holds /\ job.status = "done"
      /\ row.retries < MaxRetries /\ row.retries \in 0..MaxRetries
      /\ row' = [row EXCEPT !.status = "retrying", !.submission = "not_started",
                            !.phase = phase, !.retries = @ + 1]
      /\ registry' = [registry EXCEPT !.pending = FALSE]
      /\ UNCHANGED <<discovery, discoveries, run, tick, sent, taken, builds, lost, faults>>
  BY Parts, Types DEF Retry
<1>2. row.retries + 1 \in 0..MaxRetries
  BY <1>1, PreparationAssumption
<1>3. job' \in Job
  BY <1>2 DEF Retry, Job
<1>4. phase \in Phase /\ (RetriesSubmit => phase = "submit")
  BY DEF Phase
<1> HIDE DEF phase
<1>5. /\ row' \in Row /\ row'.status = "retrying" /\ row'.admitted = row.admitted
      /\ row'.manifest = row.manifest /\ row'.evidence = row.evidence
      /\ row'.phase = phase
  <2>1. "retrying" \in Status /\ "not_started" \in SubmissionState
    BY DEF Status, SubmissionState
  <2> HIDE DEF Status, Phase, SubmissionState, Manifest, Versions
  <2> QED BY <1>1, <1>2, <1>4, <2>1, Parts DEF Row
<1>6. registry' \in Registry /\ registry'.version = registry.version
  BY <1>1, Parts DEF Registry
<1>7. DiscoveryInv'
  BY <1>1, <1>5, <1>6, Parts DEF DiscoveryInv
<1>8. ~ lost => OwnerInv' /\ PinnedInv'
  <2> SUFFICES ASSUME ~ lost PROVE OwnerInv' /\ PinnedInv'
    OBVIOUS
  <2>1. OwnerInv'
    BY <1>1, Parts DEF OwnerInv, Owns
  <2>2. sent = NoManifest
    BY <1>1, Parts DEF PinnedInv
  <2>3. row.manifest # NoManifest => RetriesSubmit
    BY <1>1, Parts DEF PinnedInv, RetriesSubmit
  <2>4. PinnedInv'
    BY <1>1, <1>4, <1>5, <2>2, <2>3 DEF PinnedInv
  <2> QED BY <2>1, <2>4
<1> QED BY <1>1, <1>3, <1>5, <1>6, <1>7, <1>8, Parts, Elsewhere

LEMMA StutterStep == ASSUME IInv, UNCHANGED vars PROVE IInv'
<1>1. UNCHANGED <<registry, discovery, row, job, run, tick, sent, taken, builds, lost,
                  discoveries, faults>>
  BY DEF vars
<1>2. DiscoveryInv' /\ (~ lost => OwnerInv' /\ PinnedInv')
  BY <1>1, Parts DEF DiscoveryInv, OwnerInv, Owns, PinnedInv
<1> QED BY <1>1, <1>2, Parts, Elsewhere

LEMMA NextStep == IInv /\ [Next]_vars => IInv'
<1> SUFFICES ASSUME IInv, [Next]_vars PROVE IInv'
  OBVIOUS
<1>1. ASSUME NEW h \in Handlers, Deliver(h) \/ Drop(h) \/ Settle(h) \/ HandlerStep(h)
      PROVE  IInv'
  BY <1>1, DeliverStep, DropStep, SettleStep, HandlerSteps
<1>2. CASE Discover
  BY <1>2, DiscoverStep
<1>3. CASE LeaseExpires
  BY <1>3, LeaseExpiresStep
<1>4. CASE Take \/ WorkEnds \/ TickConcludes \/ TickDies \/ Retry
  BY <1>4, TakeStep, WorkEndsStep, TickConcludesStep, TickDiesStep, RetryStep
<1>5. CASE UNCHANGED vars
  BY <1>5, StutterStep
<1> QED BY <1>1, <1>2, <1>3, <1>4, <1>5 DEF Next

\* The invariant of the preparation: versions only advance, what a handler has
\* read or built is of a version since the admission, and while no live handler
\* has lost its lease one handler at most is at work and carries what the row has
\* (run_execute_body, persist_discovery_results).
THEOREM PreparationInvariant == Spec => []IInv
<1>1. Init => IInv
  BY InitStep
<1>2. IInv /\ [Next]_vars => IInv'
  BY NextStep
<1> QED BY <1>1, <1>2, PTL DEF Spec

THEOREM PreparationTypes == Spec => []TypeOK
<1>1. IInv => TypeOK
  BY DEF IInv
<1> QED BY <1>1, PreparationInvariant, PTL

\* Every pinned manifest holds the whole selection of one version
\* (select_execution_archive_metadata, validate_staged_record_scope).
THEOREM SelectionIsWhole == Spec => []WholeSelection
<1>1. IInv => WholeSelection
  BY DEF IInv, RowInv, Within, WholeSelection
<1> QED BY <1>1, PreparationInvariant, PTL

\* What the backend was called with is pinned, and its digests recorded.
THEOREM SentStaysPinned == Spec => []SentIsPinned
<1>1. IInv => SentIsPinned
  BY DEF IInv, AloneInv, PinnedInv, SentIsPinned
<1> QED BY <1>1, PreparationInvariant, PTL

----------------------------------------------------------------------------
\* The pinned manifest is replayed.

\* The steps of a handler that pin nothing
LEMMA OthersKeepManifest ==
    ASSUME IInv, Next, \A h \in Handlers : ~ FinishUnsubmitted(h) /\ ~ Pin(h)
    PROVE  row'.manifest = row.manifest
<1>1. row \in Row
  BY Parts
<1> HIDE DEF Status, Phase, SubmissionState, Manifest, Versions, Terminal, Holds
<1>2. ASSUME NEW h \in Handlers, Deliver(h) \/ Drop(h) \/ Settle(h)
      PROVE  row' = row
  BY <1>2 DEF Deliver, Drop, Settle
<1>3. ASSUME NEW h \in Handlers,
             \/ Read(h) \/ BodyFails(h) \/ Check(h) \/ Select(h) \/ Admit(h) \/ Active(h)
             \/ Stage(h) \/ Replay(h) \/ Raise(h) \/ Finalize(h)
      PROVE  row' = row
  BY <1>3 DEF Read, BodyFails, Check, Select, Admit, Active, Stage, Replay, Raise, Finalize
<1>4. ASSUME NEW h \in Handlers, Resume(h) \/ Start(h) \/ Fail(h)
      PROVE  row'.manifest = row.manifest
  <2>1. row' = row \/ \E next \in {"running", "failed"},
                         phase \in {"submit", "stage_and_manifest", row.phase} :
                        LedgerPatch(next, phase, row.manifest)
    BY <1>4 DEF Resume, Start, Fail, LedgerStep
  <2>2. CASE row' = row
    BY <2>2
  <2>3. CASE row' # row
    <3>1. PICK next \in {"running", "failed"},
               phase \in {"submit", "stage_and_manifest", row.phase} :
                 LedgerPatch(next, phase, row.manifest)
      BY <2>1, <2>3
    <3>2. next \in Status /\ phase \in Phase /\ row.manifest \in Manifest \cup {NoManifest}
      BY <3>1, Parts, Types DEF Status, Phase
    <3> QED BY <3>1, <3>2, Parts, Patches
  <2> QED BY <2>2, <2>3
<1>5. ASSUME NEW h \in Handlers, Evidence(h) \/ Begin(h) \/ Answer(h) \/ Failing(h)
      PROVE  row'.manifest = row.manifest
  <2>1. CASE Evidence(h)
    BY <1>1, <2>1 DEF Evidence, Row
  <2>2. CASE Begin(h)
    BY <1>1, <2>2 DEF Begin, Row
  <2>3. CASE Answer(h)
    BY <1>1, <2>3 DEF Answer, Row
  <2>4. CASE Failing(h)
    BY <1>1, <2>4 DEF Failing, Row
  <2> QED BY <1>5, <2>1, <2>2, <2>3, <2>4
<1>6. CASE Discover
  BY <1>6 DEF Discover, StartDiscovery, Answered, AskAgain, QueryFails, PersistDiscovery, executing
<1>7. CASE LeaseExpires \/ Take \/ TickConcludes \/ TickDies
  BY <1>7 DEF LeaseExpires, Take, TickConcludes, TickDies
<1>8. CASE WorkEnds \/ Retry
  BY <1>1, <1>8 DEF WorkEnds, Retry, Row
<1> QED BY <1>2, <1>3, <1>4, <1>5, <1>6, <1>7, <1>8 DEF Next, HandlerStep

\* While no live handler has lost its lease no step takes a pinned manifest from
\* the row or puts another in its place (run_execute_body's pinned_manifest):
\* the handler that pins again pins what it replays.
THEOREM PinnedStays == Spec => PinnedIsReplayed
<1>1. ASSUME IInv, [Next]_vars, row.manifest # NoManifest, ~ lost
      PROVE  row'.manifest = row.manifest
  <2>1. CASE UNCHANGED vars
    BY <2>1 DEF vars
  <2>2. ASSUME NEW h \in Handlers, FinishUnsubmitted(h) \/ Pin(h)
        PROVE  row'.manifest = row.manifest
    <3>1. run[h].pc = "pin" /\ PreparedInv(h)
      BY <1>1, <2>2 DEF IInv, AloneInv, FinishUnsubmitted, Pin
    <3>2. row.manifest = run[h].manifest
      BY <1>1, <3>1 DEF PreparedInv, BodySteps, Pinned
    <3>3. row \in Row /\ run[h].manifest \in Manifest \cup {NoManifest}
      BY <1>1, <3>2, Parts, Types
    <3>4. CASE Pin(h)
      <4> HIDE DEF Status, Phase, SubmissionState, Manifest, Versions
      <4> QED BY <3>2, <3>3, <3>4 DEF Pin, Row
    <3>5. CASE FinishUnsubmitted(h)
      <4>1. row' = row \/ LedgerPatch("not_submitted", "none", run[h].manifest)
        BY <3>5 DEF FinishUnsubmitted, LedgerStep
      <4>2. "not_submitted" \in Status /\ "none" \in Phase
        BY DEF Status, Phase
      <4> QED BY <1>1, <3>2, <3>3, <4>1, <4>2, Parts, Patches
    <3> QED BY <2>2, <3>4, <3>5
  <2>3. CASE Next /\ \A h \in Handlers : ~ FinishUnsubmitted(h) /\ ~ Pin(h)
    BY <1>1, <2>3, OthersKeepManifest
  <2> QED BY <1>1, <2>1, <2>2, <2>3
<1>2. IInv /\ [Next]_vars =>
        [row.manifest # NoManifest /\ ~lost => row'.manifest = row.manifest]_vars
  BY <1>1
<1> QED BY <1>2, PreparationInvariant, PTL DEF Spec, PinnedIsReplayed

----------------------------------------------------------------------------
\* A consumed signature is one that was delivered.

\* While the admitted version is the current one, everything prepared is of it.
LEMMA OfTheCurrent ==
    ASSUME IInv, SignatureIsCurrent
    PROVE  /\ row.manifest # NoManifest => row.manifest.records = Selection(registry.version)
           /\ sent # NoManifest => sent.records = Selection(registry.version)
<1>1. ASSUME NEW records, Within(records) PROVE records = Selection(registry.version)
  <2>1. PICK v \in Versions :
          row.admitted <= v /\ v <= registry.version /\ records = Selection(v)
    BY <1>1 DEF Within
  <2>2. v = registry.version
    BY <2>1, Parts DEF SignatureIsCurrent, Versions
  <2> QED BY <2>1, <2>2
<1> QED BY <1>1, Parts DEF RowInv

LEMMA FinalizeConsumes ==
    ASSUME TypeOK, FinalizeSources, registry'.consumed # registry.consumed
    PROVE  SignatureIsCurrent /\ registry'.consumed = registry.version
<1>1. registry \in Registry
  BY Types
<1> QED BY <1>1 DEF FinalizeSources, Registry

LEMMA OthersConsumeNothing ==
    ASSUME IInv, Next, ~ WorkEnds, ~ TickConcludes, \A h \in Handlers : ~ Finalize(h)
    PROVE  registry'.consumed = registry.consumed
<1>1. registry \in Registry
  BY Parts
<1>2. ASSUME NEW h \in Handlers, Deliver(h) \/ Drop(h) \/ Settle(h)
      PROVE  registry' = registry
  BY <1>2 DEF Deliver, Drop, Settle, discovering
<1>3. ASSUME NEW h \in Handlers, HandlerStep(h), ~ Raise(h), ~ Finalize(h)
      PROVE  registry' = registry
  BY <1>3 DEF HandlerStep, Read, BodyFails, Check, Select, Admit, Active, Stage, Replay, Resume,
              Start, Fail, LedgerStep, FinishUnsubmitted, Pin, Evidence, Begin, Answer, Failing,
              preparing, discovering
<1>4. ASSUME NEW h \in Handlers, Raise(h)
      PROVE  registry'.consumed = registry.consumed
  BY <1>1, <1>4 DEF Raise, MarkPending, Registry
<1>5. CASE Discover
  BY <1>1, <1>5
     DEF Discover, StartDiscovery, Answered, AskAgain, QueryFails, PersistDiscovery, Registry
<1>6. CASE LeaseExpires \/ Take \/ TickDies
  BY <1>6 DEF LeaseExpires, Take, TickDies, discovering
<1>7. CASE Retry
  BY <1>1, <1>7 DEF Retry, Registry
<1> QED BY <1>2, <1>3, <1>4, <1>5, <1>6, <1>7 DEF Next

\* A source's signature is consumed only when the execution's pinned manifest,
\* and what the backend was sent if it completed, hold the selection under that
\* very signature (finalize_successful_sources), at any interleaving with
\* discoveries and even when leases are lost.
THEOREM ConsumedWasDelivered == Spec => ConsumedIsDelivered
<1> DEFINE Delivered ==
             /\ row'.manifest # NoManifest
             /\ row'.manifest.records = Selection(registry'.consumed)
             /\ row'.status = "completed" => sent.records = row'.manifest.records
<1>1. ASSUME IInv, [Next]_vars, registry'.consumed # registry.consumed
      PROVE  Delivered
  <2>1. TypeOK /\ RowInv /\ registry \in Registry /\ row \in Row
    BY <1>1, Parts
  <2>2. CASE UNCHANGED vars
    BY <1>1, <2>2 DEF vars
  <2>3. ASSUME FinalizeIfSuccessful, row' = row PROVE Delivered
    <3>1. row.status \in {"completed", "not_submitted"} /\ FinalizeSources
      BY <1>1, <2>3 DEF FinalizeIfSuccessful
    <3>2. SignatureIsCurrent /\ registry'.consumed = registry.version
      BY <1>1, <2>1, <3>1, FinalizeConsumes
    <3>3. row.manifest # NoManifest /\ (row.status = "completed" => sent # NoManifest)
      BY <2>1, <3>1 DEF RowInv
    <3> QED BY <1>1, <2>3, <3>2, <3>3, OfTheCurrent
  <2>4. ASSUME NEW h \in Handlers, Finalize(h) PROVE Delivered
    BY <2>3, <2>4 DEF Finalize
  <2>5. CASE TickConcludes
    <3>1. row' = row /\ (FinalizeIfSuccessful \/ MarkPending)
      BY <2>5 DEF TickConcludes
    <3>2. ~ MarkPending
      BY <1>1, <2>1 DEF MarkPending, Registry
    <3> QED BY <2>3, <3>1, <3>2
  <2>6. CASE WorkEnds
    <3>1. FinalizeSources /\ taken /\ row' = [row EXCEPT !.status = "completed"]
      BY <1>1, <2>6 DEF WorkEnds
    <3>2. row'.manifest = row.manifest
      <4> HIDE DEF Status, Phase, SubmissionState, Manifest, Versions
      <4> QED BY <2>1, <3>1 DEF Row
    <3>3. SignatureIsCurrent /\ registry'.consumed = registry.version
      BY <1>1, <2>1, <3>1, FinalizeConsumes
    <3>4. sent # NoManifest /\ row.manifest # NoManifest
      BY <2>1, <3>1 DEF RowInv
    <3> QED BY <1>1, <3>2, <3>3, <3>4, OfTheCurrent
  <2> QED BY <1>1, <2>2, <2>4, <2>5, <2>6, OthersConsumeNothing
<1>2. IInv /\ [Next]_vars => [registry'.consumed # registry.consumed => Delivered]_vars
  BY <1>1
<1> QED BY <1>2, PreparationInvariant, PTL DEF Spec, ConsumedIsDelivered
===============================================================================
