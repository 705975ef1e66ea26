------------------------ MODULE SourceRegistryProofs ------------------------
(***************************************************************************)
(* Proofs about SourceRegistry for every number of sources, versions,      *)
(* batches, runners, ticks, executions and faults.  The argument: a batch  *)
(* that was delivered once has one handler at most, so what that handler   *)
(* saw in the archive is at least as new as the row of a source its batch  *)
(* still claims; and an execution that completed keeps the signatures it   *)
(* was admitted with.                                                      *)
(***************************************************************************)
EXTENDS SourceRegistry, TLAPS

\* The row of one source: its type, and a claim that runs has a token.
RowOK(row) ==
    /\ row \in Entry
    /\ row.dlive => row.dtoken # NoBatch
    /\ row.wlive => row.wtoken # NoTick

RegOK(rr) == rr \in [Sources -> Entry] /\ \A s \in Sources : RowOK(rr[s])

\* The registry alone keeps TypeOK together.
LEMMA TypeParts ==
  TypeOK <=> /\ archive \in [Sources -> 1..MaxVersion]
             /\ RegOK(reg)
             /\ batch \in [Batches -> Batch]
             /\ runner \in [Runners -> Runner]
             /\ tick \in [Ticks -> Tick]
             /\ exec \in [Execs -> Exec]
             /\ upsets \in 0..MaxUpsets
BY DEF TypeOK, RegOK, RowOK

\* A write to one row.
LEMMA OneRow ==
  ASSUME RegOK(reg), NEW s \in Sources, NEW row, RowOK(row)
  PROVE  RegOK([reg EXCEPT ![s] = row])
<1>1. row \in Entry
  BY DEF RowOK
<1>2. [reg EXCEPT ![s] = row] \in [Sources -> Entry]
  BY <1>1 DEF RegOK
<1>3. \A t \in Sources : RowOK([reg EXCEPT ![s] = row][t])
  BY DEF RegOK
<1> QED BY <1>2, <1>3 DEF RegOK

\* A write to any rows.
LEMMA AllRows ==
  ASSUME reg' = [s \in Sources |-> reg'[s]], \A s \in Sources : RowOK(reg'[s])
  PROVE  RegOK(reg')
BY DEF RegOK, RowOK

\* Claims that are given, ...
LEMMA ClaimTypes ==
  ASSUME NEW row, RowOK(row), NEW b \in Batches
  PROVE  RowOK([row EXCEPT !.dtoken = b, !.dlive = TRUE])
<1>1. row \in Entry /\ b # NoBatch
  BY RegistryAssumption DEF RowOK
<1> QED BY <1>1 DEF RowOK, Entry

\* The same for the claims of the execution scheduler.
LEMMA AdmissionTypes ==
  ASSUME NEW row, RowOK(row), NEW k \in Ticks
  PROVE  RowOK([row EXCEPT !.wtoken = k, !.wlive = TRUE])
<1>1. row \in Entry /\ k # NoTick
  BY RegistryAssumption DEF RowOK
<1> QED BY <1>1 DEF RowOK, Entry

\* ... claims that end or run out, and checks that grow stale.
LEMMA ReleaseTypes ==
  ASSUME NEW row, RowOK(row)
  PROVE  /\ RowOK([row EXCEPT !.dtoken = NoBatch, !.dlive = FALSE])
         /\ RowOK([row EXCEPT !.wtoken = NoTick, !.wlive = FALSE])
         /\ RowOK([row EXCEPT !.dlive = FALSE])
         /\ RowOK([row EXCEPT !.wlive = FALSE])
         /\ RowOK([row EXCEPT !.checked = "stale"])
         /\ RowOK([row EXCEPT !.checked = "fresh"])
         /\ RowOK([row EXCEPT !.checked = "never", !.dtoken = NoBatch, !.dlive = FALSE,
                              !.wtoken = NoTick, !.wlive = FALSE])
<1>1. row \in Entry
  BY DEF RowOK
<1>2. RowOK([row EXCEPT !.dtoken = NoBatch, !.dlive = FALSE])
  BY <1>1 DEF RowOK, Entry
<1>3. RowOK([row EXCEPT !.wtoken = NoTick, !.wlive = FALSE])
  BY <1>1 DEF RowOK, Entry
<1>4. RowOK([row EXCEPT !.dlive = FALSE]) /\ RowOK([row EXCEPT !.wlive = FALSE])
  BY <1>1 DEF RowOK, Entry
<1>5. RowOK([row EXCEPT !.checked = "stale"]) /\ RowOK([row EXCEPT !.checked = "fresh"])
  BY <1>1 DEF RowOK, Entry
<1>6. RowOK([row EXCEPT !.checked = "never", !.dtoken = NoBatch, !.dlive = FALSE,
                       !.wtoken = NoTick, !.wlive = FALSE])
  <2> DEFINE new == [row EXCEPT !.checked = "never", !.dtoken = NoBatch, !.dlive = FALSE,
                                !.wtoken = NoTick, !.wlive = FALSE]
  <2>1. new \in Entry
    BY <1>1 DEF Entry
  <2>2. new.dlive = FALSE /\ new.wlive = FALSE
    BY <1>1 DEF Entry
  <2> QED BY <2>1, <2>2 DEF RowOK
<1> QED BY <1>2, <1>3, <1>4, <1>5, <1>6

\* Persisting the answer v sets the signature to v and the check to fresh.
LEMMA PersistedRow ==
  ASSUME NEW row \in Entry, NEW v
  PROVE  \E p \in BOOLEAN :
           Persisted(row, v) = [row EXCEPT !.sig = v, !.checked = "fresh", !.pending = p]
<1>1. CASE v \in Empty
  <2>1. Persisted(row, v) = [row EXCEPT !.sig = v, !.checked = "fresh",
                                        !.pending = row.pending]
    BY <1>1 DEF Persisted, NoRecords, Entry
  <2> QED BY <2>1 DEF Entry
<1>2. CASE v \notin Empty /\ v = row.sig
  <2>1. Persisted(row, v) = [row EXCEPT !.sig = v, !.checked = "fresh",
                                        !.pending = row.pending]
    BY <1>2 DEF Persisted, Unchanged, Entry
  <2> QED BY <2>1 DEF Entry
<1>3. CASE v \notin Empty /\ v # row.sig
  <2>1. Persisted(row, v) = [row EXCEPT !.sig = v, !.checked = "fresh", !.pending = TRUE]
    BY <1>3 DEF Persisted, Changed
  <2> QED BY <2>1
<1> QED BY <1>1, <1>2, <1>3

\* The records that end, lose or deliver a job, and those of its handler.
LEMMA JobTypes ==
  /\ NoJob \in Batch /\ IdleRunner \in Runner /\ IdleTick \in Tick
  /\ \A x \in Batch, j \in {"none", "claimed", "queued", "running"} :
       [x EXCEPT !.job = j] \in Batch /\ [x EXCEPT !.job = j, !.again = TRUE] \in Batch
  /\ \A x \in Runner : [x EXCEPT !.holder = FALSE] \in Runner
<1>1. NoJob \in Batch /\ IdleTick \in Tick
  BY DEF NoJob, Batch, IdleTick, Tick
<1>2. IdleRunner \in Runner
  BY RegistryAssumption DEF IdleRunner, Runner, Nothing, Signature
<1>3. \A x \in Batch, j \in {"none", "claimed", "queued", "running"} :
        [x EXCEPT !.job = j] \in Batch /\ [x EXCEPT !.job = j, !.again = TRUE] \in Batch
  BY DEF Batch
<1>4. \A x \in Runner : [x EXCEPT !.holder = FALSE] \in Runner
  BY DEF Runner
<1> QED BY <1>1, <1>2, <1>3, <1>4

\* The initial registry knows nothing and nothing is claimed.
LEMMA InitTypes == Init => TypeOK
<1> SUFFICES ASSUME Init PROVE TypeOK
  OBVIOUS
<1>1. archive \in [Sources -> 1..MaxVersion] /\ upsets \in 0..MaxUpsets
  BY RegistryAssumption DEF Init
<1>2. RegOK(reg)
  BY RegistryAssumption DEF Init, RegOK, RowOK, Entry, Signature
<1>3. batch \in [Batches -> Batch]
  BY DEF Init, Batch, NoJob
<1>4. runner \in [Runners -> Runner]
  BY RegistryAssumption DEF Init, Runner, IdleRunner, Nothing, Signature
<1>5. tick \in [Ticks -> Tick]
  BY DEF Init, Tick, IdleTick
<1>6. exec \in [Execs -> Exec]
  BY RegistryAssumption DEF Init, Exec, Nothing, Signature
<1> QED BY <1>1, <1>2, <1>3, <1>4, <1>5, <1>6, TypeParts

\* Discovery keeps the types.
LEMMA DiscoveryTypes ==
  ASSUME TypeOK, Discovery
  PROVE  TypeOK'
<1>0. /\ archive \in [Sources -> 1..MaxVersion]
      /\ RegOK(reg)
      /\ batch \in [Batches -> Batch]
      /\ runner \in [Runners -> Runner]
      /\ tick \in [Ticks -> Tick]
      /\ exec \in [Execs -> Exec]
      /\ upsets \in 0..MaxUpsets
      /\ MaxUpsets \in Nat
  BY TypeParts, RegistryAssumption
<1>1. ASSUME NEW b \in Batches, ClaimSources(b) PROVE TypeOK'
  <2>1. PICK ss \in SUBSET Sources :
          /\ reg' = [s \in Sources |->
                IF s \in ss THEN [reg[s] EXCEPT !.dtoken = b, !.dlive = TRUE] ELSE reg[s]]
          /\ batch' = [batch EXCEPT ![b] = [NoJob EXCEPT !.job = "claimed", !.src = ss]]
    BY <1>1 DEF ClaimSources, ClaimForDiscovery, FirstFew, StaleAndUnclaimed
  <2>2. RegOK(reg')
    <3>1. ASSUME NEW s \in Sources PROVE RowOK(reg'[s])
      <4>1. RowOK(reg[s])
        BY <1>0 DEF RegOK
      <4>2. reg'[s] = reg[s] \/ reg'[s] = [reg[s] EXCEPT !.dtoken = b, !.dlive = TRUE]
        BY <2>1
      <4>3. RowOK([reg[s] EXCEPT !.dtoken = b, !.dlive = TRUE])
        BY <4>1, ClaimTypes
      <4> QED BY <4>1, <4>2, <4>3
    <3> QED BY <2>1, <3>1, AllRows
  <2>3. batch' \in [Batches -> Batch]
    BY <1>0, <2>1 DEF Batch, NoJob
  <2> QED BY <1>0, <1>1, <2>2, <2>3 DEF ClaimSources, TypeOK, RegOK, RowOK
<1>2. ASSUME NEW b \in Batches, EnqueueBatch(b) \/ EnqueueLost(b) PROVE TypeOK'
  <2>1. batch' \in [Batches -> Batch]
    <3>1. batch' \in {[batch EXCEPT ![b] = NoJob],
                     [batch EXCEPT ![b] = [batch[b] EXCEPT !.job = "queued"]]}
      BY <1>0, <1>2 DEF EnqueueBatch, EnqueueLost
    <3>2. NoJob \in Batch /\ [batch[b] EXCEPT !.job = "queued"] \in Batch
      BY <1>0, JobTypes
    <3> QED BY <1>0, <3>1, <3>2
  <2>2. upsets' \in 0..MaxUpsets
    BY <1>0, <1>2 DEF EnqueueBatch, EnqueueLost, Upset
  <2> QED
    BY <1>0, <1>2, <2>1, <2>2 DEF EnqueueBatch, EnqueueLost, TypeOK, RegOK, RowOK
<1>3. ASSUME NEW r \in Runners, NEW b \in Batches, StartBatch(r, b) PROVE TypeOK'
  <2>1. batch' \in [Batches -> Batch]
    BY <1>0, <1>3 DEF StartBatch, Batch
  <2>2. runner' \in [Runners -> Runner]
    BY <1>0, <1>3, RegistryAssumption DEF StartBatch, Batch, Runner, Nothing, Signature
  <2> QED BY <1>0, <1>3, <2>1, <2>2 DEF StartBatch, TypeOK, RegOK, RowOK
<1>4. ASSUME NEW r \in Runners, Query(r) PROVE TypeOK'
  <2> DEFINE kept == {s \in runner[r].todo : Cached(s)}
             asked == runner[r].todo \ kept
             answers == [s \in Sources |-> IF s \in asked THEN archive[s] ELSE 0]
             new == [runner[r] EXCEPT !.pc = "persist", !.todo = asked, !.kept = kept,
                                      !.seen = answers]
  <2>1. answers \in [Sources -> Signature]
    BY <1>0, RegistryAssumption DEF Signature
  <2>2. kept \in SUBSET Sources /\ asked \in SUBSET Sources /\ runner[r] \in Runner
    BY <1>0 DEF Runner
  <2>3. runner' = [runner EXCEPT ![r] = new]
    BY <1>0, <1>4 DEF Query, Answer
  <2>4. runner' \in [Runners -> Runner]
    <3> HIDE DEF answers, asked, kept
    <3>1. new \in Runner
      BY <2>1, <2>2 DEF Runner
    <3> HIDE DEF new
    <3> QED BY <1>0, <2>3, <3>1
  <2> QED BY <1>0, <1>4, <2>4 DEF Query, TypeOK, RegOK, RowOK
<1>5. ASSUME NEW r \in Runners, NEW s \in Sources, QueryFails(r, s) PROVE TypeOK'
  <2>1. runner' \in [Runners -> Runner]
    <3>1. runner' = [runner EXCEPT ![r] = [runner[r] EXCEPT !.todo = @ \ {s}]]
      BY <1>0, <1>5 DEF QueryFails
    <3>2. runner[r] \in Runner
      BY <1>0
    <3>3. [runner[r] EXCEPT !.todo = @ \ {s}] \in Runner
      BY <3>2 DEF Runner
    <3> QED BY <1>0, <3>1, <3>3
  <2>2. upsets' \in 0..MaxUpsets
    BY <1>0, <1>5 DEF QueryFails, Upset
  <2> QED BY <1>0, <1>5, <2>1, <2>2 DEF QueryFails, TypeOK, RegOK, RowOK
<1>6. ASSUME NEW r \in Runners, NEW s \in Sources, PersistSource(r, s) PROVE TypeOK'
  <2>1. runner' \in [Runners -> Runner]
    <3>1. runner' = [runner EXCEPT ![r] = [runner[r] EXCEPT !.todo = @ \ {s}]]
      BY <1>0, <1>6 DEF PersistSource
    <3>2. runner[r] \in Runner
      BY <1>0
    <3>3. [runner[r] EXCEPT !.todo = @ \ {s}] \in Runner
      BY <3>2 DEF Runner
    <3> QED BY <1>0, <3>1, <3>3
  <2>2. runner[r].seen[s] \in Signature
    BY <1>0 DEF Runner
  <2>3. RegOK(reg')
    <3>1. CASE reg' = reg
      BY <1>0, <3>1
    <3>2. CASE reg' # reg
      <4>1. PICK p \in BOOLEAN :
              reg' = [reg EXCEPT ![s] = [reg[s] EXCEPT !.sig = runner[r].seen[s],
                                           !.checked = "fresh", !.pending = p]]
        <5>1. reg[s] \in Entry
          BY <1>0 DEF RegOK
        <5>2. reg' = [reg EXCEPT ![s] = Persisted(reg[s], runner[r].seen[s])]
          BY <1>6, <3>2, <1>0 DEF PersistSource, RegOK
        <5> QED BY <5>1, <5>2, PersistedRow
      <4>2. RowOK(reg[s])
        BY <1>0 DEF RegOK
      <4>3. RowOK([reg[s] EXCEPT !.sig = runner[r].seen[s], !.checked = "fresh",
                                 !.pending = p])
        BY <2>2, <4>1, <4>2 DEF RowOK, Entry
      <4> QED BY <1>0, <4>1, <4>3, OneRow
    <3> QED BY <3>1, <3>2
  <2> QED BY <1>0, <1>6, <2>1, <2>3 DEF PersistSource, TypeOK, RegOK, RowOK
<1>7. ASSUME NEW r \in Runners, ReleaseBatch(r) PROVE TypeOK'
  <2>1. runner' \in [Runners -> Runner]
    BY <1>0, <1>7 DEF ReleaseBatch, Runner
  <2>2. RegOK(reg')
    <3>1. ASSUME NEW s \in Sources PROVE RowOK(reg'[s])
      <4>1. RowOK(reg[s])
        BY <1>0 DEF RegOK
      <4>2. \/ reg'[s] = reg[s]
            \/ reg'[s] = [reg[s] EXCEPT !.dtoken = NoBatch, !.dlive = FALSE]
        BY <1>7 DEF ReleaseBatch
      <4> QED BY <4>1, <4>2, ReleaseTypes
    <3>2. reg' = [s \in Sources |-> reg'[s]]
      BY <1>7 DEF ReleaseBatch
    <3> QED BY <3>1, <3>2, AllRows
  <2> QED BY <1>0, <1>7, <2>1, <2>2 DEF ReleaseBatch, TypeOK, RegOK, RowOK
<1>8. ASSUME NEW r \in Runners, SettleBatch(r) \/ LoseRunner(r) \/ LoseLease(r)
      PROVE  TypeOK'
  <2> DEFINE b == runner[r].batch
  <2>1. batch' \in [Batches -> Batch]
    <3>1. batch' \in {batch, [batch EXCEPT ![b] = NoJob],
                     [batch EXCEPT ![b] = [batch[b] EXCEPT !.job = "none"]],
                     [batch EXCEPT ![b] = [batch[b] EXCEPT !.job = "queued", !.again = TRUE]]}
      BY <1>0, <1>8 DEF SettleBatch, LoseRunner, LoseLease, Ended, Requeued
    <3>2. CASE b \in Batches
      <4>1. batch[b] \in Batch
        BY <1>0, <3>2
      <4> QED BY <1>0, <3>1, <4>1, JobTypes
    <3>3. CASE b \notin Batches
      BY <1>0, <3>1, <3>3
    <3> QED BY <3>2, <3>3
  <2>2. runner' \in [Runners -> Runner]
    <3>1. runner' \in {[runner EXCEPT ![r] = IdleRunner],
                      [runner EXCEPT ![r] = [runner[r] EXCEPT !.holder = FALSE]]}
      BY <1>0, <1>8 DEF SettleBatch, LoseRunner, LoseLease
    <3> QED BY <1>0, <3>1, JobTypes
  <2>3. upsets' \in 0..MaxUpsets
    BY <1>0, <1>8 DEF SettleBatch, LoseRunner, LoseLease, Upset
  <2> QED
    BY <1>0, <1>8, <2>1, <2>2, <2>3
    DEF SettleBatch, LoseRunner, LoseLease, TypeOK, RegOK, RowOK
<1>9. ASSUME NEW s \in Sources,
             DeadClaimExpires(s) \/ ClaimExpires(s) \/ GoStale(s)
      PROVE  TypeOK'
  <2>1. RegOK(reg')
    <3>1. reg' \in {[reg EXCEPT ![s] = [reg[s] EXCEPT !.dlive = FALSE]],
                   [reg EXCEPT ![s] = [reg[s] EXCEPT !.checked = "stale"]]}
      BY <1>0, <1>9 DEF DeadClaimExpires, ClaimExpires, GoStale, RegOK
    <3>2. RowOK(reg[s])
      BY <1>0 DEF RegOK
    <3>3. /\ RowOK([reg[s] EXCEPT !.dlive = FALSE])
          /\ RowOK([reg[s] EXCEPT !.checked = "stale"])
      BY <3>2, ReleaseTypes
    <3>4. PICK row : RowOK(row) /\ reg' = [reg EXCEPT ![s] = row]
      BY <3>1, <3>3
    <3> QED BY <1>0, <3>4, OneRow
  <2>2. upsets' \in 0..MaxUpsets
    BY <1>0, <1>9 DEF DeadClaimExpires, ClaimExpires, GoStale, Upset
  <2> QED
    BY <1>0, <1>9, <2>1, <2>2
    DEF DeadClaimExpires, ClaimExpires, GoStale, TypeOK, RegOK, RowOK
<1>10. ASSUME NEW s \in Sources, ArchiveChanges(s) PROVE TypeOK'
  <2>1. archive' \in [Sources -> 1..MaxVersion]
    BY <1>0, <1>10, RegistryAssumption DEF ArchiveChanges
  <2> QED BY <1>0, <1>10, <2>1 DEF ArchiveChanges, TypeOK, RegOK, RowOK
<1>11. ASSUME NEW r \in Runners, CheckKept(r) PROVE TypeOK'
  <2>1. runner' \in [Runners -> Runner]
    BY <1>0, <1>11 DEF CheckKept, Runner
  <2>2. RegOK(reg')
    <3>1. ASSUME NEW s \in Sources PROVE RowOK(reg'[s])
      <4>1. RowOK(reg[s])
        BY <1>0 DEF RegOK
      <4>2. reg'[s] = reg[s] \/ reg'[s] = [reg[s] EXCEPT !.checked = "fresh"]
        BY <1>11 DEF CheckKept
      <4> QED BY <4>1, <4>2, ReleaseTypes
    <3>2. reg' = [s \in Sources |-> reg'[s]]
      BY <1>11 DEF CheckKept
    <3> QED BY <3>1, <3>2, AllRows
  <2> QED BY <1>0, <1>11, <2>1, <2>2 DEF CheckKept, TypeOK, RegOK, RowOK
<1> QED
  BY <1>1, <1>2, <1>3, <1>4, <1>5, <1>6, <1>7, <1>8, <1>9, <1>10, <1>11 DEF Discovery

\* The writers of workflow_run_pending.
LEMMA PendingTypes ==
  ASSUME TypeOK, NEW ss, ClearPending(ss) \/ MarkPending(ss)
  PROVE  RegOK(reg')
<1>1. RegOK(reg)
  BY TypeParts
<1>2. ASSUME NEW s \in Sources
      PROVE  /\ RowOK(reg[s])
             /\ RowOK([reg[s] EXCEPT !.pending = FALSE, !.wtoken = NoTick, !.wlive = FALSE])
             /\ RowOK([reg[s] EXCEPT !.pending = TRUE, !.wtoken = NoTick, !.wlive = FALSE])
  BY <1>1 DEF RegOK, RowOK, Entry
<1>3. CASE ClearPending(ss)
  BY <1>2, <1>3 DEF ClearPending, RegOK, RowOK
<1>4. CASE MarkPending(ss)
  BY <1>2, <1>4 DEF MarkPending, RegOK, RowOK
<1> QED BY <1>3, <1>4

\* The end of a completed execution.
LEMMA FinalizeTypes ==
  ASSUME TypeOK, NEW e, FinalizeSources(e)
  PROVE  RegOK(reg')
<1>1. RegOK(reg)
  BY TypeParts
<1>2. ASSUME NEW s \in Sources
      PROVE  /\ RowOK(reg[s])
             /\ RowOK([reg[s] EXCEPT !.pending = TRUE])
             /\ RowOK([reg[s] EXCEPT !.pending = FALSE, !.last = reg[s].sig,
                                     !.wtoken = NoTick, !.wlive = FALSE])
  BY <1>1 DEF RegOK, RowOK, Entry
<1>3. /\ reg' = [s \in Sources |-> reg'[s]]
      /\ \A s \in Sources :
           reg'[s] \in {reg[s], [reg[s] EXCEPT !.pending = TRUE],
                       [reg[s] EXCEPT !.pending = FALSE, !.last = reg[s].sig,
                                      !.wtoken = NoTick, !.wlive = FALSE]}
  BY DEF FinalizeSources
<1>4. \A s \in Sources : RowOK(reg'[s])
  BY <1>2, <1>3
<1> QED BY <1>3, <1>4 DEF RegOK, RowOK

\* The execution scheduler's tick keeps the types.
LEMMA SchedulingTypes ==
  ASSUME TypeOK, Scheduling
  PROVE  TypeOK'
<1>0. /\ archive \in [Sources -> 1..MaxVersion]
      /\ RegOK(reg)
      /\ batch \in [Batches -> Batch]
      /\ runner \in [Runners -> Runner]
      /\ tick \in [Ticks -> Tick]
      /\ exec \in [Execs -> Exec]
      /\ upsets \in 0..MaxUpsets
      /\ MaxUpsets \in Nat
  BY TypeParts, RegistryAssumption
<1>1. ASSUME NEW k \in Ticks, TickClaim(k) PROVE TypeOK'
  <2>1. PICK ss \in SUBSET Sources :
          /\ reg' = [s \in Sources |->
                IF s \in ss THEN [reg[s] EXCEPT !.wtoken = k, !.wlive = TRUE] ELSE reg[s]]
          /\ tick' = [tick EXCEPT ![k] = [IdleTick EXCEPT !.pc = "partition", !.src = ss,
                                                          !.todo = ss]]
    BY <1>1 DEF TickClaim, ClaimForAdmission, FirstFew, PendingAndUnclaimed
  <2>2. RegOK(reg')
    <3>1. ASSUME NEW s \in Sources PROVE RowOK(reg'[s])
      <4>1. RowOK(reg[s])
        BY <1>0 DEF RegOK
      <4>2. reg'[s] = reg[s] \/ reg'[s] = [reg[s] EXCEPT !.wtoken = k, !.wlive = TRUE]
        BY <2>1
      <4>3. RowOK([reg[s] EXCEPT !.wtoken = k, !.wlive = TRUE])
        BY <4>1, AdmissionTypes
      <4> QED BY <4>1, <4>2, <4>3
    <3> QED BY <2>1, <3>1, AllRows
  <2>3. tick' \in [Ticks -> Tick]
    BY <1>0, <2>1 DEF Tick, IdleTick
  <2> QED BY <1>0, <1>1, <2>2, <2>3 DEF TickClaim, TypeOK, RegOK, RowOK
<1>2. ASSUME NEW k \in Ticks, TickPartition(k) PROVE TypeOK'
  <2>1. PICK already \in SUBSET Sources, valid \in SUBSET Sources,
             todo \in SUBSET Sources,
             pc \in {"sweep", "create", "clear", "partition"} :
          tick' = [tick EXCEPT ![k].already = already, ![k].valid = valid,
                               ![k].todo = todo, ![k].pc = pc]
    <3>1. PICK chunk \in SUBSET tick[k].todo :
            LET already == {s \in chunk : AlreadyExecuted(s)}
                valid == {s \in chunk \ already : Ready(s)}
                todo == tick[k].todo \ chunk
            IN tick' = [tick EXCEPT ![k].already = already, ![k].valid = valid,
                                    ![k].todo = todo,
                                    ![k].pc = IF already # {} THEN "sweep"
                                              ELSE IF valid # {} THEN "create"
                                              ELSE AfterChunk(todo)]
      BY <1>2 DEF TickPartition, FirstFew
    <3>2. tick[k].todo \in SUBSET Sources
      BY <1>0 DEF Tick
    <3> DEFINE already == {s \in chunk : AlreadyExecuted(s)}
               valid == {s \in chunk \ already : Ready(s)}
               todo == tick[k].todo \ chunk
               pc == IF already # {} THEN "sweep"
                     ELSE IF valid # {} THEN "create" ELSE AfterChunk(todo)
    <3>3. /\ already \in SUBSET Sources /\ valid \in SUBSET Sources
          /\ todo \in SUBSET Sources
      BY <3>1, <3>2
    <3>4. pc \in {"sweep", "create", "clear", "partition"}
      BY DEF AfterChunk
    <3>5. tick' = [tick EXCEPT ![k].already = already, ![k].valid = valid,
                               ![k].todo = todo, ![k].pc = pc]
      BY <3>1
    <3> HIDE DEF already, valid, todo, pc
    <3> QED BY <3>3, <3>4, <3>5
  <2>2. tick' \in [Ticks -> Tick]
    <3>1. tick[k] \in Tick
      BY <1>0
    <3>2. [tick[k] EXCEPT !.already = already, !.valid = valid, !.todo = todo,
                          !.pc = pc] \in Tick
      BY <3>1 DEF Tick
    <3>3. tick' = [tick EXCEPT ![k] = [tick[k] EXCEPT !.already = already,
                                 !.valid = valid, !.todo = todo, !.pc = pc]]
      BY <1>0, <2>1
    <3> QED BY <1>0, <3>2, <3>3
  <2> QED BY <1>0, <1>2, <2>2 DEF TickPartition, TypeOK, RegOK, RowOK
<1>3. ASSUME NEW k \in Ticks, TickSweep(k) \/ TickClear(k) PROVE TypeOK'
  <2>1. RegOK(reg')
    BY <1>3, PendingTypes DEF TickSweep, TickClear
  <2>2. tick' \in [Ticks -> Tick]
    BY <1>0, <1>3 DEF TickSweep, TickClear, AfterChunk, Tick
  <2> QED
    BY <1>0, <1>3, <2>1, <2>2 DEF TickSweep, TickClear, TypeOK, RegOK, RowOK
<1>4. ASSUME NEW k \in Ticks, TickCreate(k) PROVE TypeOK'
  <2>1. PICK e \in Execs :
          exec' = [exec EXCEPT ![e].status = "admitted", ![e].src = tick[k].valid,
                               ![e].sig = [s \in Sources |->
                                  IF s \in tick[k].valid THEN reg[s].sig ELSE 0]]
    BY <1>4 DEF TickCreate
  <2>2. [s \in Sources |-> IF s \in tick[k].valid THEN reg[s].sig ELSE 0]
           \in [Sources -> Signature]
    BY <1>0, RegistryAssumption DEF RegOK, RowOK, Entry, Signature
  <2>3. tick[k].valid \in SUBSET Sources
    BY <1>0 DEF Tick
  <2>4. exec' \in [Execs -> Exec]
    <3> DEFINE sig == [s \in Sources |-> IF s \in tick[k].valid THEN reg[s].sig ELSE 0]
               new == [exec[e] EXCEPT !.status = "admitted", !.src = tick[k].valid,
                                      !.sig = sig]
    <3>1. exec' = [exec EXCEPT ![e] = new]
      BY <1>0, <2>1
    <3>2. sig \in [Sources -> Signature] /\ exec[e] \in Exec
      BY <1>0, <2>2
    <3> HIDE DEF sig
    <3>3. new \in Exec
      BY <3>2, <2>3 DEF Exec
    <3> QED BY <1>0, <3>1, <3>3
  <2>5. tick' \in [Ticks -> Tick]
    <3> DEFINE new == [tick[k] EXCEPT !.admitted = @ \cup tick[k].valid, !.valid = {},
                                      !.pc = AfterChunk(tick[k].todo)]
    <3>1. tick' = [tick EXCEPT ![k] = new]
      BY <1>0, <1>4 DEF TickCreate
    <3>2. tick[k] \in Tick /\ AfterChunk(tick[k].todo) \in {"clear", "partition"}
      BY <1>0 DEF AfterChunk
    <3>3. new \in Tick
      BY <3>2 DEF Tick
    <3> QED BY <1>0, <3>1, <3>3
  <2> QED BY <1>0, <1>4, <2>4, <2>5 DEF TickCreate, TypeOK, RegOK, RowOK
<1>5. ASSUME NEW k \in Ticks, TickCapped(k) PROVE TypeOK'
  <2>1. tick' \in [Ticks -> Tick]
    BY <1>0, <1>5 DEF TickCapped, Tick
  <2> QED BY <1>0, <1>5, <2>1 DEF TickCapped, TypeOK, RegOK, RowOK
<1>6. ASSUME NEW k \in Ticks, TickRelease(k) PROVE TypeOK'
  <2>1. RegOK(reg')
    <3>1. ASSUME NEW s \in Sources PROVE RowOK(reg'[s])
      <4>1. RowOK(reg[s])
        BY <1>0 DEF RegOK
      <4>2. \/ reg'[s] = reg[s]
            \/ reg'[s] = [reg[s] EXCEPT !.wtoken = NoTick, !.wlive = FALSE]
        BY <1>6 DEF TickRelease
      <4> QED BY <4>1, <4>2, ReleaseTypes
    <3>2. reg' = [s \in Sources |-> reg'[s]]
      BY <1>6 DEF TickRelease
    <3> QED BY <3>1, <3>2, AllRows
  <2>2. tick' \in [Ticks -> Tick]
    BY <1>0, <1>6, JobTypes DEF TickRelease
  <2> QED BY <1>0, <1>6, <2>1, <2>2 DEF TickRelease, TypeOK, RegOK, RowOK
<1>7. ASSUME NEW k \in Ticks, TickDies(k) PROVE TypeOK'
  <2>1. tick' \in [Ticks -> Tick]
    BY <1>0, <1>7, JobTypes DEF TickDies
  <2>2. upsets' \in 0..MaxUpsets
    BY <1>0, <1>7 DEF TickDies, Upset
  <2> QED BY <1>0, <1>7, <2>1, <2>2 DEF TickDies, TypeOK, RegOK, RowOK
<1>8. ASSUME NEW s \in Sources, DeadAdmissionExpires(s) \/ AdmissionExpires(s)
      PROVE  TypeOK'
  <2>1. RegOK(reg')
    <3>1. reg' = [reg EXCEPT ![s] = [reg[s] EXCEPT !.wlive = FALSE]]
      BY <1>0, <1>8 DEF DeadAdmissionExpires, AdmissionExpires, RegOK
    <3>2. RowOK(reg[s])
      BY <1>0 DEF RegOK
    <3>3. RowOK([reg[s] EXCEPT !.wlive = FALSE])
      BY <3>2, ReleaseTypes
    <3> QED BY <1>0, <3>1, <3>3, OneRow
  <2>2. upsets' \in 0..MaxUpsets
    BY <1>0, <1>8 DEF DeadAdmissionExpires, AdmissionExpires, Upset
  <2> QED
    BY <1>0, <1>8, <2>1, <2>2
    DEF DeadAdmissionExpires, AdmissionExpires, TypeOK, RegOK, RowOK
<1> QED
  BY <1>1, <1>2, <1>3, <1>4, <1>5, <1>6, <1>7, <1>8 DEF Scheduling

\* What the executions write back keeps the types.
LEMMA ExecutingTypes ==
  ASSUME TypeOK, NEW e \in Execs,
         \/ Dispatch(e) \/ ExecuteFails(e) \/ Remark(e) \/ CompleteVerified(e)
         \/ PollEnds(e) \/ Finalize(e) \/ ClearCancelled(e) \/ OwedIsLost(e)
         \/ Retry(e) \/ Cancel(e)
  PROVE  TypeOK'
<1>0. /\ archive \in [Sources -> 1..MaxVersion]
      /\ RegOK(reg)
      /\ batch \in [Batches -> Batch]
      /\ runner \in [Runners -> Runner]
      /\ tick \in [Ticks -> Tick]
      /\ exec \in [Execs -> Exec]
      /\ upsets \in 0..MaxUpsets
      /\ MaxUpsets \in Nat
  BY TypeParts, RegistryAssumption
<1>1. /\ UNCHANGED <<archive, batch, runner, tick>>
      /\ upsets' \in 0..MaxUpsets
  BY <1>0 DEF Dispatch, ExecuteFails, Remark, CompleteVerified, PollEnds, Finalize,
              ClearCancelled, OwedIsLost, Retry, Cancel, Upset
<1>2. RegOK(reg')
  <2>1. CASE Remark(e) \/ ClearCancelled(e) \/ Retry(e)
    BY <2>1, PendingTypes DEF Remark, ClearCancelled, Retry
  <2>2. CASE CompleteVerified(e) \/ Finalize(e)
    BY <2>2, FinalizeTypes DEF CompleteVerified, Finalize
  <2>3. CASE \/ Dispatch(e) \/ ExecuteFails(e) \/ PollEnds(e) \/ OwedIsLost(e) \/ Cancel(e)
    BY <1>0, <2>3 DEF Dispatch, ExecuteFails, PollEnds, OwedIsLost, Cancel
  <2> QED BY <2>1, <2>2, <2>3
<1>3. exec' \in [Execs -> Exec]
  <2>0. exec[e] \in Exec
    BY <1>0
  <2>1. PICK new \in Exec : exec' = [exec EXCEPT ![e] = new]
    <3>1. CASE Dispatch(e)
      <4>1. [exec[e] EXCEPT !.status = "running", !.outside = TRUE] \in Exec
        BY <2>0 DEF Exec
      <4> QED BY <1>0, <3>1, <4>1 DEF Dispatch
    <3>2. CASE ExecuteFails(e) \/ PollEnds(e)
      <4>1. PICK st \in {"failed", "completed", "cancelled"},
                 ow \in {"remark", "pollremark", "finalize", "clear"} :
              exec' = [exec EXCEPT ![e] = [exec[e] EXCEPT !.status = st, !.owes = ow]]
        <5>1. CASE ExecuteFails(e)
          BY <1>0, <5>1 DEF ExecuteFails
        <5>2. CASE PollEnds(e)
          <6>1. PICK end \in {"completed", "failed", "cancelled"} :
                  exec' = [exec EXCEPT ![e].status = end, ![e].owes = Owed[end]]
            BY <5>2 DEF PollEnds
          <6>2. Owed[end] \in {"remark", "pollremark", "finalize", "clear"}
            BY <6>1 DEF Owed
          <6>3. exec' = [exec EXCEPT ![e] = [exec[e] EXCEPT !.status = end,
                                                            !.owes = Owed[end]]]
            BY <1>0, <6>1
          <6> QED BY <6>2, <6>3
        <5> QED BY <3>2, <5>1, <5>2
      <4>2. [exec[e] EXCEPT !.status = st, !.owes = ow] \in Exec
        BY <2>0 DEF Exec
      <4> QED BY <4>1, <4>2
    <3>3. CASE CompleteVerified(e) \/ Retry(e) \/ Cancel(e)
      <4>1. PICK st \in {"completed", "admitted", "cancelled"} :
              exec' = [exec EXCEPT ![e] = [exec[e] EXCEPT !.status = st]]
        BY <1>0, <3>3 DEF CompleteVerified, Retry, Cancel
      <4>2. [exec[e] EXCEPT !.status = st] \in Exec
        BY <2>0 DEF Exec
      <4> QED BY <4>1, <4>2
    <3>4. CASE Remark(e) \/ Finalize(e) \/ ClearCancelled(e) \/ OwedIsLost(e)
      <4>1. [exec[e] EXCEPT !.owes = "nothing"] \in Exec
        BY <2>0 DEF Exec
      <4> QED BY <1>0, <3>4, <4>1 DEF Remark, Finalize, ClearCancelled, OwedIsLost
    <3> QED BY <3>1, <3>2, <3>3, <3>4
  <2> QED BY <1>0, <2>1
<1> QED BY <1>0, <1>1, <1>2, <1>3 DEF TypeOK, RegOK, RowOK

\* Every variable keeps its type in every step.
LEMMA NextTypes ==
  ASSUME TypeOK, [Next]_vars
  PROVE  TypeOK'
<1>1. CASE Discovery
  BY <1>1, DiscoveryTypes
<1>2. CASE Scheduling
  BY <1>2, SchedulingTypes
<1>3. CASE Executing
  BY <1>3, ExecutingTypes DEF Executing
<1>4. ASSUME NEW ss \in SUBSET Sources, Rediscover(ss) PROVE TypeOK'
  <2>1. RegOK(reg) /\ upsets \in 0..MaxUpsets /\ MaxUpsets \in Nat
    BY TypeParts, RegistryAssumption
  <2>2. RegOK(reg')
    <3>1. ASSUME NEW s \in Sources PROVE RowOK(reg'[s])
      <4>1. RowOK(reg[s])
        BY <2>1 DEF RegOK
      <4>2. \/ reg'[s] = reg[s]
            \/ reg'[s] = [reg[s] EXCEPT !.checked = "never", !.dtoken = NoBatch,
                                !.dlive = FALSE, !.wtoken = NoTick, !.wlive = FALSE]
        BY <1>4 DEF Rediscover, Rediscovered
      <4> QED BY <4>1, <4>2, ReleaseTypes
    <3>2. reg' = [s \in Sources |-> reg'[s]]
      BY <1>4 DEF Rediscover
    <3> QED BY <3>1, <3>2, AllRows
  <2>3. upsets' \in 0..MaxUpsets
    <3>1. Upset
      BY <1>4 DEF Rediscover
    <3> QED BY <2>1, <3>1 DEF Upset
  <2> QED BY <1>4, <2>2, <2>3 DEF Rediscover, TypeOK, RegOK, RowOK
<1>5. CASE \E e \in Execs : Retry(e) \/ Cancel(e)
  BY <1>5, ExecutingTypes
<1>6. CASE UNCHANGED vars
  BY <1>6 DEF vars, TypeOK
<1> QED BY <1>1, <1>2, <1>3, <1>4, <1>5, <1>6 DEF Next, Operating

\* Every variable has its type and a claim that runs has a token, in every
\* state and for every size of the project.
THEOREM TypesHold == Spec => []TypeOK
<1>1. Init => TypeOK
  BY InitTypes
<1>2. TypeOK /\ [Next]_vars => TypeOK'
  BY NextTypes
<1> QED BY <1>1, <1>2, PTL DEF Spec

----------------------------------------------------------------------------
(* What a completed execution consumes.                                    *)

\* The write that finalises sources follows a completed execution.
FinalizeInv ==
    \A e \in Execs : exec[e].owes = "finalize" => exec[e].status = "completed"

ConsumedInv == TypeOK /\ FinalizeInv /\ ConsumedWasAdmitted

\* An execution that completed keeps its sources and signatures for good.
CompletedStays ==
    \A e \in Execs :
      exec[e].status = "completed" =>
        /\ exec'[e].status = "completed"
        /\ exec'[e].src = exec[e].src
        /\ exec'[e].sig = exec[e].sig

\* A step that consumes nothing keeps what was said of the consumed signatures.
LEMMA NothingConsumed ==
  ASSUME TypeOK, ConsumedWasAdmitted, CompletedStays,
         \A s \in Sources : reg'[s].last = reg[s].last
  PROVE  ConsumedWasAdmitted'
BY DEF ConsumedWasAdmitted, CompletedStays

\* The writers of workflow_run_pending touch neither signatures nor discovery
\* claims.
LEMMA PendingRows ==
  ASSUME TypeOK, NEW ss, ClearPending(ss) \/ MarkPending(ss)
  PROVE  \A s \in Sources : /\ reg'[s].sig = reg[s].sig
                            /\ reg'[s].dtoken = reg[s].dtoken
                            /\ reg'[s].last = reg[s].last
<1> SUFFICES ASSUME NEW s \in Sources
             PROVE  /\ reg'[s].sig = reg[s].sig
                    /\ reg'[s].dtoken = reg[s].dtoken
                    /\ reg'[s].last = reg[s].last
  OBVIOUS
<1>1. reg[s] \in Entry
  BY DEF TypeOK
<1>2. \/ reg'[s] = reg[s]
      \/ reg'[s] = [reg[s] EXCEPT !.pending = FALSE, !.wtoken = NoTick, !.wlive = FALSE]
      \/ reg'[s] = [reg[s] EXCEPT !.pending = TRUE, !.wtoken = NoTick, !.wlive = FALSE]
  BY DEF ClearPending, MarkPending
<1> QED BY <1>1, <1>2 DEF Entry

\* The steps of the scheduler's tick and of the executions read what discovery
\* wrote and leave it alone.
LEMMA WorkflowRows ==
  ASSUME TypeOK, Scheduling \/ Executing \/ \E e \in Execs : Retry(e) \/ Cancel(e)
  PROVE  /\ UNCHANGED <<archive, batch, runner>>
         /\ \A s \in Sources : reg'[s].sig = reg[s].sig /\ reg'[s].dtoken = reg[s].dtoken
<1>0. reg \in [Sources -> Entry]
  BY DEF TypeOK
<1>1. ASSUME NEW ss, ClearPending(ss) \/ MarkPending(ss)
      PROVE  \A s \in Sources : reg'[s].sig = reg[s].sig /\ reg'[s].dtoken = reg[s].dtoken
  BY <1>0, <1>1, PendingRows
<1>2. ASSUME NEW e, FinalizeSources(e)
      PROVE  \A s \in Sources : reg'[s].sig = reg[s].sig /\ reg'[s].dtoken = reg[s].dtoken
  BY <1>0, <1>2 DEF FinalizeSources, Entry
<1>3. CASE Scheduling
  <2>1. ASSUME NEW k \in Ticks,
               \/ TickPartition(k) \/ TickSweep(k) \/ TickCreate(k) \/ TickCapped(k)
               \/ TickClear(k) \/ TickDies(k)
        PROVE  /\ UNCHANGED <<archive, batch, runner>>
               /\ \/ UNCHANGED reg
                  \/ \E ss : ClearPending(ss)
    BY <2>1 DEF TickPartition, TickSweep, TickCreate, TickCapped, TickClear, TickDies
  <2>2. ASSUME NEW k \in Ticks, TickClaim(k) \/ TickRelease(k)
        PROVE  /\ UNCHANGED <<archive, batch, runner>>
               /\ \A s \in Sources :
                    reg'[s].sig = reg[s].sig /\ reg'[s].dtoken = reg[s].dtoken
    <3>1. ASSUME NEW s \in Sources
          PROVE  reg'[s].sig = reg[s].sig /\ reg'[s].dtoken = reg[s].dtoken
      <4>1. reg[s] \in Entry
        BY <1>0
      <4>2. \/ reg'[s] = reg[s]
            \/ reg'[s] = [reg[s] EXCEPT !.wtoken = k, !.wlive = TRUE]
            \/ reg'[s] = [reg[s] EXCEPT !.wtoken = NoTick, !.wlive = FALSE]
        BY <2>2 DEF TickClaim, ClaimForAdmission, TickRelease
      <4> QED BY <4>1, <4>2 DEF Entry
    <3> QED BY <2>2, <3>1 DEF TickClaim, ClaimForAdmission, TickRelease
  <2>3. ASSUME NEW s \in Sources, DeadAdmissionExpires(s) \/ AdmissionExpires(s)
        PROVE  /\ UNCHANGED <<archive, batch, runner>>
               /\ \A t \in Sources :
                    reg'[t].sig = reg[t].sig /\ reg'[t].dtoken = reg[t].dtoken
    BY <1>0, <2>3 DEF DeadAdmissionExpires, AdmissionExpires, Entry
  <2> QED BY <1>1, <1>3, <2>1, <2>2, <2>3 DEF Scheduling
<1>4. CASE Executing \/ \E e \in Execs : Retry(e) \/ Cancel(e)
  <2>1. PICK e \in Execs :
          \/ Dispatch(e) \/ ExecuteFails(e) \/ Remark(e) \/ CompleteVerified(e)
          \/ PollEnds(e) \/ Finalize(e) \/ ClearCancelled(e) \/ OwedIsLost(e)
          \/ Retry(e) \/ Cancel(e)
    BY <1>4 DEF Executing
  <2>2. UNCHANGED <<archive, batch, runner>>
    BY <2>1 DEF Dispatch, ExecuteFails, Remark, CompleteVerified, PollEnds, Finalize,
                ClearCancelled, OwedIsLost, Retry, Cancel
  <2>3. \/ UNCHANGED reg
        \/ \E ss : ClearPending(ss) \/ MarkPending(ss)
        \/ FinalizeSources(e)
    BY <2>1 DEF Dispatch, ExecuteFails, Remark, CompleteVerified, PollEnds, Finalize,
                ClearCancelled, OwedIsLost, Retry, Cancel
  <2> QED BY <1>1, <1>2, <2>2, <2>3
<1> QED BY <1>3, <1>4

\* Neither discovery nor the scheduler's tick consumes anything, and both leave
\* the completed executions alone.
LEMMA LastIsKept ==
  ASSUME TypeOK, Discovery \/ Scheduling
  PROVE  /\ \A s \in Sources : reg'[s].last = reg[s].last
         /\ CompletedStays
         /\ \A e \in Execs : exec'[e].owes = exec[e].owes
<1>0. reg \in [Sources -> Entry] /\ exec \in [Execs -> Exec]
  BY DEF TypeOK
<1>1. CASE Discovery
  <2>1. UNCHANGED exec
    BY <1>1 DEF Discovery, ClaimSources, EnqueueBatch, EnqueueLost, StartBatch, Query,
                CheckKept, ReleaseBatch, SettleBatch, LoseRunner, LoseLease, QueryFails,
                PersistSource, DeadClaimExpires, ClaimExpires, GoStale, ArchiveChanges
  <2>2. ASSUME NEW r \in Runners, NEW t \in Sources, PersistSource(r, t)
        PROVE  \A s \in Sources : reg'[s].last = reg[s].last
    <3>1. reg[t] \in Entry
      BY <1>0
    <3>2. \/ reg' = reg
          \/ reg' = [reg EXCEPT ![t] = Persisted(reg[t], runner[r].seen[t])]
      BY <2>2 DEF PersistSource
    <3>3. CASE reg' # reg
      <4>1. PICK p \in BOOLEAN :
              reg' = [reg EXCEPT ![t] = [reg[t] EXCEPT !.sig = runner[r].seen[t],
                                           !.checked = "fresh", !.pending = p]]
        BY <3>1, <3>2, <3>3, PersistedRow
      <4> QED BY <1>0, <3>1, <4>1 DEF Entry
    <3> QED BY <3>3
  <2>3. ASSUME NEW r \in Runners, CheckKept(r) \/ ReleaseBatch(r)
        PROVE  \A s \in Sources : reg'[s].last = reg[s].last
    <3>1. CASE CheckKept(r)
      BY <1>0, <3>1 DEF CheckKept, Entry
    <3>2. CASE ReleaseBatch(r)
      BY <1>0, <3>2 DEF ReleaseBatch, Entry
    <3> QED BY <2>3, <3>1, <3>2
  <2>4. ASSUME NEW b \in Batches, ClaimSources(b)
        PROVE  \A s \in Sources : reg'[s].last = reg[s].last
    <3> SUFFICES ASSUME NEW s \in Sources PROVE reg'[s].last = reg[s].last
      OBVIOUS
    <3>1. reg[s] \in Entry
      BY <1>0
    <3>2. reg'[s] = reg[s] \/ reg'[s] = [reg[s] EXCEPT !.dtoken = b, !.dlive = TRUE]
      BY <2>4 DEF ClaimSources, ClaimForDiscovery
    <3> QED BY <3>1, <3>2 DEF Entry
  <2>5. ASSUME NEW t \in Sources, DeadClaimExpires(t) \/ ClaimExpires(t) \/ GoStale(t)
        PROVE  \A s \in Sources : reg'[s].last = reg[s].last
    BY <1>0, <2>5 DEF DeadClaimExpires, ClaimExpires, GoStale, Entry
  <2>6. \A s \in Sources : reg'[s].last = reg[s].last
    BY <1>1, <2>2, <2>3, <2>4, <2>5
    DEF Discovery, EnqueueBatch, EnqueueLost, StartBatch, Query, SettleBatch, LoseRunner,
        LoseLease, QueryFails, ArchiveChanges
  <2> QED BY <2>1, <2>6 DEF CompletedStays
<1>2. CASE Scheduling
  <2>1. ASSUME NEW k \in Ticks, TickCreate(k)
        PROVE  /\ UNCHANGED reg /\ CompletedStays
               /\ \A e \in Execs : exec'[e].owes = exec[e].owes
    BY <1>0, <2>1 DEF TickCreate, CompletedStays, Exec
  <2>2. ASSUME NEW k \in Ticks, TickClaim(k) \/ TickRelease(k)
        PROVE  UNCHANGED exec /\ \A s \in Sources : reg'[s].last = reg[s].last
    <3>1. ASSUME NEW s \in Sources PROVE reg'[s].last = reg[s].last
      <4>1. reg[s] \in Entry
        BY <1>0
      <4>2. \/ reg'[s] = reg[s]
            \/ reg'[s] = [reg[s] EXCEPT !.wtoken = k, !.wlive = TRUE]
            \/ reg'[s] = [reg[s] EXCEPT !.wtoken = NoTick, !.wlive = FALSE]
        BY <2>2 DEF TickClaim, ClaimForAdmission, TickRelease
      <4> QED BY <4>1, <4>2 DEF Entry
    <3> QED BY <2>2, <3>1 DEF TickClaim, ClaimForAdmission, TickRelease
  <2>3. ASSUME NEW k \in Ticks, TickSweep(k) \/ TickClear(k)
        PROVE  UNCHANGED exec /\ \A s \in Sources : reg'[s].last = reg[s].last
    BY <2>3, PendingRows DEF TickSweep, TickClear
  <2>4. ASSUME NEW s \in Sources, DeadAdmissionExpires(s) \/ AdmissionExpires(s)
        PROVE  UNCHANGED exec /\ \A t \in Sources : reg'[t].last = reg[t].last
    BY <1>0, <2>4 DEF DeadAdmissionExpires, AdmissionExpires, Entry
  <2>5. ASSUME NEW k \in Ticks, TickPartition(k) \/ TickCapped(k) \/ TickDies(k)
        PROVE  UNCHANGED <<exec, reg>>
    BY <2>5 DEF TickPartition, TickCapped, TickDies
  <2> QED BY <1>2, <2>1, <2>2, <2>3, <2>4, <2>5 DEF Scheduling, CompletedStays
<1> QED BY <1>1, <1>2

\* Consumption is the end of a completed execution whose sources have the
\* signatures it was admitted with.
LEMMA FinalizeConsumes ==
  ASSUME ConsumedInv, NEW e \in Execs, FinalizeSources(e), CompletedStays,
         exec'[e].status = "completed", exec'[e].src = exec[e].src,
         exec'[e].sig = exec[e].sig
  PROVE  ConsumedWasAdmitted'
<1> SUFFICES ASSUME NEW s \in Sources, reg'[s].last # 0
             PROVE  \E d \in Execs : /\ exec'[d].status = "completed"
                                     /\ s \in exec'[d].src
                                     /\ exec'[d].sig[s] = reg'[s].last
  BY DEF ConsumedWasAdmitted
<1>0. reg \in [Sources -> Entry] /\ exec \in [Execs -> Exec]
  BY DEF ConsumedInv, TypeOK
<1>1. CASE reg'[s].last = reg[s].last
  BY <1>1 DEF ConsumedInv, ConsumedWasAdmitted, CompletedStays
<1>2. CASE reg'[s].last # reg[s].last
  <2>1. s \in exec[e].src /\ SignatureIsCurrent(e) /\ reg'[s].last = reg[s].sig
    BY <1>0, <1>2 DEF FinalizeSources, Entry
  <2> QED BY <2>1 DEF SignatureIsCurrent
<1> QED BY <1>1, <1>2

\* Each step keeps ConsumedInv.
LEMMA ConsumedStep ==
  ASSUME ConsumedInv, [Next]_vars
  PROVE  ConsumedInv'
<1>0. /\ TypeOK /\ TypeOK' /\ FinalizeInv /\ ConsumedWasAdmitted
      /\ reg \in [Sources -> Entry] /\ exec \in [Execs -> Exec]
  BY NextTypes DEF ConsumedInv, TypeOK
<1>1. CASE Discovery \/ Scheduling
  <2>1. ConsumedWasAdmitted'
    BY <1>0, <1>1, LastIsKept, NothingConsumed
  <2>2. FinalizeInv'
    BY <1>0, <1>1, LastIsKept DEF FinalizeInv, CompletedStays
  <2> QED BY <1>0, <2>1, <2>2 DEF ConsumedInv
<1>2. ASSUME NEW e \in Execs,
             \/ Dispatch(e) \/ ExecuteFails(e) \/ PollEnds(e) \/ OwedIsLost(e)
             \/ Remark(e) \/ ClearCancelled(e) \/ Retry(e) \/ Cancel(e)
      PROVE  ConsumedInv'
  <2>1. CompletedStays /\ FinalizeInv'
    <3>0. exec[e] \in Exec
      BY <1>0
    <3>1. /\ \A d \in Execs \ {e} : exec'[d] = exec[d]
          /\ exec'[e].src = exec[e].src /\ exec'[e].sig = exec[e].sig
          /\ exec[e].status = "completed" => exec'[e].status = "completed"
          /\ exec'[e].owes = "finalize" => exec'[e].status = "completed"
      <4>1. CASE Dispatch(e) \/ ExecuteFails(e) \/ Retry(e) \/ Cancel(e)
        BY <1>0, <3>0, <4>1 DEF Dispatch, ExecuteFails, Retry, Cancel, Exec, FinalizeInv
      <4>2. CASE OwedIsLost(e) \/ Remark(e) \/ ClearCancelled(e)
        BY <1>0, <3>0, <4>2 DEF OwedIsLost, Remark, ClearCancelled, Exec
      <4>3. CASE PollEnds(e)
        <5>1. PICK end \in {"completed", "failed", "cancelled"} :
                exec' = [exec EXCEPT ![e] = [exec[e] EXCEPT !.status = end,
                                                            !.owes = Owed[end]]]
          BY <1>0, <4>3 DEF PollEnds
        <5>2. Owed[end] = "finalize" => end = "completed"
          BY <5>1 DEF Owed
        <5> QED BY <1>0, <3>0, <4>3, <5>1, <5>2 DEF PollEnds, Exec
      <4> QED BY <1>2, <4>1, <4>2, <4>3
    <3> QED BY <1>0, <3>1 DEF CompletedStays, FinalizeInv
  <2>2. \A s \in Sources : reg'[s].last = reg[s].last
    <3>1. \/ UNCHANGED reg
          \/ ClearPending(exec[e].src) \/ MarkPending(exec[e].src)
      BY <1>2 DEF Dispatch, ExecuteFails, PollEnds, OwedIsLost, Remark, ClearCancelled,
                  Retry, Cancel
    <3> QED BY <1>0, <3>1, PendingRows
  <2> QED BY <1>0, <2>1, <2>2, NothingConsumed DEF ConsumedInv
<1>3. ASSUME NEW e \in Execs, CompleteVerified(e) \/ Finalize(e) PROVE ConsumedInv'
  <2>1. /\ exec'[e].status = "completed" /\ exec'[e].src = exec[e].src
        /\ exec'[e].sig = exec[e].sig
        /\ \A d \in Execs \ {e} : exec'[d] = exec[d]
    BY <1>0, <1>3 DEF CompleteVerified, Finalize, FinalizeInv, Exec
  <2>2. CompletedStays /\ FinalizeInv'
    BY <1>0, <2>1 DEF CompletedStays, FinalizeInv
  <2>3. ConsumedWasAdmitted'
    BY <1>3, <2>1, <2>2, FinalizeConsumes DEF CompleteVerified, Finalize
  <2> QED BY <1>0, <2>2, <2>3 DEF ConsumedInv
<1>4. ASSUME NEW ss, Rediscover(ss) PROVE ConsumedInv'
  <2>1. UNCHANGED exec /\ \A s \in Sources : reg'[s].last = reg[s].last
    BY <1>0, <1>4 DEF Rediscover, Rediscovered, Entry
  <2> QED
    BY <1>0, <2>1, NothingConsumed DEF ConsumedInv, CompletedStays, FinalizeInv
<1>5. CASE UNCHANGED vars
  BY <1>0, <1>5 DEF vars, ConsumedInv, FinalizeInv, ConsumedWasAdmitted
<1> QED BY <1>1, <1>2, <1>3, <1>4, <1>5 DEF Next, Executing, Operating

\* A source's last executed signature is one that an execution was admitted
\* with and completed with, whatever discovery, other executions, operators and
\* lost writes do in between (finalize_successful_sources).
THEOREM ConsumptionIsAdmitted == Spec => []ConsumedWasAdmitted
<1>1. Init => ConsumedInv
  BY InitTypes DEF Init, ConsumedInv, FinalizeInv, ConsumedWasAdmitted
<1>2. ConsumedInv /\ [Next]_vars => ConsumedInv'
  BY ConsumedStep
<1>3. ConsumedInv => ConsumedWasAdmitted
  BY DEF ConsumedInv
<1> QED BY <1>1, <1>2, <1>3, PTL DEF Spec

----------------------------------------------------------------------------
(* What discovery writes.                                                  *)

\* A runner without a batch is idle, and only a busy one holds a lease.
IdleInv ==
    \A r \in Runners : /\ runner[r].pc = "idle" <=> runner[r].batch = NoBatch
                       /\ runner[r].holder => runner[r].batch # NoBatch

\* A batch has no handler before its job is enqueued, and one that was not
\* delivered again has one at most, once its job was taken.
AloneInv ==
    \A b \in Batches :
      /\ batch[b].job = "claimed" => \A r \in Runners : runner[r].batch # b
      /\ ~batch[b].again =>
           /\ batch[b].job = "queued" => \A r \in Runners : runner[r].batch # b
           /\ \A r, q \in Runners :
                runner[r].batch = b /\ runner[q].batch = b => r = q

\* Nobody has seen more than there is.
NoNewer ==
    \A s \in Sources : /\ reg[s].sig <= archive[s]
                       /\ \A r \in Runners : runner[r].seen[s] <= archive[s]

\* What the only handler of the batch that claims a source is about to write.
MayWrite(r, s) ==
    /\ runner[r].pc = "persist"
    /\ s \in runner[r].todo
    /\ reg[s].dtoken = runner[r].batch
    /\ ~batch[runner[r].batch].again

FreshInv ==
    \A r \in Runners, s \in Sources : MayWrite(r, s) => reg[s].sig <= runner[r].seen[s]

WriteInv == TypeOK /\ IdleInv /\ AloneInv /\ NoNewer /\ FreshInv

\* Initially nobody handles a batch and nothing was seen.
LEMMA InitWrite == Init => WriteInv
<1> SUFFICES ASSUME Init PROVE WriteInv
  OBVIOUS
<1>1. TypeOK
  BY InitTypes
<1>2. IdleInv /\ AloneInv
  BY RegistryAssumption DEF Init, IdleInv, AloneInv, IdleRunner, NoJob
<1>3. NoNewer /\ FreshInv
  BY DEF Init, NoNewer, FreshInv, MayWrite, IdleRunner, Nothing
<1> QED BY <1>1, <1>2, <1>3 DEF WriteInv

\* Steps that leave the signatures and the handlers alone and give no batch a
\* claim.
LEMMA QuietWrite ==
  ASSUME WriteInv, TypeOK', UNCHANGED <<archive, batch, runner>>,
         \A s \in Sources : /\ reg'[s].sig = reg[s].sig
                            /\ reg'[s].dtoken \in {reg[s].dtoken, NoBatch}
  PROVE  WriteInv'
<1>1. IdleInv' /\ AloneInv' /\ NoNewer'
  BY DEF WriteInv, IdleInv, AloneInv, NoNewer
<1>2. FreshInv'
  <2> SUFFICES ASSUME NEW r \in Runners, NEW s \in Sources, MayWrite(r, s)'
               PROVE  reg'[s].sig <= runner'[r].seen[s]
    BY DEF FreshInv
  <2>1. reg'[s].dtoken = reg[s].dtoken
    BY DEF MayWrite, WriteInv, IdleInv
  <2>2. MayWrite(r, s)
    BY <2>1 DEF MayWrite
  <2> QED BY <2>2 DEF WriteInv, FreshInv
<1> QED BY <1>1, <1>2 DEF WriteInv

\* Steps of one handler that let it write no more than before.
LEMMA HandlerWrite ==
  ASSUME WriteInv, TypeOK', UNCHANGED archive, NEW r \in Runners, NEW new \in Runner,
         runner' = [runner EXCEPT ![r] = new],
         new.batch \in {runner[r].batch, NoBatch},
         new.pc = "idle" <=> new.batch = NoBatch,
         new.holder => new.batch # NoBatch,
         new.seen \in {runner[r].seen, Nothing},
         new.pc = "persist" =>
           runner[r].pc = "persist" /\ new.todo \subseteq runner[r].todo
             /\ new.seen = runner[r].seen /\ new.batch = runner[r].batch,
         AloneInv',
         \A b \in Batches :
           (\E q \in Runners : runner'[q].batch = b) => (batch[b].again => batch'[b].again),
         \A s \in Sources : /\ reg'[s].sig = reg[s].sig
                            /\ reg'[s].dtoken \in {reg[s].dtoken, NoBatch}
  PROVE  WriteInv'
<1>0. /\ runner \in [Runners -> Runner]
      /\ \A q \in Runners : runner'[q] = IF q = r THEN new ELSE runner[q]
      /\ archive \in [Sources -> Nat] /\ \A s \in Sources : reg[s].sig \in Nat
  BY RegistryAssumption DEF WriteInv, TypeOK, Entry, Signature
<1>1. IdleInv'
  BY <1>0 DEF WriteInv, IdleInv
<1>2. NoNewer'
  BY <1>0 DEF WriteInv, NoNewer, Nothing
<1>3. FreshInv'
  <2> SUFFICES ASSUME NEW q \in Runners, NEW s \in Sources, MayWrite(q, s)'
               PROVE  reg'[s].sig <= runner'[q].seen[s]
    BY DEF FreshInv
  <2>1. /\ runner[q].pc = "persist" /\ s \in runner[q].todo
        /\ runner'[q].batch = runner[q].batch /\ runner'[q].seen = runner[q].seen
    BY <1>0 DEF MayWrite
  <2>2. runner[q].batch \in Batches /\ runner'[q].batch # NoBatch
    BY <1>0, <2>1 DEF WriteInv, IdleInv, Runner
  <2>3. reg'[s].dtoken = reg[s].dtoken
    BY <2>1, <2>2 DEF MayWrite
  <2>4. ~batch[runner[q].batch].again
    BY <2>1, <2>2 DEF MayWrite
  <2>5. MayWrite(q, s)
    BY <2>1, <2>3, <2>4 DEF MayWrite
  <2> QED BY <2>1, <2>5 DEF WriteInv, FreshInv
<1> QED BY <1>1, <1>2, <1>3 DEF WriteInv

\* A batch that is claimed or enqueued.
LEMMA BatchWrite ==
  ASSUME WriteInv, TypeOK', NEW b \in Batches,
         ClaimSources(b) \/ EnqueueBatch(b) \/ EnqueueLost(b)
  PROVE  WriteInv'
<1>0. /\ batch \in [Batches -> Batch] /\ reg \in [Sources -> Entry]
      /\ UNCHANGED <<archive, runner>>
      /\ \A r \in Runners : runner[r].batch # b
  BY DEF WriteInv, TypeOK, AloneInv, ClaimSources, ClaimForDiscovery, EnqueueBatch, EnqueueLost
<1>1. \A c \in Batches \ {b} : batch'[c] = batch[c]
  BY <1>0 DEF ClaimSources, ClaimForDiscovery, EnqueueBatch, EnqueueLost
<1>2. \A s \in Sources : /\ reg'[s].sig = reg[s].sig
                         /\ reg'[s].dtoken \in {reg[s].dtoken, b}
  <2> SUFFICES ASSUME NEW s \in Sources
               PROVE  /\ reg'[s].sig = reg[s].sig
                      /\ reg'[s].dtoken \in {reg[s].dtoken, b}
    OBVIOUS
  <2>1. reg[s] \in Entry
    BY <1>0
  <2>2. reg'[s] = reg[s] \/ reg'[s] = [reg[s] EXCEPT !.dtoken = b, !.dlive = TRUE]
    BY DEF ClaimSources, ClaimForDiscovery, EnqueueBatch, EnqueueLost
  <2> QED BY <2>1, <2>2 DEF Entry
<1>3. IdleInv' /\ AloneInv' /\ NoNewer'
  BY <1>0, <1>1, <1>2 DEF WriteInv, IdleInv, AloneInv, NoNewer
<1>4. FreshInv'
  <2> SUFFICES ASSUME NEW r \in Runners, NEW s \in Sources, MayWrite(r, s)'
               PROVE  reg'[s].sig <= runner'[r].seen[s]
    BY DEF FreshInv
  <2>1. runner[r].batch \in Batches \ {b}
    BY <1>0 DEF MayWrite, WriteInv, IdleInv, TypeOK, Runner
  <2>2. MayWrite(r, s)
    BY <1>0, <1>1, <1>2, <2>1 DEF MayWrite
  <2> QED BY <1>0, <1>2, <2>2 DEF WriteInv, FreshInv
<1> QED BY <1>3, <1>4 DEF WriteInv

\* The one write that changes a signature.
LEMMA PersistWrite ==
  ASSUME WriteInv, TypeOK', NEW r \in Runners, NEW s \in Sources, PersistSource(r, s)
  PROVE  WriteInv'
<1> DEFINE b == runner[r].batch
<1>0. /\ runner \in [Runners -> Runner] /\ reg \in [Sources -> Entry]
      /\ UNCHANGED <<archive, batch>>
      /\ runner[r].pc = "persist" /\ s \in runner[r].todo
      /\ b \in Batches
  BY DEF WriteInv, TypeOK, IdleInv, Runner, PersistSource
<1>1. \A q \in Runners : /\ runner'[q].pc = runner[q].pc
                         /\ runner'[q].batch = runner[q].batch
                         /\ runner'[q].seen = runner[q].seen
                         /\ runner'[q].holder = runner[q].holder
                         /\ runner'[q].todo =
                              IF q = r THEN runner[q].todo \ {s} ELSE runner[q].todo
  BY <1>0 DEF PersistSource, Runner
<1>2. /\ \A u \in Sources : reg'[u].dtoken = reg[u].dtoken
      /\ \A u \in Sources \ {s} : reg'[u].sig = reg[u].sig
      /\ \/ reg'[s].sig = reg[s].sig
         \/ reg[s].dtoken = b /\ reg'[s].sig = runner[r].seen[s]
  <2>1. CASE reg' = reg
    BY <2>1
  <2>2. CASE reg' # reg
    <3>1. /\ reg[s].dtoken = b
          /\ \A u \in Sources \ {s} : reg'[u] = reg[u]
          /\ \E p : reg'[s] = [reg[s] EXCEPT !.sig = runner[r].seen[s],
                                            !.checked = "fresh", !.pending = p]
      <4>1. /\ reg[s].dtoken = b
            /\ reg' = [reg EXCEPT ![s] = Persisted(reg[s], runner[r].seen[s])]
        BY <1>0, <2>2 DEF PersistSource
      <4>2. reg[s] \in Entry
        BY <1>0
      <4> QED BY <1>0, <4>1, <4>2, PersistedRow
    <3>2. reg[s] \in Entry
      BY <1>0
    <3>3. reg'[s].dtoken = reg[s].dtoken /\ reg'[s].sig = runner[r].seen[s]
      BY <3>1, <3>2 DEF Entry
    <3> QED BY <3>1, <3>3
  <2> QED BY <2>1, <2>2
<1>3. IdleInv' /\ AloneInv'
  <2>1. IdleInv'
    <3> SUFFICES ASSUME NEW q \in Runners
                 PROVE  /\ runner'[q].pc = "idle" <=> runner'[q].batch = NoBatch
                        /\ runner'[q].holder => runner'[q].batch # NoBatch
      BY DEF IdleInv
    <3>1. /\ runner[q].pc = "idle" <=> runner[q].batch = NoBatch
          /\ runner[q].holder => runner[q].batch # NoBatch
      BY DEF WriteInv, IdleInv
    <3>2. /\ runner'[q].pc = runner[q].pc /\ runner'[q].batch = runner[q].batch
          /\ runner'[q].holder = runner[q].holder
      BY <1>1
    <3> QED BY <3>1, <3>2
  <2>2. AloneInv'
    <3>1. UNCHANGED batch /\ AloneInv
      BY <1>0 DEF WriteInv
    <3>2. \A q \in Runners : runner'[q].batch = runner[q].batch
      BY <1>1
    <3> QED BY <3>1, <3>2 DEF AloneInv
  <2> QED BY <2>1, <2>2
<1>4. NoNewer'
  BY <1>0, <1>1, <1>2 DEF WriteInv, NoNewer
<1>5. FreshInv'
  <2> SUFFICES ASSUME NEW q \in Runners, NEW u \in Sources, MayWrite(q, u)'
               PROVE  reg'[u].sig <= runner'[q].seen[u]
    BY DEF FreshInv
  <2>1. MayWrite(q, u)
    BY <1>0, <1>1, <1>2 DEF MayWrite
  <2>2. CASE reg'[u].sig = reg[u].sig
    BY <1>1, <2>1, <2>2 DEF WriteInv, FreshInv
  <2>3. CASE reg'[u].sig # reg[u].sig
    <3>1. u = s /\ reg[s].dtoken = b
      BY <1>2, <2>3
    <3>2. runner[q].batch = b /\ ~batch[b].again
      BY <2>1, <3>1 DEF MayWrite
    <3>3. q = r
      BY <1>0, <3>2 DEF WriteInv, AloneInv
    <3> QED BY <1>1, <3>1, <3>3 DEF MayWrite
  <2> QED BY <2>2, <2>3
<1> QED BY <1>3, <1>4, <1>5 DEF WriteInv

\* The end of a handler, and of its lease.
LEMMA EndWrite ==
  ASSUME WriteInv, TypeOK', NEW r \in Runners,
         SettleBatch(r) \/ LoseRunner(r) \/ LoseLease(r)
  PROVE  WriteInv'
<1> DEFINE b == runner[r].batch
<1>0. /\ runner \in [Runners -> Runner] /\ batch \in [Batches -> Batch]
      /\ UNCHANGED <<archive, reg>>
      /\ runner[r].pc # "idle" \/ runner[r].holder
  BY DEF WriteInv, TypeOK, SettleBatch, LoseRunner, LoseLease
<1>1. b \in Batches
  BY <1>0 DEF WriteInv, IdleInv, Runner
<1>2. /\ \A c \in Batches \ {b} : batch'[c] = batch[c]
      /\ batch'[b].job \in {batch[b].job, "none", "queued"}
      /\ LoseLease(r) => batch'[b].again
      /\ \/ batch'[b].again
         \/ batch'[b].again = batch[b].again /\ batch'[b].job \in {batch[b].job, "none"}
         \/ batch'[b] = NoJob /\ \A q \in Runners \ {r} : runner[q].batch # b
  <2>0. batch[b] \in Batch
    BY <1>0, <1>1
  <2>1. CASE batch' = batch /\ ~LoseLease(r)
    BY <2>1
  <2>2. CASE /\ batch' = Requeued(b)
    <3>1. batch' = [batch EXCEPT ![b] = [batch[b] EXCEPT !.job = "queued", !.again = TRUE]]
      BY <1>0, <2>2 DEF Requeued
    <3> QED BY <1>0, <1>1, <2>0, <3>1 DEF Batch
  <2>3. CASE batch' = Ended(r) /\ ~LoseLease(r)
    <3>1. CASE \E q \in Runners \ {r} : runner[q].batch = b
      <4>1. batch' = [batch EXCEPT ![b] = [batch[b] EXCEPT !.job = "none"]]
        BY <1>0, <2>3, <3>1 DEF Ended
      <4> QED BY <1>0, <1>1, <2>0, <2>3, <4>1 DEF Batch
    <3>2. CASE ~ \E q \in Runners \ {r} : runner[q].batch = b
      <4>1. batch' = [batch EXCEPT ![b] = NoJob]
        BY <2>3, <3>2 DEF Ended
      <4>2. batch'[b] = NoJob /\ \A c \in Batches \ {b} : batch'[c] = batch[c]
        BY <1>0, <1>1, <4>1
      <4>3. batch'[b].job = "none"
        BY <4>2 DEF NoJob
      <4> QED BY <2>3, <3>2, <4>2, <4>3
    <3> QED BY <3>1, <3>2
  <2>4. \/ batch' = batch /\ ~LoseLease(r)
        \/ batch' = Requeued(b)
        \/ batch' = Ended(r) /\ ~LoseLease(r)
    <3>1. CASE LoseLease(r)
      BY <3>1 DEF LoseLease
    <3>2. CASE ~LoseLease(r)
      BY <3>2 DEF SettleBatch, LoseRunner
    <3> QED BY <3>1, <3>2
  <2> QED BY <2>1, <2>2, <2>3, <2>4
<1>3. PICK new \in Runner :
        /\ runner' = [runner EXCEPT ![r] = new]
        /\ \/ new = IdleRunner
           \/ LoseLease(r) /\ new = [runner[r] EXCEPT !.holder = FALSE]
  <2>1. \/ runner' = [runner EXCEPT ![r] = IdleRunner]
        \/ LoseLease(r) /\ runner' = [runner EXCEPT ![r] = [runner[r] EXCEPT !.holder = FALSE]]
    BY <1>0 DEF SettleBatch, LoseRunner, LoseLease
  <2>2. IdleRunner \in Runner /\ [runner[r] EXCEPT !.holder = FALSE] \in Runner
    BY <1>0, JobTypes
  <2> QED BY <2>1, <2>2
<1>4. \A q \in Runners : /\ q # r => runner'[q].batch = runner[q].batch
                         /\ runner'[r].batch \in {b, NoBatch}
                         /\ ~LoseLease(r) => runner'[r].batch = NoBatch
  BY <1>0, <1>3 DEF IdleRunner, Runner
<1>5. AloneInv'
  <2> SUFFICES ASSUME NEW c \in Batches
               PROVE  /\ batch'[c].job = "claimed" => \A q \in Runners : runner'[q].batch # c
                      /\ ~batch'[c].again =>
                           /\ batch'[c].job = "queued" =>
                                \A q \in Runners : runner'[q].batch # c
                           /\ \A p, q \in Runners :
                                runner'[p].batch = c /\ runner'[q].batch = c => p = q
    BY DEF AloneInv
  <2>1. \A q \in Runners : runner'[q].batch = c => runner[q].batch = c
    BY <1>1, <1>4, RegistryAssumption
  <2>2. CASE c # b
    BY <1>2, <2>1, <2>2 DEF WriteInv, AloneInv
  <2>3. CASE c = b /\ batch'[b].again
    <3>1. batch[b].job # "claimed"
      BY <1>1 DEF WriteInv, AloneInv
    <3> QED BY <1>2, <2>3, <3>1
  <2>4. CASE c = b /\ batch'[b].again = batch[b].again
               /\ batch'[b].job \in {batch[b].job, "none"}
    <3>1. batch[b].job # "claimed" /\ (~batch[b].again => batch[b].job # "queued")
      BY <1>1 DEF WriteInv, AloneInv
    <3>2. batch'[c].job # "claimed" /\ (~batch'[c].again => batch'[c].job # "queued")
      BY <2>4, <3>1
    <3>3. ~batch'[c].again => \A p, q \in Runners :
                                runner[p].batch = c /\ runner[q].batch = c => p = q
      BY <2>4 DEF WriteInv, AloneInv
    <3> QED BY <2>1, <3>2, <3>3
  <2>5. CASE c = b /\ batch'[b] = NoJob /\ \A q \in Runners \ {r} : runner[q].batch # b
    BY <2>1, <2>5 DEF NoJob
  <2> QED BY <1>2, <2>2, <2>3, <2>4, <2>5
<1>6. ASSUME NEW c \in Batches, NEW q \in Runners, runner'[q].batch = c, batch[c].again
      PROVE  batch'[c].again
  <2>1. CASE c # b
    BY <1>2, <1>6, <2>1
  <2>2. CASE c = b /\ batch'[b] = NoJob /\ \A p \in Runners \ {r} : runner[p].batch # b
    <3>1. q = r
      BY <1>4, <1>6, <2>2
    <3>2. LoseLease(r)
      BY <1>1, <1>4, <1>6, <3>1, RegistryAssumption
    <3> QED BY <1>2, <2>2, <3>2
  <2> QED BY <1>2, <1>6, <2>1, <2>2
<1>7. /\ new.batch \in {runner[r].batch, NoBatch}
      /\ new.pc = "idle" <=> new.batch = NoBatch
      /\ new.holder => new.batch # NoBatch
      /\ new.seen \in {runner[r].seen, Nothing}
      /\ new.pc = "persist" =>
           runner[r].pc = "persist" /\ new.todo \subseteq runner[r].todo
             /\ new.seen = runner[r].seen /\ new.batch = runner[r].batch
  BY <1>0, <1>1, <1>3 DEF WriteInv, IdleInv, IdleRunner, Runner
<1>8. \A s \in Sources : /\ reg'[s].sig = reg[s].sig
                         /\ reg'[s].dtoken \in {reg[s].dtoken, NoBatch}
  BY <1>0
<1> QED BY <1>0, <1>3, <1>5, <1>6, <1>7, <1>8, HandlerWrite

\* A handler that takes a batch, queries the archive, or drops a source.
LEMMA QueryWrite ==
  ASSUME WriteInv, TypeOK', NEW r \in Runners,
         \/ \E b \in Batches : StartBatch(r, b)
         \/ Query(r)
         \/ \E s \in Sources : QueryFails(r, s)
  PROVE  WriteInv'
<1>0. /\ runner \in [Runners -> Runner] /\ batch \in [Batches -> Batch]
      /\ archive \in [Sources -> 1..MaxVersion]
      /\ \A s \in Sources : reg[s].sig \in Nat
      /\ IdleInv /\ AloneInv /\ NoNewer /\ FreshInv
      /\ UNCHANGED <<archive, reg>>
  <2>1. /\ runner \in [Runners -> Runner] /\ batch \in [Batches -> Batch]
        /\ archive \in [Sources -> 1..MaxVersion]
        /\ \A s \in Sources : reg[s].sig \in Nat
        /\ IdleInv /\ AloneInv /\ NoNewer /\ FreshInv
    BY RegistryAssumption DEF WriteInv, TypeOK, Entry, Signature
  <2>2. UNCHANGED <<archive, reg>>
    BY DEF StartBatch, Query, QueryFails
  <2> QED BY <2>1, <2>2
<1>1. ASSUME NEW b \in Batches, StartBatch(r, b) PROVE WriteInv'
  <2>1. /\ runner'[r] = [pc |-> "query", batch |-> b, todo |-> batch[b].src,
                         kept |-> {}, seen |-> Nothing, holder |-> TRUE]
        /\ \A q \in Runners \ {r} : runner'[q] = runner[q]
    BY <1>0, <1>1 DEF StartBatch
  <2>2. /\ batch[b].job = "queued" /\ batch'[b].job = "running"
        /\ batch'[b].again = batch[b].again
        /\ \A c \in Batches \ {b} : batch'[c] = batch[c]
    BY <1>0, <1>1 DEF StartBatch, Batch
  <2>3. runner[r].batch = NoBatch
    BY <1>0, <1>1 DEF StartBatch, IdleInv
  <2>4. IdleInv' /\ NoNewer'
    BY <1>0, <2>1, RegistryAssumption DEF IdleInv, NoNewer, Nothing
  <2>5. AloneInv'
    <3> SUFFICES ASSUME NEW c \in Batches
                 PROVE  /\ batch'[c].job = "claimed" => \A q \in Runners : runner'[q].batch # c
                        /\ ~batch'[c].again =>
                             /\ batch'[c].job = "queued" =>
                                  \A q \in Runners : runner'[q].batch # c
                             /\ \A p, q \in Runners :
                                  runner'[p].batch = c /\ runner'[q].batch = c => p = q
      BY DEF AloneInv
    <3>1. CASE c = b
      BY <1>0, <2>1, <2>2, <3>1 DEF AloneInv
    <3>2. CASE c # b
      <4>1. \A q \in Runners : runner'[q].batch = c => runner[q].batch = c
        BY <2>1, <3>2
      <4> QED BY <1>0, <2>2, <3>2, <4>1 DEF AloneInv
    <3> QED BY <3>1, <3>2
  <2>6. FreshInv'
    <3> SUFFICES ASSUME NEW q \in Runners, NEW s \in Sources, MayWrite(q, s)'
                 PROVE  reg'[s].sig <= runner'[q].seen[s]
      BY DEF FreshInv
    <3>1. q # r /\ runner[q].pc = "persist"
      BY <2>1 DEF MayWrite
    <3>2. runner[q].batch \in Batches
      BY <1>0, <3>1 DEF IdleInv, Runner
    <3>3. batch'[runner[q].batch].again = batch[runner[q].batch].again
      BY <2>2, <3>2
    <3>4. MayWrite(q, s)
      BY <1>0, <2>1, <3>1, <3>3 DEF MayWrite
    <3> QED BY <1>0, <2>1, <3>1, <3>4 DEF FreshInv
  <2> QED BY <2>4, <2>5, <2>6 DEF WriteInv
<1>2. ASSUME Query(r) PROVE WriteInv'
  <2>1. /\ UNCHANGED batch
        /\ \A q \in Runners \ {r} : runner'[q] = runner[q]
        /\ runner[r].pc = "query" /\ runner'[r].pc = "persist"
        /\ runner'[r].batch = runner[r].batch /\ runner'[r].holder = runner[r].holder
        /\ runner'[r].seen = [s \in Sources |->
                                IF s \in runner'[r].todo THEN archive[s] ELSE 0]
    BY <1>0, <1>2 DEF Query, Answer, Runner
  <2>2. IdleInv' /\ AloneInv'
    <3>1. \A q \in Runners : runner'[q].batch = runner[q].batch
      BY <2>1
    <3>2. AloneInv'
      BY <1>0, <2>1, <3>1 DEF AloneInv
    <3>3. IdleInv'
      BY <1>0, <2>1 DEF IdleInv
    <3> QED BY <3>2, <3>3
  <2>3. NoNewer'
    BY <1>0, <2>1 DEF NoNewer
  <2>4. FreshInv'
    BY <1>0, <2>1 DEF FreshInv, MayWrite, NoNewer
  <2> QED BY <2>2, <2>3, <2>4 DEF WriteInv
<1>3. ASSUME NEW s \in Sources, QueryFails(r, s) PROVE WriteInv'
  <2> DEFINE new == [runner[r] EXCEPT !.todo = @ \ {s}]
  <2>1. /\ new \in Runner
        /\ runner' = [runner EXCEPT ![r] = new]
        /\ UNCHANGED batch /\ runner[r].pc = "query"
    BY <1>0, <1>3 DEF QueryFails, Runner
  <2>2. /\ new.batch = runner[r].batch /\ new.pc = runner[r].pc
        /\ new.holder = runner[r].holder /\ new.seen = runner[r].seen
    BY <1>0 DEF Runner
  <2>3. \A q \in Runners : runner'[q].batch = runner[q].batch
    BY <1>0, <2>1, <2>2
  <2>4. AloneInv'
    BY <1>0, <2>1, <2>3 DEF AloneInv
  <2>5. /\ new.pc = "idle" <=> new.batch = NoBatch
        /\ new.holder => new.batch # NoBatch
        /\ new.pc # "persist"
    BY <1>0, <2>1, <2>2 DEF IdleInv
  <2> HIDE DEF new
  <2> QED BY <1>0, <2>1, <2>2, <2>4, <2>5, HandlerWrite
<1> QED BY <1>1, <1>2, <1>3

\* The rest of discovery, and the operator's request for it: claims end or run
\* out, time passes.
LEMMA ClaimRows ==
  ASSUME TypeOK,
         \/ \E r \in Runners : CheckKept(r) \/ ReleaseBatch(r)
         \/ \E s \in Sources : DeadClaimExpires(s) \/ ClaimExpires(s) \/ GoStale(s)
         \/ \E ss : Rediscover(ss)
  PROVE  /\ UNCHANGED <<archive, batch>>
         /\ \A s \in Sources : /\ reg'[s].sig = reg[s].sig
                                /\ reg'[s].dtoken \in {reg[s].dtoken, NoBatch}
<1>1. UNCHANGED <<archive, batch>>
  BY DEF CheckKept, ReleaseBatch, DeadClaimExpires, ClaimExpires, GoStale, Rediscover
<1>2. ASSUME NEW s \in Sources
      PROVE  /\ reg'[s].sig = reg[s].sig
             /\ reg'[s].dtoken \in {reg[s].dtoken, NoBatch}
  <2>1. reg \in [Sources -> Entry] /\ reg[s] \in Entry
    BY DEF TypeOK
  <2>2. \/ reg'[s] = reg[s]
        \/ reg'[s] = [reg[s] EXCEPT !.dtoken = NoBatch, !.dlive = FALSE]
        \/ reg'[s] = [reg[s] EXCEPT !.dlive = FALSE]
        \/ reg'[s] = [reg[s] EXCEPT !.checked = "stale"]
        \/ reg'[s] = [reg[s] EXCEPT !.checked = "fresh"]
        \/ reg'[s] = [reg[s] EXCEPT !.checked = "never", !.dtoken = NoBatch,
                                   !.dlive = FALSE, !.wtoken = NoTick, !.wlive = FALSE]
    <3>1. ASSUME NEW r \in Runners, CheckKept(r) \/ ReleaseBatch(r)
          PROVE  \/ reg'[s] = reg[s]
                 \/ reg'[s] = [reg[s] EXCEPT !.dtoken = NoBatch, !.dlive = FALSE]
                 \/ reg'[s] = [reg[s] EXCEPT !.checked = "fresh"]
      BY <3>1 DEF CheckKept, ReleaseBatch
    <3>2. ASSUME NEW u \in Sources, DeadClaimExpires(u) \/ ClaimExpires(u) \/ GoStale(u)
          PROVE  \/ reg'[s] = reg[s]
                 \/ reg'[s] = [reg[s] EXCEPT !.dlive = FALSE]
                 \/ reg'[s] = [reg[s] EXCEPT !.checked = "stale"]
      BY <2>1, <3>2 DEF DeadClaimExpires, ClaimExpires, GoStale
    <3>3. ASSUME NEW ss, Rediscover(ss)
          PROVE  \/ reg'[s] = reg[s]
                 \/ reg'[s] = [reg[s] EXCEPT !.checked = "never", !.dtoken = NoBatch,
                                   !.dlive = FALSE, !.wtoken = NoTick, !.wlive = FALSE]
      BY <3>3 DEF Rediscover, Rediscovered
    <3> QED BY <3>1, <3>2, <3>3
  <2> QED BY <2>1, <2>2 DEF Entry
<1> QED BY <1>1, <1>2

\* Each step keeps WriteInv.
LEMMA WriteStep ==
  ASSUME WriteInv, [Next]_vars
  PROVE  WriteInv'
<1>0. TypeOK /\ TypeOK'
  BY NextTypes DEF WriteInv
<1>1. CASE Scheduling \/ Executing \/ \E e \in Execs : Retry(e) \/ Cancel(e)
  BY <1>0, <1>1, WorkflowRows, QuietWrite
<1>2. ASSUME NEW b \in Batches, ClaimSources(b) \/ EnqueueBatch(b) \/ EnqueueLost(b)
      PROVE  WriteInv'
  BY <1>0, <1>2, BatchWrite
<1>3. ASSUME NEW r \in Runners,
             \/ \E b \in Batches : StartBatch(r, b)
             \/ Query(r)
             \/ \E s \in Sources : QueryFails(r, s)
      PROVE  WriteInv'
  BY <1>0, <1>3, QueryWrite
<1>4. ASSUME NEW r \in Runners, NEW s \in Sources, PersistSource(r, s) PROVE WriteInv'
  BY <1>0, <1>4, PersistWrite
<1>5. ASSUME NEW r \in Runners, SettleBatch(r) \/ LoseRunner(r) \/ LoseLease(r)
      PROVE  WriteInv'
  BY <1>0, <1>5, EndWrite
<1>6. ASSUME NEW r \in Runners, ReleaseBatch(r) PROVE WriteInv'
  <2> DEFINE new == [runner[r] EXCEPT !.pc = "settle"]
  <2>1. runner \in [Runners -> Runner] /\ runner[r] \in Runner
    BY <1>0 DEF TypeOK
  <2>2. /\ new \in Runner /\ new.pc = "settle"
        /\ new.batch = runner[r].batch /\ new.holder = runner[r].holder
        /\ new.seen = runner[r].seen
    BY <2>1 DEF Runner
  <2>3. runner' = [runner EXCEPT ![r] = new] /\ runner[r].pc = "persist"
    BY <1>6, <2>1 DEF ReleaseBatch
  <2>4. /\ UNCHANGED <<archive, batch>>
        /\ \A s \in Sources : /\ reg'[s].sig = reg[s].sig
                               /\ reg'[s].dtoken \in {reg[s].dtoken, NoBatch}
    BY <1>0, <1>6, ClaimRows
  <2>5. \A q \in Runners : runner'[q].batch = runner[q].batch
    BY <2>1, <2>2, <2>3
  <2>6. AloneInv'
    BY <2>4, <2>5 DEF WriteInv, AloneInv
  <2>7. new.batch # NoBatch
    BY <2>2, <2>3 DEF WriteInv, IdleInv
  <2> HIDE DEF new
  <2> QED BY <1>0, <2>2, <2>3, <2>4, <2>6, <2>7, HandlerWrite
<1>10. ASSUME NEW r \in Runners, CheckKept(r) PROVE WriteInv'
  <2> DEFINE new == [runner[r] EXCEPT !.kept = {}]
  <2>1. runner \in [Runners -> Runner] /\ runner[r] \in Runner
    BY <1>0 DEF TypeOK
  <2>2. /\ new \in Runner /\ new.pc = runner[r].pc /\ new.todo = runner[r].todo
        /\ new.batch = runner[r].batch /\ new.holder = runner[r].holder
        /\ new.seen = runner[r].seen
    BY <2>1 DEF Runner
  <2>3. runner' = [runner EXCEPT ![r] = new] /\ runner[r].pc = "persist"
    BY <1>10, <2>1 DEF CheckKept
  <2>4. /\ UNCHANGED <<archive, batch>>
        /\ \A s \in Sources : /\ reg'[s].sig = reg[s].sig
                               /\ reg'[s].dtoken \in {reg[s].dtoken, NoBatch}
    BY <1>0, <1>10, ClaimRows
  <2>5. \A q \in Runners : runner'[q].batch = runner[q].batch
    BY <2>1, <2>2, <2>3
  <2>6. AloneInv'
    BY <2>4, <2>5 DEF WriteInv, AloneInv
  <2>7. new.batch # NoBatch
    BY <2>2, <2>3 DEF WriteInv, IdleInv
  <2> HIDE DEF new
  <2> QED BY <1>0, <2>2, <2>3, <2>4, <2>6, <2>7, HandlerWrite
<1>7. CASE \/ \E s \in Sources : DeadClaimExpires(s) \/ ClaimExpires(s) \/ GoStale(s)
           \/ \E ss \in SUBSET Sources : Rediscover(ss)
  <2>1. UNCHANGED runner
    BY <1>7 DEF DeadClaimExpires, ClaimExpires, GoStale, Rediscover
  <2> QED BY <1>0, <1>7, <2>1, ClaimRows, QuietWrite
<1>8. ASSUME NEW s \in Sources, ArchiveChanges(s) PROVE WriteInv'
  <2>1. /\ archive \in [Sources -> 1..MaxVersion]
        /\ archive' = [archive EXCEPT ![s] = @ + 1]
        /\ UNCHANGED <<reg, batch, runner>>
        /\ \A u \in Sources : reg[u].sig \in Nat
        /\ \A r \in Runners, u \in Sources : runner[r].seen[u] \in Nat
    BY <1>0, <1>8, RegistryAssumption
    DEF ArchiveChanges, TypeOK, Entry, Runner, Signature
  <2>2. \A u \in Sources : archive[u] \in Nat /\ archive'[u] \in Nat
                           /\ archive[u] <= archive'[u]
    BY <2>1, RegistryAssumption
  <2>3. NoNewer'
    BY <2>1, <2>2 DEF WriteInv, NoNewer
  <2>4. IdleInv' /\ AloneInv' /\ FreshInv'
    BY <2>1 DEF WriteInv, IdleInv, AloneInv, FreshInv, MayWrite
  <2> QED BY <1>0, <2>3, <2>4 DEF WriteInv
<1>9. CASE UNCHANGED vars
  BY <1>0, <1>9, QuietWrite DEF vars
<1> QED
  BY <1>1, <1>2, <1>3, <1>4, <1>5, <1>6, <1>7, <1>8, <1>9, <1>10
  DEF Next, Discovery, Operating

\* Only the handler whose batch claims the source lowers its signature, and only
\* if the batch was delivered more than once.
LEMMA WriteAction ==
  ASSUME WriteInv, [Next]_vars, NEW s \in Sources, reg'[s].sig < reg[s].sig
  PROVE  reg[s].dtoken # NoBatch /\ batch[reg[s].dtoken].again
<1>0. /\ TypeOK /\ reg \in [Sources -> Entry] /\ reg[s].sig \in Nat
      /\ runner \in [Runners -> Runner]
  BY RegistryAssumption DEF WriteInv, TypeOK, Entry, Signature
<1>1. ASSUME NEW r \in Runners, NEW u \in Sources, PersistSource(r, u)
      PROVE  reg[s].dtoken # NoBatch /\ batch[reg[s].dtoken].again
  <2>1. /\ u = s /\ reg[s].dtoken = runner[r].batch
        /\ runner[r].pc = "persist" /\ s \in runner[r].todo
        /\ reg'[s].sig = runner[r].seen[s]
    <3>0. runner[r].pc = "persist" /\ u \in runner[r].todo
      BY <1>1 DEF PersistSource
    <3>1. reg' # reg
      BY <1>0
    <3>2. reg[u].dtoken = runner[r].batch
      BY <1>1, <3>1 DEF PersistSource
    <3>3. /\ \A t \in Sources \ {u} : reg'[t] = reg[t]
          /\ \E p : reg'[u] = [reg[u] EXCEPT !.sig = runner[r].seen[u],
                                            !.checked = "fresh", !.pending = p]
      <4>1. reg' = [reg EXCEPT ![u] = Persisted(reg[u], runner[r].seen[u])]
        BY <1>1, <3>2 DEF PersistSource
      <4>2. reg[u] \in Entry
        BY <1>0
      <4> QED BY <1>0, <4>1, <4>2, PersistedRow
    <3>4. u = s
      BY <1>0, <3>3
    <3>5. reg[s] \in Entry
      BY <1>0
    <3> QED BY <3>0, <3>2, <3>3, <3>4, <3>5 DEF Entry
  <2>2. runner[r].batch # NoBatch
    BY <2>1 DEF WriteInv, IdleInv
  <2>3. ~(reg[s].sig <= runner[r].seen[s])
    <3>1. runner[r].seen[s] \in Nat
      BY <1>0, RegistryAssumption DEF Runner, Signature
    <3> QED BY <1>0, <2>1, <3>1
  <2> QED BY <2>1, <2>2, <2>3 DEF WriteInv, FreshInv, MayWrite
<1>2. CASE ~ \E r \in Runners, u \in Sources : PersistSource(r, u)
  <2> SUFFICES reg'[s].sig = reg[s].sig
    BY <1>0
  <2>1. CASE Scheduling \/ Executing \/ \E e \in Execs : Retry(e) \/ Cancel(e)
    BY <1>0, <2>1, WorkflowRows
  <2>2. CASE \/ \E r \in Runners : CheckKept(r) \/ ReleaseBatch(r)
             \/ \E u \in Sources : DeadClaimExpires(u) \/ ClaimExpires(u) \/ GoStale(u)
             \/ \E ss \in SUBSET Sources : Rediscover(ss)
    BY <1>0, <2>2, ClaimRows
  <2>3. ASSUME NEW b \in Batches, ClaimSources(b) PROVE reg'[s].sig = reg[s].sig
    <3>1. reg[s] \in Entry
      BY <1>0
    <3>2. reg'[s] = reg[s] \/ reg'[s] = [reg[s] EXCEPT !.dtoken = b, !.dlive = TRUE]
      BY <2>3 DEF ClaimSources, ClaimForDiscovery
    <3> QED BY <3>1, <3>2 DEF Entry
  <2>4. CASE \/ UNCHANGED vars
             \/ \E b \in Batches : EnqueueBatch(b) \/ EnqueueLost(b)
             \/ \E r \in Runners, b \in Batches : StartBatch(r, b)
             \/ \E r \in Runners :
                  Query(r) \/ SettleBatch(r) \/ LoseRunner(r) \/ LoseLease(r)
             \/ \E r \in Runners, u \in Sources : QueryFails(r, u)
             \/ \E u \in Sources : ArchiveChanges(u)
    BY <2>4 DEF vars, EnqueueBatch, EnqueueLost, StartBatch, Query, SettleBatch, LoseRunner,
                LoseLease, QueryFails, ArchiveChanges
  <2> QED BY <1>2, <2>1, <2>2, <2>3, <2>4 DEF Next, Discovery, Operating
<1> QED BY <1>1, <1>2

\* The signature of a source does not go back to an older state of the archive,
\* however many batches outlive their claims and however often the claim moves
\* on, unless the batch that claims the source was delivered more than once
\* (persist_changed_or_unchanged compares the discovery_claim_token).
THEOREM NeverBack == Spec => RegistryNeverGoesBack
<1>1. Init => WriteInv
  BY InitWrite
<1>2. WriteInv /\ [Next]_vars => WriteInv'
  BY WriteStep
<1>3. WriteInv /\ [Next]_vars =>
        [\A s \in Sources :
           reg'[s].sig < reg[s].sig =>
             reg[s].dtoken # NoBatch /\ batch[reg[s].dtoken].again]_vars
  BY WriteAction
<1> QED BY <1>1, <1>2, <1>3, PTL DEF Spec, RegistryNeverGoesBack
=============================================================================
