--------------------------- MODULE JobQueueProofs ---------------------------
(***************************************************************************)
(* Proofs about JobQueue for every number of workers, loops, jobs, claims  *)
(* and faults.  The argument: a token names one claim of one job; the row  *)
(* of a running job, and no other row, carries its token; a token whose    *)
(* claim was settled, or taken over by a recovery, is on no row any more.  *)
(***************************************************************************)
EXTENDS JobQueue, FiniteSetTheorems, TLAPS

Holding(s) == slots[s].pc \in {"running", "finishing"}

\* A row has a token exactly while it runs, and only then an owner and a lease.
RowInv ==
    \A j \in Jobs :
        /\ jobs[j].status = "running" <=> jobs[j].token # 0
        /\ jobs[j].token # 0 => jobs[j].owner \in Workers
        /\ jobs[j].token = 0 => jobs[j].lease = 0
        /\ jobs[j].token <= claims

\* No two rows carry the same token.
TokenInv ==
    \A j, k \in Jobs :
        (jobs[j].token # 0 /\ jobs[j].token = jobs[k].token) => j = k

\* No two loops believe they hold the same claim.
SlotInv ==
    \A s \in Slots : Holding(s) =>
        /\ slots[s].job \in Jobs
        /\ slots[s].token # 0
        /\ slots[s].token <= claims
        /\ \A t \in Slots : (Holding(t) /\ slots[t].token = slots[s].token) => s = t

\* What the claim history excludes.
HistoryInv ==
    \A r \in history :
        /\ r.token # 0 /\ r.token <= claims
        /\ r.event \in Outcomes =>
             \A j \in Jobs : jobs[j].token # r.token
        /\ r.event = "recovered" =>
             /\ r.prev # 0 /\ r.prev <= claims
             /\ \A j \in Jobs : jobs[j].token # r.prev
             /\ \A q \in history : q.event \in Outcomes => q.token # r.prev

\* The token on a job's row is that of its latest claim, not yet ended.
LatestInv ==
    \A r \in history : jobs[r.job].token # 0 =>
        \/ r.token < jobs[r.job].token
        \/ r.token = jobs[r.job].token /\ r.event \in {"claimed", "recovered"}

IInv == TypeOK /\ RowInv /\ TokenInv /\ SlotInv /\ HistoryInv /\ LatestInv

----------------------------------------------------------------------------

\* Row constructors build rows, and a row without a claim has no token or lease.
LEMMA RowTypes ==
  /\ \A st \in JobStatus, a \in Nat, p \in Pools, d \in 0..DelayTicks :
       Unclaimed(st, a, p, d) \in JobRow
  /\ \A row \in JobRow : Rearmed(row) \in JobRow
  /\ \A row \in JobRow, w \in Workers, t \in Nat : Claimed(row, w, t) \in JobRow
  /\ NoClaim \in Slot /\ SlotDown \in Slot
<1>1. ASSUME NEW st \in JobStatus, NEW a \in Nat, NEW p \in Pools,
             NEW d \in 0..DelayTicks
      PROVE  Unclaimed(st, a, p, d) \in JobRow
  BY QueueAssumption DEF Unclaimed, JobRow
<1>2. ASSUME NEW row \in JobRow PROVE Rearmed(row) \in JobRow
  <2>1. row.pool \in Pools
    BY DEF JobRow
  <2>2. Unclaimed("queued", 0, row.pool, 0) \in JobRow
    BY <1>1, <2>1, QueueAssumption DEF JobStatus
  <2> QED BY <2>2 DEF Rearmed
<1>3. ASSUME NEW row \in JobRow, NEW w \in Workers, NEW t \in Nat
      PROVE  Claimed(row, w, t) \in JobRow
  BY QueueAssumption DEF Claimed, JobRow, JobStatus
<1>4. NoClaim \in Slot /\ SlotDown \in Slot
  BY QueueAssumption DEF NoClaim, SlotDown, Slot, Results
<1> QED BY <1>1, <1>2, <1>3, <1>4

\* Before any worker started no job row exists and no loop holds a claim.
LEMMA InitInv == Init => IInv
<1> SUFFICES ASSUME Init PROVE IInv
  OBVIOUS
<1>1. AbsentJob \in JobRow
  BY RowTypes, QueueAssumption DEF AbsentJob, JobStatus
<1>2. TypeOK
  BY <1>1, RowTypes, QueueAssumption DEF Init, TypeOK
<1>3. RowInv /\ TokenInv
  BY DEF Init, RowInv, TokenInv, AbsentJob, Unclaimed
<1>4. SlotInv /\ HistoryInv /\ LatestInv
  BY DEF Init, SlotInv, HistoryInv, LatestInv, Holding, SlotDown
<1> QED BY <1>2, <1>3, <1>4 DEF IInv

\* Most operations move no claim: they keep or clear tokens, and no loop comes
\* to believe it holds a claim it did not hold before.
Quiet ==
    /\ history' = history
    /\ claims' = claims
    /\ \A j \in Jobs : jobs'[j].token \in {0, jobs[j].token}
    /\ \A s \in Slots : Holding(s)' =>
         /\ Holding(s)
         /\ slots'[s].job = slots[s].job
         /\ slots'[s].token = slots[s].token

\* Such an operation keeps the invariant if it keeps the types and the row's
\* own consistency.
LEMMA QuietStep ==
  ASSUME IInv, TypeOK', RowInv', Quiet
  PROVE  IInv'
<1>1. TokenInv'
  BY DEF IInv, TokenInv, Quiet
<1>2. SlotInv'
  BY DEF IInv, SlotInv, Quiet
<1>3. HistoryInv'
  BY DEF IInv, HistoryInv, Quiet
<1>4. LatestInv'
  <2>1. \A r \in history : r.job \in Jobs
    BY DEF IInv, TypeOK, ClaimRow
  <2> QED BY <2>1 DEF IInv, LatestInv, Quiet
<1> QED BY <1>1, <1>2, <1>3, <1>4 DEF IInv

\* Operations on one job row that keep or clear its claim.
LEMMA RowStep ==
  ASSUME IInv, NEW j \in Jobs, NEW row \in JobRow,
         jobs' = [jobs EXCEPT ![j] = row],
         \/ /\ row.token = jobs[j].token /\ row.owner = jobs[j].owner
            /\ (row.status = "running" <=> jobs[j].status = "running")
            /\ row.token = 0 => row.lease = 0
         \/ row.token = 0 /\ row.lease = 0 /\ row.status # "running",
         claims' = claims
  PROVE  /\ jobs' \in [Jobs -> JobRow]
         /\ RowInv'
         /\ \A k \in Jobs : jobs'[k].token \in {0, jobs[k].token}
<1>1. jobs \in [Jobs -> JobRow] /\ RowInv
  BY DEF IInv, TypeOK
<1>2. jobs' \in [Jobs -> JobRow]
  BY <1>1
<1>3. \A k \in Jobs : jobs'[k] = IF k = j THEN row ELSE jobs[k]
  BY <1>1
<1>5. claims \in Nat
  BY QueueAssumption DEF IInv, TypeOK
<1>4. RowInv'
  BY <1>1, <1>3, <1>5 DEF RowInv
<1> QED BY <1>2, <1>3, <1>4

\* Operations of one consumer loop that leave the tables alone and drop the
\* claim or keep it.
LEMMA LoopStep ==
  ASSUME IInv, NEW s \in Slots, NEW new \in Slot,
         slots' = [slots EXCEPT ![s] = new],
         new.pc \in {"running", "finishing"} =>
            Holding(s) /\ new.job = slots[s].job /\ new.token = slots[s].token,
         faults' \in 0..MaxFaults,
         UNCHANGED <<jobs, registry, proc, history, claims>>
  PROVE  IInv'
<1>1. TypeOK' /\ RowInv'
  BY DEF IInv, TypeOK, RowInv
<1>2. Quiet
  BY DEF Quiet, Holding, IInv, TypeOK
<1> QED BY <1>1, <1>2, QuietStep

\* The operations of the consumer loops that settle nothing.
LEMMA LoopActions ==
  ASSUME IInv, NEW s \in Slots,
         \/ ClaimBegin(s) \/ ClaimNothing(s) \/ RenewRefused(s)
         \/ \E result \in Results : HandlerReturns(s, result)
         \/ FinishRejected(s) \/ LoseDatabase(s)
  PROVE  IInv'
<1> USE QueueAssumption
<1>0. slots[s] \in Slot /\ slots \in [Slots -> Slot] /\ faults \in 0..MaxFaults
  BY DEF IInv, TypeOK
<1>1. CASE ClaimBegin(s)
  <2> DEFINE new == [slots[s] EXCEPT !.pc = "claiming"]
  <2>1. new \in Slot /\ new.pc = "claiming"
    BY <1>0 DEF Slot
  <2>2. slots' = [slots EXCEPT ![s] = new]
    BY <1>1, <1>0 DEF ClaimBegin
  <2> HIDE DEF new
  <2> QED BY <1>1, <1>0, <2>1, <2>2, LoopStep DEF ClaimBegin
<1>2. CASE \E result \in Results : HandlerReturns(s, result)
  <2>1. PICK result \in Results : HandlerReturns(s, result)
    BY <1>2
  <2> DEFINE new == [slots[s] EXCEPT !.pc = "finishing", !.result = result]
  <2>2. new \in Slot /\ new.job = slots[s].job /\ new.token = slots[s].token
    BY <1>0 DEF Slot
  <2>3. slots' = [slots EXCEPT ![s] = new] /\ Holding(s)
    BY <2>1, <1>0 DEF HandlerReturns, Holding
  <2> HIDE DEF new
  <2> QED BY <2>1, <1>0, <2>2, <2>3, LoopStep DEF HandlerReturns
<1>3. CASE ClaimNothing(s) \/ RenewRefused(s) \/ FinishRejected(s) \/ LoseDatabase(s)
  <2>1. NoClaim \in Slot /\ NoClaim.pc = "idle"
    BY RowTypes DEF NoClaim
  <2>2. /\ slots' = [slots EXCEPT ![s] = NoClaim]
        /\ UNCHANGED <<jobs, registry, proc, history, claims>>
        /\ faults' \in 0..MaxFaults
    BY <1>3, <1>0 DEF ClaimNothing, RenewRefused, FinishRejected, LoseDatabase
  <2> QED BY <2>1, <2>2, LoopStep
<1> QED BY <1>1, <1>2, <1>3

\* The operations that write one row of jobs without moving its claim.
LEMMA JobActions ==
  ASSUME IInv, NEW j \in Jobs,
         \/ EnqueueJob(j) \/ TriggerDiscovery(j) \/ CancelJob(j)
         \/ \E w \in Workers : EnqueueRecurring(w, j)
         \/ \E s \in Slots : Renew(s) /\ j = slots[s].job
  PROVE  IInv'
<1> USE QueueAssumption
<1>0. jobs \in [Jobs -> JobRow] /\ jobs[j] \in JobRow /\ RowInv
  BY DEF IInv, TypeOK
<1>a. Rearmed(jobs[j]) \in JobRow
  BY <1>0, RowTypes
<1>b. ASSUME NEW row \in JobRow, jobs' = [jobs EXCEPT ![j] = row],
             \/ /\ row.token = jobs[j].token /\ row.owner = jobs[j].owner
                /\ (row.status = "running" <=> jobs[j].status = "running")
                /\ row.token = 0 => row.lease = 0
             \/ row.token = 0 /\ row.lease = 0 /\ row.status # "running",
             UNCHANGED <<registry, proc, slots, history, claims, faults>>
      PROVE  IInv'
  <2>1. /\ jobs' \in [Jobs -> JobRow] /\ RowInv'
        /\ \A k \in Jobs : jobs'[k].token \in {0, jobs[k].token}
    BY <1>b, RowStep
  <2>2. TypeOK'
    BY <1>b, <2>1 DEF IInv, TypeOK
  <2>3. Quiet
    BY <1>b, <2>1 DEF Quiet, Holding
  <2> QED BY <2>1, <2>2, <2>3, QuietStep
<1>1. CASE EnqueueJob(j)
  <2>1. PICK d \in {0, DelayTicks}, p \in Pools :
          jobs' = [jobs EXCEPT ![j] = Unclaimed("queued", 0, p, d)]
    BY <1>1 DEF EnqueueJob
  <2>2. Unclaimed("queued", 0, p, d) \in JobRow
    BY RowTypes DEF JobStatus
  <2>3. /\ Unclaimed("queued", 0, p, d).token = 0
        /\ Unclaimed("queued", 0, p, d).lease = 0
        /\ Unclaimed("queued", 0, p, d).status # "running"
    BY DEF Unclaimed
  <2> QED BY <1>1, <1>b, <2>1, <2>2, <2>3 DEF EnqueueJob
<1>c. \/ Rearmed(jobs[j]) = jobs[j]
      \/ /\ Rearmed(jobs[j]).token = 0 /\ Rearmed(jobs[j]).lease = 0
         /\ Rearmed(jobs[j]).status # "running"
  BY DEF Rearmed, Unclaimed
<1>2. CASE TriggerDiscovery(j)
  <2>1. jobs' = [jobs EXCEPT ![j] = Rearmed(jobs[j])]
    BY <1>2 DEF TriggerDiscovery
  <2> QED BY <1>2, <1>a, <1>b, <1>c, <1>0, <2>1 DEF TriggerDiscovery, RowInv
<1>3. CASE CancelJob(j)
  <2> DEFINE row == Released(jobs[j], "cancelled")
  <2>1. row \in JobRow
    BY <1>0, RowTypes DEF Released, JobRow, JobStatus
  <2>2. row.token = 0 /\ row.lease = 0 /\ row.status # "running"
    BY DEF Released, Unclaimed
  <2>3. jobs' = [jobs EXCEPT ![j] = row]
    BY <1>3 DEF CancelJob
  <2> HIDE DEF row
  <2> QED BY <1>3, <1>b, <2>1, <2>2, <2>3 DEF CancelJob
<1>4. CASE \E w \in Workers : EnqueueRecurring(w, j)
  <2>1. PICK w \in Workers : EnqueueRecurring(w, j)
    BY <1>4
  <2> DEFINE old == Rearmed(jobs[j])
             row == [old EXCEPT !.pool = PoolOf[w]]
  <2>2. old \in JobRow
    BY <1>a
  <2>3. jobs' = [jobs EXCEPT ![j] = row]
    BY <2>1 DEF EnqueueRecurring
  <2>4. \/ old = jobs[j]
        \/ old.token = 0 /\ old.lease = 0 /\ old.status # "running"
    BY <1>c
  <2> HIDE DEF old
  <2>5. /\ row \in JobRow /\ row.token = old.token /\ row.lease = old.lease
        /\ row.owner = old.owner /\ row.status = old.status
    BY <2>2 DEF JobRow
  <2>6. old.token = 0 => old.lease = 0
    BY <2>4, <1>0 DEF RowInv
  <2> HIDE DEF row
  <2> QED BY <1>b, <2>1, <2>3, <2>4, <2>5, <2>6 DEF EnqueueRecurring
<1>5. CASE \E s \in Slots : Renew(s) /\ j = slots[s].job
  <2>1. PICK s \in Slots : Renew(s) /\ j = slots[s].job
    BY <1>5
  <2> DEFINE row == [jobs[j] EXCEPT !.lease = LockTicks]
  <2>2. jobs' = [jobs EXCEPT ![j] = row]
    BY <2>1, <1>0 DEF Renew
  <2>3. /\ row \in JobRow /\ row.token = jobs[j].token
        /\ row.owner = jobs[j].owner /\ row.status = jobs[j].status
    BY <1>0 DEF JobRow
  <2>4. jobs[j].token # 0
    BY <2>1, <1>0 DEF Renew, RowInv
  <2> HIDE DEF row
  <2> QED BY <1>b, <2>1, <2>2, <2>3, <2>4 DEF Renew
<1> QED BY <1>1, <1>2, <1>3, <1>4, <1>5

\* Starting, registering, draining, stopping and losing a worker process.
LEMMA WorkerActions ==
  ASSUME IInv, NEW w \in Workers,
         \/ Spawn(w) \/ BeginShutdown(w) \/ FinishShutdown(w) \/ Crash(w)
         \/ \E b \in BOOLEAN : Register(w, b) \/ SetDraining(w, b)
  PROVE  IInv'
<1>1. /\ UNCHANGED <<jobs, history, claims>>
      /\ faults' \in 0..MaxFaults
      /\ registry' \in [Workers -> {"absent", "active", "draining", "stopped"}]
      /\ proc' \in [Workers -> {"off", "booting", "up", "stopping", "dead"}]
  <2> USE QueueAssumption DEF IInv, TypeOK
  <2>1. CASE Spawn(w)
    BY <2>1 DEF Spawn
  <2>2. CASE BeginShutdown(w)
    BY <2>2 DEF BeginShutdown
  <2>3. CASE FinishShutdown(w)
    BY <2>3 DEF FinishShutdown
  <2>4. CASE Crash(w)
    BY <2>4 DEF Crash
  <2>5. CASE \E b \in BOOLEAN : Register(w, b)
    BY <2>5 DEF Register
  <2>6. CASE \E b \in BOOLEAN : SetDraining(w, b)
    BY <2>6 DEF SetDraining
  <2> QED BY <2>1, <2>2, <2>3, <2>4, <2>5, <2>6
<1>2. \/ slots' = slots
      \/ slots' = [s \in Slots |-> IF WorkerOf[s] = w THEN NoClaim ELSE slots[s]]
      \/ slots' = [s \in Slots |-> IF WorkerOf[s] = w THEN SlotDown ELSE slots[s]]
  BY DEF Spawn, BeginShutdown, FinishShutdown, Crash, Register, SetDraining
<1>3. slots \in [Slots -> Slot]
  BY DEF IInv, TypeOK
<1>4. slots' \in [Slots -> Slot]
  BY <1>2, <1>3, RowTypes
<1>5. \A s \in Slots : Holding(s)' => slots'[s] = slots[s]
  BY <1>2, <1>3 DEF Holding, NoClaim, SlotDown
<1>6. TypeOK' /\ RowInv'
  BY <1>1, <1>4 DEF IInv, TypeOK, RowInv
<1>7. Quiet
  BY <1>1, <1>5 DEF Quiet, Holding
<1> QED BY <1>6, <1>7, QuietStep

\* A tick only counts a row's lease and waiting time down.
LEMMA TickRows ==
  ASSUME IInv, Tick, NEW j \in Jobs
  PROVE  /\ jobs'[j] \in JobRow
         /\ jobs'[j].token = jobs[j].token
         /\ jobs'[j].owner = jobs[j].owner
         /\ jobs'[j].status = jobs[j].status
         /\ jobs'[j].attempts = jobs[j].attempts
         /\ jobs[j].lease = 0 => jobs'[j].lease = 0
<1> USE QueueAssumption
<1>1. jobs \in [Jobs -> JobRow]
  BY DEF IInv, TypeOK
<1> DEFINE l == Countdown(jobs[j].lease)
           d == Countdown(jobs[j].wait)
<1>2. jobs'[j] = [jobs[j] EXCEPT !.lease = l, !.wait = d]
  BY DEF Tick
<1>3. jobs[j] \in JobRow
  BY <1>1
<1>4. l \in 0..LockTicks /\ d \in 0..DelayTicks /\ (jobs[j].lease = 0 => l = 0)
  BY <1>3 DEF JobRow, Countdown
<1> HIDE DEF l, d
<1>5. jobs'[j] \in JobRow
  BY <1>2, <1>3, <1>4 DEF JobRow
<1> QED BY <1>2, <1>3, <1>4, <1>5 DEF JobRow

\* The clock only counts leases down: it takes no token from a row or a loop.
LEMMA TickAction == IInv /\ Tick => IInv'
<1> SUFFICES ASSUME IInv, Tick PROVE IInv'
  OBVIOUS
<1> USE QueueAssumption
<1>1. jobs \in [Jobs -> JobRow] /\ RowInv
  BY DEF IInv, TypeOK
<1>2. ASSUME NEW j \in Jobs
      PROVE  /\ jobs'[j] \in JobRow
             /\ jobs'[j].token = jobs[j].token
             /\ jobs'[j].owner = jobs[j].owner
             /\ jobs'[j].status = jobs[j].status
             /\ jobs[j].lease = 0 => jobs'[j].lease = 0
  BY <1>2, TickRows
<1>3. jobs' \in [Jobs -> JobRow]
  <2>1. jobs' = [j \in Jobs |-> jobs'[j]]
    BY DEF Tick
  <2> QED BY <2>1, <1>2
<1>4. UNCHANGED <<registry, proc, slots, history, claims>> /\ faults' \in 0..MaxFaults
  <2>1. faults \in 0..MaxFaults
    BY DEF IInv, TypeOK
  <2>2. UNCHANGED <<registry, proc, slots, history, claims>>
    BY DEF Tick
  <2>3. (faults < MaxFaults /\ faults' = faults + 1) \/ faults' = faults
    BY DEF Tick
  <2>4. faults' \in 0..MaxFaults
    BY <2>1, <2>3
  <2> QED BY <2>2, <2>4
<1>5. TypeOK'
  BY <1>3, <1>4 DEF IInv, TypeOK
<1>6. RowInv'
  BY <1>1, <1>2, <1>4 DEF RowInv
<1>7. Quiet
  BY <1>2, <1>4 DEF Quiet, Holding
<1> QED BY <1>5, <1>6, <1>7, QuietStep

\* A claim takes a fresh token, so whatever was settled or recovered before has
\* another one; the token it replaces leaves the table.
LEMMA ClaimAction ==
  ASSUME IInv, NEW s \in Slots, NEW j \in Jobs, ClaimCommit(s, j)
  PROVE  IInv'
<1> USE QueueAssumption
<1> DEFINE w == WorkerOf[s]
           t == claims + 1
           row == Claimed(jobs[j], w, t)
           new == [pc |-> "running", job |-> j, token |-> t, result |-> "ok"]
           event == IF jobs[j].status = "running" THEN "recovered" ELSE "claimed"
           entry == [job |-> j, worker |-> w, token |-> t,
                     event |-> event, prev |-> jobs[j].token]
<1>0. /\ jobs \in [Jobs -> JobRow] /\ jobs[j] \in JobRow
      /\ slots \in [Slots -> Slot] /\ history \subseteq ClaimRow
      /\ claims \in Nat /\ t \in Nat /\ w \in Workers
      /\ RowInv /\ TokenInv /\ SlotInv /\ HistoryInv
  BY DEF IInv, TypeOK
<1>0a. LatestInv
  BY DEF IInv
<1>1. /\ jobs' = [jobs EXCEPT ![j] = row] /\ slots' = [slots EXCEPT ![s] = new]
      /\ history' = history \cup {entry} /\ claims' = t /\ t \in 0..MaxClaims
      /\ UNCHANGED <<registry, proc, faults>>
  BY <1>0 DEF ClaimCommit, Record, IInv, TypeOK
<1>2. row \in JobRow /\ new \in Slot
  BY <1>0, RowTypes DEF Slot, Results
<1>3. entry \in ClaimRow
  BY <1>0 DEF ClaimRow, JobRow
<1>4. TypeOK'
  BY <1>0, <1>1, <1>2, <1>3 DEF IInv, TypeOK
<1>5. /\ row.token = t /\ row.status = "running" /\ row.owner = w
      /\ new.job = j /\ new.token = t /\ new.pc = "running"
      /\ entry.token = t /\ entry.event \in {"claimed", "recovered"}
      /\ entry.prev = jobs[j].token
      /\ entry.event = "recovered" => jobs[j].status = "running"
  BY DEF Claimed
<1>6. \A k \in Jobs : jobs[k].token \in Nat
  BY <1>0 DEF JobRow
<1>7. \A k \in Jobs : jobs'[k] = IF k = j THEN row ELSE jobs[k]
  BY <1>0, <1>1
<1>8. \A x \in Slots : slots'[x] = IF x = s THEN new ELSE slots[x]
  BY <1>0, <1>1
<1>9. \A x \in Slots : slots[x].token \in Nat
  BY <1>0 DEF Slot
<1>10. \A r \in history : r.token \in Nat /\ r.prev \in Nat
  BY <1>0 DEF ClaimRow
<1> HIDE DEF w, t, row, new, event, entry
<1>t. t = claims + 1
  BY DEF t
<1>11. RowInv'
  BY <1>0, <1>1, <1>5, <1>6, <1>7, <1>t DEF RowInv
<1>12. TokenInv'
  BY <1>0, <1>5, <1>6, <1>7, <1>t DEF RowInv, TokenInv
<1>13. SlotInv'
  BY <1>0, <1>1, <1>5, <1>8, <1>9, <1>t DEF SlotInv, Holding
<1>14. entry.event = "recovered" =>
         /\ entry.prev # 0 /\ entry.prev <= claims
         /\ \A q \in history : q.event \in Outcomes => q.token # entry.prev
         /\ \A k \in Jobs : k # j => jobs[k].token # entry.prev
  BY <1>0, <1>5 DEF RowInv, TokenInv, HistoryInv
<1>15. entry.event \notin Outcomes
  BY <1>5 DEF Outcomes
<1>16. HistoryInv'
  <2> SUFFICES ASSUME NEW r \in history \cup {entry}
               PROVE /\ r.token # 0 /\ r.token <= t
                     /\ r.event \in Outcomes =>
                          \A k \in Jobs : jobs'[k].token # r.token
                     /\ r.event = "recovered" =>
                          /\ r.prev # 0 /\ r.prev <= t
                          /\ \A k \in Jobs : jobs'[k].token # r.prev
                          /\ \A q \in history' :
                               q.event \in Outcomes => q.token # r.prev
    BY <1>1 DEF HistoryInv
  <2>1. CASE r \in history
    BY <2>1, <1>0, <1>1, <1>5, <1>6, <1>7, <1>10, <1>15, <1>t DEF HistoryInv
  <2>2. CASE r = entry
    <3>1. r.token # 0 /\ r.token <= t /\ r.event \notin Outcomes
      BY <2>2, <1>0, <1>5, <1>15, <1>t
    <3>2. ASSUME r.event = "recovered"
          PROVE  /\ r.prev # 0 /\ r.prev <= t
                 /\ \A k \in Jobs : jobs'[k].token # r.prev
                 /\ \A q \in history' : q.event \in Outcomes => q.token # r.prev
      BY <3>2, <2>2, <1>0, <1>1, <1>5, <1>6, <1>7, <1>14, <1>15, <1>t
    <3> QED BY <3>1, <3>2
  <2> QED BY <2>1, <2>2
<1>17. LatestInv'
  <2>1. \A r \in history : r.job \in Jobs /\ r.token <= claims
    BY <1>0 DEF ClaimRow, HistoryInv
  <2>2. entry.job = j
    BY DEF entry
  <2>3. \A r \in history : r.token < t
    BY <2>1, <1>0, <1>10, <1>t
  <2> SUFFICES ASSUME NEW r \in history \cup {entry}, jobs'[r.job].token # 0
               PROVE  \/ r.token < jobs'[r.job].token
                      \/ r.token = jobs'[r.job].token /\ r.event \in {"claimed", "recovered"}
    BY <1>1 DEF LatestInv
  <2>4. CASE r = entry
    BY <2>4, <2>2, <1>5, <1>7
  <2>5. CASE r \in history /\ r.job = j
    BY <2>5, <2>3, <1>5, <1>7
  <2>6. CASE r \in history /\ r.job # j
    <3>1. jobs'[r.job] = jobs[r.job]
      BY <2>6, <2>1, <1>7
    <3> QED BY <2>6, <3>1, <1>0a DEF LatestInv
  <2> QED BY <2>4, <2>5, <2>6
<1> QED BY <1>4, <1>11, <1>12, <1>13, <1>16, <1>17 DEF IInv

\* The row a handler's result leaves: no claim, and an event that is an outcome.
LEMMA SettledRowShape ==
  ASSUME NEW j \in Jobs, jobs[j] \in JobRow, NEW result \in Results
  PROVE  /\ SettledRow(j, result) \in JobRow
         /\ SettledRow(j, result).token = 0
         /\ SettledRow(j, result).lease = 0
         /\ SettledRow(j, result).status # "running"
         /\ EventOf(SettledRow(j, result).status) \in Outcomes
<1> USE QueueAssumption
<1>1. jobs[j].attempts \in Nat /\ jobs[j].pool \in Pools /\ jobs[j].wait \in 0..DelayTicks
  BY DEF JobRow
<1>2. \E st \in {"queued", "completed", "failed", "dead_letter"}, a \in Nat,
         d \in 0..DelayTicks : SettledRow(j, result) = Unclaimed(st, a, jobs[j].pool, d)
  <2>1. CASE result = "ok" /\ Kind[j] = "poll_tick"
    BY <2>1, <1>1 DEF SettledRow
  <2>2. CASE result = "ok" /\ Kind[j] # "poll_tick"
    BY <2>2, <1>1 DEF SettledRow, Released
  <2>3. CASE result = "permanent"
    BY <2>3, <1>1 DEF SettledRow, Released
  <2>4. CASE result = "retryable"
    <3> DEFINE st == IF jobs[j].attempts >= MaxAttempts THEN "dead_letter" ELSE "queued"
    <3>1. SettledRow(j, result) = Unclaimed(st, jobs[j].attempts, jobs[j].pool, DelayTicks)
      BY <2>4 DEF SettledRow
    <3>2. st \in {"queued", "completed", "failed", "dead_letter"}
      OBVIOUS
    <3> HIDE DEF st
    <3> QED BY <3>1, <3>2, <1>1
  <2> QED BY <2>1, <2>2, <2>3, <2>4 DEF Results
<1>3. PICK st \in {"queued", "completed", "failed", "dead_letter"}, a \in Nat,
           d \in 0..DelayTicks : SettledRow(j, result) = Unclaimed(st, a, jobs[j].pool, d)
  BY <1>2
<1>4. Unclaimed(st, a, jobs[j].pool, d) \in JobRow
  BY <1>1, RowTypes DEF JobStatus
<1>5. EventOf(st) \in Outcomes
  BY DEF EventOf, Outcomes
<1> QED BY <1>3, <1>4, <1>5 DEF Unclaimed

\* A claim that is still fenced settles its job: its token leaves the table, so
\* nothing can settle or recover it again.
LEMMA FinishAction ==
  ASSUME IInv, NEW s \in Slots, Finish(s)
  PROVE  IInv'
<1> USE QueueAssumption
<1> DEFINE j == slots[s].job
           t == slots[s].token
           row == SettledRow(j, slots[s].result)
           entry == [job |-> j, worker |-> WorkerOf[s], token |-> t,
                     event |-> EventOf(row.status), prev |-> 0]
<1>0. /\ jobs \in [Jobs -> JobRow] /\ slots \in [Slots -> Slot]
      /\ slots[s] \in Slot /\ history \subseteq ClaimRow
      /\ RowInv /\ TokenInv /\ SlotInv /\ HistoryInv
  BY DEF IInv, TypeOK
<1>1. /\ jobs' = [jobs EXCEPT ![j] = row] /\ slots' = [slots EXCEPT ![s] = NoClaim]
      /\ history' = history \cup {entry} /\ UNCHANGED <<registry, proc, claims, faults>>
      /\ Holding(s) /\ jobs[j].token = t
  BY DEF Finish, Record, Holding, Fenced
<1>2. j \in Jobs /\ t # 0 /\ t <= claims /\ t \in Nat
  BY <1>0, <1>1 DEF SlotInv, Slot
<1>3. /\ row \in JobRow /\ row.token = 0 /\ row.lease = 0 /\ row.status # "running"
      /\ EventOf(row.status) \in Outcomes
  BY <1>0, <1>2, SettledRowShape DEF Slot
<1>4. /\ entry \in ClaimRow /\ entry.token = t /\ entry.event \in Outcomes
      /\ entry.event # "recovered"
  BY <1>2, <1>3 DEF ClaimRow, Outcomes
<1>5. \A k \in Jobs : jobs'[k] = IF k = j THEN row ELSE jobs[k]
  BY <1>0, <1>1
<1>6. \A x \in Slots : slots'[x] = IF x = s THEN NoClaim ELSE slots[x]
  BY <1>0, <1>1
<1>0b. entry.job = j
  OBVIOUS
<1> HIDE DEF j, t, row, entry
<1>7. TypeOK'
  BY <1>0, <1>1, <1>2, <1>3, <1>4, RowTypes DEF IInv, TypeOK
<1>8. RowInv' /\ TokenInv'
  <2>1. claims \in Nat /\ claims' = claims
    BY <1>1 DEF IInv, TypeOK
  <2>2. RowInv'
    BY <2>1, <1>0, <1>3, <1>5 DEF RowInv
  <2>3. TokenInv'
    BY <1>0, <1>3, <1>5 DEF TokenInv
  <2> QED BY <2>2, <2>3
<1>9. SlotInv'
  BY <1>0, <1>1, <1>6 DEF SlotInv, Holding, NoClaim
<1>10. /\ \A k \in Jobs : jobs'[k].token # t
       /\ \A k \in Jobs : jobs'[k].token \in {0, jobs[k].token}
  BY <1>0, <1>1, <1>2, <1>3, <1>5 DEF TokenInv
<1>11. \A q \in history : /\ q.event \in Outcomes => q.token # t
                          /\ q.event = "recovered" => q.prev # t
  BY <1>0, <1>1, <1>2 DEF HistoryInv
<1>12. HistoryInv'
  <2> SUFFICES ASSUME NEW r \in history \cup {entry}
               PROVE /\ r.token # 0 /\ r.token <= claims
                     /\ r.event \in Outcomes =>
                          \A k \in Jobs : jobs'[k].token # r.token
                     /\ r.event = "recovered" =>
                          /\ r.prev # 0 /\ r.prev <= claims
                          /\ \A k \in Jobs : jobs'[k].token # r.prev
                          /\ \A q \in history' :
                               q.event \in Outcomes => q.token # r.prev
    BY <1>1 DEF HistoryInv
  <2>1. CASE r \in history
    BY <2>1, <1>0, <1>1, <1>4, <1>10, <1>11 DEF HistoryInv
  <2>2. CASE r = entry
    BY <2>2, <1>1, <1>2, <1>4, <1>10, <1>11
  <2> QED BY <2>1, <2>2
<1>13. LatestInv'
  <2>1. \A r \in history' : r \in history \/ r.job = j
    BY <1>1, <1>0b
  <2>2. \A r \in history : r.job \in Jobs
    BY <1>0 DEF ClaimRow
  <2>3. LatestInv
    BY DEF IInv
  <2> QED BY <2>1, <2>2, <2>3, <1>2, <1>3, <1>5 DEF LatestInv
<1> QED BY <1>7, <1>8, <1>9, <1>12, <1>13 DEF IInv

\* Cancelling or abandoning the execution takes the row away from its claim:
\* the token leaves the table unsettled.
LEMMA ReleaseAction ==
  ASSUME IInv, NEW j \in Jobs, ReleaseAbandoned(j)
  PROVE  IInv'
<1> USE QueueAssumption
<1> DEFINE row == Released(jobs[j], "cancelled")
           entry == [job |-> j, worker |-> jobs[j].owner, token |-> jobs[j].token,
                     event |-> "released", prev |-> 0]
<1>0. /\ jobs \in [Jobs -> JobRow] /\ jobs[j] \in JobRow
      /\ slots \in [Slots -> Slot] /\ history \subseteq ClaimRow
      /\ RowInv /\ TokenInv /\ SlotInv /\ HistoryInv
  BY DEF IInv, TypeOK
<1>1. /\ jobs' = [jobs EXCEPT ![j] = row]
      /\ UNCHANGED <<registry, proc, slots, claims, faults>>
      /\ history' = history \/ (jobs[j].token # 0 /\ history' = history \cup {entry})
  BY DEF ReleaseAbandoned, Record
<1>2. row \in JobRow /\ row.token = 0 /\ row.lease = 0 /\ row.status # "running"
  <2>1. jobs[j].attempts \in Nat /\ jobs[j].pool \in Pools /\ jobs[j].wait \in 0..DelayTicks
    BY <1>0 DEF JobRow
  <2>2. row \in JobRow
    BY <2>1, RowTypes DEF Released, JobStatus
  <2> QED BY <2>2 DEF Released, Unclaimed
<1>3. /\ jobs[j].token # 0 => entry \in ClaimRow
      /\ entry.token = jobs[j].token /\ entry.event = "released" /\ entry.job = j
  BY <1>0 DEF ClaimRow, JobRow, RowInv
<1> HIDE DEF row, entry
<1>4. /\ jobs' \in [Jobs -> JobRow] /\ RowInv'
      /\ \A k \in Jobs : jobs'[k].token \in {0, jobs[k].token}
  BY <1>1, <1>2, RowStep
<1>5. TypeOK'
  BY <1>0, <1>1, <1>3, <1>4 DEF IInv, TypeOK
<1>6. TokenInv'
  BY <1>0, <1>4 DEF TokenInv
<1>7. SlotInv'
  BY <1>0, <1>1 DEF SlotInv, Holding
<1>8. HistoryInv'
  <2>1. CASE history' = history
    BY <2>1, <1>0, <1>1, <1>4 DEF HistoryInv
  <2>2. CASE jobs[j].token # 0 /\ history' = history \cup {entry}
    <3>1. entry.event \notin Outcomes \cup {"recovered"}
      BY <1>3 DEF Outcomes
    <3>2. entry.token # 0 /\ entry.token <= claims
      BY <1>0, <1>3, <2>2 DEF RowInv
    <3> QED BY <2>2, <3>1, <3>2, <1>0, <1>1, <1>4 DEF HistoryInv
  <2> QED BY <1>1, <2>1, <2>2
<1>9. LatestInv'
  <2>1. \A r \in history' : r \in history \/ r.job = j
    BY <1>1, <1>3
  <2>2. \A r \in history : r.job \in Jobs
    BY <1>0 DEF ClaimRow
  <2>3. LatestInv
    BY DEF IInv
  <2>4. jobs'[j].token = 0
    BY <1>0, <1>1, <1>2
  <2> QED BY <2>1, <2>2, <2>3, <2>4, <1>4 DEF LatestInv
<1> QED BY <1>4, <1>5, <1>6, <1>7, <1>8, <1>9 DEF IInv

\* Every operation of the queue keeps the inductive invariant.
LEMMA StepInv == IInv /\ [Next]_vars => IInv'
<1> SUFFICES ASSUME IInv, [Next]_vars PROVE IInv'
  OBVIOUS
<1>1. ASSUME NEW j \in Jobs,
             EnqueueJob(j) \/ TriggerDiscovery(j) \/ CancelJob(j)
      PROVE  IInv'
  BY <1>1, JobActions
<1>2. ASSUME NEW j \in Jobs, ReleaseAbandoned(j) PROVE IInv'
  BY <1>2, ReleaseAction
<1>3. ASSUME NEW w \in Workers,
             \/ Spawn(w) \/ BeginShutdown(w) \/ FinishShutdown(w) \/ Crash(w)
             \/ \E b \in BOOLEAN : Register(w, b) \/ SetDraining(w, b)
      PROVE  IInv'
  BY <1>3, WorkerActions
<1>4. ASSUME NEW w \in Workers, NEW j \in Jobs, EnqueueRecurring(w, j) PROVE IInv'
  BY <1>4, JobActions
<1>5. ASSUME NEW s \in Slots, Consume(s) PROVE IInv'
  <2>1. CASE Renew(s)
    <3>1. slots[s].job \in Jobs
      BY <2>1 DEF IInv, SlotInv, Holding, Renew
    <3> QED BY <2>1, <3>1, JobActions
  <2>2. CASE \E j \in Jobs : ClaimCommit(s, j)
    BY <2>2, ClaimAction
  <2>3. CASE Finish(s)
    BY <2>3, FinishAction
  <2>4. CASE \/ ClaimBegin(s) \/ ClaimNothing(s) \/ RenewRefused(s)
             \/ \E result \in Results : HandlerReturns(s, result)
             \/ FinishRejected(s) \/ LoseDatabase(s)
    BY <2>4, LoopActions
  <2> QED BY <1>5, <2>1, <2>2, <2>3, <2>4 DEF Consume
<1>6. CASE Tick
  BY <1>6, TickAction
<1>7. CASE UNCHANGED vars
  <2>1. TypeOK' /\ RowInv'
    BY <1>7 DEF vars, IInv, TypeOK, RowInv
  <2>2. Quiet
    BY <1>7 DEF vars, Quiet, Holding
  <2> QED BY <2>1, <2>2, QuietStep
<1> QED BY <1>1, <1>2, <1>3, <1>4, <1>5, <1>6, <1>7 DEF Next

----------------------------------------------------------------------------

\* The inductive invariant holds in every reachable state.
THEOREM Invariance == Spec => []IInv
<1> QED BY InitInv, StepInv, PTL DEF Spec

\* Every table row, loop and counter keeps its type under every operation of
\* the workers, the operators and the clock.
THEOREM TypeCorrect == Spec => []TypeOK
<1>1. IInv => TypeOK
  BY DEF IInv
<1> QED BY <1>1, Invariance, PTL

\* Fencing of claim_next_job_for_worker and the four settling updates: for any
\* number of workers, crashes and stalls, a claim that was recovered by another
\* worker never settles the job.
THEOREM Fencing == Spec => []RecoveredClaimNeverSettles
<1>1. IInv => RecoveredClaimNeverSettles
  BY DEF IInv, HistoryInv, RecoveredClaimNeverSettles
<1> QED BY <1>1, Invariance, PTL

\* Of the operations of the queue only a settlement records an outcome, and
\* none removes a row of the claim history.
LEMMA OutcomesAreSettlements ==
  ASSUME [Next]_vars
  PROVE  /\ history \subseteq history'
         /\ (\E r \in history' \ history : r.event \in Outcomes)
              => \E s \in Slots : Finish(s)
<1>1. CASE \E s \in Slots : Finish(s)
  BY <1>1 DEF Finish, Record
<1>2. CASE \E s \in Slots, j \in Jobs : ClaimCommit(s, j)
  BY <1>2 DEF ClaimCommit, Record, Outcomes
<1>3. CASE \E j \in Jobs : ReleaseAbandoned(j)
  BY <1>3 DEF ReleaseAbandoned, Record, Outcomes
<1>4. CASE history' = history
  BY <1>4
<1>5. ASSUME NEW s \in Slots, Consume(s)
      PROVE  Finish(s) \/ (\E j \in Jobs : ClaimCommit(s, j)) \/ history' = history
  BY <1>5 DEF Consume, ClaimBegin, ClaimNothing, Renew, RenewRefused,
              HandlerReturns, FinishRejected, LoseDatabase
<1>6. ASSUME NEW j \in Jobs, EnqueueJob(j) \/ TriggerDiscovery(j) \/ CancelJob(j)
      PROVE  history' = history
  BY <1>6 DEF EnqueueJob, TriggerDiscovery, CancelJob
<1>7. ASSUME NEW w \in Workers,
             \/ Spawn(w) \/ BeginShutdown(w) \/ FinishShutdown(w) \/ Crash(w)
             \/ \E b \in BOOLEAN : Register(w, b) \/ SetDraining(w, b)
             \/ \E j \in Jobs : EnqueueRecurring(w, j)
      PROVE  history' = history
  BY <1>7 DEF Spawn, BeginShutdown, FinishShutdown, Crash, Register, SetDraining,
              EnqueueRecurring
<1>8. Tick \/ UNCHANGED vars => history' = history
  BY DEF Tick, vars
<1> QED BY <1>1, <1>2, <1>3, <1>4, <1>5, <1>6, <1>7, <1>8 DEF Next

\* Whatever happened to a job since it was claimed (recovered, requeued,
\* cancelled, rearmed, abandoned), the claim that settles it is its latest one,
\* and settles it once.
THEOREM LatestSettles == Spec => OnlyLatestClaimSettles
<1> DEFINE Latest ==
      \A r \in history' \ history :
         r.event \in Outcomes =>
           \A q \in history : q.job = r.job =>
             \/ q.token < r.token
             \/ q.token = r.token /\ q.event \in {"claimed", "recovered"}
<1>1. IInv /\ [Next]_vars => Latest
  <2> SUFFICES ASSUME IInv, [Next]_vars, NEW r \in history' \ history,
                      r.event \in Outcomes, NEW q \in history, q.job = r.job
               PROVE  \/ q.token < r.token
                      \/ q.token = r.token /\ q.event \in {"claimed", "recovered"}
    OBVIOUS
  <2>0. PICK s \in Slots : Finish(s)
    BY OutcomesAreSettlements
  <2>1. /\ Holding(s) /\ Fenced(s)
        /\ r.job = slots[s].job /\ r.token = slots[s].token
    BY <2>0 DEF Finish, Record, Holding
  <2>2. jobs[r.job].token = r.token /\ r.token # 0
    BY <2>1 DEF Fenced, IInv, SlotInv
  <2> QED BY <2>2 DEF IInv, LatestInv
<1>2. Latest => [Latest]_vars
  OBVIOUS
<1> QED BY <1>1, Invariance, PTL DEF Spec, OnlyLatestClaimSettles

\* Of all handlers running for one job, at most one can still settle it.
THEOREM LiveHolder == Spec => []OneLiveHolder
<1>1. IInv => OneLiveHolder
  BY DEF IInv, SlotInv, Holding, Fenced, OneLiveHolder
<1> QED BY <1>1, Invariance, PTL

----------------------------------------------------------------------------
\* The operations of the queue one by one, for the theorems that look at what
\* each of them does to the rows.

\* A claim of a job needs its lease to have run out and gives it a new token.
LEMMA ClaimTakes ==
  ASSUME IInv, NEW s \in Slots, NEW j \in Jobs, ClaimCommit(s, j)
  PROVE  /\ jobs[j].lease = 0
         /\ jobs' = [jobs EXCEPT ![j] = Claimed(jobs[j], WorkerOf[s], claims + 1)]
         /\ claims' = claims + 1
  BY DEF ClaimCommit, Claimable

\* A handler that settles its job holds the row's token, and leaves a row with
\* neither token nor lease.
LEMMA FinishClears ==
  ASSUME IInv, NEW s \in Slots, Finish(s)
  PROVE  \E j \in Jobs, row \in JobRow :
           /\ jobs[j].token # 0
           /\ row.token = 0 /\ row.lease = 0
           /\ row.status = "queued" => row.attempts < MaxAttempts
           /\ jobs' = [jobs EXCEPT ![j] = row]
           /\ \E r \in ClaimRow : /\ r.event \in Outcomes
                                  /\ r.token = jobs[j].token
                                  /\ history' = history \cup {r}
           /\ claims' = claims
<1> USE QueueAssumption
<1> DEFINE j == slots[s].job
           row == SettledRow(j, slots[s].result)
<1>1. Holding(s) /\ slots[s] \in Slot
  BY DEF Finish, Holding, IInv, TypeOK
<1>2. j \in Jobs /\ slots[s].token # 0 /\ jobs[j] \in JobRow
  BY <1>1 DEF IInv, SlotInv, TypeOK
<1>3. slots[s].result \in Results
  BY <1>1 DEF Slot
<1>4. /\ row \in JobRow /\ row.token = 0 /\ row.lease = 0
      /\ EventOf(row.status) \in Outcomes
  BY <1>2, <1>3, SettledRowShape
<1>5. row.status = "queued" => row.attempts < MaxAttempts
  <2>1. jobs[j].attempts \in Nat
    BY <1>2 DEF JobRow
  <2>2. CASE slots[s].result = "ok"
    BY <2>2, <2>1 DEF SettledRow, Unclaimed, Released
  <2>3. CASE slots[s].result = "permanent"
    BY <2>3, <2>1 DEF SettledRow, Unclaimed, Released
  <2>4. CASE slots[s].result = "retryable"
    BY <2>4, <2>1 DEF SettledRow, Unclaimed
  <2> QED BY <2>2, <2>3, <2>4, <1>3 DEF Results
<1>6. jobs[j].token = slots[s].token
  BY DEF Finish, Fenced
<1>7. jobs' = [jobs EXCEPT ![j] = row] /\ claims' = claims
  BY DEF Finish
<1> DEFINE r == [job |-> j, worker |-> WorkerOf[s], token |-> slots[s].token,
                 event |-> EventOf(row.status), prev |-> 0]
<1>8. history' = history \cup {r}
  BY DEF Finish, Record
<1>9. r \in ClaimRow /\ r.event \in Outcomes /\ r.token = jobs[j].token
  BY <1>1, <1>2, <1>4, <1>6 DEF ClaimRow, Slot
<1> HIDE DEF row, j, r
<1> QED BY <1>2, <1>4, <1>5, <1>6, <1>7, <1>8, <1>9

\* The operations that neither claim nor settle keep every row or take away
\* its claim, or only move it between pools, renew its lease, or let it age.
LEMMA OtherRows ==
  ASSUME IInv, [Next]_vars,
         ~ \E s \in Slots : Finish(s) \/ \E j \in Jobs : ClaimCommit(s, j)
  PROVE  /\ claims' = claims
         /\ \/ \A k \in Jobs : /\ jobs'[k].token = jobs[k].token
                               /\ jobs'[k].owner = jobs[k].owner
                               /\ jobs'[k].lease > 0 => jobs[k].lease > 0
                               /\ jobs'[k].status = jobs[k].status
                               /\ jobs'[k].attempts = jobs[k].attempts
            \/ \E j \in Jobs : \E row :
                 /\ jobs' = [jobs EXCEPT ![j] = row]
                 /\ row.token = 0 /\ row.lease = 0
                 /\ row.status = "queued" => row.attempts = 0
<1> USE QueueAssumption
<1>0. jobs \in [Jobs -> JobRow] /\ RowInv
  BY DEF IInv, TypeOK
<1>1. ASSUME NEW j \in Jobs,
             EnqueueJob(j) \/ TriggerDiscovery(j) \/ CancelJob(j) \/ ReleaseAbandoned(j)
      PROVE  /\ claims' = claims
             /\ \E row : /\ jobs' = [jobs EXCEPT ![j] = row]
                         /\ \/ row = jobs[j]
                            \/ /\ row.token = 0 /\ row.lease = 0
                               /\ row.status = "queued" => row.attempts = 0
  BY <1>1 DEF EnqueueJob, TriggerDiscovery, CancelJob, ReleaseAbandoned, Rearmed,
              Released, Unclaimed
<1>2. ASSUME NEW w \in Workers, NEW j \in Jobs, EnqueueRecurring(w, j)
      PROVE  /\ claims' = claims
             /\ \E row : /\ jobs' = [jobs EXCEPT ![j] = row]
                         /\ \/ /\ row.token = jobs[j].token /\ row.lease = jobs[j].lease
                               /\ row.owner = jobs[j].owner
                               /\ row.status = jobs[j].status
                               /\ row.attempts = jobs[j].attempts
                            \/ /\ row.token = 0 /\ row.lease = 0
                               /\ row.status = "queued" => row.attempts = 0
  <2> DEFINE row == [Rearmed(jobs[j]) EXCEPT !.pool = PoolOf[w]]
  <2>1. jobs' = [jobs EXCEPT ![j] = row] /\ claims' = claims
    BY <1>2 DEF EnqueueRecurring
  <2>2. jobs[j] \in JobRow
    BY <1>0
  <2>3. CASE jobs[j].status \in Settled \cup {"absent"}
    <3>1. row = [Unclaimed("queued", 0, jobs[j].pool, 0) EXCEPT !.pool = PoolOf[w]]
      BY <2>3 DEF Rearmed
    <3>2. row.token = 0 /\ row.lease = 0 /\ row.attempts = 0
      BY <3>1 DEF Unclaimed
    <3> HIDE DEF row
    <3> QED BY <2>1, <3>2
  <2>4. CASE jobs[j].status \notin Settled \cup {"absent"}
    <3>1. row = [jobs[j] EXCEPT !.pool = PoolOf[w]]
      BY <2>4 DEF Rearmed
    <3>2. /\ row.token = jobs[j].token /\ row.lease = jobs[j].lease
          /\ row.owner = jobs[j].owner
          /\ row.status = jobs[j].status /\ row.attempts = jobs[j].attempts
      BY <3>1, <2>2 DEF JobRow
    <3> HIDE DEF row
    <3> QED BY <2>1, <3>2
  <2> QED BY <2>3, <2>4
<1>3. ASSUME NEW s \in Slots, Renew(s)
      PROVE  /\ claims' = claims
             /\ \E j \in Jobs : /\ jobs' = [jobs EXCEPT ![j].lease = LockTicks]
                                /\ jobs[j].lease > 0
  <2>1. Holding(s)
    BY <1>3 DEF Renew, Holding
  <2>2. slots[s].job \in Jobs
    BY <2>1 DEF IInv, SlotInv
  <2> QED BY <1>3, <2>2 DEF Renew
<1>4. ASSUME Tick
      PROVE  /\ claims' = claims
             /\ \A k \in Jobs : /\ jobs'[k].token = jobs[k].token
                                /\ jobs'[k].owner = jobs[k].owner
                                /\ jobs'[k].lease > 0 => jobs[k].lease > 0
                                /\ jobs'[k].status = jobs[k].status
                                /\ jobs'[k].attempts = jobs[k].attempts
  <2>1. ASSUME NEW k \in Jobs, jobs'[k].lease > 0 PROVE jobs[k].lease > 0
    <3>1. jobs[k].lease \in Nat /\ jobs'[k].lease # 0
      BY <1>0, <2>1 DEF JobRow
    <3>2. jobs[k].lease # 0
      BY <3>1, <1>4, TickRows
    <3> QED BY <3>1, <3>2
  <2>2. claims' = claims
    BY <1>4 DEF Tick
  <2> QED BY <2>1, <2>2, <1>4, TickRows
<1>5. ASSUME NEW w \in Workers,
             \/ Spawn(w) \/ BeginShutdown(w) \/ FinishShutdown(w) \/ Crash(w)
             \/ \E b \in BOOLEAN : Register(w, b) \/ SetDraining(w, b)
      PROVE  jobs' = jobs /\ claims' = claims
  BY <1>5 DEF Spawn, BeginShutdown, FinishShutdown, Crash, Register, SetDraining
<1>6. ASSUME NEW s \in Slots, Consume(s), ~Finish(s),
             \A j \in Jobs : ~ClaimCommit(s, j), ~Renew(s)
      PROVE  jobs' = jobs /\ claims' = claims
  BY <1>6 DEF Consume, ClaimBegin, ClaimNothing, RenewRefused, HandlerReturns,
              FinishRejected, LoseDatabase
<1>7. CASE jobs' = jobs /\ claims' = claims
  BY <1>7
<1>8. CASE \E j \in Jobs : EnqueueJob(j) \/ TriggerDiscovery(j) \/ CancelJob(j)
                           \/ ReleaseAbandoned(j)
  BY <1>8, <1>1, <1>0
<1>9. CASE \E w \in Workers, j \in Jobs : EnqueueRecurring(w, j)
  BY <1>9, <1>2, <1>0
<1>10. CASE \E s \in Slots : Renew(s)
  <2>1. PICK j \in Jobs : /\ jobs' = [jobs EXCEPT ![j].lease = LockTicks]
                          /\ jobs[j].lease > 0
    BY <1>10, <1>3
  <2>2. \A k \in Jobs : jobs[k] \in JobRow
    BY <1>0
  <2>3. ASSUME NEW k \in Jobs
        PROVE  /\ jobs'[k].token = jobs[k].token
               /\ jobs'[k].owner = jobs[k].owner
               /\ k # j => jobs'[k].lease = jobs[k].lease
               /\ jobs'[k].status = jobs[k].status
               /\ jobs'[k].attempts = jobs[k].attempts
    BY <2>1, <2>2, <1>0 DEF JobRow
  <2> QED BY <1>10, <1>3, <2>1, <2>3
<1>11. CASE Tick
  BY <1>11, <1>4
<1>12. UNCHANGED vars => jobs' = jobs /\ claims' = claims
  BY DEF vars
<1> QED BY <1>5, <1>6, <1>7, <1>8, <1>9, <1>10, <1>11, <1>12 DEF Next

----------------------------------------------------------------------------

\* "An active lease cannot be stolen" (claim_next_job_for_worker, and the
\* operations that take a job away from its holder).
THEOREM NotStolen == Spec => ActiveLeaseNotStolen
<1> DEFINE Kept == \A j \in Jobs :
                     (jobs[j].lease > 0 /\ jobs'[j].token # jobs[j].token)
                       => jobs'[j].token = 0
<1>1. IInv /\ [Next]_vars => Kept
  <2> SUFFICES ASSUME IInv, [Next]_vars PROVE Kept
    OBVIOUS
  <2>0. jobs \in [Jobs -> JobRow]
    BY DEF IInv, TypeOK
  <2>1. CASE \E s \in Slots, j \in Jobs : ClaimCommit(s, j)
    BY <2>1, <2>0, ClaimTakes
  <2>2. CASE \E s \in Slots : Finish(s)
    BY <2>2, <2>0, FinishClears
  <2>3. CASE ~ \E s \in Slots : Finish(s) \/ \E j \in Jobs : ClaimCommit(s, j)
    BY <2>3, <2>0, OtherRows
  <2> QED BY <2>1, <2>2, <2>3
<1>2. Kept => [Kept]_vars
  OBVIOUS
<1> QED BY <1>1, <1>2, Invariance, PTL DEF Spec, ActiveLeaseNotStolen

\* fail_or_retry_job_with_lease requeues a job only while it has an attempt
\* left, and whatever else queues a job starts its attempts over.
THEOREM AttemptsLeft == Spec => []QueuedHasAttemptsLeft
<1> USE QueueAssumption
<1>1. Init => QueuedHasAttemptsLeft
  BY DEF Init, QueuedHasAttemptsLeft, AbsentJob, Unclaimed
<1>2. QueuedHasAttemptsLeft /\ IInv /\ [Next]_vars => QueuedHasAttemptsLeft'
  <2> SUFFICES ASSUME QueuedHasAttemptsLeft, IInv, [Next]_vars
               PROVE  QueuedHasAttemptsLeft'
    OBVIOUS
  <2>0. jobs \in [Jobs -> JobRow]
    BY DEF IInv, TypeOK
  <2>1. CASE \E s \in Slots, j \in Jobs : ClaimCommit(s, j)
    BY <2>1, <2>0, ClaimTakes DEF QueuedHasAttemptsLeft, Claimed
  <2>2. CASE \E s \in Slots : Finish(s)
    BY <2>2, <2>0, FinishClears DEF QueuedHasAttemptsLeft
  <2>3. CASE ~ \E s \in Slots : Finish(s) \/ \E j \in Jobs : ClaimCommit(s, j)
    BY <2>3, <2>0, OtherRows DEF QueuedHasAttemptsLeft
  <2> QED BY <2>1, <2>2, <2>3
<1> QED BY <1>1, <1>2, Invariance, PTL DEF Spec

\* A worker's unexpired leases grow by a claim only, and then by one job.
LEMMA LeasesGrowByClaims ==
  ASSUME IInv, [Next]_vars, NEW w \in Workers
  PROVE  \/ ActiveLeases(w)' \subseteq ActiveLeases(w)
         \/ \E s \in Slots, j \in Jobs :
              /\ ClaimCommit(s, j) /\ WorkerOf[s] = w
              /\ ActiveLeases(w)' \subseteq ActiveLeases(w) \cup {j}
<1>0. jobs \in [Jobs -> JobRow]
  BY DEF IInv, TypeOK
<1>1. ASSUME NEW s \in Slots, NEW j \in Jobs, ClaimCommit(s, j)
      PROVE  /\ ActiveLeases(w)' \subseteq ActiveLeases(w) \cup {j}
             /\ WorkerOf[s] # w => ActiveLeases(w)' \subseteq ActiveLeases(w)
  <2>1. jobs' = [jobs EXCEPT ![j] = Claimed(jobs[j], WorkerOf[s], claims + 1)]
    BY <1>1, ClaimTakes
  <2>2. \A k \in Jobs : k # j => jobs'[k] = jobs[k]
    BY <2>1, <1>0
  <2>3. jobs'[j].owner = WorkerOf[s]
    BY <2>1, <1>0 DEF Claimed
  <2> QED BY <2>2, <2>3 DEF ActiveLeases
<1>2. ASSUME NEW s \in Slots, Finish(s)
      PROVE  ActiveLeases(w)' \subseteq ActiveLeases(w)
  <2>1. PICK j \in Jobs, row \in JobRow :
             row.lease = 0 /\ jobs' = [jobs EXCEPT ![j] = row]
    BY <1>2, FinishClears
  <2>2. \A k \in Jobs : k # j => jobs'[k] = jobs[k]
    BY <2>1, <1>0
  <2>3. ~(jobs'[j].lease > 0)
    BY <2>1, <1>0
  <2> QED BY <2>2, <2>3 DEF ActiveLeases
<1>3. ASSUME ~ \E s \in Slots : Finish(s) \/ \E j \in Jobs : ClaimCommit(s, j)
      PROVE  ActiveLeases(w)' \subseteq ActiveLeases(w)
  <2>1. CASE \A k \in Jobs : /\ jobs'[k].owner = jobs[k].owner
                             /\ jobs'[k].lease > 0 => jobs[k].lease > 0
                             /\ jobs'[k].status = jobs[k].status
    BY <2>1 DEF ActiveLeases
  <2>2. CASE \E j \in Jobs : \E row : jobs' = [jobs EXCEPT ![j] = row] /\ row.lease = 0
    <3>1. PICK j \in Jobs : \E row : jobs' = [jobs EXCEPT ![j] = row] /\ row.lease = 0
      BY <2>2
    <3>2. ~(jobs'[j].lease > 0) /\ \A k \in Jobs : k # j => jobs'[k] = jobs[k]
      BY <3>1, <1>0
    <3> QED BY <3>2 DEF ActiveLeases
  <2> QED BY <1>3, <2>1, <2>2, OtherRows
<1> QED BY <1>1, <1>2, <1>3

\* The worker check of claim_next_job_for_worker is enough: a loop that lost its
\* job without its lease claims again, and still no worker ever has more
\* unexpired leases than its concurrency limit.
THEOREM WithinLimit == Spec => []WorkerWithinLimit
<1>0. ASSUME NEW w \in Workers
      PROVE  /\ ConcurrencyLimit(w) \in Nat
             /\ IsFiniteSet(ActiveLeases(w)) /\ IsFiniteSet(ActiveLeases(w)')
             /\ Cardinality(ActiveLeases(w)) \in Nat
             /\ Cardinality(ActiveLeases(w)') \in Nat
  <2>1. SlotsOf(w) \subseteq Slots
    BY DEF SlotsOf
  <2>2. ActiveLeases(w) \subseteq Jobs /\ ActiveLeases(w)' \subseteq Jobs
    BY DEF ActiveLeases
  <2>3. IsFiniteSet(SlotsOf(w))
    BY <2>1, FiniteAssumption, FS_Subset
  <2>4. IsFiniteSet(ActiveLeases(w)) /\ IsFiniteSet(ActiveLeases(w)')
    BY <2>2, FiniteAssumption, FS_Subset
  <2>5. Cardinality(SlotsOf(w)) \in Nat
    BY <2>3, FS_CardinalityType
  <2>6. Cardinality(ActiveLeases(w)) \in Nat /\ Cardinality(ActiveLeases(w)') \in Nat
    BY <2>4, FS_CardinalityType
  <2> QED BY <2>4, <2>5, <2>6 DEF ConcurrencyLimit
<1>1. Init => WorkerWithinLimit
  <2> SUFFICES ASSUME Init, NEW w \in Workers
               PROVE  Cardinality(ActiveLeases(w)) <= ConcurrencyLimit(w)
    BY DEF WorkerWithinLimit
  <2>1. ActiveLeases(w) = {}
    BY DEF Init, ActiveLeases, AbsentJob, Unclaimed
  <2> QED BY <2>1, <1>0, FS_EmptySet
<1>2. WorkerWithinLimit /\ IInv /\ [Next]_vars => WorkerWithinLimit'
  <2> SUFFICES ASSUME WorkerWithinLimit, IInv, [Next]_vars, NEW w \in Workers
               PROVE  Cardinality(ActiveLeases(w)') <= ConcurrencyLimit(w)
    BY DEF WorkerWithinLimit, ConcurrencyLimit, SlotsOf
  <2>0. Cardinality(ActiveLeases(w)) <= ConcurrencyLimit(w)
    BY DEF WorkerWithinLimit
  <2>1. CASE ActiveLeases(w)' \subseteq ActiveLeases(w)
    <3>1. Cardinality(ActiveLeases(w)') <= Cardinality(ActiveLeases(w))
      BY <2>1, <1>0, FS_Subset
    <3> QED BY <3>1, <2>0, <1>0
  <2>2. CASE \E s \in Slots, j \in Jobs :
               /\ ClaimCommit(s, j) /\ WorkerOf[s] = w
               /\ ActiveLeases(w)' \subseteq ActiveLeases(w) \cup {j}
    <3>1. PICK s \in Slots, j \in Jobs :
                 /\ ClaimCommit(s, j) /\ WorkerOf[s] = w
                 /\ ActiveLeases(w)' \subseteq ActiveLeases(w) \cup {j}
      BY <2>2
    <3>2. Cardinality(ActiveLeases(w)) < ConcurrencyLimit(w)
      BY <3>1 DEF ClaimCommit, HasCapacity
    <3>3. /\ IsFiniteSet(ActiveLeases(w) \cup {j})
          /\ Cardinality(ActiveLeases(w) \cup {j}) =
               IF j \in ActiveLeases(w) THEN Cardinality(ActiveLeases(w))
                                        ELSE Cardinality(ActiveLeases(w)) + 1
      BY <1>0, FS_AddElement
    <3>4. Cardinality(ActiveLeases(w)') <= Cardinality(ActiveLeases(w) \cup {j})
      BY <3>1, <3>3, FS_Subset
    <3> QED BY <3>2, <3>3, <3>4, <1>0
  <2> QED BY <2>1, <2>2, LeasesGrowByClaims
<1> QED BY <1>1, <1>2, Invariance, PTL DEF Spec

\* The queue implements the abstract lease: a claim grants, a fenced settlement
\* settles, cancelling and abandoning revoke, the clock lets leases expire, and
\* everything else is invisible.
THEOREM Refinement == Spec => ImplementsFencedLease
<1> USE QueueAssumption
<1>1. Init => Lease!Init
  BY DEF Init, Lease!Init, AbsentJob, Unclaimed
<1>2. IInv /\ [Next]_vars
        => [Lease!Next]_<<[j \in Jobs |-> jobs[j].token],
                          {j \in Jobs : jobs[j].lease > 0}, claims,
                          {r.token : r \in {q \in history : q.event \in Outcomes}}>>
  <2> SUFFICES ASSUME IInv, [Next]_vars
               PROVE  \/ Lease!Next
                      \/ UNCHANGED <<[j \in Jobs |-> jobs[j].token],
                            {j \in Jobs : jobs[j].lease > 0}, claims,
                            {r.token : r \in {q \in history : q.event \in Outcomes}}>>
    OBVIOUS
  <2> DEFINE holder == [j \in Jobs |-> jobs[j].token]
             live == {j \in Jobs : jobs[j].lease > 0}
             settled == {r.token : r \in {q \in history : q.event \in Outcomes}}
  <2>0. jobs \in [Jobs -> JobRow] /\ RowInv
    BY DEF IInv, TypeOK
  <2>1. (~ \E s \in Slots : Finish(s)) => settled' = settled
    BY OutcomesAreSettlements
  <2>2. ASSUME NEW s \in Slots, NEW j \in Jobs, ClaimCommit(s, j)
        PROVE  Lease!Grant(j)
    <3>1. /\ jobs[j].lease = 0 /\ claims' = claims + 1
          /\ jobs' = [jobs EXCEPT ![j] = Claimed(jobs[j], WorkerOf[s], claims + 1)]
      BY <2>2, ClaimTakes
    <3>2. holder' = [holder EXCEPT ![j] = claims + 1]
      BY <3>1, <2>0 DEF Claimed
    <3>3. j \notin live /\ live' = live \cup {j}
      BY <3>1, <2>0 DEF Claimed
    <3>4. settled' = settled
      BY <2>2, OutcomesAreSettlements DEF ClaimCommit, Record, Outcomes
    <3> QED BY <3>1, <3>2, <3>3, <3>4 DEF Lease!Grant
  <2>3. ASSUME NEW s \in Slots, Finish(s)
        PROVE  \E j \in Jobs : Lease!Settle(j)
    <3>1. PICK j \in Jobs, row \in JobRow :
             /\ jobs[j].token # 0
             /\ row.token = 0 /\ row.lease = 0
             /\ jobs' = [jobs EXCEPT ![j] = row]
             /\ \E r \in ClaimRow : /\ r.event \in Outcomes
                                    /\ r.token = jobs[j].token
                                    /\ history' = history \cup {r}
             /\ claims' = claims
      BY <2>3, FinishClears
    <3>2. holder[j] # 0 /\ holder' = [holder EXCEPT ![j] = 0]
      BY <3>1, <2>0
    <3>3. live' = live \ {j}
      BY <3>1, <2>0
    <3>4. settled' = settled \cup {holder[j]}
      BY <3>1
    <3> QED BY <3>1, <3>2, <3>3, <3>4 DEF Lease!Settle
  <2>4. ASSUME ~ \E s \in Slots : Finish(s) \/ \E j \in Jobs : ClaimCommit(s, j)
        PROVE  \/ \E j \in Jobs : Lease!Revoke(j)
               \/ Lease!Expire
               \/ UNCHANGED <<holder, live, claims, settled>>
    <3>1. claims' = claims /\ settled' = settled
      BY <2>4, <2>1, OtherRows
    <3>2. CASE \A k \in Jobs : /\ jobs'[k].token = jobs[k].token
                               /\ jobs'[k].lease > 0 => jobs[k].lease > 0
      <4>1. holder' = holder /\ live' \subseteq live
        BY <3>2
      <4> QED BY <3>1, <4>1 DEF Lease!Expire
    <3>3. ASSUME NEW j \in Jobs, NEW row, jobs' = [jobs EXCEPT ![j] = row],
                 row.token = 0, row.lease = 0
          PROVE  Lease!Revoke(j) \/ UNCHANGED <<holder, live>>
      <4>1. holder' = [holder EXCEPT ![j] = 0] /\ holder[j] = jobs[j].token
        BY <3>3, <2>0
      <4>2. live' = live \ {j}
        BY <3>3, <2>0
      <4>3. CASE jobs[j].token = 0
        <5>1. j \notin live
          BY <4>3, <2>0 DEF RowInv
        <5>2. holder' = holder
          BY <4>1, <4>3
        <5> QED BY <4>2, <5>1, <5>2
      <4>4. CASE jobs[j].token # 0
        BY <4>1, <4>4, <4>2, <3>1 DEF Lease!Revoke
      <4> QED BY <4>3, <4>4
    <3>4. \/ \A k \in Jobs : /\ jobs'[k].token = jobs[k].token
                             /\ jobs'[k].lease > 0 => jobs[k].lease > 0
          \/ \E j \in Jobs : \E row : /\ jobs' = [jobs EXCEPT ![j] = row]
                                      /\ row.token = 0 /\ row.lease = 0
      BY <2>4, OtherRows
    <3> HIDE DEF holder, live, settled
    <3> QED BY <3>1, <3>2, <3>3, <3>4
  <2> QED BY <2>2, <2>3, <2>4 DEF Lease!Next
<1> QED BY <1>1, <1>2, Invariance, PTL DEF Spec, ImplementsFencedLease, Lease!Spec
=============================================================================
