\* One execute job, two workers with one consumer loop each: recoveries after
\* crashes, stalls and lost connections, cancellation, dead letters.  With two
\* faults and two attempts a job is claimed at most five times.
SPECIFICATION FairSpec
CONSTANTS
  w1 = w1
  w2 = w2
  a1 = a1
  a2 = a2
  b1 = b1
  j1 = j1
  j2 = j2
  CapableOf <- MCAllCapable
  DefaultPool = "default"
  LockTicks = 2
  DelayTicks = 1
  NoWorker = NoWorker
  NoJob = NoJob
  Workers = {w1, w2}
  Slots = {a1, b1}
  WorkerOf <- MCOneSlotEach
  Jobs = {j1}
  Kind <- MCKindOne
  Pools <- MCPools
  PoolOf <- MCPoolOf
  MaxAttempts = 2
  MaxClaims = 5
  MaxFaults = 2
PROPERTIES
  OnlyLatestClaimSettles
  ImplementsFencedLease
  JobsSettle
CHECK_DEADLOCK FALSE
