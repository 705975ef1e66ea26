\* Two one-loop workers of different pools, two recurring jobs: a lease outlives
\* the loop that took it, and every bootstrap moves the jobs to its own pool.
SPECIFICATION Spec
CONSTANTS
  w1 = w1
  w2 = w2
  a1 = a1
  a2 = a2
  b1 = b1
  j1 = j1
  j2 = j2
  CapableOf <- MCAllCapable
  DefaultPool = "default"
  LockTicks = 1
  DelayTicks = 1
  NoWorker = NoWorker
  NoJob = NoJob
  Workers = {w1, w2}
  Slots = {a1, b1}
  WorkerOf <- MCOneSlotEach
  Jobs = {j1, j2}
  Kind <- MCKindRecurring
  Pools <- MCTwoPools
  PoolOf <- MCSplitPools
  MaxAttempts = 2
  MaxClaims = 2
  MaxFaults = 1
INVARIANTS
  WorkerWithinLimit
CHECK_DEADLOCK FALSE
