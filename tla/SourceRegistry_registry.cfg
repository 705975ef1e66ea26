\* One source, two batches, two runners, one tick, one execution, one upset.
SPECIFICATION FairSpec
CONSTANTS
  s1 = s1
  b1 = b1
  b2 = b2
  r1 = r1
  r2 = r2
  k1 = k1
  e1 = e1
  e2 = e2
  Sources = {s1}
  MaxVersion = 2
  Empty = {}
  Kept = {2}
  Batches = {b1, b2}
  Runners = {r1, r2}
  Ticks = {k1}
  Execs = {e1}
  BatchSize = 1
  ClaimLimit = 1
  ChunkSize = 1
  ProfileCap = 1
  MaxUpsets = 1
  NoBatch = NoBatch
  NoTick = NoTick
INVARIANTS
  ConsumedWasAdmitted
PROPERTIES
  RegistryNeverGoesBack
  DueIsChecked
  IncompleteIsFollowed
  ReadyIsAdmitted
CHECK_DEADLOCK FALSE
