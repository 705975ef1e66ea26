\* One source, one batch, two executions, no upset.
SPECIFICATION Spec
CONSTANTS
  s1 = s1
  b1 = b1
  b2 = b2
  r1 = r1
  r2 = r2
  k1 = k1
  e1 = e1
  e2 = e2
  Sources = {s1}
  MaxVersion = 3
  Empty = {3}
  Kept = {}
  Batches = {b1}
  Runners = {r1}
  Ticks = {k1}
  Execs = {e1, e2}
  BatchSize = 1
  ClaimLimit = 1
  ChunkSize = 1
  ProfileCap = 2
  MaxUpsets = 0
  NoBatch = NoBatch
  NoTick = NoTick
INVARIANT
  ChangeIsAnswered
CHECK_DEADLOCK FALSE
