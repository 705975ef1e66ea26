\* One source, one batch, one runner, one execution, no upset; metadata that
\* answers in the place of the archive.
SPECIFICATION FairSpec
CONSTANTS
  s1 = s1
  b1 = b1
  b2 = b2
  r1 = r1
  r2 = r2
  k1 = k1
  e1 = e1
  e2 = e2
  Sources = {s1}
  MaxVersion = 2
  Empty = {}
  Kept = {1}
  Batches = {b1}
  Runners = {r1}
  Ticks = {k1}
  Execs = {e1}
  BatchSize = 1
  ClaimLimit = 1
  ChunkSize = 1
  ProfileCap = 1
  MaxUpsets = 0
  NoBatch = NoBatch
  NoTick = NoTick
PROPERTY
  ArchiveIsFollowed
CHECK_DEADLOCK FALSE
