CONSTANTS
  Writers = {w1, w2}
  Batches = {b}
  Layouts = {l1, l2}
  Metas = {safe, secret}
  SafeMetas = {safe}
  Chunks = {x}
  BadChunk = bad
  MaxChunks = 1
  MaxCalls = 3
  MaxFaults = 1
  None = None
SPECIFICATION FairSpec
INVARIANTS PublishedComplete AcknowledgedStored CollisionJustified
PROPERTIES SplitNeedsOverlap ImplementsEvidenceStore CallsEnd
CHECK_DEADLOCK FALSE
