CONSTANTS
  Batches = {b1, b2}
  Metas = {safe, secret}
  SafeMetas = {safe}
  Chunks = {x, y}
  MaxChunks = 2
  MaxOpens = 2
  MaxFaults = 2
  None = None
SPECIFICATION FairSpec
INVARIANTS DeliveredIsEvidence RefusalJustified NothingSwallowed
PROPERTY ReplayEnds
CHECK_DEADLOCK FALSE
