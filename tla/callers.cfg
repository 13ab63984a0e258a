\* A transfer of more commands than the pool has, two threads, removals, sleeps.
SPECIFICATION Spec
CONSTANTS
  Capacity = 2
  MaxCalls = 1
  Transfer = {x1}
  Starts = {3}
  Sizes = {4, 5, 6}
  MaxBlocks = 2
  BlockSize = 4
  MaxTransfer = 5
  MaxPieces = 5
  Overlap = TRUE
  MaxEvents = 1
  MaxSleeps = 1
INVARIANTS
  TypeOK
  BuffersAreFree
  PiecesTile
PROPERTIES
  
  CompletedCallsReturn
\* The callers have a bounded number of requests, and a panic stops the machine.
CHECK_DEADLOCK FALSE
