\* Threads that overlap take the result of each other.
SPECIFICATION Spec
CONSTANTS
  Capacity = 3
  MaxCalls = 1
  Transfer = {x1}
  Starts = {3}
  Sizes = {2}
  MaxBlocks = 2
  BlockSize = 4
  MaxTransfer = 5
  MaxPieces = 5
  Overlap = TRUE
  MaxEvents = 0
  MaxSleeps = 0
INVARIANTS
  ResultIsOwn
\* The callers have a bounded number of requests, and a panic stops the machine.
CHECK_DEADLOCK FALSE
