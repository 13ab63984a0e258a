\* An MMC under every fault: silence, late timeouts, card changes, failing and stray resets.
SPECIFICATION Spec
CONSTANTS
  None = None
  Cmd = {c1, c2}
  Request = {r1, r2, r3}
  IsSDCard = FALSE
  Entries = {"SendCSD", "Switch", "ReadMultipleBlock"}
  CallbackEntries = {"ReadMultipleBlock"}
  TransferTypes = {"PIO", "ADMA2"}
  Chunks = 2
  PrepareOutcomes = {TRUE, FALSE}
  Outstanding = 3
  CardMayFail = TRUE
  ResetMayFail = TRUE
  TimerMayRace = TRUE
  MaxEvents = 2
  MaxResets = 1
SYMMETRY Symmetry
INVARIANTS
  TransfersAreOwn
  TypeOK
  EveryCommandAccountedFor
  CommandsHoldPendingRequests
  NoStrandedWork
  CommandStatesKnown
PROPERTIES
  
  DataSuccessIsReal
  CommandCompleteIsOwn
  
\* The callers have a bounded number of requests, and a hung gate stops the driver.
CHECK_DEADLOCK FALSE
