\* An SD card that always answers: several callers, completions that resubmit.
SPECIFICATION FairSpec
CONSTANTS
  None = None
  Cmd = {c1, c2, c3}
  Request = {r1, r2, r3}
  IsSDCard = TRUE
  Entries = {"AppSendOpCond", "SendCSD", "WriteMultipleBlock"}
  CallbackEntries = {"WriteMultipleBlock"}
  TransferTypes = {"PIO", "SDMA", "ADMA2"}
  Chunks = 2
  PrepareOutcomes = {TRUE}
  Outstanding = 3
  CardMayFail = FALSE
  ResetMayFail = FALSE
  TimerMayRace = FALSE
  MaxEvents = 0
  MaxResets = 0
INVARIANTS
  IssuedInTheRightState
  PendingRequestsAreHeld
PROPERTIES
  EveryRequestAnswered
\* The callers have a bounded number of requests, and a hung gate stops the driver.
CHECK_DEADLOCK FALSE
