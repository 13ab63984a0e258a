\* The card falls silent with a request in the queue.
SPECIFICATION FairSpec
CONSTANTS
  None = None
  Cmd = {c1, c2}
  Request = {r1, r2}
  IsSDCard = FALSE
  Entries = {"ReadMultipleBlock"}
  CallbackEntries = {}
  TransferTypes = {"ADMA2"}
  Chunks = 2
  PrepareOutcomes = {TRUE}
  Outstanding = 3
  CardMayFail = TRUE
  ResetMayFail = FALSE
  TimerMayRace = FALSE
  MaxEvents = 0
  MaxResets = 0
PROPERTIES
  EveryRequestAnswered
\* The callers have a bounded number of requests, and a hung gate stops the driver.
CHECK_DEADLOCK FALSE
