\* A card changes while a command is about to be sent.
SPECIFICATION FairSpec
CONSTANTS
  None = None
  Cmd = {c1}
  Request = {r1}
  IsSDCard = FALSE
  Entries = {"Switch"}
  CallbackEntries = {}
  TransferTypes = {"ADMA2"}
  Chunks = 2
  PrepareOutcomes = {TRUE}
  Outstanding = 3
  CardMayFail = FALSE
  ResetMayFail = FALSE
  TimerMayRace = FALSE
  MaxEvents = 1
  MaxResets = 0
PROPERTIES
  EveryCardChangeNoticed
\* The callers have a bounded number of requests, and a hung gate stops the driver.
CHECK_DEADLOCK FALSE
