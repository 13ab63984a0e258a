\* One caller at a time, as in card initialisation, and a card that may fail.
SPECIFICATION FairSpec
CONSTANTS
  None = None
  Cmd = {c1, c2}
  Request = {r1, r2, r3}
  IsSDCard = FALSE
  Entries = {"GoIdleState", "SendCSD", "Switch", "SendExtCSD", "SendTuningBlock"}
  CallbackEntries = {}
  TransferTypes = {"PIO", "SDMA", "ADMA2"}
  Chunks = 2
  PrepareOutcomes = {TRUE, FALSE}
  Outstanding = 1
  CardMayFail = TRUE
  ResetMayFail = FALSE
  TimerMayRace = FALSE
  MaxEvents = 0
  MaxResets = 0
PROPERTIES
  AnsweredUnlessHung
\* The callers have a bounded number of requests, and a hung gate stops the driver.
CHECK_DEADLOCK FALSE
