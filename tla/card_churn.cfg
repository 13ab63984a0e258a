\* MMC cards that answer come and go in any order; the machine sleeps.
SPECIFICATION Spec
CONSTANTS
  Kinds = {"eMMC", "MMC3"}
  HostTransfer = "ADMA2"
  Faults = {}
  Overlap = FALSE
  MaxEvents = 3
  MaxSleeps = 2
INVARIANTS
  UsableWhenIn
  HostNeverAhead
PROPERTIES
  FlagFollowsSlot
\* Cards and sleeps are bounded, and then the driver rests.
CHECK_DEADLOCK FALSE
