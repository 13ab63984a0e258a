\* Another card is inserted before the removal is handled.
SPECIFICATION Spec
CONSTANTS
  Kinds = {"eMMC"}
  HostTransfer = "ADMA2"
  Faults = {}
  Overlap = FALSE
  MaxEvents = 2
  MaxSleeps = 0
INVARIANTS
  KnowsTheCard
\* Cards and sleeps are bounded, and then the driver rests.
CHECK_DEADLOCK FALSE
