\* Every kind of card, every fault; cards come and go, the machine sleeps.
SPECIFICATION Spec
CONSTANTS
  Kinds = {"eMMC", "MMC3", "SD1", "SD2"}
  HostTransfer = "PIO"
  Faults = {"command", "clock", "reset", "busy", "hang", "event"}
  Overlap = FALSE
  MaxEvents = 3
  MaxSleeps = 2
INVARIANTS
  TypeOK
  OffWhenOut
  OnlineIsIn
PROPERTIES
  WakeEnds
\* Cards and sleeps are bounded, and then the driver rests.
CHECK_DEADLOCK FALSE
