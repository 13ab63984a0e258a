\* Two slots at most; every step of both start functions may fail.
SPECIFICATION Spec
CONSTANTS
  MaxSlots = 2
  MemoryCounts = {0, 1, 2, 3}
  Failures = {"workLoop", "intEventSource", "slotCount", "probe",
              "cardSlot", "timer", "cmdPool", "initialCommands", "commands",
              "syncCommandLock", "cardChangeThread", "cmdGate", "controller"}
  MaxEvents = 2
INVARIANTS
  TypeOK
  PointersAreSet
  FailedStartsAreQuiet
PROPERTIES
  InterruptsAreServed
\* A driver that was taken down rests.
CHECK_DEADLOCK FALSE
