\* Base clocks, card capacities and transfer lengths around their boundaries.
SPECIFICATION Spec
CONSTANTS
  CSizes = {0, 1, 2, 1023, 2047, 3999, 4094, 4095}
  BlockCounts = {1, 7, 8, 9, 15, 16, 17, 1000, 61439, 61440}
INVARIANTS
  ClockWithinRequest
  CapacityIsExact
  DescriptorsCoverTransfer
