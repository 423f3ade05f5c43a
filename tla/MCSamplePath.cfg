CONSTANTS
  Capacity = 3
  MaxBatch = 5
  MaxSamples = 11
  HistoryCapacity = 4

SPECIFICATION PathSpec

INVARIANTS
  RingInv
  HistoryInv
  HistoryIsNewest
  GapsAreReported

PROPERTIES
  DrainsInOrder
  ImplementsQueue

