\* An array and a buffer, in memory that suffices.
SPECIFICATION Spec
CONSTANTS
  AddressSpace = 64
  PageSize = 16
  HeapStart = 8
  ElementSize = 4
  Arrays = {"a", "b"}
  Buffers = {"c"}
  Values = {1, 2}
  Counts = {0, 3, 17}
  MaxSize = 2
  Static = 7
  Garbage = 9
  MayWrap = FALSE
  MayRefuse = FALSE
INVARIANTS TypeOK CapacityBacked BuffersHoldTheirCount StorageIsOwned
PROPERTIES ArraysAreSequences HeapRespected ReserveReturns
\* A program may stop.
CHECK_DEADLOCK FALSE
