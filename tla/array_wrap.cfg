\* An array whose capacity is computed, and exceeds the address space.
SPECIFICATION Spec
CONSTANTS
  AddressSpace = 64
  PageSize = 16
  HeapStart = 8
  ElementSize = 4
  Arrays = {"a"}
  Buffers = {"c"}
  Values = {1, 2}
  Counts = {0, 3, 17}
  MaxSize = 2
  Static = 7
  Garbage = 9
  MayWrap = TRUE
  MayRefuse = FALSE
INVARIANTS CapacityBacked
\* A program may stop.
CHECK_DEADLOCK FALSE
