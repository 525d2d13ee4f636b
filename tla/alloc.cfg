\* A page of static data that reads as free tags of size 16, and room for three
\* blocks above it; payload words read as a used tag of size 16.
CONSTANTS
  AddressSpace = 80
  PageSize = 16
  HeapStart = 16
  StaticWords = {16}
  Requests = {0, 8, 12, 60}
  UserWords = {17}
SPECIFICATION Spec
INVARIANTS TypeOK BoundaryTags BlocksTile Coalesced RequestsFit HeapInMemory FirstFit EmptyHeapResets
PROPERTIES GrowsOnlyWhenFull MallocReturns MeetsContract
