\* Literals and the allocator, in every order, below a page boundary and across it;
\* functions, a global and a table may want the export name of memory.
SPECIFICATION Spec
CONSTANTS
  FunctionNames = {"f", "memory"}
  ImportNames = {"h"}
  GlobalNames = {"counter"}
  ExportNames = {"memory"}
  Signatures <- OneSignature
  Literals <- TwoLiterals
  Operations = {"literal", "memory", "malloc"}
  PageSize = 16
  MaxOperations = 1
INVARIANTS ReferencesResolve HeapAboveData ExportsDistinct
\* An assembled module takes no further steps.
CHECK_DEADLOCK FALSE
