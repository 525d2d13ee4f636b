\* Functions, an import, a global and a table, with the bodies that refer to them.
SPECIFICATION Spec
CONSTANTS
  FunctionNames = {"f", "g"}
  ImportNames = {"h"}
  GlobalNames = {"counter"}
  ExportNames = {}
  Signatures <- SharedSignatures
  Literals = {}
  Operations = {"call", "global", "indirect", "malloc"}
  PageSize = 16
  MaxOperations = 1
INVARIANTS TypeOK ReferencesResolve TypesAgree
PROPERTIES IndicesStable
\* An assembled module takes no further steps.
CHECK_DEADLOCK FALSE
