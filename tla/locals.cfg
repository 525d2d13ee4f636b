\* A parameter and three names, every kind of statement, no shared local assigned.
SPECIFICATION Spec
CONSTANTS
  Names = {"x", "a", "b", "c"}
  Parameters <- OneParameter
  Types = {"i32", "u32"}
  Modulus = 2
  MaxLocals = 4
  Statements = {"literal", "copy", "cast", "sum", "augmented", "malloc", "from_literal", "from_variable", "address", "load", "store"}
  Disciplined = TRUE
INVARIANTS TypeOK MeansPython TypesKeptUnlessShared
\* A function ends.
CHECK_DEADLOCK FALSE
