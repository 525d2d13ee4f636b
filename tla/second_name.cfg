\* A variable is given a second name, and assigned.
SPECIFICATION Spec
CONSTANTS
  Names = {"x", "a", "b"}
  Parameters <- OneParameter
  Types = {"i32", "u32"}
  Modulus = 2
  MaxLocals = 3
  Statements = {"literal", "copy", "augmented"}
  Disciplined = FALSE
INVARIANTS MeansPython
\* A function ends.
CHECK_DEADLOCK FALSE
