\* An array whose capacity is the result of a call.
SPECIFICATION Spec
CONSTANTS
  Constructs = {"leaf", "call", "array"}
  MaxEvents = 3
  MaxOperands = 2
  MaxStatements = 1
INVARIANTS CallsRunOnce
\* A function ends.
CHECK_DEADLOCK FALSE
