\* Every construct, in statements of up to three operands.
SPECIFICATION Spec
CONSTANTS
  Constructs = {"leaf", "global", "binary", "call", "keywords", "indirect", "load", "malloc", "evaluate", "set", "store", "augmented", "pointer", "array", "push"}
  MaxEvents = 5
  MaxOperands = 3
  MaxStatements = 2
INVARIANTS RunsOnce StatementsInOrder OnlyWaitingIsOvertaken
\* A function ends.
CHECK_DEADLOCK FALSE
