\* Three libraries that include each other in every way, with room for includes that fail.
SPECIFICATION Spec
CONSTANTS
  Libraries = {"a", "b", "c"}
  MaxNamespaces = 4
INVARIANTS ActiveOwnTheirEntry HeldStaysCurrent
