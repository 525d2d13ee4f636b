\* Two names shared by scopes and variables, scopes nested four deep.
SPECIFICATION Spec
CONSTANTS
  Names = {"a", "b"}
  MaxDepth = 4
INVARIANTS TypeOK BranchesReachTheirScope LabelsCounted NamesAreLexical
