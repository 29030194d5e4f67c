SPECIFICATION Spec
CONSTANTS
  Module <- TwoModules
  Path <- Paths
  Function = {"f"}
  Alias = {"a"}
  MaxLines = 3
INVARIANTS AssociationsExact NeverByNameAlone Independent
