SPECIFICATION Spec
CONSTANTS
  Name = {f, g}
  Twin = h
  TestFile = {t1}
  TestContents = {{"call"}}
  Context = 3
  MaxLines = 3
  MaxEdits = 0
CHECK_DEADLOCK FALSE
INVARIANTS ModifiedAreAffected
