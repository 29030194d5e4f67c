SPECIFICATION Spec
CONSTANTS
  Name = {f, g}
  Twin = h
  TestFile = {t1, t2}
  TestContents = {{"call", "mention"}, {"mock", "call"}}
  Context = 1
  MaxLines = 4
  MaxEdits = 1
SYMMETRY Interchangeable
CHECK_DEADLOCK FALSE
INVARIANTS TypeOK HunksExact AffectedExact DeletedExact ChangeIsPlanned PlanJustified PlanIsPlannable
