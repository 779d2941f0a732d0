SPECIFICATION Spec
CONSTANTS
  t1 = t1
  t2 = t2
  c1 = c1
  Surface = "tui"
  Turns = {t1, t2}
  Compactors = {c1}
  MaxSession = 2
  KeepRecent = 1
  MaxHistory = 2
  MaxRounds = 2
  MaxClears = 1
SYMMETRY Symmetry
INVARIANTS SnapshotTellsTheLog QuestionIsAsked
CHECK_DEADLOCK FALSE
