SPECIFICATION Spec
CONSTANTS
  t1 = t1
  t2 = t2
  c1 = c1
  Surface = "discord"
  Turns = {t1}
  Compactors = {c1}
  MaxSession = 2
  KeepRecent = 1
  MaxHistory = 2
  MaxRounds = 1
  MaxClears = 1
PROPERTY NewStartsAfresh
CHECK_DEADLOCK FALSE
