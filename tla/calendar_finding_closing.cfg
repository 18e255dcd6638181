SPECIFICATION Spec
CONSTANTS
  y1 = y1  y2 = y2  h1 = h1  h2 = h2  t1 = t1  r1 = r1
  None = None
  Years = {y1, y2}
  YearHandlers = {h1}
  TrimesterHandlers = {t1}
  Readers = {}
  LastDay = 6
  NewYears <- MCNewYears
  YearPatches <- MCActivatePatch
  TrimesterPatches <- MCOpenPatches
PROPERTY ClosingIsGuarded
CHECK_DEADLOCK FALSE
