CONSTANTS
  p1 = p1
  p2 = p2
  c1 = c1
  c2 = c2
  Projects = {p1, p2}
  Contents = {c1, c2}
  NativeInvalid = {c2}
  Null = Null
  MaxSequence = 9
  StaleRetries = 1
  MaxClock = 3
SPECIFICATION FairSpec
INVARIANTS TypeOK LoadedWasOnDisk ConflictIsImpossible
PROPERTIES RefinesSemanticPublication QuietReloadIsExact EventuallyCurrent
