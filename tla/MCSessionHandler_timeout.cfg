SPECIFICATION Spec
CONSTANTS
  s1 = s1  s2 = s2  s3 = s3
  atok = atok  kotoeri = kotoeri
  desktop = desktop  mobile = mobile
  onDevice = onDevice  downloaded = downloaded
  Requests = {onDevice}
  Priority <- MCPriority
  HighPriority = 10
  Null = Null
  MaxRegistrations = 0
  SessionIds <- MCSessionIds
  Configs = {atok}
  Keymap <- MCKeymap
  ClientRequests = {desktop}
  MaxSessions = 2
  MinInterval = 0
  Interval = 1
  CreateTimeout = 3
  CommandTimeout = 3
  Timeout = 2
  MaxUndo = 1
  ClockGoesBack = FALSE
  MaxTime = 4
SYMMETRY Symmetry
INVARIANT
  TimeoutOnlyWhenEmpty
