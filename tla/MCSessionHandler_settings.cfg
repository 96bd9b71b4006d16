SPECIFICATION Spec
CONSTANTS
  s1 = s1  s2 = s2  s3 = s3
  atok = atok  kotoeri = kotoeri
  desktop = desktop  mobile = mobile
  onDevice = onDevice  downloaded = downloaded
  Requests = {onDevice}
  Priority <- MCPriority
  HighPriority = 10
  Null = Null
  MaxRegistrations = 1
  SessionIds <- MCSessionIds
  Configs <- MCConfigs
  Keymap <- MCKeymap
  ClientRequests = {desktop, mobile}
  MaxSessions = 2
  MinInterval = 0
  Interval = 0
  CreateTimeout = 1
  CommandTimeout = 1
  Timeout = 0
  MaxUndo = 1
  ClockGoesBack = TRUE
  MaxTime = 1
CHECK_DEADLOCK FALSE
SYMMETRY Symmetry
INVARIANTS
  EngineStable
  SettingsAgree
  EmptyTimeExact
