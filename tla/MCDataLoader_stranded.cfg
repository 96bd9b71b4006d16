SPECIFICATION LoaderSpec
CONSTANTS
  onDevice = onDevice
  downloaded = downloaded
  bundled = bundled
  Requests <- MCRequests
  Priority <- MCPriority
  HighPriority = 10
  Null = Null
  MaxRegistrations = 5
INVARIANT
  SettlesOnTop
