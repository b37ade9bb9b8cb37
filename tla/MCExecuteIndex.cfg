\* One attempt that leaves artifacts behind.
SPECIFICATION Spec
CONSTANTS
  N = 1
  Paths = {1, 2}
  MaxEventsPerAttempt = 8
  MaxEventsPerBundle = 13
  MaxLogBytesPerStream = 3
  MaxTotalLogBytes = 3
  MaxArtifactsPerAttempt = 2
  MaxTotalArtifactBytes = 3
  Workspaces <- SomeWorkspaces
  MaxStreamBytes = 3
  MaxTotalOutputBytes = 3
  MaxRunnerEvents = 7
  MaxFrames = 0
  FrameSizes = {2}
  Exits <- SomeExits
  MaxFaults = 0
INVARIANTS
  CommittedIsReadable
CHECK_DEADLOCK FALSE
