\* Two attempts, two artifact paths, limits that a few frames reach, one failing call.
SPECIFICATION FairSpec
CONSTANTS
  N = 2
  Paths = {1, 2}
  MaxEventsPerAttempt = 8
  MaxEventsPerBundle = 13
  MaxLogBytesPerStream = 3
  MaxTotalLogBytes = 3
  MaxArtifactsPerAttempt = 2
  MaxTotalArtifactBytes = 3
  Workspaces <- SomeWorkspaces
  MaxStreamBytes = 3
  MaxTotalOutputBytes = 3
  MaxRunnerEvents = 7
  MaxFrames = 2
  FrameSizes = {2}
  Exits <- SomeExits
  MaxFaults = 1
INVARIANTS
  PublishedVerifies
  CompleteMeansNothingLost
  ExecuteInvariant
PROPERTIES
  DamageIsNoticed
  OnlyReadingHangs
CHECK_DEADLOCK FALSE
