\* Up to two edits of a document with two scenarios, two roots and two artifact rules, or of
\* a tree of nine entries.
SPECIFICATION Spec
CONSTANTS
  MaxPipelineBytes = 8
  MaxDepth = 6
  MaxNodes = 60
  MaxInt = 15
  Units <- BinaryUnits
  MinOf <- Minima
  MaxOf <- Maxima
  MaxScenarios = 2
  MaxRoots = 3
  MaxArtifacts = 2
  MaxIgnores = 2
  Platform <- SmallPlatform
  MaxAttempts = 8
  FirstDocument <- SmallDocument
  EditsOf <- Authored
  OddFiles <- Odd
  MaxTreeEntries = 12
  MaxPathDepth = 3
  MaxFileBytes = 2
  MaxTotalBytes = 6
  MaxTargetBytes = 2
  MaxLinks = 2
  MaxReportedLimitations = 1
  FirstTree <- SmallTree
  Trees <- SmallTrees
  MaxEdits = 2
  WalkSteps = 24
INVARIANTS
  AcceptedIsUsable
  ChangesAreReported
  AttemptsCoverPlan
  WorkspaceIsTheTree
PROPERTIES
  HeadDecidesNothing
CHECK_DEADLOCK FALSE
