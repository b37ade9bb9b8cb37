\* Plans with up to four attempts; one that is edited, merged and run three times.
SPECIFICATION Spec
CONSTANTS
  Workdir <- Work
  CollectionRoots <- Roots
  MaxGenerations = 2
  MaxActive = 2
  MaxFacts = 8
  MaxRecords = 8
  MaxFindings = 6
  MaxGovernance = 2
  MaxRefs = 12
  MaxRefsTotal = 24
  MaxWaivers = 2
  MaxLifetime = 1
  Cases <- SmallCases
  HeadConfigs <- Configs
  MaxNow = 3
  MaxCommits = 3
  MaxRuns = 3
INVARIANTS
  EveryDifferenceIsRecorded
  HighConfidenceIsEarned
  PassedIsReviewed
  HeadWaiversDecideNothing
  PidsAndClocksDecideNothing
  EveryRunIsReviewed
CHECK_DEADLOCK FALSE
