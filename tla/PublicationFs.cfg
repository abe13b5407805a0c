CONSTANTS
  s1 = s1
  s2 = s2
  s3 = s3
  index = index
  page = page
  v1 = v1
  v2 = v2
  missing = missing
  special = special
  Absent <- MCAbsent
  NotDir <- MCNotDir
  PathSuffixes <- MCSuffixes
  Files <- MCFiles
  Versions <- MCVersions
  FilesOf <- MCFilesOf
  InitialOutputs <- MCInitialOutputs
  FaultOps <- AllCalls
  MaxRuns = 3
  MaxCrashes = 1
SPECIFICATION FairSpec
INVARIANTS OutputExact NothingLost
PROPERTY ServedAgain
CHECK_DEADLOCK FALSE
