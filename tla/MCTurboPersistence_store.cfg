SPECIFICATION Spec
CONSTANTS
  Families = {f1}
  Keys = {1, 2}
  Values = {v1}
  LargeValues = {}
  Deleted = Deleted
  Absent = Absent
  Torn = Torn
  NoCurrent = NoCurrent
  MaxSeq = 8
  MaxJobs = 2
  MaxBatchFiles = 2
  MaxLive = 3
  Crashes = TRUE
  ReadOnlyOpens = FALSE
INVARIANTS TypeOK CurrentFilesSynced RestartFindsFiles
PROPERTIES ImplementsKVStore CompactionKeepsReads
CHECK_DEADLOCK FALSE
