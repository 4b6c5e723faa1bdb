SPECIFICATION Spec
CONSTANTS
  Families = {f1, f2}
  Keys = {1}
  Values = {v1}
  LargeValues = {v1}
  Deleted = Deleted
  Absent = Absent
  Torn = Torn
  NoCurrent = NoCurrent
  MaxSeq = 9
  MaxJobs = 2
  MaxBatchFiles = 3
  MaxLive = 6
  Crashes = TRUE
  ReadOnlyOpens = TRUE
INVARIANTS ReadersFindFiles RemovalsExist NothingLeftBehind
PROPERTY NoOverwrite
CHECK_DEADLOCK FALSE
