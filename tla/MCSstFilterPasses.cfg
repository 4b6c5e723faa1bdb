SPECIFICATION Spec
CONSTANTS
  MaxSeq = 18
  MaxBatch = 2
  MaxLive = 4
INVARIANTS ReloadOffersAlive RunningMatchesReload PassesMatchFilter
CHECK_DEADLOCK FALSE
