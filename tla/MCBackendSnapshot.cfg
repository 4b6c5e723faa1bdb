SPECIFICATION Spec
CONSTANTS
  Operations = {o1, o2}
  Tasks = {t1}
  Categories = {meta, data}
  MaxVersion = 2
  NoGuard = NoGuard
INVARIANTS NothingRunsAtCut ChangesTracked SnapshotBitsMeanSnapshot
PROPERTIES SnapshotIsOfTheCut ChangesSaved
