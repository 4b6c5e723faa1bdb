SPECIFICATION Spec
CONSTANTS
  Operations = {o1, o2}
  Tasks = {t1}
  Categories = {meta, data}
  MaxVersion = 1
  NoGuard = NoGuard
INVARIANT EveryModifiedItemSaved
