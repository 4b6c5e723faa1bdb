SPECIFICATION Spec
CONSTANTS
  r1 = r1
  r2 = r2
  r3 = r3
  k1 = k1
  k2 = k2
  Requests = {r1, r2, r3}
  Keys = {k1, k2}
  Tags = {t1}
  KeyOf <- TwoKeys
  Sizes <- SomeSizes
  MaxSize = 2
  Revalidate = 14
  Expires = {12}
  EntryTags <- AllTags
  Times = {1, 4, 6, 15}
  Resolution = 10
  Skew = 4
  None = None
INVARIANTS TypeOK CapacityKept HoldsLast
PROPERTIES  GetReturns
CHECK_DEADLOCK FALSE
