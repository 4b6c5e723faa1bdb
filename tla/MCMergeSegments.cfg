SPECIFICATION Spec
CONSTANTS
  Hashes = {1, 2, 3}
  Count = 4
  MinMergeCount = 2
  MaxMergeCount = 3
  MaxSegmentCount = 2
INVARIANTS SegmentsDisjoint SegmentsLegal
PROPERTY Terminates
CHECK_DEADLOCK FALSE
