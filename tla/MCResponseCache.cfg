SPECIFICATION Spec
CONSTANTS
  Requests = {r1, r2, r3}
  OnDemand = {r3}
  Prefetches = {r2}
  Background = {r2}
  Keys = {k1}
  MaxVersion = 0
  Null = Null
  Failed = Failed
  Pending = Pending
INVARIANTS OneCallPerKey NobodyForgotten HitIsServed OnDemandIsRendered
PROPERTY EveryCallAnswered

CHECK_DEADLOCK FALSE
