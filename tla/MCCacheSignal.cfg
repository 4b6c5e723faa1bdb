SPECIFICATION Spec
CONSTANTS

  Renders = {r1, r2}
  Modules = Modules
  MaxCalls = 5
INVARIANTS CountsAgree NobodyForgotten
PROPERTIES ReadyAfterWork ReadyResolves
CHECK_DEADLOCK FALSE
