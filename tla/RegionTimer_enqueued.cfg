SPECIFICATION Spec
CONSTANTS
  Thread = {main}
  Name = {A, B}
  Wanted = {A}
  MaxDepth = 3
  MaxClock = 8
  invalid_nested_level = 7
  TimerType = "EnqueuedEventTimer"
INVARIANTS
  ClosedIsTimed
CHECK_DEADLOCK FALSE
