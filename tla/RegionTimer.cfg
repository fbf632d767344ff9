SPECIFICATION Spec
CONSTANTS
  Thread = {main}
  Name = {A, B}
  Wanted = {A}
  MaxDepth = 3
  MaxClock = 8
  invalid_nested_level = 7
  TimerType = "Timer<void>"
INVARIANTS
  TypeOK
  TimesOneRegion
  SelectsFirst
CHECK_DEADLOCK FALSE
