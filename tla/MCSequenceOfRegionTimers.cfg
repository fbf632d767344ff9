SPECIFICATION Spec
CONSTANTS
  Thread = {main}
  Name = {A, B, C}
  A = A
  B = B
  Wanted <- MCWanted
  MaxDepth = 3
  MaxClock = 9
  invalid_nested_level = 7
  Interleaved = TRUE
  Interrupting = FALSE
INVARIANTS
  TypeOK
  TimesSequence
  MissesNoRegion
CHECK_DEADLOCK FALSE
