SPECIFICATION Spec
CONSTANTS
  Thread = {main}
  Name = {A, B, C}
  A = A
  B = B
  Wanted <- MCWanted
  MaxDepth = 3
  MaxClock = 10
  invalid_nested_level = 7
  Interleaved = FALSE
  Interrupting = TRUE
INVARIANTS
  AllMatchedMeansTimed
CHECK_DEADLOCK FALSE
