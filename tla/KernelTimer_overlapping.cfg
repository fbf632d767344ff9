SPECIFICATION Spec
CONSTANTS
  Thread = {t1, t2}
  Queue = {q1, q2}
  exec = q1
  Name = {A, B}
  Wanted = {A}
  BeginEventType = "BeginParallelForEvent"
  invalid_event_id = 9
  MaxKernels = 3
  TimerType = "EnqueuedEventTimer"
  Overlapping = TRUE
INVARIANTS
  SelectsBeginAndEnd
CHECK_DEADLOCK FALSE
