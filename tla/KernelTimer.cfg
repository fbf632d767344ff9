SPECIFICATION FairSpec
CONSTANTS
  Thread = {t1, t2}
  Queue = {q1, q2}
  exec = q1
  Name = {A, B}
  Wanted = {A}
  BeginEventType = "BeginParallelForEvent"
  invalid_event_id = 9
  MaxKernels = 4
  TimerType = "EnqueuedEventWithLaunchTimer"
  Overlapping = FALSE
INVARIANTS
  TypeOK
  TimesTheKernel
  SelectsBeginAndEnd
PROPERTIES
  SelectedIsTimed
CHECK_DEADLOCK FALSE
