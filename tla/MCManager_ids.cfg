SPECIFICATION Spec
CONSTANTS
  Thread = {t1, t2}
  Node = {n1}
  Callable = {numbered}
  kernels = kernels
  ends = ends
  sections = sections
  numbered = numbered
  HandledBy <- MCHandledBy
  CustomEvent <- MCCustomEvent
  Emitted <- MCKernelsAndCreate
  Attachable <- MCNone
  Dispatched <- MCCustomEvent
  MaxOpen = 2
  MaxId = 2
  Reentrant = FALSE
  NoNode = NoNode
  NoType = NoType
INVARIANTS
  IdsUnique
SYMMETRY HostThreads
