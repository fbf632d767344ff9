SPECIFICATION Spec
CONSTANTS
  Thread = {t1, t2}
  Node = {n1}
  Callable = {kernels}
  kernels = kernels
  ends = ends
  sections = sections
  numbered = numbered
  HandledBy <- MCHandledBy
  CustomEvent <- MCCustomEvent
  Emitted <- MCKernels
  Attachable <- MCNone
  Dispatched <- MCNone
  MaxOpen = 1
  MaxId = 2
  Reentrant = FALSE
  NoNode = NoNode
  NoType = NoType
INVARIANTS
  OneEndPerBegin
