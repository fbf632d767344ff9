SPECIFICATION FairSpec
CONSTANTS
  Thread = {t1, t2}
  Node = {n1, n2}
  Callable = {kernels, sections}
  kernels = kernels
  ends = ends
  sections = sections
  numbered = numbered
  HandledBy <- MCHandledBy
  CustomEvent <- MCCustomEvent
  Emitted <- MCKernelsAndRegions
  Attachable <- MCNone
  Dispatched <- MCCustomEvent
  MaxOpen = 1
  MaxId = 1
  Reentrant = FALSE
  NoNode = NoNode
  NoType = NoType
PROPERTIES
  DispatchCompletes
  EventReachesListeners
