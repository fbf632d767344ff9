SPECIFICATION Spec
CONSTANTS
  Thread = {t1}
  Node = {n1, n2, n3}
  Callable = {kernels, ends, sections}
  kernels = kernels
  ends = ends
  sections = sections
  numbered = numbered
  HandledBy <- MCHandledBy
  CustomEvent <- MCCustomEvent
  Emitted <- MCKernelsAndSections
  Attachable <- MCNone
  Dispatched <- MCCustomEvent
  MaxOpen = 1
  MaxId = 1
  Reentrant = TRUE
  NoNode = NoNode
  NoType = NoType
INVARIANTS
  ListsAgree
PROPERTIES
  ImplementsEventBus
