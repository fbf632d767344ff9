SPECIFICATION Spec
CONSTANTS
  Thread = {t1, t2}
  Node = {n1, n2}
  Callable = {kernels, ends}
  kernels = kernels
  ends = ends
  sections = sections
  numbered = numbered
  HandledBy <- MCHandledBy
  CustomEvent <- MCCustomEvent
  Emitted <- MCKernels
  Attachable <- MCKernels
  Dispatched <- MCCustomEvent
  MaxOpen = 1
  MaxId = 2
  Reentrant = TRUE
  NoNode = NoNode
  NoType = NoType
INVARIANTS
  TypeOK
  Transparent
  
SYMMETRY Addresses
