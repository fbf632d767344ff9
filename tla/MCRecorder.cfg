SPECIFICATION RecorderSpec
CONSTANTS
  Thread = {t1, t2}
  Main = t1
  NoThread = NoThread
  Node = {n1, n2}
  Callable = {any_recorder, section_recorder}
  any_recorder = any_recorder
  section_recorder = section_recorder
  MatcherOf <- MCMatcherOf
  HandledBy <- MCHandledBy
  CustomEvent <- MCNone
  Emitted <- MCEmitted
  EmittedBy <- MCEmittedBy
  Attachable <- MCNone
  Dispatched <- MCNone
  wanted = wanted
  other = other
  Name = {wanted, other}
  NoName = NoName
  Wanted = {wanted}
  invalid_section_id = 7
  MaxOpen = 2
  MaxId = 2
  MaxEvents = 4
  MaxTogether = 2
  Reentrant = FALSE
  NoNode = NoNode
  NoType = NoType
INVARIANTS
  RecorderTypeOK
  RecordsEveryEvent
  RecordsOnlyTheSection
  RecordsTheWholeSection
  ContainsInOrderFindsElements
SYMMETRY Addresses
CHECK_DEADLOCK FALSE
