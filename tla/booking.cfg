\* Three people, one or two seats, a capacity that changes, one start.
CONSTANTS
  ann = ann
  bob = bob
  cyd = cyd
  mon = mon
  tue = tue
  NoTime = NoTime
  Email <- ThreePeople
  StartTime <- OneStart
  Capacity <- OneOrTwo
  MaxPos = 4
SPECIFICATION Spec
SYMMETRY Interchangeable
INVARIANTS
  TypeOK
  QueueOK
  MailedCodeIsCurrent
  EverySeatHasItsCode
  CancelledEventAnnounced
  CheckedInHeldASeat
PROPERTIES
  NeverAdmitsPastCapacity
  OnlyARaiseIdlesASeat
  KeepsPromise
