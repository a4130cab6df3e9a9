\* Two people with one seat between them, two desks.
CONSTANTS
  ann = ann
  bob = bob
  mon = mon
  d1 = d1
  d2 = d2
  NoTime = NoTime
  NoOne = NoOne
  Desk <- TwoDesks
  Email <- TwoPeople
  StartTime <- OneStart
  Capacity <- OneSeat
  MaxPos = 1
SPECIFICATION DoorSpec
SYMMETRY Interchangeable
INVARIANTS
  DoorTypeOK
  TicketIsSingleUse
  NobodyAfterCancellation
PROPERTIES
  DoorKeepsRows
