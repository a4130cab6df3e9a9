\* Two requests at a time, three people, and two seats of which the
\* organizer may take one away.
CONSTANTS
  ann = ann
  bob = bob
  cyd = cyd
  mon = mon
  tue = tue
  r1 = r1
  r2 = r2
  NoTime = NoTime
  NoReq = NoReq
  NoOne = NoOne
  Req <- TwoReqs
  Email <- ThreePeople
  StartTime <- OneStart
  Capacity <- OneOrTwo
  Body <- CutBodies
  MaxPos = 2
SPECIFICATION Spec
SYMMETRY Interchangeable
INVARIANTS
  TypeOK
  OneWriter
  DecidedOnCurrentRows
PROPERTIES
  Serialized
