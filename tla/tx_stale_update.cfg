\* Two updates of the start at a time.
CONSTANTS
  ann = ann
  bob = bob
  cyd = cyd
  mon = mon
  tue = tue
  r1 = r1
  r2 = r2
  NoTime = NoTime
  NoReq = NoReq
  NoOne = NoOne
  Req <- TwoReqs
  Email <- OnePerson
  StartTime <- TwoStarts
  Capacity <- OneSeat
  Body <- MoveBodies
  MaxPos = 1
SPECIFICATION Spec
PROPERTIES
  NewStartIsAnnounced
