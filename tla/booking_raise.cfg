\* The capacity is raised while somebody waits.
CONSTANTS
  ann = ann
  bob = bob
  cyd = cyd
  mon = mon
  tue = tue
  NoTime = NoTime
  Email <- ThreePeople
  StartTime <- OneStart
  Capacity <- OneOrTwo
  MaxPos = 3
SPECIFICATION Spec
PROPERTIES
  NoQueueJumping
