\* The start moves back to an earlier value.
CONSTANTS
  ann = ann
  bob = bob
  cyd = cyd
  mon = mon
  tue = tue
  NoTime = NoTime
  Email <- TwoPeople
  StartTime <- TwoStarts
  Capacity <- OneOrTwo
  MaxPos = 3
SPECIFICATION Spec
PROPERTIES
  EachRescheduleIsMailed
