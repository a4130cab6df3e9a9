\* Two bookings and an edit that commit around the reads of the statistics.
CONSTANTS
  Nothing = Nothing
  Allowances <- Crossings
  MaxCommits = 3
  Day = 20
  Zone <- SmallZones
  Instant <- ThreeDays
SPECIFICATION Spec
INVARIANTS
  TotalsEndCorrect
CHECK_DEADLOCK FALSE
