\* Two people with one seat between them, two ticks at a time, a start that is
\* still out of the window, in it, and past.
CONSTANTS
  ann = ann
  bob = bob
  k1 = k1
  k2 = k2
  NoTime = NoTime
  Tick <- TwoTicks
  Email <- TwoPeople
  StartTime <- OneStart
  Capacity <- OneSeat
  MaxPos = 1
  Window = 2
  Horizon = 3
SPECIFICATION FairReminderSpec
INVARIANTS
  OnlyTheSeatedAreReminded
PROPERTIES
  TickMissesNobody
  CancellationEndsReminders
  EventuallyReminded
