\* One browser that follows an event, under any of six sets of troubles; and the
\* start of an event through the edit form.  A browser with nothing under way may
\* stay as it is: nobody has to click, book or connect.
CONSTANTS
  Nothing = Nothing
  Allowances <- Troubles
  MaxCommits = 2
  Day = 20
  Zone <- SmallZones
  Instant <- ThreeDays
SPECIFICATION Spec
INVARIANTS
  TypeOK
  JoinedWhileLooking
  TablesFollowTheNews
  ReconnectResyncs
PROPERTIES
  LoneChangeIsShown
  OwnEditShows
  SavingKeepsTheStart
CHECK_DEADLOCK FALSE
