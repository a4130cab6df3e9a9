\* One tab, two people, under any of five sets of troubles.  A tab with nothing
\* under way may stay as it is: nobody has to click.
CONSTANTS
  Nothing = Nothing
  ann = ann
  bob = bob
  User <- TwoPeople
  Allowances <- Troubles
  MaxTokens = 3
  MaxChanges = 2
SPECIFICATION Spec
INVARIANTS
  TypeOK
  OneIdentity
PROPERTIES
  RejectedTokenSignsOut
  NewSessionShowsItsOwnList
  OwnBookingShows
CHECK_DEADLOCK FALSE
