------------------------------- MODULE MCLive -------------------------------
\* A small instance of LiveStats, with its EventForm, for TLC.
EXTENDS LiveStats

Allowance(bookings, edits, drops, errors, moves) ==
  [bookings |-> bookings, edits |-> edits, drops |-> drops, errors |-> errors, moves |-> moves]

Troubles == {Allowance(2, 0, 1, 0, 0),   \* broadcasts that overtake, a lost connection
             Allowance(1, 0, 1, 0, 1),   \* the same with a page left or entered
             Allowance(1, 1, 0, 0, 0),   \* a broadcast that crosses the organizer's edit
             Allowance(0, 1, 1, 0, 1),   \* an edit and a lost connection
             Allowance(0, 1, 0, 0, 2),   \* an edit whose page is left before the answer
             Allowance(1, 0, 0, 2, 0)}   \* reads that fail twice

Crossings == {Allowance(2, 1, 0, 0, 1)}

\* Days of ten minutes; clocks that go forward or back by one, two or no minutes,
\* east and west of UTC, at any minute of a day.
SmallZones == [before : {-4, 0, 4}, after : {-4, 0, 2}, change : {40, 44, 46, 52, 58}]
ThreeDays  == 20..79
===========================================================================
