----------------------------- MODULE MCBooking -----------------------------
\* Small instances of Booking for TLC.
EXTENDS Booking, TLC

CONSTANTS ann, bob, cyd, mon, tue

TwoPeople   == {ann, bob}
ThreePeople == {ann, bob, cyd}
OneStart    == {mon}
TwoStarts   == {mon, tue}
OneOrTwo    == {1, 2}

\* No definition tells one address from another.
Interchangeable == Permutations(Email)
===========================================================================
