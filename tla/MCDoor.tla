------------------------------- MODULE MCDoor -------------------------------
\* Small instances of Door for TLC.
EXTENDS Door, TLC

CONSTANTS ann, bob, mon, d1, d2

TwoPeople == {ann, bob}
OneStart  == {mon}
OneSeat   == {1}
TwoDesks  == {d1, d2}

\* No definition tells one address, or one desk, from another.
Interchangeable == Permutations(Email) \cup Permutations(Desk)
===========================================================================
