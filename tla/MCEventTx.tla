----------------------------- MODULE MCEventTx -----------------------------
\* Small instances of EventTx for TLC.
EXTENDS EventTx, TLC

CONSTANTS ann, bob, cyd, mon, tue, r1, r2

OnePerson    == {ann}
ThreePeople  == {ann, bob, cyd}
OneStart     == {mon}
TwoStarts    == {mon, tue}
OneSeat      == {1}
OneOrTwo     == {1, 2}
TwoReqs      == {r1, r2}

CutBodies    == [capacity : {1}, startsAt : {NoTime}]
MoveBodies   == [capacity : {NoCapacity}, startsAt : {mon, tue}]

\* No definition tells one address, or one request, from another.
Interchangeable == Permutations(Email) \cup Permutations(Req)
===========================================================================
