----------------------------- MODULE SeatQueue -----------------------------
(***************************************************************************)
(* What the booking of one event promises its participants, without rows,  *)
(* positions or transactions: seats, the people in them, and a queue in    *)
(* which `ahead` says who came before whom.  A free seat is found by a     *)
(* newcomer; a seat given up goes to the one with nobody ahead.            *)
(***************************************************************************)
EXTENDS Naturals, FiniteSets

CONSTANTS Person, Seats

VARIABLES open,      \* the event has not been cancelled
          seats,     \* how many the organizer offers
          seated,    \* who has a seat
          waiting,   \* who is in the queue
          ahead      \* pairs <<p, q>>: p came before q, both still waiting

vars == <<open, seats, seated, waiting, ahead>>

TypeOK ==
  /\ open \in BOOLEAN
  /\ seats \in Seats
  /\ seated \subseteq Person
  /\ waiting \subseteq Person
  /\ ahead \subseteq waiting \X waiting

Init ==
  /\ open = TRUE
  /\ seats \in Seats
  /\ seated = {}
  /\ waiting = {}
  /\ ahead = {}

Among(S) == {pair \in ahead : pair[1] \in S /\ pair[2] \in S}

Sit(p) ==
  /\ open
  /\ p \notin seated \cup waiting
  /\ Cardinality(seated) < seats
  /\ seated' = seated \cup {p}
  /\ UNCHANGED <<open, seats, waiting, ahead>>

Queue(p) ==
  /\ open
  /\ p \notin seated \cup waiting
  /\ Cardinality(seated) >= seats
  /\ waiting' = waiting \cup {p}
  /\ ahead' = ahead \cup (waiting \X {p})
  /\ UNCHANGED <<open, seats, seated>>

GiveUp(p) ==
  /\ p \in waiting
  /\ waiting' = waiting \ {p}
  /\ ahead' = Among(waiting \ {p})
  /\ UNCHANGED <<open, seats, seated>>

Leave(p) ==
  /\ p \in seated
  /\ waiting = {}
  /\ seated' = seated \ {p}
  /\ UNCHANGED <<open, seats, waiting, ahead>>

HandOver(p, h) ==
  /\ p \in seated
  /\ h \in waiting
  /\ \A q \in waiting : <<q, h>> \notin ahead
  /\ seated' = (seated \ {p}) \cup {h}
  /\ waiting' = waiting \ {h}
  /\ ahead' = Among(waiting \ {h})
  /\ UNCHANGED <<open, seats>>

Resize(n) ==
  /\ seats' = n
  /\ UNCHANGED <<open, seated, waiting, ahead>>

Close ==
  /\ open' = FALSE
  /\ UNCHANGED <<seats, seated, waiting, ahead>>

Next ==
  \/ \E p \in Person : Sit(p) \/ Queue(p) \/ GiveUp(p) \/ Leave(p)
  \/ \E p, h \in Person : HandOver(p, h)
  \/ \E n \in Seats : Resize(n)
  \/ Close

Spec == Init /\ [][Next]_vars

---------------------------------------------------------------------------
\* Nobody is both seated and waiting, and the waiting are in one strict line:
\* the queue never forks, loops or loses track of an arrival.
OneLine ==
  /\ seated \cap waiting = {}
  /\ \A p, q \in waiting : p # q => (<<p, q>> \in ahead <=> <<q, p>> \notin ahead)
  /\ \A p \in waiting : <<p, p>> \notin ahead
  /\ \A p, q, r \in waiting : <<p, q>> \in ahead /\ <<q, r>> \in ahead => <<p, r>> \in ahead

\* Two people still waiting never change places, and whoever is taken from the
\* queue into a seat leaves nobody waiting who was ahead.
FirstComeFirstServed ==
  [][\A p, q \in Person :
       <<p, q>> \in ahead =>
         /\ p \in waiting' /\ q \in waiting' => <<p, q>> \in ahead'
         /\ q \in seated' => p \notin waiting']_vars
===========================================================================
