-------------------------- MODULE SeatQueue_proofs --------------------------
(***************************************************************************)
(* What the promise of SeatQueue amounts to, for any people and any        *)
(* numbers of seats: the queue is one line, served in order.               *)
(***************************************************************************)
EXTENDS SeatQueue, TLAPS

LEMMA QueueTypeNext == TypeOK /\ [Next]_vars => TypeOK'
<1> SUFFICES ASSUME TypeOK, [Next]_vars
             PROVE  TypeOK'
  OBVIOUS
<1> USE DEF TypeOK
<1>1. ASSUME NEW p \in Person, Sit(p) \/ Queue(p) \/ GiveUp(p) \/ Leave(p)
      PROVE  TypeOK'
  BY <1>1 DEF Sit, Queue, GiveUp, Leave, Among
<1>2. ASSUME NEW p \in Person, NEW h \in Person, HandOver(p, h)
      PROVE  TypeOK'
  BY <1>2 DEF HandOver, Among
<1>3. ASSUME NEW n \in Seats, Resize(n)
      PROVE  TypeOK'
  BY <1>3 DEF Resize
<1>4. CASE Close
  BY <1>4 DEF Close
<1>5. CASE UNCHANGED vars
  BY <1>5 DEF vars
<1>. QED
  BY <1>1, <1>2, <1>3, <1>4, <1>5 DEF Next

\* What is left of a line is a line.
LEMMA ShorterLine ==
  ASSUME OneLine, waiting' \subseteq waiting, seated' \cap waiting' = {},
         \A q, r \in waiting' : <<q, r>> \in ahead' <=> <<q, r>> \in ahead
  PROVE  OneLine'
<1>1. \A q, r \in waiting' : q # r => (<<q, r>> \in ahead' <=> <<r, q>> \notin ahead')
  BY DEF OneLine
<1>2. \A q \in waiting' : <<q, q>> \notin ahead'
  BY DEF OneLine
<1>3. \A q, r, t \in waiting' : <<q, r>> \in ahead' /\ <<r, t>> \in ahead' => <<q, t>> \in ahead'
  <2> SUFFICES ASSUME NEW q \in waiting', NEW r \in waiting', NEW t \in waiting',
                      <<q, r>> \in ahead', <<r, t>> \in ahead'
               PROVE  <<q, t>> \in ahead'
    OBVIOUS
  <2>. QED
    BY DEF OneLine
<1>. QED
  BY <1>1, <1>2, <1>3 DEF OneLine

LEMMA LineNext == TypeOK /\ OneLine /\ [Next]_vars => OneLine'
<1> SUFFICES ASSUME TypeOK, OneLine, [Next]_vars
             PROVE  OneLine'
  OBVIOUS
<1> USE DEF TypeOK, OneLine
<1>1. ASSUME NEW p \in Person, Sit(p)
      PROVE  OneLine'
  BY <1>1 DEF Sit
<1>2. ASSUME NEW p \in Person, Queue(p)
      PROVE  OneLine'
  <2>1. /\ seated' = seated
        /\ waiting' = waiting \cup {p} /\ p \notin waiting /\ p \notin seated
        /\ ahead' = ahead \cup (waiting \X {p})
    BY <1>2 DEF Queue
  <2>2. \A q, r \in waiting : <<q, r>> \in ahead' <=> <<q, r>> \in ahead
    BY <2>1
  <2>3. \A q \in waiting : <<q, p>> \in ahead' /\ <<p, q>> \notin ahead'
    BY <2>1
  <2>4. <<p, p>> \notin ahead'
    BY <2>1
  <2>5. seated' \cap waiting' = {}
    BY <2>1
  <2>6. \A q, r \in waiting' : q # r => (<<q, r>> \in ahead' <=> <<r, q>> \notin ahead')
    BY <2>1, <2>2, <2>3
  <2>7. \A q \in waiting' : <<q, q>> \notin ahead'
    BY <2>1, <2>2, <2>4
  <2>8. \A q, r, t \in waiting' : <<q, r>> \in ahead' /\ <<r, t>> \in ahead' => <<q, t>> \in ahead'
    BY <2>1, <2>2, <2>3, <2>4
  <2>. QED
    BY <2>5, <2>6, <2>7, <2>8
<1>3. ASSUME NEW p \in Person, GiveUp(p)
      PROVE  OneLine'
  <2>1. \A q, r \in waiting' : <<q, r>> \in ahead' <=> <<q, r>> \in ahead
    BY <1>3 DEF GiveUp, Among
  <2>2. waiting' \subseteq waiting /\ seated' \cap waiting' = {}
    BY <1>3 DEF GiveUp
  <2>. QED
    BY <2>1, <2>2, ShorterLine
<1>4. ASSUME NEW p \in Person, Leave(p)
      PROVE  OneLine'
  BY <1>4 DEF Leave
<1>5. ASSUME NEW p \in Person, NEW h \in Person, HandOver(p, h)
      PROVE  OneLine'
  <2>1. \A q, r \in waiting' : <<q, r>> \in ahead' <=> <<q, r>> \in ahead
    BY <1>5 DEF HandOver, Among
  <2>2. waiting' \subseteq waiting /\ seated' \cap waiting' = {}
    BY <1>5 DEF HandOver
  <2>. QED
    BY <2>1, <2>2, ShorterLine
<1>6. ASSUME NEW n \in Seats, Resize(n)
      PROVE  OneLine'
  BY <1>6 DEF Resize
<1>7. CASE Close
  BY <1>7 DEF Close
<1>8. CASE UNCHANGED vars
  BY <1>8 DEF vars
<1>. QED
  BY <1>1, <1>2, <1>3, <1>4, <1>5, <1>6, <1>7, <1>8 DEF Next

\* The waiting stand in one strict line and have no seat.
THEOREM StandInLine == Spec => []OneLine
<1>1. Init => TypeOK /\ OneLine
  BY DEF Init, TypeOK, OneLine
<1>. QED
  BY <1>1, QueueTypeNext, LineNext, PTL DEF Spec

\* Nobody is seated from the queue before somebody who came earlier and still
\* waits, and no two who wait change places.
THEOREM ServedInOrder == Spec => FirstComeFirstServed
<1>1. Init => TypeOK /\ OneLine
  BY DEF Init, TypeOK, OneLine
<1>2. ASSUME TypeOK, OneLine, [Next]_vars, NEW p \in Person, NEW q \in Person, <<p, q>> \in ahead
      PROVE  /\ p \in waiting' /\ q \in waiting' => <<p, q>> \in ahead'
             /\ q \in seated' => p \notin waiting'
  <2> USE <1>2 DEF TypeOK, OneLine
  <2>1. p \in waiting /\ q \in waiting /\ q \notin seated
    OBVIOUS
  <2>2. ASSUME NEW r \in Person, Sit(r) \/ Queue(r) \/ GiveUp(r) \/ Leave(r)
        PROVE  /\ p \in waiting' /\ q \in waiting' => <<p, q>> \in ahead'
               /\ q \notin seated'
    BY <2>1, <2>2 DEF Sit, Queue, GiveUp, Leave, Among
  <2>3. ASSUME NEW r \in Person, NEW h \in Person, HandOver(r, h)
        PROVE  /\ p \in waiting' /\ q \in waiting' => <<p, q>> \in ahead'
               /\ q \notin seated'
    BY <2>1, <2>3 DEF HandOver, Among
  <2>4. ASSUME NEW n \in Seats, Resize(n)
        PROVE  UNCHANGED <<seated, waiting, ahead>>
    BY <2>4 DEF Resize
  <2>5. CASE Close
    BY <2>1, <2>5 DEF Close
  <2>6. CASE UNCHANGED vars
    BY <2>1, <2>6 DEF vars
  <2>. QED
    BY <2>1, <2>2, <2>3, <2>4, <2>5, <2>6 DEF Next
<1>3. TypeOK /\ OneLine /\ [Next]_vars =>
        \A p, q \in Person : <<p, q>> \in ahead =>
          /\ p \in waiting' /\ q \in waiting' => <<p, q>> \in ahead'
          /\ q \in seated' => p \notin waiting'
  BY <1>2
<1>. QED
  BY <1>1, <1>3, QueueTypeNext, LineNext, PTL DEF Spec, FirstComeFirstServed
===========================================================================
