----------------------------- MODULE Door_proofs -----------------------------
(***************************************************************************)
(* Theorems about Door for every set of addresses, desks and capacities:   *)
(* its rows move as Booking's do, a ticket is used once, and a scan begun  *)
(* after the cancellation lets nobody in.                                  *)
(***************************************************************************)
EXTENDS Door, Booking_proofs

(***************************************************************************)
(* Whoever a desk serves has a ticket: tickets are never deleted.  The     *)
(* UPDATE relies on it, since it does not look the ticket up again.        *)
(***************************************************************************)
ServedHaveTickets ==
  \A d \in Desk : step[d] # "free" => holder[d] \in Email /\ ticket[holder[d]] # NoCode

DoorInv == TypeOK /\ DoorTypeOK /\ ServedHaveTickets

\* A step of Booking outside the door keeps the tickets.
LEMMA TicketsStay ==
  ASSUME TypeOK, Participate \/ Organize
  PROVE  \A p \in Email : ticket[p] # NoCode => ticket'[p] # NoCode
<1>1. ASSUME NEW p \in Email, RegisterSeated(p)
      PROVE  \A q \in Email : ticket[q] # NoCode => ticket'[q] # NoCode
  BY <1>1 DEF RegisterSeated, Code, NoCode, TypeOK
<1>2. ASSUME NEW p \in Email, NEW h \in Email, CancelAndPromote(p, h)
      PROVE  \A q \in Email : ticket[q] # NoCode => ticket'[q] # NoCode
  BY <1>2 DEF CancelAndPromote, Code, NoCode, TypeOK
<1>3. ASSUME NEW p \in Email, RegisterWaitlisted(p) \/ CancelWaiting(p) \/ CancelLastSeat(p)
      PROVE  ticket' = ticket
  BY <1>3 DEF RegisterWaitlisted, CancelWaiting, CancelLastSeat
<1>4. ASSUME Organize
      PROVE  ticket' = ticket
  BY <1>4 DEF Organize, Update, CancelEvent, rowVars
<1>5. CASE Participate
  BY <1>5, <1>1, <1>2, <1>3 DEF Participate
<1>6. CASE Organize
  BY <1>6, <1>4
<1>. QED
  BY <1>5, <1>6

LEMMA DoorStep ==
  ASSUME DoorInv, [DoorNext]_doorVars
  PROVE  [Next]_vars
<1>1. ASSUME NEW d \in Desk, Mark(d)
      PROVE  CheckIn(holder[d]) /\ holder[d] \in Email
  BY <1>1 DEF Mark, Matches, CheckIn, DoorInv, ServedHaveTickets
<1>2. ASSUME NEW d \in Desk, Serve(d)
      PROVE  Mark(d) \/ UNCHANGED vars
  BY <1>2 DEF Serve, Scan, ReadEvent, RefuseEarly, RefuseLate, Admit, Drop, Refuse
<1>3. CASE \E d \in Desk : Serve(d)
  BY <1>3, <1>1, <1>2 DEF Next
<1>4. CASE (Participate \/ Organize) /\ UNCHANGED deskVars
  BY <1>4 DEF Next
<1>5. CASE UNCHANGED doorVars
  BY <1>5 DEF doorVars
<1>. QED
  BY <1>3, <1>4, <1>5 DEF DoorNext

LEMMA DoorInvInit ==
  ASSUME DoorInit
  PROVE  DoorInv
<1>1. TypeOK
  BY TypeInit DEF DoorInit
<1>2. DoorTypeOK
  BY DEF DoorInit, DoorTypeOK, FoundType, NotFound, RegistrationStatus
<1>3. ServedHaveTickets
  BY DEF DoorInit, ServedHaveTickets
<1>. QED
  BY <1>1, <1>2, <1>3 DEF DoorInv

\* Outside Mark, a desk's step leaves Booking's rows alone.
LEMMA DoorTypeNext ==
  ASSUME DoorInv, DoorNext
  PROVE  DoorTypeOK'
<1> USE DEF DoorInv, DoorTypeOK
<1>1. ASSUME NEW d \in Desk, NEW p \in Email, Scan(d, p)
      PROVE  DoorTypeOK'
  <2>1. [status |-> regStatus[p], checkedIn |-> checkedIn[p]] \in FoundType
    BY DEF FoundType, TypeOK
  <2>2. p # NoOne
    BY NobodyOK
  <2>. QED
    BY <1>1, <2>1, <2>2 DEF Scan
<1>2. ASSUME NEW d \in Desk, Free(d), admitted' \in [Email -> Nat]
      PROVE  DoorTypeOK'
  <2>1. NotFound \in FoundType
    BY DEF NotFound, FoundType, RegistrationStatus
  <2>. QED
    BY <1>2, <2>1 DEF Free
<1>3. ASSUME NEW d \in Desk, ReadEvent(d)
      PROVE  DoorTypeOK'
  BY <1>3 DEF ReadEvent
<1>4. ASSUME NEW d \in Desk, Mark(d)
      PROVE  DoorTypeOK'
  BY <1>4 DEF Mark
<1>5. ASSUME NEW d \in Desk, RefuseEarly(d) \/ RefuseLate(d) \/ Drop(d)
      PROVE  DoorTypeOK'
  BY <1>5, <1>2 DEF RefuseEarly, RefuseLate, Drop, Refuse
<1>6. ASSUME NEW d \in Desk, Admit(d)
      PROVE  DoorTypeOK'
  BY <1>6, <1>2 DEF Admit
<1>7. CASE UNCHANGED deskVars
  BY <1>7 DEF deskVars
<1>. QED
  BY <1>1, <1>3, <1>4, <1>5, <1>6, <1>7 DEF DoorNext, Serve

LEMMA ServedNext ==
  ASSUME DoorInv, DoorNext
  PROVE  ServedHaveTickets'
<1> USE DEF DoorInv, DoorTypeOK, ServedHaveTickets
<1>1. ASSUME NEW d \in Desk, NEW p \in Email, Scan(d, p)
      PROVE  ServedHaveTickets'
  BY <1>1 DEF Scan, vars, rowVars
<1>2. ASSUME NEW d \in Desk, Free(d), UNCHANGED vars
      PROVE  ServedHaveTickets'
  BY <1>2 DEF Free, vars, rowVars
<1>3. ASSUME NEW d \in Desk, ReadEvent(d)
      PROVE  ServedHaveTickets'
  BY <1>3 DEF ReadEvent, vars, rowVars
<1>4. ASSUME NEW d \in Desk, Mark(d)
      PROVE  ServedHaveTickets'
  BY <1>4 DEF Mark
<1>5. ASSUME NEW d \in Desk, RefuseEarly(d) \/ RefuseLate(d) \/ Drop(d) \/ Admit(d)
      PROVE  ServedHaveTickets'
  BY <1>5, <1>2 DEF RefuseEarly, RefuseLate, Drop, Refuse, Admit
<1>6. CASE (Participate \/ Organize) /\ UNCHANGED deskVars
  BY <1>6, TicketsStay DEF deskVars
<1>. QED
  BY <1>1, <1>3, <1>4, <1>5, <1>6 DEF DoorNext, Serve

LEMMA DoorInvNext == DoorInv /\ [DoorNext]_doorVars => DoorInv'
<1> SUFFICES ASSUME DoorInv, [DoorNext]_doorVars
             PROVE  DoorInv'
  OBVIOUS
<1>1. TypeOK'
  BY DoorStep, TypeNext DEF DoorInv
<1>2. CASE DoorNext
  BY <1>1, <1>2, DoorTypeNext, ServedNext DEF DoorInv
<1>3. CASE UNCHANGED doorVars
  BY <1>1, <1>3 DEF DoorInv, DoorTypeOK, ServedHaveTickets, doorVars, deskVars, vars, rowVars
<1>. QED
  BY <1>2, <1>3

\* Each desk is free or serves one address, and the columns keep their types.
THEOREM DoorTypeCorrect == DoorSpec => []DoorTypeOK
<1>1. DoorInv => DoorTypeOK
  BY DEF DoorInv
<1>2. DoorInit => DoorInv
  BY DoorInvInit
<1>. QED
  BY <1>1, <1>2, DoorInvNext, PTL DEF DoorSpec

\* The four statements of checkIn(), interleaved with the transactions, change
\* the rows as the one atomic step of Booking does; every theorem about Booking
\* therefore holds with the door open.
THEOREM DoorImplementsBooking == DoorSpec => DoorKeepsRows
<1>1. DoorInit => Init /\ DoorInv
  BY DoorInvInit DEF DoorInit
<1>2. DoorInv /\ [DoorNext]_doorVars => [Next]_vars
  BY DoorStep
<1>. QED
  BY <1>1, <1>2, DoorInvNext, PTL DEF DoorSpec, DoorKeepsRows, Spec

---------------------------------------------------------------------------
(* Single use.                                                             *)

LEMMA DueFacts ==
  ASSUME NEW p
  PROVE  IsFiniteSet(AnswersDue(p)) /\ Cardinality(AnswersDue(p)) \in Nat
<1>1. AnswersDue(p) \subseteq Desk
  BY DEF AnswersDue
<1>. QED
  BY <1>1, DeskFinite, FS_Subset, FS_CardinalityType

LEMMA SingleUseNext ==
  ASSUME DoorInv, TicketIsSingleUse, DoorNext
  PROVE  TicketIsSingleUse'
<1> SUFFICES ASSUME NEW p \in Email
             PROVE  (admitted[p] + Cardinality(AnswersDue(p)) <= IF checkedIn[p] THEN 1 ELSE 0)'
  BY DEF TicketIsSingleUse
<1> DEFINE due == Cardinality(AnswersDue(p))
<1>0. /\ admitted[p] + due <= IF checkedIn[p] THEN 1 ELSE 0
      /\ admitted[p] \in Nat /\ due \in Nat /\ due' \in Nat
      /\ checkedIn[p] \in BOOLEAN
  <2>1. AnswersDue(p)' \subseteq Desk
    BY DEF AnswersDue
  <2>2. due' \in Nat
    BY <2>1, DeskFinite, FS_Subset, FS_CardinalityType
  <2>. QED
    BY <2>2, DueFacts DEF TicketIsSingleUse, DoorInv, DoorTypeOK, TypeOK
<1>1. ASSUME admitted' = admitted, checkedIn' = checkedIn, AnswersDue(p)' \subseteq AnswersDue(p)
      PROVE  admitted'[p] + due' <= IF checkedIn'[p] THEN 1 ELSE 0
  <2>1. due' <= due
    BY <1>1, DueFacts, FS_Subset
  <2>. QED
    BY <1>0, <1>1, <2>1
<1>2. ASSUME NEW d \in Desk, NEW q \in Email, Scan(d, q)
      PROVE  admitted'[p] + due' <= IF checkedIn'[p] THEN 1 ELSE 0
  <2>1. AnswersDue(p)' \subseteq AnswersDue(p)
    BY <1>2 DEF Scan, AnswersDue, DoorInv, DoorTypeOK
  <2>. QED
    BY <1>1, <1>2, <2>1 DEF Scan, vars, rowVars
<1>3. ASSUME NEW d \in Desk, ReadEvent(d)
      PROVE  admitted'[p] + due' <= IF checkedIn'[p] THEN 1 ELSE 0
  <2>1. AnswersDue(p)' \subseteq AnswersDue(p)
    BY <1>3 DEF ReadEvent, AnswersDue, DoorInv, DoorTypeOK
  <2>. QED
    BY <1>1, <1>3, <2>1 DEF ReadEvent, vars, rowVars
<1>4. ASSUME NEW d \in Desk, RefuseEarly(d) \/ RefuseLate(d) \/ Drop(d)
      PROVE  admitted'[p] + due' <= IF checkedIn'[p] THEN 1 ELSE 0
  <2>1. Free(d) /\ UNCHANGED <<vars, admitted>>
    BY <1>4 DEF RefuseEarly, RefuseLate, Drop, Refuse
  <2>2. AnswersDue(p)' \subseteq AnswersDue(p)
    BY <2>1 DEF Free, AnswersDue, DoorInv, DoorTypeOK
  <2>. QED
    BY <1>1, <2>1, <2>2 DEF vars, rowVars
<1>5. ASSUME NEW d \in Desk, Mark(d)
      PROVE  admitted'[p] + due' <= IF checkedIn'[p] THEN 1 ELSE 0
  <2>1. CASE holder[d] # p
    <3>1. AnswersDue(p)' \subseteq AnswersDue(p) /\ checkedIn'[p] = checkedIn[p]
      BY <1>5, <2>1 DEF Mark, AnswersDue, DoorInv, DoorTypeOK, TypeOK
    <3>2. due' <= due /\ admitted' = admitted
      BY <1>5, <3>1, DueFacts, FS_Subset DEF Mark
    <3>. QED
      BY <1>0, <3>1, <3>2
  <2>2. CASE holder[d] = p
    <3>1. ~checkedIn[p] /\ checkedIn'[p] /\ admitted' = admitted
      BY <1>5, <2>2 DEF Mark, Matches, TypeOK, DoorInv
    <3>2. AnswersDue(p)' = AnswersDue(p) \cup {d}
      BY <1>5, <2>2 DEF Mark, AnswersDue, DoorInv, DoorTypeOK
    <3>3. due = 0 /\ admitted[p] = 0
      BY <1>0, <3>1
    <3>4. due' <= due + 1
      BY <3>2, DueFacts, FS_AddElement
    <3>. QED
      BY <1>0, <3>1, <3>3, <3>4
  <2>. QED
    BY <2>1, <2>2
<1>6. ASSUME NEW d \in Desk, Admit(d)
      PROVE  admitted'[p] + due' <= IF checkedIn'[p] THEN 1 ELSE 0
  <2>0. checkedIn' = checkedIn
    BY <1>6 DEF Admit, vars, rowVars
  <2>1. CASE holder[d] # p
    <3>1. AnswersDue(p)' \subseteq AnswersDue(p) /\ admitted'[p] = admitted[p]
      BY <1>6, <2>1 DEF Admit, Free, AnswersDue, DoorInv, DoorTypeOK
    <3>2. due' <= due
      BY <3>1, DueFacts, FS_Subset
    <3>. QED
      BY <1>0, <2>0, <3>1, <3>2
  <2>2. CASE holder[d] = p
    <3>1. AnswersDue(p)' = AnswersDue(p) \ {d} /\ d \in AnswersDue(p)
      BY <1>6, <2>2, NobodyOK DEF Admit, Free, AnswersDue, DoorInv, DoorTypeOK
    <3>2. due' = due - 1
      BY <3>1, DueFacts, FS_RemoveElement
    <3>3. admitted'[p] = admitted[p] + 1
      BY <1>6, <2>2 DEF Admit, DoorInv, DoorTypeOK
    <3>. QED
      BY <1>0, <2>0, <3>2, <3>3
  <2>. QED
    BY <2>1, <2>2
<1>7. CASE (Participate \/ Organize) /\ UNCHANGED deskVars
  <2>1. checkedIn' = checkedIn
    BY <1>7 DEF Participate, RegisterSeated, RegisterWaitlisted, CancelWaiting, CancelLastSeat,
                CancelAndPromote, Organize, Update, CancelEvent, rowVars
  <2>2. AnswersDue(p)' \subseteq AnswersDue(p)
    BY <1>7 DEF deskVars, AnswersDue
  <2>. QED
    BY <1>1, <1>7, <2>1, <2>2 DEF deskVars
<1>. QED
  BY <1>2, <1>3, <1>4, <1>5, <1>6, <1>7 DEF DoorNext, Serve

\* However many desks scan one ticket, and however often its owner cancels and
\* comes back, it is answered "checked in" at most once.
THEOREM SingleUse == DoorSpec => []TicketIsSingleUse
<1>1. DoorInit => DoorInv
  BY DoorInvInit
<1>2. DoorInit => TicketIsSingleUse
  <2> SUFFICES ASSUME DoorInit, NEW p \in Email
               PROVE  admitted[p] + Cardinality(AnswersDue(p)) <= IF checkedIn[p] THEN 1 ELSE 0
    BY DEF TicketIsSingleUse
  <2>1. AnswersDue(p) = {}
    BY DEF DoorInit, AnswersDue
  <2>. QED
    BY <2>1, FS_EmptySet DEF DoorInit
<1>3. DoorInv /\ TicketIsSingleUse /\ [DoorNext]_doorVars => TicketIsSingleUse'
  <2>1. UNCHANGED doorVars /\ TicketIsSingleUse => TicketIsSingleUse'
    BY DEF TicketIsSingleUse, AnswersDue, doorVars, deskVars, vars, rowVars
  <2>. QED
    BY <2>1, SingleUseNext
<1>. QED
  BY <1>1, <1>2, <1>3, DoorInvNext, PTL DEF DoorSpec

---------------------------------------------------------------------------
(* Scans of a cancelled event.                                             *)

\* A scan that came too late knows it from then on: the event stays cancelled,
\* and the status read before the UPDATE finds it so.
LateInv ==
  \A d \in Desk :
    /\ tooLate[d] => eventStatus = "CANCELLED"
    /\ tooLate[d] => step[d] \notin {"mark", "answer"}

\* A ticket scanned after the cancellation lets nobody in.
THEOREM LateScansRefused == DoorSpec => []NobodyAfterCancellation
<1>1. DoorInit => DoorInv /\ LateInv
  BY DoorInvInit DEF DoorInit, LateInv
<1>2. DoorInv /\ LateInv /\ [DoorNext]_doorVars => LateInv'
  <2> SUFFICES ASSUME DoorInv, LateInv, [DoorNext]_doorVars
               PROVE  LateInv'
    OBVIOUS
  <2> USE DEF DoorInv, DoorTypeOK, LateInv
  <2>1. ASSUME NEW d \in Desk, NEW p \in Email, Scan(d, p)
        PROVE  LateInv'
    BY <2>1 DEF Scan, vars, eventVars
  <2>2. ASSUME NEW d \in Desk, Free(d), UNCHANGED vars
        PROVE  LateInv'
    BY <2>2 DEF Free, vars, eventVars
  <2>3. ASSUME NEW d \in Desk, ReadEvent(d)
        PROVE  LateInv'
    BY <2>3 DEF ReadEvent, Refuses, vars, eventVars
  <2>4. ASSUME NEW d \in Desk, Mark(d)
        PROVE  LateInv'
    BY <2>4 DEF Mark, eventVars
  <2>5. ASSUME NEW d \in Desk, RefuseEarly(d) \/ RefuseLate(d) \/ Drop(d) \/ Admit(d)
        PROVE  LateInv'
    BY <2>5, <2>2 DEF RefuseEarly, RefuseLate, Drop, Refuse, Admit
  <2>6. CASE (Participate \/ Organize) /\ UNCHANGED deskVars
    <3>1. eventStatus' \in {eventStatus, "CANCELLED"}
      BY <2>6 DEF Participate, RegisterSeated, RegisterWaitlisted, CancelWaiting, CancelLastSeat,
                  CancelAndPromote, Organize, Update, CancelEvent, eventVars
    <3>. QED
      BY <2>6, <3>1 DEF deskVars
  <2>7. CASE UNCHANGED doorVars
    BY <2>7 DEF doorVars, deskVars, vars, eventVars
  <2>. QED
    BY <2>1, <2>3, <2>4, <2>5, <2>6, <2>7 DEF DoorNext, Serve
<1>3. LateInv => NobodyAfterCancellation
  BY DEF LateInv, NobodyAfterCancellation
<1>. QED
  BY <1>1, <1>2, <1>3, DoorInvNext, PTL DEF DoorSpec
===========================================================================
