------------------------------ MODULE Booking ------------------------------
(***************************************************************************)
(* The committed rows of one event, and every transaction of the backend   *)
(* that changes them as one step: register and cancel of                   *)
(* registrations.service.ts, update and cancelEvent of events.service.ts,  *)
(* and the UPDATE of check-in.service.ts.  EventTx has the statements      *)
(* inside the transactions and implements this module.                     *)
(*                                                                         *)
(* The state begins with the row EventsService.create() inserts.  A request *)
(* that is refused, or finds nothing to do, changes no row and is no step. *)
(*                                                                         *)
(* HasCapacityOffByOne, IsTailByCount, IsHeadDescending, CodeReminted,      *)
(* CancelWithoutPromotion, CheckInAnyone and AudienceOfSeated are mistakes  *)
(* one could make in the definition that follows each; Next uses none.     *)
(***************************************************************************)
EXTENDS Schema

VARIABLES eventStatus,   \* Event.status
          capacity,      \* Event.capacity
          startsAt,      \* Event.startsAt
          pastStarts,    \* every startsAt committed so far: what a slow
                         \* update() may have read before its transaction
          regStatus,     \* Registration.status, by address
          waitlistPos,   \* Registration.waitlistPos, by address
          checkedIn,     \* Registration.checkedInAt IS NOT NULL, by address
          ticket,        \* Ticket.code, by address
          emailLog       \* the rows of EmailLog

eventVars == <<eventStatus, capacity, startsAt, pastStarts>>
rowVars   == <<regStatus, waitlistPos, checkedIn, ticket>>
vars      == <<eventVars, rowVars, emailLog>>

TypeOK ==
  /\ eventStatus \in EventStatus
  /\ capacity \in Capacity
  /\ startsAt \in StartTime
  /\ pastStarts \subseteq StartTime /\ startsAt \in pastStarts
  /\ regStatus \in [Email -> RegistrationStatus]
  /\ waitlistPos \in [Email -> 0..MaxPos]
  /\ checkedIn \in [Email -> BOOLEAN]
  /\ ticket \in [Email -> Nat]
  /\ emailLog \subseteq Mail

Init ==
  /\ eventStatus = "ACTIVE"
  /\ capacity \in Capacity
  /\ startsAt \in StartTime
  /\ pastStarts = {startsAt}
  /\ regStatus = [p \in Email |-> "NONE"]
  /\ waitlistPos = [p \in Email |-> NoPos]
  /\ checkedIn = [p \in Email |-> FALSE]
  /\ ticket = [p \in Email |-> NoCode]
  /\ emailLog = {}

---------------------------------------------------------------------------
Registered == {p \in Email : regStatus[p] = "REGISTERED"}
Waiting    == {p \in Email : regStatus[p] = "WAITLISTED"}
Active     == Registered \cup Waiting

HasCapacityOffByOne == Cardinality(Registered) <= capacity
HasCapacity         == Cardinality(Registered) < capacity

\* n is one past the last position in the queue: the count would repeat one.
IsTailByCount(n) == n = Cardinality(Waiting) + 1
IsTail(n) ==
  \/ Waiting = {} /\ n = 1
  \/ \E last \in Waiting : /\ \A q \in Waiting : waitlistPos[q] <= waitlistPos[last]
                           /\ n = waitlistPos[last] + 1

\* h is whom promoteHead picks: WAITLISTED, with the lowest position.
IsHeadDescending(h) == h \in Waiting /\ \A q \in Waiting : waitlistPos[q] <= waitlistPos[h]
IsHead(h)           == h \in Waiting /\ \A q \in Waiting : waitlistPos[h] <= waitlistPos[q]

\* The code p holds once seated: the one it has, or a new one.
CodeReminted(p) == ticket[p] + 1
Code(p)         == IF ticket[p] = NoCode THEN 1 ELSE ticket[p]

---------------------------------------------------------------------------
(* register(): the caller holds no active registration and the event is    *)
(* open; with a free seat it gets the seat, a ticket and the e-mail that   *)
(* carries the code, otherwise the tail of the queue.                      *)

MayRegister(p) == eventStatus = "ACTIVE" /\ p \notin Active

RegisterSeated(p) ==
  /\ MayRegister(p)
  /\ HasCapacity
  /\ regStatus' = [regStatus EXCEPT ![p] = "REGISTERED"]
  /\ waitlistPos' = [waitlistPos EXCEPT ![p] = NoPos]
  /\ ticket' = [ticket EXCEPT ![p] = Code(p)]
  /\ emailLog' = Recorded(emailLog, {TicketMail(p, Code(p))})
  /\ UNCHANGED <<eventVars, checkedIn>>

RegisterWaitlisted(p) ==
  /\ MayRegister(p)
  /\ ~HasCapacity
  /\ regStatus' = [regStatus EXCEPT ![p] = "WAITLISTED"]
  /\ \E n \in 1..MaxPos : IsTail(n) /\ waitlistPos' = [waitlistPos EXCEPT ![p] = n]
  /\ UNCHANGED <<eventVars, checkedIn, ticket, emailLog>>

(* cancel(): the row becomes CANCELLED; a seat given up goes to the head of *)
(* the queue in the same transaction.  The event's status is not read.     *)

CancelWaiting(p) ==
  /\ p \in Waiting
  /\ regStatus' = [regStatus EXCEPT ![p] = "CANCELLED"]
  /\ waitlistPos' = [waitlistPos EXCEPT ![p] = NoPos]
  /\ UNCHANGED <<eventVars, checkedIn, ticket, emailLog>>

CancelWithoutPromotion(p) ==
  /\ p \in Registered
  /\ regStatus' = [regStatus EXCEPT ![p] = "CANCELLED"]
  /\ waitlistPos' = [waitlistPos EXCEPT ![p] = NoPos]
  /\ UNCHANGED <<eventVars, checkedIn, ticket, emailLog>>

CancelLastSeat(p) ==
  /\ p \in Registered
  /\ Waiting = {}
  /\ regStatus' = [regStatus EXCEPT ![p] = "CANCELLED"]
  /\ waitlistPos' = [waitlistPos EXCEPT ![p] = NoPos]
  /\ UNCHANGED <<eventVars, checkedIn, ticket, emailLog>>

CancelAndPromote(p, h) ==
  /\ p \in Registered
  /\ IsHead(h)
  /\ regStatus' = [regStatus EXCEPT ![p] = "CANCELLED", ![h] = "REGISTERED"]
  /\ waitlistPos' = [waitlistPos EXCEPT ![p] = NoPos, ![h] = NoPos]
  /\ ticket' = [ticket EXCEPT ![h] = Code(h)]
  /\ emailLog' = Recorded(emailLog, {PromotedMail(h, Code(h))})
  /\ UNCHANGED <<eventVars, checkedIn>>

(* checkIn(): the conditional UPDATE.  The ticket and the event's status    *)
(* were read in earlier statements, so only the registration row is certain. *)
CheckInAnyone(p) ==
  /\ ~checkedIn[p]
  /\ checkedIn' = [checkedIn EXCEPT ![p] = TRUE]
  /\ UNCHANGED <<eventVars, regStatus, waitlistPos, ticket, emailLog>>

CheckIn(p) ==
  /\ ticket[p] # NoCode
  /\ p \in Registered
  /\ ~checkedIn[p]
  /\ checkedIn' = [checkedIn EXCEPT ![p] = TRUE]
  /\ UNCHANGED <<eventVars, regStatus, waitlistPos, ticket, emailLog>>

(* update(): writes the columns the PATCH body has.  It is a reschedule if *)
(* the new start differs from the one read before the transaction.         *)

UpdateMails(t, seen) ==
  IF t = NoTime \/ t = seen THEN {} ELSE {RescheduledMail(p, t) : p \in Registered}

Update(c, t, seen) ==
  /\ capacity' = Patched(capacity, c, NoCapacity)
  /\ startsAt' = Patched(startsAt, t, NoTime)
  /\ pastStarts' = pastStarts \cup {startsAt'}
  /\ emailLog' = Recorded(emailLog, UpdateMails(t, seen))
  /\ UNCHANGED <<eventStatus, rowVars>>

(* cancelEvent(): also taken on an event that is already CANCELLED, by a    *)
(* request that read ACTIVE before another one's transaction committed.    *)
AudienceOfSeated == Registered
Audience         == Active

CancelEvent ==
  /\ eventStatus' = "CANCELLED"
  /\ emailLog' = Recorded(emailLog, {CancelledMail(p) : p \in Audience})
  /\ UNCHANGED <<capacity, startsAt, pastStarts, rowVars>>

Participate ==
  \/ \E p \in Email : RegisterSeated(p) \/ RegisterWaitlisted(p)
  \/ \E p \in Email : CancelWaiting(p) \/ CancelLastSeat(p)
  \/ \E p, h \in Email : CancelAndPromote(p, h)

Organize ==
  \/ \E body \in Patch, seen \in pastStarts : Update(body.capacity, body.startsAt, seen)
  \/ CancelEvent

Next == Participate \/ Organize \/ \E p \in Email : CheckIn(p)

Spec == Init /\ [][Next]_vars

\* An organizer who never lowers the capacity.
NoCut     == capacity' >= capacity
SpecNoCut == Init /\ [][Next /\ NoCut]_vars

---------------------------------------------------------------------------
\* Exactly the waiting have a position and no two share one: what the queue's
\* order (orderBy waitlistPos) and max + 1 of upsertWaitlisted rest on.
QueueOK ==
  /\ \A p \in Email : waitlistPos[p] # NoPos <=> p \in Waiting
  /\ \A p, q \in Waiting : waitlistPos[p] = waitlistPos[q] => p = q

\* A step that puts more people in seats leaves no more of them than seats:
\* register and promoteHead never overbook, whatever the organizer did to the
\* capacity in between (registrations.service.ts:69-72, 142-143).
NeverAdmitsPastCapacity ==
  [][Cardinality(Registered') > Cardinality(Registered)
       => Cardinality(Registered') <= capacity']_vars

\* While someone waits, only raising the capacity opens a seat nobody takes:
\* a seat given up is handed over in the same transaction (188), and nobody is
\* queued in front of a free seat (109-127).
OnlyARaiseIdlesASeat ==
  [][/\ Waiting' # {} /\ Cardinality(Registered') < capacity'
     => \/ capacity' > capacity
        \/ Waiting # {} /\ Cardinality(Registered) < capacity]_vars

\* With capacity never lowered the event is never overbooked.
NeverOverbooked == Cardinality(Registered) <= capacity

CodeMails(p) ==
  {m \in emailLog : m.to = p /\ m.type \in {"REGISTRATION_TICKET", "WAITLIST_PROMOTED"}}

\* A code that was ever e-mailed still opens the door: however often its owner
\* cancels, queues and comes back, the ticket row keeps it (314-322, 230-231).
MailedCodeIsCurrent == \A p \in Email : \A m \in CodeMails(p) : m.code = ticket[p]

\* Whoever has a seat was e-mailed the code of it, although a second seating
\* of the same person records nothing new (email.service.ts:24-28).
EverySeatHasItsCode ==
  \A p \in Registered : \E m \in CodeMails(p) : m.code = ticket[p] /\ m.code # NoCode

\* Everyone with a seat or a place in the queue of a cancelled event has been
\* told, in whatever order cancellation and bookings arrived
\* (events.service.ts:58, 83-91).
CancelledEventAnnounced ==
  eventStatus = "CANCELLED" => \A p \in Active : CancelledMail(p) \in emailLog

\* Nobody is in the house who never held a seat: a checked-in row has a ticket
\* whose code was e-mailed, also after its owner left and queued again.
CheckedInHeldASeat ==
  \A p \in Email : checkedIn[p] => \E m \in CodeMails(p) : m.code = ticket[p]

\* The bookings of an event are a line in front of a number of seats.
Promise == INSTANCE SeatQueue WITH
  Person  <- Email,
  Seats   <- Capacity,
  open    <- eventStatus = "ACTIVE",
  seats   <- capacity,
  seated  <- Registered,
  waiting <- Waiting,
  ahead   <- {pair \in Waiting \X Waiting : waitlistPos[pair[1]] < waitlistPos[pair[2]]}

KeepsPromise == Promise!Spec

---------------------------------------------------------------------------
(* What a comment or a document says and the code does not do.             *)

\* "FIFO order is preserved" (registrations.service.ts:143): nobody who was not
\* waiting is given a seat while somebody waits.
NoQueueJumping ==
  [][\A p \in Email : p \notin Active /\ p \in Registered' => Waiting = {}]_vars

\* "a *different* later reschedule correctly produces a fresh notification"
\* (events.service.ts:159-160), here for updates that read the current start.
EachRescheduleIsMailed ==
  [][\A body \in Patch :
       Update(body.capacity, body.startsAt, startsAt) /\ startsAt' # startsAt =>
         \A p \in Registered : RescheduledMail(p, startsAt') \in emailLog' \ emailLog]_vars
===========================================================================
