-------------------------------- MODULE Door --------------------------------
(***************************************************************************)
(* CheckInService.checkIn() of check-in.service.ts, one database statement *)
(* at a time: look the ticket up with its registration, read the event's   *)
(* status, then the conditional UPDATE, then the read-back and the answer. *)
(* No transaction and no lock spans the statements; the transactions of    *)
(* Booking run between them, one at a time as EventTx shows they do.       *)
(*                                                                         *)
(* FreeStepOnly, RefusesRowOnly, MatchesUnguarded and MatchesAnyStatus are *)
(* mistakes one could make in the definition that follows each; DoorNext   *)
(* uses none.                                                              *)
(***************************************************************************)
EXTENDS Booking

CONSTANTS Desk,       \* requests to check a ticket in, in progress at once
          NoOne       \* the ticket holder of a desk that serves nobody

ASSUME NobodyOK   == NoOne \notin Email
ASSUME DeskFinite == IsFiniteSet(Desk)

VARIABLES step,       \* the next statement of each desk
          holder,     \* whose ticket it scanned
          found,      \* the registration row that lookup returned
          tooLate,    \* the event was cancelled before the scan
          admitted    \* answers that let this person in

deskVars == <<step, holder, found, tooLate, admitted>>
doorVars == <<vars, deskVars>>

\* What the lookup returned of the registration row.
FoundType == [status : RegistrationStatus, checkedIn : BOOLEAN]
NotFound  == [status |-> "NONE", checkedIn |-> FALSE]

DoorTypeOK ==
  /\ step \in [Desk -> {"free", "event", "mark", "answer"}]
  /\ holder \in [Desk -> Email \cup {NoOne}]
  /\ found \in [Desk -> FoundType]
  /\ tooLate \in [Desk -> BOOLEAN]
  /\ admitted \in [Email -> Nat]
  /\ \A d \in Desk : step[d] = "free" <=> holder[d] = NoOne

DoorInit ==
  /\ Init
  /\ step = [d \in Desk |-> "free"]
  /\ holder = [d \in Desk |-> NoOne]
  /\ found = [d \in Desk |-> NotFound]
  /\ tooLate = [d \in Desk |-> FALSE]
  /\ admitted = [p \in Email |-> 0]

---------------------------------------------------------------------------
\* The request is over.
FreeStepOnly(d) == step' = [step EXCEPT ![d] = "free"] /\ UNCHANGED <<holder, found, tooLate>>
Free(d) ==
  /\ step' = [step EXCEPT ![d] = "free"]
  /\ holder' = [holder EXCEPT ![d] = NoOne]
  /\ found' = [found EXCEPT ![d] = NotFound]
  /\ tooLate' = [tooLate EXCEPT ![d] = FALSE]

Refuse(d) == Free(d) /\ UNCHANGED <<vars, admitted>>

\* An unknown code is a 404 and changes nothing.
Scan(d, p) ==
  /\ step[d] = "free"
  /\ ticket[p] # NoCode
  /\ step' = [step EXCEPT ![d] = "event"]
  /\ holder' = [holder EXCEPT ![d] = p]
  /\ found' = [found EXCEPT ![d] = [status |-> regStatus[p], checkedIn |-> checkedIn[p]]]
  /\ tooLate' = [tooLate EXCEPT ![d] = eventStatus = "CANCELLED"]
  /\ UNCHANGED <<vars, admitted>>

\* The refusals before the UPDATE; the row is the one of the scan.
RefusesRowOnly(d) == found[d].status # "REGISTERED" \/ found[d].checkedIn
Refuses(d) ==
  eventStatus = "CANCELLED" \/ found[d].status # "REGISTERED" \/ found[d].checkedIn

ReadEvent(d) ==
  /\ step[d] = "event"
  /\ ~Refuses(d)
  /\ step' = [step EXCEPT ![d] = "mark"]
  /\ UNCHANGED <<vars, holder, found, tooLate, admitted>>

RefuseEarly(d) ==
  /\ step[d] = "event"
  /\ Refuses(d)
  /\ Refuse(d)

\* The WHERE clause of the UPDATE, which decides on the committed row.
MatchesUnguarded(p)  == p \in Registered
MatchesAnyStatus(p)  == ~checkedIn[p]
Matches(p)           == p \in Registered /\ ~checkedIn[p]

Mark(d) ==
  /\ step[d] = "mark"
  /\ Matches(holder[d])
  /\ checkedIn' = [checkedIn EXCEPT ![holder[d]] = TRUE]
  /\ step' = [step EXCEPT ![d] = "answer"]
  /\ UNCHANGED <<eventVars, regStatus, waitlistPos, ticket, emailLog,
                 holder, found, tooLate, admitted>>

RefuseLate(d) ==
  /\ step[d] = "mark"
  /\ ~Matches(holder[d])
  /\ Refuse(d)

Admit(d) ==
  /\ step[d] = "answer"
  /\ admitted' = [admitted EXCEPT ![holder[d]] = @ + 1]
  /\ Free(d)
  /\ UNCHANGED vars

\* A statement fails, the connection drops or the process dies; what the
\* UPDATE wrote stays.
Drop(d) ==
  /\ step[d] # "free"
  /\ Refuse(d)

Serve(d) ==
  \/ \E p \in Email : Scan(d, p)
  \/ ReadEvent(d) \/ RefuseEarly(d)
  \/ Mark(d) \/ RefuseLate(d)
  \/ Admit(d) \/ Drop(d)

DoorNext ==
  \/ \E d \in Desk : Serve(d)
  \/ (Participate \/ Organize) /\ UNCHANGED deskVars

DoorSpec == DoorInit /\ [][DoorNext]_doorVars

---------------------------------------------------------------------------
\* Door's committed rows move as Booking's do: the UPDATE of a scan that is
\* long past is still the atomic check-in of Booking.
DoorKeepsRows == Spec

\* A ticket lets one person in once, at however many desks it is scanned and
\* however often its owner cancels and comes back: the answers given and the
\* answers still on their way are together at most one, and none without the
\* mark in the row (check-in.service.ts:24-31).
AnswersDue(p) == {d \in Desk : step[d] = "answer" /\ holder[d] = p}

TicketIsSingleUse ==
  \A p \in Email :
    admitted[p] + Cardinality(AnswersDue(p)) <= IF checkedIn[p] THEN 1 ELSE 0

\* A ticket scanned after the event was cancelled opens nothing, whatever was
\* read and changed in between (48-55).
NobodyAfterCancellation ==
  \A d \in Desk : tooLate[d] => step[d] \notin {"mark", "answer"}

---------------------------------------------------------------------------
\* "new registrations and check-ins are refused" in a cancelled event
\* (events.service.ts:55), "No check-in for a cancelled event" (48).
CheckInsOnlyWhileActive ==
  [][checkedIn' # checkedIn => eventStatus = "ACTIVE"]_doorVars
===========================================================================
