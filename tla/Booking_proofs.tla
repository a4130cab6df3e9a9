-------------------------- MODULE Booking_proofs --------------------------
(***************************************************************************)
(* What Booking guarantees for any number of addresses, starts and         *)
(* capacities, and any width of waitlistPos.                               *)
(***************************************************************************)
EXTENDS Booking, FiniteSetTheorems, TLAPS

USE DEF NoCapacity, NoPos, NoCode

---------------------------------------------------------------------------
(* Lemmas about the operators.                                             *)

\* recordInTx keeps what was recorded, adds nothing but the mails it is given,
\* and afterwards each of them has a row with its key.
LEMMA RecordedFacts ==
  ASSUME NEW log, NEW mails
  PROVE  /\ log \subseteq Recorded(log, mails)
         /\ Recorded(log, mails) \subseteq log \cup mails
         /\ \A m \in mails : \E n \in Recorded(log, mails) : Key(n) = Key(m)
BY DEF Recorded

\* The code a seated participant holds is a ticket, and is the old one if
\* there was one.
LEMMA CodeFacts ==
  ASSUME TypeOK, NEW p \in Email
  PROVE  /\ Code(p) \in Nat \ {0}
         /\ ticket[p] # NoCode => Code(p) = ticket[p]
BY DEF Code, TypeOK

\* Every mail the services build has the shape of a row of EmailLog.
LEMMA MailTypes ==
  ASSUME NEW p \in Email, NEW code \in Nat, NEW t \in StartTime
  PROVE  /\ TicketMail(p, code) \in Mail
         /\ PromotedMail(p, code) \in Mail
         /\ RescheduledMail(p, t) \in Mail
         /\ CancelledMail(p) \in Mail
BY DEF TicketMail, PromotedMail, RescheduledMail, CancelledMail, Mail, EmailType

---------------------------------------------------------------------------
(* Type correctness.                                                       *)

LEMMA TypeInit == Init => TypeOK
BY MaxPosOK DEF Init, TypeOK, EventStatus, RegistrationStatus, Mail

LEMMA TypeNext == TypeOK /\ [Next]_vars => TypeOK'
<1> SUFFICES ASSUME TypeOK, [Next]_vars PROVE TypeOK'
  OBVIOUS
<1> USE DEF TypeOK
<1>1. ASSUME NEW p \in Email, RegisterSeated(p) PROVE TypeOK'
  <2>1. Code(p) \in Nat
    BY CodeFacts
  <2>2. emailLog' \subseteq Mail
    BY <1>1, <2>1, MailTypes, RecordedFacts DEF RegisterSeated
  <2> QED
    BY <1>1, <2>1, <2>2, MaxPosOK DEF RegisterSeated, RegistrationStatus, eventVars
<1>2. ASSUME NEW p \in Email, RegisterWaitlisted(p) PROVE TypeOK'
  BY <1>2, MaxPosOK DEF RegisterWaitlisted, RegistrationStatus, eventVars
<1>3. ASSUME NEW p \in Email, CancelWaiting(p) PROVE TypeOK'
  BY <1>3, MaxPosOK DEF CancelWaiting, RegistrationStatus, eventVars
<1>4. ASSUME NEW p \in Email, CancelLastSeat(p) PROVE TypeOK'
  BY <1>4, MaxPosOK DEF CancelLastSeat, RegistrationStatus, eventVars
<1>5. ASSUME NEW p \in Email, NEW h \in Email, CancelAndPromote(p, h) PROVE TypeOK'
  <2>1. Code(h) \in Nat
    BY CodeFacts
  <2>2. emailLog' \subseteq Mail
    BY <1>5, <2>1, MailTypes, RecordedFacts DEF CancelAndPromote
  <2>3. regStatus' \in [Email -> RegistrationStatus]
    BY <1>5 DEF CancelAndPromote, RegistrationStatus
  <2>4. waitlistPos' \in [Email -> 0..MaxPos]
    BY <1>5, MaxPosOK DEF CancelAndPromote
  <2> QED
    BY <1>5, <2>1, <2>2, <2>3, <2>4 DEF CancelAndPromote, eventVars
<1>6. ASSUME NEW p \in Email, CheckIn(p) PROVE TypeOK'
  BY <1>6 DEF CheckIn, eventVars
<1>7. ASSUME NEW body \in Patch, NEW seen \in pastStarts, Update(body.capacity, body.startsAt, seen)
      PROVE TypeOK'
  <2>1. capacity' \in Capacity /\ startsAt' \in StartTime
    BY <1>7 DEF Update, Patched, Patch
  <2>2. emailLog' \subseteq Mail
    <3>1. body.startsAt # NoTime => body.startsAt \in StartTime
      BY DEF Patch
    <3>2. UpdateMails(body.startsAt, seen) \subseteq Mail
      BY <3>1, MailTypes DEF UpdateMails, Registered
    <3> QED
      BY <1>7, <3>2, RecordedFacts DEF Update
  <2> QED
    BY <1>7, <2>1, <2>2 DEF Update, rowVars
<1>8. ASSUME CancelEvent PROVE TypeOK'
  <2>1. {CancelledMail(p) : p \in Audience} \subseteq Mail
    BY MailTypes DEF Audience, Active, Registered, Waiting, CancelledMail, Mail, EmailType
  <2>2. emailLog' \subseteq Mail
    BY <1>8, <2>1, RecordedFacts DEF CancelEvent
  <2> QED
    BY <1>8, <2>2 DEF CancelEvent, EventStatus, rowVars
<1>9. CASE UNCHANGED vars
  BY <1>9 DEF vars, eventVars, rowVars
<1> QED
  BY <1>1, <1>2, <1>3, <1>4, <1>5, <1>6, <1>7, <1>8, <1>9 DEF Next, Participate, Organize

\* The rows keep the column types of schema.prisma, waitlistPos within its
\* INTEGER column included.
THEOREM TypeCorrect == Spec => []TypeOK
BY TypeInit, TypeNext, PTL DEF Spec

---------------------------------------------------------------------------
(* The queue.                                                              *)

LEMMA QueueInit == Init => QueueOK
BY DEF Init, QueueOK, Waiting

LEMMA QueueNext == TypeOK /\ QueueOK /\ [Next]_vars => QueueOK'
<1> SUFFICES ASSUME TypeOK, QueueOK, [Next]_vars PROVE QueueOK'
  OBVIOUS
<1> USE DEF TypeOK, QueueOK, Waiting
<1>1. ASSUME NEW p \in Email, RegisterSeated(p) PROVE QueueOK'
  BY <1>1 DEF RegisterSeated
<1>2. ASSUME NEW p \in Email, RegisterWaitlisted(p) PROVE QueueOK'
  <2>1. PICK n \in 1..MaxPos : IsTail(n) /\ waitlistPos' = [waitlistPos EXCEPT ![p] = n]
    BY <1>2 DEF RegisterWaitlisted
  <2>2. \A q \in Waiting : waitlistPos[q] < n
    <3> SUFFICES ASSUME NEW q \in Waiting PROVE waitlistPos[q] < n
      OBVIOUS
    <3>1. PICK last \in Waiting : waitlistPos[q] <= waitlistPos[last] /\ n = waitlistPos[last] + 1
      BY <2>1 DEF IsTail
    <3> QED
      BY <3>1, MaxPosOK
  <2>3. regStatus' = [regStatus EXCEPT ![p] = "WAITLISTED"] /\ p \notin Waiting
    BY <1>2 DEF RegisterWaitlisted, MayRegister, Active
  <2>4. Waiting' = Waiting \cup {p}
    BY <2>3
  <2>5. n # NoPos /\ waitlistPos'[p] = n
        /\ \A q \in Email \ {p} : waitlistPos'[q] = waitlistPos[q]
    BY <2>1
  <2>6. \A q \in Email : waitlistPos[q] \in Nat
    BY MaxPosOK
  <2> QED
    BY <2>2, <2>3, <2>4, <2>5, <2>6
<1>3. ASSUME NEW p \in Email, CancelWaiting(p) PROVE QueueOK'
  BY <1>3 DEF CancelWaiting
<1>4. ASSUME NEW p \in Email, CancelLastSeat(p) PROVE QueueOK'
  BY <1>4 DEF CancelLastSeat
<1>5. ASSUME NEW p \in Email, NEW h \in Email, CancelAndPromote(p, h) PROVE QueueOK'
  <2>1. Waiting' = Waiting \ {h}
    BY <1>5 DEF CancelAndPromote, Registered, IsHead
  <2>2. \A q \in Email : waitlistPos'[q] = IF q \in {p, h} THEN NoPos ELSE waitlistPos[q]
    BY <1>5 DEF CancelAndPromote
  <2>3. p \notin Waiting
    BY <1>5 DEF CancelAndPromote, Registered
  <2> QED
    BY <2>1, <2>2, <2>3
<1>6. ASSUME NEW p \in Email, CheckIn(p) PROVE QueueOK'
  BY <1>6 DEF CheckIn
<1>7. ASSUME NEW body \in Patch, NEW seen \in pastStarts, Update(body.capacity, body.startsAt, seen)
      PROVE QueueOK'
  BY <1>7 DEF Update, rowVars
<1>8. ASSUME CancelEvent PROVE QueueOK'
  BY <1>8 DEF CancelEvent, rowVars
<1>9. CASE UNCHANGED vars
  BY <1>9 DEF vars, rowVars
<1> QED
  BY <1>1, <1>2, <1>3, <1>4, <1>5, <1>6, <1>7, <1>8, <1>9 DEF Next, Participate, Organize

\* Positions never collide, whatever the churn of cancellations and returns.
THEOREM QueueKept == Spec => []QueueOK
BY TypeInit, TypeNext, QueueInit, QueueNext, PTL DEF Spec

---------------------------------------------------------------------------
(* The outbox.  Deduplication skips a mail whose key is taken, so that     *)
(* whoever is seated again must be covered by what was recorded before:    *)
(* the invariant ties every recorded code to the ticket row.               *)

CodeTypes == {"REGISTRATION_TICKET", "WAITLIST_PROMOTED"}

LogOK ==
  \A m \in emailLog :
    /\ m.type \in CodeTypes => m.code = ticket[m.to] /\ m.code # NoCode
    /\ m.type = "EVENT_CANCELLED" => m = CancelledMail(m.to)

MailInv == LogOK /\ EverySeatHasItsCode /\ CheckedInHeldASeat

LEMMA MailInit == Init => MailInv
BY DEF Init, MailInv, LogOK, EverySeatHasItsCode, CheckedInHeldASeat, Registered

\* Seating p: with a ticket kept or minted and its code recorded (or recorded
\* before), the log stays right and p's seat is covered.
LEMMA Seating ==
  ASSUME TypeOK, TypeOK', LogOK, NEW p \in Email,
         NEW mail \in {TicketMail(p, Code(p)), PromotedMail(p, Code(p))},
         ticket' = [ticket EXCEPT ![p] = Code(p)],
         emailLog' = Recorded(emailLog, {mail})
  PROVE  /\ LogOK'
         /\ \E m \in CodeMails(p)' : m.code = ticket'[p] /\ m.code # NoCode
         /\ \A q \in Email : CodeMails(q) \subseteq CodeMails(q)'
         /\ \A q \in Email : \A m \in CodeMails(q) : ticket'[q] = ticket[q]
<1>1. /\ mail \in Mail /\ mail.type \in CodeTypes /\ mail.to = p /\ mail.code = Code(p)
      /\ mail.at = NoTime
  <2>1. Code(p) \in Nat
    BY CodeFacts
  <2> QED
    BY <2>1 DEF TicketMail, PromotedMail, CodeTypes, Mail, EmailType
<1>2. Code(p) \in Nat \ {0} /\ ticket'[p] = Code(p)
      /\ \A q \in Email \ {p} : ticket'[q] = ticket[q]
  BY CodeFacts DEF TypeOK
<1>3. emailLog \subseteq emailLog' /\ emailLog' \subseteq emailLog \cup {mail}
  BY RecordedFacts
<1>4. \A m \in emailLog : m.type \in CodeTypes => ticket'[m.to] = ticket[m.to]
  <2> SUFFICES ASSUME NEW m \in emailLog, m.type \in CodeTypes
               PROVE  ticket'[m.to] = ticket[m.to]
    OBVIOUS
  <2>1. m.to \in Email /\ ticket[m.to] # NoCode
    BY DEF LogOK, TypeOK, Mail
  <2> QED
    BY <1>2, <2>1, CodeFacts
<1>5. LogOK'
  <2> SUFFICES ASSUME NEW m \in emailLog'
               PROVE  /\ m.type \in CodeTypes => m.code = ticket'[m.to] /\ m.code # NoCode
                      /\ m.type = "EVENT_CANCELLED" => m = CancelledMail(m.to)
    BY DEF LogOK
  <2>1. CASE m \in emailLog
    BY <1>4, <2>1 DEF LogOK
  <2>2. CASE m = mail
    BY <1>1, <1>2, <2>2 DEF CodeTypes
  <2> QED
    BY <1>3, <2>1, <2>2
<1>6. PICK n \in emailLog' : Key(n) = Key(mail)
  BY RecordedFacts
<1>7. n \in CodeMails(p)' /\ n.code = ticket'[p] /\ n.code # NoCode
  BY <1>1, <1>5, <1>6 DEF Key, LogOK, CodeMails, CodeTypes
<1> QED
  BY <1>3, <1>4, <1>5, <1>7 DEF CodeMails, CodeTypes

\* Notices carry no code: recording them leaves tickets and codes alone.
LEMMA Noticing ==
  ASSUME TypeOK, LogOK, NEW mails,
         \A m \in mails : \E p \in Email, t \in StartTime :
            m = RescheduledMail(p, t) \/ m = CancelledMail(p),
         ticket' = ticket,
         emailLog' = Recorded(emailLog, mails)
  PROVE  /\ LogOK'
         /\ \A q \in Email : CodeMails(q)' = CodeMails(q)
<1>1. emailLog \subseteq emailLog' /\ emailLog' \subseteq emailLog \cup mails
  BY RecordedFacts
<1>2. \A m \in mails : m.type \notin CodeTypes
                       /\ (m.type = "EVENT_CANCELLED" => m = CancelledMail(m.to))
  BY DEF RescheduledMail, CancelledMail, CodeTypes
<1> QED
  BY <1>1, <1>2 DEF LogOK, CodeMails, CodeTypes

LEMMA MailNext == TypeOK /\ TypeOK' /\ MailInv /\ [Next]_vars => MailInv'
<1> SUFFICES ASSUME TypeOK, TypeOK', MailInv, [Next]_vars PROVE MailInv'
  OBVIOUS
<1> USE DEF MailInv
\* Steps that seat nobody and record no code.
<1>a. ASSUME LogOK', Registered' \subseteq Registered, ticket' = ticket,
             \A q \in Email : CodeMails(q)' = CodeMails(q),
             \A q \in Email : checkedIn'[q] => checkedIn[q] \/ q \in Registered
      PROVE  MailInv'
  BY <1>a DEF EverySeatHasItsCode, CheckedInHeldASeat, Registered
\* Steps that seat p.
<1>b. ASSUME NEW p \in Email,
             NEW mail \in {TicketMail(p, Code(p)), PromotedMail(p, Code(p))},
             ticket' = [ticket EXCEPT ![p] = Code(p)],
             emailLog' = Recorded(emailLog, {mail}),
             Registered' \subseteq Registered \cup {p}, checkedIn' = checkedIn
      PROVE  MailInv'
  <2>1. /\ LogOK'
        /\ \E m \in CodeMails(p)' : m.code = ticket'[p] /\ m.code # NoCode
        /\ \A q \in Email : CodeMails(q) \subseteq CodeMails(q)'
        /\ \A q \in Email : \A m \in CodeMails(q) : ticket'[q] = ticket[q]
    BY <1>b, Seating
  <2>2. EverySeatHasItsCode'
    <3> SUFFICES ASSUME NEW q \in Registered'
                 PROVE  \E m \in CodeMails(q)' : m.code = ticket'[q] /\ m.code # NoCode
      BY DEF EverySeatHasItsCode
    <3>1. q \in Email
      BY DEF Registered
    <3>2. CASE q = p
      BY <2>1, <3>2
    <3>3. CASE q \in Registered
      BY <2>1, <3>1, <3>3 DEF EverySeatHasItsCode
    <3> QED
      BY <1>b, <3>2, <3>3
  <2>3. CheckedInHeldASeat'
    BY <1>b, <2>1 DEF CheckedInHeldASeat
  <2> QED
    BY <2>1, <2>2, <2>3
<1>1. ASSUME NEW p \in Email, RegisterSeated(p) PROVE MailInv'
  <2>1. Registered' \subseteq Registered \cup {p}
    BY <1>1 DEF RegisterSeated, Registered, TypeOK
  <2> QED
    BY <1>1, <1>b, <2>1 DEF RegisterSeated
<1>2. ASSUME NEW p \in Email, RegisterWaitlisted(p) PROVE MailInv'
  <2>1. Registered' \subseteq Registered
    BY <1>2 DEF RegisterWaitlisted, Registered, TypeOK
  <2> QED
    BY <1>2, <1>a, <2>1 DEF RegisterWaitlisted, LogOK, CodeMails
<1>3. ASSUME NEW p \in Email, CancelWaiting(p) \/ CancelLastSeat(p) PROVE MailInv'
  <2>1. Registered' \subseteq Registered
    BY <1>3 DEF CancelWaiting, CancelLastSeat, Registered, TypeOK
  <2> QED
    BY <1>3, <1>a, <2>1 DEF CancelWaiting, CancelLastSeat, LogOK, CodeMails
<1>4. ASSUME NEW p \in Email, NEW h \in Email, CancelAndPromote(p, h) PROVE MailInv'
  <2>1. Registered' \subseteq Registered \cup {h}
    BY <1>4 DEF CancelAndPromote, Registered, TypeOK
  <2> QED
    BY <1>4, <1>b, <2>1 DEF CancelAndPromote
<1>5. ASSUME NEW p \in Email, CheckIn(p) PROVE MailInv'
  <2>1. \A q \in Email : checkedIn'[q] => checkedIn[q] \/ q \in Registered
    BY <1>5 DEF CheckIn, TypeOK
  <2> QED
    BY <1>5, <1>a, <2>1 DEF CheckIn, LogOK, CodeMails, Registered
<1>6. ASSUME NEW body \in Patch, NEW seen \in pastStarts, Update(body.capacity, body.startsAt, seen)
      PROVE MailInv'
  <2>1. \A m \in UpdateMails(body.startsAt, seen) : \E p \in Email, t \in StartTime :
           m = RescheduledMail(p, t) \/ m = CancelledMail(p)
    BY DEF UpdateMails, Patch, Registered
  <2>2. LogOK' /\ \A q \in Email : CodeMails(q)' = CodeMails(q)
    BY <1>6, <2>1, Noticing DEF Update, rowVars
  <2> QED
    BY <1>6, <1>a, <2>2 DEF Update, rowVars, Registered
<1>7. ASSUME CancelEvent PROVE MailInv'
  <2> DEFINE mails == {CancelledMail(p) : p \in Audience}
  <2>1. \A m \in mails : \E p \in Email, t \in StartTime :
           m = RescheduledMail(p, t) \/ m = CancelledMail(p)
    BY DEF Audience, Active, Registered, Waiting, TypeOK
  <2>2. LogOK' /\ \A q \in Email : CodeMails(q)' = CodeMails(q)
    BY <1>7, <2>1, Noticing DEF CancelEvent, rowVars
  <2> QED
    BY <1>7, <1>a, <2>2 DEF CancelEvent, rowVars, Registered
<1>8. CASE UNCHANGED vars
  BY <1>8, <1>a DEF vars, rowVars, LogOK, CodeMails, Registered
<1> QED
  BY <1>1, <1>2, <1>3, <1>4, <1>5, <1>6, <1>7, <1>8 DEF Next, Participate, Organize

\* The typed outbox invariant holds in every reachable state.
LEMMA MailKept == Spec => [](TypeOK /\ MailInv)
<1>1. Init => TypeOK /\ MailInv
  BY TypeInit, MailInit
<1>2. TypeOK /\ MailInv /\ [Next]_vars => (TypeOK /\ MailInv)'
  BY TypeNext, MailNext
<1> QED
  BY <1>1, <1>2, PTL DEF Spec

\* A code that was e-mailed is the code on the ticket from then on.
THEOREM MailedCodesStayCurrent == Spec => []MailedCodeIsCurrent
<1>1. TypeOK /\ MailInv => MailedCodeIsCurrent
  BY DEF MailInv, LogOK, MailedCodeIsCurrent, CodeMails, CodeTypes
<1> QED
  BY <1>1, MailKept, PTL

\* Nobody sits without having been e-mailed the code of the seat, second
\* seatings and deduplicated mails included.
THEOREM SeatsAreCovered == Spec => []EverySeatHasItsCode
<1>1. TypeOK /\ MailInv => EverySeatHasItsCode
  BY DEF MailInv
<1> QED
  BY <1>1, MailKept, PTL

\* Nobody is checked in who was never e-mailed the code they hold.
THEOREM CheckInsAreCovered == Spec => []CheckedInHeldASeat
<1>1. TypeOK /\ MailInv => CheckedInHeldASeat
  BY DEF MailInv
<1> QED
  BY <1>1, MailKept, PTL

---------------------------------------------------------------------------
(* Cancelled events.                                                       *)

LEMMA AnnouncedNext ==
  TypeOK /\ MailInv /\ MailInv' /\ CancelledEventAnnounced /\ [Next]_vars
    => CancelledEventAnnounced'
<1> SUFFICES ASSUME TypeOK, MailInv, MailInv', CancelledEventAnnounced, [Next]_vars
             PROVE  CancelledEventAnnounced'
  OBVIOUS
<1> USE DEF CancelledEventAnnounced
\* Nobody becomes active once the event is cancelled, and no mail is lost.
<1>a. ASSUME Active' \subseteq Active \/ eventStatus # "CANCELLED",
             emailLog \subseteq emailLog', eventStatus' = eventStatus
      PROVE  CancelledEventAnnounced'
  BY <1>a
<1>1. ASSUME NEW p \in Email, RegisterSeated(p) \/ RegisterWaitlisted(p)
      PROVE  CancelledEventAnnounced'
  BY <1>1, <1>a, RecordedFacts DEF RegisterSeated, RegisterWaitlisted, MayRegister, eventVars
<1>2. ASSUME NEW p \in Email, CancelWaiting(p) \/ CancelLastSeat(p)
      PROVE  CancelledEventAnnounced'
  <2>1. Active' \subseteq Active
    BY <1>2 DEF CancelWaiting, CancelLastSeat, Active, Registered, Waiting, TypeOK
  <2> QED
    BY <1>2, <1>a, <2>1 DEF CancelWaiting, CancelLastSeat, eventVars
<1>3. ASSUME NEW p \in Email, NEW h \in Email, CancelAndPromote(p, h)
      PROVE  CancelledEventAnnounced'
  <2>1. Active' \subseteq Active
    BY <1>3 DEF CancelAndPromote, IsHead, Active, Registered, Waiting, TypeOK
  <2> QED
    BY <1>3, <1>a, <2>1, RecordedFacts DEF CancelAndPromote, eventVars
<1>4. ASSUME NEW p \in Email, CheckIn(p) PROVE CancelledEventAnnounced'
  BY <1>4, <1>a DEF CheckIn, eventVars, Active, Registered, Waiting
<1>5. ASSUME NEW body \in Patch, NEW seen \in pastStarts, Update(body.capacity, body.startsAt, seen)
      PROVE  CancelledEventAnnounced'
  BY <1>5, <1>a, RecordedFacts DEF Update, rowVars, Active, Registered, Waiting
<1>6. ASSUME CancelEvent PROVE CancelledEventAnnounced'
  <2> SUFFICES ASSUME NEW p \in Active' PROVE CancelledMail(p) \in emailLog'
    OBVIOUS
  <2>1. p \in Audience
    BY <1>6 DEF CancelEvent, rowVars, Audience, Active, Registered, Waiting
  <2>2. PICK n \in emailLog' : Key(n) = Key(CancelledMail(p))
    <3>1. CancelledMail(p) \in {CancelledMail(q) : q \in Audience}
      BY <2>1
    <3>2. emailLog' = Recorded(emailLog, {CancelledMail(q) : q \in Audience})
      BY <1>6 DEF CancelEvent
    <3> QED
      BY <3>1, <3>2, RecordedFacts
  <2>3. n.type = "EVENT_CANCELLED" /\ n.to = p
    BY <2>2 DEF Key, CancelledMail
  <2>4. n = CancelledMail(p)
    BY <2>2, <2>3 DEF MailInv, LogOK
  <2> QED
    BY <2>2, <2>4
<1>7. CASE UNCHANGED vars
  BY <1>7, <1>a DEF vars, eventVars, rowVars, Active, Registered, Waiting
<1> QED
  BY <1>1, <1>2, <1>3, <1>4, <1>5, <1>6, <1>7 DEF Next, Participate, Organize

\* Whoever holds a seat or a place in the queue of a cancelled event has been
\* told of the cancellation.
THEOREM CancellationReachesEveryone == Spec => []CancelledEventAnnounced
<1>1. Init => CancelledEventAnnounced
  BY DEF Init, CancelledEventAnnounced
<1> QED
  BY <1>1, MailKept, AnnouncedNext, PTL DEF Spec

---------------------------------------------------------------------------
(* Capacity.                                                               *)

LEMMA RegisteredFinite == TypeOK => IsFiniteSet(Registered) /\ Cardinality(Registered) \in Nat
BY EmailFinite, FS_Subset, FS_CardinalityType DEF Registered

\* How each step changes the set of the seated.
LEMMA SeatedSteps ==
  ASSUME TypeOK, [Next]_vars
  PROVE  \/ Registered' \subseteq Registered
         \/ /\ \E p \in Email \ Registered : Registered' = Registered \cup {p}
            /\ Cardinality(Registered) < capacity /\ capacity' = capacity
         \/ \E p \in Registered, h \in Email \ Registered :
              Registered' = (Registered \ {p}) \cup {h}
<1> USE DEF TypeOK, Registered
<1>1. ASSUME NEW p \in Email, RegisterSeated(p)
      PROVE  /\ p \notin Registered /\ Registered' = Registered \cup {p}
             /\ Cardinality(Registered) < capacity /\ capacity' = capacity
  BY <1>1 DEF RegisterSeated, MayRegister, HasCapacity, Active, eventVars
<1>2. ASSUME NEW p \in Email,
             RegisterWaitlisted(p) \/ CancelWaiting(p) \/ CancelLastSeat(p) \/ CheckIn(p)
      PROVE  Registered' \subseteq Registered
  BY <1>2 DEF RegisterWaitlisted, CancelWaiting, CancelLastSeat, CheckIn
<1>3. ASSUME NEW p \in Email, NEW h \in Email, CancelAndPromote(p, h)
      PROVE  /\ p \in Registered /\ h \notin Registered
             /\ Registered' = (Registered \ {p}) \cup {h}
  BY <1>3 DEF CancelAndPromote, IsHead, Waiting
<1>4. ASSUME NEW body \in Patch, NEW seen \in pastStarts, Update(body.capacity, body.startsAt, seen)
      PROVE  Registered' \subseteq Registered
  BY <1>4 DEF Update, rowVars
<1>5. ASSUME CancelEvent \/ UNCHANGED vars PROVE Registered' \subseteq Registered
  BY <1>5 DEF CancelEvent, vars, rowVars
<1> QED
  BY <1>1, <1>2, <1>3, <1>4, <1>5 DEF Next, Participate, Organize

LEMMA SeatedCounts ==
  ASSUME TypeOK, TypeOK', [Next]_vars
  PROVE  \/ Cardinality(Registered') <= Cardinality(Registered)
         \/ Cardinality(Registered') <= capacity /\ capacity' = capacity
<1>1. IsFiniteSet(Registered) /\ Cardinality(Registered) \in Nat
  BY RegisteredFinite
<1>2. CASE Registered' \subseteq Registered
  BY <1>1, <1>2, FS_Subset
<1>3. CASE \E p \in Email \ Registered : Registered' = Registered \cup {p}
                                         /\ Cardinality(Registered) < capacity /\ capacity' = capacity
  <2>1. Cardinality(Registered') = Cardinality(Registered) + 1
    BY <1>1, <1>3, FS_AddElement
  <2> QED
    BY <1>1, <1>3, <2>1, CapacityOK DEF TypeOK
<1>4. CASE \E p \in Registered, h \in Email \ Registered :
              Registered' = (Registered \ {p}) \cup {h}
  <2>1. PICK p \in Registered, h \in Email \ Registered :
              Registered' = (Registered \ {p}) \cup {h}
    BY <1>4
  <2>2. IsFiniteSet(Registered \ {p}) /\ Cardinality(Registered \ {p}) = Cardinality(Registered) - 1
    BY <1>1, FS_RemoveElement
  <2>3. Cardinality(Registered') = Cardinality(Registered)
    <3>1. h \notin Registered \ {p}
      OBVIOUS
    <3>2. Cardinality((Registered \ {p}) \cup {h}) = Cardinality(Registered \ {p}) + 1
      BY <2>2, <3>1, FS_AddElement
    <3> QED
      BY <1>1, <2>1, <2>2, <3>2
  <2> QED
    BY <1>1, <2>3
<1> QED
  BY <1>2, <1>3, <1>4, SeatedSteps

\* No step of the program, whatever was done to the capacity before, fills
\* more seats than there are.
THEOREM NoAdmissionPastCapacity == Spec => NeverAdmitsPastCapacity
<1>1. TypeOK /\ TypeOK' /\ [Next]_vars
        => [Cardinality(Registered') > Cardinality(Registered)
              => Cardinality(Registered') <= capacity']_vars
  <2> SUFFICES ASSUME TypeOK, TypeOK', [Next]_vars,
                      Cardinality(Registered') > Cardinality(Registered)
               PROVE  Cardinality(Registered') <= capacity'
    OBVIOUS
  <2>1. Cardinality(Registered) \in Nat /\ Cardinality(Registered') \in Nat
    BY RegisteredFinite, EmailFinite, FS_Subset, FS_CardinalityType DEF Registered
  <2> QED
    BY <2>1, SeatedCounts
<1> QED
  BY <1>1, TypeCorrect, PTL DEF Spec, NeverAdmitsPastCapacity

\* With a capacity that is never lowered, an event is never overbooked.
THEOREM NoOverbooking == SpecNoCut => []NeverOverbooked
<1>1. Init => NeverOverbooked
  <2> SUFFICES ASSUME Init PROVE Cardinality(Registered) <= capacity
    BY DEF NeverOverbooked
  <2>1. Registered = {}
    BY DEF Init, Registered
  <2> QED
    BY <2>1, FS_EmptySet, CapacityOK DEF Init
<1>2. TypeOK /\ TypeOK' /\ NeverOverbooked /\ [Next /\ NoCut]_vars => NeverOverbooked'
  <2> SUFFICES ASSUME TypeOK, TypeOK', NeverOverbooked, [Next /\ NoCut]_vars
               PROVE  Cardinality(Registered') <= capacity'
    BY DEF NeverOverbooked
  <2>1. Cardinality(Registered) \in Nat /\ Cardinality(Registered') \in Nat
    BY RegisteredFinite, EmailFinite, FS_Subset, FS_CardinalityType DEF Registered
  <2>2. capacity \in Nat /\ capacity' \in Nat /\ capacity' >= capacity
    BY CapacityOK DEF TypeOK, NoCut, vars, eventVars
  <2>3. [Next]_vars
    OBVIOUS
  <2> QED
    BY <2>1, <2>2, <2>3, SeatedCounts DEF NeverOverbooked
<1>3. TypeOK /\ [Next /\ NoCut]_vars => TypeOK'
  BY TypeNext
<1> QED
  BY <1>1, <1>2, <1>3, TypeInit, PTL DEF SpecNoCut

\* Only a raise of the capacity opens a seat that the waiting are not given.
THEOREM OnlyRaisesIdleSeats == Spec => OnlyARaiseIdlesASeat
<1>1. TypeOK /\ TypeOK' /\ [Next]_vars
        => [/\ Waiting' # {} /\ Cardinality(Registered') < capacity'
            => \/ capacity' > capacity
               \/ Waiting # {} /\ Cardinality(Registered) < capacity]_vars
  <2> SUFFICES ASSUME TypeOK, TypeOK', [Next]_vars,
                      Waiting' # {}, Cardinality(Registered') < capacity'
               PROVE  \/ capacity' > capacity
                      \/ Waiting # {} /\ Cardinality(Registered) < capacity
    OBVIOUS
  <2>0. /\ capacity \in Nat /\ capacity' \in Nat
        /\ IsFiniteSet(Registered) /\ Cardinality(Registered) \in Nat
        /\ Cardinality(Registered') \in Nat
    BY RegisteredFinite, EmailFinite, FS_Subset, FS_CardinalityType, CapacityOK
    DEF TypeOK, Registered
  <2>1. ASSUME NEW p \in Email, RegisterSeated(p)
        PROVE  Waiting # {} /\ Cardinality(Registered) < capacity
    <3>1. Waiting' \subseteq Waiting
      BY <2>1 DEF RegisterSeated, Waiting, TypeOK
    <3> QED
      BY <2>1, <3>1 DEF RegisterSeated, HasCapacity
  <2>2. ASSUME NEW p \in Email, RegisterWaitlisted(p) PROVE FALSE
    <3>1. Registered' = Registered
      BY <2>2 DEF RegisterWaitlisted, MayRegister, Active, Registered, TypeOK
    <3> QED
      BY <2>0, <2>2, <3>1 DEF RegisterWaitlisted, HasCapacity, eventVars
  <2>3. ASSUME NEW p \in Email, CancelWaiting(p)
        PROVE  Waiting # {} /\ Cardinality(Registered) < capacity
    <3>1. Registered' = Registered
      BY <2>3 DEF CancelWaiting, Registered, Waiting, TypeOK
    <3> QED
      BY <2>3, <3>1 DEF CancelWaiting, eventVars
  <2>4. ASSUME NEW p \in Email, CancelLastSeat(p) PROVE FALSE
    BY <2>4 DEF CancelLastSeat, Waiting, TypeOK
  <2>5. ASSUME NEW p \in Email, NEW h \in Email, CancelAndPromote(p, h)
        PROVE  Waiting # {} /\ Cardinality(Registered) < capacity
    <3>1. Registered' = (Registered \ {p}) \cup {h} /\ p \in Registered /\ h \notin Registered \ {p}
      BY <2>5 DEF CancelAndPromote, IsHead, Registered, Waiting, TypeOK
    <3>2. /\ IsFiniteSet(Registered \ {p})
          /\ Cardinality(Registered \ {p}) = Cardinality(Registered) - 1
      BY <2>0, <3>1, FS_RemoveElement
    <3>3. Cardinality((Registered \ {p}) \cup {h}) = Cardinality(Registered \ {p}) + 1
      BY <3>1, <3>2, FS_AddElement
    <3>4. Cardinality(Registered') = Cardinality(Registered)
      BY <2>0, <3>1, <3>2, <3>3
    <3> QED
      BY <2>5, <3>4 DEF CancelAndPromote, IsHead, eventVars
  <2>6. CASE UNCHANGED <<regStatus, capacity>>
    BY <2>6 DEF Registered, Waiting
  <2>7. CASE regStatus' = regStatus /\ capacity' # capacity
    BY <2>0, <2>7 DEF Registered, Waiting
  <2>8. ASSUME NEW body \in Patch, NEW seen \in pastStarts,
               Update(body.capacity, body.startsAt, seen)
        PROVE  regStatus' = regStatus
    BY <2>8 DEF Update, rowVars
  <2>9. ASSUME (\E p \in Email : CheckIn(p)) \/ CancelEvent \/ UNCHANGED vars
        PROVE  UNCHANGED <<regStatus, capacity>>
    BY <2>9 DEF CheckIn, CancelEvent, vars, eventVars, rowVars
  <2> QED
    BY <2>1, <2>2, <2>3, <2>4, <2>5, <2>6, <2>7, <2>8, <2>9 DEF Next, Participate, Organize
<1> QED
  BY <1>1, TypeCorrect, PTL DEF Spec, OnlyARaiseIdlesASeat

---------------------------------------------------------------------------
(* The rows keep the promise of SeatQueue: positions with gaps are a line. *)

Ahead == {pair \in Waiting \X Waiting : waitlistPos[pair[1]] < waitlistPos[pair[2]]}

LEMMA PromiseInit == Init => Promise!Init
BY DEF Init, Promise!Init, Registered, Waiting

\* A step that leaves the status column alone leaves seats and line alone.
LEMMA SameLine ==
  ASSUME regStatus' = regStatus, waitlistPos' = waitlistPos
  PROVE  Registered' = Registered /\ Waiting' = Waiting /\ Ahead' = Ahead
BY DEF Registered, Waiting, Ahead

\* Leaving the queue takes a person's pairs out of the line, and no other.
LEMMA LeaveLine ==
  ASSUME TypeOK, NEW q \in Waiting,
         Waiting' = Waiting \ {q},
         \A w \in Waiting \ {q} : waitlistPos'[w] = waitlistPos[w]
  PROVE  Ahead' = {pair \in Ahead : pair[1] \in Waiting \ {q} /\ pair[2] \in Waiting \ {q}}
BY DEF Ahead

LEMMA PromiseNext == TypeOK /\ QueueOK /\ [Next]_vars => [Promise!Next]_(Promise!vars)
<1> SUFFICES ASSUME TypeOK, QueueOK, [Next]_vars PROVE [Promise!Next]_(Promise!vars)
  OBVIOUS
<1>1. ASSUME NEW p \in Email, RegisterSeated(p) PROVE Promise!Sit(p)
  <2>1. Registered' = Registered \cup {p} /\ Waiting' = Waiting
    BY <1>1 DEF RegisterSeated, MayRegister, Active, Registered, Waiting, TypeOK
  <2>2. Ahead' = Ahead
    <3>1. \A q \in Waiting : waitlistPos'[q] = waitlistPos[q]
      BY <1>1 DEF RegisterSeated, MayRegister, Active, Waiting, TypeOK
    <3> QED
      BY <2>1, <3>1 DEF Ahead
  <2>3. /\ eventStatus = "ACTIVE" /\ p \notin Registered \cup Waiting
        /\ Cardinality(Registered) < capacity
        /\ eventStatus' = eventStatus /\ capacity' = capacity
    BY <1>1 DEF RegisterSeated, MayRegister, HasCapacity, Active, eventVars
  <2> QED
    BY <2>1, <2>2, <2>3 DEF Promise!Sit, Ahead, Promise!Cardinality, Cardinality
<1>2. ASSUME NEW p \in Email, RegisterWaitlisted(p) PROVE Promise!Queue(p)
  <2>1. PICK n \in 1..MaxPos : IsTail(n) /\ waitlistPos' = [waitlistPos EXCEPT ![p] = n]
    BY <1>2 DEF RegisterWaitlisted
  <2>2. \A q \in Waiting : waitlistPos[q] < n
    <3> SUFFICES ASSUME NEW q \in Waiting PROVE waitlistPos[q] < n
      OBVIOUS
    <3>1. PICK last \in Waiting : waitlistPos[q] <= waitlistPos[last] /\ n = waitlistPos[last] + 1
      BY <2>1 DEF IsTail
    <3>2. waitlistPos[q] \in Nat /\ waitlistPos[last] \in Nat
      BY MaxPosOK DEF TypeOK, Waiting
    <3> QED
      BY <3>1, <3>2
  <2>3. p \notin Waiting /\ p \notin Registered
    BY <1>2 DEF RegisterWaitlisted, MayRegister, Active
  <2>4. Registered' = Registered /\ Waiting' = Waiting \cup {p}
    BY <1>2, <2>3 DEF RegisterWaitlisted, Registered, Waiting, TypeOK
  <2>5. /\ waitlistPos'[p] = n
        /\ \A q \in Waiting : q # p /\ waitlistPos'[q] = waitlistPos[q] /\ waitlistPos[q] \in Nat
    BY <2>1, <2>3, MaxPosOK DEF TypeOK, Waiting
  <2>6. Ahead' = Ahead \cup (Waiting \X {p})
    BY <2>2, <2>3, <2>4, <2>5 DEF Ahead
  <2>7. Cardinality(Registered) >= capacity
    <3>1. Cardinality(Registered) \in Nat /\ capacity \in Nat
      BY RegisteredFinite, CapacityOK DEF TypeOK
    <3> QED
      BY <1>2, <3>1 DEF RegisterWaitlisted, HasCapacity
  <2>8. eventStatus = "ACTIVE" /\ eventStatus' = eventStatus /\ capacity' = capacity
    BY <1>2 DEF RegisterWaitlisted, MayRegister, eventVars
  <2> QED
    BY <2>3, <2>4, <2>6, <2>7, <2>8 DEF Promise!Queue, Ahead, Promise!Cardinality, Cardinality
<1>3. ASSUME NEW p \in Email, CancelWaiting(p) PROVE Promise!GiveUp(p)
  <2>1. Registered' = Registered /\ Waiting' = Waiting \ {p}
    BY <1>3 DEF CancelWaiting, Registered, Waiting, TypeOK
  <2>2. \A w \in Waiting \ {p} : waitlistPos'[w] = waitlistPos[w]
    BY <1>3 DEF CancelWaiting, Waiting, TypeOK
  <2>3. p \in Waiting
    BY <1>3 DEF CancelWaiting
  <2> QED
    BY <1>3, <2>1, <2>2, <2>3, LeaveLine
    DEF CancelWaiting, eventVars, Promise!GiveUp, Promise!Among, Ahead
<1>4. ASSUME NEW p \in Email, CancelLastSeat(p) PROVE Promise!Leave(p)
  <2>1. Registered' = Registered \ {p} /\ Waiting = {} /\ Waiting' = {}
    BY <1>4 DEF CancelLastSeat, Registered, Waiting, TypeOK
  <2> QED
    BY <1>4, <2>1 DEF CancelLastSeat, eventVars, Promise!Leave
<1>5. ASSUME NEW p \in Email, NEW h \in Email, CancelAndPromote(p, h) PROVE Promise!HandOver(p, h)
  <2>1. p \in Registered /\ h \in Waiting /\ p \notin Waiting
    BY <1>5 DEF CancelAndPromote, IsHead, Registered, Waiting
  <2>2. Registered' = (Registered \ {p}) \cup {h} /\ Waiting' = Waiting \ {h}
    BY <1>5, <2>1 DEF CancelAndPromote, Registered, Waiting, TypeOK
  <2>3. \A w \in Waiting \ {h} : waitlistPos'[w] = waitlistPos[w]
    BY <1>5, <2>1 DEF CancelAndPromote, Waiting, TypeOK
  <2>4. \A q \in Waiting : <<q, h>> \notin Ahead
    <3>1. \A q \in Waiting : waitlistPos[q] \in Nat
      BY MaxPosOK DEF TypeOK, Waiting
    <3> QED
      BY <1>5, <2>1, <3>1 DEF CancelAndPromote, IsHead, Ahead
  <2>5. Ahead' = {pair \in Ahead : pair[1] \in Waiting \ {h} /\ pair[2] \in Waiting \ {h}}
    BY <2>1, <2>2, <2>3, LeaveLine
  <2> QED
    BY <1>5, <2>1, <2>2, <2>4, <2>5
    DEF CancelAndPromote, eventVars, Promise!HandOver, Promise!Among, Ahead
<1>6. ASSUME NEW p \in Email, CheckIn(p) PROVE UNCHANGED Promise!vars
  BY <1>6, SameLine DEF CheckIn, eventVars, Promise!vars, Ahead
<1>7. ASSUME NEW body \in Patch, NEW seen \in pastStarts, Update(body.capacity, body.startsAt, seen)
      PROVE  \E n \in Capacity : Promise!Resize(n)
  <2>1. capacity' \in Capacity
    BY <1>7 DEF Update, Patched, Patch, TypeOK
  <2> QED
    BY <1>7, <2>1, SameLine DEF Update, rowVars, Promise!Resize, Ahead
<1>8. ASSUME CancelEvent PROVE Promise!Close
  BY <1>8, SameLine DEF CancelEvent, rowVars, Promise!Close, Ahead
<1>9. CASE UNCHANGED vars
  BY <1>9, SameLine DEF vars, eventVars, rowVars, Promise!vars, Ahead
<1> QED
  BY <1>1, <1>2, <1>3, <1>4, <1>5, <1>6, <1>7, <1>8, <1>9 DEF Next, Participate, Organize, Promise!Next

\* The rows of an event implement the line in front of its seats.
THEOREM PromiseKept == Spec => KeepsPromise
<1>1. TypeOK /\ QueueOK /\ [Next]_vars => [Promise!Next]_(Promise!vars)
  BY PromiseNext
<1> QED
  BY <1>1, PromiseInit, TypeCorrect, QueueKept, PTL DEF Spec, KeepsPromise, Promise!Spec
===========================================================================
