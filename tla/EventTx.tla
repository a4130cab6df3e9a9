------------------------------ MODULE EventTx ------------------------------
(***************************************************************************)
(* The statements inside the transactions of Booking.  Requests run        *)
(* concurrently on one event: each statement reads the rows committed when *)
(* it starts plus its transaction's own writes (READ COMMITTED), writes    *)
(* stay with the transaction until it commits, and an aborted transaction  *)
(* leaves nothing.  SELECT ... FOR UPDATE in register and cancel, and the  *)
(* UPDATE of the event row in update and cancelEvent, take the lock on the *)
(* event row and keep it to the end of the transaction.                    *)
(*                                                                         *)
(* AlwaysGranted, ReleasedNever, RegisterWithoutLock, RegisterAnyTime,      *)
(* CancelWithoutLock and UpdateWithoutRead are mistakes one could make in   *)
(* the definition that follows each; Next uses none.                       *)
(***************************************************************************)
EXTENDS Schema

CONSTANTS Req,      \* slots for requests in progress
          NoReq,    \* holder of a free lock
          NoOne,    \* the address in a request that has none
          Body      \* the PATCH bodies organizers send

ASSUME NoReqOK == NoReq \notin Req
ASSUME NoOneOK == NoOne \notin Email
ASSUME BodyOK  == Body \subseteq Patch

VARIABLES eventStatus, capacity, startsAt, pastStarts,      \* as in Booking: committed
          regStatus, waitlistPos, checkedIn, ticket, emailLog,
          eventLock,     \* which transaction holds the event row
          pc,            \* the next statement of each request
          job,           \* what each request asks for
          saw,           \* what its earlier statements returned
          eventWrite,    \* its uncommitted columns of the event row
          rowWrite,      \* its uncommitted registration and ticket rows
          mailWrite      \* its uncommitted e-mail rows

eventVars == <<eventStatus, capacity, startsAt, pastStarts>>
rowVars   == <<regStatus, waitlistPos, checkedIn, ticket>>
committed == <<eventVars, rowVars, emailLog>>
writes    == <<eventWrite, rowWrite, mailWrite>>
vars      == <<committed, eventLock, pc, job, saw, writes>>

EmptyBody == [capacity |-> NoCapacity, startsAt |-> NoTime]

Job ==
  [op : {"none", "cancelEvent"}, who : {NoOne}, body : {EmptyBody}]
    \cup [op : {"register", "cancel"}, who : Email, body : {EmptyBody}]
    \cup [op : {"update"}, who : {NoOne}, body : Body]

NoJob == [op |-> "none", who |-> NoOne, body |-> EmptyBody]

\* A registration row with its ticket; NotWritten stands for a row a
\* transaction has not touched.
RowType    == [status : RegistrationStatus, pos : 0..MaxPos, code : Nat]
NotWritten == [status |-> "UNTOUCHED", pos |-> NoPos, code |-> NoCode]
NoRow      == [status |-> "NONE", pos |-> NoPos, code |-> NoCode]

\* The event columns a transaction has set, each possibly left alone; the
\* status stands for cancelledAt too, which is only ever written with it.
EventWriteType  == [status : {"NONE", "CANCELLED"}, capacity : Capacity \cup {NoCapacity},
                    startsAt : StartTime \cup {NoTime}]
EventNotWritten == [status |-> "NONE", capacity |-> NoCapacity, startsAt |-> NoTime]

SawType == [capacity : Capacity \cup {NoCapacity}, count : Nat, row : RowType,
            start : StartTime \cup {NoTime}]
Nothing == [capacity |-> NoCapacity, count |-> 0, row |-> NoRow, start |-> NoTime]

Holding == {"lookup", "count", "place", "free", "promote", "notify", "commit"}
PC      == {"idle", "lock", "read", "write"} \cup Holding

TypeOK ==
  /\ eventStatus \in EventStatus
  /\ capacity \in Capacity
  /\ startsAt \in StartTime
  /\ pastStarts \subseteq StartTime
  /\ regStatus \in [Email -> RegistrationStatus]
  /\ waitlistPos \in [Email -> 0..MaxPos]
  /\ checkedIn \in [Email -> BOOLEAN]
  /\ ticket \in [Email -> Nat]
  /\ emailLog \subseteq Mail
  /\ eventLock \in Req \cup {NoReq}
  /\ pc \in [Req -> PC]
  /\ job \in [Req -> Job]
  /\ saw \in [Req -> SawType]
  /\ eventWrite \in [Req -> EventWriteType]
  /\ rowWrite \in [Req -> [Email -> RowType \cup {NotWritten}]]
  /\ mailWrite \in [Req -> SUBSET Mail]

Init ==
  /\ eventStatus = "ACTIVE"
  /\ capacity \in Capacity
  /\ startsAt \in StartTime
  /\ pastStarts = {startsAt}
  /\ regStatus = [p \in Email |-> "NONE"]
  /\ waitlistPos = [p \in Email |-> NoPos]
  /\ checkedIn = [p \in Email |-> FALSE]
  /\ ticket = [p \in Email |-> NoCode]
  /\ emailLog = {}
  /\ eventLock = NoReq
  /\ pc = [r \in Req |-> "idle"]
  /\ job = [r \in Req |-> NoJob]
  /\ saw = [r \in Req |-> Nothing]
  /\ eventWrite = [r \in Req |-> EventNotWritten]
  /\ rowWrite = [r \in Req |-> [p \in Email |-> NotWritten]]
  /\ mailWrite = [r \in Req |-> {}]

---------------------------------------------------------------------------
(* What a statement of request r sees and does.                            *)

CommittedRow(p) == [status |-> regStatus[p], pos |-> waitlistPos[p], code |-> ticket[p]]
Row(r, p)       == IF rowWrite[r][p] = NotWritten THEN CommittedRow(p) ELSE rowWrite[r][p]

Seated(r)  == {p \in Email : Row(r, p).status = "REGISTERED"}
Waiting(r) == {p \in Email : Row(r, p).status = "WAITLISTED"}

IsTail(r, n) ==
  \/ Waiting(r) = {} /\ n = 1
  \/ \E last \in Waiting(r) : /\ \A q \in Waiting(r) : Row(r, q).pos <= Row(r, last).pos
                              /\ n = Row(r, last).pos + 1

IsHead(r, h) == h \in Waiting(r) /\ \A q \in Waiting(r) : Row(r, h).pos <= Row(r, q).pos

MintedIfNone(code) == IF code = NoCode THEN 1 ELSE code

At(r, statement) == pc[r] = statement
Goto(r, statement) == pc' = [pc EXCEPT ![r] = statement]
See(r, what) == saw' = [saw EXCEPT ![r] = what]

NoRowLock(r, p) == \A s \in Req \ {r} : rowWrite[s][p] = NotWritten

WriteRow(r, p, row) ==
  /\ NoRowLock(r, p)
  /\ rowWrite' = [rowWrite EXCEPT ![r][p] = row]

RecordMails(r, mails) ==
  mailWrite' = [mailWrite EXCEPT ![r] = @ \cup (Recorded(emailLog, mails) \ emailLog)]

AlwaysGranted(r) == TRUE
LockIsFree(r)    == eventLock = NoReq

TakeEventLock(r) == LockIsFree(r) /\ eventLock' = r

\* The end of a request: its transaction is over and the lock is free again.
ReleasedNever(r) == eventLock
Released(r)      == IF eventLock = r THEN NoReq ELSE eventLock

Forget(r) ==
  /\ Goto(r, "idle")
  /\ job' = [job EXCEPT ![r] = NoJob]
  /\ See(r, Nothing)
  /\ eventWrite' = [eventWrite EXCEPT ![r] = EventNotWritten]
  /\ rowWrite' = [rowWrite EXCEPT ![r] = [p \in Email |-> NotWritten]]
  /\ mailWrite' = [mailWrite EXCEPT ![r] = {}]

Return(r) == Forget(r) /\ eventLock' = Released(r) /\ UNCHANGED committed

---------------------------------------------------------------------------
FirstStatement(op) == IF op \in {"register", "cancel"} THEN "lock" ELSE "read"

Begin(r, j) ==
  /\ At(r, "idle")
  /\ job' = [job EXCEPT ![r] = j]
  /\ Goto(r, FirstStatement(j.op))
  /\ UNCHANGED <<committed, eventLock, saw, writes>>

(* register()                                                              *)

RegisterWithoutLock(r) ==
  /\ job[r].op = "register" /\ At(r, "lock")
  /\ eventStatus = "ACTIVE"
  /\ See(r, [saw[r] EXCEPT !.capacity = capacity])
  /\ Goto(r, "lookup")
  /\ UNCHANGED <<committed, eventLock, job, writes>>

RegisterAnyTime(r) ==
  /\ job[r].op = "register" /\ At(r, "lock")
  /\ TakeEventLock(r)
  /\ See(r, [saw[r] EXCEPT !.capacity = capacity])
  /\ Goto(r, "lookup")
  /\ UNCHANGED <<committed, job, writes>>

RegisterLock(r) ==
  /\ job[r].op = "register" /\ At(r, "lock")
  /\ LockIsFree(r)
  /\ IF eventStatus = "CANCELLED"
     THEN Return(r)
     ELSE /\ eventLock' = r
          /\ See(r, [saw[r] EXCEPT !.capacity = capacity])
          /\ Goto(r, "lookup")
          /\ UNCHANGED <<committed, job, writes>>

RegisterLookup(r) ==
  /\ job[r].op = "register" /\ At(r, "lookup")
  /\ LET existing == Row(r, job[r].who) IN
     IF existing.status \in {"REGISTERED", "WAITLISTED"}
     THEN Return(r)
     ELSE /\ See(r, [saw[r] EXCEPT !.row = existing])
          /\ Goto(r, "count")
          /\ UNCHANGED <<committed, eventLock, job, writes>>

RegisterCount(r) ==
  /\ At(r, "count")
  /\ See(r, [saw[r] EXCEPT !.count = Cardinality(Seated(r))])
  /\ Goto(r, "place")
  /\ UNCHANGED <<committed, eventLock, job, writes>>

RegisterSeat(r) ==
  /\ At(r, "place")
  /\ saw[r].count < saw[r].capacity
  /\ LET code == MintedIfNone(saw[r].row.code) IN
     /\ WriteRow(r, job[r].who, [status |-> "REGISTERED", pos |-> NoPos, code |-> code])
     /\ RecordMails(r, {TicketMail(job[r].who, code)})
  /\ Goto(r, "commit")
  /\ UNCHANGED <<committed, eventLock, job, saw, eventWrite>>

RegisterQueue(r) ==
  /\ At(r, "place")
  /\ saw[r].count >= saw[r].capacity
  /\ \E n \in 1..MaxPos :
       /\ IsTail(r, n)
       /\ WriteRow(r, job[r].who, [status |-> "WAITLISTED", pos |-> n, code |-> saw[r].row.code])
  /\ Goto(r, "commit")
  /\ UNCHANGED <<committed, eventLock, job, saw, eventWrite, mailWrite>>

\* The next position does not fit the column: the statement fails, the
\* transaction rolls back.
RegisterQueueFails(r) ==
  /\ At(r, "place")
  /\ saw[r].count >= saw[r].capacity
  /\ IsTail(r, MaxPos + 1)
  /\ Return(r)

(* cancel()                                                                *)

CancelWithoutLock(r) ==
  /\ job[r].op = "cancel" /\ At(r, "lock")
  /\ Goto(r, "lookup")
  /\ UNCHANGED <<committed, eventLock, job, saw, writes>>

CancelLock(r) ==
  /\ job[r].op = "cancel" /\ At(r, "lock")
  /\ TakeEventLock(r)
  /\ Goto(r, "lookup")
  /\ UNCHANGED <<committed, job, saw, writes>>

CancelLookup(r) ==
  /\ job[r].op = "cancel" /\ At(r, "lookup")
  /\ LET reg == Row(r, job[r].who) IN
     IF reg.status \in {"NONE", "CANCELLED"}
     THEN Return(r)
     ELSE /\ See(r, [saw[r] EXCEPT !.row = reg])
          /\ Goto(r, "free")
          /\ UNCHANGED <<committed, eventLock, job, writes>>

CancelFree(r) ==
  /\ At(r, "free")
  /\ WriteRow(r, job[r].who, [saw[r].row EXCEPT !.status = "CANCELLED", !.pos = NoPos])
  /\ Goto(r, IF saw[r].row.status = "REGISTERED" THEN "promote" ELSE "commit")
  /\ UNCHANGED <<committed, eventLock, job, saw, eventWrite, mailWrite>>

PromoteNobody(r) ==
  /\ At(r, "promote")
  /\ Waiting(r) = {}
  /\ Goto(r, "commit")
  /\ UNCHANGED <<committed, eventLock, job, saw, writes>>

PromoteHead(r) ==
  /\ At(r, "promote")
  /\ \E h \in Email :
       LET promoted == [status |-> "REGISTERED", pos |-> NoPos,
                        code |-> MintedIfNone(Row(r, h).code)] IN
       /\ IsHead(r, h)
       /\ WriteRow(r, h, promoted)
       /\ RecordMails(r, {PromotedMail(h, promoted.code)})
  /\ Goto(r, "commit")
  /\ UNCHANGED <<committed, eventLock, job, saw, eventWrite>>

(* update()                                                                *)

UpdateWithoutRead(r) ==
  /\ job[r].op = "update" /\ At(r, "read")
  /\ Goto(r, "write")
  /\ UNCHANGED <<committed, eventLock, job, saw, writes>>

UpdateRead(r) ==
  /\ job[r].op = "update" /\ At(r, "read")
  /\ See(r, [saw[r] EXCEPT !.start = startsAt])
  /\ Goto(r, "write")
  /\ UNCHANGED <<committed, eventLock, job, writes>>

UpdateWrite(r) ==
  /\ job[r].op = "update" /\ At(r, "write")
  /\ TakeEventLock(r)
  /\ eventWrite' = [eventWrite EXCEPT ![r].capacity = job[r].body.capacity,
                                      ![r].startsAt = job[r].body.startsAt]
  /\ Goto(r, IF job[r].body.startsAt \in {NoTime, saw[r].start} THEN "commit" ELSE "notify")
  /\ UNCHANGED <<committed, job, saw, rowWrite, mailWrite>>

UpdateNotify(r) ==
  /\ job[r].op = "update" /\ At(r, "notify")
  /\ RecordMails(r, {RescheduledMail(p, job[r].body.startsAt) : p \in Seated(r)})
  /\ Goto(r, "commit")
  /\ UNCHANGED <<committed, eventLock, job, saw, eventWrite, rowWrite>>

(* cancelEvent()                                                           *)

CancelEventRead(r) ==
  /\ job[r].op = "cancelEvent" /\ At(r, "read")
  /\ IF eventStatus = "CANCELLED"
     THEN Return(r)
     ELSE Goto(r, "write") /\ UNCHANGED <<committed, eventLock, job, saw, writes>>

CancelEventWrite(r) ==
  /\ job[r].op = "cancelEvent" /\ At(r, "write")
  /\ TakeEventLock(r)
  /\ eventWrite' = [eventWrite EXCEPT ![r].status = "CANCELLED"]
  /\ Goto(r, "notify")
  /\ UNCHANGED <<committed, job, saw, rowWrite, mailWrite>>

CancelEventNotify(r) ==
  /\ job[r].op = "cancelEvent" /\ At(r, "notify")
  /\ RecordMails(r, {CancelledMail(p) : p \in Seated(r) \cup Waiting(r)})
  /\ Goto(r, "commit")
  /\ UNCHANGED <<committed, eventLock, job, saw, eventWrite, rowWrite>>

---------------------------------------------------------------------------
CommitRows(r) ==
  /\ regStatus' = [p \in Email |-> Row(r, p).status]
  /\ waitlistPos' = [p \in Email |-> Row(r, p).pos]
  /\ ticket' = [p \in Email |-> Row(r, p).code]
  /\ checkedIn' = checkedIn

Commit(r) ==
  /\ At(r, "commit")
  /\ eventStatus' = Patched(eventStatus, eventWrite[r].status, "NONE")
  /\ capacity' = Patched(capacity, eventWrite[r].capacity, NoCapacity)
  /\ startsAt' = Patched(startsAt, eventWrite[r].startsAt, NoTime)
  /\ pastStarts' = pastStarts \cup {startsAt'}
  /\ CommitRows(r)
  /\ emailLog' = emailLog \cup mailWrite[r]
  /\ eventLock' = Released(r)
  /\ Forget(r)

\* The transaction times out, is chosen as a deadlock victim or loses its
\* connection, also while it waits for the lock; or the process dies.
Abort(r) ==
  /\ ~At(r, "idle")
  /\ Return(r)

\* The conditional UPDATE of checkIn(): no event lock, but it waits for a
\* transaction that has written the row.
CheckIn(p) ==
  /\ \A r \in Req : rowWrite[r][p] = NotWritten
  /\ ticket[p] # NoCode
  /\ regStatus[p] = "REGISTERED"
  /\ ~checkedIn[p]
  /\ checkedIn' = [checkedIn EXCEPT ![p] = TRUE]
  /\ UNCHANGED <<eventVars, regStatus, waitlistPos, ticket, emailLog,
                 eventLock, pc, job, saw, writes>>

TakesLock(r) == RegisterLock(r) \/ CancelLock(r) \/ UpdateWrite(r) \/ CancelEventWrite(r)

Proceed(r) ==
  \/ RegisterLookup(r) \/ RegisterCount(r) \/ RegisterSeat(r) \/ RegisterQueue(r)
  \/ RegisterQueueFails(r)
  \/ CancelLookup(r) \/ CancelFree(r) \/ PromoteNobody(r) \/ PromoteHead(r)
  \/ UpdateRead(r) \/ UpdateNotify(r)
  \/ CancelEventRead(r) \/ CancelEventNotify(r)
  \/ Commit(r)

Next ==
  \/ \E r \in Req : \E j \in Job \ {NoJob} : Begin(r, j)
  \/ \E r \in Req : TakesLock(r) \/ Proceed(r) \/ Abort(r)
  \/ \E p \in Email : CheckIn(p)

Spec == Init /\ [][Next]_vars
\* PostgreSQL queues the waiters of a row lock, and every statement of a
\* transaction returns; that a transaction is aborted is not relied on.
Fairness == \A r \in Req : SF_vars(TakesLock(r)) /\ WF_vars(Proceed(r))

FairSpec == Spec /\ Fairness

---------------------------------------------------------------------------
\* The transactions, taken one statement at a time, change the committed rows
\* as the steps of Booking do: as if each ran alone (docs/ARCHITECTURE.md:254-289).
Atomic == INSTANCE Booking

Serialized == Atomic!Spec

\* Whoever has uncommitted writes, or has decided on what it read under the
\* lock, is the only one (registrations.service.ts:82-84).
OneWriter ==
  \A r \in Req :
    /\ At(r, "commit") \/ eventWrite[r] # EventNotWritten \/ mailWrite[r] # {} => eventLock = r
    /\ \A p \in Email : rowWrite[r][p] # NotWritten => eventLock = r

\* What a registration or a cancellation read under the lock is still so when
\* it writes, whatever other requests did since (99-112, 159-181).
DecidedOnCurrentRows ==
  \A r \in Req :
    /\ At(r, "place") => /\ eventStatus = "ACTIVE"
                         /\ saw[r].capacity = capacity
                         /\ saw[r].count = Cardinality(Atomic!Registered)
    /\ pc[r] \in {"count", "place", "free"} => saw[r].row = CommittedRow(job[r].who)

\* An update that read the start it replaces leaves an e-mail about the new
\* start with everyone who has a seat when it commits, in the same commit or
\* from an earlier move to that start (events.service.ts:135-136, 157-160).
FreshMoveIsAnnounced ==
  [][\A r \in Req :
       At(r, "commit") /\ saw[r].start = startsAt /\ startsAt' # startsAt =>
         \A p \in Atomic!Registered : RescheduledMail(p, startsAt') \in emailLog']_vars

\* A cancellation that read ACTIVE and commits after another one leaves the rows
\* as they are and mails nobody: nobody comes into a cancelled event, and those in
\* it have their e-mail (events.service.ts:67-105, docs/DEVELOPMENT_LOG.md:232 "no
\* re-notify").
SecondCancellationMailsNobody ==
  [][\A r \in Req :
       Commit(r) /\ job[r].op = "cancelEvent" /\ eventStatus = "CANCELLED"
         => UNCHANGED committed]_vars

\* Every request is answered: nobody waits for the event's row forever, and no
\* early return keeps it locked (91-106, 155-177, 68-75).
RequestsEnd == \A r \in Req : ~At(r, "idle") ~> At(r, "idle")

---------------------------------------------------------------------------
(* What a comment says and the code does not do.                           *)

\* "either the date change AND its EVENT_RESCHEDULED emails commit, or neither"
\* (events.service.ts:135-136).
NewStartIsAnnounced ==
  [][startsAt' # startsAt =>
       \A p \in Atomic!Registered : RescheduledMail(p, startsAt') \in emailLog']_vars
===========================================================================
