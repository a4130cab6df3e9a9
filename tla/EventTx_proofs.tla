--------------------------- MODULE EventTx_proofs ---------------------------
(***************************************************************************)
(* Theorems about EventTx for every set of requests, addresses, capacities *)
(* and starts: transactions that write exclude each other, what they       *)
(* decided on is current when they commit, and the committed rows move as  *)
(* Booking's do.                                                           *)
(***************************************************************************)
EXTENDS EventTx, FiniteSetTheorems, TLAPS

USE DEF NoCapacity, NoPos, NoCode, Atomic!NoCapacity, Atomic!NoPos, Atomic!NoCode

---------------------------------------------------------------------------
(* The inductive invariant.                                                *)

\* The event row is locked by whoever is past the statement that takes it.
LockOK == \A r \in Req : eventLock = r <=> pc[r] \in Holding

\* Which statements a request of each kind reaches.
StatementOK(r) ==
  /\ pc[r] \in {"lock", "lookup"} => job[r].op \in {"register", "cancel"}
  /\ pc[r] \in {"count", "place"} => job[r].op = "register"
  /\ pc[r] \in {"free", "promote"} => job[r].op = "cancel"
  /\ pc[r] \in {"read", "write", "notify"} => job[r].op \in {"update", "cancelEvent"}

\* What was read before the write: under the lock it is what is committed; the
\* start update() read before it is one that was committed some time.
ReadOK(r) ==
  /\ job[r].op = "register" /\ pc[r] \in {"lookup", "count", "place"} =>
       eventStatus = "ACTIVE" /\ saw[r].capacity = capacity
  /\ pc[r] \in {"count", "place"} => job[r].who \notin Atomic!Active
  /\ pc[r] = "place" => saw[r].count = Cardinality(Atomic!Registered)
  /\ pc[r] = "free" => job[r].who \in Atomic!Active
  /\ pc[r] \in {"count", "place", "free"} => saw[r].row = CommittedRow(job[r].who)
  /\ job[r].op = "update" /\ pc[r] \in {"write", "notify", "commit"} =>
       saw[r].start \in pastStarts

NoEventWrite(r) == eventWrite[r] = EventNotWritten
NoRowWrite(r)   == \A p \in Email : rowWrite[r][p] = NotWritten
NoMail(r)       == mailWrite[r] = {}
NoWrite(r)      == NoEventWrite(r) /\ NoRowWrite(r) /\ NoMail(r)

OnlyRow(r, p, row) ==
  rowWrite[r][p] = row /\ \A q \in Email \ {p} : rowWrite[r][q] = NotWritten
OnlyMails(r, mails) == mailWrite[r] = Recorded(emailLog, mails) \ emailLog

Cancelled(p) == [status |-> "CANCELLED", pos |-> NoPos, code |-> ticket[p]]
Seat(p)      == [status |-> "REGISTERED", pos |-> NoPos, code |-> Atomic!Code(p)]
Place(p, n)  == [status |-> "WAITLISTED", pos |-> n, code |-> ticket[p]]

UpdatesEvent(r) ==
  eventWrite[r] = [status |-> "NONE", capacity |-> job[r].body.capacity,
                   startsAt |-> job[r].body.startsAt]
CancelsEvent(r) == eventWrite[r] = [EventNotWritten EXCEPT !.status = "CANCELLED"]

\* What a transaction that is about to commit has written, by the action of
\* Booking it amounts to in the rows committed so far.
SeatDecided(r) ==
  LET p == job[r].who IN
  /\ job[r].op = "register"
  /\ Atomic!MayRegister(p) /\ Atomic!HasCapacity
  /\ NoEventWrite(r) /\ OnlyRow(r, p, Seat(p))
  /\ OnlyMails(r, {TicketMail(p, Atomic!Code(p))})
QueueDecided(r) ==
  LET p == job[r].who IN
  /\ job[r].op = "register"
  /\ Atomic!MayRegister(p) /\ ~Atomic!HasCapacity
  /\ NoEventWrite(r) /\ NoMail(r)
  /\ \E n \in 1..MaxPos : Atomic!IsTail(n) /\ OnlyRow(r, p, Place(p, n))
DepartureDecided(r) ==
  LET p == job[r].who IN
  /\ job[r].op = "cancel"
  /\ p \in Atomic!Waiting \/ (p \in Atomic!Registered /\ Atomic!Waiting = {})
  /\ NoEventWrite(r) /\ NoMail(r)
  /\ OnlyRow(r, p, Cancelled(p))
HandoverDecided(r) ==
  LET p == job[r].who IN
  /\ job[r].op = "cancel"
  /\ p \in Atomic!Registered
  /\ NoEventWrite(r)
  /\ \E h \in Email :
       /\ Atomic!IsHead(h)
       /\ rowWrite[r][p] = Cancelled(p) /\ rowWrite[r][h] = Seat(h)
       /\ \A q \in Email \ {p, h} : rowWrite[r][q] = NotWritten
       /\ OnlyMails(r, {PromotedMail(h, Atomic!Code(h))})
UpdateDecided(r) ==
  /\ job[r].op = "update"
  /\ UpdatesEvent(r) /\ NoRowWrite(r)
  /\ OnlyMails(r, Atomic!UpdateMails(job[r].body.startsAt, saw[r].start))
CancelEventDecided(r) ==
  /\ job[r].op = "cancelEvent"
  /\ CancelsEvent(r) /\ NoRowWrite(r)
  /\ OnlyMails(r, {CancelledMail(p) : p \in Atomic!Active})

Decided(r) ==
  \/ SeatDecided(r) \/ QueueDecided(r) \/ DepartureDecided(r) \/ HandoverDecided(r)
  \/ UpdateDecided(r) \/ CancelEventDecided(r)

WrittenOK(r) ==
  /\ pc[r] \in {"idle", "lock", "lookup", "read", "write", "count", "place", "free"} => NoWrite(r)
  /\ pc[r] = "promote" => /\ job[r].who \in Atomic!Registered
                          /\ NoEventWrite(r) /\ NoMail(r)
                          /\ OnlyRow(r, job[r].who, Cancelled(job[r].who))
  /\ pc[r] = "notify" => /\ NoRowWrite(r) /\ NoMail(r)
                         /\ IF job[r].op = "update"
                            THEN UpdatesEvent(r) /\ job[r].body.startsAt \notin {NoTime, saw[r].start}
                            ELSE CancelsEvent(r)
  /\ pc[r] = "commit" => Decided(r)

Progress(r) == StatementOK(r) /\ ReadOK(r) /\ WrittenOK(r)

\* An announcement of a start carries no code.
AnnouncementsOK == \A m \in emailLog : m.type = "EVENT_RESCHEDULED" => m.code = NoCode

\* The start in force was committed.
PastOK == startsAt \in pastStarts

TxInv == TypeOK /\ LockOK /\ PastOK /\ AnnouncementsOK /\ \A r \in Req : Progress(r)

---------------------------------------------------------------------------
(* Types.                                                                  *)

LEMMA RowTyped ==
  ASSUME TypeOK, NEW r \in Req, NEW p \in Email
  PROVE  /\ CommittedRow(p) \in RowType
         /\ Row(r, p) \in RowType
         /\ NotWritten \notin RowType
BY DEF TypeOK, CommittedRow, Row, RowType, NotWritten, RegistrationStatus

\* The row a cancellation writes.
LEMMA FreedRow ==
  ASSUME NEW row \in RowType
  PROVE  /\ [row EXCEPT !.status = "CANCELLED", !.pos = NoPos]
               = [status |-> "CANCELLED", pos |-> NoPos, code |-> row.code]
         /\ [row EXCEPT !.status = "CANCELLED", !.pos = NoPos] \in RowType
<1> DEFINE freed   == [row EXCEPT !.status = "CANCELLED", !.pos = NoPos]
           written == [status |-> "CANCELLED", pos |-> NoPos, code |-> row.code]
<1>1. freed \in RowType /\ written \in RowType
  <2>1. NoPos \in 0..MaxPos /\ "CANCELLED" \in RegistrationStatus
    BY MaxPosOK DEF RegistrationStatus
  <2>. QED
    BY <2>1 DEF RowType
<1>2. freed.status = written.status /\ freed.pos = written.pos /\ freed.code = written.code
  BY DEF RowType
<1>3. ASSUME NEW x \in RowType, NEW y \in RowType,
             x.status = y.status, x.pos = y.pos, x.code = y.code
      PROVE  x = y
  BY <1>3 DEF RowType
<1> HIDE DEF freed, written
<1>4. freed = written
  BY <1>1, <1>2, <1>3
<1>. QED
  BY <1>1, <1>4 DEF freed, written

LEMMA Columns ==
  ASSUME NEW w \in EventWriteType
  PROVE  w = [status |-> w.status, capacity |-> w.capacity, startsAt |-> w.startsAt]
BY DEF EventWriteType

LEMMA JobTyped ==
  ASSUME NEW j \in Job
  PROVE  /\ j.op \in {"none", "register", "cancel", "update", "cancelEvent"}
         /\ j.op \in {"register", "cancel"} => j.who \in Email
         /\ j.body \in Patch
         /\ j.body.capacity \in Capacity \cup {NoCapacity}
         /\ j.body.startsAt \in StartTime \cup {NoTime}
         /\ j.op = "none" => j = NoJob
<1>1. EmptyBody \in Patch
  BY DEF EmptyBody, Patch
<1>2. j.body \in Patch
  BY <1>1, BodyOK DEF Job
<1>3. j.body.capacity \in Capacity \cup {NoCapacity} /\ j.body.startsAt \in StartTime \cup {NoTime}
  BY <1>2 DEF Patch
<1>. QED
  BY <1>2, <1>3 DEF Job, NoJob

LEMMA ConstantsTyped ==
  /\ NoJob \in Job
  /\ Nothing \in SawType
  /\ EventNotWritten \in EventWriteType
BY MaxPosOK DEF NoJob, Job, EmptyBody, Nothing, SawType, NoRow, RowType, RegistrationStatus,
   EventNotWritten, EventWriteType

LEMMA SeatsCounted ==
  ASSUME NEW r \in Req
  PROVE  Cardinality(Seated(r)) \in Nat
<1>1. Seated(r) \subseteq Email
  BY DEF Seated
<1>. QED
  BY <1>1, EmailFinite, FS_Subset, FS_CardinalityType

LEMMA MailsTyped ==
  ASSUME NEW p \in Email, NEW code \in Nat, NEW t \in StartTime \cup {NoTime}
  PROVE  /\ TicketMail(p, code) \in Mail
         /\ PromotedMail(p, code) \in Mail
         /\ RescheduledMail(p, t) \in Mail
         /\ CancelledMail(p) \in Mail
BY DEF TicketMail, PromotedMail, RescheduledMail, CancelledMail, Mail, EmailType

\* recordInTx adds mails it is given, and keeps what is recorded.
LEMMA RecordedTyped ==
  ASSUME NEW log, NEW mails
  PROVE  /\ Recorded(log, mails) \ log \subseteq mails
         /\ log \subseteq Recorded(log, mails)
         /\ \A m \in mails : \E n \in Recorded(log, mails) : Key(n) = Key(m)
BY DEF Recorded

\* What a request leaves when it ends.
RequestTypeOK ==
  /\ pc \in [Req -> PC]
  /\ job \in [Req -> Job]
  /\ saw \in [Req -> SawType]
  /\ eventWrite \in [Req -> EventWriteType]
  /\ rowWrite \in [Req -> [Email -> RowType \cup {NotWritten}]]
  /\ mailWrite \in [Req -> SUBSET Mail]

LEMMA ForgetTyped ==
  ASSUME TypeOK, NEW r \in Req, Forget(r)
  PROVE  RequestTypeOK'
BY ConstantsTyped DEF Forget, Goto, See, TypeOK, RequestTypeOK, PC, Holding

LEMMA ReturnTyped ==
  ASSUME TypeOK, NEW r \in Req, Return(r)
  PROVE  TypeOK'
<1>1. RequestTypeOK'
  BY ForgetTyped DEF Return
<1>2. eventLock' \in Req \cup {NoReq} /\ UNCHANGED committed
  BY DEF Return, Released, TypeOK
<1>. QED
  BY <1>1, <1>2 DEF TypeOK, RequestTypeOK, committed, eventVars, rowVars

LEMMA SeatTyped ==
  ASSUME TypeOK, NEW r \in Req, NEW p \in Email, NEW row \in RowType, NEW mails \in SUBSET Mail,
         WriteRow(r, p, row), RecordMails(r, mails), Goto(r, "commit"),
         UNCHANGED <<committed, eventLock, job, saw, eventWrite>>
  PROVE  TypeOK'
<1>1. Recorded(emailLog, mails) \ emailLog \subseteq Mail
  BY RecordedTyped
<1>2. mailWrite' \in [Req -> SUBSET Mail]
  BY <1>1 DEF TypeOK, RecordMails
<1>3. rowWrite' \in [Req -> [Email -> RowType \cup {NotWritten}]]
  BY DEF TypeOK, WriteRow
<1>4. pc' \in [Req -> PC]
  BY DEF TypeOK, Goto, PC, Holding
<1>. QED
  BY <1>2, <1>3, <1>4 DEF TypeOK, committed, eventVars, rowVars

LEMMA RowWriteTyped ==
  ASSUME TypeOK, NEW r \in Req, NEW p \in Email, NEW row \in RowType,
         WriteRow(r, p, row), NEW st \in PC, Goto(r, st),
         UNCHANGED <<committed, eventLock, job, saw, eventWrite, mailWrite>>
  PROVE  TypeOK'
<1>1. rowWrite' \in [Req -> [Email -> RowType \cup {NotWritten}]]
  BY DEF TypeOK, WriteRow
<1>2. pc' \in [Req -> PC]
  BY DEF TypeOK, Goto
<1>. QED
  BY <1>1, <1>2 DEF TypeOK, committed, eventVars, rowVars

LEMMA ReadTyped ==
  ASSUME TypeOK, NEW r \in Req, NEW s \in SawType, See(r, s), NEW st \in PC, Goto(r, st),
         eventLock' \in {eventLock, r}, UNCHANGED <<committed, job, writes>>
  PROVE  TypeOK'
<1>1. saw' \in [Req -> SawType] /\ pc' \in [Req -> PC]
  BY DEF TypeOK, See, Goto
<1>. QED
  BY <1>1 DEF TypeOK, committed, eventVars, rowVars, writes

LEMMA MoveTyped ==
  ASSUME TypeOK, NEW r \in Req, NEW st \in PC, Goto(r, st),
         eventLock' \in {eventLock, r}, UNCHANGED <<committed, job, saw, writes>>
  PROVE  TypeOK'
<1>1. pc' \in [Req -> PC]
  BY DEF TypeOK, Goto
<1>. QED
  BY <1>1 DEF TypeOK, committed, eventVars, rowVars, writes

LEMMA EventWriteTyped ==
  ASSUME TypeOK, NEW r \in Req, NEW st \in PC, Goto(r, st), eventLock' = r,
         eventWrite' \in [Req -> EventWriteType],
         UNCHANGED <<committed, job, saw, rowWrite, mailWrite>>
  PROVE  TypeOK'
<1>1. pc' \in [Req -> PC]
  BY DEF TypeOK, Goto
<1>. QED
  BY <1>1 DEF TypeOK, committed, eventVars, rowVars

LEMMA NotifyTyped ==
  ASSUME TypeOK, NEW r \in Req, NEW mails \in SUBSET Mail, RecordMails(r, mails),
         Goto(r, "commit"), UNCHANGED <<committed, eventLock, job, saw, eventWrite, rowWrite>>
  PROVE  TypeOK'
<1>1. Recorded(emailLog, mails) \ emailLog \subseteq Mail
  BY RecordedTyped
<1>2. mailWrite' \in [Req -> SUBSET Mail]
  BY <1>1 DEF TypeOK, RecordMails
<1>3. pc' \in [Req -> PC]
  BY DEF TypeOK, Goto, PC, Holding
<1>. QED
  BY <1>2, <1>3 DEF TypeOK, committed, eventVars, rowVars

LEMMA CommitTyped ==
  ASSUME TypeOK, NEW r \in Req, Commit(r)
  PROVE  TypeOK'
<1>1. RequestTypeOK'
  BY ForgetTyped DEF Commit
<1>2. \A p \in Email : Row(r, p) \in RowType
  BY RowTyped
<1>3. /\ regStatus' \in [Email -> RegistrationStatus]
      /\ waitlistPos' \in [Email -> 0..MaxPos]
      /\ ticket' \in [Email -> Nat]
      /\ checkedIn' \in [Email -> BOOLEAN]
  BY <1>2 DEF Commit, CommitRows, RowType, TypeOK
<1>4. eventWrite[r] \in EventWriteType /\ mailWrite[r] \subseteq Mail
  BY DEF TypeOK
<1>5. /\ eventStatus' \in EventStatus /\ capacity' \in Capacity /\ startsAt' \in StartTime
      /\ pastStarts' \subseteq StartTime
  BY <1>4 DEF Commit, Patched, EventWriteType, TypeOK, EventStatus
<1>6. emailLog' \subseteq Mail /\ eventLock' \in Req \cup {NoReq}
  BY <1>4 DEF Commit, Released, TypeOK
<1>. QED
  BY <1>1, <1>3, <1>5, <1>6 DEF TypeOK, RequestTypeOK

LEMMA RequestFacts ==
  ASSUME TxInv, NEW r \in Req
  PROVE  /\ TypeOK /\ Progress(r)
         /\ job[r] \in Job /\ saw[r] \in SawType /\ saw[r].row \in RowType
         /\ pc[r] \in PC
         /\ pc[r] \in {"lock", "lookup", "count", "place", "free", "promote"} => job[r].who \in Email
<1>1. TypeOK /\ Progress(r)
  BY DEF TxInv
<1>2. job[r] \in Job /\ saw[r] \in SawType /\ saw[r].row \in RowType /\ pc[r] \in PC
  BY <1>1 DEF TypeOK, SawType
<1>. QED
  BY <1>1, <1>2, JobTyped DEF Progress, StatementOK

LEMMA TakesLockTyped ==
  ASSUME TxInv, NEW r \in Req, TakesLock(r)
  PROVE  TypeOK'
<1>1. TypeOK /\ saw[r] \in SawType /\ job[r] \in Job
  BY RequestFacts
<1>2. {"idle", "lock", "read", "write", "lookup", "count", "place", "free", "promote",
       "notify", "commit"} \subseteq PC
  BY DEF PC, Holding
<1>3. CASE RegisterLock(r)
  <2>1. [saw[r] EXCEPT !.capacity = capacity] \in SawType
    BY <1>1 DEF SawType, TypeOK
  <2>. QED
    BY <1>1, <1>2, <1>3, <2>1, ReadTyped, ReturnTyped DEF RegisterLock
<1>4. CASE CancelLock(r)
  BY <1>1, <1>2, <1>4, MoveTyped DEF CancelLock, TakeEventLock
<1>5. CASE UpdateWrite(r)
  <2>1. eventWrite' \in [Req -> EventWriteType]
    <3>1. eventWrite[r] \in EventWriteType
      BY <1>1 DEF TypeOK
    <3>2. [eventWrite[r] EXCEPT !.capacity = job[r].body.capacity, !.startsAt = job[r].body.startsAt]
            \in EventWriteType
      BY <1>1, <3>1, JobTyped DEF EventWriteType
    <3>. QED
      BY <1>1, <1>5, <3>2 DEF UpdateWrite, TypeOK
  <2>. QED
    BY <1>1, <1>2, <1>5, <2>1, EventWriteTyped DEF UpdateWrite, TakeEventLock
<1>6. CASE CancelEventWrite(r)
  <2>1. eventWrite' \in [Req -> EventWriteType]
    BY <1>1, <1>6 DEF CancelEventWrite, TypeOK, EventWriteType
  <2>. QED
    BY <1>1, <1>2, <1>6, <2>1, EventWriteTyped DEF CancelEventWrite, TakeEventLock
<1>. QED
  BY <1>3, <1>4, <1>5, <1>6 DEF TakesLock

LEMMA ProceedTyped ==
  ASSUME TxInv, NEW r \in Req, Proceed(r)
  PROVE  TypeOK'
<1>1. TypeOK /\ saw[r] \in SawType /\ job[r] \in Job /\ saw[r].row \in RowType
  BY RequestFacts
<1>2. {"idle", "lock", "read", "write", "lookup", "count", "place", "free", "promote",
       "notify", "commit"} \subseteq PC
  BY DEF PC, Holding
<1>3. pc[r] \in {"lock", "lookup", "count", "place", "free", "promote"} => job[r].who \in Email
  BY RequestFacts
<1>4. CASE RegisterLookup(r) \/ CancelLookup(r)
  <2>1. Row(r, job[r].who) \in RowType
    BY <1>1, <1>3, <1>4, RowTyped DEF RegisterLookup, CancelLookup, At
  <2>2. [saw[r] EXCEPT !.row = Row(r, job[r].who)] \in SawType
    BY <1>1, <2>1 DEF SawType
  <2>3. \/ Return(r)
        \/ /\ See(r, [saw[r] EXCEPT !.row = Row(r, job[r].who)])
           /\ Goto(r, "count") \/ Goto(r, "free")
           /\ UNCHANGED <<committed, eventLock, job, writes>>
    BY <1>4 DEF RegisterLookup, CancelLookup
  <2>. QED
    BY <1>1, <1>2, <2>2, <2>3, ReadTyped, ReturnTyped
<1>5. CASE RegisterCount(r)
  <2>1. [saw[r] EXCEPT !.count = Cardinality(Seated(r))] \in SawType
    BY <1>1, SeatsCounted DEF SawType
  <2>. QED
    BY <1>1, <1>2, <1>5, <2>1, ReadTyped DEF RegisterCount
<1>6. CASE RegisterSeat(r)
  <2> DEFINE code == MintedIfNone(saw[r].row.code)
  <2>1. code \in Nat
    BY <1>1 DEF MintedIfNone, RowType
  <2>2. [status |-> "REGISTERED", pos |-> NoPos, code |-> code] \in RowType
    BY <2>1, MaxPosOK DEF RowType, RegistrationStatus
  <2>3. job[r].who \in Email
    BY <1>3, <1>6 DEF RegisterSeat, At
  <2>4. {TicketMail(job[r].who, code)} \subseteq Mail
    BY <2>1, <2>3, MailsTyped
  <2>. QED
    BY <1>1, <1>6, <2>2, <2>3, <2>4, SeatTyped DEF RegisterSeat
<1>7. CASE RegisterQueue(r)
  <2>1. PICK n \in 1..MaxPos :
          WriteRow(r, job[r].who, [status |-> "WAITLISTED", pos |-> n, code |-> saw[r].row.code])
    BY <1>7 DEF RegisterQueue
  <2>2. [status |-> "WAITLISTED", pos |-> n, code |-> saw[r].row.code] \in RowType
    BY <1>1, MaxPosOK DEF RowType, RegistrationStatus
  <2>3. job[r].who \in Email
    BY <1>3, <1>7 DEF RegisterQueue, At
  <2>. QED
    BY <1>1, <1>2, <1>7, <2>1, <2>2, <2>3, RowWriteTyped DEF RegisterQueue
<1>8. CASE RegisterQueueFails(r)
  BY <1>1, <1>8, ReturnTyped DEF RegisterQueueFails
<1>9. CASE CancelFree(r)
  <2>1. [saw[r].row EXCEPT !.status = "CANCELLED", !.pos = NoPos] \in RowType
    BY <1>1, FreedRow DEF RowType
  <2>2. job[r].who \in Email
    BY <1>3, <1>9 DEF CancelFree, At
  <2>. QED
    BY <1>1, <1>2, <1>9, <2>1, <2>2, RowWriteTyped DEF CancelFree
<1>10. CASE PromoteNobody(r)
  BY <1>1, <1>2, <1>10, MoveTyped DEF PromoteNobody
<1>11. CASE PromoteHead(r)
  <2> DEFINE code(h) == MintedIfNone(Row(r, h).code)
             promoted(h) == [status |-> "REGISTERED", pos |-> NoPos, code |-> code(h)]
  <2>1. PICK h \in Email : WriteRow(r, h, promoted(h)) /\ RecordMails(r, {PromotedMail(h, code(h))})
    BY <1>11 DEF PromoteHead
  <2>2. code(h) \in Nat
    BY <1>1, RowTyped DEF MintedIfNone, RowType
  <2>3. promoted(h) \in RowType
    BY <2>2, MaxPosOK DEF RowType, RegistrationStatus
  <2>4. {PromotedMail(h, code(h))} \subseteq Mail
    BY <2>2, MailsTyped
  <2>5. Goto(r, "commit") /\ UNCHANGED <<committed, eventLock, job, saw, eventWrite>>
    BY <1>11 DEF PromoteHead
  <2>. QED
    BY <1>1, <2>1, <2>3, <2>4, <2>5, SeatTyped
<1>12. CASE UpdateRead(r)
  <2>1. [saw[r] EXCEPT !.start = startsAt] \in SawType
    BY <1>1 DEF SawType, TypeOK
  <2>. QED
    BY <1>1, <1>2, <1>12, <2>1, ReadTyped DEF UpdateRead
<1>13. CASE UpdateNotify(r)
  <2>1. {RescheduledMail(p, job[r].body.startsAt) : p \in Seated(r)} \subseteq Mail
    BY <1>1, JobTyped DEF Seated, Mail, RescheduledMail, EmailType
  <2>. QED
    BY <1>1, <1>13, <2>1, NotifyTyped DEF UpdateNotify
<1>14. CASE CancelEventRead(r)
  BY <1>1, <1>2, <1>14, ReturnTyped, MoveTyped DEF CancelEventRead
<1>15. CASE CancelEventNotify(r)
  <2>1. {CancelledMail(p) : p \in Seated(r) \cup Waiting(r)} \subseteq Mail
    BY DEF Seated, Waiting, Mail, CancelledMail, EmailType
  <2>. QED
    BY <1>1, <1>15, <2>1, NotifyTyped DEF CancelEventNotify
<1>16. CASE Commit(r)
  BY <1>1, <1>16, CommitTyped
<1>. QED
  BY <1>4, <1>5, <1>6, <1>7, <1>8, <1>9, <1>10, <1>11, <1>12, <1>13, <1>14, <1>15, <1>16 DEF Proceed

LEMMA TypeKept ==
  ASSUME TxInv, Next
  PROVE  TypeOK'
<1>1. TypeOK
  BY DEF TxInv
<1>2. ASSUME NEW r \in Req, NEW j \in Job, Begin(r, j)
      PROVE  TypeOK'
  <2>1. FirstStatement(j.op) \in PC
    BY DEF FirstStatement, PC
  <2>2. job' \in [Req -> Job] /\ pc' \in [Req -> PC]
    BY <1>1, <1>2, <2>1 DEF Begin, Goto, TypeOK
  <2>. QED
    BY <1>1, <1>2, <2>2 DEF Begin, TypeOK, committed, eventVars, rowVars, writes
<1>3. ASSUME NEW p \in Email, CheckIn(p)
      PROVE  TypeOK'
  BY <1>1, <1>3 DEF CheckIn, TypeOK, eventVars, writes
<1>4. ASSUME NEW r \in Req, Abort(r)
      PROVE  TypeOK'
  BY <1>1, <1>4, ReturnTyped DEF Abort
<1>. QED
  BY <1>2, <1>3, <1>4, TakesLockTyped, ProceedTyped DEF Next

---------------------------------------------------------------------------
(* What a step of one request leaves of another's.                         *)

Untouched(r) ==
  /\ pc'[r] = pc[r] /\ job'[r] = job[r] /\ saw'[r] = saw[r]
  /\ eventWrite'[r] = eventWrite[r] /\ rowWrite'[r] = rowWrite[r] /\ mailWrite'[r] = mailWrite[r]

\* The committed columns that the requests decide on.
decidedOn == <<eventVars, regStatus, waitlistPos, ticket, emailLog>>

\* Both modules count alike.
LEMMA HasCapacityCounts ==
  /\ \A S : Atomic!Cardinality(S) = Cardinality(S)
  /\ Atomic!HasCapacity <=> Cardinality(Atomic!Registered) < capacity
<1>1. \A S : Atomic!Cardinality(S) = Cardinality(S)
  BY DEF Atomic!Cardinality, Cardinality
<1>. QED
  BY <1>1 DEF Atomic!HasCapacity

LEMMA SameDecisions ==
  ASSUME UNCHANGED decidedOn
  PROVE  /\ Atomic!Registered' = Atomic!Registered
         /\ Atomic!Waiting' = Atomic!Waiting
         /\ Atomic!Active' = Atomic!Active
         /\ Atomic!HasCapacity' = Atomic!HasCapacity
         /\ \A p : Atomic!Code(p)' = Atomic!Code(p)
         /\ \A p : Atomic!MayRegister(p)' = Atomic!MayRegister(p)
         /\ \A n : Atomic!IsTail(n)' = Atomic!IsTail(n)
         /\ \A h : Atomic!IsHead(h)' = Atomic!IsHead(h)
         /\ \A p : CommittedRow(p)' = CommittedRow(p)
<1>1. /\ Atomic!Registered' = Atomic!Registered
      /\ Atomic!Waiting' = Atomic!Waiting
  BY DEF decidedOn, Atomic!Registered, Atomic!Waiting
<1>2. Atomic!Active' = Atomic!Active /\ Atomic!HasCapacity' = Atomic!HasCapacity
  BY <1>1 DEF decidedOn, eventVars, Atomic!Active, Atomic!HasCapacity
<1>3. \A p : Atomic!Code(p)' = Atomic!Code(p) /\ CommittedRow(p)' = CommittedRow(p)
  BY DEF decidedOn, Atomic!Code, CommittedRow
<1>4. \A p : Atomic!MayRegister(p)' = Atomic!MayRegister(p)
  BY <1>2 DEF decidedOn, eventVars, Atomic!MayRegister
<1>5. \A n : Atomic!IsTail(n)' = Atomic!IsTail(n)
  BY <1>1 DEF decidedOn, Atomic!IsTail
<1>6. \A h : Atomic!IsHead(h)' = Atomic!IsHead(h)
  BY <1>1 DEF decidedOn, Atomic!IsHead
<1>. QED
  BY <1>1, <1>2, <1>3, <1>4, <1>5, <1>6

LEMMA OthersProgress ==
  ASSUME NEW r \in Req, Progress(r), Untouched(r), UNCHANGED decidedOn
  PROVE  Progress(r)'
<1> DEFINE p == job[r].who
<1>1. /\ Atomic!Registered' = Atomic!Registered
      /\ Atomic!Waiting' = Atomic!Waiting
      /\ Atomic!Active' = Atomic!Active
      /\ Atomic!HasCapacity' = Atomic!HasCapacity
      /\ \A q : Atomic!Code(q)' = Atomic!Code(q)
      /\ \A q : Atomic!MayRegister(q)' = Atomic!MayRegister(q)
      /\ \A n : Atomic!IsTail(n)' = Atomic!IsTail(n)
      /\ \A h : Atomic!IsHead(h)' = Atomic!IsHead(h)
      /\ \A q : CommittedRow(q)' = CommittedRow(q)
  BY SameDecisions
<1>2. emailLog' = emailLog /\ ticket' = ticket
  BY DEF decidedOn
<1>3. StatementOK(r)'
  BY DEF Progress, StatementOK, Untouched
<1>4. ReadOK(r)'
  BY <1>1 DEF Progress, ReadOK, Untouched, decidedOn, eventVars
<1>5. /\ NoEventWrite(r)' = NoEventWrite(r) /\ NoRowWrite(r)' = NoRowWrite(r) /\ NoMail(r)' = NoMail(r)
      /\ UpdatesEvent(r)' = UpdatesEvent(r) /\ CancelsEvent(r)' = CancelsEvent(r)
  BY DEF NoEventWrite, NoRowWrite, NoMail, UpdatesEvent, CancelsEvent, Untouched
<1>6. SeatDecided(r) => SeatDecided(r)'
  BY <1>1, <1>2, <1>5 DEF SeatDecided, OnlyRow, OnlyMails, Seat, Untouched, Recorded
<1>7. QueueDecided(r) => QueueDecided(r)'
  BY <1>1, <1>2, <1>5 DEF QueueDecided, OnlyRow, Place, Untouched
<1>8. DepartureDecided(r) => DepartureDecided(r)'
  BY <1>1, <1>2, <1>5 DEF DepartureDecided, OnlyRow, Cancelled, Untouched
<1>9. HandoverDecided(r) => HandoverDecided(r)'
  BY <1>1, <1>2, <1>5 DEF HandoverDecided, OnlyMails, Cancelled, Seat, Untouched, Recorded
<1>10. UpdateDecided(r) => UpdateDecided(r)'
  BY <1>1, <1>2, <1>5 DEF UpdateDecided, OnlyMails, Atomic!UpdateMails, Untouched, Recorded
<1>11. CancelEventDecided(r) => CancelEventDecided(r)'
  BY <1>1, <1>2, <1>5 DEF CancelEventDecided, OnlyMails, Untouched, Recorded
<1>12. WrittenOK(r)'
  <2>1. pc[r] = "commit" => Decided(r)'
    BY <1>6, <1>7, <1>8, <1>9, <1>10, <1>11 DEF Progress, WrittenOK, Decided
  <2>2. pc[r] = "promote" => OnlyRow(r, p, Cancelled(p))'
    BY <1>2 DEF Progress, WrittenOK, OnlyRow, Cancelled, Untouched
  <2>. QED
    BY <1>1, <1>5, <2>1, <2>2 DEF Progress, WrittenOK, NoWrite, Untouched
<1>. QED
  BY <1>3, <1>4, <1>12 DEF Progress

---------------------------------------------------------------------------
(* What a step of a request makes of its own progress.                     *)

\* A step that commits nothing, keeps or takes the lock and leaves the others alone.
LEMMA StepKeeps ==
  ASSUME TxInv, NEW r \in Req, TypeOK', UNCHANGED committed,
         \A s \in Req \ {r} : Untouched(s),
         \/ eventLock' = eventLock /\ (pc'[r] \in Holding <=> pc[r] \in Holding)
         \/ eventLock = NoReq /\ eventLock' = r /\ pc'[r] \in Holding
         \/ eventLock' = Released(r) /\ pc'[r] \notin Holding,
         Progress(r)'
  PROVE  TxInv'
<1>1. LockOK'
  BY NoReqOK DEF TxInv, LockOK, Untouched, Released
<1>2. AnnouncementsOK' /\ PastOK'
  BY DEF TxInv, AnnouncementsOK, PastOK, committed, eventVars
<1>3. UNCHANGED decidedOn
  BY DEF committed, decidedOn, eventVars, rowVars
<1>4. \A s \in Req \ {r} : Progress(s)'
  BY <1>3, OthersProgress DEF TxInv
<1>. QED
  BY <1>1, <1>2, <1>4 DEF TxInv

\* The statements of a request that ends are forgotten.
LEMMA ForgetStarts ==
  ASSUME TypeOK, NEW r \in Req, Forget(r)
  PROVE  /\ \A s \in Req \ {r} : Untouched(s)
         /\ pc'[r] = "idle" /\ "idle" \notin Holding
         /\ Progress(r)'
<1>1. \A s \in Req \ {r} : Untouched(s)
  BY DEF Forget, Goto, See, Untouched, TypeOK
<1>2. /\ pc'[r] = "idle" /\ eventWrite'[r] = EventNotWritten /\ mailWrite'[r] = {}
      /\ rowWrite'[r] = [p \in Email |-> NotWritten]
  BY DEF Forget, Goto, TypeOK
<1>3. Progress(r)'
  BY <1>2 DEF Progress, StatementOK, ReadOK, WrittenOK, NoWrite, NoEventWrite, NoRowWrite, NoMail
<1>. QED
  BY <1>1, <1>2, <1>3 DEF Holding

LEMMA ReturnKeeps ==
  ASSUME TxInv, NEW r \in Req, Return(r)
  PROVE  TxInv'
BY ForgetStarts, ReturnTyped, StepKeeps DEF Return, TxInv

LEMMA BeginKeeps ==
  ASSUME TxInv, NEW r \in Req, NEW j \in Job \ {NoJob}, Begin(r, j)
  PROVE  TxInv'
<1>1. TypeOK /\ TypeOK' /\ Progress(r)
  BY TypeKept DEF TxInv, Next
<1>2. /\ \A s \in Req \ {r} : Untouched(s)
      /\ pc[r] = "idle" /\ pc'[r] = FirstStatement(j.op) /\ job'[r] = j
      /\ UNCHANGED <<committed, eventLock, saw, writes>>
  BY <1>1 DEF Begin, Goto, At, Untouched, TypeOK, writes
<1>3. j.op \in {"register", "cancel", "update", "cancelEvent"}
  BY JobTyped
<1>4. NoWrite(r)'
  BY <1>1, <1>2 DEF Progress, WrittenOK, NoWrite, NoEventWrite, NoRowWrite, NoMail, writes
<1>5. Progress(r)'
  BY <1>2, <1>3, <1>4 DEF Progress, StatementOK, ReadOK, WrittenOK, FirstStatement
<1>6. pc'[r] \notin Holding /\ pc[r] \notin Holding
  BY <1>2 DEF FirstStatement, Holding
<1>. QED
  BY <1>1, <1>2, <1>5, <1>6, StepKeeps

\* The rows a transaction sees before it has written any are the committed ones.
LEMMA SeesCommitted ==
  ASSUME NEW r \in Req, NoRowWrite(r)
  PROVE  /\ \A p \in Email : Row(r, p) = CommittedRow(p)
         /\ Seated(r) = Atomic!Registered /\ Waiting(r) = Atomic!Waiting
         /\ \A n : IsTail(r, n) => Atomic!IsTail(n)
<1>1. \A p \in Email : Row(r, p) = CommittedRow(p)
  BY DEF NoRowWrite, Row
<1>2. Seated(r) = Atomic!Registered /\ Waiting(r) = Atomic!Waiting
  BY <1>1 DEF Seated, Waiting, Atomic!Registered, Atomic!Waiting, CommittedRow
<1>3. \A p \in Waiting(r) : Row(r, p).pos = waitlistPos[p]
  BY <1>1 DEF CommittedRow, Waiting
<1>4. \A n : IsTail(r, n) => Atomic!IsTail(n)
  BY <1>2, <1>3 DEF IsTail, Atomic!IsTail
<1>. QED
  BY <1>1, <1>2, <1>4

\* A statement that only reads, or moves on.
LEMMA ReadFrame ==
  ASSUME TypeOK, NEW r \in Req, NEW st, Goto(r, st),
         (\E w : See(r, w)) \/ UNCHANGED saw, UNCHANGED <<job, writes>>
  PROVE  /\ \A s \in Req \ {r} : Untouched(s)
         /\ pc'[r] = st /\ job'[r] = job[r]
         /\ NoWrite(r)' = NoWrite(r)
BY DEF Goto, See, Untouched, TypeOK, writes, NoWrite, NoEventWrite, NoRowWrite, NoMail

LEMMA TakesLockKeeps ==
  ASSUME TxInv, NEW r \in Req, TakesLock(r)
  PROVE  TxInv'
<1>1. TypeOK /\ TypeOK' /\ Progress(r) /\ saw[r] \in SawType
  BY RequestFacts, TakesLockTyped
<1>2. CASE RegisterLock(r)
  <2>1. CASE Return(r)
    BY <2>1, ReturnKeeps
  <2>2. CASE /\ eventStatus # "CANCELLED" /\ eventLock = NoReq /\ eventLock' = r
             /\ job[r].op = "register" /\ pc[r] = "lock"
             /\ See(r, [saw[r] EXCEPT !.capacity = capacity]) /\ Goto(r, "lookup")
             /\ UNCHANGED <<committed, job, writes>>
    <3>1. (\A s \in Req \ {r} : Untouched(s)) /\ pc'[r] = "lookup" /\ job'[r] = job[r]
          /\ NoWrite(r)' = NoWrite(r)
      BY <1>1, <2>2, ReadFrame
    <3>2. saw'[r].capacity = capacity /\ eventStatus = "ACTIVE"
      BY <1>1, <2>2 DEF See, TypeOK, SawType, EventStatus
    <3>3. Progress(r)'
      BY <1>1, <2>2, <3>1, <3>2 DEF Progress, StatementOK, ReadOK, WrittenOK, committed, eventVars
    <3>. QED
      BY <1>1, <2>2, <3>1, <3>3, StepKeeps DEF Holding
  <2>. QED
    BY <1>2, <2>1, <2>2 DEF RegisterLock, LockIsFree, At
<1>3. CASE CancelLock(r)
  <2>1. (\A s \in Req \ {r} : Untouched(s)) /\ pc'[r] = "lookup" /\ job'[r] = job[r]
        /\ NoWrite(r)' = NoWrite(r)
    BY <1>1, <1>3, ReadFrame DEF CancelLock
  <2>2. Progress(r)'
    BY <1>1, <1>3, <2>1 DEF CancelLock, At, Progress, StatementOK, ReadOK, WrittenOK
  <2>. QED
    BY <1>1, <1>3, <2>1, <2>2, StepKeeps DEF CancelLock, TakeEventLock, LockIsFree, Holding
<1>4. CASE UpdateWrite(r)
  <2> DEFINE body == job[r].body
  <2>1. /\ \A s \in Req \ {r} : Untouched(s)
        /\ job'[r] = job[r] /\ saw'[r] = saw[r]
        /\ rowWrite'[r] = rowWrite[r] /\ mailWrite'[r] = mailWrite[r]
        /\ pc'[r] = IF body.startsAt \in {NoTime, saw[r].start} THEN "commit" ELSE "notify"
        /\ pc[r] = "write" /\ job[r].op = "update"
    BY <1>1, <1>4 DEF UpdateWrite, Goto, At, Untouched, TypeOK
  <2>2. NoWrite(r) /\ saw[r].start \in pastStarts
    BY <1>1, <2>1 DEF Progress, ReadOK, WrittenOK
  <2>3. UpdatesEvent(r)'
    <3>1. /\ eventWrite'[r].status = eventWrite[r].status
          /\ eventWrite'[r].capacity = body.capacity
          /\ eventWrite'[r].startsAt = body.startsAt
      BY <1>1, <1>4 DEF UpdateWrite, TypeOK, EventWriteType
    <3>2. eventWrite'[r] = [status |-> "NONE", capacity |-> body.capacity, startsAt |-> body.startsAt]
      <4>1. eventWrite[r].status = "NONE" /\ eventWrite'[r] \in EventWriteType
        BY <1>1, <2>2 DEF NoWrite, NoEventWrite, EventNotWritten, TypeOK
      <4>. QED
        BY <3>1, <4>1, Columns
    <3>. QED
      BY <2>1, <3>2 DEF UpdatesEvent
  <2>4. NoRowWrite(r)' /\ NoMail(r)'
    BY <2>1, <2>2 DEF NoWrite, NoRowWrite, NoMail
  <2>5. pc'[r] = "commit" => UpdateDecided(r)'
    <3> SUFFICES ASSUME pc'[r] = "commit" PROVE UpdateDecided(r)'
      OBVIOUS
    <3>1. Atomic!UpdateMails(body.startsAt, saw[r].start)' = {}
      BY <2>1 DEF Atomic!UpdateMails
    <3>2. OnlyMails(r, Atomic!UpdateMails(body.startsAt, saw[r].start))'
      BY <2>4, <3>1 DEF OnlyMails, NoMail, Recorded
    <3>. QED
      BY <2>1, <2>3, <2>4, <3>2 DEF UpdateDecided
  <2>6. Progress(r)'
    BY <1>4, <2>1, <2>2, <2>3, <2>4, <2>5
    DEF UpdateWrite, Progress, StatementOK, ReadOK, WrittenOK, Decided, committed, eventVars
  <2>. QED
    BY <1>1, <1>4, <2>1, <2>6, StepKeeps DEF UpdateWrite, TakeEventLock, LockIsFree, Holding
<1>5. CASE CancelEventWrite(r)
  <2>1. /\ \A s \in Req \ {r} : Untouched(s)
        /\ job'[r] = job[r] /\ rowWrite'[r] = rowWrite[r] /\ mailWrite'[r] = mailWrite[r]
        /\ pc'[r] = "notify" /\ pc[r] = "write" /\ job[r].op = "cancelEvent"
        /\ eventWrite'[r] = [eventWrite[r] EXCEPT !.status = "CANCELLED"]
    BY <1>1, <1>5 DEF CancelEventWrite, Goto, At, Untouched, TypeOK
  <2>2. NoWrite(r)
    BY <1>1, <2>1 DEF Progress, WrittenOK
  <2>3. CancelsEvent(r)' /\ NoRowWrite(r)' /\ NoMail(r)'
    BY <2>1, <2>2 DEF NoWrite, NoEventWrite, NoRowWrite, NoMail, CancelsEvent
  <2>4. Progress(r)'
    BY <2>1, <2>3 DEF Progress, StatementOK, ReadOK, WrittenOK
  <2>. QED
    BY <1>1, <1>5, <2>1, <2>4, StepKeeps DEF CancelEventWrite, TakeEventLock, LockIsFree, Holding
<1>. QED
  BY <1>2, <1>3, <1>4, <1>5 DEF TakesLock

\* The statements of register().
LEMMA RegisterKeeps ==
  ASSUME TxInv, NEW r \in Req,
         \/ RegisterLookup(r) \/ RegisterCount(r) \/ RegisterSeat(r) \/ RegisterQueue(r)
         \/ RegisterQueueFails(r)
  PROVE  TxInv'
<1> DEFINE p == job[r].who
<1>1. /\ TypeOK /\ TypeOK' /\ Progress(r) /\ saw[r] \in SawType
      /\ pc[r] \in {"lookup", "count", "place"} => p \in Email /\ NoWrite(r)
  BY RequestFacts, ProceedTyped DEF Proceed, Progress, WrittenOK
<1>2. CASE RegisterLookup(r)
  <2>1. CASE Return(r)
    BY <2>1, ReturnKeeps
  <2>2. CASE /\ Row(r, p).status \notin {"REGISTERED", "WAITLISTED"}
             /\ See(r, [saw[r] EXCEPT !.row = Row(r, p)]) /\ Goto(r, "count")
             /\ UNCHANGED <<committed, eventLock, job, writes>>
    <3>1. (\A s \in Req \ {r} : Untouched(s)) /\ pc'[r] = "count" /\ job'[r] = job[r]
          /\ NoWrite(r)' = NoWrite(r)
      BY <1>1, <2>2, ReadFrame
    <3>2. pc[r] = "lookup" /\ job[r].op = "register" /\ p \in Email /\ NoWrite(r)
      BY <1>1, <1>2 DEF RegisterLookup, At
    <3>3. Row(r, p) = CommittedRow(p) /\ p \notin Atomic!Active
      BY <2>2, <3>2, SeesCommitted
      DEF NoWrite, CommittedRow, Atomic!Active, Atomic!Registered, Atomic!Waiting
    <3>4. saw'[r].row = CommittedRow(p) /\ saw'[r].capacity = saw[r].capacity
      BY <1>1, <2>2, <3>3 DEF See, TypeOK, SawType
    <3>5. p \notin Atomic!Active' /\ CommittedRow(p)' = CommittedRow(p)
      BY <2>2, <3>3, SameDecisions DEF committed, decidedOn, eventVars, rowVars
    <3>6. Progress(r)'
      BY <1>1, <2>2, <3>1, <3>2, <3>4, <3>5
      DEF Progress, StatementOK, ReadOK, WrittenOK, committed, eventVars
    <3>. QED
      BY <1>1, <2>2, <3>1, <3>2, <3>6, StepKeeps DEF Holding
  <2>. QED
    BY <1>2, <2>1, <2>2 DEF RegisterLookup
<1>3. CASE RegisterCount(r)
  <2>1. (\A s \in Req \ {r} : Untouched(s)) /\ pc'[r] = "place" /\ job'[r] = job[r]
        /\ NoWrite(r)' = NoWrite(r)
    BY <1>1, <1>3, ReadFrame DEF RegisterCount
  <2>2. pc[r] = "count" /\ job[r].op = "register" /\ NoWrite(r)
    BY <1>1, <1>3 DEF RegisterCount, At, Progress, StatementOK
  <2>3. Seated(r) = Atomic!Registered
    BY <2>2, SeesCommitted DEF NoWrite
  <2>4. /\ saw'[r].count = Cardinality(Atomic!Registered)
        /\ saw'[r].row = saw[r].row /\ saw'[r].capacity = saw[r].capacity
    BY <1>1, <1>3, <2>3 DEF RegisterCount, See, TypeOK, SawType
  <2>5. /\ Atomic!Registered' = Atomic!Registered /\ Atomic!Active' = Atomic!Active
        /\ CommittedRow(p)' = CommittedRow(p)
    BY <1>3, SameDecisions DEF RegisterCount, committed, decidedOn, eventVars, rowVars
  <2>6. Progress(r)'
    BY <1>1, <1>3, <2>1, <2>2, <2>4, <2>5
    DEF RegisterCount, Progress, StatementOK, ReadOK, WrittenOK, committed, eventVars
  <2>. QED
    BY <1>1, <1>3, <2>1, <2>2, <2>6, StepKeeps DEF RegisterCount, Holding
<1>4. CASE RegisterSeat(r)
  <2> DEFINE code == MintedIfNone(saw[r].row.code)
             row  == [status |-> "REGISTERED", pos |-> NoPos, code |-> code]
  <2>1. /\ pc[r] = "place" /\ job[r].op = "register" /\ NoWrite(r) /\ p \in Email
        /\ eventStatus = "ACTIVE" /\ saw[r].capacity = capacity
        /\ saw[r].count = Cardinality(Atomic!Registered)
        /\ saw[r].row = CommittedRow(p) /\ p \notin Atomic!Active
        /\ saw[r].count < saw[r].capacity
    BY <1>1, <1>4 DEF RegisterSeat, At, Progress, StatementOK, ReadOK
  <2>2. /\ \A s \in Req \ {r} : Untouched(s)
        /\ pc'[r] = "commit" /\ job'[r] = job[r] /\ eventWrite'[r] = eventWrite[r]
        /\ rowWrite'[r] = [rowWrite[r] EXCEPT ![p] = row]
        /\ mailWrite'[r] = mailWrite[r] \cup (Recorded(emailLog, {TicketMail(p, code)}) \ emailLog)
    BY <1>1, <1>4 DEF RegisterSeat, WriteRow, RecordMails, Goto, Untouched, TypeOK
  <2>3. code = Atomic!Code(p)
    BY <2>1 DEF MintedIfNone, CommittedRow, Atomic!Code
  <2>4. UNCHANGED decidedOn /\ UNCHANGED committed /\ eventLock' = eventLock
    BY <1>4 DEF RegisterSeat, committed, decidedOn, eventVars, rowVars
  <2>5. Atomic!MayRegister(p)' /\ Atomic!HasCapacity' /\ Atomic!Code(p)' = code
    <3>1. Atomic!MayRegister(p)
      BY <2>1 DEF Atomic!MayRegister
    <3>2. Atomic!HasCapacity
      BY <2>1, HasCapacityCounts
    <3>. QED
      BY <2>2, <2>3, <2>4, <3>1, <3>2, SameDecisions
  <2>6. OnlyRow(r, p, Seat(p))'
    <3>1. rowWrite'[r][p] = row /\ \A q \in Email \ {p} : rowWrite'[r][q] = NotWritten
      BY <1>1, <2>1, <2>2 DEF NoWrite, NoRowWrite, TypeOK
    <3>. QED
      BY <2>2, <2>5, <3>1 DEF OnlyRow, Seat
  <2>7. OnlyMails(r, {TicketMail(p, Atomic!Code(p))})'
    BY <2>1, <2>2, <2>4, <2>5 DEF OnlyMails, NoWrite, NoMail, Recorded, decidedOn
  <2>8. SeatDecided(r)'
    BY <2>1, <2>2, <2>5, <2>6, <2>7 DEF SeatDecided, NoWrite, NoEventWrite
  <2>9. Progress(r)'
    BY <2>1, <2>2, <2>8 DEF Progress, StatementOK, ReadOK, WrittenOK, Decided
  <2>. QED
    BY <1>1, <2>1, <2>2, <2>4, <2>9, StepKeeps DEF Holding
<1>5. CASE RegisterQueue(r)
  <2>1. /\ pc[r] = "place" /\ job[r].op = "register" /\ NoWrite(r) /\ p \in Email
        /\ eventStatus = "ACTIVE" /\ saw[r].capacity = capacity
        /\ saw[r].count = Cardinality(Atomic!Registered)
        /\ saw[r].row = CommittedRow(p) /\ p \notin Atomic!Active
        /\ saw[r].count >= saw[r].capacity
    BY <1>1, <1>5 DEF RegisterQueue, At, Progress, StatementOK, ReadOK
  <2>2. PICK n \in 1..MaxPos :
          /\ IsTail(r, n)
          /\ WriteRow(r, p, [status |-> "WAITLISTED", pos |-> n, code |-> saw[r].row.code])
    BY <1>5 DEF RegisterQueue
  <2>3. /\ \A s \in Req \ {r} : Untouched(s)
        /\ pc'[r] = "commit" /\ job'[r] = job[r]
        /\ eventWrite'[r] = eventWrite[r] /\ mailWrite'[r] = mailWrite[r]
        /\ rowWrite'[r] = [rowWrite[r] EXCEPT ![p] = Place(p, n)]
    <3>1. saw[r].row.code = ticket[p]
      BY <2>1 DEF CommittedRow
    <3>. QED
      BY <1>1, <1>5, <2>2, <3>1 DEF RegisterQueue, WriteRow, Goto, Untouched, TypeOK, Place
  <2>4. UNCHANGED decidedOn /\ UNCHANGED committed /\ eventLock' = eventLock
    BY <1>5 DEF RegisterQueue, committed, decidedOn, eventVars, rowVars
  <2>5. Atomic!MayRegister(p) /\ ~Atomic!HasCapacity /\ Atomic!IsTail(n)
    <3>1. Cardinality(Atomic!Registered) \in Nat /\ capacity \in Nat
      BY <1>1, <2>1, CapacityOK DEF SawType, TypeOK
    <3>2. Atomic!MayRegister(p)
      BY <2>1 DEF Atomic!MayRegister
    <3>4. ~Atomic!HasCapacity
      BY <2>1, <3>1, HasCapacityCounts
    <3>3. Atomic!IsTail(n)
      BY <2>1, <2>2, SeesCommitted DEF NoWrite
    <3>. QED
      BY <3>2, <3>3, <3>4
  <2>6. Atomic!MayRegister(p)' /\ ~Atomic!HasCapacity' /\ Atomic!IsTail(n)'
    BY <2>3, <2>4, <2>5, SameDecisions
  <2>7. OnlyRow(r, p, Place(p, n))'
    <3>1. rowWrite'[r][p] = Place(p, n) /\ \A q \in Email \ {p} : rowWrite'[r][q] = NotWritten
      BY <1>1, <2>1, <2>3 DEF NoWrite, NoRowWrite, TypeOK
    <3>. QED
      BY <2>3, <2>4, <3>1 DEF OnlyRow, Place, decidedOn
  <2>8. QueueDecided(r)'
    BY <2>1, <2>3, <2>6, <2>7 DEF QueueDecided, NoWrite, NoEventWrite, NoMail
  <2>9. Progress(r)'
    BY <2>1, <2>3, <2>8 DEF Progress, StatementOK, ReadOK, WrittenOK, Decided
  <2>. QED
    BY <1>1, <2>1, <2>3, <2>4, <2>9, StepKeeps DEF Holding
<1>6. CASE RegisterQueueFails(r)
  BY <1>6, ReturnKeeps DEF RegisterQueueFails
<1>. QED
  BY <1>2, <1>3, <1>4, <1>5, <1>6

\* The statements of cancel().
LEMMA CancelKeeps ==
  ASSUME TxInv, NEW r \in Req,
         CancelLookup(r) \/ CancelFree(r) \/ PromoteNobody(r) \/ PromoteHead(r)
  PROVE  TxInv'
<1> DEFINE p == job[r].who
<1>1. /\ TypeOK /\ TypeOK' /\ Progress(r) /\ saw[r] \in SawType /\ saw[r].row \in RowType
      /\ pc[r] \in {"lookup", "free", "promote"} => p \in Email
      /\ pc[r] \in {"lookup", "free"} => NoWrite(r)
  BY RequestFacts, ProceedTyped DEF Proceed, Progress, WrittenOK
<1>2. CASE CancelLookup(r)
  <2>1. CASE Return(r)
    BY <2>1, ReturnKeeps
  <2>2. CASE /\ Row(r, p).status \notin {"NONE", "CANCELLED"}
             /\ See(r, [saw[r] EXCEPT !.row = Row(r, p)]) /\ Goto(r, "free")
             /\ UNCHANGED <<committed, eventLock, job, writes>>
    <3>1. (\A s \in Req \ {r} : Untouched(s)) /\ pc'[r] = "free" /\ job'[r] = job[r]
          /\ NoWrite(r)' = NoWrite(r)
      BY <1>1, <2>2, ReadFrame
    <3>2. pc[r] = "lookup" /\ job[r].op = "cancel" /\ p \in Email /\ NoWrite(r)
      BY <1>1, <1>2 DEF CancelLookup, At
    <3>3. Row(r, p) = CommittedRow(p) /\ regStatus[p] \in RegistrationStatus
      BY <1>1, <3>2, SeesCommitted DEF NoWrite, TypeOK
    <3>4. p \in Atomic!Active
      BY <2>2, <3>2, <3>3
      DEF CommittedRow, RegistrationStatus, Atomic!Active, Atomic!Registered, Atomic!Waiting
    <3>5. saw'[r].row = CommittedRow(p)
      BY <1>1, <2>2, <3>3 DEF See, TypeOK, SawType
    <3>6. p \in Atomic!Active' /\ CommittedRow(p)' = CommittedRow(p)
      BY <2>2, <3>1, <3>4, SameDecisions DEF committed, decidedOn, eventVars, rowVars
    <3>7. Progress(r)'
      BY <1>1, <3>1, <3>2, <3>5, <3>6 DEF Progress, StatementOK, ReadOK, WrittenOK
    <3>. QED
      BY <1>1, <2>2, <3>1, <3>2, <3>7, StepKeeps DEF Holding
  <2>. QED
    BY <1>2, <2>1, <2>2 DEF CancelLookup
<1>3. CASE CancelFree(r)
  <2>1. /\ pc[r] = "free" /\ job[r].op = "cancel" /\ p \in Email /\ NoWrite(r)
        /\ saw[r].row = CommittedRow(p) /\ p \in Atomic!Active
    BY <1>1, <1>3 DEF CancelFree, At, Progress, StatementOK, ReadOK
  <2>2. [saw[r].row EXCEPT !.status = "CANCELLED", !.pos = NoPos] = Cancelled(p)
    <3>1. [saw[r].row EXCEPT !.status = "CANCELLED", !.pos = NoPos]
            = [status |-> "CANCELLED", pos |-> NoPos, code |-> saw[r].row.code]
      BY <1>1, FreedRow
    <3>2. saw[r].row.code = ticket[p]
      BY <2>1 DEF CommittedRow
    <3>. QED
      BY <3>1, <3>2 DEF Cancelled
  <2>3. /\ \A s \in Req \ {r} : Untouched(s)
        /\ pc'[r] = IF p \in Atomic!Registered THEN "promote" ELSE "commit"
        /\ job'[r] = job[r] /\ eventWrite'[r] = eventWrite[r] /\ mailWrite'[r] = mailWrite[r]
        /\ rowWrite'[r] = [rowWrite[r] EXCEPT ![p] = Cancelled(p)]
    <3>1. saw[r].row.status = "REGISTERED" <=> p \in Atomic!Registered
      BY <2>1 DEF CommittedRow, Atomic!Registered
    <3>. QED
      BY <1>1, <1>3, <2>2, <3>1 DEF CancelFree, WriteRow, Goto, Untouched, TypeOK
  <2>4. UNCHANGED decidedOn /\ UNCHANGED committed /\ eventLock' = eventLock
    BY <1>3 DEF CancelFree, committed, decidedOn, eventVars, rowVars
  <2>5. OnlyRow(r, p, Cancelled(p))'
    <3>1. rowWrite'[r][p] = Cancelled(p) /\ \A q \in Email \ {p} : rowWrite'[r][q] = NotWritten
      BY <1>1, <2>1, <2>3 DEF NoWrite, NoRowWrite, TypeOK
    <3>. QED
      BY <2>3, <2>4, <3>1 DEF OnlyRow, Cancelled, decidedOn
  <2>6. NoEventWrite(r)' /\ NoMail(r)'
    BY <2>1, <2>3 DEF NoWrite, NoEventWrite, NoMail
  <2>7. Atomic!Registered' = Atomic!Registered /\ Atomic!Waiting' = Atomic!Waiting
    BY <2>4, SameDecisions
  <2>8. p \notin Atomic!Registered => DepartureDecided(r)'
    BY <2>1, <2>3, <2>5, <2>6, <2>7 DEF DepartureDecided, Atomic!Active
  <2>9. Progress(r)'
    BY <2>1, <2>3, <2>5, <2>6, <2>7, <2>8 DEF Progress, StatementOK, ReadOK, WrittenOK, Decided
  <2>. QED
    BY <1>1, <2>1, <2>3, <2>4, <2>9, StepKeeps DEF Holding
<1>4. ASSUME pc[r] = "promote"
      PROVE  /\ job[r].op = "cancel" /\ p \in Email /\ p \in Atomic!Registered
             /\ NoEventWrite(r) /\ NoMail(r) /\ OnlyRow(r, p, Cancelled(p))
             /\ Waiting(r) = Atomic!Waiting
             /\ \A h \in Atomic!Waiting : Row(r, h) = CommittedRow(h) /\ h # p
  <2>1. /\ job[r].op = "cancel" /\ p \in Email /\ p \in Atomic!Registered
        /\ NoEventWrite(r) /\ NoMail(r) /\ OnlyRow(r, p, Cancelled(p))
    BY <1>1, <1>4 DEF Progress, StatementOK, WrittenOK
  <2>2. /\ Row(r, p) = Cancelled(p)
        /\ \A q \in Email \ {p} : Row(r, q) = CommittedRow(q)
    BY <2>1 DEF OnlyRow, Row, Cancelled, NotWritten
  <2>3. p \notin Atomic!Waiting
    BY <2>1 DEF Atomic!Registered, Atomic!Waiting
  <2>4. Waiting(r) = Atomic!Waiting
    BY <2>1, <2>2, <2>3 DEF Waiting, Atomic!Waiting, Cancelled, CommittedRow
  <2>. QED
    BY <2>1, <2>2, <2>3, <2>4 DEF Atomic!Waiting
<1>5. CASE PromoteNobody(r)
  <2>1. /\ \A s \in Req \ {r} : Untouched(s)
        /\ pc'[r] = "commit" /\ job'[r] = job[r] /\ pc[r] = "promote"
        /\ rowWrite'[r] = rowWrite[r] /\ eventWrite'[r] = eventWrite[r] /\ mailWrite'[r] = mailWrite[r]
    BY <1>1, <1>5 DEF PromoteNobody, Goto, At, Untouched, TypeOK, writes
  <2>2. UNCHANGED decidedOn /\ UNCHANGED committed /\ eventLock' = eventLock
    BY <1>5 DEF PromoteNobody, committed, decidedOn, eventVars, rowVars
  <2>3. Atomic!Waiting = {}
    BY <1>4, <1>5, <2>1 DEF PromoteNobody
  <2>4. Atomic!Registered' = Atomic!Registered /\ Atomic!Waiting' = {}
    BY <2>2, <2>3, SameDecisions
  <2>5. OnlyRow(r, p, Cancelled(p))'
    BY <1>4, <2>1, <2>2 DEF OnlyRow, Cancelled, decidedOn
  <2>6. DepartureDecided(r)'
    BY <1>4, <2>1, <2>4, <2>5 DEF DepartureDecided, NoEventWrite, NoMail
  <2>7. Progress(r)'
    BY <2>1, <2>6, <1>4 DEF Progress, StatementOK, ReadOK, WrittenOK, Decided
  <2>. QED
    BY <1>1, <2>1, <2>2, <2>7, StepKeeps DEF Holding
<1>6. CASE PromoteHead(r)
  <2> DEFINE promoted(h) == [status |-> "REGISTERED", pos |-> NoPos,
                             code |-> MintedIfNone(Row(r, h).code)]
  <2>1. PICK h \in Email : /\ IsHead(r, h)
                           /\ WriteRow(r, h, promoted(h))
                           /\ RecordMails(r, {PromotedMail(h, promoted(h).code)})
    BY <1>6 DEF PromoteHead
  <2>2. pc[r] = "promote"
    BY <1>6 DEF PromoteHead, At
  <2>3. Atomic!IsHead(h) /\ h # p
    <3>1. h \in Atomic!Waiting /\ \A q \in Atomic!Waiting : Row(r, h).pos <= Row(r, q).pos
      BY <1>4, <2>1, <2>2 DEF IsHead
    <3>2. \A q \in Atomic!Waiting : Row(r, q).pos = waitlistPos[q]
      BY <1>4, <2>2 DEF CommittedRow
    <3>. QED
      BY <1>4, <2>2, <3>1, <3>2 DEF Atomic!IsHead
  <2>4. promoted(h) = Seat(h)
    <3>1. Row(r, h).code = ticket[h]
      BY <1>4, <2>2, <2>3 DEF CommittedRow, Atomic!IsHead
    <3>. QED
      BY <3>1 DEF MintedIfNone, Seat, Atomic!Code
  <2>5. /\ \A s \in Req \ {r} : Untouched(s)
        /\ pc'[r] = "commit" /\ job'[r] = job[r] /\ eventWrite'[r] = eventWrite[r]
        /\ rowWrite'[r] = [rowWrite[r] EXCEPT ![h] = Seat(h)]
    BY <1>1, <1>6, <2>1, <2>4 DEF PromoteHead, WriteRow, Goto, Untouched, RecordMails, TypeOK
  <2>6. mailWrite'[r] = Recorded(emailLog, {PromotedMail(h, Atomic!Code(h))}) \ emailLog
    <3>1. promoted(h).code = Atomic!Code(h)
      BY <2>4 DEF Seat
    <3>. QED
      BY <1>1, <1>4, <2>1, <2>2, <3>1 DEF RecordMails, NoMail, TypeOK
  <2>7. UNCHANGED decidedOn /\ UNCHANGED committed /\ eventLock' = eventLock
    BY <1>6 DEF PromoteHead, committed, decidedOn, eventVars, rowVars
  <2>8. /\ p \in Atomic!Registered' /\ Atomic!IsHead(h)' /\ Atomic!Code(h)' = Atomic!Code(h)
    BY <1>4, <2>2, <2>3, <2>5, <2>7, SameDecisions
  <2>9. /\ rowWrite'[r][p] = Cancelled(p) /\ rowWrite'[r][h] = Seat(h)
        /\ \A q \in Email \ {p, h} : rowWrite'[r][q] = NotWritten
    BY <1>1, <1>4, <2>2, <2>3, <2>5 DEF OnlyRow, TypeOK
  <2>10. Cancelled(p)' = Cancelled(p) /\ Seat(h)' = Seat(h)
    BY <2>5, <2>7, <2>8 DEF Cancelled, Seat, decidedOn
  <2>11. OnlyMails(r, {PromotedMail(h, Atomic!Code(h))})'
    BY <2>6, <2>7, <2>8 DEF OnlyMails, Recorded, decidedOn
  <2>12. HandoverDecided(r)'
    BY <1>4, <2>2, <2>5, <2>8, <2>9, <2>10, <2>11 DEF HandoverDecided, NoEventWrite
  <2>13. Progress(r)'
    BY <1>4, <2>2, <2>5, <2>12 DEF Progress, StatementOK, ReadOK, WrittenOK, Decided
  <2>. QED
    BY <1>1, <2>2, <2>5, <2>7, <2>13, StepKeeps DEF Holding
<1>. QED
  BY <1>2, <1>3, <1>5, <1>6

\* The statements of update() and cancelEvent().
LEMMA OrganizeKeeps ==
  ASSUME TxInv, NEW r \in Req,
         \/ UpdateRead(r) \/ UpdateNotify(r)
         \/ CancelEventRead(r) \/ CancelEventNotify(r)
  PROVE  TxInv'
<1> DEFINE t == job[r].body.startsAt
<1>1. /\ TypeOK /\ TypeOK' /\ Progress(r) /\ saw[r] \in SawType
      /\ pc[r] = "read" => NoWrite(r)
      /\ pc[r] = "notify" => NoRowWrite(r) /\ NoMail(r)
  BY RequestFacts, ProceedTyped DEF Proceed, Progress, WrittenOK
<1>2. CASE UpdateRead(r)
  <2>1. (\A s \in Req \ {r} : Untouched(s)) /\ pc'[r] = "write" /\ job'[r] = job[r]
        /\ NoWrite(r)' = NoWrite(r) /\ pc[r] = "read" /\ job[r].op = "update"
    BY <1>1, <1>2, ReadFrame DEF UpdateRead, At
  <2>2. startsAt \in pastStarts
    BY DEF TxInv, PastOK
  <2>3. saw'[r].start \in pastStarts'
    BY <1>1, <1>2, <2>2 DEF UpdateRead, See, TypeOK, SawType, committed, eventVars
  <2>4. Progress(r)'
    BY <1>1, <2>1, <2>3 DEF Progress, StatementOK, ReadOK, WrittenOK
  <2>. QED
    BY <1>1, <1>2, <2>1, <2>4, StepKeeps DEF UpdateRead, Holding
<1>3. CASE CancelEventRead(r)
  <2>1. CASE Return(r)
    BY <2>1, ReturnKeeps
  <2>2. CASE Goto(r, "write") /\ UNCHANGED <<committed, eventLock, job, saw, writes>>
    <3>1. (\A s \in Req \ {r} : Untouched(s)) /\ pc'[r] = "write" /\ job'[r] = job[r]
          /\ NoWrite(r)' = NoWrite(r) /\ pc[r] = "read" /\ job[r].op = "cancelEvent"
      BY <1>1, <1>3, <2>2, ReadFrame DEF CancelEventRead, At
    <3>2. Progress(r)'
      BY <1>1, <3>1 DEF Progress, StatementOK, ReadOK, WrittenOK
    <3>. QED
      BY <1>1, <2>2, <3>1, <3>2, StepKeeps DEF Holding
  <2>. QED
    BY <1>3, <2>1, <2>2 DEF CancelEventRead
<1>4. ASSUME NEW mails, pc[r] = "notify", RecordMails(r, mails), Goto(r, "commit"),
             UNCHANGED <<committed, eventLock, job, saw, eventWrite, rowWrite>>,
             mailWrite'[r] = Recorded(emailLog, mails) \ emailLog => Decided(r)'
      PROVE  TxInv'
  <2>1. /\ \A s \in Req \ {r} : Untouched(s)
        /\ pc'[r] = "commit" /\ job'[r] = job[r] /\ saw'[r] = saw[r]
        /\ mailWrite'[r] = mailWrite[r] \cup (Recorded(emailLog, mails) \ emailLog)
    BY <1>1, <1>4 DEF RecordMails, Goto, Untouched, TypeOK
  <2>2. mailWrite'[r] = Recorded(emailLog, mails) \ emailLog
    BY <1>1, <1>4, <2>1 DEF NoMail
  <2>3. pastStarts' = pastStarts
    BY <1>4 DEF committed, eventVars
  <2>4. Progress(r)'
    BY <1>1, <1>4, <2>1, <2>2, <2>3 DEF Progress, StatementOK, ReadOK, WrittenOK
  <2>. QED
    BY <1>1, <1>4, <2>1, <2>4, StepKeeps DEF Holding
<1>5. ASSUME pc[r] = "notify", UNCHANGED <<committed, job, saw, eventWrite, rowWrite>>
      PROVE  /\ Seated(r) = Atomic!Registered /\ Waiting(r) = Atomic!Waiting
             /\ Atomic!Registered' = Atomic!Registered /\ Atomic!Active' = Atomic!Active
             /\ NoRowWrite(r)'
             /\ UpdatesEvent(r)' = UpdatesEvent(r) /\ CancelsEvent(r)' = CancelsEvent(r)
  <2>1. Seated(r) = Atomic!Registered /\ Waiting(r) = Atomic!Waiting
    BY <1>1, <1>5, SeesCommitted
  <2>2. Atomic!Registered' = Atomic!Registered /\ Atomic!Active' = Atomic!Active
    BY <1>5, SameDecisions DEF committed, decidedOn, eventVars, rowVars
  <2>. QED
    BY <1>1, <1>5, <2>1, <2>2 DEF NoRowWrite, UpdatesEvent, CancelsEvent
<1>6. CASE UpdateNotify(r)
  <2> DEFINE mails == {RescheduledMail(p, t) : p \in Seated(r)}
  <2>1. /\ pc[r] = "notify" /\ job[r].op = "update" /\ UpdatesEvent(r)
        /\ t \notin {NoTime, saw[r].start}
        /\ UNCHANGED <<committed, eventLock, job, saw, eventWrite, rowWrite>>
    BY <1>1, <1>6 DEF UpdateNotify, At, Progress, WrittenOK
  <2>2. mails = Atomic!UpdateMails(t, saw[r].start)'
    <3>1. Seated(r) = Atomic!Registered'
      BY <1>5, <2>1
    <3>. QED
      BY <2>1, <3>1 DEF Atomic!UpdateMails, Atomic!RescheduledMail, RescheduledMail
  <2>3. ASSUME mailWrite'[r] = Recorded(emailLog, mails) \ emailLog
        PROVE  Decided(r)'
    <3>1. job'[r] = job[r] /\ saw'[r] = saw[r] /\ emailLog' = emailLog
      BY <2>1 DEF committed
    <3>2. OnlyMails(r, Atomic!UpdateMails(t, saw[r].start))'
      BY <2>2, <2>3, <3>1 DEF OnlyMails
    <3>3. UpdatesEvent(r)' /\ NoRowWrite(r)' /\ (job[r].op = "update")'
      BY <1>5, <2>1, <3>1
    <3>. QED
      BY <3>1, <3>2, <3>3 DEF Decided, UpdateDecided
  <2>. QED
    BY <1>4, <1>6, <2>1, <2>3 DEF UpdateNotify
<1>7. CASE CancelEventNotify(r)
  <2> DEFINE mails == {CancelledMail(p) : p \in Seated(r) \cup Waiting(r)}
  <2>1. /\ pc[r] = "notify" /\ job[r].op = "cancelEvent" /\ CancelsEvent(r)
        /\ UNCHANGED <<committed, eventLock, job, saw, eventWrite, rowWrite>>
    BY <1>1, <1>7 DEF CancelEventNotify, At, Progress, WrittenOK
  <2>2. mails = {CancelledMail(p) : p \in Atomic!Active'}
    BY <1>5, <2>1 DEF Atomic!Active
  <2>3. ASSUME mailWrite'[r] = Recorded(emailLog, mails) \ emailLog
        PROVE  Decided(r)'
    <3>1. job'[r] = job[r] /\ emailLog' = emailLog
      BY <2>1 DEF committed
    <3>2. OnlyMails(r, {CancelledMail(p) : p \in Atomic!Active})'
      BY <2>2, <2>3, <3>1 DEF OnlyMails
    <3>3. CancelsEvent(r)' /\ NoRowWrite(r)' /\ (job[r].op = "cancelEvent")'
      BY <1>5, <2>1, <3>1
    <3>. QED
      BY <3>2, <3>3 DEF Decided, CancelEventDecided
  <2>. QED
    BY <1>4, <1>7, <2>1, <2>3 DEF CancelEventNotify
<1>. QED
  BY <1>2, <1>3, <1>6, <1>7

\* The announcements among the mails of a transaction about to commit.
LEMMA DecidedMails ==
  ASSUME TypeOK, NEW r \in Req, Decided(r), NEW m \in mailWrite[r],
         m.type = "EVENT_RESCHEDULED"
  PROVE  m.code = NoCode
<1>1. \A mails : OnlyMails(r, mails) => mailWrite[r] \subseteq mails
  BY RecordedTyped DEF OnlyMails
<1>2. CASE SeatDecided(r)
  BY <1>1, <1>2 DEF SeatDecided, TicketMail
<1>3. CASE QueueDecided(r) \/ DepartureDecided(r)
  BY <1>3 DEF QueueDecided, DepartureDecided, NoMail
<1>4. CASE HandoverDecided(r)
  BY <1>1, <1>4 DEF HandoverDecided, PromotedMail
<1>5. CASE UpdateDecided(r)
  BY <1>1, <1>5 DEF UpdateDecided, Atomic!UpdateMails, Atomic!RescheduledMail
<1>6. CASE CancelEventDecided(r)
  BY <1>1, <1>6 DEF CancelEventDecided, CancelledMail
<1>. QED
  BY <1>2, <1>3, <1>4, <1>5, <1>6 DEF Decided

\* The other requests when one commits: none is past the statement that takes
\* the lock, so none decided on rows that change now.
LEMMA CommitKeeps ==
  ASSUME TxInv, NEW r \in Req, Commit(r)
  PROVE  TxInv'
<1>1. /\ TypeOK /\ TypeOK' /\ Progress(r) /\ pc[r] = "commit" /\ eventLock = r
  BY CommitTyped DEF TxInv, LockOK, Commit, At, Holding
<1>2. /\ \A s \in Req \ {r} : Untouched(s)
      /\ pc'[r] = "idle" /\ "idle" \notin Holding /\ Progress(r)'
  BY <1>1, ForgetStarts DEF Commit
<1>3. LockOK'
  <2>1. eventLock' = NoReq
    BY <1>1 DEF Commit, Released
  <2>2. \A s \in Req : pc'[s] \notin Holding
    BY <1>1, <1>2 DEF TxInv, LockOK, Untouched
  <2>. QED
    BY <2>1, <2>2, NoReqOK DEF LockOK
<1>4. AnnouncementsOK'
  <2>1. Decided(r)
    BY <1>1 DEF Progress, WrittenOK
  <2>2. emailLog' = emailLog \cup mailWrite[r]
    BY DEF Commit
  <2>. QED
    BY <1>1, <2>1, <2>2, DecidedMails DEF TxInv, AnnouncementsOK
<1>5. PastOK' /\ pastStarts \subseteq pastStarts'
  BY DEF Commit, PastOK
<1>6. ASSUME NEW s \in Req \ {r}
      PROVE  Progress(s)'
  <2>1. Progress(s) /\ pc[s] \notin Holding /\ pc[s] \in PC /\ Untouched(s)
    BY <1>1, <1>2 DEF TxInv, LockOK, TypeOK
  <2>2. pc[s] \in {"idle", "lock", "read", "write"} /\ NoWrite(s)
    BY <2>1 DEF Progress, WrittenOK, PC
  <2>3. NoWrite(s)'
    BY <2>1, <2>2 DEF NoWrite, NoEventWrite, NoRowWrite, NoMail, Untouched
  <2>4. StatementOK(s)' /\ WrittenOK(s)'
    BY <2>1, <2>2, <2>3 DEF Progress, StatementOK, WrittenOK, Untouched
  <2>5. ReadOK(s)'
    BY <1>5, <2>1, <2>2 DEF Progress, ReadOK, Untouched
  <2>. QED
    BY <2>4, <2>5 DEF Progress
<1>. QED
  BY <1>1, <1>2, <1>3, <1>4, <1>5, <1>6 DEF TxInv

\* A check-in writes a column nobody decides on.
LEMMA CheckInKeeps ==
  ASSUME TxInv, NEW p \in Email, CheckIn(p)
  PROVE  TxInv'
<1>1. TypeOK'
  BY TypeKept DEF Next
<1>2. UNCHANGED decidedOn /\ \A r \in Req : Untouched(r)
  BY DEF CheckIn, decidedOn, Untouched, writes
<1>3. \A r \in Req : Progress(r)'
  BY <1>2, OthersProgress DEF TxInv
<1>. QED
  BY <1>1, <1>3 DEF TxInv, LockOK, PastOK, AnnouncementsOK, CheckIn, eventVars

LEMMA TxInit ==
  ASSUME Init
  PROVE  TxInv
<1>1. TypeOK
  BY MaxPosOK, ConstantsTyped DEF Init, TypeOK, EventStatus, RegistrationStatus, PC
<1>2. LockOK
  BY NoReqOK DEF Init, LockOK, Holding
<1>3. PastOK /\ AnnouncementsOK
  BY DEF Init, PastOK, AnnouncementsOK
<1>4. \A r \in Req : Progress(r)
  BY DEF Init, Progress, StatementOK, ReadOK, WrittenOK, NoWrite, NoEventWrite, NoRowWrite,
         NoMail, NoJob
<1>. QED
  BY <1>1, <1>2, <1>3, <1>4 DEF TxInv

LEMMA TxNext ==
  ASSUME TxInv, [Next]_vars
  PROVE  TxInv'
<1>1. CASE UNCHANGED vars
  <2>1. UNCHANGED decidedOn /\ \A r \in Req : Untouched(r)
    BY <1>1 DEF vars, committed, eventVars, rowVars, writes, decidedOn, Untouched
  <2>2. \A r \in Req : Progress(r)'
    BY <2>1, OthersProgress DEF TxInv
  <2>. QED
    BY <1>1, <2>2 DEF TxInv, TypeOK, LockOK, PastOK, AnnouncementsOK,
                      vars, committed, eventVars, rowVars, writes
<1>2. ASSUME NEW r \in Req, Proceed(r)
      PROVE  TxInv'
  BY <1>2, RegisterKeeps, CancelKeeps, OrganizeKeeps, CommitKeeps DEF Proceed
<1>3. ASSUME NEW r \in Req, TakesLock(r)
      PROVE  TxInv'
  BY <1>3, TakesLockKeeps
<1>4. ASSUME NEW r \in Req, Abort(r)
      PROVE  TxInv'
  BY <1>4, ReturnKeeps DEF Abort
<1>. QED
  BY <1>1, <1>2, <1>3, <1>4, BeginKeeps, CheckInKeeps DEF Next

LEMMA TxAlways == Spec => []TxInv
BY TxInit, TxNext, PTL DEF Spec

---------------------------------------------------------------------------
(* Theorems about the statements.                                          *)

\* The rows, the jobs and the uncommitted writes stay in their types, under any
\* number of concurrent requests (registrations.service.ts, events.service.ts).
THEOREM TypesHold == Spec => []TypeOK
<1>1. TxInv => TypeOK
  BY DEF TxInv
<1>. QED
  BY <1>1, TxAlways, PTL

\* Uncommitted writes and decisions belong to whoever holds the event's row: the
\* FOR UPDATE of register and cancel, and the UPDATE of the event's row in update
\* and cancelEvent, keep writers apart (registrations.service.ts:82-90, 148-154).
THEOREM WritersExclude == Spec => []OneWriter
<1>1. TxInv => OneWriter
  <2> SUFFICES ASSUME TxInv, NEW r \in Req
               PROVE  /\ At(r, "commit") \/ ~NoEventWrite(r) \/ ~NoMail(r) => eventLock = r
                      /\ ~NoRowWrite(r) => eventLock = r
    BY DEF OneWriter, NoEventWrite, NoMail, NoRowWrite
  <2>1. pc[r] \in PC /\ WrittenOK(r)
    BY RequestFacts DEF Progress
  <2>2. ~NoWrite(r) => pc[r] \in {"promote", "notify", "commit"}
    BY <2>1 DEF WrittenOK, PC, Holding
  <2>. QED
    BY <2>2 DEF TxInv, LockOK, Holding, At, NoWrite
<1>. QED
  BY <1>1, TxAlways, PTL

\* register() places, and cancel() frees, on rows that nobody changed since they
\* were read under the lock (registrations.service.ts:99-112, 159-181).
THEOREM DecisionsAreCurrent == Spec => []DecidedOnCurrentRows
<1>1. TxInv => DecidedOnCurrentRows
  BY DEF TxInv, Progress, StatementOK, ReadOK, DecidedOnCurrentRows, At
<1>. QED
  BY <1>1, TxAlways, PTL

---------------------------------------------------------------------------
(* What a commit makes of the committed rows.                              *)

\* createMany inserts the mails of the transaction that were not there.
LEMMA MailsCommitted ==
  ASSUME NEW r \in Req, NEW mails, OnlyMails(r, mails), Commit(r)
  PROVE  emailLog' = Atomic!Recorded(emailLog, mails)
<1>1. Atomic!Recorded(emailLog, mails) = Recorded(emailLog, mails)
  BY DEF Recorded, Atomic!Recorded, Key, Atomic!Key
<1>2. emailLog' = emailLog \cup (Recorded(emailLog, mails) \ emailLog)
  BY DEF Commit, OnlyMails
<1>. QED
  BY <1>1, <1>2, RecordedTyped

LEMMA NoMailsCommitted ==
  ASSUME NEW r \in Req, NoMail(r), Commit(r)
  PROVE  emailLog' = emailLog
BY DEF Commit, NoMail

\* A transaction that did not touch the event's row leaves its columns.
LEMMA EventKept ==
  ASSUME PastOK, NEW r \in Req, NoEventWrite(r), Commit(r)
  PROVE  UNCHANGED eventVars
BY DEF PastOK, NoEventWrite, EventNotWritten, Commit, Patched, eventVars

LEMMA NoRowsCommitted ==
  ASSUME TypeOK, NEW r \in Req, NoRowWrite(r), Commit(r)
  PROVE  UNCHANGED rowVars
<1>1. \A p \in Email : Row(r, p) = CommittedRow(p)
  BY DEF NoRowWrite, Row
<1>. QED
  BY <1>1 DEF Commit, CommitRows, CommittedRow, TypeOK, rowVars

\* The columns of the rows it wrote replace the committed ones.
LEMMA RowsCommitted ==
  ASSUME TypeOK, NEW r \in Req, NEW p \in Email, NEW q \in Email,
         rowWrite[r][p] \in RowType, rowWrite[r][q] \in RowType,
         \A other \in Email \ {p, q} : rowWrite[r][other] = NotWritten,
         Commit(r)
  PROVE  /\ regStatus' = [regStatus EXCEPT ![p] = rowWrite[r][p].status, ![q] = rowWrite[r][q].status]
         /\ waitlistPos' = [waitlistPos EXCEPT ![p] = rowWrite[r][p].pos, ![q] = rowWrite[r][q].pos]
         /\ ticket' = [ticket EXCEPT ![p] = rowWrite[r][p].code, ![q] = rowWrite[r][q].code]
         /\ checkedIn' = checkedIn
<1>1. NotWritten \notin RowType
  BY RowTyped
<1>2. Row(r, p) = rowWrite[r][p] /\ Row(r, q) = rowWrite[r][q]
  BY <1>1 DEF Row
<1>3. \A other \in Email \ {p, q} : Row(r, other) = CommittedRow(other)
  BY DEF Row
<1>4. /\ \A other \in Email \ {p, q} : /\ Row(r, other).status = regStatus[other]
                                       /\ Row(r, other).pos = waitlistPos[other]
                                       /\ Row(r, other).code = ticket[other]
  BY <1>3 DEF CommittedRow
<1>5. /\ regStatus' = [other \in Email |-> Row(r, other).status]
      /\ waitlistPos' = [other \in Email |-> Row(r, other).pos]
      /\ ticket' = [other \in Email |-> Row(r, other).code]
      /\ checkedIn' = checkedIn
  BY DEF Commit, CommitRows
<1>6. regStatus' = [regStatus EXCEPT ![p] = rowWrite[r][p].status, ![q] = rowWrite[r][q].status]
  BY <1>2, <1>4, <1>5 DEF TypeOK
<1>7. waitlistPos' = [waitlistPos EXCEPT ![p] = rowWrite[r][p].pos, ![q] = rowWrite[r][q].pos]
  BY <1>2, <1>4, <1>5 DEF TypeOK
<1>8. ticket' = [ticket EXCEPT ![p] = rowWrite[r][p].code, ![q] = rowWrite[r][q].code]
  BY <1>2, <1>4, <1>5 DEF TypeOK
<1>. QED
  BY <1>5, <1>6, <1>7, <1>8

LEMMA OneRowCommitted ==
  ASSUME TypeOK, NEW r \in Req, NEW p \in Email, NEW row \in RowType,
         OnlyRow(r, p, row), Commit(r)
  PROVE  /\ regStatus' = [regStatus EXCEPT ![p] = row.status]
         /\ waitlistPos' = [waitlistPos EXCEPT ![p] = row.pos]
         /\ ticket' = [ticket EXCEPT ![p] = row.code]
         /\ checkedIn' = checkedIn
<1>1. NotWritten \notin RowType
  BY RowTyped
<1>2. Row(r, p) = row
  BY <1>1 DEF Row, OnlyRow
<1>3. \A other \in Email \ {p} : /\ Row(r, other).status = regStatus[other]
                                 /\ Row(r, other).pos = waitlistPos[other]
                                 /\ Row(r, other).code = ticket[other]
  BY DEF Row, OnlyRow, CommittedRow
<1>4. /\ regStatus' = [other \in Email |-> Row(r, other).status]
      /\ waitlistPos' = [other \in Email |-> Row(r, other).pos]
      /\ ticket' = [other \in Email |-> Row(r, other).code]
      /\ checkedIn' = checkedIn
  BY DEF Commit, CommitRows
<1>5. regStatus' = [regStatus EXCEPT ![p] = row.status]
  BY <1>2, <1>3, <1>4 DEF TypeOK
<1>6. waitlistPos' = [waitlistPos EXCEPT ![p] = row.pos]
  BY <1>2, <1>3, <1>4 DEF TypeOK
<1>7. ticket' = [ticket EXCEPT ![p] = row.code]
  BY <1>2, <1>3, <1>4 DEF TypeOK
<1>. QED
  BY <1>4, <1>5, <1>6, <1>7

\* The rows a transaction writes are rows of the table.
LEMMA DecidedRowsTyped ==
  ASSUME TypeOK, NEW p \in Email
  PROVE  /\ Cancelled(p) \in RowType
         /\ Seat(p) \in RowType
         /\ \A n \in 1..MaxPos : Place(p, n) \in RowType
<1>1. ticket[p] \in Nat /\ Atomic!Code(p) \in Nat
  BY DEF TypeOK, Atomic!Code
<1>. QED
  BY <1>1, MaxPosOK DEF Cancelled, Seat, Place, RowType, RegistrationStatus

LEMMA CommitsSeat ==
  ASSUME TypeOK, PastOK, NEW r \in Req, job[r].who \in Email, Commit(r), SeatDecided(r)
  PROVE  Atomic!RegisterSeated(job[r].who)
<1> DEFINE p == job[r].who
<1>1. UNCHANGED eventVars
  BY EventKept DEF SeatDecided
<1>2. /\ regStatus' = [regStatus EXCEPT ![p] = Seat(p).status]
      /\ waitlistPos' = [waitlistPos EXCEPT ![p] = Seat(p).pos]
      /\ ticket' = [ticket EXCEPT ![p] = Seat(p).code]
      /\ checkedIn' = checkedIn
  BY DecidedRowsTyped, OneRowCommitted DEF SeatDecided
<1>3. emailLog' = Atomic!Recorded(emailLog, {Atomic!TicketMail(p, Atomic!Code(p))})
  BY MailsCommitted DEF SeatDecided, TicketMail, Atomic!TicketMail
<1>. QED
  BY <1>1, <1>2, <1>3 DEF SeatDecided, Seat, Atomic!RegisterSeated, eventVars, Atomic!eventVars

LEMMA CommitsPlace ==
  ASSUME TypeOK, PastOK, NEW r \in Req, job[r].who \in Email, Commit(r), QueueDecided(r)
  PROVE  Atomic!RegisterWaitlisted(job[r].who)
<1> DEFINE p == job[r].who
<1>1. UNCHANGED eventVars /\ emailLog' = emailLog
  BY EventKept, NoMailsCommitted DEF QueueDecided
<1>2. PICK n \in 1..MaxPos : Atomic!IsTail(n) /\ OnlyRow(r, p, Place(p, n))
  BY DEF QueueDecided
<1>3. /\ regStatus' = [regStatus EXCEPT ![p] = Place(p, n).status]
      /\ waitlistPos' = [waitlistPos EXCEPT ![p] = Place(p, n).pos]
      /\ ticket' = [ticket EXCEPT ![p] = Place(p, n).code]
      /\ checkedIn' = checkedIn
  BY <1>2, DecidedRowsTyped, OneRowCommitted
<1>4. ticket' = ticket
  BY <1>3 DEF Place, TypeOK
<1>. QED
  BY <1>1, <1>2, <1>3, <1>4
  DEF QueueDecided, Place, Atomic!RegisterWaitlisted, eventVars, Atomic!eventVars

LEMMA CommitsDeparture ==
  ASSUME TypeOK, PastOK, NEW r \in Req, job[r].who \in Email, Commit(r), DepartureDecided(r)
  PROVE  Atomic!CancelWaiting(job[r].who) \/ Atomic!CancelLastSeat(job[r].who)
<1> DEFINE p == job[r].who
<1>1. UNCHANGED eventVars /\ emailLog' = emailLog
  BY EventKept, NoMailsCommitted DEF DepartureDecided
<1>2. /\ regStatus' = [regStatus EXCEPT ![p] = Cancelled(p).status]
      /\ waitlistPos' = [waitlistPos EXCEPT ![p] = Cancelled(p).pos]
      /\ ticket' = [ticket EXCEPT ![p] = Cancelled(p).code]
      /\ checkedIn' = checkedIn
  BY DecidedRowsTyped, OneRowCommitted DEF DepartureDecided
<1>3. ticket' = ticket
  BY <1>2 DEF Cancelled, TypeOK
<1>. QED
  BY <1>1, <1>2, <1>3
  DEF DepartureDecided, Cancelled, Atomic!CancelWaiting, Atomic!CancelLastSeat,
      eventVars, Atomic!eventVars

LEMMA CommitsHandover ==
  ASSUME TypeOK, PastOK, NEW r \in Req, job[r].who \in Email, Commit(r), HandoverDecided(r)
  PROVE  \E h \in Email : Atomic!CancelAndPromote(job[r].who, h)
<1> DEFINE p == job[r].who
<1>1. UNCHANGED eventVars
  BY EventKept DEF HandoverDecided
<1>2. PICK h \in Email :
        /\ Atomic!IsHead(h)
        /\ rowWrite[r][p] = Cancelled(p) /\ rowWrite[r][h] = Seat(h)
        /\ \A q \in Email \ {p, h} : rowWrite[r][q] = NotWritten
        /\ OnlyMails(r, {PromotedMail(h, Atomic!Code(h))})
  BY DEF HandoverDecided
<1>3. rowWrite[r][p] \in RowType /\ rowWrite[r][h] \in RowType
  BY <1>2, DecidedRowsTyped
<1>4. /\ regStatus' = [regStatus EXCEPT ![p] = Cancelled(p).status, ![h] = Seat(h).status]
      /\ waitlistPos' = [waitlistPos EXCEPT ![p] = Cancelled(p).pos, ![h] = Seat(h).pos]
      /\ ticket' = [ticket EXCEPT ![p] = Cancelled(p).code, ![h] = Seat(h).code]
      /\ checkedIn' = checkedIn
  BY <1>2, <1>3, RowsCommitted
<1>5. ticket' = [ticket EXCEPT ![h] = Atomic!Code(h)]
  BY <1>4 DEF Cancelled, Seat, TypeOK
<1>6. emailLog' = Atomic!Recorded(emailLog, {Atomic!PromotedMail(h, Atomic!Code(h))})
  BY <1>2, MailsCommitted DEF PromotedMail, Atomic!PromotedMail
<1>7. Atomic!CancelAndPromote(p, h)
  BY <1>1, <1>2, <1>4, <1>5, <1>6
  DEF HandoverDecided, Cancelled, Seat, Atomic!CancelAndPromote, eventVars, Atomic!eventVars
<1>. QED
  BY <1>7

\* An update commits its columns and the mails of the reschedule it took it for.
LEMMA CommitsUpdate ==
  ASSUME TypeOK, NEW r \in Req, job[r] \in Job, saw[r].start \in pastStarts,
         Commit(r), UpdateDecided(r)
  PROVE  \E body \in Atomic!Patch, seen \in pastStarts :
           Atomic!Update(body.capacity, body.startsAt, seen)
<1> DEFINE body == job[r].body
           mails == Atomic!UpdateMails(body.startsAt, saw[r].start)
<1>1. body \in Atomic!Patch
  BY JobTyped DEF Patch, Atomic!Patch
<1>2. /\ eventWrite[r].status = "NONE" /\ eventWrite[r].capacity = body.capacity
      /\ eventWrite[r].startsAt = body.startsAt
  BY DEF UpdateDecided, UpdatesEvent
<1>3. /\ eventStatus' = eventStatus
      /\ capacity' = Atomic!Patched(capacity, body.capacity, NoCapacity)
      /\ startsAt' = Atomic!Patched(startsAt, body.startsAt, NoTime)
      /\ pastStarts' = pastStarts \cup {startsAt'}
  BY <1>2 DEF Commit, Patched, Atomic!Patched
<1>4. UNCHANGED rowVars
  BY NoRowsCommitted DEF UpdateDecided
<1>5. emailLog' = Atomic!Recorded(emailLog, mails)
  BY MailsCommitted DEF UpdateDecided
<1>6. Atomic!Update(body.capacity, body.startsAt, saw[r].start)
  BY <1>3, <1>4, <1>5 DEF Atomic!Update, rowVars, Atomic!rowVars
<1>. QED
  BY <1>1, <1>6

LEMMA CommitsCancelEvent ==
  ASSUME TypeOK, PastOK, NEW r \in Req, Commit(r), CancelEventDecided(r)
  PROVE  Atomic!CancelEvent
<1>1. /\ eventWrite[r].status = "CANCELLED" /\ eventWrite[r].capacity = NoCapacity
      /\ eventWrite[r].startsAt = NoTime
  BY DEF CancelEventDecided, CancelsEvent, EventNotWritten
<1>2. eventStatus' = "CANCELLED" /\ UNCHANGED <<capacity, startsAt, pastStarts>>
  BY <1>1 DEF Commit, Patched, PastOK
<1>3. UNCHANGED rowVars
  BY NoRowsCommitted DEF CancelEventDecided
<1>4. emailLog' = Atomic!Recorded(emailLog, {Atomic!CancelledMail(p) : p \in Atomic!Audience})
  <2>1. {CancelledMail(p) : p \in Atomic!Active} = {Atomic!CancelledMail(p) : p \in Atomic!Audience}
    BY DEF CancelledMail, Atomic!CancelledMail, Atomic!Audience
  <2>2. emailLog' = Atomic!Recorded(emailLog, {CancelledMail(p) : p \in Atomic!Active})
    BY MailsCommitted DEF CancelEventDecided
  <2>. QED
    BY <2>1, <2>2
<1>. QED
  BY <1>2, <1>3, <1>4 DEF Atomic!CancelEvent, rowVars, Atomic!rowVars

\* A commit is one step of Booking.
LEMMA CommitStep ==
  ASSUME TxInv, NEW r \in Req, Commit(r)
  PROVE  Atomic!Next
<1>1. /\ TypeOK /\ PastOK /\ Progress(r) /\ pc[r] = "commit" /\ job[r] \in Job
  BY RequestFacts DEF TxInv, Commit, At
<1>2. Decided(r)
  BY <1>1 DEF Progress, WrittenOK
<1>3. job[r].op \in {"register", "cancel"} => job[r].who \in Email
  BY <1>1, JobTyped
<1>4. CASE SeatDecided(r)
  BY <1>1, <1>3, <1>4, CommitsSeat DEF SeatDecided, Atomic!Next, Atomic!Participate
<1>5. CASE QueueDecided(r)
  BY <1>1, <1>3, <1>5, CommitsPlace DEF QueueDecided, Atomic!Next, Atomic!Participate
<1>6. CASE DepartureDecided(r)
  BY <1>1, <1>3, <1>6, CommitsDeparture DEF DepartureDecided, Atomic!Next, Atomic!Participate
<1>7. CASE HandoverDecided(r)
  BY <1>1, <1>3, <1>7, CommitsHandover DEF HandoverDecided, Atomic!Next, Atomic!Participate
<1>8. CASE UpdateDecided(r)
  <2>1. saw[r].start \in pastStarts
    BY <1>1, <1>8 DEF Progress, ReadOK, UpdateDecided
  <2>. QED
    BY <1>1, <1>8, <2>1, CommitsUpdate DEF Atomic!Next, Atomic!Organize
<1>9. CASE CancelEventDecided(r)
  BY <1>1, <1>9, CommitsCancelEvent DEF Atomic!Next, Atomic!Organize
<1>. QED
  BY <1>2, <1>4, <1>5, <1>6, <1>7, <1>8, <1>9 DEF Decided

\* No other step of a request changes a committed row.
LEMMA OnlyCommitsChangeRows ==
  ASSUME NEW r \in Req, TakesLock(r) \/ Proceed(r) \/ Abort(r), ~Commit(r)
  PROVE  UNCHANGED committed
<1>1. CASE Abort(r) \/ TakesLock(r)
  BY <1>1 DEF Abort, TakesLock, RegisterLock, CancelLock, UpdateWrite, CancelEventWrite, Return
<1>2. CASE RegisterLookup(r) \/ RegisterCount(r) \/ RegisterSeat(r) \/ RegisterQueue(r)
           \/ RegisterQueueFails(r)
  BY <1>2 DEF RegisterLookup, RegisterCount, RegisterSeat, RegisterQueue, RegisterQueueFails, Return
<1>3. CASE CancelLookup(r) \/ CancelFree(r) \/ PromoteNobody(r) \/ PromoteHead(r)
  BY <1>3 DEF CancelLookup, CancelFree, PromoteNobody, PromoteHead, Return
<1>4. CASE UpdateRead(r) \/ UpdateNotify(r) \/ CancelEventRead(r) \/ CancelEventNotify(r)
  BY <1>4 DEF UpdateRead, UpdateNotify, CancelEventRead, CancelEventNotify, Return
<1>. QED
  BY <1>1, <1>2, <1>3, <1>4 DEF Proceed

LEMMA StepImplements ==
  ASSUME TxInv, [Next]_vars
  PROVE  [Atomic!Next]_(Atomic!vars)
<1>1. UNCHANGED committed => UNCHANGED Atomic!vars
  BY DEF committed, eventVars, rowVars, Atomic!vars, Atomic!eventVars, Atomic!rowVars
<1>2. ASSUME NEW p \in Email, CheckIn(p)
      PROVE  Atomic!Next
  <2>1. Atomic!CheckIn(p)
    BY <1>2 DEF CheckIn, Atomic!CheckIn, Atomic!Registered, eventVars, Atomic!eventVars,
                Atomic!NoCode
  <2>. QED
    BY <2>1 DEF Atomic!Next
<1>3. ASSUME NEW r \in Req, NEW j \in Job, Begin(r, j)
      PROVE  UNCHANGED committed
  BY <1>3 DEF Begin
<1>4. UNCHANGED vars => UNCHANGED committed
  BY DEF vars
<1>. QED
  BY <1>1, <1>2, <1>3, <1>4, CommitStep, OnlyCommitsChangeRows DEF Next

\* The transactions, interleaved statement by statement and aborted at any
\* point, change the committed rows as Booking's one-step transactions do:
\* every result about Booking holds of them (docs/ARCHITECTURE.md:254-289).
THEOREM ImplementsBooking == Spec => Serialized
<1>1. Init => Atomic!Init
  BY DEF Init, Atomic!Init
<1>2. TxInv /\ [Next]_vars => [Atomic!Next]_(Atomic!vars)
  BY StepImplements
<1>. QED
  BY <1>1, <1>2, TxAlways, PTL DEF Spec, Serialized, Atomic!Spec

---------------------------------------------------------------------------
(* Moves are announced.                                                    *)

\* Two announcements with one deduplication key are the same e-mail.
LEMMA KeyNamesAnnouncement ==
  ASSUME NEW m \in Mail, NEW p \in Email, NEW t \in StartTime \cup {NoTime},
         Key(m) = Key(RescheduledMail(p, t)), m.code = NoCode
  PROVE  m = RescheduledMail(p, t)
BY DEF Mail, Key, RescheduledMail

\* An update that read the start it replaces commits with the e-mails about the
\* new start recorded for all who have a seat then: seats cannot change between
\* its notification and its commit, and a mail it skips as a duplicate is the
\* same announcement (events.service.ts:135-160, email.service.ts:24-28).
THEOREM MovesAreAnnounced == Spec => FreshMoveIsAnnounced
<1>1. ASSUME TxInv, [Next]_vars, NEW r \in Req,
             At(r, "commit"), saw[r].start = startsAt, startsAt' # startsAt,
             NEW p \in Atomic!Registered
      PROVE  RescheduledMail(p, startsAt') \in emailLog'
  <2> DEFINE t == job[r].body.startsAt
             mails == Atomic!UpdateMails(t, saw[r].start)
  <2>1. Commit(r)
    <3>1. PICK s \in Req : Commit(s)
      BY <1>1, OnlyCommitsChangeRows
      DEF Next, vars, committed, eventVars, Begin, CheckIn
    <3>2. eventLock = r /\ eventLock = s
      BY <1>1, <3>1 DEF TxInv, LockOK, Commit, At, Holding
    <3>. QED
      BY <3>1, <3>2
  <2>2. /\ TypeOK /\ TypeOK' /\ Progress(r) /\ AnnouncementsOK /\ Decided(r)
        /\ t \in StartTime \cup {NoTime} /\ p \in Email
    BY <1>1, <2>1, CommitTyped, RequestFacts, JobTyped
    DEF TxInv, Progress, WrittenOK, At, Atomic!Registered
  <2>3. eventWrite[r].startsAt # NoTime /\ startsAt' = eventWrite[r].startsAt
    BY <1>1, <2>1 DEF Commit, Patched
  <2>4. UpdateDecided(r)
    BY <2>2, <2>3 DEF Decided, SeatDecided, QueueDecided, DepartureDecided, HandoverDecided,
                      CancelEventDecided, CancelsEvent, NoEventWrite, EventNotWritten
  <2>5. startsAt' = t /\ t \notin {NoTime, saw[r].start}
    BY <1>1, <2>3, <2>4 DEF UpdateDecided, UpdatesEvent
  <2>6. RescheduledMail(p, t) \in mails
    BY <1>1, <2>5 DEF Atomic!UpdateMails, Atomic!RescheduledMail, RescheduledMail
  <2>7. emailLog' = Recorded(emailLog, mails)
    <3>1. emailLog' = emailLog \cup (Recorded(emailLog, mails) \ emailLog)
      BY <2>1, <2>4 DEF Commit, UpdateDecided, OnlyMails
    <3>. QED
      BY <3>1, RecordedTyped
  <2>8. CASE RescheduledMail(p, t) \in emailLog'
    BY <2>5, <2>8
  <2>9. CASE RescheduledMail(p, t) \notin emailLog'
    <3>1. PICK n \in emailLog : Key(n) = Key(RescheduledMail(p, t))
      BY <2>6, <2>7, <2>9 DEF Recorded
    <3>2. n \in Mail /\ n.type = "EVENT_RESCHEDULED"
      BY <2>2, <3>1 DEF TypeOK, Key, RescheduledMail
    <3>3. n = RescheduledMail(p, t)
      BY <2>2, <3>1, <3>2, KeyNamesAnnouncement DEF AnnouncementsOK
    <3>. QED
      BY <2>7, <2>9, <3>3, RecordedTyped
  <2>. QED
    BY <2>8, <2>9
<1>2. TxInv /\ [Next]_vars =>
        [\A r \in Req :
           At(r, "commit") /\ saw[r].start = startsAt /\ startsAt' # startsAt =>
             \A p \in Atomic!Registered : RescheduledMail(p, startsAt') \in emailLog']_vars
  BY <1>1
<1>. QED
  BY <1>2, TxAlways, PTL DEF Spec, FreshMoveIsAnnounced

---------------------------------------------------------------------------
(* What is proved of Booking holds between the statements.                 *)

Rows == INSTANCE Booking_proofs

LEMMA SameRecords ==
  /\ \A log, mails : Atomic!Recorded(log, mails) = Rows!Recorded(log, mails)
  /\ \A p, x : /\ Atomic!TicketMail(p, x) = Rows!TicketMail(p, x)
               /\ Atomic!PromotedMail(p, x) = Rows!PromotedMail(p, x)
               /\ Atomic!RescheduledMail(p, x) = Rows!RescheduledMail(p, x)
               /\ Atomic!CancelledMail(p) = Rows!CancelledMail(p)
  /\ \A old, new, absent : Atomic!Patched(old, new, absent) = Rows!Patched(old, new, absent)
  /\ Atomic!Patch = Rows!Patch
BY DEF Atomic!Recorded, Rows!Recorded, Atomic!Key, Rows!Key, Atomic!TicketMail, Rows!TicketMail,
       Atomic!PromotedMail, Rows!PromotedMail, Atomic!RescheduledMail, Rows!RescheduledMail,
       Atomic!CancelledMail, Rows!CancelledMail, Atomic!Patched, Rows!Patched, Atomic!Patch, Rows!Patch,
       Rows!NoCode, Rows!NoCapacity

LEMMA SameState ==
  /\ Atomic!Registered = Rows!Registered /\ Atomic!Waiting = Rows!Waiting /\ Atomic!Active = Rows!Active
  /\ Atomic!HasCapacity <=> Rows!HasCapacity
  /\ \A p : /\ Atomic!IsHead(p) <=> Rows!IsHead(p)
            /\ Atomic!IsTail(p) <=> Rows!IsTail(p)
            /\ Atomic!MayRegister(p) <=> Rows!MayRegister(p)
            /\ Atomic!Code(p) = Rows!Code(p)
<1>1. Atomic!Registered = Rows!Registered /\ Atomic!Waiting = Rows!Waiting /\ Atomic!Active = Rows!Active
  BY DEF Atomic!Registered, Rows!Registered, Atomic!Waiting, Rows!Waiting, Atomic!Active, Rows!Active
<1>2. Atomic!HasCapacity <=> Rows!HasCapacity
  <2>1. Atomic!Cardinality(Rows!Registered) = Rows!Cardinality(Rows!Registered)
    BY DEF Atomic!Cardinality, Rows!Cardinality
  <2>. QED
    BY <1>1, <2>1 DEF Atomic!HasCapacity, Rows!HasCapacity
<1>3. ASSUME NEW p
      PROVE  /\ Atomic!IsHead(p) <=> Rows!IsHead(p)
             /\ Atomic!IsTail(p) <=> Rows!IsTail(p)
             /\ Atomic!MayRegister(p) <=> Rows!MayRegister(p)
  BY <1>1 DEF Atomic!IsHead, Rows!IsHead, Atomic!IsTail, Rows!IsTail,
              Atomic!MayRegister, Rows!MayRegister
<1>4. ASSUME NEW p
      PROVE  Atomic!Code(p) = Rows!Code(p)
  BY DEF Atomic!Code, Rows!Code, Rows!NoCode
<1>. QED
  BY <1>1, <1>2, <1>3, <1>4

LEMMA SameStep == [Atomic!Next]_(Atomic!vars) => [Rows!Next]_(Rows!vars)
<1> USE SameRecords, SameState
    DEF Rows!NoCapacity, Rows!NoPos, Rows!NoCode, Atomic!eventVars, Rows!eventVars,
        Atomic!rowVars, Rows!rowVars
<1>1. ASSUME NEW p \in Email, Atomic!RegisterSeated(p)
      PROVE  Rows!RegisterSeated(p)
  BY <1>1 DEF Atomic!RegisterSeated, Rows!RegisterSeated
<1>2. ASSUME NEW p \in Email, Atomic!RegisterWaitlisted(p)
      PROVE  Rows!RegisterWaitlisted(p)
  BY <1>2 DEF Atomic!RegisterWaitlisted, Rows!RegisterWaitlisted
<1>3. ASSUME NEW p \in Email, Atomic!CancelWaiting(p)
      PROVE  Rows!CancelWaiting(p)
  BY <1>3 DEF Atomic!CancelWaiting, Rows!CancelWaiting
<1>4. ASSUME NEW p \in Email, Atomic!CancelLastSeat(p)
      PROVE  Rows!CancelLastSeat(p)
  BY <1>4 DEF Atomic!CancelLastSeat, Rows!CancelLastSeat
<1>5. ASSUME NEW p \in Email, NEW h \in Email, Atomic!CancelAndPromote(p, h)
      PROVE  Rows!CancelAndPromote(p, h)
  BY <1>5 DEF Atomic!CancelAndPromote, Rows!CancelAndPromote
<1>6. ASSUME NEW c, NEW t, NEW seen, Atomic!Update(c, t, seen)
      PROVE  Rows!Update(c, t, seen)
  BY <1>6 DEF Atomic!Update, Rows!Update, Atomic!UpdateMails, Rows!UpdateMails
<1>7. ASSUME Atomic!CancelEvent
      PROVE  Rows!CancelEvent
  BY <1>7 DEF Atomic!CancelEvent, Rows!CancelEvent, Atomic!Audience, Rows!Audience
<1>8. ASSUME NEW p \in Email, Atomic!CheckIn(p)
      PROVE  Rows!CheckIn(p)
  BY <1>8 DEF Atomic!CheckIn, Rows!CheckIn
<1>9. Atomic!Participate => Rows!Participate
  BY <1>1, <1>2, <1>3, <1>4, <1>5 DEF Atomic!Participate, Rows!Participate
<1>10. Atomic!Organize => Rows!Organize
  BY <1>6, <1>7 DEF Atomic!Organize, Rows!Organize
<1>11. Atomic!Next => Rows!Next
  BY <1>8, <1>9, <1>10 DEF Atomic!Next, Rows!Next
<1>12. Atomic!vars' = Atomic!vars => Rows!vars' = Rows!vars
  BY DEF Atomic!vars, Rows!vars
<1>. QED
  BY <1>11, <1>12

\* The assumptions of Schema, as this instance of Booking states them.
LEMMA RowsAssumed ==
  /\ Rows!IsFiniteSet(Email) /\ NoTime \notin StartTime
  /\ Capacity \subseteq Nat \ {0} /\ MaxPos \in Nat \ {0}
BY EmailFinite, TimeAbsent, CapacityOK, MaxPosOK DEF Rows!IsFiniteSet, IsFiniteSet

LEMMA RowsMove == Spec => Rows!Spec
<1>1. Atomic!Init => Rows!Init
  BY DEF Atomic!Init, Rows!Init, Rows!NoPos, Rows!NoCode
<1>. QED
  BY <1>1, SameStep, ImplementsBooking, PTL DEF Serialized, Atomic!Spec, Rows!Spec

\* However the statements of however many requests interleave, and wherever they
\* are aborted: the waiting have distinct positions, whoever is seated or checked
\* in was mailed the code of the ticket, and a cancellation has told everybody
\* (registrations.service.ts:81-126, 150-190; events.service.ts:77-107, 137-160).
THEOREM StatementsKeepTheRows ==
  Spec => [](/\ Rows!QueueOK /\ Rows!MailedCodeIsCurrent /\ Rows!EverySeatHasItsCode
             /\ Rows!CheckedInHeldASeat /\ Rows!CancelledEventAnnounced)
<1>1. Rows!Spec => []Rows!QueueOK
  BY RowsAssumed, Rows!QueueKept
<1>2. Rows!Spec => []Rows!MailedCodeIsCurrent
  BY RowsAssumed, Rows!MailedCodesStayCurrent
<1>3. Rows!Spec => []Rows!EverySeatHasItsCode
  BY RowsAssumed, Rows!SeatsAreCovered
<1>4. Rows!Spec => []Rows!CheckedInHeldASeat
  BY RowsAssumed, Rows!CheckInsAreCovered
<1>5. Rows!Spec => []Rows!CancelledEventAnnounced
  BY RowsAssumed, Rows!CancellationReachesEveryone
<1>. QED
  BY <1>1, <1>2, <1>3, <1>4, <1>5, RowsMove, PTL

\* Nor does any statement of any request seat somebody past the capacity then in
\* force, or out of turn; and none but a raise of the capacity leaves a seat idle
\* while somebody waits (registrations.service.ts:81-126, 211-246).
THEOREM StatementsKeepTheSeats ==
  Spec => Rows!NeverAdmitsPastCapacity /\ Rows!OnlyARaiseIdlesASeat /\ Rows!KeepsPromise
<1>1. Rows!Spec => Rows!NeverAdmitsPastCapacity
  BY RowsAssumed, Rows!NoAdmissionPastCapacity
<1>2. Rows!Spec => Rows!OnlyARaiseIdlesASeat
  BY RowsAssumed, Rows!OnlyRaisesIdleSeats
<1>3. Rows!Spec => Rows!KeepsPromise
  BY RowsAssumed, Rows!PromiseKept
<1>. QED
  BY <1>1, <1>2, <1>3, RowsMove, PTL

\* A cancellation that commits in an event already cancelled changes no row:
\* everyone still in the event has the e-mail, whose key the second one repeats,
\* and its writes are those of the first (events.service.ts:67-105,
\* email.service.ts:24-28).
THEOREM SecondCancellationIsSilent == Spec => SecondCancellationMailsNobody
<1>1. ASSUME TxInv, Rows!CancelledEventAnnounced, NEW r \in Req,
             Commit(r), job[r].op = "cancelEvent", eventStatus = "CANCELLED"
      PROVE  UNCHANGED committed
  <2>1. TypeOK /\ PastOK /\ CancelEventDecided(r)
    BY <1>1 DEF TxInv, Progress, WrittenOK, Commit, At, Decided, SeatDecided, QueueDecided,
                DepartureDecided, HandoverDecided, UpdateDecided
  <2>2. UNCHANGED <<eventStatus, capacity, startsAt, pastStarts>>
    BY <1>1, <2>1 DEF Commit, CancelEventDecided, CancelsEvent, EventNotWritten, Patched, PastOK
  <2>3. UNCHANGED rowVars
    BY <1>1, <2>1, NoRowsCommitted DEF Commit, CancelEventDecided
  <2>4. emailLog' = emailLog
    <3>1. \A p \in Atomic!Active : CancelledMail(p) \in emailLog
      BY <1>1 DEF Rows!CancelledEventAnnounced, Rows!Active, Rows!Registered, Rows!Waiting,
                  Atomic!Active, Atomic!Registered, Atomic!Waiting,
                  Rows!CancelledMail, CancelledMail, Rows!NoCode
    <3>2. Recorded(emailLog, {CancelledMail(p) : p \in Atomic!Active}) = emailLog
      BY <3>1 DEF Recorded
    <3>. QED
      BY <1>1, <2>1, <3>2 DEF Commit, CancelEventDecided, OnlyMails
  <2>. QED
    BY <2>2, <2>3, <2>4 DEF committed, eventVars, rowVars
<1>2. Spec => []Rows!CancelledEventAnnounced
  BY StatementsKeepTheRows, PTL
<1>3. TxInv /\ Rows!CancelledEventAnnounced
        => \A r \in Req : Commit(r) /\ job[r].op = "cancelEvent" /\ eventStatus = "CANCELLED"
             => UNCHANGED committed
  BY <1>1
<1>. QED
  BY <1>2, <1>3, TxAlways, PTL DEF SecondCancellationMailsNobody
===========================================================================
