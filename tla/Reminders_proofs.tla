-------------------------- MODULE Reminders_proofs --------------------------
(***************************************************************************)
(* Theorems about Reminders for every set of addresses and ticks, every    *)
(* window and every set of starts the event may be moved to.               *)
(***************************************************************************)
EXTENDS Reminders, Booking_proofs

(***************************************************************************)
(* What is true between the statements of a tick: those who stayed since   *)
(* it found the event have a seat, those it listed have been mailed a code,*)
(* and once it has listed, the list holds everyone who stayed.             *)
(***************************************************************************)
Mailed == {p \in Email : CodeMails(p) # {}}

ReminderInv ==
  /\ \A k \in Tick : stayed[k] \subseteq Registered
  /\ \A k \in Tick : doing[k] = "record" => stayed[k] \subseteq list[k]
  /\ \A k \in Tick : list[k] \subseteq Mailed
  /\ reminders \subseteq Mailed

LEMMA ReminderStep ==
  ASSUME [ReminderNext]_reminderVars
  PROVE  [Next]_vars
<1>1. ASSUME NEW k \in Tick, Run(k) \/ Fail(k)
      PROVE  UNCHANGED vars
  BY <1>1 DEF Run, FindEvent, ListNobody, ListRegistered, Record, Fail
<1>2. ASSUME Clock
      PROVE  UNCHANGED vars
  BY <1>2 DEF Clock
<1>. QED
  BY <1>1, <1>2 DEF ReminderNext, reminderVars, Next

\* The job changes no row that Booking's transactions decide on, so every
\* theorem about Booking holds with the job running.
THEOREM RemindersKeepBooking == ReminderSpec => Spec
<1>1. ReminderInit => Init
  BY DEF ReminderInit
<1>. QED
  BY <1>1, ReminderStep, PTL DEF ReminderSpec, Spec

\* E-mail rows are never deleted, so whoever was mailed a code stays so.
LEMMA MailedGrows ==
  ASSUME emailLog \subseteq emailLog'
  PROVE  Mailed \subseteq Mailed'
BY DEF Mailed, CodeMails

LEMMA LogGrows ==
  ASSUME [Next]_vars
  PROVE  emailLog \subseteq emailLog'
<1>1. ASSUME NEW p \in Email,
             RegisterSeated(p) \/ RegisterWaitlisted(p) \/ CancelWaiting(p)
               \/ CancelLastSeat(p) \/ CheckIn(p)
      PROVE  emailLog \subseteq emailLog'
  BY <1>1, RecordedFacts
     DEF RegisterSeated, RegisterWaitlisted, CancelWaiting, CancelLastSeat, CheckIn
<1>2. ASSUME NEW p \in Email, NEW h \in Email, CancelAndPromote(p, h)
      PROVE  emailLog \subseteq emailLog'
  BY <1>2, RecordedFacts DEF CancelAndPromote
<1>3. ASSUME Organize
      PROVE  emailLog \subseteq emailLog'
  BY <1>3, RecordedFacts DEF Organize, Update, CancelEvent
<1>4. CASE UNCHANGED vars
  BY <1>4 DEF vars
<1>. QED
  BY <1>1, <1>2, <1>3, <1>4 DEF Next, Participate

\* A seat implies a mailed code.
LEMMA SeatedAreMailed == EverySeatHasItsCode => Registered \subseteq Mailed
BY DEF EverySeatHasItsCode, Mailed, Registered

LEMMA ReminderTypeInit == ReminderInit => ReminderTypeOK
BY HorizonOK DEF ReminderInit, ReminderTypeOK

LEMMA ReminderTypeNext == ReminderTypeOK /\ [ReminderNext]_reminderVars => ReminderTypeOK'
<1> SUFFICES ASSUME ReminderTypeOK, [ReminderNext]_reminderVars
             PROVE  ReminderTypeOK'
  OBVIOUS
<1> USE DEF ReminderTypeOK
<1>1. ASSUME NEW k \in Tick, FindEvent(k)
      PROVE  ReminderTypeOK'
  BY <1>1 DEF FindEvent, Goto, Registered
<1>2. ASSUME NEW k \in Tick, ListRegistered(k)
      PROVE  ReminderTypeOK'
  BY <1>2 DEF ListRegistered, Goto, ToRemind, Registered
<1>3. ASSUME NEW k \in Tick, End(k), now' = now, reminders' \subseteq Email
      PROVE  ReminderTypeOK'
  BY <1>3 DEF End, Goto
<1>4. ASSUME NEW k \in Tick, ListNobody(k) \/ Fail(k)
      PROVE  ReminderTypeOK'
  BY <1>4, <1>3 DEF ListNobody, Fail
<1>5. ASSUME NEW k \in Tick, Record(k)
      PROVE  ReminderTypeOK'
  <2>1. Insert(list[k]) \subseteq Email
    BY DEF Insert
  <2>. QED
    BY <1>5, <2>1, <1>3 DEF Record
<1>6. CASE Clock
  BY <1>6, HorizonOK DEF Clock, tickVars
<1>7. CASE (Participate \/ Organize) /\ StillSeated /\ UNCHANGED <<now, reminders, tickVars>>
  BY <1>7 DEF StillSeated, tickVars
<1>8. CASE UNCHANGED reminderVars
  BY <1>8 DEF reminderVars, tickVars
<1>. QED
  BY <1>1, <1>2, <1>4, <1>5, <1>6, <1>7, <1>8 DEF ReminderNext, Run

\* The clock stays within its bound, the lists hold addresses.
THEOREM ReminderTypeCorrect == ReminderSpec => []ReminderTypeOK
BY ReminderTypeInit, ReminderTypeNext, PTL DEF ReminderSpec

LEMMA ReminderInvInit == ReminderInit => ReminderInv
BY DEF ReminderInit, ReminderInv, Registered

LEMMA ReminderInvNext ==
  ASSUME ReminderTypeOK, ReminderTypeOK', EverySeatHasItsCode, ReminderInv,
         [ReminderNext]_reminderVars
  PROVE  ReminderInv'
<1> USE DEF ReminderInv
<1>0. Mailed \subseteq Mailed'
  BY ReminderStep, LogGrows, MailedGrows
<1>1. ASSUME NEW k \in Tick, FindEvent(k)
      PROVE  ReminderInv'
  <2>1. Registered' = Registered
    BY <1>1 DEF FindEvent, vars, rowVars, Registered
  <2>. QED
    BY <1>0, <1>1, <2>1 DEF FindEvent, Goto, ReminderTypeOK
<1>2. ASSUME NEW k \in Tick, ListRegistered(k)
      PROVE  ReminderInv'
  <2>1. Registered' = Registered
    BY <1>2 DEF ListRegistered, vars, rowVars, Registered
  <2>2. ToRemind \subseteq Mailed /\ stayed[k] \subseteq ToRemind
    BY SeatedAreMailed DEF ToRemind
  <2>. QED
    BY <1>0, <1>2, <2>1, <2>2 DEF ListRegistered, Goto, ReminderTypeOK
<1>3. ASSUME NEW k \in Tick, End(k), UNCHANGED vars,
             reminders' \subseteq Mailed
      PROVE  ReminderInv'
  <2>1. Registered' = Registered
    BY <1>3 DEF vars, rowVars, Registered
  <2>. QED
    BY <1>0, <1>3, <2>1 DEF End, Goto, ReminderTypeOK
<1>4. ASSUME NEW k \in Tick, ListNobody(k) \/ Fail(k)
      PROVE  ReminderInv'
  BY <1>4, <1>3 DEF ListNobody, Fail
<1>5. ASSUME NEW k \in Tick, Record(k)
      PROVE  ReminderInv'
  <2>1. reminders' \subseteq Mailed
    BY <1>5 DEF Record, Insert
  <2>. QED
    BY <1>5, <2>1, <1>3 DEF Record
<1>6. CASE Clock
  <2>1. Registered' = Registered
    BY <1>6 DEF Clock, vars, rowVars, Registered
  <2>. QED
    BY <1>0, <1>6, <2>1 DEF Clock, tickVars
<1>7. CASE (Participate \/ Organize) /\ StillSeated /\ UNCHANGED <<now, reminders, tickVars>>
  BY <1>0, <1>7 DEF StillSeated, tickVars
<1>8. CASE UNCHANGED reminderVars
  <2>1. Registered' = Registered
    BY <1>8 DEF reminderVars, vars, rowVars, Registered
  <2>. QED
    BY <1>0, <1>8, <2>1 DEF reminderVars, tickVars
<1>. QED
  BY <1>1, <1>2, <1>4, <1>5, <1>6, <1>7, <1>8 DEF ReminderNext, Run

LEMMA ReminderInvKept == ReminderSpec => [](ReminderTypeOK /\ ReminderInv)
<1>1. ReminderSpec => []EverySeatHasItsCode
  BY RemindersKeepBooking, SeatsAreCovered, PTL
<1>2. ReminderSpec => []ReminderTypeOK
  BY ReminderTypeCorrect
<1>3. ReminderTypeOK /\ ReminderTypeOK' /\ EverySeatHasItsCode /\ ReminderInv
        /\ [ReminderNext]_reminderVars => ReminderInv'
  BY ReminderInvNext
<1>. QED
  BY <1>1, <1>2, <1>3, ReminderInvInit, PTL DEF ReminderSpec

\* Whoever is reminded was given a seat and mailed its code.
THEOREM RemindedHeldASeat == ReminderSpec => []OnlyTheSeatedAreReminded
<1>1. ReminderInv => OnlyTheSeatedAreReminded
  BY DEF ReminderInv, OnlyTheSeatedAreReminded, Mailed
<1>. QED
  BY <1>1, ReminderInvKept, PTL

\* A tick that completes reminds everyone who kept a seat throughout it.
THEOREM TicksMissNobody == ReminderSpec => TickMissesNobody
<1>1. ReminderTypeOK /\ ReminderInv
        => \A k \in Tick : Record(k) => stayed[k] \subseteq reminders'
  BY DEF Record, Insert, ReminderInv
<1>. QED
  BY <1>1, ReminderInvKept, PTL DEF ReminderSpec, TickMissesNobody

LEMMA CancelledStays ==
  ASSUME eventStatus = "CANCELLED", [Next]_vars
  PROVE  eventStatus' = "CANCELLED"
<1>1. ASSUME NEW p \in Email,
             RegisterSeated(p) \/ RegisterWaitlisted(p) \/ CancelWaiting(p)
               \/ CancelLastSeat(p) \/ CheckIn(p)
      PROVE  eventStatus' = "CANCELLED"
  BY <1>1 DEF RegisterSeated, RegisterWaitlisted, CancelWaiting, CancelLastSeat, CheckIn, eventVars
<1>2. ASSUME NEW p \in Email, NEW h \in Email, CancelAndPromote(p, h)
      PROVE  eventStatus' = "CANCELLED"
  BY <1>2 DEF CancelAndPromote, eventVars
<1>3. ASSUME Organize
      PROVE  eventStatus' = "CANCELLED"
  BY <1>3 DEF Organize, Update, CancelEvent, Patched
<1>4. CASE UNCHANGED vars
  BY <1>4 DEF vars, eventVars
<1>. QED
  BY <1>1, <1>2, <1>3, <1>4 DEF Next, Participate

LEMMA StoppedStays ==
  ASSUME NEW people \in SUBSET Email, Stopped(people), [ReminderNext]_reminderVars
  PROVE  Stopped(people)'
<1> USE DEF Stopped
<1>0. eventStatus' = "CANCELLED"
  BY CancelledStays, ReminderStep
<1>1. ASSUME NEW k \in Tick, Run(k) \/ Fail(k)
      PROVE  FALSE
  BY <1>1 DEF Run, FindEvent, InWindow, ListNobody, ListRegistered, Record, Fail
<1>2. CASE Clock \/ ((Participate \/ Organize) /\ StillSeated
                       /\ UNCHANGED <<now, reminders, tickVars>>) \/ UNCHANGED reminderVars
  BY <1>0, <1>2 DEF Clock, tickVars, reminderVars
<1>. QED
  BY <1>1, <1>2 DEF ReminderNext

\* Nobody is reminded of a cancelled event by a tick that begins later.
THEOREM CancellationIsFinal == ReminderSpec => CancellationEndsReminders
<1>1. ASSUME NEW people \in SUBSET Email
      PROVE  ReminderSpec => [](Stopped(people) => []Stopped(people))
  <2>1. Stopped(people) /\ [ReminderNext]_reminderVars => Stopped(people)'
    BY StoppedStays
  <2>. QED
    BY <2>1, PTL DEF ReminderSpec
<1>. QED
  BY <1>1 DEF CancellationEndsReminders
===========================================================================
