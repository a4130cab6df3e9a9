------------------------------ MODULE Reminders ------------------------------
(***************************************************************************)
(* The reminder job of scheduler/reminder.service.ts for one event.  Every *)
(* minute a tick looks for ACTIVE events that start within the window and, *)
(* in a transaction per event, lists the REGISTERED rows and inserts a     *)
(* reminder for each, skipping those whose deduplicationKey exists.  A     *)
(* tick is not waited for by the next one, may fail anywhere, and the      *)
(* transactions of Booking run between its statements.  Check-ins write no *)
(* column the job reads and are left out.                                  *)
(*                                                                         *)
(* WindowIsExact, WindowOfAnyEvent, EveryActiveRow and InsertOncePerEvent   *)
(* are mistakes one could make in the definition that follows each;        *)
(* ReminderNext uses none.                                                 *)
(***************************************************************************)
EXTENDS Booking

CONSTANTS Tick,       \* ticks of the job in progress at once
          Window,     \* windowHours, in units of the clock
          Horizon     \* bound: where the clock of the model ends

ASSUME StartsAreTimes == StartTime \subseteq Nat
ASSUME WindowOK       == Window \in Nat \ {0}
ASSUME HorizonOK      == Horizon \in Nat

VARIABLES now,        \* the clock of the backend
          reminders,  \* who has the row event-reminder:<event>:<reg> in EmailLog
          doing,      \* the next statement of each tick
          list,       \* the registrations its findMany returned
          stayed      \* who has had a seat ever since the tick found the event

tickVars     == <<doing, list>>
reminderVars == <<vars, now, reminders, tickVars, stayed>>

ReminderTypeOK ==
  /\ now \in 0..Horizon
  /\ reminders \subseteq Email
  /\ doing \in [Tick -> {"idle", "list", "record"}]
  /\ list \in [Tick -> SUBSET Email]
  /\ stayed \in [Tick -> SUBSET Email]

ReminderInit ==
  /\ Init
  /\ now = 0
  /\ reminders = {}
  /\ doing = [k \in Tick |-> "idle"]
  /\ list = [k \in Tick |-> {}]
  /\ stayed = [k \in Tick |-> {}]

---------------------------------------------------------------------------
\* The event is among those processReminders() finds.
WindowIsExact    == eventStatus = "ACTIVE" /\ startsAt = now + Window
WindowOfAnyEvent == startsAt > now /\ startsAt <= now + Window
InWindow         == eventStatus = "ACTIVE" /\ startsAt > now /\ startsAt <= now + Window

\* The rows findMany returns for the event.
EveryActiveRow == Active
ToRemind       == Registered

\* createMany with skipDuplicates on event-reminder:<event>:<registration>: the
\* unique key leaves one row for each of them.
InsertOncePerEvent(people) == IF reminders = {} THEN people ELSE reminders
Insert(people)             == reminders \cup people

Goto(k, statement) == doing' = [doing EXCEPT ![k] = statement]

\* The tick's function returns, or throws.
End(k) ==
  /\ Goto(k, "idle")
  /\ list' = [list EXCEPT ![k] = {}]
  /\ stayed' = [stayed EXCEPT ![k] = {}]

\* The bookkeeping of `stayed` in every step that changes the rows.
StillSeated == stayed' = [k \in Tick |-> stayed[k] \cap Registered']

\* A tick that finds the event; one that does not has nothing to do.
FindEvent(k) ==
  /\ doing[k] = "idle"
  /\ InWindow
  /\ Goto(k, "list")
  /\ stayed' = [stayed EXCEPT ![k] = Registered]
  /\ UNCHANGED <<vars, now, reminders, list>>

ListNobody(k) ==
  /\ doing[k] = "list"
  /\ ToRemind = {}
  /\ End(k)
  /\ UNCHANGED <<vars, now, reminders>>

ListRegistered(k) ==
  /\ doing[k] = "list"
  /\ ToRemind # {}
  /\ list' = [list EXCEPT ![k] = ToRemind]
  /\ Goto(k, "record")
  /\ UNCHANGED <<vars, now, reminders, stayed>>

Record(k) ==
  /\ doing[k] = "record"
  /\ reminders' = Insert(list[k])
  /\ End(k)
  /\ UNCHANGED <<vars, now>>

\* The transaction fails, an earlier event of the loop fails and ends it, or
\* the backend restarts.
Fail(k) ==
  /\ doing[k] # "idle"
  /\ End(k)
  /\ UNCHANGED <<vars, now, reminders>>

Clock ==
  /\ now < Horizon
  /\ now' = now + 1
  /\ UNCHANGED <<vars, reminders, tickVars, stayed>>

Run(k) == FindEvent(k) \/ ListNobody(k) \/ ListRegistered(k) \/ Record(k)

ReminderNext ==
  \/ \E k \in Tick : Run(k) \/ Fail(k)
  \/ Clock
  \/ (Participate \/ Organize) /\ StillSeated /\ UNCHANGED <<now, reminders, tickVars>>

ReminderSpec == ReminderInit /\ [][ReminderNext]_reminderVars

\* The cron decorator starts a tick every minute, and of the ticks that find
\* the event not every single one fails at the same statement.
ReminderFairness ==
  \A k \in Tick :
    /\ WF_reminderVars(FindEvent(k))
    /\ WF_reminderVars(ListNobody(k))
    /\ SF_reminderVars(ListRegistered(k))
    /\ SF_reminderVars(Record(k))

FairReminderSpec == ReminderSpec /\ ReminderFairness

---------------------------------------------------------------------------
\* Only people who were given a seat, and so were mailed its code, are
\* reminded, also those who are back in the queue by then.
OnlyTheSeatedAreReminded ==
  \A p \in reminders : CodeMails(p) # {}

\* A tick that ends without failing leaves nobody without a reminder who had a
\* seat all through it, whoever else came, went or had been reminded before.
TickMissesNobody ==
  [][\A k \in Tick : Record(k) => stayed[k] \subseteq reminders']_reminderVars

\* "future reminders stop" (events.service.ts:56): once the event is cancelled and
\* the ticks that were under way have ended, nobody is ever reminded of it again,
\* whoever is promoted, leaves or moves the start.  Those ticks may still record:
\* they do not read the status a second time.
Stopped(people) ==
  eventStatus = "CANCELLED" /\ (\A k \in Tick : doing[k] = "idle") /\ reminders = people

CancellationEndsReminders ==
  \A people \in SUBSET Email : [](Stopped(people) => []Stopped(people))

\* Whoever keeps a seat while the event stays in the window is reminded,
\* however late they came ("a participant who registers later ... correctly
\* receives their one reminder", 19-20).
Due(p) ==
  p \in Registered /\ eventStatus = "ACTIVE" /\ startsAt > now /\ startsAt <= now + Window

EventuallyReminded == \A p \in Email : Due(p) ~> (p \in reminders \/ ~Due(p))

===========================================================================
