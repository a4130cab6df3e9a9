# TLA+ models of the event registration system

The system is a NestJS backend (`backend/`) on PostgreSQL with a React frontend
(`frontend/`). Organizers publish events with a start and a capacity;
participants register, wait in a queue when the event is full, and are promoted
when a seat is given up; tickets are checked in at the door; e-mails are rows of
an outbox that carries a unique deduplication key; a cron job reminds people a day
before; dashboards follow live over Socket.IO. `docs/ARCHITECTURE.md:65` states
the principle the models put to the test: all guarantees come from database
constraints and transactions.

Paths in this file are relative to `backend/src/` unless they start with
`frontend/`, `docs/` or `prisma/`.

## Inventory

| Component | State | Operations | Interacts through | Hard parts |
|---|---|---|---|---|
| Registrations (`registrations/registrations.service.ts`) | `Registration` (status, waitlistPos, checkedInAt), `Ticket` (code) | `register`, `cancel` with `promoteHead`; `findByEvent`, `findMine` read | transactions that lock the event's row; outbox; a broadcast after commit | last seat, one freed seat for two, positions under churn, rows revived with old tickets and old keys |
| Events (`events/events.service.ts`) | `Event` (status, startsAt, capacity) | `create`, `update` with `notifyReschedule`, `cancelEvent` | transactions; outbox | start and status are read before the transaction; capacity moves under a full event; starts that move back |
| Outbox (`email/email.service.ts`) | `EmailLog` | `recordInTx` | inside the caller's transaction | a key that is taken silences a mail that is not a repetition |
| Check-in (`check-in/check-in.service.ts`) | `Registration.checkedInAt` | `checkIn` | four statements without a transaction, then a broadcast | two desks, cancellation in between, answer lost after the mark |
| Reminders (`scheduler/reminder.service.ts`) | `EmailLog` | `processReminders` every minute | list of events, then a transaction per event | overlapping ticks, failures, stale lists |
| Dashboard and live updates (`dashboard/`, `realtime/`, `frontend/src/realtime/`) | query cache of each browser | `getStats`, `broadcast`, rooms, refetch | Socket.IO and REST | counts of different moments, broadcasts out of order, lost broadcasts, refetch against snapshot |
| Client session (`frontend/src/auth/AuthContext.tsx`, `frontend/src/api/client.ts`) | user, token, localStorage | login, register, logout, verify on load, 401 | requests that outlive their session | late answers |
| Accounts and guards (`auth/`) | `User` | register, login, me; role and ownership guards | JWT | two sign-ups with one address |
| Pages and forms (`frontend/src/pages/`, `frontend/src/components/EventForm.tsx`) | what they read and captured | navigation, retry, save, cancel, register | the query cache, mutations | late answers after the page was left; a local time in a form |
| Development endpoints, health | none of their own | | | |

What makes each correct:

* **Registrations**: no step seats more people than there are seats; the queue is
  served in the order of arrival; a seat given up is never left idle while
  somebody waits; whoever has a seat has been sent its code.
* **Events**: everyone with a stake in a cancelled event is told; everyone
  seated when the start moves is told the new start.
* **Check-in**: one ticket, one entry; none for a cancelled event.
* **Reminders**: nobody seated is missed, only the seated are reminded, and a
  cancellation ends the reminding.
* **Transactions**: whatever their interleaving and failures, the rows change as
  if each ran alone, and each request ends.
* **Dashboard**: totals that were true at some time and end up right; a change nothing
  else crosses reaches the cards, an own change too, a reconnection makes up for what was lost, and the tables always catch up.
* **Session**: whom the page shows is whom it acts for; a rejected token ends the
  session; the list on screen becomes that of the user, with what the user just did.
* **Accounts**: one row per address. The unique key alone sees to it, as it sees to one
  reminder per registration; nothing of it is left to check.
* **Event form**: saving without touching the start keeps it.

## Modules

```
Schema ── Booking ──(refines)── SeatQueue ── SeatQueue_proofs
            │  └── Booking_proofs
            ├── Door ── Door_proofs              (EXTENDS Booking)
            ├── Reminders ── Reminders_proofs    (EXTENDS Booking)
            └── EventTx ── EventTx_proofs        (INSTANCE Booking: its committed rows refine Booking)
QueryCache ─┬─ LiveStats ── LiveStats_proofs
            │     └── EventForm ── EventForm_proofs
            └─ ClientSession ── ClientSession_proofs
MCBooking, MCDoor, MCReminders, MCEventTx, MCLive, MCSession: small instances
```

The two modules of the browser stand beside the others: they see the backend as
something that changes at commits, whose order the other modules are about.

**`Schema`** has the columns the services decide on, for one event, and the
outbox. Events share no row, so one event is the general case. A participant is
the normalised address, which is also the key of the registration row
(`@@unique([eventId, email])`); rows are never deleted. A ticket code is the
ordinal of the code minted for that address, so that an old code and a new one
differ. `cancelledAt` is written together with `status` and read by nobody; it is not
a column of its own. `Recorded` is `recordInTx`: a mail whose key is taken adds no row.

**`SeatQueue`** is the promise, without rows: seats, who sits in them, a queue
with the relation "came before". Its step `HandOver` gives a seat to the one
with nobody ahead; what follows from its steps is stated as `OneLine` and
`FirstComeFirstServed`.

**`Booking`** has one step per committed transaction: `RegisterSeated` and
`RegisterWaitlisted` (`register`, with both upserts), `CancelWaiting`,
`CancelLastSeat` and `CancelAndPromote` (`cancel` with `promoteHead`), `Update`,
`CancelEvent`, and `CheckIn` (the conditional UPDATE). Requests that are refused
or find nothing to do change no row and are no step. Two facts that only the
interleaving of statements produces are kept as choices: `Update` may
compare with any start committed earlier (`pastStarts`), and `CancelEvent` may be
taken on an event already cancelled.

**`EventTx`** has the statements inside those transactions. Each request runs
through `pc`; what earlier statements returned is in `saw`, and its uncommitted
rows in `eventWrite`, `rowWrite` and `mailWrite`, which later statements of the
same transaction see (READ COMMITTED, PostgreSQL's default) and others do not.
`SELECT ... FOR UPDATE` and the UPDATE of the event's row take `eventLock`.
A `status` in `eventWrite` stands for `cancelledAt` too. `Abort` ends a request anywhere. `Atomic == INSTANCE Booking` and
`Serialized == Atomic!Spec` say that the committed rows of EventTx move as
Booking says. This is what entitles the other modules to use Booking's steps.

**`Door`** has `checkIn` statement by statement: `Scan` (ticket and row), `ReadEvent`
or `RefuseEarly`, `Mark` or `RefuseLate`, `Admit` (read-back and answer), `Drop` at
any point. `admitted` counts the answers and `tooLate` remembers that the event was
cancelled when the scan began; both only record.

**`Reminders`** has the job: `FindEvent`, `ListRegistered` or `ListNobody`,
`Record`, `Fail`, on two or more ticks at once, with a clock. `reminders` is the set
of registrations with a reminder row, of which the unique key allows one each.
`stayed` only records. The loop over several events
is one tick that is late or fails: an exception in an earlier event ends the
loop (`Fail`). Two overlapping inserts in different order may be a deadlock that
PostgreSQL resolves by ending one: also `Fail`.

**`QueryCache`** is one query of TanStack Query, the library the pages read
through, as `frontend/src/api/queryClient.ts` configures it: a request under way serves a page that
mounts (`Mounted`), an invalidation replaces it unless nothing was loaded yet
(`Refetched`), a written value does not stop it (`Written`), an error is tried once
more while somebody looks (`Failed`). It is external code, modelled by how the
pages use it. StrictMode, garbage collection of the cache and refetching on the
browser's `online` event are left out.

**`LiveStats`** follows one event from one organizer's browser. Counts are abstracted
to versions: a commit has a number, `news` records what became of its broadcast, and
what a query returned is the newest commit it has seen, separately for the event's
row (`update`, `cancelEvent`; silent) and for the registrations (broadcast).
`GetStats` reads the event first and the counts later, each at any time while the
request is under way, as the statements of `getStats` do. `Broadcast` is computed after its commit
and in any order with others; `SwallowError` is its `catch`. The socket keeps messages
sent while it is down (`outbox`) and loses its room with the connection (`Drop`);
`Connect` runs `handleConnect`. `GoTo` is the cleanup and the mounting of
`useEventRealtime` and of the queries, `Deliver` is `handleStats`. The edit and
cancel mutations are `ClickSave` or `ClickCancel`, `EditCommits`, and `EditAnswered`,
`EditRefused` or `EditAnswerLost`; after the answer the page that sent it moves on only if
it is still there (`sender`). The query of the event itself, of the list of events, and
the creation of the socket are left out.

**`EventForm`** has the start's way through the form: `LocalParts` (`toLocalParts`),
`Combined` (`new Date` of a local date and time, as ECMAScript defines it) and
`Resubmitted`, for time zones whose offset changes once.

**`ClientSession`** is one tab of a participant. `authToken` (the variable of
`client.ts`), `user` (React's state) and `stored` (localStorage) are three variables
because the code writes them in different places: `Persist`, `Logout`, `MeAccepted`.
`Render` is a step of its own, because `AuthProvider` reads the storage again whenever
it renders, and attaches what it finds there. A request remembers the token it was
sent with, and whether that was accepted then: the server judges it between the sending and
the answer, so a token that expires on the way may be accepted or rejected. `Reload` loads the page
of the same address with what the storage has. `Unauthorized` looks at the token of the moment, as `apiFetch` does.
A booking is reduced to the number of its changes, so that a list can be compared with
it. `LookUp`, `SignUpAccepted` and `SignUpRefused` are the two statements of
`AuthService.register`. Organizers, the status of the event, the form's password and a second
own request at the same time are left out; a click is possible only when no render is
pending.

Operators named for a mistake (`HasCapacityOffByOne`, `CancelWithoutLock`, ...) are
listed in each module's header. No specification uses them. Each stands in front
of the definition it spoils and serves to confirm, by substitution, that some
property notices.

## What is checked

| Run | Instance | Shows |
|---|---|---|
| `booking` | 3 people, capacities 1 and 2, 1 start | the queue (`QueueOK`), the codes (`MailedCodeIsCurrent`, `EverySeatHasItsCode`, `CheckedInHeldASeat`), the announcements (`CancelledEventAnnounced`), admissions (`NeverAdmitsPastCapacity`, `OnlyARaiseIdlesASeat`), and that Booking implements SeatQueue (`KeepsPromise`) |
| `tx_queue` | 2 requests, 3 people, 1 or 2 seats, one of which may be taken away | no interleaving or abort of the statements, with the capacity changing between them, is seen in the rows (`Serialized`), because writers exclude each other (`OneWriter`) and decide on rows that are still current (`DecidedOnCurrentRows`) |
| `tx_moves` | 2 requests, 1 person, 2 starts | the same while the start moves; a move decided on the current start is announced (`FreshMoveIsAnnounced`); a second cancellation changes nothing anybody sees (`SecondCancellationMailsNobody`); every request ends (`RequestsEnd`) |
| `door` | 2 desks, 2 people, 1 seat | `TicketIsSingleUse`, `NobodyAfterCancellation`, and that Door implements Booking (`DoorKeepsRows`) |
| `reminders` | 2 ticks, 2 people, 1 seat, a window that opens and closes | `OnlyTheSeatedAreReminded`, `TickMissesNobody`, `CancellationEndsReminders`, `EventuallyReminded` |
| `live` | 1 browser, up to 2 commits, under six sets of troubles | the socket is in the room exactly while a live page is open (`JoinedWhileLooking`); tables catch up with every broadcast they heard although broadcasts overtake each other (`TablesFollowTheNews`); a reconnection repairs what was missed, silent changes included (`ReconnectResyncs`); a change nothing crosses reaches the cards (`LoneChangeIsShown`), and so does the organizer's own, which is not broadcast (`OwnEditShows`); saving an untouched start keeps it (`SavingKeepsTheStart`) |
| `session` | 1 tab, 2 people, up to 2 own sessions, under five sets of troubles | shown and acting identity agree at every rest, late answers included (`OneIdentity`); a rejected token signs out (`RejectedTokenSignsOut`); a new session comes to show its own list (`NewSessionShowsItsOwnList`) and what was just done (`OwnBookingShows`) |

Five runs end in a counterexample, because the code does not do what a comment
or document says:

| Run | Statement | What happens |
|---|---|---|
| `booking_raise` | "FIFO order is preserved" (`registrations.service.ts:143`) | the capacity is raised while people wait; nobody is promoted, and the next newcomer takes the seat |
| `booking_back_and_forth` | "a different later reschedule correctly produces a fresh notification" (`events.service.ts:159`) | A to B, back to A, again to B: the key of the last move was used by the first, and nobody is told |
| `tx_stale_update` | "either the date change AND its EVENT_RESCHEDULED emails commit, or neither" (`events.service.ts:135`) | two updates read the start before either writes; the one that sends the old start moves the event back and tells nobody |
| `door_cancelled` | "new registrations and check-ins are refused" (`events.service.ts:55`) | the event is cancelled between the status check and the UPDATE of a check-in |
| `live_totals` | "always render correct totals" (`docs/ARCHITECTURE.md:146`) | the statistics are read when the page opens, a booking's broadcast is shown, and the older answer overwrites it. A broadcast sent after a newer one does the same, and a snapshot that read the event row before an edit and the counts after a booking has a capacity and counts that never held together. Only the tables, which are read again, recover, and only a change that nothing crosses is certain to be shown, which is how `LoneChangeIsShown` is stated |

Other disagreements seen while modelling, not given a run:

* "capacity can never be exceeded" (`registrations.service.ts:143`) holds of
  admissions; `update()` may cut the capacity below the people seated
  (`events.service.ts:144`). The theorem `NoOverbooking` has the condition.
* "Waitlisted rows have no ticket" (`registrations.service.ts:230`): a revived
  row that goes to the queue keeps its ticket (356-365).
* "after a cancel promotes a waitlisted participant, a `WAITLIST_PROMOTED` email
  appears" (`docs/MANUAL_TEST_PLAN.md:118`): not when the same row was promoted
  before (`registrations.service.ts:242`). The code mailed then is still right:
  `EverySeatHasItsCode`.
* "rows + tickets are preserved as history" (`events.service.ts:57`): `cancel()`
  does not read the event's status, so leaving a cancelled event promotes and
  mails the next in the queue.
* "cancelling an already-cancelled event is a no-op" (`events.service.ts:59`): two
  requests that both read ACTIVE both write `status` and `cancelledAt` and answer
  `alreadyCancelled: false`. Nobody is mailed again: `SecondCancellationMailsNobody`.
* "Cancelled events get no reminders" (`reminder.service.ts:46`): a tick that found the
  event before its cancellation still records, and `TickMissesNobody` demands what the
  code does, these reminders included. `CancellationEndsReminders` shows that it ends
  with the ticks under way.
* A reminder carries no start in its key: after a reschedule there is no second
  one.
* `update()` and `cancelEvent()` broadcast nothing: other open dashboards keep the old
  capacity until something else happens (`events/events.service.ts:61-154`).
* On the first load an invalidation joins the request under way, so a change
  between its read and the joining of the room stays unseen until the next one.
* The check-in page shows neither an error nor a retry when a read fails for good.
* The edit form keeps the values it was opened with and sends all of them: a change
  made elsewhere meanwhile is undone (`frontend/src/pages/OrganizerEditEventPage.tsx:68-79`).
* A late `fetchMe` brings a session back after logout, or switches back from a newer
  login (`frontend/src/auth/AuthContext.tsx:83-90`); `OneIdentity` shows that it then comes back whole. A
  late 401 of an old token ends a new session (`frontend/src/api/client.ts:51`); another tab's token
  read during a render makes a failed login end that session too, although "a
  failed login (no token) must not trigger a global logout" (`frontend/src/api/client.ts:49-50`).
* After a login the previous user's list is shown until the new one is loaded
  (`frontend/src/api/me.ts:22`: the key names no user); the server refuses what is clicked meanwhile.
* Any error of the insert is reported as "Email already registered"
  (`auth/auth.service.ts:51-54`).

### Bounds

Three people are the least with which the queue holds two, so that it has an order,
while somebody has the seat; a fourth adds positions and no new
case. Two capacities allow a raise and a cut; in
`tx_queue` there is only the cut, a raise between the statements being left to `booking` and
to the theorem `ImplementsBooking`, which has both. `MaxPos` stands for the largest
INTEGER: it is reached when people leave the front of the queue and come back to
its tail, so that the refusal beyond it is exercised. Two starts
suffice for moving back and forth. Two requests, desks or ticks are the least
that interleave; a third request only adds waiters for one lock. In `reminders`
the window is two units and the clock runs from before it to the start
(`Horizon`); the start does not move there, which the theorems about Reminders
make up for.

`live` and `session` bound the environment by allowances: sets of numbers of bookings,
edits, lost connections, errors, changes of page (`live`), and of tokens, expiries, changes,
reloads, errors, moves and acts of others (`session`). The initial state chooses one of
them, so that the cases are checked side by side and not multiplied. Two commits are the least
that overtake each other, and `live_totals` has a third, an edit between two bookings; two errors make a query fail for good, one being tried
again; one lost connection has everything before and after it; two moves leave a page
and come back. Two tokens are the least with which an old answer meets a new session, a third
comes from another tab; two changes make a booking and undo it. The form is checked
with days of ten minutes and clocks that go forward, back or stay, east and west
of UTC, over three days: a change at any other hour only moves the picture.

Deadlock is checked everywhere but in the runs of `LiveStats` and `ClientSession`, where
a browser with nothing under way may rest.

Symmetry is declared where no liveness property is checked; no definition names
an address, request or desk.

### Fairness

`EventTx!Fairness`: strong fairness of taking the lock, because PostgreSQL queues
the waiters of a row lock; weak fairness of the other statements, because a
statement of a running transaction returns. That a transaction is aborted is not
relied on.

`Reminders!ReminderFairness`: weak fairness of finding the event, because the
cron decorator starts a tick every minute; strong fairness of listing and
recording, meaning that not every tick fails at the same statement. The clock has
no fairness: `EventuallyReminded` speaks of people who keep their seat while the
event stays in the window, and nothing is claimed for a window that closes first.

`LiveStats!Fairness`: weak fairness of each broadcast or its failure, of the messages of
a connected socket, and of every request being answered or failing, because the
network and the server do one or the other (a timeout is a failure). Nothing is
assumed of people, commits or the connection. Where a failure would excuse the
property, the property says so (`stats.failed`, `edit = "lost"`).
`ClientSession!Fairness`: weak fairness of rendering and of the same answers.

## What is proved

Checked by TLAPS for every set of addresses, starts, capacities, requests, desks
and ticks, every width of `waitlistPos`, every allowance of the browser's environment
and every time zone whose offset changes once. The assumptions are those named in
`Schema`, `Door`, `Reminders`, `EventTx`, `LiveStats`, `ClientSession` and `EventForm`:
finitely many addresses and desks; positive capacities; placeholders that are not
members of the sets they stand beside; request bodies are patches; `MaxCommits`, `MaxTokens` and
`MaxChanges` are at least what the allowances permit (`BoundsOK`); days and offsets
are whole minutes (`ClockOK`).

* `Booking_proofs`: `TypeCorrect`; `QueueKept`; `MailedCodesStayCurrent`,
  `SeatsAreCovered`, `CheckInsAreCovered`; `CancellationReachesEveryone`;
  `NoAdmissionPastCapacity`; `NoOverbooking`; `OnlyRaisesIdleSeats`; and
  `PromiseKept`, that Booking implements SeatQueue.
* `SeatQueue_proofs`: `StandInLine` and `ServedInOrder`, what the promise amounts
  to: one strict line, served in order.
* `EventTx_proofs`: `WritersExclude`, `DecisionsAreCurrent`, `MovesAreAnnounced`,
  `SecondCancellationIsSilent`, `TypesHold`, and `ImplementsBooking`: the statements of any number of requests,
  in any order and aborted anywhere, change the committed rows as Booking's steps do.
  `StatementsKeepTheRows` and `StatementsKeepTheSeats` carry over what is proved of
  Booking, from the queue and the codes to admissions and the promise.
* `Door_proofs`: `DoorImplementsBooking`, by which every theorem about Booking
  holds with the door open; `SingleUse`; `LateScansRefused`; `DoorTypeCorrect`.
* `Reminders_proofs`: `RemindersKeepBooking`; `RemindedHeldASeat`;
  `CancellationIsFinal`; `TicksMissNobody`; `ReminderTypeCorrect`.
* `ClientSession_proofs`: `ShownIsWhoActs`, that the tab acts for whom it shows;
  `SessionTypesHold`.
* `LiveStats_proofs`: `InTheRoomWhileLooking`, `TablesCatchUp`, `NothingStaysMissed`,
  `LiveTypesHold`, for any number of commits, lost connections, errors and changes of
  page; and `UntouchedStartsStay`, from `FormKeepsTheStart` of `EventForm_proofs`.

The argument about the outbox is the one that needs a strengthening.
`EverySeatHasItsCode` is not inductive: when a person is seated again, the key of
the ticket mail is taken and nothing is recorded, so the old mail has to be shown
to carry the right code. `LogOK` says so of every mail, of people with and without a
seat: each recorded code is the code on the ticket. Together with
`EverySeatHasItsCode` and `CheckedInHeldASeat` it is inductive (`MailInv`): a
ticket is created once and kept (`CodeFacts`), and `Recorded` leaves a row with the
key of each mail it is given (`RecordedFacts`).

The refinement maps "came before" to "has the smaller position". Arrival takes a
position beyond all others, so the newcomer is behind everybody; departures and
promotions set positions to null, which `Among` mirrors. `QueueOK` is what makes the
mapped relation a strict order.

For the door, `SingleUse` counts answers given and answers still due: their sum is
at most one and at most what the mark in the row allows. `DoorImplementsBooking`
needs that whoever a desk serves has a ticket, which the UPDATE does not check
again. For the reminders, between a tick's statements `stayed` is within the seated,
and once it has listed, within the list.

For the session, `OneIdentity` is not inductive: it says nothing of the moment
between a change of the storage and the render that attaches the stored token.
`ShownIsStored` does: whoever is shown is stored unless another tab wrote the
storage, so the next render attaches a token of the user on screen. A late answer
to `GET /auth/me` keeps it because it writes the user and the token of one session.

For the transactions, the invariant is `TxInv`. A request holds the event's row lock
exactly if its `pc` is past the statement that takes it (`LockOK`); hence uncommitted
rows are one request's, and what that request read under the lock is still
what is committed. `Progress` says, statement by statement, what the uncommitted rows
are: the ones that the corresponding step of Booking would write from the rows now
committed. The commit of a request is then one step of Booking, and every other statement a stutter.
Two parts are needed for the e-mails and the starts. `AnnouncementsOK`: announcements of a
start carry no code, so a mail that is dropped because its key is taken is the same mail.
`PastOK`: the start in force is among those committed, so an update that leaves it alone
adds none to `pastStarts`; the start that `update()` read without the lock is only known to
be one of these, which is what Booking's `Update` allows. The theorems of `Booking_proofs`
are instantiated (`Rows`); TLAPS treats two instances of a module as different formulas, which
is why `SameStep` compares them action by action.
By `CancelledEventAnnounced`, carried over, everyone in a cancelled event has the mail, so the
second cancellation's are all dropped, and by `PastOK` it adds no start.

For the dashboard, the invariant is `LiveInv`. `RoomOK` looks ahead: the last message the
socket still has to send, or the room if there is none, agrees with the page; a lost
connection empties both, and `handleConnect` sends anew. `InboxOK`: broadcasts in flight
are of different commits and were computed after theirs. The two other properties rest on
`Current(q, k, fresh)`, a promise of a query about commit k: it has data, its request, if one is
under way, was sent after k, and otherwise what it shows is fresh. `QueryStaysCurrent` shows
that no operation of the cache breaks it: an invalidation sends a later request, an answer to a
later request has all that was committed before it, a failed request is sent again or says so.
For the tables the promise is never broken, since only answers write them. For
the cards it is: a broadcast that was computed before the connection came back is older than
k and overwrites them. `LateBroadcast` marks this, and `ReconnectResyncs` excludes it.

For the session, `RequestsOK` is needed for the types: a request under way carries a
token that was issued, so that its owner is a user. `BudgetOK`, here and in `LiveInv`,
says that what was done and what is still allowed stay within the bounds.

For the form, `Reading` characterises `new Date` of a local time: the first instant that
has it, or, if none has it, the one with the offset before the change. What comes
back from the form then has an even number of half minutes, and is the original unless that
is the second of two; an entered time is never the second, since the first was chosen, and a
skipped time becomes one after the clocks went forward, which is not repeated.

Model-checked only: liveness (`RequestsEnd`, `EventuallyReminded`, `LoneChangeIsShown`,
`OwnEditShows`, `RejectedTokenSignsOut`, `NewSessionShowsItsOwnList`, `OwnBookingShows`),
which is outside what the prover does. Every invariant and every action property that a
passing run checks is a theorem.

## Plan

1. Done: all modules; the proofs of every invariant, action property and refinement that
   the passing runs check.
2. A fact beyond the runs: that an `EventTx` request that commits was answered with what
   the committed rows say.

## Not modelled

The role and ownership guards compare a column that never changes. Ticket codes are
random and unique; a collision aborts the transaction, which is `Abort`. Texts,
layout, dialogs, the home, profile and public pages, the list of events, the
development endpoints and health only read. What the edit form holds besides the start
is not followed: `Booking!Update` accepts any values from any organizer.
