----------------------------- MODULE LiveStats -----------------------------
(***************************************************************************)
(* How an organizer's browser follows one event: the statistics cards, the  *)
(* participant tables, and the broadcasts and REST answers that fill them.  *)
(*                                                                         *)
(* Time is counted in commits.  A commit of register, cancel or check-in    *)
(* changes the registrations and is followed by a broadcast; one of update  *)
(* or cancelEvent changes the event's row and is silent.  What was read from *)
(* the database is represented by its version: the newest commit of its     *)
(* kind before the read.  The reads of a request happen at any time between *)
(* its being sent and its answer.                                          *)
(*                                                                         *)
(* Left out: the queries of the event itself and of the list of events      *)
(* (taken as loaded), which show no statistics.                            *)
(*                                                                         *)
(* WholePayload, CardsOnly, TablesOnly, ConnectUnsynced, ForgetfulGoTo     *)
(* and InvalidateNothing are mistakes one could make in the definition     *)
(* that follows each; nothing uses them.                                   *)
(***************************************************************************)
EXTENDS Naturals, Sequences, FiniteSetsExt, QueryCache, EventForm

CONSTANTS
  Allowances,   \* how often each of Spendable may happen: a set of bounds for TLC
  MaxCommits    \* the largest sum of bookings and edits in any of them

VARIABLES
  news,     \* for each commit, what became of its broadcast
  room,     \* whether the browser's socket is in the room of the event
  linked,   \* whether the socket is connected
  outbox,   \* socket messages to the server: in flight, or kept until connected
  inbox,    \* broadcasts in flight to the browser
  page,     \* the page on screen
  stats,    \* the query ['events', id, 'stats']
  tables,   \* the query ['events', id, 'registrations']
  edit,     \* the browser's own change of the event
  sender,   \* the page that sent it, until that page is left
  resynced, \* the last commit before the last connection of a loaded page
  left      \* what is left of the allowance

vars == <<news, room, linked, outbox, inbox, page, stats, tables, edit, sender, resynced, left>>

serverVars == <<news, room>>
socketVars == <<linked, outbox, inbox, resynced>>
editVars   == <<edit, sender>>
tabVars    == <<page, stats, tables, editVars>>

Spendable == {"bookings", "edits", "drops", "errors", "moves"}
Spend(what) == left[what] > 0 /\ left' = [left EXCEPT ![what] = @ - 1]

ASSUME BoundsOK ==
  /\ MaxCommits \in Nat
  /\ \A a \in Allowances : a \in [Spendable -> Nat] /\ a["bookings"] + a["edits"] <= MaxCommits
ASSUME AbsentOK == Nothing \notin Nat /\ Nothing \notin [event : Nat, counts : Nat]

Now == Len(news)

Outcome == {"silent",      \* nobody broadcasts
            "due",         \* committed, the broadcast is being computed
            "sent",        \* in flight to this browser
            "heard",       \* shown by a page that had its tables
            "early",       \* shown by a page whose tables were still loading
            "missed",      \* this browser was not listening
            "swallowed"}   \* the broadcast failed

Live     == {"dashboard", "check-in"}      \* pages that call useEventRealtime
Counting == Live \cup {"list"}             \* pages that show the statistics
Page     == Counting \cup {"edit"}

Moment == 0..MaxCommits

EventVersion(t) == Max({0} \cup {k \in 1..t : news[k] = "silent"})
RowsVersion(t)  == Max({0} \cup {k \in 1..t : news[k] # "silent"})

\* What getStats() may return to a request sent at a time: the event row first,
\* then three counts side by side, of which the oldest is kept.
Stats == [event : Moment, counts : Moment]
GetStats(since) ==
  UNION {{[event |-> EventVersion(e), counts |-> RowsVersion(c)] : c \in e..Now} : e \in since..Now}

\* findByEvent(): the registered, then the waitlisted; the older is kept.
FindByEvent(since) == {RowsVersion(t) : t \in since..Now}

TypeOK ==
  /\ news \in Seq(Outcome) /\ Now \in Moment
  /\ room \in BOOLEAN /\ linked \in BOOLEAN
  /\ outbox \in Seq({"subscribe", "unsubscribe"})
  /\ inbox \in Seq([change : Moment, stats : Stats])
  /\ page \in Page
  /\ stats \in Query(Stats, Moment)
  /\ tables \in Query(Moment, Moment)
  /\ edit \in {"none", "saving", "saved", "cancelling", "cancelled", "lost"}
  /\ sender \in Page \cup {Nothing}
  /\ resynced \in Moment
  /\ left \in [Spendable -> Nat]

\* The application is loaded at the address of one of the pages.
Init ==
  /\ news = <<>>
  /\ room = FALSE /\ linked = FALSE
  /\ page \in Page
  /\ inbox = <<>>
  /\ outbox = IF page \in Live THEN <<"subscribe">> ELSE <<>>
  /\ stats = IF page \in Counting THEN Asked(EmptyQuery, 0) ELSE EmptyQuery
  /\ tables = IF page \in Live THEN Asked(EmptyQuery, 0) ELSE EmptyQuery
  /\ edit = "none" /\ sender = Nothing
  /\ resynced = 0
  /\ left \in Allowances

---------------------------------------------------------------------------
(* The server.                                                             *)

\* A registration, cancellation or check-in commits.  A repeated registration
\* changes nothing and broadcasts all the same: also this step.
Book ==
  /\ Spend("bookings")
  /\ news' = Append(news, "due")
  /\ UNCHANGED <<room, socketVars, tabVars>>

\* broadcast(): getStats() after commit k, then to whoever is in the room.
Broadcast(k) ==
  /\ news[k] = "due"
  /\ IF room
     THEN /\ \E s \in GetStats(k) : inbox' = Append(inbox, [change |-> k, stats |-> s])
          /\ news' = [news EXCEPT ![k] = "sent"]
     ELSE /\ news' = [news EXCEPT ![k] = "missed"]
          /\ UNCHANGED inbox
  /\ UNCHANGED <<room, linked, outbox, resynced, tabVars, left>>

\* An error is logged and nothing is sent.
SwallowError(k) ==
  /\ news[k] = "due"
  /\ news' = [news EXCEPT ![k] = "swallowed"]
  /\ UNCHANGED <<room, socketVars, tabVars, left>>

\* The gateway takes the next message of the socket: join or leave the room.
JoinOrLeave ==
  /\ linked /\ outbox # <<>>
  /\ room' = (Head(outbox) = "subscribe")
  /\ outbox' = Tail(outbox)
  /\ UNCHANGED <<news, linked, inbox, resynced, tabVars, left>>

---------------------------------------------------------------------------
(* The socket.                                                             *)

\* handleStats(): the cards take the snapshot, the tables are read again.
WholePayload(m) ==
  /\ stats' = Written(stats, m)
  /\ tables' = Refetched(tables, Now)
CardsOnly(m) ==
  /\ stats' = Written(stats, m.stats)
  /\ UNCHANGED tables
TablesOnly(m) ==
  /\ tables' = Refetched(tables, Now)
  /\ UNCHANGED stats
HandleStats(m) ==
  /\ stats' = Written(stats, m.stats)
  /\ tables' = Refetched(tables, Now)

Deliver ==
  /\ inbox # <<>>
  /\ inbox' = Tail(inbox)
  /\ LET m == Head(inbox) IN
       IF page \in Live
       THEN /\ HandleStats(m)
            /\ news' = [news EXCEPT ![m.change] = IF Loaded(tables) THEN "heard" ELSE "early"]
       ELSE /\ news' = [news EXCEPT ![m.change] = "missed"]
            /\ UNCHANGED <<stats, tables>>
  /\ UNCHANGED <<room, linked, outbox, resynced, page, editVars, left>>

\* The connection is lost with everything in flight; rooms are per connection.
Drop ==
  /\ linked
  /\ Spend("drops")
  /\ linked' = FALSE
  /\ room' = FALSE
  /\ outbox' = <<>> /\ inbox' = <<>>
  /\ news' = [k \in 1..Now |-> IF news[k] = "sent" THEN "missed" ELSE news[k]]
  /\ UNCHANGED <<resynced, tabVars>>

\* handleConnect(): join again, and read both again over REST.
ConnectUnsynced ==
  /\ outbox' = Append(outbox, "subscribe")
  /\ UNCHANGED <<stats, tables>>
HandleConnect ==
  /\ outbox' = Append(outbox, "subscribe")
  /\ stats' = Refetched(stats, Now)
  /\ tables' = Refetched(tables, Now)

\* Messages kept while disconnected go first (socket.io), then the handlers run.
Connect ==
  /\ ~linked
  /\ linked' = TRUE
  /\ IF page \in Live
     THEN /\ HandleConnect
          /\ resynced' = IF Loaded(stats) /\ Loaded(tables) THEN Now ELSE resynced
     ELSE UNCHANGED <<outbox, stats, tables, resynced>>
  /\ UNCHANGED <<serverVars, inbox, page, editVars, left>>

---------------------------------------------------------------------------
(* REST answers.                                                           *)

StatsAnswer ==
  /\ InFlight(stats)
  /\ \E s \in GetStats(stats.asked) : stats' = Answered(stats, s)
  /\ UNCHANGED <<serverVars, socketVars, page, tables, editVars, left>>

StatsError ==
  /\ InFlight(stats)
  /\ Spend("errors")
  /\ stats' = Failed(stats, Now, page \in Counting)
  /\ UNCHANGED <<serverVars, socketVars, page, tables, editVars>>

TablesAnswer ==
  /\ InFlight(tables)
  /\ \E t \in FindByEvent(tables.asked) : tables' = Answered(tables, t)
  /\ UNCHANGED <<serverVars, socketVars, page, stats, editVars, left>>

TablesError ==
  /\ InFlight(tables)
  /\ Spend("errors")
  /\ tables' = Failed(tables, Now, page \in Live)
  /\ UNCHANGED <<serverVars, socketVars, page, stats, editVars>>

---------------------------------------------------------------------------
(* The pages.                                                              *)

\* Leaving a live page unsubscribes, entering one subscribes and mounts its
\* queries; st and tb are the queries the new page finds.
ForgetfulGoTo(p, st, tb) ==
  /\ page' = p /\ sender' = Nothing
  /\ outbox' = outbox \o (IF p \in Live THEN <<"subscribe">> ELSE <<>>)
  /\ stats' = IF p \in Counting THEN Mounted(st, Now) ELSE st
  /\ tables' = IF p \in Live THEN Mounted(tb, Now) ELSE tb
GoTo(p, st, tb) ==
  /\ page' = p /\ sender' = Nothing
  /\ outbox' = outbox \o (IF page \in Live THEN <<"unsubscribe">> ELSE <<>>)
                      \o (IF p \in Live THEN <<"subscribe">> ELSE <<>>)
  /\ stats' = IF p \in Counting THEN Mounted(st, Now) ELSE st
  /\ tables' = IF p \in Live THEN Mounted(tb, Now) ELSE tb

Navigate ==
  /\ Spend("moves")
  /\ \E p \in Page \ {page} : GoTo(p, stats, tables)
  /\ UNCHANGED <<serverVars, linked, inbox, resynced, edit>>

\* What OrganizerDashboardPage renders; the check-in page and the list render
\* whatever they have, and offer no retry.
Screen ==
  IF IsLoading(stats) \/ IsLoading(tables) THEN "loading"
  ELSE IF stats.failed THEN "stats error"
  ELSE IF tables.failed THEN "tables error" ELSE "content"

TryAgain ==
  /\ page = "dashboard"
  /\ \/ Screen = "stats error" /\ stats' = Refetched(stats, Now) /\ UNCHANGED tables
     \/ Screen = "tables error" /\ tables' = Refetched(tables, Now) /\ UNCHANGED stats
  /\ UNCHANGED <<serverVars, socketVars, page, editVars, left>>

\* "Save changes" on the edit page; "Cancel event" on three pages.
ClickSave ==
  /\ page = "edit" /\ edit \in {"none", "lost"}
  /\ Spend("edits")
  /\ edit' = "saving" /\ sender' = page
  /\ UNCHANGED <<serverVars, socketVars, page, stats, tables>>

ClickCancel ==
  /\ page \in {"list", "edit"} \/ (page = "dashboard" /\ Screen = "content")
  /\ edit \in {"none", "lost"}
  /\ Spend("edits")
  /\ edit' = "cancelling" /\ sender' = page
  /\ UNCHANGED <<serverVars, socketVars, page, stats, tables>>

\* update() or cancelEvent() commits.  Nothing is broadcast.
EditCommits ==
  /\ \/ edit = "saving" /\ edit' = "saved"
     \/ edit = "cancelling" /\ edit' = "cancelled"
  /\ news' = Append(news, "silent")
  /\ UNCHANGED <<room, socketVars, page, sender, stats, tables, left>>

EditRefused ==
  /\ edit \in {"saving", "cancelling"}
  /\ edit' = "none" /\ sender' = Nothing
  /\ UNCHANGED <<serverVars, socketVars, page, stats, tables, left>>

\* The answer of a committed change is lost; so is every edit made elsewhere.
EditAnswerLost ==
  /\ edit \in {"saved", "cancelled"}
  /\ edit' = "lost" /\ sender' = Nothing
  /\ UNCHANGED <<serverVars, socketVars, page, stats, tables, left>>

\* invalidate(): ['events'] is a prefix of both keys; what is not on screen is
\* read when it is shown next.
InvalidateNothing(q, pages) == q
Invalidated(q, pages)       == IF page \in pages THEN Refetched(q, Now) ELSE q

\* The page that sent the change, if it is still there, goes on to another.
Destination ==
  CASE edit = "saved" /\ sender = "edit" -> "dashboard"
    [] edit = "cancelled" /\ sender \in {"dashboard", "edit"} -> "list"
    [] OTHER -> page

EditAnswered ==
  /\ edit \in {"saved", "cancelled"}
  /\ edit' = "none"
  /\ LET st == Invalidated(stats, Counting)
         tb == Invalidated(tables, Live)
     IN IF Destination # page
        THEN GoTo(Destination, st, tb)
        ELSE stats' = st /\ tables' = tb /\ sender' = Nothing /\ UNCHANGED <<page, outbox>>
  /\ UNCHANGED <<serverVars, linked, inbox, resynced, left>>

---------------------------------------------------------------------------
Answers ==
  \/ StatsAnswer \/ StatsError \/ TablesAnswer \/ TablesError

Next ==
  \/ Book \/ JoinOrLeave
  \/ \E k \in 1..Now : Broadcast(k) \/ SwallowError(k)
  \/ Deliver \/ Drop \/ Connect
  \/ Answers
  \/ Navigate \/ TryAgain
  \/ ClickSave \/ ClickCancel \/ EditCommits \/ EditRefused \/ EditAnswerLost \/ EditAnswered

\* Statements, messages and answers arrive, or fail.  Nothing is assumed of
\* people, nor of the connection.
Fairness ==
  /\ \A k \in Moment : WF_vars(k \in 1..Now /\ (Broadcast(k) \/ SwallowError(k)))
  /\ WF_vars(JoinOrLeave)
  /\ WF_vars(Deliver)
  /\ WF_vars(StatsAnswer \/ StatsError)
  /\ WF_vars(TablesAnswer \/ TablesError)
  /\ WF_vars(EditAnswered \/ EditAnswerLost)

Spec == Init /\ [][Next]_vars /\ Fairness

---------------------------------------------------------------------------
\* What is on screen has every change up to commit k.
CardsShow(k) ==
  /\ Loaded(stats)
  /\ stats.data.event >= EventVersion(k) /\ stats.data.counts >= RowsVersion(k)
TablesShow(k) == Loaded(tables) /\ tables.data >= RowsVersion(k)

Fate(k, outcome) == k \in 1..Now /\ news[k] = outcome

\* The server holds the socket in the room exactly while a live page is open,
\* once every message of a connected socket is through: whatever pages came and
\* went and whenever the connection broke (useEventRealtime.ts:53-67).
JoinedWhileLooking == linked /\ outbox = <<>> => (room <=> page \in Live)

\* Once a loaded page has shown the broadcast of a change, its tables have that
\* change as soon as nothing is being read, although broadcasts overtake each
\* other and reads cross them (useEventRealtime.ts:47-50).
TablesFollowTheNews ==
  \A k \in 1..Now :
    news[k] = "heard" /\ ~InFlight(tables) /\ ~tables.failed => TablesShow(k)

Undisturbed(k) == Now = k /\ ~InFlight(stats) /\ inbox = <<>>
                  /\ \A j \in 1..(k - 1) : news[j] # "due"

\* A change that nothing else crosses reaches the cards of a page that is in the
\* room, unless its broadcast fails, the page is left, the connection breaks, or
\* another change follows (realtime-stats.service.ts:20-22, useEventRealtime.ts:38-46).
LoneChangeIsShown ==
  \A k \in Moment \ {0} :
    (Undisturbed(k) /\ Fate(k, "due") /\ room /\ outbox = <<>> /\ page \in Live)
      ~> ((Now = k /\ CardsShow(k)) \/ Now > k \/ Fate(k, "swallowed") \/ ~linked \/ page \notin Live
          \/ stats.failed)

\* A page that was loaded when the connection came back shows, once nothing is
\* being read, tables no older than that connection; and cards no older, unless
\* a broadcast computed before it came late.  Nothing missed while the socket was
\* down stays missed, silent changes included (useEventRealtime.ts:53-57).
ReconnectResyncs ==
  resynced > 0 =>
    /\ ~InFlight(tables) /\ ~tables.failed => TablesShow(resynced)
    /\ ~InFlight(stats) /\ ~stats.failed
       /\ (\A k \in 1..resynced : news[k] \notin {"heard", "early"}) => CardsShow(resynced)

\* The organizer's own change of the event, of which nobody is told, is on the
\* cards after its answer, wherever in the application the organizer has gone
\* meanwhile (organizer.ts:29-33), if nothing crosses it and no answer is lost;
\* the edit page has no cards.
OwnEditShows ==
  \A k \in Moment \ {0} :
    (edit \in {"saved", "cancelled"} /\ Undisturbed(k) /\ Fate(k, "silent"))
      ~> ((Now = k /\ CardsShow(k)) \/ Now > k \/ edit = "lost" \/ stats.failed
          \/ (page = "edit" /\ edit = "none"))

\* "Save changes" sends the start the event has, and so is no reschedule, if the
\* organizer left the start alone and it was entered in this form, whatever the
\* time of the year and also if the clocks skip it; a start from elsewhere is kept
\* exactly if it has no seconds and is no second reading of a local time
\* (EventForm.tsx:20-27, 61; events.service.ts:127).
SavingKeepsTheStart ==
  [][ClickSave =>
       \A zone \in Zone, t \in Instant :
         /\ Resubmitted(zone, t) = t <=> t % 2 = 0 /\ ~SecondReading(zone, t)
         /\ LET entered == Combined(zone, Fields(t)) IN Resubmitted(zone, entered) = entered]_vars

---------------------------------------------------------------------------
(* What a document says and the code does not do: "dashboards can subscribe *)
(* to just that one and always render correct totals" (ARCHITECTURE.md:146). *)

\* Once every broadcast has arrived and nothing is being read, the cards of a live
\* page show the counts of one moment, none before a change whose snapshot the page
\* has shown; and the capacity of that moment, if the one edit changed it and its
\* answer is still to come.
TotalsEndCorrect ==
  /\ page \in Live /\ Loaded(stats) /\ ~InFlight(stats) /\ ~stats.failed
  /\ \A j \in 1..Now : news[j] \notin {"due", "sent"}
  => \E t \in 0..Now :
       /\ \A k \in 1..Now : news[k] \in {"heard", "early"} => k <= t
       /\ stats.data.counts = RowsVersion(t)
       /\ edit = "saved" => stats.data.event = EventVersion(t)
===========================================================================
