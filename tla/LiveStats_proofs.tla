-------------------------- MODULE LiveStats_proofs --------------------------
(***************************************************************************)
(* Theorems about LiveStats for every bound on what people and the network  *)
(* do: the room, the tables after a broadcast, and the resynchronisation.   *)
(***************************************************************************)
EXTENDS LiveStats, EventForm_proofs, SequenceTheorems, WellFoundedInduction, TLAPS

---------------------------------------------------------------------------
(* The inductive invariant.                                                *)

\* Commits so far, and those the allowance and the change under way still permit.
UnderWay == IF edit \in {"saving", "cancelling"} THEN 1 ELSE 0
BudgetOK == Now + left["bookings"] + left["edits"] + UnderWay <= MaxCommits

\* Where the messages in flight will leave the socket.
WillBeIn == IF outbox = <<>> THEN room ELSE outbox[Len(outbox)] = "subscribe"
RoomOK ==
  /\ linked => (WillBeIn <=> page \in Live)
  /\ ~linked => ~room /\ (page \notin Live => ~WillBeIn)

\* Answers and broadcasts that have every change up to commit k.
FreshRows(k)  == {d \in Moment : d >= RowsVersion(k)}
FreshStats(k) == {d \in Stats : d.event >= EventVersion(k) /\ d.counts >= RowsVersion(k)}

\* A broadcast in flight is the only one of its commit, and was computed after it.
InTransit(i) ==
  /\ inbox[i].change \in 1..Now
  /\ news[inbox[i].change] = "sent"
  /\ inbox[i].stats \in FreshStats(inbox[i].change)
  /\ \A j \in 1..Len(inbox) : inbox[j].change = inbox[i].change => j = i
InboxOK == \A i \in 1..Len(inbox) : InTransit(i)

\* A query that shows, or is being answered with, what is fresh at commit k.
Current(q, k, fresh) ==
  /\ Loaded(q)
  /\ InFlight(q) => q.asked >= k
  /\ ~InFlight(q) /\ ~q.failed => q.data \in fresh

HeardOK == \A k \in 1..Now : news[k] = "heard" => Current(tables, k, FreshRows(k))

\* A broadcast about a change before the connection reached the page after it.
LateBroadcast == \E k \in 1..resynced : news[k] \in {"heard", "early"}
ResyncOK ==
  /\ resynced <= Now
  /\ resynced > 0 => /\ Current(tables, resynced, FreshRows(resynced))
                     /\ Current(stats, resynced,
                                IF LateBroadcast THEN Stats ELSE FreshStats(resynced))

LiveInv == TypeOK /\ BudgetOK /\ RoomOK /\ InboxOK /\ HeardOK /\ ResyncOK

---------------------------------------------------------------------------
(* Versions.                                                               *)

LEMMA Greatest ==
  ASSUME NEW n \in Nat, NEW S \in SUBSET (0..n), S # {}
  PROVE  Max(S) \in S /\ \A y \in S : Max(S) >= y
<1> DEFINE T == {n - x : x \in S}
           R == {ss \in Nat \X Nat : ss[1] < ss[2]}
<1>1. T \subseteq Nat /\ T # {}
  <2>1. \A x \in S : n - x \in Nat
    OBVIOUS
  <2>. QED
    BY <2>1
<1>2. IsWellFoundedOn(R, Nat)
  BY NatLessThanWellFounded, Zenon DEF OpToRel
<1> HIDE DEF T
<1>3. PICK m \in T : \A y \in T : ~(y < m)
  <2>1. PICK m \in T : \A y \in T : ~(<<y, m>> \in R)
    BY <1>1, <1>2, WFMin
  <2>. QED
    BY <1>1, <2>1
<1> USE DEF T
<1>4. PICK x \in S : m = n - x
  OBVIOUS
<1>5. \A y \in S : x >= y
  BY <1>3, <1>4
<1>. QED
  BY <1>5 DEF Max

\* Versions belong to commits up to the one read at.
LEMMA Versions ==
  ASSUME NEW t \in Nat
  PROVE  /\ RowsVersion(t) \in 0..t /\ EventVersion(t) \in 0..t
         /\ \A k \in 1..t : news[k] # "silent" => k <= RowsVersion(t)
         /\ \A k \in 1..t : news[k] = "silent" => k <= EventVersion(t)
         /\ RowsVersion(t) = 0 \/ (RowsVersion(t) \in 1..t /\ news[RowsVersion(t)] # "silent")
         /\ EventVersion(t) = 0 \/ (EventVersion(t) \in 1..t /\ news[EventVersion(t)] = "silent")
<1> DEFINE R == {0} \cup {k \in 1..t : news[k] # "silent"}
           E == {0} \cup {k \in 1..t : news[k] = "silent"}
<1>1. R \in SUBSET (0..t) /\ R # {} /\ E \in SUBSET (0..t) /\ E # {}
  OBVIOUS
<1>2. RowsVersion(t) \in R /\ \A y \in R : RowsVersion(t) >= y
  BY <1>1, Greatest DEF RowsVersion
<1>3. EventVersion(t) \in E /\ \A y \in E : EventVersion(t) >= y
  BY <1>1, Greatest DEF EventVersion
<1>. QED
  BY <1>2, <1>3

\* A later read is not older.
LEMMA VersionsGrow ==
  ASSUME NEW s \in Nat, NEW t \in Nat, s <= t
  PROVE  RowsVersion(s) <= RowsVersion(t) /\ EventVersion(s) <= EventVersion(t)
<1>1. /\ RowsVersion(s) \in 0..s /\ RowsVersion(t) \in 0..t
      /\ EventVersion(s) \in 0..s /\ EventVersion(t) \in 0..t
  BY Versions
<1>2. /\ \A k \in 1..t : news[k] # "silent" => k <= RowsVersion(t)
      /\ \A k \in 1..t : news[k] = "silent" => k <= EventVersion(t)
  BY Versions
<1>3. /\ RowsVersion(s) = 0 \/ (RowsVersion(s) \in 1..s /\ news[RowsVersion(s)] # "silent")
      /\ EventVersion(s) = 0 \/ (EventVersion(s) \in 1..s /\ news[EventVersion(s)] = "silent")
  BY Versions
<1>4. 1..s \subseteq 1..t
  OBVIOUS
<1>5. RowsVersion(s) = 0 \/ RowsVersion(s) <= RowsVersion(t)
  BY <1>2, <1>3, <1>4
<1>6. EventVersion(s) = 0 \/ EventVersion(s) <= EventVersion(t)
  BY <1>2, <1>3, <1>4
<1>. QED
  BY <1>1, <1>5, <1>6

\* What every step does to the news of the commits so far.
NewsKept ==
  /\ Now' \in Nat /\ Now <= Now'
  /\ \A k \in 1..Now : /\ news'[k] = "silent" <=> news[k] = "silent"
                       /\ news[k] \in {"heard", "early"} => news'[k] = news[k]

\* Which changes were committed by then is not altered later.
LEMMA VersionsStay ==
  ASSUME NewsKept, NEW t \in Nat, t <= Now, Now \in Nat
  PROVE  RowsVersion(t)' = RowsVersion(t) /\ EventVersion(t)' = EventVersion(t)
<1>1. \A k \in 1..t : news'[k] = "silent" <=> news[k] = "silent"
  BY DEF NewsKept
<1>2. /\ {k \in 1..t : news'[k] # "silent"} = {k \in 1..t : news[k] # "silent"}
      /\ {k \in 1..t : news'[k] = "silent"} = {k \in 1..t : news[k] = "silent"}
  BY <1>1
<1>. QED
  BY <1>2 DEF RowsVersion, EventVersion

LEMMA FreshStay ==
  ASSUME NewsKept, NEW t \in Nat, t <= Now, Now \in Nat
  PROVE  FreshRows(t)' = FreshRows(t) /\ FreshStats(t)' = FreshStats(t)
BY VersionsStay DEF FreshRows, FreshStats, Moment, Stats

\* What is fresh at a later commit is fresh at an earlier one.
LEMMA FreshNested ==
  ASSUME NEW s \in Nat, NEW t \in Nat, s <= t
  PROVE  FreshRows(t) \subseteq FreshRows(s) /\ FreshStats(t) \subseteq FreshStats(s)
<1>1. /\ RowsVersion(s) <= RowsVersion(t) /\ EventVersion(s) <= EventVersion(t)
      /\ RowsVersion(s) \in Nat /\ RowsVersion(t) \in Nat
      /\ EventVersion(s) \in Nat /\ EventVersion(t) \in Nat
  BY Versions, VersionsGrow
<1>2. Moment \subseteq Nat /\ \A d \in Stats : d.event \in Nat /\ d.counts \in Nat
  BY BoundsOK DEF Moment, Stats
<1>3. \A d \in Moment : d >= RowsVersion(t) => d >= RowsVersion(s)
  BY <1>1, <1>2
<1>4. \A d \in Stats : /\ d.event >= EventVersion(t) => d.event >= EventVersion(s)
                       /\ d.counts >= RowsVersion(t) => d.counts >= RowsVersion(s)
  BY <1>1, <1>2
<1>. QED
  BY <1>3, <1>4 DEF FreshRows, FreshStats

\* An answer to a request sent at commit k has every change up to k.
LEMMA AnswersFresh ==
  ASSUME Now \in Moment, NEW k \in Moment
  PROVE  FindByEvent(k) \subseteq FreshRows(k) /\ GetStats(k) \subseteq FreshStats(k)
<1>1. Moment \subseteq Nat /\ Now \in Nat /\ k \in Nat
  BY BoundsOK DEF Moment
<1>2. \A t \in k..Now : /\ RowsVersion(t) \in Moment /\ EventVersion(t) \in Moment
                        /\ RowsVersion(t) >= RowsVersion(k) /\ EventVersion(t) >= EventVersion(k)
  <2>. SUFFICES ASSUME NEW t \in k..Now
                PROVE  /\ RowsVersion(t) \in Moment /\ EventVersion(t) \in Moment
                       /\ RowsVersion(t) >= RowsVersion(k) /\ EventVersion(t) >= EventVersion(k)
    OBVIOUS
  <2>1. t \in Nat /\ k <= t /\ t <= MaxCommits /\ MaxCommits \in Nat
    BY <1>1, BoundsOK DEF Moment
  <2>2. /\ RowsVersion(t) \in 0..t /\ EventVersion(t) \in 0..t
        /\ RowsVersion(k) \in 0..k /\ EventVersion(k) \in 0..k
        /\ RowsVersion(k) <= RowsVersion(t) /\ EventVersion(k) <= EventVersion(t)
    BY <1>1, <2>1, Versions, VersionsGrow
  <2>. QED
    BY <2>1, <2>2 DEF Moment
<1>3. FindByEvent(k) \subseteq FreshRows(k)
  BY <1>2 DEF FindByEvent, FreshRows
<1>4. ASSUME NEW e \in k..Now, NEW c \in e..Now
      PROVE  [event |-> EventVersion(e), counts |-> RowsVersion(c)] \in FreshStats(k)
  <2>1. c \in k..Now
    BY <1>1
  <2>. QED
    BY <1>2, <2>1 DEF FreshStats, Stats
<1>5. GetStats(k) \subseteq FreshStats(k)
  BY <1>4 DEF GetStats
<1>. QED
  BY <1>3, <1>5

---------------------------------------------------------------------------
(* One query of the cache.                                                 *)

LEMMA RequestOps ==
  ASSUME NEW Data, NEW q \in Query(Data, Moment), NEW k \in Moment
  PROVE  /\ EmptyQuery \in Query(Data, Moment)
         /\ Asked(q, k) \in Query(Data, Moment)
         /\ Mounted(q, k) \in Query(Data, Moment)
         /\ Refetched(q, k) \in Query(Data, Moment)
         /\ Failed(q, k, TRUE) \in Query(Data, Moment)
         /\ Failed(q, k, FALSE) \in Query(Data, Moment)
<1>1. EmptyQuery \in Query(Data, Moment)
  BY DEF EmptyQuery, Query
<1>2. Asked(q, k) \in Query(Data, Moment)
  BY DEF Asked, Loaded, Query
<1>3. Mounted(q, k) \in Query(Data, Moment) /\ Refetched(q, k) \in Query(Data, Moment)
  BY <1>2 DEF Mounted, Refetched
<1>4. GivenUp(q) \in Query(Data, Moment)
  BY DEF GivenUp, Query
<1>5. [q EXCEPT !.asked = k, !.retried = TRUE] \in Query(Data, Moment)
  BY DEF Query
<1>. QED
  BY <1>1, <1>2, <1>3, <1>4, <1>5 DEF Failed

LEMMA AnswerOps ==
  ASSUME NEW Data, NEW q \in Query(Data, Moment), NEW d \in Data
  PROVE  /\ Written(q, d) \in Query(Data, Moment)
         /\ Answered(q, d) \in Query(Data, Moment)
BY DEF Answered, Written, Query

\* What a query promises at commit k survives everything the cache does to it,
\* if requests are sent no earlier and answers are fresh; a request sent now for
\* data that is there promises what is fresh now.
LEMMA QueryStaysCurrent ==
  ASSUME NEW Data, NEW q \in Query(Data, Moment), NEW k \in Nat, NEW now \in Moment, k <= now,
         NEW fresh, Nothing \notin Data
  PROVE  /\ Loaded(q) => Current(Refetched(q, now), k, fresh)
         /\ Current(q, k, fresh) => /\ Current(Mounted(q, now), k, fresh)
                                    /\ Current(Refetched(q, now), k, fresh)
                                    /\ Current(Failed(q, now, TRUE), k, fresh)
                                    /\ Current(Failed(q, now, FALSE), k, fresh)
         /\ \A d \in Data : d \in fresh =>
              /\ Current(Answered(q, d), k, fresh)
              /\ Current(q, k, fresh) => Current(Written(q, d), k, fresh)
<1>1. Nothing \notin Moment /\ Moment \subseteq Nat
  BY AbsentOK, BoundsOK DEF Moment
<1>2. Loaded(q) => Current(Asked(q, now), k, fresh)
  BY <1>1 DEF Asked, Loaded, InFlight, Current, Query
<1>3. Current(q, k, fresh) => Loaded(q)
  BY DEF Current
<1>4. Loaded(q) => Refetched(q, now) = Asked(q, now)
  BY DEF Refetched
<1>5. Mounted(q, now) \in {q, Asked(q, now)}
  BY DEF Mounted
<1>6. Current(q, k, fresh) => /\ Current(Failed(q, now, TRUE), k, fresh)
                              /\ Current(Failed(q, now, FALSE), k, fresh)
  <2>1. Current(q, k, fresh) => Current(GivenUp(q), k, fresh)
    BY DEF GivenUp, Loaded, InFlight, Current, Query
  <2>2. Current(q, k, fresh) => Current([q EXCEPT !.asked = now, !.retried = TRUE], k, fresh)
    BY <1>1 DEF Loaded, InFlight, Current, Query
  <2>. QED
    BY <2>1, <2>2 DEF Failed
<1>7. ASSUME NEW d \in Data, d \in fresh
      PROVE  /\ Current(Answered(q, d), k, fresh)
             /\ Current(q, k, fresh) => Current(Written(q, d), k, fresh)
  <2>1. d # Nothing
    OBVIOUS
  <2>2. Current(Answered(q, d), k, fresh)
    BY <1>7, <2>1 DEF Answered, Written, Loaded, InFlight, Current, Query
  <2>3. Current(q, k, fresh) => Current(Written(q, d), k, fresh)
    BY <1>7, <2>1 DEF Written, Loaded, InFlight, Current, Query
  <2>. QED
    BY <2>2, <2>3
<1>. QED
  BY <1>2, <1>3, <1>4, <1>5, <1>6, <1>7

---------------------------------------------------------------------------
(* Types, the allowance and the news.                                      *)

Message   == {"subscribe", "unsubscribe"}
Broadcasts == [change : Moment, stats : Stats]

LEMMA Absent ==
  /\ Moment \subseteq Nat /\ 0 \in Moment
  /\ Nothing \notin Moment /\ Nothing \notin Stats
BY BoundsOK, AbsentOK DEF Moment, Stats

\* A broadcast's outcome is settled.
LEMMA NewsSet ==
  ASSUME TypeOK, NEW k \in 1..Now, news[k] \in {"due", "sent"},
         NEW outcome \in Outcome \ {"silent"}, news' = [news EXCEPT ![k] = outcome]
  PROVE  news' \in Seq(Outcome) /\ Now' = Now /\ NewsKept
<1>1. /\ news' \in Seq(Outcome) /\ Len(news') = Len(news)
      /\ \A j \in 1..Len(news) : news'[j] = IF j = k THEN outcome ELSE news[j]
  BY ExceptSeq DEF TypeOK, Now
<1>2. Len(news) \in Nat
  BY LenProperties DEF TypeOK
<1>. QED
  BY <1>1, <1>2 DEF NewsKept, Now

LEMMA NewsAppended ==
  ASSUME TypeOK, NEW outcome \in Outcome, news' = Append(news, outcome)
  PROVE  news' \in Seq(Outcome) /\ Now' = Now + 1 /\ NewsKept /\ news'[Now + 1] = outcome
<1>1. /\ news' \in Seq(Outcome) /\ Len(news') = Len(news) + 1
      /\ \A j \in 1..Len(news) : news'[j] = news[j]
      /\ news'[Len(news) + 1] = outcome
  BY AppendProperties DEF TypeOK
<1>2. Len(news) \in Nat
  BY LenProperties DEF TypeOK
<1>. QED
  BY <1>1, <1>2 DEF NewsKept, Now

LEMMA NewsNext ==
  ASSUME TypeOK, InboxOK, Next
  PROVE  /\ news' \in Seq(Outcome) /\ NewsKept
         /\ Now' = Now \/ (Now' = Now + 1 /\ (Book \/ EditCommits))
<1>1. Now \in Nat
  BY LenProperties DEF TypeOK, Now
<1>2. CASE Book
  BY <1>2, NewsAppended DEF Book, Outcome
<1>3. CASE EditCommits
  BY <1>3, NewsAppended DEF EditCommits, Outcome
<1>4. ASSUME NEW k \in 1..Now, Broadcast(k) \/ SwallowError(k)
      PROVE  news' \in Seq(Outcome) /\ Now' = Now /\ NewsKept
  <2>1. PICK o \in {"sent", "missed", "swallowed"} : news' = [news EXCEPT ![k] = o]
    BY <1>4 DEF Broadcast, SwallowError
  <2>2. news[k] = "due"
    BY <1>4 DEF Broadcast, SwallowError
  <2>. QED
    BY <2>1, <2>2, NewsSet DEF Outcome
<1>5. CASE Deliver
  <2> DEFINE c == Head(inbox).change
  <2>1. c \in 1..Now /\ news[c] = "sent"
    <3>1. Len(inbox) \in Nat /\ Len(inbox) >= 1 /\ Head(inbox) = inbox[1]
      BY <1>5, LenProperties, EmptySeq DEF Deliver, TypeOK
    <3>. QED
      BY <3>1 DEF InboxOK, InTransit
  <2>2. PICK o \in {"heard", "early", "missed"} : news' = [news EXCEPT ![c] = o]
    BY <1>5 DEF Deliver
  <2>. QED
    BY <2>1, <2>2, NewsSet DEF Outcome
<1>6. CASE Drop
  <2>1. news' = [k \in 1..Now |-> IF news[k] = "sent" THEN "missed" ELSE news[k]]
    BY <1>6 DEF Drop
  <2>2. \A k \in 1..Now : news[k] \in Outcome
    BY ElementOfSeq DEF TypeOK, Now
  <2>3. news' \in Seq(Outcome) /\ Len(news') = Now
    BY <1>1, <2>1, <2>2 DEF Outcome
  <2>4. \A k \in 1..Now : news'[k] = IF news[k] = "sent" THEN "missed" ELSE news[k]
    BY <2>1
  <2>5. Now' = Now
    BY <2>3 DEF Now
  <2>6. NewsKept
    BY <1>1, <2>4, <2>5 DEF NewsKept
  <2>. QED
    BY <2>3, <2>5, <2>6
<1>7. CASE UNCHANGED news
  BY <1>1, <1>7 DEF TypeOK, NewsKept, Now
<1>8. CASE JoinOrLeave \/ Connect \/ Answers \/ Navigate \/ TryAgain
  BY <1>7, <1>8 DEF JoinOrLeave, Connect, Answers, StatsAnswer, StatsError, TablesAnswer,
                    TablesError, Navigate, TryAgain, serverVars
<1>9. CASE ClickSave \/ ClickCancel \/ EditRefused \/ EditAnswerLost \/ EditAnswered
  BY <1>7, <1>9 DEF ClickSave, ClickCancel, EditRefused, EditAnswerLost, EditAnswered, serverVars
<1>. QED
  BY <1>2, <1>3, <1>4, <1>5, <1>6, <1>8, <1>9 DEF Next

\* The bounds: every commit was paid for.
LEMMA BudgetNext ==
  ASSUME TypeOK, BudgetOK, InboxOK, Next
  PROVE  BudgetOK' /\ Now' \in Moment /\ left' \in [Spendable -> Nat]
<1>1. /\ Now \in Nat /\ MaxCommits \in Nat /\ UnderWay \in {0, 1} /\ UnderWay' \in {0, 1}
      /\ left["bookings"] \in Nat /\ left["edits"] \in Nat
  BY BoundsOK, LenProperties DEF TypeOK, Now, Spendable, UnderWay
<1>2. Now' = Now \/ (Now' = Now + 1 /\ (Book \/ EditCommits))
  BY NewsNext
<1>3. ASSUME NEW what \in Spendable, Spend(what)
      PROVE  /\ left' \in [Spendable -> Nat] /\ left'[what] = left[what] - 1 /\ left[what] > 0
             /\ \A other \in Spendable \ {what} : left'[other] = left[other]
  BY <1>3 DEF Spend, TypeOK
<1>4. {"bookings", "edits", "drops", "errors", "moves"} \subseteq Spendable
  BY DEF Spendable
<1>5. CASE Book
  <2>1. UnderWay' = UnderWay
    BY <1>5 DEF Book, tabVars, editVars, UnderWay
  <2>2. /\ left' \in [Spendable -> Nat] /\ left'["bookings"] = left["bookings"] - 1
        /\ left["bookings"] > 0 /\ left'["edits"] = left["edits"]
    BY <1>3, <1>4, <1>5 DEF Book
  <2>. QED
    BY <1>1, <1>2, <2>1, <2>2 DEF BudgetOK, Moment
<1>6. CASE EditCommits
  <2>1. UnderWay = 1 /\ UnderWay' = 0 /\ left' = left
    BY <1>6 DEF EditCommits, UnderWay
  <2>. QED
    BY <1>1, <1>2, <2>1 DEF BudgetOK, Moment, TypeOK
<1>7. CASE ClickSave \/ ClickCancel
  <2>1. UnderWay = 0 /\ Now' = Now
    BY <1>7 DEF ClickSave, ClickCancel, UnderWay, serverVars, Now
  <2>2. /\ left' \in [Spendable -> Nat] /\ left'["edits"] = left["edits"] - 1
        /\ left["edits"] > 0 /\ left'["bookings"] = left["bookings"]
    BY <1>3, <1>4, <1>7 DEF ClickSave, ClickCancel
  <2>. QED
    BY <1>1, <2>1, <2>2 DEF BudgetOK, Moment
<1>8. ASSUME Now' = Now, UnderWay' <= UnderWay, left' \in [Spendable -> Nat],
             left'["bookings"] = left["bookings"], left'["edits"] = left["edits"]
      PROVE  BudgetOK' /\ Now' \in Moment /\ left' \in [Spendable -> Nat]
  BY <1>1, <1>8 DEF BudgetOK, Moment
<1>9. ASSUME Now' = Now, left' = left, UnderWay' <= UnderWay
      PROVE  BudgetOK' /\ Now' \in Moment /\ left' \in [Spendable -> Nat]
  BY <1>8, <1>9 DEF TypeOK
<1>10. ASSUME Now' = Now, NEW what \in {"drops", "errors", "moves"}, Spend(what), edit' = edit
       PROVE  BudgetOK' /\ Now' \in Moment /\ left' \in [Spendable -> Nat]
  BY <1>1, <1>3, <1>4, <1>8, <1>10 DEF UnderWay
<1>11. CASE ~Book /\ ~EditCommits /\ ~ClickSave /\ ~ClickCancel
  <2>1. Now' = Now
    BY <1>2, <1>11
  <2>2. edit' = edit => UnderWay' <= UnderWay
    BY <1>1 DEF UnderWay
  <2>3. ASSUME NEW k \in 1..Now, Broadcast(k) \/ SwallowError(k)
        PROVE  left' = left /\ edit' = edit
    BY <2>3 DEF Broadcast, SwallowError, tabVars, editVars
  <2>4. CASE JoinOrLeave \/ Deliver \/ Connect \/ StatsAnswer \/ TablesAnswer \/ TryAgain
    BY <1>9, <2>1, <2>2, <2>4
    DEF JoinOrLeave, Deliver, Connect, StatsAnswer, TablesAnswer, TryAgain, tabVars, editVars
  <2>5. CASE Drop \/ StatsError \/ TablesError \/ Navigate
    BY <1>10, <2>1, <2>5 DEF Drop, StatsError, TablesError, Navigate, tabVars, editVars
  <2>6. CASE EditRefused \/ EditAnswerLost \/ EditAnswered
    BY <1>1, <1>9, <2>1, <2>6 DEF EditRefused, EditAnswerLost, EditAnswered, UnderWay
  <2>. QED
    BY <1>9, <1>11, <2>1, <2>2, <2>3, <2>4, <2>5, <2>6 DEF Next, Answers
<1>. QED
  BY <1>5, <1>6, <1>7, <1>11

---------------------------------------------------------------------------
(* The socket and the room.                                                *)

SocketTypeOK ==
  /\ room \in BOOLEAN /\ linked \in BOOLEAN
  /\ outbox \in Seq(Message)
  /\ inbox \in Seq(Broadcasts)
  /\ resynced \in Moment

TabTypeOK ==
  /\ page \in Page
  /\ stats \in Query(Stats, Moment)
  /\ tables \in Query(Moment, Moment)
  /\ edit \in {"none", "saving", "saved", "cancelling", "cancelled", "lost"}
  /\ sender \in Page \cup {Nothing}

\* A message that is sent last decides.
LEMMA LastSent ==
  ASSUME NEW box \in Seq(Message), NEW m \in Message
  PROVE  /\ \A sent : sent = Append(box, m) =>
              sent \in Seq(Message) /\ sent # <<>> /\ sent[Len(sent)] = m
         /\ box \o <<m>> = Append(box, m)
         /\ box \o <<>> = box
<1>1. Len(box) \in Nat
  BY LenProperties
<1>. QED
  BY <1>1, AppendProperties, AppendIsConcat, ConcatEmptySeq

\* Leaving a live page and entering one, in the messages.
LEMMA PageChange ==
  ASSUME SocketTypeOK, RoomOK, NEW p \in Page, p # page,
         outbox' = outbox \o (IF page \in Live THEN <<"unsubscribe">> ELSE <<>>)
                          \o (IF p \in Live THEN <<"subscribe">> ELSE <<>>),
         page' = p, UNCHANGED <<room, linked>>
  PROVE  outbox' \in Seq(Message) /\ RoomOK'
<1>1. outbox \in Seq(Message) /\ "subscribe" \in Message /\ "unsubscribe" \in Message
  BY DEF SocketTypeOK, Message
<1>2. CASE p \in Live
  <2>1. PICK box \in Seq(Message) : outbox' = box \o <<"subscribe">>
    BY <1>1, <1>2, LastSent
  <2>2. outbox' = Append(box, "subscribe")
    BY <1>1, <2>1, LastSent
  <2>3. outbox' \in Seq(Message) /\ outbox' # <<>> /\ outbox'[Len(outbox')] = "subscribe"
    BY <1>1, <2>2, LastSent
  <2>. QED
    BY <1>2, <2>3 DEF RoomOK, WillBeIn
<1>3. CASE p \notin Live /\ page \in Live
  <2>1. outbox' = Append(outbox, "unsubscribe")
    BY <1>1, <1>3, LastSent
  <2>2. outbox' \in Seq(Message) /\ outbox' # <<>> /\ outbox'[Len(outbox')] = "unsubscribe"
    BY <1>1, <2>1, LastSent
  <2>. QED
    BY <1>3, <2>2 DEF RoomOK, WillBeIn
<1>4. CASE p \notin Live /\ page \notin Live
  <2>1. outbox' = outbox
    BY <1>1, <1>4, LastSent
  <2>. QED
    BY <1>1, <1>4, <2>1 DEF RoomOK, WillBeIn
<1>. QED
  BY <1>2, <1>3, <1>4

\* The statements of the pages that neither connect nor move.
LEMMA RoomStays ==
  ASSUME SocketTypeOK, RoomOK, UNCHANGED <<room, linked, outbox, page>>
  PROVE  RoomOK' /\ outbox' \in Seq(Message)
BY DEF SocketTypeOK, RoomOK, WillBeIn

LEMMA RoomNext ==
  ASSUME TypeOK, RoomOK, Next
  PROVE  RoomOK' /\ room' \in BOOLEAN /\ linked' \in BOOLEAN /\ outbox' \in Seq(Message)
<1>1. /\ SocketTypeOK /\ page \in Page
      /\ room \in BOOLEAN /\ linked \in BOOLEAN /\ outbox \in Seq(Message)
  BY DEF TypeOK, SocketTypeOK, Message, Broadcasts
<1>2. CASE JoinOrLeave
  <2>1. /\ linked /\ outbox # <<>> /\ outbox' = Tail(outbox)
        /\ room' = (Head(outbox) = "subscribe") /\ UNCHANGED <<linked, page>>
    BY <1>2 DEF JoinOrLeave, tabVars
  <2>2. /\ Len(outbox) \in Nat \ {0} /\ Head(outbox) = outbox[1]
        /\ outbox' \in Seq(Message) /\ Len(outbox') = Len(outbox) - 1
        /\ \A i \in 1..Len(outbox') : outbox'[i] = outbox[i + 1]
    BY <1>1, <2>1, HeadTailProperties, EmptySeq
  <2>3. CASE outbox' = <<>>
    <3>1. Len(outbox') = 0
      BY <2>3
    <3>2. Len(outbox) = 1
      BY <2>2, <3>1
    <3>. QED
      BY <1>1, <2>1, <2>2, <2>3, <3>2 DEF RoomOK, WillBeIn
  <2>4. CASE outbox' # <<>>
    <3>1. Len(outbox') \in Nat \ {0}
      BY <2>2, <2>4, EmptySeq
    <3>2. outbox'[Len(outbox')] = outbox[Len(outbox)]
      BY <2>2, <3>1
    <3>. QED
      BY <1>1, <2>1, <2>2, <2>4, <3>2 DEF RoomOK, WillBeIn
  <2>. QED
    BY <1>1, <2>1, <2>2, <2>3, <2>4
<1>3. CASE Drop
  <2>1. outbox' = <<>> /\ ~linked' /\ ~room' /\ linked' \in BOOLEAN /\ room' \in BOOLEAN
    BY <1>3 DEF Drop
  <2>2. outbox' \in Seq(Message)
    BY <2>1, EmptySeq
  <2>. QED
    BY <2>1, <2>2 DEF RoomOK, WillBeIn
<1>4. CASE Connect
  <2>1. ~linked /\ linked' = TRUE /\ UNCHANGED <<room, page>>
    BY <1>4 DEF Connect, serverVars
  <2>2. CASE page \in Live
    <3>1. outbox' = Append(outbox, "subscribe")
      BY <1>4, <2>2 DEF Connect, HandleConnect
    <3>2. outbox' \in Seq(Message) /\ outbox' # <<>> /\ outbox'[Len(outbox')] = "subscribe"
      BY <1>1, <3>1, LastSent DEF Message
    <3>. QED
      BY <1>1, <2>1, <2>2, <3>2 DEF RoomOK, WillBeIn
  <2>3. CASE page \notin Live
    <3>1. outbox' = outbox
      BY <1>4, <2>3 DEF Connect
    <3>. QED
      BY <1>1, <2>1, <2>3, <3>1 DEF RoomOK, WillBeIn
  <2>. QED
    BY <2>2, <2>3
<1>5. CASE Navigate
  <2>1. PICK p \in Page \ {page} : GoTo(p, stats, tables)
    BY <1>5 DEF Navigate
  <2>2. UNCHANGED <<room, linked>>
    BY <1>5 DEF Navigate, serverVars
  <2>. QED
    BY <1>1, <2>1, <2>2, PageChange DEF GoTo
<1>6. CASE EditAnswered
  <2>1. UNCHANGED <<room, linked>>
    BY <1>6 DEF EditAnswered, serverVars
  <2>2. CASE Destination # page
    <3>1. GoTo(Destination, Invalidated(stats, Counting), Invalidated(tables, Live))
      BY <1>6, <2>2 DEF EditAnswered
    <3>2. Destination \in Page
      BY <1>1 DEF Destination, Page, Counting, Live
    <3>. QED
      BY <1>1, <2>1, <2>2, <3>1, <3>2, PageChange DEF GoTo
  <2>3. CASE Destination = page
    BY <1>1, <1>6, <2>1, <2>3, RoomStays DEF EditAnswered
  <2>. QED
    BY <2>2, <2>3
<1>7. ASSUME UNCHANGED <<room, linked, outbox, page>>
      PROVE  RoomOK' /\ room' \in BOOLEAN /\ linked' \in BOOLEAN /\ outbox' \in Seq(Message)
  BY <1>1, <1>7, RoomStays
<1>8. CASE Book \/ Deliver \/ Answers \/ \E k \in 1..Now : Broadcast(k) \/ SwallowError(k)
  BY <1>7, <1>8 DEF Book, Deliver, Answers, StatsAnswer, StatsError, TablesAnswer, TablesError,
                    Broadcast, SwallowError, serverVars, socketVars, tabVars
<1>9. CASE TryAgain \/ ClickSave \/ ClickCancel \/ EditCommits \/ EditRefused \/ EditAnswerLost
  BY <1>7, <1>9 DEF TryAgain, ClickSave, ClickCancel, EditCommits, EditRefused, EditAnswerLost,
                    serverVars, socketVars
<1>. QED
  BY <1>2, <1>3, <1>4, <1>5, <1>6, <1>8, <1>9 DEF Next

---------------------------------------------------------------------------
(* Broadcasts in flight.                                                   *)

LEMMA StaysInTransit ==
  ASSUME TypeOK, NewsKept, NEW i, NEW m, inbox'[i] = m,
         m.change \in 1..Now, news'[m.change] = "sent", m.stats \in FreshStats(m.change),
         \A j \in 1..Len(inbox') : inbox'[j].change = m.change => j = i
  PROVE  InTransit(i)'
<1> DEFINE c == m.change
<1>1. Now \in Nat /\ Now' \in Nat /\ Now <= Now' /\ c \in 1..Now
  BY LenProperties DEF TypeOK, Now, NewsKept
<1>2. FreshStats(c)' = FreshStats(c)
  BY <1>1, FreshStay
<1>3. /\ inbox'[i].change \in 1..Now' /\ news'[inbox'[i].change] = "sent"
      /\ \A j \in 1..Len(inbox') : inbox'[j].change = inbox'[i].change => j = i
  BY <1>1
<1>4. (inbox[i].stats \in FreshStats(inbox[i].change))'
  BY <1>2
<1>. QED
  BY <1>3, <1>4 DEF InTransit

LEMMA InboxStays ==
  ASSUME TypeOK, InboxOK, NewsKept, inbox' = inbox,
         \A k \in 1..Now : news[k] = "sent" => news'[k] = "sent"
  PROVE  InboxOK' /\ inbox' \in Seq(Broadcasts)
<1>1. ASSUME NEW i \in 1..Len(inbox)
      PROVE  InTransit(i)'
  BY StaysInTransit DEF InboxOK, InTransit
<1>. QED
  BY <1>1 DEF InboxOK, TypeOK, Broadcasts

LEMMA InboxNext ==
  ASSUME TypeOK, InboxOK, Next
  PROVE  InboxOK' /\ inbox' \in Seq(Broadcasts)
<1>1. /\ NewsKept /\ Now \in Nat /\ Now' \in Nat /\ Now <= Now' /\ Now \in Moment
      /\ inbox \in Seq(Broadcasts) /\ Len(inbox) \in Nat
  BY NewsNext, LenProperties DEF TypeOK, Now, NewsKept, Broadcasts
<1>3. ASSUME NEW i \in 1..Len(inbox)
      PROVE  InTransit(i)
  BY DEF InboxOK
<1>4. ASSUME NEW k \in 1..Now, Broadcast(k) \/ SwallowError(k)
      PROVE  InboxOK' /\ inbox' \in Seq(Broadcasts)
  <2>1. /\ news[k] = "due" /\ Len(news) = Now /\ news \in Seq(Outcome)
        /\ \E o \in Outcome : news' = [news EXCEPT ![k] = o]
    BY <1>4 DEF Broadcast, SwallowError, TypeOK, Now, Outcome
  <2>2. \A j \in 1..Now : news[j] = "sent" => news'[j] = "sent"
    BY <2>1, ExceptSeq
  <2>3. CASE inbox' = inbox
    BY <1>1, <2>2, <2>3, InboxStays
  <2>4. CASE inbox' # inbox
    <3>1. PICK s \in GetStats(k) : inbox' = Append(inbox, [change |-> k, stats |-> s])
      BY <1>4, <2>4 DEF Broadcast, SwallowError, socketVars
    <3>2. news' = [news EXCEPT ![k] = "sent"]
      BY <1>4, <2>4 DEF Broadcast, SwallowError, socketVars
    <3>3. news'[k] = "sent" /\ k \in 1..Now'
      BY <1>1, <2>1, <3>2, ExceptSeq DEF Outcome
    <3>4. k \in Moment /\ s \in FreshStats(k) /\ s \in Stats
      BY <1>1, AnswersFresh, BoundsOK DEF Moment, FreshStats
    <3> DEFINE m == [change |-> k, stats |-> s]
    <3>6. m \in Broadcasts /\ m.change = k /\ m.stats = s
      BY <3>4 DEF Broadcasts
    <3> HIDE DEF m
    <3>7. /\ inbox' \in Seq(Broadcasts) /\ Len(inbox') = Len(inbox) + 1
          /\ \A i \in 1..Len(inbox) : inbox'[i] = inbox[i]
          /\ inbox'[Len(inbox) + 1] = m
      BY <1>1, <3>1, <3>6, AppendProperties DEF m
    <3>8. \A j \in 1..Len(inbox') : j \in 1..Len(inbox) \/ j = Len(inbox) + 1
      BY <1>1, <3>7
    <3>9. \A j \in 1..Len(inbox) : inbox'[j].change # k
      BY <1>3, <2>1, <3>7 DEF InTransit
    <3>10. ASSUME NEW i \in 1..Len(inbox'), i = Len(inbox) + 1
           PROVE  InTransit(i)'
      BY <1>1, <3>3, <3>4, <3>6, <3>7, <3>8, <3>9, <3>10, StaysInTransit
    <3>11. ASSUME NEW i \in 1..Len(inbox)
           PROVE  InTransit(i)'
      <4>1. /\ inbox'[i] = inbox[i] /\ inbox[i].change \in 1..Now
            /\ news'[inbox[i].change] = "sent"
            /\ inbox[i].stats \in FreshStats(inbox[i].change)
        BY <1>3, <2>2, <3>7 DEF InTransit
      <4>2. \A j \in 1..Len(inbox') : inbox'[j].change = inbox[i].change => j = i
        BY <1>3, <3>6, <3>7, <3>8, <3>9 DEF InTransit
      <4>. QED
        BY <1>1, <4>1, <4>2, StaysInTransit
    <3>. QED
      BY <1>1, <3>7, <3>8, <3>10, <3>11 DEF InboxOK
  <2>. QED
    BY <2>3, <2>4
<1>5. CASE Deliver
  <2> DEFINE c == Head(inbox).change
  <2>1. /\ inbox # <<>> /\ inbox' = Tail(inbox) /\ \E o \in Outcome : news' = [news EXCEPT ![c] = o]
    BY <1>5 DEF Deliver, Outcome
  <2>2. /\ Len(inbox) >= 1 /\ Head(inbox) = inbox[1]
        /\ inbox' \in Seq(Broadcasts) /\ Len(inbox') = Len(inbox) - 1
        /\ \A i \in 1..Len(inbox') : inbox'[i] = inbox[i + 1]
    BY <1>1, <2>1, HeadTailProperties, EmptySeq
  <2>3. c \in 1..Now
    BY <1>1, <1>3, <2>2 DEF InTransit
  <2>4. \A j \in 1..Now : j # c => news'[j] = news[j]
    BY <2>1, <2>3, ExceptSeq DEF TypeOK, Now
  <2>5. ASSUME NEW i \in 1..Len(inbox')
        PROVE  InTransit(i)'
    <3>1. i + 1 \in 1..Len(inbox) /\ i + 1 # 1 /\ 1 \in 1..Len(inbox)
      BY <1>1, <2>2
    <3>2. inbox[i + 1].change # c
      BY <1>3, <2>2, <3>1 DEF InTransit
    <3>3. /\ inbox'[i] = inbox[i + 1] /\ inbox[i + 1].change \in 1..Now
          /\ news'[inbox[i + 1].change] = "sent"
          /\ inbox[i + 1].stats \in FreshStats(inbox[i + 1].change)
      BY <1>3, <2>2, <2>4, <3>1, <3>2 DEF InTransit
    <3>4. ASSUME NEW j \in 1..Len(inbox'), inbox'[j].change = inbox[i + 1].change
          PROVE  j = i
      <4>1. j + 1 \in 1..Len(inbox) /\ inbox[j + 1].change = inbox[i + 1].change
        BY <1>1, <2>2, <3>4
      <4>2. j + 1 = i + 1
        BY <1>3, <3>1, <4>1 DEF InTransit
      <4>. QED
        BY <4>2
    <3>. QED
      BY <1>1, <3>3, <3>4, StaysInTransit
  <2>. QED
    BY <2>2, <2>5 DEF InboxOK
<1>6. CASE Drop
  <2>1. inbox' = <<>>
    BY <1>6 DEF Drop
  <2>2. Len(inbox') = 0 /\ inbox' \in Seq(Broadcasts)
    BY <2>1, EmptySeq
  <2>. QED
    BY <2>2 DEF InboxOK
<1>7. CASE Book \/ EditCommits
  <2>1. inbox' = inbox /\ \E o \in Outcome : news' = Append(news, o)
    BY <1>7 DEF Book, EditCommits, socketVars, Outcome
  <2>2. \A j \in 1..Now : news'[j] = news[j]
    BY <2>1, AppendProperties DEF TypeOK, Now
  <2>. QED
    BY <1>1, <2>1, <2>2, InboxStays
<1>8. ASSUME inbox' = inbox, news' = news
      PROVE  InboxOK' /\ inbox' \in Seq(Broadcasts)
  BY <1>1, <1>8, InboxStays
<1>9. CASE JoinOrLeave \/ Connect \/ Answers \/ Navigate \/ TryAgain
  BY <1>8, <1>9 DEF JoinOrLeave, Connect, Answers, StatsAnswer, StatsError, TablesAnswer,
                    TablesError, Navigate, TryAgain, serverVars, socketVars
<1>10. CASE ClickSave \/ ClickCancel \/ EditRefused \/ EditAnswerLost \/ EditAnswered
  BY <1>8, <1>10 DEF ClickSave, ClickCancel, EditRefused, EditAnswerLost, EditAnswered,
                     serverVars, socketVars
<1>. QED
  BY <1>4, <1>5, <1>6, <1>7, <1>9, <1>10 DEF Next

---------------------------------------------------------------------------
(* The queries on the pages.                                               *)

\* Whatever q promises of the commits so far, q2 promises too.
KeepsPromises(q, q2) ==
  \A k \in 1..Now : \A fresh : Current(q, k, fresh) => Current(q2, k, fresh)

\* Reading again, and failing, break no promise.
LEMMA CacheKeepsPromises ==
  ASSUME Now \in Moment, NEW Data, Nothing \notin Data, NEW q \in Query(Data, Moment)
  PROVE  /\ KeepsPromises(q, q)
         /\ KeepsPromises(q, Mounted(q, Now))
         /\ KeepsPromises(q, Refetched(q, Now))
         /\ KeepsPromises(q, Mounted(Refetched(q, Now), Now))
         /\ KeepsPromises(q, Failed(q, Now, TRUE))
         /\ KeepsPromises(q, Failed(q, Now, FALSE))
<1>1. Now \in Nat /\ 1..Now \subseteq Nat /\ \A k \in 1..Now : k <= Now
  BY BoundsOK DEF Moment
<1>2. ASSUME NEW s \in Query(Data, Moment), NEW k \in 1..Now, NEW fresh, Current(s, k, fresh)
      PROVE  /\ Current(Mounted(s, Now), k, fresh)
             /\ Current(Refetched(s, Now), k, fresh)
             /\ Current(Failed(s, Now, TRUE), k, fresh)
             /\ Current(Failed(s, Now, FALSE), k, fresh)
  BY <1>1, <1>2, QueryStaysCurrent
<1>3. Refetched(q, Now) \in Query(Data, Moment)
  BY DEF Refetched, Asked, Loaded, Query
<1>. QED
  BY <1>2, <1>3 DEF KeepsPromises

\* So does going to another page.
LEMMA GoToKeeps ==
  ASSUME TypeOK, Now \in Moment, NEW p \in Page, GoTo(p, stats, tables)
            \/ GoTo(p, Invalidated(stats, Counting), Invalidated(tables, Live))
  PROVE  /\ page' \in Page /\ sender' \in Page \cup {Nothing}
         /\ stats' \in Query(Stats, Moment) /\ tables' \in Query(Moment, Moment)
         /\ KeepsPromises(stats, stats') /\ KeepsPromises(tables, tables')
<1>1. stats \in Query(Stats, Moment) /\ tables \in Query(Moment, Moment)
  BY DEF TypeOK
<1>2. /\ page' = p /\ sender' = Nothing
      /\ stats' \in {stats, Mounted(stats, Now), Refetched(stats, Now),
                     Mounted(Refetched(stats, Now), Now)}
      /\ tables' \in {tables, Mounted(tables, Now), Refetched(tables, Now),
                      Mounted(Refetched(tables, Now), Now)}
  BY DEF GoTo, Invalidated
<1>3. /\ \A q \in Query(Stats, Moment) : /\ Mounted(q, Now) \in Query(Stats, Moment)
                                         /\ Refetched(q, Now) \in Query(Stats, Moment)
      /\ \A q \in Query(Moment, Moment) : /\ Mounted(q, Now) \in Query(Moment, Moment)
                                          /\ Refetched(q, Now) \in Query(Moment, Moment)
  BY DEF Mounted, Refetched, Asked, Loaded, InFlight, Query
<1>4. KeepsPromises(stats, stats')
  BY <1>1, <1>2, CacheKeepsPromises, Absent
<1>5. KeepsPromises(tables, tables')
  BY <1>1, <1>2, CacheKeepsPromises, Absent
<1>. QED
  BY <1>1, <1>2, <1>3, <1>4, <1>5

\* The participants' tables.
LEMMA TablesNext ==
  ASSUME TypeOK, Now \in Moment, Next
  PROVE  /\ tables' \in Query(Moment, Moment)
         /\ \A k \in 1..Now : Current(tables, k, FreshRows(k)) => Current(tables', k, FreshRows(k))
<1>1. /\ tables \in Query(Moment, Moment) /\ Moment \subseteq Nat /\ Now \in Nat
      /\ Nothing \notin Moment 
  BY Absent DEF TypeOK
<1>2. ASSUME KeepsPromises(tables, tables'), tables' \in Query(Moment, Moment)
      PROVE  /\ tables' \in Query(Moment, Moment)
             /\ \A k \in 1..Now : Current(tables, k, FreshRows(k)) => Current(tables', k, FreshRows(k))
  BY <1>2 DEF KeepsPromises
<1>3. ASSUME tables' \in {tables, Mounted(tables, Now), Refetched(tables, Now),
                          Failed(tables, Now, TRUE), Failed(tables, Now, FALSE)}
      PROVE  /\ tables' \in Query(Moment, Moment)
             /\ \A k \in 1..Now : Current(tables, k, FreshRows(k)) => Current(tables', k, FreshRows(k))
  <2>1. tables' \in Query(Moment, Moment)
    BY <1>1, <1>3, RequestOps
  <2>2. KeepsPromises(tables, tables')
    BY <1>1, <1>3, CacheKeepsPromises
  <2>. QED
    BY <1>2, <2>1, <2>2
<1>4. CASE TablesAnswer
  <2>1. PICK d \in FindByEvent(tables.asked) : tables' = Answered(tables, d)
    BY <1>4 DEF TablesAnswer
  <2>2. tables.asked \in Moment /\ tables.asked \in Nat
    BY <1>1, <1>4 DEF TablesAnswer, InFlight, Query
  <2>3. d \in FreshRows(tables.asked) /\ d \in Moment
    BY <2>2, AnswersFresh DEF FreshRows
  <2>4. tables' \in Query(Moment, Moment)
    BY <1>1, <2>1, <2>3, AnswerOps
  <2>5. ASSUME NEW k \in 1..Now, Current(tables, k, FreshRows(k))
        PROVE  Current(tables', k, FreshRows(k))
    <3>1. k \in Nat /\ tables.asked \in Nat /\ k <= tables.asked /\ Now \in Nat /\ k <= Now
      <4>1. InFlight(tables)
        BY <1>4 DEF TablesAnswer
      <4>2. tables.asked >= k
        BY <2>5, <4>1 DEF Current
      <4>3. k \in Nat /\ k <= Now
        BY <1>1
      <4>. QED
        BY <1>1, <2>2, <4>2, <4>3
    <3>2. d \in FreshRows(k)
      BY <2>3, <3>1, FreshNested
    <3>. QED
      BY <1>1, <2>1, <2>3, <3>1, <3>2, QueryStaysCurrent
  <2>. QED
    BY <2>4, <2>5
<1>5. CASE Navigate \/ EditAnswered
  <2>1. Destination \in Page
    BY DEF Destination, Page, Counting, Live, TypeOK
  <2>2. \/ \E p \in Page : GoTo(p, stats, tables)
        \/ \E p \in Page : GoTo(p, Invalidated(stats, Counting), Invalidated(tables, Live))
        \/ tables' = Invalidated(tables, Live)
    BY <1>5, <2>1 DEF Navigate, EditAnswered
  <2>. QED
    BY <1>2, <1>3, <2>2, GoToKeeps DEF Invalidated
<1>6. CASE Deliver \/ Connect \/ TryAgain
  BY <1>3, <1>6 DEF Deliver, HandleStats, Connect, HandleConnect, TryAgain
<1>7. CASE TablesError
  BY <1>3, <1>7 DEF TablesError, Failed
<1>8. CASE Book \/ JoinOrLeave \/ Drop \/ StatsAnswer \/ StatsError
           \/ \E k \in 1..Now : Broadcast(k) \/ SwallowError(k)
  BY <1>3, <1>8 DEF Book, JoinOrLeave, Drop, StatsAnswer, StatsError, Broadcast, SwallowError, tabVars
<1>9. CASE ClickSave \/ ClickCancel \/ EditCommits \/ EditRefused \/ EditAnswerLost
  BY <1>3, <1>9 DEF ClickSave, ClickCancel, EditCommits, EditRefused, EditAnswerLost
<1>. QED
  BY <1>4, <1>5, <1>6, <1>7, <1>8, <1>9 DEF Next, Answers

\* The cards; a broadcast overwrites them with what it carries.
LEMMA CardsNext ==
  ASSUME TypeOK, InboxOK, Now \in Moment, Next
  PROVE  /\ stats' \in Query(Stats, Moment)
         /\ \A k \in 1..Now :
              \A fresh \in {FreshStats(k), Stats} :
                Current(stats, k, fresh) =>
                  \/ Current(stats', k, fresh)
                  \/ /\ Deliver /\ page \in Live /\ fresh # Stats
                     /\ Head(inbox).change < k /\ Current(stats', k, Stats)
<1>1. /\ stats \in Query(Stats, Moment) /\ Moment \subseteq Nat /\ Now \in Nat
      /\ Nothing \notin Stats 
  BY Absent DEF TypeOK
<1> DEFINE Goal == /\ stats' \in Query(Stats, Moment)
                   /\ \A k \in 1..Now :
                        \A fresh \in {FreshStats(k), Stats} :
                          Current(stats, k, fresh) =>
                            \/ Current(stats', k, fresh)
                            \/ /\ Deliver /\ page \in Live /\ fresh # Stats
                               /\ Head(inbox).change < k /\ Current(stats', k, Stats)
<1>2. ASSUME KeepsPromises(stats, stats'), stats' \in Query(Stats, Moment)
      PROVE  Goal
  BY <1>2 DEF KeepsPromises
<1>3. ASSUME stats' \in {stats, Mounted(stats, Now), Refetched(stats, Now),
                         Failed(stats, Now, TRUE), Failed(stats, Now, FALSE)}
      PROVE  Goal
  <2>1. stats' \in Query(Stats, Moment)
    BY <1>1, <1>3, RequestOps
  <2>2. KeepsPromises(stats, stats')
    BY <1>1, <1>3, CacheKeepsPromises
  <2>. QED
    BY <1>2, <2>1, <2>2
<1>4. CASE StatsAnswer
  <2>1. PICK d \in GetStats(stats.asked) : stats' = Answered(stats, d)
    BY <1>4 DEF StatsAnswer
  <2>2. stats.asked \in Moment /\ stats.asked \in Nat
    BY <1>1, <1>4 DEF StatsAnswer, InFlight, Query
  <2>3. d \in FreshStats(stats.asked) /\ d \in Stats
    BY <2>2, AnswersFresh DEF FreshStats
  <2>4. stats' \in Query(Stats, Moment)
    BY <1>1, <2>1, <2>3, AnswerOps
  <2>5. ASSUME NEW k \in 1..Now, NEW fresh \in {FreshStats(k), Stats}, Current(stats, k, fresh)
        PROVE  Current(stats', k, fresh)
    <3>1. k \in Nat /\ stats.asked \in Nat /\ k <= stats.asked /\ Now \in Nat /\ k <= Now
      <4>1. InFlight(stats)
        BY <1>4 DEF StatsAnswer
      <4>2. stats.asked >= k
        BY <2>5, <4>1 DEF Current
      <4>3. k \in Nat /\ k <= Now
        BY <1>1
      <4>. QED
        BY <1>1, <2>2, <4>2, <4>3
    <3>2. d \in fresh
      BY <2>3, <2>5, <3>1, FreshNested
    <3>. QED
      BY <1>1, <2>1, <2>3, <3>1, <3>2, QueryStaysCurrent
  <2>. QED
    BY <2>4, <2>5
<1>5. CASE Navigate \/ EditAnswered
  <2>1. Destination \in Page
    BY DEF Destination, Page, Counting, Live, TypeOK
  <2>2. \/ \E p \in Page : GoTo(p, stats, tables)
        \/ \E p \in Page : GoTo(p, Invalidated(stats, Counting), Invalidated(tables, Live))
        \/ stats' = Invalidated(stats, Counting)
    BY <1>5, <2>1 DEF Navigate, EditAnswered
  <2>. QED
    BY <1>2, <1>3, <2>2, GoToKeeps DEF Invalidated
<1>6. CASE Deliver /\ page \in Live
  <2> DEFINE m == Head(inbox)
  <2>1. stats' = Written(stats, m.stats)
    BY <1>6 DEF Deliver, HandleStats
  <2>2. m.change \in 1..Now /\ m.stats \in FreshStats(m.change)
    <3>1. Len(inbox) \in Nat /\ Len(inbox) >= 1 /\ Head(inbox) = inbox[1]
      BY <1>6, LenProperties, EmptySeq DEF Deliver, TypeOK
    <3>. QED
      BY <3>1 DEF InboxOK, InTransit
  <2>3. m.stats \in Stats
    BY <2>2 DEF FreshStats
  <2>4. stats' \in Query(Stats, Moment)
    BY <1>1, <2>1, <2>3, AnswerOps
  <2>5. ASSUME NEW k \in 1..Now, NEW fresh \in {FreshStats(k), Stats}, Current(stats, k, fresh)
        PROVE  \/ Current(stats', k, fresh)
               \/ fresh # Stats /\ m.change < k /\ Current(stats', k, Stats)
    <3>1. k \in Nat /\ Now \in Nat /\ k <= Now /\ m.change \in Nat
      BY <1>1, <2>2
    <3>2. m.stats \in fresh => Current(stats', k, fresh)
      BY <1>1, <2>1, <2>3, <2>5, <3>1, QueryStaysCurrent
    <3>3. FreshStats(k) \subseteq Stats
      BY DEF FreshStats
    <3>4. Current(stats, k, Stats)
      BY <2>5, <3>3 DEF Current
    <3>5. Current(stats', k, Stats)
      BY <1>1, <2>1, <2>3, <3>1, <3>4, QueryStaysCurrent
    <3>6. k <= m.change => m.stats \in FreshStats(k)
      BY <2>2, <3>1, FreshNested
    <3>. QED
      BY <2>3, <2>5, <3>1, <3>2, <3>5, <3>6
  <2>. QED
    BY <1>6, <2>4, <2>5
<1>7. CASE (Deliver /\ page \notin Live) \/ Connect \/ TryAgain
  BY <1>3, <1>7 DEF Deliver, Connect, HandleConnect, TryAgain
<1>8. CASE StatsError
  BY <1>3, <1>8 DEF StatsError, Failed
<1>9. CASE Book \/ JoinOrLeave \/ Drop \/ TablesAnswer \/ TablesError
           \/ \E k \in 1..Now : Broadcast(k) \/ SwallowError(k)
  BY <1>3, <1>9 DEF Book, JoinOrLeave, Drop, TablesAnswer, TablesError, Broadcast, SwallowError, tabVars
<1>10. CASE ClickSave \/ ClickCancel \/ EditCommits \/ EditRefused \/ EditAnswerLost
  BY <1>3, <1>10 DEF ClickSave, ClickCancel, EditCommits, EditRefused, EditAnswerLost
<1>. QED
  BY <1>4, <1>5, <1>6, <1>7, <1>8, <1>9, <1>10 DEF Next, Answers

---------------------------------------------------------------------------
(* The invariant.                                                          *)

LEMMA TypeNext ==
  ASSUME TypeOK, BudgetOK, RoomOK, InboxOK, Next
  PROVE  TypeOK'
<1>1. /\ news' \in Seq(Outcome) /\ Now' \in Moment /\ left' \in [Spendable -> Nat]
      /\ room' \in BOOLEAN /\ linked' \in BOOLEAN /\ outbox' \in Seq(Message)
      /\ inbox' \in Seq(Broadcasts) /\ Now \in Moment
  BY NewsNext, BudgetNext, RoomNext, InboxNext DEF TypeOK
<1>2. stats' \in Query(Stats, Moment) /\ tables' \in Query(Moment, Moment)
  BY <1>1, TablesNext, CardsNext
<1>3. resynced' \in Moment
  BY <1>1 DEF Next, Answers, Book, JoinOrLeave, Broadcast, SwallowError, Deliver, Drop, Connect,
              StatsAnswer, StatsError, TablesAnswer, TablesError, Navigate, TryAgain, ClickSave,
              ClickCancel, EditCommits, EditRefused, EditAnswerLost, EditAnswered,
              socketVars, TypeOK
<1>4. page \in Page /\ Destination \in Page /\ sender \in Page \cup {Nothing}
  BY DEF TypeOK, Destination, Page, Counting, Live
<1>5. page' \in Page
  BY <1>4 DEF Next, Answers, Book, JoinOrLeave, Broadcast, SwallowError, Deliver, Drop, Connect,
              StatsAnswer, StatsError, TablesAnswer, TablesError, Navigate, TryAgain, ClickSave,
              ClickCancel, EditCommits, EditRefused, EditAnswerLost, EditAnswered, GoTo, tabVars
<1>6. sender' \in Page \cup {Nothing}
  BY <1>4 DEF Next, Answers, Book, JoinOrLeave, Broadcast, SwallowError, Deliver, Drop, Connect,
              StatsAnswer, StatsError, TablesAnswer, TablesError, Navigate, TryAgain, ClickSave,
              ClickCancel, EditCommits, EditRefused, EditAnswerLost, EditAnswered, GoTo, tabVars,
              editVars
<1>7. edit' \in {"none", "saving", "saved", "cancelling", "cancelled", "lost"}
  BY DEF Next, Answers, Book, JoinOrLeave, Broadcast, SwallowError, Deliver, Drop, Connect,
         StatsAnswer, StatsError, TablesAnswer, TablesError, Navigate, TryAgain, ClickSave,
         ClickCancel, EditCommits, EditRefused, EditAnswerLost, EditAnswered, tabVars,
         editVars, TypeOK
<1>. QED
  BY <1>1, <1>2, <1>3, <1>5, <1>6, <1>7 DEF TypeOK, Message, Broadcasts

\* Only a delivery to a live page with loaded tables makes a change heard.
LEMMA HeardByDelivery ==
  ASSUME TypeOK, InboxOK, Next, NEW k \in 1..Now', news'[k] = "heard"
  PROVE  /\ k \in 1..Now
         /\ \/ news[k] = "heard"
            \/ Deliver /\ page \in Live /\ Loaded(tables) /\ tables' = Refetched(tables, Now)
<1>1. Now \in Nat /\ Now' \in Nat /\ news \in Seq(Outcome) /\ Len(news) = Now
  BY NewsNext, LenProperties DEF TypeOK, Now, NewsKept
<1>2. CASE Book \/ EditCommits
  <2>1. PICK o \in {"due", "silent"} : news' = Append(news, o)
    BY <1>2 DEF Book, EditCommits
  <2>2. Now' = Now + 1 /\ news'[Now + 1] = o /\ \A j \in 1..Now : news'[j] = news[j]
    BY <1>1, <2>1, AppendProperties DEF Outcome, Now
  <2>. QED
    BY <1>1, <2>2
<1>3. CASE ~Book /\ ~EditCommits
  <2>1. Now' = Now
    BY <1>3, NewsNext
  <2>2. ASSUME NEW j \in 1..Now, Broadcast(j) \/ SwallowError(j)
        PROVE  news[k] = "heard"
    <3>1. PICK o \in {"sent", "missed", "swallowed"} : news' = [news EXCEPT ![j] = o]
      BY <2>2 DEF Broadcast, SwallowError
    <3>. QED
      BY <1>1, <2>1, <3>1, ExceptSeq DEF Outcome
  <2>3. CASE Deliver
    <3> DEFINE c == Head(inbox).change
    <3>1. c \in 1..Now
      <4>1. Len(inbox) \in Nat /\ Len(inbox) >= 1 /\ Head(inbox) = inbox[1]
        BY <2>3, LenProperties, EmptySeq DEF Deliver, TypeOK
      <4>. QED
        BY <4>1 DEF InboxOK, InTransit
    <3>2. PICK o \in Outcome :
            /\ news' = [news EXCEPT ![c] = o]
            /\ o = "heard" => page \in Live /\ Loaded(tables) /\ tables' = Refetched(tables, Now)
      BY <2>3 DEF Deliver, HandleStats, Outcome
    <3>. QED
      BY <1>1, <2>1, <2>3, <3>1, <3>2, ExceptSeq
  <2>4. CASE Drop
    BY <1>1, <2>1, <2>4 DEF Drop
  <2>5. CASE news' = news
    BY <2>1, <2>5
  <2>6. CASE JoinOrLeave \/ Connect \/ Answers \/ Navigate \/ TryAgain
    BY <2>5, <2>6 DEF JoinOrLeave, Connect, Answers, StatsAnswer, StatsError, TablesAnswer,
                      TablesError, Navigate, TryAgain, serverVars
  <2>7. CASE ClickSave \/ ClickCancel \/ EditRefused \/ EditAnswerLost \/ EditAnswered
    BY <2>5, <2>7 DEF ClickSave, ClickCancel, EditRefused, EditAnswerLost, EditAnswered, serverVars
  <2>. QED
    BY <1>3, <2>1, <2>2, <2>3, <2>4, <2>6, <2>7 DEF Next
<1>. QED
  BY <1>2, <1>3

LEMMA HeardNext ==
  ASSUME TypeOK, InboxOK, HeardOK, Now \in Moment, Next
  PROVE  HeardOK'
<1>1. NewsKept /\ Now \in Nat /\ tables \in Query(Moment, Moment) /\ Nothing \notin Moment
  BY NewsNext, LenProperties, Absent DEF TypeOK, Now
<1>2. ASSUME NEW k \in 1..Now', news'[k] = "heard"
      PROVE  Current(tables', k, FreshRows(k)')
  <2>1. k \in 1..Now /\ k \in Nat /\ k <= Now
    BY <1>1, <1>2, HeardByDelivery
  <2>2. FreshRows(k)' = FreshRows(k)
    BY <1>1, <2>1, FreshStay
  <2>3. CASE news[k] = "heard"
    BY <2>1, <2>2, <2>3, TablesNext DEF HeardOK
  <2>4. CASE Loaded(tables) /\ tables' = Refetched(tables, Now)
    BY <1>1, <2>1, <2>4, QueryStaysCurrent
  <2>. QED
    BY <1>2, <2>3, <2>4, HeardByDelivery
<1>. QED
  BY <1>2 DEF HeardOK, Current

LEMMA ResyncNext ==
  ASSUME TypeOK, InboxOK, ResyncOK, Now \in Moment, Next
  PROVE  ResyncOK'
<1>1. /\ NewsKept /\ Now \in Nat /\ Now' \in Nat /\ Now <= Now' /\ resynced \in Nat
      /\ tables \in Query(Moment, Moment) /\ stats \in Query(Stats, Moment)
      /\ Nothing \notin Moment /\ Nothing \notin Stats
  BY NewsNext, LenProperties, Absent DEF TypeOK, Now, NewsKept
<1>2. CASE Connect /\ resynced' # resynced
  <2>1. /\ Loaded(stats) /\ Loaded(tables) /\ resynced' = Now
        /\ stats' = Refetched(stats, Now) /\ tables' = Refetched(tables, Now)
    BY <1>2 DEF Connect, HandleConnect
  <2>2. ASSUME NEW fresh
        PROVE  Current(tables', Now, fresh) /\ Current(stats', Now, fresh)
    <3>1. PICK k \in Moment : k = Now /\ k \in Nat /\ k <= k
      BY <1>1
    <3>2. Current(Refetched(tables, k), k, fresh)
      BY <1>1, <2>1, <3>1, QueryStaysCurrent
    <3>3. Current(Refetched(stats, k), k, fresh)
      BY <1>1, <2>1, <3>1, QueryStaysCurrent
    <3>. QED
      BY <2>1, <3>1, <3>2, <3>3
  <2>. QED
    BY <1>1, <2>1, <2>2 DEF ResyncOK, Current
<1>3. CASE resynced' = resynced
  <2>1. PICK k \in Nat : k = resynced /\ k <= Now
    BY <1>1 DEF ResyncOK
  <2>2. resynced' <= Now'
    BY <1>1, <1>3, <2>1
  <2>3. CASE k > 0
    <3>1. k \in 1..Now
      BY <1>1, <2>1, <2>3
    <3>2. FreshRows(k)' = FreshRows(k) /\ FreshStats(k)' = FreshStats(k)
      BY <1>1, <2>1, FreshStay
    <3>3. Current(tables', k, FreshRows(k))
      BY <2>1, <2>3, <3>1, TablesNext DEF ResyncOK
    <3>4. LateBroadcast => LateBroadcast'
      BY <1>1, <1>3, <2>1 DEF LateBroadcast, NewsKept
    <3>5. Current(stats', k, FreshStats(k)) => Current(stats', k, Stats)
      BY DEF FreshStats, Current
    <3>6. Current(stats', k, IF LateBroadcast' THEN Stats ELSE FreshStats(k))
      <4>1. CASE LateBroadcast
        <5>1. Current(stats, k, Stats)
          BY <2>1, <2>3, <4>1 DEF ResyncOK
        <5>2. Current(stats', k, Stats)
          BY <3>1, <5>1, CardsNext
        <5>. QED
          BY <3>4, <4>1, <5>2
      <4>2. CASE ~LateBroadcast
        <5>1. Current(stats, k, FreshStats(k))
          BY <2>1, <2>3, <4>2 DEF ResyncOK
        <5>2. \/ Current(stats', k, FreshStats(k))
              \/ /\ Deliver /\ page \in Live
                 /\ Head(inbox).change < k /\ Current(stats', k, Stats)
          BY <3>1, <5>1, CardsNext
        <5>3. CASE Deliver /\ page \in Live /\ Head(inbox).change < k
          <6> DEFINE c == Head(inbox).change
          <6>1. c \in 1..Now
            <7>1. Len(inbox) \in Nat /\ Len(inbox) >= 1 /\ Head(inbox) = inbox[1]
              BY <5>3, LenProperties, EmptySeq DEF Deliver, TypeOK
            <7>. QED
              BY <7>1 DEF InboxOK, InTransit
          <6>2. PICK o \in {"heard", "early"} : news' = [news EXCEPT ![c] = o]
            BY <5>3 DEF Deliver
          <6>3. news'[c] = o
            BY <6>1, <6>2, ExceptSeq DEF Outcome, TypeOK, Now
          <6>4. c \in 1..resynced'
            BY <1>1, <1>3, <2>1, <5>3, <6>1
          <6>5. LateBroadcast'
            BY <6>2, <6>3, <6>4 DEF LateBroadcast
          <6>. QED
            BY <3>5, <5>2, <6>5
        <5>. QED
          BY <3>5, <5>2, <5>3
      <4>. QED
        BY <4>1, <4>2
    <3>. QED
      BY <1>3, <2>1, <2>2, <3>2, <3>3, <3>6 DEF ResyncOK, Current
  <2>4. CASE k = 0
    BY <1>3, <2>1, <2>2, <2>4 DEF ResyncOK
  <2>. QED
    BY <2>1, <2>3, <2>4
<1>4. Connect \/ resynced' = resynced
  BY DEF Next, Answers, Book, JoinOrLeave, Broadcast, SwallowError, Deliver, Drop,
         StatsAnswer, StatsError, TablesAnswer, TablesError, Navigate, TryAgain, ClickSave,
         ClickCancel, EditCommits, EditRefused, EditAnswerLost, EditAnswered, socketVars
<1>. QED
  BY <1>2, <1>3, <1>4

LEMMA LiveInitially == Init => LiveInv
<1> SUFFICES ASSUME Init
             PROVE  LiveInv
  OBVIOUS
<1>1. Now = 0 /\ 0 \in Moment /\ Now \in Nat
  BY Absent DEF Init, Now
<1>2. left \in [Spendable -> Nat] /\ left["bookings"] + left["edits"] <= MaxCommits
  BY BoundsOK DEF Init
<1>3. /\ stats \in {EmptyQuery, Asked(EmptyQuery, 0)} /\ tables \in {EmptyQuery, Asked(EmptyQuery, 0)}
  BY DEF Init
<1>4. /\ EmptyQuery \in Query(Stats, Moment) /\ EmptyQuery \in Query(Moment, Moment)
      /\ Asked(EmptyQuery, 0) \in Query(Stats, Moment) /\ Asked(EmptyQuery, 0) \in Query(Moment, Moment)
  BY <1>1 DEF EmptyQuery, Asked, Loaded, Query
<1>5. /\ outbox \in Seq({"subscribe", "unsubscribe"})
      /\ page \in Live => outbox = <<"subscribe">>
      /\ page \notin Live => outbox = <<>>
      /\ news = <<>> /\ inbox = <<>>
  <2>1. <<"subscribe">> \in Seq({"subscribe", "unsubscribe"}) /\ <<>> \in Seq({"subscribe", "unsubscribe"})
    OBVIOUS
  <2>2. outbox = <<"subscribe">> \/ outbox = <<>>
    BY DEF Init
  <2>3. page \in Live => outbox = <<"subscribe">>
    BY DEF Init
  <2>4. page \notin Live => outbox = <<>>
    BY DEF Init
  <2>5. news = <<>> /\ inbox = <<>>
    BY DEF Init
  <2>. QED
    BY <2>1, <2>2, <2>3, <2>4, <2>5
<1>6. TypeOK
  <2>1. news \in Seq(Outcome) /\ inbox \in Seq([change : Moment, stats : Stats])
    BY <1>5
  <2>2. stats \in Query(Stats, Moment) /\ tables \in Query(Moment, Moment)
    BY <1>3, <1>4
  <2>3. /\ room \in BOOLEAN /\ linked \in BOOLEAN /\ page \in Page /\ resynced \in Moment
        /\ edit \in {"none", "saving", "saved", "cancelling", "cancelled", "lost"}
        /\ sender \in Page \cup {Nothing}
    BY <1>1 DEF Init
  <2>. QED
    BY <1>1, <1>2, <1>5, <2>1, <2>2, <2>3 DEF TypeOK
<1>7. BudgetOK
  BY <1>1, <1>2, BoundsOK DEF Init, BudgetOK, UnderWay, Spendable
<1>8. RoomOK
  BY <1>5 DEF Init, RoomOK, WillBeIn
<1>9. InboxOK /\ HeardOK
  BY <1>1, <1>5 DEF InboxOK, HeardOK
<1>10. ResyncOK
  BY <1>1 DEF Init, ResyncOK
<1>. QED
  BY <1>6, <1>7, <1>8, <1>9, <1>10 DEF LiveInv

LEMMA LiveKept == LiveInv /\ [Next]_vars => LiveInv'
<1>1. CASE Next
  <2>. SUFFICES ASSUME LiveInv, Next
                PROVE  LiveInv'
    BY <1>1
  <2>1. TypeOK /\ BudgetOK /\ RoomOK /\ InboxOK /\ HeardOK /\ ResyncOK /\ Now \in Moment
    BY DEF LiveInv, TypeOK
  <2>2. TypeOK' /\ BudgetOK' /\ RoomOK'
    BY <2>1, TypeNext, BudgetNext, RoomNext
  <2>3. InboxOK' /\ HeardOK' /\ ResyncOK'
    BY <2>1, InboxNext, HeardNext, ResyncNext
  <2>. QED
    BY <2>2, <2>3 DEF LiveInv
<1>2. CASE UNCHANGED vars
  <2>. SUFFICES ASSUME LiveInv, UNCHANGED vars
                PROVE  LiveInv'
    BY <1>2
  <2>1. Now' = Now /\ Now \in Moment /\ Now \in Nat /\ Now' \in Nat /\ NewsKept
    BY LenProperties DEF vars, LiveInv, TypeOK, Now, NewsKept
  <2>2. TypeOK'
    BY DEF vars, LiveInv, TypeOK, Now
  <2>3. BudgetOK' /\ RoomOK'
    BY <2>1 DEF vars, LiveInv, BudgetOK, UnderWay, RoomOK, WillBeIn
  <2>4. \A k \in 1..Now : FreshRows(k)' = FreshRows(k) /\ FreshStats(k)' = FreshStats(k)
    BY <2>1, FreshStay
  <2>5. InboxOK'
    <3>1. ASSUME NEW i \in 1..Len(inbox)
          PROVE  InTransit(i)'
      <4>1. InTransit(i)
        BY DEF LiveInv, InboxOK
      <4>2. PICK c \in 1..Now : c = inbox[i].change
        BY <4>1 DEF InTransit
      <4>3. FreshStats(c)' = FreshStats(c)
        BY <2>4
      <4>4. inbox'[i].change = c /\ inbox'[i].stats \in FreshStats(c)
        BY <4>1, <4>2 DEF vars, InTransit
      <4>. QED
        BY <2>1, <4>1, <4>2, <4>3, <4>4 DEF vars, InTransit
    <3>. QED
      BY <3>1 DEF vars, InboxOK
  <2>6. HeardOK'
    <3>1. ASSUME NEW k \in 1..Now, news[k] = "heard"
          PROVE  Current(tables', k, FreshRows(k)')
      BY <2>4, <3>1 DEF vars, LiveInv, HeardOK
    <3>. QED
      BY <2>1, <3>1 DEF vars, HeardOK, Current
  <2>7. ResyncOK'
    <3>1. PICK k \in Nat : k = resynced /\ k <= Now
      BY DEF LiveInv, TypeOK, ResyncOK, Moment
    <3>2. CASE k = 0
      BY <2>1, <3>1, <3>2 DEF vars, ResyncOK
    <3>3. CASE k > 0
      <4>1. FreshRows(k)' = FreshRows(k) /\ FreshStats(k)' = FreshStats(k)
        BY <2>1, <2>4, <3>1, <3>3
      <4>2. LateBroadcast' <=> LateBroadcast
        BY DEF vars, LateBroadcast
      <4>3. /\ Current(tables', k, FreshRows(k))
            /\ Current(stats', k, IF LateBroadcast THEN Stats ELSE FreshStats(k))
        BY <3>1, <3>3 DEF vars, LiveInv, ResyncOK
      <4>. QED
        BY <2>1, <3>1, <4>1, <4>2, <4>3 DEF vars, ResyncOK, Current
    <3>. QED
      BY <3>1, <3>2, <3>3
  <2>. QED
    BY <2>2, <2>3, <2>5, <2>6, <2>7 DEF LiveInv
<1>. QED
  BY <1>1, <1>2

LEMMA LiveAlways == Spec => []LiveInv
BY LiveInitially, LiveKept, PTL DEF Spec

---------------------------------------------------------------------------
(* Theorems.                                                               *)

\* Messages, versions and queries keep their types, and no run has more commits
\* than its allowance pays for.
THEOREM LiveTypesHold == Spec => []TypeOK
<1>1. LiveInv => TypeOK
  BY DEF LiveInv
<1>. QED
  BY <1>1, LiveAlways, PTL

\* Whatever pages came and went and whenever the connection broke, the server
\* holds a connected socket in the room exactly while a live page is open, once
\* all its messages are through (useEventRealtime.ts:53-67, events.gateway.ts).
THEOREM InTheRoomWhileLooking == Spec => []JoinedWhileLooking
<1>1. LiveInv => JoinedWhileLooking
  BY DEF LiveInv, RoomOK, WillBeIn, JoinedWhileLooking
<1>. QED
  BY <1>1, LiveAlways, PTL

\* For any number of changes, broadcasts that overtake each other and reads that
\* cross them or fail, the tables have every change that a page with loaded
\* tables heard of (useEventRealtime.ts:47-50).
THEOREM TablesCatchUp == Spec => []TablesFollowTheNews
<1>1. LiveInv => TablesFollowTheNews
  BY DEF LiveInv, HeardOK, Current, TablesFollowTheNews, TablesShow, FreshRows
<1>. QED
  BY <1>1, LiveAlways, PTL

\* What was missed while the socket was down is read after the connection: the
\* tables are no older than it, nor the cards unless an older broadcast came late
\* (useEventRealtime.ts:53-57).
THEOREM NothingStaysMissed == Spec => []ReconnectResyncs
<1>1. LiveInv => ReconnectResyncs
  BY DEF LiveInv, ResyncOK, LateBroadcast, Current, ReconnectResyncs, TablesShow, CardsShow,
         FreshRows, FreshStats
<1>. QED
  BY <1>1, LiveAlways, PTL

\* No step that saves an untouched start is a reschedule, whatever the time zone,
\* with the exceptions that SavingKeepsTheStart names (EventForm.tsx:20-27, 61).
THEOREM UntouchedStartsStay == Spec => SavingKeepsTheStart
<1>1. [Next]_vars =>
        [ClickSave =>
           \A zone \in Zone, t \in Instant :
             /\ Resubmitted(zone, t) = t <=> t % 2 = 0 /\ ~SecondReading(zone, t)
             /\ LET entered == Combined(zone, Fields(t)) IN Resubmitted(zone, entered) = entered]_vars
  BY FormKeepsTheStart, Zenon
<1>. QED
  BY <1>1, PTL DEF Spec, SavingKeepsTheStart
===========================================================================
