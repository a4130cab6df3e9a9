--------------------------- MODULE ClientSession ---------------------------
(***************************************************************************)
(* One tab of a participant's browser: who is signed in (AuthContext.tsx,   *)
(* client.ts), what the pages about the participant's own bookings show,    *)
(* and the part of the server they talk to (auth.service.ts, the guards,    *)
(* findMine).  Other tabs share the storage, other people the server.       *)
(*                                                                         *)
(* A token is its number in the order of issue.  The booking of a user for  *)
(* the event at hand is the number of its changes: odd while it is active.  *)
(*                                                                         *)
(* A request remembers whether its token was accepted when it was sent:    *)
(* tokens only expire, so the server, which judges it some time before the *)
(* answer arrives, may accept exactly those and reject the expired ones.   *)
(*                                                                         *)
(* LogoutKeepsUser, IgnoreUnauthorized, RenderKeepsToken, EnteredIfEmpty   *)
(* and InvalidateEventsOnly are mistakes one could make in the definition  *)
(* that follows each; nothing uses them.                                   *)
(***************************************************************************)
EXTENDS Naturals, Sequences, QueryCache

CONSTANTS
  User,         \* people, by normalised address
  Allowances,   \* how often each of Spendable may happen: a set of bounds for TLC
  MaxTokens, MaxChanges   \* the most tokens and changes of one booking they permit

ASSUME NothingOK == Nothing \notin Nat /\ Nothing \notin [user : User, token : Nat]

VARIABLES
  accounts,   \* the addresses that have a User row
  owner,      \* the user each token was issued to
  expired,    \* the tokens the server no longer accepts
  bookings,   \* the changes of each user's booking
  stored,     \* the user and token in localStorage
  foreign,    \* whether another tab wrote them
  authToken,  \* the token apiFetch attaches
  user,       \* the user React shows
  rendering,  \* whether AuthProvider is about to render again
  page,
  me,         \* the request of fetchMe(), until its answer
  form,       \* the login or sign-up under way
  mine,       \* the query ['me', 'registrations']
  act,        \* the registration or cancellation under way
  left        \* what is left of the allowance

serverVars  == <<accounts, owner, expired, bookings>>
storageVars == <<stored, foreign>>
authVars    == <<authToken, user, rendering>>
vars == <<serverVars, storageVars, authVars, page, me, form, mine, act, left>>

Token == 1..MaxTokens
Count == 0..MaxChanges

Spendable == {"tokens", "expiries", "changes", "reloads", "errors", "moves", "others"}
Spend(what) == left[what] > 0 /\ left' = [left EXCEPT ![what] = @ - 1]

ASSUME BoundsOK ==
  /\ MaxTokens \in Nat /\ MaxChanges \in Nat
  /\ \A a \in Allowances :
       /\ a \in [Spendable -> Nat]
       /\ a["tokens"] + a["others"] <= MaxTokens
       /\ a["changes"] + a["others"] <= MaxChanges

Public  == {"login", "sign-up"}
Private == {"registrations", "event"}   \* behind RequireRole

\* A request for the list knows the token it carries and what was booked then.
ListRequest == [token : Token \cup {Nothing}, valid : BOOLEAN, since : Count]
List        == [of : User, changes : Count]

TypeOK ==
  /\ accounts \subseteq User
  /\ owner \in Seq(User) /\ Len(owner) \in 0..MaxTokens
  /\ expired \subseteq 1..Len(owner)
  /\ bookings \in [User -> Count]
  /\ stored \in [user : User, token : 1..Len(owner)] \cup {Nothing}
  /\ foreign \in BOOLEAN /\ rendering \in BOOLEAN
  /\ authToken \in 1..Len(owner) \cup {Nothing}
  /\ user \in User \cup {Nothing}
  /\ page \in Public \cup Private
  /\ me \in [token : 1..Len(owner), valid : BOOLEAN] \cup {Nothing}
  /\ form \in [kind : {"login", "lookup", "hash"}, address : User] \cup {Nothing}
  /\ mine \in Query(List, ListRequest)
  /\ act \in [op : {"register", "cancel"}, token : Token \cup {Nothing}, valid : BOOLEAN,
              done : BOOLEAN] \cup {Nothing}
  /\ left \in [Spendable -> Nat]

---------------------------------------------------------------------------
\* A tab without a session, in a browser that has none.
Init ==
  /\ accounts \in SUBSET User
  /\ owner = <<>> /\ expired = {}
  /\ bookings = [u \in User |-> 0]
  /\ stored = Nothing /\ foreign = FALSE
  /\ authToken = Nothing /\ user = Nothing /\ rendering = FALSE
  /\ page = "login"
  /\ me = Nothing /\ form = Nothing /\ act = Nothing
  /\ mine = EmptyQuery
  /\ left \in Allowances

\* JwtStrategy: a token is accepted until it expires; it names its owner.
Accepted(token) == token # Nothing /\ token \notin expired
NextToken == Len(owner) + 1

Expire ==
  /\ Spend("expiries")
  /\ \E token \in (1..Len(owner)) \ expired : expired' = expired \cup {token}
  /\ UNCHANGED <<accounts, owner, bookings, storageVars, authVars, page, me, form, mine, act>>

\* A request for the list, sent with the token of the moment.
ListSentWith(token) ==
  [token |-> token, valid |-> Accepted(token),
   since |-> IF token = Nothing THEN 0 ELSE bookings[owner[token]]]
ListRequested == ListSentWith(authToken)

---------------------------------------------------------------------------
(* AuthContext.                                                            *)

Store(pair) == stored' = pair /\ foreign' = FALSE

LogoutKeepsUser ==
  /\ user' = Nothing /\ authToken' = Nothing
  /\ stored' = [user |-> user, token |-> Nothing] /\ foreign' = FALSE
  /\ rendering' = TRUE
\* logout(): React renders again if there was a user to remove.
Logout ==
  /\ user' = Nothing /\ authToken' = Nothing
  /\ Store(Nothing)
  /\ rendering' = (rendering \/ user # Nothing)

\* persist(): the server has just issued the next token to u.
Persist(u) ==
  /\ owner' = Append(owner, u)
  /\ user' = u /\ authToken' = NextToken
  /\ Store([user |-> u, token |-> NextToken])
  /\ rendering' = TRUE

\* apiFetch on a 401: the session ends if a token is attached by now.
IgnoreUnauthorized == UNCHANGED <<storageVars, authVars>>
Unauthorized == IF authToken # Nothing THEN Logout ELSE UNCHANGED <<storageVars, authVars>>

\* The component renders: it reads the storage again, and attaches the token it
\* finds.  The routes send a visitor of a private page to the login, and a user
\* on a public page home, where the list is on screen.
RenderKeepsToken == authToken
TokenRead        == IF stored = Nothing THEN authToken ELSE stored.token
Routed(p) ==
  IF user = Nothing THEN IF p \in Private THEN "login" ELSE p
  ELSE IF p \in Public THEN "event" ELSE p
EnteredIfEmpty(p, token) ==
  IF p \in Private /\ page \in Public /\ ~Loaded(mine) THEN Mounted(mine, ListSentWith(token)) ELSE mine
Entered(p, token) ==
  IF p \in Private /\ page \in Public THEN Mounted(mine, ListSentWith(token)) ELSE mine

Render ==
  /\ rendering
  /\ rendering' = FALSE
  /\ authToken' = TokenRead
  /\ page' = Routed(page)
  /\ mine' = Entered(Routed(page), TokenRead)
  /\ UNCHANGED <<serverVars, storageVars, user, me, form, act, left>>

\* The tab is loaded anew at its address: nothing of it survives but the storage,
\* whose user and token it takes, and verifies.  What becomes of a request it had
\* sent is left to OtherPeople.
Reload ==
  /\ Spend("reloads")
  /\ IF stored = Nothing
     THEN user' = Nothing /\ authToken' = Nothing /\ me' = Nothing
     ELSE /\ user' = stored.user
          /\ authToken' = stored.token
          /\ me' = [token |-> stored.token, valid |-> Accepted(stored.token)]
  /\ mine' = IF stored # Nothing /\ page \in Private
             THEN Mounted(EmptyQuery, ListSentWith(stored.token)) ELSE EmptyQuery
  /\ rendering' = TRUE
  /\ form' = Nothing /\ act' = Nothing
  /\ foreign' = FALSE
  /\ UNCHANGED <<serverVars, stored, page>>

---------------------------------------------------------------------------
(* Verification of the stored session.                                     *)

\* fetchMe() succeeds: its user is shown and stored, whatever happened since.
MeAccepted ==
  /\ me # Nothing /\ me.valid
  /\ user' = owner[me.token]
  /\ Store([user |-> owner[me.token], token |-> me.token])
  /\ rendering' = TRUE
  /\ me' = Nothing
  /\ UNCHANGED <<serverVars, authToken, page, form, mine, act, left>>

MeRejected ==
  /\ me # Nothing /\ ~Accepted(me.token)
  /\ me' = Nothing
  /\ Unauthorized
  /\ UNCHANGED <<serverVars, page, form, mine, act, left>>

MeFails ==
  /\ me # Nothing
  /\ Spend("errors")
  /\ me' = Nothing
  /\ UNCHANGED <<serverVars, storageVars, authVars, page, form, mine, act>>

---------------------------------------------------------------------------
(* Login and sign-up.                                                      *)

Submit(kind, p) ==
  /\ page = p /\ user = Nothing /\ form = Nothing
  /\ \E u \in User : form' = [kind |-> kind, address |-> u]
  /\ UNCHANGED <<serverVars, storageVars, authVars, page, me, mine, act, left>>
SubmitLogin  == Submit("login", "login")
SubmitSignUp == Submit("lookup", "sign-up")

SignedIn ==
  /\ Spend("tokens")
  /\ Persist(form.address)
  /\ form' = Nothing
  /\ UNCHANGED <<expired, bookings, page, me, mine, act>>

LoginAccepted ==
  /\ form # Nothing /\ form.kind = "login"
  /\ form.address \in accounts
  /\ SignedIn
  /\ UNCHANGED accounts

\* An unknown address or a wrong password.
LoginRejected ==
  /\ form # Nothing /\ form.kind = "login"
  /\ form' = Nothing
  /\ Unauthorized
  /\ UNCHANGED <<serverVars, page, me, mine, act, left>>

\* register(): look the address up, hash, and insert behind the unique key.
LookUp ==
  /\ form # Nothing /\ form.kind = "lookup"
  /\ form' = IF form.address \in accounts THEN Nothing ELSE [form EXCEPT !.kind = "hash"]
  /\ UNCHANGED <<serverVars, storageVars, authVars, page, me, mine, act, left>>

Insert(u) == u \notin accounts /\ accounts' = accounts \cup {u}

SignUpAccepted ==
  /\ form # Nothing /\ form.kind = "hash"
  /\ Insert(form.address)
  /\ SignedIn

\* The insert fails, on the key or otherwise: 409.
SignUpRefused ==
  /\ form # Nothing /\ form.kind = "hash"
  /\ form' = Nothing
  /\ UNCHANGED <<serverVars, storageVars, authVars, page, me, mine, act, left>>

---------------------------------------------------------------------------
(* The participant's list.                                                 *)

\* findMine() for the owner of the token.
ListAccepted ==
  /\ InFlight(mine) /\ mine.asked.valid
  /\ LET u == owner[mine.asked.token] IN
       \E n \in mine.asked.since..bookings[u] : mine' = Answered(mine, [of |-> u, changes |-> n])
  /\ UNCHANGED <<serverVars, storageVars, authVars, page, me, form, act, left>>

\* A 401 ends the session, and its pages are gone before the pause of the
\* query's retry is over.
ListRejected ==
  /\ InFlight(mine) /\ ~Accepted(mine.asked.token)
  /\ Unauthorized
  /\ mine' = GivenUp(mine)
  /\ UNCHANGED <<serverVars, page, me, form, act, left>>

ListFails ==
  /\ InFlight(mine)
  /\ Spend("errors")
  /\ mine' = Failed(mine, ListRequested, page \in Private)
  /\ UNCHANGED <<serverVars, storageVars, authVars, page, me, form, act>>

\* Registered or waitlisted, as far as the list tells; the event's page takes a
\* list it could not load for an empty one.
ShownActive == Loaded(mine) /\ mine.data.changes % 2 = 1

RegistrationsScreen ==
  IF IsLoading(mine) THEN "loading" ELSE IF mine.failed THEN "error" ELSE "content"

\* The event's page offers one or the other, the list only to cancel.
Offered ==
  CASE page = "event" /\ ~IsLoading(mine) -> IF ShownActive THEN "cancel" ELSE "register"
    [] page = "registrations" /\ RegistrationsScreen = "content" /\ ShownActive -> "cancel"
    [] OTHER -> "nothing"

Click ==
  /\ user # Nothing /\ ~rendering
  /\ act = Nothing /\ Offered # "nothing"
  /\ act' = [op |-> Offered, token |-> authToken, valid |-> Accepted(authToken), done |-> FALSE]
  /\ UNCHANGED <<serverVars, storageVars, authVars, page, me, form, mine, left>>

\* cancel() knows no registration of the user: 404.
NeverBooked == act.op = "cancel" /\ bookings[owner[act.token]] = 0

\* register() and cancel() change nothing when it is done already.
ActCommits ==
  /\ act # Nothing /\ ~act.done /\ act.valid /\ ~NeverBooked
  /\ LET u == owner[act.token]
         changes == (act.op = "register") = (bookings[u] % 2 = 0)
     IN IF changes THEN Spend("changes") /\ bookings' = [bookings EXCEPT ![u] = @ + 1]
                   ELSE UNCHANGED <<bookings, left>>
  /\ act' = [act EXCEPT !.done = TRUE]
  /\ UNCHANGED <<accounts, owner, expired, storageVars, authVars, page, me, form, mine>>

ActRefused ==
  /\ act # Nothing /\ ~act.done /\ act.valid /\ NeverBooked
  /\ act' = Nothing
  /\ UNCHANGED <<serverVars, storageVars, authVars, page, me, form, mine, left>>

\* invalidateAfterRegChange()
InvalidateEventsOnly == mine
ListInvalidated      == IF page \in Private THEN Refetched(mine, ListRequested) ELSE mine

ActAnswered ==
  /\ act # Nothing /\ act.done
  /\ act' = Nothing
  /\ mine' = ListInvalidated
  /\ UNCHANGED <<serverVars, storageVars, authVars, page, me, form, left>>

ActRejected ==
  /\ act # Nothing /\ ~act.done /\ ~Accepted(act.token)
  /\ act' = Nothing
  /\ Unauthorized
  /\ UNCHANGED <<serverVars, page, me, form, mine, left>>

ActFails ==
  /\ act # Nothing
  /\ Spend("errors")
  /\ act' = Nothing
  /\ UNCHANGED <<serverVars, storageVars, authVars, page, me, form, mine>>

---------------------------------------------------------------------------
\* The menu: another page of the same kind, whose queries mount again.
Navigate ==
  /\ ~rendering
  /\ Spend("moves")
  /\ \/ page \in Public /\ page' \in Public \ {page} /\ UNCHANGED mine
     \/ page \in Private /\ page' \in Private \ {page} /\ mine' = Mounted(mine, ListRequested)
  /\ UNCHANGED <<serverVars, storageVars, authVars, me, form, act>>

TryAgain ==
  /\ ~rendering
  /\ page = "registrations" /\ RegistrationsScreen = "error"
  /\ mine' = Refetched(mine, ListRequested)
  /\ UNCHANGED <<serverVars, storageVars, authVars, page, me, form, act, left>>

ClickLogout ==
  /\ user # Nothing /\ ~rendering
  /\ Logout
  /\ page' = "login"
  /\ UNCHANGED <<serverVars, me, form, mine, act, left>>

\* Another tab signs somebody in or out; another browser signs up, or the server
\* promotes or cancels a booking.
OtherTab ==
  /\ Spend("others")
  /\ foreign' = TRUE
  /\ \/ stored # Nothing /\ stored' = Nothing /\ UNCHANGED owner
     \/ /\ NextToken \in Token
        /\ \E u \in User :
             /\ u \in accounts
             /\ owner' = Append(owner, u)
             /\ stored' = [user |-> u, token |-> NextToken]
  /\ UNCHANGED <<accounts, expired, bookings, authVars, page, me, form, mine, act>>

OtherPeople ==
  /\ Spend("others")
  /\ \E u \in User :
       \/ Insert(u) /\ UNCHANGED bookings
       \/ /\ bookings[u] < MaxChanges
          /\ bookings' = [bookings EXCEPT ![u] = @ + 1]
          /\ UNCHANGED accounts
  /\ UNCHANGED <<owner, expired, storageVars, authVars, page, me, form, mine, act>>

Next ==
  \/ Expire \/ Render \/ Reload
  \/ MeAccepted \/ MeRejected \/ MeFails
  \/ SubmitLogin \/ SubmitSignUp \/ LoginAccepted \/ LoginRejected
  \/ LookUp \/ SignUpAccepted \/ SignUpRefused
  \/ ListAccepted \/ ListRejected \/ ListFails
  \/ Click \/ ActCommits \/ ActRefused \/ ActAnswered \/ ActRejected \/ ActFails
  \/ Navigate \/ TryAgain \/ ClickLogout
  \/ OtherTab \/ OtherPeople

\* React renders, and every request is answered or fails.
Fairness ==
  /\ WF_vars(Render)
  /\ WF_vars(MeAccepted \/ MeRejected \/ MeFails)
  /\ WF_vars(ListAccepted \/ ListRejected \/ ListFails)
  /\ WF_vars(ActCommits \/ ActRefused \/ ActAnswered \/ ActRejected \/ ActFails)

Spec == Init /\ [][Next]_vars /\ Fairness

---------------------------------------------------------------------------
ListIsOf(u) == Loaded(mine) /\ mine.data.of = u

\* What is stored is one session, user and token; and whom the page shows is
\* whom it acts for, unless another tab wrote the storage: a late fetchMe() that
\* brings back a session that was left, brings back all of it at the next render
\* (AuthContext.tsx:36-41, 80-87).
OneIdentity ==
  /\ stored # Nothing => stored.user = owner[stored.token]
  /\ ~rendering /\ ~foreign /\ user # Nothing =>
       authToken # Nothing /\ owner[authToken] = user

\* A session that is loaded with an expired token ends when it is verified,
\* whatever else happens, if the network works (AuthContext.tsx:78-79,
\* client.ts:51-53).
RejectedTokenSignsOut ==
  \A t \in Token :
    (/\ user # Nothing /\ authToken = t /\ left["errors"] = 0
     /\ me = [token |-> t, valid |-> FALSE])
      ~> (user = Nothing \/ authToken # t)

\* A session opened on the login page comes to show the list of its own user,
\* although the cache still has another's, if no request of another session is
\* under way then (LoginPage.tsx:20-21, me.ts:24-29).
NewSessionShowsItsOwnList ==
  \A u \in User :
    (user = u /\ rendering /\ page \in Public /\ ~InFlight(mine))
      ~> (ListIsOf(u) \/ mine.failed \/ user # u \/ foreign)

\* Registering or cancelling on a page shows in its list after the answer: the
\* list is as new as the booking, unless the session changed, the list failed to
\* load, or the answer was lost (registrations.ts:61-67).
OwnBookingShows ==
  \A u \in User, n \in Count :
    (/\ act # Nothing /\ act.done /\ act.token = authToken /\ user = u /\ owner[authToken] = u
     /\ bookings[u] = n /\ ListIsOf(u) /\ left["errors"] = 0)
      ~> ((ListIsOf(u) /\ mine.data.changes >= n) \/ mine.failed \/ user # u \/ foreign)
===========================================================================
