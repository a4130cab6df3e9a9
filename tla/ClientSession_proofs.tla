------------------------ MODULE ClientSession_proofs ------------------------
(***************************************************************************)
(* Theorems about ClientSession for every set of people and every bound:   *)
(* whom the tab shows is whom it acts for, and the types of the rest.      *)
(***************************************************************************)
EXTENDS ClientSession, TLAPS

Issued == 1..Len(owner)
Form   == [kind : {"login", "lookup", "hash"}, address : User]
Verify == [token : Issued, valid : BOOLEAN]

IdentityTypeOK ==
  /\ accounts \subseteq User
  /\ owner \in Seq(User)
  /\ stored \in [user : User, token : Issued] \cup {Nothing}
  /\ foreign \in BOOLEAN /\ rendering \in BOOLEAN
  /\ authToken \in Issued \cup {Nothing}
  /\ user \in User \cup {Nothing}
  /\ me \in Verify \cup {Nothing}
  /\ form \in Form \cup {Nothing}

\* Whoever is shown is stored, unless another tab wrote the storage: what the next
\* render finds is the token of the user on screen.
ShownIsStored == ~foreign /\ user # Nothing => stored # Nothing /\ stored.user = user

IdentityInv == IdentityTypeOK /\ ShownIsStored /\ OneIdentity

\* A new token leaves what the others say as it is.
LEMMA TokenIssued ==
  ASSUME NEW tokens \in Seq(User), NEW u \in User
  PROVE  /\ Append(tokens, u) \in Seq(User)
         /\ Len(Append(tokens, u)) = Len(tokens) + 1
         /\ \A t \in 1..Len(tokens) : Append(tokens, u)[t] = tokens[t]
         /\ Append(tokens, u)[Len(tokens) + 1] = u
         /\ Len(tokens) \in Nat
OBVIOUS

\* logout() keeps the invariant whenever it runs.
LEMMA LogoutKeeps ==
  ASSUME IdentityInv, Logout, UNCHANGED <<accounts, owner>>,
         form' \in Form \cup {Nothing}, me' \in Verify \cup {Nothing}
  PROVE  IdentityInv'
<1>1. IdentityTypeOK'
  BY DEF IdentityInv, IdentityTypeOK, Logout, Store, Issued, Form, Verify
<1>2. ShownIsStored' /\ OneIdentity'
  BY DEF Logout, Store, ShownIsStored, OneIdentity
<1>. QED
  BY <1>1, <1>2 DEF IdentityInv

\* So does a 401.
LEMMA UnauthorizedKeeps ==
  ASSUME IdentityInv, Unauthorized, UNCHANGED <<accounts, owner>>,
         form' \in Form \cup {Nothing}, me' \in Verify \cup {Nothing}
  PROVE  IdentityInv'
<1>1. CASE Logout
  BY <1>1, LogoutKeeps
<1>2. CASE UNCHANGED <<storageVars, authVars>>
  BY <1>2 DEF IdentityInv, IdentityTypeOK, ShownIsStored, OneIdentity, storageVars, authVars, Issued, Form, Verify
<1>. QED
  BY <1>1, <1>2 DEF Unauthorized

\* persist() shows, stores and attaches one and the same new session.
LEMMA PersistKeeps ==
  ASSUME IdentityInv, NEW u \in User, Persist(u), accounts' \subseteq User,
         form' = Nothing, me' = me
  PROVE  IdentityInv'
<1>1. /\ owner' = Append(owner, u) /\ user' = u /\ authToken' = Len(owner) + 1
      /\ stored' = [user |-> u, token |-> Len(owner) + 1]
      /\ rendering' = TRUE /\ foreign' = FALSE
  BY DEF Persist, Store, NextToken
<1>2. /\ owner' \in Seq(User) /\ Len(owner') = Len(owner) + 1 /\ Len(owner) \in Nat
      /\ owner'[Len(owner) + 1] = u
  BY <1>1, TokenIssued DEF IdentityInv, IdentityTypeOK
<1>3. Issued \subseteq Issued' /\ Len(owner) + 1 \in Issued'
  BY <1>2 DEF Issued
<1>4. IdentityTypeOK'
  BY <1>1, <1>2, <1>3 DEF IdentityInv, IdentityTypeOK, Verify
<1>5. stored' # Nothing /\ stored'.user = u /\ stored'.token = Len(owner) + 1
  BY <1>1, <1>2, NothingOK
<1>6. ShownIsStored' /\ OneIdentity'
  BY <1>1, <1>2, <1>5 DEF ShownIsStored, OneIdentity
<1>. QED
  BY <1>4, <1>6 DEF IdentityInv

LEMMA IdentityInitially == Init => IdentityInv
<1> SUFFICES ASSUME Init PROVE IdentityInv
  OBVIOUS
<1>1. IdentityTypeOK
  <2>1. owner \in Seq(User)
    BY DEF Init
  <2>2. accounts \subseteq User
    BY DEF Init
  <2>3. /\ stored = Nothing /\ authToken = Nothing /\ user = Nothing
        /\ me = Nothing /\ form = Nothing
        /\ foreign = FALSE /\ rendering = FALSE
    BY DEF Init
  <2>. QED
    BY <2>1, <2>2, <2>3 DEF IdentityTypeOK
<1>2. ShownIsStored /\ OneIdentity
  BY DEF Init, ShownIsStored, OneIdentity
<1>. QED
  BY <1>1, <1>2 DEF IdentityInv

\* One render: the token in the storage is attached.
LEMMA RenderKeeps ==
  ASSUME IdentityInv, Render
  PROVE  IdentityInv'
<1>1. /\ authToken' = IF stored = Nothing THEN authToken ELSE stored.token
      /\ UNCHANGED <<accounts, owner, stored, foreign, user, me, form>>
      /\ rendering' = FALSE
  BY DEF Render, TokenRead, serverVars, storageVars
<1>2. IdentityTypeOK'
  BY <1>1 DEF IdentityInv, IdentityTypeOK, Issued, Verify
<1>3. ShownIsStored'
  BY <1>1 DEF IdentityInv, ShownIsStored
<1>4. stored' # Nothing => stored'.user = owner'[stored'.token]
  BY <1>1 DEF IdentityInv, OneIdentity
<1>5. ASSUME ~foreign', user' # Nothing
      PROVE  authToken' # Nothing /\ owner'[authToken'] = user'
  <2>1. stored # Nothing /\ stored.user = user
    BY <1>1, <1>5 DEF IdentityInv, ShownIsStored
  <2>2. authToken' = stored.token /\ stored.token \in Issued
    BY <1>1, <2>1 DEF IdentityInv, IdentityTypeOK
  <2>3. authToken' # Nothing
    BY <2>2, NothingOK DEF IdentityInv, IdentityTypeOK, Issued
  <2>. QED
    BY <1>1, <2>1, <2>2, <2>3 DEF IdentityInv, OneIdentity
<1>. QED
  BY <1>2, <1>3, <1>4, <1>5 DEF IdentityInv, OneIdentity

\* A reload takes user and token from the storage.
LEMMA ReloadKeeps ==
  ASSUME IdentityInv, Reload
  PROVE  IdentityInv'
<1>1. /\ user' = IF stored = Nothing THEN Nothing ELSE stored.user
      /\ authToken' = IF stored = Nothing THEN Nothing ELSE stored.token
      /\ me' = IF stored = Nothing THEN Nothing
               ELSE [token |-> stored.token, valid |-> Accepted(stored.token)]
      /\ form' = Nothing /\ rendering' = TRUE /\ foreign' = FALSE
      /\ UNCHANGED <<accounts, owner, stored>>
  BY DEF Reload, serverVars
<1>2. IdentityTypeOK'
  <2>1. me' \in Verify \cup {Nothing}
    <3>1. Accepted(stored.token) \in BOOLEAN
      BY DEF Accepted
    <3>. QED
      BY <1>1, <3>1 DEF IdentityInv, IdentityTypeOK, Verify
  <2>. QED
    BY <1>1, <2>1 DEF IdentityInv, IdentityTypeOK, Issued, Verify
<1>3. ShownIsStored' /\ OneIdentity'
  BY <1>1 DEF IdentityInv, ShownIsStored, OneIdentity
<1>. QED
  BY <1>2, <1>3 DEF IdentityInv

\* A late answer of fetchMe() stores the user and the token it verified.
LEMMA MeAcceptedKeeps ==
  ASSUME IdentityInv, MeAccepted
  PROVE  IdentityInv'
<1>1. /\ user' = owner[me.token] /\ stored' = [user |-> owner[me.token], token |-> me.token]
      /\ foreign' = FALSE /\ rendering' = TRUE /\ me' = Nothing
      /\ UNCHANGED <<accounts, owner, authToken, form>>
  BY DEF MeAccepted, Store, serverVars
<1>2. me.token \in Issued /\ owner[me.token] \in User
  BY DEF MeAccepted, IdentityInv, IdentityTypeOK, Issued, Verify
<1>3. IdentityTypeOK'
  BY <1>1, <1>2 DEF IdentityInv, IdentityTypeOK, Issued
<1>4. stored' # Nothing
  BY <1>1, <1>2, NothingOK DEF IdentityInv, IdentityTypeOK, Issued
<1>5. ShownIsStored' /\ OneIdentity'
  BY <1>1, <1>4 DEF ShownIsStored, OneIdentity
<1>. QED
  BY <1>3, <1>5 DEF IdentityInv

\* Another tab writes one session or none.
LEMMA OtherTabKeeps ==
  ASSUME IdentityInv, OtherTab
  PROVE  IdentityInv'
<1>1. foreign' = TRUE /\ UNCHANGED <<accounts, authVars, me, form>>
  BY DEF OtherTab
<1>2. CASE stored' = Nothing /\ UNCHANGED owner
  BY <1>1, <1>2 DEF IdentityInv, IdentityTypeOK, ShownIsStored, OneIdentity, authVars, Issued, Form, Verify
<1>3. ASSUME NEW u \in User, owner' = Append(owner, u),
             stored' = [user |-> u, token |-> NextToken]
      PROVE  IdentityInv'
  <2>1. /\ owner' \in Seq(User) /\ Len(owner') = Len(owner) + 1 /\ Len(owner) \in Nat
        /\ owner'[Len(owner) + 1] = u
    BY <1>3, TokenIssued DEF IdentityInv, IdentityTypeOK
  <2>2. Issued \subseteq Issued' /\ Len(owner) + 1 \in Issued'
    BY <2>1 DEF Issued
  <2>3. IdentityTypeOK'
    BY <1>1, <1>3, <2>1, <2>2 DEF IdentityInv, IdentityTypeOK, authVars, NextToken, Verify
  <2>4. ShownIsStored' /\ OneIdentity'
    BY <1>1, <1>3, <2>1 DEF ShownIsStored, OneIdentity, NextToken
  <2>. QED
    BY <2>3, <2>4 DEF IdentityInv
<1>. QED
  BY <1>2, <1>3 DEF OtherTab

LEMMA IdentityKept == IdentityInv /\ [Next]_vars => IdentityInv'
<1> SUFFICES ASSUME IdentityInv, [Next]_vars PROVE IdentityInv'
  OBVIOUS
<1>a. ASSUME accounts' \subseteq User, form' \in Form \cup {Nothing}, me' \in {me, Nothing},
             UNCHANGED <<owner, storageVars, authVars>>
      PROVE  IdentityInv'
  BY <1>a DEF IdentityInv, IdentityTypeOK, ShownIsStored, OneIdentity, storageVars, authVars, Issued, Form, Verify
<1>b. accounts \subseteq User /\ form \in Form \cup {Nothing} /\ me \in Verify \cup {Nothing}
  BY DEF IdentityInv, IdentityTypeOK
<1>c. ASSUME NEW u \in User, Insert(u)
      PROVE  accounts' \subseteq User
  BY <1>b, <1>c DEF Insert
<1>1. CASE MeRejected
  BY <1>1, <1>b, UnauthorizedKeeps DEF MeRejected, serverVars
<1>2. CASE LoginRejected
  BY <1>2, <1>b, UnauthorizedKeeps DEF LoginRejected, serverVars
<1>3. CASE ListRejected \/ ActRejected
  BY <1>3, <1>b, UnauthorizedKeeps DEF ListRejected, ActRejected, serverVars
<1>4. CASE ClickLogout
  BY <1>4, <1>b, LogoutKeeps DEF ClickLogout, serverVars
<1>5. CASE LoginAccepted
  <2>1. form.address \in User
    BY <1>5, <1>b DEF LoginAccepted, Form
  <2>. QED
    BY <1>5, <1>b, <2>1, PersistKeeps DEF LoginAccepted, SignedIn
<1>6. CASE SignUpAccepted
  <2>1. form.address \in User
    BY <1>6, <1>b DEF SignUpAccepted, Form
  <2>2. accounts' \subseteq User
    BY <1>6, <1>c, <2>1 DEF SignUpAccepted
  <2>. QED
    BY <1>6, <2>1, <2>2, PersistKeeps DEF SignUpAccepted, SignedIn
<1>7. CASE SubmitLogin \/ SubmitSignUp
  <2>1. PICK kind \in {"login", "lookup"}, p \in Public : Submit(kind, p)
    BY <1>7 DEF SubmitLogin, SubmitSignUp, Public
  <2>2. form' \in Form
    BY <2>1 DEF Submit, Form
  <2>. QED
    BY <1>a, <1>b, <2>1, <2>2 DEF Submit, serverVars
<1>8. CASE LookUp
  <2>1. form' \in Form \cup {Nothing}
    BY <1>8, <1>b DEF LookUp, Form
  <2>. QED
    BY <1>8, <1>a, <1>b, <2>1 DEF LookUp, serverVars
<1>9. CASE SignUpRefused \/ MeFails
  BY <1>9, <1>a, <1>b DEF SignUpRefused, MeFails, serverVars
<1>10. CASE OtherPeople
  <2>1. accounts' \subseteq User
    BY <1>10, <1>b, <1>c DEF OtherPeople
  <2>. QED
    BY <1>10, <1>a, <1>b, <2>1 DEF OtherPeople
<1>11. CASE Expire \/ ListAccepted \/ ListFails
  BY <1>11, <1>a, <1>b DEF Expire, ListAccepted, ListFails, serverVars
<1>12. CASE Click \/ ActCommits \/ ActRefused \/ ActAnswered \/ ActFails
  BY <1>12, <1>a, <1>b DEF Click, ActCommits, ActRefused, ActAnswered, ActFails, serverVars
<1>13. CASE Navigate \/ TryAgain
  BY <1>13, <1>a, <1>b DEF Navigate, TryAgain, serverVars
<1>14. CASE UNCHANGED vars
  BY <1>14, <1>a, <1>b DEF vars, serverVars
<1>. QED
  BY <1>1, <1>2, <1>3, <1>4, <1>5, <1>6, <1>7, <1>8, <1>9, <1>10, <1>11, <1>12, <1>13, <1>14,
     RenderKeeps, ReloadKeeps, MeAcceptedKeeps, OtherTabKeeps DEF Next

LEMMA IdentityAlways == Spec => []IdentityInv
BY IdentityInitially, IdentityKept, PTL DEF Spec

\* Whatever answers come late, whatever is rejected, reloaded or written by another
\* tab: what is stored is one session, and whom the tab shows, once it has rendered
\* its own storage, is whom its token acts for (AuthContext.tsx:36-41, 80-87).
THEOREM ShownIsWhoActs == Spec => []OneIdentity
BY IdentityAlways, PTL DEF IdentityInv

---------------------------------------------------------------------------
(* The types of the rest.                                                  *)

\* A request that was accepted carries a token.
Request == {q \in [token : Issued \cup {Nothing}, valid : BOOLEAN, since : Count] :
              q.valid => q.token # Nothing}
Act     == [op : {"register", "cancel"}, token : Issued \cup {Nothing}, valid : BOOLEAN,
            done : BOOLEAN]

\* What is still allowed, with what was done, stays within the bounds.
BudgetOK ==
  /\ left \in [Spendable -> Nat]
  /\ Len(owner) + left["tokens"] + left["others"] <= MaxTokens
  /\ bookings \in [User -> Nat]
  /\ \A u \in User : bookings[u] + left["changes"] + left["others"] <= MaxChanges

\* Whatever request is under way, it carries a token that was issued, or none.
RequestsOK ==
  /\ expired \subseteq Issued
  /\ page \in Public \cup Private
  /\ mine \in Query(List, Request)
  /\ act \in Act \cup {Nothing}

SessionInv == IdentityInv /\ BudgetOK /\ RequestsOK

\* One unit less of an allowance.
LEMMA Spent ==
  ASSUME left \in [Spendable -> Nat], NEW what \in Spendable, Spend(what)
  PROVE  /\ left' \in [Spendable -> Nat]
         /\ left'[what] = left[what] - 1 /\ left[what] > 0
         /\ \A other \in Spendable \ {what} : left'[other] = left[other]
BY DEF Spend

\* Tokens are issued and forgotten by nobody.
LEMMA OwnerGrows ==
  ASSUME IdentityInv, Next
  PROVE  /\ Len(owner) \in Nat /\ Len(owner') \in Nat
         /\ \/ owner' = owner
            \/ /\ Len(owner') = Len(owner) + 1
               /\ LoginAccepted \/ SignUpAccepted \/ OtherTab
<1>1. owner \in Seq(User) /\ Len(owner) \in Nat
  BY TokenIssued DEF IdentityInv, IdentityTypeOK
<1>2. CASE LoginAccepted \/ SignUpAccepted
  <2>1. form.address \in User
    BY <1>2 DEF LoginAccepted, SignUpAccepted, IdentityInv, IdentityTypeOK, Form
  <2>2. owner' = Append(owner, form.address)
    BY <1>2 DEF LoginAccepted, SignUpAccepted, SignedIn, Persist
  <2>. QED
    BY <1>1, <1>2, <2>1, <2>2, TokenIssued
<1>3. CASE OtherTab
  BY <1>1, <1>3, TokenIssued DEF OtherTab
<1>4. CASE ~LoginAccepted /\ ~SignUpAccepted /\ ~OtherTab
  BY <1>1, <1>4 DEF Next, serverVars, Expire, Render, Reload, MeAccepted, MeRejected, MeFails, Submit,
       SubmitLogin, SubmitSignUp, LoginRejected, LookUp, SignUpRefused, ListAccepted, ListRejected,
       ListFails, Click, ActCommits, ActRefused, ActAnswered, ActRejected, ActFails, Navigate, TryAgain,
       ClickLogout, OtherPeople
<1>. QED
  BY <1>2, <1>3, <1>4

LEMMA BudgetNext ==
  ASSUME IdentityInv, BudgetOK, Next
  PROVE  BudgetOK'
<1>1. /\ left \in [Spendable -> Nat] /\ bookings \in [User -> Nat]
      /\ Len(owner) \in Nat /\ Len(owner') \in Nat
      /\ MaxTokens \in Nat /\ MaxChanges \in Nat
      /\ \A w \in {"tokens", "others", "changes"} : w \in Spendable /\ left[w] \in Nat
  BY OwnerGrows, BoundsOK DEF BudgetOK, Spendable
<1>2. CASE LoginAccepted \/ SignUpAccepted
  <2>1. Spend("tokens") /\ bookings' = bookings
    BY <1>2 DEF LoginAccepted, SignUpAccepted, SignedIn
  <2>2. /\ left' \in [Spendable -> Nat] /\ left'["tokens"] = left["tokens"] - 1
        /\ left'["others"] = left["others"] /\ left'["changes"] = left["changes"]
    BY <1>1, <2>1, Spent
  <2>. QED
    BY <1>1, <2>1, <2>2, OwnerGrows DEF BudgetOK
<1>3. CASE OtherTab
  <2>1. Spend("others") /\ bookings' = bookings
    BY <1>3 DEF OtherTab
  <2>2. /\ left' \in [Spendable -> Nat] /\ left'["others"] = left["others"] - 1
        /\ left'["tokens"] = left["tokens"] /\ left'["changes"] = left["changes"]
    BY <1>1, <2>1, Spent
  <2>. QED
    BY <1>1, <2>1, <2>2, OwnerGrows DEF BudgetOK
<1>4. CASE OtherPeople
  <2>1. Spend("others") /\ owner' = owner
    BY <1>4 DEF OtherPeople
  <2>2. /\ left' \in [Spendable -> Nat] /\ left'["others"] = left["others"] - 1
        /\ left'["tokens"] = left["tokens"] /\ left'["changes"] = left["changes"]
    BY <1>1, <2>1, Spent
  <2>3. \/ bookings' = bookings
        \/ \E u \in User : bookings' = [bookings EXCEPT ![u] = @ + 1]
    BY <1>4 DEF OtherPeople
  <2>4. /\ bookings' \in [User -> Nat]
        /\ \A u \in User : bookings'[u] <= bookings[u] + 1
    BY <1>1, <2>3
  <2>5. ASSUME NEW u \in User
        PROVE  bookings'[u] + left'["changes"] + left'["others"] <= MaxChanges
    <3>1. bookings[u] \in Nat /\ bookings'[u] \in Nat /\ bookings'[u] <= bookings[u] + 1
      BY <1>1, <2>4
    <3>2. bookings[u] + left["changes"] + left["others"] <= MaxChanges
      BY DEF BudgetOK
    <3>. QED
      BY <1>1, <2>2, <3>1, <3>2
  <2>. QED
    BY <1>1, <2>1, <2>2, <2>4, <2>5 DEF BudgetOK
<1>5. CASE ActCommits
  <2>2. \/ bookings' = bookings /\ left' = left
        \/ Spend("changes") /\ bookings' = [bookings EXCEPT ![owner[act.token]] = @ + 1]
    BY <1>5 DEF ActCommits
  <2>3. CASE bookings' = bookings /\ left' = left
    BY <1>1, <1>5, <2>3 DEF BudgetOK, ActCommits
  <2>4. CASE Spend("changes") /\ bookings' = [bookings EXCEPT ![owner[act.token]] = @ + 1]
    <3>1. /\ left' \in [Spendable -> Nat] /\ left'["changes"] = left["changes"] - 1
          /\ left'["tokens"] = left["tokens"] /\ left'["others"] = left["others"]
      BY <1>1, <2>4, Spent
    <3>2. /\ bookings' \in [User -> Nat]
          /\ \A u \in User : bookings'[u] <= bookings[u] + 1
      <4>1. PICK b \in {owner[act.token]} : bookings' = [bookings EXCEPT ![b] = @ + 1]
        BY <2>4
      <4>2. bookings' \in [User -> Nat]
        <5>1. CASE b \in User
          <6>1. bookings[b] + 1 \in Nat
            BY <1>1, <5>1
          <6>. QED
            BY <1>1, <4>1, <6>1
        <5>2. CASE b \notin User
          BY <1>1, <4>1, <5>2
        <5>. QED
          BY <5>1, <5>2
      <4>3. \A u \in User : bookings'[u] = IF u = b THEN bookings[u] + 1 ELSE bookings[u]
        BY <1>1, <4>1
      <4>4. \A u \in User : bookings[u] \in Nat
        BY <1>1
      <4>. QED
        BY <4>2, <4>3, <4>4
    <3>3. ASSUME NEW u \in User
          PROVE  bookings'[u] + left'["changes"] + left'["others"] <= MaxChanges
      <4>1. bookings[u] \in Nat /\ bookings'[u] \in Nat /\ bookings'[u] <= bookings[u] + 1
        BY <1>1, <3>2
      <4>2. bookings[u] + left["changes"] + left["others"] <= MaxChanges
        BY DEF BudgetOK
      <4>. QED
        BY <1>1, <3>1, <4>1, <4>2
    <3>4. owner' = owner
      BY <1>5 DEF ActCommits
    <3>. QED
      BY <1>1, <3>1, <3>2, <3>3, <3>4 DEF BudgetOK
  <2>. QED
    BY <2>2, <2>3, <2>4
<1>6. CASE ~LoginAccepted /\ ~SignUpAccepted /\ ~OtherTab /\ ~OtherPeople /\ ~ActCommits
  <2>1. owner' = owner /\ bookings' = bookings
    BY <1>6 DEF Next, serverVars, Expire, Render, Reload, MeAccepted, MeRejected, MeFails, Submit,
         SubmitLogin, SubmitSignUp, LoginRejected, LookUp, SignUpRefused, ListAccepted, ListRejected,
         ListFails, Click, ActRefused, ActAnswered, ActRejected, ActFails, Navigate, TryAgain,
         ClickLogout
  <2>2. left' = left \/ \E w \in {"expiries", "reloads", "errors", "moves"} : Spend(w)
    BY <1>6 DEF Next, Expire, Render, Reload, MeAccepted, MeRejected, MeFails, Submit,
         SubmitLogin, SubmitSignUp, LoginRejected, LookUp, SignUpRefused, ListAccepted, ListRejected,
         ListFails, Click, ActRefused, ActAnswered, ActRejected, ActFails, Navigate, TryAgain,
         ClickLogout
  <2>3. CASE \E w \in {"expiries", "reloads", "errors", "moves"} : Spend(w)
    <3>1. PICK w \in {"expiries", "reloads", "errors", "moves"} : Spend(w)
      BY <2>3
    <3>2. /\ left' \in [Spendable -> Nat] /\ left'["changes"] = left["changes"]
          /\ left'["tokens"] = left["tokens"] /\ left'["others"] = left["others"]
      BY <1>1, <3>1, Spent DEF Spendable
    <3>. QED
      BY <2>1, <3>2 DEF BudgetOK
  <2>4. CASE left' = left
    BY <2>1, <2>4 DEF BudgetOK
  <2>. QED
    BY <2>2, <2>3, <2>4
<1>. QED
  BY <1>2, <1>3, <1>4, <1>5, <1>6

\* The cache keeps its type whatever the type of its requests.
LEMMA CacheTypes ==
  ASSUME NEW Data, NEW Req, NEW q \in Query(Data, Req), NEW k \in Req
  PROVE  /\ Mounted(q, k) \in Query(Data, Req) /\ Refetched(q, k) \in Query(Data, Req)
         /\ Failed(q, k, TRUE) \in Query(Data, Req) /\ Failed(q, k, FALSE) \in Query(Data, Req)
         /\ GivenUp(q) \in Query(Data, Req)
         /\ \A d \in Data : Answered(q, d) \in Query(Data, Req)
<1>1. Asked(q, k) \in Query(Data, Req)
  BY DEF Asked, Loaded, Query
<1>2. Mounted(q, k) \in Query(Data, Req) /\ Refetched(q, k) \in Query(Data, Req)
  BY <1>1 DEF Mounted, Refetched
<1>3. GivenUp(q) \in Query(Data, Req)
  BY DEF GivenUp, Query
<1>4. [q EXCEPT !.asked = k, !.retried = TRUE] \in Query(Data, Req)
  BY DEF Query
<1>5. \A d \in Data : Answered(q, d) \in Query(Data, Req)
  BY DEF Answered, Written, Query
<1>. QED
  BY <1>2, <1>3, <1>4, <1>5 DEF Failed

\* With the budget, counts and tokens are within the bounds.
LEMMA InBounds ==
  ASSUME IdentityInv, BudgetOK
  PROVE  /\ bookings \in [User -> Count]
         /\ Len(owner) \in 0..MaxTokens /\ Issued \subseteq Token
<1>1. /\ Len(owner) \in Nat /\ MaxTokens \in Nat /\ MaxChanges \in Nat
      /\ \A w \in {"tokens", "others", "changes"} : left[w] \in Nat
  BY TokenIssued, BoundsOK DEF IdentityInv, IdentityTypeOK, BudgetOK, Spendable
<1>2. ASSUME NEW u \in User
      PROVE  bookings[u] \in Count
  BY <1>1 DEF BudgetOK, Count
<1>3. Len(owner) <= MaxTokens
  BY <1>1 DEF BudgetOK
<1>. QED
  BY <1>1, <1>2, <1>3 DEF BudgetOK, Issued, Token

\* A request for the list names a token that was issued.
LEMMA ListSentTyped ==
  ASSUME IdentityInv, BudgetOK, NEW token \in Issued \cup {Nothing}
  PROVE  ListSentWith(token) \in Request
<1>1. bookings \in [User -> Count] /\ 0 \in Count
  BY InBounds, BoundsOK DEF Count
<1>2. token # Nothing => owner[token] \in User
  BY DEF IdentityInv, IdentityTypeOK, Issued
<1>3. Accepted(token) \in BOOLEAN /\ (Accepted(token) => token # Nothing)
  BY DEF Accepted
<1>4. PICK since \in Count : since = IF token = Nothing THEN 0 ELSE bookings[owner[token]]
  BY <1>1, <1>2
<1>. QED
  BY <1>3, <1>4 DEF ListSentWith, Request

LEMMA ListNext ==
  ASSUME IdentityInv, BudgetOK, RequestsOK, Next
  PROVE  mine' \in Query(List, Request)
<1>1. /\ mine \in Query(List, Request)
      /\ authToken \in Issued \cup {Nothing} /\ TokenRead \in Issued \cup {Nothing}
  BY DEF RequestsOK, IdentityInv, IdentityTypeOK, TokenRead
<1>2. PICK now \in Request, read \in Request :
        now = ListRequested /\ read = ListSentWith(TokenRead)
  BY <1>1, ListSentTyped DEF ListRequested
<1>3. EmptyQuery \in Query(List, Request)
  BY DEF EmptyQuery, Query
<1>4. CASE ListAccepted
  <2>1. mine.asked.token \in Issued /\ mine.asked.since \in Count
    BY <1>1, <1>4 DEF ListAccepted, InFlight, Accepted, Query, Request
  <2>2. PICK u \in User : u = owner[mine.asked.token]
    BY <2>1 DEF IdentityInv, IdentityTypeOK, Issued
  <2>3. bookings[u] \in Count
    BY InBounds
  <2>4. PICK n \in mine.asked.since..bookings[u] : mine' = Answered(mine, [of |-> u, changes |-> n])
    BY <1>4, <2>2 DEF ListAccepted
  <2>5. n \in Count
    BY <2>1, <2>3, <2>4, BoundsOK DEF Count
  <2>6. [of |-> u, changes |-> n] \in List
    BY <2>5 DEF List
  <2>. QED
    BY <1>1, <1>2, <2>4, <2>6, CacheTypes
<1>5. CASE ListFails
  BY <1>1, <1>2, <1>5, CacheTypes DEF ListFails, Failed
<1>6. CASE ListRejected
  BY <1>1, <1>2, <1>6, CacheTypes DEF ListRejected
<1>7. CASE Navigate \/ TryAgain \/ ActAnswered
  BY <1>1, <1>2, <1>7, CacheTypes DEF Navigate, TryAgain, ActAnswered, ListInvalidated
<1>8. CASE Render
  BY <1>1, <1>2, <1>8, CacheTypes DEF Render, Entered
<1>9. CASE Reload
  <2>1. CASE stored = Nothing
    BY <1>3, <1>9, <2>1 DEF Reload
  <2>2. CASE stored # Nothing
    <3>1. PICK loaded \in Request : loaded = ListSentWith(stored.token)
      BY <2>2, ListSentTyped DEF IdentityInv, IdentityTypeOK
    <3>. QED
      BY <1>3, <1>9, <3>1, CacheTypes DEF Reload
  <2>. QED
    BY <2>1, <2>2
<1>10. CASE mine' = mine
  BY <1>1, <1>10
<1>11. CASE Expire \/ MeAccepted \/ MeRejected \/ MeFails \/ SubmitLogin \/ SubmitSignUp
            \/ LoginAccepted \/ LoginRejected \/ LookUp \/ SignUpAccepted \/ SignUpRefused
  BY <1>10, <1>11 DEF Expire, MeAccepted, MeRejected, MeFails, SubmitLogin, SubmitSignUp, Submit,
       LoginAccepted, LoginRejected, LookUp, SignUpAccepted, SignUpRefused, SignedIn
<1>12. CASE Click \/ ActCommits \/ ActRefused \/ ActRejected \/ ActFails \/ ClickLogout
            \/ OtherTab \/ OtherPeople
  BY <1>10, <1>12 DEF Click, ActCommits, ActRefused, ActRejected, ActFails, ClickLogout, OtherTab,
       OtherPeople
<1>. QED
  BY <1>4, <1>5, <1>6, <1>7, <1>8, <1>9, <1>11, <1>12 DEF Next

\* What was issued stays issued, and so requests keep their type.
LEMMA StillIssued ==
  ASSUME IdentityInv, Next
  PROVE  /\ Issued \subseteq Issued'
         /\ \A q \in Query(List, Request) : q \in Query(List, Request')
         /\ \A a \in Act : a \in Act'
<1>1. Issued \subseteq Issued'
  BY OwnerGrows DEF Issued
<1>2. Request \subseteq Request'
  BY <1>1 DEF Request
<1>3. ASSUME NEW q \in Query(List, Request)
      PROVE  q \in Query(List, Request')
  BY <1>2, <1>3 DEF Query
<1>. QED
  BY <1>1, <1>3 DEF Act

LEMMA RequestsNext ==
  ASSUME IdentityInv, BudgetOK, RequestsOK, Next
  PROVE  RequestsOK'
<1>1. mine' \in Query(List, Request')
  BY ListNext, StillIssued
<1>2. expired' \subseteq Issued
  BY DEF RequestsOK, Next, serverVars, Expire, Render, Reload, MeAccepted, MeRejected, MeFails, Submit,
       SubmitLogin, SubmitSignUp, LoginAccepted, LoginRejected, LookUp, SignUpAccepted, SignUpRefused,
       SignedIn, ListAccepted, ListRejected, ListFails, Click, ActCommits, ActRefused, ActAnswered,
       ActRejected, ActFails, Navigate, TryAgain, ClickLogout, OtherTab, OtherPeople, Issued
<1>3. page' \in Public \cup Private
  BY DEF RequestsOK, Next, Routed, Public, Private, Expire, Render, Reload, MeAccepted, MeRejected,
       MeFails, Submit, SubmitLogin, SubmitSignUp, LoginAccepted, LoginRejected, LookUp, SignUpAccepted,
       SignUpRefused, SignedIn, ListAccepted, ListRejected, ListFails, Click, ActCommits, ActRefused,
       ActAnswered, ActRejected, ActFails, Navigate, TryAgain, ClickLogout, OtherTab, OtherPeople
<1>4. act' \in Act \cup {Nothing}
  <2>1. act \in Act \cup {Nothing} /\ authToken \in Issued \cup {Nothing}
    BY DEF RequestsOK, IdentityInv, IdentityTypeOK
  <2>2. CASE Click
    <3>1. Accepted(authToken) \in BOOLEAN
      BY DEF Accepted
    <3>. QED
      BY <2>1, <2>2, <3>1 DEF Click, Offered, Act
  <2>3. CASE ActCommits
    BY <2>1, <2>3 DEF ActCommits, Act
  <2>4. CASE act' = Nothing \/ act' = act
    BY <2>1, <2>4
  <2>. QED
    BY <2>2, <2>3, <2>4
    DEF Next, Expire, Render, Reload, MeAccepted, MeRejected, MeFails, Submit, SubmitLogin, SubmitSignUp,
       LoginAccepted, LoginRejected, LookUp, SignUpAccepted, SignUpRefused, SignedIn, ListAccepted,
       ListRejected, ListFails, ActRefused, ActAnswered, ActRejected, ActFails, Navigate, TryAgain,
       ClickLogout, OtherTab, OtherPeople
<1>. QED
  BY <1>1, <1>2, <1>3, <1>4, StillIssued DEF RequestsOK

LEMMA SessionInitially == Init => SessionInv
<1> SUFFICES ASSUME Init PROVE SessionInv
  OBVIOUS
<1>1. /\ Len(owner) = 0 /\ MaxTokens \in Nat /\ MaxChanges \in Nat
      /\ bookings \in [User -> Nat] /\ \A u \in User : bookings[u] = 0
  BY BoundsOK DEF Init
<1>2. /\ left \in [Spendable -> Nat]
      /\ left["tokens"] + left["others"] <= MaxTokens
      /\ left["changes"] + left["others"] <= MaxChanges
      /\ \A w \in {"tokens", "others", "changes"} : left[w] \in Nat
  BY BoundsOK DEF Init, Spendable
<1>3. BudgetOK
  BY <1>1, <1>2 DEF BudgetOK
<1>4. RequestsOK
  BY DEF Init, RequestsOK, EmptyQuery, Query, Public
<1>. QED
  BY <1>3, <1>4, IdentityInitially DEF SessionInv

LEMMA SessionKept == SessionInv /\ [Next]_vars => SessionInv'
<1>1. ASSUME SessionInv, Next
      PROVE  SessionInv'
  BY <1>1, IdentityKept, BudgetNext, RequestsNext DEF SessionInv
<1>2. ASSUME SessionInv, UNCHANGED vars
      PROVE  SessionInv'
  <2>1. IdentityInv'
    BY <1>2, IdentityKept DEF SessionInv
  <2>2. BudgetOK'
    BY <1>2 DEF SessionInv, vars, serverVars, BudgetOK
  <2>3. RequestsOK'
    BY <1>2 DEF SessionInv, vars, serverVars, RequestsOK, Request, Act, Issued, Query
  <2>. QED
    BY <2>1, <2>2, <2>3 DEF SessionInv
<1>. QED
  BY <1>1, <1>2

LEMMA SessionAlways == Spec => []SessionInv
BY SessionInitially, SessionKept, PTL DEF Spec

\* Requests, answers and what is stored keep their types, and nobody is issued or
\* booked more than the allowance pays for.
THEOREM SessionTypesHold == Spec => []TypeOK
<1>1. ASSUME SessionInv
      PROVE  TypeOK
  <2>1. /\ bookings \in [User -> Count] /\ Len(owner) \in 0..MaxTokens /\ Issued \subseteq Token
    BY <1>1, InBounds DEF SessionInv
  <2>2. /\ accounts \subseteq User /\ owner \in Seq(User)
        /\ stored \in [user : User, token : 1..Len(owner)] \cup {Nothing}
        /\ foreign \in BOOLEAN /\ rendering \in BOOLEAN
        /\ authToken \in 1..Len(owner) \cup {Nothing} /\ user \in User \cup {Nothing}
        /\ me \in [token : 1..Len(owner), valid : BOOLEAN] \cup {Nothing}
        /\ form \in [kind : {"login", "lookup", "hash"}, address : User] \cup {Nothing}
    BY <1>1 DEF SessionInv, IdentityInv, IdentityTypeOK, Issued, Form, Verify
  <2>3. /\ expired \subseteq 1..Len(owner) /\ page \in Public \cup Private
        /\ left \in [Spendable -> Nat]
    BY <1>1 DEF SessionInv, RequestsOK, BudgetOK, Issued
  <2>4. Request \subseteq ListRequest
    BY <2>1 DEF Request, ListRequest
  <2>5. mine \in Query(List, ListRequest)
    <3>1. mine \in Query(List, Request)
      BY <1>1 DEF SessionInv, RequestsOK
    <3>. QED
      BY <2>4, <3>1 DEF Query
  <2>6. act \in [op : {"register", "cancel"}, token : Token \cup {Nothing}, valid : BOOLEAN,
                done : BOOLEAN] \cup {Nothing}
    BY <1>1, <2>1 DEF SessionInv, RequestsOK, Act
  <2>. QED
    BY <2>1, <2>2, <2>3, <2>5, <2>6 DEF TypeOK
<1>. QED
  BY <1>1, SessionAlways, PTL
===========================================================================
