---------------------------- MODULE AccountProofs ----------------------------
(***************************************************************************)
(* What the account pages owe the student, for any number of tabs,         *)
(* sessions, passwords, links and failures.                                *)
(*                                                                         *)
(* Coherent is inductive.  A step changes one tab and perhaps the account; *)
(* FineIn says what a tab's record is at any moment, and LaterFine that it *)
(* stays so whatever the other tabs and the server do.  Bounded, at the    *)
(* end, is what the types add to it.                                       *)
(***************************************************************************)
EXTENDS MCAccount, TLAPS

Statuses == {"form", "loading", "ready", "login", "error", "waiting", "verified", "invalid"}
Stages == {"idle", "asked", "checked", "answered", "refreshing", "refreshed"}

TabRecord ==
    [page : Pages, status : Statuses, call : Calls, at : Stages, answer : Answers,
     csrf : Nat, token : Nat, sent : Nat, link : Nat, typed : Nat,
     confirmed : BOOLEAN, invalid : BOOLEAN, again : BOOLEAN, done : Nat]

(* A call is carried out at most once: only its final answer says so. *)
WrittenOnce(r) ==
    /\ r.done \in {0, 1}
    /\ r.done = 1 => r.at = "answered" /\ r.answer = "ok" /\ r.call \in Writes

(* A link that worked is not used again. *)
LinkUsedOnce(r) ==
    /\ ~(r.confirmed /\ r.invalid)
    /\ r.call = "confirm" => ~r.confirmed /\ ~r.invalid
    /\ r.status = "invalid" => r.invalid

(* A sign-out that succeeded, or was refused because nobody is signed in,   *)
(* is about a session that is over.                                         *)
OutIsOut(r, sessions, state) ==
    /\ r.call \in {"logout", "logoutMe"} => r.page \in {"verify", "app"}
    /\ r.call = "logout" /\ r.at = "answered" =>
          /\ r.answer = "ok" => r.sent \notin sessions
          /\ r.answer = "unauthorized" => r.sent \notin sessions \/ state # "active"

FineIn(r, sessions, state, opened) ==
    /\ r.at = "idle" => r.call = "none"
    /\ r.at = "checked" => state # "none"
    /\ r.csrf <= opened /\ r.token <= opened /\ r.sent <= opened
    /\ WrittenOnce(r) /\ LinkUsedOnce(r) /\ OutIsOut(r, sessions, state)

States == {"none", "active", "suspended", "deleted"}

AuthIsTyped ==
    /\ account \in States /\ password \in Nat
    /\ {vlink, vsent, rlink, rsent} \subseteq Nat
    /\ openedWith \in Seq(Nat)
    /\ live \subseteq 1 .. Len(openedWith)
    /\ account = "none" => live = {}
    /\ cookie \in 0 .. Len(openedWith)

Coherent ==
    /\ AuthIsTyped
    /\ tab \in [Tabs -> TabRecord]
    /\ \A t \in Tabs : FineIn(tab[t], live, account, Len(openedWith))

(* What any step may do to the account: sessions are numbered as they are   *)
(* opened, none opens before there is an account, and an account that is    *)
(* suspended or deleted does not come back.                                 *)
AuthMoves ==
    /\ Len(openedWith) <= Len(openedWith')
    /\ \A s \in live' : s \in live \/ s > Len(openedWith)
    /\ account = "none" => live' = {}
    /\ account' = "none" => account = "none"
    /\ account \in {"suspended", "deleted"} => account' # "active"

-----------------------------------------------------------------------------
LEMMA LaterFine ==
    ASSUME NEW r \in TabRecord, AuthIsTyped, AuthIsTyped', AuthMoves,
           FineIn(r, live, account, Len(openedWith))
    PROVE  FineIn(r, live', account', Len(openedWith'))
<1>1. Len(openedWith) \in Nat /\ Len(openedWith') \in Nat
  BY DEF AuthIsTyped
<1>2. r.csrf \in Nat /\ r.token \in Nat /\ r.sent \in Nat
  BY DEF TabRecord
<1>3. OutIsOut(r, live', account')
  BY <1>1, <1>2 DEF FineIn, OutIsOut, AuthMoves, AuthIsTyped, States
<1>4. r.csrf <= Len(openedWith') /\ r.token <= Len(openedWith') /\ r.sent <= Len(openedWith')
  <2>1. r.csrf <= Len(openedWith) /\ r.token <= Len(openedWith) /\ r.sent <= Len(openedWith)
        /\ Len(openedWith) <= Len(openedWith')
    BY DEF FineIn, AuthMoves
  <2> HIDE DEF FineIn, AuthMoves, AuthIsTyped
  <2> QED BY <1>1, <1>2, <2>1
<1> QED BY <1>3, <1>4 DEF FineIn, AuthMoves

LEMMA TabMoves ==
    ASSUME Coherent, AuthIsTyped', AuthMoves,
           NEW t \in Tabs, NEW r \in TabRecord,
           tab' = [tab EXCEPT ![t] = r],
           FineIn(r, live', account', Len(openedWith'))
    PROVE  Coherent'
<1>1. tab' \in [Tabs -> TabRecord]
  BY DEF Coherent
<1>2. ASSUME NEW u \in Tabs PROVE FineIn(tab[u], live, account, Len(openedWith))'
  <2>1. CASE u = t
    BY <2>1 DEF Coherent
  <2>2. CASE u # t
    BY <2>2, LaterFine DEF Coherent
  <2> QED BY <2>1, <2>2
<1> QED BY <1>1, <1>2 DEF Coherent

(* The steps of the client leave the account alone. *)
LEMMA ClientMoves ==
    ASSUME Coherent, UNCHANGED <<auth, links>>, cookie' \in 0 .. Len(openedWith)
    PROVE  AuthIsTyped' /\ AuthMoves
BY DEF Coherent, AuthIsTyped, AuthMoves, auth, links

-----------------------------------------------------------------------------
(* The records that pages are made of. *)

LEMMA FreshFine ==
    ASSUME NEW page \in Pages, NEW sessions, NEW state, NEW opened \in Nat
    PROVE  /\ Fresh(page) \in TabRecord
           /\ FineIn(Fresh(page), sessions, state, opened)
           /\ Fresh(page).done = 0 /\ Fresh(page).page = page
BY DEF Fresh, TabRecord, Statuses, Stages, Calls, Answers, Writes, FineIn, WrittenOnce,
       LinkUsedOnce, OutIsOut

LEMMA IdleFine ==
    ASSUME NEW r \in TabRecord, NEW status \in Statuses,
           NEW sessions, NEW state, NEW opened \in Nat,
           FineIn(r, sessions, state, opened),
           status = "invalid" => r.invalid
    PROVE  /\ Idle(r, status) \in TabRecord
           /\ FineIn(Idle(r, status), sessions, state, opened)
<1> DEFINE s == Idle(r, status)
<1>1. s \in TabRecord
  BY DEF Idle, TabRecord, Stages, Calls, Answers
<1>2. /\ s.call = "none" /\ s.at = "idle" /\ s.token = 0 /\ s.sent = 0 /\ s.done = 0
      /\ s.status = status /\ s.csrf = r.csrf
      /\ s.confirmed = r.confirmed /\ s.invalid = r.invalid
  BY DEF Idle, TabRecord
<1>3. r.csrf <= opened /\ 0 <= opened
  BY DEF FineIn
<1> HIDE DEF s
<1>4. WrittenOnce(s) /\ LinkUsedOnce(s) /\ OutIsOut(s, sessions, state)
  BY <1>2 DEF FineIn, WrittenOnce, LinkUsedOnce, OutIsOut
<1> QED BY <1>1, <1>2, <1>3, <1>4 DEF FineIn, s

LEMMA AskingFine ==
    ASSUME NEW r \in TabRecord, NEW call \in Calls, NEW token \in Nat,
           NEW sessions, NEW state, NEW opened \in Nat,
           FineIn(r, sessions, state, opened), r.done = 0,
           token <= opened, cookie \in 0 .. opened,
           call = "confirm" => ~r.confirmed /\ ~r.invalid,
           call \in {"logout", "logoutMe"} => r.page \in {"verify", "app"}
    PROVE  /\ Asking(r, call, token) \in TabRecord
           /\ FineIn(Asking(r, call, token), sessions, state, opened)
           /\ Asking(r, call, token).done = 0
<1> DEFINE s == Asking(r, call, token)
<1>0. cookie \in Nat /\ "asked" \in Stages /\ "none" \in Answers
  BY DEF Stages, Answers
<1>1. s \in TabRecord
  BY <1>0 DEF Asking, TabRecord
<1>2. /\ s.call = call /\ s.at = "asked" /\ s.token = token /\ s.sent = cookie
      /\ s.done = 0 /\ s.status = r.status /\ s.csrf = r.csrf /\ s.page = r.page
      /\ s.confirmed = r.confirmed /\ s.invalid = r.invalid
  BY DEF Asking, TabRecord
<1>3. r.csrf <= opened /\ cookie <= opened
  BY DEF FineIn
<1> HIDE DEF s
<1>4. WrittenOnce(s) /\ LinkUsedOnce(s) /\ OutIsOut(s, sessions, state)
  BY <1>2 DEF FineIn, WrittenOnce, LinkUsedOnce, OutIsOut
<1> QED BY <1>1, <1>2, <1>3, <1>4 DEF FineIn, s

-----------------------------------------------------------------------------
(* A step of a page: its tab shows another record, the account stays. *)

Fine(r) == r \in TabRecord /\ FineIn(r, live, account, Len(openedWith))

LEMMA TabsAreFine == ASSUME Coherent, NEW t \in Tabs PROVE Fine(tab[t])
BY DEF Coherent, Fine

LEMMA Opened == ASSUME Coherent PROVE Len(openedWith) \in Nat /\ cookie \in 0 .. Len(openedWith)
BY DEF Coherent, AuthIsTyped

LEMMA PageShows ==
    ASSUME Coherent, UNCHANGED <<auth, links>>, cookie' \in 0 .. Len(openedWith),
           NEW t \in Tabs, NEW r, Fine(r), Show(t, r)
    PROVE  Coherent'
<1>1. UNCHANGED <<account, live, openedWith>>
  BY DEF auth
<1>2. FineIn(r, live', account', Len(openedWith'))
  BY <1>1 DEF Fine
<1> QED BY <1>2, ClientMoves, TabMoves DEF Fine, Show

LEMMA AnswerIsTaken ==
    ASSUME Coherent, NEW t \in Tabs, Received(t)
    PROVE  UNCHANGED <<auth, links>> /\ cookie' \in 0 .. Len(openedWith)
BY Opened DEF Received

LEMMA FreshIs ==
    ASSUME Coherent, NEW page \in Pages
    PROVE  Fine(Fresh(page)) /\ Fresh(page).done = 0
BY Opened, FreshFine DEF Fine

LEMMA IdleIs ==
    ASSUME Coherent, NEW r, Fine(r), NEW status \in Statuses, status = "invalid" => r.invalid
    PROVE  Fine(Idle(r, status))
BY Opened, IdleFine DEF Fine

LEMMA AskingIs ==
    ASSUME Coherent, NEW r, Fine(r), r.done = 0, NEW call \in Calls,
           NEW token \in 0 .. Len(openedWith),
           call = "confirm" => ~r.confirmed /\ ~r.invalid,
           call \in {"logout", "logoutMe"} => r.page \in {"verify", "app"}
    PROVE  Fine(Asking(r, call, token))
<1>1. token \in Nat /\ token <= Len(openedWith)
  BY Opened
<1> QED BY <1>1, Opened, AskingFine DEF Fine

(* Fields that nothing above depends on. *)
LEMMA SetFields ==
    ASSUME Coherent, NEW r, Fine(r), NEW n \in Nat, NEW b \in BOOLEAN
    PROVE  /\ Fine([r EXCEPT !.typed = n]) /\ Fine([r EXCEPT !.link = n])
           /\ Fine([r EXCEPT !.again = b])
           /\ Fine([r EXCEPT !.typed = n, !.again = b, !.done = 0])
<1>1. ASSUME NEW s \in TabRecord,
             /\ s.call = r.call /\ s.at = r.at /\ s.token = r.token /\ s.sent = r.sent
             /\ s.done \in {0, r.done} /\ s.status = r.status /\ s.csrf = r.csrf
             /\ s.page = r.page /\ s.answer = r.answer
             /\ s.confirmed = r.confirmed /\ s.invalid = r.invalid
      PROVE  Fine(s)
  BY <1>1 DEF Fine, FineIn, WrittenOnce, LinkUsedOnce, OutIsOut
<1>2. r \in TabRecord
  BY DEF Fine
<1>3. Fine([r EXCEPT !.typed = n])
  BY <1>1, <1>2 DEF TabRecord
<1>4. Fine([r EXCEPT !.link = n])
  BY <1>1, <1>2 DEF TabRecord
<1>5. Fine([r EXCEPT !.again = b])
  BY <1>1, <1>2 DEF TabRecord
<1>6. Fine([r EXCEPT !.typed = n, !.again = b, !.done = 0])
  BY <1>1, <1>2 DEF TabRecord
<1> QED BY <1>3, <1>4, <1>5, <1>6

LEMMA SetToken ==
    ASSUME Coherent, NEW r, Fine(r), NEW n \in 0 .. Len(openedWith)
    PROVE  Fine([r EXCEPT !.csrf = n]) /\ [r EXCEPT !.csrf = n].done = r.done
<1> DEFINE s == [r EXCEPT !.csrf = n]
<1>1. n \in Nat /\ n <= Len(openedWith) /\ r \in TabRecord
  BY Opened DEF Fine
<1>2. s \in TabRecord
  BY <1>1 DEF TabRecord
<1>3. /\ s.call = r.call /\ s.at = r.at /\ s.token = r.token /\ s.sent = r.sent
      /\ s.done = r.done /\ s.status = r.status /\ s.csrf = n
      /\ s.page = r.page /\ s.answer = r.answer
      /\ s.confirmed = r.confirmed /\ s.invalid = r.invalid
  BY <1>1 DEF TabRecord
<1> HIDE DEF s
<1>4. Fine(s)
  BY <1>1, <1>2, <1>3 DEF Fine, FineIn, WrittenOnce, LinkUsedOnce, OutIsOut
<1> QED BY <1>3, <1>4 DEF s

LEMMA SetSent ==
    ASSUME Coherent, NEW r, Fine(r), r.call # "logout", NEW n \in 0 .. Len(openedWith)
    PROVE  Fine([r EXCEPT !.sent = n])
<1> DEFINE s == [r EXCEPT !.sent = n]
<1>1. n \in Nat /\ n <= Len(openedWith) /\ r \in TabRecord
  BY Opened DEF Fine
<1>2. s \in TabRecord
  BY <1>1 DEF TabRecord
<1>3. /\ s.call = r.call /\ s.at = r.at /\ s.token = r.token /\ s.sent = n
      /\ s.done = r.done /\ s.status = r.status /\ s.csrf = r.csrf
      /\ s.page = r.page /\ s.answer = r.answer
      /\ s.confirmed = r.confirmed /\ s.invalid = r.invalid
  BY <1>1 DEF TabRecord
<1> HIDE DEF s
<1>4. Fine(s)
  BY <1>1, <1>2, <1>3 DEF Fine, FineIn, WrittenOnce, LinkUsedOnce, OutIsOut
<1> QED BY <1>4 DEF s

LEMMA NothingDone ==
    ASSUME Coherent, NEW t \in Tabs,
           tab[t].at # "answered" \/ tab[t].answer # "ok" \/ tab[t].call \notin Writes
    PROVE  tab[t].done = 0
BY DEF Coherent, FineIn, WrittenOnce

(* A page that asks, whatever it was: nothing it asked before is answered.  *)
LEMMA PageAsks ==
    ASSUME Coherent, UNCHANGED <<auth, links, cookie>>, NEW t \in Tabs,
           tab[t].at = "idle", NEW call \in Calls, NEW token \in 0 .. Len(openedWith),
           call = "confirm" => MustConfirm(tab[t]),
           call \in {"logout", "logoutMe"} => tab[t].page \in {"verify", "app"},
           Ask(t, call, token)
    PROVE  Coherent'
<1>1. Fine(tab[t]) /\ tab[t].done = 0
  BY TabsAreFine, NothingDone
<1>2. call = "confirm" => ~tab[t].confirmed /\ ~tab[t].invalid
  BY DEF MustConfirm
<1>3. Fine(Asking(tab[t], call, token))
  BY <1>1, <1>2, AskingIs
<1>4. Show(t, Asking(tab[t], call, token))
  BY DEF Ask, Show
<1>5. cookie' \in 0 .. Len(openedWith)
  BY Opened
<1> QED BY <1>3, <1>4, <1>5, PageShows

LEMMA AsksAreFine ==
    ASSUME Coherent, NEW t \in Tabs,
           \/ handleRegister(t) \/ handleRecovery(t) \/ handleReset(t)
           \/ LoadVerification(t) \/ resendOrLogout(t) \/ LoadProfile(t) \/ logout(t)
    PROVE  Coherent'
<1>1. 0 \in 0 .. Len(openedWith) /\ tab[t].csrf \in 0 .. Len(openedWith)
  BY TabsAreFine, Opened DEF Fine, FineIn, TabRecord
<1>2. {"register", "forgot", "reset", "confirm", "me", "resendMe", "logoutMe", "logout"}
          \subseteq Calls
  BY DEF Calls
<1>3. tab[t].at = "idle" /\ UNCHANGED <<auth, links, cookie>>
  BY DEF handleRegister, handleRecovery, handleReset, LoadVerification, resendOrLogout,
         LoadProfile, logout, Ready
<1>4. CASE handleRegister(t)
  BY <1>1, <1>2, <1>3, <1>4, PageAsks DEF handleRegister
<1>5. CASE handleRecovery(t)
  BY <1>1, <1>2, <1>3, <1>5, PageAsks DEF handleRecovery
<1>6. CASE handleReset(t)
  BY <1>1, <1>2, <1>3, <1>6, PageAsks DEF handleReset
<1>7. CASE LoadVerification(t)
  BY <1>1, <1>2, <1>3, <1>7, PageAsks DEF LoadVerification
<1>8. CASE resendOrLogout(t)
  BY <1>1, <1>2, <1>3, <1>8, PageAsks DEF resendOrLogout, Ready
<1>9. CASE LoadProfile(t)
  BY <1>1, <1>2, <1>3, <1>9, PageAsks DEF LoadProfile
<1>10. CASE logout(t)
  BY <1>1, <1>2, <1>3, <1>10, PageAsks DEF logout, Ready
<1> QED BY <1>4, <1>5, <1>6, <1>7, <1>8, <1>9, <1>10

(* The student follows a link, tries again or submits: nothing is called or *)
(* a call starts.                                                           *)
LEMMA VisitsAreFine ==
    ASSUME Coherent, NEW t \in Tabs,
           \/ loadUniversities(t) \/ retryUniversities(t) \/ Visit(t)
           \/ checkVerification(t) \/ retryProfile(t)
    PROVE  Coherent'
<1>1. Fine(tab[t])
  BY TabsAreFine
<1>2. UNCHANGED <<auth, links>> /\ cookie' \in 0 .. Len(openedWith)
  BY Opened DEF loadUniversities, retryUniversities, Visit, checkVerification, retryProfile
<1>3. Fine(Idle(tab[t], "form")) /\ Fine(Idle(tab[t], "loading"))
  BY <1>1, IdleIs DEF Statuses
<1>4. \A page \in Pages : Fine(Fresh(page))
  BY FreshIs
<1>5. \A l \in Nat : Fine([Fresh("reset") EXCEPT !.link = l])
                     /\ Fine([Fresh("verify") EXCEPT !.link = l])
  BY <1>4, SetFields DEF Pages
<1>6. rsent \in Nat /\ vsent \in Nat
  BY DEF Coherent, AuthIsTyped
<1>7. \E r : Fine(r) /\ Show(t, r)
  <2>1. CASE loadUniversities(t)
    BY <1>3, <2>1 DEF loadUniversities
  <2>2. CASE retryUniversities(t)
    BY <1>3, <2>2 DEF retryUniversities
  <2>3. CASE checkVerification(t)
    BY <1>3, <2>3 DEF checkVerification
  <2>4. CASE retryProfile(t)
    BY <1>4, <2>4 DEF retryProfile, Pages
  <2>5. CASE Visit(t)
    <3>1. CASE \E p \in {"login", "register", "app"} \ {tab[t].page} : Show(t, Fresh(p))
      BY <1>4, <3>1 DEF Pages
    <3>2. CASE \E l \in 1 .. rsent : Show(t, [Fresh("reset") EXCEPT !.link = l])
      <4>1. PICK l \in 1 .. rsent : Show(t, [Fresh("reset") EXCEPT !.link = l])
        BY <3>2
      <4>2. l \in Nat
        BY <1>6
      <4> QED BY <1>5, <4>1, <4>2, Zenon
    <3>3. CASE \E l \in 1 .. vsent : Show(t, [Fresh("verify") EXCEPT !.link = l])
      <4>1. PICK l \in 1 .. vsent : Show(t, [Fresh("verify") EXCEPT !.link = l])
        BY <3>3
      <4>2. l \in Nat
        BY <1>6
      <4> QED BY <1>5, <4>1, <4>2, Zenon
    <3> QED BY <2>5, <3>1, <3>2, <3>3 DEF Visit
  <2> QED BY <2>1, <2>2, <2>3, <2>4, <2>5
<1> QED BY <1>2, <1>7, PageShows

LEMMA SubmitsAreFine ==
    ASSUME Coherent, NEW t \in Tabs, handleLogin(t) \/ writeRequest(t)
    PROVE  Coherent'
<1>1. Fine(tab[t]) /\ tab[t].done = 0
  BY TabsAreFine, NothingDone DEF handleLogin, writeRequest, Ready
<1>2. UNCHANGED <<auth, links>> /\ cookie' \in 0 .. Len(openedWith)
  BY Opened DEF handleLogin, writeRequest
<1>3. password \in Nat /\ 0 \in 0 .. Len(openedWith) /\ tab[t].csrf \in 0 .. Len(openedWith)
  BY <1>1, Opened DEF Fine, FineIn, TabRecord, Coherent, AuthIsTyped
<1>4. \E r : Fine(r) /\ Show(t, r)
  <2>1. CASE handleLogin(t)
    <3>1. PICK p \in 0 .. password :
              tab' = [tab EXCEPT ![t] = [Asking(@, "login", 0) EXCEPT !.typed = p]]
      BY <2>1 DEF handleLogin
    <3>2. Fine(Asking(tab[t], "login", 0))
      BY <1>1, <1>3, AskingIs DEF Calls
    <3>3. Fine([Asking(tab[t], "login", 0) EXCEPT !.typed = p])
      <4>1. p \in Nat /\ FALSE \in BOOLEAN
        BY <1>3
      <4> QED BY <3>2, <4>1, SetFields, Zenon
    <3>4. Show(t, [Asking(tab[t], "login", 0) EXCEPT !.typed = p])
      BY <3>1 DEF Show
    <3> QED BY <3>3, <3>4
  <2>2. CASE writeRequest(t)
    <3>1. PICK w \in Writes, p \in 0 .. password :
              Show(t, [Asking(tab[t], w, tab[t].csrf)
                          EXCEPT !.typed = p, !.again = FALSE, !.done = 0])
      BY <2>2 DEF writeRequest
    <3>2. Fine(Asking(tab[t], w, tab[t].csrf))
      BY <1>1, <1>3, AskingIs DEF Calls, Writes
    <3>3. Fine([Asking(tab[t], w, tab[t].csrf)
                    EXCEPT !.typed = p, !.again = FALSE, !.done = 0])
      <4>1. p \in Nat /\ FALSE \in BOOLEAN
        BY <1>3
      <4> QED BY <3>2, <4>1, SetFields, Zenon
    <3> QED BY <3>1, <3>3
  <2> QED BY <2>1, <2>2
<1> QED BY <1>2, <1>4, PageShows

LEMMA StaysIdle ==
    ASSUME Coherent, NEW t \in Tabs
    PROVE  Fine(Idle(tab[t], tab[t].status))
<1>1. Fine(tab[t]) /\ tab[t].status \in Statuses
  BY TabsAreFine DEF Fine, TabRecord
<1>2. tab[t].status = "invalid" => tab[t].invalid
  BY <1>1 DEF Fine, FineIn, LinkUsedOnce
<1> QED BY <1>1, <1>2, IdleIs

LEMMA Numbers ==
    ASSUME Coherent, NEW t \in Tabs
    PROVE  /\ 0 \in 0 .. Len(openedWith)
           /\ tab[t].csrf \in 0 .. Len(openedWith)
           /\ tab[t].token \in 0 .. Len(openedWith)
BY TabsAreFine, Opened DEF Fine, FineIn, TabRecord

(* The page takes an answer: what it shows next is fine. *)

LEMMA SignInGoesOn ==
    ASSUME Coherent, NEW t \in Tabs, LoggedIn(t)
    PROVE  Coherent'
<1>1. /\ Got(t, {"login"}, {"ok", "unverified"}) /\ cookie' = tab[t].token
      /\ Show(t, IF tab[t].answer = "unverified" THEN Fresh("verify")
                 ELSE [Asking(tab[t], "profile", 0) EXCEPT !.sent = cookie'])
      /\ UNCHANGED <<auth, links>>
  BY DEF LoggedIn
<1>2. cookie' \in 0 .. Len(openedWith)
  BY <1>1, Numbers
<1>3. Fine(Fresh("verify"))
  BY FreshIs DEF Pages
<1>4. Fine(tab[t]) /\ tab[t].done = 0
  BY <1>1, TabsAreFine, NothingDone DEF Got, Writes
<1>5. Fine(Asking(tab[t], "profile", 0))
  BY <1>4, AskingIs, Numbers DEF Calls
<1>6. Asking(tab[t], "profile", 0).call = "profile"
  BY <1>4 DEF Asking, Fine, TabRecord
<1>7. Fine([Asking(tab[t], "profile", 0) EXCEPT !.sent = cookie'])
  BY <1>2, <1>5, <1>6, SetSent
<1> QED BY <1>1, <1>2, <1>3, <1>7, PageShows

LEMMA FormsGoOn ==
    ASSUME Coherent, NEW t \in Tabs, LoginDestination(t) \/ FormDone(t)
    PROVE  Coherent'
<1>1. Received(t)
  BY DEF LoginDestination, FormDone
<1>2. Fine(Fresh("app")) /\ Fine(Fresh("notice")) /\ Fine(Fresh("resetDone"))
  BY FreshIs DEF Pages
<1>3. Fine(Idle(tab[t], "form"))
  BY IdleIs, TabsAreFine DEF Statuses
<1>4. \E r : Fine(r) /\ Show(t, r)
  BY <1>2, <1>3 DEF LoginDestination, FormDone
<1> QED BY <1>1, <1>4, AnswerIsTaken, PageShows

(* What a verification page learns of its link, while it asks who is there. *)
LEMMA SetLink ==
    ASSUME Coherent, NEW r, Fine(r), r.call # "confirm", r.status # "invalid",
           NEW b \in BOOLEAN, NEW c \in BOOLEAN, ~(b /\ c)
    PROVE  Fine([r EXCEPT !.confirmed = b, !.invalid = c])
<1> DEFINE s == [r EXCEPT !.confirmed = b, !.invalid = c]
<1>1. r \in TabRecord
  BY DEF Fine
<1>2. s \in TabRecord
  BY <1>1 DEF TabRecord
<1>3. /\ s.call = r.call /\ s.at = r.at /\ s.token = r.token /\ s.sent = r.sent
      /\ s.done = r.done /\ s.status = r.status /\ s.csrf = r.csrf
      /\ s.page = r.page /\ s.answer = r.answer
      /\ s.confirmed = b /\ s.invalid = c
  BY <1>1 DEF TabRecord
<1> HIDE DEF s
<1>4. Fine(s)
  BY <1>2, <1>3 DEF Fine, FineIn, WrittenOnce, LinkUsedOnce, OutIsOut
<1> QED BY <1>4 DEF s

LEMMA ConfirmationGoesOn ==
    ASSUME Coherent, NEW t \in Tabs, Confirmed(t)
    PROVE  Coherent'
<1> DEFINE r == tab[t]
           b == tab[t].answer = "ok"
           c == tab[t].answer = "invalid"
<1>1. /\ Got(t, {"confirm"}, {"ok", "invalid"}) /\ Received(t)
      /\ Show(t, Asking([r EXCEPT !.confirmed = b, !.invalid = c], "me", 0))
  BY DEF Confirmed
<1>2. Fine(r) /\ r.done = 0 /\ r \in TabRecord
  BY <1>1, TabsAreFine, NothingDone DEF Got, Writes, Fine
<1>3. r.status # "invalid"
  BY <1>1, <1>2 DEF Got, Fine, FineIn, LinkUsedOnce
<1>4. Fine(Asking(r, "me", 0))
  BY <1>2, AskingIs, Numbers DEF Calls
<1>5. Asking(r, "me", 0).call = "me" /\ Asking(r, "me", 0).status = r.status
  BY <1>2 DEF Asking, TabRecord
<1>6. b \in BOOLEAN /\ c \in BOOLEAN /\ ~(b /\ c)
  OBVIOUS
<1> HIDE DEF b, c
<1>7. Fine([Asking(r, "me", 0) EXCEPT !.confirmed = b, !.invalid = c])
  BY <1>3, <1>4, <1>5, <1>6, SetLink
<1>8. [Asking(r, "me", 0) EXCEPT !.confirmed = b, !.invalid = c]
          = Asking([r EXCEPT !.confirmed = b, !.invalid = c], "me", 0)
  BY <1>2 DEF Asking, TabRecord
<1> QED BY <1>1, <1>7, <1>8, AnswerIsTaken, PageShows

LEMMA VerificationGoesOn ==
    ASSUME Coherent, NEW t \in Tabs, VerificationLoaded(t)
    PROVE  Coherent'
<1>1. Received(t)
  BY DEF VerificationLoaded
<1>2. Fine(Fresh("app")) /\ Fine(tab[t])
  BY FreshIs, TabsAreFine DEF Pages
<1> DEFINE waiting == Idle(tab[t], IF tab[t].invalid THEN "invalid" ELSE "waiting")
           left == Idle(tab[t], IF tab[t].confirmed THEN "verified"
                                ELSE IF tab[t].invalid THEN "invalid" ELSE "login")
<1>3. Fine(waiting) /\ Fine(left)
  BY <1>2, IdleIs DEF Statuses
<1>4. \/ Show(t, Fresh("app"))
      \/ Show(t, [waiting EXCEPT !.csrf = tab[t].token])
      \/ Show(t, [left EXCEPT !.csrf = 0])
  BY DEF VerificationLoaded
<1> HIDE DEF waiting, left
<1>5. Fine([waiting EXCEPT !.csrf = tab[t].token]) /\ Fine([left EXCEPT !.csrf = 0])
  BY <1>3, Numbers, SetToken
<1> QED BY <1>1, <1>2, <1>4, <1>5, AnswerIsTaken, PageShows

LEMMA ResendGoesOn ==
    ASSUME Coherent, NEW t \in Tabs, resendGoesOn(t)
    PROVE  Coherent'
<1>1. Received(t) /\ (tab[t].call \in {"resendMe", "resend"})
  BY DEF resendGoesOn, Got
<1>2. Fine(Fresh("app")) /\ Fine(tab[t]) /\ tab[t].done = 0
  BY <1>1, FreshIs, TabsAreFine, NothingDone DEF Pages, Writes
<1> DEFINE known == [tab[t] EXCEPT !.csrf = tab[t].token]
           left == Idle(tab[t], "login")
<1>3. Fine(known) /\ known.done = 0
  BY <1>2, Numbers, SetToken
<1>4. Fine(left) /\ Fine(Idle(tab[t], "waiting")) /\ Fine(Idle(tab[t], "loading"))
  BY <1>2, IdleIs DEF Statuses
<1>5. \/ Show(t, Asking(known, "resend", tab[t].token))
      \/ Show(t, Fresh("app"))
      \/ Show(t, Idle(tab[t], "waiting"))
      \/ Show(t, Idle(tab[t], "loading"))
      \/ Show(t, [left EXCEPT !.csrf = 0])
      \/ Show(t, Idle(tab[t], tab[t].status))
  BY DEF resendGoesOn
<1> HIDE DEF known, left
<1>6. Fine([left EXCEPT !.csrf = 0])
  BY <1>4, Numbers, SetToken
<1>7. Fine(Asking(known, "resend", tab[t].token))
  BY <1>3, Numbers, AskingIs DEF Calls
<1> QED BY <1>1, <1>2, <1>4, <1>5, <1>6, <1>7, StaysIdle, AnswerIsTaken, PageShows

LEMMA LogoutGoesOn ==
    ASSUME Coherent, NEW t \in Tabs, logoutGoesOn(t)
    PROVE  Coherent'
<1>1. Received(t) /\ (tab[t].call \in {"logoutMe", "logout"})
  BY DEF logoutGoesOn, Got
<1>2. Fine(Fresh("login")) /\ Fine(tab[t]) /\ tab[t].done = 0
  BY <1>1, FreshIs, TabsAreFine, NothingDone DEF Pages, Writes
<1>3. tab[t].page \in {"verify", "app"}
  BY <1>1, <1>2 DEF Fine, FineIn, OutIsOut
<1>4. Fine(Asking(tab[t], "logout", tab[t].token))
  BY <1>2, <1>3, Numbers, AskingIs DEF Calls
<1>5. \/ Show(t, Asking(tab[t], "logout", tab[t].token))
      \/ Show(t, Fresh("login"))
      \/ Show(t, Idle(tab[t], tab[t].status))
  BY DEF logoutGoesOn
<1> QED BY <1>1, <1>2, <1>4, <1>5, StaysIdle, AnswerIsTaken, PageShows

LEMMA ProfileGoesOn ==
    ASSUME Coherent, NEW t \in Tabs, ProfileLoaded(t)
    PROVE  Coherent'
<1>1. Received(t) /\ tab[t].call \in {"me", "profile"}
  BY DEF ProfileLoaded, Got
<1>2. Fine(Fresh("verify")) /\ Fine(tab[t]) /\ tab[t].done = 0
  BY <1>1, FreshIs, TabsAreFine, NothingDone DEF Pages, Writes
<1> DEFINE known == [tab[t] EXCEPT !.csrf = tab[t].token]
<1>3. Fine(known) /\ known.done = 0
  BY <1>2, Numbers, SetToken
<1>4. Fine(Idle(tab[t], "ready")) /\ Fine(Idle(tab[t], "login"))
  BY <1>2, IdleIs DEF Statuses
<1>5. \/ Show(t, Fresh("verify"))
      \/ Show(t, Asking(known, "profile", 0))
      \/ Show(t, Idle(tab[t], "ready"))
      \/ Show(t, Idle(tab[t], "login"))
  BY DEF ProfileLoaded
<1> HIDE DEF known
<1>6. Fine(Asking(known, "profile", 0))
  BY <1>3, Numbers, AskingIs DEF Calls
<1> QED BY <1>1, <1>2, <1>4, <1>5, <1>6, AnswerIsTaken, PageShows

LEMMA WritesGoOn ==
    ASSUME Coherent, NEW t \in Tabs, RetryWrite(t) \/ Written(t)
    PROVE  Coherent'
<1>1. Received(t) /\ Fine(tab[t])
  BY TabsAreFine DEF RetryWrite, Written
<1>2. Fine(Fresh("login")) /\ Fine(Idle(tab[t], "ready"))
  BY <1>1, FreshIs, IdleIs DEF Pages, Statuses
<1>3. CASE RetryWrite(t)
  <2>1. tab[t].done = 0
    BY <1>3, NothingDone DEF RetryWrite
  <2>2. /\ tab[t].call \in Calls
        /\ tab[t].call = "confirm" => ~tab[t].confirmed /\ ~tab[t].invalid
        /\ tab[t].call \in {"logout", "logoutMe"} => tab[t].page \in {"verify", "app"}
    BY <1>1 DEF Fine, FineIn, LinkUsedOnce, OutIsOut, TabRecord
  <2>3. Fine(Asking(tab[t], tab[t].call, tab[t].token))
    BY <1>1, <2>1, <2>2, Numbers, AskingIs
  <2>4. Fine([Asking(tab[t], tab[t].call, tab[t].token) EXCEPT !.again = TRUE])
    <3>1. 0 \in Nat /\ TRUE \in BOOLEAN
      OBVIOUS
    <3> QED BY <2>3, <3>1, SetFields, Zenon
  <2> QED BY <1>1, <1>2, <1>3, <2>4, AnswerIsTaken, PageShows DEF RetryWrite
<1>4. CASE Written(t)
  BY <1>1, <1>2, <1>4, AnswerIsTaken, PageShows DEF Written
<1> QED BY <1>3, <1>4

LEMMA AnswersNeverCome ==
    ASSUME Coherent, NEW t \in Tabs, NoAnswer(t)
    PROVE  Coherent'
<1>1. Fine(Idle(tab[t], "error")) /\ Fine(Idle(tab[t], tab[t].status))
  BY TabsAreFine, IdleIs, StaysIdle DEF Statuses
<1>2. UNCHANGED <<auth, links>> /\ cookie' \in 0 .. Len(openedWith)
  BY Opened DEF NoAnswer
<1> QED BY <1>1, <1>2, PageShows DEF NoAnswer

-----------------------------------------------------------------------------
(* The server: it decides the answer, and a write says it is done. *)

LEMMA ServerMoves ==
    ASSUME Coherent, AuthIsTyped', AuthMoves, NEW t \in Tabs, NEW r \in TabRecord,
           tab' = [tab EXCEPT ![t] = r],
           /\ r.call = tab[t].call /\ r.page = tab[t].page /\ r.status = tab[t].status
           /\ r.csrf = tab[t].csrf /\ r.sent <= Len(openedWith')
           /\ r.confirmed = tab[t].confirmed /\ r.invalid = tab[t].invalid,
           r.at # "idle", r.at = "checked" => account' # "none",
           r.token <= Len(openedWith'),
           WrittenOnce(r),
           r.call = "logout" /\ r.at = "answered" =>
               /\ r.answer = "ok" => r.sent \notin live'
               /\ r.answer = "unauthorized" => r.sent \notin live' \/ account' # "active"
    PROVE  Coherent'
<1>1. Fine(tab[t])
  BY TabsAreFine
<1>2. LinkUsedOnce(r) /\ OutIsOut(r, live', account')
  BY <1>1 DEF Fine, FineIn, LinkUsedOnce, OutIsOut
<1>3. r.csrf <= Len(openedWith')
  <2>1. tab[t].csrf \in Nat /\ tab[t].csrf <= Len(openedWith)
    BY <1>1 DEF Fine, FineIn, TabRecord
  <2>2. Len(openedWith) \in Nat /\ Len(openedWith') \in Nat
        /\ Len(openedWith) <= Len(openedWith')
    BY DEF AuthIsTyped, AuthMoves, Coherent
  <2> HIDE DEF AuthIsTyped, AuthMoves
  <2> QED BY <2>1, <2>2
<1>4. FineIn(r, live', account', Len(openedWith'))
  BY <1>2, <1>3 DEF FineIn
<1> QED BY <1>4, TabMoves

LEMMA ServerAnswers ==
    ASSUME Coherent, AuthIsTyped', AuthMoves, NEW t \in Tabs, tab[t].at # "answered",
           NEW answer \in Answers, Answered(t, answer),
           tab[t].call = "logout" =>
               /\ answer = "ok" => tab[t].sent \notin live'
               /\ answer = "unauthorized" => tab[t].sent \notin live' \/ account' # "active"
    PROVE  Coherent'
<1> DEFINE r == [tab[t] EXCEPT !.at = "answered", !.answer = answer]
<1>1. Fine(tab[t]) /\ tab[t] \in TabRecord /\ tab[t].done = 0
  BY TabsAreFine, NothingDone DEF Fine
<1>2. r \in TabRecord
  BY <1>1 DEF TabRecord, Stages
<1>3. /\ r.call = tab[t].call /\ r.page = tab[t].page /\ r.status = tab[t].status
      /\ r.csrf = tab[t].csrf /\ r.sent = tab[t].sent
      /\ r.confirmed = tab[t].confirmed /\ r.invalid = tab[t].invalid
      /\ r.at = "answered" /\ r.answer = answer /\ r.token = tab[t].token /\ r.done = 0
  BY <1>1 DEF TabRecord
<1>4. tab' = [tab EXCEPT ![t] = r]
  BY DEF Answered
<1>5. r.sent <= Len(openedWith') /\ r.token <= Len(openedWith')
  <2>1. /\ tab[t].sent \in Nat /\ tab[t].sent <= Len(openedWith)
        /\ tab[t].token \in Nat /\ tab[t].token <= Len(openedWith)
    BY <1>1 DEF Fine, FineIn, TabRecord
  <2>2. Len(openedWith) \in Nat /\ Len(openedWith') \in Nat
        /\ Len(openedWith) <= Len(openedWith')
    BY DEF AuthIsTyped, AuthMoves, Coherent
  <2> HIDE DEF AuthIsTyped, AuthMoves, r
  <2> QED BY <1>3, <2>1, <2>2
<1> HIDE DEF r
<1>6. WrittenOnce(r)
  BY <1>3 DEF WrittenOnce
<1> QED BY <1>2, <1>3, <1>4, <1>5, <1>6, ServerMoves

(* A handler that leaves the account alone. *)
LEMMA NothingMoves ==
    ASSUME Coherent, UNCHANGED <<auth, links, cookie>>
    PROVE  AuthIsTyped' /\ AuthMoves
BY Opened, ClientMoves

LEMMA RefreshesAreFine ==
    ASSUME Coherent, NEW t \in Tabs, RefreshToken(t)
    PROVE  Coherent'
<1> DEFINE r == [tab[t] EXCEPT !.at = "refreshing", !.sent = cookie]
<1>1. Fine(tab[t]) /\ tab[t] \in TabRecord /\ tab[t].done = 0
  BY TabsAreFine, NothingDone DEF Fine, RefreshToken, Got
<1>2. UNCHANGED <<auth, links, cookie>> /\ tab' = [tab EXCEPT ![t] = r]
  BY DEF RefreshToken
<1>3. cookie \in Nat /\ cookie <= Len(openedWith) /\ openedWith' = openedWith
  BY <1>2, Opened DEF auth
<1>4. r \in TabRecord
  BY <1>1, <1>3 DEF TabRecord, Stages
<1>5. /\ r.call = tab[t].call /\ r.page = tab[t].page /\ r.status = tab[t].status
      /\ r.csrf = tab[t].csrf /\ r.sent = cookie
      /\ r.confirmed = tab[t].confirmed /\ r.invalid = tab[t].invalid
      /\ r.at = "refreshing" /\ r.token = tab[t].token /\ r.done = 0
  BY <1>1 DEF TabRecord
<1>6. r.token <= Len(openedWith')
  BY <1>1, <1>3, <1>5 DEF Fine, FineIn
<1> HIDE DEF r
<1>7. WrittenOnce(r)
  BY <1>5 DEF WrittenOnce
<1> QED BY <1>2, <1>3, <1>4, <1>5, <1>6, <1>7, NothingMoves, ServerMoves

(* Handlers that open no session. *)
LEMMA SessionsEnd ==
    ASSUME Coherent, UNCHANGED <<account, openedWith, cookie>>, live' \subseteq live,
           password' \in Nat, vlink' \in Nat, vsent' \in Nat, rlink' \in Nat, rsent' \in Nat
    PROVE  AuthIsTyped' /\ AuthMoves
<1>1. AuthMoves
  BY DEF Coherent, AuthIsTyped, AuthMoves
<1>2. AuthIsTyped'
  BY DEF Coherent, AuthIsTyped
<1> QED BY <1>1, <1>2

LEMMA SendingKeeps ==
    ASSUME Coherent, SendVerification
    PROVE  vlink' \in Nat /\ vsent' \in Nat
BY DEF SendVerification, Coherent, AuthIsTyped

LEMMA RegisterIsFine ==
    ASSUME Coherent, NEW t \in Tabs, Register(t)
    PROVE  Coherent'
<1>1. /\ Asked(t, {"register"})
      /\ UNCHANGED <<verified, password, live, openedWith, rlink, rsent, cookie>>
      /\ \/ account = "none" /\ account' = "active" /\ SendVerification /\ Answered(t, "ok")
         \/ UNCHANGED <<account, vlink, vsent>> /\ Answered(t, "refused")
  BY DEF Register
<1>2. tab[t].call = "register" /\ tab[t].at = "asked"
  BY <1>1 DEF Asked
<1>3. vlink' \in Nat /\ vsent' \in Nat
  BY <1>1, SendingKeeps DEF Coherent, AuthIsTyped
<1>4. \/ account' = account
      \/ account = "none" /\ account' = "active"
  BY <1>1, Zenon
<1>5. AuthIsTyped' /\ AuthMoves
  BY <1>1, <1>3, <1>4 DEF Coherent, AuthIsTyped, AuthMoves, States
<1>6. {"ok", "refused"} \subseteq Answers
  BY DEF Answers
<1> QED BY <1>1, <1>2, <1>5, <1>6, ServerAnswers

LEMMA RefusalAnswers ==
    ASSUME NEW t \in Tabs
    PROVE  /\ Refusal(t) \in {"unauthorized", "csrf", "ok"} /\ Refusal(t) \in Answers
           /\ Refusal(t) = "ok" => Authenticated(t) /\ tab[t].sent \in live
           /\ Refusal(t) = "unauthorized" => tab[t].sent \notin live \/ account # "active"
BY DEF Refusal, Authenticated, Answers

LEMMA CheckPasswordIsFine ==
    ASSUME Coherent, NEW t \in Tabs, CheckPassword(t)
    PROVE  Coherent'
<1> DEFINE a == IF verified THEN "ok" ELSE "unverified"
           r == [tab[t] EXCEPT !.at = "checked", !.answer = a]
<1>1. /\ Asked(t, {"login", "password", "delete"})
      /\ UNCHANGED <<auth, links, cookie>>
  BY DEF CheckPassword
<1>2. tab[t].call \in {"login", "password", "delete"} /\ tab[t].at = "asked"
  BY <1>1 DEF Asked
<1>3. AuthIsTyped' /\ AuthMoves /\ account' = account /\ openedWith' = openedWith
  BY <1>1, NothingMoves DEF auth
<1>4. \/ \E x \in Answers : Answered(t, x)
      \/ account = "active" /\ tab' = [tab EXCEPT ![t] = r]
  <2> DEFINE refusal == IF tab[t].call = "login" THEN "ok" ELSE Refusal(t)
  <2>1. refusal \in Answers /\ "refused" \in Answers
    BY RefusalAnswers DEF Answers
  <2>2. CASE refusal # "ok"
    BY <2>1, <2>2 DEF CheckPassword
  <2>3. CASE refusal = "ok" /\ account = "active" /\ tab[t].typed = password
    BY <2>3 DEF CheckPassword
  <2>4. CASE refusal = "ok" /\ ~(account = "active" /\ tab[t].typed = password)
    BY <2>1, <2>4 DEF CheckPassword
  <2> QED BY <2>2, <2>3, <2>4
<1>5. CASE \E x \in Answers : Answered(t, x)
  BY <1>2, <1>3, <1>5, ServerAnswers
<1>6. CASE account = "active" /\ tab' = [tab EXCEPT ![t] = r]
  <2>1. Fine(tab[t]) /\ tab[t] \in TabRecord /\ tab[t].done = 0
    BY <1>2, TabsAreFine, NothingDone DEF Fine
  <2>2. r \in TabRecord
    BY <2>1 DEF TabRecord, Stages, Answers
  <2>3. /\ r.call = tab[t].call /\ r.page = tab[t].page /\ r.status = tab[t].status
        /\ r.csrf = tab[t].csrf /\ r.sent = tab[t].sent
        /\ r.confirmed = tab[t].confirmed /\ r.invalid = tab[t].invalid
        /\ r.at = "checked" /\ r.token = tab[t].token /\ r.done = 0
    BY <2>1 DEF TabRecord
  <2>4. r.sent <= Len(openedWith') /\ r.token <= Len(openedWith')
    BY <1>3, <2>1, <2>3 DEF Fine, FineIn
  <2> HIDE DEF r
  <2>5. WrittenOnce(r)
    BY <2>3 DEF WrittenOnce
  <2> QED BY <1>3, <1>6, <2>2, <2>3, <2>4, <2>5, ServerMoves
<1> QED BY <1>4, <1>5, <1>6

LEMMA LoginIsFine ==
    ASSUME Coherent, NEW t \in Tabs, Login(t)
    PROVE  Coherent'
<1> DEFINE n == Len(openedWith')
           r == [tab[t] EXCEPT !.at = "answered", !.token = n]
<1>1. Fine(tab[t]) /\ tab[t] \in TabRecord /\ tab[t].done = 0 /\ tab[t].typed \in Nat
  BY TabsAreFine, NothingDone DEF Fine, Login, TabRecord
<1>2. /\ tab[t].call = "login" /\ tab[t].at = "checked"
      /\ openedWith' = Append(openedWith, tab[t].typed)
      /\ live' = (live \ {tab[t].sent}) \union {n}
      /\ tab' = [tab EXCEPT ![t] = r]
      /\ UNCHANGED <<account, verified, password, links, cookie>>
  BY DEF Login
<1>3. account # "none"
  BY <1>1, <1>2 DEF Fine, FineIn
<1>4. /\ openedWith \in Seq(Nat) /\ openedWith' \in Seq(Nat)
      /\ Len(openedWith) \in Nat /\ n = Len(openedWith) + 1
  BY <1>1, <1>2 DEF Coherent, AuthIsTyped
<1>5. n \in Nat /\ Len(openedWith) <= n /\ n > Len(openedWith)
  BY <1>4
<1>6. live' \subseteq 1 .. n /\ cookie' \in 0 .. n
  <2>1. live \subseteq 1 .. Len(openedWith) /\ cookie' \in 0 .. Len(openedWith)
    BY <1>2 DEF Coherent, AuthIsTyped
  <2> HIDE DEF n
  <2> QED BY <1>2, <1>4, <2>1
<1>7. AuthIsTyped'
  <2> HIDE DEF n
  <2>1. account' = account /\ password' = password /\ UNCHANGED links
    BY <1>2
  <2> QED BY <1>3, <1>4, <1>6, <2>1 DEF Coherent, AuthIsTyped, links, n
<1>8. AuthMoves
  <2>1. \A s \in live' : s \in live \/ s > Len(openedWith)
    BY <1>2, <1>5
  <2> QED BY <1>2, <1>3, <1>5, <2>1 DEF AuthMoves
<1>9. r \in TabRecord
  BY <1>1, <1>5 DEF TabRecord, Stages
<1>10. /\ r.call = tab[t].call /\ r.page = tab[t].page /\ r.status = tab[t].status
       /\ r.csrf = tab[t].csrf /\ r.sent = tab[t].sent
       /\ r.confirmed = tab[t].confirmed /\ r.invalid = tab[t].invalid
       /\ r.at = "answered" /\ r.token = n /\ r.done = 0
  BY <1>1 DEF TabRecord
<1>11. r.sent <= n /\ r.token <= n
  <2>1. tab[t].sent \in Nat /\ tab[t].sent <= Len(openedWith)
    BY <1>1 DEF Fine, FineIn, TabRecord
  <2> HIDE DEF n, r
  <2> QED BY <1>5, <1>4, <1>10, <2>1
<1> HIDE DEF r
<1>12. WrittenOnce(r)
  BY <1>10 DEF WrittenOnce
<1> QED BY <1>2, <1>7, <1>8, <1>9, <1>10, <1>11, <1>12, ServerMoves

LEMMA DoneOnce ==
    ASSUME Coherent, AuthIsTyped', AuthMoves, NEW t \in Tabs,
           tab[t].at # "answered", tab[t].call \in Writes,
           tab' = [tab EXCEPT ![t].at = "answered", ![t].answer = "ok", ![t].done = @ + 1]
    PROVE  Coherent'
<1> DEFINE r == [tab[t] EXCEPT !.at = "answered", !.answer = "ok", !.done = 1]
<1>1. Fine(tab[t]) /\ tab[t] \in TabRecord /\ tab[t].done = 0
  BY TabsAreFine, NothingDone DEF Fine
<1>2. tab' = [tab EXCEPT ![t] = r]
  <2>1. tab[t].done + 1 = 1
    BY <1>1
  <2>2. tab' = [tab EXCEPT ![t] = [tab[t] EXCEPT !.at = "answered", !.answer = "ok",
                                                 !.done = tab[t].done + 1]]
    OBVIOUS
  <2> QED BY <2>1, <2>2, Zenon
<1>3. r \in TabRecord
  BY <1>1 DEF TabRecord, Stages, Answers
<1>4. /\ r.call = tab[t].call /\ r.page = tab[t].page /\ r.status = tab[t].status
      /\ r.csrf = tab[t].csrf /\ r.sent = tab[t].sent
      /\ r.confirmed = tab[t].confirmed /\ r.invalid = tab[t].invalid
      /\ r.at = "answered" /\ r.answer = "ok" /\ r.token = tab[t].token /\ r.done = 1
  BY <1>1 DEF TabRecord
<1>5. r.sent <= Len(openedWith') /\ r.token <= Len(openedWith')
  <2>1. /\ tab[t].sent \in Nat /\ tab[t].sent <= Len(openedWith)
        /\ tab[t].token \in Nat /\ tab[t].token <= Len(openedWith)
    BY <1>1 DEF Fine, FineIn, TabRecord
  <2>2. Len(openedWith) \in Nat /\ Len(openedWith') \in Nat
        /\ Len(openedWith) <= Len(openedWith')
    BY DEF AuthIsTyped, AuthMoves, Coherent
  <2> HIDE DEF AuthIsTyped, AuthMoves, r
  <2> QED BY <1>4, <2>1, <2>2
<1> HIDE DEF r
<1>6. WrittenOnce(r)
  BY <1>4 DEF WrittenOnce
<1>7. r.call # "logout"
  BY <1>4 DEF Writes
<1> QED BY <1>2, <1>3, <1>4, <1>5, <1>6, <1>7, ServerMoves

LEMMA ChangePasswordIsFine ==
    ASSUME Coherent, NEW t \in Tabs, ChangePassword(t)
    PROVE  Coherent'
<1>1. /\ tab[t].at = "checked" /\ tab[t].call \in Writes
      /\ tab' = [tab EXCEPT ![t].at = "answered", ![t].answer = "ok", ![t].done = @ + 1]
  BY DEF ChangePassword, Writes
<1>2. AuthIsTyped' /\ AuthMoves
  BY DEF ChangePassword, Coherent, AuthIsTyped, AuthMoves, links
<1> QED BY <1>1, <1>2, DoneOnce

LEMMA DeleteAccountIsFine ==
    ASSUME Coherent, NEW t \in Tabs, DeleteAccount(t)
    PROVE  Coherent'
<1>1. tab[t].at = "checked" /\ tab[t].call = "delete" /\ tab[t].call \in Writes
  BY DEF DeleteAccount, Writes
<1>2. CASE account = "deleted"
  <2>1. Answered(t, "refused") /\ UNCHANGED <<auth, links, cookie>>
    BY <1>2 DEF DeleteAccount, links
  <2>2. "refused" \in Answers
    BY DEF Answers
  <2> QED BY <1>1, <2>1, <2>2, NothingMoves, ServerAnswers
<1>3. CASE account # "deleted"
  <2>1. tab' = [tab EXCEPT ![t].at = "answered", ![t].answer = "ok", ![t].done = @ + 1]
    BY <1>3 DEF DeleteAccount
  <2>2. AuthIsTyped' /\ AuthMoves
    BY <1>3 DEF DeleteAccount, Coherent, AuthIsTyped, AuthMoves, States
  <2> QED BY <1>1, <2>1, <2>2, DoneOnce
<1> QED BY <1>2, <1>3

LEMMA WriteIsFine ==
    ASSUME Coherent, NEW t \in Tabs, Write(t)
    PROVE  Coherent'
<1>1. tab[t].at = "asked" /\ tab[t].call = "write" /\ tab[t].call \in Writes
      /\ UNCHANGED <<auth, links, cookie>>
  BY DEF Write, Asked, Writes
<1>2. AuthIsTyped' /\ AuthMoves
  BY <1>1, NothingMoves
<1>3. CASE Refusal(t) = "ok"
  <2>1. tab' = [tab EXCEPT ![t].at = "answered", ![t].answer = "ok", ![t].done = @ + 1]
    BY <1>3 DEF Write
  <2> QED BY <1>1, <1>2, <2>1, DoneOnce
<1>4. CASE Refusal(t) # "ok"
  <2>1. tab[t] \in TabRecord
    BY DEF Coherent
  <2>2. tab' = [tab EXCEPT ![t].at = "answered", ![t].answer = Refusal(t), ![t].done = @]
    BY <1>4 DEF Write
  <2>3. Answered(t, Refusal(t))
    BY <2>1, <2>2 DEF Answered, TabRecord
  <2> QED BY <1>1, <1>2, <2>3, RefusalAnswers, ServerAnswers
<1> QED BY <1>3, <1>4

LEMMA MeIsFine ==
    ASSUME Coherent, NEW t \in Tabs, Me(t)
    PROVE  Coherent'
<1> DEFINE at == IF tab[t].at = "refreshing" THEN "refreshed" ELSE "answered"
           token == IF Authenticated(t) THEN tab[t].sent ELSE 0
           answer == IF ~Authenticated(t) THEN "unauthorized"
                     ELSE IF verified THEN "ok" ELSE "unverified"
           r == [tab[t] EXCEPT !.at = at, !.token = token, !.answer = answer]
<1>1. /\ tab[t].at \in {"asked", "refreshing"} /\ tab[t].call # "logout"
      /\ UNCHANGED <<auth, links, cookie>> /\ tab' = [tab EXCEPT ![t] = r]
  BY DEF Me, Asked, Writes
<1>2. Fine(tab[t]) /\ tab[t] \in TabRecord /\ tab[t].done = 0
  BY <1>1, TabsAreFine, NothingDone DEF Fine
<1>3. /\ at \in {"answered", "refreshed"} /\ at \in Stages /\ answer \in Answers
      /\ token \in {tab[t].sent, 0} /\ token \in Nat
  BY <1>2 DEF Stages, Answers, TabRecord
<1> HIDE DEF at, token, answer
<1>4. r \in TabRecord
  BY <1>2, <1>3 DEF TabRecord
<1>5. /\ r.call = tab[t].call /\ r.page = tab[t].page /\ r.status = tab[t].status
      /\ r.csrf = tab[t].csrf /\ r.sent = tab[t].sent
      /\ r.confirmed = tab[t].confirmed /\ r.invalid = tab[t].invalid
      /\ r.at = at /\ r.token = token /\ r.done = 0
  BY <1>2 DEF TabRecord
<1>6. r.sent <= Len(openedWith') /\ r.token <= Len(openedWith')
  BY <1>1, <1>2, <1>3, <1>5, Opened DEF Fine, FineIn, auth
<1> HIDE DEF r
<1>7. WrittenOnce(r)
  BY <1>5 DEF WrittenOnce
<1> QED BY <1>1, <1>3, <1>4, <1>5, <1>6, <1>7, NothingMoves, ServerMoves

LEMMA ReadsAreFine ==
    ASSUME Coherent, NEW t \in Tabs, GetProfile(t)
    PROVE  Coherent'
<1>1. /\ tab[t].at = "asked" /\ tab[t].call = "profile"
      /\ UNCHANGED <<auth, links, cookie>>
  BY DEF GetProfile, Asked
<1>2. \E x \in Answers : Answered(t, x)
  BY DEF GetProfile, Answers
<1> QED BY <1>1, <1>2, NothingMoves, ServerAnswers

LEMMA LinksAreFine ==
    ASSUME Coherent, NEW t \in Tabs,
           ForgotPassword(t) \/ ResetPassword(t) \/ VerifyEmail(t)
    PROVE  Coherent'
<1>1. tab[t].at = "asked" /\ tab[t].call # "logout"
  BY DEF ForgotPassword, ResetPassword, VerifyEmail, Asked
<1>2. {"ok", "invalid"} \subseteq Answers
  BY DEF Answers
<1>3. CASE ForgotPassword(t)
  <2>1. UNCHANGED <<account, password, live, openedWith, cookie, vlink, vsent>>
        /\ Answered(t, "ok")
    BY <1>3 DEF ForgotPassword, auth
  <2>2. rlink' \in Nat /\ rsent' \in Nat
    BY <1>3 DEF ForgotPassword, Coherent, AuthIsTyped
  <2>3. AuthIsTyped' /\ AuthMoves
    BY <2>1, <2>2 DEF Coherent, AuthIsTyped, AuthMoves
  <2> QED BY <1>1, <1>2, <2>1, <2>3, ServerAnswers
<1>4. CASE ResetPassword(t)
  <2>1. UNCHANGED <<account, openedWith, vlink, vsent, rsent, cookie>>
    BY <1>4 DEF ResetPassword
  <2>2. live' \subseteq live /\ rlink' \in Nat /\ password' \in Nat
    BY <1>4 DEF ResetPassword, Coherent, AuthIsTyped
  <2>3. AuthIsTyped' /\ AuthMoves
    BY <2>1, <2>2, SessionsEnd DEF Coherent, AuthIsTyped
  <2>4. \E x \in Answers : Answered(t, x)
    BY <1>2, <1>4 DEF ResetPassword
  <2> QED BY <1>1, <2>3, <2>4, ServerAnswers
<1>5. CASE VerifyEmail(t)
  <2>1. AuthIsTyped' /\ AuthMoves
    BY <1>5 DEF VerifyEmail, Coherent, AuthIsTyped, AuthMoves
  <2>2. \E x \in Answers : Answered(t, x)
    BY <1>2, <1>5 DEF VerifyEmail
  <2> QED BY <1>1, <2>1, <2>2, ServerAnswers
<1> QED BY <1>3, <1>4, <1>5

LEMMA ResendIsFine ==
    ASSUME Coherent, NEW t \in Tabs, ResendVerification(t)
    PROVE  Coherent'
<1>1. /\ tab[t].at = "asked" /\ tab[t].call = "resend"
      /\ UNCHANGED <<account, password, live, openedWith, rlink, rsent, cookie>>
  BY DEF ResendVerification, Asked, auth
<1>2. vlink' \in Nat /\ vsent' \in Nat
  BY SendingKeeps DEF ResendVerification, Coherent, AuthIsTyped
<1>3. AuthIsTyped' /\ AuthMoves
  BY <1>1, <1>2 DEF Coherent, AuthIsTyped, AuthMoves
<1>4. {"ok", "refused", "already"} \subseteq Answers /\ Refusal(t) \in Answers
  BY RefusalAnswers DEF Answers
<1>5. \E x \in Answers : Answered(t, x)
  BY <1>4 DEF ResendVerification
<1> QED BY <1>1, <1>3, <1>5, ServerAnswers

(* A sign-out that the server answers with "ok" has revoked the session it  *)
(* came with; refused for want of a session, that session was over before.  *)
LEMMA LogoutIsFine ==
    ASSUME Coherent, NEW t \in Tabs, Logout(t)
    PROVE  Coherent'
<1>1. /\ tab[t].at = "asked" /\ Answered(t, Refusal(t))
      /\ live' = IF Refusal(t) = "ok" THEN live \ {tab[t].sent} ELSE live
      /\ UNCHANGED <<account, verified, password, openedWith, links, cookie>>
  BY DEF Logout, Asked
<1>2. AuthIsTyped' /\ AuthMoves
  <2>1. UNCHANGED <<vlink, vsent, rlink, rsent>> /\ live' \subseteq live
    BY <1>1 DEF links
  <2> QED BY <1>1, <2>1, SessionsEnd DEF Coherent, AuthIsTyped
<1>3. /\ Refusal(t) = "ok" => tab[t].sent \notin live'
      /\ Refusal(t) = "unauthorized" => tab[t].sent \notin live' \/ account' # "active"
  BY <1>1, RefusalAnswers
<1> QED BY <1>1, <1>2, <1>3, RefusalAnswers, ServerAnswers

LEMMA SuspendIsFine ==
    ASSUME Coherent, Suspend
    PROVE  Coherent'
<1>1. AuthIsTyped' /\ AuthMoves
  BY DEF Suspend, Coherent, AuthIsTyped, AuthMoves, links, States
<1>2. tab' = tab
  BY DEF Suspend
<1> QED BY <1>1, <1>2, LaterFine DEF Coherent

LEMMA ServerIsFine ==
    ASSUME Coherent, NEW t \in Tabs, Serve(t)
    PROVE  Coherent'
<1>1. CASE Register(t)           BY <1>1, RegisterIsFine
<1>2. CASE CheckPassword(t)      BY <1>2, CheckPasswordIsFine
<1>3. CASE Login(t)              BY <1>3, LoginIsFine
<1>4. CASE ChangePassword(t)     BY <1>4, ChangePasswordIsFine
<1>5. CASE DeleteAccount(t)      BY <1>5, DeleteAccountIsFine
<1>6. CASE Write(t)              BY <1>6, WriteIsFine
<1>7. CASE Me(t)                 BY <1>7, MeIsFine
<1>8. CASE GetProfile(t)         BY <1>8, ReadsAreFine
<1>9. CASE ForgotPassword(t)     BY <1>9, LinksAreFine
<1>10. CASE ResetPassword(t)     BY <1>10, LinksAreFine
<1>11. CASE VerifyEmail(t)       BY <1>11, LinksAreFine
<1>12. CASE ResendVerification(t) BY <1>12, ResendIsFine
<1>13. CASE Logout(t)            BY <1>13, LogoutIsFine
<1> QED BY <1>1, <1>2, <1>3, <1>4, <1>5, <1>6, <1>7, <1>8, <1>9, <1>10, <1>11, <1>12,
           <1>13 DEF Serve

LEMMA ClientIsFine ==
    ASSUME Coherent, NEW t \in Tabs, GoOn(t) \/ Student(t) \/ NoAnswer(t)
    PROVE  Coherent'
<1>1. CASE GoOn(t)
  <2>1. CASE LoggedIn(t)         BY <2>1, SignInGoesOn
  <2>2. CASE LoginDestination(t) \/ FormDone(t)
    BY <2>2, FormsGoOn
  <2>3. CASE loadUniversities(t) BY <2>3, VisitsAreFine
  <2>4. CASE LoadVerification(t) \/ LoadProfile(t)
    BY <2>4, AsksAreFine
  <2>5. CASE Confirmed(t)        BY <2>5, ConfirmationGoesOn
  <2>6. CASE VerificationLoaded(t) BY <2>6, VerificationGoesOn
  <2>7. CASE resendGoesOn(t)     BY <2>7, ResendGoesOn
  <2>8. CASE logoutGoesOn(t)     BY <2>8, LogoutGoesOn
  <2>9. CASE ProfileLoaded(t)    BY <2>9, ProfileGoesOn
  <2>10. CASE RefreshToken(t)    BY <2>10, RefreshesAreFine
  <2>11. CASE RetryWrite(t) \/ Written(t)
    BY <2>11, WritesGoOn
  <2> QED BY <1>1, <2>1, <2>2, <2>3, <2>4, <2>5, <2>6, <2>7, <2>8, <2>9, <2>10, <2>11
          DEF GoOn
<1>2. CASE Student(t)
  <2>1. CASE handleLogin(t) \/ writeRequest(t)
    BY <2>1, SubmitsAreFine
  <2>2. CASE retryUniversities(t) \/ Visit(t) \/ checkVerification(t) \/ retryProfile(t)
    BY <2>2, VisitsAreFine
  <2>3. CASE \/ handleRegister(t) \/ handleRecovery(t) \/ handleReset(t)
             \/ resendOrLogout(t) \/ logout(t)
    BY <2>3, AsksAreFine
  <2> QED BY <1>2, <2>1, <2>2, <2>3 DEF Student
<1>3. CASE NoAnswer(t)
  BY <1>3, AnswersNeverCome
<1> QED BY <1>1, <1>2, <1>3

LEMMA CoherentInit == Init => Coherent
<1> SUFFICES ASSUME Init PROVE Coherent
  OBVIOUS
<1>1. tab = [t \in Tabs |-> Fresh("login")] /\ live = {} /\ account = "none"
      /\ openedWith = <<>> /\ Len(openedWith) = 0
  BY DEF Init
<1>2. Fresh("login") \in TabRecord /\ FineIn(Fresh("login"), {}, "none", 0)
  BY FreshFine DEF Pages
<1>3. AuthIsTyped
  BY <1>1 DEF Init, AuthIsTyped, States
<1> QED BY <1>1, <1>2, <1>3 DEF Coherent

LEMMA CoherentStep == ASSUME Coherent, [Next]_vars PROVE Coherent'
<1>1. ASSUME NEW t \in Tabs, Serve(t) \/ GoOn(t) \/ Student(t) \/ NoAnswer(t)
      PROVE  Coherent'
  BY <1>1, ServerIsFine, ClientIsFine
<1>2. CASE Suspend
  BY <1>2, SuspendIsFine
<1>3. CASE UNCHANGED vars
  BY <1>3 DEF vars, auth, links, Coherent, AuthIsTyped
<1> QED BY <1>1, <1>2, <1>3 DEF Next

(* The account and its tabs stay coherent, whatever the interleaving of the *)
(* tabs, the server and the answers that never come.                        *)
THEOREM CoherentHolds == Spec => []Coherent
<1>1. Init => Coherent
  BY CoherentInit
<1>2. Coherent /\ [Next]_vars => Coherent'
  BY CoherentStep
<1> QED BY <1>1, <1>2, PTL DEF Spec

(* AuthApi.ts, writeRequest: what was submitted once is done at most once.  *)
THEOREM WriteOnceHolds == Spec => []WriteOnce
<1>1. Coherent => WriteOnce
  <2> SUFFICES ASSUME Coherent, NEW t \in Tabs PROVE tab[t].done <= 1
    BY DEF WriteOnce
  <2>1. tab[t].done \in {0, 1}
    BY DEF Coherent, FineIn, WrittenOnce
  <2> QED BY <2>1
<1> QED BY <1>1, CoherentHolds, PTL

-----------------------------------------------------------------------------
(* What a step keeps of a page: its link turns invalid only when it is       *)
(* checked, and a page that signs out stays until the sign-out is answered.  *)
Kept(r, s) ==
    /\ s.invalid => r.invalid \/ r.call = "confirm"
    /\ r.call = "logout" =>
          \/ s.page = r.page
          \/ r.at = "answered" /\ r.answer \in {"ok", "unauthorized"}

LEMMA IdleKeeps ==
    ASSUME NEW r \in TabRecord, NEW status PROVE Kept(r, Idle(r, status))
BY DEF Idle, Kept, TabRecord

LEMMA AskingKeeps ==
    ASSUME NEW r \in TabRecord, NEW call, NEW token PROVE Kept(r, Asking(r, call, token))
BY DEF Asking, Kept, TabRecord

LEMMA FreshKeeps ==
    ASSUME NEW r, NEW page,
           \/ r.call # "logout"
           \/ r.at = "answered" /\ r.answer \in {"ok", "unauthorized"}
    PROVE  Kept(r, Fresh(page))
BY DEF Fresh, Kept

LEMMA OthersStay ==
    ASSUME Coherent, NEW t \in Tabs, Serve(t) \/ GoOn(t) \/ Student(t) \/ NoAnswer(t)
    PROVE  \A u \in Tabs \ {t} : tab'[u] = tab[u]
<1>0. tab = [u \in Tabs |-> tab[u]]
  BY DEF Coherent
<1>1. CASE Serve(t)
  BY <1>0, <1>1
     DEF Serve, Register, CheckPassword, Login, ChangePassword, DeleteAccount, Write, Me,
         GetProfile, ForgotPassword, ResetPassword, VerifyEmail, ResendVerification, Logout,
         Answered
<1>2. CASE GoOn(t)
  BY <1>0, <1>2
     DEF GoOn, LoggedIn, LoginDestination, FormDone, loadUniversities, LoadVerification,
         Confirmed, VerificationLoaded, resendGoesOn, logoutGoesOn, LoadProfile,
         ProfileLoaded, RefreshToken, RetryWrite, Written, Ask, Show
<1>3. CASE Student(t)
  BY <1>0, <1>3
     DEF Student, handleLogin, retryUniversities, handleRegister, handleRecovery,
         handleReset, Visit, checkVerification, resendOrLogout, retryProfile, logout,
         writeRequest, Ask, Show
<1>4. CASE NoAnswer(t)
  BY <1>0, <1>4 DEF NoAnswer, Show
<1> QED BY <1>1, <1>2, <1>3, <1>4

LEMMA ServerKeeps ==
    ASSUME Coherent, NEW t \in Tabs, Serve(t)
    PROVE  tab'[t].invalid = tab[t].invalid /\ tab'[t].page = tab[t].page
<1>0. tab \in [Tabs -> TabRecord] /\ tab[t] \in TabRecord
  BY DEF Coherent
<1> HIDE DEF Coherent
<1>1. ASSUME NEW answer, Answered(t, answer)
      PROVE  tab'[t].invalid = tab[t].invalid /\ tab'[t].page = tab[t].page
  BY <1>0, <1>1 DEF Answered, TabRecord
<1>2. CASE Register(t) \/ GetProfile(t) \/ Logout(t)
  BY <1>1, <1>2 DEF Register, GetProfile, Logout
<1>3. CASE ForgotPassword(t) \/ ResetPassword(t) \/ VerifyEmail(t)
  BY <1>1, <1>3 DEF ForgotPassword, ResetPassword, VerifyEmail
<1>4. CASE ResendVerification(t)
  BY <1>1, <1>4 DEF ResendVerification
<1>5. CASE CheckPassword(t)
  BY <1>0, <1>1, <1>5 DEF CheckPassword, TabRecord
<1>6. CASE Login(t) \/ ChangePassword(t)
  BY <1>0, <1>6 DEF Login, ChangePassword, TabRecord
<1>7. CASE DeleteAccount(t)
  BY <1>0, <1>1, <1>7 DEF DeleteAccount, TabRecord
<1>8. CASE Write(t) \/ Me(t)
  BY <1>0, <1>8 DEF Write, Me, TabRecord
<1> QED BY <1>2, <1>3, <1>4, <1>5, <1>6, <1>7, <1>8 DEF Serve

LEMMA ClientKeeps ==
    ASSUME Coherent, NEW t \in Tabs, GoOn(t) \/ Student(t) \/ NoAnswer(t)
    PROVE  Kept(tab[t], tab'[t]) /\ UNCHANGED <<account, live>>
<1>0. tab \in [Tabs -> TabRecord] /\ tab[t] \in TabRecord
  BY DEF Coherent
<1>1. ASSUME NEW r, Show(t, r) PROVE tab'[t] = r
  BY <1>0, <1>1 DEF Show
<1>2. UNCHANGED <<account, live>>
  BY DEF GoOn, Student, NoAnswer, LoggedIn, LoginDestination, FormDone, loadUniversities,
         LoadVerification, Confirmed, VerificationLoaded, resendGoesOn, logoutGoesOn,
         LoadProfile, ProfileLoaded, RefreshToken, RetryWrite, Written, handleLogin,
         retryUniversities, handleRegister, handleRecovery, handleReset, Visit,
         checkVerification, resendOrLogout, retryProfile, logout, writeRequest, Received,
         auth
<1> SUFFICES Kept(tab[t], tab'[t])
  BY <1>2
<1>3. tab[t].at = "idle" => tab[t].call = "none"
  BY DEF Coherent, FineIn
<1>4. ASSUME NEW page, Show(t, Fresh(page)),
             \/ tab[t].call # "logout"
             \/ tab[t].at = "answered" /\ tab[t].answer \in {"ok", "unauthorized"}
      PROVE  Kept(tab[t], tab'[t])
  BY <1>1, <1>4, FreshKeeps
<1>5. ASSUME NEW status, Show(t, Idle(tab[t], status))
      PROVE  Kept(tab[t], tab'[t])
  BY <1>0, <1>1, <1>5, IdleKeeps
<1>6. ASSUME NEW call, NEW token, Show(t, Asking(tab[t], call, token))
      PROVE  Kept(tab[t], tab'[t])
  BY <1>0, <1>1, <1>6, AskingKeeps
<1>7. ASSUME NEW call, NEW token, Ask(t, call, token)
      PROVE  Kept(tab[t], tab'[t])
  <2>1. Show(t, Asking(tab[t], call, token))
    BY <1>7 DEF Ask, Show
  <2> QED BY <1>6, <2>1
<1>8. CASE GoOn(t)
  <2>1. CASE LoggedIn(t)
    BY <1>0, <1>1, <1>4, <2>1 DEF LoggedIn, Got, Kept, Asking, TabRecord
  <2>2. CASE LoginDestination(t) \/ FormDone(t)
    BY <1>1, <1>4, <1>5, <2>2 DEF LoginDestination, FormDone, Got
  <2>3. CASE loadUniversities(t)
    BY <1>1, <1>5, <2>3 DEF loadUniversities
  <2>4. CASE LoadVerification(t) \/ LoadProfile(t)
    BY <1>7, <2>4 DEF LoadVerification, LoadProfile
  <2>5. CASE Confirmed(t)
    BY <1>1, <2>5 DEF Confirmed, Got, Kept
  <2>6. CASE VerificationLoaded(t)
    BY <1>0, <1>1, <1>4, <2>6 DEF VerificationLoaded, Got, Kept, Idle, TabRecord
  <2>7. CASE resendGoesOn(t)
    BY <1>0, <1>1, <1>4, <2>7 DEF resendGoesOn, Got, Kept, Idle, Asking, TabRecord
  <2>8. CASE logoutGoesOn(t)
    BY <1>0, <1>1, <1>4, <1>5, <1>6, <2>8 DEF logoutGoesOn, Got, Kept
  <2>9. CASE ProfileLoaded(t)
    BY <1>0, <1>1, <1>4, <1>5, <2>9 DEF ProfileLoaded, Got, Kept, Asking, TabRecord
  <2>10. CASE RefreshToken(t)
    BY <1>0, <2>10 DEF RefreshToken, Kept, TabRecord
  <2>11. CASE RetryWrite(t)
    BY <1>0, <1>1, <1>5, <2>11 DEF RetryWrite, Kept, Asking, TabRecord
  <2>12. CASE Written(t)
    BY <1>1, <1>4, <1>5, <2>12 DEF Written, Got, Writes
  <2> QED BY <1>8, <2>1, <2>2, <2>3, <2>4, <2>5, <2>6, <2>7, <2>8, <2>9, <2>10, <2>11,
             <2>12 DEF GoOn
<1>9. CASE Student(t)
  <2>1. CASE handleLogin(t)
    BY <1>0, <2>1 DEF handleLogin, Kept, Asking, TabRecord
  <2>2. CASE writeRequest(t)
    BY <1>0, <1>1, <2>2 DEF writeRequest, Kept, Asking, TabRecord
  <2>3. CASE Visit(t)
    <3>1. tab[t].call # "logout"
      BY <1>3, <2>3 DEF Visit
    <3>2. CASE \E page : Show(t, Fresh(page))
      BY <1>4, <3>1, <3>2
    <3>3. CASE \E page, l : Show(t, [Fresh(page) EXCEPT !.link = l])
      BY <1>1, <3>1, <3>3 DEF Kept, Fresh
    <3> QED BY <2>3, <3>2, <3>3 DEF Visit
  <2>4. CASE retryUniversities(t) \/ checkVerification(t)
    BY <1>1, <1>5, <2>4 DEF retryUniversities, checkVerification
  <2>5. CASE retryProfile(t)
    BY <1>1, <1>3, <1>4, <2>5 DEF retryProfile, Ready
  <2>6. CASE \/ handleRegister(t) \/ handleRecovery(t) \/ handleReset(t)
             \/ resendOrLogout(t) \/ logout(t)
    BY <1>7, <2>6 DEF handleRegister, handleRecovery, handleReset, resendOrLogout, logout
  <2> QED BY <1>9, <2>1, <2>2, <2>3, <2>4, <2>5, <2>6 DEF Student
<1>10. CASE NoAnswer(t)
  BY <1>1, <1>5, <1>10 DEF NoAnswer
<1> QED BY <1>8, <1>9, <1>10

LEMMA StepKeeps ==
    ASSUME Coherent, [Next]_vars, NEW t \in Tabs
    PROVE  /\ Kept(tab[t], tab'[t])
           /\ tab'[t].page = tab[t].page
              \/ UNCHANGED <<account, live>>
<1>1. CASE UNCHANGED <<tab>>
  BY <1>1 DEF Kept
<1>2. ASSUME NEW u \in Tabs, Serve(u) \/ GoOn(u) \/ Student(u) \/ NoAnswer(u)
      PROVE  /\ Kept(tab[t], tab'[t])
             /\ tab'[t].page = tab[t].page
                \/ UNCHANGED <<account, live>>
  <2>1. CASE u # t
    BY <1>2, <2>1, OthersStay DEF Kept
  <2>2. CASE u = t /\ Serve(t)
    BY <2>2, ServerKeeps DEF Kept
  <2>3. CASE u = t /\ (GoOn(t) \/ Student(t) \/ NoAnswer(t))
    BY <2>3, ClientKeeps
  <2> QED BY <1>2, <2>1, <2>2, <2>3
<1>3. CASE Suspend
  BY <1>1, <1>3 DEF Suspend
<1> QED BY <1>1, <1>2, <1>3 DEF Next, vars

(* SPRINT2.md: a verification page whose link worked never says it did not. *)
THEOREM SuccessIsKeptHolds == Spec => SuccessIsKept
<1> DEFINE Kept1 == \A t \in Tabs :
                tab[t].page = "verify" /\ tab[t].confirmed =>
                    ~tab'[t].invalid /\ tab'[t].status # "invalid"
<1>1. Coherent /\ [Next]_vars => Kept1
  <2> SUFFICES ASSUME Coherent, [Next]_vars, NEW t \in Tabs, tab[t].confirmed
               PROVE  ~tab'[t].invalid /\ tab'[t].status # "invalid"
    OBVIOUS
  <2>1. ~tab[t].invalid /\ tab[t].call # "confirm"
    BY DEF Coherent, FineIn, LinkUsedOnce
  <2>2. ~tab'[t].invalid
    BY <2>1, StepKeeps DEF Kept
  <2>3. tab'[t].status = "invalid" => tab'[t].invalid
    <3>1. Coherent'
      BY CoherentStep
    <3> QED BY <3>1 DEF Coherent, FineIn, LinkUsedOnce
  <2> QED BY <2>2, <2>3
<1>2. Coherent /\ [Next]_vars => [Kept1]_vars
  BY <1>1
<1> QED BY <1>2, CoherentHolds, PTL DEF Spec, SuccessIsKept

(* The page of a student who signed out becomes the sign-in page only once  *)
(* the session it called with is over.                                      *)
THEOREM SignedOutIsOutHolds == Spec => SignedOutIsOut
<1> DEFINE Out == \A t \in Tabs :
                tab[t].call = "logout" /\ tab'[t].page = "login" =>
                    tab[t].sent \notin live' \/ account' # "active"
<1>1. Coherent /\ [Next]_vars => Out
  <2> SUFFICES ASSUME Coherent, [Next]_vars, NEW t \in Tabs,
                      tab[t].call = "logout", tab'[t].page = "login"
               PROVE  tab[t].sent \notin live' \/ account' # "active"
    OBVIOUS
  <2>1. /\ tab[t].page \in {"verify", "app"}
        /\ tab[t].at = "answered" /\ tab[t].answer = "ok" => tab[t].sent \notin live
        /\ tab[t].at = "answered" /\ tab[t].answer = "unauthorized" =>
              tab[t].sent \notin live \/ account # "active"
    BY DEF Coherent, FineIn, OutIsOut
  <2>2. tab[t].at = "answered" /\ tab[t].answer \in {"ok", "unauthorized"}
    BY <2>1, StepKeeps DEF Kept
  <2>3. account' = account /\ live' = live
    BY <2>1, StepKeeps
  <2> QED BY <2>1, <2>2, <2>3
<1>2. Coherent /\ [Next]_vars => [Out]_vars
  BY <1>1
<1> QED BY <1>2, CoherentHolds, PTL DEF Spec, SignedOutIsOut

-----------------------------------------------------------------------------
(* The bounds of the account, which the sessions take from the passwords     *)
(* typed: a session is opened with the one its tab had checked.              *)
Bounded ==
    /\ password \in Passwords /\ troubles \in 0 .. MaxTroubles
    /\ {vlink, vsent, rlink, rsent} \subseteq Links
    /\ openedWith \in Seq(Passwords) /\ Len(openedWith) <= MaxSessions
    /\ \A t \in Tabs : tab[t].typed \in Passwords

(* No handler of the server writes what a tab has typed. *)
LEMMA ServerLeavesTyped ==
    ASSUME Coherent, NEW t \in Tabs, Serve(t)
    PROVE  tab'[t].typed = tab[t].typed
<1>1. tab \in [Tabs -> TabRecord] /\ tab[t] \in TabRecord
  BY DEF Coherent
<1> QED
  BY <1>1 DEF TabRecord, Serve, Register, CheckPassword, Login, ChangePassword,
     DeleteAccount, Write, Me, GetProfile, ForgotPassword, ResetPassword, VerifyEmail,
     ResendVerification, Logout, Answered

(* A form is typed into with a password the account has had. *)
LEMMA ClientTypes ==
    ASSUME Coherent, NEW t \in Tabs, GoOn(t) \/ Student(t) \/ NoAnswer(t)
    PROVE  tab'[t].typed = tab[t].typed \/ tab'[t].typed \in 0 .. password
<1> DEFINE Typed(r) == r.typed = tab[t].typed \/ r.typed \in 0 .. password
<1>0. tab \in [Tabs -> TabRecord] /\ tab[t] \in TabRecord /\ 0 \in 0 .. password
  BY DEF Coherent, AuthIsTyped
<1>1. ASSUME NEW r, Show(t, r) PROVE tab'[t] = r
  BY <1>0, <1>1 DEF Show
<1>2. ASSUME NEW page PROVE Typed(Fresh(page))
  BY <1>0 DEF Fresh
<1>3. ASSUME NEW status PROVE Typed(Idle(tab[t], status))
  BY <1>0 DEF Idle, TabRecord
<1>4. ASSUME NEW call, NEW token PROVE Typed(Asking(tab[t], call, token))
  BY <1>0 DEF Asking, TabRecord
<1>5. ASSUME NEW call, NEW token, Ask(t, call, token) PROVE Typed(tab'[t])
  BY <1>0, <1>4, <1>5 DEF Ask
<1> SUFFICES Typed(tab'[t])
  OBVIOUS
<1>6. CASE GoOn(t)
  <2>1. CASE LoggedIn(t)
    BY <1>0, <1>1, <1>2, <2>1 DEF LoggedIn, Asking, TabRecord
  <2>2. CASE LoginDestination(t) \/ FormDone(t)
    BY <1>1, <1>2, <1>3, <2>2 DEF LoginDestination, FormDone
  <2>3. CASE loadUniversities(t)
    BY <1>1, <1>3, <2>3 DEF loadUniversities
  <2>4. CASE LoadVerification(t) \/ LoadProfile(t)
    BY <1>5, <2>4 DEF LoadVerification, LoadProfile
  <2>5. CASE Confirmed(t)
    BY <1>0, <1>1, <2>5 DEF Confirmed, Asking, TabRecord
  <2>6. CASE VerificationLoaded(t)
    BY <1>0, <1>1, <1>2, <2>6 DEF VerificationLoaded, Idle, TabRecord
  <2>7. CASE resendGoesOn(t)
    BY <1>0, <1>1, <1>2, <2>7 DEF resendGoesOn, Idle, Asking, TabRecord
  <2>8. CASE logoutGoesOn(t)
    BY <1>1, <1>2, <1>3, <1>4, <2>8 DEF logoutGoesOn
  <2>9. CASE ProfileLoaded(t)
    BY <1>0, <1>1, <1>2, <1>3, <2>9 DEF ProfileLoaded, Asking, TabRecord
  <2>10. CASE RefreshToken(t)
    BY <1>0, <2>10 DEF RefreshToken, TabRecord
  <2>11. CASE RetryWrite(t)
    BY <1>0, <1>1, <1>3, <2>11 DEF RetryWrite, Asking, TabRecord
  <2>12. CASE Written(t)
    BY <1>1, <1>2, <1>3, <2>12 DEF Written
  <2> QED BY <1>6, <2>1, <2>2, <2>3, <2>4, <2>5, <2>6, <2>7, <2>8, <2>9, <2>10, <2>11,
             <2>12 DEF GoOn
<1>7. CASE Student(t)
  <2>1. CASE handleLogin(t)
    BY <1>0, <2>1 DEF handleLogin, Asking, TabRecord
  <2>2. CASE writeRequest(t)
    BY <1>0, <1>1, <2>2 DEF writeRequest, Asking, TabRecord
  <2>3. CASE Visit(t)
    BY <1>0, <1>1, <1>2, <2>3 DEF Visit, Fresh
  <2>4. CASE retryUniversities(t) \/ checkVerification(t) \/ retryProfile(t)
    BY <1>1, <1>2, <1>3, <2>4 DEF retryUniversities, checkVerification, retryProfile
  <2>5. CASE \/ handleRegister(t) \/ handleRecovery(t) \/ handleReset(t)
             \/ resendOrLogout(t) \/ logout(t)
    BY <1>5, <2>5 DEF handleRegister, handleRecovery, handleReset, resendOrLogout, logout
  <2> QED BY <1>7, <2>1, <2>2, <2>3, <2>4, <2>5 DEF Student
<1>8. CASE NoAnswer(t)
  BY <1>1, <1>3, <1>8 DEF NoAnswer
<1> QED BY <1>6, <1>7, <1>8

(* What the server counts stays within its bounds. *)
LEMMA ServerIsBounded ==
    ASSUME Coherent, Bounded, NEW t \in Tabs, Serve(t)
    PROVE  /\ password' \in Passwords /\ troubles' \in 0 .. MaxTroubles
           /\ {vlink', vsent', rlink', rsent'} \subseteq Links
           /\ openedWith' \in Seq(Passwords) /\ Len(openedWith') <= MaxSessions
<1> USE AccountAssumption DEF Passwords, Links
<1>1. CASE Register(t)
  BY <1>1 DEF Bounded, Register, SendVerification
<1>2. CASE CheckPassword(t) \/ Write(t) \/ Me(t) \/ GetProfile(t) \/ Logout(t)
  BY <1>2 DEF Bounded, CheckPassword, Write, Me, GetProfile, Logout, auth, links
<1>3. CASE Login(t)
  <2>1. openedWith \in Seq(Passwords) /\ tab[t].typed \in Passwords
    BY DEF Bounded
  <2>2. /\ openedWith' = Append(openedWith, tab[t].typed) /\ Len(openedWith) < MaxSessions
        /\ UNCHANGED <<password, vlink, vsent, rlink, rsent, troubles>>
    BY <1>3 DEF Login, links
  <2>3. openedWith' \in Seq(Passwords) /\ Len(openedWith') = Len(openedWith) + 1
    BY <2>1, <2>2
  <2>4. Len(openedWith') <= MaxSessions
    BY <2>1, <2>2, <2>3
  <2> QED BY <2>2, <2>3, <2>4 DEF Bounded
<1>4. CASE ChangePassword(t)
  BY <1>4 DEF Bounded, ChangePassword, links
<1>5. CASE DeleteAccount(t)
  BY <1>5 DEF Bounded, DeleteAccount, auth
<1>6. CASE ForgotPassword(t)
  BY <1>6 DEF Bounded, ForgotPassword, auth
<1>7. CASE ResetPassword(t)
  BY <1>7 DEF Bounded, ResetPassword
<1>8. CASE VerifyEmail(t)
  BY <1>8 DEF Bounded, VerifyEmail
<1>9. CASE ResendVerification(t)
  BY <1>9 DEF Bounded, ResendVerification, SendVerification, auth
<1> QED BY <1>1, <1>2, <1>3, <1>4, <1>5, <1>6, <1>7, <1>8, <1>9 DEF Serve

(* A page counts nothing but the answers that did not come. *)
LEMMA ClientIsBounded ==
    ASSUME Bounded, NEW t \in Tabs, GoOn(t) \/ Student(t) \/ NoAnswer(t)
    PROVE  /\ UNCHANGED <<auth, links>>
           /\ troubles' \in 0 .. MaxTroubles
<1>1. CASE NoAnswer(t)
  BY <1>1, AccountAssumption DEF Bounded, NoAnswer
<1>2. CASE GoOn(t) \/ Student(t)
  BY <1>2
     DEF Bounded, GoOn, Student, LoggedIn, LoginDestination, FormDone, loadUniversities,
         LoadVerification, Confirmed, VerificationLoaded, resendGoesOn, logoutGoesOn,
         LoadProfile, ProfileLoaded, RefreshToken, RetryWrite, Written, handleLogin,
         retryUniversities, handleRegister, handleRecovery, handleReset, Visit,
         checkVerification, resendOrLogout, retryProfile, logout, writeRequest, Received
<1> QED BY <1>1, <1>2

LEMMA BoundedStep == ASSUME Coherent, Bounded, [Next]_vars PROVE Bounded'
<1>1. ASSUME NEW t \in Tabs, Serve(t) \/ GoOn(t) \/ Student(t) \/ NoAnswer(t)
      PROVE  Bounded'
  <2>1. /\ password' \in Passwords /\ troubles' \in 0 .. MaxTroubles
        /\ {vlink', vsent', rlink', rsent'} \subseteq Links
        /\ openedWith' \in Seq(Passwords) /\ Len(openedWith') <= MaxSessions
    <3>1. CASE Serve(t)
      BY <3>1, ServerIsBounded
    <3>2. CASE GoOn(t) \/ Student(t) \/ NoAnswer(t)
      BY <3>2, ClientIsBounded DEF Bounded, auth, links
    <3> QED BY <1>1, <3>1, <3>2
  <2>2. tab'[t].typed = tab[t].typed \/ tab'[t].typed \in 0 .. password
    BY <1>1, ServerLeavesTyped, ClientTypes
  <2>3. 0 .. password \subseteq Passwords
    BY AccountAssumption DEF Bounded, Passwords
  <2>4. ASSUME NEW u \in Tabs PROVE tab'[u].typed \in Passwords
    <3>1. CASE u = t
      BY <2>2, <2>3, <3>1 DEF Bounded
    <3>2. CASE u # t
      BY <1>1, <3>2, OthersStay DEF Bounded
    <3> QED BY <3>1, <3>2
  <2> QED BY <2>1, <2>4 DEF Bounded
<1>2. CASE Suspend
  BY <1>2, AccountAssumption DEF Suspend, Bounded, links
<1>3. CASE UNCHANGED vars
  BY <1>3 DEF vars, auth, links, Bounded
<1> QED BY <1>1, <1>2, <1>3 DEF Next

LEMMA VerifiedIsBoolean ==
    ASSUME verified \in BOOLEAN, [Next]_vars PROVE verified' \in BOOLEAN
<1>1. ASSUME NEW t \in Tabs, Serve(t) PROVE verified' \in BOOLEAN
  BY <1>1 DEF Serve, Register, CheckPassword, Login, ChangePassword,
     DeleteAccount, Write, Me, GetProfile, ForgotPassword, ResetPassword, VerifyEmail,
     ResendVerification, Logout, auth
<1>2. ASSUME NEW t \in Tabs, GoOn(t) \/ Student(t) \/ NoAnswer(t)
      PROVE  verified' \in BOOLEAN
  BY <1>2
     DEF GoOn, Student, LoggedIn, LoginDestination, FormDone, loadUniversities,
         LoadVerification, Confirmed, VerificationLoaded, resendGoesOn, logoutGoesOn,
         LoadProfile, ProfileLoaded, RefreshToken, RetryWrite, Written, handleLogin,
         retryUniversities, handleRegister, handleRecovery, handleReset, Visit,
         checkVerification, resendOrLogout, retryProfile, logout, writeRequest, Received,
         NoAnswer, auth
<1>3. CASE Suspend
  BY <1>3 DEF Suspend
<1>4. CASE UNCHANGED vars
  BY <1>4 DEF vars, auth
<1> QED BY <1>1, <1>2, <1>3, <1>4 DEF Next

(* No token, cookie or session is ever ahead of the sessions opened, and a  *)
(* session is opened with a password the account has had.                   *)
THEOREM TypeOKHolds == Spec => []TypeOK
<1> DEFINE Flag == verified \in BOOLEAN
<1>1. Init => Bounded /\ Flag
  <2> SUFFICES ASSUME Init PROVE Bounded /\ Flag
    OBVIOUS
  <2>1. \A t \in Tabs : tab[t].typed = 0
    BY DEF Init, Fresh
  <2>2. openedWith \in Seq(Passwords) /\ Len(openedWith) = 0
    BY DEF Init
  <2>3. /\ password \in Passwords /\ troubles \in 0 .. MaxTroubles
        /\ {vlink, vsent, rlink, rsent} \subseteq Links
        /\ 0 \in Passwords /\ 0 <= MaxSessions
    BY AccountAssumption DEF Init, Passwords, Links
  <2>4. Flag
    BY DEF Init
  <2> QED BY <2>1, <2>2, <2>3, <2>4 DEF Bounded
<1>2. Coherent /\ Bounded /\ Flag /\ [Next]_vars => Bounded' /\ Flag'
  BY BoundedStep, VerifiedIsBoolean
<1>3. Coherent /\ Bounded /\ Flag => TypeOK
  <2> SUFFICES ASSUME Coherent, Bounded, Flag PROVE TypeOK
    OBVIOUS
  <2>1. ASSUME NEW t \in Tabs
        PROVE  /\ tab[t].page \in Pages /\ tab[t].call \in Calls /\ tab[t].answer \in Answers
               /\ tab[t].at \in Stages /\ tab[t].status \in Statuses
               /\ {tab[t].csrf, tab[t].token, tab[t].sent} \subseteq 0 .. Len(openedWith)
    <3>1. tab[t] \in TabRecord /\ Len(openedWith) \in Nat
      BY Opened DEF Coherent
    <3>2. /\ tab[t].csrf <= Len(openedWith) /\ tab[t].token <= Len(openedWith)
          /\ tab[t].sent <= Len(openedWith)
      BY DEF Coherent, FineIn
    <3> QED BY <3>1, <3>2 DEF TabRecord
  <2> QED BY <2>1 DEF TypeOK, Coherent, AuthIsTyped, States, Bounded, Stages, Statuses
<1> HIDE DEF Flag
<1> QED BY <1>1, <1>2, <1>3, CoherentHolds, PTL DEF Spec
=============================================================================
