------------------------------ MODULE Account -------------------------------
(***************************************************************************)
(* The account pages of the web client in the tabs of one browser, and the *)
(* authentication service they call: registration, sign-in, recovery,      *)
(* verification, the gate of every signed-in page, sign-out, the writes of *)
(* a page with their CSRF token, the password and the deletion.            *)
(*                                                                         *)
(* The tabs share the cookie.  A request carries the cookie of the moment  *)
(* it is sent; the server handles it later and the tab its answer later    *)
(* still.  A tab has one request in flight, as the forms' "submitting"     *)
(* reference has it.  A CSRF token is the session it was derived from.     *)
(***************************************************************************)
EXTENDS Naturals, Sequences, FiniteSets

CONSTANTS
    Tabs,
    MaxSessions,    \* bound: sessions opened
    MaxPassword,    \* bound: times the password is replaced
    MaxLinks,       \* bound: links mailed, of each purpose
    MaxTroubles     \* bound: answers that do not come, and suspensions

ASSUME AccountAssumption ==
    {MaxSessions, MaxPassword, MaxLinks, MaxTroubles} \subseteq Nat

VARIABLES
    account,    \* "none", "active", "suspended" or "deleted"
    verified,   \* the email of the account
    password,   \* the number of the current password
    live,       \* the sessions not revoked
    openedWith, \* the password each session was opened with, in order
    vlink, vsent,   \* the unused verification link, the links mailed
    rlink, rsent,   \* the same for password resets
    cookie,     \* the browser's session, 0 for none
    tab,
    troubles

auth == <<account, verified, password, live, openedWith>>
links == <<vlink, vsent, rlink, rsent>>
vars == <<auth, links, cookie, tab, troubles>>

Sessions == 1 .. MaxSessions
Passwords == 0 .. MaxPassword
Links == 0 .. MaxLinks

(* Both modes of LoginForm are "login".  A "notice" only tells what          *)
(* happened: the account is registered, the mail is sent, the reset link is  *)
(* invalid.                                                                  *)
Pages == {"login", "register", "reset", "resetDone", "notice", "verify", "app"}
Writes == {"write", "password", "delete"}
Calls == Writes \union {"none", "login", "profile", "register", "forgot", "reset",
                        "confirm", "me", "resendMe", "resend", "logoutMe", "logout"}
Answers == {"none", "ok", "unverified", "unauthorized", "csrf", "refused", "invalid",
            "already"}

(* A page just opened.  csrf is the token it loaded, token the one the call  *)
(* in flight uses, sent the cookie that call carries.                        *)
Fresh(page) ==
    [page |-> page, status |-> IF page \in {"register", "verify", "app"} THEN "loading" ELSE "form",
     call |-> "none", at |-> "idle", answer |-> "none",
     csrf |-> 0, token |-> 0, sent |-> 0, link |-> 0, typed |-> 0,
     confirmed |-> FALSE, invalid |-> FALSE, again |-> FALSE, done |-> 0]

Init ==
    /\ account = "none" /\ verified = FALSE /\ password = 0
    /\ live = {} /\ openedWith = <<>>
    /\ vlink = 0 /\ vsent = 0 /\ rlink = 0 /\ rsent = 0
    /\ cookie = 0
    /\ tab = [t \in Tabs |-> Fresh("login")]
    /\ troubles = 0

-----------------------------------------------------------------------------
(* A call of a tab. *)

Asking(r, call, token) ==
    [r EXCEPT !.call = call, !.at = "asked", !.answer = "none",
              !.token = token, !.sent = cookie]
Ask(t, call, token) == tab' = [tab EXCEPT ![t] = Asking(@, call, token)]
Answered(t, answer) ==
    tab' = [tab EXCEPT ![t].at = "answered", ![t].answer = answer]
Show(t, r) == tab' = [tab EXCEPT ![t] = r]
Idle(r, status) ==
    [r EXCEPT !.call = "none", !.at = "idle", !.answer = "none", !.token = 0, !.sent = 0,
              !.typed = 0, !.again = FALSE, !.done = 0, !.status = status]

Asked(t, calls) == tab[t].call \in calls /\ tab[t].at = "asked"
Got(t, calls, answers) ==
    tab[t].call \in calls /\ tab[t].at = "answered" /\ tab[t].answer \in answers
Ready(t, page) == tab[t].page = page /\ tab[t].at = "idle"

(* The browser takes the cookie out when the answer says so: of a session    *)
(* that was refused, and of every sign-out, reset and deletion, whichever    *)
(* session the browser holds by then.                                        *)
ClearsCookie(r) ==
    \/ r.answer = "unauthorized" /\ r.sent # 0
    \/ r.answer = "ok" /\ r.call \in {"logout", "reset", "delete"}
Received(t) ==
    /\ cookie' = IF ClearsCookie(tab[t]) THEN 0 ELSE cookie
    /\ UNCHANGED <<auth, links, troubles>>

(* The session middleware: who calls, and with whose token. *)
Authenticated(t) == tab[t].sent \in live /\ account = "active"
Refusal(t) ==
    IF ~Authenticated(t) THEN "unauthorized"
    ELSE IF tab[t].token # tab[t].sent THEN "csrf" ELSE "ok"

-----------------------------------------------------------------------------
(* The server's handlers. *)

(* A new link replaces the unused one; its mail may fail to be sent. *)
SendVerification ==
    \/ /\ vsent < MaxLinks
       /\ vlink' = vsent + 1 /\ vsent' = vsent + 1
       /\ UNCHANGED troubles
    \/ /\ troubles < MaxTroubles
       /\ troubles' = troubles + 1
       /\ vlink' = 0 /\ UNCHANGED vsent

Register(t) ==
    /\ Asked(t, {"register"})
    /\ IF account = "none"
       THEN account' = "active" /\ SendVerification /\ Answered(t, "ok")
       ELSE UNCHANGED <<account, vlink, vsent, troubles>> /\ Answered(t, "refused")
    /\ UNCHANGED <<verified, password, live, openedWith, rlink, rsent, cookie>>

(* Login and the password routes check the password first ... *)
CheckPassword(t) ==
    /\ Asked(t, {"login", "password", "delete"})
    /\ LET refusal == IF tab[t].call = "login" THEN "ok" ELSE Refusal(t)
       IN  CASE refusal # "ok" -> Answered(t, refusal)
             [] refusal = "ok" /\ account = "active" /\ tab[t].typed = password ->
                    tab' = [tab EXCEPT ![t].at = "checked",
                                       ![t].answer = IF verified THEN "ok" ELSE "unverified"]
             [] OTHER -> Answered(t, "refused")
    /\ UNCHANGED <<auth, links, cookie, troubles>>

(* Mutant: the cookie is set although the session's row was not stored. *)
LoginWithoutSession(t) ==
    /\ tab[t].call = "login" /\ tab[t].at = "checked"
    /\ tab' = [tab EXCEPT ![t].at = "answered", ![t].token = Len(openedWith) + 1]
    /\ UNCHANGED <<auth, links, cookie, troubles>>

(* ... and open the session, or write, in a transaction of their own. *)
Login(t) ==
    /\ tab[t].call = "login" /\ tab[t].at = "checked"
    /\ Len(openedWith) < MaxSessions
    /\ openedWith' = Append(openedWith, tab[t].typed)
    /\ live' = (live \ {tab[t].sent}) \union {Len(openedWith')}
    /\ tab' = [tab EXCEPT ![t].at = "answered", ![t].token = Len(openedWith')]
    /\ UNCHANGED <<account, verified, password, links, cookie, troubles>>

ChangePassword(t) ==
    /\ tab[t].call = "password" /\ tab[t].at = "checked"
    /\ password < MaxPassword
    /\ password' = IF account = "deleted" THEN password ELSE password + 1
    /\ live' = live \intersect {tab[t].sent}
    /\ tab' = [tab EXCEPT ![t].at = "answered", ![t].answer = "ok", ![t].done = @ + 1]
    /\ UNCHANGED <<account, verified, openedWith, links, cookie, troubles>>

DeleteAccount(t) ==
    /\ tab[t].call = "delete" /\ tab[t].at = "checked"
    /\ IF account = "deleted"
       THEN UNCHANGED <<auth, vlink, rlink>> /\ Answered(t, "refused")
       ELSE /\ account' = "deleted" /\ verified' = FALSE
            /\ live' = {} /\ vlink' = 0 /\ rlink' = 0
            /\ tab' = [tab EXCEPT ![t].at = "answered", ![t].answer = "ok",
                                  ![t].done = @ + 1]
            /\ UNCHANGED <<password, openedWith>>
    /\ UNCHANGED <<vsent, rsent, cookie, troubles>>

(* Mutant: the token is checked after the write. *)
WriteBeforeToken(t) ==
    /\ Asked(t, {"write"})
    /\ tab' = [tab EXCEPT ![t].at = "answered", ![t].answer = Refusal(t),
                          ![t].done = IF Authenticated(t) THEN @ + 1 ELSE @]
    /\ UNCHANGED <<auth, links, cookie, troubles>>

Write(t) ==
    /\ Asked(t, {"write"})
    /\ tab' = [tab EXCEPT ![t].at = "answered", ![t].answer = Refusal(t),
                          ![t].done = IF Refusal(t) = "ok" THEN @ + 1 ELSE @]
    /\ UNCHANGED <<auth, links, cookie, troubles>>

Me(t) ==
    /\ \/ Asked(t, {"me", "resendMe", "logoutMe"})
       \/ tab[t].call \in Writes /\ tab[t].at = "refreshing"
    /\ tab' = [tab EXCEPT
            ![t].at = IF @ = "refreshing" THEN "refreshed" ELSE "answered",
            ![t].token = IF Authenticated(t) THEN tab[t].sent ELSE 0,
            ![t].answer = IF ~Authenticated(t) THEN "unauthorized"
                          ELSE IF verified THEN "ok" ELSE "unverified"]
    /\ UNCHANGED <<auth, links, cookie, troubles>>

GetProfile(t) ==
    /\ Asked(t, {"profile"})
    /\ Answered(t, IF Authenticated(t) THEN "ok" ELSE "unauthorized")
    /\ UNCHANGED <<auth, links, cookie, troubles>>

(* The answer is the same whether the account exists and the mail goes out.  *)
ForgotPassword(t) ==
    /\ Asked(t, {"forgot"})
    /\ \/ account # "active" /\ UNCHANGED <<rlink, rsent, troubles>>
       \/ /\ account = "active" /\ rsent < MaxLinks
          /\ rlink' = rsent + 1 /\ rsent' = rsent + 1 /\ UNCHANGED troubles
       \/ /\ account = "active" /\ troubles < MaxTroubles
          /\ rlink' = 0 /\ troubles' = troubles + 1 /\ UNCHANGED rsent
    /\ Answered(t, "ok")
    /\ UNCHANGED <<auth, vlink, vsent, cookie>>

ResetPassword(t) ==
    /\ Asked(t, {"reset"})
    /\ IF tab[t].link = rlink /\ password < MaxPassword
       THEN /\ rlink' = 0
            /\ password' = password + 1
            /\ live' = {}
            /\ Answered(t, "ok")
       ELSE Answered(t, "invalid") /\ UNCHANGED <<rlink, password, live>>
    /\ UNCHANGED <<account, verified, openedWith, vlink, vsent, rsent, cookie, troubles>>

VerifyEmail(t) ==
    /\ Asked(t, {"confirm"})
    /\ IF tab[t].link = vlink
       THEN verified' = TRUE /\ vlink' = 0 /\ Answered(t, "ok")
       ELSE Answered(t, "invalid") /\ UNCHANGED <<verified, vlink>>
    /\ UNCHANGED <<account, password, live, openedWith, vsent, rlink, rsent, cookie,
                   troubles>>

ResendVerification(t) ==
    /\ Asked(t, {"resend"})
    /\ \/ /\ Refusal(t) = "ok" /\ ~verified
          /\ SendVerification
          /\ Answered(t, IF vlink' = 0 THEN "refused" ELSE "ok")
       \/ /\ Refusal(t) # "ok" \/ verified
          /\ Answered(t, IF Refusal(t) # "ok" THEN Refusal(t) ELSE "already")
          /\ UNCHANGED <<vlink, vsent, troubles>>
    /\ UNCHANGED <<auth, rlink, rsent, cookie>>

Logout(t) ==
    /\ Asked(t, {"logout"})
    /\ live' = IF Refusal(t) = "ok" THEN live \ {tab[t].sent} ELSE live
    /\ Answered(t, Refusal(t))
    /\ UNCHANGED <<account, verified, password, openedWith, links, cookie, troubles>>

(* An administrator suspends the account. *)
Suspend ==
    /\ account = "active" /\ troubles < MaxTroubles
    /\ troubles' = troubles + 1
    /\ account' = "suspended" /\ live' = {}
    /\ UNCHANGED <<verified, password, openedWith, links, cookie, tab>>

-----------------------------------------------------------------------------
(* LoginForm, RegistrationForm, ResetPasswordForm: what the student submits  *)
(* and what the form does with the answer.                                   *)

handleLogin(t) ==
    /\ Ready(t, "login")
    /\ \E p \in 0 .. password :
           tab' = [tab EXCEPT ![t] = [Asking(@, "login", 0) EXCEPT !.typed = p]]
    /\ UNCHANGED <<auth, links, cookie, troubles>>

(* The answer sets the cookie; an unverified account goes to its page. *)
LoggedIn(t) ==
    /\ Got(t, {"login"}, {"ok", "unverified"})
    /\ cookie' = tab[t].token
    /\ Show(t, IF tab[t].answer = "unverified" THEN Fresh("verify")
               ELSE [Asking(tab[t], "profile", 0) EXCEPT !.sent = cookie'])
    /\ UNCHANGED <<auth, links, troubles>>

LoginDestination(t) ==
    /\ tab[t].page = "login" /\ Got(t, {"profile"}, {"ok"})
    /\ Show(t, Fresh("app"))
    /\ Received(t)

(* RegistrationForm's list of universities: nobody can submit without it.    *)
loadUniversities(t) ==
    /\ Ready(t, "register") /\ tab[t].status = "loading"
    /\ Show(t, Idle(tab[t], "form"))
    /\ UNCHANGED <<auth, links, cookie, troubles>>

retryUniversities(t) ==
    /\ Ready(t, "register") /\ tab[t].status = "error"
    /\ Show(t, Idle(tab[t], "loading"))
    /\ UNCHANGED <<auth, links, cookie, troubles>>

handleRegister(t) ==
    /\ Ready(t, "register") /\ tab[t].status = "form"
    /\ Ask(t, "register", 0)
    /\ UNCHANGED <<auth, links, cookie, troubles>>

handleRecovery(t) ==
    /\ Ready(t, "login")
    /\ Ask(t, "forgot", 0)
    /\ UNCHANGED <<auth, links, cookie, troubles>>

handleReset(t) ==
    /\ Ready(t, "reset")
    /\ Ask(t, "reset", 0)
    /\ UNCHANGED <<auth, links, cookie, troubles>>

FormDone(t) ==
    /\ \/ Got(t, {"register", "forgot"}, {"ok"}) /\ Show(t, Fresh("notice"))
       \/ Got(t, {"reset"}, {"ok"}) /\ Show(t, Fresh("resetDone"))
       \/ Got(t, {"reset"}, {"invalid"}) /\ Show(t, Fresh("notice"))
       \/ /\ Got(t, {"login", "register", "profile"}, {"refused", "unauthorized"})
          /\ tab[t].page \in {"login", "register"}
          /\ Show(t, Idle(tab[t], "form"))
    /\ Received(t)

(* Following a link of a page, or one mailed. *)
Visit(t) ==
    /\ tab[t].at = "idle" /\ tab[t].status # "loading"
    /\ \/ \E p \in {"login", "register", "app"} \ {tab[t].page} :
              Show(t, Fresh(p))
       \/ \E l \in 1 .. rsent : Show(t, [Fresh("reset") EXCEPT !.link = l])
       \/ \E l \in 1 .. vsent : Show(t, [Fresh("verify") EXCEPT !.link = l])
    /\ UNCHANGED <<auth, links, cookie, troubles>>

-----------------------------------------------------------------------------
(* EmailVerification. *)

(* Mutant: a page that loads again uses its link again. *)
ConfirmAgain(r) == r.link # 0 /\ ~r.invalid

(* The link is used once per page: not again once it worked or was refused. *)
MustConfirm(r) == r.link # 0 /\ ~r.confirmed /\ ~r.invalid

LoadVerification(t) ==
    /\ Ready(t, "verify") /\ tab[t].status = "loading"
    /\ Ask(t, IF MustConfirm(tab[t]) THEN "confirm" ELSE "me", 0)
    /\ UNCHANGED <<auth, links, cookie, troubles>>

Confirmed(t) ==
    /\ Got(t, {"confirm"}, {"ok", "invalid"})
    /\ Show(t, Asking([tab[t] EXCEPT !.confirmed = tab[t].answer = "ok",
                                     !.invalid = tab[t].answer = "invalid"], "me", 0))
    /\ Received(t)

VerificationLoaded(t) ==
    /\ tab[t].page = "verify"
    /\ \/ Got(t, {"me"}, {"ok"}) /\ Show(t, Fresh("app"))
       \/ /\ Got(t, {"me"}, {"unverified"})
          /\ Show(t, [Idle(tab[t], IF tab[t].invalid THEN "invalid" ELSE "waiting")
                         EXCEPT !.csrf = tab[t].token])
       \/ /\ Got(t, {"me"}, {"unauthorized"})
          /\ Show(t, [Idle(tab[t], IF tab[t].confirmed THEN "verified"
                                   ELSE IF tab[t].invalid THEN "invalid" ELSE "login")
                         EXCEPT !.csrf = 0])
    /\ Received(t)

checkVerification(t) ==
    /\ Ready(t, "verify")
    /\ \/ tab[t].status = "error"
       \/ tab[t].status \in {"waiting", "invalid"} /\ tab[t].csrf # 0
    /\ Show(t, Idle(tab[t], "loading"))
    /\ UNCHANGED <<auth, links, cookie, troubles>>

(* Both buttons read the session first, for its CSRF token of the moment. *)
resendOrLogout(t) ==
    /\ Ready(t, "verify") /\ tab[t].csrf # 0
    /\ \/ tab[t].status \in {"waiting", "invalid"} /\ Ask(t, "resendMe", 0)
       \/ tab[t].status \notin {"loading", "error"} /\ Ask(t, "logoutMe", 0)
    /\ UNCHANGED <<auth, links, cookie, troubles>>

resendGoesOn(t) ==
    /\ \/ /\ Got(t, {"resendMe"}, {"unverified"})
          /\ Show(t, Asking([tab[t] EXCEPT !.csrf = tab[t].token], "resend", tab[t].token))
       \/ Got(t, {"resendMe"}, {"ok"}) /\ Show(t, Fresh("app"))
       \/ Got(t, {"resend"}, {"ok"}) /\ Show(t, Idle(tab[t], "waiting"))
       \/ Got(t, {"resend"}, {"already"}) /\ Show(t, Idle(tab[t], "loading"))
       \/ /\ Got(t, {"resendMe", "resend"}, {"unauthorized"})
          /\ Show(t, [Idle(tab[t], "login") EXCEPT !.csrf = 0])
       \/ Got(t, {"resend"}, {"csrf", "refused"}) /\ Show(t, Idle(tab[t], tab[t].status))
    /\ Received(t)

(* Mutant: any answer to a sign-out leads to the sign-in page. *)
logoutWhateverAnswered(t) ==
    /\ \/ /\ Got(t, {"logoutMe"}, {"ok", "unverified"})
          /\ Show(t, Asking(tab[t], "logout", tab[t].token))
       \/ Got(t, {"logoutMe"}, {"unauthorized"}) /\ Show(t, Fresh("login"))
       \/ Got(t, {"logout"}, {"ok", "unauthorized", "csrf"}) /\ Show(t, Fresh("login"))
    /\ Received(t)

logoutGoesOn(t) ==
    /\ \/ /\ Got(t, {"logoutMe"}, {"ok", "unverified"})
          /\ Show(t, Asking(tab[t], "logout", tab[t].token))
       \/ Got(t, {"logoutMe", "logout"}, {"unauthorized"}) /\ Show(t, Fresh("login"))
       \/ Got(t, {"logout"}, {"ok"}) /\ Show(t, Fresh("login"))
       \/ Got(t, {"logout"}, {"csrf"}) /\ Show(t, Idle(tab[t], tab[t].status))
    /\ Received(t)

-----------------------------------------------------------------------------
(* AppGate and useProfile: the session, then the profile. *)

LoadProfile(t) ==
    /\ Ready(t, "app") /\ tab[t].status = "loading"
    /\ Ask(t, "me", 0)
    /\ UNCHANGED <<auth, links, cookie, troubles>>

ProfileLoaded(t) ==
    /\ tab[t].page = "app"
    /\ \/ Got(t, {"me"}, {"unverified"}) /\ Show(t, Fresh("verify"))
       \/ /\ Got(t, {"me"}, {"ok"})
          /\ Show(t, Asking([tab[t] EXCEPT !.csrf = tab[t].token], "profile", 0))
       \/ Got(t, {"profile"}, {"ok"}) /\ Show(t, Idle(tab[t], "ready"))
       \/ /\ Got(t, {"me", "profile"}, {"unauthorized"})
          /\ Show(t, Idle(tab[t], "login"))
    /\ Received(t)

retryProfile(t) ==
    /\ Ready(t, "app") /\ tab[t].status = "error"
    /\ Show(t, Fresh("app"))
    /\ UNCHANGED <<auth, links, cookie, troubles>>

(* AppShell: sign out with the page's token. *)
logout(t) ==
    /\ Ready(t, "app") /\ tab[t].status = "ready"
    /\ Ask(t, "logout", tab[t].csrf)
    /\ UNCHANGED <<auth, links, cookie, troubles>>

-----------------------------------------------------------------------------
(* writeRequest: any write of a page, the password and the deletion. *)

writeRequest(t) ==
    /\ Ready(t, "app") /\ tab[t].status = "ready"
    /\ \E w \in Writes, p \in 0 .. password :
           /\ w = "write" => p = 0
           /\ Show(t, [Asking(tab[t], w, tab[t].csrf)
                          EXCEPT !.typed = p, !.again = FALSE, !.done = 0])
    /\ UNCHANGED <<auth, links, cookie, troubles>>

(* A stale token is refreshed and the call retried once. *)
RefreshToken(t) ==
    /\ Got(t, Writes, {"csrf"}) /\ ~tab[t].again
    /\ tab' = [tab EXCEPT ![t].at = "refreshing", ![t].sent = cookie]
    /\ UNCHANGED <<auth, links, cookie, troubles>>

RetryWrite(t) ==
    /\ tab[t].at = "refreshed"
    /\ Show(t, IF tab[t].answer = "unauthorized" THEN Idle(tab[t], "ready")
               ELSE [Asking(tab[t], tab[t].call, tab[t].token) EXCEPT !.again = TRUE])
    /\ Received(t)

Written(t) ==
    /\ \/ Got(t, Writes, {"ok", "unauthorized", "refused"})
       \/ Got(t, Writes, {"csrf"}) /\ tab[t].again
    /\ Show(t, IF tab[t].call = "delete" /\ tab[t].answer = "ok" THEN Fresh("login")
               ELSE Idle(tab[t], "ready"))
    /\ Received(t)

-----------------------------------------------------------------------------
(* No answer within 15 seconds, before or after the server handled the call. *)
NoAnswer(t) ==
    /\ tab[t].at # "idle" \/ tab[t].status = "loading"
    /\ troubles < MaxTroubles
    /\ troubles' = troubles + 1
    /\ Show(t, Idle(tab[t], IF tab[t].status = "loading" THEN "error" ELSE tab[t].status))
    /\ UNCHANGED <<auth, links, cookie>>

Serve(t) ==
    \/ Register(t) \/ CheckPassword(t) \/ Login(t) \/ ChangePassword(t)
    \/ DeleteAccount(t) \/ Write(t) \/ Me(t) \/ GetProfile(t) \/ ForgotPassword(t)
    \/ ResetPassword(t) \/ VerifyEmail(t) \/ ResendVerification(t) \/ Logout(t)

GoOn(t) ==
    \/ LoggedIn(t) \/ LoginDestination(t) \/ FormDone(t) \/ loadUniversities(t)
    \/ LoadVerification(t) \/ Confirmed(t) \/ VerificationLoaded(t)
    \/ resendGoesOn(t) \/ logoutGoesOn(t) \/ LoadProfile(t) \/ ProfileLoaded(t)
    \/ RefreshToken(t) \/ RetryWrite(t) \/ Written(t)

Student(t) ==
    \/ handleLogin(t) \/ retryUniversities(t) \/ handleRegister(t) \/ handleRecovery(t) \/ handleReset(t)
    \/ Visit(t) \/ checkVerification(t) \/ resendOrLogout(t) \/ retryProfile(t)
    \/ logout(t) \/ writeRequest(t)

Next ==
    \/ \E t \in Tabs : Serve(t) \/ GoOn(t) \/ Student(t) \/ NoAnswer(t)
    \/ Suspend

Spec == Init /\ [][Next]_vars
=============================================================================
