----------------------------- MODULE MCAccount ------------------------------
(***************************************************************************)
(* What the account pages owe the student, in one or two tabs.             *)
(***************************************************************************)
EXTENDS Account, TLC

TypeOK ==
    /\ account \in {"none", "active", "suspended", "deleted"} /\ verified \in BOOLEAN
    /\ password \in Passwords
    /\ openedWith \in Seq(Passwords) /\ live \subseteq 1 .. Len(openedWith)
    /\ Len(openedWith) <= MaxSessions
    /\ {vlink, vsent, rlink, rsent} \subseteq Links
    /\ cookie \in 0 .. Len(openedWith)
    /\ \A t \in Tabs :
        /\ tab[t].page \in Pages /\ tab[t].call \in Calls /\ tab[t].answer \in Answers
        /\ tab[t].at \in {"idle", "asked", "checked", "answered", "refreshing", "refreshed"}
        /\ tab[t].status \in {"form", "loading", "ready", "login", "error", "waiting",
                              "verified", "invalid"}
        /\ {tab[t].csrf, tab[t].token, tab[t].sent} \subseteq 0 .. Len(openedWith)
    /\ troubles \in 0 .. MaxTroubles

(* AuthApi.ts, writeRequest: the call is repeated after a refused token, yet *)
(* what the student submitted once is never carried out twice.               *)
WriteOnce == \A t \in Tabs : tab[t].done <= 1

(* SPRINT2.md, "Retry preserves the successful result": a page whose link    *)
(* confirmed the email never calls that link invalid, however often it loads *)
(* again.                                                                    *)
SuccessIsKept ==
    [][\A t \in Tabs :
          tab[t].page = "verify" /\ tab[t].confirmed =>
              ~tab'[t].invalid /\ tab'[t].status # "invalid"]_vars

(* AppShell and EmailVerification, logout: the page of a student who signed  *)
(* out becomes the sign-in page only once the session it called with is over. *)
SignedOutIsOut ==
    [][\A t \in Tabs :
          tab[t].call = "logout" /\ tab'[t].page = "login" =>
              tab[t].sent \notin live' \/ account' # "active"]_vars

(* ResetPasswordForm tells the student that all previous sessions are ended: *)
(* then none that was opened with the first password is left.                *)
ResetEndsSessions ==
    (\E t \in Tabs : tab[t].page = "resetDone") => \A s \in live : openedWith[s] > 0

MCTabs == Permutations(Tabs)
=============================================================================
