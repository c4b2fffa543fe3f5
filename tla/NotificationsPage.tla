-------------------------- MODULE NotificationsPage --------------------------
(***************************************************************************)
(* Notifications in one list, the feed of their page or the bell in the    *)
(* header of every page, and the counter of the header, while they arrive  *)
(* and are read elsewhere: in the other list too, and by the actions of    *)
(* pages that were left.  The counter is polled, and a poll may be in      *)
(* flight when the next one starts; the list has one action at a time and  *)
(* asks again when it ends.  Only the unread ones of its page are told     *)
(* apart.                                                                  *)
(***************************************************************************)
EXTENDS Naturals, FiniteSets, SequencesExt, Query

CONSTANTS
    MaxNotes,    \* bound: notifications that arrive
    MaxPolls     \* bound: polls of the counter in flight at once

NotesAssumption == MaxNotes \in Nat

Notes == 1 .. MaxNotes

VARIABLES
    inbox,       \* server: how many notifications arrived, and those read
    counters,    \* the counter of the header and its polls in flight
    list,        \* the query of the list
    act,         \* the action of the list in flight
    acked        \* what the list was told is read

notificationVars == <<inbox, counters, list, act, acked>>

(* The feed's key holds its filters, unread only and the page; the bell's   *)
(* holds the counter, and a closed bell asks for nothing.                   *)
FeedKeys == {<<FALSE, 1>>, <<TRUE, 1>>}
ClosedKey == <<>>
BellKeys == {<<n>> : n \in 0 .. MaxNotes}
Bell == [Load(ClosedKey) EXCEPT !.call = "none"]
Feed == Load(<<FALSE, 1>>)

isFeed == Len(list.key) = 2
isOpen == ~isFeed /\ list.key # ClosedKey

NoAct == [kind |-> "none", notes |-> {}, phase |-> "none"]

NotificationsTypeOK ==
    /\ inbox \in [arrived : 0 .. MaxNotes, read : SUBSET Notes]
    /\ counters \in [shown : 0 .. MaxNotes,
                     polls : BoundedSeq({Nothing} \union BellKeys, MaxPolls)]
    /\ \/ list \in Queries(FeedKeys, [unread : SUBSET Notes])
       \/ list \in Queries({ClosedKey} \union BellKeys, [unread : SUBSET Notes])
    /\ act \in {NoAct} \union [kind : {"read", "open", "all"}, notes : SUBSET Notes,
                               phase : {"asked", "ok"}]
    /\ acked \subseteq inbox.read

NotificationsInit ==
    /\ inbox = [arrived |-> 0, read |-> {}]
    /\ counters = [shown |-> 0, polls |-> <<Nothing>>]
    /\ list \in {Feed, Bell}
    /\ act = NoAct /\ acked = {}

-----------------------------------------------------------------------------
(* The server. *)
unreadNotifications == (1 .. inbox.arrived) \ inbox.read

Arrives ==
    /\ inbox.arrived < MaxNotes
    /\ inbox' = [inbox EXCEPT !.arrived = @ + 1]
    /\ UNCHANGED <<counters, list, act, acked>>

(* By another list or tab, or by opening the chat of a message. *)
ReadElsewhere == \E n \in unreadNotifications :
    /\ inbox' = [inbox EXCEPT !.read = @ \union {n}]
    /\ UNCHANGED <<counters, list, act, acked>>

(* One is marked, or all that have arrived by then. *)
ServeAct ==
    /\ act.phase = "asked"
    /\ LET marked == IF act.kind = "all" THEN 1 .. inbox.arrived ELSE act.notes
       IN  /\ inbox' = [inbox EXCEPT !.read = @ \union marked]
           /\ act' = [act EXCEPT !.phase = "ok", !.notes = marked]
    /\ UNCHANGED <<counters, list, acked>>

-----------------------------------------------------------------------------
(* usePolling asks for the counter now, at intervals and when the tab is    *)
(* shown again, whatever is in flight; answers come in any order.           *)
Poll ==
    /\ Len(counters.polls) < MaxPolls
    /\ counters' = [counters EXCEPT !.polls = Append(@, Nothing)]
    /\ UNCHANGED <<inbox, list, act, acked>>

ServePoll == \E i \in DOMAIN counters.polls :
    /\ counters.polls[i] = Nothing
    /\ counters' = [counters EXCEPT !.polls[i] = <<Cardinality(unreadNotifications)>>]
    /\ UNCHANGED <<inbox, list, act, acked>>

PollEnds == \E i \in DOMAIN counters.polls :
    LET left == RemoveAt(counters.polls, i)
        unreadCount == counters.polls[i]
    IN  /\ \/ /\ unreadCount # Nothing
              /\ counters' = [shown |-> unreadCount[1], polls |-> left]
              /\ list' = IF isOpen THEN Rekey(list, unreadCount) ELSE list
           \/ counters' = [counters EXCEPT !.polls = left] /\ UNCHANGED list
        /\ UNCHANGED <<inbox, act, acked>>

-----------------------------------------------------------------------------
ListAnswers ==
    /\ \/ Asked(list) /\ list' = Served(list, [unread |-> unreadNotifications])
       \/ Arriving(list) /\ list' = Taken(list)
       \/ InFlight(list) /\ list' = Failed(list)
       \/ (isFeed \/ isOpen) /\ Shows(list) = "error" /\ list' = Retry(list)
    /\ UNCHANGED <<inbox, counters, act, acked>>

CloseBell == [list EXCEPT !.key = ClosedKey, !.call = "none", !.answer = Nothing]

ToggleBell ==
    /\ ~isFeed
    /\ list' = IF isOpen THEN CloseBell ELSE Rekey(list, <<counters.shown>>)
    /\ UNCHANGED <<inbox, counters, act, acked>>

ShowFilter(key) ==
    /\ isFeed /\ key # list.key
    /\ list' = Rekey(list, key)
    /\ UNCHANGED <<inbox, counters, act, acked>>

-----------------------------------------------------------------------------
shown == IF Ready(list) THEN list.data.unread ELSE {}

unread ==
    IF isFeed \/ Ready(list) THEN Cardinality(shown) ELSE counters.shown

run(kind, notes) ==
    /\ act = NoAct /\ (isFeed \/ isOpen)
    /\ act' = [kind |-> kind, notes |-> notes, phase |-> "asked"]
    /\ UNCHANGED <<inbox, counters, acked>>

markRead(n) == n \in shown /\ run("read", {n}) /\ UNCHANGED list
markAll == unread > 0 /\ run("all", {}) /\ UNCHANGED list

open(n) ==
    /\ n \in shown /\ run("open", {n})
    /\ list' = IF isOpen THEN CloseBell ELSE list

(* Another page, and for the feed this one again: everything mounts anew.   *)
(* The action of the page that was left is then one of ReadElsewhere, and   *)
(* when it opened a notification one more Visit.                            *)
Visit ==
    /\ list' = IF isFeed THEN Feed ELSE Bell
    /\ counters' = [shown |-> 0, polls |-> <<Nothing>>]
    /\ act' = NoAct
    /\ UNCHANGED <<inbox, acked>>

(* Mutant: the list is not asked for again. *)
onlyCounter ==
    /\ counters' = [counters EXCEPT !.polls = <<Nothing>>]
    /\ UNCHANGED list

(* Answered or not, the action's end asks for the counter and moves the     *)
(* version in the list's key; an opened notification leads to its page      *)
(* whatever came of its mark.                                               *)
onChanged ==
    /\ counters' = [counters EXCEPT !.polls = <<Nothing>>]
    /\ list' = IF isFeed \/ isOpen THEN Load(list.key) ELSE Bell

ActEnds(answered) ==
    /\ act.kind \in {"read", "all"}
    /\ act' = NoAct
    /\ acked' = IF answered THEN acked \union act.notes ELSE acked
    /\ answered => act.phase = "ok"
    /\ onChanged
    /\ UNCHANGED inbox

OpenEnds == act.kind = "open" /\ Visit

NotificationsNext ==
    \/ Arrives \/ ReadElsewhere \/ ServeAct
    \/ Poll \/ ServePoll \/ PollEnds
    \/ ListAnswers \/ ToggleBell \/ markAll \/ Visit \/ OpenEnds
    \/ \E key \in FeedKeys : ShowFilter(key)
    \/ \E n \in Notes : markRead(n) \/ open(n)
    \/ \E answered \in BOOLEAN : ActEnds(answered)

-----------------------------------------------------------------------------
(* A notification that a list was told is read is not offered as unread by *)
(* that list again, although its older answers are still in flight.        *)
MarkedIsRead == shown \intersect acked = {}
=============================================================================
