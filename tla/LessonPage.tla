----------------------------- MODULE LessonPage -----------------------------
(***************************************************************************)
(* The page of one lesson: planning it, answering a proposed time,         *)
(* cancelling it and confirming that it took place, while the partner acts *)
(* on the same lesson.  Only one of these is in flight at a time: dialogs  *)
(* are modal and the other buttons are disabled or gone.                   *)
(***************************************************************************)
EXTENDS Naturals, Query

CONSTANT MaxRev     \* bound: the changes of the lesson after its draft

RevAssumption == MaxRev \in Nat

VARIABLES
    lesson,     \* server: the lesson, its exchange and how often it changed
    details,    \* the page's query of the lesson
    exchange,   \* the page's query of the exchange, unkeyed without a lesson
    form,       \* the open dialog: "none", "planning" or "cancelling"
    write,      \* the request in flight
    learnt      \* the changes made up to the last success the page announced

lessonVars == <<lesson, details, exchange, form, write, learnt>>

(* number counts the proposals; by is the author of the pending one.        *)
LessonRows ==
    [status : {"DRAFT", "PROPOSED", "SCHEDULED", "COMPLETED", "CANCELLED"},
     number : 0 .. MaxRev, by : {"none", "me", "partner"},
     done : SUBSET {"me", "partner"}, ended : BOOLEAN, active : BOOLEAN,
     rev : 0 .. MaxRev]

NoWrite == [kind |-> "none"]
Kinds == {"accept", "decline", "propose", "cancel", "confirm"}
Writes == [kind : Kinds, seen : 0 .. MaxRev, got : 0 .. MaxRev, rev : 0 .. MaxRev,
           phase : {"check", "checked", "asked", "ok", "refused"}]

LessonTypeOK ==
    /\ lesson \in LessonRows
    /\ details \in Queries({"lesson"}, LessonRows)
    /\ exchange \in Queries({"none", "exchange"}, [active : BOOLEAN])
    /\ form \in {"none", "planning", "cancelling"}
    /\ write \in Writes \union {NoWrite}
    /\ learnt \in 0 .. MaxRev

NoExchange == [Load("none") EXCEPT !.call = "none"]

LessonInit ==
    /\ lesson = [status |-> "DRAFT", number |-> 0, by |-> "none", done |-> {},
                 ended |-> FALSE, active |-> TRUE, rev |-> 0]
    /\ details = Load("lesson")
    /\ exchange = NoExchange
    /\ form = "none" /\ write = NoWrite /\ learnt = 0

-----------------------------------------------------------------------------
(* The server.  The flags of a lesson as it shows them to the student.      *)
canRespondToProposal(l) == l.status = "PROPOSED" /\ l.active /\ l.by = "partner"
canCancel(l) == l.status \in {"PROPOSED", "SCHEDULED"} /\ l.active
canConfirmCompletion(l, u) ==
    l.status = "SCHEDULED" /\ l.active /\ l.ended /\ u \notin l.done

(* What u may do to the lesson now, and the lesson after it.  The server    *)
(* answers whichever proposal is pending: the request does not name one.    *)
Allowed(l, u, kind) ==
    CASE kind = "accept" ->
            l.status = "PROPOSED" /\ l.active /\ l.by # u /\ ~l.ended
      [] kind = "decline" -> l.status = "PROPOSED" /\ l.active /\ l.by # u
      [] kind = "propose" -> l.status \in {"DRAFT", "PROPOSED", "SCHEDULED"} /\ l.active
      [] kind = "cancel" -> canCancel(l)
      [] kind = "confirm" -> canConfirmCompletion(l, u)

After(l, u, kind) ==
    LET n == [l EXCEPT !.rev = @ + 1]
    IN  CASE kind = "accept" -> [n EXCEPT !.status = "SCHEDULED", !.by = "none"]
          [] kind = "decline" ->
                [n EXCEPT !.status = "DRAFT", !.by = "none", !.ended = FALSE]
          [] kind = "propose" ->
                [n EXCEPT !.status = "PROPOSED", !.by = u, !.number = @ + 1,
                          !.done = {}, !.ended = FALSE]
          [] kind = "cancel" -> [n EXCEPT !.status = "CANCELLED", !.by = "none"]
          [] kind = "confirm" ->
                [n EXCEPT !.done = @ \union {u},
                          !.status = IF l.done \union {u} = {"me", "partner"}
                                     THEN "COMPLETED" ELSE @]

PartnerActs(kind) ==
    /\ lesson.rev < MaxRev /\ Allowed(lesson, "partner", kind)
    /\ lesson' = After(lesson, "partner", kind)
    /\ UNCHANGED <<details, exchange, form, write, learnt>>

LessonEnds ==
    /\ lesson.status \in {"PROPOSED", "SCHEDULED"} /\ ~lesson.ended
    /\ lesson' = [lesson EXCEPT !.ended = TRUE]
    /\ UNCHANGED <<details, exchange, form, write, learnt>>

ExchangeEnds ==
    /\ lesson.active /\ lesson.rev < MaxRev
    /\ lesson' = [lesson EXCEPT !.active = FALSE, !.rev = @ + 1]
    /\ UNCHANGED <<details, exchange, form, write, learnt>>

-----------------------------------------------------------------------------
(* The page.  Without a lesson the exchange has no key; with one it is      *)
(* asked for again, and what was held of it shows meanwhile.                *)
Follow(d) ==
    IF Ready(d) = Ready(details) THEN exchange
    ELSE IF Ready(d) THEN Rekey(exchange, "exchange")
    ELSE [exchange EXCEPT !.key = "none", !.call = "none", !.answer = Nothing]

ShowDetails(d) == details' = d /\ exchange' = Follow(d)

(* A confirmation retries the exchange as well: nothing is held of it.      *)
Reload ==
    /\ details' = Retry(details)
    /\ exchange' = IF write.kind = "confirm" THEN NoExchange ELSE Follow(Retry(details))

shownLesson == details.data
active == Ready(exchange) /\ exchange.data.active

AnswerDetails ==
    /\ Asked(details)
    /\ details' = Served(details, lesson)
    /\ UNCHANGED <<lesson, exchange, form, write, learnt>>

TakeDetails ==
    /\ \/ Arriving(details) /\ ShowDetails(Taken(details))
       \/ InFlight(details) /\ ShowDetails(Failed(details))
    /\ UNCHANGED <<lesson, form, write, learnt>>

ExchangeAnswers ==
    /\ exchange' \in
         (IF Asked(exchange) THEN {Served(exchange, [active |-> lesson.active])} ELSE {})
         \union (IF Arriving(exchange) THEN {Taken(exchange)} ELSE {})
         \union (IF InFlight(exchange) THEN {Failed(exchange)} ELSE {})
         \union (IF Shows(exchange) = "error" /\ exchange.key # "none"
                 THEN {Retry(exchange)} ELSE {})
    /\ UNCHANGED <<lesson, details, form, write, learnt>>

(* The update button, and the retry beside an error.                        *)
Refresh ==
    /\ Shows(details) = "error" \/ (Ready(details) /\ write = NoWrite /\ form = "none")
    /\ ShowDetails(Retry(details))
    /\ UNCHANGED <<lesson, form, write, learnt>>

OpenForm(f) ==
    /\ Ready(details) /\ form = "none" /\ write = NoWrite
    /\ \/ f = "planning" /\ shownLesson.status = "DRAFT" /\ active
       \/ canCancel(shownLesson)
    /\ form' = f
    /\ UNCHANGED <<lesson, details, exchange, write, learnt>>

CloseForm ==
    /\ form # "none" /\ write = NoWrite
    /\ form' = "none"
    /\ UNCHANGED <<lesson, details, exchange, write, learnt>>

Send(kind, phase) ==
    /\ write = NoWrite /\ Ready(details)
    /\ write' = [kind |-> kind, seen |-> shownLesson.number, got |-> 0, rev |-> 0,
                 phase |-> phase]
    /\ UNCHANGED <<lesson, details, exchange, form, learnt>>

proposeSession == form = "planning" /\ Send("propose", "asked")
cancelSession == form = "cancelling" /\ Send("cancel", "asked")

confirmLesson ==
    /\ form = "none" /\ Ready(details) /\ canConfirmCompletion(shownLesson, "me")
    /\ Send("confirm", "asked")

(* decide: read the lesson again first, then answer it.                     *)
decide(kind) ==
    /\ form = "none" /\ Ready(details) /\ canRespondToProposal(shownLesson)
    /\ Send(kind, "check")

ServeCheck ==
    /\ write # NoWrite /\ write.phase = "check"
    /\ write' = [write EXCEPT !.phase = "checked",
                     !.got = IF canRespondToProposal(lesson) THEN lesson.number ELSE 0]
    /\ UNCHANGED <<lesson, details, exchange, form, learnt>>

decideSession ==
    /\ write # NoWrite /\ write.phase = "checked" /\ write.got = write.seen
    /\ write' = [write EXCEPT !.phase = "asked"]
    /\ UNCHANGED <<lesson, details, exchange, form, learnt>>

ServeWrite ==
    /\ write # NoWrite /\ write.phase = "asked"
    /\ IF Allowed(lesson, "me", write.kind)
       THEN /\ lesson.rev < MaxRev
            /\ lesson' = After(lesson, "me", write.kind)
            /\ write' = [write EXCEPT !.phase = "ok", !.got = lesson.number,
                                      !.rev = lesson.rev + 1]
       ELSE /\ write' = [write EXCEPT !.phase = "refused"]
            /\ UNCHANGED lesson
    /\ UNCHANGED <<details, exchange, form, learnt>>

(* Mutant: the page announces the change without reloading. *)
changedUnseen ==
    /\ write # NoWrite /\ write.phase = "ok"
    /\ form' = "none" /\ write' = NoWrite
    /\ learnt' = write.rev
    /\ UNCHANGED <<lesson, details, exchange>>

(* changed, and the success of a confirmation: the page reloads.            *)
changed ==
    /\ write # NoWrite /\ write.phase = "ok"
    /\ Reload
    /\ form' = "none" /\ write' = NoWrite
    /\ learnt' = write.rev
    /\ UNCHANGED lesson

(* Refused by the server, or by the check before an answer: the page        *)
(* reloads, unless the refusal is shown in a dialog, which stays open.      *)
Refused ==
    /\ write # NoWrite
    /\ write.phase = "refused" \/ (write.phase = "checked" /\ write.got # write.seen)
    /\ IF form = "none" THEN Reload
       ELSE UNCHANGED <<details, exchange>>
    /\ write' = NoWrite
    /\ UNCHANGED <<lesson, form, learnt>>

(* A request or its answer is lost: the error shows, nothing reloads.       *)
WriteFails ==
    /\ write # NoWrite
    /\ write' = NoWrite
    /\ UNCHANGED <<lesson, details, exchange, form, learnt>>

LessonNext ==
    \/ AnswerDetails \/ TakeDetails \/ ExchangeAnswers \/ Refresh \/ CloseForm
    \/ proposeSession \/ cancelSession \/ confirmLesson
    \/ ServeCheck \/ decideSession \/ ServeWrite \/ changed \/ Refused \/ WriteFails
    \/ LessonEnds \/ ExchangeEnds
    \/ \E kind \in Kinds : PartnerActs(kind)
    \/ \E kind \in {"accept", "decline"} : decide(kind)
    \/ \E f \in {"planning", "cancelling"} : OpenForm(f)

-----------------------------------------------------------------------------
(* Once the page has announced a success it never shows the lesson as it    *)
(* was before it.                                                           *)
LessonIsCurrent == Ready(details) => shownLesson.rev >= learnt
=============================================================================
