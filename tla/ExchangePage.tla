---------------------------- MODULE ExchangePage ----------------------------
(***************************************************************************)
(* The page of one exchange: confirming its completion, cancelling it and, *)
(* once it is completed, reviewing it, while the partner does the same and *)
(* the plan advances.  The page may reload while a request of it is in     *)
(* flight; its reviews are a component with a query and a form of its own, *)
(* mounted only while the page shows a completed exchange.                 *)
(***************************************************************************)
EXTENDS Naturals, Query

CONSTANT People     \* the student, "me", and the partner

PeopleAssumption == "me" \in People

VARIABLES
    exchange,    \* server: the exchange and its reviews
    page,        \* the query of the page
    reviews,     \* the query of the reviews component
    saved,       \* the review this component saw created
    cancelling,  \* the page wants the cancellation dialog
    reviewing,   \* the component wants the review form
    completion,  \* the completion or cancellation in flight (useCompletionMutation)
    review,      \* the review in flight, of the component that is mounted
    unheard,     \* a review is on its way from a component unmounted since
    ended,       \* the page announced that it completed or cancelled the exchange
    reviewed     \* the page learnt that the student's review is stored

exchangeVars == <<exchange, page, reviews, saved, cancelling, reviewing,
                  completion, review, unheard, ended, reviewed>>

Exchanges ==
    [status : {"ACTIVE", "COMPLETED", "CANCELLED"}, planCompleted : BOOLEAN,
     done : SUBSET People, authors : SUBSET People]
ReviewLists == [authors : SUBSET People]
NoWrite == [kind |-> "none", phase |-> "none"]
Phases == {"asked", "ok", "refused"}

ExchangeTypeOK ==
    /\ exchange \in Exchanges
    /\ page \in Queries({"exchange"}, Exchanges)
    /\ reviews \in Queries({"none", "reviews"}, ReviewLists)
    /\ {saved, cancelling, reviewing, unheard, reviewed} \subseteq BOOLEAN
    /\ completion \in {NoWrite} \union [kind : {"complete", "cancel"}, phase : Phases]
    /\ review \in {NoWrite} \union
          [kind : {"review"}, phase : {"asked", "ok", "review_already_exists", "refused"}]
    /\ ended \subseteq {"CANCELLED", "confirmed"}

Unmounted == [Load("none") EXCEPT !.call = "none"]

ExchangeInit ==
    /\ exchange = [status |-> "ACTIVE", planCompleted |-> FALSE, done |-> {}, authors |-> {}]
    /\ page = Load("exchange") /\ reviews = Unmounted
    /\ saved = FALSE /\ cancelling = FALSE /\ reviewing = FALSE
    /\ completion = NoWrite /\ review = NoWrite /\ unheard = FALSE
    /\ ended = {} /\ reviewed = FALSE

-----------------------------------------------------------------------------
(* The server, for either participant. *)
canConfirmCompletion(e, u) == e.status = "ACTIVE" /\ e.planCompleted /\ u \notin e.done
canCancel(e) == e.status = "ACTIVE"
canReview(e, u) == e.status = "COMPLETED" /\ u \notin e.authors

Completed(e, u) ==
    [e EXCEPT !.done = @ \union {u},
              !.status = IF e.done \union {u} = People THEN "COMPLETED" ELSE @]
Cancelled(e) == [e EXCEPT !.status = "CANCELLED"]
Reviewed(e, u) == [e EXCEPT !.authors = @ \union {u}]

ExchangeChanges(e) ==
    /\ exchange' = e
    /\ UNCHANGED <<page, reviews, saved, cancelling, reviewing, completion, review,
                   unheard, ended, reviewed>>

PlanCompletes ==
    /\ exchange.status = "ACTIVE" /\ ~exchange.planCompleted
    /\ ExchangeChanges([exchange EXCEPT !.planCompleted = TRUE])

PartnerActs(u) ==
    \/ canConfirmCompletion(exchange, u) /\ ExchangeChanges(Completed(exchange, u))
    \/ canCancel(exchange) /\ ExchangeChanges(Cancelled(exchange))
    \/ canReview(exchange, u) /\ ExchangeChanges(Reviewed(exchange, u))

-----------------------------------------------------------------------------
(* What the page shows. *)
shown == page.data
cancelDialog == cancelling /\ Ready(page) /\ canCancel(shown)
mine == saved \/ (Ready(reviews) /\ "me" \in reviews.data.authors)
offersReview == Ready(page) /\ Ready(reviews) /\ ~mine /\ canReview(shown, "me")
reviewDialog == reviewing /\ offersReview
modal == cancelDialog \/ reviewDialog

(* The reviews are mounted exactly while a completed exchange shows.  sent   *)
(* is the review in flight: when its component is unmounted, nobody hears    *)
(* what becomes of it, and an answer on its way back is of no consequence.   *)
ShowPage(q, sent) ==
    /\ page' = q
    /\ IF Ready(q) /\ q.data.status = "COMPLETED"
       THEN /\ review' = sent
            /\ IF reviews.key = "none"
               THEN /\ reviews' = Load("reviews")
                    /\ saved' = FALSE /\ reviewing' = FALSE
               ELSE UNCHANGED <<reviews, saved, reviewing>>
            /\ UNCHANGED unheard
       ELSE /\ reviews' = Unmounted
            /\ saved' = FALSE /\ reviewing' = FALSE
            /\ review' = NoWrite
            /\ unheard' = (unheard \/ sent.phase = "asked")

AnswerExchange ==
    /\ Asked(page)
    /\ page' = Served(page, exchange)
    /\ UNCHANGED <<exchange, reviews, saved, cancelling, reviewing, completion, review,
                   unheard, ended, reviewed>>

TakeExchange ==
    /\ \/ Arriving(page) /\ ShowPage(Taken(page), review)
       \/ InFlight(page) /\ ShowPage(Failed(page), review)
    /\ UNCHANGED <<exchange, cancelling, completion, ended, reviewed>>

(* The refresh button of the plan, the retry of an error, a block made from *)
(* the page: nothing keeps them waiting for a completion in flight.         *)
RefreshExchange ==
    /\ Shows(page) # "loading" /\ ~modal
    /\ ShowPage(Retry(page), review)
    /\ UNCHANGED <<exchange, cancelling, completion, ended, reviewed>>

ReviewsAnswer ==
    /\ reviews' \in
         (IF Asked(reviews) THEN {Served(reviews, [authors |-> exchange.authors])} ELSE {})
         \union (IF Arriving(reviews) THEN {Taken(reviews)} ELSE {})
         \union (IF InFlight(reviews) THEN {Failed(reviews)} ELSE {})
         \union (IF Shows(reviews) # "loading" /\ reviews.key = "reviews" /\ ~modal
                 THEN {Retry(reviews)} ELSE {})
    /\ UNCHANGED <<exchange, page, saved, cancelling, reviewing, completion, review,
                   unheard, ended, reviewed>>

-----------------------------------------------------------------------------
run(kind) ==
    /\ completion = NoWrite /\ Ready(page)
    /\ \/ kind = "complete" /\ ~modal /\ canConfirmCompletion(shown, "me")
       \/ kind = "cancel" /\ cancelDialog
    /\ completion' = [kind |-> kind, phase |-> "asked"]
    /\ UNCHANGED <<exchange, page, reviews, saved, cancelling, reviewing, review,
                   unheard, ended, reviewed>>

AskCancel(wanted) ==
    /\ completion = NoWrite
    /\ IF wanted THEN Ready(page) /\ canCancel(shown) /\ ~modal ELSE cancelDialog
    /\ cancelling' = wanted
    /\ UNCHANGED <<exchange, page, reviews, saved, reviewing, completion, review,
                   unheard, ended, reviewed>>

ServeCompletion ==
    /\ completion.phase = "asked"
    /\ LET allowed == IF completion.kind = "cancel" THEN canCancel(exchange)
                      ELSE canConfirmCompletion(exchange, "me")
       IN  /\ completion' = [completion EXCEPT !.phase = IF allowed THEN "ok" ELSE "refused"]
           /\ exchange' = IF ~allowed THEN exchange
                          ELSE IF completion.kind = "cancel" THEN Cancelled(exchange)
                          ELSE Completed(exchange, "me")
    /\ UNCHANGED <<page, reviews, saved, cancelling, reviewing, review,
                   unheard, ended, reviewed>>

(* Answered or refused: the page reloads.  Lost: only the error shows.      *)
CompletionAnswered ==
    /\ completion.phase \in {"ok", "refused"}
    /\ ShowPage(Retry(page), review)
    /\ completion' = NoWrite
    /\ cancelling' = (cancelling /\ ~(completion = [kind |-> "cancel", phase |-> "ok"]))
    /\ ended' = IF completion.phase = "refused" THEN ended
                ELSE ended \union {IF completion.kind = "cancel" THEN "CANCELLED"
                                   ELSE "confirmed"}
    /\ UNCHANGED <<exchange, reviewed>>

CompletionFails ==
    /\ completion # NoWrite
    /\ completion' = NoWrite
    /\ UNCHANGED <<exchange, page, reviews, saved, cancelling, reviewing, review,
                   unheard, ended, reviewed>>

-----------------------------------------------------------------------------
ToggleForm ==
    /\ offersReview /\ ~cancelDialog /\ review = NoWrite
    /\ reviewing' = ~reviewing
    /\ UNCHANGED <<exchange, page, reviews, saved, cancelling, completion, review,
                   unheard, ended, reviewed>>

createReview ==
    /\ reviewDialog /\ review = NoWrite
    /\ review' = [kind |-> "review", phase |-> "asked"]
    /\ UNCHANGED <<exchange, page, reviews, saved, cancelling, reviewing, completion,
                   unheard, ended, reviewed>>

ServeReview ==
    /\ review.phase = "asked"
    /\ IF canReview(exchange, "me")
       THEN /\ exchange' = Reviewed(exchange, "me")
            /\ review' = [review EXCEPT !.phase = "ok"]
       ELSE /\ review' = [review EXCEPT !.phase =
                  IF "me" \in exchange.authors THEN "review_already_exists" ELSE "refused"]
            /\ UNCHANGED exchange
    /\ UNCHANGED <<page, reviews, saved, cancelling, reviewing, completion,
                   unheard, ended, reviewed>>

(* Mutant: a review that exists already is shown as any other error. *)
ReviewConflictUnseen ==
    /\ review.phase \in {"ok", "review_already_exists", "refused"}
    /\ IF review.phase = "refused"
       THEN ShowPage(Retry(page), NoWrite) /\ UNCHANGED reviewed
       ELSE /\ review' = NoWrite
            /\ reviewing' = FALSE
            /\ saved' = (saved \/ review.phase = "ok")
            /\ reviewed' = TRUE
            /\ UNCHANGED <<page, reviews, unheard>>
    /\ UNCHANGED <<exchange, cancelling, completion, ended>>

(* onSaved and onConflict of the component that sent the review.            *)
ReviewAnswered ==
    /\ review.phase \in {"ok", "review_already_exists", "refused"}
    /\ IF review.phase = "refused"
       THEN ShowPage(Retry(page), NoWrite) /\ UNCHANGED reviewed
       ELSE /\ review' = NoWrite
            /\ reviewing' = FALSE
            /\ saved' = (saved \/ review.phase = "ok")
            /\ reviews' = Retry(reviews)
            /\ reviewed' = TRUE
            /\ UNCHANGED <<page, unheard>>
    /\ UNCHANGED <<exchange, cancelling, completion, ended>>

(* A review whose component is gone is stored all the same, or refused or   *)
(* lost: what the page shows, a component mounted again included, is not    *)
(* told.                                                                    *)
ReviewUnheard ==
    /\ unheard
    /\ unheard' = FALSE
    /\ \/ canReview(exchange, "me") /\ exchange' = Reviewed(exchange, "me")
       \/ UNCHANGED exchange
    /\ UNCHANGED <<page, reviews, saved, cancelling, reviewing, completion, review,
                   ended, reviewed>>

(* The answer may be lost after the review was stored: the form stays open. *)
ReviewFails ==
    /\ review # NoWrite
    /\ review' = NoWrite
    /\ UNCHANGED <<exchange, page, reviews, saved, cancelling, reviewing, completion,
                   unheard, ended, reviewed>>

ExchangeNext ==
    \/ PlanCompletes \/ AnswerExchange \/ TakeExchange \/ RefreshExchange \/ ReviewsAnswer
    \/ ServeCompletion \/ CompletionAnswered \/ CompletionFails
    \/ ToggleForm \/ createReview \/ ServeReview \/ ReviewAnswered \/ ReviewFails
    \/ ReviewUnheard
    \/ \E u \in People \ {"me"} : PartnerActs(u)
    \/ \E kind \in {"complete", "cancel"} : run(kind)
    \/ \E wanted \in BOOLEAN : AskCancel(wanted)

-----------------------------------------------------------------------------
(* After the page announced a confirmation or a cancellation it never shows *)
(* the exchange as it was before, whatever it reloaded in between.          *)
EndingIsShown ==
    Ready(page) =>
        /\ "confirmed" \in ended => "me" \in shown.done
        /\ "CANCELLED" \in ended => shown.status = "CANCELLED"

(* A student whose review is stored, and who was told so by the component   *)
(* that sent it, is not invited to write another: not by what was loaded    *)
(* before, nor after a reload.  A component mounted while a review of its   *)
(* predecessor is on its way is told nothing, and may offer the form until  *)
(* it reloads or a second review is refused as existing.                    *)
ReviewedOnce == reviewed => ~offersReview
=============================================================================
