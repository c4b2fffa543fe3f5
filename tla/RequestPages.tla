---------------------------- MODULE RequestPages ----------------------------
(***************************************************************************)
(* The request list and the page of one request: what they show, and the   *)
(* answers given from them while the partner answers too.  A list shows    *)
(* several requests and each has its own buttons, so several answers may   *)
(* be in flight; a list that reloads mounts its cards anew and forgets     *)
(* which of them were busy, while their requests go on.                    *)
(***************************************************************************)
EXTENDS Naturals, Query

CONSTANTS
    Incoming, Outgoing,  \* requests sent to the student and by the student
    Places,              \* bound: the lists and pages visited
    CallIds              \* bound: answers in flight at once

Requests == Incoming \union Outgoing
Status == {"PENDING", "ACCEPTED", "DECLINED", "WITHDRAWN"}
NoRequest == 0
Closed == [request |-> NoRequest, action |-> "none"]
Free == [request |-> NoRequest, action |-> "none", answer |-> "none",
         card |-> FALSE, page |-> FALSE]

(* The address of a list holds its direction and its status filter; lists   *)
(* have one page.                                                           *)
Lists == [page : {"list"}, of : {Incoming, Outgoing}, status : Status \union {""}]
Details == [page : {"request"}, of : {{r} : r \in Requests}, status : {""}]

PlacesAssumption == Places \subseteq Lists \union Details

VARIABLES
    requests,   \* server: the status of each request
    query,      \* the query of the open page; its key is the place
    left,       \* the page was left for the exchange that an acceptance started
    busy,       \* the cards whose buttons are disabled
    confirm,    \* the confirmation dialog
    calls,      \* the answers in flight
    told        \* the requests a page learnt are no longer pending

requestVars == <<requests, query, left, busy, confirm, calls, told>>

Answers == UNION {[S -> Status] : S \in SUBSET Requests}

RequestsTypeOK ==
    /\ requests \in [Requests -> Status]
    /\ query \in Queries(Places, Answers)
    /\ left \in BOOLEAN
    /\ busy \subseteq Requests /\ told \subseteq Requests
    /\ confirm \in {Closed} \union
                   [request : Requests, action : {"decline", "withdraw"}]
    /\ calls \in [CallIds ->
         [request : Requests \union {NoRequest},
          action : {"none", "accept", "decline", "withdraw"},
          answer : {"none", "asked", "ok", "request_not_pending", "request_outdated"},
          card : BOOLEAN, page : BOOLEAN]]

RequestsInit ==
    /\ requests = [r \in Requests |-> "PENDING"]
    /\ query \in {Load(k) : k \in Places}
    /\ left = FALSE /\ busy = {} /\ told = {}
    /\ confirm = Closed
    /\ calls = [c \in CallIds |-> Free]

-----------------------------------------------------------------------------
(* listRequests and requestDetails: the rows the server reads for a place. *)
listRequests(k) ==
    [r \in {r \in k.of : k.status \in {"", requests[r]}} |-> requests[r]]

shown == IF Ready(query) THEN query.data ELSE <<>>

availableActions(r) ==
    IF r \notin DOMAIN shown \/ shown[r] # "PENDING" THEN {}
    ELSE IF r \in Incoming THEN {"accept", "decline"} ELSE {"withdraw"}

(* The cards of the old answer are gone: their calls go on without them. *)
unmountCards ==
    /\ busy' = {}
    /\ confirm' = Closed

Orphan(cs, page) ==
    [c \in CallIds |-> [cs[c] EXCEPT !.card = FALSE, !.page = @ /\ page]]

(* Mutant: the page keeps what it shows. *)
changedWithoutReload(cs) ==
    /\ UNCHANGED query
    /\ unmountCards
    /\ calls' = Orphan(cs, TRUE)

(* changed: the page's version moves, so its query asks again. *)
changed(cs) ==
    /\ query' = Retry(query)
    /\ unmountCards
    /\ calls' = Orphan(cs, TRUE)

-----------------------------------------------------------------------------
AnswerQuery ==
    /\ Asked(query)
    /\ query' = Served(query, listRequests(query.key))
    /\ UNCHANGED <<requests, left, busy, confirm, calls, told>>

(* A held answer that is replaced keeps the cards both show; the cards of   *)
(* the others are gone.                                                     *)
Arrive(q) ==
    /\ ~left
    /\ query' = q
    /\ LET kept == IF Ready(query) /\ Ready(q)
                   THEN DOMAIN query.data \intersect DOMAIN q.data ELSE {}
           alive(r) == r \in kept /\ q.data[r] = "PENDING"
       IN  /\ busy' = {r \in busy : alive(r)}
           /\ confirm' = IF alive(confirm.request) THEN confirm ELSE Closed
           /\ calls' = [c \in CallIds |->
                 [calls[c] EXCEPT !.card = @ /\ alive(calls[c].request)]]
    /\ UNCHANGED <<requests, left, told>>

TakeAnswer == Arriving(query) /\ Arrive(Taken(query))
QueryFails == InFlight(query) /\ Arrive(Failed(query))

RetryQuery ==
    /\ ~left /\ Shows(query) = "error"
    /\ query' = Retry(query)
    /\ UNCHANGED <<requests, left, busy, confirm, calls, told>>

(* Another filter keeps the page mounted; another page does not. *)
Visit(k) ==
    /\ left \/ k # query.key
    /\ left' = FALSE
    /\ LET stays == ~left /\ k.page = "list" /\ query.key.page = "list"
       IN  /\ query' = IF stays THEN Rekey(query, k) ELSE Load(k)
           /\ calls' = Orphan(calls, stays)
    /\ unmountCards
    /\ UNCHANGED <<requests, told>>

-----------------------------------------------------------------------------
(* The dialog is modal: with it open only its own buttons can be used. *)
setConfirm(r, action) ==
    /\ ~left /\ confirm = Closed
    /\ action \in availableActions(r) \ {"accept"} /\ r \notin busy
    /\ confirm' = [request |-> r, action |-> action]
    /\ UNCHANGED <<requests, query, left, busy, calls, told>>

CloseConfirm ==
    /\ confirm # Closed /\ confirm.request \notin busy
    /\ confirm' = Closed
    /\ UNCHANGED <<requests, query, left, busy, calls, told>>

run(r, action, c) ==
    /\ ~left /\ r \notin busy /\ calls[c] = Free
    /\ action \in availableActions(r)
    /\ confirm = IF action = "accept" THEN Closed
                 ELSE [request |-> r, action |-> action]
    /\ busy' = busy \union {r}
    /\ calls' = [calls EXCEPT ![c] =
          [request |-> r, action |-> action, answer |-> "asked",
           card |-> TRUE, page |-> TRUE]]
    /\ UNCHANGED <<requests, query, left, confirm, told>>

(* The server: accept, decline and withdraw change a pending request only. *)
Became(action) ==
    [accept |-> "ACCEPTED", decline |-> "DECLINED", withdraw |-> "WITHDRAWN"][action]

HandleCall(c) ==
    LET r == calls[c].request
        answer(a) == calls' = [calls EXCEPT ![c].answer = a]
    IN  /\ calls[c].answer = "asked"
        /\ \/ /\ requests[r] = "PENDING"
              /\ requests' = [requests EXCEPT ![r] = Became(calls[c].action)]
              /\ answer("ok")
           \/ /\ requests[r] # "PENDING"
              /\ answer("request_not_pending")
              /\ UNCHANGED requests
           \/ /\ requests[r] = "PENDING" /\ calls[c].action = "accept"
              /\ answer("request_outdated")
              /\ UNCHANGED requests
        /\ UNCHANGED <<query, left, busy, confirm, told>>

PartnerAnswers(r, status) ==
    /\ requests[r] = "PENDING"
    /\ status = "WITHDRAWN" <=> r \in Incoming
    /\ requests' = [requests EXCEPT ![r] = status]
    /\ UNCHANGED <<query, left, busy, confirm, calls, told>>

(* An acceptance leads to the exchange even when the page was left since. *)
Accepted(c) ==
    /\ calls[c].answer = "ok" /\ calls[c].action = "accept"
    /\ left' = TRUE
    /\ calls' = Orphan([calls EXCEPT ![c] = Free], FALSE)
    /\ unmountCards
    /\ UNCHANGED <<requests, query, told>>

(* Answered now, or answered elsewhere: the page says so and reloads. *)
Changed(c) ==
    /\ calls[c].answer \in {"ok", "request_not_pending", "request_outdated"}
    /\ ~(calls[c].answer = "ok" /\ calls[c].action = "accept")
    /\ IF calls[c].page
       THEN /\ changed([calls EXCEPT ![c] = Free])
            /\ told' = IF calls[c].answer = "request_outdated" THEN told
                       ELSE told \union {calls[c].request}
       ELSE /\ calls' = [calls EXCEPT ![c] = Free]
            /\ UNCHANGED <<query, busy, confirm, told>>
    /\ UNCHANGED <<requests, left>>

(* No answer: the buttons work again beside the error, nothing reloads. *)
CallFails(c) ==
    /\ calls[c] # Free
    /\ calls' = [calls EXCEPT ![c] = Free]
    /\ busy' = IF calls[c].card THEN busy \ {calls[c].request} ELSE busy
    /\ UNCHANGED <<requests, query, left, confirm, told>>

RequestsNext ==
    \/ AnswerQuery \/ TakeAnswer \/ QueryFails \/ RetryQuery \/ CloseConfirm
    \/ \E k \in Places : Visit(k)
    \/ \E r \in Requests, action \in {"accept", "decline", "withdraw"} :
          \/ setConfirm(r, action)
          \/ \E c \in CallIds : run(r, action, c)
    \/ \E c \in CallIds : HandleCall(c) \/ Accepted(c) \/ Changed(c) \/ CallFails(c)
    \/ \E r \in Requests, status \in Status \ {"PENDING"} : PartnerAnswers(r, status)

-----------------------------------------------------------------------------
(* A request the page said was answered is never shown as waiting for one. *)
ToldIsShown ==
    \A r \in told \intersect DOMAIN shown : shown[r] # "PENDING"

(* A disabled card has its request in flight: no button stays dead. *)
BusyIsInFlight ==
    \A r \in busy : \E c \in CallIds : calls[c].request = r /\ calls[c].card
=============================================================================
