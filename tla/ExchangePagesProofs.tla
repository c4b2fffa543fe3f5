------------------------ MODULE ExchangePagesProofs -------------------------
(***************************************************************************)
(* What the pages of an exchange show is what the server holds: the pages  *)
(* of requests, the form of a proposal, the page of a lesson and that of   *)
(* an exchange.  Each has an invariant, true while it is on the screen:    *)
(* what the page was told holds on the server, and so do the answers it    *)
(* holds and those on their way to it, as far as it was told of them.      *)
(***************************************************************************)
EXTENDS Pages, FiniteSetTheorems, SequenceTheorems, TLAPS

\* A step of a page is a step of the page on the screen, which stays there.
LEMMA OnlyOnScreen ==
    ASSUME NEW s, Only(s)
    PROVE  screen = s /\ screen' = s
BY DEF Only

LEMMA StepOfPage ==
    ASSUME Next
    PROVE  /\ screen' = "requests" => screen = "requests" /\ R!RequestsNext
           /\ screen' = "proposal" => screen = "proposal" /\ P!ProposalNext
           /\ screen' = "lesson" => screen = "lesson" /\ L!LessonNext
           /\ screen' = "exchange" => screen = "exchange" /\ E!ExchangeNext
           /\ screen' = "profile" => screen = "profile" /\ F!ProfileNext
           /\ screen' = "notifications" => screen = "notifications" /\ N!NotificationsNext
           /\ screen' = "onboarding" => screen = "onboarding" /\ O!OnboardingNext
           /\ screen' = "conversations" => screen = "conversations" /\ C!ConversationsNext
           /\ screen' = "safety" => screen = "safety" /\ S!SafetyNext
           /\ screen' = "report" => screen = "report" /\ A!ReportNext
<1> DEFINE onScreen == \A s : Only(s) => screen = s /\ screen' = s
<1>1. onScreen
  BY OnlyOnScreen
<1> QED BY <1>1 DEF Next

-----------------------------------------------------------------------------
(***************************************************************************)
(* The pages of requests.                                                  *)
(***************************************************************************)
RequestQueried ==
    /\ query \in R!Queries(Places, R!Answers)
    /\ query.call = "served" => query.answer \in R!Answers
    /\ query.status = "ready" => query.data \in R!Answers

RequestCalls ==
    [request : R!Requests \union {R!NoRequest},
     action : {"none", "accept", "decline", "withdraw"},
     answer : {"none", "asked", "ok", "request_not_pending", "request_outdated"},
     card : BOOLEAN, page : BOOLEAN]

\* A call is about a request; one that was answered has found it answered,
\* and a card that waits for one is on the page that does.
CallsAreTrue ==
    \A c \in CallIds :
       /\ calls[c].answer # "none" =>
             calls[c].request \in R!Requests /\ calls[c].action # "none"
       /\ calls[c].answer \in {"ok", "request_not_pending"} =>
             requests[calls[c].request] # "PENDING"
       /\ calls[c].card => calls[c].page

\* What a page was told is so, and no answer it holds or waits for is older.
ToldIsTrue ==
    /\ \A r \in told : requests[r] # "PENDING"
    /\ query.call = "served" =>
          \A r \in told \intersect DOMAIN query.answer : query.answer[r] # "PENDING"
    /\ query.status = "ready" =>
          \A r \in told \intersect DOMAIN query.data : query.data[r] # "PENDING"

RequestsTyped == R!RequestsTypeOK /\ RequestQueried

RequestsInv == RequestsTyped /\ CallsAreTrue /\ ToldIsTrue /\ R!BusyIsInFlight

LEMMA PlaceHasRequests ==
    ASSUME NEW k \in Places
    PROVE  k.of \subseteq R!Requests
BY PagesAssumption DEF R!PlacesAssumption, R!Lists, R!Details, R!Requests

LEMMA ListIsAnswer ==
    ASSUME requests \in [R!Requests -> R!Status], NEW k \in Places
    PROVE  /\ R!listRequests(k) \in R!Answers
           /\ \A r \in DOMAIN R!listRequests(k) : R!listRequests(k)[r] = requests[r]
<1> DEFINE rows == {r \in k.of : k.status \in {"", requests[r]}}
<1>1. rows \in SUBSET R!Requests
  BY PlaceHasRequests
<1>2. R!listRequests(k) = [r \in rows |-> requests[r]]
  BY DEF R!listRequests
<1> HIDE DEF rows
<1>3. R!listRequests(k) \in [rows -> R!Status]
  BY <1>1, <1>2
<1> QED BY <1>1, <1>2, <1>3 DEF R!Answers

LEMMA RequestQueryKept ==
    ASSUME RequestQueried, requests \in [R!Requests -> R!Status],
           \/ query' = query
           \/ query' = R!Retry(query)
           \/ \E k \in Places : query' \in {R!Load(k), R!Rekey(query, k)}
           \/ query' = R!Served(query, R!listRequests(query.key))
           \/ R!Arriving(query) /\ query' = R!Taken(query)
           \/ query' = R!Failed(query)
    PROVE  RequestQueried'
<1> USE DEF RequestQueried
<1>1. CASE query' = query BY <1>1
<1>2. CASE query' = R!Retry(query)
  BY <1>2 DEF R!Load, R!Retry, R!Queries, R!Nothing
<1>3. ASSUME NEW k \in Places, query' \in {R!Load(k), R!Rekey(query, k)} PROVE RequestQueried'
  <2>1. CASE query' = R!Load(k)
    BY <2>1 DEF R!Load, R!Queries, R!Nothing
  <2>2. CASE query' = R!Rekey(query, k)
    BY <2>2 DEF R!Rekey, R!Queries, R!Nothing
  <2> QED BY <1>3, <2>1, <2>2
<1>4. CASE query' = R!Served(query, R!listRequests(query.key))
  <2>1. query.key \in Places
    BY DEF R!Queries
  <2>2. R!listRequests(query.key) \in R!Answers
    BY <2>1, ListIsAnswer
  <2> QED BY <1>4, <2>2 DEF R!Served, R!Queries
<1>5. CASE R!Arriving(query) /\ query' = R!Taken(query)
  BY <1>5 DEF R!Taken, R!Arriving, R!Queries, R!Nothing
<1>6. CASE query' = R!Failed(query)
  BY <1>6 DEF R!Failed, R!Queries, R!Nothing
<1> QED BY <1>1, <1>2, <1>3, <1>4, <1>5, <1>6

(* Calls lose their card and perhaps their page, and nothing else.          *)

LEMMA CallLosesCard ==
    ASSUME NEW x \in RequestCalls, NEW b \in BOOLEAN
    PROVE  /\ [x EXCEPT !.card = FALSE, !.page = b] \in RequestCalls
           /\ [x EXCEPT !.card = FALSE, !.page = b].request = x.request
           /\ [x EXCEPT !.card = FALSE, !.page = b].action = x.action
           /\ [x EXCEPT !.card = FALSE, !.page = b].answer = x.answer
           /\ ~[x EXCEPT !.card = FALSE, !.page = b].card
BY DEF RequestCalls

LEMMA CallKeepsCard ==
    ASSUME NEW x \in RequestCalls, NEW a \in BOOLEAN
    PROVE  /\ [x EXCEPT !.card = a] \in RequestCalls
           /\ [x EXCEPT !.card = a].request = x.request
           /\ [x EXCEPT !.card = a].action = x.action
           /\ [x EXCEPT !.card = a].answer = x.answer
           /\ [x EXCEPT !.card = a].page = x.page
           /\ [x EXCEPT !.card = a].card <=> a
BY DEF RequestCalls

LEMMA OrphanKept ==
    ASSUME NEW cs \in [CallIds -> RequestCalls], NEW p \in BOOLEAN
    PROVE  /\ R!Orphan(cs, p) \in [CallIds -> RequestCalls]
           /\ \A c \in CallIds :
                 /\ R!Orphan(cs, p)[c].request = cs[c].request
                 /\ R!Orphan(cs, p)[c].action = cs[c].action
                 /\ R!Orphan(cs, p)[c].answer = cs[c].answer
                 /\ ~R!Orphan(cs, p)[c].card
<1>1. ASSUME NEW c \in CallIds
      PROVE  /\ R!Orphan(cs, p)[c] \in RequestCalls
             /\ R!Orphan(cs, p)[c].request = cs[c].request
             /\ R!Orphan(cs, p)[c].action = cs[c].action
             /\ R!Orphan(cs, p)[c].answer = cs[c].answer
             /\ ~R!Orphan(cs, p)[c].card
  <2> DEFINE b == cs[c].page /\ p
  <2>1. b \in BOOLEAN /\ cs[c] \in RequestCalls
    OBVIOUS
  <2>2. R!Orphan(cs, p)[c] = [cs[c] EXCEPT !.card = FALSE, !.page = b]
    BY DEF R!Orphan
  <2> HIDE DEF b
  <2>3. /\ [cs[c] EXCEPT !.card = FALSE, !.page = b] \in RequestCalls
        /\ [cs[c] EXCEPT !.card = FALSE, !.page = b].request = cs[c].request
        /\ [cs[c] EXCEPT !.card = FALSE, !.page = b].action = cs[c].action
        /\ [cs[c] EXCEPT !.card = FALSE, !.page = b].answer = cs[c].answer
        /\ ~[cs[c] EXCEPT !.card = FALSE, !.page = b].card
    BY <2>1, CallLosesCard, Zenon
  <2> QED BY <2>2, <2>3, Zenon
<1> QED BY <1>1 DEF R!Orphan

LEMMA RequestsInitHolds ==
    ASSUME R!RequestsInit
    PROVE  RequestsInv
<1>1. RequestQueried
  BY DEF R!RequestsInit, RequestQueried, R!Load, R!Queries, R!Nothing
<1>2. R!RequestsTypeOK
  BY <1>1 DEF R!RequestsInit, R!RequestsTypeOK, RequestQueried, R!Closed, R!Free, R!Status
<1>3. CallsAreTrue /\ R!BusyIsInFlight
  BY DEF R!RequestsInit, CallsAreTrue, R!Free, R!BusyIsInFlight
<1>4. ToldIsTrue
  BY DEF R!RequestsInit, ToldIsTrue, R!Load
<1> QED BY <1>1, <1>2, <1>3, <1>4 DEF RequestsInv, RequestsTyped

(* What an arriving answer does to the calls, the buttons and the dialog.   *)

LEMMA ArriveKeepsCalls ==
    ASSUME RequestsInv, NEW q, R!Arrive(q)
    PROVE  /\ calls' \in [CallIds -> RequestCalls]
           /\ busy' \subseteq R!Requests
           /\ confirm' \in {confirm, R!Closed}
           /\ CallsAreTrue' /\ R!BusyIsInFlight'
<1> DEFINE kept == IF R!Ready(query) /\ R!Ready(q)
                   THEN DOMAIN query.data \intersect DOMAIN q.data ELSE {}
           alive(r) == r \in kept /\ q.data[r] = "PENDING"
<1>1. /\ busy' = {r \in busy : alive(r)}
      /\ confirm' = IF alive(confirm.request) THEN confirm ELSE R!Closed
      /\ calls' = [c \in CallIds |->
                     [calls[c] EXCEPT !.card = calls[c].card /\ alive(calls[c].request)]]
      /\ requests' = requests
  BY DEF R!Arrive
<1> HIDE DEF alive
<1>2. calls \in [CallIds -> RequestCalls] /\ busy \subseteq R!Requests
  BY DEF RequestsInv, RequestsTyped, R!RequestsTypeOK, RequestCalls
<1>3. ASSUME NEW c \in CallIds
      PROVE  /\ calls'[c] \in RequestCalls
             /\ calls'[c].request = calls[c].request
             /\ calls'[c].action = calls[c].action
             /\ calls'[c].answer = calls[c].answer
             /\ calls'[c].page = calls[c].page
             /\ calls'[c].card <=> (calls[c].card /\ alive(calls[c].request))
  <2> DEFINE a == calls[c].card /\ alive(calls[c].request)
  <2>1. a \in BOOLEAN /\ calls[c] \in RequestCalls
    BY <1>2
  <2>2. calls'[c] = [calls[c] EXCEPT !.card = a]
    BY <1>1
  <2> HIDE DEF a
  <2>3. /\ [calls[c] EXCEPT !.card = a] \in RequestCalls
        /\ [calls[c] EXCEPT !.card = a].request = calls[c].request
        /\ [calls[c] EXCEPT !.card = a].action = calls[c].action
        /\ [calls[c] EXCEPT !.card = a].answer = calls[c].answer
        /\ [calls[c] EXCEPT !.card = a].page = calls[c].page
        /\ [calls[c] EXCEPT !.card = a].card <=> a
    BY <2>1, CallKeepsCard, Zenon
  <2>4. a <=> (calls[c].card /\ alive(calls[c].request))
    BY DEF a
  <2> QED BY <2>2, <2>3, <2>4, Zenon
<1>4. calls' \in [CallIds -> RequestCalls]
  <2>1. calls' = [c \in CallIds |-> calls'[c]]
    BY <1>1
  <2> QED BY <1>3, <2>1
<1>5. CallsAreTrue'
  BY <1>1, <1>3 DEF CallsAreTrue, RequestsInv
<1>6. R!BusyIsInFlight'
  <2>1. ASSUME NEW r \in busy'
        PROVE  \E c \in CallIds : calls'[c].request = r /\ calls'[c].card
    <3>1. r \in busy /\ alive(r)
      BY <1>1
    <3>2. PICK c \in CallIds : calls[c].request = r /\ calls[c].card
      BY <3>1 DEF R!BusyIsInFlight, RequestsInv
    <3> QED BY <1>3, <3>1, <3>2, Zenon
  <2> QED BY <2>1 DEF R!BusyIsInFlight
<1> QED BY <1>1, <1>2, <1>4, <1>5, <1>6

(* Moving to another place, or reloading, leaves the calls without cards.   *)

LEMMA OrphansAreTrue ==
    ASSUME NEW cs \in [CallIds -> RequestCalls], NEW p \in BOOLEAN,
           calls' = R!Orphan(cs, p), busy' = {}, confirm' = R!Closed,
           requests' = requests,
           \A c \in CallIds : cs[c] = calls[c] \/ cs[c] = R!Free,
           CallsAreTrue
    PROVE  /\ calls' \in [CallIds -> RequestCalls]
           /\ CallsAreTrue' /\ R!BusyIsInFlight'
<1>1. calls' \in [CallIds -> RequestCalls]
  BY OrphanKept
<1>2. ASSUME NEW c \in CallIds
      PROVE  /\ calls'[c].answer \in {calls[c].answer, "none"}
             /\ calls'[c].answer # "none" =>
                   calls'[c].request = calls[c].request /\ calls'[c].action = calls[c].action
             /\ ~calls'[c].card
  BY OrphanKept DEF R!Free
<1>3. CallsAreTrue'
  BY <1>2 DEF CallsAreTrue
<1> QED BY <1>1, <1>3 DEF R!BusyIsInFlight

LEMMA RequestsStep ==
    ASSUME RequestsInv, R!RequestsNext
    PROVE  RequestsInv'
<1> USE DEF RequestsInv
<1>0. /\ requests \in [R!Requests -> R!Status] /\ RequestQueried
      /\ calls \in [CallIds -> RequestCalls]
      /\ busy \subseteq R!Requests /\ told \subseteq R!Requests
      /\ query.key \in Places
  BY DEF RequestsTyped, R!RequestsTypeOK, RequestCalls, R!Queries
<1>1. ASSUME R!AnswerQuery
      PROVE  RequestsInv'
  <2>1. RequestQueried'
    BY <1>1, <1>0, RequestQueryKept DEF R!AnswerQuery
  <2>2. /\ requests' \in [R!Requests -> R!Status] /\ told' \subseteq R!Requests
        /\ left' \in BOOLEAN /\ busy' \subseteq R!Requests
        /\ \A x \in R!Requests : requests[x] # "PENDING" => requests'[x] # "PENDING"
    BY <1>1, <1>0 DEF R!AnswerQuery, R!Status, R!RequestsTypeOK, RequestsTyped
  <2>3. confirm' \in {R!Closed} \union [request : R!Requests, action : {"decline", "withdraw"}]
    BY <1>1, <1>0 DEF R!AnswerQuery, R!RequestsTypeOK, RequestsTyped
  <2>4. calls' \in [CallIds -> RequestCalls] /\ CallsAreTrue' /\ R!BusyIsInFlight'
    BY <1>1, <1>0, <2>2 DEF R!AnswerQuery, CallsAreTrue, R!BusyIsInFlight, RequestCalls
  <2>5. ToldIsTrue'
    <3>1. \A r \in DOMAIN R!listRequests(query.key) :
             R!listRequests(query.key)[r] = requests[r]
      BY <1>0, ListIsAnswer
    <3> HIDE DEF R!listRequests
    <3> QED BY <1>1, <1>0, <3>1
    DEF R!AnswerQuery, ToldIsTrue, R!Served, R!Queries, RequestQueried
  <2> QED BY <2>1, <2>2, <2>3, <2>4, <2>5
  DEF RequestsTyped, R!RequestsTypeOK, RequestQueried, RequestCalls
<1>2. ASSUME R!TakeAnswer
      PROVE  RequestsInv'
  <2>1. RequestQueried'
    BY <1>2, <1>0, RequestQueryKept DEF R!TakeAnswer, R!Arrive
  <2>2. /\ requests' \in [R!Requests -> R!Status] /\ told' \subseteq R!Requests
        /\ left' \in BOOLEAN /\ busy' \subseteq R!Requests
        /\ \A x \in R!Requests : requests[x] # "PENDING" => requests'[x] # "PENDING"
    BY <1>2, <1>0, ArriveKeepsCalls
    DEF R!TakeAnswer, R!Arrive, R!Status, R!RequestsTypeOK, RequestsTyped
  <2>3. confirm' \in {R!Closed} \union [request : R!Requests, action : {"decline", "withdraw"}]
    BY <1>2, <1>0, ArriveKeepsCalls DEF R!TakeAnswer, R!Arrive, R!RequestsTypeOK, RequestsTyped
  <2>4. calls' \in [CallIds -> RequestCalls] /\ CallsAreTrue' /\ R!BusyIsInFlight'
    BY <1>2, ArriveKeepsCalls DEF R!TakeAnswer
  <2>5. ToldIsTrue'
    BY <1>2, <1>0, <2>2
    DEF R!TakeAnswer, R!Arrive, ToldIsTrue, RequestQueried, R!Taken, R!Arriving, R!Queries
  <2> QED BY <2>1, <2>2, <2>3, <2>4, <2>5
  DEF RequestsTyped, R!RequestsTypeOK, RequestQueried, RequestCalls
<1>3. ASSUME R!QueryFails
      PROVE  RequestsInv'
  <2>1. RequestQueried'
    BY <1>3, <1>0, RequestQueryKept DEF R!QueryFails, R!Arrive
  <2>2. /\ requests' \in [R!Requests -> R!Status] /\ told' \subseteq R!Requests
        /\ left' \in BOOLEAN /\ busy' \subseteq R!Requests
        /\ \A x \in R!Requests : requests[x] # "PENDING" => requests'[x] # "PENDING"
    BY <1>3, <1>0, ArriveKeepsCalls
    DEF R!QueryFails, R!Arrive, R!Status, R!RequestsTypeOK, RequestsTyped
  <2>3. confirm' \in {R!Closed} \union [request : R!Requests, action : {"decline", "withdraw"}]
    BY <1>3, <1>0, ArriveKeepsCalls DEF R!QueryFails, R!Arrive, R!RequestsTypeOK, RequestsTyped
  <2>4. calls' \in [CallIds -> RequestCalls] /\ CallsAreTrue' /\ R!BusyIsInFlight'
    BY <1>3, ArriveKeepsCalls DEF R!QueryFails
  <2>5. ToldIsTrue'
    BY <1>3, <1>0, <2>2
    DEF R!QueryFails, R!Arrive, ToldIsTrue, RequestQueried, R!Failed, R!Queries
  <2> QED BY <2>1, <2>2, <2>3, <2>4, <2>5
  DEF RequestsTyped, R!RequestsTypeOK, RequestQueried, RequestCalls
<1>4. ASSUME R!RetryQuery
      PROVE  RequestsInv'
  <2>1. RequestQueried'
    BY <1>4, <1>0, RequestQueryKept DEF R!RetryQuery
  <2>2. /\ requests' \in [R!Requests -> R!Status] /\ told' \subseteq R!Requests
        /\ left' \in BOOLEAN /\ busy' \subseteq R!Requests
        /\ \A x \in R!Requests : requests[x] # "PENDING" => requests'[x] # "PENDING"
    BY <1>4, <1>0 DEF R!RetryQuery, R!Status, R!RequestsTypeOK, RequestsTyped
  <2>3. confirm' \in {R!Closed} \union [request : R!Requests, action : {"decline", "withdraw"}]
    BY <1>4, <1>0 DEF R!RetryQuery, R!RequestsTypeOK, RequestsTyped
  <2>4. calls' \in [CallIds -> RequestCalls] /\ CallsAreTrue' /\ R!BusyIsInFlight'
    BY <1>4, <1>0, <2>2 DEF R!RetryQuery, CallsAreTrue, R!BusyIsInFlight, RequestCalls
  <2>5. ToldIsTrue'
    BY <1>4, <1>0, <2>2 DEF R!RetryQuery, ToldIsTrue, RequestQueried, R!Retry, R!Load, R!Queries
  <2> QED BY <2>1, <2>2, <2>3, <2>4, <2>5
  DEF RequestsTyped, R!RequestsTypeOK, RequestQueried, RequestCalls
<1>5. ASSUME R!CloseConfirm
      PROVE  RequestsInv'
  <2>1. RequestQueried'
    BY <1>5, <1>0, RequestQueryKept DEF R!CloseConfirm
  <2>2. /\ requests' \in [R!Requests -> R!Status] /\ told' \subseteq R!Requests
        /\ left' \in BOOLEAN /\ busy' \subseteq R!Requests
        /\ \A x \in R!Requests : requests[x] # "PENDING" => requests'[x] # "PENDING"
    BY <1>5, <1>0 DEF R!CloseConfirm, R!Status, R!RequestsTypeOK, RequestsTyped
  <2>3. confirm' \in {R!Closed} \union [request : R!Requests, action : {"decline", "withdraw"}]
    BY <1>5, <1>0 DEF R!CloseConfirm, R!RequestsTypeOK, RequestsTyped
  <2>4. calls' \in [CallIds -> RequestCalls] /\ CallsAreTrue' /\ R!BusyIsInFlight'
    BY <1>5, <1>0, <2>2 DEF R!CloseConfirm, CallsAreTrue, R!BusyIsInFlight, RequestCalls
  <2>5. ToldIsTrue'
    BY <1>5, <1>0, <2>2 DEF R!CloseConfirm, ToldIsTrue, RequestQueried, R!Queries
  <2> QED BY <2>1, <2>2, <2>3, <2>4, <2>5
  DEF RequestsTyped, R!RequestsTypeOK, RequestQueried, RequestCalls
<1>6. ASSUME NEW k \in Places, R!Visit(k)
      PROVE  RequestsInv'
  <2>1. RequestQueried'
    BY <1>6, <1>0, RequestQueryKept DEF R!Visit, R!unmountCards
  <2>2. /\ requests' \in [R!Requests -> R!Status] /\ told' \subseteq R!Requests
        /\ left' \in BOOLEAN /\ busy' \subseteq R!Requests
        /\ \A x \in R!Requests : requests[x] # "PENDING" => requests'[x] # "PENDING"
    BY <1>6, <1>0 DEF R!Visit, R!unmountCards, R!Status, R!RequestsTypeOK, RequestsTyped
  <2>3. confirm' \in {R!Closed} \union [request : R!Requests, action : {"decline", "withdraw"}]
    BY <1>6, <1>0 DEF R!Visit, R!unmountCards, R!RequestsTypeOK, RequestsTyped
  <2>4. calls' \in [CallIds -> RequestCalls] /\ CallsAreTrue' /\ R!BusyIsInFlight'
    <3> DEFINE stays == ~left /\ k.page = "list" /\ query.key.page = "list"
    <3>1. /\ calls' = R!Orphan(calls, stays)
          /\ busy' = {} /\ confirm' = R!Closed /\ requests' = requests
      BY <1>6 DEF R!Visit, R!unmountCards
    <3>2. stays \in BOOLEAN
      OBVIOUS
    <3> HIDE DEF stays
    <3> QED BY <1>0, <3>1, <3>2, OrphansAreTrue
  <2>5. ToldIsTrue'
    BY <1>6, <1>0, <2>2
    DEF R!Visit, R!unmountCards, ToldIsTrue, RequestQueried, R!Load, R!Rekey, R!Queries
  <2> QED BY <2>1, <2>2, <2>3, <2>4, <2>5
  DEF RequestsTyped, R!RequestsTypeOK, RequestQueried, RequestCalls
<1>7. ASSUME NEW r \in R!Requests, NEW action \in {"accept", "decline", "withdraw"}, R!setConfirm(r, action)
      PROVE  RequestsInv'
  <2>1. RequestQueried'
    BY <1>7, <1>0, RequestQueryKept DEF R!setConfirm
  <2>2. /\ requests' \in [R!Requests -> R!Status] /\ told' \subseteq R!Requests
        /\ left' \in BOOLEAN /\ busy' \subseteq R!Requests
        /\ \A x \in R!Requests : requests[x] # "PENDING" => requests'[x] # "PENDING"
    BY <1>7, <1>0
    DEF R!setConfirm, R!Status, R!RequestsTypeOK, RequestsTyped, R!availableActions
  <2>3. confirm' \in {R!Closed} \union [request : R!Requests, action : {"decline", "withdraw"}]
    BY <1>7, <1>0 DEF R!setConfirm, R!RequestsTypeOK, RequestsTyped, R!availableActions
  <2>4. calls' \in [CallIds -> RequestCalls] /\ CallsAreTrue' /\ R!BusyIsInFlight'
    BY <1>7, <1>0, <2>2 DEF R!setConfirm, CallsAreTrue, R!BusyIsInFlight, RequestCalls
  <2>5. ToldIsTrue'
    BY <1>7, <1>0, <2>2 DEF R!setConfirm, ToldIsTrue, RequestQueried, R!Queries
  <2> QED BY <2>1, <2>2, <2>3, <2>4, <2>5
  DEF RequestsTyped, R!RequestsTypeOK, RequestQueried, RequestCalls
<1>8. ASSUME NEW r \in R!Requests, NEW action \in {"accept", "decline", "withdraw"}, NEW c \in CallIds, R!run(r, action, c)
      PROVE  RequestsInv'
  <2>1. RequestQueried'
    BY <1>8, <1>0, RequestQueryKept DEF R!run
  <2>2. /\ requests' \in [R!Requests -> R!Status] /\ told' \subseteq R!Requests
        /\ left' \in BOOLEAN /\ busy' \subseteq R!Requests
        /\ \A x \in R!Requests : requests[x] # "PENDING" => requests'[x] # "PENDING"
    BY <1>8, <1>0 DEF R!run, R!Status, R!RequestsTypeOK, RequestsTyped, R!availableActions
  <2>3. confirm' \in {R!Closed} \union [request : R!Requests, action : {"decline", "withdraw"}]
    BY <1>8, <1>0 DEF R!run, R!RequestsTypeOK, RequestsTyped, R!availableActions
  <2>4. calls' \in [CallIds -> RequestCalls] /\ CallsAreTrue' /\ R!BusyIsInFlight'
    <3> DEFINE x == [request |-> r, action |-> action, answer |-> "asked", card |-> TRUE, page |-> TRUE]
    <3>1. /\ calls[c] = R!Free /\ calls' = [calls EXCEPT ![c] = x]
          /\ busy' = busy \union {r} /\ requests' = requests
      BY <1>8 DEF R!run
    <3>2. x \in RequestCalls
      BY DEF RequestCalls
    <3>3. calls' \in [CallIds -> RequestCalls]
      BY <1>0, <3>1, <3>2
    <3>4. CallsAreTrue'
      BY <1>0, <3>1 DEF CallsAreTrue
    <3>5. R!BusyIsInFlight'
      <4>1. ASSUME NEW s \in busy'
            PROVE  \E d \in CallIds : calls'[d].request = s /\ calls'[d].card
        <5>1. CASE s = r
          BY <5>1, <1>0, <3>1
        <5>2. CASE s # r
          <6>1. PICK d \in CallIds : calls[d].request = s /\ calls[d].card
            BY <5>2, <3>1 DEF R!BusyIsInFlight
          <6>2. d # c
            BY <6>1, <3>1 DEF R!Free
          <6> QED BY <6>1, <6>2, <1>0, <3>1
        <5> QED BY <5>1, <5>2
      <4> QED BY <4>1 DEF R!BusyIsInFlight
    <3> QED BY <3>3, <3>4, <3>5
  <2>5. ToldIsTrue'
    BY <1>8, <1>0, <2>2 DEF R!run, ToldIsTrue, RequestQueried, R!Queries
  <2> QED BY <2>1, <2>2, <2>3, <2>4, <2>5
  DEF RequestsTyped, R!RequestsTypeOK, RequestQueried, RequestCalls
<1>9. ASSUME NEW c \in CallIds, R!HandleCall(c)
      PROVE  RequestsInv'
  <2>1. RequestQueried'
    BY <1>9, <1>0, RequestQueryKept DEF R!HandleCall
  <2>2. /\ requests' \in [R!Requests -> R!Status] /\ told' \subseteq R!Requests
        /\ left' \in BOOLEAN /\ busy' \subseteq R!Requests
        /\ \A x \in R!Requests : requests[x] # "PENDING" => requests'[x] # "PENDING"
    <3>1. calls[c].action \in {"accept", "decline", "withdraw"} /\ calls[c].request \in R!Requests
      BY <1>0, <1>9 DEF R!HandleCall, CallsAreTrue, RequestCalls
    <3>2. R!Became(calls[c].action) \in R!Status \ {"PENDING"}
      BY <3>1 DEF R!Became, R!Status
    <3>3. \/ requests' = requests
          \/ requests' = [requests EXCEPT ![calls[c].request] = R!Became(calls[c].action)]
      BY <1>9 DEF R!HandleCall
    <3> QED BY <1>9, <1>0, <3>1, <3>2, <3>3 DEF R!HandleCall, RequestsTyped, R!RequestsTypeOK
  <2>3. confirm' \in {R!Closed} \union [request : R!Requests, action : {"decline", "withdraw"}]
    BY <1>9, <1>0 DEF R!HandleCall, R!RequestsTypeOK, RequestsTyped
  <2>4. calls' \in [CallIds -> RequestCalls] /\ CallsAreTrue' /\ R!BusyIsInFlight'
    <3>1. calls[c].action \in {"accept", "decline", "withdraw"} /\ calls[c].request \in R!Requests
      BY <1>0, <1>9 DEF R!HandleCall, CallsAreTrue, RequestCalls
    <3>2. R!Became(calls[c].action) # "PENDING"
      BY <3>1 DEF R!Became
    <3>3. PICK a \in {"ok", "request_not_pending", "request_outdated"} :
             /\ calls' = [calls EXCEPT ![c].answer = a]
             /\ a \in {"ok", "request_not_pending"} => requests'[calls[c].request] # "PENDING"
      BY <1>9, <1>0, <3>1, <3>2 DEF R!HandleCall
    <3>4. ASSUME NEW x \in RequestCalls
          PROVE  /\ [x EXCEPT !.answer = a] \in RequestCalls
                 /\ [x EXCEPT !.answer = a].request = x.request
                 /\ [x EXCEPT !.answer = a].action = x.action
                 /\ [x EXCEPT !.answer = a].answer = a
                 /\ [x EXCEPT !.answer = a].card = x.card
                 /\ [x EXCEPT !.answer = a].page = x.page
      BY DEF RequestCalls
    <3>5. /\ calls' \in [CallIds -> RequestCalls]
          /\ \A d \in CallIds : d # c => calls'[d] = calls[d]
          /\ calls'[c] = [calls[c] EXCEPT !.answer = a]
      BY <1>0, <3>3, <3>4
    <3>6. /\ calls'[c].request = calls[c].request /\ calls'[c].action = calls[c].action
          /\ calls'[c].answer = a
          /\ calls'[c].card = calls[c].card /\ calls'[c].page = calls[c].page
      BY <1>0, <3>4, <3>5
    <3>7. busy' = busy
      BY <1>9 DEF R!HandleCall
    <3>8. CallsAreTrue'
      <4>1. ASSUME NEW d \in CallIds
            PROVE  /\ calls'[d].answer # "none" =>
                         calls'[d].request \in R!Requests /\ calls'[d].action # "none"
                   /\ calls'[d].answer \in {"ok", "request_not_pending"} =>
                         requests'[calls'[d].request] # "PENDING"
                   /\ calls'[d].card => calls'[d].page
        <5>1. CASE d = c
          BY <5>1, <3>1, <3>3, <3>6 DEF CallsAreTrue
        <5>2. CASE d # c
          BY <5>2, <2>2, <3>5 DEF CallsAreTrue
        <5> QED BY <5>1, <5>2
      <4> QED BY <4>1 DEF CallsAreTrue
    <3>9. R!BusyIsInFlight'
      <4>1. ASSUME NEW d \in CallIds
            PROVE  calls'[d].request = calls[d].request /\ (calls[d].card => calls'[d].card)
        BY <3>5, <3>6
      <4>2. ASSUME NEW s \in busy
            PROVE  \E d \in CallIds : calls'[d].request = s /\ calls'[d].card
        <5>1. PICK d \in CallIds : calls[d].request = s /\ calls[d].card
          BY DEF R!BusyIsInFlight
        <5> QED BY <4>1, <5>1
      <4> QED BY <3>7, <4>2 DEF R!BusyIsInFlight
    <3> QED BY <3>5, <3>8, <3>9
  <2>5. ToldIsTrue'
    BY <1>9, <1>0, <2>2 DEF R!HandleCall, ToldIsTrue, RequestQueried, R!Queries
  <2> QED BY <2>1, <2>2, <2>3, <2>4, <2>5
  DEF RequestsTyped, R!RequestsTypeOK, RequestQueried, RequestCalls
<1>10. ASSUME NEW c \in CallIds, R!Accepted(c)
      PROVE  RequestsInv'
  <2>1. RequestQueried'
    BY <1>10, <1>0, RequestQueryKept DEF R!Accepted, R!unmountCards
  <2>2. /\ requests' \in [R!Requests -> R!Status] /\ told' \subseteq R!Requests
        /\ left' \in BOOLEAN /\ busy' \subseteq R!Requests
        /\ \A x \in R!Requests : requests[x] # "PENDING" => requests'[x] # "PENDING"
    BY <1>10, <1>0 DEF R!Accepted, R!unmountCards, R!Status, R!RequestsTypeOK, RequestsTyped
  <2>3. confirm' \in {R!Closed} \union [request : R!Requests, action : {"decline", "withdraw"}]
    BY <1>10, <1>0 DEF R!Accepted, R!unmountCards, R!RequestsTypeOK, RequestsTyped
  <2>4. calls' \in [CallIds -> RequestCalls] /\ CallsAreTrue' /\ R!BusyIsInFlight'
    <3>1. [calls EXCEPT ![c] = R!Free] \in [CallIds -> RequestCalls]
      BY <1>0 DEF R!Free, RequestCalls
    <3>2. \A d \in CallIds : \/ [calls EXCEPT ![c] = R!Free][d] = calls[d]
                            \/ [calls EXCEPT ![c] = R!Free][d] = R!Free
      BY <1>0
    <3>3. /\ calls' = R!Orphan([calls EXCEPT ![c] = R!Free], FALSE)
          /\ busy' = {} /\ confirm' = R!Closed /\ requests' = requests
      BY <1>10 DEF R!Accepted, R!unmountCards
    <3> QED BY <1>0, <3>1, <3>2, <3>3, OrphansAreTrue
  <2>5. ToldIsTrue'
    BY <1>10, <1>0, <2>2 DEF R!Accepted, R!unmountCards, ToldIsTrue, RequestQueried, R!Queries
  <2> QED BY <2>1, <2>2, <2>3, <2>4, <2>5
  DEF RequestsTyped, R!RequestsTypeOK, RequestQueried, RequestCalls
<1>11. ASSUME NEW c \in CallIds, R!Changed(c)
      PROVE  RequestsInv'
  <2>1. RequestQueried'
    BY <1>11, <1>0, RequestQueryKept DEF R!Changed, R!unmountCards, R!changed
  <2>2. /\ requests' \in [R!Requests -> R!Status] /\ told' \subseteq R!Requests
        /\ left' \in BOOLEAN /\ busy' \subseteq R!Requests
        /\ \A x \in R!Requests : requests[x] # "PENDING" => requests'[x] # "PENDING"
    <3>0. calls[c].request \in R!Requests
      BY <1>11 DEF R!Changed, CallsAreTrue
    <3> QED BY <1>11, <1>0, <3>0
    DEF R!Changed, R!changed, R!unmountCards, RequestsTyped, R!RequestsTypeOK
  <2>3. confirm' \in {R!Closed} \union [request : R!Requests, action : {"decline", "withdraw"}]
    BY <1>11, <1>0 DEF R!Changed, R!unmountCards, R!changed, R!RequestsTypeOK, RequestsTyped
  <2>4. calls' \in [CallIds -> RequestCalls] /\ CallsAreTrue' /\ R!BusyIsInFlight'
    <3>a. CASE calls[c].page
      <4>1. [calls EXCEPT ![c] = R!Free] \in [CallIds -> RequestCalls]
        BY <1>0 DEF R!Free, RequestCalls
      <4>2. \A d \in CallIds : \/ [calls EXCEPT ![c] = R!Free][d] = calls[d]
                              \/ [calls EXCEPT ![c] = R!Free][d] = R!Free
        BY <1>0
      <4>3. /\ calls' = R!Orphan([calls EXCEPT ![c] = R!Free], TRUE)
            /\ busy' = {} /\ confirm' = R!Closed /\ requests' = requests
        BY <1>11, <3>a DEF R!Changed, R!changed, R!unmountCards
      <4> QED BY <1>0, <4>1, <4>2, <4>3, OrphansAreTrue
    <3>b. CASE ~calls[c].page
      <4>1. /\ calls' = [calls EXCEPT ![c] = R!Free]
            /\ busy' = busy /\ requests' = requests
        BY <1>11, <3>b DEF R!Changed
      <4>2. calls' \in [CallIds -> RequestCalls] /\ CallsAreTrue'
        BY <1>0, <4>1 DEF CallsAreTrue, R!Free, RequestCalls
      <4>3. ~calls[c].card
        BY <3>b DEF CallsAreTrue
      <4>4. R!BusyIsInFlight'
        BY <1>0, <4>1, <4>3 DEF R!BusyIsInFlight
      <4> QED BY <4>2, <4>4
    <3> QED BY <3>a, <3>b
  <2>5. ToldIsTrue'
    <3>a. CASE calls[c].page
      <4>1. /\ query'.call = "asked" /\ query'.status = "loading"
            /\ told' \subseteq told \union {calls[c].request}
            /\ calls[c].answer # "request_outdated" => requests[calls[c].request] # "PENDING"
            /\ calls[c].answer = "request_outdated" => told' = told
            /\ requests' = requests
        BY <1>11, <3>a DEF R!Changed, R!changed, R!Retry, R!Load, CallsAreTrue
      <4> QED BY <4>1 DEF ToldIsTrue
    <3>b. CASE ~calls[c].page
      BY <1>11, <3>b DEF R!Changed, ToldIsTrue
    <3> QED BY <3>a, <3>b
  <2> QED BY <2>1, <2>2, <2>3, <2>4, <2>5
  DEF RequestsTyped, R!RequestsTypeOK, RequestQueried, RequestCalls
<1>12. ASSUME NEW c \in CallIds, R!CallFails(c)
      PROVE  RequestsInv'
  <2>1. RequestQueried'
    BY <1>12, <1>0, RequestQueryKept DEF R!CallFails
  <2>2. /\ requests' \in [R!Requests -> R!Status] /\ told' \subseteq R!Requests
        /\ left' \in BOOLEAN /\ busy' \subseteq R!Requests
        /\ \A x \in R!Requests : requests[x] # "PENDING" => requests'[x] # "PENDING"
    BY <1>12, <1>0 DEF R!CallFails, R!Status, R!RequestsTypeOK, RequestsTyped
  <2>3. confirm' \in {R!Closed} \union [request : R!Requests, action : {"decline", "withdraw"}]
    BY <1>12, <1>0 DEF R!CallFails, R!RequestsTypeOK, RequestsTyped
  <2>4. calls' \in [CallIds -> RequestCalls] /\ CallsAreTrue' /\ R!BusyIsInFlight'
    <3>1. /\ calls' = [calls EXCEPT ![c] = R!Free] /\ requests' = requests
          /\ busy' = IF calls[c].card THEN busy \ {calls[c].request} ELSE busy
      BY <1>12 DEF R!CallFails
    <3>2. calls' \in [CallIds -> RequestCalls] /\ CallsAreTrue'
      BY <1>0, <3>1 DEF CallsAreTrue, R!Free, RequestCalls
    <3>3. ASSUME NEW s \in busy'
          PROVE  \E d \in CallIds : calls'[d].request = s /\ calls'[d].card
      <4>1. PICK d \in CallIds : calls[d].request = s /\ calls[d].card
        BY <3>1 DEF R!BusyIsInFlight
      <4>2. d # c
        BY <3>1, <4>1
      <4> QED BY <1>0, <3>1, <4>1, <4>2
    <3> QED BY <3>2, <3>3 DEF R!BusyIsInFlight
  <2>5. ToldIsTrue'
    BY <1>12, <1>0, <2>2 DEF R!CallFails, ToldIsTrue, RequestQueried, R!Queries
  <2> QED BY <2>1, <2>2, <2>3, <2>4, <2>5
  DEF RequestsTyped, R!RequestsTypeOK, RequestQueried, RequestCalls
<1>13. ASSUME NEW r \in R!Requests, NEW status \in R!Status \ {"PENDING"}, R!PartnerAnswers(r, status)
      PROVE  RequestsInv'
  <2>1. RequestQueried'
    BY <1>13, <1>0, RequestQueryKept DEF R!PartnerAnswers
  <2>2. /\ requests' \in [R!Requests -> R!Status] /\ told' \subseteq R!Requests
        /\ left' \in BOOLEAN /\ busy' \subseteq R!Requests
        /\ \A x \in R!Requests : requests[x] # "PENDING" => requests'[x] # "PENDING"
    BY <1>13, <1>0 DEF R!PartnerAnswers, R!Status, R!RequestsTypeOK, RequestsTyped
  <2>3. confirm' \in {R!Closed} \union [request : R!Requests, action : {"decline", "withdraw"}]
    BY <1>13, <1>0 DEF R!PartnerAnswers, R!RequestsTypeOK, RequestsTyped
  <2>4. calls' \in [CallIds -> RequestCalls] /\ CallsAreTrue' /\ R!BusyIsInFlight'
    BY <1>13, <1>0, <2>2 DEF R!PartnerAnswers, CallsAreTrue, R!BusyIsInFlight, RequestCalls
  <2>5. ToldIsTrue'
    BY <1>13, <1>0, <2>2 DEF R!PartnerAnswers, ToldIsTrue, RequestQueried, R!Queries
  <2> QED BY <2>1, <2>2, <2>3, <2>4, <2>5
  DEF RequestsTyped, R!RequestsTypeOK, RequestQueried, RequestCalls
<1> QED BY <1>1, <1>2, <1>3, <1>4, <1>5, <1>6, <1>7, <1>8, <1>9, <1>10, <1>11, <1>12, <1>13
DEF R!RequestsNext

LEMMA RequestsInvHolds == Spec => [](screen = "requests" => RequestsInv)
<1> DEFINE Inv == screen = "requests" => RequestsInv
<1>1. Init => Inv
  BY RequestsInitHolds DEF Init
<1>2. Inv /\ [Next]_vars => Inv'
  <2> SUFFICES ASSUME Inv, [Next]_vars, screen' = "requests" PROVE RequestsInv'
    OBVIOUS
  <2>1. CASE Next
    BY <2>1, StepOfPage, RequestsStep
  <2>2. CASE UNCHANGED vars
    <3>1. UNCHANGED requestVars /\ RequestsInv
      BY <2>2 DEF vars
    <3> QED BY <3>1
    DEF requestVars, RequestsInv, RequestsTyped, R!RequestsTypeOK, RequestQueried,
        CallsAreTrue, ToldIsTrue, R!BusyIsInFlight
  <2> QED BY <2>1, <2>2
<1> QED BY <1>1, <1>2, PTL DEF Spec

\* Whatever order the answers of the buttons and of the loads come in, a
\* page of requests never shows a request it said was answered as pending,
\* and a card it disabled waits for a call in flight.
THEOREM AnswersAreHonestHolds == Spec => []AnswersAreHonest
<1>1. (screen = "requests" => RequestsInv) => AnswersAreHonest
  BY DEF AnswersAreHonest, RequestsInv, ToldIsTrue, R!ToldIsShown, R!shown, R!Ready, R!Shows
<1> QED BY <1>1, RequestsInvHolds, PTL

-----------------------------------------------------------------------------
(***************************************************************************)
(* The page of a student and its proposal dialog.                          *)
(***************************************************************************)
ProposalQueried ==
    /\ candidate \in P!Queries({"student"}, Matches)
    /\ candidate.call = "served" => candidate.answer \in Matches
    /\ candidate.status = "ready" => candidate.data \in Matches /\ candidate.call = "none"

ProposalPosts ==
    [answer : {"asked", "created", "duplicate_request", "validation_failed"},
     draft : P!Drafts, options : Matches, page : BOOLEAN]

\* The dialog is open over the match it is about, and waits for the answer
\* of its proposal.
DialogIsOver ==
    /\ dialog \in P!Dialogs \/ dialog = P!NoDialog
    /\ dialog \in P!Dialogs => candidate.status = "ready"
    /\ post \in ProposalPosts \/ post = P!NoPost
    /\ post \in ProposalPosts /\ post.page => dialog \in P!Dialogs /\ dialog.pending

ProposalInv ==
    /\ match \in Matches
    /\ waiting \subseteq P!SkillIds \X P!SkillIds
    /\ ProposalQueried
    /\ DialogIsOver
    /\ P!ProposalIsFair

LEMMA ProposalQueryKept ==
    ASSUME ProposalQueried, match \in Matches,
           \/ candidate' = candidate
           \/ candidate' = P!Retry(candidate)
           \/ P!Asked(candidate) /\ candidate' = P!Served(candidate, match)
           \/ P!Arriving(candidate) /\ candidate' = P!Taken(candidate)
           \/ candidate' = P!Failed(candidate)
    PROVE  ProposalQueried'
<1> USE DEF ProposalQueried
<1>1. CASE candidate' = candidate BY <1>1
<1>2. CASE candidate' = P!Retry(candidate)
  BY <1>2 DEF P!Load, P!Retry, P!Queries, P!Nothing
<1>3. CASE P!Asked(candidate) /\ candidate' = P!Served(candidate, match)
  BY <1>3 DEF P!Served, P!Asked, P!Queries
<1>4. CASE P!Arriving(candidate) /\ candidate' = P!Taken(candidate)
  BY <1>4 DEF P!Taken, P!Arriving, P!Queries, P!Nothing
<1>5. CASE candidate' = P!Failed(candidate)
  BY <1>5 DEF P!Failed, P!Queries, P!Nothing
<1> QED BY <1>1, <1>2, <1>3, <1>4, <1>5

LEMMA MatchSkills ==
    ASSUME NEW m \in Matches
    PROVE  m.teach \subseteq P!SkillIds /\ m.learn \subseteq P!SkillIds /\ m.formats \subseteq P!Formats
BY DEF P!SkillIds, P!Formats

LEMMA InitialIsDraft ==
    ASSUME NEW o \in Matches, o.teach # {}, o.learn # {}, o.formats # {}
    PROVE  /\ P!initialProposal(o) \in P!Drafts
           /\ P!initialProposal(o).teach = P!initialProposal(o).learn
<1>1. ASSUME NEW set, set # {} PROVE P!Only(set) \in set \union {P!Unset}
  BY <1>1 DEF P!Only
<1>2. /\ P!Only(o.teach) \in P!SkillIds /\ P!Only(o.learn) \in P!SkillIds
      /\ P!Only(o.formats) \in P!Formats
  <2>1. /\ P!Only(o.teach) \in o.teach \union {P!Unset}
        /\ P!Only(o.learn) \in o.learn \union {P!Unset}
        /\ P!Only(o.formats) \in o.formats \union {P!Unset}
    BY <1>1
  <2>2. P!Unset \in P!SkillIds /\ P!Unset \in P!Formats
    BY DEF P!SkillIds, P!Formats
  <2> QED BY <2>1, <2>2, MatchSkills
<1>3. [sessions |-> 2, minutes |-> 60] \in P!Plans
  BY PagesAssumption DEF P!PlansAssumption, P!Plans
<1> QED BY <1>2, <1>3 DEF P!initialProposal, P!Drafts

LEMMA EditedIsDraft ==
    ASSUME candidate.data \in Matches, NEW d \in P!Drafts, NEW e \in P!Edited(d)
    PROVE  e \in P!Drafts
<1>1. ASSUME NEW x, x \in P!SkillIds
      PROVE  [d EXCEPT !.teachSkillId = x] \in P!Drafts /\ [d EXCEPT !.learnSkillId = x] \in P!Drafts
  BY <1>1 DEF P!Drafts
<1>2. ASSUME NEW x \in P!Formats PROVE [d EXCEPT !.format = x] \in P!Drafts
  BY DEF P!Drafts
<1>3. ASSUME NEW p \in P!Plans
      PROVE  [d EXCEPT !.teach = p] \in P!Drafts /\ [d EXCEPT !.learn = p] \in P!Drafts
  BY DEF P!Drafts
<1>4. ASSUME NEW p \in P!Plans, NEW n \in Counts PROVE [p EXCEPT !.sessions = n] \in P!Plans
  BY DEF P!Plans
<1>5. ASSUME NEW p \in P!Plans, NEW n \in Durations PROVE [p EXCEPT !.minutes = n] \in P!Plans
  BY DEF P!Plans
<1>6. d.teach \in P!Plans /\ d.learn \in P!Plans
  BY DEF P!Drafts
<1>7. /\ P!options.teach \subseteq P!SkillIds /\ P!options.learn \subseteq P!SkillIds
      /\ P!options.formats \subseteq P!Formats
  BY MatchSkills DEF P!options
<1>8. \/ \E s \in P!options.teach : e = [d EXCEPT !.teachSkillId = s]
      \/ \E s \in P!options.learn : e = [d EXCEPT !.learnSkillId = s]
      \/ \E f \in P!options.formats : e = [d EXCEPT !.format = f]
      \/ \E n \in Counts : e = [d EXCEPT !.teach = [d.teach EXCEPT !.sessions = n]]
      \/ \E n \in Durations : e = [d EXCEPT !.teach = [d.teach EXCEPT !.minutes = n]]
      \/ \E n \in Counts : e = [d EXCEPT !.learn = [d.learn EXCEPT !.sessions = n]]
      \/ \E n \in Durations : e = [d EXCEPT !.learn = [d.learn EXCEPT !.minutes = n]]
  BY Zenon DEF P!Edited
<1> QED BY <1>1, <1>2, <1>3, <1>4, <1>5, <1>6, <1>7, <1>8

LEMMA ChangeIsDraft ==
    ASSUME NEW d \in P!Drafts, NEW mirrored \in BOOLEAN
    PROVE  /\ P!change(d, mirrored) \in P!Drafts
           /\ mirrored => P!change(d, mirrored).teach = P!change(d, mirrored).learn
BY DEF P!change, P!Drafts

LEMMA DialogIsOpen ==
    /\ \A d \in P!Dialogs : d.open
    /\ ~P!NoDialog.open
    /\ P!NoPost \notin ProposalPosts
BY DEF P!Dialogs, P!NoDialog, P!NoPost, ProposalPosts

(* What each action leaves of an open dialog.                               *)

LEMMA DialogEdited ==
    ASSUME NEW d \in P!Dialogs, NEW x \in P!Drafts
    PROVE  LET new == [d EXCEPT !.draft = x]
           IN  /\ new \in P!Dialogs /\ new.draft = x
               /\ new.mirrored <=> d.mirrored
               /\ new.pending <=> d.pending
BY DEF P!Dialogs

LEMMA DialogToggled ==
    ASSUME NEW d \in P!Dialogs, NEW x \in P!Drafts, NEW b \in BOOLEAN
    PROVE  LET new == [d EXCEPT !.mirrored = b, !.draft = x]
           IN  /\ new \in P!Dialogs /\ new.draft = x
               /\ new.mirrored <=> b
               /\ new.pending <=> d.pending
BY DEF P!Dialogs

LEMMA DialogSent ==
    ASSUME NEW d \in P!Dialogs
    PROVE  LET new == [d EXCEPT !.pending = TRUE]
           IN  /\ new \in P!Dialogs /\ new.draft = d.draft
               /\ new.mirrored <=> d.mirrored
               /\ new.pending
BY DEF P!Dialogs

LEMMA DialogHeard ==
    ASSUME NEW d \in P!Dialogs, NEW b \in BOOLEAN
    PROVE  LET new == [d EXCEPT !.pending = FALSE, !.created = b]
           IN  /\ new \in P!Dialogs /\ new.draft = d.draft
               /\ new.mirrored <=> d.mirrored
BY DEF P!Dialogs

LEMMA ProposalStep ==
    ASSUME ProposalInv, P!ProposalNext
    PROVE  ProposalInv'
<1> USE DialogIsOpen DEF ProposalInv
<1>0. /\ dialog \in P!Dialogs \/ dialog = P!NoDialog
      /\ dialog \in P!Dialogs => candidate.status = "ready" /\ candidate.data \in Matches
      /\ post \in ProposalPosts \/ post = P!NoPost
      /\ post \in ProposalPosts /\ post.page => dialog \in P!Dialogs /\ dialog.pending
      /\ dialog.open /\ dialog.mirrored => dialog.draft.teach = dialog.draft.learn
  BY DEF DialogIsOver, ProposalQueried, P!ProposalIsFair
<1>1. ASSUME P!AnswerCandidate
      PROVE  ProposalInv'
  <2>1. ProposalQueried'
    BY <1>1, ProposalQueryKept DEF P!AnswerCandidate
  <2>2. match' \in Matches /\ waiting' \subseteq P!SkillIds \X P!SkillIds
    BY <1>1 DEF P!AnswerCandidate
  <2>3. DialogIsOver'
    BY <1>1 DEF P!AnswerCandidate, DialogIsOver, ProposalQueried, P!Queries, P!Served, P!Asked
  <2>4. P!ProposalIsFair'
    BY <1>1 DEF P!AnswerCandidate, P!ProposalIsFair, P!Hours, DialogIsOver, P!NoDialog, P!NoPost
  <2> QED BY <2>1, <2>2, <2>3, <2>4
<1>2. ASSUME P!TakeCandidate
      PROVE  ProposalInv'
  <2>1. ProposalQueried'
    BY <1>2, ProposalQueryKept DEF P!TakeCandidate
  <2>2. match' \in Matches /\ waiting' \subseteq P!SkillIds \X P!SkillIds
    BY <1>2 DEF P!TakeCandidate
  <2>3. DialogIsOver'
    BY <1>2
    DEF P!TakeCandidate, DialogIsOver, ProposalQueried, P!Queries, P!InFlight, P!Arriving
  <2>4. P!ProposalIsFair'
    BY <1>2 DEF P!TakeCandidate, P!ProposalIsFair, P!Hours, DialogIsOver, P!NoDialog, P!NoPost
  <2> QED BY <2>1, <2>2, <2>3, <2>4
<1>3. ASSUME P!Reopen
      PROVE  ProposalInv'
  <2>1. ProposalQueried'
    BY <1>3, ProposalQueryKept DEF P!Reopen
  <2>2. match' \in Matches /\ waiting' \subseteq P!SkillIds \X P!SkillIds
    BY <1>3 DEF P!Reopen
  <2>3. DialogIsOver'
    <3>1. dialog' = P!NoDialog /\ P!NoDialog \notin P!Dialogs
      BY <1>3 DEF P!Reopen
    <3>2. post' = P!NoPost \/ (post \in ProposalPosts /\ post' = [post EXCEPT !.page = FALSE])
      BY <1>0, <1>3 DEF P!Reopen
    <3>3. post \in ProposalPosts => /\ [post EXCEPT !.page = FALSE] \in ProposalPosts
                                   /\ ~[post EXCEPT !.page = FALSE].page
      BY DEF ProposalPosts
    <3> QED BY <3>1, <3>2, <3>3 DEF DialogIsOver
  <2>4. P!ProposalIsFair'
    BY <1>3 DEF P!Reopen, P!ProposalIsFair, P!Hours, DialogIsOver, P!NoDialog, P!NoPost
  <2> QED BY <2>1, <2>2, <2>3, <2>4
<1>4. ASSUME P!OpenProposal
      PROVE  ProposalInv'
  <2>1. ProposalQueried'
    BY <1>4, ProposalQueryKept DEF P!OpenProposal
  <2>2. match' \in Matches /\ waiting' \subseteq P!SkillIds \X P!SkillIds
    BY <1>4 DEF P!OpenProposal
  <2>3. DialogIsOver' /\ P!ProposalIsFair'
    <3> DEFINE new == [open |-> TRUE, draft |-> P!initialProposal(P!options), mirrored |-> TRUE,
                       pending |-> FALSE, created |-> FALSE]
    <3>1. candidate.status = "ready" /\ P!options \in Matches
      BY <1>4 DEF P!OpenProposal, P!Ready, P!Shows, ProposalQueried, P!options
    <3>2. /\ P!initialProposal(P!options) \in P!Drafts
          /\ P!initialProposal(P!options).teach = P!initialProposal(P!options).learn
      BY <1>4, <3>1, InitialIsDraft DEF P!OpenProposal, P!canPropose
    <3>3. /\ new \in P!Dialogs /\ new.mirrored
          /\ new.draft = P!initialProposal(P!options)
      BY <3>2 DEF P!Dialogs
    <3>4. dialog' = new /\ UNCHANGED <<candidate, post>> /\ ~dialog.open
      BY <1>4 DEF P!OpenProposal
    <3> HIDE DEF new
    <3>5. DialogIsOver'
      BY <1>0, <3>1, <3>3, <3>4 DEF DialogIsOver
    <3> QED BY <3>2, <3>3, <3>4, <3>5 DEF P!ProposalIsFair, P!Hours
  <2> QED BY <2>1, <2>2, <2>3
<1>5. ASSUME P!CloseProposal
      PROVE  ProposalInv'
  <2>1. ProposalQueried'
    BY <1>5, ProposalQueryKept DEF P!CloseProposal
  <2>2. match' \in Matches /\ waiting' \subseteq P!SkillIds \X P!SkillIds
    BY <1>5 DEF P!CloseProposal
  <2>3. DialogIsOver' /\ P!ProposalIsFair'
    <3>1. dialog' = P!NoDialog /\ ~(post \in ProposalPosts /\ post.page)
      BY <1>0, <1>5 DEF P!CloseProposal
    <3>2. UNCHANGED <<candidate, post>>
      BY <1>5 DEF P!CloseProposal
    <3>3. DialogIsOver'
      BY <1>0, <3>1, <3>2 DEF DialogIsOver
    <3> QED BY <3>1, <3>2, <3>3 DEF P!ProposalIsFair, P!Hours
  <2> QED BY <2>1, <2>2, <2>3
<1>6. ASSUME P!Edit
      PROVE  ProposalInv'
  <2>1. ProposalQueried'
    BY <1>6, ProposalQueryKept DEF P!Edit
  <2>2. match' \in Matches /\ waiting' \subseteq P!SkillIds \X P!SkillIds
    BY <1>6 DEF P!Edit
  <2>3. DialogIsOver' /\ P!ProposalIsFair'
    <3>1. dialog \in P!Dialogs
      BY <1>0, <1>6 DEF P!Edit, P!filling
    <3>2. dialog.draft \in P!Drafts /\ dialog.mirrored \in BOOLEAN
      BY <3>1 DEF P!Dialogs
    <3>3. PICK edited \in P!Edited(dialog.draft) :
             dialog' = [dialog EXCEPT !.draft = P!change(edited, dialog.mirrored)]
      BY <1>6 DEF P!Edit
    <3>4. edited \in P!Drafts
      BY <1>0, <3>1, <3>2, EditedIsDraft
    <3> DEFINE new == P!change(edited, dialog.mirrored)
    <3>5. new \in P!Drafts /\ (dialog.mirrored => new.teach = new.learn)
      BY <3>2, <3>4, ChangeIsDraft
    <3>6. dialog' = [dialog EXCEPT !.draft = new]
      BY <3>3
    <3> HIDE DEF new
    <3>7. /\ [dialog EXCEPT !.draft = new] \in P!Dialogs
          /\ [dialog EXCEPT !.draft = new].draft = new
          /\ [dialog EXCEPT !.draft = new].mirrored <=> dialog.mirrored
          /\ [dialog EXCEPT !.draft = new].pending <=> dialog.pending
      BY <3>1, <3>5, DialogEdited
    <3>8. /\ dialog' \in P!Dialogs /\ dialog'.draft = new
          /\ dialog'.mirrored <=> dialog.mirrored
          /\ dialog'.pending <=> dialog.pending
      BY ONLY <3>6, <3>7
    <3>9. UNCHANGED <<candidate, post>>
      BY <1>6 DEF P!Edit
    <3>10. DialogIsOver'
      BY <1>0, <3>1, <3>8, <3>9 DEF DialogIsOver
    <3> QED BY <3>5, <3>8, <3>9, <3>10 DEF P!ProposalIsFair, P!Hours
  <2> QED BY <2>1, <2>2, <2>3
<1>7. ASSUME P!submit
      PROVE  ProposalInv'
  <2>1. ProposalQueried'
    BY <1>7, ProposalQueryKept DEF P!submit
  <2>2. match' \in Matches /\ waiting' \subseteq P!SkillIds \X P!SkillIds
    BY <1>7 DEF P!submit
  <2>3. DialogIsOver' /\ P!ProposalIsFair'
    <3>1. dialog \in P!Dialogs
      BY <1>0, <1>7 DEF P!submit, P!filling
    <3>2. /\ [dialog EXCEPT !.pending = TRUE] \in P!Dialogs
          /\ [dialog EXCEPT !.pending = TRUE].draft = dialog.draft
          /\ [dialog EXCEPT !.pending = TRUE].mirrored <=> dialog.mirrored
          /\ [dialog EXCEPT !.pending = TRUE].pending
      BY <3>1, DialogSent
    <3>3. /\ dialog' = [dialog EXCEPT !.pending = TRUE] /\ candidate' = candidate
          /\ post' = [answer |-> "asked", draft |-> dialog.draft, options |-> P!options, page |-> TRUE]
          /\ P!validateProposal(dialog.draft, P!options)
      BY <1>7 DEF P!submit
    <3>4. /\ dialog' \in P!Dialogs /\ dialog'.draft = dialog.draft /\ dialog'.pending
          /\ dialog'.mirrored <=> dialog.mirrored
      BY ONLY <3>2, <3>3
    <3>5. dialog.draft \in P!Drafts
      BY <3>1 DEF P!Dialogs
    <3>6. P!options \in Matches
      BY <1>0, <3>1 DEF P!options
    <3>7. post' \in ProposalPosts /\ post'.draft = dialog.draft /\ post'.options = P!options
      BY <3>3, <3>5, <3>6 DEF ProposalPosts
    <3>8. DialogIsOver'
      BY <1>0, <3>1, <3>3, <3>4, <3>7 DEF DialogIsOver
    <3> QED BY <1>0, <3>1, <3>3, <3>4, <3>7, <3>8
    DEF P!ProposalIsFair, P!Hours, P!validateProposal
  <2> QED BY <2>1, <2>2, <2>3
<1>8. ASSUME P!createRequest
      PROVE  ProposalInv'
  <2>1. ProposalQueried'
    BY <1>8, ProposalQueryKept DEF P!createRequest
  <2>2. match' \in Matches /\ waiting' \subseteq P!SkillIds \X P!SkillIds
    <3>1. post \in ProposalPosts
      BY <1>0, <1>8 DEF P!createRequest, P!NoPost
    <3>2. P!Pair(post.draft) \in P!SkillIds \X P!SkillIds
      BY <3>1 DEF ProposalPosts, P!Drafts, P!Pair
    <3> QED BY <1>8, <3>2 DEF P!createRequest
  <2>3. DialogIsOver'
    <3>1. post \in ProposalPosts
      BY <1>0, <1>8 DEF P!createRequest, P!NoPost
    <3>2. PICK a \in {"created", "duplicate_request", "validation_failed"} :
             post' = [post EXCEPT !.answer = a]
      BY <1>8 DEF P!createRequest
    <3>3. post' \in ProposalPosts /\ (post'.page <=> post.page)
      BY <3>1, <3>2 DEF ProposalPosts
    <3>4. UNCHANGED <<candidate, dialog>>
      BY <1>8 DEF P!createRequest
    <3> QED BY <1>0, <3>1, <3>3, <3>4 DEF DialogIsOver
  <2>4. P!ProposalIsFair'
    BY <1>8 DEF P!createRequest, P!ProposalIsFair, P!Hours, DialogIsOver, P!NoDialog, P!NoPost
  <2> QED BY <2>1, <2>2, <2>3, <2>4
<1>9. ASSUME P!Posted
      PROVE  ProposalInv'
  <2>1. ProposalQueried'
    BY <1>9, ProposalQueryKept DEF P!Posted
  <2>2. match' \in Matches /\ waiting' \subseteq P!SkillIds \X P!SkillIds
    BY <1>9 DEF P!Posted
  <2>3. DialogIsOver' /\ P!ProposalIsFair'
    <3>1. post \in ProposalPosts /\ post' = P!NoPost /\ candidate' = candidate
      BY <1>0, <1>9 DEF P!Posted
    <3>2. \/ dialog' = dialog
          \/ /\ dialog \in P!Dialogs /\ dialog' \in P!Dialogs
             /\ dialog'.draft = dialog.draft /\ (dialog'.mirrored <=> dialog.mirrored)
      <4>1. CASE post.page
        <5>1. PICK c \in {FALSE, post.answer = "created"} :
                 dialog' = [dialog EXCEPT !.pending = FALSE, !.created = c]
          BY <1>9, <4>1 DEF P!Posted
        <5>2. c \in BOOLEAN /\ dialog \in P!Dialogs
          BY <1>0, <3>1, <4>1
        <5>3. /\ [dialog EXCEPT !.pending = FALSE, !.created = c] \in P!Dialogs
              /\ [dialog EXCEPT !.pending = FALSE, !.created = c].draft = dialog.draft
              /\ [dialog EXCEPT !.pending = FALSE, !.created = c].mirrored <=> dialog.mirrored
          BY <5>2, DialogHeard
        <5> QED BY ONLY <5>1, <5>2, <5>3
      <4>2. CASE ~post.page
        BY <1>9, <4>2 DEF P!Posted
      <4> QED BY <4>1, <4>2
    <3>3. DialogIsOver'
      BY <1>0, <3>1, <3>2 DEF DialogIsOver
    <3> QED BY <1>0, <3>1, <3>2, <3>3 DEF P!ProposalIsFair
  <2> QED BY <2>1, <2>2, <2>3
<1>10. ASSUME P!MatchChanges
      PROVE  ProposalInv'
  <2>1. ProposalQueried'
    BY <1>10, ProposalQueryKept DEF P!MatchChanges
  <2>2. match' \in Matches /\ waiting' \subseteq P!SkillIds \X P!SkillIds
    BY <1>10 DEF P!MatchChanges
  <2>3. DialogIsOver'
    BY <1>10 DEF P!MatchChanges, DialogIsOver, ProposalQueried, P!Queries
  <2>4. P!ProposalIsFair'
    BY <1>10 DEF P!MatchChanges, P!ProposalIsFair, P!Hours, DialogIsOver, P!NoDialog, P!NoPost
  <2> QED BY <2>1, <2>2, <2>3, <2>4
<1>11. ASSUME P!RequestAnswered
      PROVE  ProposalInv'
  <2>1. ProposalQueried'
    BY <1>11, ProposalQueryKept DEF P!RequestAnswered
  <2>2. match' \in Matches /\ waiting' \subseteq P!SkillIds \X P!SkillIds
    BY <1>11 DEF P!RequestAnswered
  <2>3. DialogIsOver'
    BY <1>11 DEF P!RequestAnswered, DialogIsOver, ProposalQueried, P!Queries
  <2>4. P!ProposalIsFair'
    BY <1>11
    DEF P!RequestAnswered, P!ProposalIsFair, P!Hours, DialogIsOver, P!NoDialog, P!NoPost
  <2> QED BY <2>1, <2>2, <2>3, <2>4
<1>12. ASSUME NEW mirrored \in BOOLEAN, P!toggleMirrored(mirrored)
      PROVE  ProposalInv'
  <2>1. ProposalQueried'
    BY <1>12, ProposalQueryKept DEF P!toggleMirrored
  <2>2. match' \in Matches /\ waiting' \subseteq P!SkillIds \X P!SkillIds
    BY <1>12 DEF P!toggleMirrored
  <2>3. DialogIsOver' /\ P!ProposalIsFair'
    <3>1. dialog \in P!Dialogs
      BY <1>0, <1>12 DEF P!toggleMirrored, P!filling
    <3>2. dialog.draft \in P!Drafts
      BY <3>1 DEF P!Dialogs
    <3> DEFINE new == P!change(dialog.draft, mirrored)
    <3>3. new \in P!Drafts /\ (mirrored => new.teach = new.learn)
      BY <1>12, <3>2, ChangeIsDraft
    <3>4. /\ dialog' = [dialog EXCEPT !.mirrored = mirrored, !.draft = new]
          /\ UNCHANGED <<candidate, post>>
      BY <1>12 DEF P!toggleMirrored
    <3> HIDE DEF new
    <3>5. /\ [dialog EXCEPT !.mirrored = mirrored, !.draft = new] \in P!Dialogs
          /\ [dialog EXCEPT !.mirrored = mirrored, !.draft = new].draft = new
          /\ [dialog EXCEPT !.mirrored = mirrored, !.draft = new].mirrored <=> mirrored
          /\ [dialog EXCEPT !.mirrored = mirrored, !.draft = new].pending <=> dialog.pending
      BY <1>12, <3>1, <3>3, DialogToggled
    <3>6. /\ dialog' \in P!Dialogs /\ dialog'.draft = new
          /\ dialog'.mirrored <=> mirrored
          /\ dialog'.pending <=> dialog.pending
      BY ONLY <3>4, <3>5
    <3>7. DialogIsOver'
      BY <1>0, <3>1, <3>4, <3>6 DEF DialogIsOver
    <3> QED BY <3>3, <3>4, <3>6, <3>7 DEF P!ProposalIsFair
  <2> QED BY <2>1, <2>2, <2>3
<1> QED BY <1>1, <1>2, <1>3, <1>4, <1>5, <1>6, <1>7, <1>8, <1>9, <1>10, <1>11, <1>12
DEF P!ProposalNext

LEMMA ProposalInitHolds ==
    ASSUME P!ProposalInit
    PROVE  ProposalInv
<1>1. ~P!NoDialog.open /\ dialog \notin P!Dialogs /\ post \notin ProposalPosts
  BY DialogIsOpen DEF P!ProposalInit
<1>2. ProposalQueried
  BY DEF P!ProposalInit, ProposalQueried, P!Load, P!Queries, P!Nothing
<1> QED BY <1>1, <1>2 DEF P!ProposalInit, ProposalInv, DialogIsOver, P!ProposalIsFair

LEMMA ProposalInvHolds == Spec => [](screen = "proposal" => ProposalInv)
<1> DEFINE Inv == screen = "proposal" => ProposalInv
<1>1. Init => Inv
  BY ProposalInitHolds DEF Init
<1>2. Inv /\ [Next]_vars => Inv'
  <2> SUFFICES ASSUME Inv, [Next]_vars, screen' = "proposal" PROVE ProposalInv'
    OBVIOUS
  <2>1. CASE Next
    BY <2>1, StepOfPage, ProposalStep
  <2>2. CASE UNCHANGED vars
    <3>1. UNCHANGED proposalVars /\ ProposalInv
      BY <2>2 DEF vars
    <3> QED BY <3>1
    DEF proposalVars, ProposalInv, ProposalQueried, DialogIsOver, P!ProposalIsFair
  <2> QED BY <2>1, <2>2
<1> QED BY <1>1, <1>2, PTL DEF Spec

\* However the form was edited and switched while a proposal was on its
\* way, mirrored plans are equal, and what left the page offers both sides
\* the same hours and two different skills that the student saw.
THEOREM ProposalIsFairHolds == Spec => []ProposalIsFair
<1>1. (screen = "proposal" => ProposalInv) => ProposalIsFair
  BY DEF ProposalIsFair, ProposalInv
<1> QED BY <1>1, ProposalInvHolds, PTL

-----------------------------------------------------------------------------
(***************************************************************************)
(* The page of one lesson.                                                 *)
(***************************************************************************)
LessonQueried ==
    /\ details \in L!Queries({"lesson"}, L!LessonRows)
    /\ details.call = "served" => details.answer \in L!LessonRows
    /\ details.status = "ready" => details.data \in L!LessonRows

LessonTyped ==
    /\ L!LessonTypeOK /\ LessonQueried
    /\ lesson.number <= lesson.rev

\* What was announced has happened, and nothing older is shown or on its way.
LessonLearnt ==
    /\ learnt <= lesson.rev
    /\ write # L!NoWrite /\ write.phase = "ok" => write.rev <= lesson.rev
    /\ details.call = "served" => details.answer.rev >= learnt
    /\ details.status = "ready" => details.data.rev >= learnt

LessonInv == LessonTyped /\ LessonLearnt

LEMMA MaxRevIsNat == MaxRev \in Nat
BY PagesAssumption DEF L!RevAssumption

LEMMA LessonQueryKept ==
    ASSUME LessonQueried, lesson \in L!LessonRows,
           \/ details' = details
           \/ details' = L!Retry(details)
           \/ details' = L!Served(details, lesson)
           \/ L!Arriving(details) /\ details' = L!Taken(details)
           \/ details' = L!Failed(details)
    PROVE  LessonQueried'
<1> USE DEF LessonQueried
<1>1. CASE details' = details BY <1>1
<1>2. CASE details' = L!Retry(details)
  BY <1>2 DEF L!Load, L!Retry, L!Queries, L!Nothing
<1>3. CASE details' = L!Served(details, lesson)
  BY <1>3 DEF L!Served, L!Queries
<1>4. CASE L!Arriving(details) /\ details' = L!Taken(details)
  BY <1>4 DEF L!Taken, L!Arriving, L!Queries, L!Nothing
<1>5. CASE details' = L!Failed(details)
  BY <1>5 DEF L!Failed, L!Queries, L!Nothing
<1> QED BY <1>1, <1>2, <1>3, <1>4, <1>5

LEMMA FollowIsQuery ==
    ASSUME NEW d, lessonExchange \in L!Queries({"none", "exchange"}, [active : BOOLEAN])
    PROVE  L!Follow(d) \in L!Queries({"none", "exchange"}, [active : BOOLEAN])
BY DEF L!Follow, L!Rekey, L!Queries, L!Nothing

LEMMA LessonExchangeKept ==
    ASSUME NEW q \in L!Queries({"none", "exchange"}, [active : BOOLEAN]),
           NEW a \in [active : BOOLEAN]
    PROVE  /\ L!Served(q, a) \in L!Queries({"none", "exchange"}, [active : BOOLEAN])
           /\ L!Taken(q) \in L!Queries({"none", "exchange"}, [active : BOOLEAN])
           /\ L!Failed(q) \in L!Queries({"none", "exchange"}, [active : BOOLEAN])
           /\ L!Retry(q) \in L!Queries({"none", "exchange"}, [active : BOOLEAN])
<1>1. L!Served(q, a) \in L!Queries({"none", "exchange"}, [active : BOOLEAN])
  BY DEF L!Served, L!Queries
<1>2. /\ L!Taken(q) \in L!Queries({"none", "exchange"}, [active : BOOLEAN])
      /\ L!Failed(q) \in L!Queries({"none", "exchange"}, [active : BOOLEAN])
  BY DEF L!Taken, L!Failed, L!Queries, L!Nothing
<1>3. L!Retry(q) \in L!Queries({"none", "exchange"}, [active : BOOLEAN])
  BY DEF L!Retry, L!Load, L!Queries, L!Nothing
<1> QED BY <1>1, <1>2, <1>3

LEMMA LessonInitHolds ==
    ASSUME L!LessonInit
    PROVE  LessonInv
<1>1. lesson \in L!LessonRows /\ lesson.number <= lesson.rev
  BY MaxRevIsNat DEF L!LessonInit, L!LessonRows
<1>2. LessonQueried
  BY DEF L!LessonInit, LessonQueried, L!Load, L!Queries, L!Nothing
<1>3. lessonExchange \in L!Queries({"none", "exchange"}, [active : BOOLEAN])
  BY DEF L!LessonInit, L!NoExchange, L!Load, L!Queries, L!Nothing
<1> QED
  BY <1>1, <1>2, <1>3, MaxRevIsNat
  DEF L!LessonInit, LessonInv, LessonTyped, L!LessonTypeOK, LessonQueried, LessonLearnt,
      L!Load

LEMMA AfterIsLesson ==
    ASSUME NEW l \in L!LessonRows, NEW u \in {"me", "partner"}, NEW kind \in L!Kinds,
           l.rev < MaxRev, l.number <= l.rev
    PROVE  /\ L!After(l, u, kind) \in L!LessonRows
           /\ L!After(l, u, kind).rev = l.rev + 1
           /\ L!After(l, u, kind).number <= l.rev + 1
<1> USE MaxRevIsNat
<1>0. l.rev + 1 \in 0 .. MaxRev /\ l.number + 1 \in 0 .. MaxRev /\ l.number \in Nat /\ l.rev \in Nat
  BY DEF L!LessonRows
<1> DEFINE n == [l EXCEPT !.rev = l.rev + 1]
<1>1. n \in L!LessonRows /\ n.rev = l.rev + 1 /\ n.number = l.number
  BY <1>0 DEF L!LessonRows
<1>2. CASE kind = "accept"
  <2>1. L!After(l, u, kind) = [n EXCEPT !.status = "SCHEDULED", !.by = "none"]
    BY <1>2 DEF L!After
  <2> HIDE DEF n
  <2>2. L!After(l, u, kind) \in L!LessonRows
    BY <2>1, <1>0, <1>1 DEF L!LessonRows
  <2>3. L!After(l, u, kind).rev = l.rev + 1
    BY <2>1, <1>1 DEF L!LessonRows
  <2>4. L!After(l, u, kind).number <= l.rev + 1
    BY <2>1, <1>0, <1>1 DEF L!LessonRows
  <2> QED BY <2>2, <2>3, <2>4
<1>3. CASE kind = "decline"
  <2>1. L!After(l, u, kind) = [n EXCEPT !.status = "DRAFT", !.by = "none", !.ended = FALSE]
    BY <1>3 DEF L!After
  <2> HIDE DEF n
  <2>2. L!After(l, u, kind) \in L!LessonRows
    BY <2>1, <1>0, <1>1 DEF L!LessonRows
  <2>3. L!After(l, u, kind).rev = l.rev + 1
    BY <2>1, <1>1 DEF L!LessonRows
  <2>4. L!After(l, u, kind).number <= l.rev + 1
    BY <2>1, <1>0, <1>1 DEF L!LessonRows
  <2> QED BY <2>2, <2>3, <2>4
<1>4. CASE kind = "propose"
  <2>1. L!After(l, u, kind) = [n EXCEPT !.status = "PROPOSED", !.by = u, !.number = n.number + 1,
                                        !.done = {}, !.ended = FALSE]
    BY <1>4 DEF L!After
  <2> HIDE DEF n
  <2>2. L!After(l, u, kind) \in L!LessonRows
    <3>1. ASSUME NEW k \in 0 .. MaxRev
          PROVE  [n EXCEPT !.status = "PROPOSED", !.by = u, !.number = k, !.done = {},
                           !.ended = FALSE] \in L!LessonRows
      BY <1>1 DEF L!LessonRows
    <3> QED BY <2>1, <3>1, <1>0, <1>1
  <2>3. L!After(l, u, kind).rev = l.rev + 1
    BY <2>1, <1>1 DEF L!LessonRows
  <2>4. L!After(l, u, kind).number <= l.rev + 1
    BY <2>1, <1>0, <1>1 DEF L!LessonRows
  <2> QED BY <2>2, <2>3, <2>4
<1>5. CASE kind = "cancel"
  <2>1. L!After(l, u, kind) = [n EXCEPT !.status = "CANCELLED", !.by = "none"]
    BY <1>5 DEF L!After
  <2> HIDE DEF n
  <2>2. L!After(l, u, kind) \in L!LessonRows
    BY <2>1, <1>0, <1>1 DEF L!LessonRows
  <2>3. L!After(l, u, kind).rev = l.rev + 1
    BY <2>1, <1>1 DEF L!LessonRows
  <2>4. L!After(l, u, kind).number <= l.rev + 1
    BY <2>1, <1>0, <1>1 DEF L!LessonRows
  <2> QED BY <2>2, <2>3, <2>4
<1>6. CASE kind = "confirm"
  <2>1. L!After(l, u, kind) =
          [n EXCEPT !.done = n.done \union {u},
                    !.status = IF l.done \union {u} = {"me", "partner"} THEN "COMPLETED" ELSE n.status]
    BY <1>6 DEF L!After
  <2> HIDE DEF n
  <2>2. L!After(l, u, kind) \in L!LessonRows
    <3>1. ASSUME NEW d \in SUBSET {"me", "partner"}, NEW st \in {"COMPLETED", n.status}
          PROVE  [n EXCEPT !.done = d, !.status = st] \in L!LessonRows
      BY <1>1 DEF L!LessonRows
    <3>2. n.done \union {u} \in SUBSET {"me", "partner"}
      BY <1>1 DEF L!LessonRows
    <3> QED BY <2>1, <3>1, <3>2
  <2>3. L!After(l, u, kind).rev = l.rev + 1
    BY <2>1, <1>1 DEF L!LessonRows
  <2>4. L!After(l, u, kind).number <= l.rev + 1
    BY <2>1, <1>0, <1>1 DEF L!LessonRows
  <2> QED BY <2>2, <2>3, <2>4
<1> QED BY <1>2, <1>3, <1>4, <1>5, <1>6 DEF L!Kinds

LEMMA LessonStep ==
    ASSUME LessonInv, L!LessonNext
    PROVE  LessonInv'
<1> USE MaxRevIsNat DEF LessonInv
<1>1. CASE L!AnswerDetails
  <2>1. LessonQueried'
    BY <1>1, LessonQueryKept DEF L!AnswerDetails, LessonTyped, L!LessonTypeOK
  <2>2. lesson' \in L!LessonRows /\ lesson'.number <= lesson'.rev /\ lesson'.rev >= lesson.rev
    BY <1>1 DEF L!AnswerDetails, LessonTyped, L!LessonTypeOK, L!LessonRows
  <2>3. lessonExchange' \in L!Queries({"none", "exchange"}, [active : BOOLEAN])
    BY <1>1, FollowIsQuery DEF L!AnswerDetails, LessonTyped, L!LessonTypeOK
  <2>4. write' \in L!Writes \union {L!NoWrite} /\ form' \in {"none", "planning", "cancelling"}
    BY <1>1
    DEF L!AnswerDetails, LessonTyped, L!LessonTypeOK, LessonQueried, L!LessonRows, L!Writes,
        L!NoWrite, L!Kinds
  <2>5. learnt' \in 0 .. MaxRev
    BY <1>1 DEF L!AnswerDetails, LessonTyped, L!LessonTypeOK, LessonLearnt, L!Writes, L!NoWrite
  <2>6. LessonLearnt'
    BY <1>1, <2>2
    DEF L!AnswerDetails, LessonTyped, LessonQueried, L!LessonTypeOK, LessonLearnt, L!Writes,
        L!NoWrite, L!Served, L!Queries, L!LessonRows
  <2> QED BY <2>1, <2>2, <2>3, <2>4, <2>5, <2>6 DEF LessonTyped, L!LessonTypeOK, LessonQueried
<1>2. CASE L!TakeDetails
  <2>1. LessonQueried'
    BY <1>2, LessonQueryKept DEF L!TakeDetails, L!ShowDetails, LessonTyped, L!LessonTypeOK
  <2>2. lesson' \in L!LessonRows /\ lesson'.number <= lesson'.rev /\ lesson'.rev >= lesson.rev
    BY <1>2 DEF L!TakeDetails, L!ShowDetails, LessonTyped, L!LessonTypeOK, L!LessonRows
  <2>3. lessonExchange' \in L!Queries({"none", "exchange"}, [active : BOOLEAN])
    BY <1>2, FollowIsQuery DEF L!TakeDetails, L!ShowDetails, LessonTyped, L!LessonTypeOK
  <2>4. write' \in L!Writes \union {L!NoWrite} /\ form' \in {"none", "planning", "cancelling"}
    BY <1>2
    DEF L!TakeDetails, L!ShowDetails, LessonTyped, L!LessonTypeOK, LessonQueried,
        L!LessonRows, L!Writes, L!NoWrite, L!Kinds
  <2>5. learnt' \in 0 .. MaxRev
    BY <1>2
    DEF L!TakeDetails, L!ShowDetails, LessonTyped, L!LessonTypeOK, LessonLearnt, L!Writes,
        L!NoWrite
  <2>6. LessonLearnt'
    BY <1>2, <2>2
    DEF L!TakeDetails, L!ShowDetails, LessonTyped, LessonQueried, L!LessonTypeOK,
        LessonLearnt, L!Writes, L!NoWrite, L!Taken, L!Failed, L!Arriving, L!Queries,
        L!LessonRows
  <2> QED BY <2>1, <2>2, <2>3, <2>4, <2>5, <2>6 DEF LessonTyped, L!LessonTypeOK, LessonQueried
<1>3. CASE L!ExchangeAnswers
  <2>1. LessonQueried'
    BY <1>3, LessonQueryKept DEF L!ExchangeAnswers, LessonTyped, L!LessonTypeOK
  <2>2. lesson' \in L!LessonRows /\ lesson'.number <= lesson'.rev /\ lesson'.rev >= lesson.rev
    BY <1>3 DEF L!ExchangeAnswers, LessonTyped, L!LessonTypeOK, L!LessonRows
  <2>3. lessonExchange' \in L!Queries({"none", "exchange"}, [active : BOOLEAN])
    <3>1. [active |-> lesson.active] \in [active : BOOLEAN]
      BY DEF LessonTyped, L!LessonTypeOK, L!LessonRows
    <3>2. \/ lessonExchange' = L!Served(lessonExchange, [active |-> lesson.active])
          \/ lessonExchange' = L!Taken(lessonExchange)
          \/ lessonExchange' = L!Failed(lessonExchange)
          \/ lessonExchange' = L!Retry(lessonExchange)
      BY <1>3 DEF L!ExchangeAnswers
    <3> QED BY <3>1, <3>2, LessonExchangeKept DEF LessonTyped, L!LessonTypeOK
  <2>4. write' \in L!Writes \union {L!NoWrite} /\ form' \in {"none", "planning", "cancelling"}
    BY <1>3
    DEF L!ExchangeAnswers, LessonTyped, L!LessonTypeOK, LessonQueried, L!LessonRows, L!Writes,
        L!NoWrite, L!Kinds, L!Shows
  <2>5. learnt' \in 0 .. MaxRev
    BY <1>3
    DEF L!ExchangeAnswers, LessonTyped, L!LessonTypeOK, LessonLearnt, L!Writes, L!NoWrite
  <2>6. LessonLearnt'
    BY <1>3, <2>2
    DEF L!ExchangeAnswers, LessonTyped, LessonQueried, L!LessonTypeOK, LessonLearnt, L!Writes,
        L!NoWrite, L!Served, L!Taken, L!Failed, L!Retry, L!Load, L!Arriving, L!Queries,
        L!LessonRows
  <2> QED BY <2>1, <2>2, <2>3, <2>4, <2>5, <2>6 DEF LessonTyped, L!LessonTypeOK, LessonQueried
<1>4. CASE L!Refresh
  <2>1. LessonQueried'
    BY <1>4, LessonQueryKept DEF L!Refresh, L!ShowDetails, LessonTyped, L!LessonTypeOK
  <2>2. lesson' \in L!LessonRows /\ lesson'.number <= lesson'.rev /\ lesson'.rev >= lesson.rev
    BY <1>4 DEF L!Refresh, L!ShowDetails, LessonTyped, L!LessonTypeOK, L!LessonRows
  <2>3. lessonExchange' \in L!Queries({"none", "exchange"}, [active : BOOLEAN])
    BY <1>4, FollowIsQuery DEF L!Refresh, L!ShowDetails, LessonTyped, L!LessonTypeOK
  <2>4. write' \in L!Writes \union {L!NoWrite} /\ form' \in {"none", "planning", "cancelling"}
    BY <1>4
    DEF L!Refresh, L!ShowDetails, LessonTyped, L!LessonTypeOK, LessonQueried, L!LessonRows,
        L!Writes, L!NoWrite, L!Kinds, L!Ready, L!Shows
  <2>5. learnt' \in 0 .. MaxRev
    BY <1>4
    DEF L!Refresh, L!ShowDetails, LessonTyped, L!LessonTypeOK, LessonLearnt, L!Writes,
        L!NoWrite
  <2>6. LessonLearnt'
    BY <1>4, <2>2
    DEF L!Refresh, L!ShowDetails, LessonTyped, LessonQueried, L!LessonTypeOK, LessonLearnt,
        L!Writes, L!NoWrite, L!Retry, L!Load, L!Queries, L!LessonRows
  <2> QED BY <2>1, <2>2, <2>3, <2>4, <2>5, <2>6 DEF LessonTyped, L!LessonTypeOK, LessonQueried
<1>5. CASE L!CloseForm
  <2>1. LessonQueried'
    BY <1>5, LessonQueryKept DEF L!CloseForm, LessonTyped, L!LessonTypeOK
  <2>2. lesson' \in L!LessonRows /\ lesson'.number <= lesson'.rev /\ lesson'.rev >= lesson.rev
    BY <1>5 DEF L!CloseForm, LessonTyped, L!LessonTypeOK, L!LessonRows
  <2>3. lessonExchange' \in L!Queries({"none", "exchange"}, [active : BOOLEAN])
    BY <1>5, FollowIsQuery DEF L!CloseForm, LessonTyped, L!LessonTypeOK
  <2>4. write' \in L!Writes \union {L!NoWrite} /\ form' \in {"none", "planning", "cancelling"}
    BY <1>5
    DEF L!CloseForm, LessonTyped, L!LessonTypeOK, LessonQueried, L!LessonRows, L!Writes,
        L!NoWrite, L!Kinds
  <2>5. learnt' \in 0 .. MaxRev
    BY <1>5 DEF L!CloseForm, LessonTyped, L!LessonTypeOK, LessonLearnt, L!Writes, L!NoWrite
  <2>6. LessonLearnt'
    BY <1>5, <2>2
    DEF L!CloseForm, LessonTyped, LessonQueried, L!LessonTypeOK, LessonLearnt, L!Writes,
        L!NoWrite, L!Queries, L!LessonRows
  <2> QED BY <2>1, <2>2, <2>3, <2>4, <2>5, <2>6 DEF LessonTyped, L!LessonTypeOK, LessonQueried
<1>6. CASE L!proposeSession
  <2>1. LessonQueried'
    BY <1>6, LessonQueryKept DEF L!proposeSession, L!Send, LessonTyped, L!LessonTypeOK
  <2>2. lesson' \in L!LessonRows /\ lesson'.number <= lesson'.rev /\ lesson'.rev >= lesson.rev
    BY <1>6 DEF L!proposeSession, L!Send, LessonTyped, L!LessonTypeOK, L!LessonRows
  <2>3. lessonExchange' \in L!Queries({"none", "exchange"}, [active : BOOLEAN])
    BY <1>6, FollowIsQuery DEF L!proposeSession, L!Send, LessonTyped, L!LessonTypeOK
  <2>4. write' \in L!Writes \union {L!NoWrite} /\ form' \in {"none", "planning", "cancelling"}
    BY <1>6
    DEF L!proposeSession, L!Send, LessonTyped, L!LessonTypeOK, LessonQueried, L!LessonRows,
        L!Writes, L!NoWrite, L!Kinds, L!shownLesson, L!Ready, L!Shows
  <2>5. learnt' \in 0 .. MaxRev
    BY <1>6
    DEF L!proposeSession, L!Send, LessonTyped, L!LessonTypeOK, LessonLearnt, L!Writes,
        L!NoWrite
  <2>6. LessonLearnt'
    BY <1>6, <2>2
    DEF L!proposeSession, L!Send, LessonTyped, LessonQueried, L!LessonTypeOK, LessonLearnt,
        L!Writes, L!NoWrite, L!Queries, L!LessonRows
  <2> QED BY <2>1, <2>2, <2>3, <2>4, <2>5, <2>6 DEF LessonTyped, L!LessonTypeOK, LessonQueried
<1>7. CASE L!cancelSession
  <2>1. LessonQueried'
    BY <1>7, LessonQueryKept DEF L!cancelSession, L!Send, LessonTyped, L!LessonTypeOK
  <2>2. lesson' \in L!LessonRows /\ lesson'.number <= lesson'.rev /\ lesson'.rev >= lesson.rev
    BY <1>7 DEF L!cancelSession, L!Send, LessonTyped, L!LessonTypeOK, L!LessonRows
  <2>3. lessonExchange' \in L!Queries({"none", "exchange"}, [active : BOOLEAN])
    BY <1>7, FollowIsQuery DEF L!cancelSession, L!Send, LessonTyped, L!LessonTypeOK
  <2>4. write' \in L!Writes \union {L!NoWrite} /\ form' \in {"none", "planning", "cancelling"}
    BY <1>7
    DEF L!cancelSession, L!Send, LessonTyped, L!LessonTypeOK, LessonQueried, L!LessonRows,
        L!Writes, L!NoWrite, L!Kinds, L!shownLesson, L!Ready, L!Shows
  <2>5. learnt' \in 0 .. MaxRev
    BY <1>7
    DEF L!cancelSession, L!Send, LessonTyped, L!LessonTypeOK, LessonLearnt, L!Writes,
        L!NoWrite
  <2>6. LessonLearnt'
    BY <1>7, <2>2
    DEF L!cancelSession, L!Send, LessonTyped, LessonQueried, L!LessonTypeOK, LessonLearnt,
        L!Writes, L!NoWrite, L!Queries, L!LessonRows
  <2> QED BY <2>1, <2>2, <2>3, <2>4, <2>5, <2>6 DEF LessonTyped, L!LessonTypeOK, LessonQueried
<1>8. CASE L!confirmLesson
  <2>1. LessonQueried'
    BY <1>8, LessonQueryKept DEF L!confirmLesson, L!Send, LessonTyped, L!LessonTypeOK
  <2>2. lesson' \in L!LessonRows /\ lesson'.number <= lesson'.rev /\ lesson'.rev >= lesson.rev
    BY <1>8 DEF L!confirmLesson, L!Send, LessonTyped, L!LessonTypeOK, L!LessonRows
  <2>3. lessonExchange' \in L!Queries({"none", "exchange"}, [active : BOOLEAN])
    BY <1>8, FollowIsQuery DEF L!confirmLesson, L!Send, LessonTyped, L!LessonTypeOK
  <2>4. write' \in L!Writes \union {L!NoWrite} /\ form' \in {"none", "planning", "cancelling"}
    BY <1>8
    DEF L!confirmLesson, L!Send, LessonTyped, L!LessonTypeOK, LessonQueried, L!LessonRows,
        L!Writes, L!NoWrite, L!Kinds, L!shownLesson, L!Ready, L!Shows
  <2>5. learnt' \in 0 .. MaxRev
    BY <1>8
    DEF L!confirmLesson, L!Send, LessonTyped, L!LessonTypeOK, LessonLearnt, L!Writes,
        L!NoWrite
  <2>6. LessonLearnt'
    BY <1>8, <2>2
    DEF L!confirmLesson, L!Send, LessonTyped, LessonQueried, L!LessonTypeOK, LessonLearnt,
        L!Writes, L!NoWrite, L!Queries, L!LessonRows
  <2> QED BY <2>1, <2>2, <2>3, <2>4, <2>5, <2>6 DEF LessonTyped, L!LessonTypeOK, LessonQueried
<1>9. CASE L!ServeCheck
  <2>1. LessonQueried'
    BY <1>9, LessonQueryKept DEF L!ServeCheck, LessonTyped, L!LessonTypeOK
  <2>2. lesson' \in L!LessonRows /\ lesson'.number <= lesson'.rev /\ lesson'.rev >= lesson.rev
    BY <1>9 DEF L!ServeCheck, LessonTyped, L!LessonTypeOK, L!LessonRows
  <2>3. lessonExchange' \in L!Queries({"none", "exchange"}, [active : BOOLEAN])
    BY <1>9, FollowIsQuery DEF L!ServeCheck, LessonTyped, L!LessonTypeOK
  <2>4. write' \in L!Writes \union {L!NoWrite} /\ form' \in {"none", "planning", "cancelling"}
    <3>1. write \in L!Writes
      BY <1>9 DEF L!ServeCheck, LessonTyped, L!LessonTypeOK
    <3> DEFINE got == IF L!canRespondToProposal(lesson) THEN lesson.number ELSE 0
    <3>2. got \in 0 .. MaxRev
      BY DEF LessonTyped, L!LessonTypeOK, L!LessonRows
    <3>4. write' = [write EXCEPT !.phase = "checked", !.got = got]
      BY <1>9 DEF L!ServeCheck
    <3> HIDE DEF got
    <3>3. write' \in L!Writes
      BY <3>1, <3>2, <3>4 DEF L!Writes
    <3> QED BY <1>9, <3>3 DEF L!ServeCheck, LessonTyped, L!LessonTypeOK
  <2>5. learnt' \in 0 .. MaxRev
    BY <1>9 DEF L!ServeCheck, LessonTyped, L!LessonTypeOK, LessonLearnt, L!Writes, L!NoWrite
  <2>6. LessonLearnt'
    BY <1>9, <2>2
    DEF L!ServeCheck, LessonTyped, LessonQueried, L!LessonTypeOK, LessonLearnt, L!Writes,
        L!NoWrite, L!Queries, L!LessonRows
  <2> QED BY <2>1, <2>2, <2>3, <2>4, <2>5, <2>6 DEF LessonTyped, L!LessonTypeOK, LessonQueried
<1>10. CASE L!decideSession
  <2>1. LessonQueried'
    BY <1>10, LessonQueryKept DEF L!decideSession, LessonTyped, L!LessonTypeOK
  <2>2. lesson' \in L!LessonRows /\ lesson'.number <= lesson'.rev /\ lesson'.rev >= lesson.rev
    BY <1>10 DEF L!decideSession, LessonTyped, L!LessonTypeOK, L!LessonRows
  <2>3. lessonExchange' \in L!Queries({"none", "exchange"}, [active : BOOLEAN])
    BY <1>10, FollowIsQuery DEF L!decideSession, LessonTyped, L!LessonTypeOK
  <2>4. write' \in L!Writes \union {L!NoWrite} /\ form' \in {"none", "planning", "cancelling"}
    BY <1>10
    DEF L!decideSession, LessonTyped, L!LessonTypeOK, LessonQueried, L!LessonRows, L!Writes,
        L!NoWrite, L!Kinds
  <2>5. learnt' \in 0 .. MaxRev
    BY <1>10 DEF L!decideSession, LessonTyped, L!LessonTypeOK, LessonLearnt, L!Writes, L!NoWrite
  <2>6. LessonLearnt'
    BY <1>10, <2>2
    DEF L!decideSession, LessonTyped, LessonQueried, L!LessonTypeOK, LessonLearnt, L!Writes,
        L!NoWrite, L!Queries, L!LessonRows
  <2> QED BY <2>1, <2>2, <2>3, <2>4, <2>5, <2>6 DEF LessonTyped, L!LessonTypeOK, LessonQueried
<1>11. CASE L!ServeWrite
  <2>1. LessonQueried'
    BY <1>11, LessonQueryKept DEF L!ServeWrite, LessonTyped, L!LessonTypeOK
  <2>2. lesson' \in L!LessonRows /\ lesson'.number <= lesson'.rev /\ lesson'.rev >= lesson.rev
    <3>1. write \in L!Writes
      BY <1>11 DEF L!ServeWrite, LessonTyped, L!LessonTypeOK
    <3>2. lesson.rev < MaxRev =>
            /\ L!After(lesson, "me", write.kind) \in L!LessonRows
            /\ L!After(lesson, "me", write.kind).rev = lesson.rev + 1
            /\ L!After(lesson, "me", write.kind).number <= lesson.rev + 1
      BY <3>1, AfterIsLesson DEF L!Writes, LessonTyped, L!LessonTypeOK
    <3>3. lesson.rev \in Nat
      BY DEF LessonTyped, L!LessonTypeOK, L!LessonRows
    <3> QED BY <1>11, <3>2, <3>3 DEF L!ServeWrite, LessonTyped, L!LessonTypeOK
  <2>3. lessonExchange' \in L!Queries({"none", "exchange"}, [active : BOOLEAN])
    BY <1>11, FollowIsQuery DEF L!ServeWrite, LessonTyped, L!LessonTypeOK
  <2>4. write' \in L!Writes \union {L!NoWrite} /\ form' \in {"none", "planning", "cancelling"}
    <3>1. write \in L!Writes
      BY <1>11 DEF L!ServeWrite, LessonTyped, L!LessonTypeOK
    <3>2. CASE L!Allowed(lesson, "me", write.kind)
      <4>1. lesson.rev + 1 \in 0 .. MaxRev /\ lesson.number \in 0 .. MaxRev
        BY <1>11, <3>2 DEF L!ServeWrite, LessonTyped, L!LessonTypeOK, L!LessonRows
      <4>2. write' = [write EXCEPT !.phase = "ok", !.got = lesson.number, !.rev = lesson.rev + 1]
        BY <1>11, <3>2 DEF L!ServeWrite
      <4>3. write' \in L!Writes
        BY <3>1, <4>1, <4>2 DEF L!Writes
      <4> QED BY <1>11, <4>3 DEF L!ServeWrite, LessonTyped, L!LessonTypeOK
    <3>3. CASE ~L!Allowed(lesson, "me", write.kind)
      <4>1. write' \in L!Writes
        BY <1>11, <3>1, <3>3 DEF L!ServeWrite, L!Writes
      <4> QED BY <1>11, <4>1 DEF L!ServeWrite, LessonTyped, L!LessonTypeOK
    <3> QED BY <3>2, <3>3
  <2>5. learnt' \in 0 .. MaxRev
    BY <1>11 DEF L!ServeWrite, LessonTyped, L!LessonTypeOK, LessonLearnt, L!Writes, L!NoWrite
  <2>6. LessonLearnt'
    <3>1. write \in L!Writes
      BY <1>11 DEF L!ServeWrite, LessonTyped, L!LessonTypeOK
    <3>2. lesson.rev < MaxRev =>
            /\ L!After(lesson, "me", write.kind) \in L!LessonRows
            /\ L!After(lesson, "me", write.kind).rev = lesson.rev + 1
            /\ L!After(lesson, "me", write.kind).number <= lesson.rev + 1
      BY <3>1, AfterIsLesson DEF L!Writes, LessonTyped, L!LessonTypeOK
    <3>3. learnt \in Nat /\ lesson.rev \in Nat
      BY DEF LessonTyped, L!LessonTypeOK, L!LessonRows
    <3>4. UNCHANGED <<details, learnt>>
      BY <1>11 DEF L!ServeWrite
    <3>5. CASE L!Allowed(lesson, "me", write.kind)
      <4>1. lesson'.rev = lesson.rev + 1 /\ write'.rev = lesson.rev + 1
        BY <1>11, <3>1, <3>2, <3>5 DEF L!ServeWrite, L!Writes
      <4> QED BY <3>3, <3>4, <4>1 DEF LessonLearnt
    <3>6. CASE ~L!Allowed(lesson, "me", write.kind)
      <4>1. lesson' = lesson /\ write'.phase = "refused"
        BY <1>11, <3>1, <3>6 DEF L!ServeWrite, L!Writes
      <4> QED BY <3>3, <3>4, <4>1 DEF LessonLearnt
    <3> QED BY <3>5, <3>6
  <2> QED BY <2>1, <2>2, <2>3, <2>4, <2>5, <2>6 DEF LessonTyped, L!LessonTypeOK, LessonQueried
<1>12. CASE L!changed
  <2>1. LessonQueried'
    BY <1>12, LessonQueryKept DEF L!changed, L!Reload, LessonTyped, L!LessonTypeOK
  <2>2. lesson' \in L!LessonRows /\ lesson'.number <= lesson'.rev /\ lesson'.rev >= lesson.rev
    BY <1>12 DEF L!changed, L!Reload, LessonTyped, L!LessonTypeOK, L!LessonRows
  <2>3. lessonExchange' \in L!Queries({"none", "exchange"}, [active : BOOLEAN])
    <3>1. L!NoExchange \in L!Queries({"none", "exchange"}, [active : BOOLEAN])
      BY DEF L!NoExchange, L!Load, L!Queries, L!Nothing
    <3>2. lessonExchange' \in {lessonExchange, L!NoExchange, L!Follow(L!Retry(details))}
      BY <1>12 DEF L!changed, L!Reload
    <3> QED BY <3>1, <3>2, FollowIsQuery DEF LessonTyped, L!LessonTypeOK
  <2>4. write' \in L!Writes \union {L!NoWrite} /\ form' \in {"none", "planning", "cancelling"}
    BY <1>12
    DEF L!changed, L!Reload, LessonTyped, L!LessonTypeOK, LessonQueried, L!LessonRows,
        L!Writes, L!NoWrite, L!Kinds
  <2>5. learnt' \in 0 .. MaxRev
    BY <1>12
    DEF L!changed, L!Reload, LessonTyped, L!LessonTypeOK, LessonLearnt, L!Writes, L!NoWrite
  <2>6. LessonLearnt'
    BY <1>12, <2>2
    DEF L!changed, L!Reload, LessonTyped, LessonQueried, L!LessonTypeOK, LessonLearnt,
        L!Writes, L!NoWrite, L!Retry, L!Load, L!Queries, L!LessonRows
  <2> QED BY <2>1, <2>2, <2>3, <2>4, <2>5, <2>6 DEF LessonTyped, L!LessonTypeOK, LessonQueried
<1>13. CASE L!Refused
  <2>1. LessonQueried'
    BY <1>13, LessonQueryKept DEF L!Refused, L!Reload, LessonTyped, L!LessonTypeOK
  <2>2. lesson' \in L!LessonRows /\ lesson'.number <= lesson'.rev /\ lesson'.rev >= lesson.rev
    BY <1>13 DEF L!Refused, L!Reload, LessonTyped, L!LessonTypeOK, L!LessonRows
  <2>3. lessonExchange' \in L!Queries({"none", "exchange"}, [active : BOOLEAN])
    <3>1. L!NoExchange \in L!Queries({"none", "exchange"}, [active : BOOLEAN])
      BY DEF L!NoExchange, L!Load, L!Queries, L!Nothing
    <3>2. lessonExchange' \in {lessonExchange, L!NoExchange, L!Follow(L!Retry(details))}
      BY <1>13 DEF L!Refused, L!Reload
    <3> QED BY <3>1, <3>2, FollowIsQuery DEF LessonTyped, L!LessonTypeOK
  <2>4. write' \in L!Writes \union {L!NoWrite} /\ form' \in {"none", "planning", "cancelling"}
    BY <1>13
    DEF L!Refused, L!Reload, LessonTyped, L!LessonTypeOK, LessonQueried, L!LessonRows,
        L!Writes, L!NoWrite, L!Kinds
  <2>5. learnt' \in 0 .. MaxRev
    BY <1>13
    DEF L!Refused, L!Reload, LessonTyped, L!LessonTypeOK, LessonLearnt, L!Writes, L!NoWrite
  <2>6. LessonLearnt'
    BY <1>13, <2>2
    DEF L!Refused, L!Reload, LessonTyped, LessonQueried, L!LessonTypeOK, LessonLearnt,
        L!Writes, L!NoWrite, L!Retry, L!Load, L!Queries, L!LessonRows
  <2> QED BY <2>1, <2>2, <2>3, <2>4, <2>5, <2>6 DEF LessonTyped, L!LessonTypeOK, LessonQueried
<1>14. CASE L!WriteFails
  <2>1. LessonQueried'
    BY <1>14, LessonQueryKept DEF L!WriteFails, LessonTyped, L!LessonTypeOK
  <2>2. lesson' \in L!LessonRows /\ lesson'.number <= lesson'.rev /\ lesson'.rev >= lesson.rev
    BY <1>14 DEF L!WriteFails, LessonTyped, L!LessonTypeOK, L!LessonRows
  <2>3. lessonExchange' \in L!Queries({"none", "exchange"}, [active : BOOLEAN])
    BY <1>14, FollowIsQuery DEF L!WriteFails, LessonTyped, L!LessonTypeOK
  <2>4. write' \in L!Writes \union {L!NoWrite} /\ form' \in {"none", "planning", "cancelling"}
    BY <1>14
    DEF L!WriteFails, LessonTyped, L!LessonTypeOK, LessonQueried, L!LessonRows, L!Writes,
        L!NoWrite, L!Kinds
  <2>5. learnt' \in 0 .. MaxRev
    BY <1>14 DEF L!WriteFails, LessonTyped, L!LessonTypeOK, LessonLearnt, L!Writes, L!NoWrite
  <2>6. LessonLearnt'
    BY <1>14, <2>2
    DEF L!WriteFails, LessonTyped, LessonQueried, L!LessonTypeOK, LessonLearnt, L!Writes,
        L!NoWrite, L!Queries, L!LessonRows
  <2> QED BY <2>1, <2>2, <2>3, <2>4, <2>5, <2>6 DEF LessonTyped, L!LessonTypeOK, LessonQueried
<1>15. CASE L!LessonEnds
  <2>1. LessonQueried'
    BY <1>15, LessonQueryKept DEF L!LessonEnds, LessonTyped, L!LessonTypeOK
  <2>2. lesson' \in L!LessonRows /\ lesson'.number <= lesson'.rev /\ lesson'.rev >= lesson.rev
    <3>1. PICK row \in L!LessonRows : row = lesson
      BY DEF LessonTyped, L!LessonTypeOK
    <3>2. lesson' = [row EXCEPT !.ended = TRUE]
      BY <1>15, <3>1 DEF L!LessonEnds
    <3>3. lesson' \in L!LessonRows /\ lesson'.rev = row.rev /\ lesson'.number = row.number
      BY <3>2 DEF L!LessonRows
    <3> QED BY <3>1, <3>3 DEF LessonTyped, L!LessonRows
  <2>3. lessonExchange' \in L!Queries({"none", "exchange"}, [active : BOOLEAN])
    BY <1>15, FollowIsQuery DEF L!LessonEnds, LessonTyped, L!LessonTypeOK
  <2>4. write' \in L!Writes \union {L!NoWrite} /\ form' \in {"none", "planning", "cancelling"}
    BY <1>15
    DEF L!LessonEnds, LessonTyped, L!LessonTypeOK, LessonQueried, L!LessonRows, L!Writes,
        L!NoWrite, L!Kinds
  <2>5. learnt' \in 0 .. MaxRev
    BY <1>15 DEF L!LessonEnds, LessonTyped, L!LessonTypeOK, LessonLearnt, L!Writes, L!NoWrite
  <2>6. LessonLearnt'
    BY <1>15, <2>2
    DEF L!LessonEnds, LessonTyped, LessonQueried, L!LessonTypeOK, LessonLearnt, L!Writes,
        L!NoWrite, L!Queries, L!LessonRows
  <2> QED BY <2>1, <2>2, <2>3, <2>4, <2>5, <2>6 DEF LessonTyped, L!LessonTypeOK, LessonQueried
<1>16. CASE L!ExchangeEnds
  <2>1. LessonQueried'
    BY <1>16, LessonQueryKept DEF L!ExchangeEnds, LessonTyped, L!LessonTypeOK
  <2>2. lesson' \in L!LessonRows /\ lesson'.number <= lesson'.rev /\ lesson'.rev >= lesson.rev
    <3>1. lesson.rev + 1 \in 0 .. MaxRev /\ lesson.rev \in Nat /\ lesson.number \in Nat
      BY <1>16 DEF L!ExchangeEnds, LessonTyped, L!LessonTypeOK, L!LessonRows
    <3>2. ASSUME NEW row \in L!LessonRows, NEW rev \in 0 .. MaxRev
          PROVE  /\ [row EXCEPT !.active = FALSE, !.rev = rev] \in L!LessonRows
                 /\ [row EXCEPT !.active = FALSE, !.rev = rev].rev = rev
                 /\ [row EXCEPT !.active = FALSE, !.rev = rev].number = row.number
      BY DEF L!LessonRows
    <3>3. lesson' = [lesson EXCEPT !.active = FALSE, !.rev = lesson.rev + 1]
      BY <1>16 DEF L!ExchangeEnds
    <3>4. lesson \in L!LessonRows /\ lesson.number <= lesson.rev
      BY DEF LessonTyped, L!LessonTypeOK
    <3>5. /\ lesson' \in L!LessonRows
          /\ lesson'.rev = lesson.rev + 1
          /\ lesson'.number = lesson.number
      BY <3>1, <3>2, <3>3, <3>4
    <3> QED BY <3>1, <3>4, <3>5
  <2>3. lessonExchange' \in L!Queries({"none", "exchange"}, [active : BOOLEAN])
    BY <1>16, FollowIsQuery DEF L!ExchangeEnds, LessonTyped, L!LessonTypeOK
  <2>4. write' \in L!Writes \union {L!NoWrite} /\ form' \in {"none", "planning", "cancelling"}
    BY <1>16
    DEF L!ExchangeEnds, LessonTyped, L!LessonTypeOK, LessonQueried, L!LessonRows, L!Writes,
        L!NoWrite, L!Kinds
  <2>5. learnt' \in 0 .. MaxRev
    BY <1>16 DEF L!ExchangeEnds, LessonTyped, L!LessonTypeOK, LessonLearnt, L!Writes, L!NoWrite
  <2>6. LessonLearnt'
    BY <1>16, <2>2
    DEF L!ExchangeEnds, LessonTyped, LessonQueried, L!LessonTypeOK, LessonLearnt, L!Writes,
        L!NoWrite, L!Queries, L!LessonRows
  <2> QED BY <2>1, <2>2, <2>3, <2>4, <2>5, <2>6 DEF LessonTyped, L!LessonTypeOK, LessonQueried
<1>17. ASSUME NEW kind \in L!Kinds, L!PartnerActs(kind) PROVE LessonInv'
  <2>1. LessonQueried'
    BY <1>17, LessonQueryKept DEF L!PartnerActs, LessonTyped, L!LessonTypeOK
  <2>2. lesson' \in L!LessonRows /\ lesson'.number <= lesson'.rev /\ lesson'.rev >= lesson.rev
    <3>1. lesson.rev \in Nat
      BY DEF LessonTyped, L!LessonTypeOK, L!LessonRows
    <3> QED BY <1>17, <3>1, AfterIsLesson DEF L!PartnerActs, LessonTyped, L!LessonTypeOK
  <2>3. lessonExchange' \in L!Queries({"none", "exchange"}, [active : BOOLEAN])
    BY <1>17, FollowIsQuery DEF L!PartnerActs, LessonTyped, L!LessonTypeOK
  <2>4. write' \in L!Writes \union {L!NoWrite} /\ form' \in {"none", "planning", "cancelling"}
    BY <1>17
    DEF L!PartnerActs, LessonTyped, L!LessonTypeOK, LessonQueried, L!LessonRows, L!Writes,
        L!NoWrite, L!Kinds
  <2>5. learnt' \in 0 .. MaxRev
    BY <1>17 DEF L!PartnerActs, LessonTyped, L!LessonTypeOK, LessonLearnt, L!Writes, L!NoWrite
  <2>6. LessonLearnt'
    BY <1>17, <2>2
    DEF L!PartnerActs, LessonTyped, LessonQueried, L!LessonTypeOK, LessonLearnt, L!Writes,
        L!NoWrite, L!Queries, L!LessonRows
  <2> QED BY <2>1, <2>2, <2>3, <2>4, <2>5, <2>6 DEF LessonTyped, L!LessonTypeOK, LessonQueried
<1>18. ASSUME NEW kind \in {"accept", "decline"}, L!decide(kind) PROVE LessonInv'
  <2>1. LessonQueried'
    BY <1>18, LessonQueryKept DEF L!decide, L!Send, LessonTyped, L!LessonTypeOK
  <2>2. lesson' \in L!LessonRows /\ lesson'.number <= lesson'.rev /\ lesson'.rev >= lesson.rev
    BY <1>18 DEF L!decide, L!Send, LessonTyped, L!LessonTypeOK, L!LessonRows
  <2>3. lessonExchange' \in L!Queries({"none", "exchange"}, [active : BOOLEAN])
    BY <1>18, FollowIsQuery DEF L!decide, L!Send, LessonTyped, L!LessonTypeOK
  <2>4. write' \in L!Writes \union {L!NoWrite} /\ form' \in {"none", "planning", "cancelling"}
    BY <1>18
    DEF L!decide, L!Send, LessonTyped, L!LessonTypeOK, LessonQueried, L!LessonRows, L!Writes,
        L!NoWrite, L!Kinds, L!shownLesson, L!Ready, L!Shows
  <2>5. learnt' \in 0 .. MaxRev
    BY <1>18
    DEF L!decide, L!Send, LessonTyped, L!LessonTypeOK, LessonLearnt, L!Writes, L!NoWrite
  <2>6. LessonLearnt'
    BY <1>18, <2>2
    DEF L!decide, L!Send, LessonTyped, LessonQueried, L!LessonTypeOK, LessonLearnt, L!Writes,
        L!NoWrite, L!Queries, L!LessonRows
  <2> QED BY <2>1, <2>2, <2>3, <2>4, <2>5, <2>6 DEF LessonTyped, L!LessonTypeOK, LessonQueried
<1>19. ASSUME NEW f \in {"planning", "cancelling"}, L!OpenForm(f) PROVE LessonInv'
  <2>1. LessonQueried'
    BY <1>19, LessonQueryKept DEF L!OpenForm, LessonTyped, L!LessonTypeOK
  <2>2. lesson' \in L!LessonRows /\ lesson'.number <= lesson'.rev /\ lesson'.rev >= lesson.rev
    BY <1>19 DEF L!OpenForm, LessonTyped, L!LessonTypeOK, L!LessonRows
  <2>3. lessonExchange' \in L!Queries({"none", "exchange"}, [active : BOOLEAN])
    BY <1>19, FollowIsQuery DEF L!OpenForm, LessonTyped, L!LessonTypeOK
  <2>4. write' \in L!Writes \union {L!NoWrite} /\ form' \in {"none", "planning", "cancelling"}
    BY <1>19
    DEF L!OpenForm, LessonTyped, L!LessonTypeOK, LessonQueried, L!LessonRows, L!Writes,
        L!NoWrite, L!Kinds, L!shownLesson, L!Ready, L!Shows
  <2>5. learnt' \in 0 .. MaxRev
    BY <1>19 DEF L!OpenForm, LessonTyped, L!LessonTypeOK, LessonLearnt, L!Writes, L!NoWrite
  <2>6. LessonLearnt'
    BY <1>19, <2>2
    DEF L!OpenForm, LessonTyped, LessonQueried, L!LessonTypeOK, LessonLearnt, L!Writes,
        L!NoWrite, L!Queries, L!LessonRows
  <2> QED BY <2>1, <2>2, <2>3, <2>4, <2>5, <2>6 DEF LessonTyped, L!LessonTypeOK, LessonQueried
<1> QED BY <1>1, <1>2, <1>3, <1>4, <1>5, <1>6, <1>7, <1>8, <1>9, <1>10, <1>11, <1>12, <1>13, <1>14, <1>15, <1>16, <1>17, <1>18, <1>19
DEF L!LessonNext

LEMMA LessonInvHolds == Spec => [](screen = "lesson" => LessonInv)
<1> DEFINE Inv == screen = "lesson" => LessonInv
<1>1. Init => Inv
  BY LessonInitHolds DEF Init
<1>2. Inv /\ [Next]_vars => Inv'
  <2> SUFFICES ASSUME Inv, [Next]_vars, screen' = "lesson" PROVE LessonInv'
    OBVIOUS
  <2>1. CASE Next
    BY <2>1, StepOfPage, LessonStep
  <2>2. CASE UNCHANGED vars
    <3>1. UNCHANGED lessonVars /\ LessonInv
      BY <2>2 DEF vars
    <3> QED BY <3>1
    DEF lessonVars, LessonInv, LessonTyped, L!LessonTypeOK, LessonQueried, LessonLearnt
  <2> QED BY <2>1, <2>2
<1> QED BY <1>1, <1>2, PTL DEF Spec

\* Through conflicts, lost answers and reloads, the page of a lesson never
\* shows it as it was before a change that the page announced.
THEOREM LessonIsCurrentHolds == Spec => []LessonIsCurrent
<1>1. (screen = "lesson" => LessonInv) => LessonIsCurrent
  BY
  DEF LessonIsCurrent, LessonInv, LessonTyped, LessonQueried, LessonLearnt, L!LessonIsCurrent,
      L!shownLesson, L!Ready, L!Shows
<1> QED BY <1>1, LessonInvHolds, PTL

-----------------------------------------------------------------------------
(***************************************************************************)
(* The page of one exchange.                                               *)
(***************************************************************************)
ReviewKeys == {"none", "reviews"}

ExchangeQueried ==
    /\ page \in E!Queries({"exchange"}, E!Exchanges)
    /\ page.call = "served" => page.answer \in E!Exchanges
    /\ page.status = "ready" => page.data \in E!Exchanges

\* Reviews that are not mounted ask for nothing and hold nothing.
ReviewsQueried ==
    /\ reviews \in E!Queries(ReviewKeys, E!ReviewLists)
    /\ reviews.call = "served" => reviews.answer \in E!ReviewLists
    /\ reviews.status = "ready" => reviews.data \in E!ReviewLists
    /\ reviews.key = "none" => reviews.call = "none" /\ reviews.status = "loading"

ExchangeTyped == E!ExchangeTypeOK /\ ExchangeQueried /\ ReviewsQueried

\* The endings that were announced are those of the exchange e.
Ends(e) ==
    /\ "confirmed" \in ended => "me" \in e.done
    /\ "CANCELLED" \in ended => e.status = "CANCELLED"

EndingIsTrue ==
    /\ Ends(exchange)
    /\ page.call = "served" => Ends(page.answer)
    /\ page.status = "ready" => Ends(page.data)
    /\ completion.phase = "ok" /\ completion.kind = "complete" => "me" \in exchange.done
    /\ completion.phase = "ok" /\ completion.kind = "cancel" => exchange.status = "CANCELLED"

\* A review that is waited for was sent by the component that is mounted.
ReviewIsTrue ==
    /\ review # E!NoWrite => reviews.key = "reviews"
    /\ review.phase \in {"ok", "review_already_exists"} => "me" \in exchange.authors
    /\ reviewed => "me" \in exchange.authors
    /\ reviewed /\ reviews.call = "served" => "me" \in reviews.answer.authors
    /\ reviewed /\ reviews.status = "ready" => "me" \in reviews.data.authors

ExchangeInv == ExchangeTyped /\ EndingIsTrue /\ ReviewIsTrue

LEMMA ExchangeQueryKept ==
    ASSUME ExchangeQueried, exchange \in E!Exchanges,
           \/ page' = page
           \/ page' = E!Retry(page)
           \/ page' = E!Served(page, exchange)
           \/ E!Arriving(page) /\ page' = E!Taken(page)
           \/ page' = E!Failed(page)
    PROVE  ExchangeQueried'
<1> USE DEF ExchangeQueried
<1>1. CASE page' = page BY <1>1
<1>2. CASE page' = E!Retry(page)
  BY <1>2 DEF E!Load, E!Retry, E!Queries, E!Nothing
<1>3. CASE page' = E!Served(page, exchange)
  BY <1>3 DEF E!Served, E!Queries
<1>4. CASE E!Arriving(page) /\ page' = E!Taken(page)
  BY <1>4 DEF E!Taken, E!Arriving, E!Queries, E!Nothing
<1>5. CASE page' = E!Failed(page)
  BY <1>5 DEF E!Failed, E!Queries, E!Nothing
<1> QED BY <1>1, <1>2, <1>3, <1>4, <1>5

LEMMA ReviewsQueryKept ==
    ASSUME ReviewsQueried, exchange \in E!Exchanges,
           \/ reviews' = reviews
           \/ reviews' = E!Unmounted
           \/ reviews' = E!Load("reviews")
           \/ reviews.key = "reviews" /\ reviews' = E!Retry(reviews)
           \/ E!Asked(reviews) /\ reviews' = E!Served(reviews, [authors |-> exchange.authors])
           \/ E!Arriving(reviews) /\ reviews' = E!Taken(reviews)
           \/ E!InFlight(reviews) /\ reviews' = E!Failed(reviews)
    PROVE  ReviewsQueried'
<1> USE DEF ReviewsQueried, ReviewKeys
<1>1. CASE reviews' = reviews BY <1>1
<1>2. CASE reviews' = E!Unmounted
  BY <1>2 DEF E!Load, E!Unmounted, E!Queries, E!Nothing
<1>3. CASE reviews' = E!Load("reviews") \/ (reviews.key = "reviews" /\ reviews' = E!Retry(reviews))
  BY <1>3 DEF E!Load, E!Retry, E!Queries, E!Nothing
<1>4. CASE E!Asked(reviews) /\ reviews' = E!Served(reviews, [authors |-> exchange.authors])
  <2>1. [authors |-> exchange.authors] \in E!ReviewLists
    BY DEF E!ReviewLists, E!Exchanges
  <2> QED BY <1>4, <2>1 DEF E!Served, E!Asked, E!Queries
<1>5. CASE E!Arriving(reviews) /\ reviews' = E!Taken(reviews)
  BY <1>5 DEF E!Taken, E!Arriving, E!Queries, E!Nothing
<1>6. CASE E!InFlight(reviews) /\ reviews' = E!Failed(reviews)
  BY <1>6 DEF E!Failed, E!InFlight, E!Queries, E!Nothing
<1> QED BY <1>1, <1>2, <1>3, <1>4, <1>5, <1>6

LEMMA ExchangeInitHolds ==
    ASSUME E!ExchangeInit
    PROVE  ExchangeInv
<1>1. exchange \in E!Exchanges
  BY DEF E!ExchangeInit, E!Exchanges
<1>2. ExchangeQueried
  BY DEF E!ExchangeInit, ExchangeQueried, E!Load, E!Queries, E!Nothing
<1>3. ReviewsQueried
  BY DEF E!ExchangeInit, ReviewsQueried, ReviewKeys, E!Unmounted, E!Load, E!Queries, E!Nothing
<1>4. E!ExchangeTypeOK
  BY <1>1, <1>2, <1>3
  DEF E!ExchangeInit, E!ExchangeTypeOK, ExchangeQueried, ReviewsQueried, ReviewKeys
<1>5. EndingIsTrue /\ ReviewIsTrue
  BY DEF E!ExchangeInit, EndingIsTrue, Ends, ReviewIsTrue, E!Load, E!NoWrite
<1> QED BY <1>2, <1>3, <1>4, <1>5 DEF ExchangeInv, ExchangeTyped

\* A participant confirms or cancels an active exchange, or reviews a
\* completed one.
Advances(e, f, u) ==
    \/ f = e
    \/ e.status = "ACTIVE" /\ f = [e EXCEPT !.planCompleted = TRUE]
    \/ E!canConfirmCompletion(e, u) /\ f = E!Completed(e, u)
    \/ E!canCancel(e) /\ f = E!Cancelled(e)
    \/ E!canReview(e, u) /\ f = E!Reviewed(e, u)

LEMMA AdvancesKeeps ==
    ASSUME NEW e \in E!Exchanges, NEW f, NEW u \in People, Advances(e, f, u)
    PROVE  /\ f \in E!Exchanges
           /\ e.done \subseteq f.done
           /\ e.authors \subseteq f.authors
           /\ e.status = "CANCELLED" => f.status = "CANCELLED"
<1>1. CASE f = e
  BY <1>1
<1>2. CASE e.status = "ACTIVE" /\ f = [e EXCEPT !.planCompleted = TRUE]
  BY <1>2 DEF E!Exchanges
<1>3. CASE E!canConfirmCompletion(e, u) /\ f = E!Completed(e, u)
  <2> DEFINE done == e.done \union {u}
             status == IF e.done \union {u} = People THEN "COMPLETED" ELSE e.status
  <2>1. done \in SUBSET People /\ e.done \subseteq done /\ status \in {"COMPLETED", e.status}
    BY DEF E!Exchanges
  <2>2. f = [e EXCEPT !.done = done, !.status = status] /\ e.status = "ACTIVE"
    BY <1>3 DEF E!Completed, E!canConfirmCompletion
  <2> HIDE DEF done, status
  <2> QED BY <2>1, <2>2 DEF E!Exchanges
<1>4. CASE E!canCancel(e) /\ f = E!Cancelled(e)
  BY <1>4 DEF E!Exchanges, E!Cancelled
<1>5. CASE E!canReview(e, u) /\ f = E!Reviewed(e, u)
  <2> DEFINE authors == e.authors \union {u}
  <2>1. authors \in SUBSET People /\ e.authors \subseteq authors
    BY DEF E!Exchanges
  <2>2. f = [e EXCEPT !.authors = authors]
    BY <1>5 DEF E!Reviewed
  <2> HIDE DEF authors
  <2> QED BY <2>1, <2>2 DEF E!Exchanges
<1> QED BY <1>1, <1>2, <1>3, <1>4, <1>5 DEF Advances

LEMMA ExchangeStep ==
    ASSUME ExchangeInv, E!ExchangeNext
    PROVE  ExchangeInv'
<1> USE DEF ExchangeInv
<1>0. /\ exchange \in E!Exchanges /\ ExchangeQueried /\ ReviewsQueried
      /\ {saved, cancelling, reviewing, unheard, reviewed} \subseteq BOOLEAN
      /\ completion \in {E!NoWrite} \union [kind : {"complete", "cancel"}, phase : E!Phases]
      /\ review \in {E!NoWrite} \union
            [kind : {"review"}, phase : {"asked", "ok", "review_already_exists", "refused"}]
      /\ ended \subseteq {"CANCELLED", "confirmed"} /\ "me" \in People
  BY PagesAssumption DEF ExchangeTyped, E!ExchangeTypeOK, E!PeopleAssumption
<1>1. ASSUME E!PlanCompletes
      PROVE  ExchangeInv'
  <2>1. \E v \in People : Advances(exchange, exchange', v)
    BY <1>1, <1>0 DEF E!PlanCompletes, E!ExchangeChanges, Advances
  <2>2. /\ exchange' \in E!Exchanges
        /\ exchange.done \subseteq exchange'.done
        /\ exchange.authors \subseteq exchange'.authors
        /\ exchange.status = "CANCELLED" => exchange'.status = "CANCELLED"
    BY <2>1, <1>0, AdvancesKeeps
  <2>3. ExchangeQueried'
    BY <1>1, <1>0, ExchangeQueryKept DEF E!PlanCompletes, E!ExchangeChanges
  <2>4. ReviewsQueried'
    BY <1>1, <1>0, ReviewsQueryKept DEF E!PlanCompletes, E!ExchangeChanges
  <2>5. /\ saved' \in BOOLEAN /\ cancelling' \in BOOLEAN
        /\ reviewing' \in BOOLEAN /\ unheard' \in BOOLEAN /\ reviewed' \in BOOLEAN
    BY <1>1, <1>0 DEF E!PlanCompletes, E!ExchangeChanges
  <2>6. /\ completion' \in {E!NoWrite} \union [kind : {"complete", "cancel"}, phase : E!Phases]
        /\ review' \in {E!NoWrite} \union
              [kind : {"review"}, phase : {"asked", "ok", "review_already_exists", "refused"}]
        /\ ended' \subseteq {"CANCELLED", "confirmed"}
    BY <1>1, <1>0 DEF E!PlanCompletes, E!ExchangeChanges, E!NoWrite, E!Phases
  <2>7. EndingIsTrue'
    BY <1>1, <1>0, <2>2
    DEF E!PlanCompletes, E!ExchangeChanges, EndingIsTrue, Ends, ExchangeQueried, E!Queries,
        E!NoWrite
  <2>8. ReviewIsTrue'
    BY <1>1, <1>0, <2>2
    DEF E!PlanCompletes, E!ExchangeChanges, ReviewIsTrue, ReviewsQueried, ReviewKeys,
        E!Queries, E!NoWrite
  <2> QED BY <2>2, <2>3, <2>4, <2>5, <2>6, <2>7, <2>8
  DEF ExchangeTyped, E!ExchangeTypeOK, ExchangeQueried, ReviewsQueried, ReviewKeys
<1>2. ASSUME E!AnswerExchange
      PROVE  ExchangeInv'
  <2>1. \E v \in People : Advances(exchange, exchange', v)
    BY <1>2, <1>0 DEF E!AnswerExchange, Advances
  <2>2. /\ exchange' \in E!Exchanges
        /\ exchange.done \subseteq exchange'.done
        /\ exchange.authors \subseteq exchange'.authors
        /\ exchange.status = "CANCELLED" => exchange'.status = "CANCELLED"
    BY <2>1, <1>0, AdvancesKeeps
  <2>3. ExchangeQueried'
    BY <1>2, <1>0, ExchangeQueryKept DEF E!AnswerExchange
  <2>4. ReviewsQueried'
    BY <1>2, <1>0, ReviewsQueryKept DEF E!AnswerExchange
  <2>5. /\ saved' \in BOOLEAN /\ cancelling' \in BOOLEAN
        /\ reviewing' \in BOOLEAN /\ unheard' \in BOOLEAN /\ reviewed' \in BOOLEAN
    BY <1>2, <1>0 DEF E!AnswerExchange
  <2>6. /\ completion' \in {E!NoWrite} \union [kind : {"complete", "cancel"}, phase : E!Phases]
        /\ review' \in {E!NoWrite} \union
              [kind : {"review"}, phase : {"asked", "ok", "review_already_exists", "refused"}]
        /\ ended' \subseteq {"CANCELLED", "confirmed"}
    BY <1>2, <1>0 DEF E!AnswerExchange, E!NoWrite, E!Phases
  <2>7. EndingIsTrue'
    BY <1>2, <1>0, <2>2
    DEF E!AnswerExchange, EndingIsTrue, Ends, ExchangeQueried, E!Queries, E!Served, E!NoWrite
  <2>8. ReviewIsTrue'
    BY <1>2, <1>0, <2>2
    DEF E!AnswerExchange, ReviewIsTrue, ReviewsQueried, ReviewKeys, E!Queries, E!Served,
        E!NoWrite
  <2> QED BY <2>2, <2>3, <2>4, <2>5, <2>6, <2>7, <2>8
  DEF ExchangeTyped, E!ExchangeTypeOK, ExchangeQueried, ReviewsQueried, ReviewKeys
<1>3. ASSUME E!TakeExchange
      PROVE  ExchangeInv'
  <2>1. \E v \in People : Advances(exchange, exchange', v)
    BY <1>3, <1>0 DEF E!TakeExchange, E!ShowPage, Advances
  <2>2. /\ exchange' \in E!Exchanges
        /\ exchange.done \subseteq exchange'.done
        /\ exchange.authors \subseteq exchange'.authors
        /\ exchange.status = "CANCELLED" => exchange'.status = "CANCELLED"
    BY <2>1, <1>0, AdvancesKeeps
  <2>3. ExchangeQueried'
    BY <1>3, <1>0, ExchangeQueryKept DEF E!TakeExchange, E!ShowPage
  <2>4. ReviewsQueried'
    BY <1>3, <1>0, ReviewsQueryKept DEF E!TakeExchange, E!ShowPage
  <2>5. /\ saved' \in BOOLEAN /\ cancelling' \in BOOLEAN
        /\ reviewing' \in BOOLEAN /\ unheard' \in BOOLEAN /\ reviewed' \in BOOLEAN
    BY <1>3, <1>0 DEF E!TakeExchange, E!ShowPage
  <2>6. /\ completion' \in {E!NoWrite} \union [kind : {"complete", "cancel"}, phase : E!Phases]
        /\ review' \in {E!NoWrite} \union
              [kind : {"review"}, phase : {"asked", "ok", "review_already_exists", "refused"}]
        /\ ended' \subseteq {"CANCELLED", "confirmed"}
    BY <1>3, <1>0 DEF E!TakeExchange, E!ShowPage, E!NoWrite, E!Phases
  <2>7. EndingIsTrue'
    BY <1>3, <1>0, <2>2
    DEF E!TakeExchange, E!ShowPage, EndingIsTrue, Ends, ExchangeQueried, E!Queries, E!Taken,
        E!Failed, E!Load, E!Arriving, E!NoWrite
  <2>8. ReviewIsTrue'
    BY <1>3, <1>0, <2>2
    DEF E!TakeExchange, E!ShowPage, ReviewIsTrue, ReviewsQueried, ReviewKeys, E!Queries,
        E!Taken, E!Failed, E!Load, E!Unmounted, E!Arriving, E!NoWrite
  <2> QED BY <2>2, <2>3, <2>4, <2>5, <2>6, <2>7, <2>8
  DEF ExchangeTyped, E!ExchangeTypeOK, ExchangeQueried, ReviewsQueried, ReviewKeys
<1>4. ASSUME E!RefreshExchange
      PROVE  ExchangeInv'
  <2>1. \E v \in People : Advances(exchange, exchange', v)
    BY <1>4, <1>0 DEF E!RefreshExchange, E!ShowPage, Advances
  <2>2. /\ exchange' \in E!Exchanges
        /\ exchange.done \subseteq exchange'.done
        /\ exchange.authors \subseteq exchange'.authors
        /\ exchange.status = "CANCELLED" => exchange'.status = "CANCELLED"
    BY <2>1, <1>0, AdvancesKeeps
  <2>3. ExchangeQueried'
    BY <1>4, <1>0, ExchangeQueryKept DEF E!RefreshExchange, E!ShowPage
  <2>4. ReviewsQueried'
    BY <1>4, <1>0, ReviewsQueryKept DEF E!RefreshExchange, E!ShowPage
  <2>5. /\ saved' \in BOOLEAN /\ cancelling' \in BOOLEAN
        /\ reviewing' \in BOOLEAN /\ unheard' \in BOOLEAN /\ reviewed' \in BOOLEAN
    BY <1>4, <1>0 DEF E!RefreshExchange, E!ShowPage
  <2>6. /\ completion' \in {E!NoWrite} \union [kind : {"complete", "cancel"}, phase : E!Phases]
        /\ review' \in {E!NoWrite} \union
              [kind : {"review"}, phase : {"asked", "ok", "review_already_exists", "refused"}]
        /\ ended' \subseteq {"CANCELLED", "confirmed"}
    BY <1>4, <1>0 DEF E!RefreshExchange, E!ShowPage, E!NoWrite, E!Phases
  <2>7. EndingIsTrue'
    BY <1>4, <1>0, <2>2
    DEF E!RefreshExchange, E!ShowPage, EndingIsTrue, Ends, ExchangeQueried, E!Queries,
        E!Retry, E!Load, E!NoWrite
  <2>8. ReviewIsTrue'
    BY <1>4, <1>0, <2>2
    DEF E!RefreshExchange, E!ShowPage, ReviewIsTrue, ReviewsQueried, ReviewKeys, E!Queries,
        E!Retry, E!Load, E!Unmounted, E!NoWrite
  <2> QED BY <2>2, <2>3, <2>4, <2>5, <2>6, <2>7, <2>8
  DEF ExchangeTyped, E!ExchangeTypeOK, ExchangeQueried, ReviewsQueried, ReviewKeys
<1>5. ASSUME E!ReviewsAnswer
      PROVE  ExchangeInv'
  <2>1. \E v \in People : Advances(exchange, exchange', v)
    BY <1>5, <1>0 DEF E!ReviewsAnswer, Advances
  <2>2. /\ exchange' \in E!Exchanges
        /\ exchange.done \subseteq exchange'.done
        /\ exchange.authors \subseteq exchange'.authors
        /\ exchange.status = "CANCELLED" => exchange'.status = "CANCELLED"
    BY <2>1, <1>0, AdvancesKeeps
  <2>3. ExchangeQueried'
    BY <1>5, <1>0, ExchangeQueryKept DEF E!ReviewsAnswer
  <2>4. ReviewsQueried'
    BY <1>5, <1>0, ReviewsQueryKept DEF E!ReviewsAnswer
  <2>5. /\ saved' \in BOOLEAN /\ cancelling' \in BOOLEAN
        /\ reviewing' \in BOOLEAN /\ unheard' \in BOOLEAN /\ reviewed' \in BOOLEAN
    BY <1>5, <1>0 DEF E!ReviewsAnswer
  <2>6. /\ completion' \in {E!NoWrite} \union [kind : {"complete", "cancel"}, phase : E!Phases]
        /\ review' \in {E!NoWrite} \union
              [kind : {"review"}, phase : {"asked", "ok", "review_already_exists", "refused"}]
        /\ ended' \subseteq {"CANCELLED", "confirmed"}
    BY <1>5, <1>0 DEF E!ReviewsAnswer, E!NoWrite, E!Phases
  <2>7. EndingIsTrue'
    BY <1>5, <1>0, <2>2
    DEF E!ReviewsAnswer, EndingIsTrue, Ends, ExchangeQueried, E!Queries, E!Served, E!Taken,
        E!Failed, E!Retry, E!Load, E!Arriving, E!NoWrite
  <2>8. ReviewIsTrue'
    <3>1. UNCHANGED <<exchange, review, reviewed>>
      BY <1>5 DEF E!ReviewsAnswer
    <3>2. CASE reviews' = E!Served(reviews, [authors |-> exchange.authors])
      BY <1>0, <3>1, <3>2 DEF ReviewIsTrue, ReviewsQueried, E!Queries, E!Served
    <3>3. CASE E!Arriving(reviews) /\ reviews' = E!Taken(reviews)
      BY <1>0, <3>1, <3>3 DEF ReviewIsTrue, ReviewsQueried, E!Queries, E!Taken, E!Arriving
    <3>4. CASE reviews' = E!Failed(reviews)
      BY <1>0, <3>1, <3>4 DEF ReviewIsTrue, ReviewsQueried, E!Queries, E!Failed
    <3>5. CASE reviews' = E!Retry(reviews)
      BY <3>1, <3>5 DEF ReviewIsTrue, E!Retry, E!Load
    <3> QED BY <1>5, <3>2, <3>3, <3>4, <3>5 DEF E!ReviewsAnswer
  <2> QED BY <2>2, <2>3, <2>4, <2>5, <2>6, <2>7, <2>8
  DEF ExchangeTyped, E!ExchangeTypeOK, ExchangeQueried, ReviewsQueried, ReviewKeys
<1>6. ASSUME E!ServeCompletion
      PROVE  ExchangeInv'
  <2>1. \E v \in People : Advances(exchange, exchange', v)
    BY <1>6, <1>0 DEF E!ServeCompletion, Advances
  <2>2. /\ exchange' \in E!Exchanges
        /\ exchange.done \subseteq exchange'.done
        /\ exchange.authors \subseteq exchange'.authors
        /\ exchange.status = "CANCELLED" => exchange'.status = "CANCELLED"
    BY <2>1, <1>0, AdvancesKeeps
  <2>3. ExchangeQueried'
    BY <1>6, <1>0, ExchangeQueryKept DEF E!ServeCompletion
  <2>4. ReviewsQueried'
    BY <1>6, <1>0, ReviewsQueryKept DEF E!ServeCompletion
  <2>5. /\ saved' \in BOOLEAN /\ cancelling' \in BOOLEAN
        /\ reviewing' \in BOOLEAN /\ unheard' \in BOOLEAN /\ reviewed' \in BOOLEAN
    BY <1>6, <1>0 DEF E!ServeCompletion
  <2>6. /\ completion' \in {E!NoWrite} \union [kind : {"complete", "cancel"}, phase : E!Phases]
        /\ review' \in {E!NoWrite} \union
              [kind : {"review"}, phase : {"asked", "ok", "review_already_exists", "refused"}]
        /\ ended' \subseteq {"CANCELLED", "confirmed"}
    BY <1>6, <1>0 DEF E!ServeCompletion, E!NoWrite, E!Phases
  <2>7. EndingIsTrue'
    <3>1. UNCHANGED <<page, ended>>
      BY <1>6 DEF E!ServeCompletion
    <3>2. completion \in [kind : {"complete", "cancel"}, phase : E!Phases]
      BY <1>0, <1>6 DEF E!ServeCompletion, E!NoWrite
    <3>3. /\ completion'.phase = "ok" /\ completion'.kind = "complete" => "me" \in exchange'.done
          /\ completion'.phase = "ok" /\ completion'.kind = "cancel" => exchange'.status = "CANCELLED"
      <4>1. CASE completion.kind = "cancel" /\ E!canCancel(exchange)
        BY <1>0, <1>6, <3>2, <4>1 DEF E!ServeCompletion, E!Cancelled, E!Exchanges
      <4>2. CASE completion.kind = "complete" /\ E!canConfirmCompletion(exchange, "me")
        BY <1>0, <1>6, <3>2, <4>2 DEF E!ServeCompletion, E!Completed, E!Exchanges
      <4>3. CASE completion'.phase = "refused"
        BY <4>3
      <4> QED BY <1>6, <3>2, <4>1, <4>2, <4>3 DEF E!ServeCompletion
    <3> QED BY <2>2, <3>1, <3>3 DEF EndingIsTrue, Ends
  <2>8. ReviewIsTrue'
    BY <1>6, <1>0, <2>2
    DEF E!ServeCompletion, ReviewIsTrue, ReviewsQueried, ReviewKeys, E!Queries, E!NoWrite
  <2> QED BY <2>2, <2>3, <2>4, <2>5, <2>6, <2>7, <2>8
  DEF ExchangeTyped, E!ExchangeTypeOK, ExchangeQueried, ReviewsQueried, ReviewKeys
<1>7. ASSUME E!CompletionAnswered
      PROVE  ExchangeInv'
  <2>1. \E v \in People : Advances(exchange, exchange', v)
    BY <1>7, <1>0 DEF E!CompletionAnswered, E!ShowPage, Advances
  <2>2. /\ exchange' \in E!Exchanges
        /\ exchange.done \subseteq exchange'.done
        /\ exchange.authors \subseteq exchange'.authors
        /\ exchange.status = "CANCELLED" => exchange'.status = "CANCELLED"
    BY <2>1, <1>0, AdvancesKeeps
  <2>3. ExchangeQueried'
    BY <1>7, <1>0, ExchangeQueryKept DEF E!CompletionAnswered, E!ShowPage
  <2>4. ReviewsQueried'
    BY <1>7, <1>0, ReviewsQueryKept DEF E!CompletionAnswered, E!ShowPage
  <2>5. /\ saved' \in BOOLEAN /\ cancelling' \in BOOLEAN
        /\ reviewing' \in BOOLEAN /\ unheard' \in BOOLEAN /\ reviewed' \in BOOLEAN
    BY <1>7, <1>0 DEF E!CompletionAnswered, E!ShowPage
  <2>6. /\ completion' \in {E!NoWrite} \union [kind : {"complete", "cancel"}, phase : E!Phases]
        /\ review' \in {E!NoWrite} \union
              [kind : {"review"}, phase : {"asked", "ok", "review_already_exists", "refused"}]
        /\ ended' \subseteq {"CANCELLED", "confirmed"}
    BY <1>7, <1>0 DEF E!CompletionAnswered, E!ShowPage, E!NoWrite, E!Phases
  <2>7. EndingIsTrue'
    BY <1>7, <1>0, <2>2
    DEF E!CompletionAnswered, E!ShowPage, EndingIsTrue, Ends, ExchangeQueried, E!Queries,
        E!Retry, E!Load, E!NoWrite
  <2>8. ReviewIsTrue'
    BY <1>7, <1>0, <2>2
    DEF E!CompletionAnswered, E!ShowPage, ReviewIsTrue, ReviewsQueried, ReviewKeys, E!Queries,
        E!Retry, E!Load, E!Unmounted, E!NoWrite
  <2> QED BY <2>2, <2>3, <2>4, <2>5, <2>6, <2>7, <2>8
  DEF ExchangeTyped, E!ExchangeTypeOK, ExchangeQueried, ReviewsQueried, ReviewKeys
<1>8. ASSUME E!CompletionFails
      PROVE  ExchangeInv'
  <2>1. \E v \in People : Advances(exchange, exchange', v)
    BY <1>8, <1>0 DEF E!CompletionFails, Advances
  <2>2. /\ exchange' \in E!Exchanges
        /\ exchange.done \subseteq exchange'.done
        /\ exchange.authors \subseteq exchange'.authors
        /\ exchange.status = "CANCELLED" => exchange'.status = "CANCELLED"
    BY <2>1, <1>0, AdvancesKeeps
  <2>3. ExchangeQueried'
    BY <1>8, <1>0, ExchangeQueryKept DEF E!CompletionFails
  <2>4. ReviewsQueried'
    BY <1>8, <1>0, ReviewsQueryKept DEF E!CompletionFails
  <2>5. /\ saved' \in BOOLEAN /\ cancelling' \in BOOLEAN
        /\ reviewing' \in BOOLEAN /\ unheard' \in BOOLEAN /\ reviewed' \in BOOLEAN
    BY <1>8, <1>0 DEF E!CompletionFails
  <2>6. /\ completion' \in {E!NoWrite} \union [kind : {"complete", "cancel"}, phase : E!Phases]
        /\ review' \in {E!NoWrite} \union
              [kind : {"review"}, phase : {"asked", "ok", "review_already_exists", "refused"}]
        /\ ended' \subseteq {"CANCELLED", "confirmed"}
    BY <1>8, <1>0 DEF E!CompletionFails, E!NoWrite, E!Phases
  <2>7. EndingIsTrue'
    BY <1>8, <1>0, <2>2
    DEF E!CompletionFails, EndingIsTrue, Ends, ExchangeQueried, E!Queries, E!NoWrite
  <2>8. ReviewIsTrue'
    BY <1>8, <1>0, <2>2
    DEF E!CompletionFails, ReviewIsTrue, ReviewsQueried, ReviewKeys, E!Queries, E!NoWrite
  <2> QED BY <2>2, <2>3, <2>4, <2>5, <2>6, <2>7, <2>8
  DEF ExchangeTyped, E!ExchangeTypeOK, ExchangeQueried, ReviewsQueried, ReviewKeys
<1>9. ASSUME E!ToggleForm
      PROVE  ExchangeInv'
  <2>1. \E v \in People : Advances(exchange, exchange', v)
    BY <1>9, <1>0 DEF E!ToggleForm, Advances
  <2>2. /\ exchange' \in E!Exchanges
        /\ exchange.done \subseteq exchange'.done
        /\ exchange.authors \subseteq exchange'.authors
        /\ exchange.status = "CANCELLED" => exchange'.status = "CANCELLED"
    BY <2>1, <1>0, AdvancesKeeps
  <2>3. ExchangeQueried'
    BY <1>9, <1>0, ExchangeQueryKept DEF E!ToggleForm
  <2>4. ReviewsQueried'
    BY <1>9, <1>0, ReviewsQueryKept DEF E!ToggleForm
  <2>5. /\ saved' \in BOOLEAN /\ cancelling' \in BOOLEAN
        /\ reviewing' \in BOOLEAN /\ unheard' \in BOOLEAN /\ reviewed' \in BOOLEAN
    BY <1>9, <1>0 DEF E!ToggleForm
  <2>6. /\ completion' \in {E!NoWrite} \union [kind : {"complete", "cancel"}, phase : E!Phases]
        /\ review' \in {E!NoWrite} \union
              [kind : {"review"}, phase : {"asked", "ok", "review_already_exists", "refused"}]
        /\ ended' \subseteq {"CANCELLED", "confirmed"}
    BY <1>9, <1>0 DEF E!ToggleForm, E!NoWrite, E!Phases
  <2>7. EndingIsTrue'
    BY <1>9, <1>0, <2>2
    DEF E!ToggleForm, EndingIsTrue, Ends, ExchangeQueried, E!Queries, E!NoWrite
  <2>8. ReviewIsTrue'
    BY <1>9, <1>0, <2>2
    DEF E!ToggleForm, ReviewIsTrue, ReviewsQueried, ReviewKeys, E!Queries, E!NoWrite
  <2> QED BY <2>2, <2>3, <2>4, <2>5, <2>6, <2>7, <2>8
  DEF ExchangeTyped, E!ExchangeTypeOK, ExchangeQueried, ReviewsQueried, ReviewKeys
<1>10. ASSUME E!createReview
      PROVE  ExchangeInv'
  <2>1. \E v \in People : Advances(exchange, exchange', v)
    BY <1>10, <1>0 DEF E!createReview, Advances
  <2>2. /\ exchange' \in E!Exchanges
        /\ exchange.done \subseteq exchange'.done
        /\ exchange.authors \subseteq exchange'.authors
        /\ exchange.status = "CANCELLED" => exchange'.status = "CANCELLED"
    BY <2>1, <1>0, AdvancesKeeps
  <2>3. ExchangeQueried'
    BY <1>10, <1>0, ExchangeQueryKept DEF E!createReview
  <2>4. ReviewsQueried'
    BY <1>10, <1>0, ReviewsQueryKept DEF E!createReview
  <2>5. /\ saved' \in BOOLEAN /\ cancelling' \in BOOLEAN
        /\ reviewing' \in BOOLEAN /\ unheard' \in BOOLEAN /\ reviewed' \in BOOLEAN
    BY <1>10, <1>0 DEF E!createReview
  <2>6. /\ completion' \in {E!NoWrite} \union [kind : {"complete", "cancel"}, phase : E!Phases]
        /\ review' \in {E!NoWrite} \union
              [kind : {"review"}, phase : {"asked", "ok", "review_already_exists", "refused"}]
        /\ ended' \subseteq {"CANCELLED", "confirmed"}
    BY <1>10, <1>0 DEF E!createReview, E!NoWrite, E!Phases
  <2>7. EndingIsTrue'
    BY <1>10, <1>0, <2>2
    DEF E!createReview, EndingIsTrue, Ends, ExchangeQueried, E!Queries, E!NoWrite
  <2>8. ReviewIsTrue'
    BY <1>10, <1>0, <2>2
    DEF E!createReview, ReviewIsTrue, ReviewsQueried, ReviewKeys, E!Queries, E!NoWrite,
        E!reviewDialog, E!offersReview, E!Ready, E!Shows
  <2> QED BY <2>2, <2>3, <2>4, <2>5, <2>6, <2>7, <2>8
  DEF ExchangeTyped, E!ExchangeTypeOK, ExchangeQueried, ReviewsQueried, ReviewKeys
<1>11. ASSUME E!ServeReview
      PROVE  ExchangeInv'
  <2>1. \E v \in People : Advances(exchange, exchange', v)
    BY <1>11, <1>0 DEF E!ServeReview, Advances
  <2>2. /\ exchange' \in E!Exchanges
        /\ exchange.done \subseteq exchange'.done
        /\ exchange.authors \subseteq exchange'.authors
        /\ exchange.status = "CANCELLED" => exchange'.status = "CANCELLED"
    BY <2>1, <1>0, AdvancesKeeps
  <2>3. ExchangeQueried'
    BY <1>11, <1>0, ExchangeQueryKept DEF E!ServeReview
  <2>4. ReviewsQueried'
    BY <1>11, <1>0, ReviewsQueryKept DEF E!ServeReview
  <2>5. /\ saved' \in BOOLEAN /\ cancelling' \in BOOLEAN
        /\ reviewing' \in BOOLEAN /\ unheard' \in BOOLEAN /\ reviewed' \in BOOLEAN
    BY <1>11, <1>0 DEF E!ServeReview
  <2>6. /\ completion' \in {E!NoWrite} \union [kind : {"complete", "cancel"}, phase : E!Phases]
        /\ review' \in {E!NoWrite} \union
              [kind : {"review"}, phase : {"asked", "ok", "review_already_exists", "refused"}]
        /\ ended' \subseteq {"CANCELLED", "confirmed"}
    BY <1>11, <1>0 DEF E!ServeReview, E!NoWrite, E!Phases
  <2>7. EndingIsTrue'
    BY <1>11, <1>0, <2>2
    DEF E!ServeReview, EndingIsTrue, Ends, ExchangeQueried, E!Queries, E!NoWrite
  <2>8. ReviewIsTrue'
    <3>1. UNCHANGED <<reviews, reviewed>>
      BY <1>11 DEF E!ServeReview
    <3>2. review \in [kind : {"review"}, phase : {"asked", "ok", "review_already_exists", "refused"}]
      BY <1>0, <1>11 DEF E!ServeReview, E!NoWrite
    <3>3. review'.phase \in {"ok", "review_already_exists"} => "me" \in exchange'.authors
      <4>1. CASE E!canReview(exchange, "me")
        BY <1>0, <1>11, <4>1 DEF E!ServeReview, E!Reviewed, E!Exchanges
      <4>2. CASE ~E!canReview(exchange, "me")
        BY <1>11, <3>2, <4>2 DEF E!ServeReview
      <4> QED BY <4>1, <4>2
    <3> QED BY <2>2, <3>1, <3>2, <3>3 DEF ReviewIsTrue, E!NoWrite
  <2> QED BY <2>2, <2>3, <2>4, <2>5, <2>6, <2>7, <2>8
  DEF ExchangeTyped, E!ExchangeTypeOK, ExchangeQueried, ReviewsQueried, ReviewKeys
<1>12. ASSUME E!ReviewAnswered
      PROVE  ExchangeInv'
  <2>1. \E v \in People : Advances(exchange, exchange', v)
    BY <1>12, <1>0 DEF E!ReviewAnswered, E!ShowPage, Advances
  <2>2. /\ exchange' \in E!Exchanges
        /\ exchange.done \subseteq exchange'.done
        /\ exchange.authors \subseteq exchange'.authors
        /\ exchange.status = "CANCELLED" => exchange'.status = "CANCELLED"
    BY <2>1, <1>0, AdvancesKeeps
  <2>3. ExchangeQueried'
    BY <1>12, <1>0, ExchangeQueryKept DEF E!ReviewAnswered, E!ShowPage
  <2>4. ReviewsQueried'
    BY <1>12, <1>0, ReviewsQueryKept DEF E!ReviewAnswered, E!ShowPage, ReviewIsTrue, E!NoWrite
  <2>5. /\ saved' \in BOOLEAN /\ cancelling' \in BOOLEAN
        /\ reviewing' \in BOOLEAN /\ unheard' \in BOOLEAN /\ reviewed' \in BOOLEAN
    BY <1>12, <1>0 DEF E!ReviewAnswered, E!ShowPage
  <2>6. /\ completion' \in {E!NoWrite} \union [kind : {"complete", "cancel"}, phase : E!Phases]
        /\ review' \in {E!NoWrite} \union
              [kind : {"review"}, phase : {"asked", "ok", "review_already_exists", "refused"}]
        /\ ended' \subseteq {"CANCELLED", "confirmed"}
    BY <1>12, <1>0 DEF E!ReviewAnswered, E!ShowPage, E!NoWrite, E!Phases
  <2>7. EndingIsTrue'
    BY <1>12, <1>0, <2>2
    DEF E!ReviewAnswered, E!ShowPage, EndingIsTrue, Ends, ExchangeQueried, E!Queries, E!Retry,
        E!Load, E!NoWrite
  <2>8. ReviewIsTrue'
    BY <1>12, <1>0, <2>2
    DEF E!ReviewAnswered, E!ShowPage, ReviewIsTrue, ReviewsQueried, ReviewKeys, E!Queries,
        E!Retry, E!Load, E!Unmounted, E!NoWrite
  <2> QED BY <2>2, <2>3, <2>4, <2>5, <2>6, <2>7, <2>8
  DEF ExchangeTyped, E!ExchangeTypeOK, ExchangeQueried, ReviewsQueried, ReviewKeys
<1>13. ASSUME E!ReviewFails
      PROVE  ExchangeInv'
  <2>1. \E v \in People : Advances(exchange, exchange', v)
    BY <1>13, <1>0 DEF E!ReviewFails, Advances
  <2>2. /\ exchange' \in E!Exchanges
        /\ exchange.done \subseteq exchange'.done
        /\ exchange.authors \subseteq exchange'.authors
        /\ exchange.status = "CANCELLED" => exchange'.status = "CANCELLED"
    BY <2>1, <1>0, AdvancesKeeps
  <2>3. ExchangeQueried'
    BY <1>13, <1>0, ExchangeQueryKept DEF E!ReviewFails
  <2>4. ReviewsQueried'
    BY <1>13, <1>0, ReviewsQueryKept DEF E!ReviewFails
  <2>5. /\ saved' \in BOOLEAN /\ cancelling' \in BOOLEAN
        /\ reviewing' \in BOOLEAN /\ unheard' \in BOOLEAN /\ reviewed' \in BOOLEAN
    BY <1>13, <1>0 DEF E!ReviewFails
  <2>6. /\ completion' \in {E!NoWrite} \union [kind : {"complete", "cancel"}, phase : E!Phases]
        /\ review' \in {E!NoWrite} \union
              [kind : {"review"}, phase : {"asked", "ok", "review_already_exists", "refused"}]
        /\ ended' \subseteq {"CANCELLED", "confirmed"}
    BY <1>13, <1>0 DEF E!ReviewFails, E!NoWrite, E!Phases
  <2>7. EndingIsTrue'
    BY <1>13, <1>0, <2>2
    DEF E!ReviewFails, EndingIsTrue, Ends, ExchangeQueried, E!Queries, E!NoWrite
  <2>8. ReviewIsTrue'
    BY <1>13, <1>0, <2>2
    DEF E!ReviewFails, ReviewIsTrue, ReviewsQueried, ReviewKeys, E!Queries, E!NoWrite
  <2> QED BY <2>2, <2>3, <2>4, <2>5, <2>6, <2>7, <2>8
  DEF ExchangeTyped, E!ExchangeTypeOK, ExchangeQueried, ReviewsQueried, ReviewKeys
<1>14. ASSUME NEW u \in People \ {"me"}, E!PartnerActs(u)
      PROVE  ExchangeInv'
  <2>1. \E v \in People : Advances(exchange, exchange', v)
    BY <1>14, <1>0 DEF E!PartnerActs, E!ExchangeChanges, Advances
  <2>2. /\ exchange' \in E!Exchanges
        /\ exchange.done \subseteq exchange'.done
        /\ exchange.authors \subseteq exchange'.authors
        /\ exchange.status = "CANCELLED" => exchange'.status = "CANCELLED"
    BY <2>1, <1>0, AdvancesKeeps
  <2>3. ExchangeQueried'
    BY <1>14, <1>0, ExchangeQueryKept DEF E!PartnerActs, E!ExchangeChanges
  <2>4. ReviewsQueried'
    BY <1>14, <1>0, ReviewsQueryKept DEF E!PartnerActs, E!ExchangeChanges
  <2>5. /\ saved' \in BOOLEAN /\ cancelling' \in BOOLEAN
        /\ reviewing' \in BOOLEAN /\ unheard' \in BOOLEAN /\ reviewed' \in BOOLEAN
    BY <1>14, <1>0 DEF E!PartnerActs, E!ExchangeChanges
  <2>6. /\ completion' \in {E!NoWrite} \union [kind : {"complete", "cancel"}, phase : E!Phases]
        /\ review' \in {E!NoWrite} \union
              [kind : {"review"}, phase : {"asked", "ok", "review_already_exists", "refused"}]
        /\ ended' \subseteq {"CANCELLED", "confirmed"}
    BY <1>14, <1>0 DEF E!PartnerActs, E!ExchangeChanges, E!NoWrite, E!Phases
  <2>7. EndingIsTrue'
    BY <1>14, <1>0, <2>2
    DEF E!PartnerActs, E!ExchangeChanges, EndingIsTrue, Ends, ExchangeQueried, E!Queries,
        E!NoWrite
  <2>8. ReviewIsTrue'
    BY <1>14, <1>0, <2>2
    DEF E!PartnerActs, E!ExchangeChanges, ReviewIsTrue, ReviewsQueried, ReviewKeys, E!Queries,
        E!NoWrite
  <2> QED BY <2>2, <2>3, <2>4, <2>5, <2>6, <2>7, <2>8
  DEF ExchangeTyped, E!ExchangeTypeOK, ExchangeQueried, ReviewsQueried, ReviewKeys
<1>15. ASSUME NEW kind \in {"complete", "cancel"}, E!run(kind)
      PROVE  ExchangeInv'
  <2>1. \E v \in People : Advances(exchange, exchange', v)
    BY <1>15, <1>0 DEF E!run, Advances
  <2>2. /\ exchange' \in E!Exchanges
        /\ exchange.done \subseteq exchange'.done
        /\ exchange.authors \subseteq exchange'.authors
        /\ exchange.status = "CANCELLED" => exchange'.status = "CANCELLED"
    BY <2>1, <1>0, AdvancesKeeps
  <2>3. ExchangeQueried'
    BY <1>15, <1>0, ExchangeQueryKept DEF E!run
  <2>4. ReviewsQueried'
    BY <1>15, <1>0, ReviewsQueryKept DEF E!run
  <2>5. /\ saved' \in BOOLEAN /\ cancelling' \in BOOLEAN
        /\ reviewing' \in BOOLEAN /\ unheard' \in BOOLEAN /\ reviewed' \in BOOLEAN
    BY <1>15, <1>0 DEF E!run
  <2>6. /\ completion' \in {E!NoWrite} \union [kind : {"complete", "cancel"}, phase : E!Phases]
        /\ review' \in {E!NoWrite} \union
              [kind : {"review"}, phase : {"asked", "ok", "review_already_exists", "refused"}]
        /\ ended' \subseteq {"CANCELLED", "confirmed"}
    BY <1>15, <1>0 DEF E!run, E!NoWrite, E!Phases
  <2>7. EndingIsTrue'
    BY <1>15, <1>0, <2>2 DEF E!run, EndingIsTrue, Ends, ExchangeQueried, E!Queries, E!NoWrite
  <2>8. ReviewIsTrue'
    BY <1>15, <1>0, <2>2
    DEF E!run, ReviewIsTrue, ReviewsQueried, ReviewKeys, E!Queries, E!NoWrite
  <2> QED BY <2>2, <2>3, <2>4, <2>5, <2>6, <2>7, <2>8
  DEF ExchangeTyped, E!ExchangeTypeOK, ExchangeQueried, ReviewsQueried, ReviewKeys
<1>16. ASSUME NEW wanted \in BOOLEAN, E!AskCancel(wanted)
      PROVE  ExchangeInv'
  <2>1. \E v \in People : Advances(exchange, exchange', v)
    BY <1>16, <1>0 DEF E!AskCancel, Advances
  <2>2. /\ exchange' \in E!Exchanges
        /\ exchange.done \subseteq exchange'.done
        /\ exchange.authors \subseteq exchange'.authors
        /\ exchange.status = "CANCELLED" => exchange'.status = "CANCELLED"
    BY <2>1, <1>0, AdvancesKeeps
  <2>3. ExchangeQueried'
    BY <1>16, <1>0, ExchangeQueryKept DEF E!AskCancel
  <2>4. ReviewsQueried'
    BY <1>16, <1>0, ReviewsQueryKept DEF E!AskCancel
  <2>5. /\ saved' \in BOOLEAN /\ cancelling' \in BOOLEAN
        /\ reviewing' \in BOOLEAN /\ unheard' \in BOOLEAN /\ reviewed' \in BOOLEAN
    BY <1>16, <1>0 DEF E!AskCancel
  <2>6. /\ completion' \in {E!NoWrite} \union [kind : {"complete", "cancel"}, phase : E!Phases]
        /\ review' \in {E!NoWrite} \union
              [kind : {"review"}, phase : {"asked", "ok", "review_already_exists", "refused"}]
        /\ ended' \subseteq {"CANCELLED", "confirmed"}
    BY <1>16, <1>0 DEF E!AskCancel, E!NoWrite, E!Phases
  <2>7. EndingIsTrue'
    BY <1>16, <1>0, <2>2
    DEF E!AskCancel, EndingIsTrue, Ends, ExchangeQueried, E!Queries, E!NoWrite
  <2>8. ReviewIsTrue'
    BY <1>16, <1>0, <2>2
    DEF E!AskCancel, ReviewIsTrue, ReviewsQueried, ReviewKeys, E!Queries, E!NoWrite
  <2> QED BY <2>2, <2>3, <2>4, <2>5, <2>6, <2>7, <2>8
  DEF ExchangeTyped, E!ExchangeTypeOK, ExchangeQueried, ReviewsQueried, ReviewKeys
<1>17. ASSUME E!ReviewUnheard
      PROVE  ExchangeInv'
  <2>1. \E v \in People : Advances(exchange, exchange', v)
    BY <1>17, <1>0 DEF E!ReviewUnheard, Advances
  <2>2. /\ exchange' \in E!Exchanges
        /\ exchange.done \subseteq exchange'.done
        /\ exchange.authors \subseteq exchange'.authors
        /\ exchange.status = "CANCELLED" => exchange'.status = "CANCELLED"
    BY <2>1, <1>0, AdvancesKeeps
  <2>3. ExchangeQueried'
    BY <1>17, <1>0, ExchangeQueryKept DEF E!ReviewUnheard
  <2>4. ReviewsQueried'
    BY <1>17, <1>0, ReviewsQueryKept DEF E!ReviewUnheard
  <2>5. /\ saved' \in BOOLEAN /\ cancelling' \in BOOLEAN
        /\ reviewing' \in BOOLEAN /\ unheard' \in BOOLEAN /\ reviewed' \in BOOLEAN
    BY <1>17, <1>0 DEF E!ReviewUnheard
  <2>6. /\ completion' \in {E!NoWrite} \union [kind : {"complete", "cancel"}, phase : E!Phases]
        /\ review' \in {E!NoWrite} \union
              [kind : {"review"}, phase : {"asked", "ok", "review_already_exists", "refused"}]
        /\ ended' \subseteq {"CANCELLED", "confirmed"}
    BY <1>17, <1>0 DEF E!ReviewUnheard, E!NoWrite, E!Phases
  <2>7. EndingIsTrue'
    BY <1>17, <1>0, <2>2
    DEF E!ReviewUnheard, EndingIsTrue, Ends, ExchangeQueried, E!Queries, E!NoWrite
  <2>8. ReviewIsTrue'
    BY <1>17, <1>0, <2>2
    DEF E!ReviewUnheard, ReviewIsTrue, ReviewsQueried, ReviewKeys, E!Queries, E!NoWrite
  <2> QED BY <2>2, <2>3, <2>4, <2>5, <2>6, <2>7, <2>8
  DEF ExchangeTyped, E!ExchangeTypeOK, ExchangeQueried, ReviewsQueried, ReviewKeys
<1> QED BY <1>1, <1>2, <1>3, <1>4, <1>5, <1>6, <1>7, <1>8, <1>9, <1>10, <1>11, <1>12, <1>13, <1>14, <1>15, <1>16,
         <1>17
DEF E!ExchangeNext

LEMMA ExchangeInvHolds == Spec => [](screen = "exchange" => ExchangeInv)
<1> DEFINE Inv == screen = "exchange" => ExchangeInv
<1>1. Init => Inv
  BY ExchangeInitHolds DEF Init
<1>2. Inv /\ [Next]_vars => Inv'
  <2> SUFFICES ASSUME Inv, [Next]_vars, screen' = "exchange" PROVE ExchangeInv'
    OBVIOUS
  <2>1. CASE Next
    BY <2>1, StepOfPage, ExchangeStep
  <2>2. CASE UNCHANGED vars
    <3>1. UNCHANGED exchangeVars /\ ExchangeInv
      BY <2>2 DEF vars
    <3> QED BY <3>1
    DEF exchangeVars, ExchangeInv, ExchangeTyped, E!ExchangeTypeOK, ExchangeQueried,
        ReviewsQueried, EndingIsTrue, Ends, ReviewIsTrue
  <2> QED BY <2>1, <2>2
<1> QED BY <1>1, <1>2, PTL DEF Spec

\* The page of an exchange never shows an ending it announced as missing,
\* nor invites to a review whoever was told that theirs is stored by the
\* component that sent it.
THEOREM ExchangeIsHonestHolds == Spec => []ExchangeIsHonest
<1>1. (screen = "exchange" => ExchangeInv) => ExchangeIsHonest
  BY
  DEF ExchangeIsHonest, ExchangeInv, EndingIsTrue, Ends, ReviewIsTrue, E!EndingIsShown,
      E!ReviewedOnce, E!offersReview, E!mine, E!shown, E!Ready, E!Shows
<1> QED BY <1>1, ExchangeInvHolds, PTL

=============================================================================
