------------------------------ MODULE Exchanges ------------------------------
(***************************************************************************)
(* internal/exchange: requests from validation to answer, and the end of   *)
(* an exchange.  Every write runs in one transaction that first locks both *)
(* participants (LockRequest, LockExchange), so it is one step; the checks *)
(* of CreateRequest run before its transaction, so they are a step apart.  *)
(* A repeated call that changes nothing, and a refused one, is a stutter.  *)
(***************************************************************************)
EXTENDS Tables

\* CreateRequest up to its transaction: the sender's profile, the recipient
\* as the sender sees it, the recipient's privacy, the four skills.
ValidateRequest(q) ==
    /\ request[q] = "NONE"
    /\ account[Requester[q]] # "DELETED"
    /\ Visible(Requester[q], Recipient[q])
    /\ privacy[Recipient[q]] = "OPEN"
    /\ Terms(q) \subseteq skills
    /\ request' = [request EXCEPT ![q] = "VALIDATED"]
    /\ UNCHANGED <<account, blocked, privacy, skills, exchange, signed, lesson, now>>

\* The transaction of CreateRequest: the INSERT reads only the skill rows, and
\* the partial unique index refuses a second pending request for the pair of
\* teaching rows, in either direction.
InsertRequest(q) ==
    /\ request[q] = "VALIDATED"
    /\ Terms(q) \subseteq skills
    /\ \A p \in Requests : request[p] = "PENDING" => TeachingRows(p) # TeachingRows(q)
    /\ request' = [request EXCEPT ![q] = "PENDING"]
    /\ UNCHANGED <<account, blocked, privacy, skills, exchange, signed, lesson, now>>

\* CreateRequest ends with an error, or its caller goes away, before the INSERT.
AbandonRequest(q) ==
    /\ request[q] = "VALIDATED"
    /\ request' = [request EXCEPT ![q] = "NONE"]
    /\ UNCHANGED <<account, blocked, privacy, skills, exchange, signed, lesson, now>>

\* answerRequest: the recipient declines, or the requester withdraws.
AnswerRequest(q, status) ==
    /\ request[q] = "PENDING"
    /\ request' = [request EXCEPT ![q] = status]
    /\ UNCHANGED <<account, blocked, privacy, skills, exchange, signed, lesson, now>>

DeclineRequest(q) == AnswerRequest(q, "DECLINED")
WithdrawRequest(q) == AnswerRequest(q, "WITHDRAWN")

RequestIsCurrentDespiteBlock(q) ==    \* mutant: accounts and skills only
    (\A u \in Parties(q) : account[u] = "ACTIVE") /\ Terms(q) \subseteq skills

\* Both accounts active, no block, all four skill rows still in the lists.
RequestIsCurrent(q) == CanInteract(q) /\ Terms(q) \subseteq skills

\* draft_sessions of CreateExchange: first the requester's lessons, then the
\* recipient's.
Plan(q) ==
    [n \in Orders |->
        IF n <= Offered[q] THEN Draft(Requester[q])
        ELSE IF n <= Offered[q] + Returned[q] THEN Draft(Recipient[q])
        ELSE NoLesson(q)]

\* The recipient accepts.
AcceptRequest(q) ==
    /\ request[q] = "PENDING"
    /\ RequestIsCurrent(q)
    /\ request' = [request EXCEPT ![q] = "ACCEPTED"]
    /\ exchange' = [exchange EXCEPT ![q] = "ACTIVE"]
    /\ lesson' = [lesson EXCEPT ![q] = Plan(q)]
    /\ UNCHANGED <<account, blocked, privacy, skills, signed, now>>

CompleteExchangeAlone(q, u) ==    \* mutant: does not wait for the partner
    /\ exchange[q] = "ACTIVE"
    /\ CanInteract(q)
    /\ PlanCompleted(q)
    /\ u \notin signed[q]
    /\ signed' = [signed EXCEPT ![q] = @ \cup {u}]
    /\ exchange' = [exchange EXCEPT ![q] = "COMPLETED"]
    /\ UNCHANGED <<account, blocked, privacy, skills, request, lesson, now>>

\* u declares the exchange finished; the second declaration completes it.
CompleteExchange(q, u) ==
    /\ exchange[q] = "ACTIVE"
    /\ CanInteract(q)
    /\ PlanCompleted(q)
    /\ u \notin signed[q]
    /\ signed' = [signed EXCEPT ![q] = @ \cup {u}]
    /\ exchange' = IF Partner(q, u) \in signed[q]
                   THEN [exchange EXCEPT ![q] = "COMPLETED"] ELSE exchange
    /\ UNCHANGED <<account, blocked, privacy, skills, request, lesson, now>>

\* Either participant cancels; neither needs to be able to interact.
CancelExchange(q) ==
    /\ exchange[q] = "ACTIVE"
    /\ CancelExchanges({q})
    /\ UNCHANGED <<account, blocked, privacy, skills, request, signed, now>>
=============================================================================
