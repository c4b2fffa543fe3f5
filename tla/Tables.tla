------------------------------- MODULE Tables -------------------------------
(***************************************************************************)
(* The PostgreSQL tables the exchange, session and trust services share    *)
(* (backend/internal/data, backend/migrations), one variable per table or  *)
(* column group, and the SQL predicates several statements repeat.         *)
(*                                                                         *)
(* A request row that could ever be inserted is a member of Requests; its  *)
(* columns that no statement updates are constants.  An exchange has one   *)
(* source request (UNIQUE source_request_id), so exchanges, and the lessons *)
(* of their plan, are indexed by the request they come from.               *)
(***************************************************************************)
EXTENDS Integers, FiniteSets

CONSTANTS
    Users,      \* registered students with a verified university email
    Requests,   \* the exchange_requests rows that may be inserted
    Skills,     \* the skill catalogue
    Requester, Recipient,  \* per request: who sent it, and to whom
    Gives, Takes,          \* the skill its requester teaches, and learns
    Offered, Returned,     \* lessons its requester, and recipient, will teach
    MaxOrder,   \* bound: the largest sessions.plan_order (a smallint column)
    Slots,      \* bound: the lesson intervals anyone proposes
    MaxTime,    \* bound: the last instant of the clock
    NoSlot      \* scheduled_start and scheduled_end are NULL

ASSUME RequestsAssumption ==
    /\ Requester \in [Requests -> Users]
    /\ Recipient \in [Requests -> Users]
    /\ \A q \in Requests : Requester[q] # Recipient[q]
    /\ Gives \in [Requests -> Skills]
    /\ Takes \in [Requests -> Skills]

ASSUME PlanAssumption ==
    /\ MaxOrder \in Nat
    /\ Offered \in [Requests -> 1..MaxOrder]
    /\ Returned \in [Requests -> 1..MaxOrder]
    /\ \A q \in Requests : Offered[q] + Returned[q] <= MaxOrder

ASSUME TimeAssumption ==
    /\ MaxTime \in Nat
    /\ \A s \in Slots : s.start \in Nat /\ s.end \in Nat /\ s.start < s.end
    /\ NoSlot \notin Slots

VARIABLES
    account,    \* users.account_status and users.deleted_at
    blocked,    \* user_blocks: <<blocker, blocked>>
    privacy,    \* user_profile_settings
    skills,     \* active rows of user_teaching_skills, user_learning_skills
    request,    \* exchange_requests.status, or how far its insertion has got
    exchange,   \* exchanges.status
    signed,     \* exchange_confirmations: who declared the exchange finished
    lesson,     \* sessions, per exchange and plan_order
    now         \* the clock of the server

tables == <<account, blocked, privacy, skills, request, exchange, signed, lesson, now>>

(***************************************************************************)
(* Row types.                                                              *)
(***************************************************************************)
Orders == 1..MaxOrder

AccountStatus == {"ACTIVE", "SUSPENDED", "DELETED"}

\* OPEN: visible and accepting requests.  CLOSED: visible, not accepting
\* requests.  HIDDEN: not discoverable.
PrivacySetting == {"OPEN", "CLOSED", "HIDDEN"}

SkillRow == Users \X {"TEACH", "LEARN"} \X Skills

\* VALIDATED is a CreateRequest call that has passed its checks and has not
\* yet opened the transaction that inserts the row.
RequestStatus == {"NONE", "VALIDATED", "PENDING", "ACCEPTED", "DECLINED", "WITHDRAWN"}

ExchangeStatus == {"NONE", "ACTIVE", "COMPLETED", "CANCELLED"}

LessonStatus == {"NONE", "DRAFT", "PROPOSED", "SCHEDULED", "COMPLETED", "CANCELLED"}

Live == {"DRAFT", "PROPOSED", "SCHEDULED"}

Proposal == [by : Users, slot : Slots]

\* pending: its session_schedule_proposals with status PENDING (the answered
\* and superseded ones are history no guard reads).  agreed and done: its
\* session_confirmations of kind SCHEDULE and COMPLETION.
Lesson == [status : LessonStatus, teacher : Users, slot : Slots \cup {NoSlot},
           pending : SUBSET Proposal, agreed : SUBSET Users, done : SUBSET Users]

TypeOK ==
    /\ account \in [Users -> AccountStatus]
    /\ blocked \subseteq Users \X Users
    /\ privacy \in [Users -> PrivacySetting]
    /\ skills \subseteq SkillRow
    /\ request \in [Requests -> RequestStatus]
    /\ exchange \in [Requests -> ExchangeStatus]
    /\ signed \in [Requests -> SUBSET Users]
    /\ lesson \in [Requests -> [Orders -> Lesson]]
    /\ now \in 0..MaxTime

(***************************************************************************)
(* Predicates of the SQL statements.                                       *)
(***************************************************************************)
Parties(q) == {Requester[q], Recipient[q]}

Partner(q, u) == IF u = Recipient[q] THEN Requester[q] ELSE Recipient[q]

NoBlock(u, v) == <<u, v>> \notin blocked /\ <<v, u>> \notin blocked

\* Both accounts in good standing and no block in either direction.
CanInteract(q) ==
    /\ \A u \in Parties(q) : account[u] = "ACTIVE"
    /\ NoBlock(Requester[q], Recipient[q])

\* visibleStudent, with $1 = u and c = v.
Visible(u, v) ==
    /\ v # u
    /\ account[v] = "ACTIVE"
    /\ privacy[v] # "HIDDEN"
    /\ NoBlock(u, v)

\* The two teaching and two learning rows a request refers to.
TeachingRows(q) == {<<Requester[q], "TEACH", Gives[q]>>, <<Recipient[q], "TEACH", Takes[q]>>}
LearningRows(q) == {<<Recipient[q], "LEARN", Gives[q]>>, <<Requester[q], "LEARN", Takes[q]>>}
Terms(q) == TeachingRows(q) \cup LearningRows(q)

Draft(u) == [status |-> "DRAFT", teacher |-> u, slot |-> NoSlot,
             pending |-> {}, agreed |-> {}, done |-> {}]

NoLesson(q) == [Draft(Requester[q]) EXCEPT !.status = "NONE"]

\* The plan_order values in use, and the drafts of one teacher.
Placed(q) == {n \in Orders : lesson[q][n].status # "NONE"}
Drafts(q, u) == {n \in Orders : lesson[q][n].status = "DRAFT" /\ lesson[q][n].teacher = u}

IsLowest(n, S) == n \in S /\ \A m \in S : n <= m

\* Confirmed lessons one participant has taught.
Taught(q, u) ==
    Cardinality({n \in Orders : lesson[q][n].status = "COMPLETED" /\ lesson[q][n].teacher = u})

PlanHalfCompleted(q) ==    \* mutant: one direction is enough
    \/ Taught(q, Requester[q]) >= Offered[q]
    \/ Taught(q, Recipient[q]) >= Returned[q]

PlanCompleted(q) ==
    /\ Taught(q, Requester[q]) >= Offered[q]
    /\ Taught(q, Recipient[q]) >= Returned[q]

\* CancelExchange on one lesson row: a live lesson loses its pending proposal
\* and its confirmations; any other keeps everything but a pending proposal.
CancelledKeepingProposal(l) ==    \* mutant: forgets to supersede
    IF l.status \in Live
    THEN [l EXCEPT !.status = "CANCELLED", !.agreed = {}, !.done = {}] ELSE l

CancelledWithHistory(l) ==    \* mutant: no condition on the status
    [l EXCEPT !.status = "CANCELLED", !.pending = {}, !.agreed = {}, !.done = {}]

Cancelled(l) ==
    IF l.status \in Live
    THEN [l EXCEPT !.status = "CANCELLED", !.pending = {}, !.agreed = {}, !.done = {}]
    ELSE [l EXCEPT !.pending = {}]

CancelExchanges(S) ==
    /\ exchange' = [q \in Requests |-> IF q \in S THEN "CANCELLED" ELSE exchange[q]]
    /\ lesson' = [q \in Requests |->
                     IF q \in S THEN [n \in Orders |-> Cancelled(lesson[q][n])] ELSE lesson[q]]

(***************************************************************************)
(* The database after registration: every account open, the skill lists    *)
(* filled, nothing agreed.                                                 *)
(***************************************************************************)
Init ==
    /\ account = [u \in Users |-> "ACTIVE"]
    /\ blocked = {}
    /\ privacy = [u \in Users |-> "OPEN"]
    /\ skills = UNION {Terms(q) : q \in Requests}
    /\ request = [q \in Requests |-> "NONE"]
    /\ exchange = [q \in Requests |-> "NONE"]
    /\ signed = [q \in Requests |-> {}]
    /\ lesson = [q \in Requests |-> [n \in Orders |-> NoLesson(q)]]
    /\ now = 0
=============================================================================
