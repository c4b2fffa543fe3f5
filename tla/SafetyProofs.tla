---------------------------- MODULE SafetyProofs ----------------------------
(***************************************************************************)
(* Proofs, for every number of students, requests, lessons and intervals,  *)
(* of the properties of module Safety: first what holds of the rows, then, *)
(* of whole exchanges, that what has ended is never rewritten and that     *)
(* only two signatures on a finished plan complete one.                    *)
(***************************************************************************)
EXTENDS Safety, FiniteSetTheorems, TLAPS

(***************************************************************************)
(* The row constructors build rows of the right type.                      *)
(***************************************************************************)
LEMMA PartiesAreUsers ==
    ASSUME NEW q \in Requests
    PROVE  /\ Requester[q] \in Users
           /\ Recipient[q] \in Users
           /\ Requester[q] # Recipient[q]
           /\ Parties(q) = {Requester[q], Recipient[q]}
           /\ Parties(q) \subseteq Users
           /\ \A u \in Parties(q) : Partner(q, u) \in Parties(q) /\ Partner(q, u) # u
BY RequestsAssumption DEF Parties, Partner

LEMMA DraftType ==
    ASSUME NEW u \in Users
    PROVE  Draft(u) \in Lesson
BY DEF Draft, Lesson, LessonStatus

LEMMA NoLessonType ==
    ASSUME NEW q \in Requests
    PROVE  NoLesson(q) \in Lesson
BY PartiesAreUsers DEF NoLesson, Draft, Lesson, LessonStatus

LEMMA PlanType ==
    ASSUME NEW q \in Requests
    PROVE  Plan(q) \in [Orders -> Lesson]
BY PartiesAreUsers, DraftType, NoLessonType DEF Plan

LEMMA CancelledType ==
    ASSUME NEW l \in Lesson
    PROVE  Cancelled(l) \in Lesson
BY DEF Cancelled, Lesson, LessonStatus

LEMMA ProposedType ==
    ASSUME NEW l \in Lesson, NEW u \in Users, NEW t \in Users, NEW s \in Slots
    PROVE  Proposed(l, u, t, s) \in Lesson
<1>1. {[by |-> u, slot |-> s]} \in SUBSET Proposal
  BY DEF Proposal
<1>2. {u} \in SUBSET Users
  OBVIOUS
<1> QED
  BY <1>1, <1>2 DEF Proposed, Lesson, LessonStatus

LEMMA AnswersType ==
    ASSUME NEW l \in Lesson, NEW u \in Users
    PROVE  Accepted(l, u) \in Lesson /\ Declined(l) \in Lesson
BY DEF Accepted, Declined, Lesson, LessonStatus

LEMMA ConfirmedType ==
    ASSUME NEW q \in Requests, NEW l \in Lesson, NEW u \in Users
    PROVE  Confirmed(q, l, u) \in Lesson
<1> DEFINE done == l.done \cup {u}
           status == IF Partner(q, u) \in l.done THEN "COMPLETED" ELSE l.status
<1>1. Confirmed(q, l, u) = [l EXCEPT !.done = done, !.status = status]
  BY DEF Confirmed
<1>2. done \in SUBSET Users /\ status \in LessonStatus
  BY DEF Lesson, LessonStatus
<1> HIDE DEF done, status
<1>3. [l EXCEPT !.done = done, !.status = status] \in Lesson
  BY <1>2 DEF Lesson
<1> QED
  BY <1>1, <1>3

LEMMA CancelExchangesType ==
    ASSUME TypeOK, NEW S, CancelExchanges(S)
    PROVE  /\ exchange' \in [Requests -> ExchangeStatus]
           /\ lesson' \in [Requests -> [Orders -> Lesson]]
BY CancelledType DEF TypeOK, CancelExchanges, ExchangeStatus

LEMMA EndInteractionsType ==
    ASSUME TypeOK, NEW u, NEW partners, EndInteractions(u, partners)
    PROVE  /\ exchange' \in [Requests -> ExchangeStatus]
           /\ lesson' \in [Requests -> [Orders -> Lesson]]
           /\ request' \in [Requests -> RequestStatus]
<1>1. PICK S : CancelExchanges(S)
  BY DEF EndInteractions
<1>2. request' \in [Requests -> RequestStatus]
  BY DEF EndInteractions, TypeOK, RequestStatus
<1> QED
  BY <1>1, <1>2, CancelExchangesType

LEMMA SaveLessonType ==
    ASSUME TypeOK, NEW q \in Requests, NEW n \in Orders, NEW row \in Lesson,
           SaveLesson(q, n, row)
    PROVE  TypeOK'
BY DEF TypeOK, SaveLesson

(***************************************************************************)
(* TypeOK is inductive.                                                    *)
(***************************************************************************)
LEMMA TypeInit == Init => TypeOK
<1> SUFFICES ASSUME Init PROVE TypeOK
  OBVIOUS
<1>1. skills \subseteq SkillRow
  BY RequestsAssumption DEF Init, SkillRow, Terms, TeachingRows, LearningRows
<1>2. lesson \in [Requests -> [Orders -> Lesson]]
  BY NoLessonType DEF Init
<1>3. now \in 0..MaxTime
  BY TimeAssumption DEF Init
<1> QED
  BY <1>1, <1>2, <1>3
  DEF Init, TypeOK, AccountStatus, PrivacySetting, RequestStatus, ExchangeStatus

LEMMA TypeExchanges ==
    ASSUME TypeOK, NEW q \in Requests,
           \/ ValidateRequest(q) \/ InsertRequest(q) \/ AbandonRequest(q)
           \/ DeclineRequest(q) \/ WithdrawRequest(q) \/ AcceptRequest(q)
           \/ CancelExchange(q) \/ \E u \in Parties(q) : CompleteExchange(q, u)
    PROVE  TypeOK'
<1>1. CASE ValidateRequest(q)
  BY <1>1 DEF TypeOK, ValidateRequest, RequestStatus
<1>2. CASE InsertRequest(q)
  BY <1>2 DEF TypeOK, InsertRequest, RequestStatus
<1>3. CASE AbandonRequest(q)
  BY <1>3 DEF TypeOK, AbandonRequest, RequestStatus
<1>4. CASE DeclineRequest(q) \/ WithdrawRequest(q)
  BY <1>4 DEF TypeOK, DeclineRequest, WithdrawRequest, AnswerRequest, RequestStatus
<1>5. CASE AcceptRequest(q)
  BY <1>5, PlanType DEF TypeOK, AcceptRequest, RequestStatus, ExchangeStatus
<1>6. CASE CancelExchange(q)
  BY <1>6, CancelExchangesType DEF TypeOK, CancelExchange
<1>7. CASE \E u \in Parties(q) : CompleteExchange(q, u)
  <2>1. PICK u \in Parties(q) : CompleteExchange(q, u)
    BY <1>7
  <2>2. signed' \in [Requests -> SUBSET Users]
    BY <2>1, PartiesAreUsers DEF TypeOK, CompleteExchange
  <2>3. exchange' \in [Requests -> ExchangeStatus]
    BY <2>1 DEF TypeOK, CompleteExchange, ExchangeStatus
  <2> QED
    BY <2>1, <2>2, <2>3 DEF TypeOK, CompleteExchange
<1> QED
  BY <1>1, <1>2, <1>3, <1>4, <1>5, <1>6, <1>7

LEMMA TypeProposals ==
    ASSUME TypeOK, NEW q \in Requests, NEW u \in Parties(q), NEW s \in Slots,
           \/ \E t \in Parties(q) : ProposeExchangeSession(q, u, t, s)
           \/ \E n \in Orders : ProposeSession(q, n, u, s) \/ ProposeSwappedSession(q, n, u, s)
    PROVE  TypeOK'
<1> USE PartiesAreUsers
<1>0. \A n \in Orders : lesson[q][n] \in Lesson /\ lesson[q][n].teacher \in Users
  BY DEF TypeOK, Lesson
<1>1. ASSUME NEW t \in Parties(q), ProposeExchangeSession(q, u, t, s)
      PROVE  TypeOK'
  <2>1. PICK n \in Orders : SaveLesson(q, n, Proposed(lesson[q][n], u, t, s))
    BY <1>1 DEF ProposeExchangeSession
  <2> QED
    BY <1>0, <2>1, ProposedType, SaveLessonType
<1>2. ASSUME NEW n \in Orders, ProposeSession(q, n, u, s)
      PROVE  TypeOK'
  BY <1>0, <1>2, ProposedType, SaveLessonType DEF ProposeSession
<1>3. ASSUME NEW n \in Orders, ProposeSwappedSession(q, n, u, s)
      PROVE  TypeOK'
  <2> DEFINE t == Partner(q, lesson[q][n].teacher)
             row == Proposed(lesson[q][n], u, t, s)
  <2>1. PICK m \in Orders :
           lesson' = [lesson EXCEPT ![q][m].teacher = lesson[q][n].teacher, ![q][n] = row]
    BY <1>3 DEF ProposeSwappedSession
  <2>2. t \in Users
    BY DEF Partner
  <2>3. row \in Lesson
    BY <1>0, <2>2, ProposedType
  <2>4. [lesson[q][m] EXCEPT !.teacher = lesson[q][n].teacher] \in Lesson
    BY <1>0 DEF Lesson
  <2> HIDE DEF t, row
  <2>5. lesson' \in [Requests -> [Orders -> Lesson]]
    BY <2>1, <2>3, <2>4 DEF TypeOK
  <2> QED
    BY <1>3, <2>5 DEF TypeOK, ProposeSwappedSession
<1> QED
  BY <1>1, <1>2, <1>3

LEMMA TypeLessons ==
    ASSUME TypeOK, NEW q \in Requests, NEW n \in Orders,
           \/ CancelSession(q, n)
           \/ \E u \in Parties(q) :
                 \/ AcceptSessionProposal(q, n, u)
                 \/ DeclineSessionProposal(q, n, u)
                 \/ ConfirmSessionCompletion(q, n, u)
    PROVE  TypeOK'
<1> USE PartiesAreUsers
<1>0. lesson[q][n] \in Lesson /\ lesson[q][n].teacher \in Users
  BY DEF TypeOK, Lesson
<1>1. CASE CancelSession(q, n)
  <2>1. PICK m \in Orders :
           lesson' = [lesson EXCEPT ![q][n] = Cancelled(lesson[q][n]),
                                    ![q][m] = Draft(lesson[q][n].teacher)]
    BY <1>1 DEF CancelSession
  <2>2. Cancelled(lesson[q][n]) \in Lesson /\ Draft(lesson[q][n].teacher) \in Lesson
    BY <1>0, CancelledType, DraftType
  <2>3. lesson' \in [Requests -> [Orders -> Lesson]]
    BY <2>1, <2>2 DEF TypeOK
  <2> QED
    BY <1>1, <2>3 DEF TypeOK, CancelSession
<1>2. ASSUME NEW u \in Parties(q), AcceptSessionProposal(q, n, u)
      PROVE  TypeOK'
  BY <1>0, <1>2, AnswersType, SaveLessonType DEF AcceptSessionProposal
<1>3. ASSUME NEW u \in Parties(q), DeclineSessionProposal(q, n, u)
      PROVE  TypeOK'
  BY <1>0, <1>3, AnswersType, SaveLessonType DEF DeclineSessionProposal
<1>4. ASSUME NEW u \in Parties(q), ConfirmSessionCompletion(q, n, u)
      PROVE  TypeOK'
  BY <1>0, <1>4, ConfirmedType, SaveLessonType DEF ConfirmSessionCompletion
<1> QED
  BY <1>1, <1>2, <1>3, <1>4

LEMMA TypeOthers ==
    ASSUME TypeOK, ProfileNext \/ TrustNext \/ Tick
    PROVE  TypeOK'
<1> USE ActorsAssumption
<1>1. ASSUME NEW row \in EditedRows, AddSkill(row) \/ RemoveSkill(row)
      PROVE  TypeOK'
  BY <1>1 DEF TypeOK, AddSkill, RemoveSkill, ChangeSkills
<1>2. ASSUME NEW u \in PrivacyUsers, NEW setting \in PrivacySetting, UpdatePrivacy(u, setting)
      PROVE  TypeOK'
  BY <1>2 DEF TypeOK, UpdatePrivacy
<1>3. ASSUME NEW pair \in BlockPairs, Block(pair[1], pair[2])
      PROVE  TypeOK'
  <2>1. blocked' \subseteq Users \X Users
    BY <1>3 DEF TypeOK, Block
  <2> QED
    BY <1>3, <2>1, EndInteractionsType DEF TypeOK, Block
<1>4. ASSUME NEW pair \in BlockPairs, Unblock(pair[1], pair[2])
      PROVE  TypeOK'
  BY <1>4 DEF TypeOK, Unblock
<1>5. ASSUME NEW u \in Moderated, SuspendAccount(u)
      PROVE  TypeOK'
  <2>1. account' \in [Users -> AccountStatus]
    BY <1>5 DEF TypeOK, SuspendAccount, AccountStatus
  <2> QED
    BY <1>5, <2>1, EndInteractionsType DEF TypeOK, SuspendAccount
<1>6. ASSUME NEW u \in Moderated, RestoreAccount(u)
      PROVE  TypeOK'
  BY <1>6 DEF TypeOK, RestoreAccount, AccountStatus
<1>7. ASSUME NEW u \in Leavers, DeleteAccount(u)
      PROVE  TypeOK'
  <2>1. account' \in [Users -> AccountStatus]
    BY <1>7 DEF TypeOK, DeleteAccount, AccountStatus
  <2>2. privacy' \in [Users -> PrivacySetting]
    BY <1>7 DEF TypeOK, DeleteAccount, PrivacySetting
  <2>3. blocked' \subseteq Users \X Users /\ skills' \subseteq SkillRow
    BY <1>7 DEF TypeOK, DeleteAccount
  <2> QED
    BY <1>7, <2>1, <2>2, <2>3, EndInteractionsType DEF TypeOK, DeleteAccount
<1>8. CASE Tick
  BY <1>8, TimeAssumption DEF TypeOK, Tick
<1> QED
  BY <1>1, <1>2, <1>3, <1>4, <1>5, <1>6, <1>7, <1>8 DEF ProfileNext, TrustNext

LEMMA TypeStep == TypeOK /\ [Next]_tables => TypeOK'
<1> SUFFICES ASSUME TypeOK, [Next]_tables PROVE TypeOK'
  OBVIOUS
<1>1. CASE RequestNext \/ ExchangeNext
  BY <1>1, TypeExchanges DEF RequestNext, ExchangeNext
<1>2. CASE ProposalNext
  BY <1>2, TypeProposals DEF ProposalNext
<1>3. CASE LessonNext
  BY <1>3, TypeLessons DEF LessonNext
<1>4. CASE ProfileNext \/ TrustNext \/ Tick
  BY <1>4, TypeOthers
<1>5. CASE UNCHANGED tables
  BY <1>5 DEF TypeOK, tables
<1> QED
  BY <1>1, <1>2, <1>3, <1>4, <1>5 DEF Next

\* Every table only ever holds rows its columns allow.
THEOREM TypeCorrect == Spec => []TypeOK
BY TypeInit, TypeStep, PTL DEF Spec

(***************************************************************************)
(* An active exchange is between two students who may interact.  The       *)
(* invariant is inductive as it stands: AcceptRequest is the only step     *)
(* that makes an exchange active and checks it, and every step that closes *)
(* an account or adds a block cancels the exchanges it reaches.            *)
(***************************************************************************)
LEMMA ActiveKept ==
    ASSUME ActiveExchangesMayInteract, UNCHANGED <<account, blocked>>,
           \A q \in Requests : exchange'[q] = "ACTIVE" => exchange[q] = "ACTIVE" \/ CanInteract(q)
    PROVE  ActiveExchangesMayInteract'
BY DEF ActiveExchangesMayInteract, CanInteract, NoBlock, Parties

LEMMA CancelledExchanges ==
    ASSUME NEW S, CancelExchanges(S), NEW q \in Requests, exchange'[q] = "ACTIVE"
    PROVE  exchange[q] = "ACTIVE" /\ q \notin S
BY DEF CancelExchanges

\* What is still active after interactions end was not between u and them.
LEMMA EndedInteractions ==
    ASSUME NEW u, NEW partners, EndInteractions(u, partners),
           NEW q \in Requests, exchange'[q] = "ACTIVE"
    PROVE  exchange[q] = "ACTIVE" /\ ~ Between(q, u, partners)
BY CancelledExchanges DEF EndInteractions

LEMMA ActiveTrust ==
    ASSUME TypeOK, ActiveExchangesMayInteract, TrustNext
    PROVE  ActiveExchangesMayInteract'
<1> USE PartiesAreUsers
<1>0. ASSUME NEW q \in Requests, exchange[q] = "ACTIVE"
      PROVE  CanInteract(q)
  BY <1>0 DEF ActiveExchangesMayInteract
<1>1. ASSUME NEW u, NEW v, Block(u, v)
      PROVE  ActiveExchangesMayInteract'
  <2> SUFFICES ASSUME NEW q \in Requests, exchange'[q] = "ACTIVE"
               PROVE  CanInteract(q)'
    BY DEF ActiveExchangesMayInteract
  <2>1. exchange[q] = "ACTIVE" /\ ~ Between(q, u, {v})
    BY <1>1, EndedInteractions DEF Block
  <2>2. <<u, v>> # <<Requester[q], Recipient[q]>> /\ <<u, v>> # <<Recipient[q], Requester[q]>>
    BY <2>1 DEF Between, Partner
  <2> QED
    BY <1>0, <1>1, <2>1, <2>2 DEF Block, CanInteract, NoBlock
<1>2. ASSUME NEW u, NEW v, Unblock(u, v)
      PROVE  ActiveExchangesMayInteract'
  BY <1>0, <1>2 DEF Unblock, ActiveExchangesMayInteract, CanInteract, NoBlock, Parties
<1>3. ASSUME NEW u \in Users, SuspendAccount(u)
      PROVE  ActiveExchangesMayInteract'
  <2> SUFFICES ASSUME NEW q \in Requests, exchange'[q] = "ACTIVE"
               PROVE  CanInteract(q)'
    BY DEF ActiveExchangesMayInteract
  <2>1. exchange[q] = "ACTIVE" /\ ~ Between(q, u, Users)
    BY <1>3, EndedInteractions DEF SuspendAccount
  <2>2. u \notin Parties(q)
    BY <2>1 DEF Between
  <2> QED
    BY <1>0, <1>3, <2>1, <2>2 DEF TypeOK, SuspendAccount, CanInteract, NoBlock
<1>4. ASSUME NEW u \in Users, RestoreAccount(u)
      PROVE  ActiveExchangesMayInteract'
  BY <1>0, <1>4 DEF TypeOK, RestoreAccount, ActiveExchangesMayInteract, CanInteract, NoBlock
<1>5. ASSUME NEW u \in Users, DeleteAccount(u)
      PROVE  ActiveExchangesMayInteract'
  <2> SUFFICES ASSUME NEW q \in Requests, exchange'[q] = "ACTIVE"
               PROVE  CanInteract(q)'
    BY DEF ActiveExchangesMayInteract
  <2>1. exchange[q] = "ACTIVE" /\ ~ Between(q, u, Users)
    BY <1>5, EndedInteractions DEF DeleteAccount
  <2>2. u \notin Parties(q)
    BY <2>1 DEF Between
  <2> QED
    BY <1>0, <1>5, <2>1, <2>2 DEF TypeOK, DeleteAccount, CanInteract, NoBlock
<1> QED
  BY <1>1, <1>2, <1>3, <1>4, <1>5, ActorsAssumption DEF TrustNext

LEMMA ActiveStep ==
    ASSUME TypeOK, ActiveExchangesMayInteract, [Next]_tables
    PROVE  ActiveExchangesMayInteract'
<1>1. CASE RequestNext
  <2>1. PICK q \in Requests :
           \/ ValidateRequest(q) \/ InsertRequest(q) \/ AbandonRequest(q)
           \/ DeclineRequest(q) \/ WithdrawRequest(q) \/ AcceptRequest(q)
    BY <1>1 DEF RequestNext
  <2>2. CASE AcceptRequest(q)
    BY <2>2, ActiveKept DEF TypeOK, AcceptRequest, RequestIsCurrent
  <2>3. CASE ~ AcceptRequest(q)
    BY <2>1, <2>3, ActiveKept
    DEF ValidateRequest, InsertRequest, AbandonRequest, DeclineRequest, WithdrawRequest, AnswerRequest
  <2> QED
    BY <2>2, <2>3
<1>2. CASE ExchangeNext
  <2>1. ASSUME NEW q \in Requests, CancelExchange(q)
        PROVE  ActiveExchangesMayInteract'
    BY <2>1, ActiveKept, CancelledExchanges DEF CancelExchange
  <2>2. ASSUME NEW q \in Requests, NEW u \in Parties(q), CompleteExchange(q, u)
        PROVE  ActiveExchangesMayInteract'
    BY <2>2, ActiveKept DEF TypeOK, CompleteExchange
  <2> QED
    BY <1>2, <2>1, <2>2 DEF ExchangeNext
<1>3. CASE ProposalNext
  <2>1. PICK q, u, s, t, n :
           \/ ProposeExchangeSession(q, u, t, s)
           \/ ProposeSession(q, n, u, s)
           \/ ProposeSwappedSession(q, n, u, s)
    BY <1>3 DEF ProposalNext
  <2>2. UNCHANGED <<account, blocked, exchange>>
    BY <2>1 DEF ProposeExchangeSession, ProposeSession, ProposeSwappedSession, SaveLesson
  <2> QED
    BY <2>2, ActiveKept
<1>4. CASE LessonNext
  <2>1. UNCHANGED <<account, blocked, exchange>>
    BY <1>4
    DEF LessonNext, CancelSession, AcceptSessionProposal, DeclineSessionProposal,
        ConfirmSessionCompletion, SaveLesson
  <2> QED
    BY <2>1, ActiveKept
<1>5. CASE ProfileNext
  BY <1>5, ActiveKept DEF ProfileNext, AddSkill, RemoveSkill, ChangeSkills, UpdatePrivacy
<1>6. CASE TrustNext
  BY <1>6, ActiveTrust
<1>7. CASE Tick \/ UNCHANGED tables
  BY <1>7, ActiveKept DEF Tick, tables
<1> QED
  BY <1>1, <1>2, <1>3, <1>4, <1>5, <1>6, <1>7 DEF Next

\* Whatever order acceptances, blocks, suspensions and deletions commit in,
\* an active exchange is always between two students who may interact.
THEOREM ActiveExchangesMayInteractHolds == Spec => []ActiveExchangesMayInteract
<1>1. Init => ActiveExchangesMayInteract
  BY DEF Init, ActiveExchangesMayInteract
<1>2. TypeOK /\ ActiveExchangesMayInteract /\ [Next]_tables => ActiveExchangesMayInteract'
  BY ActiveStep
<1> QED
  BY <1>1, <1>2, TypeCorrect, PTL DEF Spec

-----------------------------------------------------------------------------
(***************************************************************************)
(* The lessons stay coherent: every row of the plan matches its proposals  *)
(* and confirmations, and no student is booked twice.                      *)
(*                                                                         *)
(* The argument is about single rows.  A step changes a lesson row in one  *)
(* of a few ways (RowStep); each keeps the row coherent, and only an       *)
(* acceptance makes a row SCHEDULED, for the interval it has just checked. *)
(***************************************************************************)

\* The ways a step that is not an acceptance changes the row l of exchange q
\* into m.
QuietRowStep(q, l, m) ==
    \/ m = l
    \/ m = NoLesson(q)
    \/ \E u \in Users : m = Draft(u)
    \/ m = Cancelled(l)
    \/ l.status = "DRAFT" /\ \E u \in Users : m = [l EXCEPT !.teacher = u]
    \/ \E u \in Parties(q), t \in Users, s \in Slots : m = Proposed(l, u, t, s)
    \/ l.status = "PROPOSED" /\ m = Declined(l)
    \/ \E u \in Parties(q) : /\ l.status = "SCHEDULED"
                             /\ l.slot.end <= now
                             /\ u \notin l.done
                             /\ m = Confirmed(q, l, u)

\* An acceptance: by a participant, of a proposal that participant did not make.
AcceptingRowStep(q, l, m) ==
    /\ l.status = "PROPOSED"
    /\ \E u \in Parties(q) : \E p \in l.pending : p.by # u /\ m = Accepted(l, u)

RowStep(q, l, m) == QuietRowStep(q, l, m) \/ AcceptingRowStep(q, l, m)

AllQuiet == \A q \in Requests, n \in Orders : QuietRowStep(q, lesson[q][n], lesson'[q][n])

LEMMA LessonRows ==
    ASSUME TypeOK, NEW q \in Requests, NEW n \in Orders
    PROVE  lesson[q][n] \in Lesson /\ lesson[q][n].teacher \in Users
BY DEF TypeOK, Lesson

LEMMA SavedRow ==
    ASSUME TypeOK, NEW q \in Requests, NEW n \in Orders, NEW row, SaveLesson(q, n, row),
           NEW p \in Requests, NEW m \in Orders
    PROVE  lesson'[p][m] = IF p = q /\ m = n THEN row ELSE lesson[p][m]
BY DEF TypeOK, SaveLesson

(***************************************************************************)
(* Every step but an acceptance is a quiet row step on every row.          *)
(***************************************************************************)
LEMMA QuietSave ==
    ASSUME TypeOK, NEW q \in Requests, NEW n \in Orders, NEW row, SaveLesson(q, n, row),
           QuietRowStep(q, lesson[q][n], row)
    PROVE  AllQuiet
<1> SUFFICES ASSUME NEW p \in Requests, NEW m \in Orders
             PROVE  QuietRowStep(p, lesson[p][m], lesson'[p][m])
  BY DEF AllQuiet
<1>1. CASE p = q /\ m = n
  BY <1>1, SavedRow
<1>2. CASE ~ (p = q /\ m = n)
  BY <1>2, SavedRow DEF QuietRowStep
<1> QED
  BY <1>1, <1>2

LEMMA QuietUnchanged == UNCHANGED lesson => AllQuiet
BY DEF AllQuiet, QuietRowStep

LEMMA QuietCancelExchanges ==
    ASSUME TypeOK, NEW S, CancelExchanges(S)
    PROVE  AllQuiet
<1> SUFFICES ASSUME NEW p \in Requests, NEW m \in Orders
             PROVE  QuietRowStep(p, lesson[p][m], lesson'[p][m])
  BY DEF AllQuiet
<1>1. lesson'[p][m] = Cancelled(lesson[p][m]) \/ lesson'[p][m] = lesson[p][m]
  BY DEF CancelExchanges
<1> QED
  BY <1>1 DEF QuietRowStep

LEMMA QuietAccept ==
    ASSUME TypeOK, NEW q \in Requests, AcceptRequest(q)
    PROVE  AllQuiet
<1> SUFFICES ASSUME NEW p \in Requests, NEW m \in Orders
             PROVE  QuietRowStep(p, lesson[p][m], lesson'[p][m])
  BY DEF AllQuiet
<1>1. CASE p = q
  <2>1. lesson'[p][m] = Plan(q)[m]
    BY <1>1 DEF AcceptRequest, TypeOK
  <2>2. lesson'[p][m] = NoLesson(q) \/ \E u \in Users : lesson'[p][m] = Draft(u)
    BY <2>1, PartiesAreUsers DEF Plan
  <2> QED
    BY <1>1, <2>2 DEF QuietRowStep
<1>2. CASE p # q
  BY <1>2 DEF AcceptRequest, TypeOK, QuietRowStep
<1> QED
  BY <1>1, <1>2

LEMMA QuietSwap ==
    ASSUME TypeOK, NEW q \in Requests, NEW n \in Orders, NEW u \in Parties(q), NEW s \in Slots,
           ProposeSwappedSession(q, n, u, s)
    PROVE  AllQuiet
<1> USE PartiesAreUsers, LessonRows
<1> DEFINE t == Partner(q, lesson[q][n].teacher)
<1>1. PICK m \in Orders :
         /\ IsLowest(m, Drafts(q, t) \ {n})
         /\ lesson' = [lesson EXCEPT ![q][m].teacher = lesson[q][n].teacher,
                                     ![q][n] = Proposed(lesson[q][n], u, t, s)]
  BY DEF ProposeSwappedSession
<1>2. m # n /\ lesson[q][m].status = "DRAFT"
  BY <1>1 DEF IsLowest, Drafts
<1>3. t \in Users
  BY DEF Partner
<1> HIDE DEF t
<1>4. lesson'[q][n] = Proposed(lesson[q][n], u, t, s)
  BY <1>1 DEF TypeOK
<1>5. lesson'[q][m] = [lesson[q][m] EXCEPT !.teacher = lesson[q][n].teacher]
  BY <1>1, <1>2 DEF TypeOK
<1>6. \A p \in Requests, k \in Orders :
         ~ (p = q /\ k \in {m, n}) => lesson'[p][k] = lesson[p][k]
  BY <1>1 DEF TypeOK
<1>7. QuietRowStep(q, lesson[q][n], lesson'[q][n])
  BY <1>3, <1>4 DEF QuietRowStep
<1>8. QuietRowStep(q, lesson[q][m], lesson'[q][m])
  BY <1>2, <1>5 DEF QuietRowStep
<1>9. \A p \in Requests, k \in Orders :
         ~ (p = q /\ k \in {m, n}) => QuietRowStep(p, lesson[p][k], lesson'[p][k])
  BY <1>6 DEF QuietRowStep
<1> QED
  BY <1>7, <1>8, <1>9 DEF AllQuiet

LEMMA QuietCancelSession ==
    ASSUME TypeOK, NEW q \in Requests, NEW n \in Orders, CancelSession(q, n)
    PROVE  AllQuiet
<1> USE LessonRows
<1>1. PICK m \in Orders :
         /\ IsNextOrder(q, m)
         /\ lesson' = [lesson EXCEPT ![q][n] = Cancelled(lesson[q][n]),
                                     ![q][m] = Draft(lesson[q][n].teacher)]
  BY DEF CancelSession
<1>2. lesson'[q][m] = Draft(lesson[q][n].teacher)
  BY <1>1 DEF TypeOK
<1>3. m # n => lesson'[q][n] = Cancelled(lesson[q][n])
  BY <1>1 DEF TypeOK
<1>4. \A p \in Requests, k \in Orders :
         ~ (p = q /\ k \in {m, n}) => lesson'[p][k] = lesson[p][k]
  BY <1>1 DEF TypeOK
<1>5. QuietRowStep(q, lesson[q][m], lesson'[q][m])
  BY <1>2 DEF QuietRowStep
<1>6. QuietRowStep(q, lesson[q][n], lesson'[q][n])
  BY <1>3, <1>5 DEF QuietRowStep
<1>7. \A p \in Requests, k \in Orders :
         ~ (p = q /\ k \in {m, n}) => QuietRowStep(p, lesson[p][k], lesson'[p][k])
  BY <1>4 DEF QuietRowStep
<1> QED
  BY <1>5, <1>6, <1>7 DEF AllQuiet

LEMMA QuietOrAccepting ==
    ASSUME TypeOK, [Next]_tables
    PROVE  \/ AllQuiet
           \/ \E q \in Requests, n \in Orders : \E u \in Parties(q) : AcceptSessionProposal(q, n, u)
<1>1. CASE RequestNext
  <2>1. PICK q \in Requests :
           \/ ValidateRequest(q) \/ InsertRequest(q) \/ AbandonRequest(q)
           \/ DeclineRequest(q) \/ WithdrawRequest(q) \/ AcceptRequest(q)
    BY <1>1 DEF RequestNext
  <2> QED
    BY <2>1, QuietAccept, QuietUnchanged
    DEF ValidateRequest, InsertRequest, AbandonRequest, DeclineRequest, WithdrawRequest, AnswerRequest
<1>2. CASE ExchangeNext
  BY <1>2, QuietCancelExchanges, QuietUnchanged DEF ExchangeNext, CancelExchange, CompleteExchange
<1>3. CASE ProposalNext
  <2>1. ASSUME NEW q \in Requests, NEW u \in Parties(q), NEW s \in Slots, NEW t \in Parties(q),
               ProposeExchangeSession(q, u, t, s)
        PROVE  AllQuiet
    <3>1. PICK n \in Orders : SaveLesson(q, n, Proposed(lesson[q][n], u, t, s))
      BY <2>1 DEF ProposeExchangeSession
    <3>2. QuietRowStep(q, lesson[q][n], Proposed(lesson[q][n], u, t, s))
      BY PartiesAreUsers DEF QuietRowStep
    <3> QED
      BY <3>1, <3>2, QuietSave
  <2>2. ASSUME NEW q \in Requests, NEW u \in Parties(q), NEW s \in Slots, NEW n \in Orders,
               ProposeSession(q, n, u, s)
        PROVE  AllQuiet
    <3> DEFINE row == Proposed(lesson[q][n], u, lesson[q][n].teacher, s)
    <3>1. SaveLesson(q, n, row)
      BY <2>2 DEF ProposeSession
    <3>2. QuietRowStep(q, lesson[q][n], row)
      BY LessonRows DEF QuietRowStep
    <3> QED
      BY <3>1, <3>2, QuietSave
  <2> QED
    BY <1>3, <2>1, <2>2, QuietSwap DEF ProposalNext
<1>4. CASE LessonNext
  <2>1. ASSUME NEW q \in Requests, NEW n \in Orders, NEW u \in Parties(q),
               DeclineSessionProposal(q, n, u)
        PROVE  AllQuiet
    <3>1. QuietRowStep(q, lesson[q][n], Declined(lesson[q][n]))
      BY <2>1 DEF QuietRowStep, DeclineSessionProposal
    <3> QED
      BY <2>1, <3>1, QuietSave DEF DeclineSessionProposal
  <2>2. ASSUME NEW q \in Requests, NEW n \in Orders, NEW u \in Parties(q),
               ConfirmSessionCompletion(q, n, u)
        PROVE  AllQuiet
    <3>1. QuietRowStep(q, lesson[q][n], Confirmed(q, lesson[q][n], u))
      BY <2>2 DEF QuietRowStep, ConfirmSessionCompletion
    <3> QED
      BY <2>2, <3>1, QuietSave DEF ConfirmSessionCompletion
  <2> QED
    BY <1>4, <2>1, <2>2, QuietCancelSession DEF LessonNext
<1>5. CASE ProfileNext
  BY <1>5, QuietUnchanged DEF ProfileNext, AddSkill, RemoveSkill, ChangeSkills, UpdatePrivacy
<1>6. CASE TrustNext
  BY <1>6, QuietCancelExchanges, QuietUnchanged
  DEF TrustNext, Block, Unblock, SuspendAccount, RestoreAccount, DeleteAccount, EndInteractions
<1>7. CASE Tick \/ UNCHANGED tables
  BY <1>7, QuietUnchanged DEF Tick, tables
<1> QED
  BY <1>1, <1>2, <1>3, <1>4, <1>5, <1>6, <1>7 DEF Next

LEMMA RowSteps ==
    ASSUME TypeOK, [Next]_tables, NEW q \in Requests, NEW n \in Orders
    PROVE  RowStep(q, lesson[q][n], lesson'[q][n])
<1>1. CASE AllQuiet
  BY <1>1 DEF AllQuiet, RowStep
<1>2. ASSUME NEW p \in Requests, NEW m \in Orders, NEW u \in Parties(p),
             AcceptSessionProposal(p, m, u)
      PROVE  RowStep(q, lesson[q][n], lesson'[q][n])
  <2>1. SaveLesson(p, m, Accepted(lesson[p][m], u))
    BY <1>2 DEF AcceptSessionProposal
  <2>2. CASE p = q /\ m = n
    BY <1>2, <2>1, <2>2, SavedRow DEF AcceptSessionProposal, RowStep, AcceptingRowStep
  <2>3. CASE ~ (p = q /\ m = n)
    BY <2>1, <2>3, SavedRow DEF RowStep, QuietRowStep
  <2> QED
    BY <2>2, <2>3
<1> QED
  BY <1>1, <1>2, QuietOrAccepting

(***************************************************************************)
(* The proposals of a lesson.                                              *)
(***************************************************************************)
LEMMA TwoParties ==
    ASSUME NEW q \in Requests, NEW u \in Parties(q), NEW v \in Parties(q), u # v
    PROVE  Parties(q) = {u, v} /\ Partner(q, u) = v
BY RequestsAssumption DEF Parties, Partner

LEMMA ProposalRowStep ==
    ASSUME NEW q \in Requests, NEW l \in Lesson, NEW m,
           ProposalRow(q, l), RowStep(q, l, m)
    PROVE  ProposalRow(q, m)
<1> USE DEF ProposalRow
<1>1. CASE m = NoLesson(q) \/ \E u \in Users : m = Draft(u)
  BY <1>1 DEF NoLesson, Draft
<1>2. CASE m = Cancelled(l)
  BY <1>2 DEF Cancelled, Live, Lesson, LessonStatus
<1>3. CASE l.status = "DRAFT" /\ \E u \in Users : m = [l EXCEPT !.teacher = u]
  BY <1>3 DEF Lesson
<1>4. CASE \E u \in Parties(q), t \in Users, s \in Slots : m = Proposed(l, u, t, s)
  BY <1>4 DEF Proposed, Lesson
<1>5. CASE l.status = "PROPOSED" /\ m = Declined(l)
  BY <1>5 DEF Declined, Lesson
<1>6. ASSUME NEW u \in Parties(q), l.status = "SCHEDULED", m = Confirmed(q, l, u)
      PROVE  ProposalRow(q, m)
  <2>1. /\ m.status \in {"SCHEDULED", "COMPLETED"}
        /\ m.pending = l.pending /\ m.agreed = l.agreed /\ m.slot = l.slot
    BY <1>6 DEF Confirmed, Lesson
  <2> QED
    BY <1>6, <2>1
<1>7. ASSUME NEW u \in Parties(q), NEW p \in l.pending, l.status = "PROPOSED", p.by # u,
             m = Accepted(l, u)
      PROVE  ProposalRow(q, m)
  <2>1. PICK v \in Parties(q) : l.pending = {[by |-> v, slot |-> l.slot]} /\ l.agreed = {v}
    BY <1>7
  <2>2. v # u
    BY <1>7, <2>1
  <2>3. m.agreed = Parties(q)
    BY <1>7, <2>1, <2>2, TwoParties DEF Accepted, Lesson
  <2>4. m.status = "SCHEDULED" /\ m.pending = {} /\ m.slot = l.slot
    BY <1>7 DEF Accepted, Lesson
  <2> QED
    BY <1>7, <2>3, <2>4
<1> QED
  BY <1>1, <1>2, <1>3, <1>4, <1>5, <1>6, <1>7 DEF RowStep, QuietRowStep, AcceptingRowStep

LEMMA ProposalStep ==
    ASSUME TypeOK, ProposalMatchesLesson, [Next]_tables
    PROVE  ProposalMatchesLesson'
<1> SUFFICES ASSUME NEW q \in Requests, NEW n \in Orders
             PROVE  ProposalRow(q, lesson'[q][n])
  BY DEF ProposalMatchesLesson, ProposalRow, Parties
<1> QED
  BY LessonRows, RowSteps, ProposalRowStep DEF ProposalMatchesLesson

\* A lesson has one pending proposal exactly while it is PROPOSED, and an
\* agreed one was agreed by both (session.SaveSessionProposal and its answers).
THEOREM ProposalMatchesLessonHolds == Spec => []ProposalMatchesLesson
<1>1. Init => ProposalMatchesLesson
  BY DEF Init, ProposalMatchesLesson, ProposalRow, NoLesson, Draft
<1>2. TypeOK /\ ProposalMatchesLesson /\ [Next]_tables => ProposalMatchesLesson'
  BY ProposalStep
<1> QED
  BY <1>1, <1>2, TypeCorrect, PTL DEF Spec

(***************************************************************************)
(* The confirmations of a lesson.                                          *)
(***************************************************************************)
LEMMA ClockAdvances ==
    ASSUME TypeOK, [Next]_tables
    PROVE  now \in Nat /\ now' \in Nat /\ now <= now'
<1>1. now \in Nat /\ now' \in Nat
  BY TypeStep, TimeAssumption DEF TypeOK
<1>2. now' = now \/ now' = now + 1
  <2>1. CASE RequestNext
    BY <2>1 DEF RequestNext, ValidateRequest, InsertRequest, AbandonRequest, DeclineRequest,
                WithdrawRequest, AnswerRequest, AcceptRequest
  <2>2. CASE ExchangeNext
    BY <2>2 DEF ExchangeNext, CancelExchange, CompleteExchange
  <2>3. CASE ProposalNext
    <3>1. ASSUME NEW q, NEW n, NEW row, SaveLesson(q, n, row)
          PROVE  now' = now
      BY <3>1 DEF SaveLesson
    <3>2. ASSUME NEW q, NEW n, NEW u, NEW s, ProposeSwappedSession(q, n, u, s)
          PROVE  now' = now
      BY <3>2 DEF ProposeSwappedSession
    <3> QED
      BY <2>3, <3>1, <3>2 DEF ProposalNext, ProposeExchangeSession, ProposeSession
  <2>4. CASE LessonNext
    BY <2>4 DEF LessonNext, CancelSession, AcceptSessionProposal, DeclineSessionProposal,
                ConfirmSessionCompletion, SaveLesson
  <2>5. CASE ProfileNext
    BY <2>5 DEF ProfileNext, AddSkill, RemoveSkill, ChangeSkills, UpdatePrivacy
  <2>6. CASE TrustNext
    BY <2>6 DEF TrustNext, Block, Unblock, SuspendAccount, RestoreAccount, DeleteAccount,
                EndInteractions
  <2>7. CASE Tick \/ UNCHANGED tables
    BY <2>7 DEF Tick, tables
  <2> QED
    BY <2>1, <2>2, <2>3, <2>4, <2>5, <2>6, <2>7 DEF Next
<1> QED
  BY <1>1, <1>2

LEMMA CompletionRowStep ==
    ASSUME NEW q \in Requests, NEW l \in Lesson, NEW m, now \in Nat,
           ProposalRow(q, l), CompletionRow(q, l, now), RowStep(q, l, m)
    PROVE  CompletionRow(q, m, now)
<1> USE DEF CompletionRow
<1>0. Parties(q) # {}
  BY DEF Parties
<1>1. CASE m = NoLesson(q) \/ \E u \in Users : m = Draft(u)
  BY <1>0, <1>1 DEF NoLesson, Draft
<1>2. CASE m = Cancelled(l)
  BY <1>0, <1>2 DEF Cancelled, Live, Lesson
<1>3. CASE l.status = "DRAFT" /\ \E u \in Users : m = [l EXCEPT !.teacher = u]
  <2>1. m.status = l.status /\ m.done = l.done
    BY <1>3 DEF Lesson
  <2> QED
    BY <1>3, <2>1
<1>4. CASE \E u \in Parties(q), t \in Users, s \in Slots : m = Proposed(l, u, t, s)
  BY <1>0, <1>4 DEF Proposed, Lesson
<1>5. CASE l.status = "PROPOSED" /\ m = Declined(l)
  BY <1>0, <1>5 DEF Declined, Lesson
<1>6. ASSUME NEW u \in Parties(q), l.status = "SCHEDULED", l.slot.end <= now, u \notin l.done,
             m = Confirmed(q, l, u)
      PROVE  CompletionRow(q, m, now)
  <2>1. m.done = l.done \cup {u} /\ m.slot = l.slot
    BY <1>6 DEF Confirmed, Lesson
  <2>2. m.status = IF Partner(q, u) \in l.done THEN "COMPLETED" ELSE "SCHEDULED"
    BY <1>6 DEF Confirmed, Lesson
  <2>3. PICK v \in Parties(q) : u # v
    BY RequestsAssumption DEF Parties
  <2>4. Parties(q) = {u, v} /\ Partner(q, u) = v
    BY <2>3, TwoParties
  <2>5. m.status = "COMPLETED" <=> m.done = Parties(q)
    BY <1>6, <2>1, <2>2, <2>3, <2>4
  <2> QED
    BY <1>6, <2>1, <2>2, <2>5
<1>7. ASSUME NEW u \in Parties(q), l.status = "PROPOSED", m = Accepted(l, u)
      PROVE  CompletionRow(q, m, now)
  BY <1>0, <1>7 DEF Accepted, Lesson
<1> QED
  BY <1>1, <1>2, <1>3, <1>4, <1>5, <1>6, <1>7 DEF RowStep, QuietRowStep, AcceptingRowStep

LEMMA CompletionStep ==
    ASSUME TypeOK, ProposalMatchesLesson, LessonCompletionIsMutual, [Next]_tables
    PROVE  LessonCompletionIsMutual'
<1> SUFFICES ASSUME NEW q \in Requests, NEW n \in Orders
             PROVE  CompletionRow(q, lesson'[q][n], now')
  BY DEF LessonCompletionIsMutual, CompletionRow, Parties
<1> DEFINE m == lesson'[q][n]
<1>1. CompletionRow(q, m, now)
  BY LessonRows, RowSteps, CompletionRowStep, ClockAdvances
  DEF ProposalMatchesLesson, LessonCompletionIsMutual
<1>2. m.done # {} => m.slot \in Slots
  <2>1. ProposalRow(q, m)
    BY ProposalStep DEF ProposalMatchesLesson, ProposalRow, Parties
  <2> QED
    BY <1>1, <2>1 DEF ProposalRow, CompletionRow
<1> QED
  BY <1>1, <1>2, ClockAdvances, TimeAssumption DEF CompletionRow

\* No completion confirmation survives a reschedule, a refusal or a
\* cancellation, and a lesson is COMPLETED exactly when both participants have
\* confirmed an interval that has passed (session.ConfirmSessionCompletion).
THEOREM LessonCompletionIsMutualHolds == Spec => []LessonCompletionIsMutual
<1>1. Init => LessonCompletionIsMutual
  BY DEF Init, LessonCompletionIsMutual, CompletionRow, NoLesson, Draft, Parties
<1>2. TypeOK /\ ProposalMatchesLesson /\ LessonCompletionIsMutual /\ [Next]_tables
        => LessonCompletionIsMutual'
  BY CompletionStep
<1> QED
  BY <1>1, <1>2, TypeCorrect, ProposalMatchesLessonHolds, PTL DEF Spec

(***************************************************************************)
(* The schedule of a student.                                              *)
(***************************************************************************)
LEMMA QuietScheduled ==
    ASSUME NEW q \in Requests, NEW l \in Lesson, NEW m, QuietRowStep(q, l, m),
           m.status = "SCHEDULED"
    PROVE  l.status = "SCHEDULED" /\ m.slot = l.slot
<1>1. CASE m = NoLesson(q) \/ \E u \in Users : m = Draft(u)
  BY <1>1 DEF NoLesson, Draft
<1>2. CASE m = Cancelled(l)
  BY <1>2 DEF Cancelled, Live, Lesson
<1>3. CASE l.status = "DRAFT" /\ \E u \in Users : m = [l EXCEPT !.teacher = u]
  BY <1>3 DEF Lesson
<1>4. CASE \E u \in Parties(q), t \in Users, s \in Slots : m = Proposed(l, u, t, s)
  BY <1>4 DEF Proposed, Lesson
<1>5. CASE m = Declined(l)
  BY <1>5 DEF Declined, Lesson
<1>6. CASE \E u \in Parties(q) : l.status = "SCHEDULED" /\ m = Confirmed(q, l, u)
  BY <1>6 DEF Confirmed, Lesson
<1> QED
  BY <1>1, <1>2, <1>3, <1>4, <1>5, <1>6 DEF QuietRowStep

LEMMA QuietBooking ==
    ASSUME TypeOK, NoDoubleBooking, AllQuiet
    PROVE  NoDoubleBooking'
<1>1. \A q \in Requests, n \in Orders :
         lesson'[q][n].status = "SCHEDULED" =>
            lesson[q][n].status = "SCHEDULED" /\ lesson'[q][n].slot = lesson[q][n].slot
  BY LessonRows, QuietScheduled DEF AllQuiet
<1> QED
  BY <1>1 DEF NoDoubleBooking, Parties

LEMMA AcceptedBooking ==
    ASSUME TypeOK, ProposalMatchesLesson, NoDoubleBooking,
           NEW q \in Requests, NEW n \in Orders, NEW u \in Parties(q),
           AcceptSessionProposal(q, n, u)
    PROVE  NoDoubleBooking'
<1>1. lesson[q][n].slot \in Slots /\ ~ HasScheduleConflict(q, n, lesson[q][n].slot)
  BY DEF AcceptSessionProposal, ProposalMatchesLesson, ProposalRow
<1>2. \A p \in Requests, m \in Orders :
         lesson'[p][m] = IF p = q /\ m = n THEN Accepted(lesson[q][n], u) ELSE lesson[p][m]
  BY SavedRow DEF AcceptSessionProposal
<1>3. lesson'[q][n].slot = lesson[q][n].slot
  BY <1>2, LessonRows DEF Accepted, Lesson
<1>4. ASSUME NEW p \in Requests, NEW m \in Orders, <<p, m>> # <<q, n>>,
             Parties(p) \cap Parties(q) # {}, lesson'[p][m].status = "SCHEDULED"
      PROVE  /\ ~ Overlap(lesson'[p][m].slot, lesson'[q][n].slot)
             /\ ~ Overlap(lesson'[q][n].slot, lesson'[p][m].slot)
  <2>1. lesson'[p][m] = lesson[p][m]
    BY <1>2, <1>4
  <2>2. ~ Overlap(lesson[p][m].slot, lesson[q][n].slot)
    BY <1>1, <1>4, <2>1 DEF HasScheduleConflict
  <2> QED
    BY <1>3, <2>1, <2>2 DEF Overlap
<1> SUFFICES ASSUME NEW a \in Requests, NEW b \in Requests, NEW i \in Orders, NEW j \in Orders,
                    <<a, i>> # <<b, j>>, Parties(a) \cap Parties(b) # {},
                    lesson'[a][i].status = "SCHEDULED", lesson'[b][j].status = "SCHEDULED"
             PROVE  ~ Overlap(lesson'[a][i].slot, lesson'[b][j].slot)
  BY DEF NoDoubleBooking, Parties, Overlap
<1>5. CASE <<a, i>> = <<q, n>>
  BY <1>4, <1>5
<1>6. CASE <<b, j>> = <<q, n>>
  BY <1>4, <1>6
<1>7. CASE <<a, i>> # <<q, n>> /\ <<b, j>> # <<q, n>>
  <2>1. lesson'[a][i] = lesson[a][i] /\ lesson'[b][j] = lesson[b][j]
    BY <1>2, <1>7
  <2> QED
    BY <2>1 DEF NoDoubleBooking
<1> QED
  BY <1>5, <1>6, <1>7

\* No student is ever booked twice, in one exchange or in two: the check an
\* acceptance repeats is enough, whatever was scheduled since the proposal
\* (data.HasScheduleConflict).
THEOREM NoDoubleBookingHolds == Spec => []NoDoubleBooking
<1>1. Init => NoDoubleBooking
  BY DEF Init, NoDoubleBooking, NoLesson, Draft
<1>2. TypeOK /\ ProposalMatchesLesson /\ NoDoubleBooking /\ [Next]_tables => NoDoubleBooking'
  BY QuietOrAccepting, QuietBooking, AcceptedBooking
<1> QED
  BY <1>1, <1>2, TypeCorrect, ProposalMatchesLessonHolds, PTL DEF Spec

-----------------------------------------------------------------------------
(***************************************************************************)
(* Whole exchanges.  As with the rows above, a step of the system is       *)
(* reduced to what it does to one exchange: it begins, it is left alone,   *)
(* it goes on, or a participant signs it (ExchangeStep).                   *)
(***************************************************************************)
Final == {"COMPLETED", "CANCELLED"}

KeepsHistory(q) ==
    \A n \in Orders : lesson[q][n].status \in Final => lesson'[q][n] = lesson[q][n]

Begins(q) ==
    /\ request[q] = "PENDING"
    /\ request'[q] = "ACCEPTED"
    /\ exchange'[q] = "ACTIVE"
    /\ signed'[q] = signed[q]

LeftAlone(q) ==
    /\ \/ request'[q] = request[q]
       \/ /\ request[q] \notin {"ACCEPTED", "DECLINED", "WITHDRAWN"}
          /\ request'[q] # "ACCEPTED"
    /\ exchange'[q] = exchange[q]
    /\ signed'[q] = signed[q]
    /\ lesson'[q] = lesson[q]

GoesOn(q) ==
    /\ exchange[q] = "ACTIVE"
    /\ exchange'[q] \in {"ACTIVE", "CANCELLED"}
    /\ request'[q] = request[q]
    /\ signed'[q] = signed[q]
    /\ KeepsHistory(q)

Signs(q, u) ==
    /\ exchange[q] = "ACTIVE"
    /\ PlanCompleted(q)
    /\ u \notin signed[q]
    /\ signed'[q] = signed[q] \cup {u}
    /\ exchange'[q] = IF Partner(q, u) \in signed[q] THEN "COMPLETED" ELSE "ACTIVE"
    /\ request'[q] = request[q]
    /\ lesson'[q] = lesson[q]

ExchangeStep(q) ==
    \/ Begins(q)
    \/ LeftAlone(q)
    \/ GoesOn(q)
    \/ \E u \in Parties(q) : Signs(q, u)

\* An exchange, its plan and its signatures exist only for accepted requests.
PlansAreAccepted ==
    \A q \in Requests :
        /\ exchange[q] # "NONE" <=> request[q] = "ACCEPTED"
        /\ exchange[q] = "NONE" => signed[q] = {} /\ \A n \in Orders : lesson[q][n].status = "NONE"

Coherent == TypeOK /\ ProposalMatchesLesson /\ PlansAreAccepted

(***************************************************************************)
(* Every step is an exchange step of every exchange.                       *)
(***************************************************************************)
LEMMA CancelledHistory ==
    ASSUME NEW q \in Requests, NEW l \in Lesson, ProposalRow(q, l), l.status \in Final
    PROVE  Cancelled(l) = l
<1>1. l.pending = {} /\ l.status \notin Live
  BY DEF ProposalRow, Final, Live
<1>2. Cancelled(l) = [l EXCEPT !.pending = {}]
  BY <1>1 DEF Cancelled
<1> QED
  BY <1>1, <1>2 DEF Lesson

LEMMA CancelExchangesStep ==
    ASSUME Coherent, NEW S, CancelExchanges(S), UNCHANGED signed,
           \A q \in S : exchange[q] = "ACTIVE",
           \A q \in Requests : \/ request'[q] = request[q]
                               \/ request[q] = "PENDING" /\ request'[q] # "ACCEPTED"
    PROVE  \A q \in Requests : ExchangeStep(q)
<1> SUFFICES ASSUME NEW q \in Requests
             PROVE  ExchangeStep(q)
  OBVIOUS
<1>1. CASE q \in S
  <2>1. exchange[q] = "ACTIVE" /\ exchange'[q] = "CANCELLED"
    BY <1>1 DEF CancelExchanges
  <2>2. request'[q] = request[q]
    BY <2>1 DEF Coherent, PlansAreAccepted
  <2>3. KeepsHistory(q)
    BY <1>1, CancelledHistory, LessonRows
    DEF KeepsHistory, CancelExchanges, Coherent, ProposalMatchesLesson
  <2> QED
    BY <2>1, <2>2, <2>3 DEF ExchangeStep, GoesOn
<1>2. CASE q \notin S
  BY <1>2 DEF CancelExchanges, ExchangeStep, LeftAlone
<1> QED
  BY <1>1, <1>2

LEMMA RequestSteps ==
    ASSUME Coherent, RequestNext
    PROVE  \A q \in Requests : ExchangeStep(q)
<1> SUFFICES ASSUME NEW q \in Requests
             PROVE  ExchangeStep(q)
  OBVIOUS
<1> USE DEF Coherent, TypeOK, ExchangeStep
<1>1. ASSUME NEW p \in Requests, AcceptRequest(p)
      PROVE  ExchangeStep(q)
  BY <1>1 DEF AcceptRequest, Begins, LeftAlone
<1>2. ASSUME NEW p \in Requests, ValidateRequest(p) \/ InsertRequest(p) \/ AbandonRequest(p)
      PROVE  ExchangeStep(q)
  BY <1>2 DEF ValidateRequest, InsertRequest, AbandonRequest, LeftAlone
<1>3. ASSUME NEW p \in Requests, DeclineRequest(p) \/ WithdrawRequest(p)
      PROVE  ExchangeStep(q)
  BY <1>3 DEF DeclineRequest, WithdrawRequest, AnswerRequest, LeftAlone
<1> QED
  BY <1>1, <1>2, <1>3 DEF RequestNext

LEMMA ExchangeSteps ==
    ASSUME Coherent, ExchangeNext
    PROVE  \A q \in Requests : ExchangeStep(q)
<1>1. ASSUME NEW p \in Requests, CancelExchange(p)
      PROVE  \A q \in Requests : ExchangeStep(q)
  BY <1>1, CancelExchangesStep DEF CancelExchange
<1>2. ASSUME NEW p \in Requests, NEW u \in Parties(p), CompleteExchange(p, u),
             NEW q \in Requests
      PROVE  ExchangeStep(q)
  <2>1. CASE q = p
    BY <1>2, <2>1 DEF CompleteExchange, ExchangeStep, Signs, Coherent, TypeOK
  <2>2. CASE q # p
    BY <1>2, <2>2 DEF CompleteExchange, ExchangeStep, LeftAlone, Coherent, TypeOK
  <2> QED
    BY <2>1, <2>2
<1> QED
  BY <1>1, <1>2 DEF ExchangeNext

LEMMA TrustSteps ==
    ASSUME Coherent, TrustNext
    PROVE  \A q \in Requests : ExchangeStep(q)
<1>1. ASSUME NEW u, NEW partners, EndInteractions(u, partners), UNCHANGED signed
      PROVE  \A q \in Requests : ExchangeStep(q)
  <2> DEFINE S == {q \in Requests : exchange[q] = "ACTIVE" /\ Between(q, u, partners)}
  <2>1. CancelExchanges(S)
    BY <1>1 DEF EndInteractions
  <2>2. \A q \in Requests : \/ request'[q] = request[q]
                            \/ request[q] = "PENDING" /\ request'[q] # "ACCEPTED"
    BY <1>1 DEF EndInteractions
  <2>3. \A q \in S : exchange[q] = "ACTIVE"
    OBVIOUS
  <2> HIDE DEF S
  <2> QED
    BY <1>1, <2>1, <2>2, <2>3, CancelExchangesStep
<1>2. ASSUME UNCHANGED <<request, exchange, signed, lesson>>
      PROVE  \A q \in Requests : ExchangeStep(q)
  BY <1>2 DEF ExchangeStep, LeftAlone
<1> QED
  BY <1>1, <1>2 DEF TrustNext, Block, Unblock, SuspendAccount, RestoreAccount, DeleteAccount

LEMMA SaveLessonStep ==
    ASSUME Coherent, NEW p \in Requests, NEW n \in Orders, NEW row, SaveLesson(p, n, row),
           exchange[p] = "ACTIVE", lesson[p][n].status \notin Final
    PROVE  \A q \in Requests : ExchangeStep(q)
<1> SUFFICES ASSUME NEW q \in Requests
             PROVE  ExchangeStep(q)
  OBVIOUS
<1>1. UNCHANGED <<request, exchange, signed>>
  BY DEF SaveLesson
<1>2. CASE q = p
  <2>1. KeepsHistory(q)
    BY <1>2, SavedRow DEF KeepsHistory, Coherent
  <2> QED
    BY <1>1, <1>2, <2>1 DEF ExchangeStep, GoesOn
<1>3. CASE q # p
  <2>1. lesson'[q] = lesson[q]
    BY <1>3 DEF SaveLesson, Coherent, TypeOK
  <2> QED
    BY <1>1, <2>1 DEF ExchangeStep, LeftAlone
<1> QED
  BY <1>2, <1>3

LEMMA SwapStep ==
    ASSUME Coherent, NEW p \in Requests, NEW n \in Orders, NEW u \in Parties(p), NEW s \in Slots,
           ProposeSwappedSession(p, n, u, s)
    PROVE  \A q \in Requests : ExchangeStep(q)
<1> DEFINE t == Partner(p, lesson[p][n].teacher)
           row == Proposed(lesson[p][n], u, t, s)
<1>1. PICK m \in Orders :
         /\ IsLowest(m, Drafts(p, t) \ {n})
         /\ lesson' = [lesson EXCEPT ![p][m].teacher = lesson[p][n].teacher, ![p][n] = row]
  BY DEF ProposeSwappedSession
<1>2. lesson[p][m].status = "DRAFT" /\ lesson[p][n].status = "DRAFT"
  BY <1>1 DEF IsLowest, Drafts, ProposeSwappedSession
<1>3. exchange[p] = "ACTIVE" /\ UNCHANGED <<request, exchange, signed>>
  BY DEF ProposeSwappedSession, MayPropose
<1> HIDE DEF row, t
<1>4. \A q \in Requests, k \in Orders : ~ (q = p /\ k \in {m, n}) => lesson'[q][k] = lesson[q][k]
  BY <1>1 DEF Coherent, TypeOK
<1>5. \A q \in Requests : q # p => lesson'[q] = lesson[q]
  BY <1>1 DEF Coherent, TypeOK
<1>6. KeepsHistory(p)
  BY <1>2, <1>4 DEF KeepsHistory, Final
<1> QED
  BY <1>3, <1>5, <1>6 DEF ExchangeStep, GoesOn, LeftAlone

LEMMA ReplacementStep ==
    ASSUME Coherent, NEW p \in Requests, NEW n \in Orders, CancelSession(p, n)
    PROVE  \A q \in Requests : ExchangeStep(q)
<1> DEFINE draft == Draft(lesson[p][n].teacher)
<1>1. PICK m \in Orders :
         /\ IsNextOrder(p, m)
         /\ lesson' = [lesson EXCEPT ![p][n] = Cancelled(lesson[p][n]), ![p][m] = draft]
  BY DEF CancelSession
<1>2. lesson[p][m].status = "NONE" /\ lesson[p][n].status \notin Final
  BY <1>1 DEF IsNextOrder, Placed, Orders, CancelSession, Final
<1>3. exchange[p] = "ACTIVE" /\ UNCHANGED <<request, exchange, signed>>
  BY DEF CancelSession
<1> HIDE DEF draft
<1>4. \A q \in Requests, k \in Orders : ~ (q = p /\ k \in {m, n}) => lesson'[q][k] = lesson[q][k]
  BY <1>1 DEF Coherent, TypeOK
<1>5. \A q \in Requests : q # p => lesson'[q] = lesson[q]
  BY <1>1 DEF Coherent, TypeOK
<1>6. KeepsHistory(p)
  BY <1>2, <1>4 DEF KeepsHistory, Final
<1> QED
  BY <1>3, <1>5, <1>6 DEF ExchangeStep, GoesOn, LeftAlone

LEMMA ProposalSteps ==
    ASSUME Coherent, ProposalNext
    PROVE  \A q \in Requests : ExchangeStep(q)
<1>1. ASSUME NEW p \in Requests, NEW u \in Parties(p), NEW s \in Slots, NEW t \in Parties(p),
             ProposeExchangeSession(p, u, t, s)
      PROVE  \A q \in Requests : ExchangeStep(q)
  <2>1. PICK n \in Orders :
           /\ lesson[p][n].status = "DRAFT"
           /\ MayPropose(p, n, s)
           /\ SaveLesson(p, n, Proposed(lesson[p][n], u, t, s))
    BY <1>1 DEF ProposeExchangeSession, IsLowest, Drafts
  <2> QED
    BY <2>1, SaveLessonStep DEF MayPropose, Final
<1>2. ASSUME NEW p \in Requests, NEW u \in Parties(p), NEW s \in Slots, NEW n \in Orders,
             ProposeSession(p, n, u, s)
      PROVE  \A q \in Requests : ExchangeStep(q)
  <2> DEFINE row == Proposed(lesson[p][n], u, lesson[p][n].teacher, s)
  <2>1. lesson[p][n].status \notin Final /\ exchange[p] = "ACTIVE" /\ SaveLesson(p, n, row)
    BY <1>2 DEF ProposeSession, MayPropose, Live, Final
  <2> HIDE DEF row
  <2> QED
    BY <2>1, SaveLessonStep
<1> QED
  BY <1>1, <1>2, SwapStep DEF ProposalNext

LEMMA LessonSteps ==
    ASSUME Coherent, LessonNext
    PROVE  \A q \in Requests : ExchangeStep(q)
<1>1. ASSUME NEW p \in Requests, NEW n \in Orders, NEW u \in Parties(p),
             \/ AcceptSessionProposal(p, n, u)
             \/ DeclineSessionProposal(p, n, u)
             \/ ConfirmSessionCompletion(p, n, u)
      PROVE  \A q \in Requests : ExchangeStep(q)
  <2>1. exchange[p] = "ACTIVE" /\ lesson[p][n].status \notin Final
    BY <1>1 DEF AcceptSessionProposal, DeclineSessionProposal, ConfirmSessionCompletion, Final
  <2>2. \E row : SaveLesson(p, n, row)
    BY <1>1 DEF AcceptSessionProposal, DeclineSessionProposal, ConfirmSessionCompletion
  <2> QED
    BY <2>1, <2>2, SaveLessonStep
<1> QED
  BY <1>1, ReplacementStep DEF LessonNext

LEMMA EveryStep ==
    ASSUME Coherent, [Next]_tables
    PROVE  \A q \in Requests : ExchangeStep(q)
<1>1. ASSUME UNCHANGED <<request, exchange, signed, lesson>>
      PROVE  \A q \in Requests : ExchangeStep(q)
  BY <1>1 DEF ExchangeStep, LeftAlone
<1>2. CASE ProfileNext
  BY <1>1, <1>2 DEF ProfileNext, AddSkill, RemoveSkill, ChangeSkills, UpdatePrivacy
<1>3. CASE Tick \/ UNCHANGED tables
  BY <1>1, <1>3 DEF Tick, tables
<1> QED
  BY <1>2, <1>3, RequestSteps, ExchangeSteps, ProposalSteps, LessonSteps, TrustSteps DEF Next

(***************************************************************************)
(* History.                                                                *)
(***************************************************************************)
LEMMA PlansStep ==
    ASSUME Coherent, [Next]_tables
    PROVE  PlansAreAccepted'
<1> SUFFICES ASSUME NEW q \in Requests
             PROVE  /\ exchange'[q] # "NONE" <=> request'[q] = "ACCEPTED"
                    /\ exchange'[q] = "NONE" =>
                          signed'[q] = {} /\ \A n \in Orders : lesson'[q][n].status = "NONE"
  BY DEF PlansAreAccepted
<1>1. ExchangeStep(q)
  BY EveryStep
<1>2. CASE Begins(q)
  BY <1>2 DEF Begins
<1>3. CASE LeftAlone(q)
  BY <1>3 DEF LeftAlone, Coherent, PlansAreAccepted
<1>4. CASE GoesOn(q)
  BY <1>4 DEF GoesOn, Coherent, PlansAreAccepted
<1>5. CASE \E u \in Parties(q) : Signs(q, u)
  BY <1>5 DEF Signs, Coherent, PlansAreAccepted
<1> QED
  BY <1>1, <1>2, <1>3, <1>4, <1>5 DEF ExchangeStep

LEMMA AlwaysCoherent == Spec => []Coherent
<1>1. Init => PlansAreAccepted
  BY DEF Init, PlansAreAccepted, NoLesson, Draft
<1>2. TypeOK /\ ProposalMatchesLesson /\ PlansAreAccepted /\ [Next]_tables => PlansAreAccepted'
  BY PlansStep DEF Coherent
<1> QED
  BY <1>1, <1>2, TypeCorrect, ProposalMatchesLessonHolds, PTL DEF Spec, Coherent

LEMMA HistoryStep ==
    ASSUME Coherent, [Next]_tables, NEW q \in Requests
    PROVE  /\ request[q] \in {"ACCEPTED", "DECLINED", "WITHDRAWN"} => request'[q] = request[q]
           /\ exchange[q] \in Final => exchange'[q] = exchange[q] /\ signed'[q] = signed[q]
           /\ KeepsHistory(q)
<1>1. ExchangeStep(q)
  BY EveryStep
<1>2. CASE Begins(q)
  BY <1>2 DEF Begins, KeepsHistory, Final, Coherent, PlansAreAccepted
<1>3. CASE LeftAlone(q)
  BY <1>3 DEF LeftAlone, KeepsHistory
<1>4. CASE GoesOn(q)
  BY <1>4 DEF GoesOn, Final
<1>5. CASE \E u \in Parties(q) : Signs(q, u)
  BY <1>5 DEF Signs, KeepsHistory, Final
<1> QED
  BY <1>1, <1>2, <1>3, <1>4, <1>5 DEF ExchangeStep

\* Answered requests, ended exchanges and counted lessons are never rewritten
\* (the status conditions of answerRequest, LockExchange and CancelExchange).
THEOREM HistoryIsFinalHolds == Spec => HistoryIsFinal
<1> DEFINE Kept ==
       \A q \in Requests :
          /\ request[q] \in {"ACCEPTED", "DECLINED", "WITHDRAWN"} => request'[q] = request[q]
          /\ exchange[q] \in {"COMPLETED", "CANCELLED"} =>
                exchange'[q] = exchange[q] /\ signed'[q] = signed[q]
          /\ \A n \in Orders :
                lesson[q][n].status \in {"COMPLETED", "CANCELLED"} => lesson'[q][n] = lesson[q][n]
<1>1. Coherent /\ [Next]_tables => Kept
  BY HistoryStep DEF KeepsHistory, Final
<1>2. HistoryIsFinal <=> [][Kept]_tables
  BY DEF HistoryIsFinal
<1> HIDE DEF Kept
<1> QED
  BY <1>1, <1>2, AlwaysCoherent, PTL DEF Spec

(***************************************************************************)
(* Signatures.                                                             *)
(***************************************************************************)
TaughtLessons(q, u) ==
    {n \in Orders : lesson[q][n].status = "COMPLETED" /\ lesson[q][n].teacher = u}

LEMMA TaughtGrows ==
    ASSUME NEW q, NEW u, KeepsHistory(q)
    PROVE  /\ Taught(q, u) \in Nat /\ Taught(q, u)' \in Nat
           /\ Taught(q, u) <= Taught(q, u)'
<1> DEFINE before == TaughtLessons(q, u)
           after == TaughtLessons(q, u)'
<1>1. Taught(q, u) = Cardinality(before) /\ Taught(q, u)' = Cardinality(after)
  BY DEF Taught, TaughtLessons
<1>2. before \subseteq after /\ after \subseteq Orders /\ before \subseteq Orders
  BY DEF TaughtLessons, KeepsHistory, Final
<1>3. IsFiniteSet(Orders)
  BY PlanAssumption, FS_Interval DEF Orders
<1> HIDE DEF before, after
<1>4. IsFiniteSet(before) /\ IsFiniteSet(after)
  BY <1>2, <1>3, FS_Subset
<1>5. Cardinality(before) <= Cardinality(after)
  BY <1>2, <1>4, FS_Subset
<1> QED
  BY <1>1, <1>4, <1>5, FS_CardinalityType

LEMMA PlanStaysCompleted ==
    ASSUME NEW q \in Requests, KeepsHistory(q), PlanCompleted(q)
    PROVE  PlanCompleted(q)'
<1>1. Offered[q] \in Nat /\ Returned[q] \in Nat
  BY PlanAssumption
<1> QED
  BY <1>1, TaughtGrows DEF PlanCompleted

SignedByParties == \A q \in Requests : signed[q] \subseteq Parties(q)

LEMMA SignaturesStep ==
    ASSUME Coherent, SignedByParties, ExchangeCompletionIsMutual, [Next]_tables
    PROVE  SignedByParties' /\ ExchangeCompletionIsMutual'
<1> SUFFICES ASSUME NEW q \in Requests
             PROVE  /\ signed'[q] \subseteq Parties(q)
                    /\ signed'[q] # {} => PlanCompleted(q)'
                    /\ exchange'[q] = "COMPLETED" <=> signed'[q] = Parties(q)
  BY DEF SignedByParties, ExchangeCompletionIsMutual, Parties
<1>1. /\ signed[q] \subseteq Parties(q)
      /\ signed[q] # {} => PlanCompleted(q)
      /\ exchange[q] = "COMPLETED" <=> signed[q] = Parties(q)
  BY DEF SignedByParties, ExchangeCompletionIsMutual
<1>2. Parties(q) # {}
  BY DEF Parties
<1>3. ExchangeStep(q)
  BY EveryStep
<1>4. PlanCompleted(q) => PlanCompleted(q)'
  BY HistoryStep, PlanStaysCompleted
<1>5. CASE Begins(q)
  <2>1. signed'[q] = {} /\ exchange'[q] = "ACTIVE"
    BY <1>5 DEF Begins, Coherent, PlansAreAccepted
  <2> QED
    BY <1>2, <2>1
<1>6. CASE LeftAlone(q)
  BY <1>1, <1>4, <1>6 DEF LeftAlone
<1>7. CASE GoesOn(q)
  BY <1>1, <1>4, <1>7 DEF GoesOn
<1>8. ASSUME NEW u \in Parties(q), Signs(q, u)
      PROVE  /\ signed'[q] \subseteq Parties(q)
             /\ signed'[q] # {} => PlanCompleted(q)'
             /\ exchange'[q] = "COMPLETED" <=> signed'[q] = Parties(q)
  <2>1. PICK v \in Parties(q) : u # v
    BY RequestsAssumption DEF Parties
  <2>2. Parties(q) = {u, v} /\ Partner(q, u) = v
    BY <2>1, TwoParties
  <2>3. exchange'[q] = IF v \in signed[q] THEN "COMPLETED" ELSE "ACTIVE"
    BY <1>8, <2>2 DEF Signs
  <2>4. u \notin signed[q] /\ signed'[q] = signed[q] \cup {u} /\ PlanCompleted(q)
    BY <1>8 DEF Signs
  <2>5. exchange'[q] = "COMPLETED" <=> signed'[q] = Parties(q)
    BY <1>1, <2>1, <2>2, <2>3, <2>4
  <2> QED
    BY <1>1, <1>4, <2>4, <2>5
<1> QED
  BY <1>3, <1>5, <1>6, <1>7, <1>8 DEF ExchangeStep

\* No one signs off an unfinished exchange, and an exchange is COMPLETED
\* exactly when both participants have signed (exchange.CompleteExchange).
THEOREM ExchangeCompletionIsMutualHolds == Spec => []ExchangeCompletionIsMutual
<1>1. Init => SignedByParties /\ ExchangeCompletionIsMutual
  BY DEF Init, SignedByParties, ExchangeCompletionIsMutual, Parties
<1>2. Coherent /\ SignedByParties /\ ExchangeCompletionIsMutual /\ [Next]_tables
        => SignedByParties' /\ ExchangeCompletionIsMutual'
  BY SignaturesStep
<1> QED
  BY <1>1, <1>2, AlwaysCoherent, PTL DEF Spec

-----------------------------------------------------------------------------
(***************************************************************************)
(* The balance of an exchange: the plan always holds the agreed number of  *)
(* lessons in each direction, an exchange that has ended leaves nothing to *)
(* be done, and the services implement Ledger.                             *)
(*                                                                         *)
(* A step is reduced to what it does to the plan of one exchange           *)
(* (PlanStep): it draws the plan up, leaves it at rest, cancels it, or     *)
(* keeps the number of lessons each participant teaches.                   *)
(***************************************************************************)

Running == {"ACTIVE", "COMPLETED"}

\* The statuses of a row that is no part of the plan.
Outside == {"NONE", "CANCELLED"}

DrawsUp(q) == exchange'[q] = "ACTIVE" /\ lesson'[q] = Plan(q)

Rests(q) ==
    /\ exchange[q] \notin Running
    /\ exchange'[q] = exchange[q]
    /\ lesson'[q] = lesson[q]

Ends(q) ==
    /\ exchange'[q] = "CANCELLED"
    /\ \A n \in Orders : lesson'[q][n] = Cancelled(lesson[q][n])

\* The row n is taught by the same participant, and no row enters or leaves.
SameShare(q, n) ==
    /\ lesson'[q][n].teacher = lesson[q][n].teacher
    /\ lesson'[q][n].status \in Outside <=> lesson[q][n].status \in Outside

KeepsPlan(q) == \A n \in Orders : SameShare(q, n)

\* Two lessons of the plan change teachers with each other.
Trades(q, m, n) ==
    /\ \A k \in {m, n} : lesson[q][k].status \notin Outside /\ lesson'[q][k].status \notin Outside
    /\ lesson'[q][m].teacher = lesson[q][n].teacher
    /\ lesson'[q][n].teacher = lesson[q][m].teacher
    /\ \A k \in Orders \ {m, n} : SameShare(q, k)

\* Row m, not used before, takes the place of lesson n, which leaves the plan.
Replaces(q, m, n) ==
    /\ lesson[q][m].status \in Outside /\ lesson'[q][m].status \notin Outside
    /\ lesson[q][n].status \notin Outside /\ lesson'[q][n].status \in Outside
    /\ lesson'[q][m].teacher = lesson[q][n].teacher
    /\ lesson'[q][n].teacher = lesson[q][n].teacher
    /\ \A k \in Orders \ {m, n} : SameShare(q, k)

Balances(q) ==
    /\ exchange[q] \in Running
    /\ exchange'[q] \in Running
    /\ \/ KeepsPlan(q)
       \/ \E m, n \in Orders : Trades(q, m, n) \/ Replaces(q, m, n)

PlanStep(q) == DrawsUp(q) \/ Rests(q) \/ Ends(q) \/ Balances(q)

(***************************************************************************)
(* Every step is a plan step of every exchange.                            *)
(***************************************************************************)
LEMMA UntouchedPlan ==
    ASSUME NEW q \in Requests, exchange'[q] = exchange[q], lesson'[q] = lesson[q]
    PROVE  PlanStep(q)
BY DEF PlanStep, Rests, Balances, KeepsPlan, SameShare

LEMMA CancelledPlans ==
    ASSUME NEW S, CancelExchanges(S)
    PROVE  \A q \in Requests : PlanStep(q)
<1> SUFFICES ASSUME NEW q \in Requests
             PROVE  PlanStep(q)
  OBVIOUS
<1>1. CASE q \in S
  BY <1>1 DEF CancelExchanges, PlanStep, Ends
<1>2. CASE q \notin S
  <2>1. exchange'[q] = exchange[q] /\ lesson'[q] = lesson[q]
    BY <1>2 DEF CancelExchanges
  <2> QED
    BY <2>1, UntouchedPlan
<1> QED
  BY <1>1, <1>2

LEMMA SavedPlan ==
    ASSUME TypeOK, NEW p \in Requests, NEW n \in Orders, NEW row, SaveLesson(p, n, row),
           exchange[p] = "ACTIVE",
           lesson[p][n].status \notin Outside, row.status \notin Outside,
           row.teacher = lesson[p][n].teacher
    PROVE  \A q \in Requests : PlanStep(q)
<1> SUFFICES ASSUME NEW q \in Requests
             PROVE  PlanStep(q)
  OBVIOUS
<1>1. exchange' = exchange
  BY DEF SaveLesson
<1>2. CASE q = p
  <2>1. KeepsPlan(q)
    BY <1>2, SavedRow DEF KeepsPlan, SameShare
  <2> QED
    BY <1>1, <1>2, <2>1 DEF PlanStep, Balances, Running
<1>3. CASE q # p
  <2>1. lesson'[q] = lesson[q]
    BY <1>3 DEF SaveLesson, TypeOK
  <2> QED
    BY <1>1, <2>1, UntouchedPlan
<1> QED
  BY <1>2, <1>3

LEMMA ProposedPlan ==
    ASSUME NEW l \in Lesson, NEW u, NEW t, NEW s
    PROVE  Proposed(l, u, t, s).status = "PROPOSED" /\ Proposed(l, u, t, s).teacher = t
BY DEF Proposed, Lesson

LEMMA TradedPlan ==
    ASSUME TypeOK, NEW p \in Requests, NEW n \in Orders, NEW u \in Parties(p), NEW s \in Slots,
           ProposeSwappedSession(p, n, u, s)
    PROVE  \A q \in Requests : PlanStep(q)
<1> DEFINE t == Partner(p, lesson[p][n].teacher)
           row == Proposed(lesson[p][n], u, t, s)
<1>1. PICK m \in Orders :
         /\ IsLowest(m, Drafts(p, t) \ {n})
         /\ lesson' = [lesson EXCEPT ![p][m].teacher = lesson[p][n].teacher, ![p][n] = row]
  BY DEF ProposeSwappedSession
<1>2. /\ m # n
      /\ lesson[p][m].status = "DRAFT" /\ lesson[p][m].teacher = t
      /\ lesson[p][n].status = "DRAFT"
      /\ exchange[p] = "ACTIVE" /\ exchange' = exchange
  BY <1>1 DEF IsLowest, Drafts, ProposeSwappedSession, MayPropose
<1>3. row.status = "PROPOSED" /\ row.teacher = t
  BY LessonRows, ProposedPlan
<1> HIDE DEF row, t
<1>4. lesson'[p][n] = row
  BY <1>1 DEF TypeOK
<1>5. /\ lesson'[p][m].status = lesson[p][m].status
      /\ lesson'[p][m].teacher = lesson[p][n].teacher
  BY <1>1, <1>2, LessonRows DEF TypeOK, Lesson
<1>6. \A q \in Requests, k \in Orders : ~ (q = p /\ k \in {m, n}) => lesson'[q][k] = lesson[q][k]
  BY <1>1 DEF TypeOK
<1>7. \A q \in Requests : q # p => lesson'[q] = lesson[q]
  BY <1>1 DEF TypeOK
<1>8. Trades(p, m, n)
  BY <1>2, <1>3, <1>4, <1>5, <1>6 DEF Trades, SameShare, Outside
<1>9. PlanStep(p)
  BY <1>2, <1>8 DEF PlanStep, Balances, Running
<1> QED
  BY <1>2, <1>7, <1>9, UntouchedPlan

LEMMA ReplacedPlan ==
    ASSUME TypeOK, NEW p \in Requests, NEW n \in Orders, CancelSession(p, n)
    PROVE  \A q \in Requests : PlanStep(q)
<1> DEFINE draft == Draft(lesson[p][n].teacher)
<1>1. PICK m \in Orders :
         /\ IsNextOrder(p, m)
         /\ lesson' = [lesson EXCEPT ![p][n] = Cancelled(lesson[p][n]), ![p][m] = draft]
  BY DEF CancelSession
<1>2. /\ lesson[p][m].status = "NONE"
      /\ lesson[p][n].status \in {"PROPOSED", "SCHEDULED"}
      /\ exchange[p] = "ACTIVE" /\ exchange' = exchange
  BY <1>1 DEF IsNextOrder, Placed, Orders, CancelSession
<1>3. draft.status = "DRAFT" /\ draft.teacher = lesson[p][n].teacher
  BY DEF Draft
<1>4. /\ Cancelled(lesson[p][n]).status = "CANCELLED"
      /\ Cancelled(lesson[p][n]).teacher = lesson[p][n].teacher
  BY <1>2, LessonRows DEF Cancelled, Live, Lesson
<1> HIDE DEF draft
<1>5. lesson'[p][m] = draft /\ lesson'[p][n] = Cancelled(lesson[p][n])
  BY <1>1, <1>2 DEF TypeOK
<1>6. \A q \in Requests, k \in Orders : ~ (q = p /\ k \in {m, n}) => lesson'[q][k] = lesson[q][k]
  BY <1>1 DEF TypeOK
<1>7. \A q \in Requests : q # p => lesson'[q] = lesson[q]
  BY <1>1 DEF TypeOK
<1>8. Replaces(p, m, n)
  BY <1>2, <1>3, <1>4, <1>5, <1>6 DEF Replaces, SameShare, Outside
<1>9. PlanStep(p)
  BY <1>2, <1>8 DEF PlanStep, Balances, Running
<1> QED
  BY <1>2, <1>7, <1>9, UntouchedPlan

LEMMA EveryPlanStep ==
    ASSUME TypeOK, [Next]_tables
    PROVE  \A q \in Requests : PlanStep(q)
<1>1. ASSUME UNCHANGED <<exchange, lesson>>
      PROVE  \A q \in Requests : PlanStep(q)
  BY <1>1, UntouchedPlan
<1>2. CASE RequestNext
  <2>1. ASSUME NEW p \in Requests, AcceptRequest(p), NEW q \in Requests
        PROVE  PlanStep(q)
    <3>1. CASE q = p
      BY <2>1, <3>1 DEF AcceptRequest, TypeOK, PlanStep, DrawsUp
    <3>2. CASE q # p
      <4>1. exchange'[q] = exchange[q] /\ lesson'[q] = lesson[q]
        BY <2>1, <3>2 DEF AcceptRequest, TypeOK
      <4> QED
        BY <4>1, UntouchedPlan
    <3> QED
      BY <3>1, <3>2
  <2> QED
    BY <1>1, <1>2, <2>1
    DEF RequestNext, ValidateRequest, InsertRequest, AbandonRequest, DeclineRequest,
        WithdrawRequest, AnswerRequest
<1>3. CASE ExchangeNext
  <2>1. ASSUME NEW p \in Requests, NEW u \in Parties(p), CompleteExchange(p, u), NEW q \in Requests
        PROVE  PlanStep(q)
    <3>1. lesson' = lesson
      BY <2>1 DEF CompleteExchange
    <3>2. \/ exchange'[q] = exchange[q]
          \/ exchange[q] = "ACTIVE" /\ exchange'[q] = "COMPLETED"
      <4>1. exchange[p] = "ACTIVE"
            /\ exchange' \in {exchange, [exchange EXCEPT ![p] = "COMPLETED"]}
        BY <2>1 DEF CompleteExchange
      <4> QED
        BY <4>1 DEF TypeOK, ExchangeStatus
    <3> QED
      BY <3>1, <3>2, UntouchedPlan DEF PlanStep, Balances, KeepsPlan, SameShare, Running
  <2> QED
    BY <1>3, <2>1, CancelledPlans DEF ExchangeNext, CancelExchange
<1>4. CASE ProposalNext
  <2>1. ASSUME NEW p \in Requests, NEW u \in Parties(p), NEW s \in Slots, NEW t \in Parties(p),
               ProposeExchangeSession(p, u, t, s)
        PROVE  \A q \in Requests : PlanStep(q)
    <3>1. PICK n \in Orders :
             /\ lesson[p][n].status = "DRAFT" /\ lesson[p][n].teacher = t
             /\ exchange[p] = "ACTIVE"
             /\ SaveLesson(p, n, Proposed(lesson[p][n], u, t, s))
      BY <2>1 DEF ProposeExchangeSession, IsLowest, Drafts, MayPropose
    <3> DEFINE row == Proposed(lesson[p][n], u, t, s)
    <3>2. row.status = "PROPOSED" /\ row.teacher = t
      BY LessonRows, ProposedPlan
    <3>3. SaveLesson(p, n, row)
      BY <3>1
    <3> HIDE DEF row
    <3> QED
      BY <3>1, <3>2, <3>3, SavedPlan DEF Outside
  <2>2. ASSUME NEW p \in Requests, NEW u \in Parties(p), NEW s \in Slots, NEW n \in Orders,
               ProposeSession(p, n, u, s)
        PROVE  \A q \in Requests : PlanStep(q)
    <3> DEFINE row == Proposed(lesson[p][n], u, lesson[p][n].teacher, s)
    <3>1. row.status = "PROPOSED" /\ row.teacher = lesson[p][n].teacher
      BY LessonRows, ProposedPlan
    <3>2. SaveLesson(p, n, row) /\ lesson[p][n].status \in Live /\ exchange[p] = "ACTIVE"
      BY <2>2 DEF ProposeSession, MayPropose
    <3> HIDE DEF row
    <3> QED
      BY <3>1, <3>2, SavedPlan DEF Outside, Live
  <2> QED
    BY <1>4, <2>1, <2>2, TradedPlan DEF ProposalNext
<1>5. CASE LessonNext
  <2>1. ASSUME NEW l \in Lesson, NEW q, NEW u
        PROVE  /\ Accepted(l, u).status = "SCHEDULED" /\ Accepted(l, u).teacher = l.teacher
               /\ Declined(l).status = "DRAFT" /\ Declined(l).teacher = l.teacher
               /\ Confirmed(q, l, u).status \in {"COMPLETED", l.status}
               /\ Confirmed(q, l, u).teacher = l.teacher
    BY DEF Accepted, Declined, Confirmed, Lesson
  <2>2. ASSUME NEW p \in Requests, NEW n \in Orders, NEW u \in Parties(p),
               \/ AcceptSessionProposal(p, n, u)
               \/ DeclineSessionProposal(p, n, u)
               \/ ConfirmSessionCompletion(p, n, u)
        PROVE  \A q \in Requests : PlanStep(q)
    <3>1. exchange[p] = "ACTIVE" /\ lesson[p][n].status \in {"PROPOSED", "SCHEDULED"}
      BY <2>2 DEF AcceptSessionProposal, DeclineSessionProposal, ConfirmSessionCompletion
    <3>2. PICK row \in {Accepted(lesson[p][n], u), Declined(lesson[p][n]),
                        Confirmed(p, lesson[p][n], u)} : SaveLesson(p, n, row)
      BY <2>2 DEF AcceptSessionProposal, DeclineSessionProposal, ConfirmSessionCompletion
    <3>3. row.status \notin Outside /\ row.teacher = lesson[p][n].teacher
      <4> DEFINE l == lesson[p][n]
      <4>1. l \in Lesson
        BY LessonRows
      <4>2. CASE row \in {Accepted(l, u), Declined(l)}
        BY <2>1, <4>1, <4>2 DEF Outside
      <4>3. CASE row = Confirmed(p, l, u)
        BY <2>1, <3>1, <4>1, <4>3 DEF Outside
      <4> QED
        BY <3>2, <4>2, <4>3
    <3> QED
      BY <3>1, <3>2, <3>3, SavedPlan DEF Outside
  <2> QED
    BY <1>5, <2>2, ReplacedPlan DEF LessonNext
<1>6. CASE ProfileNext
  BY <1>1, <1>6 DEF ProfileNext, AddSkill, RemoveSkill, ChangeSkills, UpdatePrivacy
<1>7. CASE TrustNext
  BY <1>1, <1>7, CancelledPlans
  DEF TrustNext, Block, Unblock, SuspendAccount, RestoreAccount, DeleteAccount, EndInteractions
<1>8. CASE Tick \/ UNCHANGED tables
  BY <1>1, <1>8 DEF Tick, tables
<1> QED
  BY <1>2, <1>3, <1>4, <1>5, <1>6, <1>7, <1>8 DEF Next

(***************************************************************************)
(* The lessons of a plan.                                                  *)
(***************************************************************************)
LEMMA PlannedIsFinite ==
    ASSUME NEW q, NEW u
    PROVE  /\ IsFiniteSet(Planned(q, u)) /\ IsFiniteSet(Planned(q, u)')
           /\ Cardinality(Planned(q, u)) \in Nat
<1>1. IsFiniteSet(Orders)
  BY PlanAssumption, FS_Interval DEF Orders
<1>2. Planned(q, u) \subseteq Orders /\ Planned(q, u)' \subseteq Orders
  BY DEF Planned
<1>3. IsFiniteSet(Planned(q, u)) /\ IsFiniteSet(Planned(q, u)')
  BY <1>1, <1>2, FS_Subset
<1> QED
  BY <1>3, FS_CardinalityType

\* One lesson for another leaves as many.
LEMMA OneForOne ==
    ASSUME NEW S, IsFiniteSet(S), NEW n \in S, NEW m, m \notin S
    PROVE  Cardinality((S \ {n}) \cup {m}) = Cardinality(S)
<1>1. IsFiniteSet(S \ {n}) /\ Cardinality(S \ {n}) = Cardinality(S) - 1
  BY FS_RemoveElement
<1>2. Cardinality((S \ {n}) \cup {m}) = Cardinality(S \ {n}) + 1
  BY <1>1, FS_AddElement
<1>3. Cardinality(S) \in Nat
  BY FS_CardinalityType
<1> QED
  BY <1>1, <1>2, <1>3

LEMMA BalancedPlan ==
    ASSUME NEW q, NEW u, Balances(q)
    PROVE  Cardinality(Planned(q, u)') = Cardinality(Planned(q, u))
<1> DEFINE before == Planned(q, u)
           after == Planned(q, u)'
<1>1. \A k \in Orders : k \in before <=> lesson[q][k].teacher = u /\ lesson[q][k].status \notin Outside
  BY DEF Planned, Outside
<1>2. \A k \in Orders : k \in after <=> lesson'[q][k].teacher = u /\ lesson'[q][k].status \notin Outside
  BY DEF Planned, Outside
<1>3. before \subseteq Orders /\ after \subseteq Orders
  BY DEF Planned
<1>4. IsFiniteSet(before)
  BY PlannedIsFinite
<1> HIDE DEF before, after
<1>5. CASE KeepsPlan(q)
  <2>1. before = after
    BY <1>1, <1>2, <1>3, <1>5 DEF KeepsPlan, SameShare
  <2> QED
    BY <2>1 DEF before, after
<1>6. ASSUME NEW m \in Orders, NEW n \in Orders, Trades(q, m, n)
      PROVE  Cardinality(after) = Cardinality(before)
  <2>1. \A k \in Orders \ {m, n} : k \in before <=> k \in after
    BY <1>1, <1>2, <1>6 DEF Trades, SameShare
  <2>2. m \in before <=> n \in after
    BY <1>1, <1>2, <1>6 DEF Trades
  <2>3. n \in before <=> m \in after
    BY <1>1, <1>2, <1>6 DEF Trades
  <2>4. CASE m \in before <=> n \in before
    <3>1. before = after
      BY <1>3, <2>1, <2>2, <2>3, <2>4
    <3> QED
      BY <3>1
  <2>5. CASE m \in before /\ n \notin before
    <3>1. after = (before \ {m}) \cup {n}
      BY <1>3, <2>1, <2>2, <2>3, <2>5
    <3> QED
      BY <1>4, <2>5, <3>1, OneForOne
  <2>6. CASE n \in before /\ m \notin before
    <3>1. after = (before \ {n}) \cup {m}
      BY <1>3, <2>1, <2>2, <2>3, <2>6
    <3> QED
      BY <1>4, <2>6, <3>1, OneForOne
  <2> QED
    BY <2>4, <2>5, <2>6
<1>7. ASSUME NEW m \in Orders, NEW n \in Orders, Replaces(q, m, n)
      PROVE  Cardinality(after) = Cardinality(before)
  <2>1. \A k \in Orders \ {m, n} : k \in before <=> k \in after
    BY <1>1, <1>2, <1>7 DEF Replaces, SameShare
  <2>2. m \notin before /\ n \notin after /\ (n \in before <=> m \in after)
    BY <1>1, <1>2, <1>7 DEF Replaces
  <2>3. CASE n \in before
    <3>1. after = (before \ {n}) \cup {m}
      BY <1>3, <2>1, <2>2, <2>3
    <3> QED
      BY <1>4, <2>2, <2>3, <3>1, OneForOne
  <2>4. CASE n \notin before
    <3>1. before = after
      BY <1>3, <2>1, <2>2, <2>4
    <3> QED
      BY <3>1
  <2> QED
    BY <2>3, <2>4
<1> QED
  BY <1>5, <1>6, <1>7 DEF Balances, before, after

LEMMA DrawnUpPlan ==
    ASSUME NEW q \in Requests, DrawsUp(q)
    PROVE  /\ Cardinality(Planned(q, Requester[q])') = Offered[q]
           /\ Cardinality(Planned(q, Recipient[q])') = Returned[q]
<1> DEFINE a == Offered[q]
           b == Returned[q]
<1>1. a \in Nat /\ b \in Nat /\ a + b <= MaxOrder /\ MaxOrder \in Nat /\ a >= 1 /\ b >= 1
  BY PlanAssumption
<1>2. Requester[q] # Recipient[q]
  BY RequestsAssumption
<1>3. \A n \in Orders :
         /\ n <= a => lesson'[q][n].status = "DRAFT" /\ lesson'[q][n].teacher = Requester[q]
         /\ n > a /\ n <= a + b => lesson'[q][n].status = "DRAFT" /\ lesson'[q][n].teacher = Recipient[q]
         /\ n > a + b => lesson'[q][n].status = "NONE"
  BY <1>1 DEF DrawsUp, Plan, Draft, NoLesson, Orders
<1>4. Planned(q, Requester[q])' = 1..a
  BY <1>1, <1>2, <1>3 DEF Planned, Orders
<1>5. Planned(q, Recipient[q])' = (a+1)..(a+b)
  BY <1>1, <1>2, <1>3 DEF Planned, Orders
<1>6. Cardinality(1..a) = a
  <2>1. 1 \in Int /\ a \in Int /\ ~ (1 > a) /\ a - 1 + 1 = a
    BY <1>1
  <2> HIDE DEF a
  <2> QED
    BY <2>1, FS_Interval
<1>7. Cardinality((a+1)..(a+b)) = b
  <2>1. a + 1 \in Int /\ a + b \in Int /\ ~ (a + 1 > a + b) /\ (a + b) - (a + 1) + 1 = b
    BY <1>1
  <2> HIDE DEF a, b
  <2> QED
    BY <2>1, FS_Interval
<1> QED
  BY <1>4, <1>5, <1>6, <1>7

LEMMA ConservedStep ==
    ASSUME TypeOK, PlanConserved, [Next]_tables
    PROVE  PlanConserved'
<1> SUFFICES ASSUME NEW q \in Requests, exchange'[q] \in Running
             PROVE  /\ Cardinality(Planned(q, Requester[q])') = Offered[q]
                    /\ Cardinality(Planned(q, Recipient[q])') = Returned[q]
  BY DEF PlanConserved, Running
<1>1. PlanStep(q)
  BY EveryPlanStep
<1>2. DrawsUp(q) \/ Balances(q)
  BY <1>1 DEF PlanStep, Rests, Ends, Running
<1>3. CASE Balances(q)
  BY <1>3, BalancedPlan DEF Balances, PlanConserved, Running
<1> QED
  BY <1>2, <1>3, DrawnUpPlan

\* However lessons are swapped, cancelled and replaced, the plan of a running
\* or completed exchange holds the agreed number of lessons each way
\* (draft_sessions of CreateExchange, SwapDraftSessionTeacher, CancelSession).
THEOREM PlanConservedHolds == Spec => []PlanConserved
<1>1. Init => PlanConserved
  BY DEF Init, PlanConserved
<1>2. TypeOK /\ PlanConserved /\ [Next]_tables => PlanConserved'
  BY ConservedStep
<1> QED
  BY <1>1, <1>2, TypeCorrect, PTL DEF Spec

(***************************************************************************)
(* What has ended.                                                         *)
(***************************************************************************)
TeachersAreParties ==
    \A q \in Requests, n \in Orders : lesson[q][n].teacher \in Parties(q)

CancelledIsQuiet ==
    \A q \in Requests :
        exchange[q] = "CANCELLED" => \A n \in Orders : lesson[q][n].status \notin Live

LEMMA TeachersStep ==
    ASSUME TypeOK, TeachersAreParties, [Next]_tables
    PROVE  TeachersAreParties'
<1> SUFFICES ASSUME NEW q \in Requests, NEW n \in Orders
             PROVE  lesson'[q][n].teacher \in Parties(q)
  BY DEF TeachersAreParties, Parties
<1>1. \A k \in Orders : lesson[q][k].teacher \in Parties(q)
  BY DEF TeachersAreParties
<1>2. PlanStep(q)
  BY EveryPlanStep
<1>3. CASE DrawsUp(q)
  <2>1. NoLesson(q).teacher = Requester[q]
    BY DEF NoLesson, Draft
  <2> QED
    BY <1>3, <2>1 DEF DrawsUp, Plan, Draft, Parties
<1>4. CASE Rests(q)
  BY <1>1, <1>4 DEF Rests
<1>5. CASE Ends(q)
  <2>1. Cancelled(lesson[q][n]).teacher = lesson[q][n].teacher
    BY LessonRows DEF Cancelled, Lesson
  <2> QED
    BY <1>1, <1>5, <2>1 DEF Ends
<1>6. CASE Balances(q)
  BY <1>1, <1>6 DEF Balances, KeepsPlan, Trades, Replaces, SameShare
<1> QED
  BY <1>2, <1>3, <1>4, <1>5, <1>6 DEF PlanStep

LEMMA CancelledStep ==
    ASSUME TypeOK, CancelledIsQuiet, [Next]_tables
    PROVE  CancelledIsQuiet'
<1> SUFFICES ASSUME NEW q \in Requests, exchange'[q] = "CANCELLED", NEW n \in Orders
             PROVE  lesson'[q][n].status \notin Live
  BY DEF CancelledIsQuiet
<1>1. Rests(q) \/ Ends(q)
  BY EveryPlanStep DEF PlanStep, DrawsUp, Balances, Running
<1>2. Cancelled(lesson[q][n]).status \notin Live
  BY LessonRows DEF Cancelled, Lesson, Live
<1> QED
  BY <1>1, <1>2 DEF Rests, Ends, CancelledIsQuiet

\* The invariant of this module.
Balanced ==
    /\ Coherent
    /\ PlanConserved
    /\ TeachersAreParties
    /\ CancelledIsQuiet
    /\ SignedByParties
    /\ ExchangeCompletionIsMutual

LEMMA AlwaysBalanced == Spec => []Balanced
<1>1. Init => TeachersAreParties /\ CancelledIsQuiet /\ SignedByParties /\ ExchangeCompletionIsMutual
  BY DEF Init, TeachersAreParties, CancelledIsQuiet, SignedByParties, ExchangeCompletionIsMutual,
         NoLesson, Draft, Parties
<1>2. TypeOK /\ TeachersAreParties /\ CancelledIsQuiet /\ [Next]_tables
        => TeachersAreParties' /\ CancelledIsQuiet'
  BY TeachersStep, CancelledStep
<1>3. Coherent /\ SignedByParties /\ ExchangeCompletionIsMutual /\ [Next]_tables
        => SignedByParties' /\ ExchangeCompletionIsMutual'
  BY SignaturesStep
<1> QED
  BY <1>1, <1>2, <1>3, TypeCorrect, AlwaysCoherent, PlanConservedHolds, PTL DEF Spec, Balanced

AgreedLessons(q, u) == IF u = Requester[q] THEN Offered[q] ELSE Returned[q]

LEMMA TaughtWithinPlan ==
    ASSUME NEW q \in Requests, NEW u \in Parties(q), PlanConserved, exchange[q] \in Running
    PROVE  /\ Taught(q, u) \in Nat /\ AgreedLessons(q, u) \in Nat
           /\ Taught(q, u) <= AgreedLessons(q, u)
           /\ Taught(q, u) = AgreedLessons(q, u) => TaughtLessons(q, u) = Planned(q, u)
           /\ TaughtLessons(q, u) # Planned(q, u) => Taught(q, u) < AgreedLessons(q, u)
<1>1. Taught(q, u) = Cardinality(TaughtLessons(q, u))
  BY DEF Taught, TaughtLessons
<1>2. TaughtLessons(q, u) \subseteq Planned(q, u)
  BY DEF TaughtLessons, Planned
<1>3. Cardinality(Planned(q, u)) = AgreedLessons(q, u)
  BY RequestsAssumption DEF PlanConserved, Running, AgreedLessons, Parties
<1>4. IsFiniteSet(Planned(q, u)) /\ Cardinality(Planned(q, u)) \in Nat
  BY PlannedIsFinite
<1>5. /\ IsFiniteSet(TaughtLessons(q, u))
      /\ Cardinality(TaughtLessons(q, u)) <= Cardinality(Planned(q, u))
      /\ Cardinality(Planned(q, u)) = Cardinality(TaughtLessons(q, u))
            => Planned(q, u) = TaughtLessons(q, u)
  BY <1>2, <1>4, FS_Subset
<1>6. Cardinality(TaughtLessons(q, u)) \in Nat
  BY <1>5, FS_CardinalityType
<1> QED
  BY <1>1, <1>3, <1>4, <1>5, <1>6

\* A finished plan is taught to the last lesson: no direction has more.
LEMMA FinishedPlan ==
    ASSUME NEW q \in Requests, NEW u \in Parties(q), PlanConserved, exchange[q] \in Running,
           PlanCompleted(q)
    PROVE  /\ Taught(q, u) = AgreedLessons(q, u)
           /\ TaughtLessons(q, u) = Planned(q, u)
<1>1. Taught(q, u) >= AgreedLessons(q, u)
  BY DEF PlanCompleted, AgreedLessons, Parties
<1> QED
  BY <1>1, TaughtWithinPlan

\* An exchange and its plan exist exactly when the request was accepted, and
\* one that has ended leaves no lesson to be held and no proposal to answer
\* (CreateExchange, CompleteExchange, CancelExchange).
THEOREM EndedExchangesAreQuietHolds == Spec => []EndedExchangesAreQuiet
<1>1. ASSUME Balanced
      PROVE  EndedExchangesAreQuiet
  <2> USE <1>1 DEF Balanced, Coherent
  <2> SUFFICES ASSUME NEW q \in Requests
               PROVE  /\ exchange[q] # "NONE" <=> request[q] = "ACCEPTED"
                      /\ exchange[q] = "NONE" => Placed(q) = {}
                      /\ exchange[q] \in {"COMPLETED", "CANCELLED"} =>
                            \A n \in Orders :
                               lesson[q][n].status \notin Live /\ lesson[q][n].pending = {}
    BY DEF EndedExchangesAreQuiet
  <2>1. /\ exchange[q] # "NONE" <=> request[q] = "ACCEPTED"
        /\ exchange[q] = "NONE" => Placed(q) = {}
    BY DEF PlansAreAccepted, Placed
  <2>2. ASSUME NEW n \in Orders, exchange[q] = "COMPLETED"
        PROVE  lesson[q][n].status \notin Live
    <3>1. signed[q] # {}
      BY <2>2 DEF ExchangeCompletionIsMutual, Parties
    <3>2. PlanCompleted(q)
      BY <3>1 DEF ExchangeCompletionIsMutual
    <3> DEFINE u == lesson[q][n].teacher
    <3>3. u \in Parties(q)
      BY DEF TeachersAreParties
    <3>4. TaughtLessons(q, u) = Planned(q, u)
      BY <2>2, <3>2, <3>3, FinishedPlan DEF Running
    <3> QED
      BY <3>4 DEF TaughtLessons, Planned, Live
  <2>3. ASSUME NEW n \in Orders, exchange[q] = "CANCELLED"
        PROVE  lesson[q][n].status \notin Live
    BY <2>3 DEF CancelledIsQuiet
  <2>4. \A n \in Orders : lesson[q][n].status \notin Live => lesson[q][n].pending = {}
    BY DEF ProposalMatchesLesson, ProposalRow, Live
  <2> QED
    BY <2>1, <2>2, <2>3, <2>4
<1> QED
  BY <1>1, AlwaysBalanced, PTL

(***************************************************************************)
(* The ledger.                                                             *)
(***************************************************************************)
\* A row becomes COMPLETED.
Completes(q, n) == lesson[q][n].status # "COMPLETED" /\ lesson'[q][n].status = "COMPLETED"

NothingCompletes == \A q \in Requests, n \in Orders : ~ Completes(q, n)

LEMMA CreditOf ==
    ASSUME NEW q \in Requests, NEW u \in Parties(q)
    PROVE  Credit[q][u] = Taught(q, u) /\ Credit'[q][u] = Taught(q, u)'
BY DEF Credit, Taught, Parties

LEMMA CreditKept ==
    ASSUME \A q \in Requests : KeepsHistory(q), NothingCompletes
    PROVE  Credit' = Credit
<1>1. ASSUME NEW q \in Requests, NEW u \in Parties(q)
      PROVE  Taught(q, u)' = Taught(q, u)
  BY <1>1 DEF Taught, KeepsHistory, NothingCompletes, Completes, Final
<1> QED
  BY <1>1 DEF Credit, Parties

LEMMA LedgerStarts ==
    ASSUME Balanced, NEW p \in Requests, AcceptRequest(p), \A q \in Requests : KeepsHistory(q)
    PROVE  L!Start(p)
<1>1. exchange[p] = "NONE"
  BY DEF Balanced, Coherent, PlansAreAccepted, AcceptRequest
<1>2. exchange' = [exchange EXCEPT ![p] = "ACTIVE"] /\ signed' = signed
  BY DEF AcceptRequest
<1>3. NothingCompletes
  <2> SUFFICES ASSUME NEW q \in Requests, NEW n \in Orders
               PROVE  ~ Completes(q, n)
    BY DEF NothingCompletes
  <2>1. CASE q = p
    <3>1. lesson'[q] = Plan(q)
      BY <2>1 DEF AcceptRequest, Balanced, Coherent, TypeOK
    <3>2. NoLesson(q).status = "NONE"
      BY DEF NoLesson, Draft
    <3> QED
      BY <3>1, <3>2 DEF Completes, Plan, Draft
  <2>2. CASE q # p
    BY <2>2 DEF AcceptRequest, Balanced, Coherent, TypeOK, Completes
  <2> QED
    BY <2>1, <2>2
<1>4. Credit' = Credit
  BY <1>3, CreditKept
<1> QED
  BY <1>1, <1>2, <1>4 DEF L!Start

LEMMA LedgerCancels ==
    ASSUME Balanced, NEW S \in SUBSET Requests, CancelExchanges(S), UNCHANGED signed,
           \A q \in S : exchange[q] = "ACTIVE", \A q \in Requests : KeepsHistory(q)
    PROVE  L!Cancel(S)
<1>1. NothingCompletes
  <2> SUFFICES ASSUME NEW q \in Requests, NEW n \in Orders
               PROVE  ~ Completes(q, n)
    BY DEF NothingCompletes
  <2>1. Cancelled(lesson[q][n]).status \in {"CANCELLED", lesson[q][n].status}
    BY LessonRows DEF Balanced, Coherent, Cancelled, Lesson
  <2>2. lesson'[q][n] \in {Cancelled(lesson[q][n]), lesson[q][n]}
    BY DEF CancelExchanges
  <2> QED
    BY <2>1, <2>2 DEF Completes
<1>2. Credit' = Credit
  BY <1>1, CreditKept
<1>3. exchange' = [q \in Requests |-> IF q \in S THEN "CANCELLED" ELSE exchange[q]]
  BY DEF CancelExchanges
<1> QED
  BY <1>2, <1>3 DEF L!Cancel

LEMMA LedgerSigns ==
    ASSUME Balanced, NEW p \in Requests, NEW u \in Parties(p), CompleteExchange(p, u)
    PROVE  L!Sign(p, u)
<1> DEFINE Sides == [q \in Requests |-> Parties(q)]
<1>1. /\ exchange[p] = "ACTIVE"
      /\ PlanCompleted(p)
      /\ u \notin signed[p]
      /\ signed' = [signed EXCEPT ![p] = @ \cup {u}]
      /\ exchange' = IF Partner(p, u) \in signed[p]
                     THEN [exchange EXCEPT ![p] = "COMPLETED"] ELSE exchange
      /\ lesson' = lesson
  BY DEF CompleteExchange
<1>2. Credit' = Credit
  BY <1>1 DEF Credit, Taught, Parties
<1>3. \A v \in Parties(p) : Credit[p][v] = AgreedLessons(p, v)
  BY <1>1, CreditOf, FinishedPlan DEF Balanced, Running
<1>4. Sides[p] = Parties(p)
  OBVIOUS
<1>5. L!Settled(p)
  BY <1>3, <1>4 DEF L!Settled, AgreedLessons
<1>6. signed'[p] = Parties(p) <=> Partner(p, u) \in signed[p]
  <2>1. PICK v \in Parties(p) : u # v
    BY RequestsAssumption DEF Parties
  <2>2. Parties(p) = {u, v} /\ Partner(p, u) = v
    BY <2>1, TwoParties
  <2>3. signed'[p] = signed[p] \cup {u} /\ signed[p] \subseteq Parties(p)
    BY <1>1 DEF Balanced, Coherent, TypeOK, SignedByParties
  <2> QED
    BY <2>1, <2>2, <2>3
<1>7. exchange' = IF signed'[p] = Sides[p] THEN [exchange EXCEPT ![p] = "COMPLETED"] ELSE exchange
  BY <1>1, <1>4, <1>6
<1> QED
  BY <1>1, <1>2, <1>5, <1>7 DEF L!Sign

LEMMA LedgerEarns ==
    ASSUME Balanced, NEW p \in Requests, NEW n \in Orders, NEW u \in Parties(p),
           ConfirmSessionCompletion(p, n, u), Partner(p, u) \in lesson[p][n].done,
           \A q \in Requests : KeepsHistory(q)
    PROVE  L!Earn(p, lesson[p][n].teacher)
<1> USE DEF Balanced, Coherent
<1> DEFINE row == Confirmed(p, lesson[p][n], u)
<1>0. PICK t \in Parties(p) : t = lesson[p][n].teacher
  BY DEF TeachersAreParties
<1>1. /\ exchange[p] = "ACTIVE"
      /\ lesson[p][n].status = "SCHEDULED"
      /\ SaveLesson(p, n, row)
      /\ exchange' = exchange /\ signed' = signed
  BY DEF ConfirmSessionCompletion, SaveLesson
<1>2. row.status = "COMPLETED" /\ row.teacher = t
  BY <1>0, LessonRows DEF Confirmed, Lesson
<1> HIDE DEF row
<1>3. \A q \in Requests, k \in Orders : lesson'[q][k] = IF q = p /\ k = n THEN row ELSE lesson[q][k]
  BY <1>1, SavedRow
<1>4. TaughtLessons(p, t)' = TaughtLessons(p, t) \cup {n} /\ n \notin TaughtLessons(p, t)
  BY <1>0, <1>1, <1>2, <1>3 DEF TaughtLessons
<1>5. n \in Planned(p, t) /\ IsFiniteSet(TaughtLessons(p, t))
  <2>1. TaughtLessons(p, t) \subseteq Planned(p, t)
    BY DEF TaughtLessons, Planned
  <2>2. IsFiniteSet(TaughtLessons(p, t))
    BY <2>1, PlannedIsFinite, FS_Subset
  <2> QED
    BY <1>0, <1>1, <2>2 DEF Planned
<1>6. Taught(p, t)' = Taught(p, t) + 1
  BY <1>4, <1>5, FS_AddElement DEF Taught, TaughtLessons
<1>7. Taught(p, t) < AgreedLessons(p, t)
  BY <1>1, <1>4, <1>5, TaughtWithinPlan DEF Running
<1>8. ASSUME NEW q \in Requests, NEW v \in Parties(q), ~ (q = p /\ v = t)
      PROVE  Taught(q, v)' = Taught(q, v)
  BY <1>0, <1>1, <1>2, <1>3, <1>8 DEF Taught
<1>9. Credit' = [Credit EXCEPT ![p][t] = @ + 1]
  <2> DEFINE f == Credit
             g == Credit'
  <2>1. g[p][t] = f[p][t] + 1
    BY <1>6, CreditOf
  <2>2. ASSUME NEW q \in Requests, NEW v \in Parties(q), ~ (q = p /\ v = t)
        PROVE  g[q][v] = f[q][v]
    BY <1>8, <2>2, CreditOf
  <2>3. f = [q \in Requests |-> f[q]] /\ \A q \in Requests : f[q] = [v \in Parties(q) |-> f[q][v]]
    BY DEF Credit
  <2>4. g = [q \in Requests |-> g[q]] /\ \A q \in Requests : g[q] = [v \in Parties(q) |-> g[q][v]]
    BY DEF Credit, Taught, Parties
  <2> HIDE DEF f, g
  <2>5. g[p] = [f[p] EXCEPT ![t] = f[p][t] + 1]
    BY <2>1, <2>2, <2>3, <2>4
  <2>6. \A q \in Requests : q # p => g[q] = f[q]
    BY <2>2, <2>3, <2>4
  <2>7. g = [f EXCEPT ![p] = [f[p] EXCEPT ![t] = f[p][t] + 1]]
    BY <2>3, <2>4, <2>5, <2>6
  <2> QED
    BY <2>7 DEF f, g
<1>10. Credit[p][t] < IF t = Requester[p] THEN Offered[p] ELSE Returned[p]
  BY <1>7, CreditOf DEF AgreedLessons
<1> QED
  BY <1>0, <1>1, <1>9, <1>10 DEF L!Earn

LEMMA LedgerRests ==
    ASSUME UNCHANGED <<exchange, signed>>, \A q \in Requests : KeepsHistory(q), NothingCompletes
    PROVE  [L!LedgerNext]_(L!ledger)
BY CreditKept DEF L!ledger

LEMMA NoLessonTouched == UNCHANGED lesson => NothingCompletes
BY DEF NothingCompletes, Completes

LEMMA QuietSaveCompletesNothing ==
    ASSUME TypeOK, NEW p \in Requests, NEW n \in Orders, NEW row, SaveLesson(p, n, row),
           row.status # "COMPLETED"
    PROVE  NothingCompletes
BY SavedRow DEF NothingCompletes, Completes

LEMMA ProposalsCompleteNothing ==
    ASSUME TypeOK, ProposalNext
    PROVE  NothingCompletes /\ UNCHANGED <<exchange, signed>>
<1>1. ASSUME NEW p \in Requests, NEW n \in Orders, NEW u, NEW t, NEW s,
             SaveLesson(p, n, Proposed(lesson[p][n], u, t, s))
      PROVE  NothingCompletes /\ UNCHANGED <<exchange, signed>>
  <2> DEFINE row == Proposed(lesson[p][n], u, t, s)
  <2>1. SaveLesson(p, n, row) /\ row.status = "PROPOSED"
    BY <1>1, LessonRows, ProposedPlan
  <2> HIDE DEF row
  <2> QED
    BY <2>1, QuietSaveCompletesNothing DEF SaveLesson
<1>2. ASSUME NEW p \in Requests, NEW n \in Orders, NEW u \in Parties(p), NEW s \in Slots,
             ProposeSwappedSession(p, n, u, s)
      PROVE  NothingCompletes /\ UNCHANGED <<exchange, signed>>
  <2> DEFINE t == Partner(p, lesson[p][n].teacher)
             row == Proposed(lesson[p][n], u, t, s)
  <2>1. PICK m \in Orders :
           /\ IsLowest(m, Drafts(p, t) \ {n})
           /\ lesson' = [lesson EXCEPT ![p][m].teacher = lesson[p][n].teacher, ![p][n] = row]
    BY <1>2 DEF ProposeSwappedSession
  <2>2. m # n /\ UNCHANGED <<exchange, signed>>
    BY <1>2, <2>1 DEF ProposeSwappedSession, IsLowest
  <2>3. row.status = "PROPOSED"
    BY LessonRows, ProposedPlan
  <2> HIDE DEF row, t
  <2>4. lesson'[p][n] = row
    BY <2>1 DEF TypeOK
  <2>5. lesson'[p][m].status = lesson[p][m].status
    BY <2>1, <2>2, LessonRows DEF TypeOK, Lesson
  <2>6. \A q \in Requests, k \in Orders :
           ~ (q = p /\ k \in {m, n}) => lesson'[q][k] = lesson[q][k]
    BY <2>1 DEF TypeOK
  <2> QED
    BY <2>2, <2>3, <2>4, <2>5, <2>6 DEF NothingCompletes, Completes
<1> QED
  BY <1>1, <1>2 DEF ProposalNext, ProposeExchangeSession, ProposeSession

LEMMA LessonLedgerStep ==
    ASSUME Balanced, LessonNext, \A q \in Requests : KeepsHistory(q)
    PROVE  [L!LedgerNext]_(L!ledger)
<1> USE DEF Balanced, Coherent
<1>1. ASSUME NEW p \in Requests, NEW n \in Orders, CancelSession(p, n)
      PROVE  NothingCompletes /\ UNCHANGED <<exchange, signed>>
  <2>1. PICK m \in Orders :
           /\ lesson' = [lesson EXCEPT ![p][n] = Cancelled(lesson[p][n]),
                                       ![p][m] = Draft(lesson[p][n].teacher)]
           /\ UNCHANGED <<exchange, signed>>
    BY <1>1 DEF CancelSession
  <2>2. Cancelled(lesson[p][n]).status \in {"CANCELLED", lesson[p][n].status}
    BY LessonRows DEF Cancelled, Lesson
  <2> DEFINE draft == Draft(lesson[p][n].teacher)
  <2>3. draft.status = "DRAFT"
    BY DEF Draft
  <2> HIDE DEF draft
  <2>4. ASSUME NEW q \in Requests, NEW k \in Orders
        PROVE  \/ lesson'[q][k] \in {lesson[q][k], draft}
               \/ q = p /\ k = n /\ lesson'[q][k] = Cancelled(lesson[p][n])
    BY <2>1 DEF TypeOK, draft
  <2> QED
    BY <2>1, <2>2, <2>3, <2>4 DEF NothingCompletes, Completes
<1>2. ASSUME NEW p \in Requests, NEW n \in Orders, NEW u \in Parties(p),
             AcceptSessionProposal(p, n, u) \/ DeclineSessionProposal(p, n, u)
      PROVE  NothingCompletes /\ UNCHANGED <<exchange, signed>>
  <2>1. Accepted(lesson[p][n], u).status = "SCHEDULED" /\ Declined(lesson[p][n]).status = "DRAFT"
    BY LessonRows DEF Accepted, Declined, Lesson
  <2>2. PICK row \in {Accepted(lesson[p][n], u), Declined(lesson[p][n])} : SaveLesson(p, n, row)
    BY <1>2 DEF AcceptSessionProposal, DeclineSessionProposal
  <2> QED
    BY <2>1, <2>2, QuietSaveCompletesNothing DEF SaveLesson
<1>3. ASSUME NEW p \in Requests, NEW n \in Orders, NEW u \in Parties(p),
             ConfirmSessionCompletion(p, n, u)
      PROVE  \/ \E x \in Requests, v \in Parties(p) : x = p /\ L!Earn(x, v)
             \/ NothingCompletes /\ UNCHANGED <<exchange, signed>>
  <2>1. CASE Partner(p, u) \in lesson[p][n].done
    BY <1>3, <2>1, LedgerEarns DEF TeachersAreParties
  <2>2. CASE Partner(p, u) \notin lesson[p][n].done
    <3> DEFINE row == Confirmed(p, lesson[p][n], u)
    <3>1. SaveLesson(p, n, row) /\ row.status = "SCHEDULED"
      BY <1>3, <2>2, LessonRows DEF ConfirmSessionCompletion, Confirmed, Lesson
    <3> HIDE DEF row
    <3> QED
      BY <3>1, QuietSaveCompletesNothing DEF SaveLesson
  <2> QED
    BY <2>1, <2>2
<1>4. \A p \in Requests : [q \in Requests |-> Parties(q)][p] = Parties(p)
  OBVIOUS
<1> QED
  BY <1>1, <1>2, <1>3, <1>4, LedgerRests DEF LessonNext, L!LedgerNext

LEMMA TrustLedgerStep ==
    ASSUME Balanced, TrustNext, \A q \in Requests : KeepsHistory(q)
    PROVE  [L!LedgerNext]_(L!ledger)
<1>1. ASSUME NEW u, NEW partners, EndInteractions(u, partners), UNCHANGED signed
      PROVE  L!LedgerNext
  <2> DEFINE S == {q \in Requests : exchange[q] = "ACTIVE" /\ Between(q, u, partners)}
  <2>1. CancelExchanges(S) /\ S \in SUBSET Requests /\ \A q \in S : exchange[q] = "ACTIVE"
    BY <1>1 DEF EndInteractions
  <2> HIDE DEF S
  <2> QED
    BY <1>1, <2>1, LedgerCancels DEF L!LedgerNext
<1>2. ASSUME UNCHANGED <<exchange, signed, lesson>>
      PROVE  [L!LedgerNext]_(L!ledger)
  BY <1>2, LedgerRests, NoLessonTouched
<1> QED
  BY <1>1, <1>2 DEF TrustNext, Block, Unblock, SuspendAccount, RestoreAccount, DeleteAccount

LEMMA LedgerStep ==
    ASSUME Balanced, [Next]_tables
    PROVE  [L!LedgerNext]_(L!ledger)
<1>0. \A q \in Requests : KeepsHistory(q)
  BY HistoryStep DEF Balanced
<1>1. ASSUME UNCHANGED <<exchange, signed, lesson>>
      PROVE  [L!LedgerNext]_(L!ledger)
  BY <1>0, <1>1, LedgerRests, NoLessonTouched
<1>2. CASE RequestNext
  BY <1>0, <1>1, <1>2, LedgerStarts
  DEF RequestNext, ValidateRequest, InsertRequest, AbandonRequest, DeclineRequest,
      WithdrawRequest, AnswerRequest, L!LedgerNext
<1>3. CASE ExchangeNext
  <2>1. ASSUME NEW p \in Requests, CancelExchange(p)
        PROVE  L!LedgerNext
    <3>1. {p} \in SUBSET Requests /\ \A q \in {p} : exchange[q] = "ACTIVE"
      BY <2>1 DEF CancelExchange
    <3>2. L!Cancel({p})
      BY <1>0, <2>1, <3>1, LedgerCancels DEF CancelExchange
    <3> QED
      BY <3>1, <3>2 DEF L!LedgerNext
  <2>2. ASSUME NEW p \in Requests, NEW u \in Parties(p), CompleteExchange(p, u)
        PROVE  L!LedgerNext
    <3>1. L!Sign(p, u) /\ u \in [q \in Requests |-> Parties(q)][p]
      BY <2>2, LedgerSigns
    <3> QED
      BY <3>1 DEF L!LedgerNext
  <2> QED
    BY <1>3, <2>1, <2>2 DEF ExchangeNext
<1>4. CASE ProposalNext
  BY <1>0, <1>4, ProposalsCompleteNothing, LedgerRests DEF Balanced, Coherent
<1>5. CASE LessonNext
  BY <1>0, <1>5, LessonLedgerStep
<1>6. CASE ProfileNext
  BY <1>1, <1>6 DEF ProfileNext, AddSkill, RemoveSkill, ChangeSkills, UpdatePrivacy
<1>7. CASE TrustNext
  BY <1>0, <1>7, TrustLedgerStep
<1>8. CASE Tick \/ UNCHANGED tables
  BY <1>1, <1>8 DEF Tick, tables
<1> QED
  BY <1>2, <1>3, <1>4, <1>5, <1>6, <1>7, <1>8 DEF Next

LEMMA LedgerBegins == Init => L!LedgerInit
<1> SUFFICES ASSUME Init
             PROVE  L!LedgerInit
  OBVIOUS
<1>1. ASSUME NEW q \in Requests, NEW u \in Parties(q)
      PROVE  Taught(q, u) = 0
  <2>1. \A n \in Orders : lesson[q][n].status = "NONE"
    BY DEF Init, NoLesson, Draft
  <2>2. {n \in Orders : lesson[q][n].status = "COMPLETED" /\ lesson[q][n].teacher = u} = {}
    BY <2>1
  <2> QED
    BY <2>2, FS_EmptySet DEF Taught
<1>2. Credit = [q \in Requests |-> [u \in Parties(q) |-> 0]]
  BY <1>1 DEF Credit
<1> QED
  BY <1>2 DEF Init, L!LedgerInit

\* The services implement the ledger: credit grows one lesson at a time up to
\* what was agreed and is never lost, and an exchange completes only with full
\* credit on both sides and the second signature (CompleteExchange,
\* ConfirmSessionCompletion, endInteractions).
THEOREM ImplementsLedgerHolds == Spec => ImplementsLedger
<1>1. Init => L!LedgerInit
  BY LedgerBegins
<1>2. Balanced /\ [Next]_tables => [L!LedgerNext]_(L!ledger)
  BY LedgerStep
<1> QED
  BY <1>1, <1>2, AlwaysBalanced, PTL DEF Spec, ImplementsLedger, L!LedgerSpec
=============================================================================
