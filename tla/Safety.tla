------------------------------- MODULE Safety -------------------------------
(***************************************************************************)
(* What the services promise about the shared tables.                      *)
(***************************************************************************)
EXTENDS SkillSwap

\* An exchange is active only while both accounts are in good standing and
\* neither participant has blocked the other: whatever order acceptances,
\* blocks, suspensions and deletions commit in, none is left behind
\* (endInteractions, RequestIsCurrent).
ActiveExchangesMayInteract ==
    \A q \in Requests : exchange[q] = "ACTIVE" => CanInteract(q)

\* An exchange and its plan exist exactly when the request was accepted, and
\* an exchange that has ended leaves no lesson to be held and no proposal to
\* be answered (CreateExchange, CompleteExchange, CancelExchange).
EndedExchangesAreQuiet ==
    \A q \in Requests :
        /\ exchange[q] # "NONE" <=> request[q] = "ACCEPTED"
        /\ exchange[q] = "NONE" => Placed(q) = {}
        /\ exchange[q] \in {"COMPLETED", "CANCELLED"} =>
              \A n \in Orders : lesson[q][n].status \notin Live /\ lesson[q][n].pending = {}

\* Two agreed lessons of one student never overlap, in one exchange or in two
\* (HasScheduleConflict at the proposal and again at the acceptance).
NoDoubleBooking ==
    \A p, q \in Requests : \A m, n \in Orders :
        /\ <<p, m>> # <<q, n>>
        /\ Parties(p) \cap Parties(q) # {}
        /\ lesson[p][m].status = "SCHEDULED"
        /\ lesson[q][n].status = "SCHEDULED"
        => ~ Overlap(lesson[p][m].slot, lesson[q][n].slot)

ProposalRow(q, l) ==
    /\ l.status = "PROPOSED" =>
          \E u \in Parties(q) : l.pending = {[by |-> u, slot |-> l.slot]} /\ l.agreed = {u}
    /\ l.status # "PROPOSED" => l.pending = {}
    /\ l.status \in {"PROPOSED", "SCHEDULED", "COMPLETED"} => l.slot \in Slots
    /\ l.status \in {"SCHEDULED", "COMPLETED"} => l.agreed = Parties(q)
    /\ l.status \in {"DRAFT", "CANCELLED"} => l.agreed = {}

\* A lesson has a proposal awaiting an answer exactly while it is PROPOSED,
\* and then only one, for the interval in its row and agreed by its author
\* alone; an agreed lesson was agreed by both (SaveSessionProposal and the
\* answers to it).
ProposalMatchesLesson ==
    \A q \in Requests, n \in Orders : ProposalRow(q, lesson[q][n])

CompletionRow(q, l, t) ==
    /\ l.done \subseteq Parties(q)
    /\ l.done # {} => l.status \in {"SCHEDULED", "COMPLETED"} /\ l.slot.end <= t
    /\ l.status = "COMPLETED" <=> l.done = Parties(q)

\* A completion confirmation is always about an interval that has passed, so
\* none survives a reschedule, a refusal or a cancellation; a lesson counts
\* exactly when both have confirmed it (ConfirmSessionCompletion).
LessonCompletionIsMutual ==
    \A q \in Requests, n \in Orders : CompletionRow(q, lesson[q][n], now)

\* The lessons one participant has taught or is still to teach.
Planned(q, u) ==
    {n \in Orders : lesson[q][n].teacher = u /\ lesson[q][n].status \notin {"NONE", "CANCELLED"}}

\* However lessons are swapped between teachers, cancelled and replaced, the
\* plan of a running or completed exchange holds the agreed number of lessons
\* in each direction (SwapDraftSessionTeacher, CancelSession).
PlanConserved ==
    \A q \in Requests :
        exchange[q] \in {"ACTIVE", "COMPLETED"} =>
            /\ Cardinality(Planned(q, Requester[q])) = Offered[q]
            /\ Cardinality(Planned(q, Recipient[q])) = Returned[q]

\* No one can sign off an unfinished exchange, none completes on one
\* signature, and none with both is still active (CompleteExchange).
ExchangeCompletionIsMutual ==
    \A q \in Requests :
        /\ signed[q] # {} => PlanCompleted(q)
        /\ exchange[q] = "COMPLETED" <=> signed[q] = Parties(q)

\* Answered requests, ended exchanges and counted lessons are history: no
\* later call, and no block or deletion, rewrites them.
HistoryIsFinal ==
    [][\A q \in Requests :
          /\ request[q] \in {"ACCEPTED", "DECLINED", "WITHDRAWN"} => request'[q] = request[q]
          /\ exchange[q] \in {"COMPLETED", "CANCELLED"} =>
                exchange'[q] = exchange[q] /\ signed'[q] = signed[q]
          /\ \A n \in Orders :
                lesson[q][n].status \in {"COMPLETED", "CANCELLED"} => lesson'[q][n] = lesson[q][n]
      ]_tables

\* block.go: "Block stops new requests ... between the user and the student".
BlockStopsNewRequests ==
    [][\A q \in Requests :
          request[q] # "PENDING" /\ request'[q] = "PENDING" =>
              NoBlock(Requester[q], Recipient[q])
      ]_tables

(***************************************************************************)
(* The exchanges implement the ledger: a participant's credit is the       *)
(* number of completed lessons they teach.                                 *)
(***************************************************************************)
Credit == [q \in Requests |-> [u \in Parties(q) |-> Taught(q, u)]]

L == INSTANCE Ledger WITH
        Swaps <- Requests,
        Sides <- [q \in Requests |-> Parties(q)],
        Agreed <- [q \in Requests |->
                      [u \in Parties(q) |-> IF u = Requester[q] THEN Offered[q] ELSE Returned[q]]],
        phase <- exchange,
        credit <- Credit,
        signatures <- signed

\* Every step of the services is a step of the ledger or leaves it alone:
\* credit grows one lesson at a time and is never lost, and an exchange
\* completes only with full credit and the second signature.
ImplementsLedger == L!LedgerSpec
=============================================================================
