------------------------------ MODULE Sessions ------------------------------
(***************************************************************************)
(* internal/session: the lessons of an exchange, from proposal to mutual   *)
(* confirmation.  Each operation locks both participants of the exchange   *)
(* and then the row (LockSession, LockExchange), so it is one step.        *)
(***************************************************************************)
EXTENDS Tables

SaveLesson(q, n, row) ==
    /\ lesson' = [lesson EXCEPT ![q][n] = row]
    /\ UNCHANGED <<account, blocked, privacy, skills, request, exchange, signed, now>>

\* HasScheduleConflict: half-open intervals, SCHEDULED lessons of either
\* participant in any exchange, except lesson n of q itself.
Overlap(s, t) == s.start < t.end /\ t.start < s.end

HasScheduleConflict(q, n, s) ==
    \E p \in Requests, m \in Orders :
        /\ <<p, m>> # <<q, n>>
        /\ lesson[p][m].status = "SCHEDULED"
        /\ Parties(p) \cap Parties(q) # {}
        /\ Overlap(lesson[p][m].slot, s)

\* SaveSessionProposal: supersede the pending proposals, drop every
\* confirmation, record the proposer's agreement and the new proposal.
ProposedKeepingDone(l, u, t, s) ==    \* mutant: deletes only SCHEDULE confirmations
    [l EXCEPT !.status = "PROPOSED", !.teacher = t, !.slot = s,
              !.pending = {[by |-> u, slot |-> s]}, !.agreed = {u}]

Proposed(l, u, t, s) ==
    [l EXCEPT !.status = "PROPOSED", !.teacher = t, !.slot = s,
              !.pending = {[by |-> u, slot |-> s]}, !.agreed = {u}, !.done = {}]

\* What both ways of proposing check: an active exchange whose participants
\* can interact, a start in the future, no overlap with an agreed lesson.
MayPropose(q, n, s) ==
    /\ exchange[q] = "ACTIVE"
    /\ CanInteract(q)
    /\ s.start > now
    /\ ~ HasScheduleConflict(q, n, s)

\* ProposeExchangeSession: u proposes the next unplanned lesson t teaches.
ProposeExchangeSession(q, u, t, s) ==
    \E n \in Orders :
        /\ IsLowest(n, Drafts(q, t))
        /\ MayPropose(q, n, s)
        /\ SaveLesson(q, n, Proposed(lesson[q][n], u, t, s))

\* ProposeSession for a lesson that keeps its teacher: a draft, a proposal on
\* the table, or an agreed lesson that is rescheduled.
ProposeSession(q, n, u, s) ==
    /\ lesson[q][n].status \in Live
    /\ MayPropose(q, n, s)
    /\ SaveLesson(q, n, Proposed(lesson[q][n], u, lesson[q][n].teacher, s))

ProposeReassignedSession(q, n, u, s) ==    \* mutant: no lesson is given in return
    /\ lesson[q][n].status = "DRAFT"
    /\ MayPropose(q, n, s)
    /\ SaveLesson(q, n, Proposed(lesson[q][n], u, Partner(q, lesson[q][n].teacher), s))

\* ProposeSession for a draft given to the other teacher: SwapDraftSessionTeacher
\* hands the lowest other draft of that teacher to the one who loses this lesson.
ProposeSwappedSession(q, n, u, s) ==
    LET t == Partner(q, lesson[q][n].teacher) IN
    /\ lesson[q][n].status = "DRAFT"
    /\ MayPropose(q, n, s)
    /\ \E m \in Orders :
          /\ IsLowest(m, Drafts(q, t) \ {n})
          /\ lesson' = [lesson EXCEPT ![q][m].teacher = lesson[q][n].teacher,
                                      ![q][n] = Proposed(lesson[q][n], u, t, s)]
    /\ UNCHANGED <<account, blocked, privacy, skills, request, exchange, signed, now>>

Accepted(l, u) ==
    [l EXCEPT !.status = "SCHEDULED", !.pending = {}, !.agreed = @ \cup {u}]

AcceptWithoutConflictCheck(q, n, u) ==    \* mutant: trusts the check of the proposal
    /\ exchange[q] = "ACTIVE"
    /\ CanInteract(q)
    /\ lesson[q][n].status = "PROPOSED"
    /\ \E p \in lesson[q][n].pending : p.by # u /\ p.slot.start > now
    /\ SaveLesson(q, n, Accepted(lesson[q][n], u))

\* u answers a proposal the partner made.  An acceptance re-checks the clock
\* and the schedule; the row keeps the interval it got with the proposal.
AcceptSessionProposal(q, n, u) ==
    /\ exchange[q] = "ACTIVE"
    /\ CanInteract(q)
    /\ lesson[q][n].status = "PROPOSED"
    /\ \E p \in lesson[q][n].pending :
          p.by # u /\ p.slot.start > now /\ ~ HasScheduleConflict(q, n, p.slot)
    /\ SaveLesson(q, n, Accepted(lesson[q][n], u))

\* The lesson returns to the plan; completion confirmations are not deleted.
Declined(l) ==
    [l EXCEPT !.status = "DRAFT", !.slot = NoSlot, !.pending = {}, !.agreed = {}]

DeclineSessionProposal(q, n, u) ==
    /\ exchange[q] = "ACTIVE"
    /\ lesson[q][n].status = "PROPOSED"
    /\ \E p \in lesson[q][n].pending : p.by # u
    /\ SaveLesson(q, n, Declined(lesson[q][n]))

\* The plan_order of a row added to the plan: COALESCE(MAX(plan_order), 0) + 1.
IsNextOrder(q, m) ==
    /\ m \in Orders
    /\ \A n \in Placed(q) : n < m
    /\ m - 1 \in Placed(q) \cup {0}

CancelCompletedSession(q, n) ==    \* mutant: a counted lesson can be cancelled too
    /\ exchange[q] = "ACTIVE"
    /\ lesson[q][n].status \in {"PROPOSED", "SCHEDULED", "COMPLETED"}
    /\ \E m \in Orders :
          /\ IsNextOrder(q, m)
          /\ lesson' = [lesson EXCEPT ![q][n].status = "CANCELLED",
                                      ![q][m] = Draft(lesson[q][n].teacher)]
    /\ UNCHANGED <<account, blocked, privacy, skills, request, exchange, signed, now>>

\* CancelSession: the lesson is cancelled and a new draft of its teacher takes
\* its place at the end of the plan.
CancelSession(q, n) ==
    /\ exchange[q] = "ACTIVE"
    /\ lesson[q][n].status \in {"PROPOSED", "SCHEDULED"}
    /\ \E m \in Orders :
          /\ IsNextOrder(q, m)
          /\ lesson' = [lesson EXCEPT ![q][n] = Cancelled(lesson[q][n]),
                                      ![q][m] = Draft(lesson[q][n].teacher)]
    /\ UNCHANGED <<account, blocked, privacy, skills, request, exchange, signed, now>>

Confirmed(q, l, u) ==
    [l EXCEPT !.done = @ \cup {u},
              !.status = IF Partner(q, u) \in l.done THEN "COMPLETED" ELSE @]

\* u confirms that an ended lesson took place; the second one completes it.
ConfirmSessionCompletion(q, n, u) ==
    /\ exchange[q] = "ACTIVE"
    /\ CanInteract(q)
    /\ lesson[q][n].status = "SCHEDULED"
    /\ lesson[q][n].slot.end <= now
    /\ u \notin lesson[q][n].done
    /\ SaveLesson(q, n, Confirmed(q, lesson[q][n], u))

Tick ==
    /\ now < MaxTime
    /\ now' = now + 1
    /\ UNCHANGED <<account, blocked, privacy, skills, request, exchange, signed, lesson>>
=============================================================================
