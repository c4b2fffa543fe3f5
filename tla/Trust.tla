-------------------------------- MODULE Trust --------------------------------
(***************************************************************************)
(* internal/trust: blocks, suspensions and account deletion, each of which *)
(* ends in the same transaction what the pair or the user had under way.   *)
(*                                                                         *)
(* Block and Unblock lock both users, the others the one user they change: *)
(* every operation on a pair locks both, so each of these is one step.     *)
(***************************************************************************)
EXTENDS Tables

\* The request or exchange is between u and one of the partners.
Between(q, u, partners) == u \in Parties(q) /\ Partner(q, u) \in partners

EndInteractionsWithOneStatus(u, partners) ==    \* mutant: closes requests as exchanges
    /\ CancelExchanges({q \in Requests : exchange[q] = "ACTIVE" /\ Between(q, u, partners)})
    /\ request' = [q \in Requests |->
                      IF request[q] = "PENDING" /\ Between(q, u, partners)
                      THEN "CANCELLED" ELSE request[q]]

\* endInteractions: cancel the active exchanges, withdraw u's own pending
\* requests and decline the incoming ones.
EndInteractions(u, partners) ==
    /\ CancelExchanges({q \in Requests : exchange[q] = "ACTIVE" /\ Between(q, u, partners)})
    /\ request' = [q \in Requests |->
                      IF request[q] = "PENDING" /\ Between(q, u, partners)
                      THEN IF Requester[q] = u THEN "WITHDRAWN" ELSE "DECLINED"
                      ELSE request[q]]

\* KnownStudent: visible to u, already blocked by u, or named with u in a
\* request row (every exchange has one).
KnownStudent(u, v) ==
    /\ account[v] # "DELETED"
    /\ \/ Visible(u, v)
       \/ <<u, v>> \in blocked
       \/ \E q \in Requests : Parties(q) = {u, v} /\ request[q] \notin {"NONE", "VALIDATED"}

\* Blocking again is a stutter: only a new block ends interactions.
Block(u, v) ==
    /\ u # v
    /\ KnownStudent(u, v)
    /\ <<u, v>> \notin blocked
    /\ blocked' = blocked \cup {<<u, v>>}
    /\ EndInteractions(u, {v})
    /\ UNCHANGED <<account, privacy, skills, signed, now>>

Unblock(u, v) ==
    /\ <<u, v>> \in blocked
    /\ blocked' = blocked \ {<<u, v>>}
    /\ UNCHANGED <<account, privacy, skills, request, exchange, signed, lesson, now>>

\* SuspendAccount, and ResolveReport with the decision SUSPEND.
SuspendAccount(u) ==
    /\ account[u] = "ACTIVE"
    /\ account' = [account EXCEPT ![u] = "SUSPENDED"]
    /\ EndInteractions(u, Users)
    /\ UNCHANGED <<blocked, privacy, skills, signed, now>>

RestoreAccount(u) ==
    /\ account[u] = "SUSPENDED"
    /\ account' = [account EXCEPT ![u] = "ACTIVE"]
    /\ UNCHANGED <<blocked, privacy, skills, request, exchange, signed, lesson, now>>

\* AnonymizeUser, then endInteractions.  The call may have been authenticated
\* before a suspension, so it finds an active or a suspended account.
DeleteAccount(u) ==
    /\ account[u] # "DELETED"
    /\ account' = [account EXCEPT ![u] = "DELETED"]
    /\ skills' = {row \in skills : row[1] # u}
    /\ privacy' = [privacy EXCEPT ![u] = "HIDDEN"]
    /\ blocked' = {pair \in blocked : u \notin {pair[1], pair[2]}}
    /\ EndInteractions(u, Users)
    /\ UNCHANGED <<signed, now>>
=============================================================================
