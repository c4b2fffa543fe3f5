------------------------------- MODULE Ledger -------------------------------
(***************************************************************************)
(* What an exchange of lessons promises, without proposals, schedules,     *)
(* blocks or accounts: each side's credit for the lessons it has taught    *)
(* grows by one at a time up to the agreed number and is never lost; once  *)
(* both are at it, each side signs once, and the second signature          *)
(* completes the exchange.  An active exchange may be cancelled, several   *)
(* of them in one step.                                                    *)
(***************************************************************************)
EXTENDS Naturals

CONSTANTS
    Swaps,      \* the exchanges
    Sides,      \* the participants of each exchange
    Agreed      \* the lessons each participant is to teach in it

VARIABLES
    phase,      \* NONE, ACTIVE, COMPLETED or CANCELLED
    credit,     \* confirmed lessons per exchange and participant
    signatures  \* the participants who declared the exchange finished

ledger == <<phase, credit, signatures>>

LedgerInit ==
    /\ phase = [x \in Swaps |-> "NONE"]
    /\ credit = [x \in Swaps |-> [u \in Sides[x] |-> 0]]
    /\ signatures = [x \in Swaps |-> {}]

Start(x) ==
    /\ phase[x] = "NONE"
    /\ phase' = [phase EXCEPT ![x] = "ACTIVE"]
    /\ UNCHANGED <<credit, signatures>>

Earn(x, u) ==
    /\ phase[x] = "ACTIVE"
    /\ credit[x][u] < Agreed[x][u]
    /\ credit' = [credit EXCEPT ![x][u] = @ + 1]
    /\ UNCHANGED <<phase, signatures>>

Settled(x) == \A u \in Sides[x] : credit[x][u] = Agreed[x][u]

Sign(x, u) ==
    /\ phase[x] = "ACTIVE"
    /\ Settled(x)
    /\ u \notin signatures[x]
    /\ signatures' = [signatures EXCEPT ![x] = @ \cup {u}]
    /\ phase' = IF signatures'[x] = Sides[x]
                THEN [phase EXCEPT ![x] = "COMPLETED"] ELSE phase
    /\ UNCHANGED credit

Cancel(S) ==
    /\ \A x \in S : phase[x] = "ACTIVE"
    /\ phase' = [x \in Swaps |-> IF x \in S THEN "CANCELLED" ELSE phase[x]]
    /\ UNCHANGED <<credit, signatures>>

LedgerNext ==
    \/ \E x \in Swaps : Start(x)
    \/ \E x \in Swaps : \E u \in Sides[x] : Earn(x, u) \/ Sign(x, u)
    \/ \E S \in SUBSET Swaps : Cancel(S)

LedgerSpec == LedgerInit /\ [][LedgerNext]_ledger
=============================================================================
