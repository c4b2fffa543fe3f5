-------------------------------- MODULE Lists --------------------------------
(***************************************************************************)
(* Lists as the client filters them and as the server sorts them.          *)
(***************************************************************************)
EXTENDS Naturals, FiniteSets

(* The n-th least of a set of numbers.                                      *)
Nth(K, n) == CHOOSE k \in K : Cardinality({j \in K : j <= k}) = n

(* What filter leaves of the list s: its elements that are in S, in order.  *)
Kept(s, S) ==
    LET K == {i \in DOMAIN s : s[i] \in S}
    IN  [n \in 1 .. Cardinality(K) |-> s[Nth(K, n)]]
=============================================================================
