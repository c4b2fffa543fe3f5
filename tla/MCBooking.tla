------------------------------ MODULE MCBooking ------------------------------
(***************************************************************************)
(* bob in two exchanges at once, with ann and with cid, one lesson each    *)
(* way, and three intervals of which the neighbours overlap.               *)
(***************************************************************************)
EXTENDS Safety, TLC

CONSTANTS ann, bob, cid, go, sql, fromAnn, fromBob

MCRequester == fromAnn :> ann @@ fromBob :> bob
MCRecipient == fromAnn :> bob @@ fromBob :> cid
MCGives     == fromAnn :> go  @@ fromBob :> sql
MCTakes     == fromAnn :> sql @@ fromBob :> go
MCOffered   == [q \in Requests |-> 1]

MCSlots == {[start |-> 1, end |-> 3], [start |-> 2, end |-> 4], [start |-> 3, end |-> 5]}

MCBlockPairs == {<<bob, cid>>}
=============================================================================
