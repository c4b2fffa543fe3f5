------------------------------ MODULE MCLessons ------------------------------
(***************************************************************************)
(* One exchange from request to completion: one lesson taught by each side,*)
(* room for two cancelled lessons to be replaced, three hours to hold      *)
(* lessons in, a clock that passes them, and ann's block list.             *)
(***************************************************************************)
EXTENDS Safety, TLC

CONSTANTS ann, bob, go, sql, fromAnn

MCRequester == fromAnn :> ann
MCRecipient == fromAnn :> bob
MCGives     == fromAnn :> go
MCTakes     == fromAnn :> sql
MCOffered   == fromAnn :> 1
MCReturned  == fromAnn :> 1

Hour(n) == [start |-> n, end |-> n + 1]
MCSlots == {Hour(1), Hour(2), Hour(3)}

MCBlockPairs == {<<ann, bob>>}
=============================================================================
