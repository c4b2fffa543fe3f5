----------------------------- MODULE MCRequests -----------------------------
(***************************************************************************)
(* Requests against blocks, suspensions, deletions and profile changes.    *)
(* ann and bob exchange the same two skills whoever asks first (fromAnn    *)
(* and fromBob share their teaching rows, so the unique index matters),    *)
(* and cid asks ann.  No lesson is ever proposed: Slots is empty.          *)
(***************************************************************************)
EXTENDS Safety, TLC

CONSTANTS ann, bob, cid, go, sql, fromAnn, fromBob, fromCid

MCRequester == fromAnn :> ann @@ fromBob :> bob @@ fromCid :> cid
MCRecipient == fromAnn :> bob @@ fromBob :> ann @@ fromCid :> ann
MCGives     == fromAnn :> go  @@ fromBob :> sql @@ fromCid :> sql
MCTakes     == fromAnn :> sql @@ fromBob :> go  @@ fromCid :> go
MCOffered   == [q \in Requests |-> 1]
MCSlots     == {}

MCBlockPairs == {<<ann, bob>>, <<bob, ann>>, <<ann, cid>>}
MCEditedRows == {<<bob, "TEACH", sql>>}
=============================================================================
