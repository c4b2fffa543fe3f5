-------------------------------- MODULE Query --------------------------------
(***************************************************************************)
(* useApiQuery: what a page of the web client shows of the server.  A      *)
(* query is the key it is mounted with, the last answer it holds and the   *)
(* key that answer is for, and its request in flight.  A new key or a      *)
(* retry aborts the request in flight, so its answer is never taken.       *)
(***************************************************************************)

Nothing == <<>>

(* A page that mounts; also a retry, and a key whose version part moves:    *)
(* the answer held is dropped and a new request replaces the one in flight. *)
Load(k) ==
    [key |-> k, held |-> k, status |-> "loading", data |-> Nothing,
     call |-> "asked", answer |-> Nothing]

Retry(q) == Load(q.key)

(* Another key: what is held stays, and shows again if its key comes back. *)
Rekey(q, k) ==
    IF k = q.key THEN q
    ELSE [q EXCEPT !.key = k, !.call = "asked", !.answer = Nothing]

(* The server answers with data; the client takes the answer; or it fails. *)
Served(q, data) == [q EXCEPT !.call = "served", !.answer = data]

Taken(q) ==
    [q EXCEPT !.held = q.key, !.status = "ready", !.data = q.answer,
              !.call = "none", !.answer = Nothing]

Failed(q) ==
    [q EXCEPT !.held = q.key, !.status = "error", !.data = Nothing,
              !.call = "none", !.answer = Nothing]

Asked(q) == q.call = "asked"
Arriving(q) == q.call = "served"
InFlight(q) == q.call # "none"
Shows(q) == IF q.held = q.key THEN q.status ELSE "loading"
Ready(q) == Shows(q) = "ready"

Queries(Keys, Data) ==
    [key : Keys, held : Keys, status : {"loading", "ready", "error"},
     data : Data \union {Nothing}, call : {"none", "asked", "served"},
     answer : Data \union {Nothing}]
=============================================================================
