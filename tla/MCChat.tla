------------------------------- MODULE MCChat -------------------------------
(***************************************************************************)
(* What an open chat owes its student, checked on chats of a few messages. *)
(***************************************************************************)
EXTENDS Chat

MCNoLog == <<>>
MCOneMessage == <<Partner>>

TypeOK ==
    /\ log \in Seq({Me, Partner}) /\ Len(log) <= MaxLog
    /\ read \subseteq Stored
    /\ {shut, hidden, online, canSend, blocked, loaded, stopped, ghostMark}
            \subseteq BOOLEAN
    /\ status \in {"loading", "ready", "error"}
    /\ list \in Copies /\ DOMAIN list \subseteq Stored
    /\ firstPage \in 1 .. pageCount(Len(log))
    /\ poll.kind \in {"idle", "first", "page", "newer"}
    /\ mark \in {"idle", "asked", "done"}
    /\ earlier.page \in 0 .. firstPage /\ earlier.items \in Copies
    /\ sending.phase \in {"idle", "stored", "refused"}
    /\ sending.id \in 0 .. Len(log)
    /\ troubles \in 0 .. MaxTroubles

(* useChat.ts: the poll only asks for what comes after its anchor, so every  *)
(* message from the oldest page shown up to the anchor is on the screen.     *)
NothingSkipped ==
    loaded => \A i \in Stored :
        (firstPage - 1) * PageSize < i /\ i <= pollAnchor(list) => i \in DOMAIN list

(* The messages from those the chat opened with on.                          *)
Since == {i \in Stored : 0 < opened /\ opened < i}

(* More own messages were shown after i than the anchor looks at.            *)
Overtaken(i) ==
    Cardinality({j \in DOMAIN list : j > i /\ log[j] = Me}) > PageSize

(* ChatApi.ts, pollAnchor: once a chat has opened with a message, its anchor *)
(* never passes one that is not on the screen, whatever is sent, polled and  *)
(* paged back meanwhile, unless more own messages than a page overtook it.   *)
OnlyOvertakenSkipped ==
    loaded => \A i \in Since \ DOMAIN list : i <= pollAnchor(list) => Overtaken(i)

(* ChatThread: the tick of an own message says the partner has read it,      *)
(* whatever order the answers to polls and read marks are handled in.        *)
ReadTicksAreTrue ==
    \A i \in DOMAIN list : log[i] = Me /\ list[i] => i \in read

(* useChat.ts: what an open chat shows stays on the screen until it is       *)
(* loaded again, whichever answer is handled last.                           *)
ShownStaysShown ==
    [][loaded /\ loaded' => DOMAIN list \subseteq DOMAIN list']_vars

(* useChat.ts: a chat left open in a visible tab ends up showing every       *)
(* message since those it opened with, but the ones own sends overtook.      *)
Delivered ==
    <>[](~hidden /\ ~stopped)
        => <>[](loaded /\ \A i \in Since \ DOMAIN list : Overtaken(i))
=============================================================================
