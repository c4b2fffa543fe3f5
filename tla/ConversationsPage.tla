-------------------------- MODULE ConversationsPage --------------------------
(***************************************************************************)
(* The list of conversations beside the chat: its first page is polled,    *)
(* later pages load on request and are kept below, while messages move     *)
(* conversations to the front on the server.  Polls overlap, because one   *)
(* may be in flight when the next starts, and neither they nor the next    *)
(* page wait for each other.                                               *)
(***************************************************************************)
EXTENDS Naturals, SequencesExt, Lists

CONSTANTS
    MaxConversations,   \* bound: conversations of the student
    PageSize,           \* conversations on one page
    MaxPolls            \* bound: polls in flight at once

ConversationsAssumption ==
    /\ MaxConversations \in Nat /\ PageSize \in Nat \ {0} /\ MaxPolls \in Nat \ {0}

Conversations == 1 .. MaxConversations

VARIABLES
    order,     \* server: the conversations, the most recent activity first
    shown,     \* the state of the list
    polls,     \* the answers of the polls in flight
    more       \* the button for the next page, and its answer

conversationVars == <<order, shown, polls, more>>

Unanswered == <<>>
Idle == [phase |-> "idle", page |-> 0, answer |-> Unanswered]

IsList(items) == items \in Seq(Conversations) /\ IsInjective(items)
IsAnswer(a) == a = Unanswered \/ (IsList(a.items) /\ a.total <= MaxConversations)

ConversationsTypeOK ==
    /\ IsList(order) /\ IsList(shown.items)
    /\ shown.status \in {"loading", "error", "ready"}
    /\ shown.total \in 0 .. MaxConversations /\ shown.pages \in Nat
    /\ Len(polls) <= MaxPolls /\ \A i \in DOMAIN polls : IsAnswer(polls[i])
    /\ more.phase \in {"idle", "loading", "error"} /\ more.page \in Nat
    /\ IsAnswer(more.answer)

loading == [status |-> "loading", items |-> <<>>, total |-> 0, pages |-> 0]

ConversationsInit ==
    /\ order \in {l \in BoundedSeq(Conversations, MaxConversations) :
                    IsInjective(l) /\ ToSet(l) = 1 .. Len(l)}
    /\ shown = loading
    /\ polls = <<Unanswered>>
    /\ more = Idle

-----------------------------------------------------------------------------
(* The server: a message moves its conversation to the front, and a new     *)
(* request brings one.                                                      *)
Activity(c) ==
    /\ c <= Len(order) + 1
    /\ order' = <<c>> \o Kept(order, Conversations \ {c})
    /\ UNCHANGED <<shown, polls, more>>

listConversations(page) ==
    [items |-> SubSeq(order, (page - 1) * PageSize + 1,
                      IF page * PageSize < Len(order) THEN page * PageSize ELSE Len(order)),
     total |-> Len(order)]

-----------------------------------------------------------------------------
(* Mutant: the first page replaces the list. *)
onlyFirstPage(current, first) == first

withFirstPage(current, first) ==
    first \o Kept(current, Conversations \ ToSet(first))

(* Mutant: the next page is appended as it comes. *)
withWholeNextPage(current, next) == current \o next

withNextPage(current, next) ==
    current \o Kept(next, Conversations \ ToSet(current))

Poll ==
    /\ Len(polls) < MaxPolls
    /\ polls' = Append(polls, Unanswered)
    /\ UNCHANGED <<order, shown, more>>

(* Activity in the open chat moves the key: polls in flight are aborted and *)
(* another one starts.  The retry after an error does so too.               *)
VersionChanged ==
    /\ polls' = <<Unanswered>>
    /\ shown' \in {shown} \union (IF shown.status = "error" THEN {loading} ELSE {})
    /\ UNCHANGED <<order, more>>

ServePoll(i) ==
    /\ polls[i] = Unanswered
    /\ polls' = [polls EXCEPT ![i] = listConversations(1)]
    /\ UNCHANGED <<order, shown, more>>

PollEnds(i) ==
    /\ polls' = RemoveAt(polls, i)
    /\ \/ /\ polls[i] # Unanswered
          /\ LET page == polls[i]
             IN  shown' = IF shown.status = "ready"
                          THEN [shown EXCEPT !.items = withFirstPage(@, page.items),
                                             !.total = page.total]
                          ELSE [status |-> "ready", items |-> page.items,
                                total |-> page.total, pages |-> 1]
       \/ shown' = IF shown.status = "ready" THEN shown
                   ELSE [loading EXCEPT !.status = "error"]
    /\ UNCHANGED <<order, more>>

(* "Show more" is there until as many are listed as the server counted. *)
loadMore ==
    /\ shown.status = "ready" /\ Len(shown.items) \in 1 .. shown.total - 1
    /\ more.phase # "loading"
    /\ shown.pages <= MaxConversations   \* bound
    /\ more' = [phase |-> "loading", page |-> shown.pages + 1, answer |-> Unanswered]
    /\ UNCHANGED <<order, shown, polls>>

ServeMore ==
    /\ more.phase = "loading" /\ more.answer = Unanswered
    /\ more' = [more EXCEPT !.answer = listConversations(more.page)]
    /\ UNCHANGED <<order, shown, polls>>

MoreArrives ==
    /\ more.phase = "loading" /\ more.answer # Unanswered
    /\ shown' = [shown EXCEPT !.items = withNextPage(@, more.answer.items),
                              !.total = more.answer.total, !.pages = @ + 1]
    /\ more' = Idle
    /\ UNCHANGED <<order, polls>>

MoreFails ==
    /\ more.phase = "loading"
    /\ more' = [Idle EXCEPT !.phase = "error"]
    /\ UNCHANGED <<order, shown, polls>>

ConversationsNext ==
    \/ \E c \in Conversations : Activity(c)
    \/ Poll \/ VersionChanged \/ loadMore \/ ServeMore \/ MoreArrives \/ MoreFails
    \/ \E i \in DOMAIN polls : ServePoll(i) \/ PollEnds(i)

-----------------------------------------------------------------------------
(* Whatever order the answers come in, no chat is listed twice and no chat *)
(* that was listed disappears from the list.                               *)
KeepsList ==
    /\ ToSet(shown.items) \subseteq ToSet(shown'.items)
    /\ IsInjective(shown'.items)
=============================================================================
