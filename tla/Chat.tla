-------------------------------- MODULE Chat --------------------------------
(***************************************************************************)
(* One open chat of the web client against the server's message log: the   *)
(* page that opens it, the poll that follows it, sending, marking as read  *)
(* and loading earlier pages, each a request the server answers at one     *)
(* moment and the client handles at a later one.                           *)
(*                                                                         *)
(* The server appends under the pair's lock with a time later than every   *)
(* stored message, so a message is its position in the log and the order   *)
(* of the list is the order of positions.  A copy is whether it was read   *)
(* when the server read the row.                                           *)
(***************************************************************************)
EXTENDS Naturals, Sequences, FiniteSets, FiniteSetsExt

CONSTANTS
    Me, Partner,    \* the two participants
    EarlierLog,     \* the authors of the messages stored before the chat opens
    PageSize,       \* MESSAGE_PAGE_SIZE, and the server's page
    MaxPollPages,   \* MAX_POLL_PAGES
    MaxLog,         \* bound: messages in the log
    MaxTroubles     \* bound: requests that fail and reloads from the safety menu

ASSUME ChatAssumption ==
    /\ Me # Partner
    /\ EarlierLog \in Seq({Me, Partner})
    /\ PageSize \in Nat \ {0} /\ MaxPollPages \in Nat \ {0}
    /\ MaxLog \in Nat /\ Len(EarlierLog) <= MaxLog
    /\ MaxTroubles \in Nat

VARIABLES
    log,        \* server: the author of each message, oldest first
    read,       \* server: the messages their addressee has a read receipt for
    shut,       \* server: one of the two blocks the other
    hidden,     \* the tab is in the background
    status,     \* what the panel shows
    online,     \* the last poll was answered
    canSend,    \* the loaded conversation accepted messages
    blocked,    \* a send was refused with conversation_blocked
    list,       \* the copies on the screen: message -> read
    firstPage,  \* the oldest page loaded
    opened,     \* history: the oldest message the loaded chat opened with, 0 if none
    loaded,     \* the effect's "initialized"
    stopped,    \* the effect's "stopped": an answer ended the polling
    poll,       \* the poll in flight
    mark,       \* the read mark in flight
    ghostMark,  \* a read mark of an earlier effect the server has not handled
    earlier,    \* the request for an earlier page
    sending,    \* the message being sent
    troubles

server == <<log, read, shut>>
panel == <<status, online, canSend, blocked>>
reach == <<firstPage, opened>>
vars == <<server, hidden, panel, list, reach, loaded, stopped, poll, mark,
          ghostMark, earlier, sending, troubles>>

Ids == 1 .. MaxLog
Copies == UNION {[S -> BOOLEAN] : S \in SUBSET Ids}
NoCopies == <<>>
NoAnswer == [items |-> NoCopies, total |-> 0, come |-> FALSE]
Idle == [kind |-> "idle"]
Unsent == [phase |-> "idle", id |-> 0, mounted |-> FALSE]
NoPage == [page |-> 0, items |-> NoCopies]

-----------------------------------------------------------------------------
(* The server's answers. *)

Stored == 1 .. Len(log)
Incoming(S) == {i \in S : log[i] # Me}
Answer(S, total) ==
    [items |-> [i \in S |-> i \in read], total |-> total, come |-> TRUE]
Page(p) == {i \in Stored : (p - 1) * PageSize < i /\ i <= p * PageSize}
listMessages(p) == Answer(Page(p), Len(log))
(* Mutant: the page after the anchor starts one message late. *)
MessagesAfterNext(a) ==
    Answer({i \in Stored : a + 1 < i /\ i <= a + 1 + PageSize}, Len(log) - a)

messagesAfter(a) ==
    Answer({i \in Stored : a < i /\ i <= a + PageSize}, Len(log) - a)

(* The client's list. *)

(* Mutant: an answer replaces what is shown. *)
ReplaceMessages(current, incoming) ==
    IF incoming = NoCopies THEN current ELSE incoming

mergeMessages(current, incoming) ==
    [i \in DOMAIN current \union DOMAIN incoming |->
        IF i \in DOMAIN incoming THEN incoming[i] ELSE current[i]]

pageCount(total) == IF total = 0 THEN 1 ELSE (total + PageSize - 1) \div PageSize

(* Mutant: a lone first page is short too. *)
FirstShownPageOfShortChat(total) ==
    LET pages == pageCount(total)
        lastCount == total - (pages - 1) * PageSize
    IN  IF 2 * lastCount <= PageSize THEN pages - 1 ELSE pages

firstShownPage(total) ==
    LET pages == pageCount(total)
        lastCount == total - (pages - 1) * PageSize
    IN  IF pages > 1 /\ 2 * lastCount < PageSize THEN pages - 1 ELSE pages

(* The message before i in the list. *)
Before(l, i) == Max({j \in DOMAIN l : j < i})

(* The own unread messages the anchor looks at: among the last PageSize of  *)
(* the list, and never its first.                                           *)
AnchorCandidates(l) ==
    {i \in DOMAIN l :
        /\ log[i] = Me /\ ~l[i]
        /\ \E j \in DOMAIN l : j < i
        /\ Cardinality({j \in DOMAIN l : j > i}) < PageSize}

(* Mutant: always after the newest message shown. *)
NewestAnchor(l) == IF l = NoCopies THEN 0 ELSE Max(DOMAIN l)

pollAnchor(l) ==
    IF AnchorCandidates(l) # {} THEN Before(l, Min(AnchorCandidates(l)))
    ELSE IF l = NoCopies THEN 0 ELSE Max(DOMAIN l)

(* Mutant: own messages count as well. *)
AnyUnread(l, i) == ~l[i]

isIncomingUnread(l, i) == log[i] # Me /\ ~l[i]

-----------------------------------------------------------------------------
Init ==
    /\ log = EarlierLog
    /\ read \in SUBSET (1 .. Len(EarlierLog))
    /\ shut = FALSE /\ hidden = FALSE
    /\ status = "loading" /\ online = TRUE
    /\ canSend = FALSE /\ blocked = FALSE
    /\ list = NoCopies /\ firstPage = 1 /\ opened = 0
    /\ loaded = FALSE /\ stopped = FALSE
    /\ poll = Idle /\ mark = "idle" /\ ghostMark = FALSE
    /\ earlier = NoPage /\ sending = Unsent
    /\ troubles = 0

-----------------------------------------------------------------------------
(* The poll: the timer, or the tab coming back. *)

PollStart ==
    /\ poll = Idle /\ ~stopped /\ ~hidden
    /\ poll' = IF loaded
               THEN [kind |-> "newer", after |-> pollAnchor(list), step |-> 1,
                     items |-> NoCopies, answer |-> NoAnswer]
               ELSE [kind |-> "first", answer |-> NoAnswer, canSend |-> FALSE]
    /\ UNCHANGED <<server, hidden, panel, list, reach, loaded, stopped, mark,
                   ghostMark, earlier, sending, troubles>>

(* The server reads; the conversation is read with the first page. *)
PollServe ==
    /\ poll # Idle /\ ~poll.answer.come
    /\ poll' = CASE poll.kind = "first" ->
                      [poll EXCEPT !.answer = listMessages(1), !.canSend = ~shut]
                 [] poll.kind = "page" -> [poll EXCEPT !.answer = listMessages(poll.page)]
                 [] OTHER -> [poll EXCEPT !.answer =
                                  IF poll.after = 0 THEN listMessages(1)
                                  ELSE messagesAfter(poll.after)]
    /\ UNCHANGED <<server, hidden, panel, list, reach, loaded, stopped, mark,
                   ghostMark, earlier, sending, troubles>>

(* What follows every successful poll: the chat is online and, if the tab is *)
(* visible, incoming messages not yet read are marked.                       *)
markRead(l) ==
    mark' = IF mark = "idle" /\ ~hidden /\ \E i \in DOMAIN l : isIncomingUnread(l, i)
            THEN "asked" ELSE mark

PollSucceeds(l) ==
    /\ list' = l
    /\ online' = TRUE
    /\ poll' = Idle
    /\ markRead(l)

(* latestMessages after its first page, and after each page it asks for. *)
OpenWith(items, start, sends) ==
    /\ PollSucceeds(items)
    /\ firstPage' = start
    /\ opened' = IF items = NoCopies THEN 0 ELSE Min(DOMAIN items)
    /\ status' = "ready" /\ loaded' = TRUE /\ canSend' = sends
    /\ UNCHANGED blocked

NextFirstPage(items, p, start, last, sends) ==
    IF p <= last
    THEN /\ poll' = [kind |-> "page", page |-> p, start |-> start, last |-> last,
                     items |-> items, canSend |-> sends, answer |-> NoAnswer]
         /\ UNCHANGED <<panel, list, reach, loaded, mark>>
    ELSE OpenWith(items, start, sends)

latestMessages ==
    /\ poll # Idle /\ poll.answer.come
    /\ \/ /\ poll.kind = "first"
          /\ LET start == firstShownPage(poll.answer.total)
                 items == IF start = 1 THEN poll.answer.items ELSE NoCopies
             IN  NextFirstPage(items, Max({start, 2}), start,
                               pageCount(poll.answer.total), poll.canSend)
       \/ /\ poll.kind = "page"
          /\ NextFirstPage(mergeMessages(poll.items, poll.answer.items), poll.page + 1,
                           poll.start, poll.last, poll.canSend)
    /\ UNCHANGED <<server, hidden, stopped, ghostMark, earlier, sending,
                   troubles>>

(* One page of newMessages: another one while the server has more. *)
newMessages ==
    /\ poll # Idle /\ poll.kind = "newer" /\ poll.answer.come
    /\ LET page == DOMAIN poll.answer.items
           items == mergeMessages(poll.items, poll.answer.items)
           last == \/ page = {}
                   \/ poll.answer.total <= Cardinality(page)
                   \/ poll.step = MaxPollPages
       IN  IF last
           THEN /\ PollSucceeds(mergeMessages(list, items))
                /\ UNCHANGED <<status, canSend, blocked>>
           ELSE /\ poll' = [poll EXCEPT !.after = Max(page), !.step = @ + 1,
                                        !.items = items, !.answer = NoAnswer]
                /\ UNCHANGED <<panel, list, mark>>
    /\ UNCHANGED <<server, hidden, reach, loaded, stopped, ghostMark, earlier,
                   sending, troubles>>

(* A send under way goes on when its composer leaves the page. *)
CloseComposer ==
    sending' = [sending EXCEPT !.mounted = FALSE]

(* No answer: the next poll tries again, and the panel says so.  An answer   *)
(* 401, 403 or 404 ends the polling.                                         *)
PollFails ==
    /\ poll # Idle /\ troubles < MaxTroubles
    /\ troubles' = troubles + 1
    /\ poll' = Idle
    /\ \/ /\ stopped' = TRUE /\ online' = TRUE
          /\ status' = "error"
          /\ CloseComposer
       \/ /\ online' = FALSE
          /\ status' = IF loaded THEN status ELSE "error"
          /\ UNCHANGED <<stopped, sending>>
    /\ UNCHANGED <<server, hidden, canSend, blocked, list, reach, loaded, mark,
                   ghostMark, earlier>>

-----------------------------------------------------------------------------
(* The read mark covers every message the server has by then. *)

Receipts == read' = read \union Incoming(Stored)

MarkServe ==
    /\ \/ mark = "asked" /\ mark' = "done" /\ UNCHANGED ghostMark
       \/ ghostMark /\ ghostMark' = FALSE /\ UNCHANGED mark
    /\ Receipts
    /\ UNCHANGED <<log, shut, hidden, panel, list, reach, loaded, stopped, poll,
                   earlier, sending, troubles>>

MarkReceive ==
    /\ mark = "done"
    /\ mark' = "idle"
    /\ list' = IF stopped THEN list
               ELSE [i \in DOMAIN list |-> list[i] \/ isIncomingUnread(list, i)]
    /\ UNCHANGED <<server, hidden, panel, reach, loaded, stopped, poll, ghostMark,
                   earlier, sending, troubles>>

MarkFails ==
    /\ mark # "idle" /\ troubles < MaxTroubles
    /\ troubles' = troubles + 1
    /\ mark' = "idle"
    /\ UNCHANGED <<server, hidden, panel, list, reach, loaded, stopped, poll,
                   ghostMark, earlier, sending>>

-----------------------------------------------------------------------------
(* The effect runs again: the old one's poll is aborted, its read mark is not. *)
retry ==
    /\ status' = "loading"
    /\ loaded' = FALSE /\ stopped' = FALSE /\ opened' = 0
    /\ poll' = Idle /\ mark' = "idle"
    /\ ghostMark' = (ghostMark \/ mark = "asked")
    /\ CloseComposer
    /\ UNCHANGED <<log, read, hidden, online, canSend, list, firstPage, earlier>>

RetryAfterError == status = "error" /\ retry /\ UNCHANGED <<shut, blocked, troubles>>

(* Blocking or unblocking the partner from the chat's menu reloads it. *)
SafetyChanged ==
    /\ status = "ready" /\ retry
    /\ shut' = ~shut /\ blocked' = FALSE
    /\ troubles < MaxTroubles /\ troubles' = troubles + 1

-----------------------------------------------------------------------------
(* The composer and the button for earlier messages. *)

ComposerShown == status = "ready" /\ canSend /\ ~blocked

(* The server stores or refuses what the composer sends; its answer is on    *)
(* the way.  A request that never arrives changes nothing.                   *)
(* Bound: a composer opened again does not send before the last send ended.  *)
submit ==
    /\ ComposerShown
    /\ ~sending.mounted /\ sending.phase = "idle"
    /\ IF shut
       THEN /\ sending' = [phase |-> "refused", id |-> 0, mounted |-> TRUE]
            /\ UNCHANGED log
       ELSE /\ Len(log) < MaxLog
            /\ log' = Append(log, Me)
            /\ sending' = [phase |-> "stored", id |-> Len(log'), mounted |-> TRUE]
    /\ UNCHANGED <<read, shut, hidden, panel, list, reach, loaded, stopped, poll,
                   mark, ghostMark, earlier, troubles>>

sendMessage ==
    /\ sending.phase = "stored"
    /\ list' = mergeMessages(list, [i \in {sending.id} |-> FALSE])
    /\ online' = TRUE
    /\ sending' = Unsent
    /\ UNCHANGED <<server, hidden, status, canSend, blocked, reach, loaded, stopped,
                   poll, mark, ghostMark, earlier, troubles>>

SendRefused ==
    /\ sending.phase = "refused"
    /\ blocked' = TRUE
    /\ sending' = Unsent
    /\ UNCHANGED <<server, hidden, status, online, canSend, list, reach, loaded,
                   stopped, poll, mark, ghostMark, earlier, troubles>>

(* The answer is lost. *)
SendFails ==
    /\ sending.phase = "stored" /\ troubles < MaxTroubles
    /\ troubles' = troubles + 1
    /\ sending' = Unsent
    /\ UNCHANGED <<server, hidden, panel, list, reach, loaded, stopped, poll, mark,
                   ghostMark, earlier>>

(* A page before the newest one is full, and no message is ever removed: the *)
(* server may as well read it at once.                                       *)
loadEarlier ==
    /\ status = "ready" /\ firstPage > 1 /\ earlier = NoPage
    /\ earlier' = [page |-> firstPage - 1, items |-> listMessages(firstPage - 1).items]
    /\ UNCHANGED <<server, hidden, panel, list, reach, loaded, stopped, poll, mark,
                   ghostMark, sending, troubles>>

EarlierReceive ==
    /\ earlier # NoPage
    /\ list' = mergeMessages(list, earlier.items)
    /\ firstPage' = earlier.page /\ UNCHANGED opened
    /\ earlier' = NoPage
    /\ UNCHANGED <<server, hidden, panel, loaded, stopped, poll, mark, ghostMark, 
                   sending, troubles>>

EarlierFails ==
    /\ earlier # NoPage /\ troubles < MaxTroubles
    /\ troubles' = troubles + 1
    /\ earlier' = NoPage
    /\ UNCHANGED <<server, hidden, panel, list, reach, loaded, stopped, poll, mark,
                   ghostMark, sending>>

-----------------------------------------------------------------------------
(* The tab, and the partner on the server. *)

ShowOrHide ==
    /\ hidden' = ~hidden
    /\ UNCHANGED <<server, panel, list, reach, loaded, stopped, poll, mark, ghostMark,
                   earlier, sending, troubles>>

PartnerActs ==
    /\ \/ /\ ~shut /\ Len(log) < MaxLog
          /\ log' = Append(log, Partner)
          /\ UNCHANGED <<read, shut>>
       \/ /\ read' = read \union (Stored \ Incoming(Stored))
          /\ UNCHANGED <<log, shut>>
       \/ /\ shut' = ~shut
          /\ UNCHANGED <<log, read>>
    /\ UNCHANGED <<hidden, panel, list, reach, loaded, stopped, poll, mark, ghostMark,
                   earlier, sending, troubles>>

Next ==
    \/ PollStart \/ PollServe \/ latestMessages \/ newMessages \/ PollFails
    \/ MarkServe \/ MarkReceive \/ MarkFails
    \/ RetryAfterError \/ SafetyChanged
    \/ submit \/ sendMessage \/ SendRefused \/ SendFails
    \/ loadEarlier \/ EarlierReceive \/ EarlierFails
    \/ ShowOrHide \/ PartnerActs

(* The timer fires, and what is asked is answered or fails; the users and    *)
(* the network owe nothing.                                                  *)
Fairness ==
    /\ WF_vars(PollStart) /\ WF_vars(PollServe)
    /\ WF_vars(latestMessages \/ newMessages)

Spec == Init /\ [][Next]_vars /\ Fairness
=============================================================================
