----------------------------- MODULE ChatProofs -----------------------------
(***************************************************************************)
(* What an open chat shows, for every page size, every length of the log   *)
(* and any number of failures.                                             *)
(*                                                                         *)
(* Two inductive invariants.  Coherent: every copy the client holds, on the *)
(* screen or in an answer on its way, was true when the server read it and *)
(* has stayed true, because receipts are never taken back and a message    *)
(* keeps its place; and an answer that would replace the list belongs to a *)
(* poll of a chat that has not loaded.  Placed: which messages those are.  *)
(* The pages of an answer are whole (Paged), and whatever is missing on the *)
(* screen is followed only by own unread messages, unless more than a page *)
(* of own ones came after it (Followed), so the next poll begins before it. *)
(***************************************************************************)
EXTENDS MCChat, TLAPS, FiniteSetTheorems, WellFoundedInduction

TrueIn(l, messages, receipts) ==
    \A i \in DOMAIN l :
        /\ i \in 1 .. Len(messages)
        /\ messages[i] = Me /\ l[i] => i \in receipts
True(l) == TrueIn(l, log, read)

(* The fields of a poll's record that its handlers use. *)
PollIsTrue ==
    /\ "kind" \in DOMAIN poll
    /\ poll.kind \in {"idle", "first", "page", "newer"}
    /\ poll.kind = "idle" => poll = Idle
    /\ poll.kind # "idle" => "answer" \in DOMAIN poll /\ True(poll.answer.items)
    /\ poll.kind \in {"page", "newer"} => "items" \in DOMAIN poll /\ True(poll.items)
    /\ poll.kind \in {"first", "page"} => ~loaded

SendingIsStored ==
    /\ {"phase", "id"} \subseteq DOMAIN sending
    /\ sending.phase = "stored" => sending.id \in Stored

Coherent ==
    /\ log \in Seq({Me, Partner})
    /\ loaded \in BOOLEAN
    /\ True(list) /\ PollIsTrue /\ True(earlier.items) /\ SendingIsStored

(* The server only adds. *)
ServerGrows ==
    /\ log' \in Seq({Me, Partner})
    /\ Len(log) <= Len(log') /\ \A i \in Stored : log'[i] = log[i]
    /\ read \subseteq read'

-----------------------------------------------------------------------------
LEMMA StaysTrue ==
    ASSUME NEW l, log \in Seq({Me, Partner}), ServerGrows, True(l)
    PROVE  TrueIn(l, log', read')
BY DEF True, TrueIn, ServerGrows, Stored

LEMMA MergedIsTrue ==
    ASSUME NEW f, NEW g, NEW messages, NEW receipts,
           TrueIn(f, messages, receipts), TrueIn(g, messages, receipts)
    PROVE  TrueIn(mergeMessages(f, g), messages, receipts)
BY DEF TrueIn, mergeMessages

(* What the server answers, at the moment it reads. *)
LEMMA AnswersAreTrue ==
    ASSUME NEW S \in SUBSET Stored, NEW total
    PROVE  True(Answer(S, total).items)
BY DEF True, TrueIn, Answer, Stored

LEMMA NothingIsTrue == ASSUME NEW messages, NEW receipts PROVE TrueIn(NoCopies, messages, receipts)
BY DEF TrueIn, NoCopies

-----------------------------------------------------------------------------
(* The poll. *)

LEMMA PollStartCoherent == ASSUME Coherent, PollStart PROVE Coherent'
<1> USE DEF PollStart, server, panel
<1>1. /\ poll'.kind \in {"newer", "first"} /\ {"kind", "answer"} \subseteq DOMAIN poll'
      /\ poll'.answer = NoAnswer
      /\ poll'.kind = "first" => ~loaded
      /\ poll'.kind = "newer" => "items" \in DOMAIN poll' /\ poll'.items = NoCopies
  BY DEF Coherent
<1>2. PollIsTrue'
  BY <1>1, NothingIsTrue DEF PollIsTrue, NoAnswer, True
<1> QED BY <1>2 DEF Coherent, True, SendingIsStored, Stored

LEMMA PollServeCoherent == ASSUME Coherent, PollServe PROVE Coherent'
<1> USE DEF PollServe, server, panel
<1>1. poll.kind \in {"first", "page", "newer"} /\ {"kind", "answer"} \subseteq DOMAIN poll
  BY DEF Coherent, PollIsTrue
<1>2. \E S \in SUBSET Stored : \E total : poll'.answer = Answer(S, total)
  BY <1>1 DEF listMessages, messagesAfter, Page, Coherent
<1>3. /\ poll'.kind = poll.kind /\ DOMAIN poll' = DOMAIN poll
      /\ "items" \in DOMAIN poll => poll'.items = poll.items
  BY <1>1
<1>4. True(poll'.answer.items)
  BY <1>2, AnswersAreTrue
<1>5. PollIsTrue'
  BY <1>1, <1>3, <1>4 DEF PollIsTrue, True, Coherent
<1> QED BY <1>5 DEF Coherent, True, SendingIsStored, Stored

LEMMA NextFirstPageCoherent ==
    ASSUME NEW items, NEW p, NEW start, NEW last, NEW sends,
           Coherent, True(items), ~loaded,
           NextFirstPage(items, p, start, last, sends),
           UNCHANGED <<log, read, earlier, sending>>
    PROVE  Coherent'
<1>1. CASE p <= last
  <2>1. poll' = [kind |-> "page", page |-> p, start |-> start, last |-> last,
                 items |-> items, canSend |-> sends, answer |-> NoAnswer]
        /\ UNCHANGED <<list, loaded>>
    BY <1>1 DEF NextFirstPage
  <2>2. poll'.kind = "page" /\ {"kind", "answer", "items"} \subseteq DOMAIN poll'
        /\ poll'.items = items /\ poll'.answer.items = NoCopies
    BY <2>1 DEF NoAnswer
  <2>3. PollIsTrue'
    BY <2>1, <2>2, NothingIsTrue DEF PollIsTrue, True
  <2> QED BY <2>1, <2>3 DEF Coherent, True, SendingIsStored, Stored
<1>2. CASE ~(p <= last)
  <2>1. poll' = Idle /\ list' = items /\ loaded' = TRUE
    BY <1>2 DEF NextFirstPage, OpenWith, PollSucceeds
  <2>2. PollIsTrue'
    BY <2>1 DEF PollIsTrue, Idle
  <2> QED BY <2>1, <2>2 DEF Coherent, True, SendingIsStored, Stored
<1> QED BY <1>1, <1>2

LEMMA latestMessagesCoherent == ASSUME Coherent, latestMessages PROVE Coherent'
<1>1. /\ True(poll.answer.items) /\ poll.kind \in {"first", "page"} /\ ~loaded
      /\ poll.kind = "page" => True(poll.items)
      /\ UNCHANGED <<log, read, earlier, sending>>
  BY DEF latestMessages, server, Coherent, PollIsTrue, Idle
<1>2. CASE poll.kind = "first"
  <2> DEFINE start == firstShownPage(poll.answer.total)
             items == IF start = 1 THEN poll.answer.items ELSE NoCopies
             p == Max({start, 2})
             last == pageCount(poll.answer.total)
  <2>1. True(items)
    <3>1. CASE start = 1
      BY <1>1, <3>1
    <3>2. CASE start # 1
      BY <3>2, NothingIsTrue DEF True
    <3> QED BY <3>1, <3>2
  <2>2. NextFirstPage(items, p, start, last, poll.canSend)
    BY <1>2 DEF latestMessages
  <2> HIDE DEF start, items, p, last
  <2> QED BY <1>1, <2>1, <2>2, NextFirstPageCoherent
<1>3. CASE poll.kind = "page"
  <2> DEFINE items == mergeMessages(poll.items, poll.answer.items)
             p == poll.page + 1
  <2>1. True(items)
    BY <1>1, <1>3, MergedIsTrue DEF True
  <2>2. NextFirstPage(items, p, poll.start, poll.last, poll.canSend)
    BY <1>3 DEF latestMessages
  <2> HIDE DEF items, p
  <2> QED BY <1>1, <2>1, <2>2, NextFirstPageCoherent
<1> QED BY <1>1, <1>2, <1>3

LEMMA newMessagesCoherent == ASSUME Coherent, newMessages PROVE Coherent'
<1> USE DEF newMessages, server, panel
<1> DEFINE items == mergeMessages(poll.items, poll.answer.items)
<1>1. poll.kind = "newer" /\ {"kind", "answer", "items"} \subseteq DOMAIN poll
      /\ True(list) /\ True(items)
  BY MergedIsTrue DEF Coherent, PollIsTrue, Idle, True
<1>2. CASE PollSucceeds(mergeMessages(list, items)) /\ UNCHANGED loaded
  <2>1. poll' = Idle /\ list' = mergeMessages(list, items)
    BY <1>2 DEF PollSucceeds
  <2>2. TrueIn(list', log, read)
    BY <1>1, <2>1, MergedIsTrue DEF True
  <2>3. PollIsTrue'
    BY <2>1 DEF PollIsTrue, Idle
  <2> QED BY <1>2, <2>2, <2>3 DEF Coherent, True, SendingIsStored, Stored
<1>3. ASSUME NEW last, UNCHANGED <<list, loaded>>,
             poll' = [poll EXCEPT !.after = last, !.step = @ + 1,
                                  !.items = items, !.answer = NoAnswer]
      PROVE  Coherent'
  <2>1. poll'.kind = "newer" /\ {"kind", "answer", "items"} \subseteq DOMAIN poll'
        /\ poll'.items = items /\ poll'.answer = NoAnswer
    BY <1>1, <1>3
  <2>2. PollIsTrue'
    BY <1>1, <2>1, NothingIsTrue DEF PollIsTrue, NoAnswer, True
  <2> QED BY <1>3, <2>2 DEF Coherent, True, SendingIsStored, Stored
<1> QED BY <1>2, <1>3

(* A send under way goes on. *)
LEMMA ComposerCloses ==
    ASSUME Coherent, CloseComposer \/ UNCHANGED sending, UNCHANGED log
    PROVE  SendingIsStored'
<1>1. sending'.phase = sending.phase /\ sending'.id = sending.id /\ DOMAIN sending' = DOMAIN sending
  BY DEF CloseComposer, Coherent, SendingIsStored
<1> QED BY <1>1 DEF Coherent, SendingIsStored, Stored

LEMMA PollFailsCoherent == ASSUME Coherent, PollFails PROVE Coherent'
<1>1. poll' = Idle /\ UNCHANGED <<log, read, list, loaded, earlier>>
  BY DEF PollFails, server
<1>2. PollIsTrue'
  BY <1>1 DEF PollIsTrue, Idle
<1>3. SendingIsStored'
  BY ComposerCloses DEF PollFails, server
<1> QED BY <1>1, <1>2, <1>3 DEF Coherent, True

-----------------------------------------------------------------------------
(* Read marks. *)

LEMMA MarkServeCoherent == ASSUME Coherent, MarkServe PROVE Coherent'
<1> USE DEF MarkServe, Receipts, panel
<1>1. ServerGrows
  BY DEF ServerGrows, Coherent
<1>2. \A l : True(l) => TrueIn(l, log', read')
  BY <1>1, StaysTrue DEF Coherent
<1>3. PollIsTrue'
  BY <1>2 DEF PollIsTrue, Coherent, True
<1> QED BY <1>1, <1>2, <1>3 DEF Coherent, True, SendingIsStored, Stored

LEMMA MarkReceiveCoherent == ASSUME Coherent, MarkReceive PROVE Coherent'
<1> USE DEF MarkReceive, server, panel
<1>1. True(list)'
  BY DEF Coherent, True, TrueIn, isIncomingUnread
<1>2. PollIsTrue'
  BY DEF PollIsTrue, Coherent, True
<1> QED BY <1>1, <1>2 DEF Coherent, True, SendingIsStored, Stored

-----------------------------------------------------------------------------
(* Reloading, which aborts the poll. *)

LEMMA retryCoherent == ASSUME Coherent, retry PROVE Coherent'
<1>1. poll' = Idle /\ loaded' = FALSE /\ UNCHANGED <<log, read, list, earlier>>
  BY DEF retry
<1>2. PollIsTrue'
  BY <1>1 DEF PollIsTrue, Idle
<1>3. SendingIsStored'
  BY ComposerCloses DEF retry
<1> QED BY <1>1, <1>2, <1>3 DEF Coherent, True

-----------------------------------------------------------------------------
(* Steps that append to the log. *)

LEMMA AppendGrows ==
    ASSUME NEW author \in {Me, Partner}, Coherent, log' = Append(log, author), UNCHANGED read
    PROVE  ServerGrows /\ Len(log') = Len(log) + 1
BY DEF ServerGrows, Coherent, Stored

LEMMA submitCoherent == ASSUME Coherent, submit PROVE Coherent'
<1> USE DEF submit, panel
<1>1. ServerGrows /\ SendingIsStored'
  <2>1. CASE shut
    BY <2>1 DEF ServerGrows, Coherent, SendingIsStored
  <2>2. CASE ~shut
    BY <2>2, AppendGrows DEF SendingIsStored, Stored, Coherent
  <2> QED BY <2>1, <2>2
<1>2. \A l : True(l) => TrueIn(l, log', read')
  BY <1>1, StaysTrue DEF Coherent
<1>3. PollIsTrue'
  BY <1>2 DEF PollIsTrue, Coherent, True
<1> QED BY <1>1, <1>2, <1>3 DEF Coherent, True, ServerGrows

LEMMA PartnerActsCoherent == ASSUME Coherent, PartnerActs PROVE Coherent'
<1> USE DEF PartnerActs, panel
<1>1. ServerGrows
  <2>1. CASE log' = Append(log, Partner) /\ UNCHANGED read
    BY <2>1, AppendGrows
  <2> QED BY <2>1 DEF ServerGrows, Coherent
<1>2. \A l : True(l) => TrueIn(l, log', read')
  BY <1>1, StaysTrue DEF Coherent
<1>3. PollIsTrue'
  BY <1>2 DEF PollIsTrue, Coherent, True
<1> QED BY <1>1, <1>2, <1>3 DEF Coherent, True, ServerGrows, SendingIsStored, Stored

-----------------------------------------------------------------------------
(* What comes back from a send, and an earlier page. *)

LEMMA sendMessageCoherent == ASSUME Coherent, sendMessage PROVE Coherent'
<1> USE DEF sendMessage, server
<1>1. True([i \in {sending.id} |-> FALSE])
  BY DEF Coherent, SendingIsStored, True, TrueIn, Stored
<1>2. True(list)'
  BY <1>1, MergedIsTrue DEF True, Coherent
<1>3. PollIsTrue'
  BY DEF PollIsTrue, Coherent, True
<1> QED BY <1>2, <1>3 DEF Coherent, True, SendingIsStored, Unsent

LEMMA loadEarlierCoherent == ASSUME Coherent, loadEarlier PROVE Coherent'
<1> USE DEF loadEarlier, server, panel
<1>1. True(listMessages(firstPage - 1).items)
  BY AnswersAreTrue DEF listMessages, Page
<1>2. PollIsTrue'
  BY DEF PollIsTrue, Coherent, True
<1> QED BY <1>1, <1>2 DEF Coherent, True, SendingIsStored, Stored

LEMMA EarlierReceiveCoherent == ASSUME Coherent, EarlierReceive PROVE Coherent'
<1> USE DEF EarlierReceive, server, panel
<1>1. True(list)' /\ True(earlier.items)'
  BY MergedIsTrue, NothingIsTrue DEF True, Coherent, NoPage
<1>2. PollIsTrue'
  BY DEF PollIsTrue, Coherent, True
<1> QED BY <1>1, <1>2 DEF Coherent, True, SendingIsStored, Stored

(* Steps that touch none of this. *)
LEMMA OtherStepsCoherent ==
    ASSUME Coherent,
           MarkFails \/ SendRefused \/ SendFails \/ EarlierFails \/ ShowOrHide \/ UNCHANGED vars
    PROVE  Coherent'
<1>1. /\ UNCHANGED <<log, read, list, poll, loaded>>
      /\ earlier' = earlier \/ earlier' = NoPage
      /\ sending' = sending \/ sending' = Unsent
  BY DEF MarkFails, SendRefused, SendFails, EarlierFails, ShowOrHide, vars, server, panel
<1>2. PollIsTrue'
  BY <1>1 DEF PollIsTrue, Coherent, True
<1>3. True(earlier.items)'
  BY <1>1, NothingIsTrue DEF Coherent, True, NoPage
<1> QED BY <1>1, <1>2, <1>3 DEF Coherent, True, SendingIsStored, Stored, Unsent

-----------------------------------------------------------------------------
LEMMA CoherentBegins == ASSUME Init PROVE Coherent
<1>1. log \in Seq({Me, Partner}) /\ loaded \in BOOLEAN
  BY ChatAssumption DEF Init
<1>2. True(list) /\ True(earlier.items)
  BY NothingIsTrue DEF Init, True, NoPage
<1>3. PollIsTrue /\ SendingIsStored
  BY DEF Init, PollIsTrue, Idle, SendingIsStored, Unsent
<1> QED BY <1>1, <1>2, <1>3 DEF Coherent

LEMMA CoherentStep == ASSUME Coherent, [Next]_vars PROVE Coherent'
<1>1. CASE PollStart \/ PollServe \/ latestMessages \/ newMessages \/ PollFails
  BY <1>1, PollStartCoherent, PollServeCoherent, latestMessagesCoherent,
     newMessagesCoherent, PollFailsCoherent
<1>2. CASE MarkServe \/ MarkReceive
  BY <1>2, MarkServeCoherent, MarkReceiveCoherent
<1>3. CASE RetryAfterError \/ SafetyChanged
  BY <1>3, retryCoherent DEF RetryAfterError, SafetyChanged
<1>4. CASE submit \/ sendMessage \/ PartnerActs
  BY <1>4, submitCoherent, sendMessageCoherent, PartnerActsCoherent
<1>5. CASE loadEarlier \/ EarlierReceive
  BY <1>5, loadEarlierCoherent, EarlierReceiveCoherent
<1>6. CASE MarkFails \/ SendRefused \/ SendFails \/ EarlierFails \/ ShowOrHide \/ UNCHANGED vars
  BY <1>6, OtherStepsCoherent
<1> QED BY <1>1, <1>2, <1>3, <1>4, <1>5, <1>6 DEF Next

LEMMA CoherentHolds == Spec => []Coherent
BY CoherentBegins, CoherentStep, PTL DEF Spec

(* ChatThread: the tick of an own message says that the partner has read it, *)
(* whatever order the answers are handled in and however many are in flight. *)
THEOREM ReadTicksAreTrueHolds == Spec => []ReadTicksAreTrue
<1>1. Coherent => ReadTicksAreTrue
  BY DEF Coherent, True, TrueIn, ReadTicksAreTrue
<1> QED BY <1>1, CoherentHolds, PTL

(* useChat.ts: no answer takes a message off the screen of a chat that has  *)
(* loaded: only a reload, which loads it again from its last pages, does.   *)
THEOREM ShownStaysShownHolds == Spec => ShownStaysShown
<1> DEFINE Kept == loaded /\ loaded' => DOMAIN list \subseteq DOMAIN list'
<1>1. Coherent /\ [Next]_vars => Kept
  <2> SUFFICES ASSUME Coherent, [Next]_vars, loaded, loaded'
               PROVE  DOMAIN list \subseteq DOMAIN list'
    OBVIOUS
  <2>1. CASE list' = list \/ \E l : list' = mergeMessages(list, l)
    BY <2>1 DEF mergeMessages
  <2>2. CASE latestMessages
    BY <2>2 DEF latestMessages, Coherent, PollIsTrue
  <2>3. CASE newMessages
    BY <2>1, <2>3 DEF newMessages, PollSucceeds
  <2>4. CASE MarkReceive
    BY <2>4 DEF MarkReceive
  <2>5. CASE sendMessage \/ EarlierReceive
    BY <2>1, <2>5 DEF sendMessage, EarlierReceive
  <2> QED BY <2>1, <2>2, <2>3, <2>4, <2>5
          DEF Next, vars, PollStart, PollServe, PollFails, MarkServe, MarkFails,
              RetryAfterError, SafetyChanged, retry, submit, SendRefused, SendFails,
              loadEarlier, EarlierFails, ShowOrHide, PartnerActs
<1> QED BY <1>1, CoherentHolds, PTL DEF Spec, ShownStaysShown

-----------------------------------------------------------------------------
(* How many messages come before page p. *)
Base(p) == (p - 1) * PageSize

LEMMA Bases ==
    ASSUME NEW p \in Int, NEW q \in Int, p <= q
    PROVE  /\ Base(p) \in Int /\ Base(p) <= Base(q)
           /\ p < q => Base(p) + PageSize <= Base(q)
           /\ Base(p + 1) = Base(p) + PageSize /\ Base(1) = 0
           /\ p * PageSize = Base(p) + PageSize
           /\ p >= 1 => Base(p) >= 0
BY ChatAssumption DEF Base

LEMMA PageCountBounds ==
    ASSUME NEW n \in Nat
    PROVE  /\ pageCount(n) \in Nat /\ pageCount(n) >= 1
           /\ n = 0 => pageCount(n) = 1
           /\ n > 0 => Base(pageCount(n)) < n
           /\ n <= Base(pageCount(n) + 1)
<1> DEFINE m == n + PageSize - 1
<1>1. CASE n = 0
  BY <1>1, ChatAssumption DEF pageCount, Base
<1>2. CASE n > 0
  <2>1. m \in Nat /\ PageSize \in Nat /\ PageSize > 0
    BY <1>2, ChatAssumption
  <2>2. m \div PageSize \in Int /\ m % PageSize \in 0 .. (PageSize - 1)
        /\ m = PageSize * (m \div PageSize) + (m % PageSize)
    BY <2>1
  <2>3. pageCount(n) = m \div PageSize
    BY <1>2 DEF pageCount
  <2> DEFINE k == m \div PageSize
             r == m % PageSize
  <2>4. k \in Int /\ r \in Int /\ 0 <= r /\ r < PageSize /\ m = PageSize * k + r
    BY <2>1, <2>2
  <2> HIDE DEF k, r
  <2>5. k >= 1
    BY <2>1, <2>4, <1>2
  <2>6. (k - 1) * PageSize = PageSize * k - PageSize /\ (k + 1 - 1) * PageSize = PageSize * k
    BY <2>1, <2>4
  <2>7. Base(k) < n /\ n <= Base(k + 1)
    BY <2>1, <2>4, <2>6 DEF Base
  <2> QED BY <1>2, <2>3, <2>4, <2>5, <2>7 DEF k
<1> QED BY <1>1, <1>2

LEMMA FirstShownBounds ==
    ASSUME NEW n \in Nat
    PROVE  /\ firstShownPage(n) \in Nat /\ firstShownPage(n) >= 1
           /\ firstShownPage(n) <= pageCount(n) /\ pageCount(n) - 1 <= firstShownPage(n)
BY PageCountBounds DEF firstShownPage

(* A longer log is never opened on an earlier page. *)
LEMMA FirstShownGrows ==
    ASSUME NEW m \in Nat, NEW n \in Nat, m <= n
    PROVE  pageCount(m) <= pageCount(n) /\ firstShownPage(m) <= firstShownPage(n)
<1>1. pageCount(m) <= pageCount(n)
  <2> SUFFICES ASSUME pageCount(n) < pageCount(m) PROVE FALSE
    BY PageCountBounds
  <2>1. Base(pageCount(n) + 1) <= Base(pageCount(m))
    BY PageCountBounds, Bases
  <2>2. n <= Base(pageCount(n) + 1) /\ (m > 0 => Base(pageCount(m)) < m) /\ m > 0
    BY PageCountBounds
  <2>3. Base(pageCount(n) + 1) \in Int /\ Base(pageCount(m)) \in Int
    BY PageCountBounds, Bases
  <2> QED BY <2>1, <2>2, <2>3
<1>2. CASE pageCount(m) = pageCount(n)
  <2> DEFINE p == pageCount(m)
             b == (p - 1) * PageSize
  <2>1. b \in Int /\ p \in Nat /\ PageSize \in Nat
    <3>1. p \in Nat /\ PageSize \in Nat
      BY PageCountBounds, ChatAssumption
    <3> HIDE DEF p
    <3> QED BY <3>1
  <2>2. /\ firstShownPage(m) = IF p > 1 /\ 2 * (m - b) < PageSize THEN p - 1 ELSE p
        /\ firstShownPage(n) = IF p > 1 /\ 2 * (n - b) < PageSize THEN p - 1 ELSE p
    BY <1>2 DEF firstShownPage
  <2> HIDE DEF b, p
  <2> QED BY <1>1, <2>1, <2>2
<1>3. CASE pageCount(m) < pageCount(n)
  BY <1>1, <1>3, FirstShownBounds, PageCountBounds
<1> QED BY <1>1, <1>2, <1>3, PageCountBounds

-----------------------------------------------------------------------------
(* Least and greatest messages. *)

LEMMA LeastMessage ==
    ASSUME NEW S \in SUBSET Nat, S # {}
    PROVE  Min(S) \in S /\ \A y \in S : Min(S) <= y
<1>1. PICK x \in S : \A y \in S : ~ (<<y, x>> \in OpToRel(<, Nat))
  BY NatLessThanWellFounded, WFMin
<1>2. \A y \in S : ~ (y < x)
  BY <1>1 DEF OpToRel
<1>3. x \in S /\ \A y \in S : x <= y
  BY <1>2
<1> QED BY <1>3 DEF Min

LEMMA GreatestMessage ==
    ASSUME NEW n \in Nat, NEW S \in SUBSET (0 .. n), S # {}
    PROVE  Max(S) \in S /\ \A y \in S : y <= Max(S)
<1> DEFINE T == {n - y : y \in S}
<1>1. \A t \in T : t \in Nat
  OBVIOUS
<1>2. T \in SUBSET Nat /\ T # {}
  BY <1>1
<1>3. Min(T) \in T /\ \A t \in T : Min(T) <= t
  BY <1>2, LeastMessage
<1>4. PICK x \in S : Min(T) = n - x
  BY <1>3
<1>5. \A y \in S : n - x <= n - y
  BY <1>3, <1>4
<1>6. \A y \in S : y <= x
  BY <1>5
<1> QED BY <1>6 DEF Max

-----------------------------------------------------------------------------
(* Where a poll begins. *)

LEMMA AnchorIsShown ==
    ASSUME NEW l, log \in Seq({Me, Partner}), DOMAIN l \subseteq Stored,
           l # NoCopies => DOMAIN l # {}
    PROVE  /\ pollAnchor(l) \in 0 .. Len(log)
           /\ pollAnchor(l) # 0 => pollAnchor(l) \in DOMAIN l
<1> DEFINE n == Len(log)
           C == AnchorCandidates(l)
<1>1. n \in Nat /\ DOMAIN l \in SUBSET (0 .. n) /\ 0 \notin DOMAIN l
  BY DEF Stored
<1>2. CASE C # {}
  <2>1. C \in SUBSET Nat
    BY <1>1 DEF AnchorCandidates
  <2>2. PICK c \in C : c = Min(C)
    BY <1>2, <2>1, LeastMessage
  <2> DEFINE E == {j \in DOMAIN l : j < c}
  <2>3. E \in SUBSET (0 .. n) /\ E # {}
    BY <1>1 DEF AnchorCandidates
  <2>4. Max(E) \in E
    BY <1>1, <2>3, GreatestMessage
  <2>5. pollAnchor(l) = Max(E)
    BY <1>2, <2>2 DEF pollAnchor, Before
  <2> QED BY <1>1, <2>4, <2>5
<1>3. CASE C = {} /\ l # NoCopies
  <2>1. pollAnchor(l) = Max(DOMAIN l)
    BY <1>3 DEF pollAnchor
  <2> QED BY <1>1, <1>3, <2>1, GreatestMessage
<1>4. CASE C = {} /\ l = NoCopies
  BY <1>4 DEF pollAnchor
<1> QED BY <1>2, <1>3, <1>4

(* What the anchor is for: it does not pass a message that is not on the    *)
(* screen as long as at most a page of own, unread messages is shown after  *)
(* it and an older one before it.                                           *)
LEMMA AnchorStaysBefore ==
    ASSUME NEW l, log \in Seq({Me, Partner}), DOMAIN l \subseteq Stored,
           NEW i \in Nat, i \notin DOMAIN l,
           \E j \in DOMAIN l : j < i,
           \A j \in DOMAIN l : j > i => log[j] = Me /\ ~l[j],
           Cardinality({j \in DOMAIN l : j > i /\ log[j] = Me}) <= PageSize
    PROVE  pollAnchor(l) < i
<1> DEFINE n == Len(log)
           A == {j \in DOMAIN l : j > i}
           C == AnchorCandidates(l)
<1>1. n \in Nat /\ DOMAIN l \in SUBSET (0 .. n) /\ 0 \notin DOMAIN l /\ DOMAIN l # {}
  BY DEF Stored
<1>2. \A c \in C : LET E == {j \in DOMAIN l : j < c} IN Max(E) \in E
  <2> SUFFICES ASSUME NEW c \in C PROVE Max({j \in DOMAIN l : j < c}) \in {j \in DOMAIN l : j < c}
    OBVIOUS
  <2>1. {j \in DOMAIN l : j < c} \in SUBSET (0 .. n) /\ {j \in DOMAIN l : j < c} # {}
    BY <1>1 DEF AnchorCandidates
  <2> QED BY <1>1, <2>1, GreatestMessage
<1>3. C # {} => /\ Min(C) \in C /\ \A c \in C : Min(C) <= c
                /\ pollAnchor(l) = Max({j \in DOMAIN l : j < Min(C)})
  <2>1. C \in SUBSET Nat
    BY <1>1 DEF AnchorCandidates
  <2> QED BY <2>1, LeastMessage DEF pollAnchor, Before
<1>4. C = {} => pollAnchor(l) = Max(DOMAIN l) /\ Max(DOMAIN l) \in DOMAIN l
  <2>1. l # NoCopies
    BY <1>1 DEF NoCopies
  <2> QED BY <1>1, <2>1, GreatestMessage DEF pollAnchor
<1>5. CASE A = {}
  <2>1. pollAnchor(l) \in DOMAIN l
    BY <1>2, <1>3, <1>4
  <2>2. \A j \in DOMAIN l : j < i
    BY <1>1, <1>5
  <2> QED BY <2>1, <2>2
<1>6. CASE A # {}
  <2>1. A \in SUBSET Nat
    BY <1>1
  <2>2. PICK m \in A : m = Min(A) /\ \A j \in A : m <= j
    BY <1>6, <2>1, LeastMessage
  <2> DEFINE F == {j \in DOMAIN l : j > m}
  <2>3. A = {j \in DOMAIN l : j > i /\ log[j] = Me}
    OBVIOUS
  <2>4. IsFiniteSet(A) /\ Cardinality(A) \in Nat
    <3>1. IsFiniteSet(0 .. n)
      BY <1>1, FS_Interval
    <3> QED BY <1>1, <3>1, FS_Subset, FS_CardinalityType
  <2>5. IsFiniteSet(A \ {m}) /\ Cardinality(A \ {m}) = Cardinality(A) - 1
    BY <2>4, FS_RemoveElement
  <2>6. F \subseteq A \ {m}
    BY <1>1
  <2>7. Cardinality(F) <= Cardinality(A \ {m}) /\ Cardinality(F) \in Nat
    BY <2>5, <2>6, FS_Subset, FS_CardinalityType
  <2>8. Cardinality(F) < PageSize
    <3>1. Cardinality(A) <= PageSize /\ PageSize \in Nat
      BY <2>3, ChatAssumption
    <3> QED BY <2>4, <2>5, <2>7, <3>1
  <2>9. m \in C
    <3>1. m \in DOMAIN l /\ log[m] = Me /\ ~l[m]
      OBVIOUS
    <3>2. \E j \in DOMAIN l : j < m
      BY <1>1
    <3> QED BY <2>8, <3>1, <3>2 DEF AnchorCandidates
  <2>10. PICK c \in C : c = Min(C) /\ c <= m
    BY <1>3, <2>9
  <2>11. pollAnchor(l) \in DOMAIN l /\ pollAnchor(l) < c
    BY <1>2, <1>3, <2>10
  <2>12. c \in DOMAIN l
    BY DEF AnchorCandidates
  <2>13. pollAnchor(l) <= i
    BY <1>1, <2>2, <2>10, <2>11, <2>12
  <2> QED BY <1>1, <2>11, <2>13
<1> QED BY <1>5, <1>6
-----------------------------------------------------------------------------
(* The shapes of what the client holds. *)
Answers == [items : Copies, total : Int, come : BOOLEAN]

PollTyped ==
    \/ poll = Idle
    \/ poll \in [kind : {"first"}, answer : Answers, canSend : BOOLEAN]
    \/ poll \in [kind : {"page"}, page : Nat, start : Nat, last : Nat, items : Copies,
                 canSend : BOOLEAN, answer : Answers]
    \/ poll \in [kind : {"newer"}, after : Nat, step : Nat, items : Copies,
                 answer : Answers]

Sendings == [phase : {"idle", "stored", "refused"}, id : 0 .. Len(log), mounted : BOOLEAN]

Typed ==
    /\ log \in Seq({Me, Partner}) /\ Len(log) <= MaxLog
    /\ read \subseteq Stored
    /\ {shut, hidden, online, canSend, blocked, loaded, stopped, ghostMark} \subseteq BOOLEAN
    /\ status \in {"loading", "ready", "error"}
    /\ list \in Copies
    /\ PollTyped
    /\ mark \in {"idle", "asked", "done"}
    /\ earlier.items \in Copies
    /\ sending \in Sendings
    /\ troubles \in 0 .. MaxTroubles

LEMMA CopiesAre ==
    ASSUME NEW l
    PROVE  l \in Copies <=> DOMAIN l \subseteq Ids /\ l \in [DOMAIN l -> BOOLEAN]
BY DEF Copies

LEMMA NoneAreCopies == /\ NoCopies \in Copies /\ DOMAIN NoCopies = {}
                       /\ \A l \in Copies : DOMAIN l = {} => l = NoCopies
<1>1. NoCopies \in [{} -> BOOLEAN] /\ DOMAIN NoCopies = {}
  BY DEF NoCopies
<1>2. \A l \in Copies : DOMAIN l = {} => l = NoCopies
  BY CopiesAre DEF NoCopies
<1> QED BY <1>1, <1>2 DEF Copies

LEMMA MergedCopies ==
    ASSUME NEW f \in Copies, NEW g \in Copies
    PROVE  mergeMessages(f, g) \in Copies
<1> DEFINE h == mergeMessages(f, g)
<1>1. /\ DOMAIN f \subseteq Ids /\ DOMAIN g \subseteq Ids
      /\ \A i \in DOMAIN f : f[i] \in BOOLEAN
      /\ \A i \in DOMAIN g : g[i] \in BOOLEAN
  BY CopiesAre
<1>2. DOMAIN h = DOMAIN f \union DOMAIN g
  BY DEF mergeMessages
<1>3. h = [i \in DOMAIN h |-> h[i]]
  BY DEF mergeMessages
<1>4. \A i \in DOMAIN h : h[i] = IF i \in DOMAIN g THEN g[i] ELSE f[i]
  BY DEF mergeMessages
<1>5. \A i \in DOMAIN h : h[i] \in BOOLEAN
  <2> SUFFICES ASSUME NEW i \in DOMAIN h PROVE h[i] \in BOOLEAN
    OBVIOUS
  <2>1. CASE i \in DOMAIN g
    <3>1. h[i] = g[i] /\ g[i] \in BOOLEAN
      BY <1>1, <1>4, <2>1
    <3> QED BY <3>1, Zenon
  <2>2. CASE i \notin DOMAIN g
    <3>1. h[i] = f[i] /\ f[i] \in BOOLEAN
      BY <1>1, <1>2, <1>4, <2>2
    <3> QED BY <3>1, Zenon
  <2> QED BY <2>1, <2>2
<1> QED BY <1>1, <1>2, <1>3, <1>5, CopiesAre

LEMMA AnswersTyped ==
    ASSUME NEW S \in SUBSET Stored, NEW total \in Int,
           log \in Seq({Me, Partner}), Len(log) <= MaxLog
    PROVE  Answer(S, total) \in Answers /\ DOMAIN Answer(S, total).items = S
<1>1. [i \in S |-> i \in read] \in [S -> BOOLEAN]
  OBVIOUS
<1>2. S \subseteq Ids
  BY ChatAssumption DEF Stored, Ids
<1> QED BY <1>1, <1>2 DEF Answer, Answers, Copies

LEMMA NoAnswerTyped == NoAnswer \in Answers
BY NoneAreCopies DEF NoAnswer, Answers

LEMMA PollShapes ==
    ASSUME PollTyped
    PROVE  /\ poll.kind \in {"idle", "first", "page", "newer"}
           /\ poll.kind = "idle" <=> poll = Idle
           /\ poll.kind = "first" =>
                poll \in [kind : {"first"}, answer : Answers, canSend : BOOLEAN]
           /\ poll.kind = "page" =>
                poll \in [kind : {"page"}, page : Nat, start : Nat, last : Nat, items : Copies,
                          canSend : BOOLEAN, answer : Answers]
           /\ poll.kind = "newer" =>
                poll \in [kind : {"newer"}, after : Nat, step : Nat, items : Copies,
                          answer : Answers]
BY DEF PollTyped, Idle

(* A page of the server's answer: what it had after a when it had n messages. *)
Span(a, n) == {i \in 1 .. n : a < i /\ i <= a + PageSize}

PollPaged ==
    /\ poll.kind = "first" /\ poll.answer.come =>
          /\ poll.answer.total \in 0 .. Len(log)
          /\ DOMAIN poll.answer.items = Span(0, poll.answer.total)
          /\ firstPage <= firstShownPage(poll.answer.total)
    /\ poll.kind = "page" =>
          /\ 1 <= poll.start /\ poll.start <= poll.page /\ poll.page <= poll.last
          /\ Base(poll.last) < Len(log)
          /\ DOMAIN poll.items = Base(poll.start) + 1 .. Base(poll.page)
          /\ firstPage <= poll.start /\ poll.start <= firstShownPage(Len(log))
          /\ poll.answer.come => \E n \in 0 .. Len(log) :
                /\ Base(poll.last) < n
                /\ DOMAIN poll.answer.items = Span(Base(poll.page), n)
    /\ poll.kind = "newer" =>
          /\ loaded
          /\ poll.after <= Len(log)
          /\ \A j \in DOMAIN poll.items : j <= poll.after
          /\ poll.answer.come => \E n \in 0 .. Len(log) :
                DOMAIN poll.answer.items = Span(poll.after, n)

EarlierPaged ==
    \/ earlier = NoPage
    \/ /\ earlier.page \in Nat /\ 1 <= earlier.page /\ earlier.page < firstPage
       /\ \A j \in DOMAIN earlier.items : j <= Base(earlier.page + 1)

Paged ==
    /\ firstPage \in Nat /\ 1 <= firstPage /\ firstPage <= firstShownPage(Len(log))
    /\ EarlierPaged /\ PollPaged

-----------------------------------------------------------------------------
(* Types. *)

Shapes == Coherent /\ Typed /\ Paged

LEMMA PollStartTyped == ASSUME Shapes, PollStart PROVE Typed'
<1> USE DEF PollStart, server, panel, Shapes
<1>1. pollAnchor(list) \in Nat
  <2>1. DOMAIN list \subseteq Stored /\ (list # NoCopies => DOMAIN list # {})
    BY NoneAreCopies DEF Coherent, True, TrueIn, Stored, Typed
  <2> QED BY <2>1, AnchorIsShown DEF Typed
<1>2. PollTyped'
  <2>1. CASE loaded
    BY <1>1, <2>1, NoneAreCopies, NoAnswerTyped DEF PollTyped
  <2>2. CASE ~loaded
    BY <2>2, NoAnswerTyped DEF PollTyped
  <2> QED BY <2>1, <2>2
<1> QED BY <1>2 DEF Typed, Stored, Sendings

LEMMA PollServeTyped == ASSUME Shapes, PollServe PROVE Typed'
<1> USE DEF PollServe, server, panel, Shapes
<1>1. poll.kind \in {"first", "page", "newer"}
  BY PollShapes DEF Typed
<1>2. \A S \in SUBSET Stored : \A t \in Int : Answer(S, t) \in Answers
  BY AnswersTyped DEF Typed
<1>3. \A p : listMessages(p) \in Answers
  BY <1>2 DEF listMessages, Page, Typed
<1>4. \A a \in Nat : messagesAfter(a) \in Answers
  BY <1>2 DEF messagesAfter, Typed
<1>5. PollTyped'
  <2>1. CASE poll.kind = "first"
    <3>1. poll' = [poll EXCEPT !.answer = listMessages(1), !.canSend = ~shut]
      BY <2>1
    <3>2. poll \in [kind : {"first"}, answer : Answers, canSend : BOOLEAN]
      BY <2>1, PollShapes DEF Typed
    <3>3. poll' = [kind |-> "first", answer |-> listMessages(1), canSend |-> ~shut]
      BY <3>1, <3>2
    <3>4. listMessages(1) \in Answers /\ (~shut) \in BOOLEAN
      BY <1>3, Zenon
    <3> HIDE DEF PollServe, Shapes
    <3>5. PICK sends \in BOOLEAN :
            poll' = [kind |-> "first", answer |-> listMessages(1), canSend |-> sends]
      BY <3>3, <3>4, Zenon
    <3>6. poll' \in [kind : {"first"}, answer : Answers, canSend : BOOLEAN]
      BY <3>4, <3>5
    <3> QED BY <3>6 DEF PollTyped
  <2>2. CASE poll.kind = "page"
    <3>1. poll' = [poll EXCEPT !.answer = listMessages(poll.page)]
      BY <2>2
    <3> QED BY <2>2, <3>1, <1>3, PollShapes DEF Typed, PollTyped
  <2>3. CASE poll.kind = "newer"
    <3>1. poll' = [poll EXCEPT !.answer = IF poll.after = 0 THEN listMessages(1)
                                          ELSE messagesAfter(poll.after)]
      BY <2>3
    <3> QED BY <2>3, <3>1, <1>3, <1>4, PollShapes DEF Typed, PollTyped
  <2> QED BY <1>1, <2>1, <2>2, <2>3
<1> QED BY <1>5 DEF Typed, Stored, Sendings

LEMMA NextFirstPageTyped ==
    ASSUME Shapes, NEW items \in Copies, NEW p \in Nat, NEW start \in Nat, NEW last \in Nat,
           NEW sends \in BOOLEAN,
           NextFirstPage(items, p, start, last, sends),
           UNCHANGED <<server, hidden, stopped, ghostMark, earlier, sending, troubles>>
    PROVE  Typed'
<1> USE DEF Shapes
<1>1. CASE p <= last
  <2>1. poll' = [kind |-> "page", page |-> p, start |-> start, last |-> last,
                 items |-> items, canSend |-> sends, answer |-> NoAnswer]
        /\ UNCHANGED <<status, online, canSend, blocked, list, loaded, mark>>
    BY <1>1 DEF NextFirstPage, panel
  <2>2. PollTyped'
    BY <2>1, NoAnswerTyped DEF PollTyped
  <2> QED BY <2>1, <2>2 DEF Typed, Stored, Sendings, server
<1>2. CASE ~(p <= last)
  <2>1. /\ poll' = Idle /\ list' = items /\ loaded' = TRUE /\ canSend' = sends
        /\ status' = "ready" /\ online' = TRUE /\ UNCHANGED blocked
        /\ mark' \in {mark, "asked"}
    BY <1>2 DEF NextFirstPage, OpenWith, PollSucceeds, markRead
  <2>2. PollTyped'
    BY <2>1 DEF PollTyped
  <2> QED BY <2>1, <2>2 DEF Typed, Stored, Sendings, server
<1> QED BY <1>1, <1>2

LEMMA latestMessagesTyped == ASSUME Shapes, latestMessages PROVE Typed'
<1> USE DEF Shapes
<1>1. UNCHANGED <<server, hidden, stopped, ghostMark, earlier, sending, troubles>>
  BY DEF latestMessages
<1>2. CASE poll.kind = "first"
  <2> DEFINE start == firstShownPage(poll.answer.total)
             items == IF start = 1 THEN poll.answer.items ELSE NoCopies
             p == Max({start, 2})
             last == pageCount(poll.answer.total)
  <2>1. poll.answer \in Answers /\ poll.answer.come /\ poll.canSend \in BOOLEAN
        /\ poll.answer.total \in Nat
    BY <1>2, PollShapes DEF Typed, Answers, latestMessages, Paged, PollPaged
  <2>2. start \in Nat /\ last \in Nat /\ items \in Copies
    BY <2>1, FirstShownBounds, PageCountBounds, NoneAreCopies DEF Answers
  <2>3. p \in Nat
    <3> HIDE DEF start
    <3>1. {start, 2} \in SUBSET (0 .. start + 2) /\ start + 2 \in Nat
      BY <2>2
    <3>2. p \in {start, 2}
      BY <3>1, GreatestMessage
    <3> QED BY <2>2, <3>2
  <2>4. NextFirstPage(items, p, start, last, poll.canSend)
    BY <1>2 DEF latestMessages
  <2> HIDE DEF start, items, p, last
  <2> QED BY <1>1, <2>1, <2>2, <2>3, <2>4, NextFirstPageTyped
<1>3. CASE poll.kind = "page"
  <2> DEFINE items == mergeMessages(poll.items, poll.answer.items)
             p == poll.page + 1
  <2>1. /\ items \in Copies /\ p \in Nat /\ poll.start \in Nat /\ poll.last \in Nat
        /\ poll.canSend \in BOOLEAN
    BY <1>3, PollShapes, MergedCopies DEF Typed, Answers
  <2>2. NextFirstPage(items, p, poll.start, poll.last, poll.canSend)
    BY <1>3 DEF latestMessages
  <2> HIDE DEF items, p
  <2> QED BY <1>1, <2>1, <2>2, NextFirstPageTyped
<1> QED BY <1>2, <1>3 DEF latestMessages

LEMMA newMessagesTyped == ASSUME Shapes, newMessages PROVE Typed'
<1> USE DEF newMessages, server, Shapes
<1> DEFINE items == mergeMessages(poll.items, poll.answer.items)
           page == DOMAIN poll.answer.items
<1>1. /\ poll \in [kind : {"newer"}, after : Nat, step : Nat, items : Copies,
                   answer : Answers]
      /\ list \in Copies /\ items \in Copies /\ page \subseteq Ids
  BY PollShapes, MergedCopies, CopiesAre DEF Typed, Answers
<1>2. CASE PollSucceeds(mergeMessages(list, items)) /\ UNCHANGED <<status, canSend, blocked>>
  <2>1. /\ poll' = Idle /\ list' = mergeMessages(list, items) /\ online' = TRUE
        /\ mark' \in {mark, "asked"}
    BY <1>2 DEF PollSucceeds, markRead
  <2>2. PollTyped' /\ list' \in Copies
    BY <1>1, <2>1, MergedCopies DEF PollTyped
  <2> QED BY <1>2, <2>1, <2>2 DEF Typed, Stored, Sendings
<1>3. CASE /\ page # {}
           /\ poll' = [poll EXCEPT !.after = Max(page), !.step = @ + 1,
                                   !.items = items, !.answer = NoAnswer]
           /\ UNCHANGED <<panel, list, mark>>
  <2>1. Max(page) \in Nat
    <3>1. page \in SUBSET (0 .. MaxLog) /\ MaxLog \in Nat
      BY <1>1, ChatAssumption DEF Ids
    <3>2. Max(page) \in page
      BY <1>3, <3>1, GreatestMessage
    <3> QED BY <3>1, <3>2
  <2> HIDE DEF items, page, newMessages, Shapes
  <2>2. poll' = [kind |-> "newer", after |-> Max(page), step |-> poll.step + 1,
                 items |-> items, answer |-> NoAnswer]
    BY <1>1, <1>3
  <2>3. poll' \in [kind : {"newer"}, after : Nat, step : Nat, items : Copies,
                   answer : Answers]
    BY <1>1, <2>1, <2>2, NoAnswerTyped
  <2>4. PollTyped'
    BY <2>3 DEF PollTyped
  <2> QED BY <1>3, <2>4 DEF Typed, Stored, Sendings, panel, newMessages, Shapes
<1> QED BY <1>2, <1>3

LEMMA PollFailsTyped == ASSUME Shapes, PollFails PROVE Typed'
<1> USE DEF PollFails, server, Shapes
<1>1. poll' = Idle /\ PollTyped'
  BY DEF PollTyped
<1>2. sending' \in Sendings'
  BY DEF CloseComposer, Typed, Sendings
<1>3. status' \in {"loading", "ready", "error"} /\ online' \in BOOLEAN /\ stopped' \in BOOLEAN
  BY DEF Typed
<1>4. troubles' \in 0 .. MaxTroubles
  BY ChatAssumption DEF Typed
<1> QED BY <1>1, <1>2, <1>3, <1>4 DEF Typed, Stored

LEMMA MarksTyped == ASSUME Shapes, MarkServe \/ MarkReceive \/ MarkFails PROVE Typed'
<1> USE DEF MarkServe, MarkReceive, MarkFails, server, panel, Shapes
<1>1. PollTyped' /\ sending' \in Sendings'
  BY DEF Typed, PollTyped, Sendings
<1>2. read' \subseteq Stored'
  BY DEF Receipts, Incoming, Typed, Stored
<1>3. list' \in Copies
  <2>1. CASE list' = list
    BY <2>1 DEF Typed
  <2>2. CASE list' = [i \in DOMAIN list |-> list[i] \/ isIncomingUnread(list, i)]
    <3>1. \A i \in DOMAIN list' : list'[i] \in BOOLEAN
      BY <2>2, Zenon
    <3>2. DOMAIN list' \subseteq Ids /\ list' = [i \in DOMAIN list' |-> list'[i]]
      BY <2>2, CopiesAre DEF Typed
    <3> QED BY <3>1, <3>2, CopiesAre
  <2> QED BY <2>1, <2>2
<1>4. mark' \in {"idle", "asked", "done"} /\ ghostMark' \in BOOLEAN
  BY DEF Typed
<1>5. troubles' \in 0 .. MaxTroubles
  BY ChatAssumption DEF Typed
<1> QED BY <1>1, <1>2, <1>3, <1>4, <1>5 DEF Typed

LEMMA ReloadTyped == ASSUME Shapes, RetryAfterError \/ SafetyChanged PROVE Typed'
<1> USE DEF RetryAfterError, SafetyChanged, retry, Shapes
<1>1. PollTyped'
  BY DEF PollTyped
<1>2. sending' \in Sendings'
  BY DEF CloseComposer, Typed, Sendings
<1>3. ghostMark' \in BOOLEAN /\ shut' \in BOOLEAN /\ blocked' \in BOOLEAN
  <2>1. ghostMark' \in BOOLEAN
    BY Zenon
  <2>2. shut' \in BOOLEAN
    BY Zenon DEF Typed
  <2>3. blocked' \in BOOLEAN
    BY DEF Typed
  <2> QED BY <2>1, <2>2, <2>3
<1>4. troubles' \in 0 .. MaxTroubles
  BY ChatAssumption DEF Typed
<1> QED BY <1>1, <1>2, <1>3, <1>4 DEF Typed, Stored

LEMMA SendsTyped ==
    ASSUME Shapes, submit \/ sendMessage \/ SendRefused \/ SendFails
    PROVE  Typed'
<1> USE DEF submit, sendMessage, SendRefused, SendFails, server, panel, Shapes
<1>1. /\ log' \in Seq({Me, Partner}) /\ Len(log') <= MaxLog /\ Len(log) <= Len(log')
      /\ sending' \in Sendings'
  <2>1. CASE submit /\ ~shut
    <3>1. log' = Append(log, Me) /\ Len(log') = Len(log) + 1 /\ Len(log) < MaxLog
      BY <2>1 DEF Typed
    <3>2. sending' = [phase |-> "stored", id |-> Len(log'), mounted |-> TRUE]
      BY <2>1
    <3>3. Len(log') \in 0 .. Len(log') /\ log' \in Seq({Me, Partner}) /\ Len(log') <= MaxLog
      BY <3>1, ChatAssumption DEF Typed
    <3>4. sending' \in Sendings'
      BY <3>2, <3>3 DEF Sendings
    <3> QED BY <3>1, <3>3, <3>4 DEF Typed
  <2>2. CASE ~ (submit /\ ~shut)
    <3>1. /\ log' = log
          /\ \/ sending' = [phase |-> "refused", id |-> 0, mounted |-> TRUE]
             \/ sending' = [phase |-> "idle", id |-> 0, mounted |-> FALSE]
      BY <2>2 DEF Unsent
    <3> HIDE DEF submit, sendMessage, SendRefused, SendFails, server, panel, Shapes
    <3>2. 0 \in 0 .. Len(log')
      BY <3>1 DEF Typed, Shapes
    <3>3. CASE sending' = [phase |-> "refused", id |-> 0, mounted |-> TRUE]
      <4>1. sending' \in Sendings'
        BY <3>2, <3>3 DEF Sendings
      <4> QED BY <3>1, <4>1 DEF Typed, Shapes
    <3>4. CASE sending' = [phase |-> "idle", id |-> 0, mounted |-> FALSE]
      <4>1. sending' \in Sendings'
        BY <3>2, <3>4 DEF Sendings
      <4> QED BY <3>1, <4>1 DEF Typed, Shapes
    <3> QED BY <3>1, <3>3, <3>4
  <2> QED BY <2>1, <2>2
<1>2. PollTyped' /\ read' \subseteq Stored'
  <2>1. poll' = poll /\ read' = read
    OBVIOUS
  <2>2. PollTyped'
    BY <2>1 DEF Typed, PollTyped
  <2>3. read' \subseteq Stored'
    BY <1>1, <2>1 DEF Typed, Stored
  <2> QED BY <2>2, <2>3
<1>3. list' \in Copies
  <2>1. CASE sendMessage
    <3>1. [i \in {sending.id} |-> FALSE] \in [{sending.id} -> BOOLEAN] /\ {sending.id} \subseteq Ids
      BY <2>1, ChatAssumption DEF Coherent, SendingIsStored, Stored, Ids, Typed
    <3>2. [i \in {sending.id} |-> FALSE] \in Copies
      BY <3>1 DEF Copies
    <3> QED BY <2>1, <3>2, MergedCopies DEF Typed
  <2>2. CASE ~sendMessage
    BY <2>2 DEF Typed
  <2> QED BY <2>1, <2>2
<1>4. troubles' \in 0 .. MaxTroubles
  BY ChatAssumption DEF Typed
<1> QED BY <1>1, <1>2, <1>3, <1>4 DEF Typed

LEMMA EarliersTyped ==
    ASSUME Shapes, loadEarlier \/ EarlierReceive \/ EarlierFails
    PROVE  Typed'
<1> USE DEF loadEarlier, EarlierReceive, EarlierFails, server, panel, Shapes
<1>1. PollTyped' /\ sending' \in Sendings' /\ read' \subseteq Stored'
  BY DEF Typed, PollTyped, Sendings, Stored
<1>2. list' \in Copies
  BY MergedCopies DEF Typed
<1>3. earlier'.items \in Copies
  <2>1. CASE loadEarlier
    <3>1. Answer(Page(firstPage - 1), Len(log)) \in Answers
      BY AnswersTyped DEF Page, Typed
    <3> QED BY <2>1, <3>1 DEF listMessages, Answers
  <2>2. CASE earlier' = NoPage
    BY <2>2, NoneAreCopies DEF NoPage
  <2> QED BY <2>1, <2>2
<1>4. troubles' \in 0 .. MaxTroubles
  BY ChatAssumption DEF Typed
<1> QED BY <1>1, <1>2, <1>3, <1>4 DEF Typed

LEMMA OthersTyped ==
    ASSUME Shapes, ShowOrHide \/ PartnerActs \/ UNCHANGED vars
    PROVE  Typed'
<1> USE DEF ShowOrHide, PartnerActs, server, panel, vars, Shapes
<1>1. /\ log' \in Seq({Me, Partner}) /\ Len(log') <= MaxLog /\ Len(log) <= Len(log')
  BY ChatAssumption DEF Typed
<1>2. PollTyped' /\ sending' \in Sendings'
  BY <1>1 DEF Typed, PollTyped, Sendings
<1>3. read' \subseteq Stored'
  BY <1>1 DEF Typed, Stored
<1>4. shut' \in BOOLEAN /\ hidden' \in BOOLEAN
  <2>1. shut \in BOOLEAN /\ hidden \in BOOLEAN
    BY DEF Typed
  <2> QED BY <2>1, Zenon
<1> QED BY <1>1, <1>2, <1>3, <1>4 DEF Typed

LEMMA TypedStep == ASSUME Shapes, [Next]_vars PROVE Typed'
<1>1. CASE PollStart \/ PollServe \/ latestMessages \/ newMessages \/ PollFails
  BY <1>1, PollStartTyped, PollServeTyped, latestMessagesTyped, newMessagesTyped, PollFailsTyped
<1>2. CASE MarkServe \/ MarkReceive \/ MarkFails \/ RetryAfterError \/ SafetyChanged
  BY <1>2, MarksTyped, ReloadTyped
<1>3. CASE submit \/ sendMessage \/ SendRefused \/ SendFails
  BY <1>3, SendsTyped
<1>4. CASE loadEarlier \/ EarlierReceive \/ EarlierFails
  BY <1>4, EarliersTyped
<1>5. CASE ShowOrHide \/ PartnerActs \/ UNCHANGED vars
  BY <1>5, OthersTyped
<1> QED BY <1>1, <1>2, <1>3, <1>4, <1>5 DEF Next
-----------------------------------------------------------------------------
(* Pages of the log. *)

LEMMA ServedPages ==
    ASSUME log \in Seq({Me, Partner})
    PROVE  /\ \A p \in Nat : p >= 1 =>
                 DOMAIN listMessages(p).items = Span(Base(p), Len(log))
           /\ \A p : listMessages(p).total = Len(log)
           /\ \A a \in Nat : DOMAIN messagesAfter(a).items = Span(a, Len(log))
<1>1. ASSUME NEW p \in Nat, p >= 1
      PROVE  Page(p) = Span(Base(p), Len(log))
  <2>1. p * PageSize = Base(p) + PageSize /\ Base(p) \in Int
    <3>1. p \in Int /\ p <= p
      OBVIOUS
    <3> QED BY <3>1, Bases
  <2> QED BY <2>1 DEF Page, Span, Base, Stored
<1>2. \A S, t : DOMAIN Answer(S, t).items = S /\ Answer(S, t).total = t
  BY DEF Answer
<1> QED BY <1>1, <1>2 DEF listMessages, messagesAfter, Span, Stored

LEMMA PagesStay ==
    ASSUME Shapes, log' \in Seq({Me, Partner}), Len(log) <= Len(log'),
           UNCHANGED <<firstPage, earlier, poll, loaded>>
    PROVE  Paged'
<1>1. Len(log) \in Nat /\ Len(log') \in Nat
  BY DEF Shapes, Typed
<1>2. firstShownPage(Len(log)) <= firstShownPage(Len(log'))
      /\ firstShownPage(Len(log)) \in Nat /\ firstShownPage(Len(log')) \in Nat
  BY <1>1, FirstShownGrows, FirstShownBounds
<1>3. firstPage' \in Nat /\ 1 <= firstPage' /\ firstPage' <= firstShownPage(Len(log'))
  BY <1>2 DEF Shapes, Paged
<1>4. EarlierPaged'
  BY DEF Shapes, Paged, EarlierPaged
<1>5. PollPaged'
  <2> USE DEF Shapes, Paged, PollPaged, Typed
  <2>1. CASE poll.kind = "first"
    BY <1>1, <2>1
  <2>2. CASE poll.kind = "page"
    <3>1. poll.start \in Nat /\ poll.last \in Nat /\ Base(poll.last) \in Int
      BY <2>2, PollShapes, Bases
    <3>2. /\ Base(poll.last) < Len(log') /\ poll.start <= firstShownPage(Len(log'))
      BY <1>1, <1>2, <2>2, <3>1
    <3>3. 0 .. Len(log) \subseteq 0 .. Len(log')
      BY <1>1
    <3> QED BY <2>2, <3>1, <3>2, <3>3
  <2>3. CASE poll.kind = "newer"
    <3>1. poll.after \in Nat
      BY <2>3, PollShapes
    <3>2. 0 .. Len(log) \subseteq 0 .. Len(log')
      BY <1>1
    <3> QED BY <1>1, <2>3, <3>1, <3>2
  <2>4. CASE poll.kind = "idle"
    BY <2>4
  <2> QED BY <2>1, <2>2, <2>3, <2>4, PollShapes
<1> QED BY <1>3, <1>4, <1>5 DEF Paged

LEMMA PollEnds ==
    ASSUME Shapes, poll' = Idle, UNCHANGED <<firstPage, earlier, log>>
    PROVE  Paged'
<1>1. PollPaged'
  BY DEF PollPaged, Idle
<1>2. EarlierPaged'
  BY DEF Shapes, Paged, EarlierPaged
<1> QED BY <1>1, <1>2 DEF Shapes, Paged

LEMMA PollStartPaged == ASSUME Shapes, PollStart PROVE Paged'
<1> USE DEF PollStart, server, panel, reach, Shapes
<1>1. pollAnchor(list) \in 0 .. Len(log)
  <2>1. DOMAIN list \subseteq Stored /\ (list # NoCopies => DOMAIN list # {})
    BY NoneAreCopies DEF Coherent, True, TrueIn, Stored, Typed
  <2> QED BY <2>1, AnchorIsShown DEF Typed
<1>2. PollPaged'
  <2>1. CASE loaded
    <3>1. /\ poll'.kind = "newer" /\ poll'.after = pollAnchor(list) /\ DOMAIN poll'.items = {}
          /\ poll'.answer.come = FALSE
      BY <2>1, NoneAreCopies DEF NoAnswer
    <3>2. loaded' /\ Len(log') = Len(log) /\ Len(log) \in Nat
      BY <2>1 DEF Typed
    <3> HIDE DEF PollStart
    <3> QED BY <1>1, <3>1, <3>2 DEF PollPaged
  <2>2. CASE ~loaded
    <3>1. poll'.kind = "first" /\ poll'.answer.come = FALSE
      BY <2>2 DEF NoAnswer
    <3> HIDE DEF PollStart
    <3> QED BY <3>1 DEF PollPaged
  <2> QED BY <2>1, <2>2
<1>3. EarlierPaged'
  BY DEF Paged, EarlierPaged
<1> QED BY <1>2, <1>3 DEF Paged

LEMMA PollServePaged == ASSUME Shapes, PollServe PROVE Paged'
<1> USE DEF PollServe, server, panel, reach, Shapes
<1>1. poll.kind \in {"first", "page", "newer"} /\ Len(log) \in 0 .. Len(log)
  BY PollShapes DEF Typed
<1>2. PollPaged'
  <2>1. CASE poll.kind = "first"
    <3>1. poll' = [poll EXCEPT !.answer = listMessages(1), !.canSend = ~shut]
      BY <2>1
    <3>2. poll'.kind = "first" /\ poll'.answer = listMessages(1)
      BY <2>1, <3>1, PollShapes DEF Typed
    <3>3. Base(1) = 0
      BY Bases
    <3>4. poll'.answer.total = Len(log) /\ DOMAIN poll'.answer.items = Span(0, Len(log))
      BY <3>2, <3>3, ServedPages DEF Typed
    <3> QED BY <1>1, <3>2, <3>4 DEF PollPaged, Paged
  <2>2. CASE poll.kind = "page"
    <3>1. poll' = [poll EXCEPT !.answer = listMessages(poll.page)]
      BY <2>2
    <3>2. /\ poll'.kind = "page" /\ poll'.answer = listMessages(poll.page)
          /\ poll'.page = poll.page /\ poll'.start = poll.start /\ poll'.last = poll.last
          /\ poll'.items = poll.items /\ poll.page \in Nat /\ poll.start \in Nat
      BY <2>2, <3>1, PollShapes DEF Typed
    <3>3. poll.page >= 1 /\ Base(poll.last) < Len(log)
      BY <2>2, <3>2 DEF Paged, PollPaged
    <3>4. DOMAIN poll'.answer.items = Span(Base(poll.page), Len(log))
      BY <3>2, <3>3, ServedPages DEF Typed
    <3> QED BY <1>1, <2>2, <3>2, <3>3, <3>4 DEF PollPaged, Paged
  <2>3. CASE poll.kind = "newer"
    <3>1. poll' = [poll EXCEPT !.answer = IF poll.after = 0 THEN listMessages(1)
                                          ELSE messagesAfter(poll.after)]
      BY <2>3
    <3>2. /\ poll'.kind = "newer" /\ poll'.after = poll.after /\ poll'.items = poll.items
          /\ poll'.answer = IF poll.after = 0 THEN listMessages(1) ELSE messagesAfter(poll.after)
          /\ poll.after \in Nat
      BY <2>3, <3>1, PollShapes DEF Typed
    <3>3. Base(1) = 0
      BY Bases
    <3>4. DOMAIN poll'.answer.items = Span(poll.after, Len(log))
      BY <3>2, <3>3, ServedPages DEF Typed
    <3> QED BY <1>1, <2>3, <3>2, <3>4 DEF PollPaged, Paged
  <2> QED BY <1>1, <2>1, <2>2, <2>3
<1>3. EarlierPaged'
  BY DEF Paged, EarlierPaged
<1> QED BY <1>2, <1>3 DEF Paged

(* What the client has when it asks for page p of the pages from start to   *)
(* last, or opens with what it has if there is no page p.                   *)
Gathered(items, p, start, last) ==
    /\ items \in Copies /\ p \in Nat /\ start \in Nat /\ last \in Nat
    /\ 1 <= start /\ start <= p
    /\ firstPage <= start /\ start <= firstShownPage(Len(log))
    /\ p <= last => /\ Base(last) < Len(log)
                    /\ DOMAIN items = Base(start) + 1 .. Base(p)
    /\ p > last => \E b \in Nat : DOMAIN items = Base(start) + 1 .. b

LEMMA FirstPageGathers ==
    ASSUME Shapes, latestMessages, poll.kind = "first"
    PROVE  LET start == firstShownPage(poll.answer.total)
           IN  Gathered(IF start = 1 THEN poll.answer.items ELSE NoCopies,
                        Max({start, 2}), start, pageCount(poll.answer.total))
<1> DEFINE n == poll.answer.total
           start == firstShownPage(n)
           items == IF start = 1 THEN poll.answer.items ELSE NoCopies
           p == Max({start, 2})
           last == pageCount(n)
<1>1. /\ poll.answer \in Answers /\ n \in Nat /\ n <= Len(log) /\ Len(log) \in Nat
      /\ DOMAIN poll.answer.items = Span(0, n) /\ firstPage <= start
  BY PollShapes DEF Shapes, Typed, latestMessages, Paged, PollPaged
<1>2. /\ start \in Nat /\ 1 <= start /\ last \in Nat /\ start <= last
      /\ start <= firstShownPage(Len(log))
  BY <1>1, FirstShownBounds, PageCountBounds, FirstShownGrows
<1>3. p \in Nat /\ start <= p /\ 2 <= p /\ (p = start \/ p = 2)
  <2> HIDE DEF start
  <2>1. {start, 2} \in SUBSET (0 .. start + 2) /\ start + 2 \in Nat
    BY <1>2
  <2>2. p \in {start, 2} /\ start <= p /\ 2 <= p
    BY <2>1, GreatestMessage
  <2> QED BY <1>2, <2>2
<1>4. items \in Copies
  BY <1>1, NoneAreCopies DEF Answers
<1>5. /\ n > 0 => Base(last) < n
      /\ n = 0 => last = 1
      /\ n <= Base(last + 1)
  BY <1>1, PageCountBounds
<1>6. /\ Base(1) = 0 /\ Base(2) = PageSize /\ PageSize \in Nat /\ PageSize > 0
      /\ Base(last) \in Int /\ Base(start) \in Int /\ Base(p) \in Int
      /\ last >= 2 => PageSize <= Base(last)
  <2>1. Base(1) = 0 /\ Base(2) = PageSize /\ PageSize \in Nat /\ PageSize > 0
    BY ChatAssumption DEF Base
  <2>2. \A q \in Nat : Base(q) \in Int
    BY ChatAssumption DEF Base
  <2>3. last >= 2 => Base(2) <= Base(last)
    BY <1>2, Bases
  <2> HIDE DEF last, start, p
  <2> QED BY <1>2, <1>3, <2>1, <2>2, <2>3
<1>7. start = 1 => items = poll.answer.items
  OBVIOUS
<1>8. start # 1 => DOMAIN items = {}
  BY NoneAreCopies
<1> HIDE DEF start, items, p, last, n
<1>9. CASE p <= last
  <2>1. n > 0 /\ Base(last) < n /\ Base(last) < Len(log)
    BY <1>1, <1>2, <1>3, <1>5, <1>6, <1>9
  <2>2. DOMAIN items = Base(start) + 1 .. Base(p)
    <3>1. CASE start = 1
      <4>1. p = 2 /\ DOMAIN items = Span(0, n)
        BY <1>1, <1>3, <1>7, <3>1
      <4>2. n >= PageSize
        BY <1>1, <1>3, <1>6, <1>9, <1>2, <2>1
      <4>3. Span(0, n) = 1 .. PageSize
        BY <1>1, <1>6, <4>2 DEF Span
      <4> QED BY <1>6, <3>1, <4>1, <4>3
    <3>2. CASE start # 1
      <4>1. p = start
        BY <1>2, <1>3, <3>2
      <4> QED BY <1>6, <1>8, <3>2, <4>1
    <3> QED BY <3>1, <3>2
  <2> QED BY <1>1, <1>2, <1>3, <1>4, <1>9, <2>1, <2>2 DEF Gathered, start, items, p, last, n
<1>10. CASE p > last
  <2>1. start = 1 /\ last = 1
    BY <1>2, <1>3, <1>10
  <2>2. n <= PageSize
    BY <1>5, <1>6, <2>1
  <2>3. DOMAIN items = 1 .. n
    <3>1. Span(0, n) = 1 .. n
      BY <1>1, <1>6, <2>2 DEF Span
    <3> QED BY <1>1, <1>7, <2>1, <3>1
  <2>4. \E b \in Nat : DOMAIN items = Base(start) + 1 .. b
    BY <1>1, <1>6, <2>1, <2>3
  <2> QED BY <1>1, <1>2, <1>3, <1>4, <1>10, <2>4 DEF Gathered, start, items, p, last, n
<1> QED BY <1>2, <1>3, <1>9, <1>10

LEMMA BasesInOrder ==
    ASSUME NEW s \in Nat, NEW p \in Nat, NEW q \in Nat, 1 <= s, s <= p, p <= q
    PROVE  /\ Base(s) \in Int /\ Base(p) \in Int /\ Base(q) \in Int
           /\ 0 <= Base(s) /\ Base(s) <= Base(p) /\ Base(p) <= Base(q)
           /\ p < q => Base(p) + PageSize <= Base(q)
           /\ Base(p + 1) = Base(p) + PageSize /\ PageSize \in Nat
<1>1. s \in Int /\ p \in Int /\ q \in Int
  OBVIOUS
<1>2. /\ Base(s) \in Int /\ Base(s) <= Base(p) /\ 0 <= Base(s)
  BY <1>1, Bases
<1>3. /\ Base(p) \in Int /\ Base(p) <= Base(q)
      /\ p < q => Base(p) + PageSize <= Base(q)
      /\ Base(p + 1) = Base(p) + PageSize
  BY <1>1, Bases
<1>4. Base(q) \in Int /\ PageSize \in Nat
  BY ChatAssumption DEF Base
<1> QED BY <1>2, <1>3, <1>4

LEMMA NextPageGathers ==
    ASSUME Shapes, latestMessages, poll.kind = "page"
    PROVE  Gathered(mergeMessages(poll.items, poll.answer.items), poll.page + 1,
                    poll.start, poll.last)
<1> DEFINE items == mergeMessages(poll.items, poll.answer.items)
           a == Base(poll.start)
           q == Base(poll.page)
           z == Base(poll.last)
<1>1. /\ poll.page \in Nat /\ poll.start \in Nat /\ poll.last \in Nat
      /\ poll.items \in Copies /\ poll.answer \in Answers /\ poll.answer.come
  BY PollShapes DEF Shapes, Typed, latestMessages
<1>2. /\ 1 <= poll.start /\ poll.start <= poll.page /\ poll.page <= poll.last
      /\ firstPage <= poll.start /\ poll.start <= firstShownPage(Len(log))
      /\ z < Len(log)
      /\ DOMAIN poll.items = a + 1 .. q
  BY DEF Shapes, Paged, PollPaged
<1>3. PICK n \in 0 .. Len(log) : z < n /\ DOMAIN poll.answer.items = Span(q, n)
  BY <1>1 DEF Shapes, Paged, PollPaged
<1>4. items \in Copies
  BY <1>1, MergedCopies DEF Answers
<1>5. /\ a \in Int /\ q \in Int /\ z \in Int /\ 0 <= a /\ a <= q /\ q <= z
      /\ poll.page < poll.last => q + PageSize <= z
      /\ Base(poll.page + 1) = q + PageSize /\ PageSize \in Nat
  BY <1>1, <1>2, BasesInOrder
<1>6. DOMAIN items = (a + 1 .. q) \union Span(q, n)
  BY <1>2, <1>3 DEF mergeMessages
<1>7. Len(log) \in Nat
  BY DEF Shapes, Typed
<1> HIDE DEF items, a, q, z
<1>8. CASE poll.page + 1 <= poll.last
  <2>1. q + PageSize <= z
    BY <1>1, <1>5, <1>8
  <2>2. (a + 1 .. q) \union Span(q, n) = a + 1 .. q + PageSize
    BY <1>3, <1>5, <1>7, <2>1 DEF Span
  <2> QED BY <1>1, <1>2, <1>4, <1>5, <1>6, <1>8, <2>2 DEF Gathered, items, a, q, z
<1>9. CASE poll.page + 1 > poll.last
  <2> DEFINE b == IF n <= q + PageSize THEN n ELSE q + PageSize
  <2>1. b \in Nat /\ (a + 1 .. q) \union Span(q, n) = a + 1 .. b
    BY <1>3, <1>5, <1>7 DEF Span
  <2>2. \E c \in Nat : DOMAIN items = a + 1 .. c
    BY <1>6, <2>1
  <2> QED BY <1>1, <1>2, <1>4, <1>9, <2>2 DEF Gathered, items, a, q, z
<1> QED BY <1>1, <1>8, <1>9

LEMMA NextFirstPagePaged ==
    ASSUME Shapes, NEW items, NEW p, NEW start, NEW last, NEW sends,
           Gathered(items, p, start, last),
           NextFirstPage(items, p, start, last, sends),
           UNCHANGED <<log, earlier>>
    PROVE  Paged'
<1> USE DEF Shapes, Gathered
<1>1. CASE p <= last
  <2>1. poll' = [kind |-> "page", page |-> p, start |-> start, last |-> last,
                 items |-> items, canSend |-> sends, answer |-> NoAnswer]
        /\ UNCHANGED firstPage
    BY <1>1 DEF NextFirstPage, reach
  <2>2. /\ poll'.kind = "page" /\ poll'.page = p /\ poll'.start = start /\ poll'.last = last
        /\ poll'.items = items /\ poll'.answer.come = FALSE
    BY <2>1 DEF NoAnswer
  <2>3. PollPaged'
    BY <1>1, <2>1, <2>2 DEF PollPaged
  <2>4. EarlierPaged'
    BY <2>1 DEF Paged, EarlierPaged
  <2> QED BY <2>1, <2>3, <2>4 DEF Paged
<1>2. CASE p > last
  <2>1. poll' = Idle /\ firstPage' = start
    BY <1>2 DEF NextFirstPage, OpenWith, PollSucceeds
  <2>2. PollPaged'
    BY <2>1 DEF PollPaged, Idle
  <2>3. EarlierPaged'
    BY <2>1 DEF Paged, EarlierPaged
  <2> QED BY <2>1, <2>2, <2>3 DEF Paged
<1> QED BY <1>1, <1>2

LEMMA latestMessagesPaged == ASSUME Shapes, latestMessages PROVE Paged'
<1>1. UNCHANGED <<log, earlier>>
  BY DEF latestMessages, server
<1>2. CASE poll.kind = "first"
  <2> DEFINE start == firstShownPage(poll.answer.total)
             items == IF start = 1 THEN poll.answer.items ELSE NoCopies
             p == Max({start, 2})
             last == pageCount(poll.answer.total)
  <2>1. NextFirstPage(items, p, start, last, poll.canSend)
    BY <1>2 DEF latestMessages
  <2>2. Gathered(items, p, start, last)
    BY <1>2, FirstPageGathers
  <2> HIDE DEF start, items, p, last
  <2> QED BY <1>1, <2>1, <2>2, NextFirstPagePaged
<1>3. CASE poll.kind = "page"
  <2> DEFINE items == mergeMessages(poll.items, poll.answer.items)
             p == poll.page + 1
  <2>1. NextFirstPage(items, p, poll.start, poll.last, poll.canSend)
    BY <1>3 DEF latestMessages
  <2>2. Gathered(items, p, poll.start, poll.last)
    BY <1>3, NextPageGathers
  <2> HIDE DEF items, p
  <2> QED BY <1>1, <2>1, <2>2, NextFirstPagePaged
<1> QED BY <1>2, <1>3 DEF latestMessages

LEMMA newMessagesPaged == ASSUME Shapes, newMessages PROVE Paged'
<1> USE DEF newMessages, server, reach, Shapes
<1> DEFINE items == mergeMessages(poll.items, poll.answer.items)
           page == DOMAIN poll.answer.items
<1>1. /\ poll \in [kind : {"newer"}, after : Nat, step : Nat, items : Copies,
                   answer : Answers]
      /\ loaded /\ poll.after <= Len(log) /\ Len(log) \in Nat
      /\ \A j \in DOMAIN poll.items : j <= poll.after
      /\ \E n \in 0 .. Len(log) : page = Span(poll.after, n)
  BY PollShapes DEF Typed, Paged, PollPaged
<1>2. CASE poll' = Idle
  BY <1>2, PollEnds
<1>3. CASE /\ page # {}
           /\ poll' = [poll EXCEPT !.after = Max(page), !.step = @ + 1,
                                   !.items = items, !.answer = NoAnswer]
  <2>1. PICK n \in 0 .. Len(log) : page = Span(poll.after, n)
    BY <1>1
  <2>2. page \in SUBSET (0 .. Len(log)) /\ \A j \in page : j > poll.after
    BY <1>1, <2>1 DEF Span
  <2>3. Max(page) \in page /\ \A j \in page : j <= Max(page)
    BY <1>1, <1>3, <2>2, GreatestMessage
  <2>4. DOMAIN items = DOMAIN poll.items \union page
    BY DEF mergeMessages
  <2>5. DOMAIN poll.items \subseteq Nat
    BY <1>1, CopiesAre DEF Ids
  <2> HIDE DEF page, items
  <2>6. \A j \in DOMAIN items : j <= Max(page)
    BY <1>1, <2>2, <2>3, <2>4, <2>5
  <2>7. /\ poll'.kind = "newer" /\ poll'.after = Max(page) /\ poll'.items = items
        /\ poll'.answer.come = FALSE
    BY <1>1, <1>3 DEF NoAnswer
  <2>8. Max(page) <= Len(log)
    BY <1>1, <2>2, <2>3
  <2>9. PollPaged'
    BY <1>1, <2>6, <2>7, <2>8 DEF PollPaged
  <2>10. EarlierPaged'
    BY DEF Paged, EarlierPaged
  <2> QED BY <2>9, <2>10 DEF Paged
<1> QED BY <1>2, <1>3 DEF PollSucceeds

LEMMA EarliersPaged ==
    ASSUME Shapes, loadEarlier \/ EarlierReceive \/ EarlierFails
    PROVE  Paged'
<1> USE DEF server, reach, Shapes
<1>0. firstPage \in Nat /\ 1 <= firstPage /\ firstPage <= firstShownPage(Len(log))
      /\ firstShownPage(Len(log)) \in Nat
  BY FirstShownBounds DEF Paged, Typed
<1>1. CASE loadEarlier
  <2> DEFINE p == firstPage - 1
  <2>1. p \in Nat /\ 1 <= p /\ p < firstPage
    BY <1>0, <1>1 DEF loadEarlier
  <2>2. earlier'.page = p /\ earlier'.items = listMessages(p).items
    BY <1>1 DEF loadEarlier
  <2> HIDE DEF p
  <2>3. DOMAIN earlier'.items = Span(Base(p), Len(log))
    BY <2>1, <2>2, ServedPages DEF Typed
  <2>4. Base(p + 1) = Base(p) + PageSize
    BY <2>1, ChatAssumption DEF Base
  <2>5. EarlierPaged'
    BY <1>1, <2>1, <2>2, <2>3, <2>4 DEF EarlierPaged, Span, loadEarlier
  <2>6. PollPaged'
    BY <1>1 DEF loadEarlier, Paged, PollPaged
  <2> QED BY <1>0, <1>1, <2>5, <2>6 DEF Paged, loadEarlier
<1>2. CASE EarlierReceive
  <2>1. earlier # NoPage /\ firstPage' = earlier.page /\ UNCHANGED <<poll, loaded, log>>
        /\ earlier' = NoPage
    BY <1>2 DEF EarlierReceive
  <2>2. firstPage' \in Nat /\ 1 <= firstPage' /\ firstPage' < firstPage
    BY <2>1 DEF Paged, EarlierPaged
  <2>3. EarlierPaged'
    BY <2>1 DEF EarlierPaged
  <2>4. PollPaged'
    <3>1. CASE poll.kind = "first" /\ poll.answer.come
      <4>1. poll.answer.total \in Nat
        BY <3>1 DEF Paged, PollPaged, Typed
      <4>2. firstShownPage(poll.answer.total) \in Nat
        BY <4>1, FirstShownBounds
      <4> QED BY <1>0, <2>1, <2>2, <3>1, <4>2 DEF Paged, PollPaged
    <3>2. CASE poll.kind = "page"
      <4>1. poll.start \in Nat
        BY <3>2, PollShapes DEF Typed
      <4> QED BY <1>0, <2>1, <2>2, <3>2, <4>1 DEF Paged, PollPaged
    <3> QED BY <2>1, <3>1, <3>2 DEF Paged, PollPaged
  <2> QED BY <1>0, <2>1, <2>2, <2>3, <2>4 DEF Paged
<1>3. CASE EarlierFails
  <2>1. EarlierPaged'
    BY <1>3 DEF EarlierFails, EarlierPaged
  <2>2. PollPaged'
    BY <1>3 DEF EarlierFails, Paged, PollPaged
  <2> QED BY <1>0, <1>3, <2>1, <2>2 DEF Paged, EarlierFails
<1> QED BY <1>1, <1>2, <1>3
-----------------------------------------------------------------------------
LEMMA PollEndsPaged ==
    ASSUME Shapes, PollFails \/ RetryAfterError \/ SafetyChanged
    PROVE  Paged'
BY PollEnds DEF PollFails, RetryAfterError, SafetyChanged, retry, server, reach

LEMMA PagedStep == ASSUME Shapes, Typed', [Next]_vars PROVE Paged'
<1>1. CASE PollStart \/ PollServe \/ latestMessages \/ newMessages \/ PollFails
  BY <1>1, PollStartPaged, PollServePaged, latestMessagesPaged, newMessagesPaged, PollEndsPaged
<1>2. CASE RetryAfterError \/ SafetyChanged
  BY <1>2, PollEndsPaged
<1>3. CASE loadEarlier \/ EarlierReceive \/ EarlierFails
  BY <1>3, EarliersPaged
<1>4. CASE \/ MarkServe \/ MarkReceive \/ MarkFails
           \/ submit \/ sendMessage \/ SendRefused \/ SendFails
           \/ ShowOrHide \/ PartnerActs \/ UNCHANGED vars
  <2>1. UNCHANGED <<firstPage, earlier, poll, loaded>>
    BY <1>4 DEF MarkServe, MarkReceive, MarkFails, submit, sendMessage, SendRefused, SendFails,
             ShowOrHide, PartnerActs, vars, reach
  <2>2. log' = log \/ \E a : log' = Append(log, a)
    BY <1>4 DEF MarkServe, MarkReceive, MarkFails, submit, sendMessage, SendRefused, SendFails,
             ShowOrHide, PartnerActs, vars, server
  <2>3. log' \in Seq({Me, Partner}) /\ Len(log) <= Len(log')
    BY <2>2 DEF Shapes, Typed
  <2> QED BY <2>1, <2>3, PagesStay
<1> QED BY <1>1, <1>2, <1>3, <1>4 DEF Next

-----------------------------------------------------------------------------
(* What is shown after a message that is not. *)
OnlyOwnAfter(i) == \A j \in DOMAIN list : j > i => log[j] = Me /\ ~list[j]

(* A poll begins before every message that is not shown and not overtaken. *)
PollFollows ==
    poll.kind = "newer" =>
        \A i \in Since \ DOMAIN list :
            i <= poll.after /\ i \notin DOMAIN poll.items => Overtaken(i)

Followed ==
    loaded =>
        /\ opened \in Nat
        /\ opened > 0 => opened \in DOMAIN list /\ Base(firstPage) < opened
        /\ \A i \in Since \ DOMAIN list : OnlyOwnAfter(i) \/ Overtaken(i)
        /\ PollFollows

SentIsOwn == sending.phase = "stored" => log[sending.id] = Me

Placed == Shapes /\ Followed /\ SentIsOwn

LEMMA ListIsStored == ASSUME Coherent PROVE DOMAIN list \subseteq Stored
BY DEF Coherent, True, TrueIn, Stored

(* The anchor in a loaded chat. *)
LEMMA AnchorFollows ==
    ASSUME Placed, loaded, NEW i \in Since \ DOMAIN list, i <= pollAnchor(list)
    PROVE  Overtaken(i)
<1> SUFFICES ASSUME ~ Overtaken(i) PROVE FALSE
  OBVIOUS
<1>1. /\ DOMAIN list \subseteq Stored /\ log \in Seq({Me, Partner})
      /\ i \in Nat /\ i \notin DOMAIN list
      /\ opened \in DOMAIN list /\ opened < i
      /\ OnlyOwnAfter(i)
  BY ListIsStored DEF Placed, Shapes, Typed, Followed, Since, Stored
<1>2. Cardinality({j \in DOMAIN list : j > i /\ log[j] = Me}) <= PageSize
  <2> DEFINE S == {j \in DOMAIN list : j > i /\ log[j] = Me}
  <2>1. S \subseteq 1 .. Len(log) /\ Len(log) \in Nat
    BY <1>1 DEF Stored
  <2>2. IsFiniteSet(1 .. Len(log))
    BY <2>1, FS_Interval
  <2>3. Cardinality(S) \in Nat /\ PageSize \in Nat
    BY <2>1, <2>2, FS_Subset, FS_CardinalityType, ChatAssumption
  <2>4. ~ (Cardinality(S) > PageSize)
    BY DEF Overtaken
  <2> HIDE DEF S
  <2>5. Cardinality(S) <= PageSize
    BY <2>3, <2>4
  <2> QED BY <2>5 DEF S
<1>3. pollAnchor(list) < i
  BY <1>1, <1>2, AnchorStaysBefore DEF OnlyOwnAfter
<1>4. pollAnchor(list) \in Nat
  <2>1. list # NoCopies => DOMAIN list # {}
    BY NoneAreCopies DEF Placed, Shapes, Typed
  <2>2. pollAnchor(list) \in 0 .. Len(log) /\ Len(log) \in Nat
    BY <1>1, <2>1, AnchorIsShown
  <2> QED BY <2>2
<1> QED BY <1>1, <1>3, <1>4

(* What is overtaken stays so while the list only grows. *)
LEMMA StaysOvertaken ==
    ASSUME Coherent, Coherent', Len(log) <= Len(log'), \A j \in Stored : log'[j] = log[j],
           DOMAIN list \subseteq DOMAIN list', NEW i, Overtaken(i)
    PROVE  Overtaken(i)'
<1> DEFINE S == {j \in DOMAIN list : j > i /\ log[j] = Me}
           T == {j \in DOMAIN list' : j > i /\ log'[j] = Me}
<1>1. S \subseteq T
  BY ListIsStored
<1>2. DOMAIN list' \subseteq 1 .. Len(log') /\ Len(log') \in Nat
  BY DEF Coherent, True, TrueIn
<1>3. IsFiniteSet(T)
  <2>1. IsFiniteSet(1 .. Len(log'))
    BY <1>2, FS_Interval
  <2> QED BY <1>2, <2>1, FS_Subset
<1>4. /\ Cardinality(S) <= Cardinality(T)
      /\ Cardinality(S) \in Nat /\ Cardinality(T) \in Nat /\ PageSize \in Nat
  BY <1>1, <1>3, FS_Subset, FS_CardinalityType, ChatAssumption
<1>5. Cardinality(S) > PageSize
  BY DEF Overtaken
<1> HIDE DEF S, T
<1>6. Cardinality(T) > PageSize
  BY <1>4, <1>5
<1> QED BY <1>6 DEF T, Overtaken

-----------------------------------------------------------------------------
(* The list, step by step. *)

(* Steps after which the same is shown; the log may have grown. *)
LEMMA SameIsShown ==
    ASSUME Placed, Coherent', Typed', Len(log) <= Len(log'), \A j \in Stored : log'[j] = log[j],
           DOMAIN list' = DOMAIN list,
           \A j \in DOMAIN list : log[j] = Me => list'[j] = list[j],
           UNCHANGED <<loaded, reach>>,
           loaded /\ poll'.kind = "newer" =>
                /\ poll'.after <= Len(log)
                /\ \A i \in Since \ DOMAIN list :
                      i <= poll'.after /\ i \notin DOMAIN poll'.items => Overtaken(i)
    PROVE  Followed'
<1> SUFFICES ASSUME loaded PROVE Followed'
  BY DEF Followed
<1> USE DEF Placed, Shapes, reach
<1>1. opened' \in Nat /\ (opened' > 0 => opened' \in DOMAIN list' /\ Base(firstPage') < opened')
  BY DEF Followed
<1>2. \A i : Overtaken(i) => Overtaken(i)'
  BY StaysOvertaken
<1>3. /\ DOMAIN list \subseteq Stored /\ Len(log) \in Nat /\ Len(log') \in Nat
      /\ \A i \in Since' : i \in Since \/ i > Len(log)
  BY ListIsStored DEF Since, Stored, Typed
<1>4. ASSUME NEW i \in Since' \ DOMAIN list'
      PROVE  OnlyOwnAfter(i)' \/ Overtaken(i)'
  <2>1. CASE i \in Since
    <3>1. OnlyOwnAfter(i) \/ Overtaken(i)
      BY <2>1 DEF Followed
    <3>2. OnlyOwnAfter(i) => OnlyOwnAfter(i)'
      BY <1>3 DEF OnlyOwnAfter
    <3> QED BY <1>2, <3>1, <3>2
  <2>2. CASE i > Len(log)
    <3>1. \A j \in DOMAIN list' : ~ (j > i)
      BY <1>3, <2>2 DEF Since, Stored
    <3> QED BY <3>1 DEF OnlyOwnAfter
  <2> QED BY <1>3, <2>1, <2>2
<1>5. PollFollows'
  <2> SUFFICES ASSUME poll'.kind = "newer", NEW i \in Since' \ DOMAIN list',
                      i <= poll'.after, i \notin DOMAIN poll'.items
               PROVE  Overtaken(i)'
    BY DEF PollFollows
  <2>1. poll'.after \in Nat
    BY DEF Typed, PollTyped, Idle
  <2>2. i \in Since
    BY <1>3, <2>1 DEF Since, Stored
  <2> QED BY <1>2, <2>2
<1> QED BY <1>1, <1>4, <1>5 DEF Followed

(* A poll that was under way goes on. *)
LEMMA SamePoll ==
    ASSUME Placed, poll' = poll
    PROVE  loaded /\ poll'.kind = "newer" =>
                /\ poll'.after <= Len(log)
                /\ \A i \in Since \ DOMAIN list :
                      i <= poll'.after /\ i \notin DOMAIN poll'.items => Overtaken(i)
BY DEF Placed, Shapes, Paged, PollPaged, Followed, PollFollows

LEMMA QuietSteps ==
    ASSUME Placed, Coherent', Typed',
           \/ MarkServe \/ MarkReceive \/ MarkFails
           \/ submit \/ SendRefused \/ SendFails
           \/ loadEarlier \/ EarlierFails
           \/ ShowOrHide \/ PartnerActs \/ UNCHANGED vars
    PROVE  Followed'
<1> USE DEF MarkServe, MarkReceive, MarkFails, submit, SendRefused, SendFails, loadEarlier,
            EarlierFails, ShowOrHide, PartnerActs, vars, server
<1>1. UNCHANGED <<loaded, reach, poll>>
  OBVIOUS
<1>2. log' = log \/ \E a : log' = Append(log, a)
  OBVIOUS
<1>3. Len(log) <= Len(log') /\ \A j \in Stored : log'[j] = log[j]
  BY <1>2 DEF Placed, Shapes, Typed, Stored
<1>4. /\ DOMAIN list' = DOMAIN list
      /\ \A j \in DOMAIN list : log[j] = Me => list'[j] = list[j]
  <2>1. CASE list' = list
    BY <2>1
  <2>2. CASE list' = [i \in DOMAIN list |-> list[i] \/ isIncomingUnread(list, i)]
    <3>1. DOMAIN list' = DOMAIN list
      BY <2>2
    <3>2. ASSUME NEW j \in DOMAIN list, log[j] = Me PROVE list'[j] = list[j]
      <4>1. list'[j] = (list[j] \/ FALSE)
        BY <2>2, <3>2 DEF isIncomingUnread
      <4>2. list[j] \in BOOLEAN
        BY CopiesAre DEF Placed, Shapes, Typed
      <4> QED BY <4>1, <4>2
    <3> QED BY <3>1, <3>2
  <2> QED BY <2>1, <2>2
<1> QED BY <1>1, <1>3, <1>4, SamePoll, SameIsShown

LEMMA PollMoves ==
    ASSUME Placed, Coherent', Typed', PollStart \/ PollServe \/ PollFails
    PROVE  Followed'
<1> USE DEF PollStart, PollServe, PollFails, server
<1>1. /\ UNCHANGED <<loaded, reach, list, log>>
      /\ Len(log) <= Len(log')
  BY DEF reach, Placed, Shapes, Typed
<1>2. CASE PollStart /\ loaded
  <2>1. poll' = [kind |-> "newer", after |-> pollAnchor(list), step |-> 1,
                 items |-> NoCopies, answer |-> NoAnswer]
    BY <1>2
  <2>2. pollAnchor(list) <= Len(log)
    <3>1. DOMAIN list \subseteq Stored /\ (list # NoCopies => DOMAIN list # {})
      BY NoneAreCopies, ListIsStored DEF Placed, Shapes, Typed
    <3>2. pollAnchor(list) \in 0 .. Len(log)
      BY <3>1, AnchorIsShown DEF Placed, Shapes, Typed
    <3> QED BY <3>2 DEF Placed, Shapes, Typed
  <2> HIDE DEF PollStart, PollServe, PollFails
  <2> QED BY <1>1, <1>2, <2>1, <2>2, AnchorFollows, SameIsShown
<1>3. CASE PollServe
  <2>1. /\ poll'.kind = poll.kind
        /\ poll.kind = "newer" => poll'.after = poll.after /\ poll'.items = poll.items
    <3>1. poll.kind \in {"first", "page", "newer"}
      BY <1>3, PollShapes DEF Placed, Shapes, Typed
    <3>2. CASE poll.kind = "first"
      <4>1. poll' = [poll EXCEPT !.answer = listMessages(1), !.canSend = ~shut]
        BY <1>3, <3>2
      <4> QED BY <3>2, <4>1, PollShapes DEF Placed, Shapes, Typed
    <3>3. CASE poll.kind = "page"
      <4>1. poll' = [poll EXCEPT !.answer = listMessages(poll.page)]
        BY <1>3, <3>3
      <4> QED BY <3>3, <4>1, PollShapes DEF Placed, Shapes, Typed
    <3>4. CASE poll.kind = "newer"
      <4>1. poll' = [poll EXCEPT !.answer = IF poll.after = 0 THEN listMessages(1)
                                            ELSE messagesAfter(poll.after)]
        BY <1>3, <3>4
      <4> QED BY <3>4, <4>1, PollShapes DEF Placed, Shapes, Typed
    <3> QED BY <3>1, <3>2, <3>3, <3>4
  <2> HIDE DEF PollStart, PollServe, PollFails
  <2>2. poll.kind = "newer" => poll.after <= Len(log)
    BY DEF Placed, Shapes, Paged, PollPaged
  <2>3. loaded => PollFollows
    BY DEF Placed, Followed
  <2> QED BY <1>1, <2>1, <2>2, <2>3, SameIsShown DEF PollFollows
<1>4. CASE PollFails
  <2>1. poll'.kind = "idle"
    BY <1>4 DEF Idle
  <2> HIDE DEF PollStart, PollServe, PollFails
  <2> QED BY <1>1, <2>1, SameIsShown
<1>5. CASE ~loaded
  BY <1>1, <1>5 DEF Followed
<1> QED BY <1>2, <1>3, <1>4, <1>5

(* The answer to a send: an own message, unread. *)
LEMMA SendIsShown == ASSUME Placed, Coherent', Typed', sendMessage PROVE Followed'
<1> SUFFICES ASSUME loaded PROVE Followed'
  BY DEF Followed, sendMessage
<1> USE DEF Placed, Shapes
<1>1. /\ sending.phase = "stored" /\ UNCHANGED <<log, loaded, opened, firstPage, poll>>
      /\ list' = mergeMessages(list, [i \in {sending.id} |-> FALSE])
  BY DEF sendMessage, server, reach
<1>2. /\ DOMAIN list' = DOMAIN list \union {sending.id}
      /\ \A j \in DOMAIN list' : list'[j] = IF j = sending.id THEN FALSE ELSE list[j]
  BY <1>1 DEF mergeMessages
<1>3. log[sending.id] = Me
  BY <1>1 DEF SentIsOwn
<1>4. \A i : Overtaken(i) => Overtaken(i)'
  <2>1. /\ Len(log) <= Len(log') /\ \A j \in Stored : log'[j] = log[j]
        /\ DOMAIN list \subseteq DOMAIN list'
    BY <1>1, <1>2 DEF Typed
  <2> QED BY <2>1, StaysOvertaken
<1>5. \A i : OnlyOwnAfter(i) => OnlyOwnAfter(i)'
  BY <1>1, <1>2, <1>3 DEF OnlyOwnAfter
<1>6. Since' = Since
  BY <1>1 DEF Since, Stored
<1>7. PollFollows'
  BY <1>1, <1>2, <1>4, <1>6 DEF Followed, PollFollows
<1> QED BY <1>1, <1>2, <1>4, <1>5, <1>6, <1>7 DEF Followed

(* An earlier page is before everything the chat opened with. *)
LEMMA EarlierIsShown == ASSUME Placed, Coherent', Typed', EarlierReceive PROVE Followed'
<1> SUFFICES ASSUME loaded PROVE Followed'
  BY DEF Followed, EarlierReceive
<1> USE DEF Placed, Shapes
<1>1. /\ UNCHANGED <<log, loaded, opened, poll>> /\ earlier # NoPage
      /\ firstPage' = earlier.page
      /\ list' = mergeMessages(list, earlier.items)
  BY DEF EarlierReceive, server
<1>2. /\ DOMAIN list' = DOMAIN list \union DOMAIN earlier.items
      /\ \A j \in DOMAIN list' : j \notin DOMAIN earlier.items => list'[j] = list[j]
  BY <1>1 DEF mergeMessages
<1>3. /\ earlier.page \in Nat /\ 1 <= earlier.page /\ earlier.page < firstPage
      /\ firstPage \in Nat /\ opened \in Nat
      /\ \A j \in DOMAIN earlier.items : j <= Base(earlier.page + 1)
      /\ DOMAIN earlier.items \subseteq Nat
  BY <1>1, CopiesAre DEF Paged, EarlierPaged, Followed, Typed, Ids
<1>4. opened > 0 => opened \in DOMAIN list /\ Base(firstPage) < opened
  BY DEF Followed
<1>5. /\ Base(earlier.page) \in Int /\ Base(earlier.page + 1) \in Int /\ Base(firstPage) \in Int
      /\ Base(earlier.page) <= Base(firstPage) /\ Base(earlier.page + 1) <= Base(firstPage)
  <2>1. \A p, q \in Int : p <= q => Base(p) \in Int /\ Base(q) \in Int /\ Base(p) <= Base(q)
    BY Bases, ChatAssumption DEF Base
  <2>2. earlier.page + 1 \in Int /\ earlier.page + 1 <= firstPage /\ earlier.page <= firstPage
    BY <1>3
  <2> QED BY <1>3, <2>1, <2>2
<1>6. opened > 0 => \A j \in DOMAIN earlier.items : j < opened
  BY <1>3, <1>4, <1>5
<1>7. \A i : Overtaken(i) => Overtaken(i)'
  <2>1. /\ Len(log) <= Len(log') /\ \A j \in Stored : log'[j] = log[j]
        /\ DOMAIN list \subseteq DOMAIN list'
    BY <1>1, <1>2 DEF Typed
  <2> QED BY <2>1, StaysOvertaken
<1>8. \A i \in Since : OnlyOwnAfter(i) => OnlyOwnAfter(i)'
  BY <1>1, <1>2, <1>3, <1>6 DEF OnlyOwnAfter, Since, Stored
<1>9. Since' = Since
  BY <1>1 DEF Since, Stored
<1>10. PollFollows'
  BY <1>1, <1>2, <1>7, <1>9 DEF Followed, PollFollows
<1>11. opened' > 0 => opened' \in DOMAIN list' /\ Base(firstPage') < opened'
  BY <1>1, <1>2, <1>3, <1>4, <1>5
<1> QED BY <1>1, <1>2, <1>3, <1>7, <1>8, <1>9, <1>10, <1>11 DEF Followed

(* The end of a poll: what it brings is whole from where it began. *)
LEMMA newMessagesFollowed == ASSUME Placed, Coherent', Typed', newMessages PROVE Followed'
<1> USE DEF Placed, Shapes
<1> DEFINE items == mergeMessages(poll.items, poll.answer.items)
           page == DOMAIN poll.answer.items
<1>1. /\ poll \in [kind : {"newer"}, after : Nat, step : Nat, items : Copies,
                   answer : Answers]
      /\ loaded /\ poll.after <= Len(log) /\ Len(log) \in Nat
      /\ \A j \in DOMAIN poll.items : j <= poll.after
      /\ DOMAIN poll.items \subseteq Nat
      /\ UNCHANGED <<log, loaded, opened, firstPage>>
  BY PollShapes, CopiesAre DEF Typed, Paged, PollPaged, newMessages, server, reach, Ids
<1>2. PICK n \in 0 .. Len(log) : page = Span(poll.after, n)
  BY <1>1 DEF newMessages, Paged, PollPaged
<1>3. /\ \A i \in Since \ DOMAIN list :
            i <= poll.after /\ i \notin DOMAIN poll.items => Overtaken(i)
      /\ \A i \in Since \ DOMAIN list : OnlyOwnAfter(i) \/ Overtaken(i)
      /\ opened \in Nat /\ (opened > 0 => opened \in DOMAIN list /\ Base(firstPage) < opened)
  BY <1>1 DEF Followed, PollFollows
<1>4. DOMAIN items = DOMAIN poll.items \union page
  BY DEF mergeMessages
<1>5. PageSize \in Nat
  BY ChatAssumption
<1>6. CASE PollSucceeds(mergeMessages(list, items))
  <2>1. poll' = Idle /\ list' = mergeMessages(list, items)
    BY <1>6 DEF PollSucceeds
  <2> HIDE DEF page, items
  <2>2. /\ DOMAIN list' = DOMAIN list \union DOMAIN items
        /\ \A j \in DOMAIN list : j \notin DOMAIN items => list'[j] = list[j]
    BY <2>1 DEF mergeMessages
  <2>3. \A i : Overtaken(i) => Overtaken(i)'
    <3>1. /\ Len(log) <= Len(log') /\ \A j \in Stored : log'[j] = log[j]
          /\ DOMAIN list \subseteq DOMAIN list'
      BY <1>1, <2>2
    <3> QED BY <3>1, StaysOvertaken
  <2>4. Since' = Since
    BY <1>1 DEF Since, Stored
  <2>5. ASSUME NEW i \in Since \ DOMAIN list', ~ Overtaken(i)
        PROVE  OnlyOwnAfter(i)'
    <3>1. /\ i \in Nat /\ i \notin DOMAIN list /\ i \notin DOMAIN poll.items /\ i \notin page
          /\ i >= 1 /\ i <= Len(log)
      BY <1>1, <1>4, <2>2 DEF Since, Stored
    <3>2. i > poll.after /\ OnlyOwnAfter(i)
      BY <1>1, <1>3, <2>5, <3>1
    <3>3. \A j \in page : j < i
      BY <1>1, <1>2, <1>5, <3>1, <3>2 DEF Span
    <3>4. \A j \in DOMAIN items : j < i
      BY <1>1, <1>4, <3>1, <3>2, <3>3
    <3>5. DOMAIN items \subseteq Nat
      <4>1. page \subseteq Nat /\ DOMAIN poll.items \subseteq Nat
        BY <1>1, <1>2 DEF Span
      <4> QED BY <1>4, <4>1
    <3>6. \A j \in DOMAIN items : ~ (j > i)
      BY <3>1, <3>4, <3>5
    <3>7. \A j \in DOMAIN list' : j > i => j \in DOMAIN list /\ j \notin DOMAIN items
      BY <2>2, <3>6
    <3>8. \A j \in DOMAIN list : j > i => log[j] = Me /\ ~list[j]
      BY <3>2 DEF OnlyOwnAfter
    <3>9. \A j \in DOMAIN list' : j > i => log'[j] = Me /\ list'[j] = list[j] /\ ~list[j]
      BY <1>1, <2>2, <3>7, <3>8
    <3> QED BY <3>9 DEF OnlyOwnAfter
  <2>6. PollFollows'
    BY <2>1 DEF PollFollows, Idle
  <2> QED BY <1>1, <1>3, <2>2, <2>3, <2>4, <2>5, <2>6 DEF Followed
<1>7. CASE /\ page # {}
           /\ poll' = [poll EXCEPT !.after = Max(page), !.step = @ + 1,
                                   !.items = items, !.answer = NoAnswer]
           /\ UNCHANGED list
  <2>1. /\ poll'.after = Max(page) /\ poll'.items = items
    BY <1>1, <1>7
  <2>2. page \in SUBSET (0 .. Len(log))
    BY <1>1, <1>2 DEF Span
  <2> HIDE DEF page, items
  <2>3. Max(page) \in page
    BY <1>1, <1>7, <2>2, GreatestMessage
  <2>4. Max(page) <= Len(log)
    <3>1. Max(page) \in 0 .. Len(log)
      BY <2>2, <2>3
    <3> QED BY <1>1, <3>1
  <2>5. ASSUME NEW i \in Since \ DOMAIN list, i <= Max(page), i \notin DOMAIN items
        PROVE  Overtaken(i)
    <3>1. i \in Nat /\ i >= 1 /\ i \notin DOMAIN poll.items /\ i \notin page
      BY <1>4, <2>5 DEF Since, Stored
    <3>2. i <= poll.after
      BY <1>1, <1>2, <1>5, <2>3, <2>5, <3>1 DEF Span
    <3> QED BY <1>3, <3>1, <3>2
  <2> QED BY <1>1, <1>7, <2>1, <2>4, <2>5, SameIsShown DEF reach
<1> QED BY <1>6, <1>7 DEF newMessages

(* A chat opens with pages that lack nothing. *)
LEMMA NextFirstPageFollowed ==
    ASSUME Placed, ~loaded, NEW items, NEW p, NEW start, NEW last, NEW sends,
           Gathered(items, p, start, last),
           NextFirstPage(items, p, start, last, sends),
           UNCHANGED log
    PROVE  Followed'
<1>1. CASE p <= last
  <2>1. ~loaded'
    BY <1>1 DEF NextFirstPage
  <2> QED BY <2>1 DEF Followed
<1>2. CASE p > last
  <2>1. /\ poll' = Idle /\ list' = items /\ firstPage' = start
        /\ opened' = IF items = NoCopies THEN 0 ELSE Min(DOMAIN items)
    BY <1>2 DEF Gathered, NextFirstPage, OpenWith, PollSucceeds
  <2>2. PICK b \in Nat : DOMAIN items = Base(start) + 1 .. b
    BY <1>2 DEF Gathered
  <2>3. start \in Nat /\ 1 <= start /\ items \in Copies /\ Base(start) \in Int /\ 0 <= Base(start)
    <3>1. start \in Nat /\ 1 <= start /\ items \in Copies
      BY DEF Gathered
    <3>2. start \in Int /\ start <= start
      BY <3>1
    <3> QED BY <3>1, <3>2, Bases
  <2>4. PollFollows'
    BY <2>1 DEF PollFollows, Idle
  <2>5. CASE items = NoCopies
    <3>1. opened' = 0
      BY <2>1, <2>5
    <3>2. Since' = {}
      BY <3>1 DEF Since
    <3> QED BY <2>4, <3>1, <3>2 DEF Followed
  <2>6. CASE items # NoCopies
    <3>1. DOMAIN items \in SUBSET Nat /\ DOMAIN items # {}
      BY <2>2, <2>3, <2>6, NoneAreCopies
    <3>2. opened' \in DOMAIN items
      BY <2>1, <2>6, <3>1, LeastMessage
    <3>3. opened' \in Nat /\ Base(firstPage') < opened'
      BY <2>1, <2>2, <2>3, <3>2
    <3>4. \A i \in Since' \ DOMAIN list' : OnlyOwnAfter(i)'
      <4>1. SUFFICES ASSUME NEW i \in Since' \ DOMAIN list' PROVE \A j \in DOMAIN list' : ~ (j > i)
        BY DEF OnlyOwnAfter
      <4>2. i \in Nat /\ opened' < i
        BY DEF Since, Stored
      <4> QED BY <2>1, <2>2, <2>3, <3>2, <3>3, <4>2
    <3> QED BY <2>1, <2>4, <3>2, <3>3, <3>4 DEF Followed
  <2> QED BY <2>5, <2>6
<1>3. p \in Nat /\ last \in Nat
  BY DEF Gathered
<1> QED BY <1>1, <1>2, <1>3

LEMMA latestMessagesFollowed == ASSUME Placed, latestMessages PROVE Followed'
<1>1. UNCHANGED log /\ ~loaded
  BY DEF latestMessages, server, Placed, Shapes, Coherent, PollIsTrue
<1>2. CASE poll.kind = "first"
  <2> DEFINE start == firstShownPage(poll.answer.total)
             items == IF start = 1 THEN poll.answer.items ELSE NoCopies
             p == Max({start, 2})
             last == pageCount(poll.answer.total)
  <2>1. NextFirstPage(items, p, start, last, poll.canSend)
    BY <1>2 DEF latestMessages
  <2>2. Gathered(items, p, start, last)
    BY <1>2, FirstPageGathers DEF Placed
  <2> HIDE DEF start, items, p, last
  <2> QED BY <1>1, <2>1, <2>2, NextFirstPageFollowed
<1>3. CASE poll.kind = "page"
  <2> DEFINE items == mergeMessages(poll.items, poll.answer.items)
             p == poll.page + 1
  <2>1. NextFirstPage(items, p, poll.start, poll.last, poll.canSend)
    BY <1>3 DEF latestMessages
  <2>2. Gathered(items, p, poll.start, poll.last)
    BY <1>3, NextPageGathers DEF Placed
  <2> HIDE DEF items, p
  <2> QED BY <1>1, <2>1, <2>2, NextFirstPageFollowed
<1> QED BY <1>2, <1>3 DEF latestMessages

LEMMA SentStaysOwn == ASSUME Placed, [Next]_vars PROVE SentIsOwn'
<1> USE DEF Placed, Shapes, SentIsOwn
<1>1. CASE submit
  BY <1>1 DEF submit, Typed
<1>2. CASE PartnerActs
  <2>1. sending' = sending /\ (log' = log \/ log' = Append(log, Partner))
    BY <1>2 DEF PartnerActs
  <2>2. sending.phase = "stored" => sending.id \in Stored
    BY DEF Coherent, SendingIsStored
  <2> QED BY <2>1, <2>2 DEF Typed, Stored
<1>3. CASE ~submit /\ ~PartnerActs
  <2>1. log' = log
    BY <1>3 DEF Next, vars, server, PollStart, PollServe, latestMessages, newMessages, PollFails,
             MarkServe, MarkReceive, MarkFails, RetryAfterError, SafetyChanged, retry,
             sendMessage, SendRefused, SendFails, loadEarlier, EarlierReceive, EarlierFails,
             ShowOrHide
  <2>2. \/ sending' = sending
        \/ sending' = [sending EXCEPT !.mounted = FALSE]
        \/ sending' = Unsent
    BY <1>3 DEF Next, vars, PollStart, PollServe, latestMessages, newMessages, PollFails,
             MarkServe, MarkReceive, MarkFails, RetryAfterError, SafetyChanged, retry,
             sendMessage, SendRefused, SendFails, loadEarlier, EarlierReceive, EarlierFails,
             ShowOrHide, CloseComposer
  <2>3. /\ sending'.phase = sending.phase /\ sending'.id = sending.id
        \/ sending'.phase = "idle"
    BY <2>2 DEF Unsent, Typed, Sendings
  <2> QED BY <2>1, <2>3
<1> QED BY <1>1, <1>2, <1>3

LEMMA PlacedHolds == Spec => []Placed
<1>1. Init => Placed
  <2> SUFFICES ASSUME Init PROVE Placed
    OBVIOUS
  <2> USE DEF Init
  <2>1. Coherent
    BY CoherentBegins
  <2>2. Typed
    <3>1. PollTyped
      BY DEF PollTyped
    <3>2. sending \in Sendings
      <4>1. 0 \in 0 .. Len(log)
        BY ChatAssumption
      <4>2. sending = [phase |-> "idle", id |-> 0, mounted |-> FALSE]
        BY DEF Unsent
      <4> QED BY <4>1, <4>2 DEF Sendings
    <3>3. list \in Copies /\ earlier.items \in Copies
      BY NoneAreCopies DEF NoPage
    <3>4. read \subseteq Stored /\ troubles \in 0 .. MaxTroubles
      BY ChatAssumption DEF Stored
    <3> QED BY <3>1, <3>2, <3>3, <3>4, ChatAssumption DEF Typed
  <2>3. Paged
    <3>1. firstPage = 1 /\ Len(log) \in Nat
      BY ChatAssumption
    <3>2. 1 <= firstShownPage(Len(log))
      BY <3>1, FirstShownBounds
    <3>3. EarlierPaged /\ PollPaged
      BY DEF EarlierPaged, PollPaged, Idle
    <3> QED BY <3>1, <3>2, <3>3 DEF Paged
  <2>4. Followed /\ SentIsOwn
    BY DEF Followed, SentIsOwn, Unsent
  <2> QED BY <2>1, <2>2, <2>3, <2>4 DEF Placed, Shapes
<1>2. Placed /\ [Next]_vars => Placed'
  <2> SUFFICES ASSUME Placed, [Next]_vars PROVE Placed'
    OBVIOUS
  <2>1. Coherent'
    BY CoherentStep DEF Placed, Shapes
  <2>2. Typed'
    BY TypedStep DEF Placed
  <2>3. Paged'
    BY <2>2, PagedStep DEF Placed
  <2>4. SentIsOwn'
    BY SentStaysOwn
  <2>5. Followed'
    <3>1. CASE PollStart \/ PollServe \/ PollFails
      BY <2>1, <2>2, <3>1, PollMoves
    <3>2. CASE latestMessages
      BY <3>2, latestMessagesFollowed
    <3>3. CASE newMessages
      BY <2>1, <2>2, <3>3, newMessagesFollowed
    <3>4. CASE RetryAfterError \/ SafetyChanged
      BY <3>4 DEF RetryAfterError, SafetyChanged, retry, Followed
    <3>5. CASE sendMessage
      BY <2>1, <2>2, <3>5, SendIsShown
    <3>6. CASE EarlierReceive
      BY <2>1, <2>2, <3>6, EarlierIsShown
    <3>7. CASE \/ MarkServe \/ MarkReceive \/ MarkFails
               \/ submit \/ SendRefused \/ SendFails
               \/ loadEarlier \/ EarlierFails
               \/ ShowOrHide \/ PartnerActs \/ UNCHANGED vars
      BY <2>1, <2>2, <3>7, QuietSteps
    <3> QED BY <3>1, <3>2, <3>3, <3>4, <3>5, <3>6, <3>7 DEF Next
  <2> QED BY <2>1, <2>2, <2>3, <2>4, <2>5 DEF Placed, Shapes
<1> QED BY <1>1, <1>2, PTL DEF Spec

(* The state of the chat stays within its types: in particular the oldest    *)
(* page loaded is a page of the log, whatever grew or was reloaded.          *)
THEOREM TypeOKHolds == Spec => []TypeOK
<1>1. Placed => TypeOK
  <2> SUFFICES ASSUME Placed PROVE TypeOK
    OBVIOUS
  <2> USE DEF Placed, Shapes
  <2>1. DOMAIN list \subseteq Stored
    BY ListIsStored
  <2>2. firstPage \in 1 .. pageCount(Len(log)) /\ earlier.page \in 0 .. firstPage
    <3>1. Len(log) \in Nat
      BY DEF Typed
    <3>2. /\ firstShownPage(Len(log)) \in Nat /\ pageCount(Len(log)) \in Nat
          /\ firstShownPage(Len(log)) <= pageCount(Len(log))
      BY <3>1, FirstShownBounds, PageCountBounds
    <3>3. firstPage \in 1 .. pageCount(Len(log))
      BY <3>2 DEF Paged
    <3>4. CASE earlier = NoPage
      BY <3>2, <3>3, <3>4 DEF Paged, NoPage
    <3>5. CASE earlier # NoPage
      BY <3>3, <3>5 DEF Paged, EarlierPaged
    <3> QED BY <3>3, <3>4, <3>5
  <2>3. poll.kind \in {"idle", "first", "page", "newer"}
    BY PollShapes DEF Typed
  <2>4. sending.phase \in {"idle", "stored", "refused"} /\ sending.id \in 0 .. Len(log)
    BY DEF Typed, Sendings
  <2> QED BY <2>1, <2>2, <2>3, <2>4 DEF Typed, TypeOK
<1> QED BY <1>1, PlacedHolds, PTL

(* useChat.ts, pollAnchor: whatever is sent, polled, lost, reloaded and paged *)
(* back, no message stored after those a chat opened with is left behind the *)
(* anchor, unless more own messages than a page were shown after it.         *)
THEOREM OnlyOvertakenSkippedHolds == Spec => []OnlyOvertakenSkipped
<1>1. Placed => OnlyOvertakenSkipped
  BY AnchorFollows DEF OnlyOvertakenSkipped
<1> QED BY <1>1, PlacedHolds, PTL
=============================================================================
