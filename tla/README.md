# SkillSwap: a formal model of the service, its web client and its runner

SkillSwap lets two students teach each other: one sends a request ("I teach you Go, you
teach me SQL, two lessons each"), the other accepts, the lessons are agreed one by one, both
confirm each lesson, both declare the exchange finished, and review each other. These modules
model three programs of the repository:

* the Go backend (`src/backend/internal`), which keeps those agreements consistent while two
  students, other students and administrators act at the same time;
* the web client (`src/frontend/app/components`), whose pages show what the server held at some
  earlier moment, poll it, and change it with requests whose answers are late, lost or refused;
* the development runner (`src/scripts/dev.mjs`), which starts and stops the processes of both.

TLC checks every property on small instances; TLAPS proves the ones that matter most for every size.

## 1. The system and its parts

| Component | State | Operations | Hard part |
|---|---|---|---|
| exchange service (`exchange/service.go`, `data/exchange.go`) | `exchange_requests`, `exchanges`, `exchange_confirmations` | create, decline, withdraw, accept a request; complete, cancel an exchange | the checks of a request run before its transaction; accept races block, suspend, delete |
| session service (`session/service.go`, `data/session.go`) | `sessions`, `session_schedule_proposals`, `session_confirmations` | propose (four ways), accept, decline, cancel, confirm | conflicts across exchanges; swaps and replacements must keep the plan; confirmations must not outlive a reschedule |
| trust service (`trust/*.go`, `data/moderation.go`) | `users.account_status`, `user_blocks`, `reports`, `moderation_actions` | block, unblock, suspend, restore, delete, report, decide | ends requests and exchanges of other tables in one transaction; a report and its history are read apart |
| profile service (`profile/service.go`) | profile, skill lists, privacy | patch profile, add/remove skill, privacy | guards of requests read it; rows read without a lock and written whole, while other tabs write and the account is deleted; a lost answer to a change of one skill |
| communication (`communication/service.go`) | conversations, messages, receipts, notifications | send, page, mark read | polling and paging while messages arrive |
| authentication (`auth/service.go`, `api/middleware.go`) | identities, sessions, one-time links | register, verify, log in, reset, change password, delete | login against reset; who the cookie belongs to when an answer comes |
| reviews (`data/review.go`) | `exchange_reviews` | review a completed exchange | one per author, although an answer was lost |
| web client: accounts (`LoginForm`, `EmailVerification`, `AppGate`, `AuthApi`, ...) | pages of several tabs, one cookie | sign in, verify, resend, recover, sign out, write with a CSRF token | a token of another session; retries; late answers that clear the cookie |
| web client: chat (`useChat`, `ChatApi`, `ChatPanel`, ...) | merged list of messages, anchor, first page | poll, page back, send, mark read, reload | merging pages of a growing log; answers in any order |
| web client: pages with a query (`useApiQuery` and the request, student, lesson, exchange, onboarding, profile, notification, conversation, safety and report pages) | the last answer, the request in flight, dialogs, drafts | load, retry, submit, cancel | showing something older than what was announced; acting on what has changed; a retry after a lost answer |
| development runner (`scripts/dev.mjs`) | child processes, shutdown | start in turn, wait, stop all | main goes on while a shutdown waits |
| skill catalogue (`trust/catalog.go`) | `skills` | rename, hide, restore a skill | administrators' patches that overlap |
| discovery, mailer, configuration, migrations, seed and demo scripts, presentation | see section 8 | | |

The services of the backend do not call each other's state directly: they meet in the PostgreSQL
tables. `Block`, `SuspendAccount` and `DeleteAccount` write to the tables of the exchange and
session services (`endInteractions`), request validation reads the tables of the profile and trust
services, and the schedule conflict check of one exchange reads the lessons of all others. That is
why the core model has one variable per table and one module per service over them. The web client
meets the backend only in requests: each is sent, handled by the server at one later moment, and
answered at a still later one or never, and the partner, other tabs and administrators act in
between. That is why each page is modelled together with the part of the server it talks to, and
one page at a time: pages share no state of the browser but the cookie, which is `Account`'s.

## 2. The modules

```
Tables        the shared tables, row types, SQL predicates that statements repeat, Init
  Exchanges   exchange service          Profiles  skill lists, privacy
  Sessions    session service, clock    Trust     blocks, suspension, deletion
    SkillSwap   all calls in any order: Next, Spec
      Safety      the properties; refinement mapping to Ledger
        MCRequests, MCLessons, MCBooking   instances for TLC
        SafetyProofs   theorems
Ledger        abstract specification of an exchange

Query         useApiQuery: key, answer held, request in flight
  RequestPages ProposalPage LessonPage ExchangePage OnboardingPage
  ProfilePage NotificationsPage ConversationsPage SafetyPages ReportPage
    Pages       any of them, one on the screen; the properties
      MCPages     instance for TLC
      ExchangePagesProofs, AccountPagesProofs, PagesProofs   theorems, each extending the one before
Lists         filtered and sorted lists, for OnboardingPage and ConversationsPage

Patches       partial updates of a row, deletion      MCPatches  its properties
Chat          one open chat and the message log       MCChat     its properties
Account       tabs, cookie, authentication service    MCAccount  its properties
Runner        dev.mjs                                 MCRunner   its properties

PatchesProofs, ChatProofs, AccountProofs, RunnerProofs   theorems about the four
```

### The backend core

| Variable | Tables |
|---|---|
| `account` | `users.account_status`, `users.deleted_at` |
| `blocked` | `user_blocks` |
| `privacy` | `user_profile_settings` (and the request scope): OPEN, CLOSED to requests, HIDDEN |
| `skills` | active rows of `user_teaching_skills`, `user_learning_skills` |
| `request` | `exchange_requests.status`; `VALIDATED` is a `CreateRequest` call between its checks and its transaction |
| `exchange`, `signed` | `exchanges.status`, `exchange_confirmations` |
| `lesson[q][n]` | the `sessions` row with `plan_order` n, its PENDING proposals, its SCHEDULE (`agreed`) and COMPLETION (`done`) confirmations |
| `now` | the clock of the server |

A request row that could ever be inserted is an element of `Requests`; the columns no statement
updates (who, to whom, which skills, how many lessons) are constants. Exchanges and plans are
indexed by the request they come from (`UNIQUE source_request_id`).

**Atomicity.** Every action but `ValidateRequest` and the clock is one transaction. This is
what the locks give: `LockRequest`, `LockExchange`, `LockSession`, `Block` and `Unblock` all
take `FOR UPDATE` on both users of the pair in UUID order (`LockUsers`) and read what they check
afterwards, so two operations on one pair never overlap. Suspension and deletion lock the one
user they change, which every pair operation with that user locks too. Conflict checks read
lessons of either participant in *any* exchange, but any acceptance that could add such a
lesson locks that participant. Two writes are outside this discipline and are modelled as what
they are: `CreateRequest` (its checks take no lock, so they are a step of their own; within it
the reads are merged into one instant, which only removes interleavings in which the checks
pass on rows of different ages) and the profile calls, which take
no lock on the student: one step each here, and apart in `Patches`. Nothing in the core depends on
what a student without an account has in a list.

**Calls in flight.** The API checks the caller's account once, in the authentication
middleware. A call that passed it may run after its account was suspended, and the services do
not look again, so no action has the caller's account as a guard unless the service checks it.

**What is abstracted.** Identifiers are model values; skill names, levels, messages, formats,
meeting places, URLs and texts are left out (a malformed call is refused and changes nothing, a
stutter). Answered and superseded proposals are not kept: no guard reads them.
`exchange_requests.status` has the values COUNTERED and EXPIRED, and exchanges PLANNED and
PAUSED, that no statement ever writes; they are left out.

### Partial updates

`Patches` takes apart what the core has as one step: the calls that change some fields of a
student's profile or privacy settings, of a skill of the catalogue, or add a skill to a list. Each
is a transaction that reads without a lock, applies and checks what it was sent, writes the whole
row and reads it again. At READ COMMITTED nothing another call commits is seen until its next
statement, so the first read is a step, and the write with the commit another, because the row lock
of the write lasts until then. `table` has the committed rows, `call` what each call in flight is
about to write. The deletion is two steps, its statements and its commit: `held` are the rows it has
written, for which others wait. A new row of a list waits too, because its foreign key locks the student's
row; a removed one that is added back does not, because it is only updated and the deletion, which
saw it inactive, did not touch it. The last read of each call is what undoes a write that had
waited for the deletion.

A profile is its university, faculty, city (given or not) and whether it offers offline lessons: the
fields the checks relate. Names, texts, the year and the request scope behave as the city does alone, and are left out,
as are a patch refused at its first step and the log of the catalogue.

### The chat

`Chat` is one open conversation. `log` is the message table in its order: the server appends under
the pair's lock with a time later than every stored message, so a message is its position. A copy
on the screen is whether the message had a read receipt when the server read the row. A poll is
three kinds of steps: it starts (`PollStart`, the timer or the tab coming back), the server reads
(`PollServe`), and the answer is handled (`latestMessages` for the pages that open a chat,
`newMessages` for what follows the anchor), which may ask for another page. Sending, marking as
read and loading an earlier page are requests of their own that overlap with it. An effect that
runs again aborts its poll but not its read mark (`ghostMark`). `opened` is the one variable the
client does not have: the oldest message the chat opened with, which the properties speak of and no
guard reads.

### Accounts

`Account` is one account, the tabs of one browser and the cookie they share. A request carries the
cookie of the moment it is sent; the server handles it later, and the tab its answer later still.
A CSRF token is the session it was derived from, so the middleware's check is equality. The
password routes are two steps, because the code checks the password before the transaction that
opens the session or writes. An answer clears the cookie whichever session the browser holds by
then (`ClearsCookie`).

### Pages

`Query` is `useApiQuery`: a page holds the last answer and the key it is for; a new key or a retry
aborts the request in flight. Every page module has the part of the server it needs as variables,
one action for each handler of a user's event, one for the server reading a request and one for
handling its answer, and the actions of the partner, of other tabs or of administrators as the
services allow them.

| Module | Code | The server's part |
|---|---|---|
| `RequestPages` | the lists with their filters, one request's page, accept, decline, withdraw | the status of each request |
| `ProposalPage` | a student's page and the proposal dialog | the match it was computed from, pending pairs of skills |
| `LessonPage` | plan, answer, cancel, confirm one lesson | the lesson and the exchange's status |
| `ExchangePage` | complete, cancel, review | the exchange, its signatures and reviews |
| `OnboardingPage` | the four steps, skills saved one request each | the profile |
| `ProfilePage` | the editor and the lists of skills, with a lock each | the profile |
| `NotificationsPage` | the feed or the bell, the header's counter | what arrived, what was read |
| `ConversationsPage` | the polled first page and the further ones | the order of conversations |
| `SafetyPages` | block, unblock, report from every page that offers it, the settings lists | the block, the open and closed reports |
| `ReportPage` | an administrator's decision and account actions | the report, the account, the log |

`Pages` puts one of them on the screen and leaves the variables of the others off. A behaviour of
`Pages` is therefore a behaviour of one page, and its properties are implications on `screen`.

### The runner

In `Runner` the code of `main()` between two awaits is one action and `pc` is the await it is at;
signals, exits of children and the ends of the waits of `shutdown()` come in any order between
them. The operators `EnterWeb`, `EnterApi`, ... are the rest of `main()` from a step on, so that
one action runs through every step it does not wait at.

## 3. Properties

### The backend core

| Property | What could go wrong |
|---|---|
| `TypeOK` | a row with a status or reference its table does not have |
| `ActiveExchangesMayInteract` | an acceptance and a block, suspension or deletion in either order leave an active exchange between students who may not interact |
| `EndedExchangesAreQuiet` | an ended exchange keeps a lesson to be held or a proposal to be answered; an exchange without an accepted request |
| `NoDoubleBooking` | two acceptances in different exchanges book one student twice |
| `ProposalMatchesLesson` | two pending proposals, one on a lesson that is not PROPOSED, one for another interval than the row, an agreed lesson only one side agreed |
| `LessonCompletionIsMutual` | a confirmation that outlives the interval it was given for; a lesson counted on one confirmation or not counted on two |
| `PlanConserved` | swaps, cancellations and replacements change how many lessons a side owes |
| `ExchangeCompletionIsMutual` | an exchange signed off with lessons outstanding, or completed by one side |
| `HistoryIsFinal` | a later call, block or deletion rewrites answered requests, ended exchanges, counted lessons |
| `ImplementsLedger` | credit lost, or gained two at a time; an exchange completed without full credit and both signatures |
| `BlockStopsNewRequests` | **violated**, see 6 |

`Ledger` is what an exchange promises whatever the way its lessons are arranged: each side earns
credit one lesson at a time and never loses it, and the exchange completes on the second
signature, after the credit is full. `Safety!L` maps it: the phase is `exchanges.status`, the
credit of a participant the number of COMPLETED lessons they teach.

### Partial updates

| Property | What could go wrong |
|---|---|
| `RowIsValid` | two updates, each checked against what it read, combine into a row neither would have passed (offline lessons without a city, a faculty of another university). It holds because whole rows are written, at the price of losing updates (see 6): the mutant that writes only what was sent breaks it |
| `DeletedStaysBlank` | a call that read before a deletion writes after it |
| `DeletedHasNoSkills` | **violated**, see 6 |

### The chat and accounts

| Property | What could go wrong |
|---|---|
| `OnlyOvertakenSkipped` | the anchor of the next poll moves past a message that is not on the screen: own sends, several pages of news, a short last page, answers to older lists. It speaks of what followed the messages the chat opened with, and allows what `pollAnchor` gives up itself: a message after which more own ones are shown than a page holds |
| `NothingSkipped` | the same without either exception. **Violated**, see 6 |
| `ReadTicksAreTrue` | an older answer, or a mark's own bookkeeping, shows a tick the server has no receipt for |
| `ShownStaysShown` | an answer for an older list takes messages off the screen |
| `Delivered` | (liveness) a chat left open in a visible tab never shows some message that followed those it opened with and was not overtaken |
| `WriteOnce` | a write refused for its token and sent again is carried out twice |
| `SuccessIsKept` | a page whose link confirmed the email reloads and calls the link invalid |
| `SignedOutIsOut` | the page says the student is out while the session it named lives on |
| `ResetEndsSessions` | **violated**, see 6 |

### The pages

| Property | What could go wrong |
|---|---|
| `AnswersAreHonest` | a request said to be answered comes back as pending when the list reloads, filters change or the partner withdraws; a button disabled with nothing in flight |
| `ProposalIsFair` | plans that should mirror each other drift apart while a proposal is being sent, or it offers what the student did not see |
| `LessonIsCurrent` | after a change was announced the page goes on showing the lesson as it was |
| `ExchangeIsHonest` | an ending that was announced is shown as missing; a student who was told that the review is stored is invited to write another |
| `OnboardingIsKept` | a step of several requests, one of which failed, is passed although the server has something else |
| `ProfileIsCurrent` | an answer that had the profile to itself (after a failed change of a skill: the reread) leaves something else on the page than the server has |
| `MarkedIsRead` | a notification marked as read is offered as unread again by an older answer |
| `ListIsKept` | overlapping polls and further pages lose or repeat a conversation |
| `SafetyIsShown` | after a confirmed block, unblock or report, the chat or the settings go on showing the state before |
| `DecisionIsShown` | a report shown as decided without its decision, or with two; a saved decision missing from it |

### The runner

| Property | What could go wrong |
|---|---|
| `OnlyLateStartsSurvive` | a service is left running that the shutdown should have reached |
| `CleanExitWasAsked` | exit code 0 although a step had failed or a service had exited before the developer's signal |
| `ShutdownEnds`, `UpOrGone` | (liveness) a shutdown that waits for ever; a start that neither comes up nor stops |

No liveness is stated of the core, the accounts and the pages: every step there is the choice of a
person or an answer that may not come, and no scheduler promises any of them.

## 4. Runs and bounds

| Run | Instance | Distinct states |
|---|---|---|
| `requests` | 3 students; ann and bob may each ask the other for the same pair of skills (so the unique index matters), cid asks ann; blocks both ways, two moderated accounts, two that may be deleted, one skill row removed and added back; no lessons proposed | 59 thousand |
| `lessons` | 2 students, 1 lesson each way, room for 2 replacement lessons, 3 consecutive hours, a clock that passes all of them, a block | 280 thousand |
| `booking` | bob in two exchanges, 3 intervals of which neighbours overlap, clock of 3 | 250 thousand |
| `race` | `requests` without moderation or profile changes | violation |
| `patches` | 2 calls in flight at a time (symmetric), any number in sequence, each sending one or two fields; 2 universities, one of which has a faculty, one skill and name, a deletion; every valid profile to start with | 1.88 million |
| `readded` | the same | violation |
| `chat` | a chat with one earlier message, up to 4 messages in pages of 2, at most 2 pages per poll, one failure or reload | 1.62 million |
| `chatfirst` | a chat opened empty, 2 messages, no failure | violation |
| `account` | 2 tabs (symmetric), 2 sessions, 1 replacement of the password, 1 link of each purpose, one lost answer, lost mail or suspension | 2.94 million |
| `reset` | the same without failures | violation |
| `runner` | every set of options, every outcome of every step | 33 thousand |
| `pages` | the ten pages, each with the bounds below | 1.55 million |

**Core.** `MaxOrder` bounds `plan_order`: the smallest exchange needs 2, and 4 lets a lesson and
its replacement both be cancelled. `Slots` are the intervals anyone proposes; three hours in a row
give "before, during, after", and the overlapping slots of `booking` the half-open boundary (one
ends when another starts). `MaxTime` lies past the end of the last hour of `lessons`, so every
lesson can be completed. `BlockPairs`, `Moderated`, `Leavers`, `EditedRows` and `PrivacyUsers` say
who uses which calls in a run.

**Partial updates.** Two calls are the fewest that overlap; a third would have to read or write between
the two steps of another, which a call of the same tab can do, as calls are used again. Two fields
at once let a patch send an offline format with its city, or a university with its faculty. The
theorems cover any number of either.

**Chat.** Two pages, the second of them filled during the run, let a poll find a page full, ask for
the next one and be overtaken by a send, a read mark or an earlier page. Four messages do not let a
student send more than a page holds between two polls: the exception in `OnlyOvertakenSkipped` takes
five, and in the run that property says that nothing after the opening messages is skipped. (With
five and no failures TLC finishes too; there `NothingSkipped` is violated and `OnlyOvertakenSkipped` holds.) The safety properties are proved for every size. `MaxPollPages` is 2, the code's
`MAX_POLL_PAGES` 5: a poll of one page of one message could only ever ask for the same own message
again, so `Delivered` needs more than one message per poll.

**Accounts.** One account: an address that registers again after a deletion is another row, and
another account, and is not modelled. Two sessions and two tabs are what it takes for one tab to
act with the cookie or the token of the other's session. `MaxTroubles` is one: a lost answer, a
mail that fails, or a suspension.

**Pages.** `MaxRev` bounds the changes of a lesson, `MaxPolls` the polls in flight, `MaxNotes`,
`MaxConversations`, `MaxReports` and `MaxActions` what arrives while a page is open. Two answers may
be in flight for one list (`CallIds`). Conversations have pages of one, so three of them have
further pages and a first page that moves. `ProfilePage` lets at most one answer be late and still
carried out. A page that was left is the environment of the page on the screen: its writes are
changes from elsewhere. `ReportPage` has other administrators as its environment; the history of a
report is the decisions and account actions about it, and the server's limit of 20 is not reached.

**Deadlock** is checked in `requests`, `race` and the runs of `Patches`. It is not in the others, because they really may stop: the clock of `lessons` and
`booking` is bounded and everything may have been cancelled, a conversation or an account may have
used up its bound, a page shows a request that is decided, and the runner is gone at the end. That
nothing is stuck before its end is what `Delivered`, `ShutdownEnds` and `UpOrGone` say where
something drives the system, and `AnswersAreHonest` where only a button could be stuck.

Every property of a passing run has a mutant, an operator marked `Mutant` beside the definition
it replaces: a plausible bug (a dropped status condition, a check trusted from an earlier call, a
forgotten reset, a token checked after the write) with which TLC finds that property violated.

## 5. Fairness

* **Chat**: weak fairness of `PollStart` (the timer of `usePolling`, enabled while the tab is
  visible), of `PollServe` and of handling its answer: a poll in flight is answered or fails,
  because every request has a timeout, after which the next timer starts another. Nothing is fair
  about the student, the partner or failures; failures are bounded, so `Delivered` says that a
  chat that is left open in a visible tab and does not stop for good shows every message it owes.
* **Runner**: weak fairness of `Main` (the event loop resumes `main()`; every wait for a port or a
  service has a number of attempts, and a command ends or is killed), of `GraceEnds` (a
  timeout) and of `Exit` (the logs are flushed). The children and the developer are free.
* The core, the partial updates, the accounts and the pages have no fairness and no liveness property.

## 6. Findings

Places where the program does something else than it says. The first four are runs with one
property that TLC violates.

* **`race`** (`exchange/service.go:110`). `CreateRequest` validates before its transaction and inserts in a
  transaction that locks neither user: validate, block, insert leaves a PENDING request between
  blocked students, though `trust/block.go:28` says a block "stops new requests" and the backend
  README (line 825) that after it "new requests are impossible". It is harmless to exchanges:
  `RequestIsCurrent` refuses the acceptance (`ActiveExchangesMayInteract` holds in the same
  model, and is proved).
* **`readded`** (`data/moderation.go:416`). A skill removed before is added again while the account is being
  deleted: the deletion's statement passes the row by as inactive, the other transaction does not see
  the deletion, and both commit. The deleted account keeps an active skill, though the README
  (813) says skill lists are removed. Deleted students are in no search (`Tables!Visible`), so only the row stays.
* **`chatfirst`** (`ChatApi.ts:117`). The anchor of a poll goes back to an unread own message only when one
  precedes it. In a conversation opened empty, a first message of the partner stored before the
  student's first one, with no poll in between, is behind the anchor and is not shown until the
  chat is loaded again; `SPRINT6.md:60` promises it within 5 seconds. A second way, which came up as an
  invariant that could not be proved, needs a longer chat: `pollAnchor` looks only at the newest
  `MESSAGE_PAGE_SIZE` (20) own messages, so a student who sends more than that between two polls, after a message
  of the partner was stored, moves the anchor past it. `OnlyOvertakenSkippedHolds` proves that there is no third.
* **`reset`** (`auth/service.go:235`). A sign-in that checked the old password before a reset opens its session after
  the reset revoked all of them; `ResetPasswordForm.tsx:94` says that all have ended.

The others follow from an action or are visible in one place, and have no run of their own:

* **Lost updates** (`profile/service.go:94`, `:318`, `trust/catalog.go:85`). Of two patches that have both read
  the row (`ReadRow`), the second to write puts the fields it was not sent back to what it had read, and undoes what
  the first has answered. The backend README says "Change only the sent fields" of `/me/profile` (193),
  `/me/privacy` (775) and `/admin/skills` (797).
* **The profile before a retry** (`ProfileSkills.tsx:45`). The comment there says to reconcile "before a retry", but when
  the reread fails too the lists unlock on the old profile (`:49`), and a save of the editor whose answer was lost is never
  read again (`ProfileEditor.tsx:111`): the student goes on from the old profile. `ProfileIsCurrent` says nothing then.
* **Ctrl+C** (`dev.mjs:400`). After it `main()` goes on while `shutdown()` waits, and starts the API or the
  mail catcher after the loop that kills what runs; `dev.mjs:32` says that everything stops.
  `OnlyLateStartsSurvive` shows, and its theorem for every set of options, that nothing else is left.
* **A gap above the newest messages** (`useChat.ts:176`). `loadEarlier` sets the first page from the one it captured
  (`EarlierReceive`). Asked for before a reload and answered after it, it puts an old page above the two
  newest, and the pages between them cannot be asked for any more. It takes three pages and two of them paged
  back to before; nothing says what a chat shows of older messages, so it is no run.
* **Priorities** (`Onboarding.tsx:171`). The order of the skills to learn, which the page asks to arrange "to change the priority"
  (`OnboardingSkills.tsx:147`), is sent in no request, and the server lists skills by name.

## 7. Proofs

Assumptions: only the ASSUMEs of the modules. `RequestsAssumption`: a request joins two
different registered students. `PlanAssumption`: at least one lesson each way, and the plan fits
in `MaxOrder`. `TimeAssumption`: an interval starts before it ends. `ActorsAssumption`: the actors
are users. `AccountAssumption`, `BoundAssumption` of `Patches` and `ChatAssumption`: the bounds are numbers, a page of messages has
at least one, a poll at least one page, and the messages a chat begins with fit in the bound.
`FacultyAssumption`: a faculty belongs to one university. `PagesAssumption`, of the pages: the places of a page of
requests are its lists and details (`PlacesAssumption`), the form offers the plan it begins with (`PlansAssumption`), the
student is one of the people (`PeopleAssumption`), a skill begins with the level BEGINNER and a new profile is one that may be stored
(`OnboardingAssumption`, which also has the skills of a catalogue finite and numbered by their names, as the server sorts
them), and the bounds are numbers (`RevAssumption`, `ReportsAssumption`, `ActionsAssumption`, `NotesAssumption`,
`ConversationsAssumption`: a page of conversations has at least one). Users, requests, slots and tabs may be infinite.

* `SafetyProofs!TypeCorrect`: `Spec => []TypeOK`. One lemma per operator that builds rows
  (`PlanType`, `CancelledType`, `ProposedType`, ...), then one step per action.
* `SafetyProofs!ActiveExchangesMayInteractHolds`. Inductive with `TypeOK`. Two ways to break it:
  an exchange becomes active (`AcceptRequest` checks), or accounts and blocks change. For the second,
  `EndedInteractions` shows that `EndInteractions(u, partners)` leaves no active exchange between u
  and those partners (`ActiveTrust`); for the rest, an exchange that stays active was active
  (`ActiveKept`).
* `SafetyProofs!ProposalMatchesLessonHolds`, `LessonCompletionIsMutualHolds`,
  `NoDoubleBookingHolds`. `QuietOrAccepting` and `RowSteps` reduce a step of the system to what it
  does to one lesson row (`QuietRowStep`: nothing, a new draft, a proposal, a refusal, a
  confirmation, a cancellation; `AcceptingRowStep`). `ProposalRowStep` and `CompletionRowStep` show
  that each keeps a row coherent. The completion invariant needs the proposal invariant (a
  PROPOSED row has a slot) and `ClockAdvances`. `NoDoubleBooking` is not inductive alone: an
  acceptance checks the interval of the *proposal* and schedules the interval of the *row*, so it
  needs `ProposalMatchesLesson`, which says they are equal.
* `SafetyProofs!HistoryIsFinalHolds`, `ExchangeCompletionIsMutualHolds`. Here a step is reduced to
  what it does to one exchange (`EveryStep`, `ExchangeStep`: it begins, is left alone, goes on, or is
  signed). The invariant is `Coherent`: the types, `ProposalMatchesLesson` (cancelling must not find a
  pending proposal on a counted lesson) and `PlansAreAccepted` (an acceptance overwrites no plan,
  because a request that is pending has none). Signatures need `SignedByParties` and that the number
  of lessons taught never falls (`TaughtGrows`: history keeps the set, `FS_Subset` its size).
* `SafetyProofs!PlanConservedHolds`, `EndedExchangesAreQuietHolds`, `ImplementsLedgerHolds`, for any plan size. A
  step is reduced once more, to what it does to the lessons of one exchange (`EveryPlanStep`, `PlanStep`: it
  draws the plan up, rests, ends the exchange, or keeps a balance). A balance is kept in three ways:
  no lesson changes hands or ends (`KeepsPlan`), two drafts trade their teachers (`Trades`), or a cancelled
  lesson has a replacement by the same teacher (`Replaces`); each keeps `Cardinality(Planned(q, d))` in either
  direction. The invariant `Balanced` is `Coherent` with `PlanConserved`, `TeachersAreParties`,
  `CancelledIsQuiet` (a cancelled exchange has no lesson to be held),
  `SignedByParties` and `ExchangeCompletionIsMutual`. What a completed exchange leaves quiet follows from
  the balance: it has as many counted lessons in each direction as it planned, so no other is left. For the
  refinement, the initial state maps to the ledger's (`LedgerStarts`) and each shape of step to an action of
  the ledger or a stutter (`LedgerCancels`, `LedgerSigns`, `LedgerEarns`, `LedgerRests`); that a step counts
  at most one lesson comes from the rows (`LessonLedgerStep`), that credit never exceeds the plan from the balance.
* `PatchesProofs!TypeOKHolds`, `RowIsValidHolds`, `DeletedStaysBlankHolds`, for any number of calls in flight,
  universities, faculties and fields sent. The invariant `IInv` adds to both what a call in flight is about to
  write: a whole row (`ProfilePatched`) that was checked when it was merged (`Merged`). So whichever
  call writes last, the row is one that was checked, and a call that finds the account deleted writes
  nothing (`WriteKeeps`).
* `ChatProofs!ReadTicksAreTrueHolds`, `ShownStaysShownHolds`, for every page size, length of the log
  and number of failures. `ReadTicksAreTrue` is not inductive alone, because the screen is filled
  from answers that were read earlier. `Coherent` says of every copy the client holds (the list,
  the pages of a poll, an earlier page) that it was true and still is: the server only adds
  (`ServerGrows`), so a copy stays true (`StaysTrue`), and merging keeps truth (`MergedIsTrue`). It also says that an
  answer that replaces the list belongs to a chat that has not loaded, which is
  `ShownStaysShown`.
* `ChatProofs!TypeOKHolds`, `OnlyOvertakenSkippedHolds`, with the same generality. The invariant is `Placed`. It adds
  the types and page numbers of everything in flight (`Shapes`), that a send the server has stored is own
  (`SentIsOwn`), and `Followed`: after a message since the opening that is not shown, either only own messages that no
  answer has seen read are shown, or it is overtaken; and a poll in flight began before every such message
  that its pages do not bring. `AnchorStaysBefore` says what the anchor is for: with at most a page of
  own unread messages after a missing one, and an older message shown, it lies before it.
  `AnchorFollows` combines the two, so the poll that starts next keeps `Followed` although sends move the list while it is in flight;
  `StaysOvertaken` says that what was overtaken stays so, `Gathered` that the pages of a poll leave no hole
  between them. The anchor is the greatest or least of a set of messages, which `LeastMessage` and
  `GreatestMessage` give for every log.
* `AccountProofs!TypeOKHolds`, `WriteOnceHolds`, `SuccessIsKeptHolds`, `SignedOutIsOutHolds`, for any number of tabs,
  sessions, passwords, links and failures. `Coherent` says of the record of each tab (`FineIn`)
  that a write that is done is about to be told (`WrittenOnce`), that a link that worked is not
  checked again (`LinkUsedOnce`), and that the answer to a sign-out is true of the session it came
  with (`OutIsOut`). What one tab knows survives what the others do because sessions are numbered in
  the order they open and an account that is suspended or deleted does not come back
  (`AuthMoves`, `LaterFine`); so a step is one lemma about the record of the tab that moves
  (`TabMoves`), and most steps of a page are made of three shapes of record (`FreshIs`, `IdleIs`,
  `AskingIs`). The two about steps add what a step keeps of a page (`StepKeeps`), and the types
  that a session is opened with a password that was typed, and typed ones the account has had (`Bounded`).
* `RunnerProofs!TypeOKHolds`, `OnlyLateStartsSurviveHolds`, `CleanExitWasAskedHolds`, for every set of options. `Safe`:
  while the runner is alive every running service is in its map (`ServicesAreKept`), so the kill
  loop reaches it; from the flush on a running service was told to stop or started late
  (`KilledOrLate`); nothing is in the map while npm is being installed, when the runner may end
  without a kill loop (`NothingToKillYet`); and what came first, the signal or a failure (`first`, a history
  variable), began the shutdown, so code 0 is the signal's (`CleanWasAsked`). `EnterWeb`, `EnterApi`, ... have a lemma each, from the
  last to the first, as each ends in the next.

* `ExchangePagesProofs` and `AccountPagesProofs`, for any requests, skills, plans, notifications, changes and actions of
  others. `OnlyOnScreen` and `StepOfPage` reduce a step of `Pages` to one of the page on the screen; each page has an
  invariant, kept by each of its actions, that TLC found true on the instance of `pages`. The properties are about what a page
  shows. That comes from an answer that was on its way, and that from the server, so the invariants
  say the same of all three: what the page was told holds on the server, in the answer that is served and in
  the one that is held.
  * `AnswersAreHonestHolds` (`RequestsInv`): also, a call that was told that its request is answered has found it
    so (`CallsAreTrue`), and a card that waits belongs to a call in flight, through reloads and changes of the list.
  * `ProposalIsFairHolds` (`ProposalInv`): the dialog is open over a loaded match, and a proposal of this page in
    flight keeps it waiting (`DialogIsOver`), so no second one is sent and no edit falls between.
  * `LessonIsCurrentHolds` (`LessonInv`): the revision that the page announced is never ahead of the
    server's, nor the served and held rows behind it (`LessonLearnt`).
  * `ExchangeIsHonestHolds` (`ExchangeInv`): endings are final (`Advances`), so an answer that had one keeps it;
    reviews that are not mounted hold nothing, so those that are loaded after a review have it; a review that is
    waited for was sent by the component that is mounted (`ReviewIsTrue`), so no other is told of it.
  * `ProfileIsCurrentHolds` (`ProfileInv`): a request that had the profile to itself is the only one that can still
    write (`AloneIsOnly`), so the profile it was answered is what the server has. Section 6 has what it leaves open.
  * `MarkedIsReadHolds` (`NotificationsInv`): a list is an answer of one of its own keys (`ListTyped`), and none offers what
    the page was told is read (`UnreadIsNotAcked`): the count of a poll, which only arrives later, changes the key of the bell.
  * `SafetyIsShownHolds` (`SafetyInv`): while a write is on its way nothing was told about the block (`SafetyHeard`), a
    page holds no answer of another (`SafetyQueried`), and each shows at least the reports it announced.
  * `DecisionIsShownHolds` (`ReportInv`): the log has one decision exactly when the report is decided (`Decided`). Report and
    history are read by two statements, in this order: the report that was read is still so when the history is (`ReportRead`).

* `PagesProofs`, the two pages that show lists, and the types of all ten. `Lists` says what `filter` and a sorted
  answer are without recursion: `Kept(s, S)` has at place n the element of s at the n-th of the places in S.
  In a finite set of numbers the count of those up to one is a bijection (`RankIsBijection`: it is injective into as
  many numbers), of which `Nth` is the inverse (`NthIsBijection`), hence what is kept is every element of S, once, in order (`KeptIsPart`).
  * `OnboardingIsKeptHolds` (`OnboardingInv`): the property is about lists that were passed, so the invariant says what
    becomes of one while it is saved. Between any two writes the rest of them would make the server agree with the
    selection (`Pending`, kept by a deletion in `DropIsPending` and by a put in `PutIsPending`, and true of what `saveSkills` works out
    in `SaveIsPending`); with nothing left it agrees (`NothingPending`), so `Advance` passes only what is saved, and a
    write that failed, handled or not, leaves its step where it was. It needs that no list picks a skill twice (`Distinct`), through
    toggling, levels and moves, and that an earlier list is not edited behind a later step.
  * `ListIsKeptHolds` (`ConversationsInv`): no list and no answer in flight repeats a conversation (`Listed`: the order
    moves up one that is in it, a page is a part of it), the next page is asked for only under a list that loaded, and an answer merged on
    top or below keeps what was there (`PagesMerge`, from `JoinedIsListed`).
  * `TypeOKHolds`: the ten invariants give the types of their pages. Only the number of polls of the header's counter,
    which `MarkedIsRead` does not need, has an invariant of its own (`CounterInvHolds`). The type of `OnboardingPage` says nothing of the length of a
    list: that one has at most the catalogue's skills follows from `Distinct`.

  TLC checked `OnboardingInv` and `ConversationsInv` on the instance of `pages` before they were proved.

Only model-checked: liveness under fairness (`Delivered`, `ShutdownEnds`, `UpOrGone`), which is out of the prover's reach.
Every other property of a passing run has a theorem: all its invariants, action properties and the refinement of
`Ledger`. No module declares a recursive operator.

## 8. Not modelled, and why

* **Row locks and deadlock.** `LockUsers` is why a transaction is a step in the core. Suspension and
  deletion lock one user and insert notifications whose foreign keys lock partners; whether two such
  transactions can wait for each other depends on PostgreSQL's locks of referenced rows, which are
  not in the sources.
* **Two requests for a reset link that overlap**: each replaces the links it sees and inserts one, so
  both may stay valid; `Account` replaces a link in one step.
* **The rest of the skill catalogue**: creating a skill, unique names and slugs (the database's), the log
  of changes, whose words (changed, hidden, restored) are chosen by the row the call read and so are as stale as its write.
* **The login throttle, expiry of sessions and links**: they count or compare times over hours.
* **Which event creates which notification, the event logs' order by `created_at`
  (`data/moderation.go:364`)**: inserted beside the changes that are modelled, read by nothing but the
  lists.
* **Discovery, search and schedule, and the pages that only read**: one query each; the visibility predicate they
  share is `Tables!Visible`, the protocol of the pages `Query`.
* **The pages of the privacy form and the catalogue editor**: single requests that replace what they show.
* **Mailer, configuration, routing, migrations, backup, seed and demo scripts, rendering and formatting**:
  input and output, or sequential programs that stop at the first error.

Effects the models reach, or would, that nothing in the repository promises against: a write
retried after its token was refused is made by whoever the cookie belongs to by then
(`AuthApi.ts:66`); a read mark covers messages that were polled after it was sent
(`useChat.ts:74`); the marks of the bell do not reload an open feed; conversations that move past
the pages already loaded are not loaded by the next one (`ConversationList.tsx:132`); the late
answer to a block redirects a page that was left (`CandidateProfile.tsx:250`); a page whose
successful verification answer was lost calls the link invalid when it tries again; an exchange's page that
reloads while a review is sent mounts reviews that hear nothing of it (`ExchangeReviews.tsx:99`), and may offer the form
until they reload or a second review is refused (`ReviewUnheard`); a mail
that fails leaves no working link until the next one is asked for; a skill hidden after
`ActiveSkillExists` has looked is still added (`Patches` has it).  The README's "cannot be changed" of the
university (202) is out of date: `PATCH /me/profile` takes one (`profile/service.go:129`), and so does `Patches`.
