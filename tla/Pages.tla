-------------------------------- MODULE Pages --------------------------------
(***************************************************************************)
(* The pages of the web client that show what the server holds and change  *)
(* it.  Each is a module of its own, with the part of the server it talks  *)
(* to; they share no state of the browser, so a behaviour of this module   *)
(* is a behaviour of one of them: the one on the screen.                   *)
(***************************************************************************)
EXTENDS Naturals, Sequences

CONSTANTS
    Incoming, Outgoing, Places, CallIds,           \* RequestPages
    Matches, Counts, Durations,                    \* ProposalPage
    MaxRev,                                        \* LessonPage
    People,                                        \* ExchangePage
    Catalogue, Levels, MaxSelected, NewProfiles,   \* OnboardingPage
    Abouts, Invalid, Entries, EntryLevels,         \* ProfilePage
    MaxNotes, MaxPolls,                            \* NotificationsPage, ConversationsPage
    MaxConversations, PageSize,                    \* ConversationsPage
    MaxReports,                                    \* SafetyPages
    MaxActions                                     \* ReportPage

VARIABLES
    screen,   \* the page on the screen; the variables of the others are off
    requests, query, left, busy, confirm, calls, told,
    match, waiting, candidate, dialog, post,
    lesson, details, lessonExchange, form, write, learnt,
    exchange, page, reviews, saved, cancelling, reviewing,
    completion, review, unheard, ended, reviewed,
    onboarded, loading, step, fields, save,
    stored, shown, draft, saving, mutating, late, adding, certain,
    inbox, counters, list, act, acked,
    order, conversations, polls, more,
    trust, safetyQuery, safety, safetyWrite, safetyTold,
    moderation, reportQuery, deciding, decision, settled

requestVars == <<requests, query, left, busy, confirm, calls, told>>
proposalVars == <<match, waiting, candidate, dialog, post>>
lessonVars == <<lesson, details, lessonExchange, form, write, learnt>>
exchangeVars ==
    <<exchange, page, reviews, saved, cancelling, reviewing,
      completion, review, unheard, ended, reviewed>>
onboardingVars == <<onboarded, loading, step, fields, save>>
profileVars ==
    <<stored, shown, draft, saving, mutating, late,
      adding, certain>>
notificationVars == <<inbox, counters, list, act, acked>>
conversationVars == <<order, conversations, polls, more>>
safetyVars == <<trust, safetyQuery, safety, safetyWrite, safetyTold>>
reportVars == <<moderation, reportQuery, deciding, decision, settled>>

R == INSTANCE RequestPages
P == INSTANCE ProposalPage
L == INSTANCE LessonPage WITH exchange <- lessonExchange
E == INSTANCE ExchangePage
O == INSTANCE OnboardingPage WITH stored <- onboarded
F == INSTANCE ProfilePage WITH Levels <- EntryLevels
N == INSTANCE NotificationsPage
C == INSTANCE ConversationsPage WITH shown <- conversations
S == INSTANCE SafetyPages WITH query <- safetyQuery, write <- safetyWrite, told <- safetyTold
A == INSTANCE ReportPage WITH details <- reportQuery, dialog <- deciding

ASSUME PagesAssumption ==
    /\ R!PlacesAssumption /\ P!PlansAssumption
    /\ E!PeopleAssumption /\ O!OnboardingAssumption
    /\ L!RevAssumption /\ S!ReportsAssumption /\ A!ActionsAssumption
    /\ N!NotesAssumption /\ C!ConversationsAssumption

Screens == {"requests", "proposal", "lesson", "exchange", "onboarding",
            "profile", "notifications", "conversations", "safety", "report"}

Off == "off"

ROff ==
    /\ requests = Off /\ query = Off /\ left = Off /\ busy = Off
    /\ confirm = Off /\ calls = Off /\ told = Off
POff ==
    /\ match = Off /\ waiting = Off /\ candidate = Off /\ dialog = Off
    /\ post = Off
LOff ==
    /\ lesson = Off /\ details = Off /\ lessonExchange = Off /\ form = Off
    /\ write = Off /\ learnt = Off
EOff ==
    /\ exchange = Off /\ page = Off /\ reviews = Off /\ saved = Off
    /\ cancelling = Off /\ reviewing = Off /\ completion = Off
    /\ review = Off /\ unheard = Off /\ ended = Off /\ reviewed = Off
OOff ==
    /\ onboarded = Off /\ loading = Off /\ step = Off /\ fields = Off
    /\ save = Off
FOff ==
    /\ stored = Off /\ shown = Off /\ draft = Off /\ saving = Off
    /\ mutating = Off /\ late = Off /\ adding = Off /\ certain = Off
NOff ==
    /\ inbox = Off /\ counters = Off /\ list = Off /\ act = Off
    /\ acked = Off
COff ==
    /\ order = Off /\ conversations = Off /\ polls = Off /\ more = Off
SOff ==
    /\ trust = Off /\ safetyQuery = Off /\ safety = Off /\ safetyWrite = Off
    /\ safetyTold = Off
AOff ==
    /\ moderation = Off /\ reportQuery = Off /\ deciding = Off
    /\ decision = Off /\ settled = Off

Init ==
    /\ screen \in Screens
    /\ IF screen = "requests" THEN R!RequestsInit ELSE ROff
    /\ IF screen = "proposal" THEN P!ProposalInit ELSE POff
    /\ IF screen = "lesson" THEN L!LessonInit ELSE LOff
    /\ IF screen = "exchange" THEN E!ExchangeInit ELSE EOff
    /\ IF screen = "onboarding" THEN O!OnboardingInit ELSE OOff
    /\ IF screen = "profile" THEN F!ProfileInit ELSE FOff
    /\ IF screen = "notifications" THEN N!NotificationsInit ELSE NOff
    /\ IF screen = "conversations" THEN C!ConversationsInit ELSE COff
    /\ IF screen = "safety" THEN S!SafetyInit ELSE SOff
    /\ IF screen = "report" THEN A!ReportInit ELSE AOff

(* The page on the screen moves; the variables of the others stay off. *)
Only(s) ==
    /\ screen = s /\ UNCHANGED screen
    /\ IF s = "requests" THEN TRUE ELSE UNCHANGED requestVars
    /\ IF s = "proposal" THEN TRUE ELSE UNCHANGED proposalVars
    /\ IF s = "lesson" THEN TRUE ELSE UNCHANGED lessonVars
    /\ IF s = "exchange" THEN TRUE ELSE UNCHANGED exchangeVars
    /\ IF s = "onboarding" THEN TRUE ELSE UNCHANGED onboardingVars
    /\ IF s = "profile" THEN TRUE ELSE UNCHANGED profileVars
    /\ IF s = "notifications" THEN TRUE ELSE UNCHANGED notificationVars
    /\ IF s = "conversations" THEN TRUE ELSE UNCHANGED conversationVars
    /\ IF s = "safety" THEN TRUE ELSE UNCHANGED safetyVars
    /\ IF s = "report" THEN TRUE ELSE UNCHANGED reportVars

Next ==
    \/ Only("requests") /\ R!RequestsNext
    \/ Only("proposal") /\ P!ProposalNext
    \/ Only("lesson") /\ L!LessonNext
    \/ Only("exchange") /\ E!ExchangeNext
    \/ Only("onboarding") /\ O!OnboardingNext
    \/ Only("profile") /\ F!ProfileNext
    \/ Only("notifications") /\ N!NotificationsNext
    \/ Only("conversations") /\ C!ConversationsNext
    \/ Only("safety") /\ S!SafetyNext
    \/ Only("report") /\ A!ReportNext

vars ==
    <<screen, requestVars, proposalVars, lessonVars,
      exchangeVars, onboardingVars, profileVars, notificationVars,
      conversationVars, safetyVars, reportVars>>

Spec == Init /\ [][Next]_vars

-----------------------------------------------------------------------------
TypeOK ==
    /\ screen \in Screens
    /\ screen = "requests" => R!RequestsTypeOK
    /\ screen = "proposal" => P!ProposalTypeOK
    /\ screen = "lesson" => L!LessonTypeOK
    /\ screen = "exchange" => E!ExchangeTypeOK
    /\ screen = "onboarding" => O!OnboardingTypeOK
    /\ screen = "profile" => F!ProfileTypeOK
    /\ screen = "notifications" => N!NotificationsTypeOK
    /\ screen = "conversations" => C!ConversationsTypeOK
    /\ screen = "safety" => S!SafetyTypeOK
    /\ screen = "report" => A!ReportTypeOK

(* A request that the page said was answered is never shown as pending     *)
(* again, whichever answers are still in flight; and a disabled button has  *)
(* its request in flight.                                                   *)
AnswersAreHonest == screen = "requests" => (R!ToldIsShown /\ R!BusyIsInFlight)

(* Mirrored plans stay equal through every edit, and a proposal that leaves *)
(* the page offers both sides the same hours and skills the student saw.    *)
ProposalIsFair == screen = "proposal" => P!ProposalIsFair

(* Once a lesson's page has announced a change it never shows the lesson as *)
(* it was before it: it reloads, and until then shows nothing of it.        *)
LessonIsCurrent == screen = "lesson" => L!LessonIsCurrent

(* An ending that was announced is never shown as missing again, and who    *)
(* was told of a stored review, by the component that sent it, is not       *)
(* invited to write another.                                                *)
ExchangeIsHonest == screen = "exchange" => (E!EndingIsShown /\ E!ReviewedOnce)

(* Through failures, lost answers and retries: a step that was passed is on *)
(* the server as it was filled in, and whoever finishes can be matched.     *)
OnboardingIsKept == screen = "onboarding" => (O!PassedIsSaved /\ O!FinishedIsEligible)

(* Once an answer had the profile to itself, the page shows what the server *)
(* has until something else may change it; ProfilePage says what is not     *)
(* promised after a failure.                                                *)
ProfileIsCurrent == screen = "profile" => F!ProfileIsCurrent

(* A notification that a list was told is read is not offered as unread by  *)
(* it again, although older answers and polls are in flight.                *)
MarkedIsRead == screen = "notifications" => N!MarkedIsRead

(* A block, an unblock and a report that were confirmed are what the chat   *)
(* and the settings show afterwards.                                        *)
SafetyIsShown == screen = "safety" => S!SafetyIsShown

(* A report shown as decided comes with its one decision, although the two  *)
(* are read apart, and a decision the page saved is on it.                  *)
DecisionIsShown == screen = "report" => A!DecisionIsShown

(* No chat is listed twice, and none that was listed disappears, whichever  *)
(* order the polls and the next pages are answered in.                      *)
ListIsKept == [][screen = "conversations" => C!KeepsList]_vars
=============================================================================
