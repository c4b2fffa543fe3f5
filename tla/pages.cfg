SPECIFICATION Spec
CONSTANTS
    Incoming = {1}
    Outgoing = {2}
    Places <- MCPlaces
    CallIds = {1, 2}
    Matches <- MCMatches
    Counts = {1, 2}
    Durations = {30, 60}
    MaxRev = 4
    People = {"me", "partner"}
    Catalogue <- MCCatalogue
    Levels <- MCLevels
    MaxSelected = 2
    NewProfiles <- MCNewProfiles
    Abouts = {"a", "b", "bad"}
    Invalid = {"bad"}
    Entries = {"t1"}
    EntryLevels = {"low", "high"}
    MaxNotes = 2
    MaxPolls = 2
    MaxConversations = 3
    PageSize = 1
    MaxReports = 2
    MaxActions = 3
INVARIANTS
    TypeOK AnswersAreHonest ProposalIsFair LessonIsCurrent ExchangeIsHonest
    OnboardingIsKept ProfileIsCurrent MarkedIsRead SafetyIsShown DecisionIsShown
PROPERTY ListIsKept
\* A page may stop: a request stays decided and a lesson completed.
CHECK_DEADLOCK FALSE
