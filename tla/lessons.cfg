SPECIFICATION Spec
CONSTANTS
    ann = ann  bob = bob  go = go  sql = sql  fromAnn = fromAnn
    Users = {ann, bob}
    Requests = {fromAnn}
    Skills = {go, sql}
    Requester <- MCRequester
    Recipient <- MCRecipient
    Gives <- MCGives
    Takes <- MCTakes
    Offered <- MCOffered
    Returned <- MCReturned
    MaxOrder = 4
    Slots <- MCSlots
    MaxTime = 4
    NoSlot = NoSlot
    BlockPairs <- MCBlockPairs
    Moderated = {}
    Leavers = {}
    EditedRows = {}
    PrivacyUsers = {}
CHECK_DEADLOCK FALSE
INVARIANTS ProposalMatchesLesson LessonCompletionIsMutual PlanConserved
    ExchangeCompletionIsMutual EndedExchangesAreQuiet
PROPERTIES HistoryIsFinal ImplementsLedger
