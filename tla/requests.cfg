SPECIFICATION Spec
CONSTANTS
    ann = ann  bob = bob  cid = cid  go = go  sql = sql
    fromAnn = fromAnn  fromBob = fromBob  fromCid = fromCid
    Users = {ann, bob, cid}
    Requests = {fromAnn, fromBob, fromCid}
    Skills = {go, sql}
    Requester <- MCRequester
    Recipient <- MCRecipient
    Gives <- MCGives
    Takes <- MCTakes
    Offered <- MCOffered
    Returned <- MCOffered
    MaxOrder = 2
    Slots <- MCSlots
    MaxTime = 0
    NoSlot = NoSlot
    BlockPairs <- MCBlockPairs
    Moderated = {ann, bob}
    Leavers = {bob, cid}
    EditedRows <- MCEditedRows
    PrivacyUsers = {bob}
INVARIANTS TypeOK ActiveExchangesMayInteract
