SPECIFICATION FairSpec
CONSTANTS
    d1 = d1  d2 = d2  dx = dx  r1 = r1  r2 = r2
    Conversations <- AllConversations
    Keys <- AllKeys
    KeyMap <- SessionKeys
    NoKey = NoKey
    ReadSize = 4
INVARIANT TypeOK
INVARIANT PassedOnWhole
INVARIANT FirstRequestKeyed
INVARIANT ReadsOneRequest
PROPERTY RequestIsDecided
CHECK_DEADLOCK FALSE
