SPECIFICATION Spec
CONSTANTS
    d1 = d1  d2 = d2  dx = dx  r1 = r1  r2 = r2
    Conversations <- TwoInTurn
    Keys <- AllKeys
    KeyMap <- SessionKeys
    NoKey = NoKey
    ReadSize = 4
INVARIANT EveryRequestKeyed
CHECK_DEADLOCK FALSE
