SPECIFICATION QuoteSpec
CONSTANTS
    hynix = hynix
    inverse = inverse
    u1 = u1
    wk = wk
    Slots = {hynix, inverse}
    Updaters = {u1}
    Worker = wk
    MaxAge = 1
    RoundTime = 1
INVARIANT
    UsableIsFresh
CHECK_DEADLOCK FALSE
