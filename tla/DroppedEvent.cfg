SPECIFICATION LedgerSpec
CONSTANTS
    good = good  norule = norule  dust = dust  junk = junk  NoOne = NoOne
    Event = {good, norule, dust, junk}
    Class <- MCClass
    Instance = {w1, w2}
    Connected = TRUE
    MaxMessages = 3
    MaxFaults = 2
INVARIANTS NoEventDropped
CHECK_DEADLOCK FALSE
