SPECIFICATION FairSync
CONSTANTS
    a1 = a1  a2 = a2  b1 = b1  ra = ra  ta = ta  tb = tb
    Local = {a1, a2, b1}
    Remote = {ra}
    Tables <- MCTables
    TableOf <- MCTableOf
    Invalid = {a2}
    Poison = {}
    BatchSize = 2
    PageSize = 1
    MaxFaults = 1
PROPERTIES OutboxIsReplayed
CHECK_DEADLOCK FALSE
