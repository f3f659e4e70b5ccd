SPECIFICATION FairSync
CONSTANTS
    a1 = a1  a2 = a2  b1 = b1  ra = ra  ta = ta  tb = tb
    Local = {a1, a2, b1}
    Remote = {}
    Tables <- MCTables
    TableOf <- MCTableOf
    Invalid = {a2}
    Poison = {b1}
    BatchSize = 2
    PageSize = 1
    MaxFaults = 2
PROPERTIES CapturedIsAnswered
CHECK_DEADLOCK FALSE
