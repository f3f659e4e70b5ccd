SPECIFICATION FairSpec
CONSTANTS
    h1 = h1  h2 = h2  ag = ag
    o1 = o1  o2 = o2  od = od  oz = oz  ou = ou  n1 = n1
    Handler = {h1, h2}
    Agent = {ag}
    Order = {o1, o2, od, oz, ou}
    Ncr = {n1}
    OwnerOf <- MCOwnerOf
    Value <- MCValue
    Amount <- MCAmount
    Direct = {od}
    UnknownRef = {ou}
    Approved <- MCApproved
    MaxRequests = 4
INVARIANTS TypeOK LedgerMatchesDocuments GateHoldsUnlessOvertaken OneAnswerPerOrder EventOwedOnce
PROPERTIES ImplementsIntake ConfirmedIsAnnounced
CHECK_DEADLOCK FALSE
