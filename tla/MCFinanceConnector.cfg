SPECIFICATION FairConnector
CONSTANTS
    row = row  zoho = zoho  norule = norule
    Entry = {row, zoho, norule}
    System <- MCSystem
    Cycle = {c1, c2}
    Reviewer = {u1}
    BatchSize = 2
    MaxRetries = 2
    MaxRows = 2
    MaxReviews = 2
    MaxFaults = 1
INVARIANTS ConnectorTypeOK FailedIsInReview
PROPERTIES ImplementsMirror EventuallySettled
CHECK_DEADLOCK FALSE
