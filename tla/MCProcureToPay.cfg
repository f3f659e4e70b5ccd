SPECIFICATION PipelineSpec
CONSTANTS
    h1 = h1  c1 = c1  c2 = c2  g1 = g1  g2 = g2  la = la  lb = lb  lc = lc
    p1 = p1  p2 = p2  o1 = o1
    Handler = {h1}
    Clerk = {c1, c2}
    Grn = {g1, g2}
    Line = {la, lb, lc}
    PoLine = {p1, p2}
    CustomerOrder = {o1}
    Message = {la, lb, lc, o1}
    LinesOf <- MCLinesOf
    PoLineOf <- MCPoLineOf
    Qty <- MCQty
    AcceptedValue <- MCAcceptedValue
    Ordered <- MCOrdered
    Unknown = {}
    OrderWorth <- MCOrderWorth
    Amount = {1}
    MaxReceipts = 1
    MaxPayments = 2
    MaxRestarts = 1
INVARIANTS SettlementTypeOK CountedOnce PaymentsAddUp StatusTellsBalance BillsFollowReceipts
PROPERTIES ReceiptIsBilled
CHECK_DEADLOCK FALSE
