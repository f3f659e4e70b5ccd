SPECIFICATION GrnSpec
CONSTANTS
    h1 = h1  h2 = h2  g1 = g1  g2 = g2  gd = gd  gu = gu
    l1 = l1  l2 = l2  ld = ld  lr = lr  lu = lu  p1 = p1  p2 = p2
    Handler = {h1, h2}
    Grn = {g1, g2, gd, gu}
    Line = {l1, l2, ld, lr, lu}
    Message = {l1, l2, ld, lr, lu}
    PoLine = {p1, p2}
    LinesOf <- MCLinesOf
    PoLineOf <- MCPoLineOf
    Qty <- MCQty
    AcceptedValue <- MCAcceptedValue
    Ordered <- MCOrdered
    Unknown = {gu}
    MaxReceipts = 4
CHECK_DEADLOCK FALSE
INVARIANTS NeverOverReceived
