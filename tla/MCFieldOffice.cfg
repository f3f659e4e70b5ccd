SPECIFICATION Spec
CONSTANTS
    clerk = clerk  manager = manager  stranger = stranger  po = po  agent = agent  expense = expense
    entry = entry  rounded = rounded  wrong = wrong  review = review  review2 = review2  repair = repair
    repair2 = repair2  inquiry = inquiry  run = run  close1 = close1  close2 = close2  cash = cash
    payable = payable  retained = retained  sales = sales  wages = wages  posting = posting  batch = batch
    trial = trial  trip = trip  trip2 = trip2  fuel = fuel  clock = clock  kiosk = kiosk
    visit = visit  van = van  shop = shop
    User <- MCUser
    Role <- MCRole
    RoleOf <- MCRoleOf
    MayPost = {"manager"}
    Bands <- MCBands
    Account = {cash, payable, retained, sales, wages}
    TypeOf <- MCTypeOf
    AccountsPayable = payable
    RetainedEarnings = retained
    ReliefFloor = 10
    PensionRate = 8
    TaxBands <- MCTaxBands
    NoUpperBound = 1000000
    PayrollRatio = 50
    GradeWeight <- MCGradeWeight
    Handler = {h1, h2}
    Doc <- MCDoc
    Type <- MCType
    PlantOf <- MCPlantOf
    Amount <- MCAmount
    LinesOf <- MCLinesOf
    Costs <- MCCosts
    Revenues <- MCRevenues
    Postings = {posting}
    PostingEffect <- MCPostingEffect
    Scenes <- MCScenes
    Field = {f1, f2}
    Capture = {batch, trial, trip, trip2, fuel, clock, kiosk, visit}
    Kind <- MCKind
    Fact <- MCFact
    DocOf <- MCDocOf
    Vehicle = {van}
    ServiceThreshold <- MCServiceThreshold
    Tolerance = 10
    Customer = {shop}
SYMMETRY Symmetry
INVARIANTS
    FieldTypeOK
    GrantedStageByStage
    EffectsOnce
    BalanceSheetExplained
    ChainForksOnlyWhenCrossed
    PayrollFollowsStatute
    OneAnswerPerCapture
    AnnouncedAsOwed
    VehicleIsWatched
PROPERTIES OnlyLateWritesSpoil
CHECK_DEADLOCK FALSE
