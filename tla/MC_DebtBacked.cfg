CONSTANTS
    b1 = b1
    b2 = b2
    s = s
    u1 = u1
    Banks <- MC_Banks
    Accounts <- MC_Accounts
    Seeder = s
    Isolated = {}
    Q = 100
    ShareUnit = 10
    YearUnits = 1
    OptimalUtil = 50
    PlateauRate = 50
    MaxRate = 400
    FeePct = 20
    AssetWeightInit <- MC_AssetWeightInit
    AssetWeightMaint <- MC_AssetWeightMaint
    LiabWeightInit <- MC_LiabWeightInit
    LiabWeightMaint <- MC_LiabWeightMaint
    DepositLimit <- MC_DepositLimit
    BorrowLimit <- MC_BorrowLimit
    LiquidatorFeePct = 10
    InsuranceFeePct = 10
    SeedAmount = 1
    WalletAmount = 1
    InitPrice <- MC_InitPrice
    Prices = {1, 2}
    PriceChanges <- MC_PriceChanges
    Amounts = {1, 2}
    TimeSteps = {1}
    MaxTime = 1
SPECIFICATION Spec
INVARIANTS DebtBacked
CONSTRAINT MC_DepositsNotWipedOut
