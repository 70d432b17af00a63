SPECIFICATION ClaimsSpec
CONSTANTS
    p1 = p1  p2 = p2  p3 = p3  s1 = s1  s2 = s2  s3 = s3  s4 = s4
    socia = socia  vendedora = vendedora  d1 = d1  d2 = d2
    r1 = r1  r1again = r1again  r2 = r2  r3 = r3
    r4 = r4  r4again = r4again  r4other = r4other  rOne = rOne
    rLegacy = rLegacy  rThief = rThief
    patch = patch  dearer = dearer  clear = clear  restock = restock  restock2 = restock2
    restockUnica = restockUnica  restockNew = restockNew
    create = create  withdraw = withdraw  putBack = putBack  lost = lost
    credit = credit  creditAgain = creditAgain  creditOther = creditOther
    creditAnon = creditAnon  creditBad = creditBad  creditOver = creditOver  pay = pay  payAgain = payAgain
    NoTx = NoTx  NoSale = NoSale  NoId = NoId  NoDebt = NoDebt
    Unica = {p2}
    Actors = {socia, vendedora}  Socios = {socia}
    Tx <- MCTx  Shelf <- MCShelf  Body <- MCBody  History <- MCHistory  Arrivals <- MCArrivals
    CatOp <- MCOp  DebtBody <- MCDebtBody  AbonoBody <- MCAbonoBody
    Scenario = "race"
    Products = {p1, p2}
    SaleIds = {s1, s2, s3}  DebtIds = {}
    SaleReqs = {r1, rOne}
    CatReqs = {}
    DebtReqs = {}
    AbonoReqs = {}
    MaxMinor = 8
    MaxSends = 0
    MaxDebtSends = 0
PROPERTIES
    GenuineLoserIsRecorded
