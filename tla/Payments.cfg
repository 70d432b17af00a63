SPECIFICATION Spec
CONSTANTS
    ana = ana  left = left  right = right  week = week  month = month  c1 = c1
    c2 = c2  c2again = c2again  c2other = c2other  c3 = c3  c4 = c4  c5 = c5
    cForeign = cForeign  cMuch = cMuch  cWork = cWork  v1 = v1  v1again = v1again  v2 = v2
    vEarly = vEarly  vSelf = vSelf  vCross = vCross  vForeign = vForeign  p1 = p1  p1again = p1again
    p1other = p1other  p2 = p2  p3 = p3  pNobody = pNobody  pNothing = pNothing  pEarly = pEarly
    pForeign = pForeign  u1 = u1  u1again = u1again  u2 = u2  uEarly = uEarly  uForeign = uForeign
    Nowhere = Nowhere  NoAgreement = NoAgreement  NoVoid = NoVoid  NoId = NoId
    NoPayment = NoPayment  NoUndo = NoUndo
    Actors = {ana}  Socios = {ana}  Instances = {left, right}
    Requests <- MCRequests  ActorOf <- MCActorOf  Homes <- MCHomes
    Ledgers <- MCLedgers  Opening <- MCOpening  Filed <- MCFiled
    CreateBody <- MCCreateBody  VoidBody <- MCVoidBody  PayBody <- MCPayBody  UndoBody <- MCUndoBody
    Scenario = "payments"
    CreateReqs = {c3, c5}
    VoidReqs = {v1, v1again, v2, vEarly, vSelf, vCross, vForeign}
    PayReqs = {p1, p1again, p1other, p2, p3, pNobody, pNothing, pEarly, pForeign}
    UndoReqs = {u1, u1again, u2, uEarly, uForeign}
    Ids = {1, 2, 3, 5, 6, 9}  ForeignIds = {9}
    PayIds = {11, 12, 13, 19}  UndoIds = {21, 22, 29}  ForeignPays = {19, 29}
    Members = {1, 2, 3}  Periods = {week, month}  Years = {1}
    MaxAttempts = 1
    MaxSends = 0
    MaxEvents = 1
INVARIANTS
    PaidWithinShare
PROPERTIES
    ImplementsTheAccounts
    AcceptedIsNotRefused
