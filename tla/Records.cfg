SPECIFICATION FairSpec
CONSTANTS
    left = left  right = right  s3 = s3  s4 = s4  k4 = k4  k4other = k4other  e1 = e1  eTwo = eTwo
    kTwo = kTwo  kForeign = kForeign  r2 = r2  rForeign = rForeign
    xs = xs  xsCross = xsCross  xsPlain = xsPlain  xk = xk  xkAgain = xkAgain  xkOther = xkOther
    xkSelf = xkSelf  xkNone = xkNone  xr = xr
    Nowhere = Nowhere  NoRow = NoRow
    Actors = {1, 2}  Socios = {1}  Instances = {left, right}
    Creations = {s3, s4, k4, k4other, e1, eTwo, kTwo, kForeign, r2, rForeign}
    Corrections = {xs, xsCross, xsPlain, xk, xkAgain, xkOther, xkSelf, xkNone, xr}
    Requests <- MCRequests  ActorOf <- MCActorOf  Homes <- MCHomes  WithReader <- MCWithReader
    Body <- MCBody  Fix <- MCFix  Filed <- MCFiled
    Ids = {1, 2, 3, 4, 5, 9}  ForeignIds = {9}  Days = {1, 2}
    Listed = "contribution"  Limit = 2
    MaxSends = 1
    MaxEvents = 1
INVARIANTS
    CorrectionsHoldTogether
    PagesMissNothing
PROPERTIES
    WarningsAreExact
    OnlyForThoseInForce
    EverySubmissionIsAnswered
