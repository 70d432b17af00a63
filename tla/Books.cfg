\* The calls are few: once they are answered, nothing is left to happen.
SPECIFICATION Spec
CONSTANTS
    Null = Null
    call = call  Calls = {call}
    Members = {1, 2, 3}
    Openings <- MCOpenings
    MaxAmount = 7
    MaxWeight = 3
    SharesBps = {0, 3333, 5000, 10000}
    Days = {0, 1, 2, 3}
INVARIANTS
    DistributionAddsUp
    WorkFollowsHamilton
    BooksAgree
CHECK_DEADLOCK FALSE
