SPECIFICATION FairSpec
CONSTANTS
    ana = ana  beto = beto
    Members = {ana, beto}
    Configs <- MCConfigs
    Openings <- MCOpenings
    Requests = {1, 2}
    MaxVersions = 3
    MaxCalls = 3
    MaxEvents = 2
INVARIANTS
    TypeOK
PROPERTIES
    GuardsAreNeverHit
    BroughtInUnanimously
    EveryCallEnds
