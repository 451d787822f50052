SPECIFICATION FairSpec
CONSTANTS
    Clients = {c1, c2}
    MaxVersion = 3
    MaxSegs = 2
    Env = {}
INVARIANTS TempMeansWriter NoOrphans
PROPERTIES VersionsAdvance TempReleased RequestsComplete
CHECK_DEADLOCK FALSE
