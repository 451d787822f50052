SPECIFICATION SFFairSpec
CONSTANTS
    Clients = {c1, c2}
    MaxVersion = 2
    MaxSegs = 2
    Env = {}
INVARIANTS ServesCommitted SelectionStands
PROPERTIES InterestsEnd
CHECK_DEADLOCK FALSE
