SPECIFICATION SFSpec
CONSTANTS
    Clients = {c1, c2}
    MaxVersion = 2
    MaxSegs = 1
    Env = {}
INVARIANTS ServerUp
SYMMETRY Symmetry
CHECK_DEADLOCK FALSE
