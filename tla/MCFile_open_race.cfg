SPECIFICATION Spec
CONSTANTS
    Clients = {c1, c2}
    MaxVersion = 3
    MaxSegs = 2
    Env = {"open_race"}
INVARIANTS SingleWriter
SYMMETRY Symmetry
CHECK_DEADLOCK FALSE
