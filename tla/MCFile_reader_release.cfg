SPECIFICATION Spec
CONSTANTS
    Clients = {c1, c2}
    MaxVersion = 3
    MaxSegs = 2
    Env = {"fresh_reader"}
INVARIANTS ReadersPublishNothing
SYMMETRY Symmetry
CHECK_DEADLOCK FALSE
