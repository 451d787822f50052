SPECIFICATION Spec
CONSTANTS
    Clients = {c1, c2}
    MaxVersion = 2
    MaxSegs = 2
    Env = {"bare_truncate", "shrink", "sparse"}
INVARIANTS TypeOK LockInv
PROPERTIES CommittedFrozen
SYMMETRY Symmetry
CHECK_DEADLOCK FALSE
