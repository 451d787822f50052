SPECIFICATION Spec
CONSTANTS
    SegSize = 2
    MaxSegs = 3
    MaxWrites = 3
    Env = {"rewrite"}
INVARIANTS AckedStored
CHECK_DEADLOCK FALSE
