SPECIFICATION Spec
CONSTANTS
    SegSize = 2
    MaxSegs = 3
    MaxWrites = 4
    Env = {}
INVARIANTS ReadsSlice StaysUp AckedStored
PROPERTY ImplementsDraft
CHECK_DEADLOCK FALSE
