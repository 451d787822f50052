SPECIFICATION Spec
CONSTANTS
    SegSize = 3
    MaxSegs = 2
    MaxWrites = 3
    Env = {"unaligned", "rewrite", "sparse", "shrink"}
INVARIANTS TypeOK ListCoversSize
CHECK_DEADLOCK FALSE
