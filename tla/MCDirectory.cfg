SPECIFICATION Spec
CONSTANTS
    a = a
    b = b
    Clients = {c1, c2}
    Names = {a, b}
    Paths <- TwoLevels
    MaxTimes = 2
    Crashes = TRUE
INVARIANTS TypeOK ListingAgrees ParentExists UpdatesLand TreeInv
PROPERTY ReachableStays
SYMMETRY Symmetry
CHECK_DEADLOCK FALSE
