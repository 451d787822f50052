SPECIFICATION FairSpec
CONSTANTS
    Scenarios <- MCScenarios
    Total = 3
    PipeSize = 2
INVARIANTS TypeOK SearchInv JsInv FindsMatch JsAgrees UniqueCount PipeFull Whole
PROPERTIES NotStuck
CHECK_DEADLOCK FALSE
