CONSTANTS
    Recording = {p1, p2}
    Keeping = TRUE
    MaxRows = 4
    MaxCuts = 2
SPECIFICATION Spec
INVARIANTS NumbersIdentifyRows
CHECK_DEADLOCK FALSE
