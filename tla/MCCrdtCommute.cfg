SPECIFICATION OrdersSpec
CONSTANTS
    ElemId = {e1}
    Key = {k1, k2}
    Val = {1}
    Order = {run1, run2}
    OpSets <- MCPartial
    MaxRepeats = 0
INVARIANT
    OpsCommute
