SPECIFICATION Spec
CONSTANTS
    Orders = {o1}
    Lots = {l1, l2}
    Tasks = {t1}
    Kinds = {"ENTRY"}
    Sides = {"BUY"}
    Brackets <- MCBothLegs
    Quantities = {1}
    MaxFires = 0
    MaxCancels = 0
    MaxRetries = 0
    MaxRestarts = 0
    None = None
SYMMETRY RecorderSymmetry
INVARIANTS AppliedAtMostOnce
CHECK_DEADLOCK FALSE
