SPECIFICATION Spec
CONSTANTS
    Orders = {o1}
    Lots = {l1, l2}
    Tasks = {t1, t2, t3}
    Kinds = {"ENTRY", "EXTERNAL", "EXIT", "MANUAL"}
    Sides = {"BUY"}
    Brackets <- MCBothLegs
    Quantities = {1}
    MaxFires = 0
    MaxCancels = 1
    MaxRetries = 2
    MaxRestarts = 2
    None = None
SYMMETRY RecorderSymmetry
INVARIANTS AppliedBound UnprotectedOnlyAfterRestart
PROPERTIES RowsNeverRegress RulesAreOneShot
CHECK_DEADLOCK FALSE
