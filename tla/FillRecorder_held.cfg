SPECIFICATION Spec
CONSTANTS
    Orders = {o1, o2, o3}
    Lots = {l1, l2}
    Tasks = {t1, t2}
    Kinds = {"ENTRY"}
    Sides = {"BUY"}
    Brackets <- MCTarget
    Quantities = {1}
    MaxFires = 1
    MaxCancels = 0
    MaxRetries = 0
    MaxRestarts = 1
    None = None
SYMMETRY RecorderSymmetry
INVARIANTS TypeOK AppliedBound ResolvedStaysResolved
PROPERTY RulesAreOneShot
CHECK_DEADLOCK FALSE
