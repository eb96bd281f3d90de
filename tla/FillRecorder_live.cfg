SPECIFICATION FairSpec
CONSTANTS
    Orders = {o1}
    Lots = {l1, l2}
    Tasks = {t1, t2, t3}
    Kinds = {"ENTRY", "EXTERNAL"}
    Sides = {"BUY"}
    Brackets <- MCBothLegs
    Quantities = {1}
    MaxFires = 0
    MaxCancels = 0
    MaxRetries = 1
    MaxRestarts = 0
    None = None
PROPERTY PushEnds
CHECK_DEADLOCK FALSE
