SPECIFICATION Spec
CONSTANTS
    Lots = {l1}
    Sides = {"BUY"}
    Evals = {t1, t2}
    Requests = {q1}
    Prices <- MCPrices
    LotQty = 1
    MaxModifies = 1
    MaxManual = 0
    MaxRestarts = 1
    NoRule = NoRule
    NoEval = NoEval
SYMMETRY EvalSymmetry
INVARIANTS TypeOK OneOrderPerRule FiringIsExclusive OcoAfterPlacement CancelledNeverResting
PROPERTY FiresOnCurrentPrice
CHECK_DEADLOCK FALSE
