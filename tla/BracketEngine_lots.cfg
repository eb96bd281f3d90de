SPECIFICATION Spec
CONSTANTS
    Lots = {l1, l2}
    Sides = {"BUY"}
    Evals = {t1}
    Requests = {}
    Prices <- MCOnePrice
    LotQty = 1
    MaxModifies = 0
    MaxManual = 1
    MaxRestarts = 0
    NoRule = NoRule
    NoEval = NoEval
SYMMETRY LotSymmetry
PROPERTY ImplementsOneShotRules
CHECK_DEADLOCK FALSE
CONSTRAINT TwoOrders
