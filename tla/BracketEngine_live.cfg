SPECIFICATION FairSpec
CONSTANTS
    Lots = {l1}
    Sides = {"BUY"}
    Evals = {t1, t2}
    Requests = {}
    Prices <- MCPrices
    LotQty = 1
    MaxModifies = 0
    MaxManual = 0
    MaxRestarts = 1
    NoRule = NoRule
    NoEval = NoEval
PROPERTY FiringSettles
CHECK_DEADLOCK FALSE
