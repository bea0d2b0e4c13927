\* Two expressions on one context; the evaluator's program is the smallest.
CONSTANTS
    Scenarios <- PoolScenarios
    Conts = {c1}
    Exprs = {e1, e2}
    Shapes <- MCShapes
    MaxDim = 8
    Persist = {FALSE}
    MaxBinds = 2
    MaxCompiles = 1
    Inputs <- PoolInputs
    VarNames = {"x"}
SPECIFICATION XSpec
INVARIANT
    ExprPoolLive
CHECK_DEADLOCK FALSE
