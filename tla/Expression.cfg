\* Eval: one or two operands of equal length in both modes, and pairs whose
\* second operand has no chunks.  Lifecycle: two containers, one expression,
\* one shape of each kind.  Parser: every short concatenation of lexemes.
CONSTANTS
    Scenarios <- SameShapeOrUnfilled
    Conts = {c1, c2}
    Exprs = {e1}
    Shapes <- MCShapes
    MaxDim = 8
    Persist = {FALSE}
    MaxBinds = 2
    MaxCompiles = 2
    Inputs <- MCInputs
    VarNames = {"x"}
SPECIFICATION XSpec
INVARIANTS
    EvalTypeOK
    LifeTypeOK
    ContainerResourcesExact
    ParseTypeOK
    CompileMatchesGrammar
PROPERTY EvalRefinesSpec EvalReturns
\* Each program stops: iarray_eval and jug_te_compile return, and the
\* lifecycle's handles and bounds run out.
CHECK_DEADLOCK FALSE
