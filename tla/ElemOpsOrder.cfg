\* Two bound containers of one or two items, a bound scalar, both dtypes,
\* walks of up to five temporaries (two kernel calls on top of a scalar).
CONSTANTS
    NVars = 2
    Dim0s = {1, 2}
    Dtypes = {"double", "float"}
    Scalars = {s1}
    MaxTemps = 5
SPECIFICATION Spec
INVARIANT OpResultExact
CHECK_DEADLOCK FALSE
