\* iarray_gemm and iarray_gemv of iarray.c on every operand case.
CONSTANTS
    Cases <- MCCases
    GCases <- MCGCases
    Zero = Zero
    Garbage = Garbage
SPECIFICATION MSpec
INVARIANT
    BlocksReleased
CHECK_DEADLOCK FALSE
