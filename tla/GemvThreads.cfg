\* The prefilter gemv over vectors of up to 6 items, with every failing step.
CONSTANTS
    Cases <- MCCases
    GCases <- MCGCases
    Zero = Zero
    Garbage = Garbage
SPECIFICATION MSpec
INVARIANT
    MklThreadsRestored
CHECK_DEADLOCK FALSE
