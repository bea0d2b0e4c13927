\* Every container of one or two dimensions with extents up to 4.
CONSTANTS
    DTShapes <- AllDTShapesUpTo2D
    MaxFail = 0
SPECIFICATION PSpec
INVARIANT PartElemIndexDocumented
\* The program ends after freeing the iterator.
CHECK_DEADLOCK FALSE
