\* Containers read with a block larger than the container along a dimension.
CONSTANT BlockCases <- OversizeBlocks
SPECIFICATION BSpec
INVARIANT BlocksTileShape
\* The program ends after freeing the iterator.
CHECK_DEADLOCK FALSE
