\* Two-dimensional containers are enough to see the visiting order.
CONSTANTS
    DTShapes <- AllDTShapesUpTo2D
    WLoops = {"unchecked"}
    MaxWFail = 0
SPECIFICATION Spec
PROPERTIES
    NelemRowMajor
CHECK_DEADLOCK FALSE
