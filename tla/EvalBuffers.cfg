\* One or two operands of equal length, chunk and block mode.
CONSTANT Scenarios <- SameShape
SPECIFICATION Spec
INVARIANT BuffersReleased
CHECK_DEADLOCK FALSE
