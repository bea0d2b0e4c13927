\* Two filled operands whose lengths differ, chunk and block mode.
CONSTANT Scenarios <- Mismatched
SPECIFICATION Spec
PROPERTY EvalRefinesSpec
CHECK_DEADLOCK FALSE
