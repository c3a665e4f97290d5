CONSTANT MaxSession = 3
SPECIFICATION Spec
INVARIANT SingleLink
CHECK_DEADLOCK FALSE
