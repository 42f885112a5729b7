SPECIFICATION Spec
CONSTANT MaxMessages = 2
INVARIANT FoundIsEnough
CHECK_DEADLOCK FALSE
