CONSTANT Polls = 3
SPECIFICATION Spec
INVARIANT SuspendWaits
CHECK_DEADLOCK FALSE
