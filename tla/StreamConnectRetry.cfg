CONSTANT MaxAttempts = 2
SPECIFICATION Spec
INVARIANT MayTryAgain
CHECK_DEADLOCK FALSE
