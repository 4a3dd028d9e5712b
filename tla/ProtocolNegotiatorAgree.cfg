CONSTANT MaxVer = 2
SPECIFICATION Spec
INVARIANT VersionAgreed
CHECK_DEADLOCK FALSE
