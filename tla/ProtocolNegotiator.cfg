CONSTANT MaxVer = 4
SPECIFICATION Spec
INVARIANT DisjointRangesDetected
INVARIANT CompatibleNeverRefused
CHECK_DEADLOCK FALSE
