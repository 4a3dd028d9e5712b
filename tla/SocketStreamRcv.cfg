CONSTANTS
  Base = 2
  NoHandle = NoHandle
  h1 = h1
  Handle <- MCHandle
  KernelCap = 2
  StorageSize <- MCStorageSize
  MaxReceives = 2
SPECIFICATION RcvFairSpec
INVARIANTS OneResultPerReceive PendingIffWaiting ReadsFitStorage
INVARIANTS IdleTimerArmed
PROPERTIES ReceiveCompletesIfSilent
CHECK_DEADLOCK FALSE
