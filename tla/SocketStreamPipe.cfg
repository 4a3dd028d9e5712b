CONSTANTS
  Base = 2
  NoHandle = NoHandle
  h1 = h1
  Handle <- MCHandle
  KernelCap = 2
  Message <- MCMessage
  MaxSends = 2
  MaxPings = 1
  StorageSize <- MCStorageSize
  MaxReceives = 3
SPECIFICATION PipeFairSpec
INVARIANTS NoSpuriousError QueuedIffWaiting PingTimerArmed
PROPERTIES ImplementsMessagePipe GracefulCloseArrives EndReportedOnce RefusalIsAboutNextMessage
CHECK_DEADLOCK FALSE
CONSTRAINT OneTrouble
