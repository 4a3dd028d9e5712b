CONSTANTS
  Message = {m1}
  MqCap = 2
  MaxSends = 2
  MaxPings = 1
  MaxReceives = 3
  IdleTimerUsed = TRUE
SPECIFICATION PipeFairSpec
INVARIANTS WorkerHasQueueAlone OneWakeupPerWait
PROPERTIES ImplementsMessagePipe DestructionEnds EndSendingReported GracefulCloseArrives
CONSTRAINT OneTimer
CHECK_DEADLOCK FALSE
