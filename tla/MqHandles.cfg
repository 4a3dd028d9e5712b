CONSTANTS
  s1 = s1
  r1 = r1
  r2 = r2
  Sender <- MCSender
  Receiver <- MCReceiver
  Waiters <- MCSenderOnly
  Timers <- MCReceiverOnly
  Interruptible <- MCReceiverOnly
  Capacity = 1
  Timeout = 1
  MaxTime = 2
SPECIFICATION MqFairSpec
INVARIANTS NoStaleInterrupt
PROPERTIES InterruptEndsWait NoLostWakeup TimedBipcWaitEnds
CHECK_DEADLOCK FALSE
