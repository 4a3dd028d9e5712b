CONSTANTS
  Base = 2
  NoHandle = NoHandle
  h1 = h1
  Handle <- MCHandle
  KernelCap = 3
  Message <- MCMessage
  MaxSends = 2
  MaxPings = 0
SPECIFICATION SndSpec
INVARIANTS OnDoneKeptWhileWouldBlock
CHECK_DEADLOCK FALSE
