SPECIFICATION Spec
CONSTANTS
  Task = {f, t1, t2, t3}
  NoTask = NoTask
  f = f
  FdT = f
  MaxFd = 2
  Fd = {3}
  Mode = {"r", "x"}
  Delay = {0, 1}
  TickPerMs = 2
  PollCap = 2
  Horizon = 2
  ClockSteps <- MCSteps
SYMMETRY Symmetry
INVARIANTS CountInv WaitInv AtLeast PollInv EndInv
PROPERTIES FdKernelSteps WaitContract
