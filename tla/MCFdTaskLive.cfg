SPECIFICATION FairSpec
CONSTANTS
  Task = {f, t1, t2}
  NoTask = NoTask
  f = f
  FdT = f
  MaxFd = 2
  Fd = {3}
  Mode = {"r"}
  Delay = {0, 1}
  TickPerMs = 2
  PollCap = 1
  Horizon = 3
  ClockSteps = {}
PROPERTY IdleServes
