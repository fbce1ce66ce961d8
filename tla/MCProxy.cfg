SPECIFICATION ProxySpec
CONSTANTS
  Client = {t1}
  NoTask = NoTask
  NoCall = NoCall
  Ops = {"read"}
  MaxN = 1
  Room = 1
  MaxIn = 1
  NetClient = {t1}
  Fd = {3}
  NetOps = {"announce"}
  MaxConn = 1
  goal = 2
  Stages = 1
  Conn = {c1, c2}
  ProxyFd = {4, 5, 6}
  Lfd = 3
  None = None
SYMMETRY Symmetry
INVARIANT ProxyInv
