SPECIFICATION AnySpec
CONSTANTS
  Client = {t1, t2}
  NoTask = NoTask
  NoCall = NoCall
  Ops = {"read", "read1", "write"}
  MaxN = 2
  Room = 1
  MaxIn = 2
  NetClient = {t1, t2, t3}
  Fd = {3, 4}
  NetOps = {"announce", "accept", "dial"}
  MaxConn = 2
  goal = 29
  Stages = 11
  Conn = {c1}
  ProxyFd = {4}
  Lfd = 3
  None = None
INVARIANTS TransferInv NoLeak SieveInv
PROPERTIES DialConnects AllReturn
