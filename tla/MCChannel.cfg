SPECIFICATION Spec
CONSTANTS
  t1 = t1
  t2 = t2
  t3 = t3
  junk = junk
  nil = nil
  Task = {t1, t2, t3}
  NoTask = NoTask
  Chan = {"plain", "queue"}
  BufSize <- MCBufSize
  Value = {0, 1}
  Zero = 0
  Junk = junk
  NullPtr = nil
  Calls <- MCCalls
SYMMETRY Symmetry
INVARIANTS QueueInv MeetInv RingInv
PROPERTY ExchangeSpec
