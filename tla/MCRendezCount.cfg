SPECIFICATION LocksSpec
CONSTANTS
  Task = {t1, t2, t3}
  NoTask = NoTask
  l1 = l1
  r1 = r1
  r2 = r2
  Lock = {l1}
  NoLock = NoLock
  Rdz = {r1, r2}
  NoRdz = NoRdz
  Guard <- MCGuard
SYMMETRY Symmetry
INVARIANT WakesOne
