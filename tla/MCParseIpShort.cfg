SPECIFICATION PartsSpec
CONSTANTS
  Task = {k1, k2, k3, k4}
  nil = nil
  List = {"run", "sleeping", "lock"}
  sleeping = "sleeping"
  When = {0, 1, 2}
  Caller = {k1, k2, k3}
  Chan = {ch}
  None = None
  Grain = 2
  Calls <- MCCalls
  Block = {k1, k2, k3, k4}
  Junk = Junk
  Freed = Freed
  Chunk = 2
  t1 = t1
  t2 = t2
  Stacked = {t1, t2}
  Sched = Sched
  Stk <- MCStk
  Size = 24
  Align = 4
  Low = 2
  Ends = 16
  Red = 3
  Half = 8
  Reg = {"ebx", "ebp"}
  Val = {0, 1}
  MaxWork = 2
  ByteSize = 4
  Names <- NonEmpty
  Stacks <- MCStacks
  Range2 = 16
  Char <- MCChar
  Formats <- AllFormats
  Sizes = {1, 2, 3, 4, 6, 9}
SYMMETRY Symmetry
INVARIANT MadeOfName
