SPECIFICATION FairSpec
CONSTANTS
  Task = {t1, t2, t3}
  NoTask = NoTask
  Status = {0}
  Chunk = 64
  IntRange = 7
PROPERTIES ReadyRuns NoUsersEnds
