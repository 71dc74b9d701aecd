CONSTANTS
  Task = {t1, t2, t3}
  NoTask = NoTask
  Threads = 2
SPECIFICATION Spec
INVARIANTS TypeOK FifoOrder RunsOnce JoinDrains Inductive
PROPERTIES QuietAfterJoin EarlyTaskRuns JoinReturns
CHECK_DEADLOCK FALSE
