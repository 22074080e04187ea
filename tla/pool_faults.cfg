SPECIFICATION FairSpec
CHECK_DEADLOCK FALSE
CONSTANTS
  Workers = {w1, w2}
  Space = 1
  Solutions = {0}
  Starts <- AllKnown
  Fallbacks = {0}
  MaxTasks = 1
  MaxRetries = 1
  MaxRounds = 2
  MayHappen = {"death", "giveUp", "late", "interruption", "restart"}
  MaxFaults = 1
INVARIANTS
  SolutionKept
  Watched
PROPERTY
  Answered
