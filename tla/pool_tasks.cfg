SPECIFICATION Spec
CHECK_DEADLOCK FALSE
SYMMETRY WorkerSymmetry
CONSTANTS
  Workers = {w1, w2}
  Space = 3
  Solutions <- MCSolutions
  Starts <- AllKnown
  Fallbacks = {1}
  MaxTasks = 2
  MaxRetries = 0
  MaxRounds = 2
  MayHappen = {"interruption", "restart"}
  MaxFaults = 1
INVARIANTS
  TypeOK
  ForwardedOnce
  AnswersInOrder
  SolutionKept
  Watched
PROPERTY
  KeepsService
