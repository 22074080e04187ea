SPECIFICATION FairSpec
CONSTANTS
  Threads = 3
  Word = 8
  Ranges <- MCRanges
  MaxSolutions = 3
  SolutionSets <- MCSolutionSets
  Engines = {"cuda", "cpu"}
INVARIANTS
  TypeOK
  ResultSolves
  NoneMeansNone
PROPERTY
  Ends
