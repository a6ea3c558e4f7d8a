SPECIFICATION FairStarSpec
CONSTANTS
  Configs <- Commands
  Keys <- TwoKeys
INVARIANTS
  ResultsTrue
  EachQueryOnce
PROPERTIES
  WorkersReturn
