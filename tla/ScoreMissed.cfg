CONSTANTS
  s1 = s1
  s2 = s2
  NoSource = NoSource
  Sources <- MCSources
  Objectives <- MCObjectives
  Events <- MCEvents
  MaxEvents = 3
SPECIFICATION Spec
INVARIANT WindowedChainFound
CHECK_DEADLOCK FALSE
