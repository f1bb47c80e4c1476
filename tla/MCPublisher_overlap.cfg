\* A first, two overlapping and a last publication, with every failure.
CONSTANTS
  MaxPublications = 4
  MaxVersion = 3
SPECIFICATION FairSpec
INVARIANTS
  InStep
  FinalStands
PROPERTIES
  KeysGoForward
  RunEnds
CHECK_DEADLOCK FALSE
