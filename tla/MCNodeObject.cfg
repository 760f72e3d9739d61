SPECIFICATION FairSpec
CONSTANTS
  Gammas = {0, 2, 5, 9}
  None = None
INVARIANTS
  NodeInv
PROPERTIES
  NothingTakenBack
  OutdatedIsReplaced
