CONSTANTS
  Nodes = {1, 2, 3, 4, 5, 6}
  Largest <- OnlyRedBlack
SPECIFICATION Spec
INVARIANTS
  RemovalsFinish
