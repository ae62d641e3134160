CONSTANTS
  Nodes = {1, 2, 3, 4, 5, 6, 7, 8}
  Largest <- Sizes8
SPECIFICATION Spec
INVARIANTS
  Balanced
  Answers
PROPERTIES
  ErasesWhatItShows
  IsOrderedMap
