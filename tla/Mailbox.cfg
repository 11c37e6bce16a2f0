SPECIFICATION FairSpec
CONSTANTS
  Letters = {1, 2, 3}
  Readers = {r1, r2}
  None = None
INVARIANTS OnePlace
PROPERTIES ImplementsBox CallsReturn
