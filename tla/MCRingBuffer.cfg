CONSTANTS
  Byte <- MCByte
  Zero = 0
  Capacity = 4
  Chunks <- MCChunks
  Texts <- MCTexts
  MaxBytes = 5
SPECIFICATION Spec
INVARIANTS
  PositionsAgree
  DistanceFindsFirst
PROPERTY
  ImplementsQueue
