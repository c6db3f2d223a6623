SPECIFICATION Spec
CONSTANTS
  BufferSize = 2
  Needed = 2
  AnswerParts = 3
  QueryBuffer = 3
  MaxKeys = 4
INVARIANTS FoundIsTheTerminals
