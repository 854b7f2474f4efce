SPECIFICATION Spec
CONSTANTS
  Texts <- MCTexts
  Size <- MCSize
  InitialCapacity = 16
  MaxCapacity = 128
  SizeValues = 1000
  Names <- MCNames
  Bodies <- MCBodies
  Heard <- MCHeard
  ConnectTokens <- MCTokens
  TokenLengths <- MCTokenLengths
  Numbers <- MCNumbers
  Labels <- MCLabels
  None = None
  Faults = {"memory", "binary"}
INVARIANTS
  StaysInside
  SentIsWhole
  FieldsAreRead
  TokenAuthenticates
  LabelNamesIndex
CHECK_DEADLOCK FALSE
