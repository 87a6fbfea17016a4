SPECIFICATION Spec
CONSTANTS
  Scripts <- Python
  Configs <- Mixed
  Asked <- Wellformed
  Malformed <- None
  BufferSize = 12
  Methods <- Verbs
  Number <- Digits
CHECK_DEADLOCK FALSE
INVARIANT OwnAddress
