SPECIFICATION Spec
CONSTANTS
  Scripts <- Python
  Configs <- Grouped
  Asked <- Spelled
  Malformed <- None
  BufferSize = 12
  Methods <- Verbs
  Number <- Digits
CHECK_DEADLOCK FALSE
INVARIANT BodyKept
