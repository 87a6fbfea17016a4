SPECIFICATION Spec
CONSTANTS
  Scripts <- Python
  Configs <- Grouped
  Asked <- Wellformed
  Malformed <- Odd
  BufferSize = 12
  Methods <- Verbs
  Number <- Digits
CHECK_DEADLOCK FALSE
INVARIANTS TypeOK RequestKept RightAnswer NeverWaiting
