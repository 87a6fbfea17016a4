SPECIFICATION Spec
CONSTANTS
  Conns = {c1, c2, c3}
  Fds = {0,1,2,3,4,5,6}
  ListenFd = 0
  NoFd = 99
  Residue = {}
  Candidates <- LowestOf
  Kinds = {"file", "script"}
  MayHalfClose = FALSE
  MayHangUp = FALSE
  MayLengthen = FALSE
  MaxSegs = 1
  MaxExtra = 0
  MaxChunks = 1
  MaxBody = 3
  MaxOut = 0
  ReadSize = 2
CHECK_DEADLOCK FALSE
SYMMETRY ConnSymmetry
INVARIANT ClosedAfterAnswer
