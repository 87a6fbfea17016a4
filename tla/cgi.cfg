SPECIFICATION Spec
CONSTANTS
  Conns = {c1, c2}
  Fds = {0, 1, 2, 3, 4, 5, 6, 7, 8, 9}
  ListenFd = 0
  NoFd = 99
  Residue = {3}
  Candidates <- LowestOf
  Kinds = {"file","script","script surplus","script missing","script path","not a script","unrouted"}
  MayHalfClose = FALSE
  MayHangUp = TRUE
  MayLengthen = FALSE
  MaxSegs = 1
  MaxExtra = 0
  MaxChunks = 1
  MaxBody = 2
  MaxOut = 2
  ReadSize = 2
CHECK_DEADLOCK FALSE
SYMMETRY ConnSymmetry
INVARIANTS TypeOK OwnDescriptors OutputComplete
