SPECIFICATION FairSpec
CONSTANTS
  Conns = {c1, c2}
  Fds = {0, 1, 2, 3, 4, 5, 6, 7, 8, 9}
  ListenFd = 0
  NoFd = 99
  Residue = {}
  Candidates <- LowestOf
  Kinds = {"file","surplus","script"}
  MayHalfClose = TRUE
  MayHangUp = FALSE
  MayLengthen = TRUE
  MaxSegs = 1
  MaxExtra = 0
  MaxChunks = 2
  MaxBody = 1
  MaxOut = 0
  ReadSize = 1
PROPERTY Served
CHECK_DEADLOCK FALSE
