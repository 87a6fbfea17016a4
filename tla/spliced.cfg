SPECIFICATION Spec
CONSTANTS
  Conns = {c1, c2}
  Fds = {f0, f1, f2, f3}
  ListenFd = f0
  NoFd = none
  Residue = {}
  Candidates <- AnyOf
  Kinds = {"file"}
  MayHalfClose = FALSE
  MayHangUp = FALSE
  MayLengthen = FALSE
  MaxSegs = 2
  MaxExtra = 0
  MaxChunks = 2
  MaxBody = 1
  MaxOut = 1
  ReadSize = 2
SYMMETRY Symmetry
INVARIANT OneResponse
