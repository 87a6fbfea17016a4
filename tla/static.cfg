SPECIFICATION Spec
CONSTANTS
  Conns = {c1, c2}
  Fds = {f0, f1, f2, f3}
  ListenFd = f0
  NoFd = none
  Residue = {}
  Candidates <- AnyOf
  Kinds = {"file", "delete", "refused", "surplus", "unreadable", "malformed", "unservable"}
  MayHalfClose = TRUE
  MayHangUp = FALSE
  MayLengthen = FALSE
  MaxSegs = 2
  MaxExtra = 1
  MaxChunks = 2
  MaxBody = 1
  MaxOut = 1
  ReadSize = 2
CHECK_DEADLOCK FALSE
SYMMETRY Symmetry
INVARIANTS OwnDescriptors StoppedByCulprit ClosedAfterAnswer Watched SnapshotCurrent
PROPERTY Delivers
