SPECIFICATION Spec
CONSTANTS
  Process = {p1, p2}
  Inode = {1, 2, 3}
  File = {1}
  Files <- MCFiles
  Sources <- MCSources
  BSIZE = 2
  NDIRECT = 1
  NINDIRECT = 2
  NBLOCK = 7
  LOGSIZE = 6
  Lengths = {3}
  NoInode = 0
SYMMETRY Symmetry
INVARIANTS BlocksOwned NoLogPanic
PROPERTY FilesAreBytes
