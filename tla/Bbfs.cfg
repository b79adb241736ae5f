CONSTANTS
  Names = {n1, n2}
  Files = {f1, f2}
  Handles = {h1, h2}
  NoFile = nofile
  Root = root
  OpenWith = {"rw"}
  Errnos = {1}
  Me = 1000
  Uids = {1000, 1001}
  Nobody = nobody
  MAXSIZE = 2
  Bytes <- LastChar
SPECIFICATION Spec
SYMMETRY Sym
INVARIANTS TypeOK DescriptorsAccountedFor ReadsBack
PROPERTY ImplementsPlainFiles
