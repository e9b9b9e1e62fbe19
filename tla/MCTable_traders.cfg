CONSTANTS
  c1 = c1
  c2 = c2
  mm = mm
  alice = alice
  bob = bob
  carol = carol
  Conns <- TwoConns
  Notifiers <- Matchmaker
  Names <- ThreeNames
  NoName = noname
  NoFd = nofd
  Nobody = nobody
  Ended = ended
  Memory <- Zeroed
  MAX_TRADERS = 2
  RefCap = 3
  MaxReconnects = 1
SYMMETRY TableSymmetry
SPECIFICATION Spec
CONSTRAINT Quiet
INVARIANTS TypeOK   OneSession Packed PacketsWhole FiniFreesAll LockedOrKept
