CONSTANTS
  c1 = c1
  c2 = c2
  mm = mm
  alice = alice
  bob = bob
  carol = carol
  Conns <- TwoConns
  Notifiers <- NoThreads
  Names <- TwoNames
  NoName = noname
  NoFd = nofd
  Nobody = nobody
  Ended = ended
  Memory <- Zeroed
  MAX_TRADERS = 2
  RefCap = 3
  MaxReconnects = 0
SPECIFICATION Spec
INVARIANT SessionsMapped
