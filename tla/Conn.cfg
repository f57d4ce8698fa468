SPECIFICATION Spec
CONSTANTS
  c1 = c1
  c2 = c2
  c3 = c3
  d1 = d1
  d2 = d2
  d3 = d3
  s1 = s1
  s2 = s2
  NoConn = NoConn
  NULL = NULL
  Conns <- MC_Conns
  Ids <- MC_TwoIds
  Fds <- MC_Fds
  SSLs <- MC_SSLs
  Risky <- MC_None
SYMMETRY MC_SymmetryOfTwo
VIEW MC_NoEvent
CONSTRAINT MC_OneNonblocking
INVARIANTS
  TypeOK
  SSLOwned
  ConnectedIsOpen
PROPERTIES
  ImplementsSharedHandle
