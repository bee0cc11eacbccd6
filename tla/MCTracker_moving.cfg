SPECIFICATION Spec
CONSTANTS
  i1 = i1  i2 = i2  p1 = p1  p2 = p2  t1 = t1  t2 = t2  t3 = t3
  Inode = {i1}
  Pid <- MCPid
  Tuple = {t2, t3}
  TcpTuple = {}
  Orphan = orphan0
  NoTuple = NoTuple
  NoPid = NoPid
  Files = {"tcp", "udp"}
  EnvDuringUpdate = TRUE
INVARIANTS
  EntriesPaired ShownIsLive
PROPERTIES
  GraceKept
