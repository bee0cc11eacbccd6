SPECIFICATION Spec
CONSTANTS
  i1 = i1  i2 = i2  p1 = p1  p2 = p2  t1 = t1  t2 = t2  t3 = t3
  Inode <- MCInode
  Pid <- MCPid
  Tuple = {t1, t2}
  TcpTuple = {t1}
  Orphan = orphan0
  NoTuple = NoTuple
  NoPid = NoPid
  Files = {"tcp", "udp"}
  EnvDuringUpdate = TRUE
INVARIANTS
  ProcPointerLive
