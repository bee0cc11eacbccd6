SPECIFICATION FairSpec
CONSTANTS
  w1 = w1  w2 = w2  w3 = w3  a1 = a1  a2 = a2  a3 = a3
  Worker <- MCWorker
  Main = main
  Nobody = nobody
  Addr <- MCAddr
  NoAddr = NoAddr
  cache_size = 2
  DEFAULT_NUM_WORKERS = 2
INVARIANTS
  NoLostTask OneOwner CacheConsistent FreedInPeace
PROPERTIES
  Resolves ShutdownEnds KeepsPromise
