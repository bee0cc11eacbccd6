SPECIFICATION FairSpec
CONSTANTS
  tp_block_nr = 3
  MaxPkts = 1
  T_REFRESH = 3
  MaxAway = 3
INVARIANTS
  RingInOrder MissRemembered
PROPERTIES
  BlocksRead RefreshGoesOn MissServed SignalThenBlock
