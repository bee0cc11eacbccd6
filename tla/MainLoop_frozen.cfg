SPECIFICATION FairSpec
CONSTANTS
  tp_block_nr = 2
  MaxPkts = 1
  T_REFRESH = 3
  MaxAway = 4
PROPERTIES
  RefreshGoesOn
