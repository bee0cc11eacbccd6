SPECIFICATION Spec
CONSTANTS
  k1 = k1
  k2 = k2
  k3 = k3
  v1 = v1
  v2 = v2
  v3 = v3
  v4 = v4
  v5 = v5
  Key = {k1, k2, k3}
  Value = {v1, v2, v3, v4, v5}
  KeyOf <- MCKeyOf
  Hash <- MCHash
  HASHTABLE_MIN_SIZE = 4
  NULL = NULL
INVARIANTS
  ChainsRight
  SizeRight
  SweepRight
PROPERTIES
  FoundLatest
  KeepsPromise
