SPECIFICATION Spec
CONSTANTS
  d1 = d1  d2 = d2  d3 = d3
  Datagram <- MCDatagram
  Key <- MCDatagram
  NoKey = NoKey
  KeyOf <- MCKeyOf
  Port = {1, 2, 3, 4, 5, 6}
  PortsOf <- MCPortsOf
  MAX_REASSEMBLIES = 2
  LIFETIME_FRAG = 2
  MaxTime = 5
INVARIANTS
  TypeOK CountExact SlotsFresh RightPorts
PROPERTIES
  RefusedOnlyFull
