SPECIFICATION Spec
CONSTANTS
  NoBlock = NoBlock
  g = g
  a1 = a1
  b1 = b1
  a2 = a2
  b2 = b2
  b3 = b3
  k1 = k1
  k2 = k2
  k3 = k3
  Blocks <- MCBlocks
  ParentOf <- MCParentOf
  NumberOf <- MCNumberOf
  StateOf <- MCStateOf
  Keys = {k1, k2, k3}
  FirstBlocks = {g, b1}
  MaxBlocks = 1
  MaxBlocksPerLevel = 2
  MaxPins = 1
  Delay = 2
INVARIANTS
  TypeOK
  WindowsAligned
  AvailableStateReadable
  RestartRecovers
  DeathIndexExact
  KeptOnlyForPins
  NoGarbage
PROPERTIES
  PinnedNotPruned
