SPECIFICATION MemFairSpec
CONSTANTS
  Node = {n1, n2, n3}
  Key = {k1}
  EpLists <- MCEpLists
  NoEps <- MCNoEps
  Poller = {c1}
  PoolSize = 4
  Base = 0
  NoIp = NoIp
  MaxBumps = 5
  MaxRestarts = 1
INVARIANTS AddressesDistinct RefusedOnlyWhenFull NoMissedChange EtagNamesContent CurrentViewIntact
PROPERTIES AddressKept ChangesArrive ViewsSettle
