SPECIFICATION Spec
CONSTANTS
  o1 = o1
  o2 = o2
  o3 = o3
  Op = {o1, o2, o3}
  Foreign = Foreign
  Name = {t1, eth}
  Reserved = {eth}
  Addr = {local, remote, loopback}
  Usable = {local, remote}
  Port = {p1}
  NoPort = NoPort
  Cidr <- MCCidr
  NoCidr = NoCidr
SYMMETRY MCSymmetry
INVARIANTS FailureIsClean SuccessLasts
PROPERTIES ForeignLinksStay
CHECK_DEADLOCK FALSE
