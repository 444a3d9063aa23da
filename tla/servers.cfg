SPECIFICATION ServersSpec
CONSTANTS
  m1 = m1
  m2 = m2
  d1 = d1
  d2 = d2
  d3 = d3
  Mongods <- TwoMongods
  Dumbos = {d1, d2, d3}
  Foreign = f
  Starts <- AllStarts
  MaxOps = 4
  None = None
  Launchers = {"a", "b"}
  Kinds <- MixedKinds
  Ports = {1, 2, 3}
  MaxTries = 2
  MaxForeign = 1
  MaxRestarts = 1
SYMMETRY Symmetry
INVARIANTS ViewIsCurrent LeftBehindIsReported PortsNeverShared NothingLeaks
PROPERTIES NoLostReconfig
