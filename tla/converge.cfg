SPECIFICATION Spec
CONSTANTS
  a = a
  b = b
  Members = {a, b}
  MemberList <- Pair
  OpTimes <- ThreePositions
  WatchLists <- Lists
INVARIANTS SlowMeansAdvanced
PROPERTIES KeepsPromise WaitEnds
