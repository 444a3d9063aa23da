SPECIFICATION SafetySpec
CONSTANTS
  w1 = w1
  w2 = w2
  Workers = {w1, w2}
  Configs <- UUIDConfig
  MaxIssued = 2
  Faults = {}
  Defective = TRUE
  Garbage <- GarbageMarks
  CustomOutcomes <- NoCustomOutcomes
  CounterCap = 1
  MaxErrorSamples = 1
SYMMETRY Symmetry
INVARIANTS FinalTokenClosesChain
