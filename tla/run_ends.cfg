SPECIFICATION Spec
CONSTANTS
  w1 = w1
  w2 = w2
  Workers = {w1, w2}
  Configs <- LiveConfigs
  MaxIssued = 2
  Faults = {"network", "refusal", "verify", "interrupt"}
  Defective = FALSE
  Garbage <- NoGarbage
  CustomOutcomes <- SomeCustomOutcomes
  CounterCap = 1
  MaxErrorSamples = 1
PROPERTIES RunEnds InterruptEndsRun
