SPECIFICATION SafetySpec
CONSTANTS
  w1 = w1
  w2 = w2
  w3 = w3
  Workers = {w1, w2, w3}
  Configs <- AtomicConfigs
  MaxIssued = 2
  Faults = {"preflight", "setup", "network", "refusal", "verify", "report", "drop", "interrupt"}
  Defective = FALSE
  Garbage <- NoGarbage
  CustomOutcomes <- SomeCustomOutcomes
  CounterCap = 1
  MaxErrorSamples = 1
SYMMETRY Symmetry
INVARIANTS TypeOK Accounted SequencesUnique EvidencePreserved NoFalseAlarm ConclusionIsSettled
