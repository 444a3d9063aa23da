SPECIFICATION DefectiveSpec
CONSTANTS
  w1 = w1
  w2 = w2
  Workers = {w1, w2}
  Configs <- DefectiveConfigs
  MaxIssued = 2
  Faults = {}
  Defective = TRUE
  Garbage <- Answers
  CustomOutcomes <- NoCustomOutcomes
  CounterCap = 1
  MaxErrorSamples = 1
SYMMETRY Symmetry
INVARIANTS ChainIsProved CoalescedChainIsProved TrackerBounded FinalMarkIsAcknowledged AcknowledgedWritesAreStored
