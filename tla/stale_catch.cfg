SPECIFICATION GroupSpec
CONSTANTS
  w1 = w1
  w2 = w2
  Case = {"cas", "whole", "flaky"}
  Order <- Suite
  Expect <- Expectations
  BURST_COUNT = 3
  STRICT_XPASS = FALSE
  MaxIterations = 3
  Workers = {w1, w2}
  MaxOperations = 3
  MaxFaults = 3
  Defects = {"none", "partial", "phantom", "lost", "stray"}
INVARIANTS CatchIsAVerdict
