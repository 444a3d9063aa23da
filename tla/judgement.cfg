SPECIFICATION JudgeSpec
CONSTANTS
  w1 = w1
  w2 = w2
  Worker = {w1, w2}
  Lists <- OperationPairs
  Repeat = 0
  Existing = {"e1"}
  Ids = {"e1", "f1"}
  Names = {"c1"}
  Faults = {"command", "lost", "cancel"}
  maxPasses = 4
  Suites <- PairSuites
  CompareAnswers <- Compared
  MaxFaults = 2
  Benches <- TwoBenches
  Times = {1, 2}
  Samples = 2
  ConfirmSamples = 1
  MaxCrashes = 1
  ThresholdPercent = 10
  AlphaPercent = 20
  Lives = {0, 1000, 200000}
  Leftovers = {0, 1, 64, 65, 200, 900, 201000}
INVARIANTS
  SuiteIsSound CompleteOrError CountedOpsAreJudgedRight
  VerdictsAreSound LeastIsReported ArithmeticIsRight CompareIsExact DiffIsExact
PROPERTIES CleanServer
