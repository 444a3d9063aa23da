SPECIFICATION Spec
CONSTANTS
  m1 = m1
  m2 = m2
  m3 = m3
  Mongods <- ThreeMongods
  Subject = s
  Cases <- SomeCases
  MaxTerm = 2
  MayBeBusy = TRUE
INVARIANTS NoFalseDivergence ControlMatches GradeIsEarned
PROPERTIES CaseEnds
