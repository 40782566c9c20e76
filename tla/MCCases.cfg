SPECIFICATION Spec
CONSTANTS
  Workers = {w1, w2}
  minor = minor
  major = major
  Rules = {minor, major}
  Severity <- RuleSeverity
  MinSeverity = 3
  Employee = employee
  Subject = subject
  NoOne = NoOne
  MaxEvaluations = 1
  MaxRequests = 3
  MaxFaults = 1
SYMMETRY Symmetry
INVARIANTS
  CaseInv
  SecondCaseOnlyByRace
  ChainedWhenSerial
PROPERTIES
  KeepsCaseFile
CHECK_DEADLOCK FALSE
