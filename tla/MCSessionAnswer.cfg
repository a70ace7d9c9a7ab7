\* A timeout leaves a reply nobody expects.
CONSTANTS
  c1 = c1
  c2 = c2
  Caller = {c1, c2}
  RequestType = {"transact", "main"}
  MaxCalls = 2
  MaxLate = 1
  MaxRestores = 0
SPECIFICATION SessionSpec
SYMMETRY CallerSymmetry
INVARIANTS
  AnswerOwn
CHECK_DEADLOCK FALSE
