SPECIFICATION Spec
CONSTANTS
  MaxFile = 2
  Threshold = 2
  MaxLog = 4
  Failing = {"tear"}
  Absent = Absent
  Live = Live
  Cuts = {1}
INVARIANTS OpensAgain

