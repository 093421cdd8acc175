CONSTANTS
  t1 = t1
  t2 = t2
  Threads = {t1, t2}
  Paths = {"f"}
  Lengths = {1}
  MaxFd = 4
  MaxLen = 1
  MaxDepth = 2
  MaxText = 1
SYMMETRY Alike
SPECIFICATION Spec
INVARIANTS DescriptorsDistinct ClosedStaysClosed OwnOutput StdoutUntilPanic
CHECK_DEADLOCK FALSE
