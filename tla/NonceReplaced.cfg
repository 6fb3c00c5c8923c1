SPECIFICATION Spec
CONSTANTS
  Tx = {t1, t2}
  Price = {1, 2}
  Empty = Empty
  MaxNonce = 4
  MaxRun = 1
INVARIANT SentStaysSent
CHECK_DEADLOCK FALSE
