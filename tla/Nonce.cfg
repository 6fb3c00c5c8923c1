SPECIFICATION FairSpec
CONSTANTS
  Tx = {t1, t2}
  Price = {1}
  Empty = Empty
  MaxNonce = 6
  MaxRun = 2
INVARIANTS NoGap SentOncePerRun Inductive SentStaysSent
PROPERTY AllMined
CHECK_DEADLOCK FALSE
