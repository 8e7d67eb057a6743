SPECIFICATION Spec
CONSTANTS
  Threads = {t1, t2}
  Bidders = {b1, b2}
  NumBidders = 2
  Ports = {p1, p2}
  Prices = {0, 1}
  MaxRequests = 2
  MaxAnswers = 2
INVARIANT ReplyIsBest
CHECK_DEADLOCK FALSE
