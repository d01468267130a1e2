\* PullN(max = 2) on a subscription holding one message: Receive blocks.
CONSTANTS
  m1 = m1
  m2 = m2
  m3 = m3
  Msgs <- MCOneMsg
  Max = 2
  Nack = FALSE
  PullBound = 4

SPECIFICATION Spec
PROPERTY PullNReturns
CHECK_DEADLOCK FALSE
