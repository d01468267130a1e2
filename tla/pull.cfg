\* PullN(max = 3, nack = true) on a subscription holding three messages.
CONSTANTS
  m1 = m1
  m2 = m2
  m3 = m3
  Msgs <- MCThreeMsgs
  Max = 3
  Nack = TRUE
  PullBound = 5

SPECIFICATION Spec
INVARIANT TypeOK
PROPERTY PullNReturns
