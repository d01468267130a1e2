\* PullN(max = 1) with two messages on the subscription.
CONSTANTS
  m1 = m1
  m2 = m2
  m3 = m3
  Msgs <- MCMsgs
  Max = 1
  Nack = FALSE
  PullBound = 4

SPECIFICATION Spec
INVARIANT ResultWithinMax
