CONSTANTS
  p1 = p1
  p2 = p2
  p3 = p3
  p4 = p4
  p5 = p5
  v = v
  w = w
  t = t
  b = b
  SelfFulfillment = SelfFulfillment
  CannotReturnOwn = CannotReturnOwn
  GetThenError = GetThenError
  None = None
  Promises = {p1, p2, p3, p4, p5}
  Plain = {v, w}
  Thenables = {t}
  Broken = {b}
  Setups <- MCSetups
SPECIFICATION Spec
CHECK_DEADLOCK FALSE
INVARIANT InOrder
INVARIANT NobodyIsForgotten
INVARIANT Follows
INVARIANT Answers
PROPERTY SettledIsFinal
