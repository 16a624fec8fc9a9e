SPECIFICATION FairSpec
CONSTANTS
  f1 = f1
  f2 = f2
  f3 = f3
  p1 = p1
  p2 = p2
  d1 = d1
  s1 = s1
  u1 = u1
  Requests = {f1, p1}
  Kind <- KindOf
  NoRequest = NoRequest
  NoAnswer = NoAnswer
PROPERTIES
  ProcessRequestsAreClosed
CHECK_DEADLOCK FALSE
