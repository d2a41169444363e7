SPECIFICATION PostSpec
CONSTANTS
  s1 = s1
  s2 = s2
  w = w
  r1 = r1
  r2 = r2
  b1 = b1
  b2 = b2
  m1 = m1
  m2 = m2
  m3 = m3
  None = None
  Thread <- MCThread
  Lists = {b1,b2}
  Item = {m1, m2, m3}
  Sender = {s1, s2}
  Worker = w
  Receiver = {r1, r2}
  To <- MCTo
  Reads <- MCReads
  From <- MCFrom
INVARIANTS PostTypeOK MutualExclusion NoLostWakeup OutputOK
PROPERTIES ImplementsMail Delivered
CHECK_DEADLOCK FALSE
