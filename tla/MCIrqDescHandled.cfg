SPECIFICATION FairSpec
CONSTANTS
  c1 = c1  c2 = c2  t1 = t1  t2 = t2  d1 = d1  d2 = d2  NULL = NULL
  CPU = {c1, c2}
  Task = {t1}
  Dev = {d1, d2}
  Driver <- OneDriver
  Lines <- HandledLines
PROPERTIES EventHandled CallsReturn
