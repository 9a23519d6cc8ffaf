SPECIFICATION FairSpec
CONSTANTS
  c1 = c1  c2 = c2  p1 = p1  t1 = t1  t2 = t2  NULL = NULL
  CPU = {c1, c2}
  Clock = {0, 1}
  Timer = {t1, t2}
  Task = {p1}
  Periodic = {t1}
  Slack <- SomeSlack
  Delays = {2}
  Interval = 1
  MaxDelta = 2
  MaxHang = 2
  MaxLate = 0
  Confs <- TimerConfs
INVARIANTS TypeOK CancelQuiet NextEventArmed
PROPERTY TimerRuns
