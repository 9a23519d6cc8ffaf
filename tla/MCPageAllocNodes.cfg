CONSTANTS
  dma = dma
  normal = normal
  remote = remote
  t0 = t0
  t1 = t1
  p0 = p0
  p1 = p1
  CPU = {p0}
  Ctx = {t0}
  Zone = {normal, remote}
  None = None
  MAX_ORDER = 1
  Size <- TwoTo
  Page <- TwinPage
  ZoneOf <- TwinZoneOf
  Boot <- TwinBoot
  Node = {1, 2}
  Zonelist <- EdgeList
  ZoneIdx <- EdgeIdx
  NodeOf <- EdgeNode
  Batch <- EdgeBatch
SPECIFICATION FairSpec
PROPERTY CallsReturn
CHECK_DEADLOCK FALSE
