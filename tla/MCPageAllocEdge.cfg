CONSTANTS
  dma = dma
  normal = normal
  remote = remote
  t0 = t0
  t1 = t1
  p0 = p0
  p1 = p1
  CPU = {p0}
  Ctx = {t0}
  Zone = {normal, remote}
  None = None
  MAX_ORDER = 3
  Size <- TwoTo
  Page <- EdgePage
  ZoneOf <- EdgeZoneOf
  Boot <- EdgeBoot
  Node = {1, 2}
  Zonelist <- EdgeList
  ZoneIdx <- EdgeIdx
  NodeOf <- EdgeNode
  Batch <- EdgeBatch
SPECIFICATION Spec
INVARIANT ZonePure Coalesced PcpBelowHigh
CHECK_DEADLOCK FALSE
