CONSTANTS
  dma = dma
  normal = normal
  remote = remote
  t0 = t0
  t1 = t1
  p0 = p0
  p1 = p1
  CPU = {p0, p1}
  Ctx = {t0, t1}
  Zone = {dma, normal}
  None = None
  MAX_ORDER = 2
  Size <- TwoTo
  Page <- ZonesPage
  ZoneOf <- ZonesZoneOf
  Boot <- ZonesBoot
  Node = {1}
  Zonelist <- ZonesList
  ZoneIdx <- ZonesIdx
  NodeOf <- ZonesNode
  Batch <- ZonesBatch
SPECIFICATION FairSpec
INVARIANT TypeOK NoOverlap NoLeak CountsExact Coalesced
PROPERTY CallsReturn
CHECK_DEADLOCK FALSE
