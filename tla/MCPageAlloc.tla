----------------------------- MODULE MCPageAlloc -----------------------------
(***************************************************************************)
(* Instances of PageAlloc for TLC.                                         *)
(***************************************************************************)
EXTENDS PageAlloc, TLC

CONSTANTS dma, normal, remote, t0, t1, p0, p1

TwoTo == [o \in Order |-> 2^o]

\* Two nodes, each of one zone, that meet inside a block of the highest order.
EdgePage == 4 .. 11
EdgeZoneOf == [f \in EdgePage |-> IF f < 6 THEN normal ELSE remote]

\* __free_pages_memory() on a range of frames.
ffs(f) == CHOOSE o \in 0 .. 10 : f % 2^o = 0 /\ f % 2^(o + 1) # 0
BootOrder(f, end) ==
  CHOOSE o \in Order : /\ o <= ffs(f) /\ f + 2^o <= end
                       /\ \A i \in Order : i <= ffs(f) /\ f + 2^i <= end => i <= o
free_pages_memory(start, end) ==
  LET walk[f \in start .. end] ==
        IF f = end THEN {} ELSE {<<f, BootOrder(f, end)>>} \cup walk[f + 2^BootOrder(f, end)]
  IN  walk[start]
EdgeBoot == free_pages_memory(4, 6) \cup free_pages_memory(6, 12)
EdgeList == <<<<normal, remote>>, <<remote, normal>>>>
EdgeIdx == (normal :> 1) @@ (remote :> 1)
EdgeNode == (normal :> 1) @@ (remote :> 2)
EdgeBatch == (normal :> 0) @@ (remote :> 1)

\* Two zones of one node; requests fall back from the one to the other.
ZonesPage == 3 .. 5
ZonesZoneOf == [f \in ZonesPage |-> IF f < 4 THEN dma ELSE normal]
ZonesBoot == free_pages_memory(3, 6)
ZonesList == <<<<normal, dma>>>>
ZonesIdx == (dma :> 0) @@ (normal :> 1)
ZonesNode == (dma :> 1) @@ (normal :> 1)
ZonesBatch == (dma :> 0) @@ (normal :> 1)

\* Two nodes of one frame each.
TwinPage == 2 .. 3
TwinZoneOf == (2 :> normal) @@ (3 :> remote)
TwinBoot == free_pages_memory(2, 3) \cup free_pages_memory(3, 4)

=============================================================================
