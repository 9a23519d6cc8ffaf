----------------------------- MODULE PageAllocInv -----------------------------
(***************************************************************************)
(* The inductive invariant of the page allocator, and what its proof says  *)
(* of a step.                                                              *)
(***************************************************************************)
EXTENDS PageAlloc

\* Where a context works with interrupts disabled: to allocate, to free.
TakePcs == {"bulk_lock", "bulk", "bulk_expand", "pcp_take", "pcp_fail", "expand"}
GivePcs == {"gather", "drain", "drain_merge", "drain_add", "merge", "add"}
OffPcs == TakePcs \cup GivePcs

\* The zone it works on, and where it holds the lock of that zone.
Area(t) == IF pc[t] \in TakePcs THEN zone(t) ELSE zn[t]
LockPcs == {"bulk", "bulk_expand", "expand", "drain", "drain_merge", "drain_add", "merge", "add"}

\* The locals of a context.
Control(t) ==
  /\ pos[t] >= 1 /\ pref[t] >= 1
  /\ pc[t] \in TakePcs => pos[t] <= Len(zonelist(t))
  /\ pc[t] \in GivePcs => zn[t] \in Zone
  /\ pc[t] \in TakePcs \ {"expand"} => want[t] = 0
  /\ pc[t] \in {"bulk_expand", "expand"} => blk[t][2] >= want[t]
  /\ pc[t] = "free_pcp" => blk[t][2] = 0
  /\ pc[t] \notin {"gather", "drain", "drain_merge", "drain_add"} => got[t] = {}
  /\ pc[t] \notin {"bulk", "bulk_expand", "gather"} => n[t] = 0
ControlInv == \A t \in Ctx : Control(t)

\* A context in there has its CPU for itself, and the lock of its zone.
IrqInv ==
  \A t \in Ctx : /\ pc[t] \in OffPcs <=> cpu[t] # None
                 /\ \A p \in CPU : cpu[t] = p <=> irq_off[p] = t
LockInv == \A t \in Ctx, z \in Zone : zlock[z] = t <=> pc[t] \in LockPcs /\ Area(t) = z

\* owner[f] tells the one place where the frame f is.
Hand(t) == IF InHand(t) THEN Frames(blk[t][1], blk[t][2]) ELSE {}
FreeOwner ==
  \A z \in Zone, o \in Order, p, f \in Page :
    owner[f] = <<"free", z, p, o>> <=> p \in free[z][o] /\ f \in Frames(p, o)
PcpOwner == \A s \in PageSet, f \in Page : owner[f] = <<"pcp", s>> <=> f \in pcp[s].list
HeldOwner ==
  \A b \in Page \X Order, f \in Page :
    owner[f] = <<"held", b>> <=> b \in held /\ f \in Frames(b[1], b[2])
HandOwner == \A t \in Ctx, f \in Page : owner[f] = <<"ctx", t>> <=> f \in Hand(t)
GotOwner == \A t \in Ctx, f \in Page : owner[f] = <<"got", t>> <=> f \in got[t]

\* There is such a place, at least for the frames that memblock handed over.
Place(w) ==
  \/ \E z \in Zone, o \in Order, p \in Page : w = <<"free", z, p, o>>
  \/ \E s \in PageSet : w = <<"pcp", s>>
  \/ \E b \in Page \X Order : w = <<"held", b>>
  \/ \E t \in Ctx : w = <<"ctx", t>> \/ w = <<"got", t>>
Somewhere ==
  \A b \in Boot : \A f \in Frames(b[1], b[2]) : Place(owner[f])
OwnerInv == FreeOwner /\ PcpOwner /\ HeldOwner /\ HandOwner /\ GotOwner /\ Somewhere

\* Blocks are whole, and where they belong.
Ours(t) == /\ InHand(t) => blk[t][1] \in Page /\ Whole(blk[t][1], blk[t][2])
           /\ InHand(t) /\ pc[t] \in OffPcs => ZoneOf[blk[t][1]] = Area(t)
           /\ \A f \in got[t] : ZoneOf[f] = zn[t]
BlockInv ==
  /\ \A z \in Zone, o \in Order : \A p \in free[z][o] : Whole(p, o) /\ ZoneOf[p] = z
  /\ \A b \in held : Whole(b[1], b[2])
  /\ \A t \in Ctx : Ours(t)

\* The free lists: counted, and found again in the page structures.
ListInv ==
  /\ \A z \in Zone, o \in Order :
       IsFiniteSet(free[z][o]) /\ nr_free[z][o] = Cardinality(free[z][o])
  /\ \A p \in Page, o \in Order : border[p] = o <=> \E z \in Zone : p \in free[z][o]

\* No two buddies are free, and no block whose buddy is free becomes free.
ApartInv ==
  /\ \A z \in Zone, o \in Order : o < MAX_ORDER - 1 =>
       \A p \in free[z][o] : find_buddy_pfn(p, o) \notin free[z][o]
  /\ \A t \in Ctx : pc[t] \in {"add", "drain_add"} => ~CanMerge(blk[t][1], blk[t][2])

\* The page set a context is in the middle of changing.
Uses(t, s) ==
  /\ pc[t] \in {"bulk", "bulk_expand", "pcp_take", "gather"}
  /\ s = my_pcp(t, Area(t))

\* The page sets: which there are, their marks, and how full they are.
Marks(s) ==
  /\ pcp[s].batch >= 1 /\ pcp[s].batch - 1 <= pcp[s].high
  /\ s[2] = "boot" => pcp[s].high = 0
Level(s) == pcp[s].count = Cardinality(pcp[s].list) /\ pcp[s].count <= pcp[s].high
Filling(t) ==
  LET s == my_pcp(t, Area(t))  k == Cardinality(pcp[s].list) IN
  /\ pc[t] = "bulk_lock" => pcp[s].list = {}
  /\ pc[t] = "bulk" => pcp[s].count = 0 /\ k = n[t] /\ k <= pcp[s].batch
  /\ pc[t] = "bulk_expand" => pcp[s].count = 0 /\ k = n[t] /\ k < pcp[s].batch
  /\ pc[t] = "pcp_take" => pcp[s].count = k /\ k >= 1 /\ k - 1 <= pcp[s].high
  /\ pc[t] = "gather" => pcp[s].count = k /\ k - n[t] <= pcp[s].high
PcpInv ==
  /\ \A z \in Zone : pageset[z] \in {"boot", z}
  /\ \A s \in PageSet : IsFiniteSet(pcp[s].list) /\ Marks(s)
  /\ \A s \in PageSet : (\A t \in Ctx : ~Uses(t, s)) => Level(s)
  /\ \A t \in Ctx : Filling(t)

\* A page is on the page set of its zone; the boot page set that zones share
\* holds pages only while a context is busy with it, pages of its zone.
PcpZone ==
  \A s \in PageSet : \A f \in pcp[s].list :
    /\ pageset[ZoneOf[f]] = s[2]
    /\ s[2] = "boot" => \E t \in Ctx : Uses(t, s) /\ ZoneOf[f] = Area(t)

Core == ControlInv /\ IrqInv /\ LockInv /\ OwnerInv /\ BlockInv /\ ApartInv
IInv == TypeOK /\ Core /\ ListInv /\ PcpInv /\ PcpZone

\* All of it but the Core.
Rest == TypeOK /\ ListInv /\ PcpInv /\ PcpZone

-----------------------------------------------------------------------------
\* What a step of the context t leaves alone.
Others(t) ==
  \A u \in Ctx \ {t} :
    /\ pc'[u] = pc[u] /\ cpu'[u] = cpu[u] /\ nid'[u] = nid[u] /\ pref'[u] = pref[u]
    /\ pos'[u] = pos[u] /\ want'[u] = want[u] /\ blk'[u] = blk[u] /\ zn'[u] = zn[u]
    /\ n'[u] = n[u] /\ got'[u] = got[u]

\* A block leaves a free list or joins one, and no other list changes.
Elsewhere(z, o) ==
  \A y \in Zone, i \in Order : y # z \/ i # o => free'[y][i] = free[y][i]
Leaves(z, o, p) ==
  /\ free' \in [Zone -> [Order -> SUBSET Page]]
  /\ free'[z][o] = free[z][o] \ {p} /\ Elsewhere(z, o)
  /\ nr_free' = [nr_free EXCEPT ![z][o] = @ - 1] /\ border' = [border EXCEPT ![p] = -1]
Joins(z, o, p) ==
  /\ free' \in [Zone -> [Order -> SUBSET Page]]
  /\ free'[z][o] = free[z][o] \cup {p} /\ Elsewhere(z, o)
  /\ nr_free' = [nr_free EXCEPT ![z][o] = @ + 1] /\ border' = [border EXCEPT ![p] = o]

\* The free lists and what is said of them have their types.
ListTypes ==
  /\ free \in [Zone -> [Order -> SUBSET Page]] /\ nr_free \in [Zone -> [Order -> Nat]]
  /\ border \in [Page -> Order \cup {-1}]

\* Where a context is busy with its page set.
BusyPcs == {"bulk", "bulk_expand", "pcp_take", "gather"}
=============================================================================
