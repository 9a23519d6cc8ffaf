---------------------------- MODULE PageAllocSets ----------------------------
(***************************************************************************)
(* Every step keeps the Rest of the invariant: the types, what is counted  *)
(* and marked of the free lists, and the marks and zones of the page sets. *)
(***************************************************************************)
EXTENDS PageAllocInv, FiniteSetTheorems, TLAPS

\* The first-order prover does most steps; those with arithmetic, or that take
\* tuples or records apart, name the SMT solver and allow it a second try.
USE ZenonT(60)

\* Arithmetic of the marks.
LEMMA NatFacts ==
  \A a, b, c \in Nat : /\ a # 0 => a >= 1
                       /\ a <= b => a - 1 <= b
                       /\ a <= b /\ b - 1 <= c => a - 1 <= c
BY SMTT(20), SMTT(30)

\* Counting a finite set whose elements come and go one by one.
LEMMA Counting ==
  ASSUME NEW S, IsFiniteSet(S)
  PROVE  /\ Cardinality(S) \in Nat /\ (Cardinality(S) = 0 <=> S = {})
         /\ \A x : IsFiniteSet(S \cup {x}) /\ IsFiniteSet(S \ {x})
         /\ \A x : x \notin S => Cardinality(S \cup {x}) = Cardinality(S) + 1
         /\ \A x \in S : Cardinality(S) >= 1 /\ Cardinality(S \ {x}) = Cardinality(S) - 1
<1>1. Cardinality(S) \in Nat /\ (Cardinality(S) = 0 <=> S = {})
  BY FS_CardinalityType, FS_EmptySet
<1>2. \A x : IsFiniteSet(S \cup {x}) /\ IsFiniteSet(S \ {x})
  BY FS_AddElement, FS_RemoveElement
<1>3. \A x : x \notin S => Cardinality(S \cup {x}) = Cardinality(S) + 1
  BY FS_AddElement
<1>4. \A x \in S : Cardinality(S \ {x}) = Cardinality(S) - 1
  BY FS_RemoveElement
<1>5. \A x \in S : Cardinality(S) >= 1
  BY SMTT(20), SMTT(30), <1>1
<1> QED BY <1>1, <1>2, <1>3, <1>4, <1>5

\* The node that an idle context is said to ask for exists.
LEMMA NodeFact == AnyNode \in Node
BY ListAssumption DEF AnyNode

\* Blocks of one page, and blocks that start at a page.
LEMMA BlockFact == 0 \in Order /\ <<0, 0>> \in Block /\ \A q \in Page, o \in Order : <<q, o>> \in Block
<1>1. 0 \in Order /\ Page \subseteq Nat
  BY SMTT(20), SMTT(30), OrderAssumption, PageAssumption DEF Order
<1> QED BY <1>1 DEF Block

\* A block starts with one of its frames.
LEMMA HeadFrame ==
  ASSUME NEW p \in Page, NEW o \in Order
  PROVE  p \in Frames(p, o)
BY SMTT(20), SMTT(30), OrderAssumption, PageAssumption DEF Frames

\* The page set of a context and the zone it works on.
LEMMA SetOfZone ==
  ASSUME IInv, NEW t \in Ctx, pc[t] \in OffPcs, Area(t) \in Zone
  PROVE  cpu[t] \in CPU /\ my_pcp(t, Area(t)) \in PageSet
<1>1. cpu[t] \in CPU
  BY SMTT(20), SMTT(30) DEF IInv, Core, IrqInv, TypeOK
<1> QED BY <1>1 DEF my_pcp, PageSet, IInv, TypeOK

\* The zone, the CPU and the page set that a context works on.
LEMMA MySet ==
  ASSUME IInv, NEW t \in Ctx, pc[t] \in OffPcs
  PROVE  Area(t) \in Zone /\ cpu[t] \in CPU /\ my_pcp(t, Area(t)) \in PageSet
<1>1. CASE pc[t] \in TakePcs
  <2>1. zonelist(t) \in Seq(Zone) /\ pos[t] \in 1 .. Len(zonelist(t))
    BY SMTT(20), SMTT(30), <1>1, ListAssumption DEF IInv, Core, ControlInv, Control, TypeOK,
       zonelist
  <2> QED BY SMTT(20), SMTT(30), <1>1, <2>1, SetOfZone DEF zone, Area
<1>2. CASE pc[t] \in GivePcs
  BY <1>2, SetOfZone DEF IInv, Core, ControlInv, Control, Area, TakePcs, GivePcs
<1> QED BY <1>1, <1>2 DEF OffPcs

-----------------------------------------------------------------------------
(***************************************************************************)
(* The free lists.                                                         *)
(***************************************************************************)
\* A block leaves its list, and is counted and marked so.
LEMMA ListLess ==
  ASSUME IInv, NEW z \in Zone, NEW o \in Order, NEW p \in free[z][o], Leaves(z, o, p)
  PROVE  ListInv' /\ ListTypes'
<1> USE DEF IInv, Core, Leaves, ListTypes
<1>1. /\ free \in [Zone -> [Order -> SUBSET Page]] /\ nr_free \in [Zone -> [Order -> Nat]]
      /\ border \in [Page -> Order \cup {-1}] /\ p \in Page
  BY SMTT(20), SMTT(30) DEF TypeOK
<1>2. /\ IsFiniteSet(free[z][o] \ {p}) /\ nr_free[z][o] >= 1
      /\ nr_free[z][o] - 1 = Cardinality(free[z][o] \ {p})
  <2> DEFINE S == free[z][o]
  <2>1. IsFiniteSet(S) /\ nr_free[z][o] = Cardinality(S) /\ p \in S
    BY DEF ListInv
  <2> HIDE DEF S
  <2>2. Cardinality(S) \in Nat /\ Cardinality(S) >= 1 /\ Cardinality(S \ {p}) = Cardinality(S) - 1
        /\ IsFiniteSet(S \ {p})
    BY <2>1, Counting
  <2> QED BY <2>1, <2>2 DEF S
<1>3. /\ nr_free' \in [Zone -> [Order -> Nat]] /\ nr_free'[z][o] = nr_free[z][o] - 1
      /\ \A y \in Zone, i \in Order : y # z \/ i # o => nr_free'[y][i] = nr_free[y][i]
  BY SMTT(20), SMTT(30), <1>1, <1>2
<1>4. \A y \in Zone, i \in Order :
        IsFiniteSet(free'[y][i]) /\ nr_free'[y][i] = Cardinality(free'[y][i])
  <2> SUFFICES ASSUME NEW y \in Zone, NEW i \in Order
               PROVE  IsFiniteSet(free'[y][i]) /\ nr_free'[y][i] = Cardinality(free'[y][i])
    OBVIOUS
  <2>1. CASE y = z /\ i = o
    BY <1>2, <1>3, <2>1
  <2>2. CASE y # z \/ i # o
    BY SMTT(20), SMTT(30), <1>3, <2>2 DEF ListInv, Elsewhere
  <2> QED BY <2>1, <2>2
<1>5. ASSUME NEW x \in Page, NEW i \in Order
      PROVE  border'[x] = i <=> \E y \in Zone : x \in free'[y][i]
  <2>1. border[x] = i <=> \E y \in Zone : x \in free[y][i]
    BY DEF ListInv
  <2>2. \A y \in Zone : x \in free'[y][i] <=> x \in free[y][i] /\ ~(y = z /\ i = o /\ x = p)
    BY DEF Elsewhere
  <2>3. CASE x = p
    <3>1. border'[x] = -1 /\ i # -1
      <4>1. border'[x] = -1
        BY <1>1, <2>3
      <4>2. i \in Nat
        BY SMTT(20), SMTT(30), OrderAssumption DEF Order
      <4> QED BY SMTT(20), SMTT(30), <4>1, <4>2
    <3>2. \A y \in Zone : x \in free[y][i] => y = z
      BY SMTT(20), SMTT(30), <2>3 DEF BlockInv
    <3>3. border[x] = o
      BY <1>1, <2>3 DEF ListInv
    <3> QED BY <2>1, <2>2, <2>3, <3>1, <3>2, <3>3
  <2>4. CASE x # p
    BY <1>1, <2>1, <2>2, <2>4
  <2> QED BY <2>3, <2>4
<1>6. border' \in [Page -> Order \cup {-1}]
  BY <1>1
<1> QED BY <1>3, <1>4, <1>5, <1>6 DEF ListInv

\* A block that was not free joins a list, and is counted and marked so.
LEMMA ListMore ==
  ASSUME IInv, NEW z \in Zone, NEW o \in Order, NEW p \in Page, owner[p][1] # "free", Joins(z, o, p)
  PROVE  ListInv' /\ ListTypes'
<1> USE DEF IInv, Core, Joins, ListTypes
<1>1. /\ free \in [Zone -> [Order -> SUBSET Page]] /\ nr_free \in [Zone -> [Order -> Nat]]
      /\ border \in [Page -> Order \cup {-1}]
  BY DEF TypeOK
<1>2. \A y \in Zone, i \in Order : p \notin free[y][i]
  BY SMTT(20), SMTT(30), HeadFrame DEF OwnerInv, FreeOwner
<1>3. /\ IsFiniteSet(free[z][o] \cup {p})
      /\ nr_free[z][o] + 1 = Cardinality(free[z][o] \cup {p})
  <2> DEFINE S == free[z][o]
  <2>1. IsFiniteSet(S) /\ nr_free[z][o] = Cardinality(S) /\ p \notin S
    BY <1>2 DEF ListInv
  <2> HIDE DEF S
  <2>2. IsFiniteSet(S \cup {p}) /\ Cardinality(S \cup {p}) = Cardinality(S) + 1
    BY <2>1, Counting
  <2> QED BY <2>1, <2>2 DEF S
<1>4. /\ nr_free' \in [Zone -> [Order -> Nat]] /\ nr_free'[z][o] = nr_free[z][o] + 1
      /\ \A y \in Zone, i \in Order : y # z \/ i # o => nr_free'[y][i] = nr_free[y][i]
  BY SMTT(20), SMTT(30), <1>1
<1>5. \A y \in Zone, i \in Order :
        IsFiniteSet(free'[y][i]) /\ nr_free'[y][i] = Cardinality(free'[y][i])
  <2> SUFFICES ASSUME NEW y \in Zone, NEW i \in Order
               PROVE  IsFiniteSet(free'[y][i]) /\ nr_free'[y][i] = Cardinality(free'[y][i])
    OBVIOUS
  <2>1. CASE y = z /\ i = o
    BY <1>3, <1>4, <2>1
  <2>2. CASE y # z \/ i # o
    BY SMTT(20), SMTT(30), <1>4, <2>2 DEF ListInv, Elsewhere
  <2> QED BY <2>1, <2>2
<1>6. ASSUME NEW x \in Page, NEW i \in Order
      PROVE  border'[x] = i <=> \E y \in Zone : x \in free'[y][i]
  <2>1. border[x] = i <=> \E y \in Zone : x \in free[y][i]
    BY DEF ListInv
  <2>2. \A y \in Zone : x \in free'[y][i] <=> x \in free[y][i] \/ (y = z /\ i = o /\ x = p)
    BY DEF Elsewhere
  <2>3. CASE x = p
    BY <1>1, <1>2, <2>2, <2>3
  <2>4. CASE x # p
    BY <1>1, <2>1, <2>2, <2>4
  <2> QED BY <2>3, <2>4
<1>7. border' \in [Page -> Order \cup {-1}]
  BY <1>1
<1> QED BY <1>4, <1>5, <1>6, <1>7 DEF ListInv

-----------------------------------------------------------------------------
(***************************************************************************)
(* The page sets.                                                          *)
(***************************************************************************)
\* The other contexts go on using what they use.
LEMMA OthersUse ==
  ASSUME NEW t \in Ctx, Others(t), pageset' = pageset, NEW u \in Ctx \ {t}
  PROVE  /\ \A r \in PageSet : Uses(u, r)' <=> Uses(u, r)
         /\ Area(u)' = Area(u) /\ my_pcp(u, Area(u))' = my_pcp(u, Area(u))
         /\ n'[u] = n[u] /\ pc'[u] = pc[u]
<1>1. Area(u)' = Area(u) /\ cpu'[u] = cpu[u] /\ pc'[u] = pc[u] /\ n'[u] = n[u]
  BY DEF Others, Area, zone, zonelist
<1>2. my_pcp(u, Area(u))' = my_pcp(u, Area(u))
  BY <1>1 DEF my_pcp
<1> QED BY <1>1, <1>2 DEF Uses

\* A step that leaves the page sets alone, and t in them or out of them.
LEMMA PcpSame ==
  ASSUME IInv, NEW t \in Ctx, Others(t), pageset' = pageset, pcp' = pcp,
         \A r \in PageSet : Uses(t, r)' <=> Uses(t, r),
         \A r \in PageSet : Uses(t, r) => Area(t)' = Area(t),
         Filling(t)'
  PROVE  PcpInv' /\ PcpZone'
<1> USE DEF IInv
<1>1. \A u \in Ctx, r \in PageSet : Uses(u, r)' <=> Uses(u, r)
  BY OthersUse
<1>2. \A u \in Ctx : Filling(u)'
  <2>1. ASSUME NEW u \in Ctx \ {t}
        PROVE  Filling(u)'
    <3>1. Filling(u)
      BY DEF PcpInv
    <3>2. /\ my_pcp(u, Area(u))' = my_pcp(u, Area(u)) /\ n'[u] = n[u] /\ pc'[u] = pc[u]
      BY OthersUse
    <3> QED BY <3>1, <3>2 DEF Filling
  <2> QED BY <2>1
<1>3. PcpInv'
  BY <1>1, <1>2 DEF PcpInv, Marks, Level
<1>4. \A u \in Ctx, r \in PageSet : Uses(u, r) => Area(u)' = Area(u)
  BY OthersUse
<1>5. PcpZone'
  BY SMTT(20), SMTT(30), <1>1, <1>4 DEF PcpZone
<1> QED BY <1>3, <1>5

\* A step that works on the page set s, as nobody else does.
LEMMA PcpStep ==
  ASSUME IInv, NEW t \in Ctx, Others(t), pageset' = pageset, NEW s \in PageSet,
         \A u \in Ctx \ {t} : pc[u] \in OffPcs => cpu[u] # s[1],
         \A r \in PageSet \ {s} : pcp'[r] = pcp[r],
         \A r \in PageSet : Uses(t, r) \/ Uses(t, r)' => r = s,
         IsFiniteSet(pcp'[s].list), Marks(s)', ~Uses(t, s)' => Level(s)', Filling(t)',
         \A f \in pcp'[s].list :
           /\ pageset[ZoneOf[f]] = s[2]
           /\ s[2] = "boot" => Uses(t, s)' /\ ZoneOf[f] = Area(t)'
  PROVE  PcpInv' /\ PcpZone'
<1> USE DEF IInv
<1>1. \A r \in PageSet : IsFiniteSet(pcp'[r].list) /\ Marks(r)'
  BY DEF PcpInv, Marks
<1>2. ASSUME NEW r \in PageSet, \A u \in Ctx : ~Uses(u, r)'
      PROVE  Level(r)'
  <2>1. CASE r = s
    BY <1>2, <2>1
  <2>2. CASE r # s
    <3>1. \A u \in Ctx : ~Uses(u, r)
      BY <1>2, <2>2, OthersUse
    <3> QED BY <2>2, <3>1 DEF PcpInv, Level
  <2> QED BY <2>1, <2>2
<1>3. ASSUME NEW u \in Ctx
      PROVE  Filling(u)'
  <2>1. CASE u = t
    BY <2>1
  <2>2. CASE u # t /\ pc[u] \in OffPcs
    <3>1. u \in Ctx \ {t} /\ cpu[u] # s[1] /\ my_pcp(u, Area(u))[1] = cpu[u]
      BY <2>2 DEF my_pcp
    <3>2. my_pcp(u, Area(u)) \in PageSet
      BY <2>2, MySet
    <3>3. pcp'[my_pcp(u, Area(u))] = pcp[my_pcp(u, Area(u))]
      BY <3>1, <3>2
    <3>4. Filling(u)
      BY DEF PcpInv
    <3> QED BY <3>1, <3>3, <3>4, OthersUse DEF Filling
  <2>3. CASE u # t /\ pc[u] \notin OffPcs
    <3>1. pc'[u] = pc[u]
      BY <2>3 DEF Others
    <3> QED BY <2>3, <3>1 DEF Filling, OffPcs, TakePcs, GivePcs
  <2> QED BY <2>1, <2>2, <2>3
<1>4. PcpInv'
  BY <1>1, <1>2, <1>3 DEF PcpInv
<1>5. ASSUME NEW r \in PageSet, NEW f \in pcp'[r].list
      PROVE  /\ pageset'[ZoneOf[f]] = r[2]
             /\ r[2] = "boot" => \E u \in Ctx : Uses(u, r)' /\ ZoneOf[f] = Area(u)'
  <2>1. CASE r = s
    BY <1>5, <2>1
  <2>2. CASE r # s
    <3>1. pageset[ZoneOf[f]] = r[2]
      BY SMTT(20), SMTT(30), <1>5, <2>2 DEF PcpZone
    <3>2. ASSUME r[2] = "boot"
          PROVE  \E u \in Ctx : Uses(u, r)' /\ ZoneOf[f] = Area(u)'
      <4>1. PICK u \in Ctx : Uses(u, r) /\ ZoneOf[f] = Area(u)
        BY SMTT(20), SMTT(30), <1>5, <2>2, <3>2 DEF PcpZone
      <4>2. u # t
        BY <2>2, <4>1
      <4> QED BY SMTT(20), SMTT(30), <4>1, <4>2, OthersUse
    <3> QED BY <3>1, <3>2
  <2> QED BY <2>1, <2>2
<1>6. PcpZone'
  BY <1>5 DEF PcpZone
<1> QED BY <1>4, <1>6

\* On a CPU whose interrupts are enabled nobody is busy with a page set: it
\* is counted, below its mark, and empty if it is a boot page set.
LEMMA Quiet ==
  ASSUME IInv, NEW s \in PageSet, irq_off[s[1]] = None
  PROVE  /\ \A u \in Ctx : pc[u] \in OffPcs => cpu[u] # s[1]
         /\ \A u \in Ctx : ~Uses(u, s)
         /\ Level(s) /\ (s[2] = "boot" => pcp[s].list = {})
<1>1. s[1] \in CPU /\ None \notin Ctx
  BY ListAssumption DEF PageSet
<1>2. \A u \in Ctx : cpu[u] # s[1]
  BY <1>1 DEF IInv, Core, IrqInv
<1>3. \A u \in Ctx : ~Uses(u, s)
  BY SMTT(20), SMTT(30), <1>2 DEF Uses, my_pcp
<1> QED BY <1>2, <1>3 DEF IInv, PcpInv, PcpZone

\* A context that works with interrupts disabled has its page set for itself.
LEMMA Alone ==
  ASSUME IInv, NEW t \in Ctx, pc[t] \in OffPcs
  PROVE  /\ \A u \in Ctx \ {t} : pc[u] \in OffPcs => cpu[u] # cpu[t]
         /\ \A u \in Ctx \ {t} : ~Uses(u, my_pcp(t, Area(t)))
<1>1. cpu[t] \in CPU
  BY MySet
<1>2. \A u \in Ctx \ {t} : cpu[u] # cpu[t]
  BY SMTT(20), SMTT(30), <1>1 DEF IInv, Core, IrqInv
<1> QED BY <1>2 DEF Uses, my_pcp

\* A page set that nobody is busy with is counted.
LEMMA CountedLists == IInv => CountsExact
<1> SUFFICES ASSUME IInv
             PROVE  CountsExact
  OBVIOUS
<1>1. \A s \in PageSet : irq_off[s[1]] = None => pcp[s].count = Cardinality(pcp[s].list)
  BY Quiet DEF Level
<1> QED BY <1>1 DEF CountsExact, IInv, ListInv

\* A page set that nobody is busy with is below its mark.
LEMMA BelowHigh == IInv => PcpBelowHigh
BY Quiet DEF Level, PcpBelowHigh

-----------------------------------------------------------------------------
(***************************************************************************)
(* The steps of contexts that are not busy with a page set.                *)
(***************************************************************************)
\* A context that is busy with no page set leaves them as they are.
LEMMA PcpIdle ==
  ASSUME IInv, NEW t \in Ctx, Others(t), pageset' = pageset, pcp' = pcp,
         pc[t] \notin BusyPcs, pc'[t] \notin BusyPcs \cup {"bulk_lock"}
  PROVE  PcpInv' /\ PcpZone'
<1>1. \A r : ~Uses(t, r) /\ ~Uses(t, r)'
  BY DEF Uses, BusyPcs
<1>2. Filling(t)'
  BY DEF Filling, BusyPcs
<1> QED BY <1>1, <1>2, PcpSame

\* alloc_pages().
LEMMA AllocPagesRest ==
  ASSUME IInv, NEW t \in Ctx, NEW x \in Node, NEW o \in Order, NEW z \in Zone,
         alloc_pages(t, x, o, ZoneIdx[z]), Others(t),
         pos'[t] \in Nat,
         pref'[t] \in Nat
  PROVE  Rest'
<1> USE DEF IInv
<1>2. TypeOK'
  BY OrderAssumption, ListAssumption DEF TypeOK, Pcs, alloc_pages, At, Goto, zone_vars, locals,
     request
<1>3. ListInv'
  BY DEF ListInv, zone_vars, alloc_pages
<1>4. PcpInv' /\ PcpZone'
  <2>1. /\ pageset' = pageset /\ pcp' = pcp
        /\ pc[t] \notin BusyPcs /\ pc'[t] \notin BusyPcs \cup {"bulk_lock"}
    BY DEF TypeOK, BusyPcs, alloc_pages, At, Goto, zone_vars, locals, request
  <2> QED BY <2>1, PcpIdle
<1> QED BY <1>2, <1>3, <1>4 DEF Rest

\* __alloc_pages_slowpath().
LEMMA SlowpathRest ==
  ASSUME IInv, NEW t \in Ctx, slowpath(t), Others(t)
  PROVE  Rest'
<1> USE DEF IInv
<1>2. TypeOK'
  BY OrderAssumption, ListAssumption DEF TypeOK, Pcs, slowpath, At, Goto, zone_vars, locals,
     request
<1>3. ListInv'
  BY DEF ListInv, zone_vars, slowpath
<1>4. PcpInv' /\ PcpZone'
  <2>1. /\ pageset' = pageset /\ pcp' = pcp
        /\ pc[t] \notin BusyPcs /\ pc'[t] \notin BusyPcs \cup {"bulk_lock"}
    BY DEF TypeOK, BusyPcs, slowpath, At, Goto, zone_vars, locals, request
  <2> QED BY <2>1, PcpIdle
<1> QED BY <1>2, <1>3, <1>4 DEF Rest

\* A zone of another node.
LEMMA RemoteZoneRest ==
  ASSUME IInv, NEW t \in Ctx, remote_zone(t), Others(t)
  PROVE  Rest'
<1> USE DEF IInv
<1>2. TypeOK'
  BY OrderAssumption, ListAssumption DEF TypeOK, Pcs, remote_zone, At, Goto, zone_vars, locals,
     request
<1>3. ListInv'
  BY DEF ListInv, zone_vars, remote_zone
<1>4. PcpInv' /\ PcpZone'
  <2>1. /\ pageset' = pageset /\ pcp' = pcp
        /\ pc[t] \notin BusyPcs /\ pc'[t] \notin BusyPcs \cup {"bulk_lock"}
    BY DEF TypeOK, BusyPcs, remote_zone, At, Goto, zone_vars, locals, request
  <2> QED BY <2>1, PcpIdle
<1> QED BY <1>2, <1>3, <1>4 DEF Rest

\* No block of the order in the zone.
LEMMA RmqueueFailRest ==
  ASSUME IInv, NEW t \in Ctx, NEW c \in CPU, rmqueue_fail(t, c), Others(t),
         pos'[t] \in Nat
  PROVE  Rest'
<1> USE DEF IInv
<1>2. TypeOK'
  BY OrderAssumption, ListAssumption DEF TypeOK, Pcs, rmqueue_fail, CanTry, At, Goto, zone_vars,
     locals, request
<1>3. ListInv'
  BY DEF ListInv, zone_vars, rmqueue_fail
<1>4. PcpInv' /\ PcpZone'
  <2>1. /\ pageset' = pageset /\ pcp' = pcp
        /\ pc[t] \notin BusyPcs /\ pc'[t] \notin BusyPcs \cup {"bulk_lock"}
    BY DEF TypeOK, BusyPcs, rmqueue_fail, CanTry, At, Goto, zone_vars, locals, request
  <2> QED BY <2>1, PcpIdle
<1> QED BY <1>2, <1>3, <1>4 DEF Rest

\* No page in the zone.
LEMMA PcpFailRest ==
  ASSUME IInv, NEW t \in Ctx, pcp_fail(t), Others(t),
         pos'[t] \in Nat
  PROVE  Rest'
<1> USE DEF IInv
<1>2. TypeOK'
  BY OrderAssumption, ListAssumption DEF TypeOK, Pcs, pcp_fail, local_irq_restore, At, Goto,
     zone_vars, locals, request
<1>3. ListInv'
  BY DEF ListInv, zone_vars, pcp_fail
<1>4. PcpInv' /\ PcpZone'
  <2>1. /\ pageset' = pageset /\ pcp' = pcp
        /\ pc[t] \notin BusyPcs /\ pc'[t] \notin BusyPcs \cup {"bulk_lock"}
    BY DEF TypeOK, BusyPcs, pcp_fail, local_irq_restore, At, Goto, zone_vars, locals, request
  <2> QED BY <2>1, PcpIdle
<1> QED BY <1>2, <1>3, <1>4 DEF Rest

\* The block is the caller's.
LEMMA RmqueueDoneRest ==
  ASSUME IInv, NEW t \in Ctx, rmqueue_done(t), Others(t)
  PROVE  Rest'
<1> USE DEF IInv
<1>2. TypeOK'
  <2>1. blk[t][1] \in Page /\ want[t] \in Order
    BY DEF Core, BlockInv, Ours, InHand, HandPcs, rmqueue_done, At, TypeOK
  <2>2. ref' \in [Page -> 0 .. 1] /\ held' \subseteq Page \X Order
    BY SMTT(20), SMTT(30), <2>1 DEF TypeOK, rmqueue_done
  <2>3. blk' \in [Ctx -> Block] /\ zlock' \in [Zone -> Ctx \cup {None}]
    BY BlockFact DEF TypeOK, rmqueue_done, unlock_zone
  <2>4. irq_off' \in [CPU -> Ctx \cup {None}] /\ cpu' \in [Ctx -> CPU \cup {None}]
    BY DEF TypeOK, rmqueue_done, local_irq_restore
  <2>5. /\ nid' \in [Ctx -> Node] /\ hidx' \in [Ctx -> Nat] /\ pref' \in [Ctx -> Nat]
        /\ pos' \in [Ctx -> Nat] /\ want' \in [Ctx -> Order] /\ pc' \in [Ctx -> Pcs]
    BY NodeFact, BlockFact DEF TypeOK, Pcs, rmqueue_done, request_done, Goto
  <2> QED BY <2>2, <2>3, <2>4, <2>5 DEF TypeOK, rmqueue_done, zone_vars
<1>3. ListInv'
  BY DEF ListInv, zone_vars, rmqueue_done
<1>4. PcpInv' /\ PcpZone'
  <2>1. /\ pageset' = pageset /\ pcp' = pcp
        /\ pc[t] \notin BusyPcs /\ pc'[t] \notin BusyPcs \cup {"bulk_lock"}
    BY DEF TypeOK, BusyPcs, rmqueue_done, request_done, At, Goto
  <2> QED BY <2>1, PcpIdle
<1> QED BY <1>2, <1>3, <1>4 DEF Rest

\* The caller gives a block back.
LEMMA FreePagesRest ==
  ASSUME IInv, NEW t \in Ctx, NEW b \in held, free_pages(t, b), Others(t)
  PROVE  Rest'
<1> USE DEF IInv
<1>0. b \in Page \X Order /\ b[1] \in Page /\ b \in Block
  BY PageAssumption DEF TypeOK, Block
<1>2. TypeOK'
  <2>1. /\ ref' \in [Page -> 0 .. 1] /\ held' \subseteq Page \X Order /\ blk' \in [Ctx -> Block]
        /\ pc' \in [Ctx -> Pcs]
    BY SMTT(20), SMTT(30), <1>0, NodeFact, BlockFact DEF TypeOK, Pcs, free_pages, At, Goto,
       zone_vars,
       locals, request
  <2> QED BY <2>1, BlockFact DEF TypeOK, free_pages, At, Goto, zone_vars, locals, request
<1>3. ListInv'
  BY DEF ListInv, zone_vars, free_pages
<1>4. PcpInv' /\ PcpZone'
  <2>1. /\ pageset' = pageset /\ pcp' = pcp
        /\ pc[t] \notin BusyPcs /\ pc'[t] \notin BusyPcs \cup {"bulk_lock"}
    BY DEF TypeOK, BusyPcs, free_pages, At, Goto, zone_vars, locals, request
  <2> QED BY <2>1, PcpIdle
<1> QED BY <1>2, <1>3, <1>4 DEF Rest

\* A block of a higher order is freed.
LEMMA FreeOnePageRest ==
  ASSUME IInv, NEW t \in Ctx, NEW c \in CPU, free_one_page(t, c), Others(t)
  PROVE  Rest'
<1> USE DEF IInv
<1>0. ZoneOf[blk[t][1]] \in Zone
  BY PageAssumption DEF Core, BlockInv, Ours, InHand, HandPcs, free_one_page, At
<1>2. TypeOK'
  BY <1>0, OrderAssumption, ListAssumption DEF TypeOK, Pcs, free_one_page, local_irq_save,
     lock_zone, At, Goto, zone_vars, locals, request
<1>3. ListInv'
  BY DEF ListInv, zone_vars, free_one_page
<1>4. PcpInv' /\ PcpZone'
  <2>1. /\ pageset' = pageset /\ pcp' = pcp
        /\ pc[t] \notin BusyPcs /\ pc'[t] \notin BusyPcs \cup {"bulk_lock"}
    BY DEF TypeOK, BusyPcs, free_one_page, local_irq_save, lock_zone, At, Goto, zone_vars,
       locals, request
  <2> QED BY <2>1, PcpIdle
<1> QED BY <1>2, <1>3, <1>4 DEF Rest

\* The next of the gathered pages.
LEMMA DrainNextRest ==
  ASSUME IInv, NEW t \in Ctx, drain_next(t), Others(t)
  PROVE  Rest'
<1> USE DEF IInv
<1>0. \A q \in Page : <<q, 0>> \in Block
  BY BlockFact
<1>2. TypeOK'
  <2>1. PICK q \in got[t] : /\ got' = [got EXCEPT ![t] = @ \ {q}]
                             /\ blk' = [blk EXCEPT ![t] = <<q, 0>>]
    BY DEF drain_next
  <2>2. got[t] \subseteq Page /\ <<q, 0>> \in Block
    BY <1>0 DEF TypeOK
  <2>3. got' \in [Ctx -> SUBSET Page] /\ blk' \in [Ctx -> Block]
    BY <2>1, <2>2 DEF TypeOK
  <2>4. pc' \in [Ctx -> Pcs]
    BY DEF TypeOK, Pcs, drain_next, Goto
  <2> QED BY <2>3, <2>4 DEF TypeOK, drain_next, zone_vars, request
<1>3. ListInv'
  BY DEF ListInv, zone_vars, drain_next
<1>4. PcpInv' /\ PcpZone'
  <2>1. /\ pageset' = pageset /\ pcp' = pcp
        /\ pc[t] \notin BusyPcs /\ pc'[t] \notin BusyPcs \cup {"bulk_lock"}
    BY DEF TypeOK, BusyPcs, drain_next, At, Goto, zone_vars, locals, request
  <2> QED BY <2>1, PcpIdle
<1> QED BY <1>2, <1>3, <1>4 DEF Rest

\* All gathered pages are free.
LEMMA DrainDoneRest ==
  ASSUME IInv, NEW t \in Ctx, drain_done(t), Others(t)
  PROVE  Rest'
<1> USE DEF IInv
<1>2. TypeOK'
  BY OrderAssumption, ListAssumption DEF TypeOK, Pcs, drain_done, unlock_zone,
     local_irq_restore, At, Goto, zone_vars, locals, request
<1>3. ListInv'
  BY DEF ListInv, zone_vars, drain_done
<1>4. PcpInv' /\ PcpZone'
  <2>1. /\ pageset' = pageset /\ pcp' = pcp
        /\ pc[t] \notin BusyPcs /\ pc'[t] \notin BusyPcs \cup {"bulk_lock"}
    BY DEF TypeOK, BusyPcs, drain_done, unlock_zone, local_irq_restore, At, Goto, zone_vars,
       locals, request
  <2> QED BY <2>1, PcpIdle
<1> QED BY <1>2, <1>3, <1>4 DEF Rest

\* No buddy to merge with.
LEMMA MergeStopRest ==
  ASSUME IInv, NEW t \in Ctx, merge_stop(t), Others(t)
  PROVE  Rest'
<1> USE DEF IInv
<1>2. TypeOK'
  BY OrderAssumption, ListAssumption DEF TypeOK, Pcs, merge_stop, At, Goto, zone_vars, locals,
     request
<1>3. ListInv'
  BY DEF ListInv, zone_vars, merge_stop
<1>4. PcpInv' /\ PcpZone'
  <2>1. /\ pageset' = pageset /\ pcp' = pcp
        /\ pc[t] \notin BusyPcs /\ pc'[t] \notin BusyPcs \cup {"bulk_lock"}
    BY DEF TypeOK, BusyPcs, merge_stop, At, Goto, zone_vars, locals, request
  <2> QED BY <2>1, PcpIdle
<1> QED BY <1>2, <1>3, <1>4 DEF Rest

-----------------------------------------------------------------------------
(***************************************************************************)
(* The steps that change the free lists.                                   *)
(***************************************************************************)
\* A context that goes on filling its page set has a block in hand meanwhile.
LEMMA PcpHand ==
  ASSUME IInv, NEW t \in Ctx, Others(t), pageset' = pageset, pcp' = pcp, cpu' = cpu, n' = n,
         pos' = pos, nid' = nid, pc[t] \in {"bulk", "bulk_expand"}, pc'[t] = "bulk_expand",
         pc[t] = "bulk" => n[t] < pcp[my_pcp(t, zone(t))].batch
  PROVE  PcpInv' /\ PcpZone'
<1>1. Area(t)' = Area(t) /\ Area(t) = zone(t)
  BY DEF Area, TakePcs, zone, zonelist
<1>2. my_pcp(t, Area(t))' = my_pcp(t, Area(t))
  BY <1>1 DEF my_pcp
<1>3. \A r \in PageSet : Uses(t, r)' <=> Uses(t, r)
  BY <1>2 DEF Uses
<1>4. Filling(t)'
  <2>1. Filling(t)
    BY DEF IInv, PcpInv
  <2> QED BY <1>1, <1>2, <2>1 DEF Filling
<1> QED BY <1>1, <1>3, <1>4, PcpSame

\* take_block() takes the block off its list.
LEMMA TakeLeaves ==
  ASSUME IInv, NEW t \in Ctx, NEW z \in Zone, NEW o \in Order, NEW p \in free[z][o],
         take_block(t, z, p, o)
  PROVE  Leaves(z, o, p) /\ blk' \in [Ctx -> Block]
<1>1. free \in [Zone -> [Order -> SUBSET Page]] /\ p \in Page /\ blk \in [Ctx -> Block]
  BY SMTT(20), SMTT(30) DEF IInv, TypeOK
<1>2. <<p, o>> \in Block
  BY <1>1, BlockFact
<1>3. free' \in [Zone -> [Order -> SUBSET Page]] /\ free'[z][o] = free[z][o] \ {p} /\ Elsewhere(z, o)
  BY <1>1 DEF take_block, Elsewhere
<1>4. blk' \in [Ctx -> Block]
  BY <1>1, <1>2 DEF take_block
<1> QED BY <1>3, <1>4 DEF Leaves, take_block

\* The first block of a round of rmqueue_bulk().
LEMMA BulkTakeRest ==
  ASSUME IInv, NEW t \in Ctx, bulk_take(t), Others(t),
         \E z \in Zone, o \in Order : \E p \in free[z][o] : take_block(t, z, p, o)
  PROVE  Rest'
<1> USE DEF IInv
<1>2. ListInv' /\ ListTypes' /\ blk' \in [Ctx -> Block]
  BY TakeLeaves, ListLess
<1>3. pc' \in [Ctx -> Pcs] /\ pc'[t] = "bulk_expand" /\ pc[t] = "bulk"
  BY DEF TypeOK, Pcs, bulk_take, At, Goto
<1>4. TypeOK'
  BY <1>2, <1>3 DEF TypeOK, ListTypes, bulk_take, request
<1>5. PcpInv' /\ PcpZone'
  BY <1>3, PcpHand DEF bulk_take, request
<1> QED BY <1>2, <1>4, <1>5 DEF Rest

\* A block of a higher order.
LEMMA RmqueueRest ==
  ASSUME IInv, NEW t \in Ctx, NEW c \in CPU, rmqueue(t, c), Others(t),
         \E z \in Zone, o \in Order : \E p \in free[z][o] : take_block(t, z, p, o)
  PROVE  Rest'
<1> USE DEF IInv
<1>2. ListInv' /\ ListTypes' /\ blk' \in [Ctx -> Block]
  BY TakeLeaves, ListLess
<1>3. pc' \in [Ctx -> Pcs] /\ pc'[t] = "expand" /\ pc[t] = "scan"
  BY DEF TypeOK, Pcs, rmqueue, CanTry, At, Goto
<1>4. /\ irq_off' \in [CPU -> Ctx \cup {None}] /\ cpu' \in [Ctx -> CPU \cup {None}]
      /\ zlock' \in [Zone -> Ctx \cup {None}]
  BY DEF TypeOK, rmqueue, local_irq_save, lock_zone
<1>5. TypeOK'
  BY <1>2, <1>3, <1>4 DEF TypeOK, ListTypes, rmqueue, request
<1>6. PcpInv' /\ PcpZone'
  BY <1>3, PcpIdle DEF BusyPcs, rmqueue
<1> QED BY <1>2, <1>5, <1>6 DEF Rest

\* The upper half of the block becomes free.
LEMMA ExpandRest ==
  ASSUME IInv, NEW t \in Ctx, expand(t), Others(t),
         blk'[t] \in Block,
         \E z \in Zone, o \in Order, q \in Page : Joins(z, o, q) /\ owner[q] = <<"ctx", t>>
  PROVE  Rest'
<1> USE DEF IInv
<1>2. ListInv' /\ ListTypes'
  <2>1. PICK z \in Zone, o \in Order, q \in Page : Joins(z, o, q) /\ owner[q] = <<"ctx", t>>
    OBVIOUS
  <2>2. owner[q][1] # "free"
    BY SMTT(20), SMTT(30), <2>1
  <2> QED BY <2>1, <2>2, ListMore
<1>3. blk' \in [Ctx -> Block]
  BY DEF TypeOK, expand, split_block
<1>4. TypeOK'
  BY <1>2, <1>3 DEF TypeOK, ListTypes, expand, request
<1>5. CASE pc[t] = "bulk_expand"
  <2>1. PcpInv' /\ PcpZone'
    BY <1>5, PcpHand DEF expand, request
  <2> QED BY <1>2, <1>4, <2>1 DEF Rest
<1>6. CASE pc[t] = "expand"
  <2>1. PcpInv' /\ PcpZone'
    BY <1>6, PcpIdle DEF BusyPcs, expand
  <2> QED BY <1>2, <1>4, <2>1 DEF Rest
<1> QED BY <1>5, <1>6 DEF expand

\* The block absorbs its free buddy.
LEMMA MergeRest ==
  ASSUME IInv, NEW t \in Ctx, merge(t), Others(t),
         blk'[t] \in Block,
         \E z \in Zone, o \in Order : \E b \in free[z][o] : Leaves(z, o, b)
  PROVE  Rest'
<1> USE DEF IInv
<1>2. ListInv' /\ ListTypes'
  BY ListLess
<1>3. blk' \in [Ctx -> Block]
  BY DEF TypeOK, merge
<1>4. TypeOK'
  BY <1>2, <1>3 DEF TypeOK, ListTypes, merge, request
<1>5. PcpInv' /\ PcpZone'
  BY PcpIdle DEF BusyPcs, merge
<1> QED BY <1>2, <1>4, <1>5 DEF Rest

\* The block becomes free.
LEMMA MergeDoneRest ==
  ASSUME IInv, NEW t \in Ctx, merge_done(t), Others(t),
         \E z \in Zone, o \in Order, p \in Page : Joins(z, o, p) /\ owner[p] = <<"ctx", t>>
  PROVE  Rest'
<1> USE DEF IInv
<1>2. ListInv' /\ ListTypes'
  <2>1. PICK z \in Zone, o \in Order, p \in Page : Joins(z, o, p) /\ owner[p] = <<"ctx", t>>
    OBVIOUS
  <2>2. owner[p][1] # "free"
    BY SMTT(20), SMTT(30), <2>1
  <2> QED BY <2>1, <2>2, ListMore
<1>3. blk' \in [Ctx -> Block]
  BY BlockFact DEF TypeOK, merge_done
<1>4. /\ pc' \in [Ctx -> Pcs] /\ zlock' \in [Zone -> Ctx \cup {None}] /\ zn' \in [Ctx -> Zone \cup {None}]
      /\ irq_off' \in [CPU -> Ctx \cup {None}] /\ cpu' \in [Ctx -> CPU \cup {None}]
      /\ pc[t] \notin BusyPcs /\ pc'[t] \in {"drain", "idle"}
  BY DEF TypeOK, Pcs, BusyPcs, merge_done, unlock_zone, local_irq_restore, At, Goto
<1>5. TypeOK'
  BY <1>2, <1>3, <1>4 DEF TypeOK, ListTypes, merge_done, request
<1>6. PcpInv' /\ PcpZone'
  BY <1>4, PcpIdle DEF BusyPcs, merge_done
<1> QED BY <1>2, <1>5, <1>6 DEF Rest

-----------------------------------------------------------------------------
(***************************************************************************)
(* The steps that change the page sets, or begin or end to.                *)
(***************************************************************************)
\* What a context finds in its page set: where it is not busy with it, the
\* page set is in order, and all pages of a boot page set are its own.
LEMMA Mine ==
  ASSUME IInv, NEW t \in Ctx, pc[t] \in OffPcs, NEW s, s = my_pcp(t, Area(t))
  PROVE  /\ s \in PageSet /\ s[1] = cpu[t] /\ s[2] = pageset[Area(t)]
         /\ \A u \in Ctx \ {t} : pc[u] \in OffPcs => cpu[u] # s[1]
         /\ IsFiniteSet(pcp[s].list) /\ Marks(s)
         /\ pcp[s].list \subseteq Page /\ pcp[s].count \in Nat /\ pcp[s].high \in Nat /\ pcp[s].batch \in Nat
         /\ pc[t] \notin BusyPcs => Level(s)
         /\ \A f \in pcp[s].list :
              /\ pageset[ZoneOf[f]] = s[2]
              /\ s[2] = "boot" => pc[t] \in BusyPcs /\ ZoneOf[f] = Area(t)
<1> USE DEF IInv
<1>1. s \in PageSet /\ s[1] = cpu[t] /\ s[2] = pageset[Area(t)]
  BY MySet DEF my_pcp
<1>2. \A u \in Ctx \ {t} : (pc[u] \in OffPcs => cpu[u] # s[1]) /\ ~Uses(u, s)
  BY <1>1, Alone
<1>3. IsFiniteSet(pcp[s].list) /\ Marks(s)
  BY <1>1 DEF PcpInv
<1>4. pcp[s] \in [list : SUBSET Page, count : Nat, high : Nat, batch : Nat]
  BY <1>1 DEF TypeOK
<1>5. pc[t] \notin BusyPcs => Level(s)
  <2>1. pc[t] \notin BusyPcs => ~Uses(t, s)
    BY DEF Uses, BusyPcs
  <2> QED BY <1>1, <1>2, <2>1 DEF PcpInv
<1>6. ASSUME NEW f \in pcp[s].list
      PROVE  /\ pageset[ZoneOf[f]] = s[2]
             /\ s[2] = "boot" => pc[t] \in BusyPcs /\ ZoneOf[f] = Area(t)
  <2>1. /\ pageset[ZoneOf[f]] = s[2]
        /\ s[2] = "boot" => \E u \in Ctx : Uses(u, s) /\ ZoneOf[f] = Area(u)
    BY <1>1, <1>6 DEF PcpZone
  <2> QED BY <1>2, <2>1 DEF Uses, BusyPcs
<1> QED BY <1>1, <1>2, <1>3, <1>4, <1>5, <1>6

\* rmqueue_pcplist() disables interrupts and looks for a page.
LEMMA RmqueuePcplistRest ==
  ASSUME IInv, NEW t \in Ctx, NEW c \in CPU, rmqueue_pcplist(t, c), Others(t)
  PROVE  Rest'
<1> USE DEF IInv
<1>0. PICK s : s = <<c, pageset[zone(t)]>>
  OBVIOUS
<1>2. zone(t) \in Zone /\ s \in PageSet /\ s[1] = c /\ s[2] = pageset[zone(t)]
  <2>1. zonelist(t) \in Seq(Zone) /\ pos[t] \in 1 .. Len(zonelist(t))
    BY SMTT(20), SMTT(30), ListAssumption DEF rmqueue_pcplist, CanTry, Core, ControlInv,
       Control, TypeOK,
       zonelist
  <2>2. zone(t) \in Zone
    BY SMTT(20), SMTT(30), <2>1 DEF zone
  <2> QED BY <1>0, <2>2 DEF TypeOK, PageSet
<1>3. /\ pc[t] = "scan" /\ irq_off[c] = None
      /\ pc'[t] = IF pcp[s].list = {} THEN "bulk_lock" ELSE "pcp_take"
      /\ cpu'[t] = c /\ pcp' = pcp /\ pageset' = pageset /\ pos' = pos /\ nid' = nid
  BY <1>0 DEF rmqueue_pcplist, CanTry, At, Goto, local_irq_save, TypeOK, locals, request
<1>4. Area(t)' = zone(t) /\ my_pcp(t, Area(t))' = s
  <2>1. Area(t)' = zone(t)
    BY <1>3 DEF Area, TakePcs, zone, zonelist
  <2> QED BY <1>0, <1>3, <2>1 DEF my_pcp
<1>5. /\ \A u \in Ctx : pc[u] \in OffPcs => cpu[u] # s[1]
      /\ Level(s) /\ (s[2] = "boot" => pcp[s].list = {})
  BY <1>2, <1>3, Quiet
<1>6. /\ IsFiniteSet(pcp[s].list) /\ Marks(s) /\ pcp[s].high \in Nat
      /\ \A f \in pcp[s].list : pageset[ZoneOf[f]] = s[2]
  BY <1>2 DEF PcpInv, PcpZone, TypeOK
<1>7. /\ Cardinality(pcp[s].list) \in Nat
      /\ Cardinality(pcp[s].list) = 0 <=> pcp[s].list = {}
  BY <1>6, Counting
<1>8. Marks(s)' /\ Level(s)'
  BY <1>3, <1>5, <1>6 DEF Marks, Level
<1>9. Filling(t)'
  <2>1. pcp[s].count = Cardinality(pcp[s].list) /\ Cardinality(pcp[s].list) <= pcp[s].high
    BY <1>5 DEF Level
  <2>2. Cardinality(pcp[s].list) \in Nat /\ pcp[s].high \in Nat
    BY <1>6, <1>7
  <2>3. Cardinality(pcp[s].list) - 1 <= pcp[s].high
    BY <2>1, <2>2, NatFacts
  <2>4. pcp[s].list # {} => Cardinality(pcp[s].list) >= 1
    BY <1>7, NatFacts
  <2> QED BY <1>3, <1>4, <2>1, <2>3, <2>4 DEF Filling
<1>10. \A r \in PageSet : Uses(t, r) \/ Uses(t, r)' => r = s
  BY <1>3, <1>4 DEF Uses
<1>11. PcpInv' /\ PcpZone'
  BY <1>2, <1>3, <1>5, <1>6, <1>8, <1>9, <1>10, PcpStep
<1>12. TypeOK'
  BY DEF TypeOK, Pcs, rmqueue_pcplist, Goto, local_irq_save, zone_vars, locals, request
<1>13. ListInv'
  BY DEF ListInv, zone_vars, rmqueue_pcplist
<1> QED BY <1>11, <1>12, <1>13 DEF Rest

\* rmqueue_bulk() begins: the page set is empty.
LEMMA RmqueueBulkRest ==
  ASSUME IInv, NEW t \in Ctx, rmqueue_bulk(t), Others(t)
  PROVE  Rest'
<1> USE DEF IInv
<1>0. PICK s : s = my_pcp(t, Area(t))
  OBVIOUS
<1>2. /\ pc[t] = "bulk_lock" /\ pc'[t] = "bulk" /\ n[t] = 0
      /\ cpu' = cpu /\ pcp' = pcp /\ pageset' = pageset /\ pos' = pos /\ nid' = nid /\ n' = n
  BY DEF rmqueue_bulk, At, Goto, TypeOK, locals, request, Core, ControlInv, Control
<1>3. Area(t)' = Area(t) /\ my_pcp(t, Area(t))' = s
  <2>1. Area(t)' = Area(t)
    BY <1>2 DEF Area, TakePcs, zone, zonelist
  <2> QED BY <1>0, <1>2, <2>1 DEF my_pcp
<1>4. pcp[s].list = {}
  BY <1>0, <1>2 DEF PcpInv, Filling
<1>5. pc[t] \in OffPcs /\ pc[t] \notin BusyPcs
  BY <1>2 DEF OffPcs, TakePcs, BusyPcs
<1>6. /\ s \in PageSet /\ Marks(s) /\ Level(s) /\ IsFiniteSet(pcp[s].list)
      /\ pcp[s].high \in Nat /\ pcp[s].batch \in Nat
      /\ \A u \in Ctx \ {t} : pc[u] \in OffPcs => cpu[u] # s[1]
  BY <1>0, <1>5, Mine
<1>7. Cardinality(pcp[s].list) = 0 /\ pcp[s].count = 0
  BY <1>4, <1>6, Counting DEF Level
<1>8. Marks(s)' /\ Filling(t)'
  <2>1. Marks(s)'
    BY <1>2, <1>6 DEF Marks
  <2> QED BY SMTT(20), SMTT(30), <1>2, <1>3, <1>6, <1>7, <2>1 DEF Marks, Filling
<1>9. \A r \in PageSet : Uses(t, r) \/ Uses(t, r)' => r = s
  BY <1>0, <1>2, <1>3 DEF Uses
<1>10. Level(s)'
  BY <1>2, <1>6 DEF Level
<1>11. PcpInv' /\ PcpZone'
  BY <1>2, <1>4, <1>6, <1>8, <1>9, <1>10, PcpStep
<1>12. TypeOK'
  BY DEF TypeOK, Pcs, rmqueue_bulk, Goto, lock_zone, zone_vars, locals, request
<1>13. ListInv'
  BY DEF ListInv, zone_vars, rmqueue_bulk
<1> QED BY <1>11, <1>12, <1>13 DEF Rest

\* rmqueue_bulk() ends: what it found is counted.
LEMMA BulkDoneRest ==
  ASSUME IInv, NEW t \in Ctx, bulk_done(t), Others(t)
  PROVE  Rest'
<1> USE DEF IInv
<1>0. PICK s : s = my_pcp(t, Area(t))
  OBVIOUS
<1> DEFINE k == Cardinality(pcp[s].list)
<1>2. /\ pc[t] = "bulk" /\ cpu' = cpu /\ pageset' = pageset /\ pos' = pos /\ nid' = nid
  BY DEF bulk_done, At, request
<1>3. Area(t) = zone(t) /\ pc[t] \in OffPcs
  BY <1>2 DEF Area, TakePcs, OffPcs
<1>4. /\ pc'[t] = IF pcp[s].list = {} THEN "pcp_fail" ELSE "pcp_take"
      /\ pcp' = [pcp EXCEPT ![s].count = @ + n[t]]
  BY <1>0, <1>3 DEF bulk_done, Goto, TypeOK
<1>5. Area(t)' = Area(t) /\ my_pcp(t, Area(t))' = s
  <2>1. Area(t)' = Area(t)
    BY <1>2, <1>4 DEF Area, TakePcs, zone, zonelist
  <2> QED BY <1>0, <1>2, <2>1 DEF my_pcp
<1>6. pcp[s].count = 0 /\ k = n[t] /\ k <= pcp[s].batch
  BY <1>0, <1>2 DEF PcpInv, Filling
<1>7. /\ s \in PageSet /\ Marks(s) /\ IsFiniteSet(pcp[s].list)
      /\ pcp[s].high \in Nat /\ pcp[s].batch \in Nat
      /\ \A u \in Ctx \ {t} : pc[u] \in OffPcs => cpu[u] # s[1]
      /\ \A f \in pcp[s].list : pageset[ZoneOf[f]] = s[2] /\ (s[2] = "boot" => ZoneOf[f] = Area(t))
  BY SMTT(20), SMTT(30), <1>0, <1>3, Mine
<1>8. /\ pcp'[s].list = pcp[s].list /\ pcp'[s].high = pcp[s].high /\ pcp'[s].batch = pcp[s].batch
      /\ pcp'[s].count = k /\ n[t] \in Nat
      /\ \A r \in PageSet \ {s} : pcp'[r] = pcp[r]
  BY SMTT(20), SMTT(30), <1>4, <1>6, <1>7 DEF TypeOK
<1>9. k \in Nat /\ (k = 0 <=> pcp[s].list = {})
  BY <1>7, Counting
<1> HIDE DEF k
<1>10. Marks(s)'
  BY <1>7, <1>8 DEF Marks
<1>11. Filling(t)'
  <2>1. k - 1 <= pcp[s].high
    BY <1>6, <1>7, <1>9, NatFacts DEF Marks
  <2>2. pcp[s].list # {} => k >= 1
    BY <1>9, NatFacts
  <2> QED BY <1>4, <1>5, <1>8, <2>1, <2>2 DEF Filling, k
<1>12. ~Uses(t, s)' => Level(s)'
  <2>1. pcp[s].list # {} => Uses(t, s)'
    BY <1>4, <1>5 DEF Uses
  <2> QED BY SMTT(20), SMTT(30), <1>7, <1>8, <1>9, <2>1 DEF Level, k
<1>13. \A f \in pcp'[s].list :
         /\ pageset[ZoneOf[f]] = s[2]
         /\ s[2] = "boot" => Uses(t, s)' /\ ZoneOf[f] = Area(t)'
  BY <1>4, <1>5, <1>7, <1>8 DEF Uses
<1>14. \A r \in PageSet : Uses(t, r) \/ Uses(t, r)' => r = s
  BY <1>0, <1>5 DEF Uses
<1>15. PcpInv' /\ PcpZone'
  BY <1>2, <1>7, <1>8, <1>10, <1>11, <1>12, <1>13, <1>14, PcpStep
<1>16. TypeOK'
  <2>1. pcp' \in [PageSet -> [list : SUBSET Page, count : Nat, high : Nat, batch : Nat]]
    <3>1. pcp[s] \in [list : SUBSET Page, count : Nat, high : Nat, batch : Nat]
      BY <1>7 DEF TypeOK
    <3>2. [pcp[s] EXCEPT !.count = @ + n[t]]
            \in [list : SUBSET Page, count : Nat, high : Nat, batch : Nat]
      BY SMTT(20), SMTT(30), <1>8, <3>1
    <3> QED BY <1>4, <3>2 DEF TypeOK
  <2> QED BY <2>1 DEF TypeOK, Pcs, bulk_done, Goto, unlock_zone, zone_vars, request
<1>17. ListInv'
  BY DEF ListInv, zone_vars, bulk_done
<1> QED BY <1>15, <1>16, <1>17 DEF Rest

\* A page joins the page set that is being filled.
LEMMA BulkAddRest ==
  ASSUME IInv, NEW t \in Ctx, bulk_add(t), Others(t)
  PROVE  Rest'
<1> USE DEF IInv
<1>0. PICK s : s = my_pcp(t, Area(t))
  OBVIOUS
<1> DEFINE p == blk[t][1]
           k == Cardinality(pcp[s].list)
<1>2. /\ pc[t] = "bulk_expand" /\ pc'[t] = "bulk" /\ cpu' = cpu /\ pageset' = pageset
      /\ pos' = pos /\ nid' = nid /\ n'[t] = n[t] + 1
  BY DEF bulk_add, At, Goto, request, TypeOK
<1>3. Area(t) = zone(t) /\ pc[t] \in OffPcs
  BY <1>2 DEF Area, TakePcs, OffPcs
<1>4. pcp' = [pcp EXCEPT ![s].list = @ \cup {p}]
  BY <1>0, <1>3 DEF bulk_add
<1>5. Area(t)' = Area(t) /\ my_pcp(t, Area(t))' = s
  <2>1. Area(t)' = Area(t)
    BY <1>2 DEF Area, TakePcs, zone, zonelist
  <2> QED BY <1>0, <1>2, <2>1 DEF my_pcp
<1>6. pcp[s].count = 0 /\ k = n[t] /\ k < pcp[s].batch
  BY <1>0, <1>2 DEF PcpInv, Filling
<1>7. /\ s \in PageSet /\ s[2] = pageset[Area(t)] /\ Marks(s) /\ IsFiniteSet(pcp[s].list)
      /\ pcp[s].high \in Nat /\ pcp[s].batch \in Nat
      /\ \A u \in Ctx \ {t} : pc[u] \in OffPcs => cpu[u] # s[1]
      /\ \A f \in pcp[s].list : pageset[ZoneOf[f]] = s[2] /\ (s[2] = "boot" => ZoneOf[f] = Area(t))
  BY SMTT(20), SMTT(30), <1>0, <1>3, Mine
<1>8. p \in Page /\ ZoneOf[p] = Area(t) /\ p \notin pcp[s].list
  <2>1. InHand(t)
    BY <1>2 DEF InHand, HandPcs
  <2>2. p \in Page /\ ZoneOf[p] = Area(t) /\ blk[t][2] \in Order
    BY <1>3, <2>1 DEF Core, BlockInv, Ours, TypeOK, Block
  <2>3. p \in Hand(t)
    BY <2>1, <2>2, HeadFrame DEF Hand
  <2>4. owner[p] = <<"ctx", t>>
    BY <2>2, <2>3 DEF Core, OwnerInv, HandOwner
  <2> QED BY SMTT(20), SMTT(30), <1>7, <2>2, <2>4 DEF Core, OwnerInv, PcpOwner
<1>9. /\ pcp'[s].list = pcp[s].list \cup {p} /\ pcp'[s].high = pcp[s].high
      /\ pcp'[s].batch = pcp[s].batch /\ pcp'[s].count = pcp[s].count
      /\ \A r \in PageSet \ {s} : pcp'[r] = pcp[r]
  BY <1>4, <1>7 DEF TypeOK
<1>10. /\ k \in Nat /\ Cardinality(pcp[s].list \cup {p}) = k + 1
       /\ IsFiniteSet(pcp[s].list \cup {p})
  BY <1>7, <1>8, Counting
<1> HIDE DEF k, p
<1>11. Marks(s)'
  BY <1>7, <1>9 DEF Marks
<1>12. Filling(t)'
  <2>1. pcp[s].batch \in Nat
    BY <1>7
  <2>2. k + 1 <= pcp[s].batch
    BY SMTT(20), SMTT(30), <1>6, <1>10, <2>1
  <2>3. /\ Cardinality(pcp'[s].list) = n'[t] /\ Cardinality(pcp'[s].list) <= pcp'[s].batch
        /\ pcp'[s].count = 0
    BY <1>2, <1>6, <1>9, <1>10, <2>2
  <2> QED BY <1>2, <1>5, <2>3 DEF Filling
<1>13. Uses(t, s)'
  BY <1>2, <1>5 DEF Uses
<1>14. \A f \in pcp'[s].list :
         /\ pageset[ZoneOf[f]] = s[2]
         /\ s[2] = "boot" => Uses(t, s)' /\ ZoneOf[f] = Area(t)'
  BY <1>5, <1>7, <1>8, <1>9, <1>13
<1>15. \A r \in PageSet : Uses(t, r) \/ Uses(t, r)' => r = s
  BY <1>0, <1>5 DEF Uses
<1>16. IsFiniteSet(pcp'[s].list)
  BY <1>9, <1>10
<1>17. PcpInv' /\ PcpZone'
  BY <1>2, <1>7, <1>9, <1>11, <1>12, <1>13, <1>14, <1>15, <1>16, PcpStep
<1>18. TypeOK'
  <2>1. pcp' \in [PageSet -> [list : SUBSET Page, count : Nat, high : Nat, batch : Nat]]
    <3>1. pcp[s] \in [list : SUBSET Page, count : Nat, high : Nat, batch : Nat]
      BY <1>7 DEF TypeOK
    <3>2. [pcp[s] EXCEPT !.list = @ \cup {p}]
            \in [list : SUBSET Page, count : Nat, high : Nat, batch : Nat]
      BY <1>8, <3>1
    <3> QED BY <1>4, <3>2 DEF TypeOK
  <2> QED BY SMTT(20), SMTT(30), <2>1, BlockFact DEF TypeOK, Pcs, bulk_add, Goto, zone_vars,
             request
<1>19. ListInv'
  BY DEF ListInv, zone_vars, bulk_add
<1> QED BY <1>17, <1>18, <1>19 DEF Rest

\* A page of the page set is the caller's.
LEMMA PcpTakeRest ==
  ASSUME IInv, NEW t \in Ctx, pcp_take(t), Others(t)
  PROVE  Rest'
<1> USE DEF IInv
<1>0. PICK s : s = my_pcp(t, Area(t))
  OBVIOUS
<1> DEFINE k == Cardinality(pcp[s].list)
<1>2. pc[t] = "pcp_take" /\ pc'[t] = "idle" /\ pageset' = pageset
  BY DEF pcp_take, request_done, At, Goto, TypeOK
<1>3. Area(t) = zone(t) /\ pc[t] \in OffPcs
  BY <1>2 DEF Area, TakePcs, OffPcs
<1>4. PICK p \in pcp[s].list :
        /\ pcp' = [pcp EXCEPT ![s].list = @ \ {p}, ![s].count = @ - 1]
        /\ held' = held \cup {<<p, 0>>} /\ ref' = [ref EXCEPT ![p] = 1]
  BY <1>0, <1>3 DEF pcp_take
<1>5. pcp[s].count = k /\ k >= 1 /\ k - 1 <= pcp[s].high
  BY <1>0, <1>2 DEF PcpInv, Filling
<1>6. /\ s \in PageSet /\ Marks(s) /\ IsFiniteSet(pcp[s].list)
      /\ pcp[s].high \in Nat /\ pcp[s].batch \in Nat /\ pcp[s].list \subseteq Page
      /\ \A u \in Ctx \ {t} : pc[u] \in OffPcs => cpu[u] # s[1]
      /\ \A f \in pcp[s].list : pageset[ZoneOf[f]] = s[2]
  BY SMTT(20), SMTT(30), <1>0, <1>3, Mine
<1>7. pcp[s] \in [list : SUBSET Page, count : Nat, high : Nat, batch : Nat]
  BY <1>6 DEF TypeOK
<1>8. /\ pcp'[s].list = pcp[s].list \ {p} /\ pcp'[s].high = pcp[s].high
      /\ pcp'[s].batch = pcp[s].batch /\ pcp'[s].count = pcp[s].count - 1
      /\ \A r \in PageSet \ {s} : pcp'[r] = pcp[r]
  BY <1>4, <1>6, <1>7 DEF TypeOK
<1>9. /\ k \in Nat /\ Cardinality(pcp[s].list \ {p}) = k - 1
      /\ IsFiniteSet(pcp[s].list \ {p})
  BY <1>4, <1>6, Counting
<1> HIDE DEF k
<1>10. s[2] = "boot" => pcp[s].list \ {p} = {}
  <2>1. s[2] = "boot" => k - 1 = 0
    BY SMTT(20), SMTT(30), <1>5, <1>6, <1>9 DEF Marks
  <2>2. Cardinality(pcp[s].list \ {p}) = 0 => pcp[s].list \ {p} = {}
    BY <1>9, Counting
  <2> QED BY <1>9, <2>1, <2>2
<1>11. Marks(s)' /\ Level(s)' /\ Filling(t)'
  BY <1>2, <1>5, <1>6, <1>8, <1>9 DEF Marks, Level, Filling
<1>12. \A r \in PageSet : Uses(t, r) \/ Uses(t, r)' => r = s
  BY <1>0, <1>2 DEF Uses
<1>13. IsFiniteSet(pcp'[s].list)
  BY <1>8, <1>9
<1>14. \A f \in pcp'[s].list : pageset[ZoneOf[f]] = s[2] /\ s[2] # "boot"
  BY <1>6, <1>8, <1>10
<1>15. PcpInv' /\ PcpZone'
  BY <1>2, <1>6, <1>8, <1>11, <1>12, <1>13, <1>14, PcpStep
<1>16. TypeOK'
  <2>1. pcp' \in [PageSet -> [list : SUBSET Page, count : Nat, high : Nat, batch : Nat]]
    <3>1. [pcp[s] EXCEPT !.list = @ \ {p}, !.count = @ - 1]
            \in [list : SUBSET Page, count : Nat, high : Nat, batch : Nat]
      <4>1. pcp[s].count - 1 \in Nat /\ pcp[s].list \ {p} \in SUBSET Page
        BY SMTT(20), SMTT(30), <1>5, <1>6, <1>9
      <4> QED BY <1>7, <4>1
    <3>2. pcp' = [pcp EXCEPT ![s] = [pcp[s] EXCEPT !.list = @ \ {p}, !.count = @ - 1]]
      BY <1>4, <1>6, <1>7 DEF TypeOK
    <3> QED BY <3>1, <3>2 DEF TypeOK
  <2>2. ref' \in [Page -> 0 .. 1] /\ held' \subseteq Page \X Order
    BY SMTT(20), SMTT(30), <1>4, <1>6, BlockFact DEF TypeOK
  <2>3. irq_off' \in [CPU -> Ctx \cup {None}] /\ cpu' \in [Ctx -> CPU \cup {None}]
    BY DEF TypeOK, pcp_take, local_irq_restore
  <2>4. /\ nid' \in [Ctx -> Node] /\ hidx' \in [Ctx -> Nat] /\ pref' \in [Ctx -> Nat]
        /\ pos' \in [Ctx -> Nat] /\ want' \in [Ctx -> Order] /\ pc' \in [Ctx -> Pcs]
    BY NodeFact, BlockFact DEF TypeOK, Pcs, pcp_take, request_done, Goto
  <2> QED BY <2>1, <2>2, <2>3, <2>4 DEF TypeOK, pcp_take, zone_vars
<1>17. ListInv'
  BY DEF ListInv, zone_vars, pcp_take
<1> QED BY <1>15, <1>16, <1>17 DEF Rest

\* free_unref_page_commit() puts the page on the page set; when that is full,
\* and a boot page set always is, the context goes on to empty it.
LEMMA CommitRest ==
  ASSUME IInv, NEW t \in Ctx, NEW c \in CPU, free_unref_page_commit(t, c), Others(t)
  PROVE  Rest'
<1> USE DEF IInv
<1>0. PICK s : s = <<c, pageset[ZoneOf[blk[t][1]]]>>
  OBVIOUS
<1> DEFINE q == blk[t][1]
           k == Cardinality(pcp[s].list)
           full == pcp[s].count + 1 >= pcp[s].high
<1>2. /\ pc[t] = "free_pcp" /\ irq_off[c] = None /\ pageset' = pageset
      /\ pcp' = [pcp EXCEPT ![s].list = @ \cup {q}, ![s].count = @ + 1]
  BY <1>0 DEF free_unref_page_commit, At
<1>3. /\ irq_off' = [irq_off EXCEPT ![c] = IF full THEN t ELSE None]
      /\ cpu' = [cpu EXCEPT ![t] = IF full THEN c ELSE None]
      /\ zn' = [zn EXCEPT ![t] = IF full THEN ZoneOf[q] ELSE None]
      /\ n' = [n EXCEPT ![t] = IF full THEN pcp[s].batch ELSE 0]
      /\ pc' = [pc EXCEPT ![t] = IF full THEN "gather" ELSE "idle"]
  BY <1>0 DEF free_unref_page_commit, Goto
<1>4. q \in Page /\ ZoneOf[q] \in Zone /\ InHand(t)
  BY <1>2, PageAssumption DEF Core, BlockInv, Ours, InHand, HandPcs
<1>5. s \in PageSet /\ s[1] = c /\ s[2] = pageset[ZoneOf[q]]
  BY <1>0, <1>4 DEF TypeOK, PageSet
<1>6. /\ \A u \in Ctx : pc[u] \in OffPcs => cpu[u] # s[1]
      /\ Level(s) /\ (s[2] = "boot" => pcp[s].list = {})
  BY <1>2, <1>5, Quiet
<1>7. /\ IsFiniteSet(pcp[s].list) /\ Marks(s)
      /\ \A f \in pcp[s].list : pageset[ZoneOf[f]] = s[2]
  BY <1>5 DEF PcpInv, PcpZone
<1>8. /\ pcp[s] \in [list : SUBSET Page, count : Nat, high : Nat, batch : Nat]
  BY <1>5 DEF TypeOK
<1>9. q \notin pcp[s].list
  <2>1. blk[t][2] \in Order
    BY DEF TypeOK, Block
  <2>2. q \in Hand(t)
    BY <1>4, <2>1, HeadFrame DEF Hand
  <2>3. owner[q] = <<"ctx", t>>
    BY <1>4, <2>2 DEF Core, OwnerInv, HandOwner
  <2> QED BY SMTT(20), SMTT(30), <1>4, <1>5, <2>3 DEF Core, OwnerInv, PcpOwner
<1>10. /\ k \in Nat /\ Cardinality(pcp[s].list \cup {q}) = k + 1
       /\ IsFiniteSet(pcp[s].list \cup {q})
  BY <1>7, <1>9, Counting
<1>11. /\ pcp'[s].list = pcp[s].list \cup {q} /\ pcp'[s].high = pcp[s].high
       /\ pcp'[s].batch = pcp[s].batch /\ pcp'[s].count = pcp[s].count + 1
       /\ \A r \in PageSet \ {s} : pcp'[r] = pcp[r]
  BY <1>2, <1>5, <1>8 DEF TypeOK
<1>12. pcp[s].count = k /\ k <= pcp[s].high /\ (s[2] = "boot" => full)
  BY SMTT(20), SMTT(30), <1>6, <1>7, <1>8, <1>10 DEF Level, Marks
<1> HIDE DEF k, q
<1>13. Marks(s)' /\ IsFiniteSet(pcp'[s].list)
  BY <1>7, <1>10, <1>11 DEF Marks
<1>14. TypeOK'
  <2>1. pcp' \in [PageSet -> [list : SUBSET Page, count : Nat, high : Nat, batch : Nat]]
    <3>1. [pcp[s] EXCEPT !.list = @ \cup {q}, !.count = @ + 1]
            \in [list : SUBSET Page, count : Nat, high : Nat, batch : Nat]
      <4>1. pcp[s].count + 1 \in Nat /\ pcp[s].list \cup {q} \in SUBSET Page
        BY SMTT(20), SMTT(30), <1>4, <1>8
      <4> QED BY <1>8, <4>1
    <3>2. pcp' = [pcp EXCEPT ![s] = [pcp[s] EXCEPT !.list = @ \cup {q}, !.count = @ + 1]]
      BY <1>2, <1>5, <1>8 DEF TypeOK
    <3> QED BY <3>1, <3>2 DEF TypeOK
  <2>2. /\ irq_off' \in [CPU -> Ctx \cup {None}] /\ cpu' \in [Ctx -> CPU \cup {None}]
        /\ zn' \in [Ctx -> Zone \cup {None}] /\ n' \in [Ctx -> Nat] /\ pc' \in [Ctx -> Pcs]
    BY <1>3, <1>4, <1>8 DEF TypeOK, Pcs
  <2>3. blk' \in [Ctx -> Block]
    BY BlockFact DEF TypeOK, free_unref_page_commit
  <2> QED BY <2>1, <2>2, <2>3 DEF TypeOK, free_unref_page_commit, zone_vars, request
<1>15. ListInv'
  BY DEF ListInv, zone_vars, free_unref_page_commit
<1>16. CASE full
  <2>1. pc'[t] = "gather" /\ cpu'[t] = c /\ zn'[t] = ZoneOf[q] /\ n'[t] = pcp[s].batch
    BY <1>3, <1>16 DEF TypeOK
  <2>2. Area(t)' = ZoneOf[q] /\ my_pcp(t, Area(t))' = s
    <3>1. Area(t)' = ZoneOf[q]
      BY <2>1 DEF Area, TakePcs
    <3> QED BY <1>0, <1>2, <2>1, <3>1 DEF my_pcp, q
  <2>3. Uses(t, s)' /\ \A r \in PageSet : Uses(t, r) \/ Uses(t, r)' => r = s
    BY <1>2, <2>1, <2>2 DEF Uses
  <2>4. k + 1 - pcp[s].batch <= pcp[s].high
    BY SMTT(20), SMTT(30), <1>7, <1>8, <1>10, <1>12 DEF Marks
  <2>5. Filling(t)'
    <3>1. pcp'[s].count = k + 1 /\ Cardinality(pcp'[s].list) = k + 1
      BY <1>10, <1>11, <1>12
    <3>2. Cardinality(pcp'[s].list) - n'[t] <= pcp'[s].high
      BY SMTT(20), SMTT(30), <1>8, <1>10, <1>11, <2>1, <2>4, <3>1
    <3> QED BY <2>1, <2>2, <3>1, <3>2 DEF Filling
  <2>6. \A f \in pcp'[s].list :
          /\ pageset[ZoneOf[f]] = s[2]
          /\ s[2] = "boot" => Uses(t, s)' /\ ZoneOf[f] = Area(t)'
    BY <1>5, <1>6, <1>7, <1>11, <2>2, <2>3
  <2>7. PcpInv' /\ PcpZone'
    BY <1>2, <1>5, <1>6, <1>11, <1>13, <2>3, <2>5, <2>6, PcpStep
  <2> QED BY <1>14, <1>15, <2>7 DEF Rest
<1>17. CASE ~full
  <2>1. pc'[t] = "idle" /\ s[2] # "boot"
    BY <1>3, <1>12, <1>17 DEF TypeOK
  <2>2. \A r \in PageSet : ~Uses(t, r) /\ ~Uses(t, r)'
    BY <1>2, <2>1 DEF Uses
  <2>3. Filling(t)'
    BY <2>1 DEF Filling
  <2>4. Level(s)'
    BY SMTT(20), SMTT(30), <1>8, <1>10, <1>11, <1>12, <1>17 DEF Level
  <2>5. \A f \in pcp'[s].list : pageset[ZoneOf[f]] = s[2]
    BY <1>5, <1>7, <1>11
  <2>6. PcpInv' /\ PcpZone'
    BY <1>2, <1>5, <1>6, <1>11, <1>13, <2>1, <2>2, <2>3, <2>4, <2>5, PcpStep
  <2> QED BY <1>14, <1>15, <2>6 DEF Rest
<1> QED BY <1>16, <1>17 DEF Rest

\* A page leaves the page set for the buddy lists.
LEMMA GatherRest ==
  ASSUME IInv, NEW t \in Ctx, gather(t), Others(t)
  PROVE  Rest'
<1> USE DEF IInv
<1>0. PICK s : s = my_pcp(t, Area(t))
  OBVIOUS
<1> DEFINE k == Cardinality(pcp[s].list)
<1>2. /\ pc[t] = "gather" /\ pc' = pc /\ pageset' = pageset /\ cpu' = cpu /\ zn' = zn
      /\ n[t] \in Nat /\ n[t] > 0 /\ n' = [n EXCEPT ![t] = @ - 1] /\ n'[t] = n[t] - 1
  BY DEF gather, At, TypeOK
<1>3. Area(t) = zn[t] /\ pc[t] \in OffPcs
  BY <1>2 DEF Area, TakePcs, OffPcs, GivePcs
<1>4. PICK q \in pcp[s].list :
        /\ pcp' = [pcp EXCEPT ![s].list = @ \ {q}, ![s].count = @ - 1]
        /\ got' = [got EXCEPT ![t] = @ \cup {q}]
  BY <1>0, <1>3 DEF gather
<1>5. Area(t)' = Area(t) /\ my_pcp(t, Area(t))' = s
  <2>1. Area(t)' = Area(t)
    BY <1>2 DEF Area, TakePcs
  <2> QED BY <1>0, <1>2, <2>1 DEF my_pcp
<1>6. pcp[s].count = k /\ k - n[t] <= pcp[s].high
  BY <1>0, <1>2 DEF PcpInv, Filling
<1>7. /\ s \in PageSet /\ Marks(s) /\ IsFiniteSet(pcp[s].list) /\ pcp[s].list \subseteq Page
      /\ \A u \in Ctx \ {t} : pc[u] \in OffPcs => cpu[u] # s[1]
      /\ \A f \in pcp[s].list : pageset[ZoneOf[f]] = s[2] /\ (s[2] = "boot" => ZoneOf[f] = Area(t))
  BY SMTT(20), SMTT(30), <1>0, <1>3, Mine
<1>8. pcp[s] \in [list : SUBSET Page, count : Nat, high : Nat, batch : Nat]
  BY <1>7 DEF TypeOK
<1>9. /\ pcp'[s].list = pcp[s].list \ {q} /\ pcp'[s].high = pcp[s].high
      /\ pcp'[s].batch = pcp[s].batch /\ pcp'[s].count = pcp[s].count - 1
      /\ \A r \in PageSet \ {s} : pcp'[r] = pcp[r]
  BY <1>4, <1>7, <1>8 DEF TypeOK
<1>10. /\ k \in Nat /\ k >= 1 /\ Cardinality(pcp[s].list \ {q}) = k - 1
       /\ IsFiniteSet(pcp[s].list \ {q})
  BY <1>4, <1>7, Counting
<1> HIDE DEF k
<1>11. Marks(s)' /\ IsFiniteSet(pcp'[s].list)
  BY <1>7, <1>9, <1>10 DEF Marks
<1>12. Filling(t)'
  <2>1. (k - 1) - (n[t] - 1) <= pcp[s].high
    BY SMTT(20), SMTT(30), <1>2, <1>6, <1>8, <1>10
  <2> QED BY <1>2, <1>5, <1>6, <1>9, <1>10, <2>1 DEF Filling
<1>13. Uses(t, s)' /\ \A r \in PageSet : Uses(t, r) \/ Uses(t, r)' => r = s
  BY <1>0, <1>2, <1>5 DEF Uses
<1>14. \A f \in pcp'[s].list :
         /\ pageset[ZoneOf[f]] = s[2]
         /\ s[2] = "boot" => Uses(t, s)' /\ ZoneOf[f] = Area(t)'
  BY <1>5, <1>7, <1>9, <1>13
<1>15. PcpInv' /\ PcpZone'
  BY <1>2, <1>7, <1>9, <1>11, <1>12, <1>13, <1>14, PcpStep
<1>16. TypeOK'
  <2>1. pcp' \in [PageSet -> [list : SUBSET Page, count : Nat, high : Nat, batch : Nat]]
    <3>1. [pcp[s] EXCEPT !.list = @ \ {q}, !.count = @ - 1]
            \in [list : SUBSET Page, count : Nat, high : Nat, batch : Nat]
      <4>1. pcp[s].count - 1 \in Nat /\ pcp[s].list \ {q} \in SUBSET Page
        BY SMTT(20), SMTT(30), <1>6, <1>7, <1>10
      <4> QED BY <1>8, <4>1
    <3>2. pcp' = [pcp EXCEPT ![s] = [pcp[s] EXCEPT !.list = @ \ {q}, !.count = @ - 1]]
      BY <1>4, <1>7, <1>8 DEF TypeOK
    <3> QED BY <3>1, <3>2 DEF TypeOK
  <2>2. n' \in [Ctx -> Nat] /\ got' \in [Ctx -> SUBSET Page]
    BY SMTT(20), SMTT(30), <1>2, <1>4, <1>7 DEF TypeOK
  <2> QED BY <2>1, <2>2 DEF TypeOK, gather, zone_vars, request
<1>17. ListInv'
  BY DEF ListInv, zone_vars, gather
<1> QED BY <1>15, <1>16, <1>17 DEF Rest

\* All pages that had to go are gathered: the page set is in order again.
LEMMA DrainLockRest ==
  ASSUME IInv, NEW t \in Ctx, drain_lock(t), Others(t)
  PROVE  Rest'
<1> USE DEF IInv
<1>0. PICK s : s = my_pcp(t, Area(t))
  OBVIOUS
<1> DEFINE k == Cardinality(pcp[s].list)
<1>2. pc[t] = "gather" /\ pc'[t] = "drain" /\ pageset' = pageset /\ pcp' = pcp /\ n[t] = 0
  BY DEF drain_lock, At, Goto, TypeOK
<1>3. pc[t] \in OffPcs
  BY <1>2 DEF OffPcs, GivePcs
<1>4. pcp[s].count = k /\ k - 0 <= pcp[s].high
  BY <1>0, <1>2 DEF PcpInv, Filling
<1>5. /\ s \in PageSet /\ Marks(s) /\ IsFiniteSet(pcp[s].list) /\ pcp[s].high \in Nat
      /\ \A u \in Ctx \ {t} : pc[u] \in OffPcs => cpu[u] # s[1]
      /\ \A f \in pcp[s].list : pageset[ZoneOf[f]] = s[2]
  BY SMTT(20), SMTT(30), <1>0, <1>3, Mine
<1>6. k \in Nat /\ (k = 0 <=> pcp[s].list = {})
  BY <1>5, Counting
<1> HIDE DEF k
<1>7. s[2] = "boot" => pcp[s].list = {}
  BY SMTT(20), SMTT(30), <1>4, <1>5, <1>6 DEF Marks
<1>8. Marks(s)' /\ Level(s)' /\ Filling(t)'
  <2>1. Marks(s)'
    BY <1>2, <1>5 DEF Marks
  <2>2. pcp[s].high \in Nat
    BY <1>5
  <2>3. k <= pcp[s].high
    BY SMTT(20), SMTT(30), <1>4, <1>6, <2>2
  <2>4. Level(s)'
    BY <1>2, <1>4, <2>3 DEF Level, k
  <2>5. Filling(t)'
    BY <1>2 DEF Filling
  <2> QED BY <2>1, <2>4, <2>5
<1>9. \A r \in PageSet : Uses(t, r) \/ Uses(t, r)' => r = s
  BY <1>0, <1>2 DEF Uses
<1>10. PcpInv' /\ PcpZone'
  BY <1>2, <1>5, <1>7, <1>8, <1>9, PcpStep
<1>11. TypeOK'
  BY DEF TypeOK, Pcs, drain_lock, Goto, lock_zone, zone_vars, locals, request
<1>12. ListInv'
  BY DEF ListInv, zone_vars, drain_lock
<1> QED BY <1>10, <1>11, <1>12 DEF Rest
=============================================================================
