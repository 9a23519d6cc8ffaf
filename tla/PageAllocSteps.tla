---------------------------- MODULE PageAllocSteps ----------------------------
(***************************************************************************)
(* The steps of a context that move frames keep Core: locals, interrupts   *)
(* and locks are as they should be, every frame has one owner, blocks are  *)
(* whole, and free buddies are not left apart.                             *)
(***************************************************************************)
EXTENDS PageAllocLemmas

\* The first-order prover does most steps; those with arithmetic, or that take
\* tuples or records apart, name the SMT solver and allow it a second try.
USE ZenonT(60)

-----------------------------------------------------------------------------
(***************************************************************************)
(* The steps that allocate.                                                *)
(***************************************************************************)
\* __rmqueue_smallest() takes a block off its list.
LEMMA TakeBlock ==
  ASSUME IInv, NEW t \in Ctx, NEW z \in Zone, NEW o \in Order, NEW p \in free[z][o],
         take_block(t, z, p, o), Others(t), ~InHand(t), InHand(t)', pc'[t] \in TakePcs,
         Area(t)' = z, UNCHANGED <<pcp, held, got, zn>>, got[t] = {},
         Control(t)', IrqInv', LockInv'
  PROVE  Core'
<1> USE DEF IInv, Core
<1> DEFINE F == Frames(p, o)
           w == <<"ctx", t>>
<1>1. /\ free \in [Zone -> [Order -> SUBSET Page]] /\ border \in [Page -> Order \cup {-1}]
      /\ blk \in [Ctx -> Block] /\ p \in Page /\ Whole(p, o) /\ ZoneOf[p] = z
  BY SMTT(20), SMTT(30) DEF TypeOK, BlockInv
<1>2. F \subseteq Page /\ \A f \in F : owner[f] = <<"free", z, p, o>>
  <2>1. FreeOwner
    BY DEF OwnerInv
  <2> HIDE DEF IInv, Core
  <2>2. F \subseteq Page
    BY <1>1, FirstFrame
  <2>3. \A f \in Page : f \in Frames(p, o) => owner[f] = <<"free", z, p, o>>
    BY SMTT(20), SMTT(30), <1>1, <2>1 DEF FreeOwner
  <2> QED BY <2>2, <2>3
<1>3. blk'[t] = <<p, o>> /\ Moved(F, w)
  BY <1>1 DEF take_block
<1>4. Hand(t) = {} /\ Hand(t)' = F
  BY SMTT(20), SMTT(30), <1>3 DEF Hand, Frames
<1>5. Hand(t)' = Hand(t) \cup F /\ \A u \in Ctx \ {t} : Hand(u)' = Hand(u)
  BY <1>4, OthersSame
<1>6. /\ free'[z][o] = free[z][o] \ {p} /\ Elsewhere(z, o)
      /\ \A y \in Zone, i \in Order : free'[y][i] \subseteq free[y][i]
  BY <1>1 DEF take_block, Elsewhere
<1> HIDE DEF F, w
<1>7. OwnerInv'
  <2>1. FreeOwner'
    BY <1>1, <1>3, <1>6, FreeLoses DEF OwnerInv, F, w
  <2>2. HandOwner'
    BY SMTT(20), SMTT(30), <1>2, <1>3, <1>5, HandGains DEF OwnerInv, w
  <2>3. PcpOwner' /\ HeldOwner' /\ GotOwner'
    BY SMTT(20), SMTT(30), <1>2, <1>3, PcpKept, HeldKept, GotKept DEF OwnerInv, w
  <2>4. Somewhere'
    BY <1>3, SomewhereKept DEF OwnerInv, Place, w
  <2> QED BY <2>1, <2>2, <2>3, <2>4 DEF OwnerInv
<1>8. Ours(t)'
  BY SMTT(20), SMTT(30), <1>1, <1>3 DEF Ours, Whole, Frames
<1>9. ApartInv'
  <2>1. \A x \in Page : border'[x] = border[x] \/ border'[x] = -1
    BY <1>1 DEF take_block
  <2>2. pc'[t] \notin {"add", "drain_add"}
    BY DEF TakePcs
  <2> QED BY <1>6, <2>1, <2>2, ApartLess
<1> QED BY <1>6, <1>7, <1>8, <1>9, CoreStep

\* rmqueue_bulk() takes a block to fill the page set with.
LEMMA BulkTake ==
  ASSUME IInv, NEW t \in Ctx, bulk_take(t)
  PROVE  /\ Others(t) /\ Core'
         /\ \E z \in Zone, o \in Order : \E p \in free[z][o] : take_block(t, z, p, o)
<1> USE DEF IInv, Core
<1> DEFINE z == zone(t)
           o == Smallest(z, 0)
<1>1. Others(t) /\ pc[t] = "bulk" /\ pc'[t] = "bulk_expand"
  BY DEF bulk_take, take_block, At, Goto, request, Others, TypeOK
<1>2. z \in Zone /\ 0 \in Order /\ Area(t) = z
  BY SMTT(20), SMTT(30), <1>1, TakeZone, OrderAssumption DEF TakePcs, Order
<1>3. o \in Order /\ o >= 0
  BY <1>2, SmallestFacts DEF bulk_take
<1>4. PICK p \in free[z][o] : take_block(t, z, p, o)
  BY DEF bulk_take
<1>5. Control(t)'
  BY <1>1, <1>3, <1>4 DEF bulk_take, take_block, request, ControlInv, Control, TypeOK, TakePcs,
     GivePcs, zonelist
<1>6. IrqInv'
  BY <1>1, IrqSame DEF bulk_take, OffPcs, TakePcs
<1>7. Area(t)' = z
  BY <1>1, <1>2 DEF bulk_take, request, Area, zone, zonelist, TakePcs
<1>8. LockInv'
  BY <1>1, <1>2, <1>7, LockSame DEF bulk_take, LockPcs
<1>9. got[t] = {} /\ UNCHANGED <<pcp, held, got, zn>>
  BY <1>1 DEF bulk_take, ControlInv, Control
<1> HIDE DEF z, o
<1>10. Core'
  BY <1>1, <1>2, <1>3, <1>4, <1>5, <1>6, <1>7, <1>8, <1>9, TakeBlock DEF InHand, HandPcs, TakePcs
<1> QED BY <1>1, <1>2, <1>3, <1>4, <1>10

\* rmqueue() takes a block for its caller.
LEMMA Rmqueue ==
  ASSUME IInv, NEW t \in Ctx, NEW c \in CPU, rmqueue(t, c)
  PROVE  /\ Others(t) /\ Core'
         /\ \E z \in Zone, o \in Order : \E p \in free[z][o] : take_block(t, z, p, o)
<1> USE DEF IInv, Core
<1> DEFINE z == zone(t)
           o == Smallest(z, want[t])
<1>1. Others(t) /\ pc[t] = "scan" /\ pc'[t] = "expand"
  BY DEF rmqueue, CanTry, take_block, local_irq_save, At, Goto, request, Others, TypeOK
<1>2. z \in Zone /\ want[t] \in Order
  <2>1. zonelist(t) \in Seq(Zone) /\ pos[t] \in 1 .. Len(zonelist(t))
    BY SMTT(20), SMTT(30), ListAssumption DEF rmqueue, CanTry, ControlInv, Control, TypeOK,
       zonelist
  <2> QED BY SMTT(20), SMTT(30), <2>1 DEF TypeOK, zone
<1>3. o \in Order /\ o >= want[t]
  BY <1>2, SmallestFacts DEF rmqueue
<1>4. PICK p \in free[z][o] : take_block(t, z, p, o)
  BY DEF rmqueue
<1>5. Control(t)'
  BY <1>1, <1>3, <1>4 DEF rmqueue, CanTry, take_block, request, ControlInv, Control, TypeOK,
     TakePcs, GivePcs, zonelist
<1>6. IrqInv'
  BY <1>1, IrqSave DEF rmqueue, OffPcs, TakePcs, GivePcs
<1>7. Area(t)' = z
  BY <1>1, <1>2 DEF rmqueue, request, Area, zone, zonelist, TakePcs
<1>8. LockInv'
  BY <1>1, <1>2, <1>7, LockTake DEF rmqueue, LockPcs
<1>9. got[t] = {} /\ UNCHANGED <<pcp, held, got, zn>>
  BY <1>1 DEF rmqueue, ControlInv, Control
<1> HIDE DEF z, o
<1>10. Core'
  BY <1>1, <1>2, <1>3, <1>4, <1>5, <1>6, <1>7, <1>8, <1>9, TakeBlock DEF InHand, HandPcs, TakePcs
<1> QED BY <1>1, <1>2, <1>3, <1>4, <1>10

\* The block in hand: whose frames they are.
LEMMA HandFacts ==
  ASSUME IInv, NEW t \in Ctx, InHand(t)
  PROVE  /\ blk[t] = <<blk[t][1], blk[t][2]>> /\ blk[t][1] \in Page /\ blk[t][2] \in Order
         /\ Whole(blk[t][1], blk[t][2])
         /\ Hand(t) = Frames(blk[t][1], blk[t][2]) /\ Hand(t) \subseteq Page
         /\ \A f \in Hand(t) : owner[f] = <<"ctx", t>>
         /\ pc[t] \in OffPcs => ZoneOf[blk[t][1]] = Area(t)
<1>1. blk[t] = <<blk[t][1], blk[t][2]>> /\ blk[t][1] \in Page /\ blk[t][2] \in Order
  BY SMTT(20), SMTT(30) DEF IInv, Core, TypeOK, Block, BlockInv, Ours
<1>2. Hand(t) = Frames(blk[t][1], blk[t][2]) /\ Hand(t) \subseteq Page
  BY DEF Hand, Frames
<1> QED BY <1>1, <1>2 DEF IInv, Core, BlockInv, Ours, OwnerInv, HandOwner

\* One iteration of expand().
LEMMA Expand ==
  ASSUME IInv, NEW t \in Ctx, expand(t)
  PROVE  /\ Others(t) /\ Core' /\ blk'[t] \in Block
         /\ \E z \in Zone, o \in Order, q \in Page : Joins(z, o, q) /\ owner[q] = <<"ctx", t>>
<1> USE DEF IInv, Core
<1> DEFINE z == zone(t)
           p == blk[t][1]
           o == blk[t][2] - 1
           q == p + Size[o]
           w == <<"free", z, q, o>>
           F == Frames(q, o)
<1>1. Others(t) /\ pc[t] \in {"bulk_expand", "expand"} /\ pc' = pc
  BY DEF expand, split_block, request, Others, TypeOK
<1>2. z \in Zone /\ Area(t) = z
  BY <1>1, TakeZone DEF TakePcs
<1>3. /\ p \in Page /\ blk[t][2] \in Order /\ Whole(p, blk[t][2]) /\ ZoneOf[p] = z
      /\ Hand(t) = Frames(p, blk[t][2]) /\ \A f \in Hand(t) : owner[f] = <<"ctx", t>>
  BY <1>1, <1>2, HandFacts DEF InHand, HandPcs, OffPcs, TakePcs
<1>4. blk[t][2] > 0 /\ o >= want[t] /\ o + 1 = blk[t][2]
  BY SMTT(20), SMTT(30), <1>3, SizeFacts DEF expand, TypeOK, Order
<1>5. /\ o \in Order /\ q \in Page /\ ZoneOf[q] = z /\ Whole(p, o) /\ Whole(q, o)
      /\ Hand(t) = Frames(p, o) \cup F /\ Frames(p, o) \cap F = {}
      /\ find_buddy_pfn(q, o) = p
  BY <1>3, <1>4, SplitWhole
<1>6. /\ free' = [free EXCEPT ![z][o] = @ \cup {q}] /\ border' = [border EXCEPT ![q] = o]
      /\ blk' = [blk EXCEPT ![t] = <<p, o>>] /\ Moved(F, w)
      /\ UNCHANGED <<zlock, pcp, irq_off, held, cpu, pos, nid, pref, want, zn, n, got>>
  BY DEF expand, split_block, request
<1> HIDE DEF z, p, o, q, w, F
<1>7. /\ free \in [Zone -> [Order -> SUBSET Page]] /\ blk'[t] = <<p, o>>
      /\ free'[z][o] = free[z][o] \cup {q} /\ Elsewhere(z, o)
  BY <1>2, <1>5, <1>6 DEF TypeOK, Elsewhere
<1>8. Hand(t)' = Hand(t) \ F /\ F \subseteq Hand(t)
  <2>1. Hand(t)' = Frames(p, o)
    BY SMTT(20), SMTT(30), <1>1, <1>7 DEF Hand, InHand, HandPcs, Frames
  <2> QED BY <2>1, <1>5
<1>9. OwnerInv'
  <2>1. \A f \in F : owner[f] = <<"ctx", t>>
    BY <1>3, <1>8
  <2>2. FreeOwner'
    BY SMTT(20), SMTT(30), <2>1, <1>2, <1>5, <1>6, <1>7, FreeGains DEF OwnerInv, F, w
  <2>3. HandOwner'
    <3>1. Hand(t)' = Hand(t) \ F /\ \A u \in Ctx \ {t} : Hand(u)' = Hand(u)
      BY <1>1, <1>8, OthersSame
    <3> QED BY <3>1, <1>6, <1>8, HandLoses DEF OwnerInv, w
  <2>4. PcpOwner' /\ HeldOwner' /\ GotOwner'
    BY SMTT(20), SMTT(30), <2>1, <1>6, PcpKept, HeldKept, GotKept DEF OwnerInv, w
  <2>5. Somewhere'
    BY <1>2, <1>5, <1>6, SomewhereKept DEF OwnerInv, Place, w
  <2> QED BY <2>2, <2>3, <2>4, <2>5 DEF OwnerInv
<1>10. Area(t)' = z
  BY <1>1, <1>2, <1>6 DEF Area, zone, zonelist
<1>11. Control(t)' /\ Ours(t)' 
  <2>1. Control(t)'
    BY SMTT(20), SMTT(30), <1>1, <1>4, <1>6, <1>7 DEF ControlInv, Control, zonelist
  <2>2. Ours(t)'
    <3>1. Ours(t) /\ blk'[t][1] = p /\ blk'[t][2] = o
      BY SMTT(20), SMTT(30), <1>7 DEF BlockInv
    <3> QED BY <3>1, <1>3, <1>5, <1>6, <1>10 DEF Ours, Whole, Frames
  <2> QED BY <2>1, <2>2
<1>12. IrqInv' /\ LockInv'
  BY <1>1, <1>2, <1>6, <1>10, IrqSame, LockSame
<1>13. ApartInv'
  <2>1. find_buddy_pfn(q, o) \notin free[z][o]
    <3>1. owner[p] = <<"ctx", t>> /\ p \in Frames(p, o)
      BY <1>3, <1>5, FirstFrame
    <3>2. p \in free[z][o] => owner[p] = <<"free", z, p, o>>
      BY <3>1, <1>2, <1>3, <1>5 DEF OwnerInv, FreeOwner
    <3> QED BY SMTT(20), SMTT(30), <3>1, <3>2, <1>5
  <2> QED BY <2>1, <1>1, <1>2, <1>5, <1>6, ApartMore DEF LockPcs
<1>14. \A y \in Zone, i \in Order : \A x \in free'[y][i] :
         x \in free[y][i] \/ (Whole(x, i) /\ ZoneOf[x] = y)
  BY SMTT(20), SMTT(30), <1>5, <1>7 DEF Elsewhere
<1>15. Core'
  BY <1>1, <1>6, <1>9, <1>11, <1>12, <1>13, <1>14, CoreStep
<1>16. owner[q] = <<"ctx", t>> /\ blk'[t] \in Block
  BY SMTT(20), SMTT(30), <1>3, <1>5, <1>7, FirstFrame DEF Block, F
<1>17. Joins(z, o, q)
  <2>1. free' \in [Zone -> [Order -> SUBSET Page]]
    BY <1>2, <1>5, <1>6, <1>7
  <2>2. nr_free' = [nr_free EXCEPT ![z][o] = @ + 1]
    BY DEF expand, split_block, z, o, q
  <2> QED BY <1>6, <1>7, <2>1, <2>2 DEF Joins
<1> QED BY <1>1, <1>2, <1>5, <1>15, <1>16, <1>17

\* A page set of the CPU that a context works on.
LEMMA SetFacts ==
  ASSUME IInv, NEW t \in Ctx, pc[t] \in OffPcs
  PROVE  Area(t) \in Zone /\ cpu[t] \in CPU /\ my_pcp(t, Area(t)) \in PageSet
<1>1. Area(t) \in Zone
  BY TakeZone DEF IInv, Core, ControlInv, Control, Area, OffPcs
<1>2. cpu[t] \in CPU
  BY SMTT(20), SMTT(30) DEF IInv, Core, IrqInv, TypeOK
<1> QED BY <1>1, <1>2 DEF my_pcp, PageSet, IInv, TypeOK

\* The page of rmqueue_bulk() joins the page set.
LEMMA BulkAdd ==
  ASSUME IInv, NEW t \in Ctx, bulk_add(t)
  PROVE  Others(t) /\ Core'
<1> USE DEF IInv, Core
<1> DEFINE p == blk[t][1]
           s == my_pcp(t, zone(t))
           w == <<"pcp", s>>
<1>1. Others(t) /\ pc[t] = "bulk_expand" /\ pc'[t] = "bulk"
  BY DEF bulk_add, At, Goto, request, Others, TypeOK
<1>2. Area(t) = zone(t) /\ s \in PageSet
  BY <1>1, TakeZone, SetFacts DEF OffPcs, TakePcs
<1>3. p \in Page /\ blk[t][2] = 0 /\ Hand(t) = {p} /\ owner[p] = <<"ctx", t>>
  <2>1. p \in Page /\ blk[t][2] = 0 /\ Hand(t) = Frames(p, blk[t][2])
        /\ \A f \in Hand(t) : owner[f] = <<"ctx", t>>
    BY <1>1, HandFacts DEF bulk_add, InHand, HandPcs, ControlInv, Control, TakePcs
  <2>2. Frames(p, 0) = {p}
    BY SMTT(20), SMTT(30), <2>1, FirstFrame, OrderAssumption DEF Order
  <2> QED BY <2>1, <2>2
<1>4. /\ pcp' = [pcp EXCEPT ![s].list = @ \cup {p}] /\ Moved({p}, w)
      /\ UNCHANGED <<free, border, zlock, irq_off, held, cpu, pos, nid, pref, want, zn, got>>
  BY DEF bulk_add, request, zone_vars
<1> HIDE DEF p, s, w
<1>5. pcp'[s].list = pcp[s].list \cup {p} /\ \A r \in PageSet \ {s} : pcp'[r].list = pcp[r].list
  BY SMTT(20), SMTT(30), <1>2, <1>4 DEF TypeOK
<1>6. Hand(t)' = {}
  BY <1>1 DEF Hand, InHand, HandPcs
<1>7. OwnerInv'
  <2>1. PcpOwner'
    BY SMTT(20), SMTT(30), <1>2, <1>3, <1>4, <1>5, PcpGains DEF OwnerInv, w
  <2>2. HandOwner'
    <3>1. Hand(t)' = Hand(t) \ {p} /\ \A u \in Ctx \ {t} : Hand(u)' = Hand(u)
      BY <1>1, <1>3, <1>6, OthersSame
    <3> QED BY <3>1, <1>3, <1>4, HandLoses DEF OwnerInv, w
  <2>3. FreeOwner' /\ HeldOwner' /\ GotOwner'
    BY SMTT(20), SMTT(30), <1>3, <1>4, FreeKept, HeldKept, GotKept DEF OwnerInv, w
  <2>4. Somewhere'
    BY <1>2, <1>4, SomewhereKept DEF OwnerInv, Place, w
  <2> QED BY <2>1, <2>2, <2>3, <2>4 DEF OwnerInv
<1>8. Area(t)' = Area(t)
  BY <1>1, <1>4 DEF Area, zone, zonelist, TakePcs
<1>9. Control(t)'
  BY <1>1, <1>4 DEF ControlInv, Control, zonelist, TakePcs, GivePcs
<1>10. Ours(t)'
  BY <1>1, <1>4 DEF BlockInv, Ours, InHand, HandPcs
<1>11. IrqInv' /\ LockInv'
  BY <1>1, <1>4, <1>8, IrqSame, LockSame DEF OffPcs, TakePcs, LockPcs
<1>12. ApartInv'
  BY <1>1, <1>4, ApartLess
<1> QED BY <1>1, <1>4, <1>7, <1>9, <1>10, <1>11, <1>12, CoreStep

\* rmqueue_pcplist() gives a page of the page set to the caller.
LEMMA PcpTake ==
  ASSUME IInv, NEW t \in Ctx, pcp_take(t)
  PROVE  Others(t) /\ Core'
<1> USE DEF IInv, Core
<1> DEFINE s == my_pcp(t, zone(t))
<1>1. Others(t) /\ pc[t] = "pcp_take" /\ pc'[t] = "idle"
  BY DEF pcp_take, local_irq_restore, request_done, At, Goto, Others, TypeOK
<1>2. Area(t) = zone(t) /\ s \in PageSet
  BY <1>1, TakeZone, SetFacts DEF OffPcs, TakePcs
<1>3. PICK p \in pcp[s].list :
        /\ pcp' = [pcp EXCEPT ![s].list = @ \ {p}, ![s].count = @ - 1]
        /\ held' = held \cup {<<p, 0>>}
        /\ Moved({p}, <<"held", <<p, 0>>>>)
  BY DEF pcp_take
<1>4. UNCHANGED <<free, border, zlock, blk, zn, n, got>>
  BY DEF pcp_take, zone_vars
<1> HIDE DEF s
<1>5. /\ p \in Page /\ <<p, 0>> \in Page \X Order /\ owner[p] = <<"pcp", s>>
      /\ Frames(p, 0) = {p} /\ Whole(p, 0)
  BY <1>2, FirstFrame, FrameWhole DEF TypeOK, OwnerInv, PcpOwner
<1>6. pcp'[s].list = pcp[s].list \ {p} /\ \A r \in PageSet \ {s} : pcp'[r].list = pcp[r].list
  BY <1>2, <1>3 DEF TypeOK
<1>7. \A u \in Ctx : Hand(u)' = Hand(u)
  <2>1. Hand(t)' = Hand(t)
    BY <1>1 DEF Hand, InHand, HandPcs
  <2> QED BY <1>1, <2>1, OthersSame
<1>8. OwnerInv'
  <2> DEFINE w == <<"held", <<p, 0>>>>
  <2>1. w[1] = "held" /\ Place(w) /\ Moved({p}, w)
    BY <1>3, <1>5 DEF Place
  <2>2. HeldOwner'
    <3> DEFINE b == <<p, 0>>
    <3>1. b \in Page \X Order /\ Frames(b[1], b[2]) = {p} /\ held' = held \cup {b}
      BY <1>3, <1>5
    <3>2. Moved(Frames(b[1], b[2]), <<"held", b>>)
      BY <1>3, <3>1
    <3> HIDE DEF b
    <3> QED BY SMTT(20), SMTT(30), <1>5, <3>1, <3>2, HeldGains DEF OwnerInv
  <2> HIDE DEF w
  <2>3. PcpOwner'
    BY <1>2, <1>6, <2>1, PcpLoses DEF OwnerInv
  <2>4. FreeOwner' /\ HandOwner' /\ GotOwner'
    BY SMTT(20), SMTT(30), <1>4, <1>5, <1>7, <2>1, FreeKept, HandKept, GotKept DEF OwnerInv
  <2>5. Somewhere'
    BY <2>1, SomewhereKept DEF OwnerInv
  <2> QED BY <2>2, <2>3, <2>4, <2>5 DEF OwnerInv
<1>9. Control(t)'
  <2>1. pos'[t] = 1 /\ pref'[t] = 1
    BY DEF pcp_take, request_done, TypeOK
  <2> QED BY SMTT(20), SMTT(30), <1>1, <1>4, <2>1 DEF ControlInv, Control, TakePcs, GivePcs
<1>10. Ours(t)'
  BY <1>1, <1>4 DEF BlockInv, Ours, InHand, HandPcs, OffPcs, TakePcs, GivePcs
<1>11. IrqInv' /\ LockInv'
  BY <1>1, <1>4, IrqRestore, LockSame DEF pcp_take, OffPcs, TakePcs, GivePcs, LockPcs
<1>12. ApartInv'
  BY <1>1, <1>4, ApartLess
<1> QED BY SMTT(20), SMTT(30), <1>1, <1>3, <1>4, <1>5, <1>8, <1>9, <1>10, <1>11, <1>12, CoreStep

\* rmqueue() gives the block to the caller.
LEMMA RmqueueDone ==
  ASSUME IInv, NEW t \in Ctx, rmqueue_done(t)
  PROVE  Others(t) /\ Core'
<1> USE DEF IInv, Core
<1> DEFINE p == blk[t][1]
           o == want[t]
           F == Frames(p, o)
           w == <<"held", <<p, o>>>>
<1>1. Others(t) /\ pc[t] = "expand" /\ pc'[t] = "idle" /\ blk[t][2] = o
  BY DEF rmqueue_done, local_irq_restore, request_done, At, Goto, Others, TypeOK
<1>2. Area(t) = zone(t) /\ Area(t) \in Zone
  BY <1>1, TakeZone DEF TakePcs
<1>3. /\ p \in Page /\ o \in Order /\ Whole(p, o) /\ <<p, o>> \in Page \X Order
      /\ Hand(t) = F /\ F \subseteq Page /\ \A f \in F : owner[f] = <<"ctx", t>>
  BY <1>1, HandFacts DEF InHand, HandPcs
<1>4. /\ held' = held \cup {<<p, o>>} /\ Moved(F, w)
      /\ UNCHANGED <<free, border, pcp, zn, n, got>>
  BY DEF rmqueue_done, zone_vars
<1>5. Hand(t)' = Hand(t) \ F /\ \A u \in Ctx \ {t} : Hand(u)' = Hand(u)
  <2>1. Hand(t)' = {}
    BY <1>1 DEF Hand, InHand, HandPcs
  <2> QED BY <1>1, <1>3, <2>1, OthersSame
<1>6. OwnerInv'
  <2>1. HeldOwner'
    BY SMTT(20), SMTT(30), <1>3, <1>4, HeldGains DEF OwnerInv
  <2>2. w[1] = "held" /\ Place(w)
    BY <1>3 DEF Place
  <2> HIDE DEF F, w
  <2>3. HandOwner'
    BY <1>3, <1>4, <1>5, <2>2, HandLoses DEF OwnerInv
  <2>4. FreeOwner' /\ PcpOwner' /\ GotOwner'
    BY SMTT(20), SMTT(30), <1>3, <1>4, <2>2, FreeKept, PcpKept, GotKept DEF OwnerInv
  <2>5. Somewhere'
    BY <1>4, <2>2, SomewhereKept DEF OwnerInv
  <2> QED BY <2>1, <2>3, <2>4, <2>5 DEF OwnerInv
<1>7. Control(t)'
  <2>1. pos'[t] = 1 /\ pref'[t] = 1
    BY DEF rmqueue_done, request_done, TypeOK
  <2> QED BY SMTT(20), SMTT(30), <1>1, <1>4, <2>1 DEF ControlInv, Control, TakePcs, GivePcs
<1>8. Ours(t)'
  BY <1>1, <1>4 DEF BlockInv, Ours, InHand, HandPcs, OffPcs, TakePcs, GivePcs
<1>9. IrqInv' /\ LockInv'
  BY <1>1, <1>2, <1>4, IrqRestore, LockDrop DEF rmqueue_done, OffPcs, TakePcs, GivePcs, LockPcs
<1>10. ApartInv'
  BY <1>1, <1>4, ApartLess
<1> QED BY SMTT(20), SMTT(30), <1>1, <1>3, <1>4, <1>6, <1>7, <1>8, <1>9, <1>10, CoreStep

-----------------------------------------------------------------------------
(***************************************************************************)
(* The steps that free.                                                    *)
(***************************************************************************)
\* __free_pages() takes the block from its user.
LEMMA FreePages ==
  ASSUME IInv, NEW t \in Ctx, NEW b \in held, free_pages(t, b)
  PROVE  Others(t) /\ Core'
<1> USE DEF IInv, Core
<1> DEFINE F == Frames(b[1], b[2])
           w == <<"ctx", t>>
<1>1. Others(t) /\ pc[t] = "idle" /\ blk'[t] = b /\ pc'[t] \in {"free_pcp", "free_buddy"}
      /\ (pc'[t] = "free_pcp" => b[2] = 0)
  BY DEF free_pages, At, Goto, request, Others, TypeOK
<1>2. b \in Page \X Order /\ b[1] \in Page /\ b[2] \in Order /\ Whole(b[1], b[2]) /\ F \subseteq Page
  BY DEF TypeOK, BlockInv, Frames
<1>3. \A f \in F : owner[f] = <<"held", b>>
  BY <1>2 DEF OwnerInv, HeldOwner
<1>4. /\ held' = held \ {b} /\ Moved(F, w)
      /\ UNCHANGED <<free, border, zlock, pcp, irq_off, cpu, pos, nid, pref, want, zn, n, got>>
  BY DEF free_pages, request, zone_vars
<1>5. Hand(t)' = Hand(t) \cup F /\ \A u \in Ctx \ {t} : Hand(u)' = Hand(u)
  <2>1. Hand(t) = {} /\ Hand(t)' = F
    BY <1>1 DEF Hand, InHand, HandPcs, Frames
  <2> QED BY <1>1, <2>1, OthersSame
<1>6. OwnerInv'
  <2>1. HeldOwner'
    BY SMTT(20), SMTT(30), <1>2, <1>4, HeldLoses DEF OwnerInv
  <2> HIDE DEF F
  <2>2. HandOwner'
    BY SMTT(20), SMTT(30), <1>2, <1>3, <1>4, <1>5, HandGains DEF OwnerInv
  <2>3. FreeOwner' /\ PcpOwner' /\ GotOwner'
    BY SMTT(20), SMTT(30), <1>3, <1>4, FreeKept, PcpKept, GotKept DEF OwnerInv
  <2>4. Somewhere'
    BY <1>4, SomewhereKept DEF OwnerInv, Place
  <2> QED BY <2>1, <2>2, <2>3, <2>4 DEF OwnerInv
<1>7. Control(t)'
  BY <1>1, <1>4 DEF ControlInv, Control, zonelist, TakePcs, GivePcs
<1>8. Ours(t)'
  BY <1>1, <1>2, <1>4 DEF BlockInv, Ours, OffPcs, TakePcs, GivePcs, Whole, Frames
<1>9. IrqInv' /\ LockInv'
  BY <1>1, <1>4, IrqSame, LockSame DEF OffPcs, TakePcs, GivePcs, LockPcs
<1>10. ApartInv'
  BY <1>1, <1>4, ApartLess
<1> QED BY <1>1, <1>4, <1>6, <1>7, <1>8, <1>9, <1>10, CoreStep

\* A context that drains a page set finds pages of its zone only.
LEMMA GatherZone ==
  ASSUME IInv, NEW t \in Ctx, pc[t] = "gather", NEW q \in pcp[my_pcp(t, zn[t])].list
  PROVE  ZoneOf[q] = zn[t]
<1> DEFINE s == my_pcp(t, zn[t])
<1>1. Area(t) = zn[t] /\ zn[t] \in Zone /\ cpu[t] \in CPU /\ s \in PageSet
  BY SetFacts DEF OffPcs, GivePcs, Area, TakePcs
<1>2. q \in Page /\ ZoneOf[q] \in Zone
  BY <1>1, PageAssumption DEF IInv, TypeOK
<1>3. pageset[ZoneOf[q]] = pageset[zn[t]]
  BY <1>1 DEF IInv, PcpZone, my_pcp
<1>4. CASE pageset[zn[t]] # "boot"
  BY <1>1, <1>2, <1>3, <1>4, ListAssumption DEF IInv, PcpInv
<1>5. CASE pageset[zn[t]] = "boot"
  <2>1. PICK u \in Ctx : Uses(u, s) /\ ZoneOf[q] = Area(u)
    BY <1>1, <1>5 DEF IInv, PcpZone, my_pcp
  <2>2. cpu[u] = cpu[t]
    BY <2>1 DEF Uses, my_pcp
  <2>3. u = t
    BY SMTT(20), SMTT(30), <1>1, <2>2 DEF IInv, Core, IrqInv
  <2> QED BY <1>1, <2>1, <2>3
<1> QED BY <1>4, <1>5

\* free_unref_page_commit() puts the page on the page set of the CPU.
LEMMA Commit ==
  ASSUME IInv, NEW t \in Ctx, NEW c \in CPU, free_unref_page_commit(t, c)
  PROVE  Others(t) /\ Core'
<1> USE DEF IInv, Core
<1> DEFINE q == blk[t][1]
           s == <<c, pageset[ZoneOf[q]]>>
           w == <<"pcp", s>>
           full == pcp[s].count + 1 >= pcp[s].high
<1>1. Others(t) /\ pc[t] = "free_pcp" /\ pc'[t] = IF full THEN "gather" ELSE "idle"
  BY DEF free_unref_page_commit, At, Goto, request, Others, TypeOK
<1>2. q \in Page /\ blk[t][2] = 0 /\ Hand(t) = {q} /\ owner[q] = <<"ctx", t>>
  <2>1. q \in Page /\ blk[t][2] = 0 /\ Hand(t) = Frames(q, blk[t][2])
        /\ \A f \in Hand(t) : owner[f] = <<"ctx", t>>
    BY <1>1, HandFacts DEF InHand, HandPcs, ControlInv, Control
  <2>2. Frames(q, 0) = {q}
    BY SMTT(20), SMTT(30), <2>1, FirstFrame, OrderAssumption DEF Order
  <2> QED BY <2>1, <2>2
<1>3. ZoneOf[q] \in Zone /\ s \in PageSet
  BY <1>2, PageAssumption DEF TypeOK, PageSet
<1>4. /\ pcp' = [pcp EXCEPT ![s].list = @ \cup {q}, ![s].count = @ + 1] /\ Moved({q}, w)
      /\ irq_off[c] = None
      /\ irq_off' = [irq_off EXCEPT ![c] = IF full THEN t ELSE None]
      /\ cpu' = [cpu EXCEPT ![t] = IF full THEN c ELSE None]
      /\ zn' = [zn EXCEPT ![t] = IF full THEN ZoneOf[q] ELSE None]
      /\ n' = [n EXCEPT ![t] = IF full THEN pcp[s].batch ELSE 0]
      /\ UNCHANGED <<free, border, zlock, held, pos, nid, pref, want, got>>
  BY DEF free_unref_page_commit, request, zone_vars
<1> HIDE DEF q, s, w, full
<1>5. pcp'[s].list = pcp[s].list \cup {q} /\ \A r \in PageSet \ {s} : pcp'[r].list = pcp[r].list
  BY <1>3, <1>4 DEF TypeOK
<1>6. OwnerInv'
  <2>1. PcpOwner'
    <3>1. {q} \subseteq Page /\ \A f \in {q} : owner[f][1] # "pcp"
      BY SMTT(20), SMTT(30), <1>2
    <3>2. Moved({q}, <<"pcp", s>>)
      BY <1>4 DEF w
    <3> QED BY <1>3, <1>5, <3>1, <3>2, PcpGains DEF OwnerInv
  <2>2. HandOwner'
    <3>1. Hand(t)' = {}
      BY <1>1 DEF Hand, InHand, HandPcs
    <3>2. Hand(t)' = Hand(t) \ {q} /\ \A u \in Ctx \ {t} : Hand(u)' = Hand(u)
      BY <1>1, <1>2, <3>1, OthersSame
    <3> QED BY <3>2, <1>2, <1>4, HandLoses DEF OwnerInv, w
  <2>3. FreeOwner' /\ HeldOwner' /\ GotOwner'
    BY SMTT(20), SMTT(30), <1>2, <1>4, FreeKept, HeldKept, GotKept DEF OwnerInv, w
  <2>4. Somewhere'
    BY <1>3, <1>4, SomewhereKept DEF OwnerInv, Place, w
  <2> QED BY <2>1, <2>2, <2>3, <2>4 DEF OwnerInv
<1>7. Control(t)'
  BY <1>1, <1>3, <1>4 DEF TypeOK, ControlInv, Control, zonelist, TakePcs, GivePcs
<1>8. Ours(t)'
  BY <1>1, <1>4 DEF ControlInv, Control, BlockInv, Ours, InHand, HandPcs
<1>9. IrqInv'
  <2>1. CASE full
    BY <2>1, <1>1, <1>4, IrqSave DEF local_irq_save, OffPcs, TakePcs, GivePcs
  <2>2. CASE ~full
    <3>1. cpu[t] = None
      BY <1>1 DEF IrqInv, OffPcs, TakePcs, GivePcs
    <3>2. irq_off' = [irq_off EXCEPT ![c] = None] /\ cpu' = [cpu EXCEPT ![t] = None]
      BY <2>2, <1>4
    <3>3. irq_off' = irq_off /\ cpu' = cpu
      BY SMTT(20), SMTT(30), <1>4, <3>1, <3>2 DEF TypeOK
    <3> QED BY <2>2, <3>3, <1>1, IrqSame DEF OffPcs, TakePcs, GivePcs
  <2> QED BY <2>1, <2>2
<1>10. LockInv'
  BY <1>1, <1>4, LockSame DEF LockPcs
<1>11. ApartInv'
  BY <1>1, <1>4, ApartLess
<1> QED BY <1>1, <1>4, <1>6, <1>7, <1>8, <1>9, <1>10, <1>11, CoreStep

\* free_pcppages_bulk() gathers a page.
LEMMA Gather ==
  ASSUME IInv, NEW t \in Ctx, gather(t)
  PROVE  Others(t) /\ Core'
<1> USE DEF IInv, Core
<1> DEFINE s == my_pcp(t, zn[t])
           w == <<"got", t>>
<1>1. Others(t) /\ pc[t] = "gather" /\ pc' = pc
  BY DEF gather, At, request, Others, TypeOK
<1>2. Area(t) = zn[t] /\ s \in PageSet
  BY <1>1, SetFacts DEF OffPcs, GivePcs, Area, TakePcs
<1>3. PICK q \in pcp[s].list :
        /\ pcp' = [pcp EXCEPT ![s].list = @ \ {q}, ![s].count = @ - 1]
        /\ got' = [got EXCEPT ![t] = @ \cup {q}]
        /\ Moved({q}, <<"got", t>>)
  BY DEF gather
<1>4. UNCHANGED <<free, border, zlock, irq_off, held, cpu, pos, nid, pref, want, blk, zn>>
  BY DEF gather, request, zone_vars
<1> HIDE DEF s
<1>5. q \in Page /\ owner[q] = <<"pcp", s>> /\ ZoneOf[q] = zn[t]
  <2>1. q \in Page /\ owner[q] = <<"pcp", s>>
    BY <1>2 DEF TypeOK, OwnerInv, PcpOwner
  <2> QED BY <2>1, <1>1, <1>2, GatherZone DEF s
<1>6. /\ pcp'[s].list = pcp[s].list \ {q} /\ \A r \in PageSet \ {s} : pcp'[r].list = pcp[r].list
      /\ got'[t] = got[t] \cup {q} /\ \A u \in Ctx \ {t} : got'[u] = got[u]
  BY <1>2, <1>3 DEF TypeOK
<1>7. \A u \in Ctx : Hand(u)' = Hand(u)
  BY <1>1, <1>4 DEF Hand, InHand
<1>8. OwnerInv'
  <2>1. PcpOwner'
    BY <1>2, <1>3, <1>6, PcpLoses DEF OwnerInv
  <2>2. GotOwner'
    BY SMTT(20), SMTT(30), <1>3, <1>5, <1>6, GotGains DEF OwnerInv
  <2>3. FreeOwner' /\ HeldOwner' /\ HandOwner'
    BY SMTT(20), SMTT(30), <1>3, <1>4, <1>5, <1>7, FreeKept, HeldKept, HandKept DEF OwnerInv
  <2>4. Somewhere'
    BY <1>3, SomewhereKept DEF OwnerInv, Place
  <2> QED BY <2>1, <2>2, <2>3, <2>4 DEF OwnerInv
<1>9. Control(t)'
  BY <1>1, <1>4 DEF ControlInv, Control, zonelist
<1>10. Ours(t)'
  BY <1>1, <1>4, <1>5, <1>6 DEF BlockInv, Ours, InHand, HandPcs
<1>11. IrqInv' /\ LockInv'
  BY <1>1, <1>4, IrqSame, LockSame DEF LockPcs
<1>12. ApartInv'
  BY <1>1, <1>4, ApartLess
<1> QED BY <1>1, <1>4, <1>8, <1>9, <1>10, <1>11, <1>12, CoreStep

\* ... and goes on with one of those it has gathered.
LEMMA DrainNext ==
  ASSUME IInv, NEW t \in Ctx, drain_next(t)
  PROVE  Others(t) /\ Core'
<1> USE DEF IInv, Core
<1> DEFINE w == <<"ctx", t>>
<1>1. Others(t) /\ pc[t] = "drain" /\ pc'[t] = "drain_merge"
  BY DEF drain_next, At, Goto, request, Others, TypeOK
<1>2. PICK q \in got[t] :
        /\ got' = [got EXCEPT ![t] = @ \ {q}]
        /\ blk' = [blk EXCEPT ![t] = <<q, 0>>]
        /\ Moved({q}, <<"ctx", t>>)
  BY DEF drain_next
<1>3. UNCHANGED <<free, border, zlock, pcp, irq_off, held, cpu, pos, nid, pref, want, zn, n>>
  BY DEF drain_next, request, zone_vars
<1>4. /\ q \in Page /\ owner[q] = <<"got", t>> /\ ZoneOf[q] = zn[t] /\ Whole(q, 0)
      /\ Frames(q, 0) = {q}
  BY FirstFrame, FrameWhole DEF TypeOK, OwnerInv, GotOwner, BlockInv, Ours
<1>5. blk'[t] = <<q, 0>> /\ got'[t] = got[t] \ {q} /\ \A u \in Ctx \ {t} : got'[u] = got[u]
  BY <1>2 DEF TypeOK
<1>6. Hand(t)' = Hand(t) \cup {q} /\ \A u \in Ctx \ {t} : Hand(u)' = Hand(u)
  <2>1. Hand(t) = {} /\ Hand(t)' = {q}
    BY SMTT(20), SMTT(30), <1>1, <1>4, <1>5 DEF Hand, InHand, HandPcs, Frames
  <2> QED BY <1>1, <2>1, OthersSame
<1>7. OwnerInv'
  <2>1. GotOwner'
    BY <1>2, <1>5, GotLoses DEF OwnerInv
  <2>2. HandOwner'
    BY SMTT(20), SMTT(30), <1>2, <1>4, <1>6, HandGains DEF OwnerInv
  <2>3. FreeOwner' /\ HeldOwner' /\ PcpOwner'
    BY SMTT(20), SMTT(30), <1>2, <1>3, <1>4, FreeKept, HeldKept, PcpKept DEF OwnerInv
  <2>4. Somewhere'
    BY <1>2, SomewhereKept DEF OwnerInv, Place
  <2> QED BY <2>1, <2>2, <2>3, <2>4 DEF OwnerInv
<1>8. Control(t)'
  BY <1>1, <1>3 DEF ControlInv, Control, zonelist, TakePcs, GivePcs
<1>9. Ours(t)'
  BY SMTT(20), SMTT(30), <1>1, <1>3, <1>4, <1>5 DEF BlockInv, Ours, Whole, Frames, Area, TakePcs
<1>10. IrqInv' /\ LockInv'
  BY <1>1, <1>3, IrqSame, LockSame DEF OffPcs, GivePcs, LockPcs, Area, TakePcs
<1>11. ApartInv'
  BY <1>1, <1>3, ApartLess
<1> QED BY <1>1, <1>3, <1>7, <1>8, <1>9, <1>10, <1>11, CoreStep

\* One iteration of __free_one_page().
LEMMA Merge ==
  ASSUME IInv, NEW t \in Ctx, merge(t)
  PROVE  /\ Others(t) /\ Core' /\ blk'[t] \in Block
         /\ \E z \in Zone, o \in Order : \E b \in free[z][o] : Leaves(z, o, b)
<1> USE DEF IInv, Core
<1> DEFINE p == blk[t][1]
           o == blk[t][2]
           b == find_buddy_pfn(p, o)
           q == IF b < p THEN b ELSE p
           F == Frames(b, o)
           w == <<"ctx", t>>
<1>1. Others(t) /\ pc[t] \in {"merge", "drain_merge"} /\ pc' = pc
  BY DEF merge, request, Others, TypeOK
<1>2. Area(t) = zn[t] /\ zn[t] \in Zone
  BY <1>1 DEF Area, ControlInv, Control, TakePcs, GivePcs
<1>3. /\ p \in Page /\ o \in Order /\ Whole(p, o) /\ ZoneOf[p] = zn[t] /\ Hand(t) = Frames(p, o)
  BY <1>1, <1>2, HandFacts DEF InHand, HandPcs, OffPcs, GivePcs
<1>4. o < MAX_ORDER - 1 /\ b \in Page /\ border[b] = o /\ ZoneOf[b] = ZoneOf[p]
  BY DEF merge, CanMerge, page_is_buddy
<1>5. b \in free[zn[t]][o] /\ Whole(b, o) /\ \A z \in Zone : b \in free[z][o] => z = zn[t]
  <2> HIDE DEF p, o, b, q, F, w
  <2>1. PICK z \in Zone : b \in free[z][o]
    BY <1>3, <1>4 DEF ListInv
  <2>2. \A y \in Zone : b \in free[y][o] => Whole(b, o) /\ ZoneOf[b] = y
    BY <1>3 DEF BlockInv
  <2> QED BY <1>3, <1>4, <2>1, <2>2
<1>6. /\ o + 1 \in Order /\ q \in Page /\ ZoneOf[q] = ZoneOf[p] /\ Whole(q, o + 1)
      /\ Frames(q, o + 1) = Frames(p, o) \cup F
  BY <1>3, <1>4, <1>5, MergeWhole
<1>7. /\ free' = [z \in Zone |-> [free[z] EXCEPT ![o] = @ \ {b}]]
      /\ border' = [border EXCEPT ![b] = -1]
      /\ blk' = [blk EXCEPT ![t] = <<q, o + 1>>] /\ Moved(F, w)
      /\ UNCHANGED <<zlock, pcp, irq_off, held, cpu, pos, nid, pref, want, zn, n, got>>
  BY DEF merge, request
<1>8. F \subseteq Page /\ \A f \in F : owner[f] = <<"free", zn[t], b, o>>
  <2>1. FreeOwner
    BY DEF OwnerInv
  <2> HIDE DEF IInv, Core, p, o, b, q, w
  <2>2. F \subseteq Page
    BY <1>3, <1>4, FirstFrame
  <2>3. \A f \in Page : f \in Frames(b, o) => owner[f] = <<"free", zn[t], b, o>>
    BY SMTT(20), SMTT(30), <1>2, <1>3, <1>4, <1>5, <2>1 DEF FreeOwner
  <2> QED BY <2>2, <2>3
<1> HIDE DEF p, o, b, q, F
<1>9. /\ free \in [Zone -> [Order -> SUBSET Page]] /\ blk'[t] = <<q, o + 1>>
      /\ free'[zn[t]][o] = free[zn[t]][o] \ {b} /\ Elsewhere(zn[t], o)
      /\ \A y \in Zone, i \in Order : free'[y][i] \subseteq free[y][i]
  <2>1. free \in [Zone -> [Order -> SUBSET Page]] /\ blk'[t] = <<q, o + 1>>
    BY <1>7 DEF TypeOK
  <2>2. \A y \in Zone : /\ free'[y][o] = free[y][o] \ {b}
                        /\ \A i \in Order : i # o => free'[y][i] = free[y][i]
    BY <1>3, <1>7, <2>1
  <2>3. ASSUME NEW y \in Zone, y # zn[t]
        PROVE  free'[y][o] = free[y][o]
    <3>1. b \notin free[y][o]
      BY <1>5, <2>3
    <3>2. free[y][o] \ {b} = free[y][o]
      BY <3>1
    <3> QED BY <2>2, <3>2
  <2> QED BY <2>1, <2>2, <2>3, <1>2, <1>3 DEF Elsewhere
<1>10. Hand(t)' = Hand(t) \cup F /\ \A u \in Ctx \ {t} : Hand(u)' = Hand(u)
  <2>1. Hand(t)' = Frames(q, o + 1)
    BY SMTT(20), SMTT(30), <1>1, <1>9 DEF Hand, InHand, HandPcs, Frames
  <2> QED BY <1>1, <1>3, <1>6, <2>1, OthersSame
<1>11. OwnerInv'
  <2>1. FreeOwner'
    BY <1>2, <1>3, <1>5, <1>7, <1>9, FreeLoses DEF OwnerInv, F
  <2>2. HandOwner'
    BY SMTT(20), SMTT(30), <1>7, <1>8, <1>10, HandGains DEF OwnerInv
  <2>3. PcpOwner' /\ HeldOwner' /\ GotOwner'
    BY SMTT(20), SMTT(30), <1>7, <1>8, PcpKept, HeldKept, GotKept DEF OwnerInv
  <2>4. Somewhere'
    BY <1>7, SomewhereKept DEF OwnerInv, Place
  <2> QED BY <2>1, <2>2, <2>3, <2>4 DEF OwnerInv
<1>12. Control(t)'
  BY <1>1, <1>7 DEF ControlInv, Control, zonelist
<1>13. Area(t)' = Area(t)
  BY <1>1, <1>7 DEF Area, zone, zonelist
<1>14. Ours(t)'
  <2>1. Ours(t) /\ blk'[t][1] = q /\ blk'[t][2] = o + 1
    BY SMTT(20), SMTT(30), <1>9 DEF BlockInv
  <2> QED BY <2>1, <1>2, <1>3, <1>6, <1>7, <1>13 DEF Ours, Whole, Frames
<1>15. IrqInv' /\ LockInv'
  BY <1>1, <1>7, <1>13, IrqSame, LockSame
<1>16. ApartInv'
  <2>1. \A x \in Page : border'[x] = border[x] \/ border'[x] = -1
    BY <1>7 DEF TypeOK
  <2> QED BY <1>1, <1>9, <2>1, ApartLess
<1>17. Core'
  BY <1>1, <1>7, <1>9, <1>11, <1>12, <1>14, <1>15, <1>16, CoreStep
<1>18. blk'[t] \in Block
  BY SMTT(20), SMTT(30), <1>6, <1>9, PageAssumption DEF Block
<1>19. Leaves(zn[t], o, b)
  <2>1. free' \in [Zone -> [Order -> SUBSET Page]]
    <3>1. ASSUME NEW y \in Zone
          PROVE  [free[y] EXCEPT ![o] = @ \ {b}] \in [Order -> SUBSET Page]
      <4>1. free[y] \in [Order -> SUBSET Page]
        BY <1>9
      <4>2. free[y][o] \ {b} \in SUBSET Page
        BY <1>3, <4>1
      <4> QED BY <4>1, <4>2
    <3> QED BY <1>7, <3>1
  <2>2. nr_free' = [nr_free EXCEPT ![zn[t]][o] = @ - 1]
    BY DEF merge, o
  <2> QED BY <1>7, <1>9, <2>1, <2>2 DEF Leaves
<1> QED BY <1>1, <1>2, <1>3, <1>5, <1>17, <1>18, <1>19

\* done_merging: the block becomes free.
LEMMA MergeDone ==
  ASSUME IInv, NEW t \in Ctx, merge_done(t)
  PROVE  /\ Others(t) /\ Core'
         /\ \E z \in Zone, o \in Order, p \in Page : Joins(z, o, p) /\ owner[p] = <<"ctx", t>>
<1> USE DEF IInv, Core
<1> DEFINE p == blk[t][1]
           o == blk[t][2]
           z == zn[t]
           F == Frames(p, o)
           w == <<"free", z, p, o>>
<1>1. /\ Others(t) /\ pc[t] \in {"add", "drain_add"}
      /\ pc'[t] = IF pc[t] = "add" THEN "idle" ELSE "drain"
  BY DEF merge_done, At, Goto, local_irq_restore, request, Others, TypeOK
<1>2. Area(t) = z /\ z \in Zone
  BY <1>1 DEF Area, ControlInv, Control, TakePcs, GivePcs
<1>3. /\ p \in Page /\ o \in Order /\ Whole(p, o) /\ ZoneOf[p] = z
      /\ Hand(t) = F /\ \A f \in F : owner[f] = <<"ctx", t>>
  BY <1>1, <1>2, HandFacts DEF InHand, HandPcs, OffPcs, GivePcs
<1>4. /\ free' = [free EXCEPT ![z][o] = @ \cup {p}] /\ border' = [border EXCEPT ![p] = o]
      /\ Moved(F, w)
      /\ UNCHANGED <<pcp, held, pos, nid, pref, want, n, got>>
  BY DEF merge_done, request
<1> HIDE DEF p, o, z, w, F
<1>5. /\ free \in [Zone -> [Order -> SUBSET Page]]
      /\ free'[z][o] = free[z][o] \cup {p} /\ Elsewhere(z, o)
  BY <1>2, <1>3, <1>4 DEF TypeOK, Elsewhere
<1>6. OwnerInv'
  <2>1. FreeOwner'
    <3>1. \A f \in F : owner[f][1] # "free"
      BY SMTT(20), SMTT(30), <1>3
    <3> QED BY <3>1, <1>2, <1>3, <1>4, <1>5, FreeGains DEF OwnerInv, F, w
  <2>2. HandOwner'
    <3>1. Hand(t)' = {}
      BY <1>1 DEF Hand, InHand, HandPcs
    <3>2. Hand(t)' = Hand(t) \ F /\ \A u \in Ctx \ {t} : Hand(u)' = Hand(u)
      BY <1>1, <1>3, <3>1, OthersSame
    <3> QED BY <3>2, <1>3, <1>4, HandLoses DEF OwnerInv, w
  <2>3. PcpOwner' /\ HeldOwner' /\ GotOwner'
    BY SMTT(20), SMTT(30), <1>3, <1>4, PcpKept, HeldKept, GotKept DEF OwnerInv, w
  <2>4. Somewhere'
    BY <1>2, <1>3, <1>4, SomewhereKept DEF OwnerInv, Place, w
  <2> QED BY <2>1, <2>2, <2>3, <2>4 DEF OwnerInv
<1>7. Control(t)'
  BY <1>1, <1>4 DEF merge_done, At, TypeOK, ControlInv, Control, zonelist, TakePcs, GivePcs
<1>8. Ours(t)'
  <2>1. ~InHand(t)' /\ (pc[t] = "add" => got[t] = {})
    BY <1>1 DEF InHand, HandPcs, ControlInv, Control
  <2> QED BY <1>1, <1>4, <2>1 DEF merge_done, At, BlockInv, Ours
<1>9. IrqInv' /\ LockInv'
  <2>1. CASE pc[t] = "add"
    BY <2>1, <1>1, <1>2, IrqRestore, LockDrop
       DEF merge_done, At, z, OffPcs, TakePcs, GivePcs, LockPcs
  <2>2. CASE pc[t] = "drain_add"
    BY <2>2, <1>1, <1>2, IrqSame, LockSame
       DEF merge_done, At, OffPcs, GivePcs, LockPcs, Area, TakePcs
  <2> QED BY <1>1, <2>1, <2>2
<1>10. ApartInv'
  <2>1. o < MAX_ORDER - 1 => find_buddy_pfn(p, o) \notin free[z][o]
    <3>1. ~CanMerge(p, o)
      BY <1>1 DEF ApartInv, p, o
    <3>2. \A x \in free[z][o] : x \in Page /\ border[x] = o /\ ZoneOf[x] = z
      <4>1. free[z][o] \subseteq Page
        BY <1>2, <1>3, <1>5
      <4>2. \A x \in free[z][o] : border[x] = o
        BY <1>2, <1>3, <4>1 DEF ListInv
      <4>3. \A x \in free[z][o] : ZoneOf[x] = z
        BY <1>2, <1>3 DEF BlockInv
      <4> QED BY <4>1, <4>2, <4>3
    <3> QED BY <1>3, <3>1, <3>2 DEF CanMerge, page_is_buddy
  <2>2. pc[t] \in LockPcs /\ pc'[t] \notin {"add", "drain_add"}
    BY <1>1 DEF LockPcs
  <2> QED BY <2>1, <2>2, <1>1, <1>2, <1>3, <1>4, ApartMore
<1>11. \A y \in Zone, i \in Order : \A x \in free'[y][i] :
         x \in free[y][i] \/ (Whole(x, i) /\ ZoneOf[x] = y)
  BY SMTT(20), SMTT(30), <1>3, <1>5 DEF Elsewhere
<1>12. Core'
  BY <1>1, <1>4, <1>6, <1>7, <1>8, <1>9, <1>10, <1>11, CoreStep
<1>13. owner[p] = <<"ctx", t>>
  BY <1>3, FirstFrame DEF F
<1>14. Joins(z, o, p)
  <2>1. free' \in [Zone -> [Order -> SUBSET Page]]
    BY <1>2, <1>3, <1>4, <1>5
  <2>2. nr_free' = [nr_free EXCEPT ![z][o] = @ + 1]
    BY DEF merge_done, z, o
  <2> QED BY <1>4, <1>5, <2>1, <2>2 DEF Joins
<1> QED BY <1>1, <1>2, <1>3, <1>12, <1>13, <1>14
=============================================================================
