--------------------------- MODULE PageAllocProofs ---------------------------
(***************************************************************************)
(* IInv is an invariant of Spec, and the properties of PageAlloc follow.   *)
(***************************************************************************)
EXTENDS PageAllocSteps, PageAllocSets

\* The first-order prover does most steps; those with arithmetic, or that take
\* tuples or records apart, name the SMT solver.
USE ZenonT(60)

-----------------------------------------------------------------------------
(***************************************************************************)
(* The invariant.                                                          *)
(***************************************************************************)
\* Every step keeps the invariant.
LEMMA NextIInv == IInv /\ [Next]_vars => IInv'
<1> SUFFICES ASSUME IInv, [Next]_vars
             PROVE  IInv'
  OBVIOUS
<1>1. CASE UNCHANGED vars
  BY <1>1, StutterKeeps
<1>2. ASSUME NEW z \in Zone, setup_zone_pageset(z)
      PROVE  IInv'
  BY <1>2, SetupKeeps, FS_EmptySet
<1>3. ASSUME NEW t \in Ctx, Call(t)
      PROVE  Core' /\ Rest'
  <2>1. ASSUME NEW x \in Node, NEW o \in Order, NEW z \in Zone, alloc_pages(t, x, o, ZoneIdx[z])
        PROVE  Core' /\ Rest'
    BY <2>1, AllocPages, AllocPagesRest
  <2>2. ASSUME NEW b \in held, free_pages(t, b)
        PROVE  Core' /\ Rest'
    BY <2>2, FreePages, FreePagesRest
  <2> QED BY <1>3, <2>1, <2>2 DEF Call
<1>4. ASSUME NEW t \in Ctx, Progress(t)
      PROVE  Core' /\ Rest'
  <2>1. CASE slowpath(t)
    BY <2>1, Slowpath, SlowpathRest
  <2>2. CASE remote_zone(t)
    BY <2>2, RemoteZone, RemoteZoneRest
  <2>3. ASSUME NEW p \in CPU, rmqueue_pcplist(t, p)
        PROVE  Core' /\ Rest'
    BY <2>3, RmqueuePcplist, RmqueuePcplistRest
  <2>4. ASSUME NEW p \in CPU, rmqueue(t, p)
        PROVE  Core' /\ Rest'
    BY <2>4, Rmqueue, RmqueueRest
  <2>5. ASSUME NEW p \in CPU, rmqueue_fail(t, p)
        PROVE  Core' /\ Rest'
    BY <2>5, RmqueueFail, RmqueueFailRest
  <2>6. ASSUME NEW p \in CPU, free_unref_page_commit(t, p)
        PROVE  Core' /\ Rest'
    BY <2>6, Commit, CommitRest
  <2>7. ASSUME NEW p \in CPU, free_one_page(t, p)
        PROVE  Core' /\ Rest'
    BY <2>7, FreeOnePage, FreeOnePageRest
  <2>8. CASE rmqueue_bulk(t)
    BY <2>8, RmqueueBulk, RmqueueBulkRest
  <2>9. CASE bulk_take(t)
    BY <2>9, BulkTake, BulkTakeRest
  <2>10. CASE bulk_done(t)
    BY <2>10, BulkDone, BulkDoneRest
  <2>11. CASE bulk_add(t)
    BY <2>11, BulkAdd, BulkAddRest
  <2>12. CASE expand(t)
    BY <2>12, Expand, ExpandRest
  <2>13. CASE pcp_take(t)
    BY <2>13, PcpTake, PcpTakeRest
  <2>14. CASE pcp_fail(t)
    BY <2>14, PcpFail, PcpFailRest
  <2>15. CASE rmqueue_done(t)
    BY <2>15, RmqueueDone, RmqueueDoneRest
  <2>16. CASE gather(t)
    BY <2>16, Gather, GatherRest
  <2>17. CASE drain_lock(t)
    BY <2>17, DrainLock, DrainLockRest
  <2>18. CASE drain_next(t)
    BY <2>18, DrainNext, DrainNextRest
  <2>19. CASE drain_done(t)
    BY <2>19, DrainDone, DrainDoneRest
  <2>20. CASE merge(t)
    BY <2>20, Merge, MergeRest
  <2>21. CASE merge_stop(t)
    BY <2>21, MergeStop, MergeStopRest
  <2>22. CASE merge_done(t)
    BY <2>22, MergeDone, MergeDoneRest
  <2> QED BY <1>4, <2>1, <2>2, <2>3, <2>4, <2>5, <2>6, <2>7, <2>8, <2>9, <2>10, <2>11, <2>12,
             <2>13, <2>14, <2>15, <2>16, <2>17, <2>18, <2>19, <2>20, <2>21, <2>22 DEF Progress
<1>5. Core' /\ Rest' => IInv'
  BY DEF IInv, Rest
<1> QED BY <1>1, <1>2, <1>3, <1>4, <1>5 DEF Next

\* The invariant that the properties follow from holds throughout: whatever
\* the contexts do, each frame is at the one place where owner says it is.
THEOREM Invariance == Spec => []IInv
<1>1. Init => IInv
  BY InitIInv, FS_EmptySet
<1> QED BY <1>1, NextIInv, PTL DEF Spec

-----------------------------------------------------------------------------
(***************************************************************************)
(* The properties.                                                         *)
(***************************************************************************)
\* Every variable of the allocator keeps its type; in particular no count
\* of a list or of a page set is ever decremented below zero.
THEOREM TypeOKHolds == Spec => []TypeOK
<1>1. IInv => TypeOK
  BY DEF IInv
<1> QED BY <1>1, Invariance, PTL

\* No page frame has two owners, whatever rmqueue(), expand(), __free_pages()
\* and __free_one_page() do at the same time.
THEOREM NoOverlapHolds == Spec => []NoOverlap
BY OneOwner, Invariance, PTL

\* No page that memblock handed over is ever lost: it is in use, free, on
\* the page set of its zone, or in the hands of a context.
THEOREM NoLeakHolds == Spec => []NoLeak
BY NoneLost, Invariance, PTL

\* The lists of a zone hold blocks of that zone only, aligned and whole.
THEOREM ZonePureHolds == Spec => []ZonePure
BY PureLists, Invariance, PTL

\* The counters say how long the lists are, and the page structures which
\* list a page heads.
THEOREM CountsExactHolds == Spec => []CountsExact
BY CountedLists, Invariance, PTL

\* Two free buddies of one zone never stay apart.
THEOREM CoalescedHolds == Spec => []Coalesced
BY NoFreeBuddies, Invariance, PTL

\* A page set never exceeds its high mark.
THEOREM PcpBelowHighHolds == Spec => []PcpBelowHigh
BY BelowHigh, Invariance, PTL
=============================================================================
