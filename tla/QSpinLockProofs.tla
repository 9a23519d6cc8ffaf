--------------------------- MODULE QSpinLockProofs --------------------------
(***************************************************************************)
(* Proofs about QSpinLock for any number of CPUs, contexts and locks:      *)
(* every step keeps each part of the inductive invariant, and the          *)
(* properties and the refinement of SpinLock follow from it.               *)
(***************************************************************************)
EXTENDS QSpinLockLemmas

-----------------------------------------------------------------------------
(***************************************************************************)
(* The types, the owner of the locked byte and the author of the pending   *)
(* byte.                                                                   *)
(***************************************************************************)

USE DEF MAX_NODES

\* Every step preserves the types.
LEMMA TypeStep ==
  ASSUME TypeOK, EngagedInv, OrderInv, TailInv, LinkInv, FlagInv, NodeInv,
         NEW c \in Ctx, CtxStep(c)
  PROVE  TypeOK'
<1>1. /\ pc[c] \notin {"off", "idle"} => lock[c] \in Locks
      /\ my_node(c) \in Node /\ my_tail(c) \in u16
  BY LocalFacts
<1>2. Unlocked \in WordType /\ 0 \in u16
  BY DEF Unlocked, WordType, u16
<1> USE DEF TypeOK, At, Goto, locals, word, mcs, Pcs, QueuePcs
<1>4. CASE Interrupt(c)
  BY <1>1, <1>2, <1>4 DEF Interrupt
<1>5. CASE InterruptReturn(c)
  BY <1>1, <1>2, <1>5 DEF InterruptReturn
<1>6. ASSUME NEW k \in Locks, queued_spin_trylock(c, k) PROVE TypeOK'
  BY <1>1, <1>2, <1>6 DEF queued_spin_trylock
<1>7. ASSUME NEW k \in Locks, queued_spin_lock(c, k) PROVE TypeOK'
  BY <1>1, <1>2, <1>7 DEF queued_spin_lock, AfterRead
<1>8. CASE spin_pending(c)
  BY <1>1, <1>2, <1>8 DEF spin_pending, AfterRead
<1>9. CASE set_pending(c)
  BY <1>1, <1>2, <1>9 DEF set_pending
<1>10. CASE undo_pending(c)
  BY <1>1, <1>2, <1>10 DEF undo_pending
<1>11. CASE wait_owner(c)
  BY <1>1, <1>2, <1>11 DEF wait_owner
<1>12. CASE clear_pending_set_locked(c)
  BY <1>1, <1>2, <1>12 DEF clear_pending_set_locked
<1>13. CASE grab_mcs_node(c)
  <2>1. count[cpu_of(c)] \in 0 .. MAX_NODES - 1 /\ count' \in [CPU -> Nat]
    BY <1>13, GrabNode DEF MAX_NODES
  <2> QED BY <1>13, <2>1 DEF grab_mcs_node
<1>14. CASE init_node(c)
  BY <1>1, <1>2, <1>14 DEF init_node
<1>15. CASE try_again_won(c)
  BY <1>1, <1>2, <1>15 DEF try_again_won
<1>16. CASE try_again_lost(c)
  BY <1>1, <1>2, <1>16 DEF try_again_lost
<1>17. CASE xchg_tail(c)
  <2>1. prev'[c] \in Node \cup {NULL}
    <3>1. CASE tail[lock[c]] = 0
      BY <1>17, <3>1 DEF xchg_tail
    <3>2. CASE tail[lock[c]] # 0
      <4>1. PICK t \in Ctx : tail[lock[c]] = my_tail(t)
        BY <1>1, <1>17, <3>2 DEF xchg_tail, TailInv
      <4>2. decode_tail(tail[lock[c]]) \in Node
        BY <4>1, LocalFacts
      <4> QED BY <1>17, <3>2, <4>2 DEF xchg_tail
    <3> QED BY <3>1, <3>2
  <2>2. Members(lock[c]) \in SUBSET Ctx
    BY DEF Members
  <2>3. prev' \in [Ctx -> Node \cup {NULL}]
    BY <1>17, <2>1 DEF xchg_tail
  <2>4. tail' \in [Locks -> u16] /\ ahead' \in [Ctx -> SUBSET Ctx]
    BY <1>1, <1>17, <2>2 DEF xchg_tail
  <2> QED BY <1>17, <2>3, <2>4 DEF xchg_tail
<1>18. CASE link_node(c)
  <2>1. prev[c] \in Node
    BY <1>18, LinkQueue
  <2> QED BY <1>1, <1>18, <2>1 DEF link_node
<1>19. CASE mcs_spin_lock_contended(c)
  BY <1>1, <1>2, <1>19 DEF mcs_spin_lock_contended
<1>20. CASE read_next(c)
  BY <1>1, <1>2, <1>20 DEF read_next
<1>21. CASE wait_head_last(c)
  BY <1>1, <1>2, <1>21 DEF wait_head_last, Word, WordType
<1>22. CASE wait_head_first(c)
  BY <1>1, <1>2, <1>22 DEF wait_head_first
<1>23. CASE claim_won(c)
  BY <1>1, <1>2, <1>23 DEF claim_won
<1>24. CASE claim_lost(c)
  BY <1>1, <1>2, <1>24 DEF claim_lost
<1>25. CASE set_locked(c)
  BY <1>1, <1>2, <1>25 DEF set_locked
<1>26. CASE wait_next(c)
  BY <1>1, <1>2, <1>26 DEF wait_next
<1>27. CASE mcs_spin_unlock_contended(c)
  <2>1. next[c] \in Node
    BY <1>27, HandOver
  <2>2. ahead' \in [Ctx -> SUBSET Ctx]
    BY <1>27 DEF mcs_spin_unlock_contended
  <2> QED BY <1>27, <2>1, <2>2 DEF mcs_spin_unlock_contended
<1>28. CASE release_node(c)
  <2>1. count' \in [CPU -> Nat]
    BY <1>28, ReleaseNode
  <2> QED BY <1>28, <2>1 DEF release_node, MAX_NODES
<1>29. CASE queued_spin_unlock(c)
  BY <1>1, <1>2, <1>29 DEF queued_spin_unlock
<1> QED
  BY Zenon, <1>4, <1>5, <1>6, <1>7, <1>8, <1>9, <1>10, <1>11, <1>12, <1>13, <1>14,
     <1>15, <1>16, <1>17, <1>18, <1>19, <1>20, <1>21, <1>22, <1>23, <1>24,
     <1>25, <1>26, <1>27, <1>28, <1>29 DEF CtxStep, queued_spin_lock_slowpath

\* A lock is entered with the first access and left with the unlock.
LEMMA EngagedStep ==
  ASSUME TypeOK, EngagedInv,
         NEW c \in Ctx, CtxStep(c)
  PROVE  EngagedInv'
<1> USE DEF TypeOK, EngagedInv, At, Goto, locals
<1>2. CASE Interrupt(c)
  BY <1>2 DEF Interrupt
<1>3. CASE InterruptReturn(c)
  BY <1>3 DEF InterruptReturn
<1>4. ASSUME NEW k \in Locks, queued_spin_trylock(c, k) PROVE EngagedInv'
  BY <1>4, NullFacts DEF queued_spin_trylock
<1>5. ASSUME NEW k \in Locks, queued_spin_lock(c, k) PROVE EngagedInv'
  BY <1>5, NullFacts DEF queued_spin_lock, AfterRead
<1>6. CASE spin_pending(c)
  BY <1>6 DEF spin_pending, AfterRead
<1>7. CASE set_pending(c)
  BY <1>7 DEF set_pending
<1>8. CASE undo_pending(c)
  BY <1>8 DEF undo_pending
<1>9. CASE wait_owner(c)
  BY <1>9 DEF wait_owner
<1>10. CASE clear_pending_set_locked(c)
  BY <1>10 DEF clear_pending_set_locked
<1>11. CASE grab_mcs_node(c)
  BY <1>11 DEF grab_mcs_node
<1>12. CASE init_node(c)
  BY <1>12 DEF init_node
<1>13. CASE try_again_won(c)
  BY <1>13 DEF try_again_won
<1>14. CASE try_again_lost(c)
  BY <1>14 DEF try_again_lost
<1>15. CASE xchg_tail(c)
  BY <1>15 DEF xchg_tail
<1>16. CASE link_node(c)
  BY <1>16 DEF link_node
<1>17. CASE mcs_spin_lock_contended(c)
  BY <1>17 DEF mcs_spin_lock_contended
<1>18. CASE read_next(c)
  BY <1>18 DEF read_next
<1>19. CASE wait_head_last(c)
  BY <1>19 DEF wait_head_last
<1>20. CASE wait_head_first(c)
  BY <1>20 DEF wait_head_first
<1>21. CASE claim_won(c)
  BY <1>21 DEF claim_won
<1>22. CASE claim_lost(c)
  BY <1>22 DEF claim_lost
<1>23. CASE set_locked(c)
  BY <1>23 DEF set_locked
<1>24. CASE wait_next(c)
  BY <1>24 DEF wait_next
<1>25. CASE mcs_spin_unlock_contended(c)
  BY <1>25 DEF mcs_spin_unlock_contended
<1>26. CASE release_node(c)
  BY <1>26 DEF release_node
<1>27. CASE queued_spin_unlock(c)
  BY <1>27 DEF queued_spin_unlock
<1> QED
  BY <1>2, <1>3, <1>4, <1>5, <1>6, <1>7, <1>8, <1>9, <1>10, <1>11, <1>12,
     <1>13, <1>14, <1>15, <1>16, <1>17, <1>18, <1>19, <1>20, <1>21, <1>22,
     <1>23, <1>24, <1>25, <1>26, <1>27 DEF CtxStep, queued_spin_lock_slowpath

\* What a step changes of the locked and pending bytes, and the lemmas that
\* follow from it.  A step that neither makes nor unmakes an owner:
LEMMA LockedQuiet ==
  ASSUME LockedInv, NEW c \in Ctx, OthersUnchanged(c), UNCHANGED locked,
         pc[c] \in OwnerPcs <=> pc'[c] \in OwnerPcs,
         pc'[c] \in OwnerPcs => lock'[c] = lock[c]
  PROVE  LockedInv'
<1>1. \A d \in Ctx : /\ pc'[d] \in OwnerPcs <=> pc[d] \in OwnerPcs
                     /\ pc[d] \in OwnerPcs => lock'[d] = lock[d]
  BY DEF OthersUnchanged
<1> QED BY <1>1 DEF LockedInv

\* A step that finds the locked byte clear and sets it:
LEMMA LockedTaken ==
  ASSUME TypeOK, EngagedInv, LockedInv, NEW c \in Ctx, OthersUnchanged(c), NEW k \in Locks,
         locked[k] = 0, locked' = [locked EXCEPT ![k] = 1], lock'[c] = k,
         pc[c] \notin OwnerPcs, pc'[c] \in OwnerPcs
  PROVE  LockedInv'
<1>1. \A d \in Ctx : d # c => /\ pc'[d] = pc[d] /\ lock'[d] = lock[d]
                              /\ pc[d] \in OwnerPcs => lock[d] \in Locks /\ lock[d] # k
  BY LocalFacts DEF OthersUnchanged, LockedInv, OwnerPcs
<1>2. \A m \in Locks : locked'[m] = IF m = k THEN 1 ELSE locked[m]
  BY DEF TypeOK
<1>3. \A m \in Locks : locked'[m] = 1 => \E d \in Ctx : lock'[d] = m /\ pc'[d] \in OwnerPcs
  <2> SUFFICES ASSUME NEW m \in Locks, locked'[m] = 1
               PROVE  \E d \in Ctx : lock'[d] = m /\ pc'[d] \in OwnerPcs
    OBVIOUS
  <2>1. CASE m = k
    BY <2>1
  <2>2. CASE m # k
    <3>1. PICK d \in Ctx : lock[d] = m /\ pc[d] \in OwnerPcs
      BY <1>2, <2>2 DEF LockedInv
    <3> QED BY <1>1, <3>1
  <2> QED BY <2>1, <2>2
<1>4. \A d \in Ctx : pc'[d] \in OwnerPcs => locked'[lock'[d]] = 1
  BY <1>1, <1>2 DEF LockedInv
<1>5. \A d, e \in Ctx : (pc'[d] \in OwnerPcs /\ pc'[e] \in OwnerPcs /\ lock'[d] = lock'[e]) => d = e
  BY <1>1 DEF LockedInv
<1> QED BY <1>3, <1>4, <1>5 DEF LockedInv

\* A step by which an owner clears the locked byte:
LEMMA LockedDropped ==
  ASSUME TypeOK, EngagedInv, LockedInv, NEW c \in Ctx, OthersUnchanged(c), lock[c] \in Locks,
         locked' = [locked EXCEPT ![lock[c]] = 0],
         pc[c] \in OwnerPcs, pc'[c] \notin OwnerPcs
  PROVE  LockedInv'
<1>1. \A d \in Ctx : pc'[d] \in OwnerPcs =>
        /\ d # c /\ pc[d] \in OwnerPcs /\ lock'[d] = lock[d] /\ lock[d] # lock[c]
        /\ lock[d] \in Locks
  BY LocalFacts DEF OthersUnchanged, LockedInv, OwnerPcs
<1>2. \A m \in Locks : locked'[m] = IF m = lock[c] THEN 0 ELSE locked[m]
  BY DEF TypeOK
<1>3. \A m \in Locks : locked'[m] = 1 => \E d \in Ctx : lock'[d] = m /\ pc'[d] \in OwnerPcs
  <2> SUFFICES ASSUME NEW m \in Locks, locked'[m] = 1
               PROVE  \E d \in Ctx : lock'[d] = m /\ pc'[d] \in OwnerPcs
    OBVIOUS
  <2>1. PICK d \in Ctx : lock[d] = m /\ pc[d] \in OwnerPcs
    BY <1>2 DEF LockedInv
  <2> QED BY <1>2, <2>1 DEF OthersUnchanged
<1>4. \A d \in Ctx : pc'[d] \in OwnerPcs => locked'[lock'[d]] = 1
  BY <1>1, <1>2 DEF LockedInv
<1>5. \A d, e \in Ctx : (pc'[d] \in OwnerPcs /\ pc'[e] \in OwnerPcs /\ lock'[d] = lock'[e]) => d = e
  BY <1>1 DEF LockedInv
<1> QED BY <1>3, <1>4, <1>5 DEF LockedInv

\* The locked byte is set for its owner alone, through every step.
LEMMA LockedStep ==
  ASSUME TypeOK, EngagedInv, LockedInv, ClaimInv, PendingInv,
         NEW c \in Ctx, CtxStep(c)
  PROVE  LockedInv'
<1>1. OthersUnchanged(c)
  BY OwnLocals
<1>2. pc[c] \notin {"off", "idle"} => lock[c] \in Locks
  BY LocalFacts
<1>3. pc \in [Ctx -> Pcs] /\ lock \in [Ctx -> Locks \cup {NULL}] /\ locked \in [Locks -> 0 .. 1]
  BY DEF TypeOK
<1> USE DEF At, Goto, locals, word, OwnerPcs
<1>4. ASSUME NEW k \in Locks, queued_spin_trylock(c, k) PROVE LockedInv'
  <2>1. locked[k] = 0
    BY <1>4, WordFacts DEF queued_spin_trylock
  <2>2. /\ locked' = [locked EXCEPT ![k] = 1] /\ lock'[c] = k
        /\ pc[c] \notin OwnerPcs /\ pc'[c] \in OwnerPcs
    BY <1>3, <1>4 DEF queued_spin_trylock
  <2> QED BY Zenon, <1>1, <2>1, <2>2, LockedTaken
<1>5. ASSUME NEW k \in Locks, queued_spin_lock(c, k) PROVE LockedInv'
  <2>1. UNCHANGED locked /\ pc[c] \notin OwnerPcs /\ pc'[c] \notin OwnerPcs
    BY <1>3, <1>5 DEF queued_spin_lock, AfterRead
  <2> QED BY <1>1, <2>1, LockedQuiet
<1>6. CASE \/ Interrupt(c) \/ InterruptReturn(c) \/ spin_pending(c) \/ set_pending(c)
          \/ undo_pending(c) \/ wait_owner(c)
  <2>1. UNCHANGED locked /\ pc[c] \notin OwnerPcs /\ pc'[c] \notin OwnerPcs
    BY <1>3, <1>6 DEF Interrupt, InterruptReturn, spin_pending, set_pending, undo_pending,
                      wait_owner, AfterRead
  <2> QED BY <1>1, <2>1, LockedQuiet
<1>7. CASE \/ grab_mcs_node(c) \/ init_node(c) \/ try_again_lost(c) \/ xchg_tail(c)
          \/ link_node(c) \/ mcs_spin_lock_contended(c) \/ read_next(c)
  <2>1. UNCHANGED locked /\ pc[c] \notin OwnerPcs /\ pc'[c] \notin OwnerPcs
    BY <1>3, <1>7 DEF grab_mcs_node, init_node, try_again_lost, xchg_tail, link_node,
                      mcs_spin_lock_contended, read_next
  <2> QED BY <1>1, <2>1, LockedQuiet
<1>8. CASE wait_head_last(c) \/ wait_head_first(c) \/ claim_lost(c)
  <2>1. UNCHANGED locked /\ pc[c] \notin OwnerPcs /\ pc'[c] \notin OwnerPcs
    BY <1>3, <1>8 DEF wait_head_last, wait_head_first, claim_lost
  <2> QED BY <1>1, <2>1, LockedQuiet
<1>9. CASE wait_next(c) \/ mcs_spin_unlock_contended(c) \/ release_node(c)
  <2>1. UNCHANGED <<locked, lock>> /\ pc[c] \in OwnerPcs /\ pc'[c] \in OwnerPcs
    BY <1>3, <1>9 DEF wait_next, mcs_spin_unlock_contended, release_node
  <2> QED BY <1>1, <2>1, LockedQuiet
<1>10. CASE try_again_won(c)
  <2>1. locked[lock[c]] = 0 /\ lock[c] \in Locks
    BY <1>2, <1>10, WordFacts DEF try_again_won
  <2>2. /\ locked' = [locked EXCEPT ![lock[c]] = 1] /\ lock'[c] = lock[c]
        /\ pc[c] \notin OwnerPcs /\ pc'[c] \in OwnerPcs
    BY <1>3, <1>10 DEF try_again_won
  <2> QED BY Zenon, <1>1, <2>1, <2>2, LockedTaken
<1>11. CASE clear_pending_set_locked(c) \/ claim_won(c) \/ set_locked(c)
  <2>1. locked[lock[c]] = 0 /\ lock[c] \in Locks
    BY <1>2, <1>11 DEF clear_pending_set_locked, claim_won, set_locked, ClaimInv
  <2>2. /\ locked' = [locked EXCEPT ![lock[c]] = 1] /\ lock'[c] = lock[c]
        /\ pc[c] \notin OwnerPcs /\ pc'[c] \in OwnerPcs
    BY <1>3, <1>11 DEF clear_pending_set_locked, claim_won, set_locked
  <2> QED BY Zenon, <1>1, <2>1, <2>2, LockedTaken
<1>12. CASE queued_spin_unlock(c)
  <2>1. /\ locked' = [locked EXCEPT ![lock[c]] = 0] /\ lock[c] \in Locks
        /\ pc[c] \in OwnerPcs /\ pc'[c] \notin OwnerPcs
    BY <1>2, <1>3, <1>12 DEF queued_spin_unlock
  <2> QED BY Zenon, <1>1, <2>1, LockedDropped
<1> QED BY <1>4, <1>5, <1>6, <1>7, <1>8, <1>9, <1>10, <1>11, <1>12
           DEF CtxStep, queued_spin_lock_slowpath

\* The same three lemmas for the pending byte and the context that set it.
LEMMA PendingQuiet ==
  ASSUME PendingInv, NEW c \in Ctx, OthersUnchanged(c), UNCHANGED pending,
         pc[c] \in PendingPcs <=> pc'[c] \in PendingPcs,
         pc'[c] \in PendingPcs => lock'[c] = lock[c]
  PROVE  PendingInv'
<1>1. \A d \in Ctx : /\ pc'[d] \in PendingPcs <=> pc[d] \in PendingPcs
                     /\ pc[d] \in PendingPcs => lock'[d] = lock[d]
  BY DEF OthersUnchanged
<1> QED BY <1>1 DEF PendingInv

\* A step that finds the pending byte clear and sets it:
LEMMA PendingTaken ==
  ASSUME TypeOK, EngagedInv, PendingInv, NEW c \in Ctx, OthersUnchanged(c), NEW k \in Locks,
         pending[k] = 0, pending' = [pending EXCEPT ![k] = 1], lock'[c] = k,
         pc[c] \notin PendingPcs, pc'[c] \in PendingPcs
  PROVE  PendingInv'
<1>1. \A d \in Ctx : d # c => /\ pc'[d] = pc[d] /\ lock'[d] = lock[d]
                              /\ pc[d] \in PendingPcs => lock[d] \in Locks /\ lock[d] # k
  BY LocalFacts DEF OthersUnchanged, PendingInv, PendingPcs
<1>2. \A m \in Locks : pending'[m] = IF m = k THEN 1 ELSE pending[m]
  BY DEF TypeOK
<1>3. \A m \in Locks : pending'[m] = 1 => \E d \in Ctx : lock'[d] = m /\ pc'[d] \in PendingPcs
  <2> SUFFICES ASSUME NEW m \in Locks, pending'[m] = 1
               PROVE  \E d \in Ctx : lock'[d] = m /\ pc'[d] \in PendingPcs
    OBVIOUS
  <2>1. CASE m = k
    BY <2>1
  <2>2. CASE m # k
    <3>1. PICK d \in Ctx : lock[d] = m /\ pc[d] \in PendingPcs
      BY <1>2, <2>2 DEF PendingInv
    <3> QED BY <1>1, <3>1
  <2> QED BY <2>1, <2>2
<1>4. \A d \in Ctx : pc'[d] \in PendingPcs => pending'[lock'[d]] = 1
  BY <1>1, <1>2 DEF PendingInv
<1>5. \A d, e \in Ctx : (pc'[d] \in PendingPcs /\ pc'[e] \in PendingPcs /\ lock'[d] = lock'[e]) => d = e
  BY <1>1 DEF PendingInv
<1> QED BY <1>3, <1>4, <1>5 DEF PendingInv

\* A step by which the author of the pending byte clears it:
LEMMA PendingDropped ==
  ASSUME TypeOK, EngagedInv, PendingInv, NEW c \in Ctx, OthersUnchanged(c), lock[c] \in Locks,
         pending' = [pending EXCEPT ![lock[c]] = 0],
         pc[c] \in PendingPcs, pc'[c] \notin PendingPcs
  PROVE  PendingInv'
<1>1. \A d \in Ctx : pc'[d] \in PendingPcs =>
        /\ d # c /\ pc[d] \in PendingPcs /\ lock'[d] = lock[d] /\ lock[d] # lock[c]
        /\ lock[d] \in Locks
  BY LocalFacts DEF OthersUnchanged, PendingInv, PendingPcs
<1>2. \A m \in Locks : pending'[m] = IF m = lock[c] THEN 0 ELSE pending[m]
  BY DEF TypeOK
<1>3. \A m \in Locks : pending'[m] = 1 => \E d \in Ctx : lock'[d] = m /\ pc'[d] \in PendingPcs
  <2> SUFFICES ASSUME NEW m \in Locks, pending'[m] = 1
               PROVE  \E d \in Ctx : lock'[d] = m /\ pc'[d] \in PendingPcs
    OBVIOUS
  <2>1. PICK d \in Ctx : lock[d] = m /\ pc[d] \in PendingPcs
    BY <1>2 DEF PendingInv
  <2> QED BY <1>2, <2>1 DEF OthersUnchanged
<1>4. \A d \in Ctx : pc'[d] \in PendingPcs => pending'[lock'[d]] = 1
  BY <1>1, <1>2 DEF PendingInv
<1>5. \A d, e \in Ctx : (pc'[d] \in PendingPcs /\ pc'[e] \in PendingPcs /\ lock'[d] = lock'[e]) => d = e
  BY <1>1 DEF PendingInv
<1> QED BY <1>3, <1>4, <1>5 DEF PendingInv

\* The pending byte is set for one context alone, through every step.
LEMMA PendingStep ==
  ASSUME TypeOK, EngagedInv, PendingInv, NEW c \in Ctx, CtxStep(c)
  PROVE  PendingInv'
<1>1. OthersUnchanged(c)
  BY OwnLocals
<1>2. pc[c] \notin {"off", "idle"} => lock[c] \in Locks
  BY LocalFacts
<1>3. pc \in [Ctx -> Pcs] /\ lock \in [Ctx -> Locks \cup {NULL}] /\ pending \in [Locks -> 0 .. 1]
  BY DEF TypeOK
<1> USE DEF At, Goto, locals, word, PendingPcs
<1>4. ASSUME NEW k \in Locks, queued_spin_trylock(c, k) \/ queued_spin_lock(c, k)
      PROVE  PendingInv'
  <2>1. UNCHANGED pending /\ pc[c] \notin PendingPcs /\ pc'[c] \notin PendingPcs
    BY <1>3, <1>4 DEF queued_spin_trylock, queued_spin_lock, AfterRead
  <2> QED BY <1>1, <2>1, PendingQuiet
<1>5. CASE \/ Interrupt(c) \/ InterruptReturn(c) \/ spin_pending(c) \/ queued_spin_unlock(c)
          \/ release_node(c) \/ mcs_spin_unlock_contended(c)
  <2>1. UNCHANGED pending /\ pc[c] \notin PendingPcs /\ pc'[c] \notin PendingPcs
    BY <1>3, <1>5 DEF Interrupt, InterruptReturn, spin_pending, queued_spin_unlock, release_node,
                      mcs_spin_unlock_contended, AfterRead
  <2> QED BY <1>1, <2>1, PendingQuiet
<1>6. CASE \/ grab_mcs_node(c) \/ init_node(c) \/ try_again_lost(c) \/ xchg_tail(c)
          \/ link_node(c) \/ mcs_spin_lock_contended(c) \/ read_next(c)
  <2>1. UNCHANGED pending /\ pc[c] \notin PendingPcs /\ pc'[c] \notin PendingPcs
    BY <1>3, <1>6 DEF grab_mcs_node, init_node, try_again_lost, xchg_tail, link_node,
                      mcs_spin_lock_contended, read_next
  <2> QED BY <1>1, <2>1, PendingQuiet
<1>7. CASE \/ wait_head_last(c) \/ wait_head_first(c) \/ claim_lost(c) \/ wait_next(c)
          \/ try_again_won(c) \/ claim_won(c) \/ set_locked(c)
  <2>1. UNCHANGED pending /\ pc[c] \notin PendingPcs /\ pc'[c] \notin PendingPcs
    BY <1>3, <1>7 DEF wait_head_last, wait_head_first, claim_lost, wait_next, try_again_won,
                      claim_won, set_locked
  <2> QED BY <1>1, <2>1, PendingQuiet
<1>8. CASE wait_owner(c)
  <2>1. UNCHANGED <<pending, lock>> /\ pc[c] \in PendingPcs /\ pc'[c] \in PendingPcs
    BY <1>3, <1>8 DEF wait_owner
  <2> QED BY <1>1, <2>1, PendingQuiet
<1>9. CASE set_pending(c)
  <2>1. /\ pending' = [pending EXCEPT ![lock[c]] = 1] /\ UNCHANGED lock
        /\ lock[c] \in Locks /\ pc[c] \notin PendingPcs
    BY <1>2, <1>3, <1>9 DEF set_pending
  <2>2. CASE pending[lock[c]] = 0
    <3>1. pc'[c] \in PendingPcs
      BY <1>3, <1>9, <2>2 DEF set_pending
    <3> QED BY Zenon, <1>1, <2>1, <2>2, <3>1, PendingTaken
  <2>3. CASE pending[lock[c]] # 0
    <3>1. Contended(Word(lock[c]))
      BY <2>3 DEF Contended, Word
    <3>2. pc'[c] \notin PendingPcs
      BY <1>3, <1>9, <2>3, <3>1 DEF set_pending
    <3>3. UNCHANGED pending
      BY <1>3, <2>1, <2>3
    <3> QED BY <1>1, <2>1, <3>2, <3>3, PendingQuiet
  <2> QED BY <2>2, <2>3
<1>10. CASE undo_pending(c) \/ clear_pending_set_locked(c)
  <2>1. /\ pending' = [pending EXCEPT ![lock[c]] = 0] /\ lock[c] \in Locks
        /\ pc[c] \in PendingPcs /\ pc'[c] \notin PendingPcs
    BY <1>2, <1>3, <1>10 DEF undo_pending, clear_pending_set_locked
  <2> QED BY Zenon, <1>1, <2>1, PendingDropped
<1> QED BY <1>4, <1>5, <1>6, <1>7, <1>8, <1>9, <1>10
           DEF CtxStep, queued_spin_lock_slowpath

-----------------------------------------------------------------------------
(***************************************************************************)
(* The claim on the lock word, the queue, the flags and the nodes.         *)
(***************************************************************************)

ClaimPcs == {"take_pending", "claim", "set_locked"}
ValOthers(c) == \A d \in Ctx : d # c => val'[d] = val[d]

\* A step keeps ClaimInv when it leaves the others' claims on clear bytes and
\* its own context's new claim, if any, is on a clear byte without a rival.
LEMMA ClaimKept ==
  ASSUME ClaimInv, NEW c \in Ctx, OthersUnchanged(c), ValOthers(c),
         \A d \in Ctx : d # c /\ pc[d] \in ClaimPcs => locked'[lock[d]] = 0,
         pc'[c] \in ClaimPcs => locked'[lock'[c]] = 0,
         pc'[c] \in {"claim", "set_locked"} =>
           \A d \in Ctx : d # c /\ pc[d] \in {"wait_owner", "take_pending"} => lock[d] # lock'[c],
         pc'[c] \in {"wait_owner", "take_pending"} =>
           \A d \in Ctx : d # c /\ pc[d] \in {"claim", "set_locked"} => lock[d] # lock'[c],
         pc'[c] = "claim" => val'[c] = [tail |-> my_tail(c)', pending |-> 0, locked |-> 0]
  PROVE  ClaimInv'
<1>1. \A d \in Ctx : d # c => /\ pc'[d] = pc[d] /\ lock'[d] = lock[d] /\ val'[d] = val[d]
                              /\ my_tail(d)' = my_tail(d)
  BY DEF OthersUnchanged, ValOthers, my_tail
<1>2. \A d \in Ctx : pc'[d] \in {"take_pending", "claim", "set_locked"} => locked'[lock'[d]] = 0
  BY <1>1 DEF ClaimPcs
<1>3. \A d, e \in Ctx : (pc'[d] \in {"claim", "set_locked"} /\ pc'[e] \in {"wait_owner", "take_pending"})
                          => lock'[d] # lock'[e]
  BY <1>1 DEF ClaimInv
<1>4. \A d \in Ctx : pc'[d] = "claim" => val'[d] = [tail |-> my_tail(d)', pending |-> 0, locked |-> 0]
  BY <1>1 DEF ClaimInv
<1> QED BY <1>2, <1>3, <1>4 DEF ClaimInv

\* A step after which its context claims nothing and that leaves the locked
\* bytes alone.
LEMMA ClaimQuiet ==
  ASSUME ClaimInv, NEW c \in Ctx, OthersUnchanged(c), ValOthers(c), UNCHANGED locked,
         pc'[c] \notin ClaimPcs, pc'[c] # "wait_owner"
  PROVE  ClaimInv'
<1>1. \A d \in Ctx : d # c /\ pc[d] \in ClaimPcs => locked'[lock[d]] = 0
  BY DEF ClaimInv, ClaimPcs
<1> QED BY <1>1, ClaimKept, Zenon DEF ClaimPcs

\* Nobody can get in the way of a context that saw the locked byte clear.
LEMMA ClaimStep ==
  ASSUME TypeOK, EngagedInv, LockedInv, PendingInv, ClaimInv, OrderInv, TailInv,
         NEW c \in Ctx, CtxStep(c)
  PROVE  ClaimInv'
<1>1. OthersUnchanged(c)
  BY OwnLocals
<1>2. pc[c] \notin {"off", "idle"} => lock[c] \in Locks
  BY LocalFacts
<1>3. /\ pc \in [Ctx -> Pcs] /\ lock \in [Ctx -> Locks \cup {NULL}]
      /\ locked \in [Locks -> 0 .. 1] /\ pending \in [Locks -> 0 .. 1] /\ DOMAIN val = Ctx
  BY DEF TypeOK
<1>4. /\ \A d \in Ctx : pc[d] \in ClaimPcs => lock[d] \in Locks /\ locked[lock[d]] = 0
      /\ \A d \in Ctx : pc[d] = "take_pending" => pending[lock[d]] = 1
      /\ \A d \in Ctx : pc[d] \in {"claim", "set_locked"} => tail[lock[d]] # 0
  BY LocalFacts DEF ClaimPcs, ClaimInv, PendingInv, PendingPcs, TailInv, InQueue, QueuePcs
\* Taking the lock from a word all zero disturbs no claim.
<1>5. ASSUME NEW k \in Locks, Word(k) = Unlocked, locked' = [locked EXCEPT ![k] = 1]
      PROVE  \A d \in Ctx : d # c /\ pc[d] \in ClaimPcs => locked'[lock[d]] = 0
  BY <1>3, <1>4, <1>5, WordFacts DEF ClaimPcs
<1> USE DEF At, Goto, locals, word, ClaimPcs, ValOthers
<1>6. ASSUME NEW k \in Locks, queued_spin_trylock(c, k) PROVE ClaimInv'
  <2>1. /\ Word(k) = Unlocked /\ locked' = [locked EXCEPT ![k] = 1] /\ ValOthers(c)
        /\ pc'[c] = "held"
    BY <1>3, <1>6 DEF queued_spin_trylock
  <2>2. \A d \in Ctx : d # c /\ pc[d] \in ClaimPcs => locked'[lock[d]] = 0
    BY Zenon, <1>5, <2>1
  <2> QED BY Zenon, <1>1, <2>1, <2>2, ClaimKept
<1>7. CASE try_again_won(c)
  <2>1. /\ Word(lock[c]) = Unlocked /\ locked' = [locked EXCEPT ![lock[c]] = 1] /\ ValOthers(c)
        /\ pc'[c] = "release_node" /\ lock[c] \in Locks
    BY <1>2, <1>3, <1>7 DEF try_again_won
  <2>2. \A d \in Ctx : d # c /\ pc[d] \in ClaimPcs => locked'[lock[d]] = 0
    BY Zenon, <1>5, <2>1
  <2> QED BY Zenon, <1>1, <2>1, <2>2, ClaimKept
<1>8. ASSUME NEW k \in Locks, queued_spin_lock(c, k) PROVE ClaimInv'
  <2>1. UNCHANGED locked /\ ValOthers(c) /\ pc'[c] \notin ClaimPcs /\ pc'[c] # "wait_owner"
    BY <1>3, <1>8 DEF queued_spin_lock, AfterRead
  <2> QED BY <1>1, <2>1, ClaimQuiet
<1>9. CASE Interrupt(c) \/ InterruptReturn(c) \/ spin_pending(c) \/ undo_pending(c) \/ grab_mcs_node(c)
  <2>1. UNCHANGED locked /\ ValOthers(c) /\ pc'[c] \notin ClaimPcs /\ pc'[c] # "wait_owner"
    BY <1>3, <1>9 DEF Interrupt, InterruptReturn, spin_pending, undo_pending, grab_mcs_node, AfterRead
  <2> QED BY <1>1, <2>1, ClaimQuiet
<1>10. CASE \/ init_node(c) \/ try_again_lost(c) \/ xchg_tail(c) \/ link_node(c)
           \/ mcs_spin_lock_contended(c) \/ read_next(c)
  <2>1. UNCHANGED locked /\ ValOthers(c) /\ pc'[c] \notin ClaimPcs /\ pc'[c] # "wait_owner"
    BY <1>3, <1>10 DEF init_node, try_again_lost, xchg_tail, link_node, mcs_spin_lock_contended, read_next
  <2> QED BY <1>1, <2>1, ClaimQuiet
<1>11. CASE wait_next(c) \/ mcs_spin_unlock_contended(c) \/ release_node(c)
  <2>1. UNCHANGED locked /\ ValOthers(c) /\ pc'[c] \notin ClaimPcs /\ pc'[c] # "wait_owner"
    BY <1>3, <1>11 DEF wait_next, mcs_spin_unlock_contended, release_node
  <2> QED BY <1>1, <2>1, ClaimQuiet
<1>12. CASE queued_spin_unlock(c)
  <2>1. /\ locked' = [locked EXCEPT ![lock[c]] = 0] /\ ValOthers(c)
        /\ pc'[c] \notin ClaimPcs /\ pc'[c] # "wait_owner" /\ lock[c] \in Locks
    BY <1>2, <1>3, <1>12 DEF queued_spin_unlock
  <2>2. \A d \in Ctx : d # c /\ pc[d] \in ClaimPcs => locked'[lock[d]] = 0
    BY <1>3, <1>4, <2>1
  <2> QED BY Zenon, <1>1, <2>1, <2>2, ClaimKept
<1>13. CASE set_pending(c)
  <2>1. /\ UNCHANGED <<locked, lock>> /\ ValOthers(c) /\ lock[c] \in Locks
        /\ pc'[c] \in {"undo_pending", "queue", "wait_owner", "take_pending"}
        /\ pc'[c] \in {"wait_owner", "take_pending"} => ~ Contended(Word(lock[c]))
        /\ pc'[c] = "take_pending" => locked[lock[c]] # 1
    BY <1>2, <1>3, <1>13 DEF set_pending
  <2>2. pc'[c] \in {"wait_owner", "take_pending"} => tail[lock[c]] = 0
    BY <2>1 DEF Contended, Word
  <2>3. pc'[c] = "take_pending" => locked[lock[c]] = 0
    BY <1>3, <2>1
  <2>4. pc'[c] \in {"wait_owner", "take_pending"} =>
           \A d \in Ctx : d # c /\ pc[d] \in {"claim", "set_locked"} => lock[d] # lock'[c]
    BY <1>4, <2>1, <2>2
  <2>5. \A d \in Ctx : d # c /\ pc[d] \in ClaimPcs => locked'[lock[d]] = 0
    BY <1>4, <2>1
  <2>6. pc'[c] \in ClaimPcs => locked'[lock'[c]] = 0
    BY <2>1, <2>3
  <2>7. pc'[c] \notin {"claim", "set_locked"}
    BY <2>1
  <2> QED BY Zenon, <1>1, <2>1, <2>4, <2>5, <2>6, <2>7, ClaimKept
<1>14. CASE wait_owner(c)
  <2>1. /\ UNCHANGED <<locked, lock>> /\ ValOthers(c) /\ pc'[c] = "take_pending"
        /\ pc[c] = "wait_owner" /\ locked[lock[c]] = 0
    BY <1>3, <1>14 DEF wait_owner
  <2>2. \A d \in Ctx : d # c /\ pc[d] \in {"claim", "set_locked"} => lock[d] # lock'[c]
    BY <2>1 DEF ClaimInv
  <2>3. \A d \in Ctx : d # c /\ pc[d] \in ClaimPcs => locked'[lock[d]] = 0
    BY <1>4, <2>1
  <2> QED BY Zenon, <1>1, <2>1, <2>2, <2>3, ClaimKept
<1>15. CASE clear_pending_set_locked(c)
  <2>1. /\ locked' = [locked EXCEPT ![lock[c]] = 1] /\ ValOthers(c) /\ pc'[c] = "held"
        /\ pc[c] = "take_pending" /\ lock[c] \in Locks
    BY <1>2, <1>3, <1>15 DEF clear_pending_set_locked
  <2>2. \A d \in Ctx : d # c /\ pc[d] \in ClaimPcs => lock[d] # lock[c]
    BY <2>1 DEF ClaimInv, PendingInv, PendingPcs
  <2>3. \A d \in Ctx : d # c /\ pc[d] \in ClaimPcs => locked'[lock[d]] = 0
    BY <1>3, <1>4, <2>1, <2>2
  <2> QED BY Zenon, <1>1, <2>1, <2>3, ClaimKept
<1>16. CASE wait_head_last(c) \/ wait_head_first(c)
  <2>1. /\ UNCHANGED <<locked, lock, idx>> /\ ValOthers(c) /\ pc'[c] \in {"claim", "set_locked"}
        /\ locked[lock[c]] = 0 /\ pending[lock[c]] = 0
    BY <1>3, <1>16 DEF wait_head_last, wait_head_first
  <2>2. pc'[c] = "claim" => val'[c] = [tail |-> my_tail(c)', pending |-> 0, locked |-> 0]
    BY <1>3, <1>16 DEF wait_head_last, wait_head_first, Word, my_tail
  <2>3. \A d \in Ctx : pc[d] \in {"wait_owner", "take_pending"} => pc[d] \in PendingPcs
    BY DEF PendingPcs
  <2>4. \A d \in Ctx : d # c /\ pc[d] \in {"wait_owner", "take_pending"} => lock[d] # lock'[c]
    BY <2>1, <2>3 DEF PendingInv
  <2>5. \A d \in Ctx : d # c /\ pc[d] \in ClaimPcs => locked'[lock[d]] = 0
    BY <1>4, <2>1
  <2> QED BY <1>1, <2>1, <2>2, <2>4, <2>5, ClaimKept
<1>17. CASE claim_lost(c)
  <2>1. /\ UNCHANGED <<locked, lock>> /\ ValOthers(c) /\ pc[c] = "claim" /\ pc'[c] = "set_locked"
    BY <1>3, <1>17 DEF claim_lost
  <2>2. \A d \in Ctx : d # c /\ pc[d] \in {"wait_owner", "take_pending"} => lock[d] # lock'[c]
    BY <2>1 DEF ClaimInv
  <2>3. \A d \in Ctx : pc[d] \in ClaimPcs => locked'[lock[d]] = 0
    BY <1>4, <2>1
  <2> QED BY Zenon, <1>1, <2>1, <2>2, <2>3, ClaimKept
<1>18. CASE claim_won(c) \/ set_locked(c)
  <2>1. /\ locked' = [locked EXCEPT ![lock[c]] = 1] /\ ValOthers(c) /\ lock[c] \in Locks
        /\ pc[c] \in {"claim", "set_locked"}
        /\ pc'[c] \in {"release_node", "wait_next", "hand_over"}
    BY <1>2, <1>3, <1>18 DEF claim_won, set_locked
  <2>2. \A d \in Ctx : d # c /\ pc[d] \in {"claim", "set_locked"} => lock[d] # lock[c]
    BY <2>1 DEF OrderInv, HeadPcs, InQueue, QueuePcs
  <2>3. \A d \in Ctx : pc[d] = "take_pending" => lock[d] # lock[c]
    BY <2>1 DEF ClaimInv
  <2>4. \A d \in Ctx : d # c /\ pc[d] \in ClaimPcs => locked'[lock[d]] = 0
    BY <1>3, <1>4, <2>1, <2>2, <2>3
  <2> QED BY Zenon, <1>1, <2>1, <2>4, ClaimKept
<1> QED BY <1>6, <1>7, <1>8, <1>9, <1>10, <1>11, <1>12, <1>13, <1>14, <1>15, <1>16, <1>17, <1>18
           DEF CtxStep, queued_spin_lock_slowpath

\* Every step keeps the queue in order.
LEMMA QueueStep ==
  ASSUME TypeOK, EngagedInv, OrderInv, TailInv, LinkInv, ClaimInv, FlagInv, NodeInv,
         NEW c \in Ctx, CtxStep(c)
  PROVE  OrderInv' /\ TailInv' /\ LinkInv'
<1>1. OthersUnchanged(c)
  BY OwnLocals
<1> USE DEF TypeOK, At, Goto, locals, word, mcs
<1>2. ASSUME NEW k \in Locks, queued_spin_trylock(c, k) \/ queued_spin_lock(c, k)
      PROVE  OrderInv' /\ TailInv' /\ LinkInv'
  <2>1. pc[c] \notin QueuePcs /\ pc'[c] \notin QueuePcs /\ UNCHANGED <<tail, mnext, prev, ahead>>
    BY <1>2 DEF QueuePcs, queued_spin_trylock, queued_spin_lock, AfterRead
  <2> QED BY <1>1, <2>1, OutsideQueue
<1>3. CASE \/ Interrupt(c) \/ InterruptReturn(c) \/ queued_spin_unlock(c)
  <2>1. pc[c] \notin QueuePcs /\ pc'[c] \notin QueuePcs /\ UNCHANGED <<tail, mnext, prev, ahead>>
    BY <1>3 DEF QueuePcs, Interrupt, InterruptReturn, queued_spin_unlock
  <2> QED BY <1>1, <2>1, OutsideQueue
<1>4. CASE \/ spin_pending(c) \/ set_pending(c) \/ undo_pending(c) \/ wait_owner(c)
          \/ clear_pending_set_locked(c)
  <2>1. pc[c] \notin QueuePcs /\ pc'[c] \notin QueuePcs /\ UNCHANGED <<tail, mnext, prev, ahead>>
    BY <1>4 DEF QueuePcs, spin_pending, set_pending, undo_pending, wait_owner, clear_pending_set_locked, AfterRead
  <2> QED BY <1>1, <2>1, OutsideQueue
<1>5. CASE \/ grab_mcs_node(c) \/ try_again_won(c) \/ try_again_lost(c)
          \/ release_node(c)
  <2>1. pc[c] \notin QueuePcs /\ pc'[c] \notin QueuePcs /\ UNCHANGED <<tail, mnext, prev, ahead>>
    BY <1>5 DEF QueuePcs, grab_mcs_node, try_again_won, try_again_lost, release_node
  <2> QED BY <1>1, <2>1, OutsideQueue
<1>6. CASE init_node(c)
  <2>1. pc[c] \notin QueuePcs /\ pc'[c] \notin QueuePcs /\ UNCHANGED <<tail, prev, ahead>>
    BY <1>6 DEF init_node, QueuePcs
  <2>2. \A d \in Ctx : InQueue(d) => mnext'[my_node(d)] = mnext[my_node(d)]
    <3> SUFFICES ASSUME NEW d \in Ctx, InQueue(d)
                 PROVE  mnext'[my_node(d)] = mnext[my_node(d)]
      OBVIOUS
    <3>1. my_node(d) # my_node(c)
      BY <1>6, NodesDistinct DEF init_node, UsesNode, NodePcs, InQueue, QueuePcs
    <3> QED BY <1>6, <3>1, LocalFacts DEF init_node
  <2> QED BY <1>1, <2>1, <2>2, OutsideQueue
<1>7. CASE \/ mcs_spin_lock_contended(c) \/ read_next(c) \/ wait_head_last(c)
          \/ wait_head_first(c) \/ claim_lost(c) \/ set_locked(c) \/ wait_next(c)
  <2>1. /\ pc[c] \in QueuePcs /\ pc[c] # "link" /\ pc'[c] \in HeadPcs
        /\ UNCHANGED <<tail, mnext, prev, ahead, lock, idx>>
        /\ next'[c] = next[c] \/ next'[c] = mnext[my_node(c)]
        /\ pc'[c] = "hand_over" => next'[c] # NULL
    BY <1>7 DEF QueuePcs, HeadPcs, mcs_spin_lock_contended, read_next, wait_head_last, wait_head_first, claim_lost,
           set_locked, wait_next
  <2>2. ahead[c] = {}
    BY <1>7 DEF OrderInv, FlagInv, QueuePcs, HeadPcs, mcs_spin_lock_contended, read_next, wait_head_last, wait_head_first, claim_lost,
           set_locked, wait_next
  <2> QED BY <1>1, <2>1, <2>2, InsideQueue
<1>8. CASE xchg_tail(c)
  BY <1>8, JoinQueue
<1>9. CASE link_node(c)
  BY <1>9, LinkQueue
<1>10. CASE claim_won(c)
  BY <1>10, EmptyQueue
<1>11. CASE mcs_spin_unlock_contended(c)
  BY <1>11, HandOver
<1> QED BY <1>2, <1>3, <1>4, <1>5, <1>6, <1>7, <1>8, <1>9, <1>10, <1>11
           DEF CtxStep, queued_spin_lock_slowpath

\* A node is blank until it is published, and granted only to the first waiter.
LEMMA FlagStep ==
  ASSUME TypeOK, EngagedInv, OrderInv, TailInv, LinkInv, FlagInv, NodeInv,
         NEW c \in Ctx, CtxStep(c)
  PROVE  FlagInv'
<1>1. OthersUnchanged(c)
  BY OwnLocals
<1> USE DEF TypeOK, At, Goto, locals, word, mcs
<1>2. ASSUME NEW k \in Locks, queued_spin_trylock(c, k) \/ queued_spin_lock(c, k)
      PROVE  FlagInv'
  <2>1. /\ pc'[c] \notin {"try_again", "xchg_tail", "link", "wait_node"}
        /\ UNCHANGED <<mnext, mlocked, ahead>>
    BY <1>2 DEF queued_spin_trylock, queued_spin_lock, AfterRead
  <2> QED BY <1>1, <2>1, FlagsUnchanged
<1>3. CASE \/ Interrupt(c) \/ InterruptReturn(c) \/ spin_pending(c) \/ set_pending(c)
          \/ undo_pending(c) \/ wait_owner(c) \/ clear_pending_set_locked(c)
  <2>1. /\ pc'[c] \notin {"try_again", "xchg_tail", "link", "wait_node"}
        /\ UNCHANGED <<mnext, mlocked, ahead>>
    BY <1>3 DEF Interrupt, InterruptReturn, spin_pending, set_pending, undo_pending, wait_owner,
           clear_pending_set_locked, AfterRead
  <2> QED BY <1>1, <2>1, FlagsUnchanged
<1>4. CASE \/ grab_mcs_node(c) \/ try_again_won(c) \/ claim_won(c) \/ release_node(c)
          \/ queued_spin_unlock(c)
  <2>1. /\ pc'[c] \notin {"try_again", "xchg_tail", "link", "wait_node"}
        /\ UNCHANGED <<mnext, mlocked, ahead>>
    BY <1>4 DEF grab_mcs_node, try_again_won, claim_won, release_node, queued_spin_unlock
  <2> QED BY <1>1, <2>1, FlagsUnchanged
<1>5. CASE \/ mcs_spin_lock_contended(c) \/ read_next(c) \/ wait_head_last(c)
          \/ wait_head_first(c) \/ claim_lost(c) \/ set_locked(c) \/ wait_next(c)
  <2>1. /\ pc'[c] \notin {"try_again", "xchg_tail", "link", "wait_node"}
        /\ UNCHANGED <<mnext, mlocked, ahead>>
    BY <1>5 DEF mcs_spin_lock_contended, read_next, wait_head_last, wait_head_first, claim_lost,
           set_locked, wait_next
  <2> QED BY <1>1, <2>1, FlagsUnchanged
<1>6. CASE init_node(c)
  <2>1. my_node(c) \in Node /\ pc[c] = "init_node" /\ pc'[c] = "try_again"
    BY <1>6, LocalFacts DEF init_node
  <2>2. \A d \in Ctx : d # c /\ UsesNode(d)
          => /\ mnext'[my_node(d)] = mnext[my_node(d)]
             /\ mlocked'[my_node(d)] = mlocked[my_node(d)]
    <3> SUFFICES ASSUME NEW d \in Ctx, d # c, UsesNode(d)
                 PROVE  /\ mnext'[my_node(d)] = mnext[my_node(d)]
                        /\ mlocked'[my_node(d)] = mlocked[my_node(d)]
      OBVIOUS
    <3>1. my_node(d) # my_node(c)
      BY <2>1, NodesDistinct DEF UsesNode, NodePcs
    <3> QED BY <1>6, <3>1, LocalFacts DEF init_node
  <2>3. mnext'[my_node(c)] = NULL /\ mlocked'[my_node(c)] = 0
    BY <1>6, <2>1 DEF init_node
  <2>4. \A d \in Ctx : /\ my_node(d)' = my_node(d) /\ ahead'[d] = ahead[d]
                       /\ d # c => pc'[d] = pc[d]
    BY <1>6, <1>1 DEF init_node, OthersUnchanged, my_node
  <2>5. \A d \in Ctx : pc[d] \in {"try_again", "xchg_tail", "link", "wait_node"} => UsesNode(d)
    BY DEF UsesNode, NodePcs, QueuePcs
  <2>6. ASSUME NEW d \in Ctx
        PROVE  /\ pc'[d] \in {"try_again", "xchg_tail"} => mnext'[my_node(d)'] = NULL
               /\ pc'[d] \in {"try_again", "xchg_tail", "link"} => mlocked'[my_node(d)'] = 0
               /\ pc'[d] = "wait_node" /\ mlocked'[my_node(d)'] = 1 => ahead'[d] = {}
    <3>1. CASE d = c
      BY <2>1, <2>3, <2>4, <3>1
    <3>2. CASE d # c
      BY <2>2, <2>4, <2>5, <3>2 DEF FlagInv
    <3> QED BY <3>1, <3>2
  <2> QED BY <2>6 DEF FlagInv
<1>7. CASE try_again_lost(c)
  <2>1. pc[c] = "try_again" /\ pc'[c] = "xchg_tail" /\ UNCHANGED <<mnext, mlocked, ahead, idx>>
    BY <1>7 DEF try_again_lost
  <2>2. \A d \in Ctx : my_node(d)' = my_node(d) /\ (d # c => pc'[d] = pc[d])
    BY <1>1, <2>1 DEF OthersUnchanged, my_node
  <2> QED BY <2>1, <2>2 DEF FlagInv
<1>8. CASE xchg_tail(c)
  BY <1>8, JoinQueue
<1>9. CASE link_node(c)
  BY <1>9, LinkQueue
<1>10. CASE mcs_spin_unlock_contended(c)
  BY <1>10, HandOver
<1> QED BY <1>2, <1>3, <1>4, <1>5, <1>6, <1>7, <1>8, <1>9, <1>10
           DEF CtxStep, queued_spin_lock_slowpath

\* The nodes of a CPU stay a stack.
LEMMA NodeStep ==
  ASSUME TypeOK, NodeInv,
         NEW c \in Ctx, CtxStep(c)
  PROVE  NodeInv'
<1>1. OthersUnchanged(c)
  BY OwnLocals
<1> USE DEF TypeOK, At, Goto, locals, word, mcs
<1>2. ASSUME NEW k \in Locks, queued_spin_trylock(c, k) \/ queued_spin_lock(c, k)
      PROVE  NodeInv'
  <2>1. UNCHANGED <<idx, count>> /\ (pc[c] \in NodePcs <=> pc'[c] \in NodePcs)
    BY <1>2 DEF NodePcs, QueuePcs, queued_spin_trylock, queued_spin_lock, AfterRead
  <2> QED BY <1>1, <2>1, NodesUnchanged DEF UsesNode, OthersUnchanged
<1>3. CASE \/ Interrupt(c) \/ InterruptReturn(c) \/ spin_pending(c) \/ set_pending(c)
          \/ undo_pending(c) \/ wait_owner(c) \/ clear_pending_set_locked(c)
          \/ queued_spin_unlock(c)
  <2>1. UNCHANGED <<idx, count>> /\ (pc[c] \in NodePcs <=> pc'[c] \in NodePcs)
    <3>1. CASE Interrupt(c) \/ InterruptReturn(c) \/ spin_pending(c) \/ set_pending(c)
      BY <3>1 DEF NodePcs, QueuePcs, Interrupt, InterruptReturn, spin_pending, set_pending, AfterRead
    <3>2. CASE \/ undo_pending(c) \/ wait_owner(c) \/ clear_pending_set_locked(c)
              \/ queued_spin_unlock(c)
      BY <3>2 DEF NodePcs, QueuePcs, undo_pending, wait_owner, clear_pending_set_locked,
           queued_spin_unlock
    <3> QED BY <1>3, <3>1, <3>2, Zenon
  <2> QED BY <1>1, <2>1, NodesUnchanged DEF UsesNode, OthersUnchanged
<1>4. CASE \/ init_node(c) \/ try_again_won(c) \/ try_again_lost(c) \/ xchg_tail(c)
          \/ link_node(c) \/ mcs_spin_unlock_contended(c)
  <2>1. UNCHANGED <<idx, count>> /\ (pc[c] \in NodePcs <=> pc'[c] \in NodePcs)
    <3>1. CASE init_node(c) \/ try_again_won(c) \/ try_again_lost(c)
      BY <3>1 DEF NodePcs, QueuePcs, init_node, try_again_won, try_again_lost
    <3>2. CASE xchg_tail(c) \/ link_node(c) \/ mcs_spin_unlock_contended(c)
      BY <3>2 DEF NodePcs, QueuePcs, xchg_tail, link_node, mcs_spin_unlock_contended
    <3> QED BY <1>4, <3>1, <3>2, Zenon
  <2> QED BY <1>1, <2>1, NodesUnchanged DEF UsesNode, OthersUnchanged
<1>5. CASE \/ mcs_spin_lock_contended(c) \/ read_next(c) \/ wait_head_last(c)
          \/ wait_head_first(c) \/ claim_lost(c) \/ set_locked(c) \/ wait_next(c)
          \/ claim_won(c)
  <2>1. UNCHANGED <<idx, count>> /\ (pc[c] \in NodePcs <=> pc'[c] \in NodePcs)
    BY <1>5 DEF NodePcs, QueuePcs, mcs_spin_lock_contended, read_next, wait_head_last, wait_head_first, claim_lost,
           set_locked, wait_next, claim_won
  <2> QED BY <1>1, <2>1, NodesUnchanged DEF UsesNode, OthersUnchanged
<1>6. CASE grab_mcs_node(c)
  BY <1>6, GrabNode
<1>7. CASE release_node(c)
  BY <1>7, ReleaseNode
<1> QED BY <1>2, <1>3, <1>4, <1>5, <1>6, <1>7 DEF CtxStep, queued_spin_lock_slowpath

-----------------------------------------------------------------------------
(***************************************************************************)
(* The theorems.                                                           *)
(***************************************************************************)
\* The inductive invariant holds when every lock word and every node is clear.
LEMMA InitIInv == Init => IInv
<1> SUFFICES ASSUME Init PROVE IInv
  OBVIOUS
<1> USE DEF Init
<1>1. TypeOK
  BY DEF TypeOK, Unlocked, WordType, u16, Pcs, MAX_NODES
<1>2. \A c \in Ctx : pc[c] \in {"off", "idle"} /\ lock[c] = NULL
  OBVIOUS
<1>3. EngagedInv /\ LockedInv /\ PendingInv /\ ClaimInv
  BY <1>2 DEF EngagedInv, LockedInv, PendingInv, ClaimInv, OwnerPcs, PendingPcs
<1>4. OrderInv /\ TailInv /\ LinkInv /\ FlagInv
  BY <1>2 DEF OrderInv, TailInv, LinkInv, FlagInv, InQueue, QueuePcs, HeadPcs
<1>5. NodeInv
  BY <1>2 DEF NodeInv, UsesNode, NodePcs, QueuePcs
<1> QED BY <1>1, <1>3, <1>4, <1>5 DEF IInv

\* Every step of qspinlock.c keeps the inductive invariant.
LEMMA NextIInv == IInv /\ [Next]_vars => IInv'
<1> SUFFICES ASSUME IInv, [Next]_vars PROVE IInv'
  OBVIOUS
<1> USE DEF IInv
<1>1. ASSUME NEW c \in Ctx, CtxStep(c) PROVE IInv'
  <2>1. TypeOK'
    BY <1>1, TypeStep
  <2>2. EngagedInv'
    BY <1>1, EngagedStep
  <2>3. LockedInv'
    BY <1>1, LockedStep
  <2>4. PendingInv'
    BY <1>1, PendingStep
  <2>5. ClaimInv'
    BY <1>1, ClaimStep
  <2>6. OrderInv' /\ TailInv' /\ LinkInv'
    BY <1>1, QueueStep
  <2>7. FlagInv'
    BY <1>1, FlagStep
  <2>8. NodeInv'
    BY <1>1, NodeStep
  <2> QED BY <2>1, <2>2, <2>3, <2>4, <2>5, <2>6, <2>7, <2>8
<1>2. CASE UNCHANGED vars
  <2> USE <1>2 DEF vars, word, mcs, locals
  <2>1. TypeOK' /\ EngagedInv'
    BY DEF TypeOK, EngagedInv
  <2>2. LockedInv' /\ PendingInv'
    BY DEF LockedInv, PendingInv
  <2>3. ClaimInv'
    BY DEF ClaimInv, my_tail
  <2>4. OrderInv'
    BY DEF OrderInv, InQueue
  <2>5. TailInv'
    BY DEF TailInv, InQueue, my_tail
  <2>6. LinkInv'
    BY DEF LinkInv, Behind, InQueue, my_node
  <2>7. FlagInv'
    BY DEF FlagInv, my_node
  <2>8. NodeInv'
    BY DEF NodeInv, UsesNode, my_node
  <2> QED BY <2>1, <2>2, <2>3, <2>4, <2>5, <2>6, <2>7, <2>8
<1> QED BY <1>1, <1>2 DEF Next

\* IInv holds in every reachable state of qspinlock.c, for any number of
\* CPUs, nesting contexts and locks.
THEOREM IInvInvariant == Spec => []IInv
BY InitIInv, NextIInv, PTL DEF Spec

\* The lock words, the nodes and the locals of the slow path keep their types:
\* no field of a lock word leaves its width.
THEOREM TypeOKHolds == Spec => []TypeOK
<1>1. IInv => TypeOK
  BY DEF IInv
<1> QED BY <1>1, IInvInvariant, PTL

\* Two contexts never own the same lock, whatever mixture of fast path,
\* pending path and queue they came through.
THEOREM MutualExclusionHolds == Spec => []MutualExclusion
<1>1. IInv => MutualExclusion
  BY DEF IInv, LockedInv, MutualExclusion, Owners
<1> QED BY <1>1, IInvInvariant, PTL

\* Four nodes per CPU are enough and nesting contexts never share one.
THEOREM NodesPrivateHolds == Spec => []NodesPrivate
<1>1. IInv => NodesPrivate
  <2> SUFFICES ASSUME IInv PROVE NodesPrivate
    OBVIOUS
  <2>1. \A c, d \in Ctx : UsesNode(c) /\ UsesNode(d) /\ my_node(c) = my_node(d) => c = d
    BY NodesDistinct DEF IInv
  <2>2. ASSUME NEW p \in CPU PROVE count[p] <= MAX_NODES
    <3>1. count[p] \in Nat
      BY DEF IInv, TypeOK
    <3>2. CASE count[p] = 0
      BY <3>2 DEF MAX_NODES
    <3>3. CASE count[p] # 0
      <4>1. count[p] - 1 \in 0 .. count[p] - 1
        BY <3>1, <3>3
      <4>2. PICK d \in Ctx : UsesNode(d) /\ idx[d] = count[p] - 1
        BY <4>1 DEF IInv, NodeInv
      <4>3. idx[d] \in 0 .. 3
        BY LocalFacts DEF IInv
      <4> QED BY <3>1, <4>2, <4>3 DEF MAX_NODES
    <3> QED BY <3>2, <3>3
  <2> QED BY <2>1, <2>2 DEF NodesPrivate
<1> QED BY <1>1, IInvInvariant, PTL

\* The queue is served in the order of the tail exchanges.
THEOREM QueueIsFifoHolds == Spec => QueueIsFifo
<1>1. ASSUME IInv, NEW c \in Ctx, pc[c] \in {"claim", "set_locked"} PROVE ahead[c] = {}
  BY <1>1 DEF IInv, OrderInv, HeadPcs, QueuePcs
<1>2. IInv => \A c \in Ctx : pc[c] \in {"claim", "set_locked"} => ahead[c] \cap Members(lock[c]) = {}
  BY <1>1
<1>3. IInv => [\A c \in Ctx :
                 pc[c] \in {"claim", "set_locked"} /\ locked'[lock[c]] # locked[lock[c]]
                 /\ pc'[c] # pc[c]
                 => ahead[c] \cap Members(lock[c]) = {}]_vars
  BY <1>2
<1> QED BY <1>3, IInvInvariant, PTL DEF QueueIsFifo

\* A context that can be handed the lock shows in the lock word.
THEOREM WaitersVisibleHolds == Spec => []WaitersVisible
<1>1. IInv => WaitersVisible
  <2> SUFFICES ASSUME IInv, NEW c \in Ctx,
                      \/ pc[c] \in QueuePcs \cup OwnerPcs
                      \/ pc[c] \in {"undo_pending", "wait_owner", "take_pending"}
               PROVE  Word(lock[c]) # Unlocked
    BY DEF WaitersVisible
  <2>1. \/ tail[lock[c]] # 0 \/ locked[lock[c]] = 1 \/ pending[lock[c]] = 1
    BY DEF IInv, TailInv, LockedInv, PendingInv, InQueue, PendingPcs
  <2> QED BY <2>1, WordFacts
<1> QED BY <1>1, IInvInvariant, PTL

-----------------------------------------------------------------------------
(***************************************************************************)
(* Refinement: the owner is the holder of the abstract lock.               *)
(***************************************************************************)
Owns(c, k) == pc[c] \in OwnerPcs /\ lock[c] = k

\* holder names the owner, if there is one.
HolderOK ==
  \A k \in Locks : /\ holder[k] \in Ctx \cup {NULL}
                   /\ \A c \in Ctx : holder[k] = c <=> Owns(c, k)

\* In every reachable state the abstract holder is the owner of the locked byte.
LEMMA HolderFacts == IInv => HolderOK
<1> SUFFICES ASSUME IInv, NEW k \in Locks
             PROVE  /\ holder[k] \in Ctx \cup {NULL}
                    /\ \A c \in Ctx : holder[k] = c <=> Owns(c, k)
  BY DEF HolderOK
<1>1. \A c, d \in Ctx : Owns(c, k) /\ Owns(d, k) => c = d
  BY DEF IInv, LockedInv, Owns
<1>2. \A c \in Ctx : c \in Owners(k) <=> Owns(c, k)
  BY DEF Owners, Owns
<1>3. Owners(k) \subseteq Ctx
  BY DEF Owners
<1>4. holder[k] = IF Owners(k) = {} THEN NULL ELSE CHOOSE c \in Owners(k) : TRUE
  BY DEF holder
<1>5. CASE Owners(k) = {}
  BY <1>2, <1>4, <1>5, NullAssumption
<1>6. CASE Owners(k) # {}
  <2>1. holder[k] \in Owners(k)
    BY <1>4, <1>6
  <2> QED BY <1>1, <1>2, <1>3, <2>1
<1> QED BY <1>5, <1>6

\* While a context owns a lock it does not start to use another one.
LEMMA OwnerKeepsLock ==
  ASSUME TypeOK, NEW c \in Ctx, CtxStep(c), pc[c] \in OwnerPcs, pc'[c] \in OwnerPcs
  PROVE  lock'[c] = lock[c]
<1>1. pc[c] \notin {"off", "idle"}
  BY DEF OwnerPcs
<1>2. ~Interrupt(c) /\ ~InterruptReturn(c)
  BY <1>1 DEF Interrupt, InterruptReturn, At
<1>3. \A k \in Locks : ~queued_spin_trylock(c, k) /\ ~queued_spin_lock(c, k)
  BY <1>1 DEF queued_spin_trylock, queued_spin_lock, At
<1>4. CASE queued_spin_unlock(c)
  BY <1>4 DEF queued_spin_unlock, Goto, OwnerPcs, TypeOK
<1>5. CASE queued_spin_lock_slowpath(c)
  BY <1>5, Zenon DEF queued_spin_lock_slowpath, locals, spin_pending, set_pending, undo_pending,
       wait_owner, clear_pending_set_locked, grab_mcs_node, init_node, try_again_won,
       try_again_lost, xchg_tail, link_node, mcs_spin_lock_contended, read_next,
       wait_head_last, wait_head_first, claim_won, claim_lost, set_locked, wait_next,
       mcs_spin_unlock_contended, release_node
<1> QED BY <1>2, <1>3, <1>4, <1>5 DEF CtxStep

\* A step of qspinlock.c takes a free lock, releases an owned one, or leaves
\* every owner as it is.
LEMMA StepRefines ==
  ASSUME IInv, IInv', NEW c \in Ctx, CtxStep(c)
  PROVE  [SL!Next]_holder
<1>1. \A d \in Ctx, k \in Locks : d # c => (Owns(d, k)' <=> Owns(d, k))
  BY OwnLocals DEF IInv, OthersUnchanged, Owns
<1>2. /\ DOMAIN holder = Locks /\ DOMAIN holder' = Locks
      /\ holder = [k \in Locks |-> holder[k]] /\ holder' = [k \in Locks |-> holder'[k]]
  BY DEF holder
<1>3. \A k \in Locks : /\ holder[k] \in Ctx \cup {NULL}
                       /\ \A d \in Ctx : holder[k] = d <=> Owns(d, k)
  BY HolderFacts DEF HolderOK
<1>4. \A k \in Locks : /\ holder'[k] \in Ctx \cup {NULL}
                       /\ \A d \in Ctx : holder'[k] = d <=> Owns(d, k)'
  <2>1. HolderOK'
    BY HolderFacts, PTL
  <2> QED BY <2>1 DEF HolderOK
<1>5. \A k \in Locks : (Owns(c, k)' <=> Owns(c, k)) => holder'[k] = holder[k]
  BY <1>1, <1>3, <1>4, NullAssumption
<1>6. CASE \A k \in Locks : Owns(c, k)' <=> Owns(c, k)
  BY <1>2, <1>5, <1>6
<1>7. ASSUME NEW k \in Locks, Owns(c, k)', ~Owns(c, k) PROVE SL!Next
  <2>1. pc[c] \notin OwnerPcs
    BY <1>7, OwnerKeepsLock DEF Owns, IInv
  <2>2. \A j \in Locks : j # k => holder'[j] = holder[j]
    BY <1>5, <1>7, <2>1 DEF Owns
  <2>3. holder'[k] = c
    BY <1>4, <1>7
  <2>4. holder[k] = NULL
    BY <1>1, <1>3, <1>4, <1>7, <2>3
  <2>5. holder' = [holder EXCEPT ![k] = c]
    BY <1>2, <2>2, <2>3
  <2> QED BY <2>4, <2>5, Zenon DEF SL!Next, SL!Acquire
<1>8. ASSUME NEW k \in Locks, Owns(c, k), ~Owns(c, k)' PROVE SL!Next
  <2>1. pc'[c] \notin OwnerPcs
    BY <1>8, OwnerKeepsLock DEF Owns, IInv
  <2>2. \A j \in Locks : j # k => holder'[j] = holder[j]
    BY <1>5, <1>8, <2>1 DEF Owns
  <2>3. holder[k] = c
    BY <1>3, <1>8
  <2>4. holder'[k] = NULL
    BY <1>1, <1>3, <1>4, <1>8, <2>3
  <2>5. holder' = [holder EXCEPT ![k] = NULL]
    BY <1>2, <2>2, <2>4
  <2> QED BY <2>3, <2>5, Zenon DEF SL!Next, SL!Release
<1> QED BY <1>6, <1>7, <1>8

\* qspinlock.c implements a lock: every execution of the queued spinlock is,
\* through the owner, an execution of SpinLock.
THEOREM QSpinLockRefines == Spec => ImplementsSpinLock
<1>1. Init => SL!Init
  BY DEF Init, SL!Init, holder, Owners, OwnerPcs
<1>2. IInv /\ IInv' /\ [Next]_vars => [SL!Next]_holder
  <2> SUFFICES ASSUME IInv, IInv', [Next]_vars PROVE [SL!Next]_holder
    OBVIOUS
  <2>1. CASE UNCHANGED vars
    BY <2>1 DEF vars, locals, holder, Owners
  <2> QED BY <2>1, StepRefines DEF Next
<1> QED BY <1>1, <1>2, IInvInvariant, PTL DEF Spec, ImplementsSpinLock, SL!Spec
=============================================================================
