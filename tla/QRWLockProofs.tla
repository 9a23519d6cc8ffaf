---------------------------- MODULE QRWLockProofs ----------------------------
(***************************************************************************)
(* Proofs about QRWLock for any finite set of contexts.                    *)
(***************************************************************************)
EXTENDS QRWLock, FiniteSetTheorems, TLAPS

\* The writer bits of the counter, whatever the number of readers.
LEMMA WriterBits ==
  ASSUME NEW a \in Nat, NEW b \in 0 .. 1, NEW w \in 0 .. 1
  PROVE  /\ WMask(512 * a + 256 * b + 255 * w) = 256 * b + 255 * w
         /\ wlocked(512 * a + 256 * b + 255 * w) = 255 * w
BY DEF WMask, wlocked

\* 1 if l is one of the points P, else 0
In(l, P) == IF l \in P THEN 1 ELSE 0
AtSome(P) == {d \in Ctx : pc[d] \in P}

\* Moving one context from a point to another moves one unit between the
\* numbers of contexts at these points.
LEMMA CardStep ==
  ASSUME TypeOK, NEW c \in Ctx, NEW l, NEW P, pc' = [pc EXCEPT ![c] = l]
  PROVE  /\ Cardinality(AtSome(P)) \in Nat
         /\ Cardinality(AtSome(P)') = Cardinality(AtSome(P)) + In(l, P) - In(pc[c], P)
<1> DEFINE S == AtSome(P)
           T == AtSome(P)'
<1>1. IsFiniteSet(S) /\ Cardinality(S) \in Nat
  BY CtxAssumption, FS_Subset, FS_CardinalityType DEF AtSome
<1>2. CASE l \in P /\ pc[c] \in P
  <2>1. T = S
    BY <1>2 DEF AtSome, TypeOK
  <2> QED BY <1>1, <1>2, <2>1 DEF In
<1>3. CASE l \in P /\ pc[c] \notin P
  <2>1. T = S \cup {c} /\ c \notin S
    BY <1>3 DEF AtSome, TypeOK
  <2>2. Cardinality(S \cup {c}) = Cardinality(S) + 1
    BY <1>1, <2>1, FS_AddElement
  <2> QED BY <1>1, <1>3, <2>1, <2>2 DEF In
<1>4. CASE l \notin P /\ pc[c] \in P
  <2>1. T = S \ {c} /\ c \in S
    BY <1>4 DEF AtSome, TypeOK
  <2>2. Cardinality(S \ {c}) = Cardinality(S) - 1
    BY <1>1, <2>1, FS_RemoveElement
  <2> QED BY <1>1, <1>4, <2>1, <2>2 DEF In
<1>5. CASE l \notin P /\ pc[c] \notin P
  <2>1. T = S
    BY <1>5 DEF AtSome, TypeOK
  <2> QED BY <1>1, <1>5, <2>1 DEF In
<1> QED BY <1>1, <1>2, <1>3, <1>4, <1>5

\* CardStep for the three groups the counter counts.
LEMMA Tally ==
  ASSUME TypeOK, NEW c \in Ctx, NEW l, pc' = [pc EXCEPT ![c] = l]
  PROVE  /\ Cardinality(Counted') = Cardinality(Counted) + In(l, CountedPcs) - In(pc[c], CountedPcs)
         /\ Cardinality(Waiting') = Cardinality(Waiting) + In(l, WaitingPcs) - In(pc[c], WaitingPcs)
         /\ Cardinality(Writers') = Cardinality(Writers) + In(l, WriterPcs) - In(pc[c], WriterPcs)
<1>1. /\ Counted = AtSome(CountedPcs) /\ Counted' = AtSome(CountedPcs)'
      /\ Waiting = AtSome(WaitingPcs) /\ Waiting' = AtSome(WaitingPcs)'
      /\ Writers = AtSome(WriterPcs) /\ Writers' = AtSome(WriterPcs)'
  BY DEF Counted, Waiting, Writers, AtSome
<1> QED BY Zenon, <1>1, CardStep

\* At most one writer waits and at most one writes; an empty count means
\* nobody is there.
LEMMA CountFacts ==
  ASSUME IInv
  PROVE  /\ Cardinality(Counted) \in Nat /\ Cardinality(Waiting) \in 0 .. 1
         /\ Cardinality(Writers) \in 0 .. 1
         /\ Cardinality(Counted) = 0 => Counted = {}
         /\ Cardinality(Writers) = 0 <=> Writers = {}
         /\ \A c \in Waiting : Cardinality(Waiting) = 1
         /\ \A c \in Writers : Cardinality(Writers) = 1
         /\ Readers \subseteq Counted
<1>1. /\ IsFiniteSet(Counted) /\ Cardinality(Counted) \in Nat
      /\ IsFiniteSet(Waiting) /\ Cardinality(Waiting) \in Nat
      /\ IsFiniteSet(Writers) /\ Cardinality(Writers) \in Nat
  BY CtxAssumption, FS_Subset, FS_CardinalityType DEF Counted, Waiting, Writers
<1>2. ASSUME NEW c \in Waiting PROVE Waiting = {c}
  BY <1>2 DEF Waiting, IInv, QueueHeadInv, QueueHeadPcs, WaitingPcs
<1>3. ASSUME NEW c \in Writers PROVE Writers = {c}
  BY <1>3 DEF IInv, Exclusion
<1>4. Cardinality(Waiting) \in 0 .. 1 /\ \A c \in Waiting : Cardinality(Waiting) = 1
  <2>1. CASE Waiting = {}
    BY <2>1, FS_EmptySet
  <2>2. CASE Waiting # {}
    <3>1. PICK c \in Waiting : TRUE
      BY <2>2
    <3>2. Waiting = {c}
      BY <1>2
    <3>3. Cardinality({c}) = 1
      BY FS_Singleton, Zenon
    <3> QED BY <3>2, <3>3
  <2> QED BY <2>1, <2>2
<1>5. Cardinality(Writers) \in 0 .. 1 /\ \A c \in Writers : Cardinality(Writers) = 1
  <2>1. CASE Writers = {}
    BY <2>1, FS_EmptySet
  <2>2. CASE Writers # {}
    <3>1. PICK c \in Writers : TRUE
      BY <2>2
    <3>2. Writers = {c}
      BY <1>3
    <3>3. Cardinality({c}) = 1
      BY FS_Singleton, Zenon
    <3> QED BY <3>2, <3>3
  <2> QED BY <2>1, <2>2
<1>6. /\ Cardinality(Counted) = 0 => Counted = {}
      /\ Cardinality(Writers) = 0 <=> Writers = {}
  BY <1>1, FS_EmptySet
<1>7. Readers \subseteq Counted
  BY DEF Readers, Counted, ReaderPcs, CountedPcs
<1> QED BY <1>1, <1>4, <1>5, <1>6, <1>7

\* What the tests of the code on the counter tell about who is inside.
LEMMA Tests ==
  ASSUME IInv
  PROVE  /\ cnts = 0 => Readers = {} /\ Writers = {}
         /\ cnts = QW_WAITING => Readers = {} /\ Writers = {}
         /\ wlocked(cnts) = 0 => Writers = {}
         /\ WMask(cnts + QR_BIAS) = 0 => Writers = {}
         /\ Writers # {} => wlocked(cnts) = QW_LOCKED
<1> DEFINE a == Cardinality(Counted)
           b == Cardinality(Waiting)
           w == Cardinality(Writers)
<1>1. a \in Nat /\ b \in 0 .. 1 /\ w \in 0 .. 1
  BY CountFacts
<1>2. /\ cnts = 512 * a + 256 * b + 255 * w
      /\ cnts + 512 = 512 * (a + 1) + 256 * b + 255 * w
  BY <1>1 DEF IInv, CountExact, QR_BIAS, QW_WAITING, QW_LOCKED
<1> HIDE DEF a, b, w
<1>3. /\ wlocked(cnts) = 255 * w
      /\ WMask(cnts + 512) = 256 * b + 255 * w
  <2>1. wlocked(512 * a + 256 * b + 255 * w) = 255 * w
    BY <1>1, WriterBits
  <2> DEFINE e == a + 1
  <2>2. e \in Nat
    BY <1>1
  <2> HIDE DEF e
  <2>3. WMask(512 * e + 256 * b + 255 * w) = 256 * b + 255 * w
    BY <1>1, <2>2, WriterBits
  <2> QED BY <1>2, <2>1, <2>3 DEF e
<1>4. /\ cnts = 0 => a = 0 /\ w = 0
      /\ cnts = 256 => a = 0 /\ w = 0
      /\ wlocked(cnts) = 0 => w = 0
      /\ WMask(cnts + 512) = 0 => w = 0
      /\ w # 0 => wlocked(cnts) = 255
  BY <1>1, <1>2, <1>3
<1>5. /\ a = 0 => Readers = {}
      /\ w = 0 <=> Writers = {}
  BY CountFacts DEF a, w
<1> QED BY <1>4, <1>5 DEF QW_WAITING, QW_LOCKED, QR_BIAS

Step(c) == Call(c) \/ Queue(c) \/ Progress(c)

\* A step moves one context and no other.
LEMMA OneMoves ==
  ASSUME TypeOK, NEW c \in Ctx, Step(c)
  PROVE  pc' = [pc EXCEPT ![c] = pc'[c]]
<1> USE DEF Goto, TypeOK
<1>1. CASE Call(c)
  BY <1>1 DEF Call, Interrupt, InterruptReturn, queued_read_lock, queued_read_trylock,
     queued_write_lock, queued_write_trylock
<1>2. CASE Queue(c)
  BY <1>2 DEF Queue, read_slowpath_queue, write_slowpath_queue
<1>3. CASE Progress(c)
  BY <1>3 DEF Progress, read_slowpath_irq, read_slowpath_sub, read_slowpath_add,
     read_slowpath_spin, read_slowpath_unlock, queued_read_unlock, read_trylock_add,
     read_trylock_sub, write_slowpath_read, write_slowpath_cas, write_slowpath_add,
     write_slowpath_spin, write_slowpath_lock, write_slowpath_unlock,
     queued_write_unlock, write_trylock_cas
<1> QED BY <1>1, <1>2, <1>3 DEF Step

\* Every read-modify-write of the counter keeps it exact, and in particular
\* never takes it below zero.
LEMMA CountStep ==
  ASSUME IInv, NEW c \in Ctx, Step(c)
  PROVE  cnts' \in Nat /\ CountExact'
<1> USE DEF Goto, At, In, CountedPcs, WaitingPcs, WriterPcs, CountExact,
            QR_BIAS, QW_WAITING, QW_LOCKED
<1>1. TypeOK /\ CountExact /\ DOMAIN pc = Ctx /\ cnts \in Nat
  BY DEF IInv, TypeOK
<1>2. /\ Cardinality(Counted) \in Nat /\ Cardinality(Waiting) \in 0 .. 1
      /\ Cardinality(Writers) \in 0 .. 1
      /\ pc[c] \in CountedPcs => Cardinality(Counted) > 0
      /\ pc[c] \in WaitingPcs => Cardinality(Waiting) = 1
      /\ pc[c] \in WriterPcs => Cardinality(Writers) = 1 /\ wlocked(cnts) = 255
  BY CountFacts, Tests DEF Counted, Waiting, Writers
<1>3. /\ Cardinality(Counted') = Cardinality(Counted) + In(pc'[c], CountedPcs) - In(pc[c], CountedPcs)
      /\ Cardinality(Waiting') = Cardinality(Waiting) + In(pc'[c], WaitingPcs) - In(pc[c], WaitingPcs)
      /\ Cardinality(Writers') = Cardinality(Writers) + In(pc'[c], WriterPcs) - In(pc[c], WriterPcs)
  BY <1>1, OneMoves, Tally
<1>28. cnts = 0 => /\ Cardinality(Counted) = 0 /\ Cardinality(Waiting) = 0
                   /\ Cardinality(Writers) = 0
  BY <1>1, <1>2
<1>4. CASE Interrupt(c)
  BY <1>1, <1>2, <1>3, <1>4 DEF Interrupt
<1>5. CASE InterruptReturn(c)
  BY <1>1, <1>2, <1>3, <1>5 DEF InterruptReturn
<1>6. CASE queued_read_lock(c)
  BY <1>1, <1>2, <1>3, <1>6 DEF queued_read_lock
<1>7. CASE queued_read_trylock(c)
  BY <1>1, <1>2, <1>3, <1>7 DEF queued_read_trylock
<1>8. CASE queued_write_lock(c)
  <2>1. CASE cnts = 0
    <3>1. pc[c] = "idle" /\ pc'[c] = "writing" /\ cnts' = 255
      BY <1>1, <1>8, <2>1 DEF queued_write_lock
    <3>2. /\ Cardinality(Counted') = 0 /\ Cardinality(Waiting') = 0
          /\ Cardinality(Writers') = 1
      BY <1>3, <1>28, <2>1, <3>1
    <3> QED BY <3>1, <3>2
  <2>2. CASE cnts # 0
    BY <1>1, <1>2, <1>3, <1>8, <2>2 DEF queued_write_lock
  <2> QED BY <2>1, <2>2
<1>9. CASE queued_write_trylock(c)
  BY <1>1, <1>2, <1>3, <1>9 DEF queued_write_trylock
<1>10. CASE read_slowpath_queue(c)
  BY <1>1, <1>2, <1>3, <1>10 DEF read_slowpath_queue
<1>11. CASE write_slowpath_queue(c)
  BY <1>1, <1>2, <1>3, <1>11 DEF write_slowpath_queue
<1>12. CASE read_slowpath_irq(c)
  BY <1>1, <1>2, <1>3, <1>12 DEF read_slowpath_irq
<1>13. CASE read_slowpath_sub(c)
  BY <1>1, <1>2, <1>3, <1>13 DEF read_slowpath_sub
<1>14. CASE read_slowpath_add(c)
  BY <1>1, <1>2, <1>3, <1>14 DEF read_slowpath_add
<1>15. CASE read_slowpath_spin(c)
  BY <1>1, <1>2, <1>3, <1>15 DEF read_slowpath_spin
<1>16. CASE read_slowpath_unlock(c)
  BY <1>1, <1>2, <1>3, <1>16 DEF read_slowpath_unlock
<1>17. CASE queued_read_unlock(c)
  BY <1>1, <1>2, <1>3, <1>17 DEF queued_read_unlock
<1>18. CASE read_trylock_add(c)
  BY <1>1, <1>2, <1>3, <1>18 DEF read_trylock_add
<1>19. CASE read_trylock_sub(c)
  BY <1>1, <1>2, <1>3, <1>19 DEF read_trylock_sub
<1>20. CASE write_slowpath_read(c)
  BY <1>1, <1>2, <1>3, <1>20 DEF write_slowpath_read
<1>21. CASE write_slowpath_cas(c)
  <2>1. CASE cnts = 0
    <3>1. pc[c] = "w_cas" /\ pc'[c] = "w_unlock" /\ cnts' = 255
      BY <1>1, <1>21, <2>1 DEF write_slowpath_cas
    <3>2. /\ Cardinality(Counted') = 0 /\ Cardinality(Waiting') = 0
          /\ Cardinality(Writers') = 1
      BY <1>3, <1>28, <2>1, <3>1
    <3> QED BY <3>1, <3>2
  <2>2. CASE cnts # 0
    BY <1>1, <1>2, <1>3, <1>21, <2>2 DEF write_slowpath_cas
  <2> QED BY <2>1, <2>2
<1>22. CASE write_slowpath_add(c)
  BY <1>1, <1>2, <1>3, <1>22 DEF write_slowpath_add
<1>23. CASE write_slowpath_spin(c)
  BY <1>1, <1>2, <1>3, <1>23 DEF write_slowpath_spin
<1>24. CASE write_slowpath_lock(c)
  <2>1. CASE cnts = 256
    BY <1>1, <1>2, <1>3, <1>24, <2>1 DEF write_slowpath_lock
  <2>2. CASE cnts # 256
    BY <1>1, <1>2, <1>3, <1>24, <2>2 DEF write_slowpath_lock
  <2> QED BY <2>1, <2>2
<1>25. CASE write_slowpath_unlock(c)
  BY <1>1, <1>2, <1>3, <1>25 DEF write_slowpath_unlock
<1>26. CASE queued_write_unlock(c)
  BY <1>1, <1>2, <1>3, <1>26 DEF queued_write_unlock
<1>27. CASE write_trylock_cas(c)
  <2>1. CASE cnts = 0
    <3>1. pc[c] = "wt_cas" /\ pc'[c] = "writing" /\ cnts' = 255
      BY <1>1, <1>27, <2>1 DEF write_trylock_cas
    <3>2. /\ Cardinality(Counted') = 0 /\ Cardinality(Waiting') = 0
          /\ Cardinality(Writers') = 1
      BY <1>3, <1>28, <2>1, <3>1
    <3> QED BY <3>1, <3>2
  <2>2. CASE cnts # 0
    BY <1>1, <1>2, <1>3, <1>27, <2>2 DEF write_trylock_cas
  <2> QED BY <2>1, <2>2
<1> QED BY <1>4, <1>5, <1>6, <1>7, <1>8, <1>9, <1>10, <1>11, <1>12, <1>13, <1>14, <1>15, <1>16, <1>17,
            <1>18, <1>19, <1>20, <1>21, <1>22, <1>23, <1>24, <1>25, <1>26, <1>27
     DEF Step, Call, Queue, Progress

\* How a step of c enters or leaves the lock, and what the counter guarantees
\* when it enters.
EnterLeaveOK(c, in, out) ==
  \/ in \in ReaderPcs /\ out \in ReaderPcs /\ in \notin WriterPcs /\ out \notin WriterPcs
  \/ in \in WriterPcs /\ out \in WriterPcs /\ in \notin ReaderPcs /\ out \notin ReaderPcs
  \/ {in, out} \cap (ReaderPcs \cup WriterPcs) = {}
  \/ Writers = {} /\ in \notin ReaderPcs \cup WriterPcs /\ out \in ReaderPcs \ WriterPcs
  \/ in \in ReaderPcs \ WriterPcs /\ out \notin ReaderPcs \cup WriterPcs
  \/ Readers = {} /\ Writers = {} /\ out \in WriterPcs \ ReaderPcs
  \/ in \in WriterPcs \ ReaderPcs /\ out \notin ReaderPcs \cup WriterPcs

\* Only the tests of the counter let a context in.
LEMMA EnterLeave ==
  ASSUME IInv, NEW c \in Ctx, Step(c)
  PROVE  EnterLeaveOK(c, pc[c], pc'[c])
<1> USE DEF Goto, At, EnterLeaveOK, ReaderPcs, WriterPcs
<1>1. c \in DOMAIN pc
  BY DEF IInv, TypeOK
<1>2. /\ cnts = 0 => Readers = {} /\ Writers = {}
      /\ cnts = 256 => Readers = {} /\ Writers = {}
      /\ wlocked(cnts) = 0 => Writers = {}
      /\ WMask(cnts + 512) = 0 => Writers = {}
  BY Tests DEF QR_BIAS, QW_WAITING
<1>3. CASE Interrupt(c)
  BY <1>1, <1>2, <1>3 DEF Interrupt
<1>4. CASE InterruptReturn(c)
  BY <1>1, <1>2, <1>4 DEF InterruptReturn
<1>5. CASE queued_read_lock(c)
  BY <1>1, <1>2, <1>5 DEF queued_read_lock, QR_BIAS
<1>6. CASE queued_read_trylock(c)
  BY <1>1, <1>2, <1>6 DEF queued_read_trylock
<1>7. CASE queued_write_lock(c)
  <2>1. CASE cnts = 0
    BY <1>1, <1>2, <1>7, <2>1 DEF queued_write_lock
  <2>2. CASE cnts # 0
    BY <1>1, <1>2, <1>7, <2>2 DEF queued_write_lock
  <2> QED BY <2>1, <2>2
<1>8. CASE queued_write_trylock(c)
  BY <1>1, <1>2, <1>8 DEF queued_write_trylock
<1>9. CASE read_slowpath_queue(c)
  BY <1>1, <1>2, <1>9 DEF read_slowpath_queue
<1>10. CASE write_slowpath_queue(c)
  BY <1>1, <1>2, <1>10 DEF write_slowpath_queue
<1>11. CASE read_slowpath_irq(c)
  BY <1>1, <1>2, <1>11 DEF read_slowpath_irq
<1>12. CASE read_slowpath_sub(c)
  BY <1>1, <1>2, <1>12 DEF read_slowpath_sub
<1>13. CASE read_slowpath_add(c)
  BY <1>1, <1>2, <1>13 DEF read_slowpath_add
<1>14. CASE read_slowpath_spin(c)
  BY <1>1, <1>2, <1>14 DEF read_slowpath_spin
<1>15. CASE read_slowpath_unlock(c)
  BY <1>1, <1>2, <1>15 DEF read_slowpath_unlock
<1>16. CASE queued_read_unlock(c)
  BY <1>1, <1>2, <1>16 DEF queued_read_unlock
<1>17. CASE read_trylock_add(c)
  BY <1>1, <1>2, <1>17 DEF read_trylock_add, QR_BIAS
<1>18. CASE read_trylock_sub(c)
  BY <1>1, <1>2, <1>18 DEF read_trylock_sub
<1>19. CASE write_slowpath_read(c)
  BY <1>1, <1>2, <1>19 DEF write_slowpath_read
<1>20. CASE write_slowpath_cas(c)
  <2>1. CASE cnts = 0
    BY <1>1, <1>2, <1>20, <2>1 DEF write_slowpath_cas
  <2>2. CASE cnts # 0
    BY <1>1, <1>2, <1>20, <2>2 DEF write_slowpath_cas
  <2> QED BY <2>1, <2>2
<1>21. CASE write_slowpath_add(c)
  BY <1>1, <1>2, <1>21 DEF write_slowpath_add
<1>22. CASE write_slowpath_spin(c)
  BY <1>1, <1>2, <1>22 DEF write_slowpath_spin
<1>23. CASE write_slowpath_lock(c)
  <2>1. CASE cnts = 256
    BY <1>1, <1>2, <1>23, <2>1 DEF write_slowpath_lock, QW_WAITING
  <2>2. CASE cnts # 256
    BY <1>1, <1>2, <1>23, <2>2 DEF write_slowpath_lock, QW_WAITING
  <2> QED BY <2>1, <2>2
<1>24. CASE write_slowpath_unlock(c)
  BY <1>1, <1>2, <1>24 DEF write_slowpath_unlock
<1>25. CASE queued_write_unlock(c)
  BY <1>1, <1>2, <1>25 DEF queued_write_unlock
<1>26. CASE write_trylock_cas(c)
  <2>1. CASE cnts = 0
    BY <1>1, <1>2, <1>26, <2>1 DEF write_trylock_cas
  <2>2. CASE cnts # 0
    BY <1>1, <1>2, <1>26, <2>2 DEF write_trylock_cas
  <2> QED BY <2>1, <2>2
<1> QED BY Zenon, <1>3, <1>4, <1>5, <1>6, <1>7, <1>8, <1>9, <1>10, <1>11, <1>12, <1>13, <1>14, <1>15, <1>16,
            <1>17, <1>18, <1>19, <1>20, <1>21, <1>22, <1>23, <1>24, <1>25, <1>26
     DEF Step, Call, Queue, Progress

\* What a step does to the holders: nothing, or one of the four steps of
\* RWLock.
HolderStep(c) ==
  \/ Readers' = Readers /\ Writers' = Writers
  \/ Writers = {} /\ Writers' = {} /\ c \notin Readers /\ Readers' = Readers \cup {c}
  \/ Writers' = Writers /\ c \in Readers /\ Readers' = Readers \ {c}
  \/ Readers = {} /\ Writers = {} /\ Readers' = {} /\ Writers' = {c}
  \/ Writers = {c} /\ Writers' = {} /\ Readers' = Readers

\* Every step acts on the holders as RWLock allows.
LEMMA HoldersMove ==
  ASSUME IInv, NEW c \in Ctx, Step(c)
  PROVE  HolderStep(c)
<1> DEFINE in == pc[c]
           out == pc'[c]
<1>1. /\ Readers' = IF out \in ReaderPcs THEN Readers \cup {c} ELSE Readers \ {c}
      /\ Writers' = IF out \in WriterPcs THEN Writers \cup {c} ELSE Writers \ {c}
      /\ c \in Readers <=> in \in ReaderPcs
      /\ c \in Writers <=> in \in WriterPcs
  <2>1. TypeOK /\ \A d \in Ctx : d # c => pc'[d] = pc[d]
    BY OneMoves DEF IInv, TypeOK
  <2> QED BY <2>1 DEF Readers, Writers
<1>2. \A d \in Writers : Writers = {d}
  BY DEF IInv, Exclusion
<1>3. EnterLeaveOK(c, in, out)
  BY EnterLeave
<1> HIDE DEF in, out
<1> QED BY <1>1, <1>2, <1>3 DEF HolderStep, EnterLeaveOK

\* The wait_lock and the program points agree.
LEMMA QueueStep ==
  ASSUME IInv, NEW c \in Ctx, Step(c)
  PROVE  /\ QueueHeadInv'
         /\ wait_lock' \in [{"wait_lock"} -> Ctx \cup {NoCtx}]
         /\ pc' \in [Ctx -> {"off", "idle"} \cup ReadPcs \cup WritePcs]
<1> USE DEF Goto, At, QueueHeadInv, QueueHeadPcs, WL!Acquire, WL!Release, ReadPcs, WritePcs
<1>1. QueueHeadInv /\ TypeOK
  BY DEF IInv
<1>2. /\ wait_lock \in [{"wait_lock"} -> Ctx \cup {NoCtx}]
      /\ pc \in [Ctx -> {"off", "idle"} \cup ReadPcs \cup WritePcs]
  BY <1>1 DEF TypeOK
<1>3. CASE Interrupt(c)
  BY <1>1, <1>2, NoCtxAssumption, <1>3 DEF Interrupt
<1>4. CASE InterruptReturn(c)
  BY <1>1, <1>2, NoCtxAssumption, <1>4 DEF InterruptReturn
<1>5. CASE queued_read_lock(c)
  BY <1>1, <1>2, NoCtxAssumption, <1>5 DEF queued_read_lock
<1>6. CASE queued_read_trylock(c)
  BY <1>1, <1>2, NoCtxAssumption, <1>6 DEF queued_read_trylock
<1>7. CASE queued_write_lock(c)
  <2>1. CASE cnts = 0
    BY <1>1, <1>2, NoCtxAssumption, <1>7, <2>1 DEF queued_write_lock
  <2>2. CASE cnts # 0
    BY <1>1, <1>2, NoCtxAssumption, <1>7, <2>2 DEF queued_write_lock
  <2> QED BY <2>1, <2>2
<1>8. CASE queued_write_trylock(c)
  BY <1>1, <1>2, NoCtxAssumption, <1>8 DEF queued_write_trylock
<1>9. CASE read_slowpath_queue(c)
  BY <1>1, <1>2, NoCtxAssumption, <1>9 DEF read_slowpath_queue
<1>10. CASE write_slowpath_queue(c)
  BY <1>1, <1>2, NoCtxAssumption, <1>10 DEF write_slowpath_queue
<1>11. CASE read_slowpath_irq(c)
  BY <1>1, <1>2, NoCtxAssumption, <1>11 DEF read_slowpath_irq
<1>12. CASE read_slowpath_sub(c)
  BY <1>1, <1>2, NoCtxAssumption, <1>12 DEF read_slowpath_sub
<1>13. CASE read_slowpath_add(c)
  BY <1>1, <1>2, NoCtxAssumption, <1>13 DEF read_slowpath_add
<1>14. CASE read_slowpath_spin(c)
  BY <1>1, <1>2, NoCtxAssumption, <1>14 DEF read_slowpath_spin
<1>15. CASE read_slowpath_unlock(c)
  BY <1>1, <1>2, NoCtxAssumption, <1>15 DEF read_slowpath_unlock
<1>16. CASE queued_read_unlock(c)
  BY <1>1, <1>2, NoCtxAssumption, <1>16 DEF queued_read_unlock
<1>17. CASE read_trylock_add(c)
  BY <1>1, <1>2, NoCtxAssumption, <1>17 DEF read_trylock_add
<1>18. CASE read_trylock_sub(c)
  BY <1>1, <1>2, NoCtxAssumption, <1>18 DEF read_trylock_sub
<1>19. CASE write_slowpath_read(c)
  BY <1>1, <1>2, NoCtxAssumption, <1>19 DEF write_slowpath_read
<1>20. CASE write_slowpath_cas(c)
  <2>1. CASE cnts = 0
    BY <1>1, <1>2, NoCtxAssumption, <1>20, <2>1 DEF write_slowpath_cas
  <2>2. CASE cnts # 0
    BY <1>1, <1>2, NoCtxAssumption, <1>20, <2>2 DEF write_slowpath_cas
  <2> QED BY <2>1, <2>2
<1>21. CASE write_slowpath_add(c)
  BY <1>1, <1>2, NoCtxAssumption, <1>21 DEF write_slowpath_add
<1>22. CASE write_slowpath_spin(c)
  BY <1>1, <1>2, NoCtxAssumption, <1>22 DEF write_slowpath_spin
<1>23. CASE write_slowpath_lock(c)
  <2>1. CASE cnts = 256
    BY <1>1, <1>2, NoCtxAssumption, <1>23, <2>1 DEF write_slowpath_lock
  <2>2. CASE cnts # 256
    BY <1>1, <1>2, NoCtxAssumption, <1>23, <2>2 DEF write_slowpath_lock
  <2> QED BY <2>1, <2>2
<1>24. CASE write_slowpath_unlock(c)
  BY <1>1, <1>2, NoCtxAssumption, <1>24 DEF write_slowpath_unlock
<1>25. CASE queued_write_unlock(c)
  BY <1>1, <1>2, NoCtxAssumption, <1>25 DEF queued_write_unlock
<1>26. CASE write_trylock_cas(c)
  <2>1. CASE cnts = 0
    BY <1>1, <1>2, NoCtxAssumption, <1>26, <2>1 DEF write_trylock_cas
  <2>2. CASE cnts # 0
    BY <1>1, <1>2, NoCtxAssumption, <1>26, <2>2 DEF write_trylock_cas
  <2> QED BY <2>1, <2>2
<1> QED BY <1>3, <1>4, <1>5, <1>6, <1>7, <1>8, <1>9, <1>10, <1>11, <1>12, <1>13, <1>14, <1>15, <1>16,
            <1>17, <1>18, <1>19, <1>20, <1>21, <1>22, <1>23, <1>24, <1>25, <1>26
     DEF Step, Call, Queue, Progress

-----------------------------------------------------------------------------
\* The program starts with nobody inside.
LEMMA InitIInv == Init => IInv
<1> SUFFICES ASSUME Init PROVE IInv
  OBVIOUS
<1> USE DEF Init
<1>1. TypeOK
  BY DEF TypeOK, WL!Init
<1>2. QueueHeadInv
  BY NoCtxAssumption DEF QueueHeadInv, QueueHeadPcs, WL!Init
<1>3. Counted = {} /\ Waiting = {} /\ Writers = {}
  BY DEF Counted, Waiting, Writers, CountedPcs, WaitingPcs, WriterPcs
<1>4. CountExact
  BY <1>3, FS_EmptySet DEF CountExact, QR_BIAS, QW_WAITING, QW_LOCKED
<1> QED BY <1>1, <1>2, <1>3, <1>4 DEF IInv, Exclusion

\* Every step of the code keeps the inductive invariant.
LEMMA NextIInv == IInv /\ [Next]_vars => IInv'
<1> SUFFICES ASSUME IInv, [Next]_vars PROVE IInv'
  OBVIOUS
<1>1. CASE UNCHANGED vars
  BY <1>1 DEF vars, IInv, TypeOK, QueueHeadInv, CountExact, Exclusion, Counted, Waiting,
     Writers, Readers
<1>2. ASSUME NEW c \in Ctx, Step(c) PROVE IInv'
  <2>1. cnts' \in Nat /\ CountExact'
    BY <1>2, CountStep
  <2>2. TypeOK' /\ QueueHeadInv'
    BY <1>2, <2>1, QueueStep DEF TypeOK
  <2>3. Exclusion'
    BY <1>2, HoldersMove DEF HolderStep, IInv, Exclusion
  <2> QED BY <2>1, <2>2, <2>3 DEF IInv
<1> QED BY <1>1, <1>2 DEF Next, Step

\* The inductive invariant of qrwlock.c holds in every reachable state.
THEOREM IInvInvariant == Spec => []IInv
BY InitIInv, NextIInv, PTL DEF Spec

\* The counter, the wait lock and the locals of qrwlock.c keep their types; the
\* counter never goes below zero.
THEOREM TypeOKHolds == Spec => []TypeOK
<1>1. IInv => TypeOK
  BY DEF IInv
<1> QED BY <1>1, IInvInvariant, PTL

\* A writer never shares the lock, however the fast paths, the queue and the
\* interrupt readers interleave.
THEOREM ExclusionHolds == Spec => []Exclusion
<1>1. IInv => Exclusion
  BY DEF IInv
<1> QED BY <1>1, IInvInvariant, PTL

\* cnts is exactly the readers, the waiting writer and the writer, so that no
\* field ever carries into another.
THEOREM CountExactHolds == Spec => []CountExact
<1>1. IInv => CountExact
  BY DEF IInv
<1> QED BY <1>1, IInvInvariant, PTL

\* One step of the code is one step of RWLock, or none.
LEMMA StepRefines ==
  ASSUME IInv, IInv', NEW c \in Ctx, Step(c)
  PROVE  [RW!Next]_<<rd, wr>>
<1>1. HolderStep(c)
  BY HoldersMove
<1>2. /\ Writers = {} => wr = NoCtx
      /\ Writers = {c} => wr = c
      /\ Writers' = {} => wr' = NoCtx
      /\ Writers' = {c} => wr' = c
      /\ Writers' = Writers => wr' = wr
  <2>1. Writers' = Writers => wr' = wr
    BY DEF wr
  <2>2. ASSUME NEW S, NEW x, S = {x} PROVE (CHOOSE d \in S : TRUE) = x
    BY <2>2
  <2> QED BY <2>1, <2>2 DEF wr, OneOf
<1> USE DEF rd
<1>3. CASE Readers' = Readers /\ Writers' = Writers
  BY <1>2, <1>3
<1>4. CASE Writers = {} /\ Writers' = {} /\ c \notin Readers /\ Readers' = Readers \cup {c}
  BY <1>2, <1>4 DEF RW!Next, RW!ReadLock
<1>5. CASE Writers' = Writers /\ c \in Readers /\ Readers' = Readers \ {c}
  BY <1>2, <1>5 DEF RW!Next, RW!ReadUnlock
<1>6. CASE Readers = {} /\ Writers = {} /\ Readers' = {} /\ Writers' = {c}
  BY <1>2, <1>6 DEF RW!Next, RW!WriteLock
<1>7. CASE Writers = {c} /\ Writers' = {} /\ Readers' = Readers
  BY <1>2, <1>7 DEF RW!Next, RW!WriteUnlock
<1> QED BY <1>1, <1>3, <1>4, <1>5, <1>6, <1>7 DEF HolderStep

\* qrwlock.c implements a reader/writer lock: every execution of it is, through
\* the contexts that hold it, an execution of RWLock.
THEOREM QRWLockRefines == Spec => ImplementsRWLock
<1>1. Init => RW!Init
  BY DEF Init, RW!Init, rd, wr, OneOf, Readers, Writers, ReaderPcs, WriterPcs
<1>2. IInv /\ IInv' /\ [Next]_vars => [RW!Next]_<<rd, wr>>
  <2> SUFFICES ASSUME IInv, IInv', [Next]_vars PROVE [RW!Next]_<<rd, wr>>
    OBVIOUS
  <2>1. CASE UNCHANGED vars
    BY <2>1 DEF vars, rd, wr, Readers, Writers
  <2> QED BY <2>1, StepRefines DEF Next, Step
<1> QED BY <1>1, <1>2, IInvInvariant, PTL DEF Spec, ImplementsRWLock, RW!Spec
=============================================================================
