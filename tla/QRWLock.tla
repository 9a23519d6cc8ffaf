------------------------------- MODULE QRWLock -------------------------------
(***************************************************************************)
(* The queued reader/writer lock of kernel/locking/qrwlock.c with the fast *)
(* paths of include/asm-generic/qrwlock.h.                                 *)
(*                                                                         *)
(* The lock is one 32-bit counter, cnts, and a spinlock, wait_lock.  The   *)
(* low byte of cnts (wlocked) is 0xff while a writer holds the lock, bit 8 *)
(* says that a writer waits, and the bits above count the readers.  The    *)
(* wait_lock is a queued spinlock; SpinLock, which QSpinLock implements,   *)
(* stands for it here.                                                     *)
(*                                                                         *)
(* A context is a <<cpu, level>> pair, level 0 the task and level 1 an     *)
(* interrupt handler of the CPU.  Handlers only read; whoever takes the    *)
(* lock for write does so with interrupts masked (write_lock_irq()), while *)
(* readers may be interrupted.                                             *)
(***************************************************************************)
EXTENDS Integers, FiniteSets

CONSTANTS Ctx,     \* the contexts, <<cpu, level>> pairs
          NoCtx    \* nobody

ASSUME CtxAssumption == IsFiniteSet(Ctx) /\ Ctx \subseteq (Nat \X {0, 1})
ASSUME NoCtxAssumption == NoCtx \notin Ctx

VARIABLES cnts,       \* lock->cnts
          wait_lock,  \* the holder of lock->wait_lock
          pc          \* where each context is

vars == <<cnts, wait_lock, pc>>

QW_WAITING == 256
QW_LOCKED  == 255
QR_BIAS    == 512

\* cnts & _QW_WMASK, cnts & _QW_LOCKED
WMask(v)   == v % 512
wlocked(v) == v % 256

WL == INSTANCE SpinLock WITH Locks <- {"wait_lock"}, NoHolder <- NoCtx,
                             holder <- wait_lock

in_interrupt(c) == c[2] > 0

Runs(c) == \A d \in Ctx : d[1] = c[1] /\ d[2] > c[2] => pc[d] = "off"

At(c, l) == pc[c] = l /\ Runs(c)
Goto(c, l) == pc' = [pc EXCEPT ![c] = l]

\* The points of the write side, where interrupts are masked.
WritePcs == {"wt_cas", "w_wait", "w_read", "w_cas", "w_add", "w_spin", "w_lock",
             "w_unlock", "writing"}

Init ==
  /\ cnts = 0
  /\ WL!Init
  /\ pc = [c \in Ctx |-> IF in_interrupt(c) THEN "off" ELSE "idle"]

-----------------------------------------------------------------------------
Interrupt(c) ==
  /\ At(c, "off")
  /\ \A d \in Ctx : d[1] = c[1] => pc[d] \notin WritePcs
  /\ Goto(c, "idle")
  /\ UNCHANGED <<cnts, wait_lock>>

InterruptReturn(c) ==
  /\ At(c, "idle")
  /\ in_interrupt(c)
  /\ Goto(c, "off")
  /\ UNCHANGED <<cnts, wait_lock>>

-----------------------------------------------------------------------------
(***************************************************************************)
(* Readers.                                                                *)
(***************************************************************************)
\* Mutant: readers pass a waiting writer.
queued_read_lock_barging(c) ==
  /\ At(c, "idle")
  /\ cnts' = cnts + QR_BIAS
  /\ Goto(c, IF wlocked(cnts') = 0 THEN "reading"
             ELSE IF in_interrupt(c) THEN "r_irq" ELSE "r_sub")
  /\ UNCHANGED wait_lock

\* atomic_add_return(), then the branch on the writer bits of the result.
queued_read_lock(c) ==
  /\ At(c, "idle")
  /\ cnts' = cnts + QR_BIAS
  /\ Goto(c, IF WMask(cnts') = 0 THEN "reading"
             ELSE IF in_interrupt(c) THEN "r_irq" ELSE "r_sub")
  /\ UNCHANGED wait_lock

\* Mutant: an interrupt handler waits for the waiting writer too.
read_slowpath_irq_queued(c) ==
  /\ At(c, "r_irq")
  /\ WMask(cnts) = 0
  /\ Goto(c, "reading")
  /\ UNCHANGED <<cnts, wait_lock>>

\* An interrupt handler waits for the writer only, not for the queue.
read_slowpath_irq(c) ==
  /\ At(c, "r_irq")
  /\ wlocked(cnts) = 0
  /\ Goto(c, "reading")
  /\ UNCHANGED <<cnts, wait_lock>>

\* A task takes its count back and queues on the wait_lock.
read_slowpath_sub(c) ==
  /\ At(c, "r_sub")
  /\ cnts' = cnts - QR_BIAS
  /\ Goto(c, "r_wait")
  /\ UNCHANGED wait_lock

read_slowpath_queue(c) ==
  /\ At(c, "r_wait")
  /\ WL!Acquire(c, "wait_lock")
  /\ Goto(c, "r_add")
  /\ UNCHANGED cnts

\* Mutant: the queued reader does not count itself again.
read_slowpath_no_add(c) ==
  /\ At(c, "r_add")
  /\ Goto(c, "r_spin")
  /\ UNCHANGED <<cnts, wait_lock>>

read_slowpath_add(c) ==
  /\ At(c, "r_add")
  /\ cnts' = cnts + QR_BIAS
  /\ Goto(c, "r_spin")
  /\ UNCHANGED wait_lock

read_slowpath_spin(c) ==
  /\ At(c, "r_spin")
  /\ wlocked(cnts) = 0
  /\ Goto(c, "r_unlock")
  /\ UNCHANGED <<cnts, wait_lock>>

read_slowpath_unlock(c) ==
  /\ At(c, "r_unlock")
  /\ WL!Release(c, "wait_lock")
  /\ Goto(c, "reading")
  /\ UNCHANGED cnts

queued_read_unlock(c) ==
  /\ At(c, "reading")
  /\ cnts' = cnts - QR_BIAS
  /\ Goto(c, "idle")
  /\ UNCHANGED wait_lock

\* A read, an addition, and a subtraction when a writer came in between.
queued_read_trylock(c) ==
  /\ At(c, "idle")
  /\ WMask(cnts) = 0
  /\ Goto(c, "rt_add")
  /\ UNCHANGED <<cnts, wait_lock>>

read_trylock_add(c) ==
  /\ At(c, "rt_add")
  /\ cnts' = cnts + QR_BIAS
  /\ Goto(c, IF WMask(cnts') = 0 THEN "reading" ELSE "rt_sub")
  /\ UNCHANGED wait_lock

\* Mutant: the failed attempt stays counted.
read_trylock_no_sub(c) ==
  /\ At(c, "rt_sub")
  /\ Goto(c, "idle")
  /\ UNCHANGED <<cnts, wait_lock>>

read_trylock_sub(c) ==
  /\ At(c, "rt_sub")
  /\ cnts' = cnts - QR_BIAS
  /\ Goto(c, "idle")
  /\ UNCHANGED wait_lock

-----------------------------------------------------------------------------
(***************************************************************************)
(* Writers: tasks only.                                                    *)
(***************************************************************************)
\* One compare-and-exchange of 0 for _QW_LOCKED.
queued_write_lock(c) ==
  /\ At(c, "idle") /\ ~in_interrupt(c)
  /\ IF cnts = 0 THEN cnts' = QW_LOCKED /\ Goto(c, "writing")
                 ELSE UNCHANGED cnts /\ Goto(c, "w_wait")
  /\ UNCHANGED wait_lock

write_slowpath_queue(c) ==
  /\ At(c, "w_wait")
  /\ WL!Acquire(c, "wait_lock")
  /\ Goto(c, "w_read")
  /\ UNCHANGED cnts

write_slowpath_read(c) ==
  /\ At(c, "w_read")
  /\ Goto(c, IF cnts = 0 THEN "w_cas" ELSE "w_add")
  /\ UNCHANGED <<cnts, wait_lock>>

write_slowpath_cas(c) ==
  /\ At(c, "w_cas")
  /\ IF cnts = 0 THEN cnts' = QW_LOCKED /\ Goto(c, "w_unlock")
                 ELSE UNCHANGED cnts /\ Goto(c, "w_add")
  /\ UNCHANGED wait_lock

write_slowpath_add(c) ==
  /\ At(c, "w_add")
  /\ cnts' = cnts + QW_WAITING
  /\ Goto(c, "w_spin")
  /\ UNCHANGED wait_lock

write_slowpath_spin(c) ==
  /\ At(c, "w_spin")
  /\ cnts = QW_WAITING
  /\ Goto(c, "w_lock")
  /\ UNCHANGED <<cnts, wait_lock>>

\* Mutant: a store instead of the compare-and-exchange.
write_slowpath_store(c) ==
  /\ At(c, "w_lock")
  /\ cnts' = QW_LOCKED
  /\ Goto(c, "w_unlock")
  /\ UNCHANGED wait_lock

write_slowpath_lock(c) ==
  /\ At(c, "w_lock")
  /\ IF cnts = QW_WAITING THEN cnts' = QW_LOCKED /\ Goto(c, "w_unlock")
                          ELSE UNCHANGED cnts /\ Goto(c, "w_spin")
  /\ UNCHANGED wait_lock

write_slowpath_unlock(c) ==
  /\ At(c, "w_unlock")
  /\ WL!Release(c, "wait_lock")
  /\ Goto(c, "writing")
  /\ UNCHANGED cnts

\* A byte store: smp_store_release(&lock->wlocked, 0).
queued_write_unlock(c) ==
  /\ At(c, "writing")
  /\ cnts' = cnts - wlocked(cnts)
  /\ Goto(c, "idle")
  /\ UNCHANGED wait_lock

queued_write_trylock(c) ==
  /\ At(c, "idle") /\ ~in_interrupt(c)
  /\ cnts = 0
  /\ Goto(c, "wt_cas")
  /\ UNCHANGED <<cnts, wait_lock>>

write_trylock_cas(c) ==
  /\ At(c, "wt_cas")
  /\ IF cnts = 0 THEN cnts' = QW_LOCKED /\ Goto(c, "writing")
                 ELSE UNCHANGED cnts /\ Goto(c, "idle")
  /\ UNCHANGED wait_lock

-----------------------------------------------------------------------------
\* The steps a context owes once it has called into the lock.
Progress(c) ==
  \/ read_slowpath_irq(c) \/ read_slowpath_sub(c) \/ read_slowpath_add(c)
  \/ read_slowpath_spin(c) \/ read_slowpath_unlock(c) \/ queued_read_unlock(c)
  \/ read_trylock_add(c) \/ read_trylock_sub(c)
  \/ write_slowpath_read(c) \/ write_slowpath_cas(c) \/ write_slowpath_add(c)
  \/ write_slowpath_spin(c) \/ write_slowpath_lock(c) \/ write_slowpath_unlock(c)
  \/ queued_write_unlock(c) \/ write_trylock_cas(c)

Queue(c) == read_slowpath_queue(c) \/ write_slowpath_queue(c)

Call(c) ==
  \/ Interrupt(c) \/ InterruptReturn(c)
  \/ queued_read_lock(c) \/ queued_read_trylock(c)
  \/ queued_write_lock(c) \/ queued_write_trylock(c)

Next == \E c \in Ctx : Call(c) \/ Queue(c) \/ Progress(c)

Spec == Init /\ [][Next]_vars

(***************************************************************************)
(* Fairness: a context inside the lock keeps executing, a handler takes    *)
(* the lock finitely often before it returns, and whoever waits for the    *)
(* wait_lock gets it, which is what LockAcquired of QSpinLock says of the  *)
(* queued spinlock.                                                        *)
(***************************************************************************)
Fairness ==
  \A c \in Ctx : /\ WF_vars(Progress(c))
                 /\ SF_vars(Queue(c))
                 /\ SF_vars(InterruptReturn(c))

FairSpec == Spec /\ Fairness

-----------------------------------------------------------------------------
ReadPcs == {"reading", "r_irq", "r_sub", "r_wait", "r_add", "r_spin", "r_unlock",
            "rt_add", "rt_sub"}

\* Every variable keeps its type.
TypeOK ==
  /\ cnts \in Nat
  /\ wait_lock \in [{"wait_lock"} -> Ctx \cup {NoCtx}]
  /\ pc \in [Ctx -> {"off", "idle"} \cup ReadPcs \cup WritePcs]

\* A context holds the lock from the access that gave it the lock.
ReaderPcs == {"r_unlock", "reading"}
WriterPcs == {"w_unlock", "writing"}
Readers == {c \in Ctx : pc[c] \in ReaderPcs}
Writers == {c \in Ctx : pc[c] \in WriterPcs}

\* A writer excludes readers and other writers (qrwlock.h, the fast paths
\* against the slow paths of qrwlock.c).
Exclusion ==
  \A c \in Writers : Readers = {} /\ Writers = {c}

\* Contexts whose _QR_BIAS is in the count, waiting writers.
CountedPcs == {"reading", "r_irq", "r_sub", "r_spin", "r_unlock", "rt_sub"}
WaitingPcs == {"w_spin", "w_lock"}
Counted == {c \in Ctx : pc[c] \in CountedPcs}
Waiting == {c \in Ctx : pc[c] \in WaitingPcs}

\* The counter says exactly who is inside: the transient additions of
\* failed readers are all taken back, and the fields never carry into
\* each other.
CountExact ==
  cnts = QR_BIAS * Cardinality(Counted) + QW_WAITING * Cardinality(Waiting)
         + QW_LOCKED * Cardinality(Writers)

\* A reader in interrupt context gets the lock even when it interrupted a
\* reader that a waiting writer waits for (the comment of
\* queued_read_lock_slowpath): it never queues behind that writer.
InterruptReaderServed ==
  \A c \in Ctx : pc[c] = "r_irq" ~> pc[c] = "reading"

\* No writer and no queueing reader starves, however many readers and writers
\* come and go, when interrupt handlers are finitely many.
TasksServed ==
  <>[][\A c \in Ctx : ~ Interrupt(c)]_vars =>
    \A c \in Ctx : /\ pc[c] = "w_wait" ~> pc[c] = "writing"
                   /\ pc[c] = "r_sub" ~> pc[c] = "reading"

-----------------------------------------------------------------------------
\* The contexts at these points hold the wait_lock.
QueueHeadPcs == {"r_add", "r_spin", "r_unlock", "w_read", "w_cas", "w_add", "w_spin",
                 "w_lock", "w_unlock"}
QueueHeadInv ==
  \A c \in Ctx : pc[c] \in QueueHeadPcs <=> wait_lock["wait_lock"] = c

\* The inductive invariant behind Exclusion: the counter accounts for
\* everybody, and the wait_lock admits one context to the slow paths.
IInv == TypeOK /\ QueueHeadInv /\ CountExact /\ Exclusion

\* The abstract lock: the readers and the writer.
rd == Readers
OneOf(S) == IF S = {} THEN NoCtx ELSE CHOOSE c \in S : TRUE
wr == OneOf(Writers)
RW == INSTANCE RWLock WITH NoWriter <- NoCtx

\* Each step of the queued rwlock is a step of RWLock or none.
ImplementsRWLock == RW!Spec
=============================================================================
