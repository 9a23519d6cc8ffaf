------------------------------ MODULE QSpinLock ------------------------------
(***************************************************************************)
(* The queued spinlock of kernel/locking/qspinlock.c with the fast paths   *)
(* of include/asm-generic/qspinlock.h, in the configuration the arm64      *)
(* build uses: _Q_PENDING_BITS = 8 (NR_CPUS < 2^14), no paravirt hooks.    *)
(*                                                                         *)
(* A lock is one 32-bit word with three independently addressable fields,  *)
(* locked (u8), pending (u8) and tail (u16).  Contenders beyond the first  *)
(* queue on per-CPU MCS nodes; the tail field names the last of them.      *)
(*                                                                         *)
(* A context is a <<cpu, level>> pair.  Level 0 is the task, the others    *)
(* are the interrupt contexts (softirq, hardirq, nmi) that may nest on     *)
(* top of it; only the highest active level of a CPU executes.  All the    *)
(* contexts of a CPU share its MAX_NODES queue nodes.                      *)
(*                                                                         *)
(* A local that the code reads no more gets its initial value back, so     *)
(* that states differ only in what matters.                                *)
(*                                                                         *)
(* Every step is one access to shared memory (or a local step between two  *)
(* of them).  Memory is sequentially consistent here: the acquire/release  *)
(* and smp_wmb() annotations of the code are what makes it so for the      *)
(* locations involved.                                                     *)
(***************************************************************************)
EXTENDS Integers

CONSTANTS NR_CPUS,    \* number of CPUs
          Ctx,        \* the contexts that take locks, <<cpu, level>> pairs
          Locks,      \* the locks
          Users,      \* Users[k]: the contexts that ever take lock k
          LockLevel,  \* LockLevel[k]: the level up to which whoever takes k
                      \* masks interrupts first
          NULL        \* the null struct mcs_spinlock pointer

MAX_NODES == 4

CPU  == 0 .. NR_CPUS - 1
Level == 0 .. MAX_NODES - 1   \* task, softirq, hardirq, nmi
Node == CPU \X (0 .. MAX_NODES - 1)

ASSUME NrCpusAssumption ==
  /\ NR_CPUS \in Nat
  /\ 0 < NR_CPUS /\ NR_CPUS < 16384    \* the BUILD_BUG_ON of the slow path
ASSUME CtxAssumption == Ctx \subseteq CPU \X Level
ASSUME LockLevelAssumption ==
  /\ LockLevel \in [Locks -> Level]
  /\ Users \in [Locks -> SUBSET Ctx]
  /\ \A k \in Locks : \A c \in Users[k] : c[2] <= LockLevel[k]
ASSUME NullAssumption == NULL \notin Node \cup Ctx \cup Locks

VARIABLES
  locked,   \* locked[k], pending[k], tail[k] : the fields of the lock word
  pending,
  tail,
  mnext,    \* mnext[n], mlocked[n] : the MCS node n, next pointer and flag
  mlocked,
  count,    \* count[cpu] : qnodes[0].mcs.count, nodes in use on the CPU
  pc,       \* pc[c]   : where context c is in the code
  lock,     \* lock[c] : the lock c is taking or holding, NULL when idle
  val,      \* val[c]  : the local val, the lock word last read
  idx,      \* idx[c]  : the local idx, which of the CPU's nodes c uses
  prev,     \* prev[c] : the local prev, the node queued just before
  next,     \* next[c] : the local next, the node queued just behind
  ahead     \* ahead[c] : the contexts queued before c (history variable)

word == <<locked, pending, tail>>
mcs  == <<mnext, mlocked, count>>
locals == <<lock, val, idx, prev, next>>
vars == <<word, mcs, pc, locals, ahead>>

cpu_of(c)   == c[1]
level_of(c) == c[2]

(***************************************************************************)
(* The lock word.                                                          *)
(***************************************************************************)
Word(k) == [tail |-> tail[k], pending |-> pending[k], locked |-> locked[k]]
Unlocked == [tail |-> 0, pending |-> 0, locked |-> 0]
PendingVal == [tail |-> 0, pending |-> 1, locked |-> 0]

\* val & ~_Q_LOCKED_MASK
Contended(v) == v.tail # 0 \/ v.pending # 0

\* The CPU number is stored plus one so that tail 0 means an empty queue.
encode_tail(cpu, i) == (cpu + 1) * MAX_NODES + i
\* Mutant: the CPU number is not taken back down.
decode_tail_plus_one(t) == <<t \div MAX_NODES, t % MAX_NODES>>

decode_tail(t) == <<(t \div MAX_NODES) - 1, t % MAX_NODES>>

my_node(c) == <<cpu_of(c), idx[c]>>
my_tail(c) == encode_tail(cpu_of(c), idx[c])

\* Where the slow path goes once it holds a value of the word.
AfterRead(v) == IF Contended(v) THEN "queue" ELSE "set_pending"

(***************************************************************************)
(* Which context of a CPU executes: the highest active level.              *)
(***************************************************************************)
Runs(c) == \A d \in Ctx : cpu_of(d) = cpu_of(c) /\ level_of(d) > level_of(c)
                            => pc[d] = "off"

At(c, l) == pc[c] = l /\ Runs(c)
Goto(c, l) == pc' = [pc EXCEPT ![c] = l]

\* The contexts in lock k's MCS queue: from the exchange of the tail until
\* the queue is left, by clearing the tail or by handing over to the next.
QueuePcs == {"link", "wait_node", "read_next", "wait_head", "claim",
             "set_locked", "wait_next", "hand_over"}
Members(k) == {c \in Ctx : lock[c] = k /\ pc[c] \in QueuePcs}

-----------------------------------------------------------------------------
Init ==
  /\ locked  = [k \in Locks |-> 0]
  /\ pending = [k \in Locks |-> 0]
  /\ tail    = [k \in Locks |-> 0]
  /\ mnext   = [n \in Node |-> NULL]
  /\ mlocked = [n \in Node |-> 0]
  /\ count   = [p \in CPU |-> 0]
  /\ pc      = [c \in Ctx |-> IF level_of(c) = 0 THEN "idle" ELSE "off"]
  /\ lock    = [c \in Ctx |-> NULL]
  /\ val     = [c \in Ctx |-> Unlocked]
  /\ idx     = [c \in Ctx |-> 0]
  /\ prev    = [c \in Ctx |-> NULL]
  /\ next    = [c \in Ctx |-> NULL]
  /\ ahead   = [c \in Ctx |-> {}]

-----------------------------------------------------------------------------
(***************************************************************************)
(* Interrupts.  An interrupt of some level is taken on top of lower levels *)
(* unless one of them has masked it: a context that takes or holds lock k  *)
(* entered through spin_lock_irqsave() (or has no need to, when no         *)
(* interrupt handler uses k).                                              *)
(***************************************************************************)
Interrupt(c) ==
  /\ pc[c] = "off"
  /\ Runs(c)
  /\ \A d \in Ctx : /\ cpu_of(d) = cpu_of(c)
                    /\ pc[d] \notin {"off", "idle"}
                    => LockLevel[lock[d]] < level_of(c)
  /\ Goto(c, "idle")
  /\ UNCHANGED <<word, mcs, locals, ahead>>

InterruptReturn(c) ==
  /\ At(c, "idle")
  /\ level_of(c) > 0
  /\ Goto(c, "off")
  /\ UNCHANGED <<word, mcs, locals, ahead>>

-----------------------------------------------------------------------------
(***************************************************************************)
(* queued_spin_trylock() and queued_spin_lock(): one compare-and-exchange  *)
(* of the whole word.  A failed trylock changes nothing; a failed lock     *)
(* enters the slow path with the value it saw.                             *)
(***************************************************************************)
\* Mutant: only the locked byte is tested.
queued_spin_trylock_byte(c, k) ==
  /\ At(c, "idle")
  /\ c \in Users[k]
  /\ locked[k] = 0
  /\ locked' = [locked EXCEPT ![k] = 1]
  /\ lock' = [lock EXCEPT ![c] = k]
  /\ Goto(c, "held")
  /\ UNCHANGED <<pending, tail, mcs, val, idx, prev, next, ahead>>

queued_spin_trylock(c, k) ==
  /\ At(c, "idle")
  /\ c \in Users[k]
  /\ Word(k) = Unlocked
  /\ locked' = [locked EXCEPT ![k] = 1]
  /\ lock' = [lock EXCEPT ![c] = k]
  /\ Goto(c, "held")
  /\ UNCHANGED <<pending, tail, mcs, val, idx, prev, next, ahead>>

queued_spin_lock(c, k) ==
  /\ At(c, "idle")
  /\ c \in Users[k]
  /\ Word(k) # Unlocked
  /\ lock' = [lock EXCEPT ![c] = k]
  /\ Goto(c, IF Word(k) = PendingVal THEN "spin_pending" ELSE AfterRead(Word(k)))
  /\ UNCHANGED <<word, mcs, val, idx, prev, next, ahead>>

\* The bounded wait for a pending->locked hand-over: what leaves the loop is
\* some later value of the word, a pending one too when the loop count ends.
spin_pending(c) ==
  /\ At(c, "spin_pending")
  /\ Goto(c, AfterRead(Word(lock[c])))
  /\ UNCHANGED <<word, mcs, locals, ahead>>

\* queued_fetch_set_pending_acquire() and the branches on what it returned.
set_pending(c) ==
  LET k == lock[c] IN
  /\ At(c, "set_pending")
  /\ pending' = [pending EXCEPT ![k] = 1]
  /\ Goto(c, IF Contended(Word(k))
             THEN IF pending[k] = 0 THEN "undo_pending" ELSE "queue"
             ELSE IF locked[k] = 1 THEN "wait_owner" ELSE "take_pending")
  /\ UNCHANGED <<locked, tail, mcs, locals, ahead>>

\* clear_pending() when somebody else was already contending.
undo_pending(c) ==
  /\ At(c, "undo_pending")
  /\ pending' = [pending EXCEPT ![lock[c]] = 0]
  /\ Goto(c, "queue")
  /\ UNCHANGED <<locked, tail, mcs, locals, ahead>>

\* Mutant: does not wait for the owner.
wait_owner_no_wait(c) ==
  /\ At(c, "wait_owner")
  /\ Goto(c, "take_pending")
  /\ UNCHANGED <<word, mcs, locals, ahead>>

\* Mutant: spins until the rest of the word is zero, the tail included.
wait_owner_word(c) ==
  /\ At(c, "wait_owner")
  /\ IF locked[lock[c]] = 0 /\ tail[lock[c]] = 0 THEN Goto(c, "take_pending") ELSE UNCHANGED pc
  /\ UNCHANGED <<word, mcs, locals, ahead>>

\* The pending context waits for the owner to go away.
wait_owner(c) ==
  /\ At(c, "wait_owner")
  /\ locked[lock[c]] = 0
  /\ Goto(c, "take_pending")
  /\ UNCHANGED <<word, mcs, locals, ahead>>

\* One 16-bit store: pending goes to 0 and locked to 1 together.
clear_pending_set_locked(c) ==
  /\ At(c, "take_pending")
  /\ pending' = [pending EXCEPT ![lock[c]] = 0]
  /\ locked' = [locked EXCEPT ![lock[c]] = 1]
  /\ Goto(c, "held")
  /\ UNCHANGED <<tail, mcs, locals, ahead>>

-----------------------------------------------------------------------------
(***************************************************************************)
(* The MCS queue.                                                          *)
(***************************************************************************)
\* Mutant: the count is read but not incremented.
grab_mcs_node_no_count(c) ==
  /\ At(c, "queue")
  /\ idx' = [idx EXCEPT ![c] = count[cpu_of(c)]]
  /\ Goto(c, "init_node")
  /\ UNCHANGED <<word, mcs, lock, val, prev, next, ahead>>

\* idx = node->count++.  An interrupt may follow before the node is
\* initialised; it then uses the nodes above.
grab_mcs_node(c) ==
  /\ At(c, "queue")
  /\ idx' = [idx EXCEPT ![c] = count[cpu_of(c)]]
  /\ count' = [count EXCEPT ![cpu_of(c)] = @ + 1]
  /\ Goto(c, "init_node")
  /\ UNCHANGED <<word, mnext, mlocked, lock, val, prev, next, ahead>>

init_node(c) ==
  /\ At(c, "init_node")
  /\ mlocked' = [mlocked EXCEPT ![my_node(c)] = 0]
  /\ mnext' = [mnext EXCEPT ![my_node(c)] = NULL]
  /\ Goto(c, "try_again")
  /\ UNCHANGED <<word, count, locals, ahead>>

\* One more trylock before the node is published.
try_again_won(c) ==
  /\ At(c, "try_again")
  /\ Word(lock[c]) = Unlocked
  /\ locked' = [locked EXCEPT ![lock[c]] = 1]
  /\ Goto(c, "release_node")
  /\ UNCHANGED <<pending, tail, mcs, locals, ahead>>

try_again_lost(c) ==
  /\ At(c, "try_again")
  /\ Word(lock[c]) # Unlocked
  /\ Goto(c, "xchg_tail")
  /\ UNCHANGED <<word, mcs, locals, ahead>>

xchg_tail(c) ==
  LET old == tail[lock[c]] IN
  /\ At(c, "xchg_tail")
  /\ tail' = [tail EXCEPT ![lock[c]] = my_tail(c)]
  /\ next' = [next EXCEPT ![c] = NULL]
  /\ ahead' = [ahead EXCEPT ![c] = Members(lock[c])]
  /\ prev' = [prev EXCEPT ![c] = IF old = 0 THEN NULL ELSE decode_tail(old)]
  /\ Goto(c, IF old = 0 THEN "wait_head" ELSE "link")
  /\ UNCHANGED <<locked, pending, mcs, lock, val, idx>>

\* WRITE_ONCE(prev->next, node)
link_node(c) ==
  /\ At(c, "link")
  /\ mnext' = [mnext EXCEPT ![prev[c]] = my_node(c)]
  /\ prev' = [prev EXCEPT ![c] = NULL]
  /\ Goto(c, "wait_node")
  /\ UNCHANGED <<word, mlocked, count, lock, val, idx, next, ahead>>

\* Mutant: does not wait for the hand-over.
mcs_spin_lock_no_wait(c) ==
  /\ At(c, "wait_node")
  /\ Goto(c, "read_next")
  /\ UNCHANGED <<word, mcs, locals, ahead>>

\* arch_mcs_spin_lock_contended(&node->locked)
mcs_spin_lock_contended(c) ==
  /\ At(c, "wait_node")
  /\ mlocked[my_node(c)] = 1
  /\ Goto(c, "read_next")
  /\ UNCHANGED <<word, mcs, locals, ahead>>

read_next(c) ==
  /\ At(c, "read_next")
  /\ next' = [next EXCEPT ![c] = mnext[my_node(c)]]
  /\ Goto(c, "wait_head")
  /\ UNCHANGED <<word, mcs, lock, val, idx, prev, ahead>>

\* At the head of the queue: wait for the owner and the pending context.
\* The value read tells whether anybody queued behind.
wait_head_last(c) ==
  LET k == lock[c] IN
  /\ At(c, "wait_head")
  /\ locked[k] = 0 /\ pending[k] = 0
  /\ tail[k] = my_tail(c)
  /\ val' = [val EXCEPT ![c] = Word(k)]
  /\ Goto(c, "claim")
  /\ UNCHANGED <<word, mcs, lock, idx, prev, next, ahead>>

wait_head_first(c) ==
  LET k == lock[c] IN
  /\ At(c, "wait_head")
  /\ locked[k] = 0 /\ pending[k] = 0
  /\ tail[k] # my_tail(c)
  /\ Goto(c, "set_locked")
  /\ UNCHANGED <<word, mcs, locals, ahead>>

\* The only one in the queue: one compare-and-exchange takes the lock and
\* empties the queue, unless a new tail or a pending bit arrived meanwhile.
claim_won(c) ==
  LET k == lock[c] IN
  /\ At(c, "claim")
  /\ Word(k) = val[c]
  /\ tail' = [tail EXCEPT ![k] = 0]
  /\ locked' = [locked EXCEPT ![k] = 1]
  /\ val' = [val EXCEPT ![c] = Unlocked]
  /\ Goto(c, "release_node")
  /\ UNCHANGED <<pending, mcs, lock, idx, prev, next, ahead>>

claim_lost(c) ==
  /\ At(c, "claim")
  /\ Word(lock[c]) # val[c]
  /\ val' = [val EXCEPT ![c] = Unlocked]
  /\ Goto(c, "set_locked")
  /\ UNCHANGED <<word, mcs, lock, idx, prev, next, ahead>>

set_locked(c) ==
  /\ At(c, "set_locked")
  /\ locked' = [locked EXCEPT ![lock[c]] = 1]
  /\ Goto(c, "wait_next")
  /\ UNCHANGED <<pending, tail, mcs, locals, ahead>>

\* Somebody queued behind: wait until it has linked itself.
wait_next(c) ==
  /\ At(c, "wait_next")
  /\ \/ next[c] # NULL /\ UNCHANGED next
     \/ /\ next[c] = NULL
        /\ mnext[my_node(c)] # NULL
        /\ next' = [next EXCEPT ![c] = mnext[my_node(c)]]
  /\ Goto(c, "hand_over")
  /\ UNCHANGED <<word, mcs, lock, val, idx, prev, ahead>>

\* arch_mcs_spin_unlock_contended(&next->locked)
mcs_spin_unlock_contended(c) ==
  /\ At(c, "hand_over")
  /\ mlocked' = [mlocked EXCEPT ![next[c]] = 1]
  /\ ahead' = [d \in Ctx |-> ahead[d] \ {c}]
  /\ next' = [next EXCEPT ![c] = NULL]
  /\ Goto(c, "release_node")
  /\ UNCHANGED <<word, mnext, count, lock, val, idx, prev>>

\* this_cpu_dec(qnodes[0].mcs.count)
release_node(c) ==
  /\ At(c, "release_node")
  /\ count' = [count EXCEPT ![cpu_of(c)] = @ - 1]
  /\ idx' = [idx EXCEPT ![c] = 0]
  /\ next' = [next EXCEPT ![c] = NULL]
  /\ Goto(c, "held")
  /\ UNCHANGED <<word, mnext, mlocked, lock, val, prev, ahead>>

\* Mutant: a store to the whole word instead of its low byte.
queued_spin_unlock_word(c) ==
  /\ At(c, "held")
  /\ locked' = [locked EXCEPT ![lock[c]] = 0]
  /\ pending' = [pending EXCEPT ![lock[c]] = 0]
  /\ tail' = [tail EXCEPT ![lock[c]] = 0]
  /\ lock' = [lock EXCEPT ![c] = NULL]
  /\ Goto(c, "idle")
  /\ UNCHANGED <<mcs, val, idx, prev, next, ahead>>

queued_spin_unlock(c) ==
  /\ At(c, "held")
  /\ locked' = [locked EXCEPT ![lock[c]] = 0]
  /\ lock' = [lock EXCEPT ![c] = NULL]
  /\ Goto(c, "idle")
  /\ UNCHANGED <<pending, tail, mcs, val, idx, prev, next, ahead>>

-----------------------------------------------------------------------------
queued_spin_lock_slowpath(c) ==
  \/ spin_pending(c) \/ set_pending(c) \/ undo_pending(c)
  \/ wait_owner(c) \/ clear_pending_set_locked(c)
  \/ grab_mcs_node(c) \/ init_node(c) \/ try_again_won(c) \/ try_again_lost(c)
  \/ xchg_tail(c) \/ link_node(c) \/ mcs_spin_lock_contended(c)
  \/ read_next(c) \/ wait_head_last(c) \/ wait_head_first(c)
  \/ claim_won(c) \/ claim_lost(c) \/ set_locked(c)
  \/ wait_next(c) \/ mcs_spin_unlock_contended(c) \/ release_node(c)

CtxStep(c) ==
  \/ Interrupt(c)
  \/ InterruptReturn(c)
  \/ \E k \in Locks : queued_spin_trylock(c, k) \/ queued_spin_lock(c, k)
  \/ queued_spin_lock_slowpath(c)
  \/ queued_spin_unlock(c)

Next == \E c \in Ctx : CtxStep(c)

Spec == Init /\ [][Next]_vars

(***************************************************************************)
(* Fairness: a context that stays able to execute executes, and a handler  *)
(* takes finitely many locks before it returns; nobody is obliged to take  *)
(* a lock or to raise an interrupt.                                        *)
(***************************************************************************)
Fairness ==
  \A c \in Ctx : /\ WF_vars(queued_spin_lock_slowpath(c))
                 /\ WF_vars(queued_spin_unlock(c))
                 /\ SF_vars(InterruptReturn(c))

FairSpec == Spec /\ Fairness

-----------------------------------------------------------------------------
Pcs == {"off", "idle", "spin_pending", "set_pending", "undo_pending",
        "wait_owner", "take_pending", "queue", "init_node", "try_again",
        "xchg_tail", "release_node", "held"} \cup QueuePcs

u16 == {t \in Nat : t < 65536}
WordType == [tail : u16, pending : 0 .. 1, locked : 0 .. 1]

\* Every variable keeps its type; in particular the tail code fits the u16
\* field and every pointer names a node.
TypeOK ==
  /\ locked \in [Locks -> 0 .. 1]
  /\ pending \in [Locks -> 0 .. 1]
  /\ tail \in [Locks -> u16]
  /\ mnext \in [Node -> Node \cup {NULL}]
  /\ mlocked \in [Node -> 0 .. 1]
  /\ count \in [CPU -> Nat]
  /\ pc \in [Ctx -> Pcs]
  /\ lock \in [Ctx -> Locks \cup {NULL}]
  /\ val \in [Ctx -> WordType]
  /\ idx \in [Ctx -> 0 .. MAX_NODES - 1]
  /\ prev \in [Ctx -> Node \cup {NULL}]
  /\ next \in [Ctx -> Node \cup {NULL}]
  /\ ahead \in [Ctx -> SUBSET Ctx]

\* The contexts that own lock k: locked was set for them and is not cleared.
OwnerPcs == {"wait_next", "hand_over", "release_node", "held"}
Owners(k) == {c \in Ctx : lock[c] = k /\ pc[c] \in OwnerPcs}

\* Mutual exclusion (qspinlock.c, the whole slow path against the fast
\* paths): two contexts never own the same lock.
MutualExclusion ==
  \A k \in Locks : \A c, d \in Owners(k) : c = d

\* Contexts that use a queue node: from node->count++ to this_cpu_dec().
NodePcs == {"init_node", "try_again", "xchg_tail", "release_node"} \cup QueuePcs
UsesNode(c) == pc[c] \in NodePcs

\* "We can never have more than 4 nested contexts" (qspinlock.c:105): the
\* index taken from node->count is a node that exists and that no other
\* context of the CPU, interrupted in its own slow path, is using.
NodesPrivate ==
  /\ \A p \in CPU : count[p] <= MAX_NODES
  /\ \A c, d \in Ctx : UsesNode(c) /\ UsesNode(d) /\ my_node(c) = my_node(d)
                          => c = d

\* Whoever can still be handed the lock is visible in the word, so neither
\* fast path can take the lock past a queue (qspinlock.h:29, "any !0 state
\* indicates it is locked").
WaitersVisible ==
  \A c \in Ctx :
    \/ pc[c] \in QueuePcs \cup OwnerPcs
    \/ pc[c] \in {"undo_pending", "wait_owner", "take_pending"}
    => Word(lock[c]) # Unlocked

\* The queue is served in the order of the tail exchanges: a context that
\* takes the lock from the queue has nobody queued before it.
QueueIsFifo ==
  [][\A c \in Ctx :
       pc[c] \in {"claim", "set_locked"} /\ locked'[lock[c]] # locked[lock[c]]
       /\ pc'[c] # pc[c]
       => ahead[c] \cap Members(lock[c]) = {}]_vars

\* Every context that starts to take a lock gets it: no lost hand-over, no
\* wait on a node or a bit that nobody will ever set.  A CPU that interrupts
\* never leave alone makes no progress, so they must be finitely many.
LockAcquired ==
  <>[][\A c \in Ctx : ~ Interrupt(c)]_vars =>
    \A c \in Ctx : pc[c] \notin {"off", "idle"} ~> pc[c] = "held"

-----------------------------------------------------------------------------
(***************************************************************************)
(* The inductive invariant.                                                *)
(***************************************************************************)
\* A context is engaged with a lock exactly while it is in the lock code.
EngagedInv == \A c \in Ctx : pc[c] \in {"off", "idle"} <=> lock[c] = NULL

\* Contexts whose store to the pending byte is still in force.
PendingPcs == {"undo_pending", "wait_owner", "take_pending"}

\* The locked and pending bytes have one author each.
LockedInv ==
  /\ \A k \in Locks : locked[k] = 1 => \E c \in Ctx : lock[c] = k /\ pc[c] \in OwnerPcs
  /\ \A c \in Ctx : pc[c] \in OwnerPcs => locked[lock[c]] = 1
  /\ \A c, d \in Ctx : /\ pc[c] \in OwnerPcs /\ pc[d] \in OwnerPcs
                       /\ lock[c] = lock[d]
                       => c = d
PendingInv ==
  /\ \A k \in Locks : pending[k] = 1 => \E c \in Ctx : lock[c] = k /\ pc[c] \in PendingPcs
  /\ \A c \in Ctx : pc[c] \in PendingPcs => pending[lock[c]] = 1
  /\ \A c, d \in Ctx : /\ pc[c] \in PendingPcs /\ pc[d] \in PendingPcs
                       /\ lock[c] = lock[d]
                       => c = d

\* Whoever is about to store to the locked byte has no rival.
ClaimInv ==
  /\ \A c \in Ctx : pc[c] \in {"take_pending", "claim", "set_locked"}
                      => locked[lock[c]] = 0
  /\ \A c, d \in Ctx : /\ pc[c] \in {"claim", "set_locked"}
                       /\ pc[d] \in {"wait_owner", "take_pending"}
                       => lock[c] # lock[d]
  /\ \A c \in Ctx : pc[c] = "claim"
       => val[c] = [tail |-> my_tail(c), pending |-> 0, locked |-> 0]

InQueue(c) == pc[c] \in QueuePcs
HeadPcs == QueuePcs \ {"link", "wait_node"}

\* ahead orders each queue; the tail names its last member, and whoever
\* left the MCS wait is first.
OrderInv ==
  /\ \A c \in Ctx : InQueue(c) =>
       /\ c \notin ahead[c]
       /\ \A d \in ahead[c] : d \in Ctx /\ InQueue(d) /\ lock[d] = lock[c]
  /\ \A c, d \in Ctx : /\ InQueue(c) /\ InQueue(d) /\ lock[c] = lock[d] /\ c # d
                       => (c \in ahead[d] <=> d \notin ahead[c])
  /\ \A c \in Ctx : pc[c] \in HeadPcs => ahead[c] = {}
TailInv ==
  /\ \A c \in Ctx : InQueue(c) => tail[lock[c]] # 0
  /\ \A k \in Locks : tail[k] # 0 =>
       \E c \in Ctx : /\ InQueue(c) /\ lock[c] = k /\ tail[k] = my_tail(c)
                      /\ \A d \in Ctx : InQueue(d) /\ lock[d] = k /\ d # c
                                         => d \in ahead[c]

\* d is queued immediately behind c
Behind(d, c) == InQueue(c) /\ InQueue(d) /\ lock[d] = lock[c] /\ ahead[d] = ahead[c] \cup {c}

\* The MCS list follows that order: a link is missing or right.
LinkInv ==
  /\ \A d \in Ctx : pc[d] = "link"
       => \E c \in Ctx : Behind(d, c) /\ prev[d] = my_node(c)
  /\ \A c \in Ctx : InQueue(c) /\ mnext[my_node(c)] # NULL
       => \E d \in Ctx : /\ Behind(d, c) /\ pc[d] = "wait_node"
                         /\ mnext[my_node(c)] = my_node(d)
  /\ \A c \in Ctx : InQueue(c) /\ next[c] # NULL => next[c] = mnext[my_node(c)]
  /\ \A c \in Ctx : pc[c] = "hand_over" => next[c] # NULL
FlagInv ==
  /\ \A c \in Ctx : pc[c] \in {"try_again", "xchg_tail"} => mnext[my_node(c)] = NULL
  /\ \A c \in Ctx : pc[c] \in {"try_again", "xchg_tail", "link"} => mlocked[my_node(c)] = 0
  /\ \A c \in Ctx : pc[c] = "wait_node" /\ mlocked[my_node(c)] = 1 => ahead[c] = {}

\* The nodes of a CPU are a stack that follows the nesting of its contexts.
NodeInv ==
  /\ \A c \in Ctx : UsesNode(c) => idx[c] < count[cpu_of(c)] /\ idx[c] <= level_of(c)
  /\ \A c, d \in Ctx : /\ UsesNode(c) /\ UsesNode(d)
                       /\ cpu_of(c) = cpu_of(d) /\ level_of(c) < level_of(d)
                       => idx[c] < idx[d]
  /\ \A p \in CPU : \A j \in 0 .. count[p] - 1 :
       \E c \in Ctx : cpu_of(c) = p /\ UsesNode(c) /\ idx[c] = j

\* The inductive invariant behind MutualExclusion, NodesPrivate and the
\* refinement: what each context of qspinlock.c relies on at each point.
IInv == /\ TypeOK /\ EngagedInv /\ LockedInv /\ PendingInv /\ ClaimInv
        /\ OrderInv /\ TailInv /\ LinkInv /\ FlagInv /\ NodeInv

-----------------------------------------------------------------------------
(***************************************************************************)
(* The queued spinlock implements SpinLock.                                *)
(***************************************************************************)
holder == [k \in Locks |-> IF Owners(k) = {} THEN NULL
                           ELSE CHOOSE c \in Owners(k) : TRUE]

SL == INSTANCE SpinLock WITH NoHolder <- NULL

\* Each step of the queued spinlock is an Acquire, a Release or no step of
\* the abstract lock: the lock is never passed over to a second owner.
ImplementsSpinLock == SL!Spec
=============================================================================
