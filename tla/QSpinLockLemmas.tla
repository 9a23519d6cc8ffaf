-------------------------- MODULE QSpinLockLemmas ---------------------------
(***************************************************************************)
(* Facts about QSpinLock: the constants, the tail code, the types of the   *)
(* local variables, and what each kind of step does to the queue and to    *)
(* the queue nodes of a CPU.                                               *)
(***************************************************************************)
EXTENDS QSpinLock, TLAPS

\* A context has a CPU and a level, and with any index it names a node of
\* its CPU.
LEMMA ContextFacts ==
  ASSUME NEW c \in Ctx
  PROVE  /\ cpu_of(c) \in CPU
         /\ level_of(c) \in Int /\ 0 <= level_of(c) /\ level_of(c) <= 3
         /\ \A i \in 0 .. 3 : <<cpu_of(c), i>> \in Node
BY CtxAssumption DEF Level, MAX_NODES, cpu_of, level_of, Node

\* A context is determined by its CPU and its level.
LEMMA ContextIdentity ==
  ASSUME NEW c \in Ctx, NEW d \in Ctx,
         cpu_of(c) = cpu_of(d), level_of(c) = level_of(d)
  PROVE  c = d
BY CtxAssumption DEF Level, cpu_of, level_of

\* Contexts and nodes are never the null pointer.
LEMMA NullFacts ==
  /\ \A k \in Locks : k # NULL
  /\ \A n \in Node : n # NULL
BY NullAssumption

\* decode_tail() inverts encode_tail(), and the code fits 16 bits and is not 0.
LEMMA TailFacts ==
  ASSUME NEW p \in CPU, NEW i \in 0 .. 3
  PROVE  /\ encode_tail(p, i) \in u16 \ {0}
         /\ decode_tail(encode_tail(p, i)) = <<p, i>>
<1>1. p \in Int /\ 0 <= p /\ p < 16383 /\ i \in Int /\ 0 <= i /\ i < 4
  BY NrCpusAssumption DEF CPU
<1>2. encode_tail(p, i) \in u16 \ {0}
  BY <1>1 DEF encode_tail, MAX_NODES, u16
<1>3. ((p + 1) * 4 + i) \div 4 = p + 1 /\ ((p + 1) * 4 + i) % 4 = i
  BY <1>1
<1>4. ((p + 1) * 4 + i) \div 4 - 1 = p
  BY <1>1, <1>3
<1> QED BY <1>2, <1>3, <1>4 DEF encode_tail, decode_tail, MAX_NODES

\* The word is unlocked when its three fields are.
LEMMA WordFacts ==
  ASSUME NEW k
  PROVE  Word(k) = Unlocked <=> tail[k] = 0 /\ pending[k] = 0 /\ locked[k] = 0
BY DEF Word, Unlocked

USE DEF MAX_NODES

\* What a context in the lock code can count on about its own locals.
LEMMA LocalFacts ==
  ASSUME TypeOK, EngagedInv, NEW c \in Ctx
  PROVE  /\ pc[c] \notin {"off", "idle"} => lock[c] \in Locks
         /\ idx[c] \in 0 .. 3
         /\ my_node(c) \in Node
         /\ my_tail(c) \in u16 /\ my_tail(c) # 0
         /\ decode_tail(my_tail(c)) = my_node(c)
<1>1. pc[c] \notin {"off", "idle"} => lock[c] \in Locks
  BY DEF TypeOK, EngagedInv
<1>2. idx[c] \in 0 .. 3
  BY DEF TypeOK, MAX_NODES
<1>3. cpu_of(c) \in CPU
  BY ContextFacts, Zenon
<1> QED BY <1>1, <1>2, <1>3, ContextFacts, TailFacts DEF my_node, my_tail

\* Levels and node indices are numbers.
LEMMA NumberFacts ==
  ASSUME TypeOK, NEW d \in Ctx
  PROVE  level_of(d) \in Int /\ idx[d] \in Nat
<1>1. level_of(d) \in Int
  BY ContextFacts, Zenon
<1>2. idx[d] \in Nat
  BY DEF TypeOK, MAX_NODES
<1> QED BY <1>1, <1>2

\* Two contexts that use queue nodes use different ones.
LEMMA NodesDistinct ==
  ASSUME TypeOK, NodeInv, NEW c \in Ctx, NEW d \in Ctx,
         UsesNode(c), UsesNode(d), my_node(c) = my_node(d)
  PROVE  c = d
<1>1. cpu_of(c) = cpu_of(d) /\ idx[c] = idx[d]
  BY DEF my_node
<1>2. idx[c] \in Int /\ level_of(c) \in Int /\ level_of(d) \in Int
  BY NumberFacts
<1>3. ~(level_of(c) < level_of(d)) /\ ~(level_of(d) < level_of(c))
  BY <1>1, <1>2 DEF NodeInv
<1>4. level_of(c) = level_of(d)
  BY <1>2, <1>3
<1> QED BY <1>1, <1>4, ContextIdentity

\* A step leaves the other contexts where they are.
OthersUnchanged(c) ==
  \A d \in Ctx : d # c => /\ pc'[d] = pc[d] /\ lock'[d] = lock[d] /\ idx'[d] = idx[d]
                          /\ next'[d] = next[d]

\* A step of a context leaves the locals of the other contexts alone.
LEMMA OwnLocals ==
  ASSUME TypeOK, NEW c \in Ctx, CtxStep(c)
  PROVE  OthersUnchanged(c)
<1>1. ASSUME NEW k \in Locks, queued_spin_trylock(c, k) \/ queued_spin_lock(c, k)
      PROVE  OthersUnchanged(c)
  BY <1>1 DEF TypeOK, OthersUnchanged, Goto, queued_spin_trylock, queued_spin_lock
<1>2. ASSUME Interrupt(c) \/ InterruptReturn(c) \/ queued_spin_unlock(c)
      PROVE  OthersUnchanged(c)
  BY <1>2 DEF TypeOK, OthersUnchanged, Goto, locals, Interrupt, InterruptReturn,
              queued_spin_unlock
<1>3. ASSUME \/ spin_pending(c) \/ set_pending(c) \/ undo_pending(c)
             \/ wait_owner(c) \/ clear_pending_set_locked(c)
             \/ init_node(c) \/ try_again_won(c) \/ try_again_lost(c)
      PROVE  OthersUnchanged(c)
  BY <1>3 DEF TypeOK, OthersUnchanged, Goto, locals, spin_pending, set_pending, undo_pending,
              wait_owner, clear_pending_set_locked, init_node, try_again_won, try_again_lost
<1>4. ASSUME \/ grab_mcs_node(c) \/ xchg_tail(c) \/ link_node(c)
             \/ mcs_spin_lock_contended(c) \/ read_next(c)
      PROVE  OthersUnchanged(c)
  BY <1>4 DEF TypeOK, OthersUnchanged, Goto, locals, grab_mcs_node, xchg_tail, link_node,
              mcs_spin_lock_contended, read_next
<1>5. ASSUME \/ wait_head_last(c) \/ wait_head_first(c) \/ claim_won(c) \/ claim_lost(c)
             \/ set_locked(c) \/ wait_next(c) \/ mcs_spin_unlock_contended(c)
             \/ release_node(c)
      PROVE  OthersUnchanged(c)
  BY <1>5 DEF TypeOK, OthersUnchanged, Goto, locals, wait_head_last, wait_head_first,
              claim_won, claim_lost, set_locked, wait_next, mcs_spin_unlock_contended,
              release_node
<1> QED BY <1>1, <1>2, <1>3, <1>4, <1>5 DEF CtxStep, queued_spin_lock_slowpath

\* Steps of a context that is outside the queue before and after do not
\* disturb the queue.
LEMMA OutsideQueue ==
  ASSUME TypeOK, EngagedInv, OrderInv, TailInv, LinkInv,
         NEW c \in Ctx, OthersUnchanged(c),
         pc[c] \notin QueuePcs, pc'[c] \notin QueuePcs,
         UNCHANGED <<tail, prev, ahead>>,
         \A d \in Ctx : InQueue(d) => mnext'[my_node(d)] = mnext[my_node(d)]
  PROVE  OrderInv' /\ TailInv' /\ LinkInv'
<1>1. \A d \in Ctx : InQueue(d)' <=> InQueue(d)
  BY DEF OthersUnchanged, InQueue
<1>2. \A d \in Ctx : InQueue(d) => /\ d # c /\ lock'[d] = lock[d] /\ idx'[d] = idx[d]
                                   /\ next'[d] = next[d] /\ pc'[d] = pc[d]
                                   /\ my_node(d)' = my_node(d) /\ my_tail(d)' = my_tail(d)
  BY DEF OthersUnchanged, InQueue, my_node, my_tail
<1>3. \A d \in Ctx : pc'[d] \in HeadPcs \cup {"link", "wait_node", "hand_over"} => InQueue(d)
  BY <1>1 DEF InQueue, HeadPcs, QueuePcs
<1>4. OrderInv'
  BY <1>1, <1>2, <1>3 DEF OrderInv
<1>5. TailInv'
  BY <1>1, <1>2 DEF TailInv
<1>6. \A d, e \in Ctx : Behind(d, e) => Behind(d, e)'
  BY <1>1, <1>2 DEF Behind
<1>7. ASSUME NEW d \in Ctx, pc'[d] = "link"
      PROVE  \E e \in Ctx : Behind(d, e)' /\ prev'[d] = my_node(e)'
  <2>1. InQueue(d) /\ pc[d] = "link"
    BY <1>2, <1>3, <1>7
  <2>2. PICK e \in Ctx : Behind(d, e) /\ prev[d] = my_node(e)
    BY <2>1 DEF LinkInv
  <2> QED BY <1>2, <1>6, <2>2 DEF Behind
<1>8. ASSUME NEW e \in Ctx, InQueue(e)', mnext'[my_node(e)'] # NULL
      PROVE  \E d \in Ctx : /\ Behind(d, e)' /\ pc'[d] = "wait_node"
                            /\ mnext'[my_node(e)'] = my_node(d)'
  <2>1. InQueue(e) /\ mnext[my_node(e)] # NULL
    BY <1>1, <1>2, <1>8
  <2>2. PICK d \in Ctx : /\ Behind(d, e) /\ pc[d] = "wait_node"
                         /\ mnext[my_node(e)] = my_node(d)
    BY <2>1 DEF LinkInv
  <2> QED BY <1>2, <1>6, <2>1, <2>2 DEF Behind
<1>9. LinkInv'
  BY <1>1, <1>2, <1>3, <1>7, <1>8 DEF LinkInv
<1> QED BY <1>4, <1>5, <1>9

\* Steps of the first context of a queue that leave the queue as it is.
LEMMA InsideQueue ==
  ASSUME TypeOK, EngagedInv, OrderInv, TailInv, LinkInv,
         NEW c \in Ctx, OthersUnchanged(c),
         pc[c] \in QueuePcs, pc[c] # "link", ahead[c] = {}, pc'[c] \in HeadPcs,
         UNCHANGED <<tail, mnext, prev, ahead, lock, idx>>,
         next'[c] = next[c] \/ next'[c] = mnext[my_node(c)],
         pc'[c] = "hand_over" => next'[c] # NULL
  PROVE  OrderInv' /\ TailInv' /\ LinkInv'
<1>1. \A d \in Ctx : /\ InQueue(d)' <=> InQueue(d)
                     /\ my_node(d)' = my_node(d) /\ my_tail(d)' = my_tail(d)
                     /\ d # c => pc'[d] = pc[d] /\ next'[d] = next[d]
  BY DEF OthersUnchanged, InQueue, HeadPcs, my_node, my_tail
<1>2. pc'[c] \notin {"link", "wait_node"}
  BY DEF HeadPcs
<1>3. OrderInv'
  BY <1>1, <1>2 DEF OrderInv
<1>4. TailInv'
  BY <1>1 DEF TailInv
<1>5. \A d, e \in Ctx : /\ Behind(d, e) <=> Behind(d, e)'
                        /\ Behind(d, e) => d # c
  BY <1>1 DEF Behind
<1>6. \A d \in Ctx : pc'[d] = "link" => pc[d] = "link" /\ d # c
  BY <1>1, <1>2
<1>7. LinkInv'
  <2>1. \A d \in Ctx : pc'[d] = "link"
          => \E e \in Ctx : Behind(d, e)' /\ prev'[d] = my_node(e)'
    BY <1>1, <1>5, <1>6 DEF LinkInv
  <2>2. \A e \in Ctx : InQueue(e)' /\ mnext'[my_node(e)'] # NULL
          => \E d \in Ctx : /\ Behind(d, e)' /\ pc'[d] = "wait_node"
                            /\ mnext'[my_node(e)'] = my_node(d)'
    BY <1>1, <1>5 DEF LinkInv
  <2>3. \A d \in Ctx : InQueue(d)' /\ next'[d] # NULL => next'[d] = mnext'[my_node(d)']
    BY <1>1 DEF LinkInv
  <2>4. \A d \in Ctx : pc'[d] = "hand_over" => next'[d] # NULL
    <3> SUFFICES ASSUME NEW d \in Ctx, pc'[d] = "hand_over", next'[d] = NULL
                 PROVE  FALSE
      OBVIOUS
    <3>1. d # c /\ pc[d] = "hand_over" /\ InQueue(d)
      BY <1>1, <1>2 DEF InQueue, QueuePcs
    <3>2. next[d] # NULL /\ next[d] = mnext[my_node(d)]
      BY <3>1 DEF LinkInv
    <3> QED BY <1>1, <3>1, <3>2
  <2> QED BY <2>1, <2>2, <2>3, <2>4 DEF LinkInv
<1> QED BY <1>3, <1>4, <1>7

\* The flags only matter to the contexts at the labels they protect.
LEMMA FlagsUnchanged ==
  ASSUME FlagInv, NEW c \in Ctx, OthersUnchanged(c),
         pc'[c] \notin {"try_again", "xchg_tail", "link", "wait_node"},
         UNCHANGED <<mnext, mlocked, ahead>>
  PROVE  FlagInv'
<1>1. \A d \in Ctx : d # c => pc'[d] = pc[d] /\ my_node(d)' = my_node(d)
  BY DEF OthersUnchanged, my_node
<1> QED BY <1>1 DEF FlagInv

\* Which contexts use which nodes is all that matters to NodeInv.
LEMMA NodesUnchanged ==
  ASSUME TypeOK, NodeInv, UNCHANGED <<idx, count>>,
         \A d \in Ctx : UsesNode(d)' <=> UsesNode(d)
  PROVE  NodeInv'
BY DEF NodeInv

-----------------------------------------------------------------------------
(***************************************************************************)
(* What joining, linking, emptying and handing over do to the queue.       *)
(***************************************************************************)

\* A context that exchanges the tail queues behind the last member.
LEMMA JoinQueue ==
  ASSUME TypeOK, EngagedInv, OrderInv, TailInv, LinkInv, FlagInv, NodeInv,
         NEW c \in Ctx, xchg_tail(c)
  PROVE  OrderInv' /\ TailInv' /\ LinkInv' /\ FlagInv'
<1> DEFINE k == lock[c]
<1>1. /\ pc[c] = "xchg_tail" /\ ~InQueue(c) /\ k \in Locks
      /\ my_node(c) \in Node /\ my_tail(c) # 0
  <2>1. pc[c] = "xchg_tail" /\ ~InQueue(c)
    BY DEF xchg_tail, At, InQueue, QueuePcs
  <2> QED BY <2>1, LocalFacts
<1>2. /\ pc' = [pc EXCEPT ![c] = IF tail[k] = 0 THEN "wait_head" ELSE "link"]
      /\ tail' = [tail EXCEPT ![k] = my_tail(c)]
      /\ ahead' = [ahead EXCEPT ![c] = Members(k)]
      /\ next' = [next EXCEPT ![c] = NULL]
      /\ prev' = [prev EXCEPT ![c] = IF tail[k] = 0 THEN NULL ELSE decode_tail(tail[k])]
      /\ UNCHANGED <<lock, idx, mnext, mlocked>>
  BY DEF xchg_tail, Goto, mcs
<1>3. \A d \in Ctx : /\ InQueue(d)' <=> InQueue(d) \/ d = c
                     /\ d # c => /\ pc'[d] = pc[d] /\ ahead'[d] = ahead[d]
                                 /\ next'[d] = next[d] /\ prev'[d] = prev[d]
                     /\ my_node(d)' = my_node(d) /\ my_tail(d)' = my_tail(d)
  BY <1>1, <1>2 DEF TypeOK, InQueue, QueuePcs, my_node, my_tail
<1>4. \A d \in Ctx : d \in ahead'[c] <=> InQueue(d) /\ lock[d] = k
  BY <1>2 DEF TypeOK, Members, InQueue
<1>5. CASE tail[k] = 0
  <2>1. pc'[c] = "wait_head" /\ next'[c] = NULL
    BY <1>2, <1>5 DEF TypeOK
  <2>2. \A d \in Ctx : InQueue(d) => lock[d] # k
    BY <1>5 DEF TailInv
  <2>3. ahead'[c] = {}
    BY <1>2, <2>2 DEF TypeOK, Members, InQueue
  <2>4. OrderInv'
    BY <1>1, <1>2, <1>3, <2>1, <2>2, <2>3 DEF OrderInv, HeadPcs
  <2>5. TailInv'
    BY <1>1, <1>2, <1>3, <2>2 DEF TailInv, TypeOK
  <2>6. \A d, e \in Ctx : Behind(d, e) => Behind(d, e)' /\ d # c /\ e # c
    BY <1>1, <1>2, <1>3 DEF Behind
  <2>7. LinkInv'
    <3>1. \A d \in Ctx : pc'[d] = "link" => d # c /\ pc[d] = "link"
      BY <1>3, <2>1
    <3>2. \A d \in Ctx : pc'[d] = "link"
            => \E e \in Ctx : Behind(d, e)' /\ prev'[d] = my_node(e)'
      BY <1>3, <2>6, <3>1 DEF LinkInv
    <3>3. mnext'[my_node(c)'] = NULL
      BY <1>1, <1>2, <1>3 DEF FlagInv
    <3>4. ASSUME NEW e \in Ctx, InQueue(e)', mnext'[my_node(e)'] # NULL
          PROVE  \E d \in Ctx : /\ Behind(d, e)' /\ pc'[d] = "wait_node"
                                /\ mnext'[my_node(e)'] = my_node(d)'
      <4>1. e # c /\ InQueue(e) /\ mnext[my_node(e)] # NULL
        BY <1>2, <1>3, <3>3, <3>4
      <4> QED BY <1>2, <1>3, <2>6, <4>1 DEF LinkInv
    <3>5. \A e \in Ctx : InQueue(e)' /\ next'[e] # NULL => next'[e] = mnext'[my_node(e)']
      BY <1>2, <1>3, <2>1 DEF LinkInv
    <3>6. \A e \in Ctx : pc'[e] = "hand_over" => next'[e] # NULL
      BY <1>3, <2>1 DEF LinkInv
    <3> QED BY <3>2, <3>4, <3>5, <3>6, Zenon DEF LinkInv
  <2>8. FlagInv'
    BY <1>2, <1>3, <2>1 DEF FlagInv
  <2> QED BY <2>4, <2>5, <2>7, <2>8
<1>6. CASE tail[k] # 0
  <2>1. pc'[c] = "link" /\ next'[c] = NULL
    BY <1>2, <1>6 DEF TypeOK
  <2>2. PICK t \in Ctx : /\ InQueue(t) /\ lock[t] = k /\ tail[k] = my_tail(t)
                         /\ \A d \in Ctx : InQueue(d) /\ lock[d] = k /\ d # t => d \in ahead[t]
    BY <1>1, <1>6 DEF TailInv
  <2>3. prev'[c] = my_node(t)
    BY <1>2, <1>6, <2>2, LocalFacts DEF TypeOK
  <2>4. ahead'[c] = ahead[t] \cup {t}
    BY <1>2, <2>2 DEF TypeOK, Members, InQueue, OrderInv
  <2>5. OrderInv'
    <3>1. \A e \in ahead'[c] : e \in Ctx /\ InQueue(e) /\ lock[e] = k /\ e # c
      BY <1>1, <1>2 DEF TypeOK, Members, InQueue
    <3>2. \A d \in Ctx : InQueue(d) => c \notin ahead[d]
      BY <1>1 DEF OrderInv
    <3>3. \A d \in Ctx : InQueue(d)' =>
            /\ d \notin ahead'[d]
            /\ \A e \in ahead'[d] : e \in Ctx /\ InQueue(e)' /\ lock'[e] = lock'[d]
      BY <1>2, <1>3, <3>1 DEF OrderInv
    <3>4. \A d, e \in Ctx : InQueue(d)' /\ InQueue(e)' /\ lock'[d] = lock'[e] /\ d # e
            => (d \in ahead'[e] <=> e \notin ahead'[d])
      BY <1>1, <1>2, <1>3, <1>4, <3>2 DEF OrderInv
    <3>5. \A d \in Ctx : pc'[d] \in HeadPcs => ahead'[d] = {}
      BY <1>3, <2>1 DEF OrderInv, HeadPcs
    <3> QED BY <3>3, <3>4, <3>5 DEF OrderInv
  <2>6. TailInv'
    BY <1>1, <1>2, <1>3, <1>4 DEF TailInv, TypeOK
  <2>7. \A d, e \in Ctx : Behind(d, e) => Behind(d, e)' /\ d # c /\ e # c
    BY <1>1, <1>2, <1>3 DEF Behind
  <2>8. Behind(c, t)'
    BY <1>1, <1>2, <1>3, <2>2, <2>4 DEF Behind
  <2>9. LinkInv'
    <3>1. ASSUME NEW d \in Ctx, pc'[d] = "link"
          PROVE  \E e \in Ctx : Behind(d, e)' /\ prev'[d] = my_node(e)'
      <4>1. CASE d = c
        BY <1>3, <2>3, <2>8, <4>1
      <4>2. CASE d # c
        BY <1>3, <2>7, <3>1, <4>2 DEF LinkInv
      <4> QED BY <4>1, <4>2
    <3>2. mnext'[my_node(c)'] = NULL
      BY <1>1, <1>2, <1>3 DEF FlagInv
    <3>3. ASSUME NEW e \in Ctx, InQueue(e)', mnext'[my_node(e)'] # NULL
          PROVE  \E d \in Ctx : /\ Behind(d, e)' /\ pc'[d] = "wait_node"
                                /\ mnext'[my_node(e)'] = my_node(d)'
      <4>1. e # c /\ InQueue(e) /\ mnext[my_node(e)] # NULL
        BY <1>2, <1>3, <3>2, <3>3
      <4>2. PICK d \in Ctx : /\ Behind(d, e) /\ pc[d] = "wait_node"
                             /\ mnext[my_node(e)] = my_node(d)
        BY <4>1 DEF LinkInv
      <4> QED BY <1>2, <1>3, <2>7, <4>2
    <3>4. ASSUME NEW e \in Ctx, InQueue(e)', next'[e] # NULL
          PROVE  next'[e] = mnext'[my_node(e)']
      <4>1. e # c /\ InQueue(e) /\ next'[e] = next[e]
        BY <1>3, <2>1, <3>4
      <4>2. next[e] = mnext[my_node(e)]
        BY <3>4, <4>1 DEF LinkInv
      <4> QED BY <1>2, <1>3, <4>1, <4>2
    <3>5. \A e \in Ctx : pc'[e] = "hand_over" => next'[e] # NULL
      BY <1>3, <2>1 DEF LinkInv
    <3> QED BY <3>1, <3>3, <3>4, <3>5, Zenon DEF LinkInv
  <2>10. FlagInv'
    BY <1>1, <1>2, <1>3, <2>1 DEF FlagInv
  <2> QED BY <2>5, <2>6, <2>9, <2>10
<1> QED BY <1>5, <1>6

\* A context links itself behind its predecessor.
LEMMA LinkQueue ==
  ASSUME TypeOK, EngagedInv, OrderInv, TailInv, LinkInv, FlagInv, NodeInv,
         NEW c \in Ctx, link_node(c)
  PROVE  OrderInv' /\ TailInv' /\ LinkInv' /\ FlagInv' /\ prev[c] \in Node
<1>1. pc[c] = "link" /\ InQueue(c) /\ my_node(c) \in Node
  <2>1. pc[c] = "link" /\ InQueue(c)
    BY DEF link_node, At, InQueue, QueuePcs
  <2> QED BY <2>1, LocalFacts
<1>2. PICK t \in Ctx : Behind(c, t) /\ prev[c] = my_node(t)
  BY <1>1 DEF LinkInv
<1>3. my_node(t) \in Node /\ InQueue(t) /\ lock[t] = lock[c] /\ t # c
  BY <1>2, LocalFacts DEF Behind, OrderInv
<1>4. /\ pc' = [pc EXCEPT ![c] = "wait_node"]
      /\ mnext' = [mnext EXCEPT ![my_node(t)] = my_node(c)]
      /\ prev' = [prev EXCEPT ![c] = NULL]
      /\ UNCHANGED <<tail, lock, idx, ahead, next, mlocked>>
  BY <1>2 DEF link_node, Goto, word, locals
<1>5. \A d \in Ctx : /\ InQueue(d)' <=> InQueue(d)
                     /\ d # c => pc'[d] = pc[d] /\ prev'[d] = prev[d]
                     /\ my_node(d)' = my_node(d) /\ my_tail(d)' = my_tail(d)
  BY <1>1, <1>4 DEF TypeOK, InQueue, QueuePcs, my_node, my_tail
<1>6. \A d, e \in Ctx : Behind(d, e)' <=> Behind(d, e)
  BY <1>4, <1>5 DEF Behind
<1>7. \A d \in Ctx : Behind(d, t) => d = c
  BY <1>2 DEF Behind, OrderInv
<1>8. \A d \in Ctx : UsesNode(d) /\ d # t => mnext'[my_node(d)] = mnext[my_node(d)]
  <2> SUFFICES ASSUME NEW d \in Ctx, UsesNode(d), d # t
               PROVE  mnext'[my_node(d)] = mnext[my_node(d)]
    OBVIOUS
  <2>1. my_node(d) # my_node(t)
    BY <1>3, NodesDistinct DEF UsesNode, NodePcs, InQueue
  <2>2. my_node(d) \in Node
    BY LocalFacts
  <2> QED BY <1>4, <2>1, <2>2 DEF TypeOK
<1>9. mnext'[my_node(t)] = my_node(c) /\ pc'[c] = "wait_node"
  BY <1>3, <1>4 DEF TypeOK
<1>10. OrderInv' /\ TailInv'
  <2>1. \A d \in Ctx : pc'[d] \in HeadPcs => pc[d] \in HeadPcs
    BY <1>5, <1>9 DEF HeadPcs
  <2>2. OrderInv'
    BY <1>4, <1>5, <2>1 DEF OrderInv
  <2>3. TailInv'
    BY <1>4, <1>5 DEF TailInv
  <2> QED BY <2>2, <2>3
<1>11. LinkInv'
  <2>1. \A d \in Ctx : pc'[d] = "link"
          => \E e \in Ctx : Behind(d, e)' /\ prev'[d] = my_node(e)'
    <3>1. \A d \in Ctx : pc'[d] = "link" => d # c /\ pc[d] = "link"
      BY <1>5, <1>9
    <3> QED BY <1>5, <1>6, <3>1 DEF LinkInv
  <2>2. ASSUME NEW e \in Ctx, InQueue(e)', mnext'[my_node(e)'] # NULL
        PROVE  \E d \in Ctx : /\ Behind(d, e)' /\ pc'[d] = "wait_node"
                              /\ mnext'[my_node(e)'] = my_node(d)'
    <3>1. CASE e = t
      BY <1>2, <1>5, <1>6, <1>9, <3>1
    <3>2. CASE e # t
      <4>1. InQueue(e) /\ UsesNode(e)
        BY <1>5, <2>2 DEF UsesNode, NodePcs, InQueue
      <4>2. mnext[my_node(e)] # NULL /\ mnext'[my_node(e)'] = mnext[my_node(e)]
        BY <1>5, <1>8, <2>2, <3>2, <4>1
      <4>3. PICK d \in Ctx : /\ Behind(d, e) /\ pc[d] = "wait_node"
                             /\ mnext[my_node(e)] = my_node(d)
        BY <4>1, <4>2 DEF LinkInv
      <4> QED BY <1>1, <1>5, <1>6, <4>2, <4>3
    <3> QED BY <3>1, <3>2
  <2>3. ASSUME NEW e \in Ctx, InQueue(e)', next'[e] # NULL
        PROVE  next'[e] = mnext'[my_node(e)']
    <3>1. InQueue(e) /\ UsesNode(e) /\ next[e] # NULL /\ next[e] = mnext[my_node(e)]
      BY <1>4, <1>5, <2>3 DEF LinkInv, UsesNode, NodePcs, InQueue
    <3>2. PICK d \in Ctx : Behind(d, e) /\ pc[d] = "wait_node"
      BY <3>1 DEF LinkInv
    <3>3. e # t
      BY <1>1, <1>7, <3>2
    <3> QED BY <1>4, <1>5, <1>8, <3>1, <3>3
  <2>4. \A d \in Ctx : pc'[d] = "hand_over" => next'[d] # NULL
    BY <1>4, <1>5, <1>9 DEF LinkInv
  <2> QED BY <2>1, <2>2, <2>3, <2>4 DEF LinkInv
<1>12. FlagInv'
  <2>1. \A d \in Ctx : pc'[d] \in {"try_again", "xchg_tail"}
          => d # c /\ pc'[d] = pc[d] /\ UsesNode(d) /\ d # t
    BY <1>3, <1>5, <1>9 DEF UsesNode, NodePcs, InQueue, QueuePcs
  <2>2. mlocked[my_node(c)] = 0
    BY <1>1 DEF FlagInv
  <2> QED BY <1>4, <1>5, <1>8, <1>9, <2>1, <2>2 DEF FlagInv
<1> QED BY <1>2, <1>3, <1>10, <1>11, <1>12

\* The only member of the queue takes the lock and empties the queue.
LEMMA EmptyQueue ==
  ASSUME TypeOK, EngagedInv, OrderInv, TailInv, LinkInv, ClaimInv, NodeInv,
         NEW c \in Ctx, claim_won(c)
  PROVE  OrderInv' /\ TailInv' /\ LinkInv'
<1> DEFINE k == lock[c]
<1>1. pc[c] = "claim" /\ InQueue(c) /\ k \in Locks /\ ahead[c] = {}
  <2>1. pc[c] = "claim" /\ InQueue(c)
    BY DEF claim_won, At, InQueue, QueuePcs
  <2> QED BY <2>1, LocalFacts DEF OrderInv, HeadPcs, InQueue
<1>2. tail[k] = my_tail(c)
  <2>1. Word(k) = [tail |-> my_tail(c), pending |-> 0, locked |-> 0]
    BY <1>1 DEF claim_won, ClaimInv
  <2>2. Word(k).tail = my_tail(c)
    BY <2>1
  <2> QED BY <2>2 DEF Word
<1>3. /\ pc' = [pc EXCEPT ![c] = "release_node"]
      /\ tail' = [tail EXCEPT ![k] = 0]
      /\ UNCHANGED <<lock, idx, mnext, ahead, next, prev>>
  BY DEF claim_won, Goto, mcs
<1>4. \A d \in Ctx : InQueue(d) /\ lock[d] = k => d = c
  <2>1. PICK t \in Ctx : /\ InQueue(t) /\ lock[t] = k /\ tail[k] = my_tail(t)
                         /\ \A d \in Ctx : InQueue(d) /\ lock[d] = k /\ d # t => d \in ahead[t]
    BY <1>1, <1>2, LocalFacts DEF TailInv
  <2>2. my_node(t) = my_node(c)
    BY <1>2, <2>1, LocalFacts, Zenon
  <2>3. t = c
    BY <1>1, <2>1, <2>2, NodesDistinct DEF UsesNode, NodePcs, InQueue
  <2> QED BY <1>1, <2>1, <2>3
<1>5. \A d \in Ctx : /\ InQueue(d)' <=> InQueue(d) /\ d # c
                     /\ d # c => pc'[d] = pc[d]
                     /\ my_node(d)' = my_node(d) /\ my_tail(d)' = my_tail(d)
  BY <1>1, <1>3 DEF TypeOK, InQueue, QueuePcs, my_node, my_tail
<1>6. \A d \in Ctx : InQueue(d)' => lock[d] # k /\ c \notin ahead[d]
  BY <1>1, <1>4, <1>5 DEF OrderInv
<1>7. OrderInv'
  <2>1. pc'[c] = "release_node"
    BY <1>3 DEF TypeOK
  <2>2. \A d \in Ctx : pc'[d] \in HeadPcs => pc[d] \in HeadPcs
    BY <1>5, <2>1 DEF HeadPcs, QueuePcs
  <2>3. ASSUME NEW d \in Ctx, InQueue(d)'
        PROVE  /\ d \notin ahead'[d]
               /\ \A e \in ahead'[d] : e \in Ctx /\ InQueue(e)' /\ lock'[e] = lock'[d]
    BY <1>3, <1>5, <1>6, <2>3 DEF OrderInv
  <2> QED BY <1>3, <1>5, <2>2, <2>3 DEF OrderInv
<1>8. TailInv'
  BY <1>3, <1>5, <1>6 DEF TailInv, TypeOK
<1>9. \A d, e \in Ctx : Behind(d, e) => Behind(d, e)' /\ d # c /\ e # c
  BY <1>1, <1>3, <1>4, <1>5 DEF Behind, OrderInv
<1>10. LinkInv'
  <2>1. pc'[c] = "release_node"
    BY <1>3 DEF TypeOK
  <2>2. ASSUME NEW d \in Ctx, pc'[d] = "link"
        PROVE  \E e \in Ctx : Behind(d, e)' /\ prev'[d] = my_node(e)'
    <3>1. pc[d] = "link"
      BY <1>5, <2>1, <2>2
    <3>2. PICK e \in Ctx : Behind(d, e) /\ prev[d] = my_node(e)
      BY <3>1 DEF LinkInv
    <3> QED BY <1>3, <1>5, <1>9, <3>2
  <2>3. ASSUME NEW e \in Ctx, InQueue(e)', mnext'[my_node(e)'] # NULL
        PROVE  \E d \in Ctx : /\ Behind(d, e)' /\ pc'[d] = "wait_node"
                              /\ mnext'[my_node(e)'] = my_node(d)'
    <3>1. InQueue(e) /\ mnext[my_node(e)] # NULL
      BY <1>3, <1>5, <2>3
    <3>2. PICK d \in Ctx : /\ Behind(d, e) /\ pc[d] = "wait_node"
                           /\ mnext[my_node(e)] = my_node(d)
      BY <3>1 DEF LinkInv
    <3> QED BY <1>3, <1>5, <1>9, <3>2
  <2>4. \A e \in Ctx : InQueue(e)' /\ next'[e] # NULL => next'[e] = mnext'[my_node(e)']
    BY <1>3, <1>5 DEF LinkInv
  <2>5. \A e \in Ctx : pc'[e] = "hand_over" => next'[e] # NULL
    BY <1>3, <1>5, <2>1 DEF LinkInv
  <2> QED BY <2>2, <2>3, <2>4, <2>5, Zenon DEF LinkInv
<1> QED BY <1>7, <1>8, <1>10

\* The first member of the queue hands the queue over to the second.
LEMMA HandOver ==
  ASSUME TypeOK, EngagedInv, OrderInv, TailInv, LinkInv, FlagInv, NodeInv,
         NEW c \in Ctx, mcs_spin_unlock_contended(c)
  PROVE  OrderInv' /\ TailInv' /\ LinkInv' /\ FlagInv' /\ next[c] \in Node
<1> DEFINE k == lock[c]
<1>1. pc[c] = "hand_over" /\ InQueue(c) /\ k \in Locks /\ ahead[c] = {}
  <2>1. pc[c] = "hand_over" /\ InQueue(c)
    BY DEF mcs_spin_unlock_contended, At, InQueue, QueuePcs
  <2> QED BY <2>1, LocalFacts DEF OrderInv, HeadPcs, InQueue
<1>2. PICK s \in Ctx : Behind(s, c) /\ pc[s] = "wait_node" /\ next[c] = my_node(s)
  BY <1>1 DEF LinkInv
<1>3. /\ my_node(s) \in Node /\ InQueue(s) /\ s # c /\ ahead[s] = {c}
  BY <1>1, <1>2, LocalFacts DEF Behind, OrderInv
<1>4. /\ pc' = [pc EXCEPT ![c] = "release_node"]
      /\ mlocked' = [mlocked EXCEPT ![my_node(s)] = 1]
      /\ ahead' = [d \in Ctx |-> ahead[d] \ {c}]
      /\ next' = [next EXCEPT ![c] = NULL]
      /\ UNCHANGED <<tail, lock, idx, mnext, prev>>
  BY <1>2 DEF mcs_spin_unlock_contended, Goto, word
<1>5. \A d \in Ctx : /\ InQueue(d)' <=> InQueue(d) /\ d # c
                     /\ d # c => pc'[d] = pc[d] /\ next'[d] = next[d]
                     /\ ahead'[d] = ahead[d] \ {c}
                     /\ my_node(d)' = my_node(d) /\ my_tail(d)' = my_tail(d)
  BY <1>1, <1>4 DEF TypeOK, InQueue, QueuePcs, my_node, my_tail
<1>6. pc'[c] = "release_node" /\ pc'[s] = "wait_node" /\ ahead'[s] = {}
  BY <1>2, <1>3, <1>4, <1>5 DEF TypeOK
<1>7. OrderInv'
  <2>1. \A d \in Ctx : pc'[d] \in HeadPcs => pc[d] \in HeadPcs
    BY <1>5, <1>6 DEF HeadPcs, QueuePcs
  <2>2. ASSUME NEW d \in Ctx, InQueue(d)'
        PROVE  /\ d \notin ahead'[d]
               /\ \A e \in ahead'[d] : e \in Ctx /\ InQueue(e)' /\ lock'[e] = lock'[d]
    BY <1>4, <1>5, <2>2 DEF OrderInv
  <2> QED BY <1>4, <1>5, <2>1, <2>2 DEF OrderInv
<1>8. TailInv'
  <2>1. \A d \in Ctx : InQueue(d)' => tail'[lock'[d]] # 0
    BY <1>4, <1>5 DEF TailInv
  <2>2. ASSUME NEW j \in Locks, tail'[j] # 0
        PROVE  \E t \in Ctx : /\ InQueue(t)' /\ lock'[t] = j /\ tail'[j] = my_tail(t)'
                              /\ \A d \in Ctx : InQueue(d)' /\ lock'[d] = j /\ d # t
                                                 => d \in ahead'[t]
    <3>1. PICK t \in Ctx : /\ InQueue(t) /\ lock[t] = j /\ tail[j] = my_tail(t)
                           /\ \A d \in Ctx : InQueue(d) /\ lock[d] = j /\ d # t => d \in ahead[t]
      BY <1>4, <2>2 DEF TailInv
    <3>2. t # c
      BY <1>1, <1>2, <1>3, <3>1 DEF Behind
    <3> QED BY <1>4, <1>5, <3>1, <3>2
  <2> QED BY <2>1, <2>2 DEF TailInv
<1>9. \A d, e \in Ctx : Behind(d, e) /\ e # c => Behind(d, e)' /\ d # c
  BY <1>1, <1>4, <1>5 DEF Behind
<1>10. \A d \in Ctx : Behind(d, c) => d = s
  BY <1>2 DEF Behind, OrderInv
<1>11. LinkInv'
  <2>1. ASSUME NEW d \in Ctx, pc'[d] = "link"
        PROVE  \E e \in Ctx : Behind(d, e)' /\ prev'[d] = my_node(e)'
    <3>1. pc[d] = "link" /\ d # s
      BY <1>5, <1>6, <2>1
    <3>2. PICK e \in Ctx : Behind(d, e) /\ prev[d] = my_node(e)
      BY <3>1 DEF LinkInv
    <3> QED BY <1>4, <1>5, <1>9, <1>10, <3>1, <3>2
  <2>2. ASSUME NEW e \in Ctx, InQueue(e)', mnext'[my_node(e)'] # NULL
        PROVE  \E d \in Ctx : /\ Behind(d, e)' /\ pc'[d] = "wait_node"
                              /\ mnext'[my_node(e)'] = my_node(d)'
    <3>1. InQueue(e) /\ e # c /\ mnext[my_node(e)] # NULL
      BY <1>4, <1>5, <2>2
    <3>2. PICK d \in Ctx : /\ Behind(d, e) /\ pc[d] = "wait_node"
                           /\ mnext[my_node(e)] = my_node(d)
      BY <3>1 DEF LinkInv
    <3> QED BY <1>4, <1>5, <1>9, <3>1, <3>2
  <2>3. ASSUME NEW e \in Ctx, InQueue(e)', next'[e] # NULL
        PROVE  next'[e] = mnext'[my_node(e)']
    <3>1. InQueue(e) /\ e # c /\ next'[e] = next[e]
      BY <1>5, <2>3
    <3>2. next[e] = mnext[my_node(e)]
      BY <2>3, <3>1 DEF LinkInv
    <3> QED BY <1>4, <1>5, <3>1, <3>2
  <2>4. ASSUME NEW e \in Ctx, pc'[e] = "hand_over"
        PROVE  next'[e] # NULL
    <3>1. e # c /\ pc[e] = "hand_over" /\ next'[e] = next[e]
      BY <1>5, <1>6, <2>4
    <3> QED BY <3>1 DEF LinkInv
  <2> QED BY <2>1, <2>2, <2>3, <2>4, Zenon DEF LinkInv
<1>12. FlagInv'
  <2>1. \A d \in Ctx : UsesNode(d) /\ d # s => mlocked'[my_node(d)] = mlocked[my_node(d)]
    <3> SUFFICES ASSUME NEW d \in Ctx, UsesNode(d), d # s
                 PROVE  mlocked'[my_node(d)] = mlocked[my_node(d)]
      OBVIOUS
    <3>1. my_node(d) # my_node(s) /\ my_node(d) \in Node
      BY <1>3, NodesDistinct, LocalFacts DEF UsesNode, NodePcs, InQueue
    <3> QED BY <1>4, <3>1 DEF TypeOK
  <2>2. \A d \in Ctx : pc'[d] \in {"try_again", "xchg_tail", "link", "wait_node"}
          => d # c /\ pc[d] = pc'[d] /\ UsesNode(d)
    BY <1>5, <1>6 DEF UsesNode, NodePcs, QueuePcs
  <2>3. \A d \in Ctx : pc'[d] \in {"try_again", "xchg_tail"} => mnext'[my_node(d)'] = NULL
    BY <1>4, <1>5, <2>2 DEF FlagInv
  <2>4. \A d \in Ctx : pc'[d] \in {"try_again", "xchg_tail", "link"}
          => mlocked'[my_node(d)'] = 0
    BY <1>2, <1>5, <2>1, <2>2 DEF FlagInv
  <2>5. \A d \in Ctx : pc'[d] = "wait_node" /\ mlocked'[my_node(d)'] = 1 => ahead'[d] = {}
    BY <1>5, <1>6, <2>1, <2>2 DEF FlagInv
  <2> QED BY <2>3, <2>4, <2>5 DEF FlagInv
<1> QED BY <1>2, <1>3, <1>7, <1>8, <1>11, <1>12

-----------------------------------------------------------------------------
(***************************************************************************)
(* Taking and releasing a queue node of the CPU.                           *)
(***************************************************************************)

\* The node a context grabs is the next one of its CPU's stack.
LEMMA GrabNode ==
  ASSUME TypeOK, NodeInv, NEW c \in Ctx, grab_mcs_node(c)
  PROVE  NodeInv' /\ count[cpu_of(c)] \in 0 .. 3 /\ count' \in [CPU -> Nat]
<1> DEFINE p == cpu_of(c)
<1>1. /\ p \in CPU /\ count[p] \in Nat /\ level_of(c) \in Int
      /\ 0 <= level_of(c) /\ level_of(c) <= 3
  BY ContextFacts, Zenon DEF TypeOK
<1>2. \A d \in Ctx : level_of(d) \in Int /\ idx[d] \in Nat
  BY NumberFacts
<1>3. \A d \in Ctx : UsesNode(d) /\ cpu_of(d) = p => level_of(d) < level_of(c)
  <2> SUFFICES ASSUME NEW d \in Ctx, UsesNode(d), cpu_of(d) = p, ~(level_of(d) < level_of(c))
               PROVE  FALSE
    OBVIOUS
  <2>1. pc[c] = "queue" /\ Runs(c)
    BY DEF grab_mcs_node, At
  <2>2. d # c /\ pc[d] # "off"
    BY <2>1 DEF UsesNode, NodePcs, QueuePcs
  <2>3. level_of(d) # level_of(c)
    BY <2>2, ContextIdentity
  <2>4. level_of(d) > level_of(c)
    BY <1>1, <1>2, <2>3
  <2> QED BY <2>1, <2>2, <2>4 DEF Runs
<1>4. count[p] <= level_of(c)
  <2>1. CASE count[p] = 0
    BY <1>1, <2>1
  <2>2. CASE count[p] # 0
    <3>1. count[p] - 1 \in 0 .. count[p] - 1
      BY <1>1, <2>2
    <3>2. PICK d \in Ctx : cpu_of(d) = p /\ UsesNode(d) /\ idx[d] = count[p] - 1
      BY <1>1, <3>1 DEF NodeInv
    <3>3. idx[d] <= level_of(d) /\ level_of(d) < level_of(c)
      BY <1>3, <3>2 DEF NodeInv
    <3> QED BY <1>1, <1>2, <3>2, <3>3
  <2> QED BY <2>1, <2>2
<1>5. /\ pc' = [pc EXCEPT ![c] = "init_node"]
      /\ idx' = [idx EXCEPT ![c] = count[p]]
      /\ count' = [count EXCEPT ![p] = count[p] + 1]
  BY DEF grab_mcs_node, Goto
<1>6. \A d \in Ctx : /\ UsesNode(d)' <=> UsesNode(d) \/ d = c
                     /\ d # c => idx'[d] = idx[d]
  BY <1>5 DEF TypeOK, UsesNode, NodePcs
<1>7. idx'[c] = count[p] /\ ~UsesNode(c) /\ count'[p] = count[p] + 1
  BY <1>1, <1>5 DEF TypeOK, UsesNode, NodePcs, QueuePcs, grab_mcs_node, At
<1>8. \A q \in CPU : q # p => count'[q] = count[q]
  BY <1>5 DEF TypeOK
<1>9. \A d \in Ctx : UsesNode(d)' => idx'[d] < count'[cpu_of(d)] /\ idx'[d] <= level_of(d)
  <2> SUFFICES ASSUME NEW d \in Ctx, UsesNode(d)'
               PROVE  idx'[d] < count'[cpu_of(d)] /\ idx'[d] <= level_of(d)
    OBVIOUS
  <2>1. CASE d = c
    BY <1>1, <1>4, <1>7, <2>1
  <2>2. CASE d # c
    <3>1. idx[d] < count[cpu_of(d)] /\ idx[d] <= level_of(d) /\ idx'[d] = idx[d]
      BY <1>6, <2>2 DEF NodeInv
    <3>2. cpu_of(d) \in CPU /\ count[cpu_of(d)] \in Nat
      BY ContextFacts, Zenon DEF TypeOK
    <3> QED BY <1>2, <1>7, <1>8, <3>1, <3>2
  <2> QED BY <2>1, <2>2
<1>10. \A d, e \in Ctx : /\ UsesNode(d)' /\ UsesNode(e)'
                         /\ cpu_of(d) = cpu_of(e) /\ level_of(d) < level_of(e)
                         => idx'[d] < idx'[e]
  <2> SUFFICES ASSUME NEW d \in Ctx, NEW e \in Ctx, UsesNode(d)', UsesNode(e)',
                      cpu_of(d) = cpu_of(e), level_of(d) < level_of(e)
               PROVE  idx'[d] < idx'[e]
    OBVIOUS
  <2>1. CASE e = c
    BY <1>1, <1>2, <1>6, <1>7, <2>1 DEF NodeInv
  <2>2. CASE d = c
    BY <1>1, <1>2, <1>3, <1>6, <2>2
  <2>3. CASE d # c /\ e # c
    BY <1>6, <2>3 DEF NodeInv
  <2> QED BY <2>1, <2>2, <2>3
<1>11. \A q \in CPU : \A j \in 0 .. count'[q] - 1 :
         \E d \in Ctx : cpu_of(d) = q /\ UsesNode(d)' /\ idx'[d] = j
  <2> SUFFICES ASSUME NEW q \in CPU, NEW j \in 0 .. count'[q] - 1
               PROVE  \E d \in Ctx : cpu_of(d) = q /\ UsesNode(d)' /\ idx'[d] = j
    OBVIOUS
  <2>1. CASE q = p /\ j = count[p]
    BY <1>6, <1>7, <2>1
  <2>2. CASE ~(q = p /\ j = count[p])
    <3>1. j \in 0 .. count[q] - 1
      BY <1>1, <1>7, <1>8, <2>2
    <3>2. PICK d \in Ctx : cpu_of(d) = q /\ UsesNode(d) /\ idx[d] = j
      BY <3>1 DEF NodeInv
    <3> QED BY <1>6, <1>7, <3>2
  <2> QED BY <2>1, <2>2
<1>12. count' \in [CPU -> Nat]
  BY <1>1, <1>5 DEF TypeOK
<1>13. count[p] \in 0 .. 3
  BY <1>1, <1>4
<1> QED BY <1>9, <1>10, <1>11, <1>12, <1>13 DEF NodeInv

\* The node a context gives back is the last one of its CPU's stack.
LEMMA ReleaseNode ==
  ASSUME TypeOK, NodeInv, NEW c \in Ctx, release_node(c)
  PROVE  NodeInv' /\ count' \in [CPU -> Nat]
<1> DEFINE p == cpu_of(c)
<1>1. /\ p \in CPU /\ count[p] \in Nat /\ UsesNode(c) /\ Runs(c)
  BY ContextFacts, Zenon DEF TypeOK, release_node, At, UsesNode, NodePcs
<1>2. \A d \in Ctx : level_of(d) \in Int /\ idx[d] \in Nat
  BY NumberFacts
<1>3. \A d \in Ctx : UsesNode(d) /\ cpu_of(d) = p /\ d # c => level_of(d) < level_of(c)
  <2> SUFFICES ASSUME NEW d \in Ctx, UsesNode(d), cpu_of(d) = p, d # c,
                      ~(level_of(d) < level_of(c))
               PROVE  FALSE
    OBVIOUS
  <2>1. level_of(d) > level_of(c)
    BY <1>2, ContextIdentity
  <2> QED BY <1>1, <2>1 DEF Runs, UsesNode, NodePcs, QueuePcs
<1>4. idx[c] = count[p] - 1
  <2>1. idx[c] < count[p]
    BY <1>1 DEF NodeInv
  <2>2. count[p] - 1 \in 0 .. count[p] - 1
    BY <1>1, <1>2, <2>1
  <2>3. PICK d \in Ctx : cpu_of(d) = p /\ UsesNode(d) /\ idx[d] = count[p] - 1
    BY <1>1, <2>2 DEF NodeInv
  <2>4. d # c => idx[d] < idx[c]
    BY <1>1, <1>3, <2>3 DEF NodeInv
  <2> QED BY <1>1, <1>2, <2>1, <2>3, <2>4
<1>5. /\ pc' = [pc EXCEPT ![c] = "held"]
      /\ idx' = [idx EXCEPT ![c] = 0]
      /\ count' = [count EXCEPT ![p] = count[p] - 1]
  BY DEF release_node, Goto
<1>6. \A d \in Ctx : /\ UsesNode(d)' <=> UsesNode(d) /\ d # c
                     /\ d # c => idx'[d] = idx[d]
  BY <1>5 DEF TypeOK, UsesNode, NodePcs, QueuePcs
<1>7. count'[p] = count[p] - 1 /\ \A q \in CPU : q # p => count'[q] = count[q]
  BY <1>1, <1>5 DEF TypeOK
<1>8. count' \in [CPU -> Nat]
  BY <1>1, <1>2, <1>4, <1>5 DEF TypeOK
<1>9. \A d \in Ctx : UsesNode(d)' => idx'[d] < count'[cpu_of(d)] /\ idx'[d] <= level_of(d)
  <2> SUFFICES ASSUME NEW d \in Ctx, UsesNode(d), d # c
               PROVE  idx[d] < count'[cpu_of(d)] /\ idx[d] <= level_of(d)
    BY <1>6
  <2>1. idx[d] < count[cpu_of(d)] /\ idx[d] <= level_of(d)
    BY DEF NodeInv
  <2>2. CASE cpu_of(d) = p
    <3>1. idx[d] < idx[c]
      BY <1>1, <1>3, <2>2 DEF NodeInv
    <3> QED BY <1>4, <1>7, <2>1, <2>2, <3>1
  <2>3. CASE cpu_of(d) # p
    BY <1>7, <2>1, <2>3, ContextFacts, Zenon
  <2> QED BY <2>2, <2>3
<1>10. \A d, e \in Ctx : /\ UsesNode(d)' /\ UsesNode(e)'
                         /\ cpu_of(d) = cpu_of(e) /\ level_of(d) < level_of(e)
                         => idx'[d] < idx'[e]
  BY <1>6 DEF NodeInv
<1>11. \A q \in CPU : \A j \in 0 .. count'[q] - 1 :
         \E d \in Ctx : cpu_of(d) = q /\ UsesNode(d)' /\ idx'[d] = j
  <2> SUFFICES ASSUME NEW q \in CPU, NEW j \in 0 .. count'[q] - 1
               PROVE  \E d \in Ctx : cpu_of(d) = q /\ UsesNode(d)' /\ idx'[d] = j
    OBVIOUS
  <2>1. j \in 0 .. count[q] - 1 /\ (q = p => j # idx[c])
    BY <1>1, <1>2, <1>4, <1>7
  <2>2. PICK d \in Ctx : cpu_of(d) = q /\ UsesNode(d) /\ idx[d] = j
    BY <2>1 DEF NodeInv
  <2> QED BY <1>6, <2>1, <2>2
<1> QED BY <1>8, <1>9, <1>10, <1>11 DEF NodeInv
=============================================================================
