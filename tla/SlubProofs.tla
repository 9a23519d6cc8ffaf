----------------------------- MODULE SlubProofs -----------------------------
(***************************************************************************)
(* TidUnique for any number of CPUs, pages, objects and calls, in the      *)
(* scenarios in which the page allocator fails only where tasks and        *)
(* handlers do not share a CPU.                                            *)
(*                                                                         *)
(* Every part of the slow path that changes the slab or the list of the    *)
(* CPU ends with next_tid(), unless new_slab() fails.  So a context whose  *)
(* tid is current finds what it has read, unless the other context of its  *)
(* CPU is in such a part; that part has interrupts off or is the handler,  *)
(* and the first context does not run meanwhile.                           *)
(***************************************************************************)
EXTENDS Slub, TLAPS

(* The premise: where the page allocator may fail, either tasks or handlers of
   a CPU use the cache, not both. *)
SafeConf == conf.fail => \A c \in CPU : <<c, 0>> \notin conf.ctx \/ <<c, 1>> \notin conf.ctx

other(x) == <<x[1], 1 - x[2]>>

(* Where tid has been read and may still be current. *)
Fast == {"object", "next", "cmpxchg", "free_page", "free_link", "free_swap"}

(* Where the slab or the list of the CPU may have changed and next_tid() is
   still to come. *)
Slow == {"partial", "partial_lock", "acquire", "new_slab", "drain", "unfreeze",
         "unfreeze_list", "unfreeze_cmpxchg", "bulk"}

(* x finds what it has read. *)
Sees(x) ==
  /\ pc[x] \in {"next", "cmpxchg"} => cpu[x[1]].freelist = loc[x].obj
  /\ pc[x] \in {"free_link", "free_swap"} => cpu[x[1]].page = loc[x].pg

Shape ==
  /\ DOMAIN pc = Ctx /\ DOMAIN loc = Ctx /\ DOMAIN cpu = CPU
  /\ \A x \in Ctx : {"fresh", "obj", "pg"} \subseteq DOMAIN loc[x]
  /\ \A c \in CPU : {"freelist", "page"} \subseteq DOMAIN cpu[c]

(* The inductive invariant. *)
IInv ==
  /\ Shape
  /\ SafeConf
  /\ \A x \in Ctx : pc[x] # "idle" => x \in conf.ctx
  /\ \A c \in CPU : pc[<<c, 1>>] # "idle" => pc[<<c, 0>>] \notin Slow
  /\ \A x \in Ctx : loc[x].fresh => /\ pc[x] \in Fast
                                    /\ Sees(x) \/ pc[other(x)] \in Slow

-----------------------------------------------------------------------------
(* What a step of x does to tid: nothing, while it leaves the CPU alone or
   stays where next_tid() is to come; next_tid(); or new_slab() fails. *)
Keeps(x) ==
  /\ \A y \in Ctx : y # x => loc'[y] = loc[y]
  /\ \/ pc'[x] \in Slow
     \/ cpu'[x[1]] = cpu[x[1]] /\ pc[x] \notin Slow
Bumps(x) ==
  \A y \in Ctx : IF y[1] = x[1] THEN ~loc'[y].fresh ELSE loc'[y] = loc[y]
Fails(x) ==
  /\ \A y \in Ctx : y # x => loc'[y] = loc[y]
  /\ conf.fail

StepOf(x) ==
  /\ Shape'
  /\ conf' = conf
  /\ Runs(x)
  /\ pc[x] # "idle" \/ x \in conf.ctx
  /\ \A y \in Ctx : y # x => pc'[y] = pc[y]
  /\ \A c \in CPU : c # x[1] => cpu'[c] = cpu[c]
  /\ loc'[x].fresh => pc'[x] \in Fast /\ Sees(x)'
  /\ Keeps(x) \/ Bumps(x) \/ Fails(x)

(* A context that runs and whose tid is current finds what it has read: the
   other context of its CPU is not in the slow path. *)
LEMMA RunsSees ==
  ASSUME IInv, NEW x \in Ctx, Runs(x), loc[x].fresh
  PROVE  Sees(x)
<1>1. PICK c \in CPU, l \in {0, 1} : x = <<c, l>>
  BY DEF Ctx
<1>2. pc[x] # "idle"
  BY DEF IInv, Fast
<1>3. CASE l = 0
  BY <1>1, <1>2, <1>3 DEF IInv, Runs, Slow, other, Ctx
<1>4. CASE l = 1
  BY <1>1, <1>2, <1>4 DEF IInv, Runs, Slow, other, Ctx
<1> QED BY <1>3, <1>4

(* Whatever the kind of the step, the invariant holds after it. *)
LEMMA StepKeepsInvariant ==
  ASSUME IInv, NEW x \in Ctx, StepOf(x)
  PROVE  IInv'
<1>1. PICK c \in CPU, l \in {0, 1} : x = <<c, l>>
  BY DEF Ctx
<1>2. Shape' /\ SafeConf'
  BY DEF IInv, StepOf, SafeConf
<1>3. \A y \in Ctx : pc'[y] # "idle" => y \in conf'.ctx
  BY DEF IInv, StepOf
<1>4. ASSUME NEW k \in CPU, pc'[<<k, 1>>] # "idle"
      PROVE  pc'[<<k, 0>>] \notin Slow
  <2>1. CASE x = <<k, 0>>
    BY <1>4, <2>1 DEF StepOf, Runs, Ctx
  <2>2. CASE x = <<k, 1>>
    <3>1. pc[<<k, 0>>] \notin Slow
      BY <2>2 DEF IInv, StepOf, Runs, IrqsOff, Slow
    <3> QED BY <2>2, <3>1 DEF StepOf, Ctx
  <2>3. CASE x # <<k, 0>> /\ x # <<k, 1>>
    BY <1>4, <2>3 DEF IInv, StepOf, Ctx
  <2> QED BY <2>1, <2>2, <2>3
<1>5. ASSUME NEW y \in Ctx, loc'[y].fresh
      PROVE  /\ pc'[y] \in Fast
             /\ Sees(y)' \/ pc'[other(y)] \in Slow
  <2>1. CASE y = x
    BY <1>5, <2>1 DEF StepOf
  <2>2. CASE y # x /\ y[1] # x[1]
    <3>1. loc'[y] = loc[y]
      BY <2>2 DEF StepOf, Keeps, Bumps, Fails
    <3>2. other(y) \in Ctx /\ other(y) # x /\ y[1] \in CPU
      BY <2>2, <1>1 DEF other, Ctx
    <3> QED BY <1>5, <2>2, <3>1, <3>2 DEF IInv, StepOf, Sees
  <2>3. CASE y # x /\ y[1] = x[1]
    <3>1. x = other(y)
      BY <1>1, <2>3 DEF other, Ctx
    <3>2. Keeps(x) \/ Fails(x)
      BY <1>5, <2>3 DEF StepOf, Bumps
    <3>3. loc'[y] = loc[y] /\ pc'[y] = pc[y]
      BY <2>3, <3>2 DEF StepOf, Keeps, Fails
    <3>4. pc[y] \in Fast /\ (Sees(y) \/ pc[x] \in Slow)
      BY <1>5, <3>1, <3>3 DEF IInv
    <3>5. CASE Fails(x)
      <4>1. x \in conf.ctx /\ y \in conf.ctx
        BY <3>4 DEF IInv, StepOf, Fast
      <4>2. \A k \in CPU : <<k, 0>> \notin conf.ctx \/ <<k, 1>> \notin conf.ctx
        BY <3>5, Zenon DEF IInv, SafeConf, Fails
      <4>3. y = <<c, 1 - l>>
        BY <1>1, <2>3 DEF Ctx
      <4> QED BY <1>1, <4>1, <4>2, <4>3
    <3>6. CASE Keeps(x) /\ pc'[x] \in Slow
      BY <3>1, <3>3, <3>4, <3>6
    <3>7. CASE Keeps(x) /\ pc'[x] \notin Slow
      BY <2>3, <3>3, <3>4, <3>7 DEF Keeps, Sees
    <3> QED BY <3>2, <3>5, <3>6, <3>7
  <2> QED BY <2>1, <2>2, <2>3
<1> QED BY <1>2, <1>3, <1>4, <1>5 DEF IInv

-----------------------------------------------------------------------------
(* The kinds of the actions.  In all lemmas x is the context that moves. *)

(* What next_tid(), load_freelist() and Done() come to: wherever tid steps, no
   context of the CPU keeps it. *)
LEMMA NextTid ==
  ASSUME IInv, NEW x \in Ctx, NEW r, {"fresh", "obj", "pg"} \subseteq DOMAIN r,
         next_tid(x, r)
  PROVE  /\ Bumps(x)
         /\ ~loc'[x].fresh
         /\ DOMAIN loc' = Ctx
         /\ \A y \in Ctx : {"fresh", "obj", "pg"} \subseteq DOMAIN loc'[y]
<1>1. DOMAIN loc' = Ctx
  BY DEF next_tid
<1>2. loc'[x] = [r EXCEPT !.fresh = FALSE]
  BY DEF next_tid
<1>3. DOMAIN loc'[x] = DOMAIN r /\ loc'[x].fresh = FALSE
  BY <1>2
<1>4. ASSUME NEW y \in Ctx, y # x
      PROVE  IF y[1] = x[1] THEN loc'[y] = [loc[y] EXCEPT !.fresh = FALSE]
                            ELSE loc'[y] = loc[y]
  BY <1>4 DEF next_tid
<1>5. ASSUME NEW y \in Ctx, y # x
      PROVE  /\ DOMAIN loc'[y] = DOMAIN loc[y]
             /\ IF y[1] = x[1] THEN loc'[y].fresh = FALSE ELSE loc'[y] = loc[y]
  BY <1>4, <1>5, Zenon DEF IInv, Shape
<1>6. \A y \in Ctx : {"fresh", "obj", "pg"} \subseteq DOMAIN loc'[y]
  BY <1>3, <1>5, Zenon DEF IInv, Shape
<1>7. Bumps(x)
  BY <1>3, <1>5, Zenon DEF Bumps
<1> QED BY <1>1, <1>3, <1>6, <1>7

(* The fields of Idle, also with other values. *)
LEMMA IdleFields ==
  /\ {"fresh", "obj", "pg"} \subseteq DOMAIN Idle
  /\ ~Idle.fresh
BY DEF Idle

(* A context at rest has no tid. *)
LEMMA RestFields ==
  ASSUME NEW x \in Ctx
  PROVE  /\ {"fresh", "obj", "pg"} \subseteq DOMAIN Rest(x)
         /\ ~Rest(x).fresh
BY DEF Rest, Idle

(* load_freelist() is a step with next_tid(). *)
LEMMA LoadFreelist ==
  ASSUME IInv, NEW x \in Ctx, NEW p, NEW o, NEW f, load_freelist(x, p, o, f),
         Runs(x), pc[x] # "idle", conf' = conf
  PROVE  StepOf(x)
<1>1. x[1] \in CPU
  BY DEF Ctx
<1>2. /\ DOMAIN cpu' = CPU
      /\ cpu'[x[1]] = [freelist |-> f[o], page |-> p]
      /\ \A c \in CPU : c # x[1] => cpu'[c] = cpu[c]
  BY <1>1 DEF IInv, Shape, load_freelist
<1>3. \A c \in CPU : {"freelist", "page"} \subseteq DOMAIN cpu'[c]
  BY <1>2 DEF IInv, Shape
<1>4. DOMAIN pc' = Ctx /\ \A y \in Ctx : y # x => pc'[y] = pc[y]
  BY DEF IInv, Shape, load_freelist, Done, Goto
<1>5. PICK r : {"fresh", "obj", "pg"} \subseteq DOMAIN r /\ next_tid(x, r)
  <2>1. CASE loc[x].want > 0
    <3> DEFINE r == [Idle EXCEPT !.want = loc[x].want - 1, !.got = loc[x].got \cup {o}]
    <3>1. {"fresh", "obj", "pg"} \subseteq DOMAIN r
      BY IdleFields
    <3>2. next_tid(x, r)
      BY <2>1 DEF load_freelist
    <3> QED BY <3>1, <3>2, Zenon
  <2>2. CASE ~(loc[x].want > 0)
    BY <2>2, IdleFields DEF load_freelist, Done
  <2> QED BY <2>1, <2>2
<1>6. /\ Bumps(x) /\ ~loc'[x].fresh /\ DOMAIN loc' = Ctx
      /\ \A y \in Ctx : {"fresh", "obj", "pg"} \subseteq DOMAIN loc'[y]
  BY <1>5, NextTid
<1>7. Shape'
  BY <1>2, <1>3, <1>4, <1>6 DEF Shape
<1> QED BY <1>2, <1>4, <1>6, <1>7 DEF StepOf

(* A step with next_tid() at the end of a fast path or of a bulk allocation. *)
LEMMA FastEnd ==
  ASSUME IInv, NEW x \in Ctx, NEW r, {"fresh", "obj", "pg"} \subseteq DOMAIN r,
         next_tid(x, r), NEW v,
         cpu' = cpu \/ cpu' = [cpu EXCEPT ![x[1]].freelist = v],
         NEW l, Goto(x, l), Runs(x), pc[x] # "idle", conf' = conf
  PROVE  StepOf(x)
<1>1. x[1] \in CPU
  BY DEF Ctx
<1>2. /\ DOMAIN cpu' = CPU
      /\ \A c \in CPU : c # x[1] => cpu'[c] = cpu[c]
      /\ DOMAIN cpu'[x[1]] = DOMAIN cpu[x[1]]
  BY <1>1 DEF IInv, Shape
<1>3. \A c \in CPU : {"freelist", "page"} \subseteq DOMAIN cpu'[c]
  BY <1>1, <1>2 DEF IInv, Shape
<1>4. DOMAIN pc' = Ctx /\ \A y \in Ctx : y # x => pc'[y] = pc[y]
  BY DEF IInv, Shape, Goto
<1>5. /\ Bumps(x) /\ ~loc'[x].fresh /\ DOMAIN loc' = Ctx
      /\ \A y \in Ctx : {"fresh", "obj", "pg"} \subseteq DOMAIN loc'[y]
  BY NextTid
<1>6. Shape'
  BY <1>2, <1>3, <1>4, <1>5 DEF Shape
<1> QED BY <1>2, <1>4, <1>5, <1>6 DEF StepOf

(* Of the local variables and program counters, a step that does not change
   tid changes those of x only. *)
Moves(x) ==
  /\ DOMAIN pc' = Ctx /\ \A y \in Ctx : y # x => pc'[y] = pc[y]
  /\ DOMAIN loc' = Ctx /\ \A y \in Ctx : y # x => loc'[y] = loc[y]
  /\ {"fresh", "obj", "pg"} \subseteq DOMAIN loc'[x]

(* A step that leaves the CPU alone. *)
LEMMA LocalStep ==
  ASSUME IInv, NEW x \in Ctx, Moves(x), cpu' = cpu, conf' = conf,
         Runs(x), pc[x] # "idle" \/ x \in conf.ctx,
         pc[x] \in Slow => pc'[x] \in Slow,
         loc'[x].fresh => pc'[x] \in Fast /\ Sees(x)'
  PROVE  StepOf(x)
<1>1. Shape'
  BY DEF IInv, Shape, Moves
<1>2. Keeps(x)
  BY DEF Keeps, Moves
<1> QED BY <1>1, <1>2 DEF StepOf, Moves

(* A step after which next_tid() is still to come. *)
LEMMA SlowStep ==
  ASSUME IInv, NEW x \in Ctx, Moves(x), conf' = conf, Runs(x), pc[x] # "idle",
         DOMAIN cpu' = CPU, \A c \in CPU : c # x[1] => cpu'[c] = cpu[c],
         {"freelist", "page"} \subseteq DOMAIN cpu'[x[1]],
         pc'[x] \in Slow, ~loc'[x].fresh
  PROVE  StepOf(x)
<1>1. Shape'
  BY DEF IInv, Shape, Moves
<1>2. Keeps(x)
  BY DEF Keeps, Moves
<1> QED BY <1>1, <1>2 DEF StepOf, Moves

(* A context outside the fast paths has no tid. *)
LEMMA NotFresh ==
  ASSUME IInv, NEW x \in Ctx, pc[x] \notin Fast
  PROVE  ~loc[x].fresh
BY DEF IInv

(* The calls. *)
LEMMA CallSteps ==
  ASSUME IInv, NEW x \in Ctx, Call(x)
  PROVE  StepOf(x)
<1>1. ASSUME NEW node \in conf.nodes, kmem_cache_alloc_node(x, node)
      PROVE  StepOf(x)
  <2>1. Moves(x) /\ pc'[x] = "object"
    BY <1>1 DEF IInv, Shape, kmem_cache_alloc_node, Goto, Moves
  <2>2. pc[x] = "idle" /\ Runs(x) /\ x \in conf.ctx /\ cpu' = cpu /\ conf' = conf
    BY <1>1 DEF kmem_cache_alloc_node, Begins
  <2> QED BY <2>1, <2>2, LocalStep DEF Slow, Fast, Sees
<1>2. CASE kmem_cache_alloc_bulk(x, 2)
  <2>1. Moves(x) /\ pc'[x] = "bulk" /\ loc'[x].fresh = loc[x].fresh
    BY <1>2 DEF IInv, Shape, kmem_cache_alloc_bulk, Goto, Moves
  <2>2. pc[x] = "idle" /\ Runs(x) /\ x \in conf.ctx /\ cpu' = cpu /\ conf' = conf
    BY <1>2 DEF kmem_cache_alloc_bulk, Begins
  <2> QED BY <2>1, <2>2, LocalStep, NotFresh DEF Slow, Fast
<1>3. ASSUME NEW o \in held, kmem_cache_free(x, o)
      PROVE  StepOf(x)
  <2>1. Moves(x) /\ pc'[x] = "free_next" /\ loc'[x].fresh = loc[x].fresh
    BY <1>3 DEF IInv, Shape, kmem_cache_free, Goto, Moves
  <2>2. pc[x] = "idle" /\ Runs(x) /\ x \in conf.ctx /\ cpu' = cpu /\ conf' = conf
    BY <1>3 DEF kmem_cache_free, Begins
  <2> QED BY <2>1, <2>2, LocalStep, NotFresh DEF Slow, Fast
<1>4. ASSUME NEW os, kmem_cache_free_bulk(x, os)
      PROVE  StepOf(x)
  <2>1. Moves(x) /\ pc'[x] = "free_next" /\ loc'[x].fresh = loc[x].fresh
    BY <1>4 DEF IInv, Shape, kmem_cache_free_bulk, Goto, Moves
  <2>2. pc[x] = "idle" /\ Runs(x) /\ x \in conf.ctx /\ cpu' = cpu /\ conf' = conf
    BY <1>4 DEF kmem_cache_free_bulk, Begins
  <2> QED BY <2>1, <2>2, LocalStep, NotFresh DEF Slow, Fast
<1>5. CASE kmem_cache_shrink(x)
  <2>1. Moves(x) /\ pc'[x] = "shrink" /\ loc'[x].fresh = loc[x].fresh
    BY <1>5 DEF IInv, Shape, kmem_cache_shrink, Goto, Moves
  <2>2. pc[x] = "idle" /\ Runs(x) /\ x \in conf.ctx /\ cpu' = cpu /\ conf' = conf
    BY <1>5 DEF kmem_cache_shrink, Begins
  <2> QED BY <2>1, <2>2, LocalStep, NotFresh DEF Slow, Fast
<1> QED BY <1>1, <1>2, <1>3, <1>4, <1>5, Zenon DEF Call

(* The fast path of an allocation. *)
LEMMA AllocSteps ==
  ASSUME IInv, NEW x \in Ctx, alloc_object(x) \/ get_freepointer(x) \/ alloc_cmpxchg(x)
  PROVE  StepOf(x)
<1>1. CASE alloc_object(x)
  <2>1. At(x, "object") /\ cpu' = cpu /\ conf' = conf
    BY <1>1 DEF alloc_object
  <2>2. Moves(x) /\ pc'[x] \in {"slow", "next"}
    BY <1>1 DEF IInv, Shape, alloc_object, Goto, Moves
  <2>3. loc'[x].fresh => pc'[x] = "next" /\ loc'[x].obj = cpu[x[1]].freelist
    BY <1>1, Zenon DEF IInv, Shape, alloc_object, Goto
  <2> QED BY <2>1, <2>2, <2>3, LocalStep DEF At, Slow, Fast, Sees
<1>2. CASE get_freepointer(x)
  <2>1. At(x, "next") /\ cpu' = cpu /\ conf' = conf
    BY <1>2 DEF get_freepointer
  <2>2. /\ Moves(x) /\ pc'[x] = "cmpxchg"
        /\ loc'[x].fresh = loc[x].fresh /\ loc'[x].obj = loc[x].obj
    BY <1>2 DEF IInv, Shape, get_freepointer, Goto, Moves
  <2>3. loc[x].fresh => cpu[x[1]].freelist = loc[x].obj
    BY <2>1, RunsSees DEF At, Sees
  <2> QED BY <2>1, <2>2, <2>3, LocalStep DEF At, Slow, Fast, Sees
<1>3. CASE alloc_cmpxchg(x) /\ Current(x)
  <2>1. /\ At(x, "cmpxchg") /\ conf' = conf
        /\ cpu' = [cpu EXCEPT ![x[1]].freelist = loc[x].nxt]
        /\ next_tid(x, Idle) /\ Goto(x, "idle")
    BY <1>3 DEF alloc_cmpxchg, Done
  <2> QED BY <2>1, FastEnd, IdleFields, Zenon DEF At
<1>4. CASE alloc_cmpxchg(x) /\ ~Current(x)
  <2>1. At(x, "cmpxchg") /\ cpu' = cpu /\ conf' = conf
    BY <1>4 DEF alloc_cmpxchg
  <2>2. Moves(x) /\ pc'[x] = "object"
    BY <1>4 DEF IInv, Shape, alloc_cmpxchg, Goto, Moves
  <2> QED BY <2>1, <2>2, LocalStep DEF At, Slow, Fast, Sees
<1> QED BY <1>1, <1>2, <1>3, <1>4

(* The slow path of an allocation. *)
LEMMA SlabAllocStep ==
  ASSUME IInv, NEW x \in Ctx, ___slab_alloc(x)
  PROVE  StepOf(x)
<1> DEFINE p == cpu[x[1]].page
           list == page[p].freelist
<1>1. /\ pc[x] \in {"slow", "bulk"} /\ Runs(x) /\ conf' = conf /\ x[1] \in CPU
  BY DEF ___slab_alloc, At, Ctx
<1>2. ~loc[x].fresh /\ pc[x] # "idle"
  BY <1>1, NotFresh DEF Fast
<1>3. CASE p = NULL
  <2>1. Moves(x) /\ pc'[x] = "partial" /\ ~loc'[x].fresh /\ cpu' = cpu
    BY <1>2, <1>3 DEF IInv, Shape, ___slab_alloc, Goto, Moves
  <2> QED BY <1>1, <1>2, <2>1, LocalStep DEF Slow
<1>4. CASE p # NULL /\ ~node_match(p, loc[x].node)
  <2>1. cpu' = cpu /\ Goto(x, "drain")
    BY <1>4 DEF ___slab_alloc
  <2>2. loc' = [loc EXCEPT ![x].pg = p, ![x].list = cpu[x[1]].freelist,
                           ![x].tail = list # NULL]
    BY <1>4, Zenon DEF ___slab_alloc
  <2>3. Moves(x) /\ pc'[x] = "drain" /\ ~loc'[x].fresh
    BY <1>2, <2>1, <2>2 DEF IInv, Shape, Goto, Moves
  <2> QED BY <1>1, <1>2, <2>1, <2>3, LocalStep, SMTT(30) DEF Slow
<1>5. CASE p # NULL /\ node_match(p, loc[x].node) /\ cpu[x[1]].freelist # NULL
  <2>1. load_freelist(x, p, cpu[x[1]].freelist, fp)
    BY <1>5 DEF ___slab_alloc
  <2> QED BY <1>1, <1>2, <2>1, LoadFreelist
<1>6. CASE p # NULL /\ node_match(p, loc[x].node) /\ cpu[x[1]].freelist = NULL /\ list # NULL
  <2>1. load_freelist(x, p, list, fp)
    BY <1>6 DEF ___slab_alloc
  <2> QED BY <1>1, <1>2, <2>1, LoadFreelist
<1>7. CASE p # NULL /\ node_match(p, loc[x].node) /\ cpu[x[1]].freelist = NULL /\ list = NULL
  <2>1. cpu' = [cpu EXCEPT ![x[1]].page = NULL] /\ Goto(x, "partial") /\ loc' = loc
    BY <1>7 DEF ___slab_alloc
  <2>2. Moves(x) /\ pc'[x] = "partial" /\ ~loc'[x].fresh
    BY <1>2, <2>1 DEF IInv, Shape, Goto, Moves
  <2>3. /\ DOMAIN cpu' = CPU /\ \A c \in CPU : c # x[1] => cpu'[c] = cpu[c]
        /\ {"freelist", "page"} \subseteq DOMAIN cpu'[x[1]]
    BY <1>1, <2>1 DEF IInv, Shape
  <2> QED BY <1>1, <1>2, <2>2, <2>3, SlowStep DEF Slow
<1> QED BY <1>3, <1>4, <1>5, <1>6, <1>7, SMTT(30)

(* get_partial(): the lists of the nodes and acquire_slab(). *)
LEMMA PartialSteps ==
  ASSUME IInv, NEW x \in Ctx, get_partial(x) \/ partial_lock(x) \/ acquire_slab(x)
  PROVE  StepOf(x)
<1>1. CASE get_partial(x)
  <2>1. At(x, "partial") /\ cpu' = cpu /\ conf' = conf /\ loc' = loc
    BY <1>1 DEF get_partial
  <2>2. Moves(x) /\ pc'[x] \in Slow
    BY <1>1, <2>1 DEF IInv, Shape, get_partial, Goto, Moves, Slow
  <2> QED BY <2>1, <2>2, LocalStep, NotFresh DEF At, Fast
<1>2. CASE partial_lock(x)
  <2>1. At(x, "partial_lock") /\ cpu' = cpu /\ conf' = conf
    BY <1>2 DEF partial_lock
  <2>2. Moves(x) /\ pc'[x] \in Slow /\ loc'[x].fresh = loc[x].fresh
    BY <1>2 DEF IInv, Shape, partial_lock, Goto, Moves, Slow
  <2> QED BY <2>1, <2>2, LocalStep, NotFresh DEF At, Fast
<1>3. CASE acquire_slab(x) /\ Same(x)
  <2>1. /\ At(x, "acquire") /\ conf' = conf
        /\ load_freelist(x, loc[x].pg, loc[x].old.freelist, fp)
    BY <1>3 DEF acquire_slab
  <2> QED BY <2>1, LoadFreelist DEF At
<1>4. CASE acquire_slab(x) /\ ~Same(x)
  <2>1. At(x, "acquire") /\ cpu' = cpu /\ conf' = conf
    BY <1>4 DEF acquire_slab
  <2>2. Moves(x) /\ pc'[x] \in Slow /\ loc'[x].fresh = loc[x].fresh
    BY <1>4 DEF IInv, Shape, acquire_slab, Goto, Moves, Slow
  <2> QED BY <2>1, <2>2, LocalStep, NotFresh DEF At, Fast
<1> QED BY <1>1, <1>2, <1>3, <1>4

(* new_slab() and what ___slab_alloc() does with its result. *)
LEMMA NewSlabSteps ==
  ASSUME IInv, NEW x \in Ctx,
         (\E p \in Page : new_slab(x, p)) \/ new_slab_fails(x) \/ bulk_object(x)
  PROVE  StepOf(x)
<1>1. ASSUME NEW p \in Page, new_slab(x, p)
      PROVE  StepOf(x)
  <2>1. /\ At(x, "new_slab") /\ conf' = conf
        /\ \E f : load_freelist(x, p, <<p, 1>>, f)
    BY <1>1 DEF new_slab
  <2> QED BY <2>1, LoadFreelist DEF At
<1>2. CASE new_slab_fails(x)
  <2>1. At(x, "new_slab") /\ conf.fail /\ cpu' = cpu /\ conf' = conf
    BY <1>2 DEF new_slab_fails
  <2>2. CASE loc[x].got = {}
    <3>1. Moves(x) /\ loc'[x] = Idle
      BY <1>2, <2>2, IdleFields DEF IInv, Shape, new_slab_fails, Return, Goto, Moves
    <3>2. Shape' /\ Fails(x)
      BY <2>1, <3>1 DEF IInv, Shape, Moves, Fails
    <3> QED BY <2>1, <3>1, <3>2, IdleFields DEF StepOf, Moves, At
  <2>3. CASE loc[x].got # {}
    <3>1. Moves(x) /\ loc'[x] = [Idle EXCEPT !.todo = loc[x].got]
      BY <1>2, <2>3, IdleFields DEF IInv, Shape, new_slab_fails, Goto, Moves
    <3>2. Shape' /\ Fails(x)
      BY <2>1, <3>1 DEF IInv, Shape, Moves, Fails
    <3>3. ~loc'[x].fresh
      BY <3>1 DEF Idle
    <3> QED BY <2>1, <3>1, <3>2, <3>3 DEF StepOf, Moves, At
  <2> QED BY <2>2, <2>3
<1>3. CASE bulk_object(x) /\ loc[x].want = 0
  <2>1. /\ At(x, "bulk") /\ cpu' = cpu /\ conf' = conf
        /\ next_tid(x, Idle) /\ Goto(x, "idle")
    BY <1>3 DEF bulk_object, Done
  <2> QED BY <2>1, FastEnd, IdleFields DEF At
<1>4. CASE bulk_object(x) /\ loc[x].want # 0
  <2>1. /\ At(x, "bulk") /\ conf' = conf /\ pc' = pc /\ x[1] \in CPU
        /\ cpu' = [cpu EXCEPT ![x[1]].freelist = fp[cpu[x[1]].freelist]]
    BY <1>4 DEF bulk_object, Ctx
  <2>2. Moves(x) /\ loc'[x].fresh = loc[x].fresh
    BY <1>4 DEF IInv, Shape, bulk_object, Moves
  <2>3. /\ DOMAIN cpu' = CPU /\ \A c \in CPU : c # x[1] => cpu'[c] = cpu[c]
        /\ {"freelist", "page"} \subseteq DOMAIN cpu'[x[1]]
    BY <2>1 DEF IInv, Shape
  <2> QED BY <2>1, <2>2, <2>3, SlowStep, NotFresh DEF At, Slow, Fast
<1> QED BY <1>1, <1>2, <1>3, <1>4

(* deactivate_slab(). *)
LEMMA DeactivateSteps ==
  ASSUME IInv, NEW x \in Ctx,
         drain(x) \/ unfreeze(x) \/ unfreeze_list(x) \/ unfreeze_cmpxchg(x)
  PROVE  StepOf(x)
<1>1. CASE drain(x)
  <2>1. At(x, "drain") /\ cpu' = cpu /\ conf' = conf
    BY <1>1 DEF drain
  <2>2. /\ pc' = pc \/ Goto(x, "unfreeze")
        /\ \/ loc' = loc
           \/ loc' = [loc EXCEPT ![x].list = fp[loc[x].list]]
    BY <1>1 DEF drain
  <2>3. Moves(x) /\ pc'[x] \in {"drain", "unfreeze"} /\ loc'[x].fresh = loc[x].fresh
    BY <2>1, <2>2 DEF IInv, Shape, At, Goto, Moves
  <2> QED BY <2>1, <2>3, LocalStep, NotFresh DEF At, Slow, Fast
<1>2. CASE unfreeze(x)
  <2>1. At(x, "unfreeze") /\ cpu' = cpu /\ conf' = conf
    BY <1>2 DEF unfreeze
  <2>2. Moves(x) /\ pc'[x] = "unfreeze_list" /\ loc'[x].fresh = loc[x].fresh
    BY <1>2 DEF IInv, Shape, unfreeze, Goto, Moves
  <2> QED BY <2>1, <2>2, LocalStep, NotFresh DEF At, Slow, Fast
<1>3. CASE unfreeze_list(x)
  <2>1. At(x, "unfreeze_list") /\ cpu' = cpu /\ conf' = conf
    BY <1>3 DEF unfreeze_list
  <2>2. Moves(x) /\ pc'[x] = "unfreeze_cmpxchg" /\ loc'[x].fresh = loc[x].fresh
    BY <1>3 DEF IInv, Shape, unfreeze_list, Goto, Moves
  <2> QED BY <2>1, <2>2, LocalStep, NotFresh DEF At, Slow, Fast
<1>4. CASE unfreeze_cmpxchg(x) /\ Same(x)
  <2>1. /\ At(x, "unfreeze_cmpxchg") /\ conf' = conf /\ x[1] \in CPU
        /\ cpu' = [cpu EXCEPT ![x[1]] = [freelist |-> NULL, page |-> NULL]]
        /\ loc' = [loc EXCEPT ![x] = [Idle EXCEPT !.node = loc[x].node,
                                       !.want = loc[x].want, !.got = loc[x].got]]
        /\ Goto(x, "partial")
    BY <1>4 DEF unfreeze_cmpxchg, Ctx
  <2>2. loc'[x] = [Idle EXCEPT !.node = loc[x].node, !.want = loc[x].want, !.got = loc[x].got]
    BY <2>1 DEF IInv, Shape
  <2>3. {"fresh", "obj", "pg"} \subseteq DOMAIN loc'[x] /\ ~loc'[x].fresh
    BY <2>2 DEF Idle
  <2>4. Moves(x) /\ pc'[x] = "partial"
    BY <2>1, <2>3 DEF IInv, Shape, Goto, Moves
  <2>5. /\ DOMAIN cpu' = CPU /\ \A c \in CPU : c # x[1] => cpu'[c] = cpu[c]
        /\ {"freelist", "page"} \subseteq DOMAIN cpu'[x[1]]
    BY <2>1 DEF IInv, Shape
  <2> QED BY <2>1, <2>3, <2>4, <2>5, SlowStep DEF At, Slow
<1>5. CASE unfreeze_cmpxchg(x) /\ ~Same(x)
  <2>1. At(x, "unfreeze_cmpxchg") /\ cpu' = cpu /\ conf' = conf
    BY <1>5 DEF unfreeze_cmpxchg
  <2>2. Moves(x) /\ pc'[x] = "unfreeze" /\ loc'[x].fresh = loc[x].fresh
    BY <1>5 DEF IInv, Shape, unfreeze_cmpxchg, Goto, Moves
  <2> QED BY <2>1, <2>2, LocalStep, NotFresh DEF At, Slow, Fast
<1> QED BY <1>1, <1>2, <1>3, <1>4, <1>5

(* The fast path of a free. *)
LEMMA FreeFastSteps ==
  ASSUME IInv, NEW x \in Ctx, free_next(x) \/ free_page(x) \/ free_link(x) \/ free_swap(x)
  PROVE  StepOf(x)
<1>1. CASE free_next(x)
  <2>1. At(x, "free_next") /\ cpu' = cpu /\ conf' = conf
    BY <1>1, ZenonT(60) DEF free_next
  <2>2. PICK o, last \in loc[x].todo :
          /\ loc' = [loc EXCEPT ![x].todo = @ \ Detached(x, o), ![x].obj = o,
                                ![x].pg = o[1], ![x].last = last,
                                ![x].cnt = Cardinality(Detached(x, o)), ![x].fresh = TRUE]
          /\ Goto(x, "free_page")
    BY <1>1, ZenonT(60) DEF free_next
  <2>3. Moves(x)
    BY <2>2, Zenon DEF IInv, Shape, Goto, Moves
  <2>4. pc'[x] = "free_page"
    BY <2>2 DEF IInv, Shape, Goto
  <2> QED BY <2>1, <2>3, <2>4, LocalStep DEF At, Slow, Fast, Sees
<1>2. CASE free_page(x)
  <2>1. At(x, "free_page") /\ cpu' = cpu /\ conf' = conf
    BY <1>2 DEF free_page
  <2>2. Moves(x) /\ pc'[x] \in {"free_read", "free_link"}
    BY <1>2 DEF IInv, Shape, free_page, Goto, Moves
  <2>3. loc'[x].fresh => pc'[x] = "free_link" /\ loc'[x].pg = cpu[x[1]].page
    BY <1>2, Zenon DEF IInv, Shape, free_page, Goto
  <2> QED BY <2>1, <2>2, <2>3, LocalStep DEF At, Slow, Fast, Sees
<1>3. CASE free_link(x)
  <2>1. At(x, "free_link") /\ cpu' = cpu /\ conf' = conf
    BY <1>3 DEF free_link
  <2>2. /\ Moves(x) /\ pc'[x] = "free_swap"
        /\ loc'[x].fresh = loc[x].fresh /\ loc'[x].pg = loc[x].pg
    BY <1>3 DEF IInv, Shape, free_link, Goto, Moves
  <2>3. loc[x].fresh => cpu[x[1]].page = loc[x].pg
    BY <2>1, RunsSees DEF At, Sees
  <2> QED BY <2>1, <2>2, <2>3, LocalStep DEF At, Slow, Fast, Sees
<1>4. CASE free_swap(x)
  <2>1. At(x, "free_swap") /\ conf' = conf
    BY <1>4 DEF free_swap
  <2>2. CASE /\ cpu' = [cpu EXCEPT ![x[1]].freelist = loc[x].obj]
             /\ next_tid(x, Rest(x)) /\ FreeEnd(x)
    BY <2>1, <2>2, FastEnd, RestFields, Zenon DEF At, FreeEnd
  <2>3. CASE /\ cpu' = cpu /\ Goto(x, "free_page")
             /\ loc' = [loc EXCEPT ![x].fresh = TRUE, ![x].nxt = NULL]
    <3>1. Moves(x) /\ pc'[x] = "free_page"
      BY <2>3 DEF IInv, Shape, Goto, Moves
    <3> QED BY <2>1, <2>3, <3>1, LocalStep DEF At, Slow, Fast, Sees
  <2> QED BY <1>4, <2>2, <2>3, Zenon DEF free_swap
<1> QED BY <1>1, <1>2, <1>3, <1>4

(* The slow path of a free, and shrinking. *)
LEMMA FreeSlowSteps ==
  ASSUME IInv, NEW x \in Ctx, \/ free_read(x) \/ free_lock(x) \/ free_cmpxchg(x)
                              \/ free_list(x) \/ shrink_node(x)
  PROVE  StepOf(x)
<1>1. CASE free_read(x)
  <2>1. At(x, "free_read") /\ cpu' = cpu /\ conf' = conf
    BY <1>1 DEF free_read
  <2>2. Moves(x) /\ pc'[x] \in {"free_lock", "free_cmpxchg"} /\ loc'[x].fresh = loc[x].fresh
    BY <1>1 DEF IInv, Shape, free_read, Goto, Moves
  <2> QED BY <2>1, <2>2, LocalStep, NotFresh DEF At, Slow, Fast
<1>2. CASE free_lock(x)
  <2>1. At(x, "free_lock") /\ cpu' = cpu /\ conf' = conf
    BY <1>2 DEF free_lock
  <2>2. Moves(x) /\ pc'[x] = "free_cmpxchg" /\ loc'[x].fresh = loc[x].fresh
    BY <1>2 DEF IInv, Shape, free_lock, Goto, Moves
  <2> QED BY <2>1, <2>2, LocalStep, NotFresh DEF At, Slow, Fast
<1>3. CASE free_cmpxchg(x)
  <2>1. At(x, "free_cmpxchg") /\ cpu' = cpu /\ conf' = conf
    BY <1>3 DEF free_cmpxchg
  <2>2. ~loc[x].fresh
    BY <2>1, NotFresh DEF At, Fast
  <2>3. \/ loc' = loc
        \/ loc' = [loc EXCEPT ![x] = Rest(x)]
        \/ loc' = [loc EXCEPT ![x].old = NULL]
    BY <1>3 DEF free_cmpxchg
  <2>4. \E l : Goto(x, l)
    BY <1>3 DEF free_cmpxchg, FreeEnd
  <2>5. Moves(x) /\ ~loc'[x].fresh
    BY <2>2, <2>3, <2>4, RestFields DEF IInv, Shape, Goto, Moves
  <2> QED BY <2>1, <2>5, LocalStep DEF At, Slow
<1>4. CASE free_list(x)
  <2>1. /\ At(x, "free_list") /\ cpu' = cpu /\ conf' = conf
        /\ loc' = [loc EXCEPT ![x] = Rest(x)] /\ FreeEnd(x)
    BY <1>4 DEF free_list
  <2>2. Moves(x) /\ ~loc'[x].fresh
    BY <2>1, RestFields DEF IInv, Shape, Goto, FreeEnd, Moves
  <2> QED BY <2>1, <2>2, LocalStep DEF At, Slow
<1>5. CASE shrink_node(x)
  <2>1. /\ At(x, "shrink") /\ cpu' = cpu /\ conf' = conf
        /\ pc' = pc \/ Goto(x, "idle")
        /\ \E t : loc' = [loc EXCEPT ![x].todo = t]
    BY <1>5, Zenon DEF shrink_node
  <2>2. Moves(x) /\ loc'[x].fresh = loc[x].fresh
    BY <2>1 DEF IInv, Shape, Goto, Moves
  <2> QED BY <2>1, <2>2, LocalStep, NotFresh DEF At, Slow, Fast
<1> QED BY <1>1, <1>2, <1>3, <1>4, <1>5

-----------------------------------------------------------------------------
(* IInv holds in all reachable states of a scenario with SafeConf: every action
   is a step of one of the kinds, and those keep it. *)
THEOREM IInvInvariant == Spec /\ SafeConf => []IInv
<1>1. Init /\ SafeConf => IInv
  <2> SUFFICES ASSUME Init, SafeConf PROVE IInv
    OBVIOUS
  <2>1. Shape
    BY IdleFields DEF Init, Shape
  <2>2. \A c \in CPU : pc[<<c, 1>>] = "idle"
    BY DEF Init, Ctx
  <2>3. \A x \in Ctx : pc[x] = "idle" /\ ~loc[x].fresh
    BY IdleFields DEF Init
  <2> QED BY <2>1, <2>2, <2>3 DEF IInv
<1>2. IInv /\ [Next]_vars => IInv'
  <2> SUFFICES ASSUME IInv, [Next]_vars PROVE IInv'
    OBVIOUS
  <2>1. ASSUME NEW x \in Ctx, Call(x) \/ Step(x)
        PROVE  IInv'
    <3>1. StepOf(x)
      BY <2>1, CallSteps, AllocSteps, SlabAllocStep, PartialSteps, NewSlabSteps,
         DeactivateSteps, FreeFastSteps, FreeSlowSteps DEF Step
    <3> QED BY <3>1, StepKeepsInvariant
  <2>2. CASE UNCHANGED vars
    BY <2>2 DEF vars, IInv, Shape, SafeConf, Sees
  <2> QED BY <2>1, <2>2 DEF Next
<1> QED BY <1>1, <1>2, PTL DEF Spec

(* TidUnique: a fast path whose transaction id is current finds the list or the
   slab of the CPU that it has read (slab_alloc_node(), do_slab_free()), for any
   numbers of CPUs, pages and objects, as long as allocations do not fail where
   tasks and handlers of a CPU share the cache. *)
THEOREM TidUniqueHolds == Spec /\ SafeConf => []TidUnique
<1>1. IInv => TidUnique
  <2> SUFFICES ASSUME IInv PROVE TidUnique
    OBVIOUS
  <2>1. \A x \in Ctx : loc[x].fresh /\ Runs(x) => Sees(x)
    BY RunsSees
  <2> QED BY <2>1 DEF TidUnique, Sees
<1> QED BY <1>1, IInvInvariant, PTL

=============================================================================
