-------------------------------- MODULE Slub --------------------------------
(***************************************************************************)
(* One cache of the slab allocator of mm/slub.c, as it is configured here: *)
(* no per-CPU partial lists, no debugging, no memory control groups.       *)
(*                                                                         *)
(* A slab is a Page of objects, linked into free lists by pointers kept    *)
(* in the objects (fp).  Each CPU owns a frozen slab (cpu[c].page) and the *)
(* list of its objects it allocates from without a lock (cpu[c].freelist); *)
(* what others free goes to the list of the page.  The two lists are       *)
(* guarded by compare-and-exchange: the list of the page together with its *)
(* counters, the list of the CPU together with the transaction id tid.     *)
(*                                                                         *)
(* A context is a task (level 0) or an interrupt handler (level 1) of a    *)
(* CPU; a handler runs to its end before the task goes on, and does not    *)
(* start where the code has disabled interrupts.  CONFIG_PREEMPT is off,   *)
(* so a call stays on its CPU.  Instead of the value of tid a context      *)
(* keeps fresh: tid is still what it read.                                 *)
(***************************************************************************)
EXTENDS Integers, Sequences, FiniteSets, TLC

CONSTANTS
  CPU,       \* the processors
  Node,      \* the memory nodes
  Page,      \* the pages the page allocator can give to this cache
  N,         \* the most objects a slab has
  NULL,      \* no object, no page, no holder; as a node: NUMA_NO_NODE
  NodeOf,    \* the node of a page (page_to_nid()) or of a CPU
  MinPartial,\* s->min_partial
  Confs      \* the scenarios.  ctx: the contexts that make calls; alloc:
             \* those that allocate; pages: what the page allocator has;
             \* objects: of a slab; nodes: asked for; bulk, shrink: there are
             \* such calls; fail: alloc_pages() may return NULL, as slub.c
             \* provides for; at present it ends in BUG_ON(1) instead

ASSUME SlubAssumption ==
  /\ N \in Nat \ {0} /\ MinPartial \in Nat
  /\ NodeOf \in [Page \cup CPU -> Node]
  /\ NULL \notin Page \cup CPU \cup Node
  /\ \A c \in Confs : c.objects \in 1..N /\ c.pages \subseteq Page

Obj == Page \X (1..N)
Ctx == CPU \X {0, 1}

VARIABLES
  page,      \* slab: allocated to the cache; freelist, inuse, frozen
  fp,        \* the free pointer stored in each object
  cpu,       \* struct kmem_cache_cpu: freelist, page
  partial,   \* kmem_cache_node.partial, nr_partial is its length
  list_lock, \* holder of kmem_cache_node.list_lock
  held,      \* objects the callers have allocated
  pc, loc,   \* where each context is, and its local variables
  conf       \* the scenario, fixed

vars == <<page, fp, cpu, partial, list_lock, held, pc, loc, conf>>

(* Local variables: node, want and got of an allocation (want counts the
   objects still to get, got holds those of a bulk allocation), todo and
   bulk of a free; obj, nxt and fresh of the fast paths; pg, old and last
   (the tail object) of the operations on a page, l, m, list and
   tail of deactivate_slab(). *)
Idle == [node |-> NULL, want |-> 0, got |-> {}, todo |-> {}, bulk |-> FALSE,
         obj |-> NULL, nxt |-> NULL, fresh |-> FALSE, pg |-> NULL,
         old |-> NULL, last |-> NULL, cnt |-> 0, l |-> "none", m |-> "none",
         list |-> NULL, tail |-> FALSE]

Init ==
  /\ page = [p \in Page |-> [slab |-> FALSE, freelist |-> NULL, inuse |-> 0,
                             frozen |-> FALSE]]
  /\ fp = [o \in Obj |-> NULL]
  /\ cpu = [c \in CPU |-> [freelist |-> NULL, page |-> NULL]]
  /\ partial = [n \in Node |-> <<>>]
  /\ list_lock = [n \in Node |-> NULL]
  /\ held = {}
  /\ pc = [x \in Ctx |-> "idle"]
  /\ loc = [x \in Ctx |-> Idle]
  /\ conf \in Confs

objects == conf.objects

-----------------------------------------------------------------------------
(* Contexts. *)

(* The code between local_irq_save() and local_irq_restore(). *)
IrqsOff(x) ==
  \/ pc[x] \in {"partial", "partial_lock", "acquire", "new_slab", "drain",
                "unfreeze", "unfreeze_list", "unfreeze_cmpxchg", "bulk",
                "free_list"}
  \/ pc[x] = "free_cmpxchg" /\ \E n \in Node : list_lock[n] = x

(* A task goes on when the handler of its CPU has returned, and a handler
   starts where interrupts are enabled. *)
Runs(x) ==
  IF x[2] = 1 THEN pc[x] # "idle" \/ ~IrqsOff(<<x[1], 0>>)
              ELSE pc[<<x[1], 1>>] = "idle"

At(x, l) == pc[x] = l /\ Runs(x)
Goto(x, l) == pc' = [pc EXCEPT ![x] = l]

(* Mutant: tid stays what it is. *)
next_tid_none(x, r) == loc' = [loc EXCEPT ![x] = [r EXCEPT !.fresh = FALSE]]

(* c->tid = next_tid(c->tid), with the new local variables of x. *)
next_tid(x, r) ==
  loc' = [y \in Ctx |-> IF y = x THEN [r EXCEPT !.fresh = FALSE]
                        ELSE IF y[1] = x[1]
                             THEN [loc[y] EXCEPT !.fresh = FALSE] ELSE loc[y]]

(* next_tid() in the call's last step. *)
Done(x) == next_tid(x, Idle) /\ Goto(x, "idle")
Return(x) == loc' = [loc EXCEPT ![x] = Idle] /\ Goto(x, "idle")

(* The pointers f after the objects os are the caller's, or a page's other
   user's, to overwrite. *)
Overwritten(f, os) == fp' = [o \in Obj |-> IF o \in os THEN NULL ELSE f[o]]

(* cmpxchg_double() on page->freelist and page->counters. *)
Counters(p) ==
  [freelist |-> page[p].freelist, inuse |-> page[p].inuse, frozen |-> page[p].frozen]

(* Mutant: the counters are not compared. *)
Same_list(x) == loc[x].old.freelist = page[loc[x].pg].freelist

Same(x) == loc[x].old = Counters(loc[x].pg)
Set(p, list, inuse, frozen) ==
  page' = [page EXCEPT ![p] = [slab |-> TRUE, freelist |-> list,
                               inuse |-> inuse, frozen |-> frozen]]

lock(n, x) == list_lock[n] = NULL /\ list_lock' = [list_lock EXCEPT ![n] = x]

(* Mutant: the unlock is forgotten. *)
unlock_never(n) == list_lock' = [list_lock EXCEPT ![n] = @]

unlock(n) == list_lock' = [list_lock EXCEPT ![n] = NULL]
add_partial(p, tail) ==
  partial' = [partial EXCEPT ![NodeOf[p]] = IF tail THEN Append(@, p) ELSE <<p>> \o @]
remove_partial(p) == partial' = [partial EXCEPT ![NodeOf[p]] = SelectSeq(@, LAMBDA q : q # p)]

(* The pages go back to the page allocator. *)
discard(ps) ==
  /\ page' = [p \in Page |-> IF p \in ps
                             THEN [slab |-> FALSE, freelist |-> NULL, inuse |-> 0,
                                   frozen |-> FALSE]
                             ELSE page[p]]
  /\ Overwritten(fp, ps \X (1..N))

-----------------------------------------------------------------------------
(* Allocation. *)

Allocating(x) ==
  pc[x] \in {"object", "next", "cmpxchg", "slow", "partial", "partial_lock",
             "acquire", "new_slab", "drain", "unfreeze", "unfreeze_list",
             "unfreeze_cmpxchg", "bulk"}
Unused == {p \in conf.pages : ~page[p].slab}

(* Where the scenario excludes failures, an allocation begins only when the
   page allocator has a page left for it and for each one under way: no call
   reaches the BUG_ON(1) of __alloc_pages_slowpath(). *)
Supplied ==
  conf.fail \/ Cardinality(Unused) > Cardinality({y \in Ctx : Allocating(y)})

Begins(x) == x \in conf.ctx /\ pc[x] = "idle" /\ Runs(x)

(* kmem_cache_alloc() (node NULL) and kmem_cache_alloc_node(), to the read of
   tid in slab_alloc_node(). *)
kmem_cache_alloc_node(x, node) ==
  /\ Begins(x) /\ x \in conf.alloc /\ Supplied
  /\ loc' = [loc EXCEPT ![x].node = node, ![x].fresh = TRUE]
  /\ Goto(x, "object")
  /\ UNCHANGED <<page, fp, cpu, partial, list_lock, held, conf>>

kmem_cache_alloc_bulk(x, size) ==
  /\ Begins(x) /\ x \in conf.alloc /\ Supplied /\ conf.bulk
  /\ loc' = [loc EXCEPT ![x].want = size]
  /\ Goto(x, "bulk")
  /\ UNCHANGED <<page, fp, cpu, partial, list_lock, held, conf>>

(* Without a page there is nothing to match: both callers then have, or find,
   no object in the list of the CPU. *)
node_match(p, node) == node = NULL \/ (p # NULL /\ NodeOf[p] = node)

(* The first object of the list of the CPU, or the slow path. *)
alloc_object(x) ==
  LET c == cpu[x[1]]
      slow == c.freelist = NULL \/ ~node_match(c.page, loc[x].node)
  IN  /\ At(x, "object")
      /\ Goto(x, IF slow THEN "slow" ELSE "next")
      /\ loc' = [loc EXCEPT ![x].obj = IF slow THEN NULL ELSE c.freelist,
                            ![x].fresh = @ /\ ~slow]
      /\ UNCHANGED <<page, fp, cpu, partial, list_lock, held, conf>>

get_freepointer(x) ==
  /\ At(x, "next")
  /\ loc' = [loc EXCEPT ![x].nxt = fp[loc[x].obj]]
  /\ Goto(x, "cmpxchg")
  /\ UNCHANGED <<page, fp, cpu, partial, list_lock, held, conf>>

(* Mutant: the list alone is compared. *)
Current_list(x) == cpu[x[1]].freelist = loc[x].obj

(* The comparison of this_cpu_cmpxchg_double(): tid and the list. *)
Current(x) == loc[x].fresh /\ cpu[x[1]].freelist = loc[x].obj

(* When it fails, tid is read again. *)
alloc_cmpxchg(x) ==
  /\ At(x, "cmpxchg")
  /\ IF Current(x)
     THEN /\ cpu' = [cpu EXCEPT ![x[1]].freelist = loc[x].nxt]
          /\ held' = held \cup {loc[x].obj}
          /\ Overwritten(fp, {loc[x].obj})
          /\ Done(x)
     ELSE /\ loc' = [loc EXCEPT ![x].obj = NULL, ![x].nxt = NULL, ![x].fresh = TRUE]
          /\ Goto(x, "object")
          /\ UNCHANGED <<cpu, held, fp>>
  /\ UNCHANGED <<page, partial, list_lock, conf>>

(* The label load_freelist: the slab p becomes the one of the CPU, its object
   o is the caller's and the rest of its list, linked by f, the CPU's. *)
load_freelist(x, p, o, f) ==
  /\ cpu' = [cpu EXCEPT ![x[1]] = [freelist |-> f[o], page |-> p]]
  /\ Overwritten(f, {o})
  /\ IF loc[x].want > 0
     THEN /\ next_tid(x, [Idle EXCEPT !.want = loc[x].want - 1,
                                      !.got = loc[x].got \cup {o}])
          /\ Goto(x, "bulk")
          /\ UNCHANGED held
     ELSE Done(x) /\ held' = held \cup {o}

(* ___slab_alloc() to the label new_slab.  Without an object in the list of
   the CPU, get_freelist() takes the list of the page, or unfreezes the page
   when it has none. *)
___slab_alloc(x) ==
  LET c == cpu[x[1]]
      p == c.page
      list == page[p].freelist
  IN  /\ At(x, "slow") \/ (At(x, "bulk") /\ loc[x].want > 0 /\ c.freelist = NULL)
      /\ \/ /\ p = NULL
            /\ Goto(x, "partial")
            /\ UNCHANGED <<page, fp, cpu, held, loc>>
         \/ /\ p # NULL /\ ~node_match(p, loc[x].node)
            /\ loc' = [loc EXCEPT ![x].pg = p, ![x].list = c.freelist,
                                  ![x].tail = list # NULL]
            /\ Goto(x, "drain")
            /\ UNCHANGED <<page, fp, cpu, held>>
         \/ /\ p # NULL /\ node_match(p, loc[x].node) /\ c.freelist # NULL
            /\ load_freelist(x, p, c.freelist, fp)
            /\ UNCHANGED page
         \/ /\ p # NULL /\ node_match(p, loc[x].node) /\ c.freelist = NULL
            /\ Set(p, NULL, objects, list # NULL)
            /\ IF list # NULL
               THEN load_freelist(x, p, list, fp)
               ELSE /\ cpu' = [cpu EXCEPT ![x[1]].page = NULL]
                    /\ Goto(x, "partial")
                    /\ UNCHANGED <<fp, held, loc>>
      /\ UNCHANGED <<partial, list_lock, conf>>

(* The node get_partial() searches. *)
searchnode(x) == IF loc[x].node = NULL THEN NodeOf[x[1]] ELSE loc[x].node

(* get_partial_node(): the look at nr_partial without the lock. *)
get_partial(x) ==
  /\ At(x, "partial")
  /\ Goto(x, IF partial[searchnode(x)] = <<>> THEN "new_slab" ELSE "partial_lock")
  /\ UNCHANGED <<page, fp, cpu, partial, list_lock, held, loc, conf>>

(* The first slab of the list, as acquire_slab() reads it. *)
partial_lock(x) ==
  LET n == searchnode(x)
  IN  /\ At(x, "partial_lock") /\ list_lock[n] = NULL
      /\ IF partial[n] = <<>>
         THEN Goto(x, "new_slab") /\ UNCHANGED <<list_lock, loc>>
         ELSE /\ lock(n, x)
              /\ loc' = [loc EXCEPT ![x].pg = Head(partial[n]),
                                    ![x].old = Counters(Head(partial[n]))]
              /\ Goto(x, "acquire")
      /\ UNCHANGED <<page, fp, cpu, partial, held, conf>>

(* Its compare-and-exchange, remove_partial() and the unlock; when a free came
   between, the search ends. *)
acquire_slab(x) ==
  LET p == loc[x].pg
      list == loc[x].old.freelist
  IN  /\ At(x, "acquire")
      /\ unlock(searchnode(x))
      /\ IF Same(x)
         THEN /\ Set(p, NULL, objects, TRUE)
              /\ remove_partial(p)
              /\ load_freelist(x, p, list, fp)
         ELSE /\ loc' = [loc EXCEPT ![x].pg = NULL, ![x].old = NULL]
              /\ Goto(x, "new_slab")
              /\ UNCHANGED <<page, fp, cpu, partial, held>>
      /\ UNCHANGED conf

(* allocate_slab(): the objects of the page are linked in order. *)
new_slab(x, p) ==
  LET linked == [o \in Obj |-> IF o[1] = p /\ o[2] < objects THEN <<p, o[2] + 1>> ELSE fp[o]]
  IN  /\ At(x, "new_slab") /\ p \in Unused
      /\ Set(p, NULL, objects, TRUE)
      /\ load_freelist(x, p, <<p, 1>>, [linked EXCEPT ![<<p, objects>>] = NULL])
      /\ UNCHANGED <<partial, list_lock, conf>>

(* No page: the call returns NULL, a bulk allocation after it has freed what
   it got. *)
new_slab_fails(x) ==
  /\ At(x, "new_slab") /\ conf.fail
  /\ IF loc[x].got = {}
     THEN Return(x)
     ELSE /\ loc' = [loc EXCEPT ![x] = [Idle EXCEPT !.todo = loc[x].got]]
          /\ Goto(x, "free_next")
  /\ UNCHANGED <<page, fp, cpu, partial, list_lock, held, conf>>

(* The loop of kmem_cache_alloc_bulk(): an object of the list of the CPU, or
   the end with the one step of tid. *)
bulk_object(x) ==
  LET o == cpu[x[1]].freelist
  IN  /\ At(x, "bulk")
      /\ \/ /\ loc[x].want > 0 /\ o # NULL
            /\ cpu' = [cpu EXCEPT ![x[1]].freelist = fp[o]]
            /\ Overwritten(fp, {o})
            /\ loc' = [loc EXCEPT ![x].want = @ - 1, ![x].got = @ \cup {o}]
            /\ UNCHANGED <<held, pc>>
         \/ /\ loc[x].want = 0
            /\ held' = held \cup loc[x].got
            /\ Done(x)
            /\ UNCHANGED <<cpu, fp>>
      /\ UNCHANGED <<page, partial, list_lock, conf>>

-----------------------------------------------------------------------------
(* deactivate_slab(): the slab of the CPU is on the wrong node. *)

(* Stage one: all objects of the CPU but the last go to the list of the page. *)
drain(x) ==
  LET o == loc[x].list
      p == loc[x].pg
      more == o # NULL /\ fp[o] # NULL
  IN  /\ At(x, "drain")
      /\ IF more
         THEN /\ fp' = [fp EXCEPT ![o] = page[p].freelist]
              /\ Set(p, o, page[p].inuse - 1, page[p].frozen)
              /\ loc' = [loc EXCEPT ![x].list = fp[o]]
              /\ UNCHANGED pc
         ELSE Goto(x, "unfreeze") /\ UNCHANGED <<fp, page, loc>>
      /\ UNCHANGED <<cpu, partial, list_lock, held, conf>>

(* Stage two: the last object is linked and the new state is worked out. *)
NewInuse(x) == loc[x].old.inuse - (IF loc[x].list = NULL THEN 0 ELSE 1)
NewList(x) == IF loc[x].list = NULL THEN loc[x].old.freelist ELSE loc[x].list

unfreeze(x) ==
  LET p == loc[x].pg
      o == loc[x].list
      inuse == page[p].inuse - (IF o = NULL THEN 0 ELSE 1)
      m == IF inuse = 0 /\ Len(partial[NodeOf[p]]) >= MinPartial THEN "free"
           ELSE IF o # NULL \/ page[p].freelist # NULL THEN "partial" ELSE "full"
  IN  /\ At(x, "unfreeze")
      /\ fp' = IF o = NULL THEN fp ELSE [fp EXCEPT ![o] = page[p].freelist]
      /\ loc' = [loc EXCEPT ![x].old = Counters(p), ![x].m = m]
      /\ Goto(x, "unfreeze_list")
      /\ UNCHANGED <<page, cpu, partial, list_lock, held, conf>>

(* The lock, when the slab is going to be on the list, and the move. *)
unfreeze_list(x) ==
  LET p == loc[x].pg
      n == NodeOf[p]
      l == loc[x].l
      m == loc[x].m
  IN  /\ At(x, "unfreeze_list")
      /\ IF m = "partial" /\ list_lock[n] # x THEN lock(n, x) ELSE UNCHANGED list_lock
      /\ CASE l # m /\ l = "partial" -> remove_partial(p)
           [] l # m /\ m = "partial" -> add_partial(p, loc[x].tail)
           [] OTHER -> UNCHANGED partial
      /\ loc' = [loc EXCEPT ![x].l = m]
      /\ Goto(x, "unfreeze_cmpxchg")
      /\ UNCHANGED <<page, fp, cpu, held, conf>>

(* The compare-and-exchange that unfreezes; then an empty slab is discarded,
   and the CPU has no slab. *)
unfreeze_cmpxchg(x) ==
  LET p == loc[x].pg
  IN  /\ At(x, "unfreeze_cmpxchg")
      /\ IF Same(x)
         THEN /\ IF loc[x].m = "free" THEN discard({p})
                 ELSE Set(p, NewList(x), NewInuse(x), FALSE) /\ UNCHANGED fp
              /\ IF list_lock[NodeOf[p]] = x THEN unlock(NodeOf[p])
                 ELSE UNCHANGED list_lock
              /\ cpu' = [cpu EXCEPT ![x[1]] = [freelist |-> NULL, page |-> NULL]]
              /\ loc' = [loc EXCEPT ![x] = [Idle EXCEPT !.node = loc[x].node,
                                              !.want = loc[x].want, !.got = loc[x].got]]
              /\ Goto(x, "partial")
         ELSE /\ loc' = [loc EXCEPT ![x].old = NULL, ![x].m = "none"]
              /\ Goto(x, "unfreeze")
              /\ UNCHANGED <<page, fp, list_lock, cpu>>
      /\ UNCHANGED <<partial, held, conf>>

-----------------------------------------------------------------------------
(* Freeing. *)

kmem_cache_free(x, o) ==
  /\ Begins(x) /\ o \in held
  /\ held' = held \ {o}
  /\ loc' = [loc EXCEPT ![x].todo = {o}]
  /\ Goto(x, "free_next")
  /\ UNCHANGED <<page, fp, cpu, partial, list_lock, conf>>

kmem_cache_free_bulk(x, os) ==
  /\ Begins(x) /\ os \subseteq held /\ conf.bulk
  /\ held' = held \ os
  /\ loc' = [loc EXCEPT ![x].todo = os, ![x].bulk = TRUE]
  /\ Goto(x, "free_next")
  /\ UNCHANGED <<page, fp, cpu, partial, list_lock, conf>>

(* The objects freed together with o: those of its slab, outside
   kmem_cache_free_bulk() o alone. *)
Detached(x, o) == {q \in loc[x].todo : q = o \/ (loc[x].bulk /\ q[1] = o[1])}

(* The one linked after o.  The order of the caller's array is immaterial; it is
   taken to be the order of the addresses. *)
Following(o, os) ==
  CHOOSE q \in os : o[2] < q[2] /\ \A r \in os : o[2] < r[2] => q[2] <= r[2]

(* build_detached_freelist(): the objects are linked and freed as one list.
   Then do_slab_free() reads tid. *)
free_next(x) ==
  \E o, last \in loc[x].todo :
    LET os == Detached(x, o)
    IN  /\ At(x, "free_next")
        /\ last \in os /\ \A q \in os : o[2] <= q[2] /\ q[2] <= last[2]
        /\ fp' = [q \in Obj |-> IF q \in os \ {last} THEN Following(q, os) ELSE fp[q]]
        /\ loc' = [loc EXCEPT ![x].todo = @ \ os, ![x].obj = o, ![x].pg = o[1],
                              ![x].last = last, ![x].cnt = Cardinality(os),
                              ![x].fresh = TRUE]
        /\ Goto(x, "free_page")
        /\ UNCHANGED <<page, cpu, partial, list_lock, held, conf>>

(* After a list: the next one, or the end of the call. *)
Rest(x) == [Idle EXCEPT !.todo = loc[x].todo, !.bulk = loc[x].bulk /\ loc[x].todo # {}]
FreeEnd(x) == Goto(x, IF loc[x].todo = {} THEN "idle" ELSE "free_next")

free_page(x) ==
  LET slow == cpu[x[1]].page # loc[x].pg
  IN  /\ At(x, "free_page")
      /\ Goto(x, IF slow THEN "free_read" ELSE "free_link")
      /\ loc' = [loc EXCEPT ![x].fresh = @ /\ ~slow]
      /\ UNCHANGED <<page, fp, cpu, partial, list_lock, held, conf>>

free_link(x) ==
  /\ At(x, "free_link")
  /\ fp' = [fp EXCEPT ![loc[x].last] = cpu[x[1]].freelist]
  /\ loc' = [loc EXCEPT ![x].nxt = cpu[x[1]].freelist]
  /\ Goto(x, "free_swap")
  /\ UNCHANGED <<page, cpu, partial, list_lock, held, conf>>

(* this_cpu_cmpxchg_double().  The source names c->freelist twice, so the
   value compared is the one just linked or one read again. *)
free_swap(x) ==
  LET c == cpu[x[1]]
  IN  /\ At(x, "free_swap")
      /\ \/ /\ loc[x].fresh
            /\ cpu' = [cpu EXCEPT ![x[1]].freelist = loc[x].obj]
            /\ next_tid(x, Rest(x))
            /\ FreeEnd(x)
         \/ /\ ~loc[x].fresh \/ c.freelist # loc[x].nxt
            /\ loc' = [loc EXCEPT ![x].fresh = TRUE, ![x].nxt = NULL]
            /\ Goto(x, "free_page")
            /\ UNCHANGED cpu
      /\ UNCHANGED <<page, fp, partial, list_lock, held, conf>>

(* Mutant: a slab that was full does not enter the list of the node. *)
NeedsLock_empty(x) ==
  LET p == page[loc[x].pg]
  IN  ~p.frozen /\ p.inuse = loc[x].cnt

(* __slab_free() needs the lock of the node when the slab is not frozen and
   was full or is going to be empty. *)
NeedsLock(x) ==
  LET p == page[loc[x].pg]
  IN  ~p.frozen /\ (p.inuse = loc[x].cnt \/ p.freelist = NULL)

(* The list of the page is read and the freed list linked to it. *)
free_read(x) ==
  /\ At(x, "free_read")
  /\ fp' = [fp EXCEPT ![loc[x].last] = page[loc[x].pg].freelist]
  /\ loc' = [loc EXCEPT ![x].old = Counters(loc[x].pg)]
  /\ Goto(x, IF NeedsLock(x) THEN "free_lock" ELSE "free_cmpxchg")
  /\ UNCHANGED <<page, cpu, partial, list_lock, held, conf>>

free_lock(x) ==
  /\ At(x, "free_lock")
  /\ lock(NodeOf[loc[x].pg], x)
  /\ Goto(x, "free_cmpxchg")
  /\ UNCHANGED <<page, fp, cpu, partial, held, loc, conf>>

free_cmpxchg(x) ==
  LET r == loc[x]
      n == NodeOf[r.pg]
      locked == list_lock[n] = x
  IN  /\ At(x, "free_cmpxchg")
      /\ IF Same(x)
         THEN /\ Set(r.pg, r.obj, r.old.inuse - r.cnt, r.old.frozen)
              /\ IF locked THEN Goto(x, "free_list") /\ UNCHANGED loc
                 ELSE FreeEnd(x) /\ loc' = [loc EXCEPT ![x] = Rest(x)]
              /\ UNCHANGED list_lock
         ELSE /\ Goto(x, "free_read")
              /\ loc' = [loc EXCEPT ![x].old = NULL]
              /\ IF locked THEN unlock(n) ELSE UNCHANGED list_lock
              /\ UNCHANGED page
      /\ UNCHANGED <<fp, cpu, partial, held, conf>>

(* With the lock: an empty slab beyond min_partial leaves the list and is
   discarded, one that was full enters it. *)
free_list(x) ==
  LET r == loc[x]
      p == r.pg
      empty == r.old.inuse = r.cnt /\ Len(partial[NodeOf[p]]) >= MinPartial
  IN  /\ At(x, "free_list")
      /\ CASE empty /\ r.old.freelist # NULL -> remove_partial(p)
           [] ~empty /\ r.old.freelist = NULL -> add_partial(p, TRUE)
           [] OTHER -> UNCHANGED partial
      /\ IF empty THEN discard({p}) ELSE UNCHANGED <<page, fp>>
      /\ unlock(NodeOf[p])
      /\ loc' = [loc EXCEPT ![x] = Rest(x)]
      /\ FreeEnd(x)
      /\ UNCHANGED <<cpu, held, conf>>

-----------------------------------------------------------------------------
(* __kmem_cache_shrink(), node by node: empty slabs are discarded, the fullest
   come first.  flush_all() does nothing: on_each_cpu_cond() is empty. *)

kmem_cache_shrink(x) ==
  /\ Begins(x) /\ conf.shrink
  /\ loc' = [loc EXCEPT ![x].todo = Node]
  /\ Goto(x, "shrink")
  /\ UNCHANGED <<page, fp, cpu, partial, list_lock, held, conf>>

shrink_node(x) ==
  LET n == CHOOSE m \in loc[x].todo : TRUE
      empty == {p \in Page : page[p].inuse = 0 /\ \E i \in 1..Len(partial[n]) : partial[n][i] = p}
  IN  /\ At(x, "shrink") /\ list_lock[n] = NULL
      /\ partial' = [partial EXCEPT ![n] =
             SortSeq(SelectSeq(@, LAMBDA p : p \notin empty),
                     LAMBDA p, q : page[p].inuse > page[q].inuse)]
      /\ discard(empty)
      /\ loc' = [loc EXCEPT ![x].todo = @ \ {n}]
      /\ IF loc[x].todo = {n} THEN Goto(x, "idle") ELSE UNCHANGED pc
      /\ UNCHANGED <<cpu, list_lock, held, conf>>

-----------------------------------------------------------------------------

Call(x) ==
  \/ \E node \in conf.nodes : kmem_cache_alloc_node(x, node)
  \/ kmem_cache_alloc_bulk(x, 2)
  \/ \E o \in held : kmem_cache_free(x, o)
  \/ \E o, q \in held : o # q /\ kmem_cache_free_bulk(x, {o, q})
  \/ kmem_cache_shrink(x)

Step(x) ==
  \/ alloc_object(x) \/ get_freepointer(x) \/ alloc_cmpxchg(x)
  \/ ___slab_alloc(x) \/ get_partial(x) \/ partial_lock(x) \/ acquire_slab(x)
  \/ (\E p \in Page : new_slab(x, p)) \/ new_slab_fails(x) \/ bulk_object(x)
  \/ drain(x) \/ unfreeze(x) \/ unfreeze_list(x) \/ unfreeze_cmpxchg(x)
  \/ free_next(x) \/ free_page(x) \/ free_link(x) \/ free_swap(x)
  \/ free_read(x) \/ free_lock(x) \/ free_cmpxchg(x) \/ free_list(x)
  \/ shrink_node(x)

Next == \E x \in Ctx : Call(x) \/ Step(x)

Spec == Init /\ [][Next]_vars

-----------------------------------------------------------------------------
(* Properties. *)

Walk(o, k) ==
  LET f[i \in 0..k] == IF i = 0 THEN o ELSE IF f[i - 1] = NULL THEN NULL
                                            ELSE fp[f[i - 1]]
  IN  {f[i] : i \in 0..k} \ {NULL}
Chain(o) == Walk(o, N)

Unfreezing(x) == pc[x] \in {"unfreeze", "unfreeze_list", "unfreeze_cmpxchg"}
Deactivating(x) == Unfreezing(x) \/ pc[x] = "drain"
Freeing(x) == pc[x] \in {"free_page", "free_link", "free_swap", "free_read",
                         "free_lock", "free_cmpxchg"}

(* The objects of the list a CPU allocates from, and those a context has in
   hand: got for the caller, to be freed, or taken back from the CPU. *)
OfCpu(c) ==
  IF \E x \in Ctx : x[1] = c /\ Deactivating(x) THEN {} ELSE Chain(cpu[c].freelist)
InHand(x) ==
  loc[x].got
    \cup (IF pc[x] = "shrink" THEN {} ELSE loc[x].todo)
    \cup (IF Freeing(x) THEN Walk(loc[x].obj, loc[x].cnt - 1) ELSE {})
    \cup (IF pc[x] = "drain" THEN Chain(loc[x].list) ELSE {})
    \cup (IF Unfreezing(x) THEN {loc[x].list} \ {NULL} ELSE {})

(* Types: list pointers point to objects, counters are within a slab, and the
   lock of a node is held by a context that is at work on the list. *)
TypeOK ==
  /\ page \in [Page -> [slab : BOOLEAN, freelist : Obj \cup {NULL},
                        inuse : 0..N, frozen : BOOLEAN]]
  /\ fp \in [Obj -> Obj \cup {NULL}]
  /\ cpu \in [CPU -> [freelist : Obj \cup {NULL}, page : Page \cup {NULL}]]
  /\ \A n \in Node : list_lock[n] \in Ctx \cup {NULL} /\ partial[n] \in Seq(Page)
  /\ \A n \in Node : list_lock[n] # NULL => pc[list_lock[n]] # "idle"
  /\ held \subseteq Obj
  /\ \A x \in Ctx : pc[x] = "idle" => loc[x] = Idle

(* No object is lost and none is given out twice: every object of a slab is in
   exactly one place - with a caller, in the hands of one call, on the list of
   its page or on the list of one CPU - and the objects of a discarded slab are
   nowhere.  This is what the transaction id of the fast paths
   (slab_alloc_node(), do_slab_free()) and the compare-and-exchange on the page
   are for. *)
ObjectsOnce ==
  LET in(q) == CASE q = NULL -> held
                 [] q \in Page -> Chain(page[q].freelist)
                 [] q \in CPU -> OfCpu(q)
                 [] q \in Ctx -> InHand(q)
      places == UNION {{q} \X in(q) : q \in Page \cup CPU \cup Ctx \cup {NULL}}
      slabs == {o \in Obj : page[o[1]].slab /\ o[2] <= objects}
  IN  /\ {r[2] : r \in places} = slabs
      /\ Cardinality(places) = Cardinality(slabs)

(* Transaction ids are unique "per operation on a per cpu queue": a fast path
   whose tid is still the current one finds what it has read, the first object
   of the list of the CPU in slab_alloc_node(), the slab of the CPU in
   do_slab_free(), whatever interrupts that came between have done. *)
TidUnique ==
  \A x \in Ctx : loc[x].fresh /\ Runs(x) =>
    /\ pc[x] \in {"next", "cmpxchg"} => cpu[x[1]].freelist = loc[x].obj
    /\ pc[x] \in {"free_link", "free_swap"} => cpu[x[1]].page = loc[x].pg

(* The counters of a slab tell the truth, whoever frees into it meanwhile:
   inuse counts the objects not on the list of the page, and the page is frozen
   exactly while it is the slab of one CPU, whose list holds only its objects
   (VM_BUG_ON() in ___slab_alloc(), acquire_slab() and deactivate_slab()). *)
CountersExact ==
  /\ \A p \in Page : page[p].slab =>
       /\ page[p].inuse = objects - Cardinality(Chain(page[p].freelist))
       /\ Cardinality({c \in CPU : cpu[c].page = p}) = IF page[p].frozen THEN 1 ELSE 0
  /\ \A c \in CPU :
       /\ cpu[c].page # NULL => page[cpu[c].page].slab
       /\ \A o \in OfCpu(c) : o[1] = cpu[c].page

(* The list of a node holds exactly the slabs of the node that are not frozen
   and have an object to give, each once: a slab on which frees, acquire_slab()
   and deactivate_slab() meet is neither forgotten nor listed when it is full
   or gone.  Only the holder of list_lock may be about to put one slab right. *)
PartialExact ==
  \A n \in Node, p \in Page :
    (list_lock[n] = NULL \/ loc[list_lock[n]].pg # p)
    => Cardinality({i \in 1..Len(partial[n]) : partial[n][i] = p})
       = IF NodeOf[p] = n /\ page[p].slab /\ ~page[p].frozen /\ page[p].freelist # NULL
         THEN 1 ELSE 0

=============================================================================
