------------------------------ MODULE PageAlloc ------------------------------
(***************************************************************************)
(* The page allocator of mm/page_alloc.c: per-zone buddy lists under       *)
(* zone->lock, per-CPU page lists (pcp) under disabled interrupts, and the *)
(* walk of the zonelist.                                                   *)
(*                                                                         *)
(* A block is <<pfn, order>> and covers Size[order] page frames.  Lists    *)
(* are sets: which page of a list is taken first matters to no property.   *)
(* The loops of the code are loops here, one action an iteration.          *)
(*                                                                         *)
(* A context is a thread of execution that allocates and frees.  It runs   *)
(* on any CPU until it disables interrupts, and then nothing else runs on  *)
(* that CPU until it enables them (irq_off).                               *)
(***************************************************************************)
EXTENDS Integers, FiniteSets, Sequences

CONSTANTS CPU, Ctx, Zone,
          None,       \* nobody
          MAX_ORDER,
          Size,       \* Size[o] = 1 << o
          Page,       \* the page frames with a valid struct page
          ZoneOf,     \* page_zone()
          Boot,       \* the blocks that memblock_free_all() hands over
          Node,
          NodeOf,     \* zone_to_nid()
          Zonelist,   \* the fallback list of each node, a sequence of zones
          ZoneIdx,    \* zone_idx()
          Batch       \* Batch[z] = zone_batchsize(zone)

Order == 0 .. MAX_ORDER - 1

\* The frames of a block.
Frames(p, o) == {f \in Page : p <= f /\ f < p + Size[o]}

ASSUME OrderAssumption ==
  /\ MAX_ORDER \in Nat \ {0}
  /\ Size \in [Order -> Nat \ {0}] /\ Size[0] = 1
  /\ \A o \in Order : o > 0 => Size[o] = 2 * Size[o - 1]
\* A block is aligned to its size, all of it exists, and it lies in one zone.
Whole(p, o) == /\ p % Size[o] = 0
               /\ p .. p + Size[o] - 1 \subseteq Page
               /\ \A f \in Frames(p, o) : ZoneOf[f] = ZoneOf[p]

ASSUME PageAssumption ==
  /\ Page \subseteq Nat /\ ZoneOf \in [Page -> Zone]
  /\ Boot \subseteq Page \X Order
  /\ \A b, c \in Boot : b # c => Frames(b[1], b[2]) \cap Frames(c[1], c[2]) = {}
  /\ \A b \in Boot : Whole(b[1], b[2])
ASSUME ListAssumption ==
  /\ Node # {} /\ NodeOf \in [Zone -> Node] /\ Zonelist \in [Node -> Seq(Zone)]
  /\ ZoneIdx \in [Zone -> Nat]
  /\ Batch \in [Zone -> Nat]
  /\ None \notin Ctx \cup Zone \cup CPU /\ "boot" \notin Zone

\* Per-CPU page sets: one boot page set for all zones, then one per zone.
PageSet == CPU \X (Zone \cup {"boot"})

VARIABLES
  free,     \* free[z][o] : zone->free_area[o].free_list
  nr_free,  \* nr_free[z][o]
  border,   \* border[p] : page_order(p) if PageBuddy(p), else -1
  ref,      \* ref[p] : page_ref_count(p)
  zlock,    \* zlock[z] : who holds zone->lock
  pageset,  \* pageset[z] : "boot" or z, which page set zone->pageset is
  pcp,      \* pcp[s] : the lists, count, high and batch of a page set
  irq_off,  \* irq_off[cpu] : the context that runs with interrupts disabled
  held,     \* the blocks in use, by whoever allocated them or by memblock
  pc, cpu,  \* where each context is, and on which CPU
  nid, hidx, pref, pos, want,  \* the request: the node, ac->high_zoneidx, the
            \* preferred zone, the position in the zonelist, the order
  blk,      \* the block in hand
  zn,       \* the zone that pages are freed into
  n, got,   \* how many pages to gather, the pages gathered
  owner     \* owner[p] : where p is (history variable)

zone_vars == <<free, nr_free, border>>
request == <<nid, hidx, pref, want>>
locals == <<request, pos, blk, zn, n, got>>
vars == <<zone_vars, ref, zlock, pageset, pcp, irq_off, held, pc, cpu, locals, owner>>

zonelist(t) == Zonelist[nid[t]]
zone(t) == zonelist(t)[pos[t]]
preferred_zone(t) == zonelist(t)[pref[t]]
AnyNode == CHOOSE x \in Node : TRUE
my_pcp(t, z) == <<cpu[t], pageset[z]>>

At(t, l) == pc[t] = l
Goto(t, l) == pc' = [pc EXCEPT ![t] = l]

\* The history variable: the frames F are now at place w.
Moved(F, w) == owner' = [f \in Page |-> IF f \in F THEN w ELSE owner[f]]

local_irq_save(t, p) ==
  /\ irq_off[p] = None
  /\ irq_off' = [irq_off EXCEPT ![p] = t]
  /\ cpu' = [cpu EXCEPT ![t] = p]

local_irq_restore(t) ==
  /\ irq_off' = [irq_off EXCEPT ![cpu[t]] = None]
  /\ cpu' = [cpu EXCEPT ![t] = None]

\* Mutant: the zone lock does not exclude.
lock_zone_barging(t, z) == zlock' = [zlock EXCEPT ![z] = t]

lock_zone(t, z) == zlock[z] = None /\ zlock' = [zlock EXCEPT ![z] = t]
unlock_zone(z) == zlock' = [zlock EXCEPT ![z] = None]

\* Mutant: the boot page sets keep pages.
boot_pageset_keeps == [list |-> {}, count |-> 0, high |-> 2, batch |-> 1]

\* setup_pageset(p, 0) leaves high = 6 * 0 and batch = max(1, 0).
boot_pageset == [list |-> {}, count |-> 0, high |-> 0, batch |-> 1]
zone_pageset(z) == [list |-> {}, count |-> 0, high |-> 6 * Batch[z],
                    batch |-> IF Batch[z] > 1 THEN Batch[z] ELSE 1]

Init ==
  /\ free = [z \in Zone |-> [o \in Order |-> {}]]
  /\ nr_free = [z \in Zone |-> [o \in Order |-> 0]]
  /\ border = [p \in Page |-> -1]
  /\ ref = [p \in Page |-> IF \E o \in Order : <<p, o>> \in Boot THEN 1 ELSE 0]
  /\ zlock = [z \in Zone |-> None]
  /\ pageset = [z \in Zone |-> "boot"]
  /\ pcp = [s \in PageSet |-> boot_pageset]
  /\ irq_off = [p \in CPU |-> None]
  /\ held = Boot
  /\ pc = [t \in Ctx |-> "idle"]
  /\ cpu = [t \in Ctx |-> None]
  /\ nid = [t \in Ctx |-> AnyNode]
  /\ hidx = [t \in Ctx |-> 0]
  /\ pref = [t \in Ctx |-> 1]
  /\ pos = [t \in Ctx |-> 1]
  /\ want = [t \in Ctx |-> 0]
  /\ blk = [t \in Ctx |-> <<0, 0>>]
  /\ zn = [t \in Ctx |-> None]
  /\ n = [t \in Ctx |-> 0]
  /\ got = [t \in Ctx |-> {}]
  /\ owner = [f \in Page |-> IF \E b \in Boot : f \in Frames(b[1], b[2])
                             THEN <<"held", CHOOSE b \in Boot : f \in Frames(b[1], b[2])>>
                             ELSE <<"reserved">>]

-----------------------------------------------------------------------------
(***************************************************************************)
(* Boot: once the percpu allocator works, the boot CPU replaces the boot   *)
(* page sets by one page set per zone and CPU.                             *)
(***************************************************************************)
setup_zone_pageset(z) ==
  /\ \A t \in Ctx : pc[t] = "idle"
  /\ pageset[z] = "boot"
  /\ pageset' = [pageset EXCEPT ![z] = z]
  /\ pcp' = [s \in PageSet |-> IF s[2] = z THEN zone_pageset(z) ELSE pcp[s]]
  /\ UNCHANGED <<zone_vars, ref, zlock, irq_off, held, pc, cpu, locals, owner>>

-----------------------------------------------------------------------------
(***************************************************************************)
(* Allocation.                                                             *)
(***************************************************************************)
\* The first position from i on whose zone the request may use.
next_zones_zonelist(list, i, h) ==
  CHOOSE j \in i .. Len(list) + 1 :
    /\ j <= Len(list) => ZoneIdx[list[j]] <= h
    /\ \A k \in i .. j - 1 : ZoneIdx[list[k]] > h

\* __alloc_pages_nodemask(): the walk starts at the preferred zone, the
\* first of the zonelist that the request may use.
alloc_pages(t, x, o, h) ==
  /\ At(t, "idle")
  /\ Goto(t, "scan")
  /\ nid' = [nid EXCEPT ![t] = x]
  /\ want' = [want EXCEPT ![t] = o]
  /\ hidx' = [hidx EXCEPT ![t] = h]
  /\ pref' = [pref EXCEPT ![t] = next_zones_zonelist(Zonelist[x], 1, h)]
  /\ pos' = [pos EXCEPT ![t] = next_zones_zonelist(Zonelist[x], 1, h)]
  /\ UNCHANGED <<zone_vars, ref, zlock, pageset, pcp, irq_off, held, cpu, blk, zn, n, got, owner>>

\* get_page_from_freelist(): the end of the list is __alloc_pages_slowpath(),
\* which is BUG_ON(1).
slowpath(t) ==
  /\ At(t, "scan")
  /\ pos[t] > Len(zonelist(t))
  /\ Goto(t, "bug")
  /\ UNCHANGED <<zone_vars, ref, zlock, pageset, pcp, irq_off, held, cpu, locals, owner>>

\* A zone of another node: back to the preferred zone.
remote_zone(t) ==
  /\ At(t, "scan")
  /\ pos[t] <= Len(zonelist(t))
  /\ NodeOf[zone(t)] # NodeOf[preferred_zone(t)]
  /\ pos' = [pos EXCEPT ![t] = pref[t]]
  /\ UNCHANGED <<zone_vars, ref, zlock, pageset, pcp, irq_off, held, pc, cpu, request, blk, zn, n, got, owner>>

CanTry(t) == /\ At(t, "scan")
             /\ pos[t] <= Len(zonelist(t))
             /\ NodeOf[zone(t)] = NodeOf[preferred_zone(t)]

\* Order 0: rmqueue_pcplist() on the page set of the CPU.
rmqueue_pcplist(t, p) ==
  /\ CanTry(t) /\ want[t] = 0
  /\ local_irq_save(t, p)
  /\ Goto(t, IF pcp[<<p, pageset[zone(t)]>>].list = {} THEN "bulk_lock" ELSE "pcp_take")
  /\ UNCHANGED <<zone_vars, ref, zlock, pageset, pcp, held, locals, owner>>

rmqueue_bulk(t) ==
  /\ At(t, "bulk_lock")
  /\ lock_zone(t, zone(t))
  /\ Goto(t, "bulk")
  /\ UNCHANGED <<zone_vars, ref, pageset, pcp, irq_off, held, cpu, locals, owner>>

\* The smallest order, at least o, with a free block.
Available(z, o) == {i \in Order : i >= o /\ free[z][i] # {}}
Smallest(z, o) == CHOOSE i \in Available(z, o) : \A j \in Available(z, o) : i <= j

take_block(t, z, p, o) ==
  /\ free' = [free EXCEPT ![z][o] = @ \ {p}]
  /\ nr_free' = [nr_free EXCEPT ![z][o] = @ - 1]
  /\ border' = [border EXCEPT ![p] = -1]
  /\ blk' = [blk EXCEPT ![t] = <<p, o>>]
  /\ Moved(Frames(p, o), <<"ctx", t>>)

\* One round of rmqueue_bulk(): __rmqueue_smallest() finds a block ...
bulk_take(t) ==
  LET z == zone(t)  s == my_pcp(t, z)  o == Smallest(z, 0) IN
  /\ At(t, "bulk")
  /\ n[t] < pcp[s].batch
  /\ Available(z, 0) # {}
  /\ \E p \in free[z][o] : take_block(t, z, p, o)
  /\ Goto(t, "bulk_expand")
  /\ UNCHANGED <<ref, zlock, pageset, pcp, irq_off, held, cpu, pos, request, zn, n, got>>

\* Mutant: the count grows by the batch asked for, not by what was found.
bulk_done_batch(t) ==
  LET z == zone(t)  s == my_pcp(t, z) IN
  /\ At(t, "bulk")
  /\ n[t] = pcp[s].batch \/ Available(z, 0) = {}
  /\ unlock_zone(z)
  /\ pcp' = [pcp EXCEPT ![s].count = @ + pcp[s].batch]
  /\ n' = [n EXCEPT ![t] = 0]
  /\ Goto(t, IF pcp[s].list = {} THEN "pcp_fail" ELSE "pcp_take")
  /\ UNCHANGED <<zone_vars, ref, pageset, irq_off, held, cpu, pos, request, blk, zn, got, owner>>

\* ... or the batch is complete or the zone empty: the count follows.
bulk_done(t) ==
  LET z == zone(t)  s == my_pcp(t, z) IN
  /\ At(t, "bulk")
  /\ n[t] = pcp[s].batch \/ Available(z, 0) = {}
  /\ unlock_zone(z)
  /\ pcp' = [pcp EXCEPT ![s].count = @ + n[t]]
  /\ n' = [n EXCEPT ![t] = 0]
  /\ Goto(t, IF pcp[s].list = {} THEN "pcp_fail" ELSE "pcp_take")
  /\ UNCHANGED <<zone_vars, ref, pageset, irq_off, held, cpu, pos, request, blk, zn, got, owner>>

\* Mutant: expand() puts the lower half on the list.
split_block_low(t, z) ==
  LET p == blk[t][1]  o == blk[t][2] - 1  q == p IN
  /\ free' = [free EXCEPT ![z][o] = @ \cup {q}]
  /\ nr_free' = [nr_free EXCEPT ![z][o] = @ + 1]
  /\ border' = [border EXCEPT ![q] = o]
  /\ blk' = [blk EXCEPT ![t] = <<p, o>>]
  /\ Moved(Frames(q, o), <<"free", z, q, o>>)

\* Mutant: expand() forgets nr_free.
split_block_uncounted(t, z) ==
  LET p == blk[t][1]  o == blk[t][2] - 1  q == p + Size[o] IN
  /\ free' = [free EXCEPT ![z][o] = @ \cup {q}]
  /\ nr_free' = nr_free
  /\ border' = [border EXCEPT ![q] = o]
  /\ blk' = [blk EXCEPT ![t] = <<p, o>>]
  /\ Moved(Frames(q, o), <<"free", z, q, o>>)

\* One iteration of expand(): the upper half goes to the list below.
split_block(t, z) ==
  LET p == blk[t][1]  o == blk[t][2] - 1  q == p + Size[o] IN
  /\ free' = [free EXCEPT ![z][o] = @ \cup {q}]
  /\ nr_free' = [nr_free EXCEPT ![z][o] = @ + 1]
  /\ border' = [border EXCEPT ![q] = o]
  /\ blk' = [blk EXCEPT ![t] = <<p, o>>]
  /\ Moved(Frames(q, o), <<"free", z, q, o>>)

expand(t) ==
  /\ pc[t] \in {"bulk_expand", "expand"}
  /\ blk[t][2] > want[t]
  /\ split_block(t, zone(t))
  /\ UNCHANGED <<ref, zlock, pageset, pcp, irq_off, held, pc, cpu, pos, request, zn, n, got>>

\* The page joins the list of the page set.
bulk_add(t) ==
  LET p == blk[t][1]  s == my_pcp(t, zone(t)) IN
  /\ At(t, "bulk_expand")
  /\ blk[t][2] = want[t]
  /\ pcp' = [pcp EXCEPT ![s].list = @ \cup {p}]
  /\ n' = [n EXCEPT ![t] = @ + 1]
  /\ blk' = [blk EXCEPT ![t] = <<0, 0>>]
  /\ Moved({p}, <<"pcp", s>>)
  /\ Goto(t, "bulk")
  /\ UNCHANGED <<zone_vars, ref, zlock, pageset, irq_off, held, cpu, pos, request, zn, got>>

\* Back to the caller; the locals are dead.
request_done(t) ==
  /\ Goto(t, "idle")
  /\ nid' = [nid EXCEPT ![t] = AnyNode]
  /\ hidx' = [hidx EXCEPT ![t] = 0]
  /\ pref' = [pref EXCEPT ![t] = 1]
  /\ pos' = [pos EXCEPT ![t] = 1]
  /\ want' = [want EXCEPT ![t] = 0]

\* prep_new_page() gives the block its reference.
pcp_take(t) ==
  LET s == my_pcp(t, zone(t)) IN
  /\ At(t, "pcp_take")
  /\ \E p \in pcp[s].list :
       /\ pcp' = [pcp EXCEPT ![s].list = @ \ {p}, ![s].count = @ - 1]
       /\ held' = held \cup {<<p, 0>>}
       /\ ref' = [ref EXCEPT ![p] = 1]
       /\ Moved({p}, <<"held", <<p, 0>>>>)
  /\ local_irq_restore(t)
  /\ request_done(t)
  /\ UNCHANGED <<zone_vars, zlock, pageset, blk, zn, n, got>>

\* Nothing in this zone: on to the next zone of the list.
pcp_fail(t) ==
  /\ At(t, "pcp_fail")
  /\ local_irq_restore(t)
  /\ pos' = [pos EXCEPT ![t] = next_zones_zonelist(zonelist(t), @ + 1, hidx[t])]
  /\ Goto(t, "scan")
  /\ UNCHANGED <<zone_vars, ref, zlock, pageset, pcp, held, request, blk, zn, n, got, owner>>

\* Higher orders come from the buddy lists directly.
rmqueue(t, p) ==
  LET z == zone(t)  o == Smallest(z, want[t]) IN
  /\ CanTry(t) /\ want[t] > 0
  /\ Available(z, want[t]) # {}
  /\ local_irq_save(t, p)
  /\ lock_zone(t, z)
  /\ \E q \in free[z][o] : take_block(t, z, q, o)
  /\ Goto(t, "expand")
  /\ UNCHANGED <<ref, pageset, pcp, held, pos, request, zn, n, got>>

rmqueue_fail(t, p) ==
  /\ CanTry(t) /\ want[t] > 0
  /\ irq_off[p] = None /\ zlock[zone(t)] = None
  /\ Available(zone(t), want[t]) = {}
  /\ pos' = [pos EXCEPT ![t] = next_zones_zonelist(zonelist(t), @ + 1, hidx[t])]
  /\ UNCHANGED <<zone_vars, ref, zlock, pageset, pcp, irq_off, held, pc, cpu, request, blk, zn, n, got, owner>>

rmqueue_done(t) ==
  LET p == blk[t][1]  o == want[t] IN
  /\ At(t, "expand")
  /\ blk[t][2] = o
  /\ unlock_zone(zone(t))
  /\ local_irq_restore(t)
  /\ held' = held \cup {<<p, o>>}
  /\ ref' = [ref EXCEPT ![p] = 1]
  /\ blk' = [blk EXCEPT ![t] = <<0, 0>>]
  /\ Moved(Frames(p, o), <<"held", <<p, o>>>>)
  /\ request_done(t)
  /\ UNCHANGED <<zone_vars, pageset, pcp, zn, n, got>>

-----------------------------------------------------------------------------
(***************************************************************************)
(* Freeing.                                                                *)
(***************************************************************************)
\* put_page_testzero(), then free_pages_prepare(): the block has no user any
\* more and is checked, all with interrupts enabled.
free_pages(t, b) ==
  /\ At(t, "idle")
  /\ b \in held
  /\ ref' = [ref EXCEPT ![b[1]] = 0]
  /\ held' = held \ {b}
  /\ blk' = [blk EXCEPT ![t] = b]
  /\ Moved(Frames(b[1], b[2]), <<"ctx", t>>)
  /\ Goto(t, IF b[2] = 0 THEN "free_pcp" ELSE "free_buddy")
  /\ UNCHANGED <<zone_vars, zlock, pageset, pcp, irq_off, cpu, pos, request, zn, n, got>>

\* Mutant: the count is compared before the page is counted.
free_unref_page_commit_late(t, p) ==
  LET q == blk[t][1]  s == <<p, pageset[ZoneOf[q]]>>  full == pcp[s].count > pcp[s].high IN
  /\ At(t, "free_pcp")
  /\ irq_off[p] = None
  /\ irq_off' = [irq_off EXCEPT ![p] = IF full THEN t ELSE None]
  /\ cpu' = [cpu EXCEPT ![t] = IF full THEN p ELSE None]
  /\ pcp' = [pcp EXCEPT ![s].list = @ \cup {q}, ![s].count = @ + 1]
  /\ Moved({q}, <<"pcp", s>>)
  /\ blk' = [blk EXCEPT ![t] = <<0, 0>>]
  /\ zn' = [zn EXCEPT ![t] = IF full THEN ZoneOf[q] ELSE None]
  /\ n' = [n EXCEPT ![t] = IF full THEN pcp[s].batch ELSE 0]
  /\ Goto(t, IF full THEN "gather" ELSE "idle")
  /\ UNCHANGED <<zone_vars, ref, zlock, pageset, held, pos, request, got>>

\* Mutant: one page too many is drained.
free_unref_page_commit_more(t, p) ==
  LET q == blk[t][1]  s == <<p, pageset[ZoneOf[q]]>>  full == pcp[s].count + 1 >= pcp[s].high IN
  /\ At(t, "free_pcp")
  /\ irq_off[p] = None
  /\ irq_off' = [irq_off EXCEPT ![p] = IF full THEN t ELSE None]
  /\ cpu' = [cpu EXCEPT ![t] = IF full THEN p ELSE None]
  /\ pcp' = [pcp EXCEPT ![s].list = @ \cup {q}, ![s].count = @ + 1]
  /\ Moved({q}, <<"pcp", s>>)
  /\ blk' = [blk EXCEPT ![t] = <<0, 0>>]
  /\ zn' = [zn EXCEPT ![t] = IF full THEN ZoneOf[q] ELSE None]
  /\ n' = [n EXCEPT ![t] = IF full THEN pcp[s].batch + 1 ELSE 0]
  /\ Goto(t, IF full THEN "gather" ELSE "idle")
  /\ UNCHANGED <<zone_vars, ref, zlock, pageset, held, pos, request, got>>

\* free_unref_page_commit() on the page set of the CPU; at the high mark a
\* batch of pages has to go.
free_unref_page_commit(t, p) ==
  LET q == blk[t][1]  s == <<p, pageset[ZoneOf[q]]>>  full == pcp[s].count + 1 >= pcp[s].high IN
  /\ At(t, "free_pcp")
  /\ irq_off[p] = None
  /\ irq_off' = [irq_off EXCEPT ![p] = IF full THEN t ELSE None]
  /\ cpu' = [cpu EXCEPT ![t] = IF full THEN p ELSE None]
  /\ pcp' = [pcp EXCEPT ![s].list = @ \cup {q}, ![s].count = @ + 1]
  /\ Moved({q}, <<"pcp", s>>)
  /\ blk' = [blk EXCEPT ![t] = <<0, 0>>]
  /\ zn' = [zn EXCEPT ![t] = IF full THEN ZoneOf[q] ELSE None]
  /\ n' = [n EXCEPT ![t] = IF full THEN pcp[s].batch ELSE 0]
  /\ Goto(t, IF full THEN "gather" ELSE "idle")
  /\ UNCHANGED <<zone_vars, ref, zlock, pageset, held, pos, request, got>>

\* free_pcppages_bulk(): the pages leave the page set one by one; while its
\* list is empty the code spins.
gather(t) ==
  LET s == my_pcp(t, zn[t]) IN
  /\ At(t, "gather")
  /\ n[t] > 0
  /\ \E q \in pcp[s].list :
       /\ pcp' = [pcp EXCEPT ![s].list = @ \ {q}, ![s].count = @ - 1]
       /\ got' = [got EXCEPT ![t] = @ \cup {q}]
       /\ Moved({q}, <<"got", t>>)
  /\ n' = [n EXCEPT ![t] = @ - 1]
  /\ UNCHANGED <<zone_vars, ref, zlock, pageset, irq_off, held, pc, cpu, pos, request, blk, zn>>

\* Then they go to the buddy lists in one hold of the zone lock.
drain_lock(t) ==
  /\ At(t, "gather")
  /\ n[t] = 0
  /\ lock_zone(t, zn[t])
  /\ Goto(t, "drain")
  /\ UNCHANGED <<zone_vars, ref, pageset, pcp, irq_off, held, cpu, locals, owner>>

drain_next(t) ==
  /\ At(t, "drain")
  /\ \E q \in got[t] :
       /\ got' = [got EXCEPT ![t] = @ \ {q}]
       /\ blk' = [blk EXCEPT ![t] = <<q, 0>>]
       /\ Moved({q}, <<"ctx", t>>)
  /\ Goto(t, "drain_merge")
  /\ UNCHANGED <<zone_vars, ref, zlock, pageset, pcp, irq_off, held, cpu, pos, request, zn, n>>

drain_done(t) ==
  /\ At(t, "drain")
  /\ got[t] = {}
  /\ unlock_zone(zn[t])
  /\ local_irq_restore(t)
  /\ zn' = [zn EXCEPT ![t] = None]
  /\ Goto(t, "idle")
  /\ UNCHANGED <<zone_vars, ref, pageset, pcp, held, pos, request, blk, n, got, owner>>

\* __free_pages_ok(): higher orders go to the buddy lists directly.
free_one_page(t, p) ==
  /\ At(t, "free_buddy")
  /\ local_irq_save(t, p)
  /\ lock_zone(t, ZoneOf[blk[t][1]])
  /\ zn' = [zn EXCEPT ![t] = ZoneOf[blk[t][1]]]
  /\ Goto(t, "merge")
  /\ UNCHANGED <<zone_vars, ref, pageset, pcp, held, pos, request, blk, n, got, owner>>

\* __find_buddy_pfn(): pfn ^ (1 << order), for a pfn aligned to the order.
find_buddy_pfn(p, o) == IF (p \div Size[o]) % 2 = 0 THEN p + Size[o] ELSE p - Size[o]

\* Mutant: the zones are not compared.
page_is_buddy_any_zone(p, b, o) == b \in Page /\ border[b] = o

page_is_buddy(p, b, o) == b \in Page /\ border[b] = o /\ ZoneOf[p] = ZoneOf[b]

\* Mutant: merging stops one order early.
CanMerge_early(p, o) == o < MAX_ORDER - 2 /\ page_is_buddy(p, find_buddy_pfn(p, o), o)

CanMerge(p, o) == o < MAX_ORDER - 1 /\ page_is_buddy(p, find_buddy_pfn(p, o), o)

\* One iteration of __free_one_page(): take the free buddy off its list and
\* go on with the combined block.
merge(t) ==
  LET p == blk[t][1]  o == blk[t][2]  b == find_buddy_pfn(p, o)  q == IF b < p THEN b ELSE p IN
  /\ pc[t] \in {"merge", "drain_merge"}
  /\ CanMerge(p, o)
  /\ free' = [z \in Zone |-> [free[z] EXCEPT ![o] = @ \ {b}]]
  /\ nr_free' = [nr_free EXCEPT ![zn[t]][o] = @ - 1]
  /\ border' = [border EXCEPT ![b] = -1]
  /\ blk' = [blk EXCEPT ![t] = <<q, o + 1>>]
  /\ Moved(Frames(b, o), <<"ctx", t>>)
  /\ UNCHANGED <<ref, zlock, pageset, pcp, irq_off, held, pc, cpu, pos, request, zn, n, got>>

merge_stop(t) ==
  /\ pc[t] \in {"merge", "drain_merge"}
  /\ ~CanMerge(blk[t][1], blk[t][2])
  /\ Goto(t, IF At(t, "merge") THEN "add" ELSE "drain_add")
  /\ UNCHANGED <<zone_vars, ref, zlock, pageset, pcp, irq_off, held, cpu, locals, owner>>

\* done_merging: the block becomes free.
merge_done(t) ==
  LET p == blk[t][1]  o == blk[t][2]  z == zn[t] IN
  /\ pc[t] \in {"add", "drain_add"}
  /\ free' = [free EXCEPT ![z][o] = @ \cup {p}]
  /\ nr_free' = [nr_free EXCEPT ![z][o] = @ + 1]
  /\ border' = [border EXCEPT ![p] = o]
  /\ blk' = [blk EXCEPT ![t] = <<0, 0>>]
  /\ Moved(Frames(p, o), <<"free", z, p, o>>)
  /\ \/ /\ At(t, "drain_add")
        /\ Goto(t, "drain")
        /\ UNCHANGED <<zlock, irq_off, cpu, zn>>
     \/ /\ At(t, "add")
        /\ unlock_zone(z)
        /\ local_irq_restore(t)
        /\ zn' = [zn EXCEPT ![t] = None]
        /\ Goto(t, "idle")
  /\ UNCHANGED <<ref, pageset, pcp, held, pos, request, n, got>>

-----------------------------------------------------------------------------
Call(t) ==
  \/ \E x \in Node, o \in Order, z \in Zone : alloc_pages(t, x, o, ZoneIdx[z])
  \/ \E b \in held : free_pages(t, b)

Progress(t) ==
  \/ slowpath(t) \/ remote_zone(t)
  \/ \E p \in CPU : \/ rmqueue_pcplist(t, p) \/ rmqueue(t, p) \/ rmqueue_fail(t, p)
                    \/ free_unref_page_commit(t, p) \/ free_one_page(t, p)
  \/ rmqueue_bulk(t) \/ bulk_take(t) \/ bulk_done(t) \/ bulk_add(t) \/ expand(t)
  \/ pcp_take(t) \/ pcp_fail(t) \/ rmqueue_done(t)
  \/ gather(t) \/ drain_lock(t) \/ drain_next(t) \/ drain_done(t)
  \/ merge(t) \/ merge_stop(t) \/ merge_done(t)

Next ==
  \/ \E z \in Zone : setup_zone_pageset(z)
  \/ \E t \in Ctx : Call(t) \/ Progress(t)

Spec == Init /\ [][Next]_vars

\* A context that is inside the allocator goes on, and gets a lock or a CPU
\* that is free again and again: the spinlocks are queued.
FairSpec == Spec /\ \A t \in Ctx : SF_vars(Progress(t))

-----------------------------------------------------------------------------
Pcs == {"idle", "scan", "bug", "bulk_lock", "bulk", "bulk_expand", "pcp_take", "pcp_fail",
        "expand", "free_pcp", "free_buddy", "gather", "drain", "drain_merge", "drain_add", "merge", "add"}

Block == Nat \X Order

\* Every variable keeps its type.
TypeOK ==
  /\ free \in [Zone -> [Order -> SUBSET Page]]
  /\ nr_free \in [Zone -> [Order -> Nat]]
  /\ border \in [Page -> Order \cup {-1}]
  /\ ref \in [Page -> 0 .. 1]
  /\ zlock \in [Zone -> Ctx \cup {None}]
  /\ pageset \in [Zone -> Zone \cup {"boot"}]
  /\ pcp \in [PageSet -> [list : SUBSET Page, count : Nat, high : Nat, batch : Nat]]
  /\ irq_off \in [CPU -> Ctx \cup {None}]
  /\ held \subseteq Page \X Order
  /\ pc \in [Ctx -> Pcs]
  /\ cpu \in [Ctx -> CPU \cup {None}]
  /\ nid \in [Ctx -> Node]
  /\ hidx \in [Ctx -> Nat]
  /\ pref \in [Ctx -> Nat]
  /\ pos \in [Ctx -> Nat]
  /\ want \in [Ctx -> Order]
  /\ blk \in [Ctx -> Block]
  /\ zn \in [Ctx -> Zone \cup {None}]
  /\ n \in [Ctx -> Nat]
  /\ got \in [Ctx -> SUBSET Page]

\* The contexts that have a block in hand.
HandPcs == {"bulk_expand", "expand", "free_pcp", "free_buddy", "drain_merge", "drain_add", "merge",
            "add"}
InHand(t) == pc[t] \in HandPcs

\* The free blocks with their zone, and the page sets with pages on them.
FreeBlocks == UNION {{<<p, o, z>> : p \in free[z][o]} : z \in Zone, o \in Order}
Disjoint(b, c) == Frames(b[1], b[2]) \cap Frames(c[1], c[2]) = {}

\* No page frame has two owners (rmqueue() against __free_pages(), expand()
\* against __free_one_page()): blocks in use overlap neither each other nor
\* a free block nor a page of a page set, and no free page is found twice.
NoOverlap ==
  /\ \A b, c \in held : b # c => Disjoint(b, c)
  /\ \A b, c \in FreeBlocks : b # c => Disjoint(b, c)
  /\ \A b \in held, c \in FreeBlocks : Disjoint(b, c)
  /\ \A s \in PageSet : \A f \in pcp[s].list :
       /\ \A b \in held \cup FreeBlocks : f \notin Frames(b[1], b[2])
       /\ \A r \in PageSet : f \in pcp[r].list => r = s

\* No page that memblock handed over is ever lost, not even when the boot
\* page sets are replaced (setup_zone_pageset() forgets the old ones).
NoLeak ==
  \A b \in Boot : \A f \in Frames(b[1], b[2]) :
    \/ \E z \in Zone, o \in Order : \E p \in free[z][o] : f \in Frames(p, o)
    \/ \E c \in CPU : f \in pcp[<<c, pageset[ZoneOf[f]]>>].list
    \/ \E c \in held : f \in Frames(c[1], c[2])
    \/ \E t \in Ctx : f \in got[t] \/ (InHand(t) /\ f \in Frames(blk[t][1], blk[t][2]))

\* Blocks are aligned, lie in Page and in one zone, and every list of a zone
\* holds pages of that zone only, although all zones share the boot page
\* sets and free_pcppages_bulk() takes the zone from its caller.
ZonePure ==
  /\ \A z \in Zone, o \in Order : \A p \in free[z][o] :
       /\ p % Size[o] = 0
       /\ p .. p + Size[o] - 1 \subseteq Page
       /\ \A f \in Frames(p, o) : ZoneOf[f] = z
  /\ \A z \in Zone, c \in CPU : \A f \in pcp[<<c, z>>].list : ZoneOf[f] = z
  /\ \A t \in Ctx : \A f \in got[t] : ZoneOf[f] = zn[t]

\* The bookkeeping is exact when no one is inside: the counters say how long
\* the lists are, PageBuddy() and page_order() which list a page heads.
CountsExact ==
  /\ \A z \in Zone, o \in Order : nr_free[z][o] = Cardinality(free[z][o])
  /\ \A s \in PageSet : irq_off[s[1]] = None => pcp[s].count = Cardinality(pcp[s].list)
  /\ \A p \in Page, o \in Order : border[p] = o <=> \E z \in Zone : p \in free[z][o]

\* Freed memory coalesces: two free buddies of one zone never stay apart.
Coalesced ==
  \A z \in Zone, o \in Order : zlock[z] = None /\ o < MAX_ORDER - 1 =>
    \A p \in free[z][o] : find_buddy_pfn(p, o) \notin free[z][o]

\* A page set never exceeds its high mark.
PcpBelowHigh ==
  \A s \in PageSet : irq_off[s[1]] = None => pcp[s].count <= pcp[s].high

\* Whoever enters __alloc_pages_nodemask() or __free_pages() leaves it again,
\* or stops at BUG_ON(1) when there is no memory.
CallsReturn ==
  \A t \in Ctx : pc[t] # "idle" ~> pc[t] \in {"idle", "bug"}
=============================================================================
