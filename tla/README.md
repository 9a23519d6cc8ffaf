# Verification of miracle-kernel

This directory holds TLA+ models of parts of the kernel, the TLC
configurations that check them on small instances, and TLAPS proofs of the
properties that matter most.  `PROJECT.json` lists the parts of the kernel with
their status, the runs, the source lines behind each definition, the hazards
with the line where each bites, the findings and the theorems.

## The system

miracle-kernel is a small arm64 kernel derived from Linux.  The build has up to
eight CPUs (`NR_CPUS` = 8), several memory nodes (`CONFIG_NUMA`) and no kernel
preemption.  The modelled parts, and what they need from each other:

| Part | Source | Module | Needs |
|---|---|---|---|
| Queued spinlock | `kernel/locking/qspinlock.c`, `include/asm-generic/qspinlock.h` | `QSpinLock` | - |
| Queued rwlock | `kernel/locking/qrwlock.c`, `include/asm-generic/qrwlock.h` | `QRWLock` | a spinlock, as `SpinLock` |
| Page allocator | `mm/page_alloc.c` | `PageAlloc` | the zone locks; the blocks of `mm/memblock.c` |
| Slab allocator | `mm/slub.c` | `Slub` | pages; the lock of each node |
| Interrupt lines | `kernel/irq/{chip,handle,manage}.c` | `IrqDesc` | `desc->lock` |
| High-resolution timers | `kernel/time/hrtimer.c`, `clockevents.c`, `tick-oneshot.c` | `Hrtimer` | the base locks; a clock event device |

Two conventions hold in all modules.  Memory is sequentially consistent: the
acquire, release and barrier annotations of the code are taken to be
sufficient.  A step is what other contexts can tell apart: one access to shared
memory where the code is lock-free, a whole critical section where everybody
who looks takes the same lock.  That spinlocks exclude and are served is what
`QSpinLock` shows; the other modules take it as given.

## Modules and runs

Definitions called `..._none`, `..._list` and the like, with a comment that
begins "Mutant", are deliberately wrong versions of the definition after them.
For each property that a run checks there is one for which the property fails;
no specification uses them.

### Spinlock: SpinLock, QSpinLock, MCQSpinLock

`QSpinLock` has one action for each access to shared memory of
`queued_spin_lock()`, `queued_spin_trylock()`, `queued_spin_unlock()` and the
slow path.  `locked[k]`, `pending[k]`, `tail[k]` are the fields of the lock
word of lock `k`, `mnext[n]` and `mlocked[n]` an MCS node, `count[cpu]` the
nesting count in node 0; `pc`, `lock`, `val`, `idx`, `prev`, `next` are the
locals of a context.  A context is a task or an interrupt level of a CPU;
`Interrupt` starts a handler anywhere in the slow path of the context below,
unless the lock that one takes masks the level.  `ahead` is a history variable:
who queued before.  `SpinLock` is the abstract lock, with one holder at most.

* `qspinlock_nested`: two CPUs, two locks, one of them also taken by a handler.
  Nested contexts of a CPU never share a node (`NodesPrivate`), the lock
  implements `SpinLock` (`ImplementsSpinLock`), and everyone who starts to take
  it gets it (`LockAcquired`).
* `qspinlock_queue`: three CPUs and one lock, so that two contexts queue.  The
  lock word is never zero while somebody can be handed the lock
  (`WaitersVisible`), the queue is served in the order of the exchanges of the
  tail (`QueueIsFifo`), and `LockAcquired`.

Fairness: the steps of a context inside the lock and the unlock are weakly
fair, because the code spins with preemption disabled: a context that can move
does.  The return of a handler is strongly fair: a handler takes finitely many
locks.  Nothing obliges a context to take a lock or an interrupt to come.

### Reader/writer lock: RWLock, QRWLock, MCQRWLock

`cnts` is the counter with `_QW_WAITING`, `_QW_LOCKED` and `_QR_BIAS` as in the
code, `wait_lock` the abstract spinlock.  Handlers read only, and writers mask
interrupts.  `RWLock` is the abstract lock: one writer or any number of
readers.

* `qrwlock`: three CPUs, one with a handler.  The counter is exactly the
  readers, the waiting writer and the writer (`CountExact`), the lock implements
  `RWLock` (`ImplementsRWLock`), a reader in a handler gets the lock although a
  writer waits for the reader below it (`InterruptReaderServed`), and tasks do
  not starve (`TasksServed`).

Fairness: weak for steps inside the lock, strong for getting the `wait_lock`
(this is `LockAcquired`) and for the return of a handler.  `TasksServed` has the
premise that interrupts end: readers in handlers may pass a waiting writer.

### Page allocator: PageAlloc, MCPageAlloc

A block is a pair of a frame number and an order.  `free[z][o]`, `nr_free[z][o]`
and `border[p]` are the buddy lists, their counters and `page_order()` of pages
with `PageBuddy()`; `pcp[s]` is a page set of a CPU, and `pageset[z]` says
whether zone `z` still uses the boot page set of the CPU, which all zones share.
The loops of `expand()`, `__free_one_page()`, `rmqueue_bulk()` and
`free_pcppages_bulk()` are loops of the model; `zlock` and `irq_off` are the
zone locks and the CPUs with interrupts disabled.  The instances start from the
blocks that `__free_pages_memory()` of `mm/memblock.c` makes of free ranges.

* `page_alloc_smp`: two contexts, two CPUs, two zones of a node.  No frame has
  two owners (`NoOverlap`) or none (`NoLeak`), the counters are exact
  (`CountsExact`), free buddies are merged (`Coalesced`), calls return
  (`CallsReturn`).
* `page_alloc_edges`: two nodes that meet inside a block, three orders, page
  sets that reach their high marks.  Lists hold pages of their zone only
  (`ZonePure`), `Coalesced` over two levels, and `PcpBelowHigh`.
* `page_alloc_two_nodes` (violation): see Findings.

Fairness: strong for the steps of a context inside the allocator, because zone
locks are queued locks and interrupts are enabled again and again.  The runs
do not check deadlock: a context without memory stops at `BUG_ON(1)`.

### Slab allocator: Slub, MCSlub

One cache.  `page[p]` has the free list and the counters (`inuse`, `frozen`) of
a slab, `fp[o]` the free pointer stored in an object, `cpu[c]` the slab of a CPU
and its list, `partial[n]` and `list_lock[n]` the list of a node, `held` the
objects of the callers.  A context is a task or a handler of a CPU (`Runs`: a
handler runs to its end; it does not start where the code has interrupts off).
Instead of the value of the transaction id `tid`, a context keeps `fresh`: the
id is still the one it read; `next_tid()` makes all contexts of the CPU stale.
Lock-free accesses are steps of their own: the look at the CPU's list, the read
of the next pointer and the compare-and-exchange of `slab_alloc_node()`; the
look at the slab, the link and the exchange of `do_slab_free()`; reading,
locking, exchange and list of `__slab_free()`; the stages of
`deactivate_slab()`; `acquire_slab()`.

* `slub`: two CPUs with tasks that allocate and free; a slab of three objects
  that is freed into without the lock while it is acquired; a task against
  interrupts; a task, interrupts and another CPU; allocations on a node, also
  from interrupts; bulk calls and `kmem_cache_shrink()`.  Every object is in one
  place (`ObjectsOnce`), a fast path whose `tid` is current finds what it read
  (`TidUnique`), the counters agree with the lists (`CountersExact`), and the
  partial lists hold the slabs they should (`PartialExact`).
* `slub_exhausted` (violation): see Findings.  For this reason the scenarios of
  `slub` with interrupts have a page for every allocation; those without
  interrupts also run out of memory.  Running out means that `alloc_pages()`
  returns NULL, which `slub.c` provides for, though in this tree it still stops
  at `BUG_ON(1)`.

Not modelled here: slabs of the smaller order of a fallback (all slabs have the
same number of objects), creation, merging and destruction of caches, and debug
options, which this tree does not have.

### Interrupt lines: IrqDesc, MCIrqDesc

`desc` has the flags and counters of a descriptor with the registers of its
chip, `action`, `next` and `act` the action list, `cpc` and `walk` the flow
handler of each CPU, `pc`, `arg`, `off`, `quiet` the driver calls.  What happens
under `desc->lock` is one step; the walk of the action list, the waits of
`synchronize_hardirq()` and the looks at `desc->action` outside the lock are
others.  `conf` is the kind of line: flow handler, trigger, whether the
controller holds it back until it is ended, lazy disabling, the flags of the
requests, the types that `irq_set_irq_type()` may give it.  A simple line is
ended by the demultiplexing handler that called `handle_simple_irq()`.

* `irq_lines`: a driver of two devices and a task that disables and enables, on
  two CPUs, for every flow handler; both change the type of lines with
  `handle_fasteoi_irq()`, which serves both types.  Requests fail for
  want of resources, of a handler, of flags that agree or of a type the chip
  takes, and are undone.  The CPUs are symmetric.  No handler of a freed action runs
  (`ActionAlive`), handlers run on one CPU at a time (`HandlersExclusive`), not
  at all after `disable_irq()` (`DisabledQuiet`), an enabled line is not left
  masked (`LineOpen`; `handle_fasteoi_mask_irq()` has oneshot lines only, see
  the remarks below), the depth is the number of disables not undone
  (`DepthCounts`), and the chip's resources are held once while there is an
  action and given back by requests that fail (`ResourcesBalanced`).
* `irq_handled`: what a device reports is handled (`EventHandled`); driver calls
  return (`CallsReturn`).  Level lines are disabled and enabled; edge lines are
  never disabled, see the remarks below; types do not change.
* `irq_two_drivers` (violation): see Findings.

Fairness: CPUs go on with flow handlers and calls, and the controller delivers
what it may deliver.  `CallsReturn` has the premise that devices stop reporting
at some time, because `handle_edge_irq()` loops as long as edges come.

### Timers: Hrtimer, MCHrtimer

`queued`, `expires`, `active[b]` are timers and the queue of each base,
`cpu_base` the scalars of `hrtimer_cpu_base`, `dev[c]` when the device of the
CPU interrupts, `ipc` and `irq` the timer interrupt, `pc`, `arg`, `on`, `stale`
the calls of tasks.  All times are relative to now, so that `Tick` makes them
smaller and the state space is finite.  The stores of the interrupt that the
lock-free `hrtimer_active()` sees are steps of their own.

* `hrtimer`: a periodic timer and one that its callback may start again, on one
  base or on two; `conf.owner` says which timers a task starts and cancels.  After `hrtimer_cancel()` the timer is neither queued nor
  running (`CancelQuiet`), the device is set for the first timer
  (`NextEventArmed`), a timer that is not put off for ever runs (`TimerRuns`).

Fairness: time passes, interrupts are taken, and handlers and calls go on.

## Bounds

* Locks: every pair of paths (fast, pending, queued first, queued behind) meets
  with two CPUs and a handler, or with three CPUs.
* Pages: `page_alloc_smp` has three frames, two orders and two contexts on two
  CPUs; `page_alloc_edges` has eight frames, three orders, hence two levels of
  splitting and merging, and one context on one CPU.  Batches of 0 and 1 give
  high marks of 0 and 6.  The number of requests is not bounded.
* Slabs: two CPUs, at most three slabs of two objects or one of three.  Two
  objects make lists with a successor that can go stale; three leave a partial
  slab that is freed into without becoming empty, the case in which
  `acquire_slab()` fails.  `MinPartial` is 1, so that empty slabs are both kept
  and discarded.  Calls are not bounded.
* Interrupts: two CPUs, two devices; a task has at most one disable outstanding
  (`maxoff` is 0 or 1).  Lines of every flow handler disable lazily; the level
  and the edge handler also meet lines that are masked at once.
* Timers: two timers, delays of 2, intervals of 1; `MaxDelta`, `MaxHang`,
  `MaxLate` and `maxrun` bound the device, the delay after a hang, and how late
  and how long an interrupt is.  `maxrun` is 3 where one timer is started by a
  task, enough for three rounds of retries and a hang, 2 where both are, and 1
  with a start from another CPU.

## Findings

* `page_alloc_two_nodes`: `get_page_from_freelist()` goes back to `retry` when
  it reaches a zone of another node, and nothing has changed: the allocation
  never ends.
* `irq_two_drivers`: `mutex_lock()` is an empty macro, so that a request of one
  driver during the `free_irq()` of another clears `IRQD_IRQ_INPROGRESS` and
  lets the action be freed under its running handler.
* `slub_exhausted`: an allocation in an interrupt that finds the page of the CPU
  full and no memory for another leaves the CPU without a slab and does not
  change `tid`.  A task that was in `do_slab_free()`, past its look at
  `c->page`, then puts its object on the list of a CPU without a slab.  Today
  `__alloc_pages_slowpath()` is a TODO that ends in `BUG_ON(1)`, so
  `alloc_pages()` does not return without memory; the flaw is in what `slub.c`
  does with the NULL it provides for, and shows once the slow path returns it.

Remarks on the code, which no run is about: `check_irq_resend()` is empty, so
edges that come while a line is disabled are lost (`irq_handled` disables level
lines only); `handle_fasteoi_mask_irq()` leaves lines masked that are not
oneshot (`irq_lines` has it with oneshot lines only); boot page sets have batch
1 and high 0; the state of the timer device stays detached, so `KTIME_MAX` does
not stop it; a timer started from another CPU does not program the device
(`NextEventArmed` and `TimerRuns` are about local starts); `hrtimers_resume()`
has no caller and `tick_setup_sched_timer()` is empty; `flush_all()` of the slab
allocator does nothing, so `kmem_cache_shrink()` does not reach the slabs of the
CPUs.

## Proofs

For any number of CPUs, contexts, locks, pages and objects, from the named
assumptions of the modules on their constants:

* Spinlock: `QSpinLockLemmas`, then `QSpinLockProofs`.  `IInv` is inductive; it
  implies `TypeOK`, `MutualExclusion`,
  `NodesPrivate`, `WaitersVisible` and, for every step, `QueueIsFifo`; each step
  is a step of `SpinLock` or none.  Mutual exclusion alone is not inductive: a
  hand-over through the locked byte, the pending bit or an MCS node must be
  known to have one receiver.  So `IInv` ties the order of arrival (`ahead`) to
  the tail (`TailInv`), the links (`LinkInv`) and the flags (`FlagInv`), says
  that the pending bit has one owner (`PendingInv`) and that whoever is about to
  store the locked byte has no rival (`ClaimInv`), and that the nodes of a CPU
  are a stack that follows the nesting of its contexts (`NodeInv`).
* Reader/writer lock: `QRWLockProofs`.  `IInv` says that the counter is the bias
  times the contexts that have counted themselves, plus the flag of the waiting
  writer, plus the writer, and that contexts in the slow path hold the
  `wait_lock`; the types, exclusion, the exact count and the refinement of `RWLock` follow.
* Page allocator: `PageAllocInv` has the inductive invariant, `PageAllocLemmas`
  the facts about blocks, buddies and places of frames.  There is a lemma per
  action for each half of the invariant: for `Core` in `PageAllocLemmas`, where
  the action moves no frame, and in `PageAllocSteps`; for `Rest` in
  `PageAllocSets`.  `PageAllocProofs` has the theorems.  `NoOverlap` and `NoLeak`
  are not inductive: they do not say what a context holds between two
  iterations of a loop, nor why two contexts are not in the same loop.  So
  `IInv` says that the history variable `owner` names exactly one place for each
  frame (`OwnerInv`): a free list, a page set, a user, the hands of a context or
  what it has gathered.  A context with interrupts off has its CPU for itself
  (`IrqInv`) and, where it needs it, the lock of its zone (`LockInv`).  Blocks
  are whole and in their zone (`BlockInv`), and no block about to be free has a
  free buddy (`ApartInv`), which stays true because only the holder of the zone
  lock can change that.  Page sets obey their marks but for the one that a
  context is filling or draining (`PcpInv`), and a boot page set holds pages only
  then, all of one zone (`PcpZone`): hence none is lost when
  `setup_zone_pageset()` replaces it.  `TypeOK`, `NoOverlap`, `NoLeak`,
  `CountsExact`, `Coalesced`, `ZonePure` and `PcpBelowHigh` follow, for any
  number of frames, orders, zones, nodes, CPUs and contexts.  The assumption
  about boot (`PageAssumption`) is that memblock hands over blocks that are
  disjoint, aligned, and in one zone: `__free_pages_memory()` aligns them, it is
  called for ranges of one node, and the zones of a node meet at an address
  aligned to the largest block.
* Slab allocator: `SlubProofs` proves `TidUnique`, provided that an allocation
  fails only on CPUs where either tasks or handlers use the cache, which is
  what the finding above comes to.  The invariant says that a context with
  the current `tid` finds what it read, unless the other context of its CPU is
  in a part of the slow path that ends with `next_tid()`; such a part has
  interrupts off, so the first context does not run meanwhile.

Only model-checked: liveness (outside the prover); the interrupt lines and the
timers, whose invariants have not been strengthened to inductive ones; that
objects, counters and lists of slabs agree, which is about lists of any length
and would need induction over them.

## Not modelled

`PROJECT.json` gives the reason for each part with status `not_modelled`, and
what is left out of those with status `partly`.  The main ones:

* The scheduler core.  In this tree `__schedule()` never takes a task off its
  runqueue (`if (1)` stands for the test for signals), `switch_to()` is a
  comment in `context_switch()`, and the inter-processor calls of wake-ups are
  comments: there is no sleep to race with.  The scheduling classes are built on
  it; their load averages are fixed-point series out of TLC's reach.
* The percpu allocator, `vmalloc`, `memblock`, the resource tree, the
  extensible arrays and the other libraries: sequential data structures, under
  one lock or used at boot only.
* Device tree, drivers, arm64 boot and traps: input and output, assembly, and
  reads of constant data.
