------------------------------- MODULE IrqDesc -------------------------------
(***************************************************************************)
(* One interrupt line of kernel/irq: its descriptor, the flow handlers of  *)
(* chip.c and handle.c that CPUs run when the line fires, and the driver   *)
(* calls of manage.c.                                                      *)
(*                                                                         *)
(* Everything between a lock and an unlock of desc->lock is one step: only *)
(* the walk of the action list, the waits of synchronize_hardirq() and the *)
(* two looks at desc->action around the lock in __setup_irq() and          *)
(* __free_irq() happen outside it.  desc->request_mutex is no state: the   *)
(* mutex calls of this kernel are empty macros.                            *)
(*                                                                         *)
(* No interrupt threads: setup_irq_thread() creates none.  The interrupt   *)
(* controller, the devices and the bodies of the handlers are external.    *)
(***************************************************************************)
EXTENDS Integers, FiniteSets, Functions

CONSTANTS CPU, Task,
          Dev,      \* devices; also their irqaction, which dev_id identifies
          NULL,
          Driver,   \* Driver[d] : the task that requests and frees d
          Lines     \* the lines there may be

Trigger == {"level", "edge"}
Flow == {"simple", "level", "fasteoi", "fasteoi_ack", "fasteoi_mask", "edge", "edge_eoi"}

\* The IRQF_ flags of a request; trigger "none" takes the line's.
Flags == [shared : BOOLEAN, oneshot : BOOLEAN, trigger : Trigger \cup {"none"}]
\* What the irq domain, the controller and the drivers settle for a line.
Line == [handle_irq : Flow, type : Trigger, flags : [Dev -> Flags],
         types : SUBSET Trigger, \* what drivers ask of irq_set_irq_type()
         holds : BOOLEAN,     \* the controller delivers to one CPU at a time, until ended
         unlazy : BOOLEAN,    \* IRQ_DISABLE_UNLAZY at the start
         noautoen : BOOLEAN,  \* IRQ_NOAUTOEN
         maxoff : Nat]        \* bound: nested disables of one task

ASSUME IrqAssumption ==
  /\ NULL \notin Dev
  /\ Driver \in [Dev -> Task]
  /\ \A l \in Lines : l \in Line /\ (l.noautoen => l.maxoff > 0)

VARIABLES
  desc,      \* the flags and counters of the descriptor and its chip's registers
  conf,      \* the line this is
  action,    \* desc->action, the head of the list
  next,      \* next[d] : action->next
  act,       \* act[d] : "none", "new" (allocated), "linked" or "unlinked"
  resources, \* calls of irq_request_resources() less those of irq_release_resources()
  cause,     \* cause[d] : the device has something to report
  cpc, walk, \* flow handler of each CPU: where it is, and the action it runs
  pc, arg,   \* driver call of each task: where it is, and its device
  off,       \* off[t] : disables of t that neither it nor a restart of the line has undone
  quiet      \* quiet[t] : t has returned from disable_irq() and not undone it

line == <<desc, conf>>
list == <<action, next, act, resources>>
flow == <<cpc, walk>>
calls == <<pc, arg, off, quiet>>
vars == <<line, list, cause, flow, calls>>

Desc == [depth : Nat, disabled : BOOLEAN, masked : BOOLEAN, started : BOOLEAN,
         inprogress : BOOLEAN, pending : BOOLEAN, oneshot : BOOLEAN, unlazy : BOOLEAN,
         type : Trigger,
         enabled : BOOLEAN,   \* controller: the line is not masked
         active : BOOLEAN,    \* controller: delivered, and not acknowledged or ended
         latched : BOOLEAN]   \* controller: an edge to deliver

InHandler(c) == cpc[c] \in {"event", "walk"}

----------------------------------------------------------------------------
(* The chip, and the state functions of chip.c: from a descriptor to the   *)
(* descriptor they leave.                                                  *)

irq_ack(s) == [s EXCEPT !.active = FALSE, !.latched = FALSE]
irq_eoi(s) == [s EXCEPT !.active = FALSE]
\* In a hierarchy the acknowledge reaches the inner chip; the transparent controller
\* still waits for the eoi.
irq_ack_parent(s) == [s EXCEPT !.latched = FALSE]

mask_irq(s) ==
  IF s.masked THEN s ELSE [s EXCEPT !.enabled = FALSE, !.masked = TRUE]
unmask_irq(s) ==
  IF s.masked THEN [s EXCEPT !.enabled = TRUE, !.masked = FALSE] ELSE s
mask_ack_irq(s) == irq_ack(mask_irq(s))

irq_enable(s) == unmask_irq([s EXCEPT !.disabled = FALSE])
__irq_disable(s, mask) ==
  LET t == [s EXCEPT !.disabled = TRUE] IN IF mask THEN mask_irq(t) ELSE t

irq_startup(s) == [irq_enable([s EXCEPT !.depth = 0]) EXCEPT !.started = TRUE]
irq_shutdown(s) ==
  IF s.started
    THEN [__irq_disable([s EXCEPT !.depth = 1], TRUE) EXCEPT !.started = FALSE]
    ELSE s

\* Mutant: disables do not nest.
__disable_irq_flat(s) == [__irq_disable(s, s.unlazy) EXCEPT !.depth = 1]
__disable_irq(s) ==
  [(IF s.depth = 0 THEN __irq_disable(s, s.unlazy) ELSE s) EXCEPT !.depth = @ + 1]
\* Mutant: an enable that is not the last does not count.
__enable_irq_kept(s) == IF s.depth = 1 THEN irq_startup(s) ELSE s
__enable_irq(s) ==
  CASE s.depth = 0 -> s
    [] s.depth = 1 -> irq_startup(s)
    [] OTHER       -> [s EXCEPT !.depth = @ - 1]

\* __irq_set_trigger() for a chip with IRQCHIP_SET_TYPE_MASKED.
__irq_set_trigger(s, type) ==
  LET t == [mask_irq(s) EXCEPT !.type = type]
  IN  IF s.disabled THEN t ELSE unmask_irq(t)

irq_may_run(s) == ~s.inprogress
CanHandle(s) == action # NULL /\ ~s.disabled

\* handle_irq_event() up to the unlock, and from the lock on.
event_start(s) == [s EXCEPT !.pending = FALSE, !.inprogress = TRUE]
event_end(s) == [s EXCEPT !.inprogress = FALSE]

CondUnmask(s) == IF ~s.disabled THEN unmask_irq(s) ELSE s
\* Mutant: a oneshot line stays masked.
cond_eoi_irq(s) == irq_eoi(s)
cond_unmask_eoi_irq(s) == IF s.oneshot THEN CondUnmask(irq_eoi(s)) ELSE irq_eoi(s)

----------------------------------------------------------------------------
(* The flow handlers.  Each takes desc->lock, leaves at once or enters     *)
(* handle_irq_event(), which drops the lock around the handlers.           *)

Leave(c, s) == desc' = s /\ cpc' = [cpc EXCEPT ![c] = "idle"]
Enter(c, s) == desc' = event_start(s) /\ cpc' = [cpc EXCEPT ![c] = "event"]
Postpone(s) == [s EXCEPT !.pending = TRUE]

Starts(c, h) == cpc[c] = "flow" /\ conf.handle_irq = h /\ UNCHANGED <<conf, list, cause, walk, calls>>
Ends(c, h) == cpc[c] = "done" /\ conf.handle_irq = h /\ UNCHANGED <<conf, list, cause, walk, calls>>

\* The flow handler of simple interrupts does not touch the chip: "the caller is
\* expected to handle the ack".  The irq_eoi() here is that of the caller, the
\* demultiplexing handler, after handle_simple_irq() has returned to it.
handle_simple_irq(c) ==
  /\ Starts(c, "simple")
  /\ \/ ~irq_may_run(desc) /\ Leave(c, irq_eoi(desc))
     \/ irq_may_run(desc) /\ ~CanHandle(desc) /\ Leave(c, irq_eoi(Postpone(desc)))
     \/ irq_may_run(desc) /\ CanHandle(desc) /\ Enter(c, desc)

handle_simple_end(c) == Ends(c, "simple") /\ Leave(c, irq_eoi(event_end(desc)))

handle_level_irq(c) ==
  LET s == mask_ack_irq(desc)
  IN  /\ Starts(c, "level")
      /\ \/ ~irq_may_run(s) /\ Leave(c, s)
         \/ irq_may_run(s) /\ ~CanHandle(s) /\ Leave(c, Postpone(s))
         \/ irq_may_run(s) /\ CanHandle(s) /\ Enter(c, s)

handle_level_end(c) == Ends(c, "level") /\ Leave(c, CondUnmask(event_end(desc)))

\* The three flow handlers that end with cond_unmask_eoi_irq(): from descriptor s on.
fasteoi_start(c, s, h) ==
  /\ Starts(c, h)
  /\ \/ ~irq_may_run(s) /\ Leave(c, irq_eoi(s))
     \/ irq_may_run(s) /\ ~CanHandle(s) /\ Leave(c, irq_eoi(mask_irq(Postpone(s))))
     \/ irq_may_run(s) /\ CanHandle(s)
          /\ LET u == IF s.oneshot THEN mask_irq(s) ELSE s
             IN  Enter(c, IF h = "fasteoi_ack" THEN irq_ack_parent(u) ELSE u)
fasteoi_end(c, h) == Ends(c, h) /\ Leave(c, cond_unmask_eoi_irq(event_end(desc)))

handle_fasteoi_irq(c) == fasteoi_start(c, desc, "fasteoi")
handle_fasteoi_end(c) == fasteoi_end(c, "fasteoi")
handle_fasteoi_ack_irq(c) == fasteoi_start(c, desc, "fasteoi_ack")
handle_fasteoi_ack_end(c) == fasteoi_end(c, "fasteoi_ack")
handle_fasteoi_mask_irq(c) == fasteoi_start(c, irq_ack_parent(mask_irq(desc)), "fasteoi_mask")
handle_fasteoi_mask_end(c) == fasteoi_end(c, "fasteoi_mask")

\* The body of the loop of handle_edge_irq().
edge_loop(c, s) ==
  \/ action = NULL /\ Leave(c, mask_irq(s))
  \/ action # NULL /\ Enter(c, IF s.pending THEN CondUnmask(s) ELSE s)

\* Mutant: two CPUs handle edges of the line at the same time.
handle_edge_irq_any(c) ==
  /\ Starts(c, "edge")
  /\ \/ ~CanHandle(desc) /\ Leave(c, mask_ack_irq(Postpone(desc)))
     \/ CanHandle(desc) /\ edge_loop(c, irq_ack(desc))
handle_edge_irq(c) ==
  /\ Starts(c, "edge")
  /\ \/ ~(irq_may_run(desc) /\ CanHandle(desc)) /\ Leave(c, mask_ack_irq(Postpone(desc)))
     \/ irq_may_run(desc) /\ CanHandle(desc) /\ edge_loop(c, irq_ack(desc))

\* Mutant: the flow handler does not look for edges that came meanwhile.
handle_edge_end_once(c) == Ends(c, "edge") /\ Leave(c, event_end(desc))
handle_edge_end(c) ==
  LET s == event_end(desc)
  IN  /\ Ends(c, "edge")
      /\ \/ s.pending /\ ~s.disabled /\ edge_loop(c, s)
         \/ ~(s.pending /\ ~s.disabled) /\ Leave(c, s)

handle_edge_eoi_irq(c) ==
  /\ Starts(c, "edge_eoi")
  /\ \/ ~(irq_may_run(desc) /\ CanHandle(desc)) /\ Leave(c, irq_eoi(Postpone(desc)))
     \/ irq_may_run(desc) /\ CanHandle(desc) /\ Enter(c, desc)

handle_edge_eoi_end(c) ==
  LET s == event_end(desc)
  IN  /\ Ends(c, "edge_eoi")
      /\ \/ s.pending /\ ~s.disabled /\ action # NULL /\ Enter(c, s)
         \/ ~(s.pending /\ ~s.disabled /\ action # NULL) /\ Leave(c, irq_eoi(s))

\* __handle_irq_event_percpu(): read the head of the list, then run each action.
walk_start(c) ==
  /\ cpc[c] = "event"
  /\ walk' = [walk EXCEPT ![c] = action]
  /\ cpc' = [cpc EXCEPT ![c] = IF action = NULL THEN "done" ELSE "walk"]
  /\ UNCHANGED <<line, list, cause, calls>>

walk_step(c) ==
  /\ cpc[c] = "walk"
  /\ cause' = [cause EXCEPT ![walk[c]] = FALSE]
  /\ walk' = [walk EXCEPT ![c] = next[walk[c]]]
  /\ cpc' = [cpc EXCEPT ![c] = IF walk'[c] = NULL THEN "done" ELSE "walk"]
  /\ UNCHANGED <<line, list, calls>>

handle_irq_step(c) ==
  \/ handle_simple_irq(c) \/ handle_simple_end(c)
  \/ handle_level_irq(c) \/ handle_level_end(c)
  \/ handle_fasteoi_irq(c) \/ handle_fasteoi_end(c)
  \/ handle_fasteoi_ack_irq(c) \/ handle_fasteoi_ack_end(c)
  \/ handle_fasteoi_mask_irq(c) \/ handle_fasteoi_mask_end(c)
  \/ handle_edge_irq(c) \/ handle_edge_end(c)
  \/ handle_edge_eoi_irq(c) \/ handle_edge_eoi_end(c)
  \/ walk_start(c) \/ walk_step(c)

(* The device reports something, once its driver has installed the handler *)
(* and until the driver silences it before free_irq().                     *)
Raise(d) ==
  /\ act[d] = "linked" /\ ~(pc[Driver[d]] = "free" /\ arg[Driver[d]] = d) /\ ~cause[d]
  /\ cause' = [cause EXCEPT ![d] = TRUE]
  /\ desc' = [desc EXCEPT !.latched = desc.type = "edge"]
  /\ UNCHANGED <<conf, list, flow, calls>>

\* The controller delivers the interrupt to a CPU, which calls desc->handle_irq().
Asserted == IF desc.type = "level" THEN \E d \in Dev : cause[d] ELSE desc.latched
Deliver(c) ==
  /\ cpc[c] = "idle" /\ desc.enabled /\ ~desc.active /\ Asserted
  /\ desc' = [desc EXCEPT !.active = conf.holds,
                          !.latched = @ /\ conf.handle_irq \in {"level", "edge", "fasteoi_ack"}]
  /\ cpc' = [cpc EXCEPT ![c] = "flow"]
  /\ UNCHANGED <<conf, list, cause, walk, calls>>

----------------------------------------------------------------------------
(* request_irq() and free_irq().                                           *)

At(t, l) == pc[t] = l
Goto(t, l) == pc' = [pc EXCEPT ![t] = l]
Status(d, x) == act' = [act EXCEPT ![d] = x]

request_threaded_irq(t, d) ==
  /\ At(t, "idle") /\ Driver[d] = t /\ act[d] = "none"
  /\ Goto(t, "setup") /\ arg' = [arg EXCEPT ![t] = d] /\ Status(d, "new")
  /\ UNCHANGED <<line, action, next, resources, cause, flow, off, quiet>>

\* __setup_irq(): the first action requests the resources; the look at desc->action
\* is outside desc->lock.
setup_resources(t) ==
  /\ At(t, "setup")
  /\ \/ action = NULL /\ resources' = resources + 1 /\ Goto(t, "install") /\ UNCHANGED act
     \/ action = NULL /\ Goto(t, "idle") /\ Status(arg[t], "none") /\ UNCHANGED resources
     \/ action # NULL /\ Goto(t, "install") /\ UNCHANGED <<act, resources>>
  /\ UNCHANGED <<line, action, next, cause, flow, arg, off, quiet>>

TriggerOf(d) == IF conf.flags[d].trigger = "none" THEN desc.type ELSE conf.flags[d].trigger

\* Lines are not per-CPU: all actions agree that IRQF_PERCPU is not set.
CanShare(d) ==
  /\ conf.flags[action].shared /\ conf.flags[d].shared
  /\ desc.type = TriggerOf(d)
  /\ conf.flags[action].oneshot = conf.flags[d].oneshot

append(d) ==
  /\ action' = IF action = NULL THEN d ELSE action
  /\ next' = [e \in Dev |-> IF e = d THEN NULL
                            ELSE IF act[e] = "linked" /\ next[e] = NULL THEN d ELSE next[e]]

\* What __setup_irq() makes of the line for its first action.
first_setup(s, d) ==
  LET u == [__irq_set_trigger(s, TriggerOf(d)) EXCEPT !.inprogress = FALSE,
                                                      !.oneshot = conf.flags[d].oneshot]
  IN  IF conf.noautoen THEN [u EXCEPT !.depth = 1] ELSE irq_startup(u)

\* A thread_mask without a free bit is the one failure left out: it takes as many
\* oneshot actions on the line as a long has bits.
setup_install(t) ==
  /\ At(t, "install")
  /\ \/ /\ action = NULL
        /\ desc' = first_setup(desc, arg[t])
        /\ off' = [u \in Task |-> IF u = t /\ conf.noautoen THEN 1 ELSE 0]
        /\ quiet' = [u \in Task |-> FALSE]
        /\ append(arg[t]) /\ Status(arg[t], "linked") /\ Goto(t, "idle")
     \/ /\ action # NULL /\ CanShare(arg[t])
        /\ append(arg[t]) /\ Status(arg[t], "linked") /\ Goto(t, "idle")
        /\ UNCHANGED <<desc, off, quiet>>
     \/ /\ action # NULL /\ ~CanShare(arg[t])      \* mismatch
        /\ Goto(t, "undo") /\ UNCHANGED <<desc, action, next, act, off, quiet>>
     \/ /\ action # NULL => CanShare(arg[t])       \* requested with handler = NULL
        /\ ~conf.flags[arg[t]].oneshot
        /\ Goto(t, "undo") /\ UNCHANGED <<desc, action, next, act, off, quiet>>
     \/ /\ action = NULL             \* chip->irq_set_type() or irq_activate() fails
        /\ \E y \in {desc.type, TriggerOf(arg[t])} : desc' = __irq_set_trigger(desc, y)
        /\ Goto(t, "undo") /\ UNCHANGED <<action, next, act, off, quiet>>
  /\ UNCHANGED <<conf, resources, cause, flow, arg>>

\* Mutants: the resources are never released; or always.
release_never == resources' = resources
release_always == resources' = resources - 1
\* irq_release_resources() unless there is an action, looked at outside desc->lock.
release == resources' = IF action = NULL THEN resources - 1 ELSE resources

setup_undo(t) ==
  /\ At(t, "undo") /\ release
  /\ Goto(t, "idle") /\ Status(arg[t], "none")
  /\ UNCHANGED <<line, action, next, cause, flow, arg, off, quiet>>

\* The driver silences its device and calls free_irq().
free_irq(t, d) ==
  /\ At(t, "idle") /\ Driver[d] = t /\ act[d] = "linked"
  /\ cause' = [cause EXCEPT ![d] = FALSE]
  /\ Goto(t, "free") /\ arg' = [arg EXCEPT ![t] = d]
  /\ UNCHANGED <<line, list, flow, off, quiet>>

unlink(d) ==
  /\ action' = IF action = d THEN next[d] ELSE action
  /\ next' = [e \in Dev |-> IF e # d /\ act[e] = "linked" /\ next[e] = d
                              THEN next[d] ELSE next[e]]

__free_irq(t) ==
  /\ At(t, "free")
  /\ unlink(arg[t]) /\ Status(arg[t], "unlinked")
  /\ \/ /\ action' = NULL
        /\ desc' = irq_shutdown([desc EXCEPT !.unlazy = FALSE])
        /\ off' = [u \in Task |-> 0] /\ quiet' = [u \in Task |-> FALSE]
     \/ action' # NULL /\ UNCHANGED <<desc, off, quiet>>
  /\ Goto(t, "free_sync")
  /\ UNCHANGED <<conf, resources, cause, flow, arg>>

\* Mutants: the wait does not wait; or it waits for the line to be masked, too.
synchronize_hardirq_never(t) == TRUE
synchronize_hardirq_masked(t) == ~desc.inprogress /\ desc.masked
\* synchronize_hardirq() returns when it finds IRQD_IRQ_INPROGRESS clear.
synchronize_hardirq(t) == ~desc.inprogress

free_wait(t) ==
  /\ At(t, "free_sync") /\ synchronize_hardirq(t)
  /\ Goto(t, "release")
  /\ UNCHANGED <<line, list, cause, flow, arg, off, quiet>>

\* The last action releases the resources; then the irqaction is freed.
free_release(t) ==
  /\ At(t, "release") /\ release
  /\ Status(arg[t], "none") /\ Goto(t, "idle")
  /\ UNCHANGED <<line, action, next, cause, flow, arg, off, quiet>>

----------------------------------------------------------------------------
(* disable_irq(), enable_irq(), irq_set_irq_type().                        *)

disable_irq_nosync(t) ==
  /\ At(t, "idle") /\ off[t] < conf.maxoff
  /\ desc' = __disable_irq(desc) /\ off' = [off EXCEPT ![t] = @ + 1]
  /\ UNCHANGED <<conf, list, cause, flow, pc, arg, quiet>>

disable_irq(t) ==
  /\ At(t, "idle") /\ off[t] < conf.maxoff
  /\ desc' = __disable_irq(desc) /\ off' = [off EXCEPT ![t] = @ + 1]
  /\ Goto(t, "disable_sync")
  /\ UNCHANGED <<conf, list, cause, flow, arg, quiet>>

\* A shutdown or restart of the line since the call has undone the disable (off[t] = 0).
disable_wait(t) ==
  /\ At(t, "disable_sync") /\ synchronize_hardirq(t)
  /\ Goto(t, "idle") /\ quiet' = [quiet EXCEPT ![t] = off[t] > 0]
  /\ UNCHANGED <<line, list, cause, flow, arg, off>>

enable_irq(t) ==
  /\ At(t, "idle") /\ off[t] > 0
  /\ desc' = __enable_irq(desc) /\ off' = [off EXCEPT ![t] = @ - 1]
  /\ quiet' = [quiet EXCEPT ![t] = @ /\ off[t] > 1]
  /\ UNCHANGED <<conf, list, cause, flow, pc, arg>>

\* The type asked for; or, when chip->irq_set_type() fails, the old one.
irq_set_irq_type(t) ==
  /\ At(t, "idle")
  /\ \E y \in conf.types \cup {desc.type} : desc' = __irq_set_trigger(desc, y)
  /\ UNCHANGED <<conf, list, cause, flow, calls>>

----------------------------------------------------------------------------
\* desc_set_defaults(), and a flow handler chosen by the irq domain.
Init ==
  /\ conf \in Lines
  /\ desc = [depth |-> 1, disabled |-> TRUE, masked |-> TRUE, started |-> FALSE,
             inprogress |-> FALSE, pending |-> FALSE, oneshot |-> FALSE,
             unlazy |-> conf.unlazy, type |-> conf.type,
             enabled |-> FALSE, active |-> FALSE, latched |-> FALSE]
  /\ action = NULL /\ next = [d \in Dev |-> NULL] /\ act = [d \in Dev |-> "none"]
  /\ resources = 0 /\ cause = [d \in Dev |-> FALSE]
  /\ cpc = [c \in CPU |-> "idle"] /\ walk = [c \in CPU |-> NULL]
  /\ pc = [t \in Task |-> "idle"] /\ arg = [t \in Task |-> NULL]
  /\ off = [t \in Task |-> 0] /\ quiet = [t \in Task |-> FALSE]

\* Steps inside a driver call, and calls.
InCall(t) ==
  \/ setup_resources(t) \/ setup_install(t) \/ setup_undo(t)
  \/ __free_irq(t) \/ free_wait(t) \/ free_release(t) \/ disable_wait(t)
Call(t) ==
  \/ \E d \in Dev : request_threaded_irq(t, d) \/ free_irq(t, d)
  \/ disable_irq_nosync(t) \/ disable_irq(t) \/ enable_irq(t) \/ irq_set_irq_type(t)

Next ==
  \/ \E c \in CPU : Deliver(c) \/ handle_irq_step(c)
  \/ \E d \in Dev : Raise(d)
  \/ \E t \in Task : InCall(t) \/ Call(t)

Spec == Init /\ [][Next]_vars

\* Processors execute; the controller delivers what it may deliver.
FairSpec ==
  /\ Spec
  /\ \A c \in CPU : WF_vars(handle_irq_step(c))
  /\ WF_vars(\E c \in CPU : Deliver(c))
  /\ \A t \in Task : WF_vars(InCall(t))

----------------------------------------------------------------------------
\* Every variable keeps its type.
TypeOK ==
  /\ desc \in Desc /\ conf \in Lines
  /\ action \in Dev \cup {NULL} /\ next \in [Dev -> Dev \cup {NULL}]
  /\ act \in [Dev -> {"none", "new", "linked", "unlinked"}]
  /\ resources \in Nat /\ cause \in [Dev -> BOOLEAN]
  /\ cpc \in [CPU -> {"idle", "flow", "event", "walk", "done"}]
  /\ walk \in [CPU -> Dev \cup {NULL}]
  /\ pc \in [Task -> {"idle", "setup", "install", "undo", "free", "free_sync", "release",
                      "disable_sync"}]
  /\ arg \in [Task -> Dev \cup {NULL}]
  /\ off \in [Task -> Nat] /\ quiet \in [Task -> BOOLEAN]

(* A CPU in __handle_irq_event_percpu() never holds a pointer to an        *)
(* irqaction that free_irq() has freed: free_irq() "does not return until  *)
(* any executing interrupts for this IRQ have completed".                  *)
ActionAlive == \A c \in CPU : cpc[c] = "walk" => act[walk[c]] \in {"linked", "unlinked"}

(* IRQD_IRQ_INPROGRESS keeps the handlers of a line from running on two    *)
(* CPUs at once, whatever the flow handler.                                *)
HandlersExclusive == \A c, e \in CPU : InHandler(c) /\ InHandler(e) => c = e

(* Between the return of disable_irq() and the enable_irq() that undoes it *)
(* no CPU runs a handler of the line.                                      *)
DisabledQuiet == \A t \in Task : quiet[t] => \A c \in CPU : ~InHandler(c)

(* A line that is enabled, has an action and is in no flow handler is not  *)
(* masked at the controller: no path through the flow handlers, a disable  *)
(* or a change of type leaves it dead.  Not so under                       *)
(* handle_fasteoi_mask_irq() with actions that are not oneshot: it masks   *)
(* the line, and only oneshot lines are unmasked at its end.               *)
LineOpen ==
  (\A c \in CPU : cpc[c] = "idle") /\ action # NULL /\ ~desc.disabled => desc.enabled

(* As long as the line has an action, desc->depth is the number of the     *)
(* disables of all tasks that have not been undone, neither more nor less  *)
(* (the one of IRQ_NOAUTOEN among them), and the line is disabled exactly  *)
(* while there is one.                                                     *)
DepthCounts ==
  action # NULL =>
    /\ desc.depth = SumFunction(off)
    /\ desc.disabled = (desc.depth > 0)

(* When no request or free of an action is under way, the resources of the *)
(* chip are held once if the line has an action, and not at all if it has  *)
(* none: a request that fails gives back what it took, and only that.      *)
ResourcesBalanced ==
  (\A t \in Task : pc[t] \in {"idle", "disable_sync"}) =>
    resources = IF action = NULL THEN 0 ELSE 1

(* What a device reports is handled, if from some time on its action stays *)
(* installed and the line enabled.  Not so for an edge that comes while    *)
(* the line is disabled: irq_startup() calls check_irq_resend(), which is  *)
(* empty in this kernel.                                                   *)
EventHandled ==
  \A d \in Dev : <>[](act[d] = "linked" /\ ~desc.disabled) => []<>~cause[d]

(* A driver call that waits for the handlers of the line returns, unless   *)
(* the devices keep the flow handler in its loop by reporting for ever.    *)
CallsReturn ==
  <>[][\A d \in Dev : ~ Raise(d)]_vars =>
    \A t \in Task : (pc[t] # "idle") ~> (pc[t] = "idle")
=============================================================================
