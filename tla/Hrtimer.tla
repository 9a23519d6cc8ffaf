------------------------------- MODULE Hrtimer -------------------------------
(***************************************************************************)
(* High-resolution timers (kernel/time/hrtimer.c) on a oneshot clock event *)
(* device per CPU (clockevents.c, tick-oneshot.c, arm_arch_timer.c).       *)
(*                                                                         *)
(* All times are relative to now, so Tick makes every one of them smaller. *)
(* Everything done under a base lock is one step, except in the interrupt, *)
(* whose stores are seen by the lock-free hrtimer_active().                *)
(***************************************************************************)
EXTENDS Integers, Sequences, SequencesExt

CONSTANTS CPU, Clock, Timer, Task, NULL,
          Periodic,  \* the timers that hrtimer_forward() themselves
          Slack,     \* Slack[t] : expires minus _softexpires
          Delays,    \* the delays timers are started with
          Interval,  \* of the periodic timers
          MaxDelta,  \* the longest delay of the device
          MaxHang,   \* bound: 100 ms, the longest delay after a hang
          MaxLate,   \* bound: how long an interrupt may be pending
          Confs      \* the values of conf

MinDelta == 1
KTIME_MAX == 1000
Base == CPU \X Clock

ASSUME HrtimerAssumption ==
  /\ NULL \notin Timer \cup CPU \cup Task /\ Clock \subseteq Nat
  /\ Confs \subseteq [base : [Timer -> Base], owner : [Timer -> Task \cup {NULL}],
                      remote : BOOLEAN, maxrun : 1 .. KTIME_MAX - 1]
  /\ Slack \in [Timer -> Nat]
  /\ Periodic \subseteq Timer /\ Delays \subseteq Nat
  /\ MaxLate \in Nat /\ {Interval, MaxDelta, MaxHang} \subseteq 1 .. KTIME_MAX - 1

VARIABLES
  queued,    \* timer->state
  expires,   \* timer->node.expires
  active,    \* active[b] : the timerqueue of a clock base
  running,   \* base->running
  cpu_base,  \* the scalars of hrtimer_cpu_base
  dev,       \* when the device of the CPU interrupts; KTIME_MAX when masked
  ipc,       \* where the timer interrupt of the CPU is
  irq,       \* its local variables
  pc, arg,   \* where a task is, and the timer it cancels
  on,        \* the CPU it runs on
  stale,     \* base->seq changed since the task read it
  conf,      \* what does not change: base[t], timer->base as <<cpu, clock>>; owner[t], the task
             \* that starts and cancels t; remote, whether tasks start timers of other CPUs;
             \* and the bound on how long an interrupt runs
  armed      \* history: started by the owner, and not cancelled since

timers == <<queued, expires, active, cpu_base, dev>>
intr == <<ipc, irq, running>>
tasks == <<pc, arg, on, stale>>
vars == <<timers, intr, tasks, conf, armed>>

CpuBase == [lock : BOOLEAN,          \* held by the interrupt of the CPU
            in_hrtirq : BOOLEAN, hang_detected : BOOLEAN, expires_next : Int,
            next_timer : Timer \cup {NULL}, active_bases : SUBSET Clock]
Irq == [now : Int, entry : Int, retries : 0 .. 3, todo : SUBSET Clock, restart : BOOLEAN]
IrqPcs == {"idle", "run", "mark", "remove", "callback", "post", "post_mark", "clear", "program",
           "hang"}
Pcs == {"idle", "state", "running", "retry", "lock"}

Lesser(a, b) == IF a < b THEN a ELSE b
Greater(a, b) == IF a < b THEN b ELSE a
BaseOf == conf.base
cpu_of(t) == BaseOf[t][1]
irq_idle == [now |-> 0, entry |-> 0, retries |-> 0, todo |-> {}, restart |-> FALSE]
-----------------------------------------------------------------------------
(* The timer queue and the device, as functions of a record of the         *)
(* variables that they change: q (queued), e (expires), a (active),        *)
(* cb (cpu_base) and d (dev).                                              *)

now_state == [q |-> queued, e |-> expires, a |-> active, cb |-> cpu_base, d |-> dev]
Store(s) ==
  queued' = s.q /\ expires' = s.e /\ active' = s.a /\ cpu_base' = s.cb /\ dev' = s.d

\* Mutant: in the order of the calls.
timerqueue_add_tail(q, t, e) == Append(q, t)
\* timerqueue_add(): behind the timers that expire at the same time.
timerqueue_add(q, t, e) ==
  LET before == SelectSeq(q, LAMBDA u : e[u] <= e[t])
  IN  before \o <<t>> \o SelectSeq(q, LAMBDA u : e[u] > e[t])

enqueue_hrtimer(s, t) ==
  LET b == BaseOf[t] IN
  [s EXCEPT !.cb[b[1]].active_bases = @ \cup {b[2]}, !.q[t] = TRUE,
            !.a[b] = timerqueue_add(@, t, s.e)]

\* The first timer of a CPU, of the lowest clock when two expire together.
first_timers(s, c) == {Head(s.a[<<c, k>>]) : k \in s.cb[c].active_bases}
next_timer(s, c) ==
  IF s.cb[c].active_bases = {} THEN NULL
  ELSE CHOOSE t \in first_timers(s, c) : \A u \in first_timers(s, c) :
         s.e[t] < s.e[u] \/ (s.e[t] = s.e[u] /\ BaseOf[t][2] <= BaseOf[u][2])
hrtimer_get_next_event(s, c) ==
  LET t == next_timer(s, c) IN IF t = NULL THEN KTIME_MAX ELSE s.e[t]

\* tick_program_event() can program the time, or force a short delay.
Programs(x, force) == x = KTIME_MAX \/ x > 0 \/ force
\* KTIME_MAX would stop a device in oneshot state. The state is never set to
\* oneshot here, clockevents_switch_state() fails, and the device goes on.
tick_program_event(s, c, x) ==
  IF x = KTIME_MAX THEN s
  ELSE [s EXCEPT !.d[c] = Greater(Lesser(x, MaxDelta), MinDelta)]

hrtimer_force_reprogram(s, c) ==
  LET x == hrtimer_get_next_event(s, c)
      s1 == [s EXCEPT !.cb[c].next_timer = next_timer(s, c)]
      s2 == [s1 EXCEPT !.cb[c].expires_next = x]
  IN  IF x = s.cb[c].expires_next THEN s1
      ELSE IF s.cb[c].hang_detected THEN s2 ELSE tick_program_event(s2, c, x)

\* Mutant: also for a timer that is not the first of the CPU.
hrtimer_reprogram_any(s, t, c) ==
  LET s1 == [s EXCEPT !.cb[c].next_timer = t, !.cb[c].expires_next = s.e[t]]
  IN  IF cpu_of(t) # c \/ s.cb[c].in_hrtirq THEN s
      ELSE IF s.cb[c].hang_detected THEN s1 ELSE tick_program_event(s1, c, s.e[t])
\* Mutant: the comparison with expires_next is the wrong way round.
hrtimer_reprogram_later(s, t, c) ==
  LET x == s.e[t]
      s1 == [s EXCEPT !.cb[c].next_timer = t, !.cb[c].expires_next = x]
  IN  IF cpu_of(t) # c \/ s.cb[c].in_hrtirq \/ x <= s.cb[c].expires_next THEN s
      ELSE IF s.cb[c].hang_detected THEN s1 ELSE tick_program_event(s1, c, x)
\* Called on CPU c.
hrtimer_reprogram(s, t, c) ==
  LET x == s.e[t]
      s1 == [s EXCEPT !.cb[c].next_timer = t, !.cb[c].expires_next = x]
  IN  IF cpu_of(t) # c \/ s.cb[c].in_hrtirq \/ x >= s.cb[c].expires_next THEN s
      ELSE IF s.cb[c].hang_detected THEN s1 ELSE tick_program_event(s1, c, x)

__remove_hrtimer(s, t, reprogram) ==
  LET b == BaseOf[t]
      s1 == [s EXCEPT !.q[t] = FALSE, !.a[b] = SelectSeq(@, LAMBDA u : u # t)]
      s2 == IF s1.a[b] = <<>> THEN [s1 EXCEPT !.cb[b[1]].active_bases = @ \ {b[2]}] ELSE s1
  IN  IF ~s.q[t] THEN s
      ELSE IF reprogram /\ t = s.cb[b[1]].next_timer
           THEN hrtimer_force_reprogram(s2, b[1]) ELSE s2

remove_hrtimer(s, t, c) == __remove_hrtimer(s, t, cpu_of(t) = c)

\* hrtimer_start_range_ns() on CPU c: the timer expires d from now.
hrtimer_start(s, t, c, d) ==
  LET s1 == remove_hrtimer(s, t, c)
      s2 == enqueue_hrtimer([s1 EXCEPT !.e[t] = d + Slack[t]], t)
  IN  IF Head(s2.a[BaseOf[t]]) = t THEN hrtimer_reprogram(s2, t, c) ELSE s2
-----------------------------------------------------------------------------
(* hrtimer_interrupt().                                                    *)

Goto(c, l) == ipc' = [ipc EXCEPT ![c] = l]
lock(c, v) == cpu_base' = [cpu_base EXCEPT ![c].lock = v]
\* The base and the timer the interrupt is at.
base_at(c) == <<c, CHOOSE k \in irq[c].todo : \A l \in irq[c].todo : k <= l>>
at(c) == running[base_at(c)]
CallsFinished == UNCHANGED <<tasks, conf, armed>>

\* retry: everything starts again with the active bases of this moment.
round(c, r, d) ==
  /\ irq' = [irq EXCEPT ![c] = [r EXCEPT !.now = 0, !.todo = cpu_base[c].active_bases]]
  /\ cpu_base' = [cpu_base EXCEPT ![c].lock = TRUE, ![c].in_hrtirq = TRUE,
                                  ![c].expires_next = KTIME_MAX]
  /\ dev' = d
  /\ Goto(c, "run")
  /\ UNCHANGED <<queued, expires, active, running>>

\* timer_handler() of the device masks it first.
hrtimer_interrupt(c) ==
  /\ ipc[c] = "idle" /\ dev[c] <= 0
  /\ round(c, irq_idle, [dev EXCEPT ![c] = KTIME_MAX])
  /\ CallsFinished

\* The bases __hrtimer_run_queues() has yet to visit that have a timer to run.
Expired(c) ==
  {k \in irq[c].todo : LET q == active[<<c, k>>] IN
                         q # <<>> /\ expires[Head(q)] - Slack[Head(q)] <= irq[c].now}

\* It skips the bases that have none.
run_hrtimer(c) ==
  \E k \in Expired(c) :
    /\ ipc[c] = "run" /\ \A l \in Expired(c) : k <= l
    /\ irq' = [irq EXCEPT ![c].todo = {l \in @ : k <= l}]
    /\ running' = [running EXCEPT ![<<c, k>>] = Head(active[<<c, k>>])]
    /\ Goto(c, "mark")
    /\ UNCHANGED timers /\ CallsFinished

\* Mutant: without the sequence count.
seqcount_barrier_none(c) ==
  /\ ipc[c] \in {"mark", "post_mark"}
  /\ Goto(c, IF ipc[c] = "mark" THEN "remove" ELSE "clear")
  /\ UNCHANGED <<timers, irq, running>> /\ CallsFinished
\* raw_write_seqcount_barrier(), before and after the callback.
seqcount_barrier(c) ==
  /\ ipc[c] \in {"mark", "post_mark"}
  /\ stale' = [p \in Task |-> stale[p] \/ (pc[p] # "idle" /\ BaseOf[arg[p]] = base_at(c))]
  /\ Goto(c, IF ipc[c] = "mark" THEN "remove" ELSE "clear")
  /\ UNCHANGED <<timers, irq, running, pc, arg, on, conf, armed>>

run_remove(c) ==
  /\ ipc[c] = "remove"
  /\ Store([__remove_hrtimer(now_state, at(c), FALSE) EXCEPT !.cb[c].lock = FALSE])
  /\ Goto(c, "callback")
  /\ UNCHANGED <<irq, running>> /\ CallsFinished

fn_returns(c, restart) ==
  /\ irq' = [irq EXCEPT ![c].restart = restart]
  /\ Goto(c, "post")
  /\ UNCHANGED running /\ CallsFinished

\* The callback of a periodic timer moves the expiry past now.
hrtimer_forward(c) ==
  LET t == at(c)  late == -expires[t] IN
  /\ ipc[c] = "callback" /\ t \in Periodic
  /\ expires' = IF late < 0 \/ queued[t] THEN expires
                ELSE [expires EXCEPT ![t] = @ + Interval * (late \div Interval + 1)]
  /\ UNCHANGED <<queued, active, cpu_base, dev>>
  /\ fn_returns(c, TRUE)

\* Another callback does nothing, or starts its timer again.
callback(c) ==
  /\ ipc[c] = "callback" /\ at(c) \notin Periodic
  /\ \/ UNCHANGED timers /\ fn_returns(c, FALSE)
     \/ \E d \in Delays, restart \in BOOLEAN :
          Store(hrtimer_start(now_state, at(c), c, d)) /\ fn_returns(c, restart)

run_enqueue(c) ==
  LET s == IF irq[c].restart /\ ~queued[at(c)] THEN enqueue_hrtimer(now_state, at(c))
           ELSE now_state IN
  /\ ipc[c] = "post"
  /\ Store([s EXCEPT !.cb[c].lock = TRUE])
  /\ Goto(c, "post_mark")
  /\ UNCHANGED <<irq, running>> /\ CallsFinished

run_clear(c) ==
  /\ ipc[c] = "clear"
  /\ running' = [running EXCEPT ![base_at(c)] = NULL]
  /\ Goto(c, "run")
  /\ UNCHANGED <<timers, irq>> /\ CallsFinished

queues_done(c) ==
  /\ ipc[c] = "run" /\ Expired(c) = {}
  /\ cpu_base' = [cpu_base EXCEPT ![c].lock = FALSE, ![c].in_hrtirq = FALSE,
                    ![c].next_timer = next_timer(now_state, c),
                    ![c].expires_next = hrtimer_get_next_event(now_state, c)]
  /\ Goto(c, "program")
  /\ UNCHANGED <<queued, expires, active, dev, irq, running>> /\ CallsFinished

\* tick_program_event(expires_next, 0), outside the lock.
program(c) ==
  LET x == cpu_base[c].expires_next IN
  /\ ipc[c] = "program" /\ Programs(x, FALSE)
  /\ Store([tick_program_event(now_state, c, x) EXCEPT !.cb[c].hang_detected = FALSE])
  /\ irq' = [irq EXCEPT ![c] = irq_idle]
  /\ Goto(c, "idle")
  /\ UNCHANGED running /\ CallsFinished

retry(c) ==
  /\ ipc[c] = "program" /\ ~Programs(cpu_base[c].expires_next, FALSE)
  /\ irq[c].retries < 2
  /\ round(c, [irq[c] EXCEPT !.retries = @ + 1], dev)
  /\ CallsFinished

\* Three rounds were not enough.
hang(c) ==
  /\ ipc[c] = "program" /\ ~Programs(cpu_base[c].expires_next, FALSE)
  /\ irq[c].retries = 2
  /\ irq' = [irq EXCEPT ![c].now = 0, ![c].retries = 3]
  /\ cpu_base' = [cpu_base EXCEPT ![c].hang_detected = TRUE]
  /\ Goto(c, "hang")
  /\ UNCHANGED <<queued, expires, active, dev, running>> /\ CallsFinished

hang_program(c) ==
  LET x == irq[c].now + Lesser(irq[c].now - irq[c].entry, MaxHang) IN
  /\ ipc[c] = "hang"
  /\ Store(tick_program_event(now_state, c, x))
  /\ irq' = [irq EXCEPT ![c] = irq_idle]
  /\ Goto(c, "idle")
  /\ UNCHANGED running /\ CallsFinished
-----------------------------------------------------------------------------
(* The tasks. A task moves only while its CPU is not in the interrupt.     *)

free(t) == ~cpu_base[cpu_of(t)].lock
At(p, l) == pc[p] = l /\ ipc[on[p]] = "idle"
Step(p, l) == pc' = [pc EXCEPT ![p] = l]
Return(p, a) ==
  /\ Step(p, "idle")
  /\ arg' = [arg EXCEPT ![p] = NULL] /\ on' = [on EXCEPT ![p] = NULL]
  /\ stale' = [stale EXCEPT ![p] = FALSE]
  /\ armed' = a

\* A periodic timer is started again only after it has been cancelled, as
\* hrtimer_forward() asks.
hrtimer_start_range_ns(p, t, c, d) ==
  /\ pc[p] = "idle" /\ ipc[c] = "idle" /\ conf.owner[t] = p /\ free(t)
  /\ conf.remote \/ c = cpu_of(t)
  /\ t \in Periodic => ~armed[t]
  /\ Store(hrtimer_start(now_state, t, c, d))
  /\ armed' = [armed EXCEPT ![t] = TRUE]
  /\ UNCHANGED <<intr, tasks, conf>>

\* hrtimer_active() reads base->seq, the state, the running timer and the
\* sequence count again. The first read is part of the step before it.
read_seq(p) == Step(p, "state") /\ stale' = [stale EXCEPT ![p] = FALSE]

hrtimer_cancel(p, t, c) ==
  /\ pc[p] = "idle" /\ ipc[c] = "idle" /\ conf.owner[t] = p
  /\ read_seq(p)
  /\ arg' = [arg EXCEPT ![p] = t]
  /\ on' = [on EXCEPT ![p] = c]
  /\ UNCHANGED <<timers, intr, conf, armed>>

active_state(p) ==
  /\ At(p, "state")
  /\ Step(p, IF queued[arg[p]] THEN "lock" ELSE "running")
  /\ UNCHANGED <<timers, intr, arg, on, stale, conf, armed>>

active_running(p) ==
  /\ At(p, "running")
  /\ Step(p, IF running[BaseOf[arg[p]]] = arg[p] THEN "lock" ELSE "retry")
  /\ UNCHANGED <<timers, intr, arg, on, stale, conf, armed>>

active_again(p) ==
  /\ At(p, "retry") /\ stale[p]
  /\ read_seq(p)
  /\ UNCHANGED <<timers, intr, arg, on, conf, armed>>

\* hrtimer_try_to_cancel() returns 0 without the lock.
cancel_inactive(p) ==
  /\ At(p, "retry") /\ ~stale[p]
  /\ Return(p, [armed EXCEPT ![arg[p]] = FALSE])
  /\ UNCHANGED <<timers, intr, conf>>

\* The callback runs: hrtimer_cancel() tries again, hrtimer_try_to_cancel()
\* returns -1.
cancel_running(p) ==
  /\ At(p, "lock") /\ free(arg[p]) /\ running[BaseOf[arg[p]]] = arg[p]
  /\ \/ read_seq(p) /\ UNCHANGED <<arg, on, armed>>
     \/ Return(p, armed)
  /\ UNCHANGED <<timers, intr, conf>>

cancel_remove(p) ==
  /\ At(p, "lock") /\ free(arg[p]) /\ running[BaseOf[arg[p]]] # arg[p]
  /\ Store(remove_hrtimer(now_state, arg[p], on[p]))
  /\ Return(p, [armed EXCEPT ![arg[p]] = FALSE])
  /\ UNCHANGED <<intr, conf>>
-----------------------------------------------------------------------------
Live(t) == queued[t] \/ running[BaseOf[t]] = t

\* Times before an interrupt that is still running began are not told apart.
LongAgo == -conf.maxrun - 1
Age(x) == IF x = KTIME_MAX THEN x ELSE Greater(x - 1, LongAgo)

\* Time passes. The bounds say how long interrupts are off and how long they
\* take. Nothing reads the clock while the interrupt holds the base lock: the
\* time that takes passes before or after.
Tick ==
  /\ \A c \in CPU : ~cpu_base[c].lock
  /\ \A c \in CPU : IF ipc[c] = "idle" THEN dev[c] > -MaxLate ELSE irq[c].entry > -conf.maxrun
  /\ expires' = [t \in Timer |-> Age(expires[t])]
  /\ dev' = [c \in CPU |-> Age(dev[c])]
  /\ cpu_base' = [c \in CPU |-> [cpu_base[c] EXCEPT !.expires_next = Age(@)]]
  /\ irq' = [c \in CPU |-> IF ipc[c] = "idle" THEN irq[c]
                           ELSE [irq[c] EXCEPT !.now = Age(@), !.entry = Age(@)]]
  /\ UNCHANGED <<queued, active, ipc, running, tasks, conf, armed>>

IrqStep(c) ==
  \/ run_hrtimer(c) \/ seqcount_barrier(c) \/ run_remove(c)
  \/ hrtimer_forward(c) \/ callback(c) \/ run_enqueue(c) \/ run_clear(c) \/ queues_done(c)
  \/ program(c) \/ retry(c) \/ hang(c) \/ hang_program(c)
TaskStep(p) ==
  \/ active_state(p) \/ active_running(p) \/ active_again(p)
  \/ cancel_inactive(p) \/ cancel_running(p) \/ cancel_remove(p)

Init ==
  /\ conf \in Confs
  /\ queued = [t \in Timer |-> FALSE]
  /\ expires = [t \in Timer |-> LongAgo]
  /\ active = [b \in Base |-> <<>>]
  /\ running = [b \in Base |-> NULL]
  /\ cpu_base = [c \in CPU |-> [lock |-> FALSE, in_hrtirq |-> FALSE, hang_detected |-> FALSE,
                                expires_next |-> KTIME_MAX, next_timer |-> NULL, active_bases |-> {}]]
  /\ dev = [c \in CPU |-> KTIME_MAX]
  /\ ipc = [c \in CPU |-> "idle"]
  /\ irq = [c \in CPU |-> irq_idle]
  /\ pc = [p \in Task |-> "idle"]
  /\ arg = [p \in Task |-> NULL]
  /\ on = [p \in Task |-> NULL]
  /\ stale = [p \in Task |-> FALSE]
  /\ armed = [t \in Timer |-> FALSE]

Next ==
  \/ Tick
  \/ \E c \in CPU : hrtimer_interrupt(c) \/ IrqStep(c)
  \/ \E p \in Task, t \in Timer, c \in CPU :
       hrtimer_cancel(p, t, c) \/ \E d \in Delays : hrtimer_start_range_ns(p, t, c, d)
  \/ \E p \in Task : TaskStep(p)

Spec == Init /\ [][Next]_vars
\* Time passes, interrupts are taken and handlers and calls go on.
FairSpec ==
  /\ Spec /\ WF_vars(Tick)
  /\ \A c \in CPU : WF_vars(hrtimer_interrupt(c) \/ IrqStep(c))
  /\ \A p \in Task : WF_vars(TaskStep(p))
-----------------------------------------------------------------------------
(* Types; and the queue of a base holds exactly the timers marked as       *)
(* enqueued on it, each once, in the order of their expiry, and the base   *)
(* is marked active exactly when its queue is not empty.                   *)
TypeOK ==
  /\ queued \in [Timer -> BOOLEAN] /\ expires \in [Timer -> Int]
  /\ running \in [Base -> Timer \cup {NULL}]
  /\ cpu_base \in [CPU -> CpuBase] /\ dev \in [CPU -> Int]
  /\ ipc \in [CPU -> IrqPcs] /\ irq \in [CPU -> Irq]
  /\ pc \in [Task -> Pcs] /\ arg \in [Task -> Timer \cup {NULL}] /\ on \in [Task -> CPU \cup {NULL}]
  /\ stale \in [Task -> BOOLEAN] /\ conf \in Confs /\ armed \in [Timer -> BOOLEAN]
  /\ \A b \in Base :
       /\ ToSet(active[b]) = {t \in Timer : queued[t] /\ BaseOf[t] = b}
       /\ IsInjective(active[b])
       /\ \A i \in 1 .. Len(active[b]) - 1 : expires[active[b][i]] <= expires[active[b][i + 1]]
       /\ b[2] \in cpu_base[b[1]].active_bases <=> active[b] # <<>>

(* Once hrtimer_cancel() has returned the timer is neither queued nor is   *)
(* its callback running, until it is started again: hrtimer_active() has   *)
(* no false negative.                                                      *)
CancelQuiet == \A t \in Timer : ~armed[t] => ~Live(t)

(* Outside the interrupt the device of a CPU is set to interrupt no later  *)
(* than its first timer expires, unless timers are started from other      *)
(* CPUs. After a hang it waits at most MaxHang.                            *)
NextEventArmed ==
  \A t \in Timer : ~conf.remote /\ queued[t] /\ ipc[cpu_of(t)] = "idle" =>
    dev[cpu_of(t)] <= Greater(expires[t], IF cpu_base[cpu_of(t)].hang_detected THEN MaxHang
                                          ELSE MinDelta)

(* A timer that has been started runs or is cancelled, unless it is        *)
(* started again with a later expiry for ever.                             *)
PutOff(t) == queued[t] /\ queued'[t] /\ expires'[t] > expires[t]
TimerRuns ==
  \A t \in Timer : <>[][~PutOff(t)]_vars => (~conf.remote /\ queued[t] ~> ~queued[t])
=============================================================================
