------------------------------ MODULE MCIrqDesc ------------------------------
(***************************************************************************)
(* Instances of IrqDesc for TLC.                                           *)
(***************************************************************************)
EXTENDS IrqDesc, TLC

CONSTANTS c1, c2, t1, t2, d1, d2

\* The CPUs are interchangeable: no invariant tells one from another.
Symmetry == Permutations(CPU)

\* One task drives both devices; or each device has its driver.
OneDriver == [d \in Dev |-> t1]
TwoDrivers == [d \in Dev |-> IF d = d1 THEN t1 ELSE t2]

Shared(o) == [shared |-> TRUE, oneshot |-> o, trigger |-> "none"]
SharedFlags == [d \in Dev |-> Shared(FALSE)]
OneshotFlags == [d \in Dev |-> [Shared(TRUE) EXCEPT !.shared = FALSE]]
\* The second device disagrees on the trigger type of an edge line.
MixedFlags == [d \in Dev |-> IF d = d1 THEN Shared(FALSE)
                             ELSE [Shared(FALSE) EXCEPT !.trigger = "level"]]

\* The lines <<flow handler, trigger, holds>> there are in practice.
LevelKinds == {<<"fasteoi", "level", TRUE>>} \cup {"level"} \X {"level"} \X BOOLEAN
EdgeKinds == {"fasteoi", "fasteoi_ack", "simple"} \X {"edge"} \X {TRUE}
               \cup {"edge", "edge_eoi"} \X {"edge"} \X BOOLEAN
GicKinds == {"fasteoi"} \X Trigger \X {TRUE}
MaskKinds == {"fasteoi_mask"} \X {"level"} \X BOOLEAN
OddKinds == {"fasteoi"} \X Trigger \X {FALSE} \cup {<<"simple", "edge", FALSE>>}

LinesOf(kinds, flags, lazy, noautoen, maxoff) ==
  {[handle_irq |-> k[1], type |-> k[2], types |-> {k[2]}, holds |-> k[3], flags |-> flags,
    unlazy |-> u, noautoen |-> noautoen, maxoff |-> maxoff] : k \in kinds, u \in lazy}

\* handle_fasteoi_irq() is the flow handler for both types: such a line may be of
\* either type at any time, whatever type it has at the start.
Retyped(lines) ==
  {IF l.handle_irq = "fasteoi" THEN [l EXCEPT !.type = "edge", !.types = Trigger] ELSE l : l \in lines}

\* Every flow handler; lines whose disable masks at once; and oneshot lines that the
\* driver has to enable.  handle_fasteoi_mask_irq() has oneshot lines only.
AllLines == Retyped(
            LinesOf(LevelKinds \cup EdgeKinds \cup OddKinds, MixedFlags, {FALSE}, FALSE, 1)
              \cup LinesOf(LevelKinds \cup {<<"edge", "edge", TRUE>>}, MixedFlags, {TRUE}, FALSE, 1)
              \cup LinesOf(GicKinds \cup MaskKinds, OneshotFlags, {FALSE}, TRUE, 1))
\* Level lines that may be disabled, and edge lines that may not.
HandledLines == LinesOf(LevelKinds, SharedFlags, BOOLEAN, FALSE, 1)
                  \cup LinesOf(EdgeKinds, SharedFlags, {FALSE}, FALSE, 0)
\* Lines of the GIC that are never disabled.
GicLines == LinesOf(GicKinds, SharedFlags, {FALSE}, FALSE, 0)
=============================================================================
