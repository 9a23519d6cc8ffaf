---------------------------- MODULE MCQSpinLock ----------------------------
(***************************************************************************)
(* Instances of QSpinLock for TLC.                                         *)
(***************************************************************************)
EXTENDS QSpinLock, TLC

CONSTANTS k0, k1

\* Nested: the tasks of both CPUs take k0; k1 is shared by the task of CPU 1
\* and an interrupt handler of CPU 0, which may interrupt CPU 0's slow path.
NestedCtx == {<<0, 0>>, <<0, 1>>, <<1, 0>>}
NestedUsers == (k0 :> {<<0, 0>>, <<1, 0>>}) @@ (k1 :> {<<0, 1>>, <<1, 0>>})
NestedLevel == (k0 :> 0) @@ (k1 :> 1)

\* Flat: one lock, taken by the tasks of every CPU.
FlatCtx == CPU \X {0}
FlatUsers == k0 :> FlatCtx
FlatLevel == k0 :> 0
=============================================================================
