------------------------------ MODULE MCQRWLock ------------------------------
(***************************************************************************)
(* Instances of QRWLock for TLC.                                           *)
(***************************************************************************)
EXTENDS QRWLock

\* Three CPUs; the first may be interrupted by a handler that reads.
NestedCtx == {<<0, 0>>, <<0, 1>>, <<1, 0>>, <<2, 0>>}
=============================================================================
