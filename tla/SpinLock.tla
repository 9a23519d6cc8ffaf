------------------------------ MODULE SpinLock ------------------------------
(***************************************************************************)
(* What a spinlock promises its callers: a lock is held by at most one     *)
(* context, it is taken only while free, and it is given up only by its    *)
(* holder.  QSpinLock is shown to implement this specification.            *)
(***************************************************************************)
CONSTANTS Ctx,      \* execution contexts that may take locks
          Locks,    \* the locks
          NoHolder  \* the holder of a free lock

VARIABLE holder     \* holder[k] : the context that holds lock k, or NoHolder

Init == holder = [k \in Locks |-> NoHolder]

Acquire(c, k) ==
  /\ holder[k] = NoHolder
  /\ holder' = [holder EXCEPT ![k] = c]

Release(c, k) ==
  /\ holder[k] = c
  /\ holder' = [holder EXCEPT ![k] = NoHolder]

Next == \E c \in Ctx, k \in Locks : Acquire(c, k) \/ Release(c, k)

Spec == Init /\ [][Next]_holder
=============================================================================
