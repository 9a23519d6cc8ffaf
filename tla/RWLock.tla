-------------------------------- MODULE RWLock --------------------------------
(***************************************************************************)
(* What a reader/writer spinlock promises: any number of readers or one    *)
(* writer.  QRWLock is shown to implement this specification.              *)
(***************************************************************************)
CONSTANTS Ctx,      \* execution contexts
          NoWriter  \* the writer of a lock that is not held for write

VARIABLES rd,  \* the contexts that hold the lock for read
          wr   \* the context that holds it for write, or NoWriter

Init == rd = {} /\ wr = NoWriter

ReadLock(c) ==
  /\ wr = NoWriter
  /\ c \notin rd
  /\ rd' = rd \cup {c}
  /\ UNCHANGED wr

ReadUnlock(c) ==
  /\ c \in rd
  /\ rd' = rd \ {c}
  /\ UNCHANGED wr

WriteLock(c) ==
  /\ rd = {} /\ wr = NoWriter
  /\ wr' = c
  /\ UNCHANGED rd

WriteUnlock(c) ==
  /\ wr = c
  /\ wr' = NoWriter
  /\ UNCHANGED rd

Next == \E c \in Ctx : \/ ReadLock(c) \/ ReadUnlock(c)
                       \/ WriteLock(c) \/ WriteUnlock(c)

Spec == Init /\ [][Next]_<<rd, wr>>
=============================================================================
