------------------------------ MODULE MCHrtimer ------------------------------
(***************************************************************************)
(* Instances of Hrtimer for TLC: a periodic timer and one that is not, on  *)
(* the clocks of one CPU; their owner also runs on another CPU.            *)
(***************************************************************************)
EXTENDS Hrtimer

CONSTANTS c1, c2, p1, t1, t2

TwoBases == [t \in Timer |-> <<c1, IF t = t1 THEN 0 ELSE 1>>]
OneBase == [t \in Timer |-> <<c1, 0>>]
BothOwned == [t \in Timer |-> p1]
OneOwned == [t \in Timer |-> IF t = t1 THEN p1 ELSE NULL]
\* An interrupt that runs long enough to hang has one timer to run.
TimerConfs == {[base |-> OneBase, owner |-> OneOwned, remote |-> FALSE, maxrun |-> 3],
               [base |-> OneBase, owner |-> BothOwned, remote |-> FALSE, maxrun |-> 2],
               [base |-> TwoBases, owner |-> BothOwned, remote |-> FALSE, maxrun |-> 2],
               [base |-> OneBase, owner |-> BothOwned, remote |-> TRUE, maxrun |-> 1]}
SomeSlack == [t \in Timer |-> IF t = t1 THEN 0 ELSE 1]
=============================================================================
