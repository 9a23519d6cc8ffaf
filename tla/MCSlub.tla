------------------------------- MODULE MCSlub -------------------------------
(***************************************************************************)
(* The slab allocator with two CPUs of one node and up to three slabs of   *)
(* two objects, or one of three.                                           *)
(***************************************************************************)
EXTENDS Slub

CONSTANTS c1, c2, n1, n2, p1, p2, p3, p4

(* Only the last page is on the second node. *)
OneElsewhere == [q \in Page \cup CPU |-> IF q = p4 THEN n2 ELSE n1]
PageSymmetry == Permutations({p1, p2, p3})

Task(c) == {<<c, 0>>}
TaskAndIrq(c) == {<<c, 0>>, <<c, 1>>}

(* Tasks of two CPUs that allocate and free. *)
Plain == [ctx |-> Task(c1) \cup Task(c2), alloc |-> Task(c1) \cup Task(c2),
          pages |-> {p1, p2}, objects |-> 2, nodes |-> {NULL}, bulk |-> FALSE,
          shrink |-> FALSE, fail |-> TRUE]

(* One slab of three objects: frees into it without the lock of the node meet
   the CPU that takes it. *)
Larger == [Plain EXCEPT !.pages = {p1}, !.objects = 3]

(* A task and the interrupts on its CPU, where memory does not run out. *)
Interrupted == [Plain EXCEPT !.ctx = TaskAndIrq(c1), !.alloc = TaskAndIrq(c1),
                             !.pages = {p1, p2, p3}, !.fail = FALSE]

(* A task that allocates and frees; an interrupt and another CPU that free. *)
Remote == [Interrupted EXCEPT !.ctx = TaskAndIrq(c1) \cup Task(c2), !.alloc = Task(c1)]

(* Allocations for a node, frees by the other CPU. *)
OnNode == [Plain EXCEPT !.alloc = Task(c1), !.pages = {p1, p4}, !.nodes = {NULL, n1, n2}]

(* Interrupts that take the slab of the task away. *)
NodeIrq == [Interrupted EXCEPT !.pages = {p1, p2, p4}, !.nodes = {NULL, n2}]

(* Bulk calls and kmem_cache_shrink(). *)
Bulk == [Plain EXCEPT !.alloc = Task(c1), !.bulk = TRUE, !.shrink = TRUE]

(* The interrupted task where memory may run out. *)
Exhausted == [Interrupted EXCEPT !.fail = TRUE]

SlubConfs == {Plain, Larger, Interrupted, Remote, OnNode, NodeIrq, Bulk}
ExhaustedConfs == {Exhausted}
=============================================================================
