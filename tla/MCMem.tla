------------------------------- MODULE MCMem -------------------------------
(* Instances of Mem for TLC. *)
EXTENDS Mem

CONSTANTS e1, e2, e3, p1, p2, p3, p4

\* Three ESs that allocate blocks, or allocate stacks; one ES ends at times.
SomeBudgets ==
  {[tasks |-> 4, threads |-> 0, ends |-> 1], [tasks |-> 5, threads |-> 0, ends |-> 0],
   [tasks |-> 0, threads |-> 5, ends |-> 1]}

\* ESs and the addresses of pages are interchangeable.
Symmetry == Permutations(MemXstream) \cup Permutations(Page)
=============================================================================
