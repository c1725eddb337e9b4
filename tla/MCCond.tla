------------------------------- MODULE MCCond -------------------------------
(* Instances of Cond for TLC. *)
EXTENDS Cond

CONSTANTS a, b, c, d, e1, e2, m1, m2, p1

\* One pool that both ESs serve.
SharedHome == [u \in Thread |-> p1]
SharedInit == (p1 :> SetToSeq(Thread))
SharedScheds == [e \in {e1, e2} |-> <<p1>>]

\* Two consumers that wait with one mutex, one that waits with a timeout and the
\* same mutex or another one, and a producer that wakes them all.
SomeCalls ==
  (a :> {"wait"}) @@ (b :> {"timedwait"}) @@ (c :> {"wait"}) @@ (d :> {"signal", "broadcast"})
SomeMutexes == [u \in Thread |-> IF u = b THEN {m1, m2} ELSE {m1}]
=============================================================================
