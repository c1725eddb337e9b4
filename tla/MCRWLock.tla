----------------------------- MODULE MCRWLock -----------------------------
(* Instances of RWLock for TLC. *)
EXTENDS RWLock

CONSTANTS a, b, c, d, e1, e2, p1

\* One pool that both ESs serve.
SharedHome == [u \in Thread |-> p1]
SharedInit == (p1 :> SetToSeq(Thread))
SharedScheds == [e \in {e1, e2} |-> <<p1>>]

\* Two readers, a writer and a ULT that may be either in each of two rounds.
SomeRounds == [u \in Thread |-> IF u = d THEN 2 ELSE 1]
SomeOps ==
  (a :> {"rdlock"}) @@ (b :> {"rdlock"}) @@ (c :> {"wrlock"}) @@ (d :> {"rdlock", "wrlock"})
=============================================================================
