----------------------------- MODULE MCBarrier -----------------------------
(* Instances of Barrier for TLC. *)
EXTENDS Barrier, SequencesExt

CONSTANTS a, b, c, e1, e2, p1

\* One pool that both ESs serve.
SharedHome == [u \in Thread |-> p1]
SharedInit == (p1 :> SetToSeq(Thread))
SharedScheds == [e \in {e1, e2} |-> <<p1>>]
=============================================================================
