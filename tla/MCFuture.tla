------------------------------ MODULE MCFuture ------------------------------
(* Instances of Future for TLC. *)
EXTENDS Future

CONSTANTS a, b, c, d, e1, e2, p1, ev, fu

\* One pool that both ESs serve.
SharedHome == [u \in Thread |-> p1]
SharedInit == (p1 :> SetToSeq(Thread))
SharedScheds == [e \in {e1, e2} |-> <<p1>>]

TwoCompartments == [f \in FutureObj |-> 2]
OneCompartment == [f \in FutureObj |-> 1]

Do(op, o) == [op |-> op, obj |-> o]

\* c and d contribute to the future, and a once more when it is ready; c uses the
\* eventual twice.
UseProgram ==
  (a :> <<Do("wait", fu), Do("wait", ev), Do("set", fu)>>) @@
  (b :> <<Do("wait", ev), Do("test", fu)>>) @@
  (c :> <<Do("set", ev), Do("set", fu), Do("reset", ev), Do("set", ev)>>) @@
  (d :> <<Do("wait", ev), Do("set", fu)>>)

\* The future is reset and set again.
ReuseProgram ==
  (a :> <<Do("wait", fu), Do("wait", fu)>>) @@
  (b :> <<Do("set", fu), Do("reset", fu), Do("set", fu)>>)
=============================================================================
