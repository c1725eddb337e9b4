------------------------------- MODULE MCJoin -------------------------------
(* Instances of Join for TLC. *)
EXTENDS Join

CONSTANTS a, b, c, d, e1, e2, p1, p2

Nothing == [join |-> {}, cancel |-> {}, to |-> {}, revive |-> {}, yield |-> 0,
            exit |-> FALSE]

\* a and b belong to e1, which serves the pool that it shares with e2 first.
MixedHome == [u \in Thread |-> IF u \in {a, b} THEN p1 ELSE p2]
MixedInit == (p1 :> <<a, b>>) @@ (p2 :> <<c, d>>)
MixedScheds == (e1 :> <<p2, p1>>) @@ (e2 :> <<p2>>)
MixedAccess == (p1 :> "PRIV") @@ (p2 :> "MPMC")

\* a joins b, its neighbour, which it revives, and polls for the end of c; a and b
\* yield to each other.  d waits for a and c across the ESs, and cancels c, which
\* may exit, too.
MixedProgram ==
  (a :> [Nothing EXCEPT !.join = {b, c}, !.to = {b}, !.revive = {b}]) @@
  (b :> [Nothing EXCEPT !.to = {a}]) @@
  (c :> [Nothing EXCEPT !.yield = 1, !.exit = TRUE]) @@
  (d :> [Nothing EXCEPT !.cancel = {c}, !.join = {a, c}])

\* The theorems assume ProgramOK: the instance satisfies it.
ASSUME MCJoinAssumption == ProgramOK
=============================================================================
