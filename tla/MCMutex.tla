------------------------------ MODULE MCMutex ------------------------------
(* Instances of Mutex for TLC. *)
EXTENDS Mutex

CONSTANTS a, b, c, d, e1, e2, p1, p2

\* a and b belong to e1; e1 shares the pool of c and d with e2.
MixedHome == (a :> p1) @@ (b :> p1) @@ (c :> p2) @@ (d :> p2)
MixedInit == (p1 :> <<a, b>>) @@ (p2 :> <<c, d>>)
MixedScheds == (e1 :> <<p1, p2>>) @@ (e2 :> <<p2>>)
MixedLockOps == (a :> {"lock_low"}) @@ (b :> {"lock_low", "lock"})
                @@ (c :> {"lock", "trylock"}) @@ (d :> {"lock", "spinlock"})

\* One pool that both ESs serve, for three ULTs that lock with low priority.
SharedHome == [u \in Thread |-> p1]
SharedInit == (p1 :> <<a, b, c>>)
SharedScheds == [e \in Xstream |-> <<p1>>]
LowLockOps == [u \in Thread |-> {"lock_low"}]

\* The theorems about who runs and who is woken assume LowPrivate, and the one about
\* the counts LowOnePool: the instance with four ULTs satisfies both, the one with a
\* shared pool only the second.
ASSUME MCMutexAssumption ==
  /\ LowPrivate <=> HomePool # SharedHome
  /\ LowOnePool
=============================================================================
