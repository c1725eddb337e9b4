------------------------------ MODULE LockSpec ------------------------------
(***************************************************************************)
(* What a mutex promises, whatever its waiters do meanwhile: it has an     *)
(* owner or none; a client that finds it free may become the owner; the    *)
(* owner gives it up, or passes it to one client that has asked for it.    *)
(***************************************************************************)
CONSTANTS Client, NoClient

VARIABLES
  owner,   \* the client that owns the mutex, or NoClient
  asked    \* the clients that have asked for it and wait

vars == <<owner, asked>>

Init == owner = NoClient /\ asked = {}

Ask(c) ==
  /\ c \notin asked /\ owner # c
  /\ asked' = asked \cup {c}
  /\ owner' = owner

Acquire(c) ==
  /\ owner = NoClient
  /\ owner' = c
  /\ asked' = asked \ {c}

Release(c) ==
  /\ owner = c
  /\ owner' = NoClient
  /\ asked' = asked

Pass(c, d) ==
  /\ owner = c
  /\ d \in asked
  /\ owner' = d
  /\ asked' = asked \ {d}

Next ==
  \/ \E c \in Client : Ask(c) \/ Acquire(c) \/ Release(c)
  \/ \E c, d \in Client : Pass(c, d)

Spec == Init /\ [][Next]_vars
=============================================================================
