---------------------------- MODULE BarrierSpec ----------------------------
(***************************************************************************)
(* What a barrier promises: ULTs arrive one by one, the one that completes *)
(* a group releases the whole group, and only a released ULT returns.      *)
(***************************************************************************)
EXTENDS Naturals, FiniteSets

CONSTANTS Thread, NumWaiters

VARIABLES
  arrived,   \* the ULTs that wait for their group to be complete
  released   \* the ULTs that may return

Init == arrived = {} /\ released = {}

Arrive(u) ==
  /\ u \notin arrived \cup released
  /\ Cardinality(arrived) + 1 < NumWaiters
  /\ arrived' = arrived \cup {u}
  /\ UNCHANGED released

Complete(u) ==
  /\ u \notin arrived \cup released
  /\ Cardinality(arrived) + 1 = NumWaiters
  /\ arrived' = {}
  /\ released' = released \cup arrived \cup {u}

Return(u) ==
  /\ u \in released
  /\ released' = released \ {u}
  /\ UNCHANGED arrived

Next == \E u \in Thread : Arrive(u) \/ Complete(u) \/ Return(u)

Spec == Init /\ [][Next]_<<arrived, released>>
=============================================================================
