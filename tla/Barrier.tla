------------------------------ MODULE Barrier ------------------------------
(***************************************************************************)
(* ABT_barrier (barrier.c) over the ULT layer of Threads.  The ULTs that   *)
(* arrive are kept in an array and blocked; the last one wakes them, one   *)
(* after the other and in the order of the array, under the lock of the    *)
(* barrier, and resets the counter.  A ULT that was woken may be back at   *)
(* the barrier, for the next round, before the last of its round is awake. *)
(***************************************************************************)
EXTENDS Threads

CONSTANTS
  NumWaiters,   \* p_barrier->num_waiters
  Rounds        \* how often every ULT waits at the barrier

ASSUME BarrierAssumption ==
  /\ NumWaiters \in Nat \ {0}
  /\ Rounds \in Nat \ {0}

VARIABLES
  lock,      \* the holder of p_barrier->lock
  counter,   \* p_barrier->counter
  waiters,   \* p_barrier->waiters
  index,     \* i in the loop that wakes the waiters
  pc,        \* where every ULT is
  round      \* how often every ULT has returned from the barrier

barrierVars == <<lock, counter, waiters, index>>
localVars == <<pc, round>>
vars == <<threadVars, barrierVars, localVars>>

Position == 0 .. NumWaiters - 1
PC == {"work", "wait", "suspend", "wake", "dec_blocked", "return", "leave", "done"}

Init ==
  /\ ThreadsInit
  /\ lock = NoThread
  /\ counter = 0
  /\ waiters = [i \in Position |-> NoThread]
  /\ index = 0
  /\ pc = [u \in Thread |-> "wait"]
  /\ round = [u \in Thread |-> 0]

Goto(u, l) == pc' = [pc EXCEPT ![u] = l]

(* Faulty variants of definitions below, see Mutex *)

\* The waiter is stored at the position of its predecessor.
ArriveBefore(u) ==
  /\ pc[u] = "wait" /\ lock = NoThread
  /\ counter + 1 < NumWaiters
  /\ counter' = counter + 1
  /\ waiters' = [waiters EXCEPT ![IF counter = 0 THEN 0 ELSE counter - 1] = u]
  /\ SetBlocked(u)
  /\ Goto(u, "suspend")
  /\ UNCHANGED <<lastES, pool, running, phase, lock, index, round>>

\* The last of a group goes through without waking the others.
ArriveLastPasses(u) ==
  /\ pc[u] = "wait" /\ lock = NoThread
  /\ counter + 1 = NumWaiters
  /\ counter' = 0
  /\ Goto(u, "return")
  /\ UNCHANGED <<threadVars, lock, index, waiters, round>>

\* The barrier is unlocked before its waiters are awake.
WakeReadyUnlocked(u) ==
  /\ pc[u] = "wake" /\ index < NumWaiters - 1
  /\ CanSetReady(waiters[index])
  /\ MakeReady(waiters[index])
  /\ lock' = NoThread
  /\ counter' = 0
  /\ Goto(u, "dec_blocked")
  /\ UNCHANGED <<request, lastES, numBlocked, running, phase, waiters, index, round>>

(* ABT_barrier_wait *)

Arrive(u) ==
  /\ pc[u] = "wait" /\ lock = NoThread
  /\ counter + 1 < NumWaiters
  /\ counter' = counter + 1
  /\ waiters' = [waiters EXCEPT ![counter] = u]
  /\ SetBlocked(u)
  /\ Goto(u, "suspend")
  /\ UNCHANGED <<lastES, pool, running, phase, lock, index, round>>

Suspend(u, e) ==
  /\ pc[u] = "suspend"
  /\ SwitchToSched(e)
  /\ Goto(u, "return")
  /\ UNCHANGED <<state, request, lastES, pool, numBlocked, running, barrierVars, round>>

ArriveLast(u) ==
  /\ pc[u] = "wait" /\ lock = NoThread
  /\ counter + 1 >= NumWaiters
  /\ counter' = counter + 1
  /\ lock' = u
  /\ index' = 0
  /\ Goto(u, "wake")
  /\ UNCHANGED <<threadVars, waiters, round>>

WakeReady(u) ==
  /\ pc[u] = "wake" /\ index < NumWaiters - 1
  /\ CanSetReady(waiters[index])
  /\ MakeReady(waiters[index])
  /\ Goto(u, "dec_blocked")
  /\ UNCHANGED <<request, lastES, numBlocked, running, phase, barrierVars, round>>

WakeDec(u) ==
  /\ pc[u] = "dec_blocked"
  /\ DecNumBlocked(waiters[index])
  /\ waiters' = [waiters EXCEPT ![index] = NoThread]
  /\ index' = index + 1
  /\ Goto(u, "wake")
  /\ UNCHANGED <<state, request, lastES, pool, running, phase, lock, counter, round>>

WakeEnd(u) ==
  /\ pc[u] = "wake" /\ index = NumWaiters - 1
  /\ counter' = 0
  /\ lock' = NoThread
  /\ Goto(u, "return")
  /\ UNCHANGED <<threadVars, waiters, index, round>>

Return(u) ==
  /\ pc[u] = "return"
  /\ round' = [round EXCEPT ![u] = @ + 1]
  /\ \E l \in IF round[u] + 1 < Rounds THEN {"work", "wait"} ELSE {"leave"} : Goto(u, l)
  /\ UNCHANGED <<threadVars, barrierVars>>

(* The client: a ULT may yield before it waits again, and ends at last *)

Work(u, e) ==
  /\ pc[u] = "work"
  /\ YieldThread(u, e)
  /\ Goto(u, "wait")
  /\ UNCHANGED <<barrierVars, round>>

Leave(u, e) ==
  /\ pc[u] = "leave"
  /\ request' = [request EXCEPT ![u] = @ \cup {"TERMINATE"}]
  /\ SwitchToSched(e)
  /\ Goto(u, "done")
  /\ UNCHANGED <<state, lastES, pool, numBlocked, running, barrierVars, round>>

Step(u, e) ==
  /\ On(u, e)
  /\ \/ Arrive(u) \/ Suspend(u, e) \/ ArriveLast(u) \/ WakeReady(u) \/ WakeDec(u)
     \/ WakeEnd(u) \/ Return(u) \/ Work(u, e) \/ Leave(u, e)

Sched(e) == Scheduler(e) /\ UNCHANGED <<barrierVars, localVars>>

AllDone == \A u \in Thread : state[u] = "TERMINATED"

Next ==
  \/ \E e \in Xstream : Sched(e)
  \/ \E e \in Xstream, u \in Thread : Step(u, e)
  \/ AllDone /\ UNCHANGED vars

Spec == Init /\ [][Next]_vars

\* Every ES makes progress, in its scheduler and in the ULT it runs.
Fairness ==
  /\ \A e \in Xstream : WF_vars(Sched(e))
  /\ \A u \in Thread : WF_vars(\E e \in Xstream : Step(u, e))

FairSpec == Spec /\ Fairness

(* Properties *)

\* Every variable has its type, and whoever wakes a ULT finds one in the array.
TypeOK ==
  /\ ThreadsTypeOK
  /\ lock \in Thread \cup {NoThread}
  /\ counter \in 0 .. NumWaiters
  /\ waiters \in [Position -> Thread \cup {NoThread}]
  /\ index \in Position
  /\ pc \in [Thread -> PC]
  /\ round \in [Thread -> 0 .. Rounds]
  /\ \A u \in Thread :
       /\ pc[u] \in {"wake", "dec_blocked"} => lock = u
       /\ pc[u] = "wake" /\ index < NumWaiters - 1 => waiters[index] # NoThread
       /\ pc[u] = "dec_blocked" => waiters[index] # NoThread

\* The waiters that no last one has come for.
Waiting == IF lock = NoThread THEN {waiters[i] : i \in 0 .. counter - 1} ELSE {}
Inside == {u \in Thread : pc[u] \in {"suspend", "wake", "dec_blocked", "return"}}

B == INSTANCE BarrierSpec WITH arrived <- Waiting, released <- Inside \ Waiting

\* The barrier releases whole groups, of num_waiters ULTs each.
ImplementsBarrier == B!Spec

\* Every ULT passes the barrier as often as it comes to it.
Termination == <>AllDone
=============================================================================
