----------------------------- MODULE CondProofs -----------------------------
(***************************************************************************)
(* Proofs about Cond, for every finite set of ULTs, every set of mutexes,  *)
(* ESs and pools, and every choice of what the ULTs call.                  *)
(***************************************************************************)
EXTENDS Cond, ThreadsProofs, FiniteSetTheorems

(***************************************************************************)
(* The inductive invariant.                                                *)
(***************************************************************************)

ObjectTypeOK ==
  /\ owner \in [Mutex -> Thread \cup {NoThread}]
  /\ condLock \in Thread \cup {NoThread}
  /\ waiters \in Seq(Thread)
  /\ waiterMutex \in Mutex \cup {NoMutex}
  /\ unit \in [Thread -> {"none", "allocated", "signalled"}]
  /\ late \subseteq Thread
  /\ pc \in [Thread -> PC]
  /\ target \in [Thread -> Thread \cup {NoThread}]
  /\ told \in [Thread -> Nat]
  /\ \A u \in Thread : call[u] \in Calls[u] /\ mutex[u] \in Mutexes[u]
  /\ result \in [Thread -> {"success", "timedout", "inv_mutex"}]
  /\ items \in Nat
  /\ \A u \in Thread : pc[u] \in {"wake", "dec_blocked"} => target[u] # NoThread

\* Nobody waits twice; all that wait use the mutex that is known, and none is known
\* when nobody waits.
QueueOK ==
  /\ IsInjective(waiters)
  /\ waiters = <<>> => waiterMutex = NoMutex
  /\ \A u \in Thread : Linked(u) => mutex[u] = waiterMutex

Sleeping == {"release", "suspend", "relock"}
Polling == {"release", "timed", "clock", "remove"}

\* A ULT that is linked is in its wait, and BLOCKED, or in its timedwait, with a unit
\* that nobody has signalled.
LinkedOK ==
  \A u \in Thread : Linked(u) =>
    IF Timed(u) THEN pc[u] \in Polling /\ unit[u] = "allocated"
    ELSE pc[u] \in Sleeping /\ state[u] = "BLOCKED"

\* Whoever is between two units of the queue holds its lock; the ULT that it is about
\* to wake is unlinked, and still BLOCKED if it has suspended.
WakerOK ==
  \A w \in Thread :
    /\ pc[w] \in {"all", "wake", "dec_blocked"} <=> condLock = w
    /\ pc[w] = "wake" =>
         /\ ~Linked(target[w])
         /\ ~Timed(target[w]) => state[target[w]] = "BLOCKED"

\* A ULT that is BLOCKED is in a wait, and is linked or about to be woken; on an ES it
\* is BLOCKED only until it has switched.
BlockedOK ==
  \A u \in Thread : state[u] = "BLOCKED" =>
    /\ ~Timed(u) /\ pc[u] \in Sleeping
    /\ Linked(u) \/ \E w \in Thread : pc[w] = "wake" /\ target[w] = u
    /\ pc[u] = "relock" => \A e \in Xstream : ~On(u, e)

\* A ULT holds its mutex from when it has locked it until it frees it, in the wait only
\* after it is linked.
HoldsMutex ==
  \A u \in Thread :
    pc[u] \in {"cs", "yielded", "wait", "release", "unlock"} => owner[mutex[u]] = u

WaitOK == QueueOK /\ LinkedOK /\ WakerOK /\ BlockedOK

IInv ==
  /\ LayerInv
  /\ ObjectTypeOK
  /\ WaitOK
  /\ HoldsMutex

(***************************************************************************)
(* The steps of a ULT.                                                     *)
(***************************************************************************)

\* A ULT that goes to another place in its program.
LEMMA GotoType ==
  ASSUME NEW u \in Thread, NEW l \in PC, pc \in [Thread -> PC], Goto(u, l)
  PROVE  /\ pc' \in [Thread -> PC]
         /\ pc'[u] = l
         /\ \A v \in Thread : v # u => pc'[v] = pc[v]
BY DEF Goto

\* There are finitely many consumers to signal.
LEMMA ConsumersFinite == Cardinality(Consumer) \in Nat
<1>1. Consumer \subseteq Thread
  BY DEF Consumer
<1>2. IsFiniteSet(Thread)
  BY ThreadsAssumption
<1>3. IsFiniteSet(Consumer)
  BY <1>1, <1>2, FS_Subset
<1> QED
  BY <1>3, FS_CardinalityType

\* A ULT that executes is BLOCKED only in its wait, before it has switched.
LEMMA OnNotBlocked ==
  ASSUME BlockedOK, NEW u \in Thread, NEW e \in Xstream, On(u, e),
         pc[u] \notin {"release", "suspend"}
  PROVE  state[u] # "BLOCKED"
BY DEF BlockedOK, Sleeping

\* Where a ULT goes in a step, and that no other goes anywhere.
LEMMA StepGoes ==
  ASSUME ObjectTypeOK, NEW u \in Thread, NEW e \in Xstream, Step(u, e)
  PROVE  /\ pc' \in [Thread -> PC]
         /\ \A v \in Thread : v # u => pc'[v] = pc[v]
<1> USE DEF ObjectTypeOK
<1>1. CASE UNCHANGED pc
  BY <1>1
<1>2. CASE \E l \in PC : Goto(u, l)
  BY <1>2, GotoType
<1>3. CASE Lock(u, e) \/ Unlock(u) \/ Consume(u) \/ Produce(u) \/ YieldInCS(u, e)
  BY <1>3, <1>1, <1>2 DEF Lock, Unlock, Consume, Produce, YieldInCS, PC
<1>4. CASE Leave(u, e) \/ Refuse(u) \/ Enqueue(u) \/ Release(u) \/ Suspend(u, e)
  BY <1>4, <1>2 DEF Leave, Refuse, Enqueue, Release, Suspend, PC
<1>5. CASE Relock(u) \/ TimedTest(u) \/ TimedClock(u, e) \/ TimedRemove(u) \/ TimedFree(u)
  BY <1>5, <1>2 DEF Relock, TimedTest, TimedClock, TimedRemove, TimedFree, PC
<1>6. CASE Signal(u) \/ WakeNext(u) \/ WakeTimed(u) \/ WakeBlocked(u) \/ WakeDec(u)
  BY <1>6, <1>2 DEF Signal, WakeNext, WakeTimed, WakeBlocked, WakeDec, Woken, AfterSignal, PC
<1> QED
  BY <1>3, <1>4, <1>5, <1>6 DEF Step

\* The steps keep the layer.
LEMMA StepLayer ==
  ASSUME IInv, NEW u \in Thread, NEW e \in Xstream, Step(u, e)
  PROVE  LayerInv'
<1> USE DEF IInv, WaitOK
<1>1. On(u, e)
  BY DEF Step
<1>2. CASE UNCHANGED threadVars
  BY <1>2, LayerUnchanged
<1>3. CASE pc[u] \notin {"release", "suspend"} /\ YieldThread(u, e)
  BY <1>1, <1>3, OnNotBlocked, LayerYields
<1>4. CASE SetBlocked(u) /\ UNCHANGED <<lastES, pool, running, phase>>
  BY <1>1, <1>4, LayerBlocks
<1>5. CASE Lock(u, e) \/ Unlock(u) \/ Consume(u) \/ Produce(u) \/ YieldInCS(u, e)
  BY <1>5, <1>2, <1>3 DEF Lock, Unlock, Consume, Produce, YieldInCS
<1>6. CASE Leave(u, e)
  <2>1. state[u] # "BLOCKED"
    BY <1>1, <1>6, OnNotBlocked DEF Leave
  <2>2. CASE /\ request' = [request EXCEPT ![u] = @ \cup {"TERMINATE"}]
             /\ SwitchToSched(e)
             /\ UNCHANGED <<state, lastES, pool, numBlocked, running>>
    <3>1. {"TERMINATE"} \in SUBSET {"JOIN", "TERMINATE"}
      OBVIOUS
    <3> QED BY <1>1, <2>1, <2>2, <3>1, LayerEnds, Zenon
  <2> QED BY <1>2, <1>6, <2>2 DEF Leave
<1>7. CASE Refuse(u) \/ Enqueue(u) \/ Release(u)
  BY <1>7, <1>2, <1>4 DEF Refuse, Enqueue, Release, threadVars
<1>8. CASE Suspend(u, e)
  BY <1>1, <1>8, LayerSwitches DEF Suspend
<1>9. CASE Relock(u) \/ TimedTest(u) \/ TimedClock(u, e) \/ TimedRemove(u) \/ TimedFree(u)
  BY <1>9, <1>2, <1>3 DEF Relock, TimedTest, TimedClock, TimedRemove, TimedFree
<1>10. CASE Signal(u) \/ WakeNext(u) \/ WakeTimed(u)
  BY <1>10, <1>2 DEF Signal, WakeNext, WakeTimed
<1>11. CASE WakeBlocked(u)
  <2>1. target[u] \in Thread /\ state[target[u]] = "BLOCKED"
    BY <1>11 DEF WakeBlocked, ObjectTypeOK, WakerOK
  <2> QED BY <1>11, <2>1, LayerWakes DEF WakeBlocked
<1>12. CASE WakeDec(u)
  <2>1. target[u] \in Thread
    BY <1>12 DEF WakeDec, ObjectTypeOK
  <2> QED BY <1>12, <2>1, LayerCounts DEF WakeDec
<1> QED
  BY <1>5, <1>6, <1>7, <1>8, <1>9, <1>10, <1>11, <1>12 DEF Step

\* They keep the types.
LEMMA StepTypes ==
  ASSUME IInv, NEW u \in Thread, NEW e \in Xstream, Step(u, e)
  PROVE  ObjectTypeOK'
<1> USE DEF IInv, ObjectTypeOK
<1>0. mutex[u] \in Mutex
  BY CondAssumption
<1>1. /\ pc' \in [Thread -> PC]
      /\ \A v \in Thread : v # u => pc'[v] = pc[v]
  BY StepGoes
<1>2. CASE Lock(u, e) \/ Unlock(u) \/ Release(u) \/ Relock(u)
  <2>1. owner' \in [Mutex -> Thread \cup {NoThread}]
    BY <1>0, <1>2 DEF Lock, Unlock, Release, Relock, Take, Free
  <2>2. pc'[u] \notin {"wake", "dec_blocked"}
    BY <1>2 DEF Lock, Unlock, Release, Relock, Goto
  <2> QED BY <1>1, <1>2, <2>1, <2>2 DEF Lock, Unlock, Release, Relock
<1>3. CASE Consume(u) \/ Produce(u)
  <2>1. items' \in Nat
    BY <1>3, ConsumersFinite DEF Consume, Produce
  <2>2. pc'[u] \notin {"wake", "dec_blocked"}
    BY <1>3 DEF Consume, Produce, Goto
  <2> QED BY <1>1, <1>3, <2>1, <2>2 DEF Consume, Produce, condVars
<1>4. CASE YieldInCS(u, e) \/ Leave(u, e) \/ Suspend(u, e) \/ TimedTest(u) \/ TimedClock(u, e)
  <2>1. pc'[u] \notin {"wake", "dec_blocked"}
    BY <1>4 DEF YieldInCS, Leave, Suspend, TimedTest, TimedClock, Goto
  <2> QED BY <1>1, <1>4, <2>1
          DEF YieldInCS, Leave, Suspend, TimedTest, TimedClock, condVars
<1>5. CASE Refuse(u) \/ TimedFree(u)
  <2>1. pc'[u] \notin {"wake", "dec_blocked"}
    BY <1>5 DEF Refuse, TimedFree, Goto
  <2> QED BY <1>1, <1>5, <2>1 DEF Refuse, TimedFree, condVars
<1>6. CASE Enqueue(u)
  <2>1. waiters' \in Seq(Thread)
    BY <1>6, AppendProperties DEF Enqueue
  <2>2. pc'[u] \notin {"wake", "dec_blocked"}
    BY <1>6 DEF Enqueue, Goto
  <2> QED BY <1>0, <1>1, <1>6, <2>1, <2>2 DEF Enqueue
<1>7. CASE TimedRemove(u)
  <2>1. waiters' \in Seq(Thread)
    BY <1>7, RemoveContains DEF TimedRemove, WaitOK, QueueOK
  <2>2. pc'[u] \notin {"wake", "dec_blocked"}
    BY <1>7 DEF TimedRemove, Goto
  <2> QED BY <1>1, <1>7, <2>1, <2>2 DEF TimedRemove
<1>8. CASE Signal(u)
  <2>1. pc'[u] \notin {"wake", "dec_blocked"}
    BY <1>8 DEF Signal, Goto, AfterSignal
  <2>2. condLock' \in Thread \cup {NoThread}
    BY <1>8 DEF Signal, condVars
  <2> QED BY <1>1, <1>8, <2>1, <2>2 DEF Signal, condVars
<1>9. CASE WakeNext(u)
  <2>1. waiters' \in Seq(Thread) /\ Head(waiters) \in Thread
    BY <1>9, HeadTailProperties DEF WakeNext
  <2>2. \A v \in Thread : pc'[v] \in {"wake", "dec_blocked"} => target'[v] # NoThread
    BY <1>1, <1>9, <2>1, ThreadsAssumption DEF WakeNext
  <2> QED BY <1>1, <1>9, <2>1, <2>2 DEF WakeNext
<1>10. CASE WakeTimed(u) \/ WakeDec(u)
  <2>1. pc'[u] \notin {"wake", "dec_blocked"} /\ condLock' \in Thread \cup {NoThread}
    BY <1>10 DEF WakeTimed, WakeDec, Woken, Goto, AfterSignal
  <2>2. unit' \in [Thread -> {"none", "allocated", "signalled"}]
    BY <1>10 DEF WakeTimed, WakeDec
  <2> QED BY <1>1, <1>10, <2>1, <2>2 DEF WakeTimed, WakeDec
<1>11. CASE WakeBlocked(u)
  BY <1>1, <1>11 DEF WakeBlocked, condVars
<1> QED
  BY <1>2, <1>3, <1>4, <1>5, <1>6, <1>7, <1>8, <1>9, <1>10, <1>11 DEF Step

\* They keep what a ULT may do to its mutex.
LEMMA StepHolds ==
  ASSUME IInv, NEW u \in Thread, NEW e \in Xstream, Step(u, e)
  PROVE  HoldsMutex'
<1> DEFINE Held == {"cs", "yielded", "wait", "release", "unlock"}
<1> USE DEF IInv, ObjectTypeOK
<1>0. \A v \in Thread : mutex[v] \in Mutex /\ v # NoThread
  BY CondAssumption, ThreadsAssumption
<1>1. /\ pc' \in [Thread -> PC]
      /\ \A v \in Thread : v # u => pc'[v] = pc[v]
  BY StepGoes
<1>2. mutex' = mutex
  BY DEF Step, Lock, Unlock, Consume, Produce, YieldInCS, Leave, Refuse, Enqueue, Release,
         Suspend, Relock, TimedTest, TimedClock, TimedRemove, TimedFree, Signal, WakeNext,
         WakeTimed, WakeBlocked, WakeDec
<1>3. CASE owner' = owner /\ (pc'[u] \in Held => owner[mutex[u]] = u)
  BY <1>1, <1>2, <1>3 DEF HoldsMutex
<1>4. CASE ~Locked(u) /\ Take(u)
  BY <1>0, <1>1, <1>2, <1>4 DEF HoldsMutex, Locked, Take
<1>5. CASE pc[u] \in Held /\ Free(u) /\ pc'[u] \notin Held
  BY <1>0, <1>1, <1>2, <1>5 DEF HoldsMutex, Free
<1>6. CASE Lock(u, e) \/ Unlock(u) \/ Release(u) \/ Relock(u)
  <2>1. CASE Lock(u, e)
    BY <2>1, <1>3, <1>4 DEF Lock, HoldsMutex
  <2>2. CASE Unlock(u) \/ Release(u)
    BY <2>2, <1>5 DEF Unlock, Release, Goto
  <2>3. CASE Relock(u)
    BY <2>3, <1>4 DEF Relock
  <2> QED BY <1>6, <2>1, <2>2, <2>3
<1>7. CASE Consume(u) \/ Produce(u) \/ YieldInCS(u, e) \/ Leave(u, e) \/ Refuse(u)
  BY <1>7, <1>3 DEF Consume, Produce, YieldInCS, Leave, Refuse, Goto, condVars, HoldsMutex
<1>8. CASE Enqueue(u) \/ Suspend(u, e) \/ TimedTest(u) \/ TimedClock(u, e)
  BY <1>8, <1>3 DEF Enqueue, Suspend, TimedTest, TimedClock, Goto, condVars, HoldsMutex
<1>9. CASE TimedRemove(u) \/ TimedFree(u) \/ WakeNext(u) \/ WakeBlocked(u)
  BY <1>9, <1>3 DEF TimedRemove, TimedFree, WakeNext, WakeBlocked, Goto, condVars
<1>10. CASE Signal(u) \/ WakeTimed(u) \/ WakeDec(u)
  BY <1>10, <1>3 DEF Signal, WakeTimed, WakeDec, Woken, AfterSignal, Goto, condVars
<1> QED
  BY <1>6, <1>7, <1>8, <1>9, <1>10 DEF Step

\* A step that leaves the queue, its lock and its mutex alone, by a ULT that wakes nobody
\* and stays in its wait if it is linked there.
LEMMA QuietKeeps ==
  ASSUME IInv, NEW u \in Thread,
         UNCHANGED <<condLock, waiters, waiterMutex, target, call, mutex>>,
         \A v \in Thread : v # u => pc'[v] = pc[v] /\ unit'[v] = unit[v],
         pc[u] \notin {"all", "wake", "dec_blocked"},
         pc'[u] \notin {"all", "wake", "dec_blocked"},
         Linked(u) =>
           IF Timed(u) THEN pc'[u] \in Polling /\ unit'[u] = "allocated"
           ELSE pc'[u] \in Sleeping,
         state[u] = "BLOCKED" =>
           pc'[u] \in Sleeping /\ (pc'[u] = "relock" => \A e \in Xstream : ~On(u, e)'),
         \A v \in Thread : state'[v] = "BLOCKED" <=> state[v] = "BLOCKED",
         \A v \in Thread \ {u}, e \in Xstream : On(v, e)' => On(v, e)
  PROVE  WaitOK'
<1> USE DEF IInv, WaitOK
<1>1. \A v \in Thread : (Linked(v)' <=> Linked(v)) /\ (Timed(v)' <=> Timed(v))
  BY DEF Linked, Timed
<1>2. QueueOK'
  BY <1>1 DEF QueueOK
<1>3. LinkedOK'
  BY <1>1 DEF LinkedOK
<1>4. WakerOK'
  BY <1>1 DEF WakerOK, ObjectTypeOK
<1>5. BlockedOK'
  BY <1>1 DEF BlockedOK
<1> QED
  BY <1>2, <1>3, <1>4, <1>5

\* The steps that leave the queue alone.
LEMMA QuietSteps ==
  ASSUME IInv, NEW u \in Thread, NEW e \in Xstream, Step(u, e),
         \/ Lock(u, e) \/ Unlock(u) \/ Consume(u) \/ Produce(u) \/ YieldInCS(u, e)
         \/ Leave(u, e) \/ Refuse(u) \/ Release(u) \/ Suspend(u, e) \/ Relock(u)
         \/ TimedTest(u) \/ TimedClock(u, e) \/ TimedFree(u) \/ (Signal(u) /\ waiters = <<>>)
  PROVE  WaitOK'
<1> USE DEF IInv, WaitOK
<1>0. On(u, e)
  BY DEF Step
<1>1. /\ UNCHANGED <<condLock, waiters, waiterMutex, target, call, mutex>>
      /\ \A v \in Thread : v # u => unit'[v] = unit[v]
      /\ pc[u] # "free" => unit' = unit
  <2>1. CASE Lock(u, e) \/ Unlock(u) \/ Consume(u) \/ Produce(u) \/ YieldInCS(u, e)
    BY <2>1 DEF Lock, Unlock, Consume, Produce, YieldInCS, condVars
  <2>2. CASE Leave(u, e) \/ Refuse(u) \/ Release(u) \/ Suspend(u, e) \/ Relock(u)
    BY <2>2 DEF Leave, Refuse, Release, Suspend, Relock, condVars
  <2>3. CASE TimedTest(u) \/ TimedClock(u, e) \/ (Signal(u) /\ waiters = <<>>)
    BY <2>3 DEF TimedTest, TimedClock, Signal, condVars
  <2>4. CASE TimedFree(u)
    BY <2>4 DEF TimedFree, ObjectTypeOK
  <2> QED BY <2>1, <2>2, <2>3, <2>4
<1>2. \A v \in Thread : v # u => pc'[v] = pc[v]
  BY StepGoes
<1>3. /\ pc[u] \notin {"all", "wake", "dec_blocked"}
      /\ pc'[u] \notin {"all", "wake", "dec_blocked"}
  <2>1. CASE Lock(u, e) \/ Unlock(u) \/ Consume(u) \/ Produce(u) \/ YieldInCS(u, e)
    BY <2>1 DEF Lock, Unlock, Consume, Produce, YieldInCS, Goto, ObjectTypeOK
  <2>2. CASE Leave(u, e) \/ Refuse(u) \/ Release(u) \/ Suspend(u, e) \/ Relock(u)
    BY <2>2 DEF Leave, Refuse, Release, Suspend, Relock, Goto, ObjectTypeOK
  <2>3. CASE TimedTest(u) \/ TimedClock(u, e) \/ TimedFree(u) \/ (Signal(u) /\ waiters = <<>>)
    BY <2>3 DEF TimedTest, TimedClock, TimedFree, Signal, AfterSignal, Goto, ObjectTypeOK
  <2> QED BY <2>1, <2>2, <2>3
<1>4. pc[u] \notin {"release", "suspend"} => state[u] # "BLOCKED"
  BY <1>0, OnNotBlocked
<1>5. pc[u] \in {"release", "suspend"} => Release(u) \/ Suspend(u, e)
  BY DEF Lock, Unlock, Consume, Produce, YieldInCS, Leave, Refuse, Relock, TimedTest,
         TimedClock, TimedFree, Signal
<1>6. Linked(u) =>
        IF Timed(u) THEN pc'[u] \in Polling /\ unit'[u] = "allocated" ELSE pc'[u] \in Sleeping
  <2>1. CASE Release(u) \/ Suspend(u, e) \/ TimedTest(u) \/ TimedClock(u, e)
    BY <2>1, <1>1, <1>4
       DEF LinkedOK, Sleeping, Polling, Release, Suspend, TimedTest, TimedClock, Goto,
           ObjectTypeOK
  <2>2. CASE Lock(u, e) \/ Unlock(u) \/ Consume(u) \/ Produce(u) \/ YieldInCS(u, e)
    BY <2>2 DEF LinkedOK, Sleeping, Polling, Lock, Unlock, Consume, Produce, YieldInCS
  <2>3. CASE Leave(u, e) \/ Refuse(u) \/ Relock(u) \/ TimedFree(u) \/ Signal(u)
    BY <2>3, <1>4 DEF LinkedOK, Sleeping, Polling, Leave, Refuse, Relock, TimedFree, Signal
  <2> QED BY <2>1, <2>2, <2>3
<1>7. state[u] = "BLOCKED" =>
        pc'[u] \in Sleeping /\ (pc'[u] = "relock" => \A f \in Xstream : ~On(u, f)')
  <2> SUFFICES ASSUME state[u] = "BLOCKED"
               PROVE  pc'[u] \in Sleeping /\ (pc'[u] = "relock" => \A f \in Xstream : ~On(u, f)')
    OBVIOUS
  <2>1. ~Timed(u) /\ (Release(u) \/ Suspend(u, e))
    BY <1>4, <1>5 DEF BlockedOK
  <2>2. CASE Release(u)
    BY <2>1, <2>2 DEF Release, Goto, Sleeping, ObjectTypeOK
  <2>3. CASE Suspend(u, e)
    <3>1. pc'[u] = "relock" /\ phase' = [phase EXCEPT ![e] = "ret"] /\ running' = running
      BY <2>3 DEF Suspend, SwitchToSched, Goto, ObjectTypeOK
    <3>2. u # NoThread
      BY ThreadsAssumption
    <3>3. \A f \in Xstream : ~On(u, f)'
      BY <1>0, <3>1, <3>2 DEF On, LayerInv, OneRunner, ThreadsTypeOK
    <3> QED BY <3>1, <3>3 DEF Sleeping
  <2> QED BY <2>1, <2>2, <2>3
<1>8. /\ \A v \in Thread : state'[v] = "BLOCKED" <=> state[v] = "BLOCKED"
      /\ \A v \in Thread \ {u}, f \in Xstream : On(v, f)' => On(v, f)
  <2>1. CASE UNCHANGED threadVars
    BY <2>1 DEF threadVars, On
  <2>2. CASE YieldThread(u, e) /\ pc[u] \notin {"release", "suspend"}
    BY <1>4, <2>2 DEF YieldThread, SwitchToSched, On, LayerInv, ThreadsTypeOK
  <2>3. CASE state' = state /\ SwitchToSched(e) /\ running' = running
    BY <2>3 DEF SwitchToSched, On, LayerInv, ThreadsTypeOK
  <2>4. CASE Lock(u, e) \/ Unlock(u) \/ Consume(u) \/ Produce(u) \/ YieldInCS(u, e)
    BY <2>4, <2>1, <2>2 DEF Lock, Unlock, Consume, Produce, YieldInCS
  <2>5. CASE Leave(u, e) \/ Refuse(u) \/ Release(u) \/ Suspend(u, e) \/ Relock(u)
    BY <2>5, <2>1, <2>3 DEF Leave, Refuse, Release, Suspend, Relock
  <2>6. CASE TimedTest(u) \/ TimedClock(u, e) \/ TimedFree(u) \/ Signal(u)
    BY <2>6, <2>1, <2>2 DEF TimedTest, TimedClock, TimedFree, Signal
  <2> QED BY <2>4, <2>5, <2>6
<1> QED
  BY <1>1, <1>2, <1>3, <1>6, <1>7, <1>8, QuietKeeps

\* The new waiter.
LEMMA EnqueueKeeps ==
  ASSUME IInv, NEW u \in Thread, NEW e \in Xstream, On(u, e), Enqueue(u)
  PROVE  WaitOK'
<1> USE DEF IInv, WaitOK
<1>1. /\ pc[u] = "wait" /\ condLock = NoThread
      /\ pc' = [pc EXCEPT ![u] = "release"]
      /\ UNCHANGED <<phase, running, condLock, target, call, mutex>>
  BY DEF Enqueue, Goto
<1>2. ~Linked(u) /\ state[u] # "BLOCKED"
  BY <1>1 DEF LinkedOK, BlockedOK, Polling, Sleeping
<1>3. /\ waiters' # <<>> /\ IsInjective(waiters')
      /\ \A v \in Thread : Linked(v)' <=> Linked(v) \/ v = u
  BY <1>2, AppendContains DEF Enqueue, Linked, QueueOK, ObjectTypeOK
<1>4. \A v \in Thread : Timed(v)' <=> Timed(v)
  BY <1>1 DEF Timed
<1>5. QueueOK'
  <2>1. waiterMutex' = mutex[u] /\ waiterMutex \in {NoMutex, mutex[u]}
    BY DEF Enqueue
  <2>2. \A v \in Thread : mutex[v] # NoMutex
    BY CondAssumption DEF ObjectTypeOK
  <2> QED BY <1>1, <1>3, <2>1, <2>2 DEF QueueOK
<1>6. /\ \A v \in Thread : v # u =>
           pc'[v] = pc[v] /\ unit'[v] = unit[v] /\ state'[v] = state[v]
      /\ pc'[u] = "release"
      /\ IF Timed(u) THEN unit'[u] = "allocated" /\ state'[u] = state[u] ELSE state'[u] = "BLOCKED"
  BY <1>1 DEF Enqueue, SetBlocked, ObjectTypeOK, LayerInv, ThreadsTypeOK
<1>7. LinkedOK'
  BY <1>3, <1>4, <1>6 DEF LinkedOK, Polling, Sleeping
<1>8. \A w \in Thread : pc[w] \notin {"all", "wake", "dec_blocked"}
  BY <1>1, ThreadsAssumption DEF WakerOK
<1>9. WakerOK'
  BY <1>1, <1>6, <1>8, ThreadsAssumption DEF WakerOK
<1>10. BlockedOK'
  BY <1>1, <1>2, <1>3, <1>4, <1>6, <1>8 DEF BlockedOK, Sleeping, On
<1> QED
  BY <1>5, <1>7, <1>9, <1>10

\* The waiter that times out.
LEMMA TimedRemoveKeeps ==
  ASSUME IInv, NEW u \in Thread, TimedRemove(u)
  PROVE  WaitOK'
<1> USE DEF IInv, WaitOK
<1>1. /\ pc[u] = "remove" /\ pc' = [pc EXCEPT ![u] = "free"]
      /\ UNCHANGED <<state, phase, running, condLock, unit, target, call, mutex>>
  BY DEF TimedRemove, Goto, threadVars
<1>2. state[u] # "BLOCKED"
  BY <1>1 DEF BlockedOK, Sleeping
<1>3. /\ IsInjective(waiters')
      /\ \A v \in Thread : Linked(v)' <=> Linked(v) /\ v # u
      /\ waiters' = <<>> => waiters \in {<<>>, <<u>>}
  BY RemoveContains DEF TimedRemove, Linked, QueueOK, ObjectTypeOK
<1>4. \A v \in Thread : Timed(v)' <=> Timed(v)
  BY <1>1 DEF Timed
<1>5. /\ \A v \in Thread : v # u => pc'[v] = pc[v]
      /\ pc'[u] = "free"
  BY <1>1 DEF ObjectTypeOK
<1>6. QueueOK'
  <2>1. waiterMutex' = IF waiters = <<u>> THEN NoMutex ELSE waiterMutex
    BY DEF TimedRemove
  <2>2. waiters' = <<>> => waiterMutex' = NoMutex
    BY <1>3, <2>1 DEF QueueOK
  <2>3. ASSUME NEW v \in Thread, Linked(v)' PROVE mutex'[v] = waiterMutex'
    <3>1. Linked(v) /\ v # u
      BY <1>3, <2>3
    <3>2. waiters # <<u>>
      BY <3>1 DEF Linked, Contains
    <3> QED BY <1>1, <2>1, <3>1, <3>2 DEF QueueOK
  <2> QED BY <1>3, <2>2, <2>3 DEF QueueOK
<1>7. LinkedOK'
  BY <1>1, <1>3, <1>4, <1>5 DEF LinkedOK
<1>8. WakerOK'
  BY <1>1, <1>3, <1>4, <1>5 DEF WakerOK, ObjectTypeOK
<1>9. BlockedOK'
  BY <1>1, <1>2, <1>3, <1>4, <1>5 DEF BlockedOK, On
<1> QED
  BY <1>6, <1>7, <1>8, <1>9

\* Taking the lock to wake somebody.
LEMMA SignalKeeps ==
  ASSUME IInv, NEW u \in Thread, NEW e \in Xstream, On(u, e), Signal(u), waiters # <<>>
  PROVE  WaitOK'
<1> USE DEF IInv, WaitOK
<1>1. /\ pc[u] = "signal" /\ condLock = NoThread /\ condLock' = u
      /\ pc' = [pc EXCEPT ![u] = "all"]
      /\ UNCHANGED <<state, phase, running, waiters, waiterMutex, unit, target, call, mutex>>
  BY DEF Signal, Goto, threadVars
<1>2. ~Linked(u) /\ state[u] # "BLOCKED"
  BY <1>1 DEF LinkedOK, BlockedOK, Polling, Sleeping
<1>3. \A v \in Thread : (Linked(v)' <=> Linked(v)) /\ (Timed(v)' <=> Timed(v))
  BY <1>1 DEF Linked, Timed
<1>4. \A w \in Thread : pc[w] \notin {"all", "wake", "dec_blocked"}
  BY <1>1, ThreadsAssumption DEF WakerOK
<1>5. pc'[u] = "all" /\ \A v \in Thread : v # u => pc'[v] = pc[v]
  BY <1>1 DEF ObjectTypeOK
<1>6. QueueOK'
  BY <1>1, <1>3 DEF QueueOK
<1>7. LinkedOK'
  BY <1>1, <1>2, <1>3, <1>5 DEF LinkedOK
<1>8. WakerOK'
  BY <1>1, <1>4, <1>5 DEF WakerOK
<1>9. BlockedOK'
  BY <1>1, <1>2, <1>3, <1>4, <1>5 DEF BlockedOK, On
<1> QED
  BY <1>6, <1>7, <1>8, <1>9

\* Unlinking the head.
LEMMA WakeNextKeeps ==
  ASSUME IInv, NEW u \in Thread, WakeNext(u)
  PROVE  WaitOK'
<1> USE DEF IInv, WaitOK
<1>0. PICK h : h = Head(waiters)
  OBVIOUS
<1>1. /\ pc[u] = "all" /\ pc' = [pc EXCEPT ![u] = "wake"] /\ waiters # <<>>
      /\ target' = [target EXCEPT ![u] = h]
      /\ UNCHANGED <<state, phase, running, condLock, unit, call, mutex>>
  BY <1>0 DEF WakeNext, Goto, threadVars
<1>2. /\ h \in Thread /\ IsInjective(waiters')
      /\ Linked(h) /\ ~Linked(h)'
      /\ \A v \in Thread : Linked(v) <=> Linked(v)' \/ v = h
  <2>1. waiters' = Tail(waiters) /\ waiters \in Seq(Thread) /\ IsInjective(waiters)
    BY DEF WakeNext, QueueOK, ObjectTypeOK
  <2>2. /\ h \in Thread /\ IsInjective(Tail(waiters))
        /\ Contains(waiters, h) /\ ~Contains(Tail(waiters), h)
        /\ \A v : Contains(waiters, v) <=> Contains(Tail(waiters), v) \/ v = h
    BY <1>0, <1>1, <2>1, TailContains
  <2> QED BY <2>1, <2>2 DEF Linked
<1>3. \A v \in Thread : Timed(v)' <=> Timed(v)
  BY <1>1 DEF Timed
<1>4. /\ \A v \in Thread : v # u => pc'[v] = pc[v] /\ target'[v] = target[v]
      /\ pc'[u] = "wake" /\ target'[u] = h
  BY <1>1 DEF ObjectTypeOK
<1>5. condLock = u /\ \A v \in Thread : v # u => pc[v] \notin {"all", "wake", "dec_blocked"}
  BY <1>1 DEF WakerOK
<1>6. ~Linked(u) /\ state[u] # "BLOCKED"
  BY <1>1 DEF LinkedOK, BlockedOK, Polling, Sleeping
<1>7. QueueOK'
  <2>1. /\ waiterMutex' = IF Tail(waiters) = <<>> THEN NoMutex ELSE waiterMutex
        /\ waiters' = Tail(waiters)
    BY DEF WakeNext
  <2>2. waiters' = <<>> => \A v \in Thread : ~Linked(v)'
    BY DEF Linked, Contains
  <2> QED BY <1>1, <1>2, <2>1, <2>2 DEF QueueOK
<1>8. LinkedOK'
  BY <1>1, <1>2, <1>3, <1>4, <1>6 DEF LinkedOK
<1>9. WakerOK'
  <2>1. ~Timed(h) => state[h] = "BLOCKED"
    BY <1>2 DEF LinkedOK
  <2>2. target'[u] = h /\ ~Linked(h)' /\ (~Timed(h)' => state'[h] = "BLOCKED")
    BY <1>1, <1>2, <1>3, <1>4, <2>1
  <2>3. \A w \in Thread : /\ pc'[w] \in {"all", "wake", "dec_blocked"} <=> condLock' = w
                          /\ pc'[w] = "wake" => w = u
    BY <1>1, <1>4, <1>5
  <2> QED BY <2>2, <2>3 DEF WakerOK
<1>10. BlockedOK'
  <2> SUFFICES ASSUME NEW v \in Thread, state'[v] = "BLOCKED"
               PROVE  /\ ~Timed(v)' /\ pc'[v] \in Sleeping
                      /\ Linked(v)' \/ \E w \in Thread : pc'[w] = "wake" /\ target'[w] = v
                      /\ pc'[v] = "relock" => \A e \in Xstream : ~On(v, e)'
    BY DEF BlockedOK
  <2>1. v # u /\ Linked(v)
    BY <1>1, <1>5, <1>6 DEF BlockedOK
  <2> QED BY <1>1, <1>2, <1>3, <1>4, <2>1 DEF BlockedOK, On
<1> QED
  BY <1>7, <1>8, <1>9, <1>10

\* Setting the flag of a ULT that waits with a timeout, or counting one that was pushed.
LEMMA WokenKeeps ==
  ASSUME IInv, NEW u \in Thread, NEW e \in Xstream, On(u, e), WakeTimed(u) \/ WakeDec(u)
  PROVE  WaitOK'
<1> USE DEF IInv, WaitOK
<1>1. /\ pc[u] \in {"wake", "dec_blocked"} /\ target[u] \in Thread
      /\ UNCHANGED <<state, phase, running, waiters, waiterMutex, target, call, mutex>>
      /\ pc[u] = "wake" => Timed(target[u])
  BY DEF WakeTimed, WakeDec, threadVars, ObjectTypeOK
<1>2. /\ \A v \in Thread : v # u => pc'[v] = pc[v]
      /\ \/ pc'[u] = "all" /\ condLock' = condLock
         \/ pc'[u] \in {"unlock", "leave"} /\ condLock' = NoThread
  BY DEF WakeTimed, WakeDec, Woken, AfterSignal, Goto, ObjectTypeOK
<1>3. condLock = u /\ \A v \in Thread : v # u => pc[v] \notin {"all", "wake", "dec_blocked"}
  BY <1>1 DEF WakerOK
<1>4. ~Linked(u) /\ state[u] # "BLOCKED"
  BY <1>1 DEF LinkedOK, BlockedOK, Polling, Sleeping
<1>5. \A v \in Thread : (Linked(v)' <=> Linked(v)) /\ (Timed(v)' <=> Timed(v))
  BY <1>1 DEF Linked, Timed
<1>6. \A v \in Thread : Linked(v) => unit'[v] = unit[v]
  <2>1. CASE WakeTimed(u)
    <3>1. ~Linked(target[u])
      BY <2>1 DEF WakeTimed, WakerOK
    <3> QED BY <2>1, <3>1 DEF WakeTimed, ObjectTypeOK
  <2>2. CASE WakeDec(u)
    BY <2>2 DEF WakeDec
  <2> QED BY <2>1, <2>2
<1>7. QueueOK'
  BY <1>1, <1>5 DEF QueueOK
<1>8. LinkedOK'
  BY <1>1, <1>2, <1>4, <1>5, <1>6 DEF LinkedOK
<1>9. WakerOK'
  BY <1>2, <1>3, ThreadsAssumption DEF WakerOK
<1>10. BlockedOK'
  <2> SUFFICES ASSUME NEW v \in Thread, state'[v] = "BLOCKED"
               PROVE  /\ ~Timed(v)' /\ pc'[v] \in Sleeping /\ Linked(v)'
                      /\ pc'[v] = "relock" => \A f \in Xstream : ~On(v, f)'
    BY DEF BlockedOK
  <2>1. v # u /\ Linked(v) /\ ~Timed(v)
    BY <1>1, <1>3, <1>4 DEF BlockedOK
  <2> QED BY <1>1, <1>2, <1>5, <2>1 DEF BlockedOK, On
<1> QED
  BY <1>7, <1>8, <1>9, <1>10

\* Pushing a ULT that has suspended.
LEMMA WakeBlockedKeeps ==
  ASSUME IInv, NEW u \in Thread, WakeBlocked(u)
  PROVE  WaitOK'
<1> USE DEF IInv, WaitOK
<1> DEFINE t == target[u]
<1>1. /\ pc[u] = "wake" /\ pc' = [pc EXCEPT ![u] = "dec_blocked"] /\ ~Timed(t)
      /\ state' = [state EXCEPT ![t] = "READY"]
      /\ UNCHANGED <<phase, running, condLock, waiters, waiterMutex, unit, target, call, mutex>>
  BY DEF WakeBlocked, MakeReady, Goto, condVars
<1>2. t \in Thread /\ ~Linked(t)
  BY <1>1 DEF ObjectTypeOK, WakerOK
<1>3. condLock = u /\ \A v \in Thread : v # u => pc[v] \notin {"all", "wake", "dec_blocked"}
  BY <1>1 DEF WakerOK
<1>4. /\ \A v \in Thread : v # u => pc'[v] = pc[v]
      /\ pc'[u] = "dec_blocked"
      /\ \A v \in Thread : v # t => state'[v] = state[v]
      /\ state'[t] # "BLOCKED"
  BY <1>1, <1>2 DEF ObjectTypeOK, LayerInv, ThreadsTypeOK
<1>5. \A v \in Thread : (Linked(v)' <=> Linked(v)) /\ (Timed(v)' <=> Timed(v))
  BY <1>1 DEF Linked, Timed
<1>6. ~Linked(u) /\ state[u] # "BLOCKED"
  BY <1>1 DEF LinkedOK, BlockedOK, Polling, Sleeping
<1>7. QueueOK'
  BY <1>1, <1>5 DEF QueueOK
<1>8. LinkedOK'
  BY <1>1, <1>2, <1>4, <1>5, <1>6 DEF LinkedOK
<1>9. WakerOK'
  BY <1>1, <1>3, <1>4 DEF WakerOK
<1>10. BlockedOK'
  <2> SUFFICES ASSUME NEW v \in Thread, state'[v] = "BLOCKED"
               PROVE  /\ ~Timed(v)' /\ pc'[v] \in Sleeping /\ Linked(v)'
                      /\ pc'[v] = "relock" => \A f \in Xstream : ~On(v, f)'
    BY DEF BlockedOK
  <2>1. v # u /\ v # t /\ state[v] = "BLOCKED"
    BY <1>2, <1>4, <1>6
  <2>2. Linked(v)
    BY <1>3, <2>1 DEF BlockedOK
  <2> QED BY <1>1, <1>4, <1>5, <2>1, <2>2 DEF BlockedOK, On
<1> QED
  BY <1>7, <1>8, <1>9, <1>10

\* All steps of a ULT together.
LEMMA StepInv ==
  ASSUME IInv, NEW u \in Thread, NEW e \in Xstream, Step(u, e)
  PROVE  IInv'
<1>1. WaitOK'
  BY QuietSteps, EnqueueKeeps, TimedRemoveKeeps, SignalKeeps, WakeNextKeeps, WokenKeeps,
     WakeBlockedKeeps DEF Step
<1> QED
  BY <1>1, StepLayer, StepTypes, StepHolds DEF IInv

(***************************************************************************)
(* The other steps.                                                        *)
(***************************************************************************)

\* A step that changes none of the variables of the condition variable and the ULTs, and
\* of the layer not who is BLOCKED.
LEMMA Stays ==
  ASSUME IInv, LayerInv', UNCHANGED <<condVars, pc, target, told, call, mutex, result, items>>,
         late' \subseteq Thread,
         \A v \in Thread : state'[v] = "BLOCKED" <=> state[v] = "BLOCKED",
         \A v \in Thread, f \in Xstream : On(v, f)' => On(v, f) \/ state'[v] # "BLOCKED"
  PROVE  IInv'
<1> USE DEF IInv, WaitOK, condVars
<1>1. \A v \in Thread : (Linked(v)' <=> Linked(v)) /\ (Timed(v)' <=> Timed(v))
  BY DEF Linked, Timed
<1>2. ObjectTypeOK' /\ HoldsMutex'
  BY DEF ObjectTypeOK, HoldsMutex
<1>3. QueueOK' /\ LinkedOK'
  BY <1>1 DEF QueueOK, LinkedOK
<1>4. WakerOK'
  BY <1>1 DEF WakerOK, ObjectTypeOK
<1>5. BlockedOK'
  BY <1>1 DEF BlockedOK
<1> QED
  BY <1>2, <1>3, <1>4, <1>5

LEMMA InitInv == Init => IInv
<1> SUFFICES ASSUME Init PROVE IInv
  OBVIOUS
<1> USE DEF Init
<1>1. LayerInv
  BY LayerInit
<1>2. \A u \in Thread : call[u] \in Calls[u] /\ mutex[u] \in Mutexes[u]
  BY CondAssumption DEF OneOfEach
<1>3. ObjectTypeOK
  BY <1>2, EmptySeq, ThreadsAssumption DEF ObjectTypeOK, PC
<1>4. \A u \in Thread : ~Linked(u)
  BY DEF Linked, Contains
<1>5. \A u \in Thread : state[u] # "BLOCKED" /\ u # NoThread
  BY ThreadsAssumption DEF ThreadsInit
<1>6. WaitOK
  BY <1>4, <1>5 DEF WaitOK, QueueOK, LinkedOK, WakerOK, BlockedOK, IsInjective
<1> QED
  BY <1>1, <1>3, <1>6 DEF IInv, HoldsMutex

\* Every step, or none, keeps the inductive invariant.
LEMMA NextInv == IInv /\ [Next]_vars => IInv'
<1> SUFFICES ASSUME IInv, [Next]_vars PROVE IInv'
  OBVIOUS
<1>1. CASE UNCHANGED vars
  <2>1. LayerInv'
    BY <1>1, LayerUnchanged DEF vars, IInv
  <2> QED BY <1>1, <2>1, Stays DEF vars, localVars, threadVars, On, IInv, ObjectTypeOK
<1>2. ASSUME NEW u \in Thread, NEW e \in Xstream, Step(u, e) PROVE IInv'
  BY <1>2, StepInv
<1>3. ASSUME NEW e \in Xstream, Sched(e) PROVE IInv'
  <2>1. LayerInv'
    BY <1>3, LayerScheduler DEF Sched, IInv
  <2>2. /\ \A v \in Thread : state'[v] = "BLOCKED" <=> state[v] = "BLOCKED"
        /\ \A v \in Thread, f \in Xstream : On(v, f)' => On(v, f) \/ state'[v] # "BLOCKED"
    BY <1>3, SchedulerStates DEF Sched, IInv
  <2> QED BY <1>3, <2>1, <2>2, Stays DEF Sched, localVars, IInv, ObjectTypeOK
<1>4. ASSUME NEW u \in Thread, Tick(u) PROVE IInv'
  <2>1. LayerInv'
    BY <1>4, LayerUnchanged DEF Tick, IInv
  <2> QED BY <1>4, <2>1, Stays DEF Tick, threadVars, On, IInv, ObjectTypeOK
<1> QED
  BY <1>1, <1>2, <1>3, <1>4 DEF Next

(***************************************************************************)
(* The theorems.                                                           *)
(***************************************************************************)

\* Every variable keeps its type, and whoever wakes a ULT knows which.
THEOREM CondTypeCorrect == Spec => []TypeOK
<1>1. IInv => TypeOK
  BY DEF IInv, LayerInv, ObjectTypeOK, TypeOK
<1> QED
  BY <1>1, InitInv, NextInv, PTL DEF Spec

\* All that wait use the mutex that the condition variable knows, and it knows none as
\* soon as nobody waits.
THEOREM CondOneMutex == Spec => []OneMutex
<1>1. IInv => OneMutex
  <2> SUFFICES ASSUME IInv, waiters # <<>>, NEW i \in DOMAIN waiters
               PROVE  mutex[waiters[i]] = waiterMutex
    BY DEF OneMutex, IInv, WaitOK, QueueOK
  <2>1. waiters \in Seq(Thread)
    BY DEF IInv, ObjectTypeOK
  <2>2. i \in 1 .. Len(waiters) /\ waiters[i] \in Thread
    BY <2>1, LenProperties, ElementOfSeq
  <2>3. Linked(waiters[i])
    BY <2>2 DEF Linked, Contains
  <2> QED BY <2>2, <2>3 DEF IInv, WaitOK, QueueOK
<1> QED
  BY <1>1, InitInv, NextInv, PTL DEF Spec

\* A ULT that has suspended in ABT_cond_wait is in the queue until whoever unlinks it
\* pushes it to its pool, under the lock of the condition variable.
THEOREM CondNoLostWaiter == Spec => []NoLostWaiter
<1>1. IInv => NoLostWaiter
  <2> SUFFICES ASSUME IInv, NEW u \in Thread, state[u] = "BLOCKED", ~Linked(u)
               PROVE  condLock # NoThread /\ target[condLock] = u /\ pc[condLock] = "wake"
    BY DEF NoLostWaiter
  <2>1. PICK w \in Thread : pc[w] = "wake" /\ target[w] = u
    BY DEF IInv, WaitOK, BlockedOK
  <2>2. condLock = w
    BY <2>1 DEF IInv, WaitOK, WakerOK
  <2> QED BY <2>1, <2>2, ThreadsAssumption
<1> QED
  BY <1>1, InitInv, NextInv, PTL DEF Spec

\* A ULT is in the queue before it frees its mutex in ABT_cond_wait: nobody else can
\* have that mutex, and see nobody waiting, in between.
THEOREM CondHoldsMutex == Spec => []HoldsMutex
<1>1. IInv => HoldsMutex
  BY DEF IInv
<1> QED
  BY <1>1, InitInv, NextInv, PTL DEF Spec

\* No ULT is pushed to a pool before its context is saved, whatever the signals and
\* broadcasts that race with its wait.
THEOREM CondSavedBeforePush == Spec => []SavedBeforePush
<1>1. IInv => SavedBeforePush
  BY DEF IInv, LayerInv
<1> QED
  BY <1>1, InitInv, NextInv, PTL DEF Spec

\* No ULT runs on two ESs, and none is in the pools twice.
THEOREM CondThreadsSafe == Spec => [](OneRunner /\ QueuedOnce)
<1>1. IInv => OneRunner /\ QueuedOnce
  BY DEF IInv, LayerInv
<1> QED
  BY <1>1, InitInv, NextInv, PTL DEF Spec
=============================================================================
