--------------------------- MODULE BarrierProofs ---------------------------
(***************************************************************************)
(* Proofs about Barrier, for every set of ULTs, ESs and pools, every size  *)
(* of the groups and every number of rounds.                               *)
(***************************************************************************)
EXTENDS Barrier, ThreadsProofs, FiniteSetTheorems

(***************************************************************************)
(* The inductive invariant.                                                *)
(***************************************************************************)

ObjectTypeOK ==
  /\ lock \in Thread \cup {NoThread}
  /\ counter \in 0 .. NumWaiters
  /\ waiters \in [Position -> Thread \cup {NoThread}]
  /\ index \in Position
  /\ pc \in [Thread -> PC]
  /\ round \in [Thread -> 0 .. Rounds]
  /\ \A u \in Thread : pc[u] \notin {"leave", "done"} => round[u] < Rounds

\* The barrier is locked from the completion of a group until it is awake.
LockOK ==
  /\ lock = NoThread => counter < NumWaiters
  /\ \A u \in Thread :
       /\ pc[u] \in {"wake", "dec_blocked"} => lock = u
       /\ pc[u] = "dec_blocked" => index < NumWaiters - 1 /\ waiters[index] # NoThread

\* The positions of the array whose ULTs are to be woken.
Asleep ==
  IF lock = NoThread THEN 0 .. counter - 1
  ELSE IF pc[lock] = "wake" THEN index .. NumWaiters - 2
  ELSE index + 1 .. NumWaiters - 2

\* They are BLOCKED, each is there once, and a ULT is BLOCKED from when it has
\* arrived until it is woken, and on an ES only until it has switched.
Sleepers ==
  /\ \A i \in Asleep : waiters[i] \in Thread /\ state[waiters[i]] = "BLOCKED"
  /\ \A i, j \in Asleep : waiters[i] = waiters[j] => i = j
  /\ \A u \in Thread : state[u] = "BLOCKED" => pc[u] \in {"suspend", "return"}
  /\ \A u \in Thread, e \in Xstream :
       On(u, e) /\ state[u] = "BLOCKED" => pc[u] = "suspend"

IInv ==
  /\ LayerInv
  /\ ObjectTypeOK
  /\ LockOK
  /\ Sleepers

\* A ULT that goes to another place in its program.
LEMMA GotoType ==
  ASSUME NEW u \in Thread, NEW l \in PC, pc \in [Thread -> PC], Goto(u, l)
  PROVE  /\ pc' \in [Thread -> PC]
         /\ pc'[u] = l
         /\ \A v \in Thread : v # u => pc'[v] = pc[v]
BY DEF Goto

\* A ULT that executes is BLOCKED only where it is about to switch.
LEMMA OnNotBlocked ==
  ASSUME Sleepers, NEW u \in Thread, NEW e \in Xstream, On(u, e), pc[u] # "suspend"
  PROVE  state[u] # "BLOCKED"
BY DEF Sleepers

\* The ULT to be woken next.
LEMMA NextAsleep ==
  ASSUME IInv, NEW u \in Thread, WakeReady(u)
  PROVE  /\ lock = u /\ index \in Asleep
         /\ waiters[index] \in Thread /\ state[waiters[index]] = "BLOCKED"
<1>1. lock = u /\ u # NoThread /\ pc[lock] = "wake"
  BY ThreadsAssumption DEF WakeReady, IInv, LockOK
<1>2. index \in Asleep
  BY <1>1, BarrierAssumption DEF WakeReady, Asleep, IInv, ObjectTypeOK, Position
<1> QED
  BY <1>1, <1>2 DEF IInv, Sleepers

(***************************************************************************)
(* The steps of a ULT.                                                     *)
(***************************************************************************)

\* They keep the layer.
LEMMA StepLayer ==
  ASSUME IInv, NEW u \in Thread, NEW e \in Xstream, Step(u, e)
  PROVE  LayerInv'
<1> USE DEF IInv
<1>1. On(u, e)
  BY DEF Step
<1>2. CASE ArriveLast(u) \/ WakeEnd(u) \/ Return(u)
  <2>1. UNCHANGED threadVars
    BY <1>2 DEF ArriveLast, WakeEnd, Return
  <2> QED BY <2>1, LayerUnchanged
<1>3. CASE Arrive(u)
  BY <1>1, <1>3, LayerBlocks DEF Arrive
<1>4. CASE Suspend(u, e)
  BY <1>1, <1>4, LayerSwitches DEF Suspend
<1>5. CASE WakeReady(u)
  BY <1>5, NextAsleep, LayerWakes DEF WakeReady
<1>6. CASE WakeDec(u)
  <2>1. waiters[index] \in Thread
    BY <1>6 DEF WakeDec, LockOK, ObjectTypeOK
  <2> QED BY <1>6, <2>1, LayerCounts DEF WakeDec
<1>7. CASE Work(u, e)
  BY <1>1, <1>7, OnNotBlocked, LayerYields DEF Work
<1>8. CASE Leave(u, e)
  <2>1. state[u] # "BLOCKED"
    BY <1>1, <1>8, OnNotBlocked DEF Leave
  <2> QED BY <1>1, <1>8, <2>1, LayerEnds DEF Leave
<1> QED
  BY <1>2, <1>3, <1>4, <1>5, <1>6, <1>7, <1>8 DEF Step

\* They keep the types, and what the lock means.
LEMMA StepObject ==
  ASSUME IInv, NEW u \in Thread, NEW e \in Xstream, Step(u, e)
  PROVE  ObjectTypeOK' /\ LockOK'
<1> USE DEF IInv, ObjectTypeOK, LockOK, Position
<1>0. u # NoThread /\ NumWaiters \in Nat /\ NumWaiters > 0 /\ Rounds \in Nat
  BY ThreadsAssumption, BarrierAssumption
<1>1. CASE Arrive(u)
  <2>1. counter + 1 < NumWaiters /\ counter \in 0 .. NumWaiters - 1
    BY <1>0, <1>1 DEF Arrive
  <2>2. waiters' \in [Position -> Thread \cup {NoThread}]
    BY <2>1, <1>1 DEF Arrive
  <2>3. \A v \in Thread : pc[v] \notin {"wake", "dec_blocked"}
    BY <1>1, ThreadsAssumption DEF Arrive
  <2> QED BY <1>0, <1>1, <2>1, <2>2, <2>3, GotoType DEF Arrive, PC
<1>2. CASE Suspend(u, e) \/ Work(u, e)
  BY <1>2, GotoType DEF Suspend, Work, barrierVars, PC
<1>3. CASE ArriveLast(u)
  <2>1. \A v \in Thread : pc[v] \notin {"wake", "dec_blocked"}
    BY <1>3, ThreadsAssumption DEF ArriveLast
  <2>2. counter' \in 0 .. NumWaiters /\ index' \in 0 .. NumWaiters - 1
    BY <1>0, <1>3 DEF ArriveLast
  <2> QED BY <1>0, <1>3, <2>1, <2>2, GotoType DEF ArriveLast, PC
<1>4. CASE WakeReady(u)
  <2>1. waiters[index] # NoThread
    BY <1>4, NextAsleep, ThreadsAssumption
  <2> QED BY <1>4, <2>1, GotoType DEF WakeReady, barrierVars, PC
<1>5. CASE WakeDec(u)
  <2>1. \A v \in Thread : v # u => pc[v] \notin {"wake", "dec_blocked"}
    BY <1>5 DEF WakeDec
  <2>2. index' \in Position
    BY <1>0, <1>5 DEF WakeDec
  <2>3. waiters' \in [Position -> Thread \cup {NoThread}]
    BY <1>5 DEF WakeDec
  <2> QED BY <1>0, <1>5, <2>1, <2>2, <2>3, GotoType DEF WakeDec, PC
<1>6. CASE WakeEnd(u)
  <2>1. \A v \in Thread : v # u => pc[v] \notin {"wake", "dec_blocked"}
    BY <1>6 DEF WakeEnd
  <2> QED BY <1>0, <1>6, <2>1, GotoType, SMTT(30) DEF WakeEnd, PC
<1>7. CASE Return(u)
  <2>1. PICK l \in IF round[u] + 1 < Rounds THEN {"work", "wait"} ELSE {"leave"} : Goto(u, l)
    BY <1>7 DEF Return
  <2>2. l \in {"work", "wait", "leave"} /\ (l # "leave" => round[u] + 1 < Rounds)
    BY <2>1
  <2>3. round[u] < Rounds /\ round[u] \in Nat
    BY <1>7 DEF Return
  <2>4. round' \in [Thread -> 0 .. Rounds] /\ round'[u] = round[u] + 1
        /\ \A v \in Thread : v # u => round'[v] = round[v]
    BY <1>0, <1>7, <2>3 DEF Return
  <2> QED BY <1>0, <1>7, <2>1, <2>2, <2>4, GotoType DEF Return, barrierVars, PC
<1>8. CASE Leave(u, e)
  BY <1>8, GotoType DEF Leave, barrierVars, PC
<1> QED
  BY <1>1, <1>2, <1>3, <1>4, <1>5, <1>6, <1>7, <1>8 DEF Step

\* They keep asleep who is to be woken.
LEMMA StepSleepers ==
  ASSUME IInv, NEW u \in Thread, NEW e \in Xstream, Step(u, e)
  PROVE  Sleepers'
<1> USE DEF IInv
<1>0. /\ pc \in [Thread -> PC] /\ state \in [Thread -> ThreadState] /\ On(u, e)
      /\ u # NoThread /\ NumWaiters \in Nat /\ NumWaiters > 0
      /\ counter \in 0 .. NumWaiters /\ index \in 0 .. NumWaiters - 1
      /\ waiters \in [Position -> Thread \cup {NoThread}]
  BY ThreadsAssumption, BarrierAssumption
     DEF Step, ObjectTypeOK, LayerInv, ThreadsTypeOK, Position
<1>1. CASE Arrive(u)
  <2>1. /\ pc[u] = "wait" /\ lock = NoThread /\ lock' = lock /\ counter + 1 < NumWaiters
        /\ counter' = counter + 1 /\ waiters' = [waiters EXCEPT ![counter] = u]
        /\ state' = [state EXCEPT ![u] = "BLOCKED"] /\ Goto(u, "suspend")
        /\ UNCHANGED <<running, phase>>
    BY <1>1 DEF Arrive, SetBlocked
  <2>2. Asleep = 0 .. counter - 1 /\ Asleep' = 0 .. counter
    BY <1>0, <2>1 DEF Asleep
  <2>3. waiters'[counter] = u /\ \A i \in Asleep : waiters'[i] = waiters[i]
    BY <1>0, <2>1, <2>2 DEF Position
  <2>4. state[u] # "BLOCKED"
    BY <1>0, <2>1, OnNotBlocked
  <2>5. \A i \in Asleep : waiters[i] \in Thread /\ state[waiters[i]] = "BLOCKED" /\ waiters[i] # u
    BY <2>4 DEF Sleepers
  <2>6. \A i \in Asleep' : i \in Asleep \/ i = counter
    BY <1>0, <2>2
  <2>7. \A i \in Asleep' : waiters'[i] \in Thread /\ state'[waiters'[i]] = "BLOCKED"
    BY <1>0, <2>1, <2>3, <2>5, <2>6
  <2>8. \A i, j \in Asleep' : waiters'[i] = waiters'[j] => i = j
    BY <2>3, <2>5, <2>6 DEF Sleepers
  <2>9. /\ \A v \in Thread : state'[v] = "BLOCKED" => pc'[v] \in {"suspend", "return"}
        /\ \A v \in Thread, f \in Xstream :
             (On(v, f) /\ state[v] = "BLOCKED" => pc[v] = "suspend")'
    BY <1>0, <2>1, GotoType DEF Sleepers, On, PC
  <2> QED BY <2>7, <2>8, <2>9 DEF Sleepers
<1>2. CASE Suspend(u, e)
  <2>1. /\ pc[u] = "suspend" /\ Goto(u, "return") /\ SwitchToSched(e)
        /\ UNCHANGED <<lock, counter, index, waiters, state, running>>
    BY <1>2 DEF Suspend, barrierVars
  <2>2. Asleep' = Asleep
    BY <1>0, <2>1, ThreadsAssumption, GotoType DEF Asleep, LockOK, ObjectTypeOK, PC
  <2>3. \A v \in Thread, f \in Xstream : On(v, f)' => On(v, f) /\ v # u
    BY <1>0, <2>1, ThreadsAssumption DEF SwitchToSched, On, LayerInv, ThreadsTypeOK, OneRunner
  <2>4. \A v \in Thread : state'[v] = "BLOCKED" => pc'[v] \in {"suspend", "return"}
    BY <1>0, <2>1, GotoType DEF Sleepers, PC
  <2> QED BY <1>0, <2>1, <2>2, <2>3, <2>4, GotoType DEF Sleepers, PC
<1>3. CASE ArriveLast(u)
  <2>1. /\ pc[u] = "wait" /\ lock = NoThread /\ lock' = u /\ counter + 1 >= NumWaiters
        /\ index' = 0 /\ Goto(u, "wake")
        /\ UNCHANGED <<waiters, state, running, phase>>
    BY <1>3 DEF ArriveLast, threadVars
  <2>2. Asleep = 0 .. NumWaiters - 2 /\ Asleep' = 0 .. NumWaiters - 2
    BY <1>0, <2>1, GotoType DEF Asleep, LockOK, PC
  <2>3. state[u] # "BLOCKED"
    BY <1>0, <2>1, OnNotBlocked
  <2> QED BY <1>0, <2>1, <2>2, <2>3, GotoType DEF Sleepers, On, PC
<1>4. CASE WakeReady(u)
  <2>1. PICK w : w = waiters[index]
    OBVIOUS
  <2>2. /\ pc[u] = "wake" /\ state' = [state EXCEPT ![w] = "READY"] /\ Goto(u, "dec_blocked")
        /\ UNCHANGED <<lock, counter, index, waiters, running, phase>>
    BY <1>4, <2>1 DEF WakeReady, MakeReady, barrierVars
  <2>3. lock = u /\ index \in Asleep /\ w \in Thread
    BY <1>4, <2>1, NextAsleep
  <2>4. \A i \in Asleep' : i \in Asleep /\ i # index
    BY <1>0, <2>2, <2>3, GotoType DEF Asleep, PC
  <2>5. state[u] # "BLOCKED"
    BY <1>0, <2>2, OnNotBlocked
  <2>6. \A i \in Asleep' : waiters[i] \in Thread /\ waiters[i] # w /\ state[waiters[i]] = "BLOCKED"
    BY <2>1, <2>3, <2>4 DEF Sleepers
  <2>7. \A i \in Asleep' : waiters'[i] \in Thread /\ state'[waiters'[i]] = "BLOCKED"
    BY <1>0, <2>2, <2>6
  <2>8. \A i, j \in Asleep' : waiters'[i] = waiters'[j] => i = j
    BY <2>2, <2>4 DEF Sleepers
  <2>9. /\ \A v \in Thread : state'[v] = "BLOCKED" => pc'[v] \in {"suspend", "return"}
        /\ \A v \in Thread, f \in Xstream :
             (On(v, f) /\ state[v] = "BLOCKED" => pc[v] = "suspend")'
    BY <1>0, <2>2, <2>3, <2>5, GotoType DEF Sleepers, On, PC
  <2> QED BY <2>7, <2>8, <2>9 DEF Sleepers
<1>5. CASE WakeDec(u)
  <2>1. /\ pc[u] = "dec_blocked" /\ Goto(u, "wake") /\ index' = index + 1
        /\ waiters' = [waiters EXCEPT ![index] = NoThread]
        /\ UNCHANGED <<lock, counter, state, running, phase>>
    BY <1>5 DEF WakeDec
  <2>2. lock = u /\ pc'[u] = "wake"
    BY <1>0, <2>1, GotoType DEF LockOK, PC
  <2>3. Asleep = index + 1 .. NumWaiters - 2 /\ Asleep' = index + 1 .. NumWaiters - 2
    BY <1>0, <2>1, <2>2 DEF Asleep
  <2>4. \A i \in Asleep : waiters'[i] = waiters[i]
    BY <1>0, <2>1, <2>3 DEF Position
  <2>5. state[u] # "BLOCKED"
    BY <1>0, <2>1, OnNotBlocked
  <2>6. /\ \A v \in Thread : state'[v] = "BLOCKED" => pc'[v] \in {"suspend", "return"}
        /\ \A v \in Thread, f \in Xstream :
             (On(v, f) /\ state[v] = "BLOCKED" => pc[v] = "suspend")'
    BY <1>0, <2>1, <2>5, GotoType DEF Sleepers, On, PC
  <2> QED BY <2>1, <2>3, <2>4, <2>6 DEF Sleepers
<1>6. CASE WakeEnd(u)
  <2>1. /\ pc[u] = "wake" /\ Goto(u, "return") /\ lock' = NoThread /\ counter' = 0
        /\ UNCHANGED <<state, running, phase>>
    BY <1>6 DEF WakeEnd, threadVars
  <2>2. Asleep' = {}
    BY <2>1 DEF Asleep
  <2>3. state[u] # "BLOCKED"
    BY <1>0, <2>1, OnNotBlocked
  <2> QED BY <1>0, <2>1, <2>2, <2>3, GotoType DEF Sleepers, On, PC
<1>7. CASE Return(u) \/ Work(u, e) \/ Leave(u, e)
  <2>1. /\ pc[u] \in {"return", "work", "leave"} /\ UNCHANGED <<lock, counter, index, waiters, running>>
        /\ pc' \in [Thread -> PC] /\ pc'[u] \in {"work", "wait", "leave", "done"}
        /\ \A v \in Thread : v # u => pc'[v] = pc[v]
    BY <1>0, <1>7 DEF Return, Work, Leave, Goto, YieldThread, threadVars, barrierVars, PC
  <2>2. state[u] # "BLOCKED"
    BY <1>0, <2>1, OnNotBlocked
  <2>3. Asleep' = Asleep
    <3>1. lock \in Thread => lock # u \/ pc[u] # "wake"
      BY <2>1
    <3>2. lock \in Thread => (pc'[lock] = "wake" <=> pc[lock] = "wake")
      BY <2>1
    <3> QED BY <2>1, <3>2 DEF Asleep, ObjectTypeOK
  <2>4. \A v \in Thread : state'[v] = "BLOCKED" <=> state[v] = "BLOCKED"
    BY <1>0, <1>7, <2>2 DEF Return, Work, Leave, YieldThread, threadVars
  <2>5. \A v \in Thread, f \in Xstream : On(v, f)' => On(v, f)
    BY <1>0, <1>7 DEF Return, Work, Leave, YieldThread, threadVars, On, SwitchToSched, LayerInv,
                      ThreadsTypeOK
  <2>6. \A v \in Thread : state'[v] = "BLOCKED" => v # u
    BY <2>2, <2>4
  <2> QED BY <2>1, <2>3, <2>4, <2>5, <2>6 DEF Sleepers
<1> QED
  BY <1>1, <1>2, <1>3, <1>4, <1>5, <1>6, <1>7 DEF Step

(***************************************************************************)
(* The invariant is inductive.                                             *)
(***************************************************************************)

\* The initial states.
LEMMA InitInv == Init => IInv
<1> SUFFICES ASSUME Init PROVE IInv
  OBVIOUS
<1> USE DEF Init
<1>1. LayerInv
  BY LayerInit
<1>2. NumWaiters \in Nat /\ NumWaiters > 0 /\ Rounds \in Nat /\ Rounds > 0
  BY BarrierAssumption
<1>3. ObjectTypeOK /\ LockOK
  BY <1>2 DEF ObjectTypeOK, LockOK, Position, PC
<1>4. Asleep = {}
  BY DEF Asleep
<1>5. Sleepers
  BY <1>4 DEF Sleepers, ThreadsInit
<1> QED
  BY <1>1, <1>3, <1>5 DEF IInv

\* The steps of schedulers.
LEMMA SchedInv ==
  ASSUME IInv, NEW e \in Xstream, Sched(e)
  PROVE  IInv'
<1> USE DEF IInv, Sched, barrierVars, localVars
<1>1. LayerInv'
  BY LayerScheduler
<1>2. ObjectTypeOK' /\ LockOK' /\ Asleep' = Asleep
  BY DEF ObjectTypeOK, LockOK, Asleep
<1>3. Sleepers'
  BY <1>2, SchedulerStates DEF Sleepers
<1> QED
  BY <1>1, <1>2, <1>3

\* Every step, or none, keeps the inductive invariant.
LEMMA NextInv == IInv /\ [Next]_vars => IInv'
<1> SUFFICES ASSUME IInv, [Next]_vars PROVE IInv'
  OBVIOUS
<1>1. CASE UNCHANGED vars
  <2> USE <1>1 DEF vars, barrierVars, localVars, IInv
  <2>1. LayerInv'
    BY LayerUnchanged
  <2>2. ObjectTypeOK' /\ LockOK' /\ Sleepers'
    BY DEF ObjectTypeOK, LockOK, Sleepers, Asleep, On, threadVars
  <2> QED BY <2>1, <2>2
<1>2. ASSUME NEW u \in Thread, NEW e \in Xstream, Step(u, e) PROVE IInv'
  BY <1>2, StepLayer, StepObject, StepSleepers DEF IInv
<1> QED
  BY <1>1, <1>2, SchedInv DEF Next

(***************************************************************************)
(* The groups.                                                             *)
(***************************************************************************)

\* As long as nobody completes the group, the counter counts those that wait for it.
LEMMA WaitingCounted ==
  ASSUME IInv, lock = NoThread
  PROVE  /\ Waiting \subseteq Inside
         /\ IsFiniteSet(Waiting) /\ Cardinality(Waiting) = counter
         /\ \A u \in Waiting : state[u] = "BLOCKED"
<1> USE DEF IInv
<1>1. Asleep = 0 .. counter - 1 /\ counter \in Nat
  BY BarrierAssumption DEF Asleep, ObjectTypeOK
<1>2. Waiting = {waiters[i] : i \in Asleep}
  BY <1>1 DEF Waiting
<1>3. /\ \A i \in Asleep : waiters[i] \in Thread /\ state[waiters[i]] = "BLOCKED"
      /\ \A i, j \in Asleep : waiters[i] = waiters[j] => i = j
  BY DEF Sleepers
<1>4. Waiting \subseteq Inside /\ \A u \in Waiting : state[u] = "BLOCKED"
  BY <1>2, <1>3 DEF Inside, Sleepers
<1> DEFINE f == [i \in Asleep |-> waiters[i]]
<1>5. ExistsBijection(Asleep, Waiting)
  <2>1. f \in Bijection(Asleep, Waiting)
    BY <1>2, <1>3 DEF Bijection, Injection, Surjection, IsInjective
  <2> QED BY <2>1 DEF ExistsBijection
<1>6. IsFiniteSet(Asleep) /\ Cardinality(Asleep) = counter
  BY <1>1, FS_Interval
<1>7. IsFiniteSet(Waiting) /\ Cardinality(Waiting) = counter
  BY <1>5, <1>6, FS_Bijection
<1> QED
  BY <1>4, <1>7

\* A ULT that arrives joins the waiting.
LEMMA ArriveJoins ==
  ASSUME IInv, NEW u \in Thread, Arrive(u)
  PROVE  /\ lock = NoThread /\ u \notin Inside
         /\ Waiting' = Waiting \cup {u} /\ Inside' = Inside \cup {u}
<1>0. pc \in [Thread -> PC] /\ counter \in 0 .. NumWaiters /\ NumWaiters \in Nat
      /\ waiters \in [Position -> Thread \cup {NoThread}]
  BY BarrierAssumption DEF IInv, ObjectTypeOK
<1>1. /\ pc[u] = "wait" /\ lock = NoThread /\ lock' = lock /\ counter + 1 < NumWaiters
      /\ counter' = counter + 1 /\ waiters' = [waiters EXCEPT ![counter] = u]
      /\ Goto(u, "suspend")
  BY DEF Arrive
<1>2. \A i \in 0 .. counter - 1 : waiters'[i] = waiters[i]
  BY <1>0, <1>1 DEF Position
<1>3. waiters'[counter] = u
  BY <1>0, <1>1 DEF Position
<1>4. 0 .. counter' - 1 = (0 .. counter - 1) \cup {counter}
  BY <1>0, <1>1
<1>5. Waiting' = Waiting \cup {u}
  <2>1. Waiting' = {waiters'[i] : i \in 0 .. counter' - 1}
    BY <1>1 DEF Waiting
  <2>2. Waiting = {waiters[i] : i \in 0 .. counter - 1}
    BY <1>1 DEF Waiting
  <2> QED BY <1>2, <1>3, <1>4, <2>1, <2>2
<1> QED
  BY <1>0, <1>1, <1>5, GotoType DEF Inside, PC

\* The last one of a group takes over from the waiting.
LEMMA LastCompletes ==
  ASSUME IInv, NEW u \in Thread, ArriveLast(u)
  PROVE  /\ lock = NoThread /\ u \notin Inside /\ counter + 1 = NumWaiters
         /\ Waiting' = {} /\ Inside' = Inside \cup {u}
<1>1. /\ pc[u] = "wait" /\ lock = NoThread /\ lock' = u /\ counter + 1 >= NumWaiters
      /\ Goto(u, "wake") /\ pc \in [Thread -> PC]
  BY DEF ArriveLast, IInv, ObjectTypeOK
<1>2. counter + 1 = NumWaiters
  BY <1>1, BarrierAssumption DEF IInv, LockOK, ObjectTypeOK
<1>3. Waiting' = {}
  BY <1>1, ThreadsAssumption DEF Waiting
<1> QED
  BY <1>1, <1>2, <1>3, GotoType DEF Inside, PC

\* A ULT that returns is not among the waiting.
LEMMA ReturnLeaves ==
  ASSUME IInv, NEW u \in Thread, NEW e \in Xstream, On(u, e), Return(u)
  PROVE  u \in Inside \ Waiting /\ Waiting' = Waiting /\ Inside' = Inside \ {u}
<1>1. pc[u] = "return" /\ state[u] # "BLOCKED"
  BY OnNotBlocked DEF Return, IInv
<1>2. u \notin Waiting
  BY <1>1, WaitingCounted DEF Waiting
<1>3. PICK l \in {"work", "wait", "leave"} : Goto(u, l)
  BY DEF Return
<1>4. Waiting' = Waiting
  BY DEF Return, barrierVars, Waiting
<1>5. pc \in [Thread -> PC]
  BY DEF IInv, ObjectTypeOK
<1> QED
  BY <1>1, <1>2, <1>3, <1>4, <1>5, GotoType DEF Inside, PC

\* Whoever has the barrier locked wakes those that it has released already, and every
\* other step is none of the barrier's.
LEMMA OthersKeep ==
  ASSUME IInv, NEW u \in Thread, NEW e \in Xstream, Step(u, e),
         ~Arrive(u), ~ArriveLast(u), ~Return(u)
  PROVE  Waiting' = Waiting /\ Inside' = Inside
<1>0. pc \in [Thread -> PC]
  BY DEF IInv, ObjectTypeOK
<1>1. CASE Suspend(u, e) \/ WakeReady(u) \/ Work(u, e) \/ Leave(u, e)
  BY <1>0, <1>1, GotoType
     DEF Suspend, WakeReady, Work, Leave, barrierVars, Waiting, Inside, PC
<1>2. CASE WakeDec(u) \/ WakeEnd(u)
  <2>1. lock = u /\ u # NoThread
    BY <1>2, ThreadsAssumption DEF IInv, LockOK, WakeDec, WakeEnd
  <2>2. Waiting = {}
    BY <2>1 DEF Waiting
  <2>3. Waiting' = {}
    BY <1>2, <2>1 DEF WakeDec, WakeEnd, Waiting
  <2>4. Inside' = Inside
    BY <1>0, <1>2, GotoType DEF WakeDec, WakeEnd, Inside, PC
  <2> QED BY <2>2, <2>3, <2>4
<1> QED
  BY <1>1, <1>2 DEF Step

(***************************************************************************)
(* The theorems.                                                           *)
(***************************************************************************)

\* The counter never exceeds the size of a group, and whoever wakes a ULT finds one
\* in the array.
THEOREM BarrierTypeCorrect == Spec => []TypeOK
<1>1. IInv => TypeOK
  <2> SUFFICES ASSUME IInv PROVE TypeOK
    OBVIOUS
  <2>1. ASSUME NEW u \in Thread, pc[u] = "wake", index < NumWaiters - 1
        PROVE  waiters[index] # NoThread
    <3>1. lock = u /\ u # NoThread
      BY <2>1, ThreadsAssumption DEF IInv, LockOK
    <3>2. index \in Asleep
      BY <2>1, <3>1, BarrierAssumption DEF Asleep, IInv, ObjectTypeOK, Position
    <3> QED BY <3>2, ThreadsAssumption DEF IInv, Sleepers
  <2> QED BY <2>1 DEF IInv, LayerInv, ObjectTypeOK, LockOK, TypeOK
<1> QED
  BY <1>1, InitInv, NextInv, PTL DEF Spec

\* The layer under the barrier is safe: no ULT runs on two ESs, none is pushed to a
\* pool before its context is saved, none is in the pools twice.
THEOREM BarrierThreadsSafe == Spec => [](OneRunner /\ SavedBeforePush /\ QueuedOnce)
<1>1. IInv => OneRunner /\ SavedBeforePush /\ QueuedOnce
  BY DEF IInv, LayerInv
<1> QED
  BY <1>1, InitInv, NextInv, PTL DEF Spec

\* ABT_barrier implements the abstract barrier: it releases whole groups, of
\* num_waiters ULTs each.
THEOREM BarrierImplements == Spec => ImplementsBarrier
<1> DEFINE Released == Inside \ Waiting
<1>1. Init => B!Init
  <2> SUFFICES ASSUME Init PROVE Waiting = {} /\ Inside = {}
    BY DEF B!Init
  <2>1. \A i \in 0 .. counter - 1 : FALSE
    BY DEF Init
  <2> QED BY <2>1 DEF Init, Waiting, Inside
<1>0. B!Cardinality(Waiting) = Cardinality(Waiting)
  BY Zenon DEF B!Cardinality, Cardinality
<1>2. ASSUME IInv, [Next]_vars PROVE [B!Next]_<<Waiting, Released>>
  <2>1. ASSUME NEW u \in Thread, NEW e \in Xstream, Step(u, e)
        PROVE  [B!Next]_<<Waiting, Released>>
    <3>1. CASE Arrive(u)
      <4>1. Waiting' = Waiting \cup {u} /\ Released' = Released /\ u \notin Waiting \cup Released
        BY <1>2, <3>1, ArriveJoins, WaitingCounted
      <4>2. Cardinality(Waiting) + 1 < NumWaiters
        BY <1>2, <3>1, ArriveJoins, WaitingCounted DEF Arrive
      <4> QED BY <1>0, <4>1, <4>2 DEF B!Next, B!Arrive
    <3>2. CASE ArriveLast(u)
      <4>1. /\ Waiting' = {} /\ Released' = Released \cup Waiting \cup {u}
            /\ u \notin Waiting \cup Released
        BY <1>2, <3>2, LastCompletes, WaitingCounted
      <4>2. Cardinality(Waiting) + 1 = NumWaiters
        BY <1>2, <3>2, LastCompletes, WaitingCounted
      <4> QED BY <1>0, <4>1, <4>2 DEF B!Next, B!Complete
    <3>3. CASE Return(u)
      <4>1. u \in Released /\ Released' = Released \ {u} /\ Waiting' = Waiting
        BY <1>2, <2>1, <3>3, ReturnLeaves DEF Step
      <4> QED BY <4>1 DEF B!Next, B!Return
    <3>4. CASE ~Arrive(u) /\ ~ArriveLast(u) /\ ~Return(u)
      BY <1>2, <2>1, <3>4, OthersKeep
    <3> QED BY <3>1, <3>2, <3>3, <3>4
  <2>2. CASE UNCHANGED <<barrierVars, localVars>>
    BY <2>2 DEF barrierVars, localVars, Waiting, Inside
  <2> QED BY <1>2, <2>1, <2>2 DEF Next, Sched, vars
<1> QED
  BY <1>1, <1>2, InitInv, NextInv, PTL DEF Spec, ImplementsBarrier, B!Spec
=============================================================================
