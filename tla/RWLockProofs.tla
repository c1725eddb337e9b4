---------------------------- MODULE RWLockProofs ----------------------------
(***************************************************************************)
(* Proofs about RWLock, for every finite set of ULTs, every set of ESs and *)
(* pools and every program of read and write locks.                        *)
(***************************************************************************)
EXTENDS RWLock, ThreadsProofs, FiniteSetTheorems

(***************************************************************************)
(* The inductive invariant.                                                *)
(***************************************************************************)

ObjectTypeOK ==
  /\ owner \in Thread \cup {NoThread}
  /\ waiters \in Seq(Thread)
  /\ readerCount \in Int
  /\ writeFlag \in {0, 1}
  /\ pc \in [Thread -> PC]
  /\ op \in [Thread -> {"rdlock", "wrlock"}]
  /\ target \in [Thread -> Thread \cup {NoThread}]
  /\ rounds \in [Thread -> Nat]
  /\ \A u \in Thread : pc[u] = "dec_blocked" => target[u] # NoThread

\* Where a ULT has the mutex.
OwnerPC == {"test", "wait", "locked", "release", "broadcast", "dec_blocked", "unlocked"}
Owning == \A u \in Thread : pc[u] \in OwnerPC => owner = u

\* The flag and the count tell what the holders are, although they do not name them.
Counted ==
  /\ writeFlag = 1 <=> Writers # {}
  /\ \A u, v \in Writers : u = v
  /\ writeFlag = 1 => Readers = {}
  /\ readerCount = Cardinality(Readers)

\* The queue holds ULTs that are BLOCKED, each once; a ULT is BLOCKED from its entry
\* into the queue until it is woken, and is on an ES only until it has switched.
Queued ==
  /\ \A i \in DOMAIN waiters : state[waiters[i]] = "BLOCKED"
  /\ \A i, j \in DOMAIN waiters : waiters[i] = waiters[j] => i = j
  /\ \A u \in Thread : state[u] = "BLOCKED" => pc[u] \in {"suspend", "relock"}
  /\ \A u \in Thread, e \in Xstream :
       On(u, e) /\ state[u] = "BLOCKED" => pc[u] = "suspend"

\* Whoever has decided to wait still has a reason to when it enters the queue.
Waits == \A u \in Thread : pc[u] = "wait" => Busy(u)

IInv ==
  /\ LayerInv
  /\ ObjectTypeOK
  /\ Owning
  /\ Counted
  /\ Queued
  /\ Waits /\ NoSleeper

\* A ULT that goes to another place in its program.
LEMMA GotoType ==
  ASSUME NEW u \in Thread, NEW l \in PC, pc \in [Thread -> PC], Goto(u, l)
  PROVE  /\ pc' \in [Thread -> PC]
         /\ pc'[u] = l
         /\ \A v \in Thread : v # u => pc'[v] = pc[v]
BY DEF Goto

(***************************************************************************)
(* The layer.                                                              *)
(***************************************************************************)

\* A ULT that executes is BLOCKED only where it is about to switch.
LEMMA OnNotBlocked ==
  ASSUME Queued, NEW u \in Thread, NEW e \in Xstream, On(u, e), pc[u] # "suspend"
  PROVE  state[u] # "BLOCKED"
BY DEF Queued

\* Every step of a ULT keeps the layer.
LEMMA StepLayer ==
  ASSUME IInv, NEW u \in Thread, NEW e \in Xstream, Step(u, e)
  PROVE  LayerInv'
<1> USE DEF IInv
<1>1. On(u, e)
  BY DEF Step
<1>2. ASSUME NEW l, NEW m, l # "suspend", MutexLock(u, e, l, m) PROVE LayerInv'
  BY <1>1, <1>2, OnNotBlocked, LayerYields, LayerUnchanged DEF MutexLock
<1>3. CASE Start(u) \/ Test(u) \/ Relock(u) \/ Locked(u) \/ Release(u) \/ AllWoken(u) \/ Unlocked(u)
  <2>1. UNCHANGED threadVars
    BY <1>3 DEF Start, Test, Relock, Locked, Release, AllWoken, Unlocked
  <2> QED BY <2>1, LayerUnchanged
<1>4. CASE Lock(u, e) \/ UnlockLock(u, e)
  BY <1>2, <1>4 DEF Lock, UnlockLock
<1>5. CASE Wait(u)
  BY <1>1, <1>5, LayerBlocks DEF Wait
<1>6. CASE Suspend(u, e)
  <2>1. CASE owner = u
    <3>1. UNCHANGED threadVars
      BY <1>6, <2>1 DEF Suspend, threadVars
    <3> QED BY <3>1, LayerUnchanged
  <2>2. CASE owner # u
    BY <1>1, <1>6, <2>2, LayerSwitches DEF Suspend
  <2> QED BY <2>1, <2>2
<1>7. CASE HoldAndYield(u, e)
  BY <1>1, <1>7, OnNotBlocked, LayerYields DEF HoldAndYield
<1>8. CASE WakeNext(u)
  <2>1. Head(waiters) \in Thread /\ state[Head(waiters)] = "BLOCKED"
    <3>1. waiters \in Seq(Thread) /\ waiters # <<>>
      BY <1>8 DEF WakeNext, ObjectTypeOK
    <3>2. Head(waiters) \in Thread /\ Head(waiters) = waiters[1] /\ 1 \in DOMAIN waiters
      BY <3>1, HeadTailProperties, LenProperties, EmptySeq
    <3> QED BY <3>2 DEF Queued
  <2> QED BY <1>8, <2>1, LayerWakes DEF WakeNext
<1>9. CASE WakeDec(u)
  <2>1. target[u] \in Thread
    BY <1>9 DEF WakeDec, ObjectTypeOK
  <2> QED BY <1>9, <2>1, LayerCounts DEF WakeDec
<1>10. CASE Terminate(u, e)
  <2>1. state[u] # "BLOCKED"
    BY <1>1, <1>10, OnNotBlocked DEF Terminate
  <2> QED BY <1>1, <1>10, <2>1, LayerEnds DEF Terminate
<1> QED
  BY <1>3, <1>4, <1>5, <1>6, <1>7, <1>8, <1>9, <1>10 DEF Step, Acquire, GiveUp

(***************************************************************************)
(* The mutex and the variables it protects.                                *)
(***************************************************************************)

\* Every step of a ULT keeps the types of the object and of the local state.
LEMMA StepType ==
  ASSUME IInv, NEW u \in Thread, NEW e \in Xstream, Step(u, e)
  PROVE  ObjectTypeOK'
<1> USE DEF IInv, ObjectTypeOK
<1>1. ASSUME NEW l \in PC, NEW m \in PC \ {"dec_blocked"}, MutexLock(u, e, l, m)
      PROVE  ObjectTypeOK'
  BY <1>1, GotoType DEF MutexLock
<1>2. CASE Start(u)
  <2>1. PICK o \in Ops[u] : op' = [op EXCEPT ![u] = o]
    BY <1>2 DEF Start
  <2>2. op' \in [Thread -> {"rdlock", "wrlock"}]
    BY <2>1, RWLockAssumption
  <2>3. rounds' \in [Thread -> Nat]
    BY <1>2 DEF Start
  <2> QED BY <1>2, <2>2, <2>3, GotoType DEF Start, PC, rwVars
<1>3. CASE Lock(u, e) \/ UnlockLock(u, e)
  BY <1>1, <1>3 DEF Lock, UnlockLock, PC
<1>4. CASE Test(u)
  <2>1. PICK l \in {"wait", "locked"} : Goto(u, l)
    BY <1>4 DEF Test
  <2>2. readerCount' \in Int /\ writeFlag' \in {0, 1}
    BY <1>4 DEF Test
  <2> QED BY <1>4, <2>1, <2>2, GotoType DEF Test, PC
<1>5. CASE Wait(u)
  <2>1. waiters' \in Seq(Thread)
    BY <1>5, AppendProperties DEF Wait
  <2> QED BY <1>5, <2>1, GotoType DEF Wait, PC
<1>6. CASE Suspend(u, e)
  BY <1>6, GotoType DEF Suspend, PC
<1>7. CASE Relock(u) \/ Locked(u)
  BY <1>7, GotoType DEF Relock, Locked, PC
<1>8. CASE HoldAndYield(u, e)
  BY <1>8, GotoType DEF HoldAndYield, PC, rwVars
<1>9. CASE Release(u)
  <2>1. readerCount' \in Int /\ writeFlag' \in {0, 1}
    BY <1>9 DEF Release
  <2> QED BY <1>9, <2>1, GotoType DEF Release, PC
<1>10. CASE WakeNext(u)
  <2>1. Head(waiters) \in Thread /\ waiters' \in Seq(Thread)
    BY <1>10, HeadTailProperties DEF WakeNext
  <2>2. target' \in [Thread -> Thread \cup {NoThread}] /\ target'[u] # NoThread
        /\ \A v \in Thread : v # u => target'[v] = target[v]
    BY <1>10, <2>1, ThreadsAssumption DEF WakeNext
  <2> QED BY <1>10, <2>1, <2>2, GotoType DEF WakeNext, PC
<1>11. CASE WakeDec(u)
  <2>1. target' \in [Thread -> Thread \cup {NoThread}]
        /\ \A v \in Thread : v # u => target'[v] = target[v]
    BY <1>11 DEF WakeDec
  <2> QED BY <1>11, <2>1, GotoType DEF WakeDec, PC, rwVars
<1>12. CASE AllWoken(u)
  BY <1>12, GotoType DEF AllWoken, PC, rwVars
<1>13. CASE Unlocked(u)
  BY <1>13, GotoType DEF Unlocked, PC
<1>14. CASE Terminate(u, e)
  BY <1>14, GotoType DEF Terminate, PC, rwVars
<1> QED
  BY <1>2, <1>3, <1>4, <1>5, <1>6, <1>7, <1>8, <1>9, <1>10, <1>11, <1>12, <1>13, <1>14
     DEF Step, Acquire, GiveUp

\* Only the ULT that has the mutex is where the mutex is needed.
LEMMA StepOwning ==
  ASSUME IInv, NEW u \in Thread, NEW e \in Xstream, Step(u, e)
  PROVE  Owning'
<1> USE DEF IInv, Owning, OwnerPC
<1>0. pc \in [Thread -> PC]
  BY DEF ObjectTypeOK
<1>1. ASSUME NEW l \in PC, NEW m \in PC, MutexLock(u, e, l, m) PROVE Owning'
  BY <1>0, <1>1, ThreadsAssumption, GotoType DEF MutexLock
<1>2. CASE Lock(u, e) \/ UnlockLock(u, e)
  BY <1>1, <1>2 DEF Lock, UnlockLock, PC
<1>3. CASE Start(u) \/ HoldAndYield(u, e) \/ Terminate(u, e)
  BY <1>0, <1>3, GotoType DEF Start, HoldAndYield, Terminate, rwVars, PC
<1>4. CASE Test(u)
  <2>1. PICK l \in {"wait", "locked"} : Goto(u, l)
    BY <1>4 DEF Test
  <2> QED BY <1>0, <1>4, <2>1, GotoType DEF Test, PC
<1>5. CASE Wait(u) \/ Suspend(u, e)
  BY <1>0, <1>5, GotoType DEF Wait, Suspend, PC
<1>6. CASE Relock(u)
  BY <1>0, <1>6, ThreadsAssumption, GotoType DEF Relock, PC
<1>7. CASE Locked(u) \/ Unlocked(u)
  BY <1>0, <1>7, GotoType DEF Locked, Unlocked, PC
<1>8. CASE Release(u)
  BY <1>0, <1>8, GotoType DEF Release, PC
<1>9. CASE WakeNext(u) \/ WakeDec(u) \/ AllWoken(u)
  BY <1>0, <1>9, GotoType DEF WakeNext, WakeDec, AllWoken, rwVars, PC
<1> QED
  BY <1>2, <1>3, <1>4, <1>5, <1>6, <1>7, <1>8, <1>9 DEF Step, Acquire, GiveUp

(***************************************************************************)
(* The readers and writers.                                                *)
(***************************************************************************)

\* A ULT becomes a reader, a writer, or gives the lock up; nobody else changes.
LEMMA HoldersChange ==
  ASSUME NEW u \in Thread, NEW l \in PC, pc \in [Thread -> PC], Goto(u, l), op' = op
  PROVE  LET keeps == l \in {"locked", "hold", "held", "release"}
         IN  /\ Readers' = IF keeps /\ op[u] = "rdlock" THEN Readers \cup {u} ELSE Readers \ {u}
             /\ Writers' = IF keeps /\ op[u] = "wrlock" THEN Writers \cup {u} ELSE Writers \ {u}
BY GotoType DEF Readers, Writers, Holds

\* A step between two places that are both with, or both without, the lock.
LEMMA SameHolders ==
  ASSUME Counted, NEW u \in Thread, NEW l \in PC, pc \in [Thread -> PC], Goto(u, l),
         op' = op, readerCount' = readerCount, writeFlag' = writeFlag,
         op[u] \in {"rdlock", "wrlock"},
         Holds(u) <=> l \in {"locked", "hold", "held", "release"}
  PROVE  Counted' /\ Readers' = Readers /\ Writers' = Writers
<1>1. Readers' = Readers /\ Writers' = Writers
  BY HoldersChange DEF Readers, Writers
<1> QED
  BY <1>1 DEF Counted

\* The readers are finitely many.
LEMMA ReadersFinite == IsFiniteSet(Readers)
BY RWLockAssumption, FS_Subset DEF Readers

\* A ULT that gets the lock gets it as the abstract lock allows.
LEMMA TestCounted ==
  ASSUME IInv, NEW u \in Thread, Test(u)
  PROVE  /\ Counted'
         /\ \/ Readers' = Readers /\ Writers' = Writers
            \/ u \notin Readers /\ Writers = {} /\ Readers' = Readers \cup {u} /\ Writers' = Writers
            \/ Readers = {} /\ Writers = {} /\ Writers' = {u} /\ Readers' = Readers
<1> USE DEF IInv, Test
<1>0. pc \in [Thread -> PC] /\ op[u] \in {"rdlock", "wrlock"} /\ writeFlag \in {0, 1}
  BY DEF ObjectTypeOK
<1>1. ~Holds(u) /\ u \notin Readers /\ u \notin Writers
  BY DEF Holds, Readers, Writers
<1>2. CASE Busy(u)
  BY <1>0, <1>1, <1>2, SameHolders DEF PC
<1>3. CASE ~Busy(u) /\ op[u] = "rdlock"
  <2>1. Readers' = Readers \cup {u} /\ Writers' = Writers
    BY <1>0, <1>1, <1>3, HoldersChange DEF PC
  <2>2. writeFlag' = writeFlag /\ writeFlag # 1 /\ Writers = {}
    BY <1>3 DEF Busy, Counted
  <2>3. Cardinality(Readers \cup {u}) = Cardinality(Readers) + 1
    BY <1>1, ReadersFinite, FS_AddElement
  <2> QED BY <1>1, <1>3, <2>1, <2>2, <2>3 DEF Counted
<1>4. CASE ~Busy(u) /\ op[u] = "wrlock"
  <2>1. Writers' = Writers \cup {u} /\ Readers' = Readers
    BY <1>0, <1>1, <1>4, HoldersChange DEF PC
  <2>2. writeFlag' = 1 /\ readerCount' = readerCount /\ writeFlag # 1 /\ ~(readerCount > 0)
    BY <1>4 DEF Busy
  <2>3. Writers = {} /\ Cardinality(Readers) \in Nat /\ Cardinality(Readers) = 0
    BY <2>2, ReadersFinite, FS_CardinalityType DEF Counted
  <2>4. Readers = {}
    BY <2>3, ReadersFinite, FS_EmptySet
  <2> QED BY <2>1, <2>2, <2>3, <2>4 DEF Counted
<1> QED
  BY <1>0, <1>2, <1>3, <1>4

\* Unlock finds out rightly whether its caller is the writer or a reader.
LEMMA ReleaseCounted ==
  ASSUME IInv, NEW u \in Thread, Release(u)
  PROVE  /\ Counted'
         /\ \/ u \in Readers /\ Readers' = Readers \ {u} /\ Writers' = Writers
            \/ u \in Writers /\ Writers' = Writers \ {u} /\ Readers' = Readers
<1> USE DEF IInv, Release
<1>0. pc \in [Thread -> PC] /\ op[u] \in {"rdlock", "wrlock"} /\ writeFlag \in {0, 1}
  BY DEF ObjectTypeOK
<1>1. u \in Readers \cup Writers
  BY <1>0 DEF Holds, Readers, Writers
<1>2. Readers' = Readers \ {u} /\ Writers' = Writers \ {u}
  BY <1>0, HoldersChange DEF PC
<1>3. CASE writeFlag = 1
  <2>1. Writers = {u} /\ Readers = {}
    BY <1>1, <1>3 DEF Counted
  <2> QED BY <1>2, <1>3, <2>1 DEF Counted
<1>4. CASE writeFlag = 0
  <2>1. Writers = {} /\ u \in Readers
    BY <1>1, <1>4 DEF Counted
  <2>2. Cardinality(Readers \ {u}) = Cardinality(Readers) - 1
    BY <2>1, ReadersFinite, FS_RemoveElement
  <2> QED BY <1>2, <1>4, <2>1, <2>2 DEF Counted
<1> QED
  BY <1>0, <1>3, <1>4

\* Every other step leaves the readers and the writers as they are.
LEMMA OthersCounted ==
  ASSUME IInv, NEW u \in Thread, NEW e \in Xstream, Step(u, e), ~Test(u), ~Release(u)
  PROVE  Counted' /\ Readers' = Readers /\ Writers' = Writers
<1> USE DEF IInv
<1>0. pc \in [Thread -> PC] /\ op[u] \in {"rdlock", "wrlock"} /\ op \in [Thread -> {"rdlock", "wrlock"}]
  BY DEF ObjectTypeOK
<1>1. ASSUME UNCHANGED <<pc, op, readerCount, writeFlag>>
      PROVE  Counted' /\ Readers' = Readers /\ Writers' = Writers
  BY <1>1 DEF Counted, Readers, Writers, Holds
<1>2. CASE Start(u)
  <2>1. Readers' = Readers /\ Writers' = Writers
    BY <1>0, <1>2 DEF Start, Readers, Writers, Holds, Goto
  <2> QED BY <1>2, <2>1 DEF Start, Counted, rwVars
<1>3. CASE Lock(u, e)
  BY <1>0, <1>1, <1>3, SameHolders DEF Lock, MutexLock, Holds, PC
<1>4. CASE UnlockLock(u, e)
  BY <1>0, <1>1, <1>4, SameHolders DEF UnlockLock, MutexLock, Holds, PC
<1>5. CASE Wait(u) \/ Relock(u)
  BY <1>0, <1>5, SameHolders DEF Wait, Relock, Holds, PC
<1>6. CASE Suspend(u, e)
  BY <1>0, <1>1, <1>6, SameHolders DEF Suspend, Holds, PC
<1>7. CASE Locked(u) \/ Unlocked(u)
  BY <1>0, <1>7, SameHolders DEF Locked, Unlocked, Holds, PC
<1>8. CASE HoldAndYield(u, e) \/ Terminate(u, e)
  BY <1>0, <1>8, SameHolders DEF HoldAndYield, Terminate, Holds, PC, rwVars
<1>9. CASE WakeNext(u) \/ WakeDec(u) \/ AllWoken(u)
  BY <1>0, <1>9, SameHolders DEF WakeNext, WakeDec, AllWoken, Holds, PC, rwVars
<1> QED
  BY <1>2, <1>3, <1>4, <1>5, <1>6, <1>7, <1>8, <1>9 DEF Step, Acquire, GiveUp

(***************************************************************************)
(* The queue, and who sleeps in it.                                        *)
(***************************************************************************)

\* A step that leaves the queue and the states of its members alone, by a ULT that
\* is not in it.
LEMMA SameQueue ==
  ASSUME Queued, NEW u \in Thread, NEW l \in PC, pc \in [Thread -> PC], Goto(u, l),
         state[u] # "BLOCKED", waiters' = waiters, state' \in [Thread -> ThreadState],
         \A v \in Thread : state'[v] = "BLOCKED" <=> state[v] = "BLOCKED",
         waiters \in Seq(Thread),
         \A v \in Thread, e \in Xstream : On(v, e)' => On(v, e)
  PROVE  Queued'
<1>1. \A i \in DOMAIN waiters : waiters[i] \in Thread
  BY ElementOfSeq, LenProperties
<1> QED
  BY <1>1, GotoType DEF Queued

\* Every step of a ULT keeps the queue a list of blocked ULTs.
LEMMA StepQueued ==
  ASSUME IInv, NEW u \in Thread, NEW e \in Xstream, Step(u, e)
  PROVE  Queued'
<1> USE DEF IInv
<1>0. /\ pc \in [Thread -> PC] /\ state \in [Thread -> ThreadState] /\ On(u, e)
      /\ waiters \in Seq(Thread)
  BY DEF ObjectTypeOK, LayerInv, ThreadsTypeOK, Step
<1>1. ASSUME UNCHANGED <<pc, waiters, state, running, phase>> PROVE Queued'
  BY <1>1 DEF Queued, On
<1>2. ASSUME NEW l \in PC, NEW m \in PC, l # "suspend", MutexLock(u, e, l, m) PROVE Queued'
  <2>1. state[u] # "BLOCKED"
    BY <1>0, <1>2, OnNotBlocked DEF MutexLock
  <2>2. CASE owner = NoThread
    <3>1. Goto(u, m) /\ waiters' = waiters /\ UNCHANGED <<state, running, phase>>
      BY <1>2, <2>2 DEF MutexLock, threadVars
    <3> QED BY <1>0, <2>1, <3>1, SameQueue DEF On
  <2>3. CASE owner # NoThread
    <3>1. YieldThread(u, e) /\ UNCHANGED <<pc, waiters, running>>
      BY <1>2, <2>3 DEF MutexLock, YieldThread
    <3>2. \A v \in Thread : state'[v] = "BLOCKED" <=> state[v] = "BLOCKED"
      BY <1>0, <2>1, <3>1 DEF YieldThread
    <3>3. \A v \in Thread, f \in Xstream : On(v, f)' => On(v, f)
      BY <1>0, <3>1 DEF YieldThread, SwitchToSched, On, LayerInv, ThreadsTypeOK
    <3>4. \A i \in DOMAIN waiters : waiters[i] \in Thread
      BY <1>0, ElementOfSeq, LenProperties
    <3> QED BY <3>1, <3>2, <3>3, <3>4 DEF Queued
  <2> QED BY <2>2, <2>3
<1>3. CASE Start(u) \/ Test(u) \/ Locked(u) \/ Release(u) \/ AllWoken(u) \/ Unlocked(u)
           \/ WakeDec(u)
  <2>1. /\ state[u] # "BLOCKED"
        /\ UNCHANGED <<state, running, phase, waiters>>
    BY <1>0, <1>3, OnNotBlocked
       DEF Start, Test, Locked, Release, AllWoken, Unlocked, WakeDec, threadVars, rwVars
  <2>2. PICK l \in PC : Goto(u, l)
    BY <1>3 DEF Start, Test, Locked, Release, AllWoken, Unlocked, WakeDec, PC
  <2> QED BY <1>0, <2>1, <2>2, SameQueue DEF On
<1>4. CASE Lock(u, e) \/ UnlockLock(u, e)
  BY <1>2, <1>4 DEF Lock, UnlockLock, PC
<1>5. CASE Relock(u)
  <2>1. /\ state[u] # "BLOCKED" /\ Goto(u, "test")
        /\ UNCHANGED <<state, running, phase, waiters>>
    BY <1>0, <1>5, OnNotBlocked DEF Relock, threadVars
  <2> QED BY <1>0, <2>1, SameQueue DEF On, PC
<1>6. CASE HoldAndYield(u, e) \/ Terminate(u, e)
  <2>1. state[u] # "BLOCKED" /\ waiters' = waiters /\ SwitchToSched(e) /\ running' = running
    BY <1>0, <1>6, OnNotBlocked DEF HoldAndYield, Terminate, YieldThread, rwVars
  <2>2. PICK l \in PC : Goto(u, l)
    BY <1>6 DEF HoldAndYield, Terminate, PC
  <2>3. /\ state' \in [Thread -> ThreadState]
        /\ \A v \in Thread : state'[v] = "BLOCKED" <=> state[v] = "BLOCKED"
    BY <1>0, <1>6, <2>1 DEF HoldAndYield, Terminate, YieldThread, ThreadState
  <2>4. \A v \in Thread, f \in Xstream : On(v, f)' => On(v, f)
    BY <1>0, <2>1 DEF SwitchToSched, On, LayerInv, ThreadsTypeOK
  <2> QED BY <1>0, <2>1, <2>2, <2>3, <2>4, SameQueue
<1>7. CASE Wait(u)
  <2>1. /\ pc[u] = "wait" /\ state' = [state EXCEPT ![u] = "BLOCKED"]
        /\ waiters' = Append(waiters, u) /\ Goto(u, "suspend")
        /\ UNCHANGED <<running, phase>>
    BY <1>7 DEF Wait, SetBlocked
  <2>2. /\ Len(waiters) \in Nat /\ DOMAIN waiters = 1 .. Len(waiters)
        /\ DOMAIN waiters' = 1 .. Len(waiters) + 1
        /\ waiters'[Len(waiters) + 1] = u
        /\ \A i \in 1 .. Len(waiters) : waiters'[i] = waiters[i] /\ waiters[i] \in Thread
    BY <1>0, <2>1, AppendProperties, LenProperties, ElementOfSeq
  <2>3. \A i \in DOMAIN waiters : waiters[i] # u
    BY <2>1 DEF Queued
  <2>4. \A i \in DOMAIN waiters' : state'[waiters'[i]] = "BLOCKED"
    BY <1>0, <2>1, <2>2 DEF Queued
  <2>5. \A i, j \in DOMAIN waiters' : waiters'[i] = waiters'[j] => i = j
    BY <2>2, <2>3 DEF Queued
  <2>6. /\ \A v \in Thread : state'[v] = "BLOCKED" => pc'[v] \in {"suspend", "relock"}
        /\ \A v \in Thread, f \in Xstream : (On(v, f) /\ state[v] = "BLOCKED" => pc[v] = "suspend")'
    BY <1>0, <2>1, GotoType DEF Queued, On, PC
  <2> QED BY <2>4, <2>5, <2>6 DEF Queued
<1>8. CASE Suspend(u, e)
  <2>1. CASE owner = u
    <3>1. UNCHANGED <<pc, waiters, state, running, phase>>
      BY <1>8, <2>1 DEF Suspend
    <3> QED BY <1>1, <3>1
  <2>2. CASE owner # u
    <3>1. /\ pc[u] = "suspend" /\ Goto(u, "relock") /\ SwitchToSched(e)
          /\ UNCHANGED <<waiters, state, running>>
      BY <1>8, <2>2 DEF Suspend
    <3>2. \A v \in Thread, f \in Xstream : On(v, f)' => On(v, f) /\ v # u
      BY <1>0, <3>1, ThreadsAssumption
         DEF SwitchToSched, On, LayerInv, ThreadsTypeOK, OneRunner
    <3>3. \A v \in Thread : state'[v] = "BLOCKED" => pc'[v] \in {"suspend", "relock"}
      BY <1>0, <3>1, GotoType DEF Queued, PC
    <3> QED BY <1>0, <3>1, <3>2, <3>3, GotoType DEF Queued, PC
  <2> QED BY <2>1, <2>2
<1>9. CASE WakeNext(u)
  <2>1. PICK h : h = Head(waiters)
    OBVIOUS
  <2>2. /\ pc[u] = "broadcast" /\ waiters # <<>> /\ state' = [state EXCEPT ![h] = "READY"]
        /\ waiters' = Tail(waiters) /\ Goto(u, "dec_blocked")
        /\ UNCHANGED <<running, phase>>
    BY <1>9, <2>1 DEF WakeNext, MakeReady
  <2>3. /\ Len(waiters) \in Nat /\ DOMAIN waiters = 1 .. Len(waiters) /\ Len(waiters) > 0
        /\ h = waiters[1] /\ h \in Thread
        /\ DOMAIN waiters' = 1 .. Len(waiters) - 1
        /\ \A i \in 1 .. Len(waiters) - 1 :
             waiters'[i] = waiters[i + 1] /\ waiters[i + 1] \in Thread
    BY <1>0, <2>1, <2>2, HeadTailProperties, LenProperties, ElementOfSeq, EmptySeq
  <2>4. \A i \in 1 .. Len(waiters) - 1 :
          i + 1 \in DOMAIN waiters /\ waiters[i + 1] # h /\ state[waiters[i + 1]] = "BLOCKED"
    BY <2>3 DEF Queued
  <2>5. \A i \in DOMAIN waiters' : state'[waiters'[i]] = "BLOCKED"
    BY <1>0, <2>2, <2>3, <2>4
  <2>6. ASSUME NEW i \in DOMAIN waiters', NEW j \in DOMAIN waiters', waiters'[i] = waiters'[j]
        PROVE  i = j
    <3>1. i + 1 = j + 1
      BY <2>3, <2>4, <2>6 DEF Queued
    <3> QED BY <2>3, <3>1
  <2>7. state[u] # "BLOCKED"
    BY <1>0, <2>2, OnNotBlocked
  <2>8. \A v \in Thread : state'[v] = "BLOCKED" => pc'[v] \in {"suspend", "relock"}
    BY <1>0, <2>2, <2>3, <2>7, GotoType DEF Queued, PC
  <2>9. \A v \in Thread, f \in Xstream : (On(v, f) /\ state[v] = "BLOCKED" => pc[v] = "suspend")'
    BY <1>0, <2>2, <2>3, <2>7, GotoType DEF Queued, On, PC
  <2> QED BY <2>5, <2>6, <2>8, <2>9 DEF Queued
<1> QED
  BY <1>3, <1>4, <1>5, <1>6, <1>7, <1>8, <1>9 DEF Step, Acquire, GiveUp

\* Every step of a ULT that is no release leaves a lock that is taken for a ULT taken
\* for it.
LEMMA StaysBusy ==
  ASSUME IInv, NEW u \in Thread, NEW e \in Xstream, Step(u, e), ~Release(u),
         NEW v \in Thread, Busy(v), v # u \/ ~Start(u)
  PROVE  Busy(v)'
<1> USE DEF IInv, Busy
<1>1. op'[v] = op[v]
  BY DEF Step, Acquire, GiveUp, Start, Lock, Test, Wait, Suspend, Relock, Locked, HoldAndYield,
         UnlockLock, MutexLock, WakeNext, WakeDec, AllWoken, Unlocked, Terminate, localVars,
         Release, ObjectTypeOK
<1>2. CASE Test(u)
  BY <1>1, <1>2 DEF Test, ObjectTypeOK
<1>3. CASE ~Test(u)
  <2>1. UNCHANGED <<readerCount, writeFlag>>
    BY <1>3 DEF Step, Acquire, GiveUp, Start, Lock, Wait, Suspend, Relock, Locked, HoldAndYield,
         UnlockLock, MutexLock, WakeNext, WakeDec, AllWoken, Unlocked, Terminate, rwVars
  <2> QED BY <1>1, <2>1
<1> QED
  BY <1>2, <1>3

\* Every step of a ULT keeps the reasons of those that are about to wait.
LEMMA StepWaits ==
  ASSUME IInv, NEW u \in Thread, NEW e \in Xstream, Step(u, e)
  PROVE  Waits'
<1> USE DEF IInv
<1> SUFFICES ASSUME NEW v \in Thread, pc'[v] = "wait" PROVE Busy(v)'
  BY DEF Waits
<1>0. pc \in [Thread -> PC]
  BY DEF ObjectTypeOK
<1>1. CASE v = u
  <2>1. Test(u) /\ Busy(u)
    BY <1>0, <1>1 DEF Step, Acquire, GiveUp, Start, Lock, Test, Wait, Suspend, Relock, Locked,
         HoldAndYield, UnlockLock, MutexLock, WakeNext, WakeDec, AllWoken, Unlocked, Terminate,
         Release, Goto
  <2>2. UNCHANGED <<readerCount, writeFlag, op>>
    BY <1>0, <1>1, <2>1 DEF Test, Goto
  <2> QED BY <1>1, <2>1, <2>2 DEF Busy
<1>2. CASE v # u
  <2>1. pc[v] = "wait"
    BY <1>0, <1>2 DEF Step, Acquire, GiveUp, Start, Lock, Test, Wait, Suspend, Relock, Locked,
         HoldAndYield, UnlockLock, MutexLock, WakeNext, WakeDec, AllWoken, Unlocked, Terminate,
         Release, Goto
  <2>2. ~Release(u)
    BY <1>2, <2>1 DEF Release, Owning, OwnerPC
  <2> QED BY <1>2, <2>1, <2>2, StaysBusy DEF Waits
<1> QED
  BY <1>1, <1>2

\* Every step of a ULT keeps NoSleeper.
LEMMA StepNoSleeper ==
  ASSUME IInv, NEW u \in Thread, NEW e \in Xstream, Step(u, e)
  PROVE  NoSleeper'
<1> USE DEF IInv
<1>0. pc \in [Thread -> PC] /\ waiters \in Seq(Thread) /\ On(u, e)
  BY DEF ObjectTypeOK, Step
<1>1. CASE Release(u) \/ WakeNext(u) \/ WakeDec(u)
  BY <1>0, <1>1, GotoType DEF Release, WakeNext, WakeDec, NoSleeper, PC
<1>2. CASE AllWoken(u)
  <2>1. waiters' = <<>>
    BY <1>2 DEF AllWoken, rwVars
  <2> QED BY <2>1 DEF NoSleeper
<1>3. CASE Wait(u)
  <2>1. /\ DOMAIN waiters' = 1 .. Len(waiters) + 1 /\ DOMAIN waiters = 1 .. Len(waiters)
        /\ waiters'[Len(waiters) + 1] = u /\ Len(waiters) \in Nat
        /\ \A i \in 1 .. Len(waiters) : waiters'[i] = waiters[i]
    BY <1>0, <1>3, AppendProperties, LenProperties DEF Wait
  <2>2. ~Release(u) /\ ~Start(u) /\ Busy(u)
    BY <1>3 DEF Wait, Release, Start, Waits
  <2>3. Busy(u)'
    BY <2>2, StaysBusy
  <2>4. ASSUME NEW i \in 1 .. Len(waiters)
        PROVE  Busy(waiters[i])' \/ \E w \in Thread : pc'[w] \in {"broadcast", "dec_blocked"}
    <3>1. PICK v \in Thread : v = waiters[i]
      BY <1>0, <2>1, ElementOfSeq
    <3>2. CASE Busy(v)
      <4>1. Busy(v)'
        BY <2>2, <3>2, StaysBusy
      <4>2. waiters'[i] = v /\ waiters[i] = v
        BY <2>1, <3>1
      <4> QED BY <4>1, <4>2, <1>3 DEF Busy, Wait
    <3>3. CASE \E w \in Thread : pc[w] \in {"broadcast", "dec_blocked"}
      BY <1>0, <1>3, <3>3, GotoType DEF Wait, PC
    <3> QED BY <2>1, <3>1, <3>2, <3>3 DEF NoSleeper
  <2>5. ASSUME NEW i \in DOMAIN waiters'
        PROVE  (Busy(waiters[i]) \/ \E w \in Thread : pc[w] \in {"broadcast", "dec_blocked"})'
    <3>1. CASE i = Len(waiters) + 1
      BY <2>1, <2>3, <3>1 DEF Busy
    <3>2. CASE i \in 1 .. Len(waiters)
      BY <2>1, <2>4, <3>2 DEF Busy
    <3> QED BY <2>1, <3>1, <3>2
  <2> QED BY <2>5 DEF NoSleeper
<1>4. CASE ~(Release(u) \/ WakeNext(u) \/ WakeDec(u) \/ AllWoken(u) \/ Wait(u))
  <2>1. waiters' = waiters /\ pc[u] \notin {"broadcast", "dec_blocked"}
    BY <1>4 DEF Step, Acquire, GiveUp, Start, Lock, Test, Suspend, Relock, Locked,
         HoldAndYield, UnlockLock, MutexLock, Unlocked, Terminate, rwVars
  <2>2. \A w \in Thread : w # u => pc'[w] = pc[w]
    BY <1>0, <1>4 DEF Step, Acquire, GiveUp, Start, Lock, Test, Suspend, Relock, Locked,
         HoldAndYield, UnlockLock, MutexLock, Unlocked, Terminate, Goto
  <2>3. ASSUME NEW i \in DOMAIN waiters
        PROVE  (Busy(waiters[i]) \/ \E w \in Thread : pc[w] \in {"broadcast", "dec_blocked"})'
    <3>1. PICK v \in Thread : v = waiters[i]
      BY <1>0, LenProperties, ElementOfSeq
    <3>2. CASE Busy(v)
      <4>1. v # u \/ ~Start(u)
        BY <1>0, <3>1, OnNotBlocked DEF Start, Queued
      <4>2. Busy(v)'
        BY <1>4, <3>2, <4>1, StaysBusy
      <4> QED BY <2>1, <3>1, <4>2 DEF Busy
    <3>3. CASE \E w \in Thread : pc[w] \in {"broadcast", "dec_blocked"}
      BY <2>1, <2>2, <3>3
    <3> QED BY <3>1, <3>2, <3>3 DEF NoSleeper
  <2> QED BY <2>1, <2>3 DEF NoSleeper
<1> QED
  BY <1>1, <1>2, <1>3, <1>4

(***************************************************************************)
(* The invariant is inductive.                                             *)
(***************************************************************************)

\* The initial states.
LEMMA InitInv == Init => IInv
<1> SUFFICES ASSUME Init PROVE IInv
  OBVIOUS
<1> USE DEF Init
<1>1. LayerInv
  BY LayerInit
<1>2. ObjectTypeOK
  BY RWLockAssumption, EmptySeq DEF ObjectTypeOK, PC
<1>3. Owning /\ Waits
  BY DEF Owning, OwnerPC, Waits
<1>4. Readers = {} /\ Writers = {}
  BY DEF Readers, Writers, Holds
<1>5. Counted
  BY <1>4, FS_EmptySet DEF Counted
<1>6. Queued /\ NoSleeper
  BY DEF Queued, NoSleeper, ThreadsInit
<1> QED
  BY <1>1, <1>2, <1>3, <1>5, <1>6 DEF IInv

\* The steps of ULTs.
LEMMA StepInv ==
  ASSUME IInv, NEW u \in Thread, NEW e \in Xstream, Step(u, e)
  PROVE  IInv'
<1>1. Counted'
  BY TestCounted, ReleaseCounted, OthersCounted
<1> QED
  BY <1>1, StepLayer, StepType, StepOwning, StepQueued, StepWaits, StepNoSleeper DEF IInv

\* The steps of schedulers.
LEMMA SchedInv ==
  ASSUME IInv, NEW e \in Xstream, Sched(e)
  PROVE  IInv'
<1> USE DEF IInv, Sched, rwVars, localVars
<1>1. LayerInv'
  BY LayerScheduler
<1>2. ObjectTypeOK' /\ Owning' /\ Waits' /\ NoSleeper'
  BY DEF ObjectTypeOK, Owning, Waits, Busy, NoSleeper
<1>3. Counted'
  BY DEF Counted, Readers, Writers, Holds
<1>4. \A i \in DOMAIN waiters : waiters[i] \in Thread
  BY ElementOfSeq, LenProperties DEF ObjectTypeOK
<1>5. Queued'
  BY <1>4, SchedulerStates DEF Queued
<1> QED
  BY <1>1, <1>2, <1>3, <1>5

\* Every step, or none, keeps the inductive invariant.
LEMMA NextInv == IInv /\ [Next]_vars => IInv'
<1> SUFFICES ASSUME IInv, [Next]_vars PROVE IInv'
  OBVIOUS
<1>1. CASE UNCHANGED vars
  <2> USE <1>1 DEF vars, rwVars, localVars, IInv
  <2>1. LayerInv'
    BY LayerUnchanged
  <2>2. ObjectTypeOK' /\ Owning' /\ Waits' /\ NoSleeper'
    BY DEF ObjectTypeOK, Owning, Waits, Busy, NoSleeper
  <2>3. Counted' /\ Queued'
    BY DEF Counted, Readers, Writers, Holds, Queued, On, threadVars
  <2> QED BY <2>1, <2>2, <2>3
<1> QED
  BY <1>1, StepInv, SchedInv DEF Next

(***************************************************************************)
(* The theorems.                                                           *)
(***************************************************************************)

\* The count of readers never drops below zero, and no NULL ULT is counted out of
\* the blocked ones, whoever releases the lock.
THEOREM RWLockTypeCorrect == Spec => []TypeOK
<1>1. IInv => TypeOK
  BY ReadersFinite, FS_CardinalityType DEF IInv, LayerInv, ObjectTypeOK, Counted, TypeOK
<1> QED
  BY <1>1, InitInv, NextInv, PTL DEF Spec

\* No ULT sleeps in the queue of a lock that is free for it, unless it is being woken.
THEOREM RWLockNoSleeper == Spec => []NoSleeper
<1>1. IInv => NoSleeper
  BY DEF IInv
<1> QED
  BY <1>1, InitInv, NextInv, PTL DEF Spec

\* The layer under the lock is safe: no ULT runs on two ESs, none is pushed to a
\* pool before its context is saved, none is in the pools twice.
THEOREM RWLockThreadsSafe == Spec => [](OneRunner /\ SavedBeforePush /\ QueuedOnce)
<1>1. IInv => OneRunner /\ SavedBeforePush /\ QueuedOnce
  BY DEF IInv, LayerInv
<1> QED
  BY <1>1, InitInv, NextInv, PTL DEF Spec

\* ABT_rwlock implements the abstract readers-writer lock.
THEOREM RWLockImplements == Spec => ImplementsRWLock
<1>1. Init => Abstract!Init
  BY DEF Init, Abstract!Init, Readers, Writers, Holds
<1>2. ASSUME IInv, [Next]_vars PROVE [Abstract!Next]_(Abstract!vars)
  <2> USE DEF Abstract!Next, Abstract!vars
  <2>1. ASSUME NEW u \in Thread, NEW e \in Xstream, Step(u, e)
        PROVE  Abstract!Next \/ (Readers' = Readers /\ Writers' = Writers)
    <3>1. CASE Test(u)
      BY <1>2, <3>1, TestCounted DEF Abstract!Read, Abstract!Write
    <3>2. CASE Release(u)
      BY <1>2, <3>2, ReleaseCounted DEF Abstract!Release
    <3>3. CASE ~Test(u) /\ ~Release(u)
      BY <1>2, <2>1, <3>3, OthersCounted
    <3> QED BY <3>1, <3>2, <3>3
  <2>2. ASSUME NEW e \in Xstream, Sched(e) PROVE Readers' = Readers /\ Writers' = Writers
    BY <2>2 DEF Sched, localVars, Readers, Writers, Holds
  <2>3. CASE UNCHANGED vars
    BY <2>3 DEF vars, localVars, Readers, Writers, Holds
  <2> QED BY <1>2, <2>1, <2>2, <2>3 DEF Next
<1> QED
  BY <1>1, <1>2, InitInv, NextInv, PTL DEF Spec, ImplementsRWLock, Abstract!Spec
=============================================================================
