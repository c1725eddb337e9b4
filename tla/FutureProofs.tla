---------------------------- MODULE FutureProofs ----------------------------
(***************************************************************************)
(* Proofs about Future, for every set of eventuals, futures, ULTs, ESs and *)
(* pools, and every program of calls.                                      *)
(***************************************************************************)
EXTENDS Future, ThreadsProofs

(***************************************************************************)
(* The inductive invariant.                                                *)
(***************************************************************************)

ObjectTypeOK ==
  /\ ready \in [Obj -> BOOLEAN]
  /\ counter \in [FutureObj -> Nat]
  /\ lock \in [Obj -> Thread \cup {NoThread}]
  /\ waiters \in [Obj -> Seq(Thread)]
  /\ pc \in [Thread -> PC]
  /\ calls \in [Thread -> Seq(Op)]
  /\ \A u \in Thread : pc[u] \notin {"call", "done"} => calls[u] # <<>>

Resolved(o) == ready[o] /\ (o \in FutureObj => counter[o] >= Compartments[o])

\* Whoever wakes ULTs has locked an object that it has resolved; nobody is left in
\* the queue of one that is ready and not locked.
LockOK ==
  /\ \A u \in Thread : pc[u] \in {"wake", "dec_blocked"} =>
       /\ lock[Target(u)] = u
       /\ waiters[Target(u)] # <<>>
       /\ Resolved(Target(u))
  /\ \A o \in Obj : lock[o] = NoThread /\ ready[o] => waiters[o] = <<>>

\* The head of a queue was made ready, and is not unlinked yet.
Woken(o) ==
  \E u \in Thread : lock[o] = u /\ pc[u] = "dec_blocked" /\ Target(u) = o

Asleep(o) == {i \in DOMAIN waiters[o] : i = 1 => ~Woken(o)}

\* All others in a queue are BLOCKED in a wait for that object, once each, and all that
\* are BLOCKED are in a queue; on an ES a ULT is BLOCKED only until it has switched.
Sleepers ==
  /\ \A o \in Obj : \A i \in Asleep(o) :
       state[waiters[o][i]] = "BLOCKED" /\ Target(waiters[o][i]) = o
  /\ \A o \in Obj : \A i, j \in Asleep(o) : waiters[o][i] = waiters[o][j] => i = j
  /\ \A u \in Thread : state[u] = "BLOCKED" =>
       /\ pc[u] \in {"suspend", "resume"}
       /\ \E i \in Asleep(Target(u)) : waiters[Target(u)][i] = u
  /\ \A u \in Thread, e \in Xstream :
       On(u, e) /\ state[u] = "BLOCKED" => pc[u] = "suspend"

IInv ==
  /\ LayerInv
  /\ ObjectTypeOK
  /\ LockOK
  /\ Sleepers

\* A ULT that goes to another place in its program.
LEMMA GotoType ==
  ASSUME NEW u \in Thread, NEW l \in PC, pc \in [Thread -> PC], Goto(u, l)
  PROVE  /\ pc' \in [Thread -> PC]
         /\ pc'[u] = l
         /\ \A v \in Thread : v # u => pc'[v] = pc[v]
BY DEF Goto

\* The calls that a ULT has left, and the object of the current one.
LEMMA CallType ==
  ASSUME ObjectTypeOK, NEW u \in Thread, calls[u] # <<>>
  PROVE  /\ Target(u) \in Obj
         /\ Tail(calls[u]) \in Seq(Op)
<1>1. calls[u] \in Seq(Op) /\ calls[u] # <<>>
  BY DEF ObjectTypeOK
<1>2. Head(calls[u]) \in Op /\ Tail(calls[u]) \in Seq(Op)
  BY <1>1, HeadTailProperties
<1> QED
  BY <1>2 DEF Target, Op

\* A call that returns.
LEMMA ReturnsType ==
  ASSUME ObjectTypeOK, NEW u \in Thread, calls[u] # <<>>, Returns(u)
  PROVE  /\ pc' \in [Thread -> PC] /\ pc'[u] = "call"
         /\ \A v \in Thread : v # u => pc'[v] = pc[v] /\ calls'[v] = calls[v]
         /\ calls' \in [Thread -> Seq(Op)]
<1>1. Tail(calls[u]) \in Seq(Op)
  BY CallType
<1>2. calls' = [calls EXCEPT ![u] = Tail(calls[u])] /\ Goto(u, "call")
  BY DEF Returns
<1> QED
  BY <1>1, <1>2, GotoType DEF ObjectTypeOK, PC

\* A ULT that executes is BLOCKED only where it is about to switch.
LEMMA OnNotBlocked ==
  ASSUME Sleepers, NEW u \in Thread, NEW e \in Xstream, On(u, e), pc[u] # "suspend"
  PROVE  state[u] # "BLOCKED"
BY DEF Sleepers

\* The ULT to be woken next.
LEMMA NextAsleep ==
  ASSUME IInv, NEW u \in Thread, pc[u] = "wake", NEW w, w = Head(waiters[Target(u)])
  PROVE  /\ Target(u) \in Obj /\ lock[Target(u)] = u
         /\ 1 \in Asleep(Target(u)) /\ w = waiters[Target(u)][1]
         /\ w \in Thread /\ state[w] = "BLOCKED" /\ Target(w) = Target(u)
<1>1. Target(u) \in Obj /\ lock[Target(u)] = u /\ waiters[Target(u)] # <<>>
  BY CallType DEF IInv, LockOK, ObjectTypeOK
<1>2. waiters[Target(u)] \in Seq(Thread)
  BY <1>1 DEF IInv, ObjectTypeOK
<1>3. w = waiters[Target(u)][1] /\ w \in Thread /\ 1 \in DOMAIN waiters[Target(u)]
  BY <1>1, <1>2, HeadTailProperties, LenProperties, EmptySeq
<1>4. ~Woken(Target(u))
  BY <1>1 DEF Woken
<1>5. 1 \in Asleep(Target(u))
  BY <1>3, <1>4 DEF Asleep
<1> QED
  BY <1>1, <1>3, <1>5 DEF IInv, Sleepers

\* The head of a queue that is being unlinked.
LEMMA HeadThread ==
  ASSUME IInv, NEW u \in Thread, pc[u] = "dec_blocked"
  PROVE  /\ Target(u) \in Obj /\ lock[Target(u)] = u
         /\ waiters[Target(u)] \in Seq(Thread) /\ waiters[Target(u)] # <<>>
         /\ Head(waiters[Target(u)]) \in Thread
<1>1. Target(u) \in Obj /\ lock[Target(u)] = u /\ waiters[Target(u)] # <<>>
  BY CallType DEF IInv, LockOK, ObjectTypeOK
<1>2. waiters[Target(u)] \in Seq(Thread)
  BY <1>1 DEF IInv, ObjectTypeOK
<1> QED
  BY <1>1, <1>2, HeadTailProperties

(***************************************************************************)
(* The steps of a ULT.                                                     *)
(***************************************************************************)

\* They keep the layer.
LEMMA StepLayer ==
  ASSUME IInv, NEW u \in Thread, NEW e \in Xstream, Step(u, e)
  PROVE  LayerInv'
<1> USE DEF IInv
<1>1. On(u, e)
  BY DEF Step
<1>2. CASE UNCHANGED threadVars
  BY <1>2, LayerUnchanged
<1>3. CASE Wait(u)
  <2>1. CASE UNCHANGED threadVars
    BY <2>1, <1>2
  <2>2. CASE SetBlocked(u) /\ UNCHANGED <<lastES, pool, running, phase>>
    BY <1>1, <2>2, LayerBlocks
  <2> QED BY <1>3, <2>1, <2>2 DEF Wait
<1>4. CASE Suspend(u, e)
  BY <1>1, <1>4, LayerSwitches DEF Suspend
<1>5. CASE Resume(u) \/ EventualSet(u) \/ FutureSet(u) \/ FutureSetFails(u) \/ Reset(u)
  BY <1>2, <1>5 DEF Resume, EventualSet, FutureSet, FutureSetFails, Reset
<1>6. CASE Test(u, e)
  <2>1. state[u] # "BLOCKED"
    BY <1>1, <1>6, OnNotBlocked DEF Test, Calls
  <2> QED BY <1>1, <1>2, <1>6, <2>1, LayerYields DEF Test
<1>7. CASE WakeReady(u)
  <2>1. PICK w : w = Head(waiters[Target(u)])
    OBVIOUS
  <2>2. w \in Thread /\ state[w] = "BLOCKED"
    BY <1>7, <2>1, NextAsleep DEF WakeReady
  <2>3. /\ CanSetReady(w) /\ MakeReady(w)
        /\ UNCHANGED <<request, lastES, numBlocked, running, phase>>
    BY <1>7, <2>1 DEF WakeReady
  <2> QED BY <2>2, <2>3, LayerWakes
<1>8. CASE WakeDec(u)
  <2>1. Head(waiters[Target(u)]) \in Thread
    BY <1>8, HeadThread DEF WakeDec
  <2> QED BY <1>8, <2>1, LayerCounts DEF WakeDec
<1>9. CASE Leave(u, e)
  <2>1. state[u] # "BLOCKED"
    BY <1>1, <1>9, OnNotBlocked DEF Leave
  <2> QED BY <1>1, <1>9, <2>1, LayerEnds DEF Leave
<1> QED
  BY <1>3, <1>4, <1>5, <1>6, <1>7, <1>8, <1>9 DEF Step

\* Whatever a step does to the object of its ULT, other ULTs that wake have locked others.
LEMMA OthersWake ==
  ASSUME IInv, NEW u \in Thread, NEW v \in Thread, v # u, pc[v] \in {"wake", "dec_blocked"},
         pc'[v] = pc[v], calls'[v] = calls[v],
         \A o \in Obj : lock[o] \in Thread \ {u} =>
           /\ lock'[o] = lock[o] /\ waiters'[o] = waiters[o]
           /\ ready'[o] = ready[o]
           /\ o \in FutureObj => counter'[o] = counter[o]
  PROVE  (lock[Target(v)] = v /\ waiters[Target(v)] # <<>> /\ Resolved(Target(v)))'
<1>1. Target(v) \in Obj /\ lock[Target(v)] = v /\ waiters[Target(v)] # <<>> /\ Resolved(Target(v))
  BY CallType DEF IInv, LockOK, ObjectTypeOK
<1>2. Target(v)' = Target(v)
  BY DEF Target
<1> QED
  BY <1>1, <1>2 DEF Resolved

\* They keep the types, and what the lock of an object means.
LEMMA StepObject ==
  ASSUME IInv, NEW u \in Thread, NEW e \in Xstream, Step(u, e)
  PROVE  ObjectTypeOK' /\ LockOK'
<1> USE DEF IInv
<1>0. u # NoThread /\ \A o \in FutureObj : Compartments[o] \in Nat \ {0}
  BY ThreadsAssumption, FutureAssumption
<1>1. CASE UNCHANGED objVars /\ Returns(u) /\ calls[u] # <<>> /\ pc[u] \notin {"wake", "dec_blocked"}
  <2>1. ObjectTypeOK'
    BY <1>1, ReturnsType DEF ObjectTypeOK, objVars
  <2>2. \A v \in Thread : v # u => pc'[v] = pc[v] /\ calls'[v] = calls[v]
    BY <1>1, ReturnsType
  <2>3. pc'[u] = "call"
    BY <1>1, ReturnsType
  <2> QED BY <1>1, <2>1, <2>2, <2>3 DEF LockOK, Resolved, Target, objVars
<1>2. CASE /\ UNCHANGED <<objVars, calls>> /\ pc[u] \notin {"wake", "dec_blocked"}
           /\ \/ Goto(u, "resume") /\ calls[u] # <<>>
              \/ Goto(u, "done")
              \/ UNCHANGED pc
  <2>1. ObjectTypeOK'
    BY <1>2, GotoType DEF ObjectTypeOK, objVars, PC
  <2>2. /\ \A v \in Thread : v # u => pc'[v] = pc[v]
        /\ pc'[u] \notin {"wake", "dec_blocked"}
    BY <1>2, GotoType DEF ObjectTypeOK, PC
  <2> QED BY <1>2, <2>1, <2>2 DEF LockOK, Resolved, Target, objVars
<1>3. CASE Suspend(u, e)
  BY <1>2, <1>3 DEF Suspend, ObjectTypeOK
<1>4. CASE Resume(u)
  BY <1>1, <1>4 DEF Resume, ObjectTypeOK
<1>5. CASE Test(u, e)
  BY <1>1, <1>2, <1>5 DEF Test, Calls, localVars
<1>6. CASE Leave(u, e)
  BY <1>2, <1>6 DEF Leave
<1>7. CASE Wait(u)
  <2>1. calls[u] # <<>> /\ pc[u] = "call" /\ lock[Target(u)] = NoThread
    BY <1>7 DEF Wait, Calls
  <2>2. CASE Returns(u) /\ UNCHANGED <<objVars, threadVars>>
    BY <1>1, <2>1, <2>2 DEF Wait, objVars
  <2>3. CASE /\ ~ready[Target(u)]
             /\ waiters' = [waiters EXCEPT ![Target(u)] = Append(@, u)]
             /\ Goto(u, "suspend")
             /\ UNCHANGED <<calls, ready, counter, lock>>
    <3>1. Target(u) \in Obj /\ Append(waiters[Target(u)], u) \in Seq(Thread)
      BY <2>1, CallType, AppendProperties DEF ObjectTypeOK
    <3>2. pc' \in [Thread -> PC] /\ pc'[u] = "suspend" /\ \A v \in Thread : v # u => pc'[v] = pc[v]
      BY <2>3, GotoType DEF ObjectTypeOK, PC
    <3>3. ObjectTypeOK'
      BY <2>1, <2>3, <3>1, <3>2 DEF ObjectTypeOK
    <3>4. \A o \in Obj : o # Target(u) => waiters'[o] = waiters[o]
      BY <2>3 DEF ObjectTypeOK
    <3>5. \A o \in Obj : lock'[o] = NoThread /\ ready'[o] => waiters'[o] = <<>>
      BY <2>3, <3>4 DEF LockOK
    <3>6. \A v \in Thread : pc'[v] \in {"wake", "dec_blocked"} =>
            (lock[Target(v)] = v /\ waiters[Target(v)] # <<>> /\ Resolved(Target(v)))'
      BY <2>1, <2>3, <3>2, <3>4, OthersWake, ThreadsAssumption, ZenonT(30)
    <3> QED BY <3>3, <3>5, <3>6 DEF LockOK
  <2> QED BY <1>7, <2>2, <2>3 DEF Wait, objVars
<1>8. CASE EventualSet(u) \/ FutureSet(u) \/ FutureSetFails(u) \/ Reset(u)
  <2>1. calls[u] # <<>> /\ pc[u] = "call" /\ lock[Target(u)] = NoThread /\ Target(u) \in Obj
    BY <1>8, CallType DEF EventualSet, FutureSet, FutureSetFails, Reset, Calls
  <2>a. PICK o \in Obj : o = Target(u)
    BY <2>1
  <2>b. /\ waiters' = waiters
        /\ \/ counter' = counter
           \/ counter' = [counter EXCEPT ![o] = @ + 1] /\ o \in FutureObj
        /\ \/ /\ Goto(u, "wake") /\ UNCHANGED calls /\ waiters[o] # <<>>
              /\ lock' = [lock EXCEPT ![o] = u] /\ ready' = [ready EXCEPT ![o] = TRUE]
              /\ o \in FutureObj => counter'[o] = Compartments[o]
           \/ /\ Returns(u)
              /\ \/ lock' = lock /\ waiters[o] = <<>> /\ ready' = [ready EXCEPT ![o] = TRUE]
                 \/ lock' = lock /\ ready' \in {ready, [ready EXCEPT ![o] = FALSE]}
                 \/ lock' = [lock EXCEPT ![o] = u] /\ ready' = ready
    <3>1. CASE EventualSet(u)
      BY <3>1, <2>a, FutureAssumption DEF EventualSet, Resolve
    <3>2. CASE FutureSet(u)
      BY <3>2, <2>a DEF FutureSet, Resolve
    <3>3. CASE FutureSetFails(u)
      BY <3>3, <2>a DEF FutureSetFails
    <3>4. CASE Reset(u)
      BY <3>4, <2>a DEF Reset
    <3> QED BY <1>8, <3>1, <3>2, <3>3, <3>4
  <2>2. /\ waiters' = waiters
        /\ \A q \in Obj : q # o =>
             /\ lock'[q] = lock[q]
             /\ ready'[q] = ready[q]
             /\ q \in FutureObj => counter'[q] = counter[q]
    BY <2>b DEF ObjectTypeOK
  <2>3. \/ Returns(u)
        \/ /\ Goto(u, "wake") /\ UNCHANGED calls /\ waiters[o] # <<>>
           /\ lock'[o] = u /\ ready'[o] = TRUE
           /\ o \in FutureObj => counter'[o] >= Compartments[o]
    BY <1>0, <2>b DEF ObjectTypeOK
  <2>4. /\ pc' \in [Thread -> PC] /\ calls' \in [Thread -> Seq(Op)]
        /\ \A v \in Thread : v # u => pc'[v] = pc[v] /\ calls'[v] = calls[v]
        /\ pc'[u] \in {"call", "wake"} /\ (pc'[u] = "wake" => calls'[u] = calls[u])
    <3>1. CASE Returns(u)
      BY <2>1, <3>1, ReturnsType
    <3>2. CASE Goto(u, "wake") /\ UNCHANGED calls
      BY <3>2, GotoType DEF ObjectTypeOK, PC
    <3> QED BY <2>3, <3>1, <3>2
  <2>5. /\ lock' \in [Obj -> Thread \cup {NoThread}]
        /\ ready' \in [Obj -> BOOLEAN]
        /\ counter' \in [FutureObj -> Nat]
    <3>1. lock' \in [Obj -> Thread \cup {NoThread}] /\ ready' \in [Obj -> BOOLEAN]
      BY <2>b DEF ObjectTypeOK
    <3>2. CASE counter' = counter
      BY <3>1, <3>2 DEF ObjectTypeOK
    <3>3. CASE counter' = [counter EXCEPT ![o] = @ + 1] /\ o \in FutureObj
      <4>1. counter[o] + 1 \in Nat
        BY <3>3 DEF ObjectTypeOK
      <4> QED BY <3>1, <3>3, <4>1 DEF ObjectTypeOK
    <3> QED BY <2>b, <3>1, <3>2, <3>3
  <2>6. ObjectTypeOK'
    BY <2>1, <2>2, <2>4, <2>5 DEF ObjectTypeOK
  <2>7. lock'[o] = NoThread /\ ready'[o] => waiters[o] = <<>>
    BY <1>0, <2>1, <2>a, <2>b, <2>3 DEF ObjectTypeOK, LockOK
  <2>8. \A q \in Obj : lock'[q] = NoThread /\ ready'[q] => waiters'[q] = <<>>
    BY <2>2, <2>7 DEF LockOK
  <2>9. \A v \in Thread : v # u /\ pc'[v] \in {"wake", "dec_blocked"} =>
          (lock[Target(v)] = v /\ waiters[Target(v)] # <<>> /\ Resolved(Target(v)))'
    BY <2>1, <2>a, <2>2, <2>4, OthersWake, ThreadsAssumption, ZenonT(30)
  <2>10. pc'[u] \in {"wake", "dec_blocked"} =>
           (lock[Target(u)] = u /\ waiters[Target(u)] # <<>> /\ Resolved(Target(u)))'
    <3>1. SUFFICES ASSUME pc'[u] = "wake"
                   PROVE (lock[Target(u)] = u /\ waiters[Target(u)] # <<>> /\ Resolved(Target(u)))'
      BY <2>4
    <3>2. Target(u)' = o
      BY <2>a, <2>4, <3>1 DEF Target
    <3>3. ~Returns(u)
      BY <2>1, <3>1, ReturnsType
    <3> QED BY <2>1, <2>2, <2>3, <3>2, <3>3 DEF Resolved
  <2> QED BY <2>6, <2>8, <2>9, <2>10 DEF LockOK
<1>9. CASE WakeReady(u)
  <2>1. /\ pc[u] = "wake" /\ UNCHANGED <<objVars, calls>> /\ Goto(u, "dec_blocked")
    BY <1>9 DEF WakeReady
  <2>2. pc' \in [Thread -> PC] /\ \A v \in Thread : v # u => pc'[v] = pc[v]
    BY <2>1, GotoType DEF ObjectTypeOK, PC
  <2>3. ObjectTypeOK'
    BY <2>1, <2>2 DEF ObjectTypeOK, objVars
  <2> QED BY <2>1, <2>2, <2>3 DEF LockOK, Resolved, Target, objVars
<1>10. CASE WakeDec(u)
  <2>1. /\ pc[u] = "dec_blocked" /\ calls[u] # <<>> /\ Target(u) \in Obj /\ lock[Target(u)] = u
        /\ waiters[Target(u)] \in Seq(Thread) /\ waiters[Target(u)] # <<>>
        /\ Tail(waiters[Target(u)]) \in Seq(Thread) /\ Resolved(Target(u))
    BY <1>10, HeadThread, HeadTailProperties DEF WakeDec, LockOK, ObjectTypeOK
  <2>2. /\ waiters' = [waiters EXCEPT ![Target(u)] = Tail(@)] /\ UNCHANGED <<ready, counter>>
        /\ \/ /\ Tail(waiters[Target(u)]) = <<>> /\ Returns(u)
              /\ lock' = [lock EXCEPT ![Target(u)] = NoThread]
           \/ /\ Tail(waiters[Target(u)]) # <<>> /\ Goto(u, "wake")
              /\ UNCHANGED <<lock, calls>>
    BY <1>10 DEF WakeDec
  <2>3. /\ pc' \in [Thread -> PC] /\ calls' \in [Thread -> Seq(Op)]
        /\ \A v \in Thread : v # u => pc'[v] = pc[v] /\ calls'[v] = calls[v]
        /\ pc'[u] = IF Tail(waiters[Target(u)]) = <<>> THEN "call" ELSE "wake"
        /\ pc'[u] = "wake" => calls'[u] = calls[u]
    <3>1. CASE Returns(u) /\ Tail(waiters[Target(u)]) = <<>>
      BY <2>1, <3>1, ReturnsType
    <3>2. CASE Goto(u, "wake") /\ UNCHANGED calls /\ Tail(waiters[Target(u)]) # <<>>
      BY <3>2, GotoType DEF ObjectTypeOK, PC
    <3> QED BY <2>2, <3>1, <3>2
  <2>4. /\ lock' \in [Obj -> Thread \cup {NoThread}] /\ waiters' \in [Obj -> Seq(Thread)]
        /\ waiters'[Target(u)] = Tail(waiters[Target(u)])
        /\ \A o \in Obj : o # Target(u) => lock'[o] = lock[o] /\ waiters'[o] = waiters[o]
    BY <2>1, <2>2 DEF ObjectTypeOK
  <2>5. ObjectTypeOK'
    BY <2>1, <2>2, <2>3, <2>4 DEF ObjectTypeOK
  <2>6. \A o \in Obj : lock'[o] = NoThread /\ ready'[o] => waiters'[o] = <<>>
    BY <1>0, <2>1, <2>2, <2>4 DEF LockOK
  <2>7. \A v \in Thread : v # u /\ pc'[v] \in {"wake", "dec_blocked"} =>
          (lock[Target(v)] = v /\ waiters[Target(v)] # <<>> /\ Resolved(Target(v)))'
    BY <2>1, <2>2, <2>3, <2>4, OthersWake, ZenonT(30)
  <2>8. pc'[u] \in {"wake", "dec_blocked"} =>
          (lock[Target(u)] = u /\ waiters[Target(u)] # <<>> /\ Resolved(Target(u)))'
    <3>1. SUFFICES ASSUME pc'[u] = "wake"
                   PROVE (lock[Target(u)] = u /\ waiters[Target(u)] # <<>> /\ Resolved(Target(u)))'
      BY <2>3
    <3>2. Target(u)' = Target(u) /\ Tail(waiters[Target(u)]) # <<>>
      BY <2>3, <3>1 DEF Target
    <3> QED BY <2>1, <2>2, <2>4, <3>2 DEF Resolved
  <2> QED BY <2>5, <2>6, <2>7, <2>8 DEF LockOK
<1> QED
  BY <1>3, <1>4, <1>5, <1>6, <1>7, <1>8, <1>9, <1>10 DEF Step

\* A step that leaves the queues alone and is no part of a wake-up changes nobody's
\* place in them.
LEMMA KeepsAsleep ==
  ASSUME IInv, NEW u \in Thread,
         waiters' = waiters, pc[u] # "dec_blocked", pc'[u] # "dec_blocked",
         \A o \in Obj : lock'[o] = lock[o] \/ (lock[o] = NoThread /\ lock'[o] = u),
         \A v \in Thread : v # u => pc'[v] = pc[v] /\ calls'[v] = calls[v]
  PROVE  \A o \in Obj : Asleep(o)' = Asleep(o)
<1>1. \A v \in Thread : v # u => Target(v)' = Target(v)
  BY DEF Target
<1>2. NoThread \notin Thread
  BY ThreadsAssumption
<1>3. \A o \in Obj : Woken(o)' <=> Woken(o)
  BY <1>1, <1>2 DEF Woken
<1> QED
  BY <1>3 DEF Asleep

\* Such a step of a ULT that is not BLOCKED keeps asleep who is.
LEMMA KeepsSleepers ==
  ASSUME IInv, NEW u \in Thread,
         waiters' = waiters, pc[u] # "dec_blocked", pc'[u] # "dec_blocked",
         \A o \in Obj : lock'[o] = lock[o] \/ (lock[o] = NoThread /\ lock'[o] = u),
         \A v \in Thread : v # u => pc'[v] = pc[v] /\ calls'[v] = calls[v],
         state[u] # "BLOCKED", \A v \in Thread : state'[v] = "BLOCKED" <=> state[v] = "BLOCKED",
         \A v \in Thread, f \in Xstream : On(v, f)' => On(v, f)
  PROVE  Sleepers'
<1>1. \A o \in Obj : Asleep(o)' = Asleep(o)
  BY KeepsAsleep
<1>2. \A v \in Thread : v # u => Target(v)' = Target(v)
  BY DEF Target
<1>3. \A o \in Obj : \A i \in Asleep(o) :
        waiters[o][i] \in Thread /\ waiters[o][i] # u
  <2> SUFFICES ASSUME NEW o \in Obj, NEW i \in Asleep(o)
               PROVE  waiters[o][i] \in Thread /\ waiters[o][i] # u
    OBVIOUS
  <2>1. state[waiters[o][i]] = "BLOCKED"
    BY DEF IInv, Sleepers
  <2>2. waiters[o] \in Seq(Thread) /\ i \in DOMAIN waiters[o]
    BY DEF IInv, ObjectTypeOK, Asleep
  <2> QED BY <2>1, <2>2, ElementOfSeq, LenProperties
<1>4. \A v \in Thread : state[v] = "BLOCKED" => Target(v) \in Obj
  BY CallType DEF IInv, Sleepers, ObjectTypeOK
<1>5. \A o \in Obj : \A i \in Asleep(o)' :
        (state[waiters[o][i]] = "BLOCKED" /\ Target(waiters[o][i]) = o)'
  BY <1>1, <1>2, <1>3 DEF IInv, Sleepers
<1>6. \A v \in Thread : state'[v] = "BLOCKED" =>
        /\ pc'[v] \in {"suspend", "resume"}
        /\ (\E i \in Asleep(Target(v)) : waiters[Target(v)][i] = v)'
  BY <1>1, <1>2, <1>4 DEF IInv, Sleepers
<1>7. \A o \in Obj : \A i, j \in Asleep(o)' : waiters'[o][i] = waiters'[o][j] => i = j
  BY <1>1 DEF IInv, Sleepers
<1>8. \A v \in Thread, f \in Xstream : (On(v, f) /\ state[v] = "BLOCKED" => pc[v] = "suspend")'
  BY DEF IInv, Sleepers
<1> QED
  BY <1>5, <1>6, <1>7, <1>8 DEF Sleepers

\* The steps that change who is asleep: a ULT that goes to sleep, ...
LEMMA WaitSleepers ==
  ASSUME IInv, NEW u \in Thread, NEW e \in Xstream, On(u, e), pc[u] = "call", calls[u] # <<>>,
         lock[Target(u)] = NoThread,
         waiters' = [waiters EXCEPT ![Target(u)] = Append(@, u)],
         SetBlocked(u), Goto(u, "suspend"), UNCHANGED <<lock, calls, running, phase>>
  PROVE  Sleepers'
<1> USE DEF IInv
<1>0. state \in [Thread -> ThreadState] /\ pc \in [Thread -> PC]
  BY DEF LayerInv, ThreadsTypeOK, ObjectTypeOK
<1>1. PICK o \in Obj : o = Target(u)
  BY CallType
<1>2. waiters[o] \in Seq(Thread)
  BY DEF ObjectTypeOK
<1> DEFINE n == Len(waiters[o])
<1>3. /\ n \in Nat /\ DOMAIN waiters[o] = 1 .. n /\ DOMAIN waiters'[o] = 1 .. n + 1
      /\ waiters'[o][n + 1] = u /\ \A i \in 1 .. n : waiters'[o][i] = waiters[o][i]
      /\ \A q \in Obj : q # o => waiters'[q] = waiters[q]
  BY <1>1, <1>2, AppendProperties, LenProperties DEF ObjectTypeOK
<1>4. /\ state'[u] = "BLOCKED" /\ pc'[u] = "suspend"
      /\ \A v \in Thread : v # u => state'[v] = state[v] /\ pc'[v] = pc[v]
      /\ \A v \in Thread : Target(v)' = Target(v)
  BY <1>0, GotoType DEF SetBlocked, PC, Target
<1>5. state[u] # "BLOCKED"
  BY OnNotBlocked
<1>6. \A q \in Obj : Woken(q)' <=> Woken(q)
  BY <1>4 DEF Woken
<1>7. ~Woken(o)
  BY <1>1, ThreadsAssumption DEF Woken
<1>8. /\ \A q \in Obj : q # o => Asleep(q)' = Asleep(q)
      /\ Asleep(o) = 1 .. n /\ Asleep(o)' = 1 .. n + 1
  BY <1>3, <1>6, <1>7 DEF Asleep
<1>9. \A q \in Obj : \A i \in Asleep(q) : waiters[q][i] \in Thread /\ waiters[q][i] # u
  <2> SUFFICES ASSUME NEW q \in Obj, NEW i \in Asleep(q)
               PROVE  waiters[q][i] \in Thread /\ waiters[q][i] # u
    OBVIOUS
  <2>1. state[waiters[q][i]] = "BLOCKED"
    BY DEF Sleepers
  <2>2. waiters[q] \in Seq(Thread) /\ i \in DOMAIN waiters[q]
    BY DEF ObjectTypeOK, Asleep
  <2> QED BY <1>5, <2>1, <2>2, ElementOfSeq, LenProperties
<1>10. \A q \in Obj : \A i \in Asleep(q)' :
         \/ i \in Asleep(q) /\ waiters'[q][i] = waiters[q][i]
         \/ q = o /\ i = n + 1 /\ waiters'[q][i] = u
  <2> HIDE DEF n
  <2> QED BY <1>3, <1>8
<1> HIDE DEF n
<1>11. \A q \in Obj : \A i \in Asleep(q) : i \in Asleep(q)' /\ waiters'[q][i] = waiters[q][i]
  BY <1>3, <1>8
<1>12. \A q \in Obj : \A i \in Asleep(q)' :
         (state[waiters[q][i]] = "BLOCKED" /\ Target(waiters[q][i]) = q)'
  <2> SUFFICES ASSUME NEW q \in Obj, NEW i \in Asleep(q)'
               PROVE  (state[waiters[q][i]] = "BLOCKED" /\ Target(waiters[q][i]) = q)'
    OBVIOUS
  <2>1. CASE i \in Asleep(q) /\ waiters'[q][i] = waiters[q][i]
    <3>1. PICK v : v = waiters[q][i]
      OBVIOUS
    <3>2. v \in Thread /\ v # u /\ state[v] = "BLOCKED" /\ Target(v) = q
      BY <1>9, <2>1, <3>1 DEF Sleepers
    <3> QED BY <1>4, <2>1, <3>1, <3>2
  <2>2. CASE q = o /\ waiters'[q][i] = u
    BY <1>1, <1>4, <2>2
  <2> QED BY <1>10, <2>1, <2>2
<1>13. \A q \in Obj : \A i, j \in Asleep(q)' : waiters'[q][i] = waiters'[q][j] => i = j
  <2> SUFFICES ASSUME NEW q \in Obj, NEW i \in Asleep(q)', NEW j \in Asleep(q)',
                      waiters'[q][i] = waiters'[q][j]
               PROVE  i = j
    OBVIOUS
  <2>1. CASE i \in Asleep(q) /\ j \in Asleep(q)
    <3>1. waiters[q][i] = waiters[q][j]
      BY <1>11, <2>1
    <3> QED BY <2>1, <3>1 DEF Sleepers
  <2>2. CASE i \notin Asleep(q)
    <3>1. i = n + 1 /\ waiters'[q][i] = u
      BY <1>10, <2>2
    <3>2. j \notin Asleep(q)
      BY <1>9, <1>11, <3>1
    <3> QED BY <1>10, <3>1, <3>2
  <2>3. CASE j \notin Asleep(q)
    <3>1. j = n + 1 /\ waiters'[q][j] = u
      BY <1>10, <2>3
    <3>2. i \notin Asleep(q)
      BY <1>9, <1>11, <3>1
    <3> QED BY <1>10, <3>1, <3>2
  <2> QED BY <2>1, <2>2, <2>3
<1>14. \A v \in Thread : state'[v] = "BLOCKED" =>
         /\ pc'[v] \in {"suspend", "resume"}
         /\ (\E i \in Asleep(Target(v)) : waiters[Target(v)][i] = v)'
  <2> SUFFICES ASSUME NEW v \in Thread, state'[v] = "BLOCKED"
               PROVE  /\ pc'[v] \in {"suspend", "resume"}
                      /\ (\E i \in Asleep(Target(v)) : waiters[Target(v)][i] = v)'
    OBVIOUS
  <2>1. CASE v = u
    <3>1. n + 1 \in Asleep(o)'
      BY <1>3, <1>8
    <3> QED BY <1>1, <1>3, <1>4, <2>1, <3>1
  <2>2. CASE v # u
    <3>1. state[v] = "BLOCKED" /\ pc[v] \in {"suspend", "resume"}
      BY <1>4, <2>2 DEF Sleepers
    <3>2. PICK q \in Obj : q = Target(v)
      BY <3>1, CallType DEF ObjectTypeOK
    <3>3. PICK i \in Asleep(q) : waiters[q][i] = v
      BY <3>1, <3>2 DEF Sleepers
    <3>4. i \in Asleep(q)' /\ waiters'[q][i] = v
      BY <1>11, <3>3
    <3>5. Target(v)' = q
      BY <1>4, <3>2
    <3> QED BY <1>4, <2>2, <3>1, <3>4, <3>5
  <2> QED BY <2>1, <2>2
<1>15. \A v \in Thread, f \in Xstream : (On(v, f) /\ state[v] = "BLOCKED" => pc[v] = "suspend")'
  BY <1>4 DEF Sleepers, On
<1> QED
  BY <1>12, <1>13, <1>14, <1>15 DEF Sleepers

\* Only ULTs are asleep.
LEMMA AsleepType ==
  ASSUME IInv, NEW o \in Obj, NEW i \in Asleep(o)
  PROVE  /\ waiters[o][i] \in Thread /\ state[waiters[o][i]] = "BLOCKED"
         /\ Target(waiters[o][i]) = o
<1>1. waiters[o] \in Seq(Thread) /\ i \in DOMAIN waiters[o]
  BY DEF IInv, ObjectTypeOK, Asleep
<1> QED
  BY <1>1, ElementOfSeq, LenProperties DEF IInv, Sleepers

\* ... one that is made ready, ...
LEMMA ReadySleepers ==
  ASSUME IInv, NEW u \in Thread, NEW e \in Xstream, On(u, e), WakeReady(u)
  PROVE  Sleepers'
<1> USE DEF IInv
<1>0. state \in [Thread -> ThreadState] /\ pc \in [Thread -> PC]
  BY DEF LayerInv, ThreadsTypeOK, ObjectTypeOK
<1>1. PICK w : w = Head(waiters[Target(u)])
  OBVIOUS
<1>2. PICK o : o = Target(u)
  OBVIOUS
<1>3. /\ pc[u] = "wake" /\ state' = [state EXCEPT ![w] = "READY"] /\ Goto(u, "dec_blocked")
      /\ UNCHANGED <<lock, waiters, running, phase, calls>>
  BY <1>1 DEF WakeReady, MakeReady, objVars
<1>4. /\ o \in Obj /\ lock[o] = u /\ 1 \in Asleep(o) /\ w = waiters[o][1]
      /\ w \in Thread /\ state[w] = "BLOCKED" /\ Target(w) = o
  BY <1>1, <1>2, <1>3, NextAsleep
<1>5. state[u] # "BLOCKED" /\ w # u
  BY <1>3, <1>4, OnNotBlocked
<1>6. /\ pc'[u] = "dec_blocked"
      /\ \A v \in Thread : v # u => pc'[v] = pc[v]
      /\ \A v \in Thread : v # w => state'[v] = state[v]
      /\ \A v \in Thread : Target(v)' = Target(v)
      /\ state'[w] = "READY"
  BY <1>0, <1>3, <1>4, GotoType DEF PC, Target
<1>7. Woken(o)' /\ \A q \in Obj : q # o => (Woken(q)' <=> Woken(q))
  <2>1. Woken(o)'
    BY <1>2, <1>3, <1>4, <1>6 DEF Woken
  <2>2. ASSUME NEW q \in Obj, q # o PROVE Woken(q)' <=> Woken(q)
    BY <1>2, <1>3, <1>6, <2>2 DEF Woken
  <2> QED BY <2>1, <2>2
<1>8. \A q \in Obj : q # o => Asleep(q)' = Asleep(q)
  BY <1>3, <1>7 DEF Asleep
<1>9. Asleep(o)' = Asleep(o) \ {1}
  BY <1>3, <1>7 DEF Asleep
<1>10. \A q \in Obj : \A i \in Asleep(q)' : i \in Asleep(q) /\ waiters[q][i] # w
  <2> SUFFICES ASSUME NEW q \in Obj, NEW i \in Asleep(q)'
               PROVE  i \in Asleep(q) /\ waiters[q][i] # w
    OBVIOUS
  <2>1. CASE q = o
    <3>1. i \in Asleep(o) /\ i # 1
      BY <1>9, <2>1
    <3>2. waiters[o][i] # waiters[o][1]
      BY <1>4, <3>1 DEF Sleepers
    <3> QED BY <1>4, <2>1, <3>1, <3>2
  <2>2. CASE q # o
    <3>1. i \in Asleep(q)
      BY <1>8, <2>2
    <3> QED BY <1>4, <2>2, <3>1, AsleepType
  <2> QED BY <2>1, <2>2
<1>11. \A q \in Obj : \A i \in Asleep(q)' :
         (state[waiters[q][i]] = "BLOCKED" /\ Target(waiters[q][i]) = q)'
  <2> SUFFICES ASSUME NEW q \in Obj, NEW i \in Asleep(q)'
               PROVE  (state[waiters[q][i]] = "BLOCKED" /\ Target(waiters[q][i]) = q)'
    OBVIOUS
  <2>1. PICK v : v = waiters[q][i]
    OBVIOUS
  <2>2. v \in Thread /\ v # w /\ state[v] = "BLOCKED" /\ Target(v) = q
    BY <1>10, <2>1, AsleepType
  <2> QED BY <1>3, <1>6, <2>1, <2>2
<1>12. \A q \in Obj : \A i, j \in Asleep(q)' : waiters'[q][i] = waiters'[q][j] => i = j
  BY <1>3, <1>10 DEF Sleepers
<1>13. \A v \in Thread : state'[v] = "BLOCKED" =>
         /\ pc'[v] \in {"suspend", "resume"}
         /\ (\E i \in Asleep(Target(v)) : waiters[Target(v)][i] = v)'
  <2> SUFFICES ASSUME NEW v \in Thread, state'[v] = "BLOCKED"
               PROVE  /\ pc'[v] \in {"suspend", "resume"}
                      /\ (\E i \in Asleep(Target(v)) : waiters[Target(v)][i] = v)'
    OBVIOUS
  <2>1. v # w /\ v # u /\ state[v] = "BLOCKED" /\ pc[v] \in {"suspend", "resume"}
    BY <1>4, <1>5, <1>6 DEF Sleepers
  <2>2. PICK q \in Obj : q = Target(v)
    BY <2>1, CallType DEF ObjectTypeOK
  <2>3. PICK i \in Asleep(q) : waiters[q][i] = v
    BY <2>1, <2>2 DEF Sleepers
  <2>4. i \in Asleep(q)' /\ waiters'[q][i] = v
    BY <1>3, <1>4, <1>8, <1>9, <2>1, <2>3
  <2>5. Target(v)' = q
    BY <1>6, <2>2
  <2> QED BY <1>6, <2>1, <2>4, <2>5
<1>14. \A v \in Thread, f \in Xstream : (On(v, f) /\ state[v] = "BLOCKED" => pc[v] = "suspend")'
  BY <1>3, <1>5, <1>6 DEF Sleepers, On
<1> QED
  BY <1>11, <1>12, <1>13, <1>14 DEF Sleepers

\* ... and that one leaving the queue.
LEMMA DecSleepers ==
  ASSUME IInv, NEW u \in Thread, NEW e \in Xstream, On(u, e), WakeDec(u)
  PROVE  Sleepers'
<1> USE DEF IInv
<1>0. pc \in [Thread -> PC] /\ pc[u] = "dec_blocked" /\ calls[u] # <<>>
  BY DEF WakeDec, ObjectTypeOK
<1>1. PICK o : o = Target(u)
  OBVIOUS
<1>2. o \in Obj /\ lock[o] = u /\ waiters[o] \in Seq(Thread) /\ waiters[o] # <<>>
  BY <1>0, <1>1, HeadThread
<1> DEFINE n == Len(waiters[o])
<1>3. /\ waiters' = [waiters EXCEPT ![o] = Tail(@)]
      /\ UNCHANGED <<state, running, phase>>
      /\ \/ Returns(u) /\ lock' = [lock EXCEPT ![o] = NoThread]
         \/ Goto(u, "wake") /\ UNCHANGED <<lock, calls>>
  BY <1>1 DEF WakeDec
<1>4. /\ n \in Nat /\ n > 0 /\ DOMAIN waiters[o] = 1 .. n /\ DOMAIN Tail(waiters[o]) = 1 .. n - 1
      /\ \A i \in 1 .. n - 1 : Tail(waiters[o])[i] = waiters[o][i + 1]
  BY <1>2, HeadTailProperties, LenProperties, EmptySeq
<1>5. /\ waiters'[o] = Tail(waiters[o])
      /\ \A q \in Obj : q # o => waiters'[q] = waiters[q]
  BY <1>2, <1>3 DEF ObjectTypeOK
<1> HIDE DEF n
<1>6. /\ pc'[u] # "dec_blocked"
      /\ \A v \in Thread : v # u => pc'[v] = pc[v] /\ calls'[v] = calls[v]
  <2>1. CASE Returns(u)
    BY <1>0, <2>1, ReturnsType
  <2>2. CASE Goto(u, "wake") /\ UNCHANGED calls
    BY <1>0, <2>2, GotoType DEF PC
  <2> QED BY <1>3, <2>1, <2>2
<1>7. \A v \in Thread : v # u => Target(v)' = Target(v)
  BY <1>6 DEF Target
<1>8. Woken(o) /\ ~Woken(o)'
  <2>1. Woken(o)
    BY <1>0, <1>1, <1>2 DEF Woken
  <2>2. \A v \in Thread : v # u => lock'[o] # v
    BY <1>2, <1>3, ThreadsAssumption DEF ObjectTypeOK
  <2> QED BY <1>6, <2>1, <2>2 DEF Woken
<1>9. \A q \in Obj : q # o => (Woken(q)' <=> Woken(q))
  <2> SUFFICES ASSUME NEW q \in Obj, q # o PROVE Woken(q)' <=> Woken(q)
    OBVIOUS
  <2>1. lock'[q] = lock[q]
    BY <1>3 DEF ObjectTypeOK
  <2>2. \A v \in Thread : v # u =>
          ((lock[q] = v /\ pc[v] = "dec_blocked" /\ Target(v) = q)' <=>
           (lock[q] = v /\ pc[v] = "dec_blocked" /\ Target(v) = q))
    BY <1>6, <1>7, <2>1
  <2> QED BY <1>1, <1>6, <2>2 DEF Woken
<1>10. \A q \in Obj : q # o => Asleep(q)' = Asleep(q)
  BY <1>5, <1>9 DEF Asleep
<1>11. Asleep(o) = 2 .. n /\ Asleep(o)' = 1 .. n - 1
  BY <1>4, <1>5, <1>8 DEF Asleep
<1>12. \A i \in Asleep(o)' : i + 1 \in Asleep(o) /\ waiters'[o][i] = waiters[o][i + 1]
  BY <1>4, <1>5, <1>11
<1>13. \A i \in Asleep(o) : i - 1 \in Asleep(o)' /\ waiters'[o][i - 1] = waiters[o][i]
  BY <1>4, <1>5, <1>11
<1>14. state[u] # "BLOCKED"
  BY <1>0, OnNotBlocked
<1>15. \A q \in Obj : \A i \in Asleep(q)' : \E j \in Asleep(q) : waiters'[q][i] = waiters[q][j]
  <2> SUFFICES ASSUME NEW q \in Obj, NEW i \in Asleep(q)'
               PROVE  \E j \in Asleep(q) : waiters'[q][i] = waiters[q][j]
    OBVIOUS
  <2>1. CASE q = o
    BY <1>12, <2>1
  <2>2. CASE q # o
    BY <1>5, <1>10, <2>2
  <2> QED BY <2>1, <2>2
<1>16. \A q \in Obj : \A i \in Asleep(q)' :
         (state[waiters[q][i]] = "BLOCKED" /\ Target(waiters[q][i]) = q)'
  <2> SUFFICES ASSUME NEW q \in Obj, NEW i \in Asleep(q)'
               PROVE  (state[waiters[q][i]] = "BLOCKED" /\ Target(waiters[q][i]) = q)'
    OBVIOUS
  <2>1. PICK j \in Asleep(q) : waiters'[q][i] = waiters[q][j]
    BY <1>15
  <2>2. PICK v : v = waiters[q][j]
    OBVIOUS
  <2>3. v \in Thread /\ v # u /\ state[v] = "BLOCKED" /\ Target(v) = q
    BY <1>14, <2>2, AsleepType
  <2> QED BY <1>3, <1>7, <2>1, <2>2, <2>3
<1>17. \A q \in Obj : \A i, j \in Asleep(q)' : waiters'[q][i] = waiters'[q][j] => i = j
  <2> SUFFICES ASSUME NEW q \in Obj, NEW i \in Asleep(q)', NEW j \in Asleep(q)',
                      waiters'[q][i] = waiters'[q][j]
               PROVE  i = j
    OBVIOUS
  <2>1. CASE q = o
    <3>1. /\ i + 1 \in Asleep(o) /\ j + 1 \in Asleep(o)
          /\ waiters[o][i + 1] = waiters[o][j + 1]
      BY <1>12, <2>1
    <3>2. i + 1 = j + 1
      BY <1>2, <3>1 DEF Sleepers
    <3> QED BY <1>4, <1>11, <2>1, <3>2
  <2>2. CASE q # o
    <3>1. i \in Asleep(q) /\ j \in Asleep(q) /\ waiters[q][i] = waiters[q][j]
      BY <1>5, <1>10, <2>2
    <3> QED BY <3>1 DEF Sleepers
  <2> QED BY <2>1, <2>2
<1>18. \A v \in Thread : state'[v] = "BLOCKED" =>
         /\ pc'[v] \in {"suspend", "resume"}
         /\ (\E i \in Asleep(Target(v)) : waiters[Target(v)][i] = v)'
  <2> SUFFICES ASSUME NEW v \in Thread, state'[v] = "BLOCKED"
               PROVE  /\ pc'[v] \in {"suspend", "resume"}
                      /\ (\E i \in Asleep(Target(v)) : waiters[Target(v)][i] = v)'
    OBVIOUS
  <2>1. v # u /\ state[v] = "BLOCKED" /\ pc[v] \in {"suspend", "resume"}
    BY <1>3, <1>14 DEF Sleepers
  <2>2. PICK q \in Obj : q = Target(v)
    BY <2>1, CallType DEF ObjectTypeOK
  <2>3. PICK i \in Asleep(q) : waiters[q][i] = v
    BY <2>1, <2>2 DEF Sleepers
  <2>4. \E j \in Asleep(q)' : waiters'[q][j] = v
    <3>1. CASE q = o
      BY <1>13, <2>3, <3>1
    <3>2. CASE q # o
      BY <1>5, <1>10, <2>3, <3>2
    <3> QED BY <3>1, <3>2
  <2>5. Target(v)' = q
    BY <1>7, <2>1, <2>2
  <2> QED BY <1>6, <2>1, <2>4, <2>5
<1>19. \A v \in Thread, f \in Xstream : (On(v, f) /\ state[v] = "BLOCKED" => pc[v] = "suspend")'
  BY <1>3, <1>6, <1>14 DEF Sleepers, On
<1> QED
  BY <1>16, <1>17, <1>18, <1>19 DEF Sleepers

\* All steps of a ULT keep asleep who is to be woken.
LEMMA StepSleepers ==
  ASSUME IInv, NEW u \in Thread, NEW e \in Xstream, Step(u, e)
  PROVE  Sleepers'
<1> USE DEF IInv
<1>0. /\ pc \in [Thread -> PC] /\ state \in [Thread -> ThreadState] /\ On(u, e)
      /\ \A f \in Xstream : running[f] = u => f = e
  BY ThreadsAssumption DEF Step, ObjectTypeOK, LayerInv, ThreadsTypeOK, OneRunner, On
<1>1. CASE Wait(u) /\ ~ready[Target(u)]
  BY <1>0, <1>1, WaitSleepers DEF Wait, Calls
<1>2. CASE Suspend(u, e)
  <2>1. /\ pc[u] = "suspend" /\ Goto(u, "resume") /\ SwitchToSched(e)
        /\ UNCHANGED <<lock, waiters, state, running, calls>>
    BY <1>2 DEF Suspend, objVars
  <2>2. /\ pc'[u] = "resume" /\ \A v \in Thread : v # u => pc'[v] = pc[v]
        /\ \A v \in Thread : Target(v)' = Target(v)
    BY <1>0, <2>1, GotoType DEF PC, Target
  <2>3. \A o \in Obj : Asleep(o)' = Asleep(o)
    BY <2>1, <2>2, KeepsAsleep
  <2>4. \A v \in Thread, f \in Xstream : On(v, f)' => On(v, f) /\ v # u
    BY <1>0, <2>1, ThreadsAssumption DEF SwitchToSched, On, LayerInv, ThreadsTypeOK
  <2>5. \A o \in Obj : \A i \in Asleep(o)' :
          (state[waiters[o][i]] = "BLOCKED" /\ Target(waiters[o][i]) = o)'
    BY <2>1, <2>2, <2>3, AsleepType
  <2>6. \A v \in Thread : state[v] = "BLOCKED" => Target(v) \in Obj
    BY CallType DEF Sleepers, ObjectTypeOK
  <2>7. \A v \in Thread : state'[v] = "BLOCKED" =>
          /\ pc'[v] \in {"suspend", "resume"}
          /\ (\E i \in Asleep(Target(v)) : waiters[Target(v)][i] = v)'
    BY <2>1, <2>2, <2>3, <2>6 DEF Sleepers
  <2> QED BY <2>1, <2>2, <2>3, <2>4, <2>5, <2>7 DEF Sleepers
<1>3. CASE WakeReady(u)
  BY <1>0, <1>3, ReadySleepers
<1>4. CASE WakeDec(u)
  BY <1>0, <1>4, DecSleepers
<1>5. CASE \/ Wait(u) /\ ready[Target(u)]
           \/ Resume(u) \/ Test(u, e) \/ Leave(u, e)
           \/ EventualSet(u) \/ FutureSet(u) \/ FutureSetFails(u) \/ Reset(u)
  <2>1. /\ pc[u] \in {"call", "resume"} /\ waiters' = waiters
        /\ state[u] # "BLOCKED"
    <3>1. pc[u] \in {"call", "resume"} /\ waiters' = waiters
      BY <1>5 DEF Wait, Resume, Test, Leave, EventualSet, FutureSet, FutureSetFails, Reset, Calls,
                  objVars
    <3> QED BY <1>0, <3>1, OnNotBlocked
  <2>2. \/ calls[u] # <<>> /\ Returns(u)
        \/ UNCHANGED calls /\ (Goto(u, "wake") \/ Goto(u, "done") \/ UNCHANGED pc)
    BY <1>5 DEF Wait, Resume, Test, Leave, EventualSet, FutureSet, FutureSetFails, Reset, Calls,
                Resolve, localVars, ObjectTypeOK
  <2>3. /\ pc'[u] # "dec_blocked"
        /\ \A v \in Thread : v # u => pc'[v] = pc[v] /\ calls'[v] = calls[v]
    <3>1. CASE calls[u] # <<>> /\ Returns(u)
      BY <3>1, ReturnsType
    <3>2. CASE UNCHANGED calls /\ (Goto(u, "wake") \/ Goto(u, "done") \/ UNCHANGED pc)
      BY <1>0, <2>1, <3>2, GotoType DEF PC
    <3> QED BY <2>2, <3>1, <3>2
  <2>4. \A o \in Obj : lock'[o] = lock[o] \/ (lock[o] = NoThread /\ lock'[o] = u)
    BY <1>5 DEF Wait, Resume, Test, Leave, EventualSet, FutureSet, FutureSetFails, Reset, Resolve,
                objVars, ObjectTypeOK
  <2>5. \A v \in Thread : state'[v] = "BLOCKED" <=> state[v] = "BLOCKED"
    BY <1>0, <1>5, <2>1 DEF Wait, Resume, Test, Leave, EventualSet, FutureSet, FutureSetFails, Reset,
                            threadVars, YieldThread
  <2>6. \A v \in Thread, f \in Xstream : On(v, f)' => On(v, f)
    BY <1>0, <1>5 DEF Wait, Resume, Test, Leave, EventualSet, FutureSet, FutureSetFails, Reset,
                      threadVars, YieldThread, On, SwitchToSched, LayerInv, ThreadsTypeOK
  <2> QED BY <2>1, <2>3, <2>4, <2>5, <2>6, KeepsSleepers
<1> QED
  BY <1>1, <1>2, <1>3, <1>4, <1>5 DEF Step

(***************************************************************************)
(* The invariant is inductive.                                             *)
(***************************************************************************)

\* The initial states.
LEMMA InitInv == Init => IInv
<1> SUFFICES ASSUME Init PROVE IInv
  OBVIOUS
<1> USE DEF Init
<1>1. LayerInv
  BY LayerInit
<1>2. ObjectTypeOK /\ LockOK
  BY FutureAssumption DEF ObjectTypeOK, LockOK, PC
<1>3. \A o \in Obj : Asleep(o) = {}
  BY DEF Asleep
<1>4. Sleepers
  BY <1>3 DEF Sleepers, ThreadsInit
<1> QED
  BY <1>1, <1>2, <1>4 DEF IInv

\* What stays if the objects, and the places of the ULTs, do.
LEMMA Stays ==
  ASSUME IInv, UNCHANGED <<objVars, localVars>>
  PROVE  /\ ObjectTypeOK' /\ LockOK'
         /\ \A o \in Obj : Asleep(o)' = Asleep(o)
         /\ \A u \in Thread : Target(u)' = Target(u)
BY DEF IInv, objVars, localVars, ObjectTypeOK, LockOK, Resolved, Asleep, Woken, Target

\* The steps of schedulers.
LEMMA SchedInv ==
  ASSUME IInv, NEW e \in Xstream, Sched(e)
  PROVE  IInv'
<1> USE DEF IInv, Sched, objVars, localVars
<1>1. LayerInv'
  BY LayerScheduler
<1>2. /\ \A v \in Thread : state'[v] = "BLOCKED" <=> state[v] = "BLOCKED"
      /\ \A v \in Thread, f \in Xstream : (On(v, f) /\ state[v] = "BLOCKED")' =>
                                          On(v, f) /\ state[v] = "BLOCKED"
  BY SchedulerStates
<1>3. \A o \in Obj : \A i \in Asleep(o)' :
        (state[waiters[o][i]] = "BLOCKED" /\ Target(waiters[o][i]) = o)'
  BY <1>2, Stays, AsleepType
<1>4. \A v \in Thread : state[v] = "BLOCKED" => Target(v) \in Obj
  BY CallType DEF Sleepers, ObjectTypeOK
<1>5. \A v \in Thread : state'[v] = "BLOCKED" =>
        /\ pc'[v] \in {"suspend", "resume"}
        /\ (\E i \in Asleep(Target(v)) : waiters[Target(v)][i] = v)'
  BY <1>2, <1>4, Stays DEF Sleepers
<1>6. Sleepers'
  BY <1>2, <1>3, <1>5, Stays DEF Sleepers
<1> QED
  BY <1>1, <1>6, Stays

\* Every step, or none, keeps the inductive invariant.
LEMMA NextInv == IInv /\ [Next]_vars => IInv'
<1> SUFFICES ASSUME IInv, [Next]_vars PROVE IInv'
  OBVIOUS
<1>1. CASE UNCHANGED vars
  <2>1. LayerInv'
    BY <1>1, LayerUnchanged DEF vars, IInv
  <2>2. ObjectTypeOK' /\ LockOK'
    BY <1>1, Stays DEF vars
  <2>3. Sleepers'
    BY <1>1 DEF vars, objVars, localVars, threadVars, IInv, Sleepers, Asleep, Woken, Target, On
  <2> QED BY <2>1, <2>2, <2>3 DEF IInv
<1>2. ASSUME NEW u \in Thread, NEW e \in Xstream, Step(u, e) PROVE IInv'
  BY <1>2, StepLayer, StepObject, StepSleepers DEF IInv
<1> QED
  BY <1>1, <1>2, SchedInv DEF Next

(***************************************************************************)
(* The theorems.                                                           *)
(***************************************************************************)

\* Every variable keeps its type, and whoever wakes ULTs holds the lock of a queue that
\* is not empty.
THEOREM FutureTypeCorrect == Spec => []TypeOK
<1>1. IInv => TypeOK
  BY DEF IInv, LayerInv, ObjectTypeOK, LockOK, TypeOK
<1> QED
  BY <1>1, InitInv, NextInv, PTL DEF Spec

\* Nobody sleeps on an object that is ready, and whoever sleeps can be found by the set
\* that will make the object ready.
THEOREM FutureNoSleeper == Spec => []NoSleeper
<1>1. IInv => NoSleeper
  <2> SUFFICES ASSUME IInv PROVE NoSleeper
    OBVIOUS
  <2>1. ASSUME NEW u \in Thread, state[u] = "BLOCKED" PROVE Contains(waiters[Target(u)], u)
    <3>1. PICK o \in Obj : o = Target(u)
      BY <2>1, CallType DEF IInv, Sleepers, ObjectTypeOK
    <3>2. PICK i \in Asleep(o) : waiters[o][i] = u
      BY <2>1, <3>1 DEF IInv, Sleepers
    <3>3. waiters[o] \in Seq(Thread) /\ i \in DOMAIN waiters[o]
      BY DEF IInv, ObjectTypeOK, Asleep
    <3> QED BY <3>1, <3>2, <3>3 DEF Contains
  <2> QED BY <2>1 DEF NoSleeper, IInv, LockOK
<1> QED
  BY <1>1, InitInv, NextInv, PTL DEF Spec

\* A ULT is taken from the queue of an object only when that has been resolved.
THEOREM FutureOnlyResolved == Spec => OnlyResolved
<1> DEFINE Leaves(o, u) == Contains(waiters[o], u) /\ ~Contains(waiters'[o], u)
<1>1. ASSUME IInv, [Next]_vars, NEW o \in Obj, NEW v \in Thread, Leaves(o, v)
      PROVE  ready[o] /\ (o \in FutureObj => counter[o] >= Compartments[o])
  <2>1. waiters[o] # waiters'[o]
    BY <1>1
  <2>2. PICK u \in Thread, e \in Xstream : Step(u, e)
    BY <1>1, <2>1 DEF Next, vars, objVars, Sched
  <2>3. CASE WakeDec(u)
    <3>1. Target(u) \in Obj /\ Resolved(Target(u))
      BY <1>1, <2>3, HeadThread DEF WakeDec, IInv, LockOK
    <3>2. o = Target(u)
      BY <1>1, <2>1, <2>3, <3>1 DEF WakeDec, IInv, ObjectTypeOK
    <3> QED BY <3>1, <3>2 DEF Resolved
  <2>4. CASE Wait(u)
    <3>1. waiters' = [waiters EXCEPT ![Target(u)] = Append(@, u)] /\ o = Target(u)
      BY <1>1, <2>1, <2>4 DEF Wait, IInv, ObjectTypeOK
    <3>2. waiters[o] \in Seq(Thread) /\ waiters'[o] = Append(waiters[o], u)
      BY <1>1, <3>1 DEF IInv, ObjectTypeOK
    <3>3. PICK i \in 1 .. Len(waiters[o]) : waiters[o][i] = v
      BY <1>1 DEF Contains
    <3>4. i \in 1 .. Len(waiters'[o]) /\ waiters'[o][i] = v
      BY <3>2, <3>3, AppendProperties, LenProperties
    <3> QED BY <1>1, <3>4 DEF Contains
  <2>5. CASE ~WakeDec(u) /\ ~Wait(u)
    BY <2>1, <2>2, <2>5
       DEF Step, Suspend, Resume, Test, EventualSet, FutureSet, FutureSetFails, WakeReady, Reset,
           Leave, objVars
  <2> QED BY <2>3, <2>4, <2>5
<1>2. IInv /\ [Next]_vars =>
        [\A o \in Obj, u \in Thread :
           Leaves(o, u) => ready[o] /\ (o \in FutureObj => counter[o] >= Compartments[o])]_vars
  BY <1>1
<1> QED
  BY <1>2, InitInv, NextInv, PTL DEF Spec, OnlyResolved

\* The layer under the objects is safe: no ULT runs on two ESs, none is pushed to a
\* pool before its context is saved, none is in the pools twice.
THEOREM FutureThreadsSafe == Spec => [](OneRunner /\ SavedBeforePush /\ QueuedOnce)
<1>1. IInv => OneRunner /\ SavedBeforePush /\ QueuedOnce
  BY DEF IInv, LayerInv
<1> QED
  BY <1>1, InitInv, NextInv, PTL DEF Spec
=============================================================================
