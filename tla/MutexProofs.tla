---------------------------- MODULE MutexProofs ----------------------------
(***************************************************************************)
(* Proofs about Mutex, for every set of ULTs, ESs and pools and every      *)
(* program of lock and unlock operations.                                  *)
(*                                                                         *)
(* Types, mutual exclusion and the lists of queues in use need nothing     *)
(* more.  What is said of who runs, who is blocked and who is woken is     *)
(* proved under LowPrivate: the code does not demand it, and TLC shows     *)
(* that OneRunner fails without it.  Those proofs rest on PlacesInv, which *)
(* says where a ULT can be found in each state of its life.                *)
(***************************************************************************)
EXTENDS Mutex, ThreadsProofs

\* The inductive invariant.  TypeOK is not inductive alone: that val - 1 stays
\* in 0 .. 2 when an owner releases the mutex rests on the lock word being
\* non-zero while somebody owns it, which is a part of MutualExclusion.
IInv == TypeOK /\ MutualExclusion

(***************************************************************************)
(* Facts about sequences in the form the proofs below use them.            *)
(***************************************************************************)

\* Linking a queue into the list of queues in use keeps it a list of ESs.
LEMMA LinkType ==
  ASSUME NEW list \in Seq(Xstream), NEW e \in Xstream
  PROVE  Link(list, e) \in Seq(Xstream)
BY AppendProperties DEF Link

\* A turn round the list of queues leaves a list of ESs.
LEMMA TurnType ==
  ASSUME NEW list \in Seq(Xstream), NEW queue, NEW i \in DOMAIN list
  PROVE  Turn(list, queue, i) \in Seq(Xstream)
<1> DEFINE rest == SubSeq(list, i + 1, Len(list))
<1>1. Len(list) \in Nat /\ i \in Int /\ DOMAIN list = 1 .. Len(list)
  BY LenProperties
<1>2. \A j \in i + 1 .. Len(list) : list[j] \in Xstream
  BY <1>1, ElementOfSeq
<1>3. rest \in Seq(Xstream)
  BY <1>1, <1>2, SubSeqProperties
<1>4. Append(rest, list[i]) \in Seq(Xstream)
  BY <1>1, <1>3, ElementOfSeq, AppendProperties
<1> QED
  BY <1>3, <1>4 DEF Turn

\* Pushing a ULT to its pool keeps the pools sequences of ULTs.
LEMMA PushType ==
  ASSUME NEW u \in Thread, pool \in [Pool -> Seq(Thread)], Push(u)
  PROVE  pool' \in [Pool -> Seq(Thread)]
<1>1. Append(pool[HomePool[u]], u) \in Seq(Thread)
  BY ThreadsAssumption, AppendProperties
<1> QED
  BY <1>1 DEF Push

(***************************************************************************)
(* Steps that move one ULT from one program location to another.           *)
(***************************************************************************)

\* Moving the program counter of a ULT keeps the type of the local state.
LEMMA GotoType ==
  ASSUME NEW u \in Thread, NEW l \in PC, pc \in [Thread -> PC], Goto(u, l)
  PROVE  /\ pc' \in [Thread -> PC]
         /\ pc'[u] = l
         /\ \A v \in Thread : v # u => pc'[v] = pc[v]
BY DEF Goto

\* A step that makes nobody an owner and does not free the mutex.
LEMMA NoNewOwner ==
  ASSUME MutualExclusion, NEW u \in Thread, NEW l \in PC, pc \in [Thread -> PC],
         Goto(u, l), l \in OwnerPC => Owns(u),
         val' = val \/ val' # 0, handover' = handover
  PROVE  MutualExclusion'
BY GotoType DEF MutualExclusion, Owns

\* A step that takes a free mutex.
LEMMA TakeFree ==
  ASSUME MutualExclusion, NEW u \in Thread, NEW l \in PC, pc \in [Thread -> PC],
         Goto(u, l), val = 0, val' # 0, handover' = handover
  PROVE  MutualExclusion'
BY GotoType DEF MutualExclusion, Owns

\* A step by which the owner frees the mutex.
LEMMA Freed ==
  ASSUME MutualExclusion, NEW u \in Thread, NEW l \in PC, pc \in [Thread -> PC],
         Goto(u, l), Owns(u), l \notin OwnerPC, handover' = handover
  PROVE  MutualExclusion'
BY GotoType DEF MutualExclusion, Owns

\* A step that ends a round: the ULT is at the start of its program again.
LEMMA RoundDone ==
  ASSUME LocalTypeOK, NEW u \in Thread, rounds[u] > 0, Goto(u, "start"),
         Finish(u), prio' = prio, after' = after, wakes' \in [Thread -> Nat],
         \/ target' = target
         \/ target' = [target EXCEPT ![u] = NoThread]
  PROVE  LocalTypeOK'
<1>1. "start" \in PC
  BY DEF PC
<1>2. rounds' \in [Thread -> Nat] /\ \A v \in Thread : v # u => rounds'[v] = rounds[v]
  BY DEF Finish, LocalTypeOK
<1>3. /\ target' \in [Thread -> Thread \cup {NoThread}]
      /\ \A v \in Thread : v # u => target'[v] = target[v]
  BY DEF LocalTypeOK
<1> QED
  BY <1>1, <1>2, <1>3, GotoType DEF LocalTypeOK

(***************************************************************************)
(* Every step of a ULT keeps the inductive invariant.                      *)
(***************************************************************************)

\* The first attempt of ABT_mutex_lock keeps the inductive invariant.
LEMMA LockKeeps ==
  ASSUME IInv, NEW u \in Thread, NEW e \in Xstream, On(u, e), Lock(u)
  PROVE  IInv'
<1> USE DEF Lock, CasLock, threadVars, tableVars
<1>1. PICK l \in {"cs", "xchg", "wait"} : Goto(u, l)
  OBVIOUS
<1>2. l \in PC /\ pc[u] \in PC
  BY DEF IInv, TypeOK, LocalTypeOK, PC
<1>3. ThreadsTypeOK'
  BY DEF IInv, TypeOK, ThreadsTypeOK
<1>4. TableTypeOK'
  BY DEF IInv, TypeOK, TableTypeOK
<1>5. WordTypeOK'
  BY DEF IInv, TypeOK, WordTypeOK
<1>6. LocalTypeOK'
  BY <1>1, <1>2, GotoType DEF IInv, TypeOK, LocalTypeOK
<1>7. MutualExclusion'
  <2>1. CASE val = 0
    <3>1. "cs" \in PC /\ Goto(u, "cs") /\ val' # 0 /\ handover' = handover
      BY <2>1 DEF PC
    <3> QED
      BY <2>1, <3>1, TakeFree DEF IInv, TypeOK, LocalTypeOK
  <2>2. CASE val # 0
    <3>1. PICK k \in PC : Goto(u, k) /\ k \notin OwnerPC
      BY <2>2 DEF PC, OwnerPC, IInv, TypeOK, WordTypeOK
    <3>2. val' # 0 /\ handover' = handover
      BY <2>2
    <3> QED
      BY <3>1, <3>2, NoNewOwner DEF IInv, TypeOK, LocalTypeOK
  <2> QED
    BY <2>1, <2>2
<1> QED
  BY <1>3, <1>4, <1>5, <1>6, <1>7 DEF IInv, TypeOK

\* ABT_mutex_lock_low from its first attempt on keeps the inductive invariant.
LEMMA LockLowKeeps ==
  ASSUME IInv, NEW u \in Thread, NEW e \in Xstream, On(u, e), LockLow(u, e)
  PROVE  IInv'
<1> USE DEF LockLow, mutexVars, threadVars, tableVars
<1>1. PICK l \in {"low_try", "low_cas"} : Goto(u, l)
  OBVIOUS
<1>2. l \in PC /\ pc[u] \in PC
  BY DEF IInv, TypeOK, LocalTypeOK, PC
<1>3. ThreadsTypeOK'
  BY DEF IInv, TypeOK, ThreadsTypeOK
<1>4. TableTypeOK'
  BY DEF IInv, TypeOK, TableTypeOK
<1>5. WordTypeOK'
  BY DEF IInv, TypeOK, WordTypeOK
<1>6. LocalTypeOK'
  BY <1>1, <1>2, GotoType DEF IInv, TypeOK, LocalTypeOK
<1>7. MutualExclusion'
  BY <1>1, <1>2, NoNewOwner DEF IInv, TypeOK, LocalTypeOK, Owns, OwnerPC
<1> QED
  BY <1>3, <1>4, <1>5, <1>6, <1>7 DEF IInv, TypeOK

\* The attempt of lock_low before it swaps keeps the inductive invariant.
LEMMA LowCasKeeps ==
  ASSUME IInv, NEW u \in Thread, NEW e \in Xstream, On(u, e), LowCas(u)
  PROVE  IInv'
<1> USE DEF LowCas, CasLock, threadVars, tableVars
<1>1. PICK l \in {"cs", "xchg", "wait"} : Goto(u, l)
  OBVIOUS
<1>2. l \in PC /\ pc[u] \in PC
  BY DEF IInv, TypeOK, LocalTypeOK, PC
<1>3. ThreadsTypeOK'
  BY DEF IInv, TypeOK, ThreadsTypeOK
<1>4. TableTypeOK'
  BY DEF IInv, TypeOK, TableTypeOK
<1>5. WordTypeOK'
  BY DEF IInv, TypeOK, WordTypeOK
<1>6. LocalTypeOK'
  BY <1>1, <1>2, GotoType DEF IInv, TypeOK, LocalTypeOK
<1>7. MutualExclusion'
  <2>1. CASE val = 0
    <3>1. "cs" \in PC /\ Goto(u, "cs") /\ val' # 0 /\ handover' = handover
      BY <2>1 DEF PC
    <3> QED
      BY <2>1, <3>1, TakeFree DEF IInv, TypeOK, LocalTypeOK
  <2>2. CASE val # 0
    <3>1. PICK k \in PC : Goto(u, k) /\ k \notin OwnerPC
      BY <2>2 DEF PC, OwnerPC, IInv, TypeOK, WordTypeOK
    <3>2. val' # 0 /\ handover' = handover
      BY <2>2
    <3> QED
      BY <3>1, <3>2, NoNewOwner DEF IInv, TypeOK, LocalTypeOK
  <2> QED
    BY <2>1, <2>2
<1> QED
  BY <1>3, <1>4, <1>5, <1>6, <1>7 DEF IInv, TypeOK

\* The swap of lock_low keeps the inductive invariant.
LEMMA LowSwapKeeps ==
  ASSUME IInv, NEW u \in Thread, NEW e \in Xstream, On(u, e), LowSwap(u, e)
  PROVE  IInv'
<1> USE DEF LowSwap, threadVars, tableVars
<1>1. PICK l \in {"low_switch", "low_cas"} : Goto(u, l)
  OBVIOUS
<1>2. l \in PC /\ pc[u] \in PC
  BY DEF IInv, TypeOK, LocalTypeOK, PC
<1>3. ThreadsTypeOK'
  BY DEF IInv, TypeOK, ThreadsTypeOK, ThreadState
<1>4. TableTypeOK'
  <2>1. CASE lq[e] = <<>>
    BY <2>1 DEF IInv, TypeOK, TableTypeOK
  <2>2. CASE lq[e] # <<>>
    <3>1. Append(Tail(lq[e]), u) \in Seq(Thread)
      BY <2>2, HeadTailProperties, AppendProperties DEF IInv, TypeOK, TableTypeOK
    <3> QED
      BY <2>2, <3>1 DEF IInv, TypeOK, TableTypeOK
  <2> QED
    BY <2>1, <2>2
<1>5. WordTypeOK'
  BY DEF IInv, TypeOK, WordTypeOK
<1>6. LocalTypeOK'
  <2>1. CASE lq[e] = <<>>
    BY <1>1, <1>2, <2>1, GotoType DEF IInv, TypeOK, LocalTypeOK, PC
  <2>2. CASE lq[e] # <<>>
    <3>1. Head(lq[e]) \in Thread /\ Head(lq[e]) # NoThread
      BY <2>2, HeadTailProperties, ThreadsAssumption DEF IInv, TypeOK, TableTypeOK
    <3> QED
      BY <1>1, <1>2, <2>2, <3>1, GotoType, ZenonT(30) DEF IInv, TypeOK, LocalTypeOK
  <2> QED
    BY <2>1, <2>2
<1>7. MutualExclusion'
  BY <1>1, <1>2, NoNewOwner DEF IInv, TypeOK, LocalTypeOK, Owns, OwnerPC
<1> QED
  BY <1>3, <1>4, <1>5, <1>6, <1>7 DEF IInv, TypeOK

\* The switch of lock_low to the ULT it hands its ES to keeps the inductive invariant.
LEMMA LowSwitchKeeps ==
  ASSUME IInv, NEW u \in Thread, NEW e \in Xstream, On(u, e), LowSwitch(u, e)
  PROVE  IInv'
<1> USE DEF LowSwitch, SwitchToThread, mutexVars, threadVars, tableVars
<1>1. PICK l \in {"resume"} : Goto(u, l)
  OBVIOUS
<1>2. l \in PC /\ pc[u] \in PC
  BY DEF IInv, TypeOK, LocalTypeOK, PC
<1>3. ThreadsTypeOK'
  BY DEF IInv, TypeOK, ThreadsTypeOK, ThreadState, LocalTypeOK
<1>4. TableTypeOK'
  BY DEF IInv, TypeOK, TableTypeOK
<1>5. WordTypeOK'
  BY DEF IInv, TypeOK, WordTypeOK
<1>6. LocalTypeOK'
  BY <1>1, <1>2, GotoType DEF IInv, TypeOK, LocalTypeOK
<1>7. MutualExclusion'
  BY <1>1, <1>2, NoNewOwner DEF IInv, TypeOK, LocalTypeOK, Owns, OwnerPC
<1> QED
  BY <1>3, <1>4, <1>5, <1>6, <1>7 DEF IInv, TypeOK

\* ABT_mutex_spinlock keeps the inductive invariant.
LEMMA SpinlockKeeps ==
  ASSUME IInv, NEW u \in Thread, NEW e \in Xstream, On(u, e), Spinlock(u)
  PROVE  IInv'
<1> USE DEF Spinlock, threadVars, tableVars
<1>1. PICK l \in {"spin", "cs"} : Goto(u, l)
  OBVIOUS
<1>2. l \in PC /\ pc[u] \in PC
  BY DEF IInv, TypeOK, LocalTypeOK, PC
<1>3. ThreadsTypeOK'
  BY DEF IInv, TypeOK, ThreadsTypeOK
<1>4. TableTypeOK'
  BY DEF IInv, TypeOK, TableTypeOK
<1>5. WordTypeOK'
  BY DEF IInv, TypeOK, WordTypeOK
<1>6. LocalTypeOK'
  BY <1>1, <1>2, GotoType DEF IInv, TypeOK, LocalTypeOK
<1>7. MutualExclusion'
  <2>1. CASE val = 0
    <3>1. "cs" \in PC /\ Goto(u, "cs") /\ val' # 0 /\ handover' = handover
      BY <2>1 DEF PC
    <3> QED
      BY <2>1, <3>1, TakeFree DEF IInv, TypeOK, LocalTypeOK
  <2>2. CASE val # 0
    <3>1. PICK k \in PC : Goto(u, k) /\ k \notin OwnerPC
      BY <2>2 DEF PC, OwnerPC, IInv, TypeOK, WordTypeOK
    <3>2. val' # 0 /\ handover' = handover
      BY <2>2
    <3> QED
      BY <3>1, <3>2, NoNewOwner DEF IInv, TypeOK, LocalTypeOK
  <2> QED
    BY <2>1, <2>2
<1> QED
  BY <1>3, <1>4, <1>5, <1>6, <1>7 DEF IInv, TypeOK

\* ABT_mutex_trylock keeps the inductive invariant.
LEMMA TrylockKeeps ==
  ASSUME IInv, NEW u \in Thread, NEW e \in Xstream, On(u, e), Trylock(u)
  PROVE  IInv'
<1> USE DEF Trylock, threadVars, tableVars
<1>1. ThreadsTypeOK'
  BY DEF IInv, TypeOK, ThreadsTypeOK
<1>2. TableTypeOK'
  BY DEF IInv, TypeOK, TableTypeOK
<1>3. WordTypeOK'
  BY DEF IInv, TypeOK, WordTypeOK
<1>4. "cs" \in PC
  BY DEF PC
<1>5. CASE val = 0
  <2>1. Goto(u, "cs") /\ rounds' = rounds /\ val' # 0
    BY <1>5
  <2>2. LocalTypeOK'
    BY <2>1, <1>4, GotoType DEF IInv, TypeOK, LocalTypeOK
  <2>3. MutualExclusion'
    BY <1>5, <2>1, <1>4, TakeFree DEF IInv, TypeOK, LocalTypeOK
  <2> QED
    BY <1>1, <1>2, <1>3, <2>2, <2>3 DEF IInv, TypeOK
<1>6. CASE val # 0
  <2>1. UNCHANGED <<val, handover, pc>> /\ pc[u] = "start"
    BY <1>6
  <2>2. LocalTypeOK'
    BY <1>6, <2>1 DEF IInv, TypeOK, LocalTypeOK
  <2>3. MutualExclusion'
    BY <2>1 DEF IInv, MutualExclusion, Owns
  <2> QED
    BY <1>1, <1>2, <1>3, <2>2, <2>3 DEF IInv, TypeOK
<1> QED
  BY <1>5, <1>6

\* The exchange in the locking loop keeps the inductive invariant.
LEMMA XchgKeeps ==
  ASSUME IInv, NEW u \in Thread, NEW e \in Xstream, On(u, e), Xchg(u)
  PROVE  IInv'
<1> USE DEF Xchg, threadVars, tableVars
<1>1. PICK l \in {"cs", "wait"} : Goto(u, l)
  OBVIOUS
<1>2. l \in PC /\ pc[u] \in PC
  BY DEF IInv, TypeOK, LocalTypeOK, PC
<1>3. ThreadsTypeOK'
  BY DEF IInv, TypeOK, ThreadsTypeOK
<1>4. TableTypeOK'
  BY DEF IInv, TypeOK, TableTypeOK
<1>5. WordTypeOK'
  BY DEF IInv, TypeOK, WordTypeOK
<1>6. LocalTypeOK'
  BY <1>1, <1>2, GotoType DEF IInv, TypeOK, LocalTypeOK
<1>7. MutualExclusion'
  <2>1. CASE val = 0
    <3>1. "cs" \in PC /\ Goto(u, "cs") /\ val' # 0 /\ handover' = handover
      BY <2>1 DEF PC
    <3> QED
      BY <2>1, <3>1, TakeFree DEF IInv, TypeOK, LocalTypeOK
  <2>2. CASE val # 0
    <3>1. PICK k \in PC : Goto(u, k) /\ k \notin OwnerPC
      BY <2>2 DEF PC, OwnerPC, IInv, TypeOK, WordTypeOK
    <3>2. val' # 0 /\ handover' = handover
      BY <2>2
    <3> QED
      BY <3>1, <3>2, NoNewOwner DEF IInv, TypeOK, LocalTypeOK
  <2> QED
    BY <2>1, <2>2
<1> QED
  BY <1>3, <1>4, <1>5, <1>6, <1>7 DEF IInv, TypeOK

\* The look at the lock word under the table lock keeps the inductive invariant.
LEMMA WaitCheckKeeps ==
  ASSUME IInv, NEW u \in Thread, NEW e \in Xstream, On(u, e), WaitCheck(u)
  PROVE  IInv'
<1> USE DEF WaitCheck, threadVars, tableVars
<1>1. PICK l \in {"enqueue", "resume"} : Goto(u, l)
  OBVIOUS
<1>2. l \in PC /\ pc[u] \in PC
  BY DEF IInv, TypeOK, LocalTypeOK, PC
<1>3. ThreadsTypeOK'
  BY DEF IInv, TypeOK, ThreadsTypeOK
<1>4. TableTypeOK'
  BY DEF IInv, TypeOK, TableTypeOK
<1>5. WordTypeOK'
  BY DEF IInv, TypeOK, WordTypeOK
<1>6. LocalTypeOK'
  BY <1>1, <1>2, GotoType DEF IInv, TypeOK, LocalTypeOK
<1>7. MutualExclusion'
  BY <1>1, <1>2, NoNewOwner DEF IInv, TypeOK, LocalTypeOK, Owns, OwnerPC
<1> QED
  BY <1>3, <1>4, <1>5, <1>6, <1>7 DEF IInv, TypeOK

\* The enqueuing of a waiter keeps the inductive invariant.
LEMMA WaitEnqueueKeeps ==
  ASSUME IInv, NEW u \in Thread, NEW e \in Xstream, On(u, e), WaitEnqueue(u, e)
  PROVE  IInv'
<1> USE DEF WaitEnqueue, SetBlocked, threadVars, tableVars
<1>1. PICK l \in {"suspend"} : Goto(u, l)
  OBVIOUS
<1>2. l \in PC /\ pc[u] \in PC
  BY DEF IInv, TypeOK, LocalTypeOK, PC
<1>3. ThreadsTypeOK'
  <2>1. numBlocked' \in [Pool -> Int]
    <3>1. HomePool[u] \in Pool
      BY ThreadsAssumption
    <3>2. numBlocked' = [numBlocked EXCEPT ![HomePool[u]] = @ + 1]
      OBVIOUS
    <3> QED
      BY <3>1, <3>2 DEF IInv, TypeOK, ThreadsTypeOK
  <2>2. request' \in [Thread -> SUBSET Request]
    BY DEF IInv, TypeOK, ThreadsTypeOK, Request
  <2> QED
    BY <2>1, <2>2 DEF IInv, TypeOK, ThreadsTypeOK, ThreadState
<1>4. TableTypeOK'
  <2>1. /\ Append(hq[e], u) \in Seq(Thread) /\ Append(lq[e], u) \in Seq(Thread)
        /\ Link(hList, e) \in Seq(Xstream) /\ Link(lList, e) \in Seq(Xstream)
    BY LinkType, AppendProperties DEF IInv, TypeOK, TableTypeOK
  <2> QED
    BY <2>1 DEF IInv, TypeOK, TableTypeOK
<1>5. WordTypeOK'
  BY DEF IInv, TypeOK, WordTypeOK
<1>6. LocalTypeOK'
  BY <1>1, <1>2, GotoType DEF IInv, TypeOK, LocalTypeOK
<1>7. MutualExclusion'
  BY <1>1, <1>2, NoNewOwner DEF IInv, TypeOK, LocalTypeOK, Owns, OwnerPC
<1> QED
  BY <1>3, <1>4, <1>5, <1>6, <1>7 DEF IInv, TypeOK

\* The suspension of a waiter keeps the inductive invariant.
LEMMA WaitSuspendKeeps ==
  ASSUME IInv, NEW u \in Thread, NEW e \in Xstream, On(u, e), WaitSuspend(u, e)
  PROVE  IInv'
<1> USE DEF WaitSuspend, SwitchToSched, mutexVars, threadVars, tableVars
<1>1. PICK l \in {"resume"} : Goto(u, l)
  OBVIOUS
<1>2. l \in PC /\ pc[u] \in PC
  BY DEF IInv, TypeOK, LocalTypeOK, PC
<1>3. ThreadsTypeOK'
  BY DEF IInv, TypeOK, ThreadsTypeOK, Phase, On
<1>4. TableTypeOK'
  BY DEF IInv, TypeOK, TableTypeOK
<1>5. WordTypeOK'
  BY DEF IInv, TypeOK, WordTypeOK
<1>6. LocalTypeOK'
  BY <1>1, <1>2, GotoType DEF IInv, TypeOK, LocalTypeOK
<1>7. MutualExclusion'
  BY <1>1, <1>2, NoNewOwner DEF IInv, TypeOK, LocalTypeOK, Owns, OwnerPC
<1> QED
  BY <1>3, <1>4, <1>5, <1>6, <1>7 DEF IInv, TypeOK

\* The taking of a mutex that was handed over keeps the inductive invariant.
LEMMA TakeHandoverKeeps ==
  ASSUME IInv, NEW u \in Thread, NEW e \in Xstream, On(u, e), TakeHandover(u)
  PROVE  IInv'
<1> USE DEF TakeHandover, MakeReady, threadVars, tableVars
<1>1. PICK l \in {"cs", "xchg"} : Goto(u, l)
  OBVIOUS
<1>2. l \in PC /\ pc[u] \in PC
  BY DEF IInv, TypeOK, LocalTypeOK, PC
<1>3. ThreadsTypeOK'
  <2>1. CASE handover = u
    <3>1. giver \in Thread /\ HomePool[giver] \in Pool
      BY <2>1, ThreadsAssumption DEF IInv, TypeOK, WordTypeOK
    <3>2. pool' \in [Pool -> Seq(Thread)]
      BY <2>1, <3>1, PushType DEF IInv, TypeOK, ThreadsTypeOK
    <3> QED
      BY <2>1, <3>1, <3>2 DEF IInv, TypeOK, ThreadsTypeOK, ThreadState
  <2>2. CASE handover # u
    BY <2>2 DEF IInv, TypeOK, ThreadsTypeOK
  <2> QED
    BY <2>1, <2>2
<1>4. TableTypeOK'
  BY DEF IInv, TypeOK, TableTypeOK
<1>5. WordTypeOK'
  BY DEF IInv, TypeOK, WordTypeOK
<1>6. LocalTypeOK'
  BY <1>1, <1>2, GotoType DEF IInv, TypeOK, LocalTypeOK
<1>7. MutualExclusion'
  <2>1. CASE handover = u
    <3>1. Goto(u, "cs") /\ "cs" \in PC /\ handover' = NoThread /\ val' = 2
      BY <2>1 DEF PC
    <3>2. \A v \in Thread : ~Owns(v)
      BY <2>1, ThreadsAssumption DEF IInv, MutualExclusion
    <3> QED
      BY <3>1, <3>2, GotoType DEF IInv, TypeOK, LocalTypeOK, MutualExclusion, Owns
  <2>2. CASE handover # u
    <3>1. Goto(u, "xchg") /\ "xchg" \in PC /\ "xchg" \notin OwnerPC
      BY <2>2 DEF PC, OwnerPC
    <3> QED
      BY <2>2, <3>1, NoNewOwner DEF IInv, TypeOK, LocalTypeOK
  <2> QED
    BY <2>1, <2>2
<1> QED
  BY <1>3, <1>4, <1>5, <1>6, <1>7 DEF IInv, TypeOK

\* The decrement of the lock word keeps the inductive invariant.
LEMMA UnlockKeeps ==
  ASSUME IInv, NEW u \in Thread, NEW e \in Xstream, On(u, e), Unlock(u)
  PROVE  IInv'
<1> USE DEF Unlock, Finish, threadVars, tableVars
<1>1. PICK l \in {"start", "store0"} : Goto(u, l)
  OBVIOUS
<1>2. l \in PC /\ pc[u] \in PC
  BY DEF IInv, TypeOK, LocalTypeOK, PC
<1>3. ThreadsTypeOK'
  BY DEF IInv, TypeOK, ThreadsTypeOK
<1>4. TableTypeOK'
  BY DEF IInv, TypeOK, TableTypeOK
<1>5. WordTypeOK'
  <2>1. val \in {1, 2}
    BY DEF IInv, TypeOK, WordTypeOK, MutualExclusion, Owns, OwnerPC
  <2> QED
    BY <2>1 DEF IInv, TypeOK, WordTypeOK
<1>6. LocalTypeOK'
  <2>1. rounds[u] > 0 /\ wakes' \in [Thread -> Nat]
    BY DEF IInv, TypeOK, LocalTypeOK
  <2>2. CASE val = 1
    <3>1. Goto(u, "start") /\ "start" \in PC /\ Finish(u)
      BY <2>2 DEF PC
    <3> QED
      BY <2>1, <2>2, <3>1, RoundDone DEF IInv, TypeOK
  <2>3. CASE val # 1
    BY <1>1, <1>2, <2>3, GotoType DEF IInv, TypeOK, LocalTypeOK
  <2> QED
    BY <2>2, <2>3
<1>7. MutualExclusion'
  <2>1. Owns(u)
    BY DEF Owns, OwnerPC
  <2>2. CASE val = 1
    <3>1. Goto(u, "start") /\ "start" \in PC /\ "start" \notin OwnerPC
      BY <2>2 DEF PC, OwnerPC
    <3> QED
      BY <2>1, <3>1, Freed DEF IInv, TypeOK, LocalTypeOK
  <2>3. CASE val # 1
    <3>1. Goto(u, "store0") /\ "store0" \in PC /\ val' # 0
      BY <2>1, <2>3 DEF PC, IInv, TypeOK, WordTypeOK, MutualExclusion
    <3> QED
      BY <2>1, <3>1, NoNewOwner DEF IInv, TypeOK, LocalTypeOK
  <2> QED
    BY <2>2, <2>3
<1> QED
  BY <1>3, <1>4, <1>5, <1>6, <1>7 DEF IInv, TypeOK

\* The store of 0 to the lock word keeps the inductive invariant.
LEMMA StoreZeroKeeps ==
  ASSUME IInv, NEW u \in Thread, NEW e \in Xstream, On(u, e), StoreZero(u)
  PROVE  IInv'
<1> USE DEF StoreZero, threadVars, tableVars
<1>1. PICK l \in {"wake"} : Goto(u, l)
  OBVIOUS
<1>2. l \in PC /\ pc[u] \in PC
  BY DEF IInv, TypeOK, LocalTypeOK, PC
<1>3. ThreadsTypeOK'
  BY DEF IInv, TypeOK, ThreadsTypeOK
<1>4. TableTypeOK'
  BY DEF IInv, TypeOK, TableTypeOK
<1>5. WordTypeOK'
  BY DEF IInv, TypeOK, WordTypeOK
<1>6. LocalTypeOK'
  BY <1>1, <1>2, GotoType DEF IInv, TypeOK, LocalTypeOK
<1>7. MutualExclusion'
  BY <1>1, <1>2, NoNewOwner, Freed DEF IInv, TypeOK, LocalTypeOK, Owns, OwnerPC, MutualExclusion, WordTypeOK
<1> QED
  BY <1>3, <1>4, <1>5, <1>6, <1>7 DEF IInv, TypeOK

\* A ULT that has taken a waiter from the table knows whom it is to wake.
LEMMA WokenType ==
  ASSUME LocalTypeOK, NEW u \in Thread, NEW t \in Thread, pc[u] = "wake", Woken(u, t),
         UNCHANGED <<prio, after, wakes>>
  PROVE  LocalTypeOK'
<1> USE DEF Woken, LocalTypeOK
<1>1. t # NoThread
  BY ThreadsAssumption
<1>2. /\ pc' \in [Thread -> PC] /\ pc'[u] = "set_ready"
      /\ \A v \in Thread : v # u => pc'[v] = pc[v]
  <2>1. "set_ready" \in PC
    BY DEF PC
  <2> QED
    BY <2>1, GotoType
<1>3. /\ target' \in [Thread -> Thread \cup {NoThread}] /\ target'[u] = t
      /\ \A v \in Thread : v # u => target'[v] = target[v]
  OBVIOUS
<1> QED
  BY <1>1, <1>2, <1>3

\* The wake-up of a waiter of high priority keeps the inductive invariant.
LEMMA WakeHighKeeps ==
  ASSUME IInv, NEW u \in Thread, NEW e \in Xstream, On(u, e),
         WakePop(u, e), WakeHigh(u)
  PROVE  IInv'
<1> USE DEF WakePop, WakeHigh, Woken, Pop, threadVars, tableVars
<1>1. "set_ready" \in PC /\ Goto(u, "set_ready")
  BY DEF PC
<1>2. PICK i \in DOMAIN hList : /\ FirstLive(hList, hq, i)
                               /\ Woken(u, Head(hq[hList[i]]))
                               /\ hList' = Turn(hList, hq, i)
                               /\ hq' = Pop(hq, hList[i])
                               /\ UNCHANGED <<lList, lq>>
  OBVIOUS
<1>3. hList[i] \in Xstream /\ hq[hList[i]] \in Seq(Thread) /\ hq[hList[i]] # <<>>
  BY <1>2, ElementOfSeq, LenProperties DEF IInv, TypeOK, TableTypeOK, FirstLive
<1>4. Head(hq[hList[i]]) \in Thread /\ Tail(hq[hList[i]]) \in Seq(Thread)
  BY <1>3, HeadTailProperties
<1>5. ThreadsTypeOK'
  BY DEF IInv, TypeOK, ThreadsTypeOK
<1>6. TableTypeOK'
  BY <1>2, <1>3, <1>4, TurnType DEF IInv, TypeOK, TableTypeOK
<1>7. WordTypeOK'
  BY DEF IInv, TypeOK, WordTypeOK
<1>8. LocalTypeOK'
  <2>1. LocalTypeOK /\ pc[u] = "wake" /\ UNCHANGED <<prio, after, wakes>>
    BY DEF IInv, TypeOK
  <2>2. Woken(u, Head(hq[hList[i]]))
    BY <1>2
  <2> QED
    BY <1>4, <2>1, <2>2, WokenType, Zenon
<1>9. MutualExclusion'
  BY <1>1, NoNewOwner DEF IInv, TypeOK, LocalTypeOK, OwnerPC
<1> QED
  BY <1>5, <1>6, <1>7, <1>8, <1>9 DEF IInv, TypeOK

\* The wake-up of a waiter of low priority keeps the inductive invariant.
LEMMA WakeLowKeeps ==
  ASSUME IInv, NEW u \in Thread, NEW e \in Xstream, On(u, e),
         WakePop(u, e), WakeLow(u)
  PROVE  IInv'
<1> USE DEF WakePop, WakeLow, Woken, Pop, threadVars, tableVars
<1>1. "set_ready" \in PC /\ Goto(u, "set_ready")
  BY DEF PC
<1>2. PICK i \in DOMAIN lList : /\ FirstLive(lList, lq, i)
                               /\ Woken(u, Head(lq[lList[i]]))
                               /\ hList' = <<>>
                               /\ lList' = Turn(lList, lq, i)
                               /\ lq' = Pop(lq, lList[i])
                               /\ hq' = hq
  OBVIOUS
<1>3. lList[i] \in Xstream /\ lq[lList[i]] \in Seq(Thread) /\ lq[lList[i]] # <<>>
  BY <1>2, ElementOfSeq, LenProperties DEF IInv, TypeOK, TableTypeOK, FirstLive
<1>4. Head(lq[lList[i]]) \in Thread /\ Tail(lq[lList[i]]) \in Seq(Thread)
  BY <1>3, HeadTailProperties
<1>5. ThreadsTypeOK'
  BY DEF IInv, TypeOK, ThreadsTypeOK
<1>6. TableTypeOK'
  BY <1>2, <1>3, <1>4, TurnType, EmptySeq DEF IInv, TypeOK, TableTypeOK
<1>7. WordTypeOK'
  BY DEF IInv, TypeOK, WordTypeOK
<1>8. LocalTypeOK'
  <2>1. LocalTypeOK /\ pc[u] = "wake" /\ UNCHANGED <<prio, after, wakes>>
    BY DEF IInv, TypeOK
  <2>2. Woken(u, Head(lq[lList[i]]))
    BY <1>2
  <2> QED
    BY <1>4, <2>1, <2>2, WokenType, Zenon
<1>9. MutualExclusion'
  BY <1>1, NoNewOwner DEF IInv, TypeOK, LocalTypeOK, OwnerPC
<1> QED
  BY <1>5, <1>6, <1>7, <1>8, <1>9 DEF IInv, TypeOK

\* A wake-up that finds no waiter keeps the inductive invariant.
LEMMA WakeNoneKeeps ==
  ASSUME IInv, NEW u \in Thread, NEW e \in Xstream, On(u, e),
         WakePop(u, e), WakeNone(u, e)
  PROVE  IInv'
<1> USE DEF WakePop, WakeNone, WakeOver, Finish, threadVars, tableVars
<1>1. PICK l \in {"start", "se_yield"} : Goto(u, l)
  OBVIOUS
<1>2. l \in PC /\ pc[u] \in PC
  BY DEF IInv, TypeOK, LocalTypeOK, PC
<1>3. ThreadsTypeOK'
  BY DEF IInv, TypeOK, ThreadsTypeOK
<1>4. TableTypeOK'
  BY EmptySeq DEF IInv, TypeOK, TableTypeOK
<1>5. WordTypeOK'
  BY DEF IInv, TypeOK, WordTypeOK
<1>6. LocalTypeOK'
  <2>1. rounds[u] > 0 /\ wakes' \in [Thread -> Nat]
    BY DEF IInv, TypeOK, LocalTypeOK
  <2>2. CASE after[u] = "return"
    BY <2>1, <2>2, RoundDone DEF IInv, TypeOK, PC
  <2>3. CASE after[u] # "return"
    BY <1>1, <1>2, <2>3, GotoType DEF IInv, TypeOK, LocalTypeOK
  <2> QED
    BY <2>2, <2>3
<1>7. MutualExclusion'
  BY <1>1, <1>2, NoNewOwner DEF IInv, TypeOK, LocalTypeOK, OwnerPC
<1> QED
  BY <1>3, <1>4, <1>5, <1>6, <1>7 DEF IInv, TypeOK

\* The pushing of the woken ULT keeps the inductive invariant.
LEMMA WakeReadyKeeps ==
  ASSUME IInv, NEW u \in Thread, NEW e \in Xstream, On(u, e), WakeReady(u)
  PROVE  IInv'
<1> USE DEF WakeReady, MakeReady, mutexVars, threadVars, tableVars
<1>1. PICK l \in {"dec_blocked"} : Goto(u, l)
  OBVIOUS
<1>2. l \in PC /\ pc[u] \in PC
  BY DEF IInv, TypeOK, LocalTypeOK, PC
<1>3. ThreadsTypeOK'
  BY PushType DEF IInv, TypeOK, ThreadsTypeOK, ThreadState, LocalTypeOK
<1>4. TableTypeOK'
  BY DEF IInv, TypeOK, TableTypeOK
<1>5. WordTypeOK'
  BY DEF IInv, TypeOK, WordTypeOK
<1>6. LocalTypeOK'
  BY <1>1, <1>2, GotoType DEF IInv, TypeOK, LocalTypeOK
<1>7. MutualExclusion'
  BY <1>1, <1>2, NoNewOwner DEF IInv, TypeOK, LocalTypeOK, Owns, OwnerPC
<1> QED
  BY <1>3, <1>4, <1>5, <1>6, <1>7 DEF IInv, TypeOK

\* The end of a wake-up keeps the inductive invariant.
LEMMA WakeDecKeeps ==
  ASSUME IInv, NEW u \in Thread, NEW e \in Xstream, On(u, e), WakeDec(u, e)
  PROVE  IInv'
<1> USE DEF WakeDec, WakeOver, Finish, DecNumBlocked, threadVars, tableVars
<1>1. PICK l \in {"start", "se_yield", "wake"} : Goto(u, l)
  OBVIOUS
<1>2. l \in PC /\ pc[u] \in PC
  BY DEF IInv, TypeOK, LocalTypeOK, PC
<1>3. ThreadsTypeOK'
  <2>1. HomePool[target[u]] \in Pool
    BY ThreadsAssumption DEF IInv, TypeOK, LocalTypeOK
  <2> QED
    BY <2>1 DEF IInv, TypeOK, ThreadsTypeOK
<1>4. TableTypeOK'
  BY DEF IInv, TypeOK, TableTypeOK
<1>5. WordTypeOK'
  BY DEF IInv, TypeOK, WordTypeOK
<1>6. LocalTypeOK'
  <2>1. rounds[u] > 0 /\ wakes' \in [Thread -> Nat]
    BY DEF IInv, TypeOK, LocalTypeOK
  <2>2. CASE Goto(u, "start") /\ Finish(u)
    BY <2>1, <2>2, RoundDone DEF IInv, TypeOK, PC
  <2>3. CASE rounds' = rounds
    BY <1>1, <1>2, <2>1, <2>3, GotoType DEF IInv, TypeOK, LocalTypeOK
  <2> QED
    BY <2>2, <2>3
<1>7. MutualExclusion'
  BY <1>1, <1>2, NoNewOwner DEF IInv, TypeOK, LocalTypeOK, Owns, OwnerPC
<1> QED
  BY <1>3, <1>4, <1>5, <1>6, <1>7 DEF IInv, TypeOK

\* The start of ABT_mutex_unlock_se keeps the inductive invariant.
LEMMA UnlockSeKeeps ==
  ASSUME IInv, NEW u \in Thread, NEW e \in Xstream, On(u, e), UnlockSe(u)
  PROVE  IInv'
<1> USE DEF UnlockSe, threadVars, tableVars
<1>1. PICK l \in {"se_yield", "se_check"} : Goto(u, l)
  OBVIOUS
<1>2. l \in PC /\ pc[u] \in PC
  BY DEF IInv, TypeOK, LocalTypeOK, PC
<1>3. ThreadsTypeOK'
  BY DEF IInv, TypeOK, ThreadsTypeOK
<1>4. TableTypeOK'
  BY DEF IInv, TypeOK, TableTypeOK
<1>5. WordTypeOK'
  <2>1. val \in {1, 2}
    BY DEF IInv, TypeOK, WordTypeOK, MutualExclusion, Owns, OwnerPC
  <2> QED
    BY <2>1 DEF IInv, TypeOK, WordTypeOK
<1>6. LocalTypeOK'
  BY <1>1, <1>2, GotoType DEF IInv, TypeOK, LocalTypeOK
<1>7. MutualExclusion'
  <2>1. Owns(u)
    BY DEF Owns, OwnerPC
  <2>2. CASE val = 1
    <3>1. Goto(u, "se_yield") /\ "se_yield" \in PC /\ "se_yield" \notin OwnerPC
      BY <2>2 DEF PC, OwnerPC
    <3> QED
      BY <2>1, <3>1, Freed DEF IInv, TypeOK, LocalTypeOK
  <2>3. CASE val # 1
    <3>1. Goto(u, "se_check") /\ "se_check" \in PC /\ val' # 0
      BY <2>1, <2>3 DEF PC, IInv, TypeOK, WordTypeOK, MutualExclusion
    <3> QED
      BY <2>1, <3>1, NoNewOwner DEF IInv, TypeOK, LocalTypeOK
  <2> QED
    BY <2>2, <2>3
<1> QED
  BY <1>3, <1>4, <1>5, <1>6, <1>7 DEF IInv, TypeOK

\* The choice of unlock_se between handing over and freeing keeps the inductive invariant.
LEMMA SeCheckKeeps ==
  ASSUME IInv, NEW u \in Thread, NEW e \in Xstream, On(u, e), SeCheck(u, e)
  PROVE  IInv'
<1> USE DEF SeCheck, mutexVars, threadVars, tableVars
<1>1. PICK l \in {"store0", "se_pop", "se_low"} : Goto(u, l)
  OBVIOUS
<1>2. l \in PC /\ pc[u] \in PC
  BY DEF IInv, TypeOK, LocalTypeOK, PC
<1>3. ThreadsTypeOK'
  BY DEF IInv, TypeOK, ThreadsTypeOK
<1>4. TableTypeOK'
  BY DEF IInv, TypeOK, TableTypeOK
<1>5. WordTypeOK'
  BY DEF IInv, TypeOK, WordTypeOK
<1>6. LocalTypeOK'
  BY <1>1, <1>2, GotoType DEF IInv, TypeOK, LocalTypeOK
<1>7. MutualExclusion'
  BY <1>1, <1>2, NoNewOwner DEF IInv, TypeOK, LocalTypeOK, Owns, OwnerPC
<1> QED
  BY <1>3, <1>4, <1>5, <1>6, <1>7 DEF IInv, TypeOK

\* The taking of the ULT to hand over to keeps the inductive invariant.
LEMMA SePopKeeps ==
  ASSUME IInv, NEW u \in Thread, NEW e \in Xstream, On(u, e), SePop(u, e)
  PROVE  IInv'
<1> USE DEF SePop, threadVars, tableVars
<1>1. PICK l \in {"se_check", "se_give"} : Goto(u, l)
  OBVIOUS
<1>2. l \in PC /\ pc[u] \in PC
  BY DEF IInv, TypeOK, LocalTypeOK, PC
<1>3. ThreadsTypeOK'
  BY DEF IInv, TypeOK, ThreadsTypeOK
<1>4. TableTypeOK'
  <2>1. CASE hq[e] = <<>>
    BY <2>1 DEF IInv, TypeOK, TableTypeOK
  <2>2. CASE hq[e] # <<>>
    <3>1. Tail(hq[e]) \in Seq(Thread)
      BY <2>2, HeadTailProperties DEF IInv, TypeOK, TableTypeOK
    <3> QED
      BY <2>2, <3>1 DEF IInv, TypeOK, TableTypeOK
  <2> QED
    BY <2>1, <2>2
<1>5. WordTypeOK'
  BY DEF IInv, TypeOK, WordTypeOK
<1>6. LocalTypeOK'
  <2>1. CASE hq[e] = <<>>
    BY <1>1, <1>2, <2>1, GotoType DEF IInv, TypeOK, LocalTypeOK, PC
  <2>2. CASE hq[e] # <<>>
    <3>1. Head(hq[e]) \in Thread /\ Head(hq[e]) # NoThread
      BY <2>2, HeadTailProperties, ThreadsAssumption DEF IInv, TypeOK, TableTypeOK
    <3> QED
      BY <1>1, <1>2, <2>2, <3>1, GotoType, ZenonT(30) DEF IInv, TypeOK, LocalTypeOK
  <2> QED
    BY <2>1, <2>2
<1>7. MutualExclusion'
  BY <1>1, <1>2, NoNewOwner DEF IInv, TypeOK, LocalTypeOK, Owns, OwnerPC
<1> QED
  BY <1>3, <1>4, <1>5, <1>6, <1>7 DEF IInv, TypeOK

\* The look at the low queue in unlock_se keeps the inductive invariant.
LEMMA SeLowKeeps ==
  ASSUME IInv, NEW u \in Thread, NEW e \in Xstream, On(u, e), SeLow(u, e)
  PROVE  IInv'
<1> USE DEF SeLow, mutexVars, threadVars, tableVars
<1>1. PICK l \in {"store0", "se_pop_low"} : Goto(u, l)
  OBVIOUS
<1>2. l \in PC /\ pc[u] \in PC
  BY DEF IInv, TypeOK, LocalTypeOK, PC
<1>3. ThreadsTypeOK'
  BY DEF IInv, TypeOK, ThreadsTypeOK
<1>4. TableTypeOK'
  BY DEF IInv, TypeOK, TableTypeOK
<1>5. WordTypeOK'
  BY DEF IInv, TypeOK, WordTypeOK
<1>6. LocalTypeOK'
  BY <1>1, <1>2, GotoType DEF IInv, TypeOK, LocalTypeOK
<1>7. MutualExclusion'
  BY <1>1, <1>2, NoNewOwner DEF IInv, TypeOK, LocalTypeOK, Owns, OwnerPC
<1> QED
  BY <1>3, <1>4, <1>5, <1>6, <1>7 DEF IInv, TypeOK

\* The taking of a low-priority ULT to hand over to keeps the inductive invariant.
LEMMA SePopLowKeeps ==
  ASSUME IInv, NEW u \in Thread, NEW e \in Xstream, On(u, e), SePopLow(u, e)
  PROVE  IInv'
<1> USE DEF SePopLow, threadVars, tableVars
<1>1. PICK l \in {"se_check", "se_give"} : Goto(u, l)
  OBVIOUS
<1>2. l \in PC /\ pc[u] \in PC
  BY DEF IInv, TypeOK, LocalTypeOK, PC
<1>3. ThreadsTypeOK'
  BY DEF IInv, TypeOK, ThreadsTypeOK
<1>4. TableTypeOK'
  <2>1. CASE lq[e] = <<>>
    BY <2>1 DEF IInv, TypeOK, TableTypeOK
  <2>2. CASE lq[e] # <<>>
    <3>1. Tail(lq[e]) \in Seq(Thread)
      BY <2>2, HeadTailProperties DEF IInv, TypeOK, TableTypeOK
    <3> QED
      BY <2>2, <3>1 DEF IInv, TypeOK, TableTypeOK
  <2> QED
    BY <2>1, <2>2
<1>5. WordTypeOK'
  BY DEF IInv, TypeOK, WordTypeOK
<1>6. LocalTypeOK'
  <2>1. CASE lq[e] = <<>>
    BY <1>1, <1>2, <2>1, GotoType DEF IInv, TypeOK, LocalTypeOK, PC
  <2>2. CASE lq[e] # <<>>
    <3>1. Head(lq[e]) \in Thread /\ Head(lq[e]) # NoThread
      BY <2>2, HeadTailProperties, ThreadsAssumption DEF IInv, TypeOK, TableTypeOK
    <3> QED
      BY <1>1, <1>2, <2>2, <3>1, GotoType, ZenonT(30) DEF IInv, TypeOK, LocalTypeOK
  <2> QED
    BY <2>1, <2>2
<1>7. MutualExclusion'
  BY <1>1, <1>2, NoNewOwner DEF IInv, TypeOK, LocalTypeOK, Owns, OwnerPC
<1> QED
  BY <1>3, <1>4, <1>5, <1>6, <1>7 DEF IInv, TypeOK

\* The handover of the mutex to the popped ULT keeps the inductive invariant.
LEMMA SeGiveKeeps ==
  ASSUME IInv, NEW u \in Thread, NEW e \in Xstream, On(u, e), SeGive(u, e)
  PROVE  IInv'
<1> USE DEF SeGive, threadVars, tableVars
<1>1. PICK l \in {"se_switch"} : Goto(u, l)
  OBVIOUS
<1>2. l \in PC /\ pc[u] \in PC
  BY DEF IInv, TypeOK, LocalTypeOK, PC
<1>3. ThreadsTypeOK'
  BY DEF IInv, TypeOK, ThreadsTypeOK
<1>4. TableTypeOK'
  BY DEF IInv, TypeOK, TableTypeOK
<1>5. WordTypeOK'
  <2>1. target[u] \in Thread /\ u # NoThread
    BY ThreadsAssumption DEF IInv, TypeOK, LocalTypeOK
  <2> QED
    BY <2>1 DEF IInv, TypeOK, WordTypeOK
<1>6. LocalTypeOK'
  BY <1>1, <1>2, GotoType DEF IInv, TypeOK, LocalTypeOK
<1>7. MutualExclusion'
  BY <1>1, <1>2, GotoType DEF IInv, TypeOK, LocalTypeOK, Owns, OwnerPC, MutualExclusion
<1> QED
  BY <1>3, <1>4, <1>5, <1>6, <1>7 DEF IInv, TypeOK

\* The switch of the giver to the new owner keeps the inductive invariant.
LEMMA SeSwitchKeeps ==
  ASSUME IInv, NEW u \in Thread, NEW e \in Xstream, On(u, e), SeSwitch(u, e)
  PROVE  IInv'
<1> USE DEF SeSwitch, DecNumBlocked, SwitchToThread, mutexVars, threadVars, tableVars
<1>1. PICK l \in {"given"} : Goto(u, l)
  OBVIOUS
<1>2. l \in PC /\ pc[u] \in PC
  BY DEF IInv, TypeOK, LocalTypeOK, PC
<1>3. ThreadsTypeOK'
  <2>1. /\ target[u] \in Thread /\ target[u] # NoThread
        /\ HomePool[target[u]] \in Pool
    BY ThreadsAssumption DEF IInv, TypeOK, LocalTypeOK
  <2> QED
    BY <2>1 DEF IInv, TypeOK, ThreadsTypeOK, ThreadState
<1>4. TableTypeOK'
  BY DEF IInv, TypeOK, TableTypeOK
<1>5. WordTypeOK'
  BY DEF IInv, TypeOK, WordTypeOK
<1>6. LocalTypeOK'
  BY <1>1, <1>2, GotoType DEF IInv, TypeOK, LocalTypeOK
<1>7. MutualExclusion'
  BY <1>1, <1>2, NoNewOwner DEF IInv, TypeOK, LocalTypeOK, Owns, OwnerPC
<1> QED
  BY <1>3, <1>4, <1>5, <1>6, <1>7 DEF IInv, TypeOK

\* The return of the giver from its handover keeps the inductive invariant.
LEMMA SeReturnKeeps ==
  ASSUME IInv, NEW u \in Thread, NEW e \in Xstream, On(u, e), SeReturn(u)
  PROVE  IInv'
<1> USE DEF SeReturn, Finish, mutexVars, threadVars, tableVars
<1>1. PICK l \in {"start"} : Goto(u, l)
  OBVIOUS
<1>2. l \in PC /\ pc[u] \in PC
  BY DEF IInv, TypeOK, LocalTypeOK, PC
<1>3. ThreadsTypeOK'
  BY DEF IInv, TypeOK, ThreadsTypeOK
<1>4. TableTypeOK'
  BY DEF IInv, TypeOK, TableTypeOK
<1>5. WordTypeOK'
  BY DEF IInv, TypeOK, WordTypeOK
<1>6. LocalTypeOK'
  BY <1>1, <1>2, GotoType DEF IInv, TypeOK, LocalTypeOK
<1>7. MutualExclusion'
  BY <1>1, <1>2, NoNewOwner DEF IInv, TypeOK, LocalTypeOK, Owns, OwnerPC
<1> QED
  BY <1>3, <1>4, <1>5, <1>6, <1>7 DEF IInv, TypeOK

\* The yield that ends unlock_se keeps the inductive invariant.
LEMMA SeYieldKeeps ==
  ASSUME IInv, NEW u \in Thread, NEW e \in Xstream, On(u, e), SeYield(u, e)
  PROVE  IInv'
<1> USE DEF SeYield, YieldThread, SwitchToSched, Finish, mutexVars, threadVars, tableVars
<1>1. PICK l \in {"start"} : Goto(u, l)
  OBVIOUS
<1>2. l \in PC /\ pc[u] \in PC
  BY DEF IInv, TypeOK, LocalTypeOK, PC
<1>3. ThreadsTypeOK'
  BY DEF IInv, TypeOK, ThreadsTypeOK, ThreadState, Phase, On
<1>4. TableTypeOK'
  BY DEF IInv, TypeOK, TableTypeOK
<1>5. WordTypeOK'
  BY DEF IInv, TypeOK, WordTypeOK
<1>6. LocalTypeOK'
  BY <1>1, <1>2, GotoType DEF IInv, TypeOK, LocalTypeOK
<1>7. MutualExclusion'
  BY <1>1, <1>2, NoNewOwner DEF IInv, TypeOK, LocalTypeOK, Owns, OwnerPC
<1> QED
  BY <1>3, <1>4, <1>5, <1>6, <1>7 DEF IInv, TypeOK

\* A yield inside the critical section keeps the inductive invariant.
LEMMA YieldInCSKeeps ==
  ASSUME IInv, NEW u \in Thread, NEW e \in Xstream, On(u, e), YieldInCS(u, e)
  PROVE  IInv'
<1> USE DEF YieldInCS, YieldThread, SwitchToSched, mutexVars, threadVars, tableVars
<1>1. PICK l \in {"cs2"} : Goto(u, l)
  OBVIOUS
<1>2. l \in PC /\ pc[u] \in PC
  BY DEF IInv, TypeOK, LocalTypeOK, PC
<1>3. ThreadsTypeOK'
  BY DEF IInv, TypeOK, ThreadsTypeOK, ThreadState, Phase, On
<1>4. TableTypeOK'
  BY DEF IInv, TypeOK, TableTypeOK
<1>5. WordTypeOK'
  BY DEF IInv, TypeOK, WordTypeOK
<1>6. LocalTypeOK'
  BY <1>1, <1>2, GotoType DEF IInv, TypeOK, LocalTypeOK
<1>7. MutualExclusion'
  BY <1>1, <1>2, NoNewOwner DEF IInv, TypeOK, LocalTypeOK, Owns, OwnerPC
<1> QED
  BY <1>3, <1>4, <1>5, <1>6, <1>7 DEF IInv, TypeOK

\* The end of a ULT keeps the inductive invariant.
LEMMA TerminateKeeps ==
  ASSUME IInv, NEW u \in Thread, NEW e \in Xstream, On(u, e), Terminate(u, e)
  PROVE  IInv'
<1> USE DEF Terminate, SwitchToSched, mutexVars, threadVars, tableVars
<1>1. PICK l \in {"done"} : Goto(u, l)
  OBVIOUS
<1>2. l \in PC /\ pc[u] \in PC
  BY DEF IInv, TypeOK, LocalTypeOK, PC
<1>3. ThreadsTypeOK'
  BY DEF IInv, TypeOK, ThreadsTypeOK, Request, Phase, On
<1>4. TableTypeOK'
  BY DEF IInv, TypeOK, TableTypeOK
<1>5. WordTypeOK'
  BY DEF IInv, TypeOK, WordTypeOK
<1>6. LocalTypeOK'
  BY <1>1, <1>2, GotoType DEF IInv, TypeOK, LocalTypeOK
<1>7. MutualExclusion'
  BY <1>1, <1>2, NoNewOwner DEF IInv, TypeOK, LocalTypeOK, Owns, OwnerPC
<1> QED
  BY <1>3, <1>4, <1>5, <1>6, <1>7 DEF IInv, TypeOK

(***************************************************************************)
(* The steps of the ESs, and the initial states.                           *)
(***************************************************************************)

\* Popping, pushing back and retiring ULTs keeps the types of the ULT layer.
LEMMA SchedulerType ==
  ASSUME ThreadsTypeOK, NEW e \in Xstream, Scheduler(e)
  PROVE  ThreadsTypeOK'
<1>1. CASE SchedRun(e)
  <2>1. PICK p \in Pool :
          /\ pool[p] # <<>>
          /\ running' = [running EXCEPT ![e] = Head(pool[p])]
          /\ state' = [state EXCEPT ![Head(pool[p])] = "RUNNING"]
          /\ lastES' = [lastES EXCEPT ![Head(pool[p])] = e]
          /\ pool' = [pool EXCEPT ![p] = Tail(@)]
          /\ phase' = [phase EXCEPT ![e] = "ult"]
          /\ UNCHANGED <<request, numBlocked>>
    BY <1>1 DEF SchedRun, NextPool
  <2>2. Head(pool[p]) \in Thread /\ Tail(pool[p]) \in Seq(Thread)
    BY <2>1, HeadTailProperties DEF ThreadsTypeOK
  <2> QED
    BY <2>1, <2>2, ThreadsAssumption DEF ThreadsTypeOK, ThreadState, Phase
<1>2. CASE ReturnTerminated(e)
  BY <1>2 DEF ReturnTerminated, BackToSched, ThreadsTypeOK, ThreadState, Phase
<1>3. CASE ReturnYielded(e)
  <2>1. running[e] \in Thread
    BY <1>3 DEF ReturnYielded, GoesOn, ThreadsTypeOK
  <2>2. pool' \in [Pool -> Seq(Thread)]
    BY <1>3, <2>1, PushType DEF ReturnYielded, MakeReady, ThreadsTypeOK
  <2> QED
    BY <1>3, <2>1, <2>2
    DEF ReturnYielded, MakeReady, BackToSched, ThreadsTypeOK, ThreadState, Phase
<1>4. CASE ReturnBlocked(e)
  BY <1>4 DEF ReturnBlocked, BackToSched, ThreadsTypeOK, Phase
<1> QED
  BY <1>1, <1>2, <1>3, <1>4 DEF Scheduler

\* A step of a scheduler keeps the inductive invariant.
LEMMA SchedKeeps ==
  ASSUME IInv, NEW e \in Xstream, Sched(e)
  PROVE  IInv'
<1> USE DEF Sched, mutexVars, localVars, tableVars
<1>1. ThreadsTypeOK'
  BY SchedulerType DEF IInv, TypeOK
<1>2. TableTypeOK'
  BY DEF IInv, TypeOK, TableTypeOK
<1>3. WordTypeOK'
  BY DEF IInv, TypeOK, WordTypeOK
<1>4. LocalTypeOK'
  BY DEF IInv, TypeOK, LocalTypeOK
<1>5. MutualExclusion'
  BY DEF IInv, MutualExclusion, Owns
<1> QED
  BY <1>1, <1>2, <1>3, <1>4, <1>5 DEF IInv, TypeOK

\* The inductive invariant holds initially.
LEMMA InitInv == Init => IInv
<1> SUFFICES ASSUME Init PROVE IInv
  OBVIOUS
<1> USE DEF Init
<1>1. ThreadsTypeOK
  BY ThreadsAssumption
  DEF ThreadsInit, ThreadsTypeOK, ThreadState, Request, Phase
<1>2. TableTypeOK
  BY EmptySeq DEF TableTypeOK
<1>3. WordTypeOK
  BY DEF WordTypeOK
<1>4. LocalTypeOK
  BY MutexAssumption DEF LocalTypeOK, PC
<1>5. MutualExclusion
  BY DEF MutualExclusion, Owns, OwnerPC
<1> QED
  BY <1>1, <1>2, <1>3, <1>4, <1>5 DEF IInv, TypeOK

\* A step of the ULT that an ES runs keeps the inductive invariant.
LEMMA StepKeeps ==
  ASSUME IInv, NEW u \in Thread, NEW e \in Xstream, Step(u, e)
  PROVE  IInv'
<1>1. On(u, e)
  BY DEF Step
<1>2. CASE Acquire(u, e)
  BY <1>1, <1>2, LockKeeps, LockLowKeeps, LowCasKeeps, LowSwapKeeps,
     LowSwitchKeeps, SpinlockKeeps, TrylockKeeps, XchgKeeps, WaitCheckKeeps,
     WaitEnqueueKeeps, WaitSuspendKeeps, TakeHandoverKeeps
  DEF Acquire
<1>3. CASE WakePop(u, e)
  <2>1. WakeHigh(u) \/ WakeLow(u) \/ WakeNone(u, e)
    BY <1>3 DEF WakePop
  <2> QED
    BY <1>1, <1>3, <2>1, WakeHighKeeps, WakeLowKeeps, WakeNoneKeeps
<1>4. CASE Release(u, e)
  BY <1>1, <1>3, <1>4, UnlockKeeps, StoreZeroKeeps, WakeReadyKeeps, WakeDecKeeps,
     UnlockSeKeeps, SeCheckKeeps, SePopKeeps, SeLowKeeps, SePopLowKeeps,
     SeGiveKeeps, SeSwitchKeeps, SeReturnKeeps, SeYieldKeeps
  DEF Release
<1>5. CASE YieldInCS(u, e) \/ Terminate(u, e)
  BY <1>1, <1>5, YieldInCSKeeps, TerminateKeeps
<1> QED
  BY <1>2, <1>4, <1>5 DEF Step

\* Every step, or none, keeps the inductive invariant.
LEMMA NextKeeps == IInv /\ [Next]_vars => IInv'
<1> SUFFICES ASSUME IInv, [Next]_vars PROVE IInv'
  OBVIOUS
<1>1. ASSUME NEW e \in Xstream, Sched(e) PROVE IInv'
  BY <1>1, SchedKeeps
<1>2. ASSUME NEW e \in Xstream, NEW u \in Thread, Step(u, e) PROVE IInv'
  BY <1>2, StepKeeps
<1>3. CASE UNCHANGED vars
  <2> USE <1>3 DEF vars, threadVars, mutexVars, tableVars, localVars
  <2>1. ThreadsTypeOK' /\ TableTypeOK'
    BY DEF IInv, TypeOK, ThreadsTypeOK, TableTypeOK
  <2>2. WordTypeOK' /\ LocalTypeOK'
    BY DEF IInv, TypeOK, WordTypeOK, LocalTypeOK
  <2>3. MutualExclusion'
    BY DEF IInv, MutualExclusion, Owns
  <2> QED
    BY <2>1, <2>2, <2>3 DEF IInv, TypeOK
<1> QED
  BY <1>1, <1>2, <1>3 DEF Next

(***************************************************************************)
(* Types and mutual exclusion.                                             *)
(***************************************************************************)

\* In every execution of ULTs that use a mutex, whatever operations they mix,
\* the lock word stays within 0 .. 2, every queue holds ULTs only and no
\* operation wakes, or switches to, a NULL ULT.
THEOREM MutexTypeCorrect == Spec => []TypeOK
<1>1. Init => IInv
  BY InitInv
<1>2. IInv /\ [Next]_vars => IInv'
  BY NextKeeps
<1>3. IInv => TypeOK
  BY DEF IInv
<1> QED
  BY <1>1, <1>2, <1>3, PTL DEF Spec

\* At most one ULT owns the mutex at any time, handovers included.
THEOREM MutexMutualExclusion == Spec => []MutualExclusion
<1>1. Init => IInv
  BY InitInv
<1>2. IInv /\ [Next]_vars => IInv'
  BY NextKeeps
<1>3. IInv => MutualExclusion
  BY DEF IInv
<1> QED
  BY <1>1, <1>2, <1>3, PTL DEF Spec

(***************************************************************************)
(* Where the ULTs are, and who is to wake them.                            *)
(***************************************************************************)

Runs(u) == \E e \in Xstream : running[e] = u
Waits(u, e) == Contains(hq[e], u) \/ Contains(lq[e], u)

\* Where a ULT has taken a waiter out of the table and not given it its ES yet.
SwitchPC == {"low_switch", "se_give", "se_switch"}
\* Where a ULT has a waiter to wake that is in no queue any more.
WakePC == SwitchPC \cup {"set_ready"}

\* The pools hold READY units, each in its home pool and only once.
PoolOK ==
  /\ QueuedOnce
  /\ AtHome
  /\ \A u \in Thread : InPool(u) => state[u] = "READY"

\* An ES runs a ULT of its own, which is in no pool and, when it is BLOCKED, still has
\* the BLOCK request.  The exception is a ULT in the middle of switch_low: it is in
\* the queue, BLOCKED without the request, so that it may be woken and pushed
\* before it has left its ES.
RunOK ==
  /\ OneRunner
  /\ \A e \in Xstream :
       /\ phase[e] # "cancel"
       /\ phase[e] = "sched" => running[e] = NoThread
       /\ phase[e] = "ult" =>
            state[running[e]] \in {"RUNNING", "BLOCKED"} \/ pc[running[e]] = "low_switch"
       /\ running[e] # NoThread /\ state[running[e]] = "BLOCKED" =>
            "BLOCK" \in request[running[e]] \/ pc[running[e]] = "low_switch"
       /\ running[e] # NoThread /\ InPool(running[e]) => pc[running[e]] = "low_switch"

\* The requests: BLOCK until the scheduler has seen it, and those of a ULT that ends.
ReqOK ==
  \A u \in Thread :
    /\ "BLOCK" \in request[u] => state[u] = "BLOCKED" /\ Runs(u) /\ pc[u] # "low_switch"
    /\ request[u] \cap Stop # {} =>
         /\ state[u] # "BLOCKED" /\ ~InPool(u) /\ pc[u] = "done"
         /\ \A e \in Xstream : running[e] = u => phase[e] = "ret"

\* Where in its program a ULT is while it is BLOCKED, and where it is on an ES.
PlaceOK ==
  \A u \in Thread :
    /\ state[u] = "BLOCKED" => pc[u] \in {"suspend", "resume", "low_switch"}
    /\ pc[u] \in SwitchPC \cup {"suspend"} => \E e \in Xstream : On(u, e)
    /\ \A e \in Xstream : On(u, e) /\ state[u] = "BLOCKED" => pc[u] # "resume"
    /\ pc[u] \in {"low_try", "low_switch"} => Low(u)

\* A ULT that locks with low priority is, and waits, where its home pool is served.
ServeOK ==
  \A u \in Thread, e \in Xstream : Low(u) =>
    /\ running[e] = u \/ Waits(u, e) => Serves(e, HomePool[u])
    /\ \A w \in Thread : running[e] = w /\ pc[w] \in SwitchPC /\ target[w] = u =>
         Serves(e, HomePool[u])

\* Nobody is in two places of the table, and who is there is BLOCKED and, if its stack is
\* still in use, on the ES in whose queue it is.
TableOK ==
  /\ \A e \in Xstream :
       /\ IsInjective(hq[e]) /\ IsInjective(lq[e])
       /\ \A u \in Thread : ~(Contains(hq[e], u) /\ Contains(lq[e], u))
  /\ \A u \in Thread, e \in Xstream : Waits(u, e) =>
       /\ state[u] = "BLOCKED"
       /\ \A f \in Xstream : running[f] = u \/ Waits(u, f) => f = e

\* Who is to be woken is BLOCKED, in no queue, and has one waker; one that is to be
\* switched to is on no ES.
TargetOK ==
  \A w \in Thread :
    /\ target[w] # NoThread => pc[w] \in WakePC \cup {"dec_blocked"}
    /\ pc[w] \in WakePC =>
         /\ state[target[w]] = "BLOCKED"
         /\ \A e \in Xstream : ~Waits(target[w], e)
         /\ pc[w] # "set_ready" => pc[target[w]] = "resume" /\ ~Runs(target[w])
         /\ \A x \in Thread : pc[x] \in WakePC /\ target[x] = target[w] => x = w

\* The ULT that gives the mutex away is the one that is named in p_giver, and it is
\* nowhere else until the new owner pushes it.
GiverOK ==
  /\ \A u \in Thread : pc[u] = "se_switch" => handover = target[u] /\ giver = u
  /\ handover # NoThread =>
       /\ giver # handover /\ pc[handover] = "resume"
       /\ \/ pc[giver] = "se_switch"
          \/ pc[giver] = "given" /\ state[giver] = "RUNNING" /\ ~InPool(giver) /\ ~Runs(giver)

\* Whoever is BLOCKED is in a queue of the table or has a waker.
BlockedFound ==
  \A u \in Thread : state[u] = "BLOCKED" =>
    \/ \E e \in Xstream : Waits(u, e)
    \/ \E w \in Thread : pc[w] \in WakePC /\ target[w] = u

PlacesInv ==
  /\ PoolOK /\ RunOK /\ ReqOK /\ PlaceOK /\ ServeOK /\ TableOK /\ TargetOK /\ GiverOK
  /\ BlockedFound

\* The types that the proofs below need.
LEMMA Types ==
  ASSUME IInv
  PROVE  /\ state \in [Thread -> ThreadState]
         /\ request \in [Thread -> SUBSET Request]
         /\ pool \in [Pool -> Seq(Thread)]
         /\ running \in [Xstream -> Thread \cup {NoThread}]
         /\ phase \in [Xstream -> Phase]
         /\ \A e \in Xstream : phase[e] # "sched" => running[e] \in Thread
         /\ hq \in [Xstream -> Seq(Thread)] /\ lq \in [Xstream -> Seq(Thread)]
         /\ pc \in [Thread -> PC]
         /\ target \in [Thread -> Thread \cup {NoThread}]
         /\ handover \in Thread \cup {NoThread}
         /\ giver \in Thread \cup {NoThread}
         /\ handover # NoThread => giver # NoThread
         /\ \A u \in Thread : pc[u] \in WakePC \cup {"dec_blocked"} => target[u] \in Thread
         /\ NoThread \notin Thread
<1>1. NoThread \notin Thread
  BY ThreadsAssumption
<1> QED
  BY <1>1 DEF IInv, TypeOK, ThreadsTypeOK, TableTypeOK, WordTypeOK, LocalTypeOK, WakePC, SwitchPC

\* A ULT on an ES is RUNNING and in no pool, unless it is about to leave it; nobody
\* else is on that ES, and nobody waits to wake it or to push it.
LEMMA OnES ==
  ASSUME IInv, PlacesInv, NEW u \in Thread, NEW e \in Xstream, On(u, e)
  PROVE  /\ running[e] = u /\ phase[e] = "ult" /\ Runs(u)
         /\ \A f \in Xstream : running[f] = u => f = e
         /\ request[u] \cap Stop = {}
         /\ pc[u] \notin {"suspend", "low_switch"} =>
              /\ state[u] = "RUNNING" /\ ~InPool(u)
              /\ \A f \in Xstream : ~Waits(u, f)
              /\ \A w \in Thread : pc[w] \in WakePC => target[w] # u
              /\ "BLOCK" \notin request[u]
         /\ handover # NoThread => (giver = u => pc[u] = "se_switch")
<1> USE DEF PlacesInv
<1>1. running[e] = u /\ phase[e] = "ult" /\ Runs(u) /\ u # NoThread
  BY ThreadsAssumption DEF On, Runs
<1>2. \A f \in Xstream : running[f] = u => f = e
  BY <1>1 DEF RunOK, OneRunner
<1>3. request[u] \cap Stop = {}
  BY <1>1 DEF ReqOK
<1>4. ASSUME pc[u] \notin {"suspend", "low_switch"} PROVE state[u] = "RUNNING" /\ ~InPool(u)
  <2>1. state[u] # "BLOCKED"
    BY <1>4 DEF PlaceOK
  <2> QED BY <1>1, <1>4, <2>1 DEF RunOK
<1>5. ASSUME pc[u] \notin {"suspend", "low_switch"}
      PROVE  /\ \A f \in Xstream : ~Waits(u, f)
             /\ \A w \in Thread : pc[w] \in WakePC => target[w] # u
             /\ "BLOCK" \notin request[u]
  BY <1>4, <1>5 DEF TableOK, TargetOK, ReqOK
<1>6. handover # NoThread => (giver = u => pc[u] = "se_switch")
  BY <1>1 DEF GiverOK
<1> QED
  BY <1>1, <1>2, <1>3, <1>4, <1>5, <1>6

\* A step that moves a ULT along its program and changes neither the ULTs nor the queues.
Quiet(u, l) ==
  /\ Goto(u, l)
  /\ pc[u] \notin WakePC \cup {"suspend"}
  /\ l \in PC \ (WakePC \cup {"suspend", "dec_blocked"})
  /\ l = "low_try" => Low(u)
  /\ UNCHANGED <<state, request, pool, running, phase, hq, lq, handover, giver>>
  /\ \/ target' = target /\ pc[u] # "dec_blocked"
     \/ target' = [target EXCEPT ![u] = NoThread]
  /\ pc[u] = "resume" => handover # u

\* Such a step of the ULT on an ES keeps everybody's place.
LEMMA QuietKeeps ==
  ASSUME IInv, PlacesInv, NEW u \in Thread, NEW e \in Xstream, On(u, e), NEW l, Quiet(u, l)
  PROVE  PlacesInv'
<1>0. /\ l \in PC /\ Goto(u, l) /\ {pc[u], l} \cap (WakePC \cup {"suspend"}) = {}
      /\ l # "dec_blocked" /\ (l = "low_try" => Low(u))
      /\ UNCHANGED <<state, request, pool, running, phase, hq, lq, handover, giver>>
      /\ \/ target' = target /\ pc[u] # "dec_blocked"
         \/ target' = [target EXCEPT ![u] = NoThread]
  BY DEF Quiet
<1>15. handover # u
  BY Types DEF PlacesInv, GiverOK, Quiet
<1> USE <1>0 DEF PlacesInv
<1>1. /\ pc'[u] = l /\ \A v \in Thread : v # u => pc'[v] = pc[v] /\ target'[v] = target[v]
      /\ target'[u] # NoThread => pc[u] # "dec_blocked" /\ target'[u] = target[u]
  BY <1>0, GotoType, Types
<1>2. /\ pc[u] \notin {"suspend", "low_switch", "se_give", "se_switch", "set_ready"}
      /\ l \notin {"suspend", "low_switch", "se_give", "se_switch", "set_ready"}
  BY <1>0 DEF WakePC, SwitchPC
<1>3. /\ state[u] = "RUNNING" /\ ~InPool(u) /\ request[u] \cap Stop = {} /\ "BLOCK" \notin request[u]
      /\ \A f \in Xstream : running[f] = u => f = e
      /\ \A w \in Thread : pc[w] \in WakePC => target[w] # u
      /\ phase[e] = "ult" /\ u # NoThread /\ (handover # NoThread => giver # u)
  BY <1>2, OnES, Types
<1>4. \A v \in Thread : /\ InPool(v)' <=> InPool(v)
                        /\ Runs(v)' <=> Runs(v)
                        /\ \A f \in Xstream : Waits(v, f)' <=> Waits(v, f)
                        /\ \A f \in Xstream : On(v, f)' <=> On(v, f)
  BY DEF InPool, Runs, Waits, On
<1>5. \A v \in Thread : pc'[v] \in WakePC <=> pc[v] \in WakePC
  BY <1>1, <1>2 DEF WakePC, SwitchPC
<1>6. PoolOK'
  BY <1>4 DEF PoolOK, QueuedOnce, AtHome
<1>7. RunOK'
  <2>1. \A f \in Xstream : /\ phase[f] # "sched" => running[f] \in Thread
                           /\ running[f] # NoThread => running[f] \in Thread
    BY Types
  <2> QED BY <2>1, <1>1, <1>2, <1>3, <1>4 DEF RunOK, OneRunner
<1>8. ReqOK'
  BY <1>1, <1>2, <1>3, <1>4 DEF ReqOK
<1>9. PlaceOK'
  BY <1>1, <1>2, <1>3, <1>4 DEF PlaceOK, SwitchPC
<1>10. ServeOK'
  BY <1>1, <1>2, <1>4 DEF ServeOK, SwitchPC
<1>11. TableOK'
  BY <1>4 DEF TableOK
<1>12. TargetOK'
  <2>1. \A w \in Thread : target'[w] # NoThread => pc'[w] \in WakePC \cup {"dec_blocked"}
    BY <1>1, <1>2, <1>5 DEF TargetOK
  <2>2. \A w \in Thread : pc'[w] \in WakePC =>
          /\ pc[w] \in WakePC /\ w # u /\ target'[w] = target[w] /\ target[w] # u /\ pc'[w] = pc[w]
          /\ target[w] \in Thread
    BY <1>1, <1>2, <1>3, <1>5, Types DEF WakePC, SwitchPC
  <2> QED BY <2>1, <2>2, <1>1, <1>4 DEF TargetOK
<1>13. GiverOK'
  BY <1>1, <1>2, <1>3, <1>4, <1>15, Types DEF GiverOK
<1>14. BlockedFound'
  BY <1>1, <1>2, <1>4, <1>5 DEF BlockedFound, WakePC, SwitchPC
<1> QED
  BY <1>6, <1>7, <1>8, <1>9, <1>10, <1>11, <1>12, <1>13, <1>14

\* Most steps of the lock operations are of this kind.
LEMMA QuietAcquire ==
  ASSUME IInv, NEW u \in Thread, NEW e \in Xstream,
         \/ Lock(u) \/ LockLow(u, e) \/ LowCas(u) \/ Spinlock(u) \/ Trylock(u) \/ Xchg(u)
         \/ WaitCheck(u)
         \/ LowSwap(u, e) /\ lq[e] = <<>>
         \/ TakeHandover(u) /\ handover # u
  PROVE  \E l \in PC : Quiet(u, l)
<1> USE Types DEF Quiet, CasLock, WakePC, SwitchPC, PC, threadVars, mutexVars, tableVars
<1>1. CASE Lock(u)
  BY <1>1 DEF Lock
<1>2. CASE LockLow(u, e)
  BY <1>2 DEF LockLow, Low
<1>3. CASE LowCas(u)
  BY <1>3 DEF LowCas
<1>4. CASE Spinlock(u)
  BY <1>4 DEF Spinlock
<1>5. CASE Trylock(u)
  <2>1. CASE val = 0
    BY <1>5, <2>1 DEF Trylock
  <2>2. CASE val # 0
    <3>1. Goto(u, "start")
      BY <1>5, <2>2 DEF Trylock, Goto
    <3> QED BY <1>5, <2>2, <3>1 DEF Trylock
  <2> QED BY <2>1, <2>2
<1>6. CASE Xchg(u)
  BY <1>6 DEF Xchg
<1>7. CASE WaitCheck(u)
  BY <1>7 DEF WaitCheck
<1>8. CASE LowSwap(u, e) /\ lq[e] = <<>>
  BY <1>8 DEF LowSwap
<1>9. CASE TakeHandover(u) /\ handover # u
  BY <1>9 DEF TakeHandover
<1> QED
  BY <1>1, <1>2, <1>3, <1>4, <1>5, <1>6, <1>7, <1>8, <1>9

\* And so are most of the unlock operations.
LEMMA QuietRelease ==
  ASSUME IInv, NEW u \in Thread, NEW e \in Xstream,
         \/ Unlock(u) \/ StoreZero(u) \/ WakeDec(u, e) \/ UnlockSe(u) \/ SeCheck(u, e)
         \/ SeLow(u, e) \/ SeReturn(u)
         \/ WakePop(u, e) /\ WakeNone(u, e)
         \/ SePop(u, e) /\ hq[e] = <<>>
         \/ SePopLow(u, e) /\ lq[e] = <<>>
  PROVE  \E l \in PC : Quiet(u, l)
<1> USE Types DEF Quiet, WakeOver, WakePC, SwitchPC, PC, threadVars, mutexVars, tableVars
<1>1. CASE Unlock(u)
  BY <1>1 DEF Unlock
<1>2. CASE StoreZero(u)
  BY <1>2 DEF StoreZero
<1>3. CASE WakeDec(u, e)
  BY <1>3 DEF WakeDec
<1>4. CASE UnlockSe(u)
  BY <1>4 DEF UnlockSe
<1>5. CASE SeCheck(u, e)
  BY <1>5 DEF SeCheck
<1>6. CASE SeLow(u, e)
  BY <1>6 DEF SeLow
<1>7. CASE SeReturn(u)
  BY <1>7 DEF SeReturn
<1>8. CASE WakePop(u, e) /\ WakeNone(u, e)
  BY <1>8 DEF WakePop, WakeNone
<1>9. CASE SePop(u, e) /\ hq[e] = <<>>
  BY <1>9 DEF SePop
<1>10. CASE SePopLow(u, e) /\ lq[e] = <<>>
  BY <1>10 DEF SePopLow
<1> QED
  BY <1>1, <1>2, <1>3, <1>4, <1>5, <1>6, <1>7, <1>8, <1>9, <1>10

(***************************************************************************)
(* The steps that change the ULTs or the queues.                           *)
(***************************************************************************)

\* The running ULT switches back to its scheduler, after it has yielded or ended.
LEMMA LeaveKeeps ==
  ASSUME IInv, PlacesInv, NEW u \in Thread, NEW e \in Xstream, On(u, e),
         NEW l \in PC, Goto(u, l), pc[u] \notin WakePC \cup {"suspend"},
         l \notin WakePC \cup {"suspend", "low_try", "dec_blocked"},
         handover # u, pc[u] # "dec_blocked", SwitchToSched(e),
         \/ request' = request /\ state' = [state EXCEPT ![u] = "READY"]
         \/ /\ l = "done" /\ request' = [request EXCEPT ![u] = @ \cup {"JOIN", "TERMINATE"}]
            /\ state' = state,
         UNCHANGED <<pool, running, hq, lq, handover, giver, target>>
  PROVE  PlacesInv'
<1> USE DEF PlacesInv
<1>1. /\ pc'[u] = l /\ \A v \in Thread : v # u => pc'[v] = pc[v]
      /\ phase'[e] = "ret" /\ \A f \in Xstream : f # e => phase'[f] = phase[f]
  BY GotoType, Types DEF SwitchToSched
<1>2. /\ pc[u] \notin {"suspend", "low_switch", "se_give", "se_switch", "set_ready"}
      /\ l \notin {"suspend", "low_switch", "se_give", "se_switch", "set_ready"}
  BY DEF WakePC, SwitchPC
<1>3. /\ state[u] = "RUNNING" /\ ~InPool(u) /\ request[u] \cap Stop = {} /\ "BLOCK" \notin request[u]
      /\ \A f \in Xstream : running[f] = u => f = e
      /\ \A w \in Thread : pc[w] \in WakePC => target[w] # u
      /\ \A f \in Xstream : ~Waits(u, f)
      /\ phase[e] = "ult" /\ running[e] = u /\ u # NoThread /\ (handover # NoThread => giver # u)
  BY <1>2, OnES, Types
<1>4. \A v \in Thread : /\ InPool(v)' <=> InPool(v)
                        /\ Runs(v)' <=> Runs(v)
                        /\ \A f \in Xstream : Waits(v, f)' <=> Waits(v, f)
                        /\ \A f \in Xstream : v # u => (On(v, f)' <=> On(v, f))
                        /\ v # u => state'[v] = state[v] /\ request'[v] = request[v]
  BY <1>1, <1>3, Types DEF InPool, Runs, Waits, On
<1>5. /\ state'[u] \in {"READY", "RUNNING"} /\ "BLOCK" \notin request'[u]
      /\ request'[u] \cap Stop # {} => l = "done" /\ state'[u] = "RUNNING"
  <2>1. CASE request' = request /\ state' = [state EXCEPT ![u] = "READY"]
    BY <1>3, <2>1, Types
  <2>2. CASE /\ l = "done" /\ request' = [request EXCEPT ![u] = @ \cup {"JOIN", "TERMINATE"}]
             /\ state' = state
    BY <1>3, <2>2, Types
  <2> QED BY <2>1, <2>2
<1>6. PoolOK'
  BY <1>3, <1>4 DEF PoolOK, QueuedOnce, AtHome
<1>7. RunOK'
  <2>1. \A f \in Xstream : /\ phase[f] # "sched" => running[f] \in Thread
                           /\ running[f] # NoThread => running[f] \in Thread
    BY Types
  <2> QED BY <2>1, <1>1, <1>2, <1>3, <1>4, <1>5 DEF RunOK, OneRunner
<1>8. ReqOK'
  BY <1>1, <1>2, <1>3, <1>4, <1>5 DEF ReqOK
<1>9. PlaceOK'
  BY <1>1, <1>2, <1>3, <1>4, <1>5 DEF PlaceOK, SwitchPC, On
<1>10. ServeOK'
  BY <1>1, <1>2, <1>4 DEF ServeOK, SwitchPC
<1>11. TableOK'
  <2>1. \A v \in Thread, f \in Xstream : Waits(v, f)' => state'[v] = "BLOCKED"
    BY <1>3, <1>4 DEF TableOK
  <2> QED BY <2>1, <1>4 DEF TableOK
<1>12. TargetOK'
  <2>1. \A w \in Thread : target'[w] # NoThread => pc'[w] \in WakePC \cup {"dec_blocked"}
    BY <1>1, <1>2 DEF TargetOK
  <2>2. \A w \in Thread : pc'[w] \in WakePC =>
          /\ pc[w] \in WakePC /\ w # u /\ target[w] # u /\ pc'[w] = pc[w]
          /\ target[w] \in Thread
    BY <1>1, <1>2, <1>3, Types DEF WakePC, SwitchPC
  <2> QED BY <2>1, <2>2, <1>1, <1>4 DEF TargetOK
<1>13. GiverOK'
  BY <1>1, <1>2, <1>3, <1>4, Types DEF GiverOK
<1>14. BlockedFound'
  BY <1>1, <1>2, <1>4, <1>5 DEF BlockedFound, WakePC, SwitchPC
<1> QED
  BY <1>6, <1>7, <1>8, <1>9, <1>10, <1>11, <1>12, <1>13, <1>14

\* The queues after a ULT that waits in none has entered that of an ES.
LEMMA EnqueueAdds ==
  ASSUME IInv, PlacesInv, NEW u \in Thread, NEW e \in Xstream,
         \A f \in Xstream : ~Waits(u, f),
         \/ hq' = [hq EXCEPT ![e] = Append(@, u)] /\ lq' = lq
         \/ lq' = [lq EXCEPT ![e] = Append(@, u)] /\ hq' = hq
  PROVE  /\ \A f \in Xstream :
              /\ IsInjective(hq'[f]) /\ IsInjective(lq'[f])
              /\ \A v \in Thread : ~(Contains(hq'[f], v) /\ Contains(lq'[f], v))
         /\ \A v \in Thread, f \in Xstream : Waits(v, f)' <=> Waits(v, f) \/ (v = u /\ f = e)
<1>1. /\ hq[e] \in Seq(Thread) /\ lq[e] \in Seq(Thread)
      /\ IsInjective(hq[e]) /\ IsInjective(lq[e])
      /\ ~Contains(hq[e], u) /\ ~Contains(lq[e], u)
  BY Types DEF PlacesInv, TableOK, Waits
<1>2. /\ IsInjective(Append(hq[e], u)) /\ IsInjective(Append(lq[e], u))
      /\ \A v : Contains(Append(hq[e], u), v) <=> Contains(hq[e], v) \/ v = u
      /\ \A v : Contains(Append(lq[e], u), v) <=> Contains(lq[e], v) \/ v = u
  BY <1>1, AppendContains
<1>3. /\ \/ hq'[e] = Append(hq[e], u) /\ lq'[e] = lq[e]
         \/ hq'[e] = hq[e] /\ lq'[e] = Append(lq[e], u)
      /\ \A f \in Xstream : f # e => hq'[f] = hq[f] /\ lq'[f] = lq[f]
  <2>1. hq \in [Xstream -> Seq(Thread)] /\ lq \in [Xstream -> Seq(Thread)]
    BY Types
  <2> QED BY <2>1
<1>4. ASSUME NEW f \in Xstream
      PROVE  /\ IsInjective(hq'[f]) /\ IsInjective(lq'[f])
             /\ \A v \in Thread : ~(Contains(hq'[f], v) /\ Contains(lq'[f], v))
  <2>1. CASE f # e
    BY <2>1, <1>3 DEF PlacesInv, TableOK
  <2>2. CASE f = e /\ hq'[e] = Append(hq[e], u) /\ lq'[e] = lq[e]
    BY <2>2, <1>1, <1>2 DEF PlacesInv, TableOK
  <2>3. CASE f = e /\ hq'[e] = hq[e] /\ lq'[e] = Append(lq[e], u)
    BY <2>3, <1>1, <1>2 DEF PlacesInv, TableOK
  <2> QED BY <1>3, <2>1, <2>2, <2>3
<1>5. ASSUME NEW v \in Thread, NEW f \in Xstream
      PROVE  Waits(v, f)' <=> Waits(v, f) \/ (v = u /\ f = e)
  BY <1>2, <1>3 DEF Waits
<1> QED
  BY <1>4, <1>5

\* A waiter enters the queue of its ES and becomes BLOCKED.
LEMMA WaitEnqueuePlaces ==
  ASSUME IInv, PlacesInv, NEW u \in Thread, NEW e \in Xstream, On(u, e), WaitEnqueue(u, e)
  PROVE  PlacesInv'
<1> USE DEF PlacesInv
<1>1. /\ pc[u] = "enqueue" /\ pc'[u] = "suspend"
      /\ \A v \in Thread : v # u => pc'[v] = pc[v] /\ state'[v] = state[v] /\ request'[v] = request[v]
      /\ state'[u] = "BLOCKED" /\ request'[u] = request[u] \cup {"BLOCK"}
      /\ UNCHANGED <<pool, running, phase, handover, giver, target>>
  BY Types DEF WaitEnqueue, SetBlocked, Goto
<1>2. /\ state[u] = "RUNNING" /\ ~InPool(u) /\ request[u] \cap Stop = {}
      /\ \A f \in Xstream : running[f] = u => f = e
      /\ \A w \in Thread : pc[w] \in WakePC => target[w] # u
      /\ \A f \in Xstream : ~Waits(u, f)
      /\ phase[e] = "ult" /\ running[e] = u /\ u # NoThread /\ (handover # NoThread => giver # u)
  BY <1>1, OnES, Types
<1>3. /\ \A f \in Xstream :
           /\ IsInjective(hq'[f]) /\ IsInjective(lq'[f])
           /\ \A v \in Thread : ~(Contains(hq'[f], v) /\ Contains(lq'[f], v))
      /\ \A v \in Thread, f \in Xstream : Waits(v, f)' <=> Waits(v, f) \/ (v = u /\ f = e)
  <2>1. \/ hq' = [hq EXCEPT ![e] = Append(@, u)] /\ lq' = lq
        \/ lq' = [lq EXCEPT ![e] = Append(@, u)] /\ hq' = hq
    BY DEF WaitEnqueue
  <2> HIDE DEF PlacesInv
  <2> QED BY <1>2, <2>1, EnqueueAdds
<1>4. \A v \in Thread : /\ InPool(v)' <=> InPool(v)
                        /\ Runs(v)' <=> Runs(v)
                        /\ \A f \in Xstream : On(v, f)' <=> On(v, f)
  BY <1>1 DEF InPool, Runs, On
<1>5. Runs(u) /\ request'[u] \cap Stop = {}
  BY <1>1, <1>2 DEF Runs, Stop
<1>6. PoolOK'
  BY <1>1, <1>2, <1>4 DEF PoolOK, QueuedOnce, AtHome
<1>7. RunOK'
  <2>1. \A f \in Xstream : /\ phase[f] # "sched" => running[f] \in Thread
                           /\ running[f] # NoThread => running[f] \in Thread
    BY Types
  <2> QED BY <2>1, <1>1, <1>2, <1>4 DEF RunOK, OneRunner
<1>8. ReqOK'
  BY <1>1, <1>2, <1>4, <1>5 DEF ReqOK
<1>9. PlaceOK'
  BY <1>1, <1>2, <1>4 DEF PlaceOK, SwitchPC
<1>10. ServeOK'
  <2>1. \A w \in Thread : pc'[w] \in SwitchPC => pc[w] \in SwitchPC
    BY <1>1 DEF SwitchPC
  <2> QED BY <2>1, <1>1, <1>2, <1>3 DEF ServeOK
<1>11. TableOK'
  BY <1>1, <1>2, <1>3, <1>4 DEF TableOK
<1>12. TargetOK'
  <2>1. \A w \in Thread : target'[w] # NoThread => pc'[w] \in WakePC \cup {"dec_blocked"}
    BY <1>1 DEF TargetOK, WakePC, SwitchPC
  <2>2. \A w \in Thread : pc'[w] \in WakePC =>
          /\ pc[w] \in WakePC /\ w # u /\ target[w] # u /\ pc'[w] = pc[w]
          /\ target[w] \in Thread
    BY <1>1, <1>2, Types DEF WakePC, SwitchPC
  <2> QED BY <2>1, <2>2, <1>1, <1>3, <1>4 DEF TargetOK
<1>13. GiverOK'
  BY <1>1, <1>2, <1>4, Types DEF GiverOK
<1>14. BlockedFound'
  BY <1>1, <1>3 DEF BlockedFound, WakePC, SwitchPC
<1> QED
  BY <1>6, <1>7, <1>8, <1>9, <1>10, <1>11, <1>12, <1>13, <1>14

\* A waiter leaves its ES.
LEMMA WaitSuspendPlaces ==
  ASSUME IInv, PlacesInv, NEW u \in Thread, NEW e \in Xstream, On(u, e), WaitSuspend(u, e)
  PROVE  PlacesInv'
<1> USE DEF PlacesInv
<1>1. /\ pc[u] = "suspend" /\ pc'[u] = "resume" /\ \A v \in Thread : v # u => pc'[v] = pc[v]
      /\ phase'[e] = "ret" /\ \A f \in Xstream : f # e => phase'[f] = phase[f]
      /\ UNCHANGED <<state, request, pool, running, hq, lq, handover, giver, target>>
  BY Types DEF WaitSuspend, SwitchToSched, Goto, mutexVars, tableVars
<1>2. /\ request[u] \cap Stop = {} /\ \A f \in Xstream : running[f] = u => f = e
      /\ phase[e] = "ult" /\ running[e] = u /\ u # NoThread /\ (handover # NoThread => giver # u)
  BY <1>1, OnES, Types
<1>3. \A v \in Thread : /\ InPool(v)' <=> InPool(v)
                        /\ Runs(v)' <=> Runs(v)
                        /\ \A f \in Xstream : Waits(v, f)' <=> Waits(v, f)
                        /\ \A f \in Xstream : v # u => (On(v, f)' <=> On(v, f))
  BY <1>1, <1>2 DEF InPool, Runs, Waits, On
<1>4. PoolOK'
  BY <1>1, <1>3 DEF PoolOK, QueuedOnce, AtHome
<1>5. RunOK'
  <2>1. \A f \in Xstream : /\ phase[f] # "sched" => running[f] \in Thread
                           /\ running[f] # NoThread => running[f] \in Thread
    BY Types
  <2> QED BY <2>1, <1>1, <1>2, <1>3 DEF RunOK, OneRunner
<1>6. ReqOK'
  BY <1>1, <1>2, <1>3 DEF ReqOK
<1>7. PlaceOK'
  BY <1>1, <1>2, <1>3 DEF PlaceOK, SwitchPC, On
<1>8. ServeOK'
  <2>1. \A w \in Thread : pc'[w] \in SwitchPC => pc[w] \in SwitchPC
    BY <1>1 DEF SwitchPC
  <2> QED BY <2>1, <1>1, <1>3 DEF ServeOK
<1>9. TableOK'
  BY <1>1, <1>3 DEF TableOK
<1>10. TargetOK'
  <2>1. \A w \in Thread : target'[w] # NoThread => pc'[w] \in WakePC \cup {"dec_blocked"}
    BY <1>1 DEF TargetOK, WakePC, SwitchPC
  <2>2. \A w \in Thread : pc'[w] \in WakePC =>
          /\ pc[w] \in WakePC /\ w # u /\ pc'[w] = pc[w] /\ target[w] \in Thread
    BY <1>1, Types DEF WakePC, SwitchPC
  <2> QED BY <2>1, <2>2, <1>1, <1>3 DEF TargetOK
<1>11. GiverOK'
  BY <1>1, <1>2, <1>3, Types DEF GiverOK
<1>12. BlockedFound'
  BY <1>1, <1>3 DEF BlockedFound, WakePC, SwitchPC
<1> QED
  BY <1>4, <1>5, <1>6, <1>7, <1>8, <1>9, <1>10, <1>11, <1>12

\* The head of a queue, and the queues when it has been taken from there.
Takes(f, t) ==
  \/ hq[f] # <<>> /\ t = Head(hq[f]) /\ hq' = [hq EXCEPT ![f] = Tail(@)] /\ lq' = lq
  \/ lq[f] # <<>> /\ t = Head(lq[f]) /\ lq' = [lq EXCEPT ![f] = Tail(@)] /\ hq' = hq

\* It waited there and nowhere else, and waits nowhere any more.
LEMMA DequeueRemoves ==
  ASSUME IInv, PlacesInv, NEW f \in Xstream, NEW t, Takes(f, t)
  PROVE  /\ t \in Thread /\ Waits(t, f)
         /\ \A g \in Xstream :
              /\ IsInjective(hq'[g]) /\ IsInjective(lq'[g])
              /\ \A v \in Thread : ~(Contains(hq'[g], v) /\ Contains(lq'[g], v))
         /\ \A v \in Thread, g \in Xstream : Waits(v, g)' <=> Waits(v, g) /\ v # t
<1>1. /\ hq \in [Xstream -> Seq(Thread)] /\ lq \in [Xstream -> Seq(Thread)]
      /\ hq[f] \in Seq(Thread) /\ lq[f] \in Seq(Thread)
  BY Types
<1>2. /\ IsInjective(hq[f]) /\ IsInjective(lq[f])
      /\ \A v \in Thread : ~(Contains(hq[f], v) /\ Contains(lq[f], v))
      /\ \A v \in Thread, g, h \in Xstream : Waits(v, g) /\ Waits(v, h) => g = h
      /\ \A g \in Xstream :
           /\ IsInjective(hq[g]) /\ IsInjective(lq[g])
           /\ \A v \in Thread : ~(Contains(hq[g], v) /\ Contains(lq[g], v))
  BY DEF PlacesInv, TableOK
<1>3. CASE hq[f] # <<>> /\ t = Head(hq[f]) /\ hq' = [hq EXCEPT ![f] = Tail(@)] /\ lq' = lq
  <2>1. /\ t \in Thread /\ IsInjective(Tail(hq[f])) /\ Contains(hq[f], t) /\ ~Contains(Tail(hq[f]), t)
        /\ \A y : Contains(hq[f], y) <=> Contains(Tail(hq[f]), y) \/ y = t
    BY <1>1, <1>2, <1>3, TailContains
  <2>2. hq'[f] = Tail(hq[f]) /\ \A g \in Xstream : (g # f => hq'[g] = hq[g]) /\ lq'[g] = lq[g]
    BY <1>1, <1>3
  <2>3. Waits(t, f)
    BY <2>1 DEF Waits
  <2>4. ASSUME NEW g \in Xstream
        PROVE  /\ IsInjective(hq'[g]) /\ IsInjective(lq'[g])
               /\ \A v \in Thread : ~(Contains(hq'[g], v) /\ Contains(lq'[g], v))
    <3>1. CASE g # f BY <3>1, <2>2, <1>2
    <3>2. CASE g = f BY <3>2, <2>1, <2>2, <1>2
    <3> QED BY <3>1, <3>2
  <2>5. ASSUME NEW v \in Thread, NEW g \in Xstream PROVE Waits(v, g)' <=> Waits(v, g) /\ v # t
    <3>1. CASE g # f
      <4>1. Waits(v, g)' <=> Waits(v, g)
        BY <3>1, <2>2 DEF Waits
      <4>2. Waits(v, g) => v # t
        BY <3>1, <2>1, <2>3, <1>2
      <4> QED BY <4>1, <4>2
    <3>2. CASE g = f BY <3>2, <2>1, <2>2, <1>2 DEF Waits
    <3> QED BY <3>1, <3>2
  <2> QED BY <2>1, <2>3, <2>4, <2>5
<1>4. CASE lq[f] # <<>> /\ t = Head(lq[f]) /\ lq' = [lq EXCEPT ![f] = Tail(@)] /\ hq' = hq
  <2>1. /\ t \in Thread /\ IsInjective(Tail(lq[f])) /\ Contains(lq[f], t) /\ ~Contains(Tail(lq[f]), t)
        /\ \A y : Contains(lq[f], y) <=> Contains(Tail(lq[f]), y) \/ y = t
    BY <1>1, <1>2, <1>4, TailContains
  <2>2. lq'[f] = Tail(lq[f]) /\ \A g \in Xstream : (g # f => lq'[g] = lq[g]) /\ hq'[g] = hq[g]
    BY <1>1, <1>4
  <2>3. Waits(t, f)
    BY <2>1 DEF Waits
  <2>4. ASSUME NEW g \in Xstream
        PROVE  /\ IsInjective(hq'[g]) /\ IsInjective(lq'[g])
               /\ \A v \in Thread : ~(Contains(hq'[g], v) /\ Contains(lq'[g], v))
    <3>1. CASE g # f BY <3>1, <2>2, <1>2
    <3>2. CASE g = f BY <3>2, <2>1, <2>2, <1>2
    <3> QED BY <3>1, <3>2
  <2>5. ASSUME NEW v \in Thread, NEW g \in Xstream PROVE Waits(v, g)' <=> Waits(v, g) /\ v # t
    <3>1. CASE g # f
      <4>1. Waits(v, g)' <=> Waits(v, g)
        BY <3>1, <2>2 DEF Waits
      <4>2. Waits(v, g) => v # t
        BY <3>1, <2>1, <2>3, <1>2
      <4> QED BY <4>1, <4>2
    <3>2. CASE g = f BY <3>2, <2>1, <2>2, <1>2 DEF Waits
    <3> QED BY <3>1, <3>2
  <2> QED BY <2>1, <2>3, <2>4, <2>5
<1> QED
  BY <1>3, <1>4 DEF Takes

\* A ULT that waits in the queue of an ES is BLOCKED and has no waker; when that ES runs
\* another ULT, it is on no ES and has nothing left to do but to come back.
LEMMA Waiter ==
  ASSUME IInv, PlacesInv, NEW t \in Thread, NEW f \in Xstream, Waits(t, f)
  PROVE  /\ state[t] = "BLOCKED" /\ ~InPool(t) /\ request[t] \cap Stop = {}
         /\ \A w \in Thread : pc[w] \in WakePC => target[w] # t
         /\ running[f] # t => ~Runs(t) /\ pc[t] = "resume" /\ "BLOCK" \notin request[t]
         /\ Low(t) => Serves(f, HomePool[t])
<1>1. state[t] = "BLOCKED" /\ \A g \in Xstream : running[g] = t => g = f
  BY DEF PlacesInv, TableOK
<1>2. ~InPool(t) /\ request[t] \cap Stop = {}
  BY <1>1 DEF PlacesInv, PoolOK, ReqOK
<1>3. \A w \in Thread : pc[w] \in WakePC => target[w] # t
  BY DEF PlacesInv, TargetOK
<1>4. ASSUME running[f] # t PROVE ~Runs(t) /\ pc[t] = "resume" /\ "BLOCK" \notin request[t]
  <2>1. ~Runs(t)
    BY <1>1, <1>4 DEF Runs
  <2>2. \A g \in Xstream : ~On(t, g)
    BY <2>1 DEF On, Runs
  <2>3. pc[t] = "resume"
    BY <2>2, <1>1 DEF PlacesInv, PlaceOK, SwitchPC
  <2> QED BY <2>1, <2>3 DEF PlacesInv, ReqOK
<1>5. Low(t) => Serves(f, HomePool[t])
  BY DEF PlacesInv, ServeOK
<1> QED
  BY <1>1, <1>2, <1>3, <1>4, <1>5

\* The step of a ULT that takes a waiter out of the table.
Taking(u, e, f, t, l) ==
  /\ Takes(f, t)
  /\ l = "se_give" => f = e
  /\ Goto(u, l)
  /\ pc[u] \notin WakePC \cup {"suspend", "resume"}
  /\ target' = [target EXCEPT ![u] = t]
  /\ UNCHANGED <<state, request, pool, running, phase, handover, giver>>

\* The ULT on an ES takes a waiter out of the table, to push it or, from the queues of its
\* own ES, to hand the mutex over to it.
LEMMA TakeKeeps ==
  ASSUME IInv, PlacesInv, NEW u \in Thread, NEW e \in Xstream, On(u, e),
         NEW f \in Xstream, NEW t, NEW l \in {"set_ready", "se_give"}, Taking(u, e, f, t, l)
  PROVE  PlacesInv'
<1> USE DEF PlacesInv, Taking
<1>1. /\ pc'[u] = l /\ target'[u] = t
      /\ \A v \in Thread : v # u => pc'[v] = pc[v] /\ target'[v] = target[v]
      /\ pc[u] \notin {"suspend", "low_switch", "se_give", "se_switch", "set_ready", "resume"}
  BY Types DEF Goto, WakePC, SwitchPC
<1>2. /\ state[u] = "RUNNING" /\ ~InPool(u) /\ request[u] \cap Stop = {} /\ "BLOCK" \notin request[u]
      /\ \A g \in Xstream : running[g] = u => g = e
      /\ \A w \in Thread : pc[w] \in WakePC => target[w] # u
      /\ phase[e] = "ult" /\ running[e] = u /\ u # NoThread /\ (handover # NoThread => giver # u)
  BY <1>1, OnES, Types
<1>3. /\ t \in Thread /\ Waits(t, f)
      /\ \A g \in Xstream :
           /\ IsInjective(hq'[g]) /\ IsInjective(lq'[g])
           /\ \A v \in Thread : ~(Contains(hq'[g], v) /\ Contains(lq'[g], v))
      /\ \A v \in Thread, g \in Xstream : Waits(v, g)' <=> Waits(v, g) /\ v # t
  BY DequeueRemoves
<1>4. /\ state[t] = "BLOCKED" /\ t # u
      /\ \A w \in Thread : pc[w] \in WakePC => target[w] # t
      /\ l = "se_give" => ~Runs(t) /\ pc[t] = "resume"
      /\ Low(t) => Serves(f, HomePool[t])
  BY <1>2, <1>3, Waiter
<1>5. \A v \in Thread : /\ InPool(v)' <=> InPool(v)
                        /\ Runs(v)' <=> Runs(v)
                        /\ \A g \in Xstream : On(v, g)' <=> On(v, g)
  BY DEF InPool, Runs, On
<1>6. PoolOK'
  BY <1>5 DEF PoolOK, QueuedOnce, AtHome
<1>7. RunOK'
  <2>1. \A g \in Xstream : /\ phase[g] # "sched" => running[g] \in Thread
                           /\ running[g] # NoThread => running[g] \in Thread
    BY Types
  <2> QED BY <2>1, <1>1, <1>2, <1>5 DEF RunOK, OneRunner
<1>8. ReqOK'
  BY <1>1, <1>2, <1>5 DEF ReqOK
<1>9. PlaceOK'
  BY <1>1, <1>2, <1>5 DEF PlaceOK, SwitchPC
<1>10. ServeOK'
  <2> SUFFICES ASSUME NEW v \in Thread, NEW g \in Xstream, Low(v)
               PROVE  /\ running[g] = v \/ Waits(v, g)' => Serves(g, HomePool[v])
                      /\ \A w \in Thread : running[g] = w /\ pc'[w] \in SwitchPC /\ target'[w] = v =>
                           Serves(g, HomePool[v])
    BY DEF ServeOK
  <2>1. running[g] = v \/ Waits(v, g)' => Serves(g, HomePool[v])
    BY <1>3 DEF ServeOK
  <2>2. ASSUME NEW w \in Thread, running[g] = w, pc'[w] \in SwitchPC, target'[w] = v
        PROVE  Serves(g, HomePool[v])
    <3>1. CASE w # u BY <3>1, <2>2, <1>1 DEF ServeOK
    <3>2. CASE w = u
      <4>1. g = e /\ v = t /\ l = "se_give"
        BY <3>2, <2>2, <1>1, <1>2 DEF SwitchPC
      <4> QED BY <4>1, <1>4
    <3> QED BY <3>1, <3>2
  <2> QED BY <2>1, <2>2
<1>11. TableOK'
  BY <1>1, <1>3, <1>5 DEF TableOK
<1>12. TargetOK'
  <2>1. \A w \in Thread : target'[w] # NoThread => pc'[w] \in WakePC \cup {"dec_blocked"}
    BY <1>1 DEF TargetOK, WakePC, SwitchPC
  <2>2. \A w \in Thread : w # u /\ pc'[w] \in WakePC =>
          /\ pc[w] \in WakePC /\ target'[w] = target[w] /\ target[w] \notin {t, u} /\ pc'[w] = pc[w]
          /\ target[w] \in Thread
    BY <1>1, <1>2, <1>4, Types
  <2>3. \A w \in Thread : pc'[w] \in WakePC =>
          /\ state[target'[w]] = "BLOCKED"
          /\ \A g \in Xstream : ~Waits(target[w], g)'
          /\ pc'[w] # "set_ready" => pc'[target'[w]] = "resume" /\ ~Runs(target'[w])
    <3> SUFFICES ASSUME NEW w \in Thread, pc'[w] \in WakePC
                 PROVE  /\ state[target'[w]] = "BLOCKED"
                        /\ \A g \in Xstream : ~Waits(target[w], g)'
                        /\ pc'[w] # "set_ready" => pc'[target'[w]] = "resume" /\ ~Runs(target'[w])
      OBVIOUS
    <3>1. CASE w # u
      <4>1. /\ state[target[w]] = "BLOCKED" /\ \A g \in Xstream : ~Waits(target[w], g)
            /\ pc[w] # "set_ready" => pc[target[w]] = "resume" /\ ~Runs(target[w])
        BY <3>1, <2>2 DEF TargetOK
      <4>2. \A g \in Xstream : ~Waits(target[w], g)'
        BY <4>1, <3>1, <2>2, <1>3 DEF Waits
      <4>3. /\ target'[w] = target[w] /\ pc'[w] = pc[w] /\ pc'[target[w]] = pc[target[w]]
        BY <3>1, <2>2, <1>1
      <4> QED BY <4>1, <4>2, <4>3
    <3>2. CASE w = u
      <4>1. \A g \in Xstream : ~Waits(target[w], g)'
        BY <3>2, <1>1, <1>3 DEF Waits
      <4>2. target'[w] = t /\ pc'[w] = l /\ pc'[t] = pc[t] /\ l \in {"set_ready", "se_give"}
        BY <3>2, <1>1, <1>3, <1>4
      <4> QED BY <4>1, <4>2, <1>4
    <3> QED BY <3>1, <3>2
  <2>4. \A w, x \in Thread : pc'[w] \in WakePC /\ pc'[x] \in WakePC /\ target'[x] = target'[w] => x = w
    BY <2>2, <1>1 DEF TargetOK
  <2>5. \A w \in Thread : pc'[w] # "set_ready" => (Runs(target[w])' <=> Runs(target'[w]))
    BY DEF Runs
  <2> QED BY <2>1, <2>3, <2>4, <2>5 DEF TargetOK
<1>13. GiverOK'
  <2>1. \A v \in Thread : pc'[v] = "se_switch" => v # u /\ pc[v] = "se_switch"
    BY <1>1
  <2>2. handover # NoThread => handover # u /\ giver # u /\ giver \in Thread /\ handover \in Thread
    BY <1>1, <1>2, Types DEF GiverOK
  <2> QED BY <2>1, <2>2, <1>1, <1>5 DEF GiverOK
<1>14. BlockedFound'
  <2>1. u \in Thread /\ pc'[u] \in WakePC /\ target'[u] = t
    BY <1>1 DEF WakePC, SwitchPC
  <2>2. \A w \in Thread : pc[w] \in WakePC => w # u /\ pc'[w] \in WakePC /\ target'[w] = target[w]
    BY <1>1 DEF WakePC, SwitchPC
  <2> QED BY <2>1, <2>2, <1>3 DEF BlockedFound
<1> QED
  BY <1>6, <1>7, <1>8, <1>9, <1>10, <1>11, <1>12, <1>13, <1>14

\* A wake-up under the table's lock, and the choice of the ULT to hand over to.
LEMMA Takers ==
  ASSUME IInv, NEW u \in Thread, NEW e \in Xstream,
         \/ WakePop(u, e) /\ (WakeHigh(u) \/ WakeLow(u))
         \/ SePop(u, e) /\ hq[e] # <<>>
         \/ SePopLow(u, e) /\ lq[e] # <<>>
  PROVE  \E f \in Xstream : \E t : \E l \in {"set_ready", "se_give"} : Taking(u, e, f, t, l)
<1> USE DEF WakePC, SwitchPC, threadVars
<1>1. CASE WakePop(u, e) /\ WakeHigh(u)
  <2>1. PICK i \in DOMAIN hList : /\ FirstLive(hList, hq, i)
                                 /\ Woken(u, Head(hq[hList[i]]))
                                 /\ hq' = Pop(hq, hList[i])
                                 /\ lq' = lq
    BY <1>1 DEF WakeHigh
  <2>2. hList[i] \in Xstream /\ hq[hList[i]] # <<>>
    BY <2>1, ElementOfSeq, LenProperties DEF IInv, TypeOK, TableTypeOK, FirstLive
  <2>3. Takes(hList[i], Head(hq[hList[i]]))
    BY <2>1, <2>2 DEF Takes, Pop
  <2>4. Taking(u, e, hList[i], Head(hq[hList[i]]), "set_ready")
    BY <1>1, <2>1, <2>3 DEF WakePop, Woken, Taking
  <2> QED BY <2>2, <2>4, Zenon
<1>2. CASE WakePop(u, e) /\ WakeLow(u)
  <2>1. PICK i \in DOMAIN lList : /\ FirstLive(lList, lq, i)
                                 /\ Woken(u, Head(lq[lList[i]]))
                                 /\ lq' = Pop(lq, lList[i])
                                 /\ hq' = hq
    BY <1>2 DEF WakeLow
  <2>2. lList[i] \in Xstream /\ lq[lList[i]] # <<>>
    BY <2>1, ElementOfSeq, LenProperties DEF IInv, TypeOK, TableTypeOK, FirstLive
  <2>3. Takes(lList[i], Head(lq[lList[i]]))
    BY <2>1, <2>2 DEF Takes, Pop
  <2>4. Taking(u, e, lList[i], Head(lq[lList[i]]), "set_ready")
    BY <1>2, <2>1, <2>3 DEF WakePop, Woken, Taking
  <2> QED BY <2>2, <2>4, Zenon
<1>3. CASE SePop(u, e) /\ hq[e] # <<>>
  <2>1. Takes(e, Head(hq[e]))
    BY <1>3 DEF SePop, Takes
  <2>2. Taking(u, e, e, Head(hq[e]), "se_give")
    BY <1>3, <2>1 DEF SePop, Taking
  <2> QED BY <2>2, Zenon
<1>4. CASE SePopLow(u, e) /\ lq[e] # <<>>
  <2>1. Takes(e, Head(lq[e]))
    BY <1>4 DEF SePopLow, Takes
  <2>2. Taking(u, e, e, Head(lq[e]), "se_give")
    BY <1>4, <2>1 DEF SePopLow, Taking
  <2> QED BY <2>2, Zenon
<1> QED BY <1>1, <1>2, <1>3, <1>4

\* They all keep everybody's place.
LEMMA TakePlaces ==
  ASSUME IInv, PlacesInv, NEW u \in Thread, NEW e \in Xstream, On(u, e),
         \/ WakePop(u, e) /\ (WakeHigh(u) \/ WakeLow(u))
         \/ SePop(u, e) /\ hq[e] # <<>>
         \/ SePopLow(u, e) /\ lq[e] # <<>>
  PROVE  PlacesInv'
BY Takers, TakeKeeps

\* The woken ULT is pushed to its pool.
LEMMA WakeReadyPlaces ==
  ASSUME IInv, PlacesInv, NEW u \in Thread, NEW e \in Xstream, On(u, e), WakeReady(u)
  PROVE  PlacesInv'
<1> USE DEF PlacesInv
<1>1. PICK t : t = target[u]
  OBVIOUS
<1>2. /\ pc[u] = "set_ready" /\ pc'[u] = "dec_blocked" /\ \A v \in Thread : v # u => pc'[v] = pc[v]
      /\ "BLOCK" \notin request[t] /\ Push(t)
      /\ state' = [state EXCEPT ![t] = "READY"]
      /\ UNCHANGED <<request, running, phase, hq, lq, handover, giver, target>>
  BY <1>1, Types DEF WakeReady, CanSetReady, MakeReady, Goto, mutexVars, tableVars
<1>3. /\ state[u] = "RUNNING"
      /\ \A g \in Xstream : running[g] = u => g = e
      /\ \A w \in Thread : pc[w] \in WakePC => target[w] # u
      /\ phase[e] = "ult" /\ running[e] = u /\ u # NoThread /\ (handover # NoThread => giver # u)
  BY <1>2, OnES, Types
<1>4. /\ t \in Thread /\ state[t] = "BLOCKED" /\ t # u /\ ~InPool(t) /\ request[t] \cap Stop = {}
      /\ \A g \in Xstream : ~Waits(t, g)
      /\ \A w \in Thread : pc[w] \in WakePC /\ w # u => target[w] # t
  <2>1. pc[u] \in WakePC /\ t \in Thread
    BY <1>1, <1>2, Types DEF WakePC
  <2>2. /\ state[t] = "BLOCKED" /\ \A g \in Xstream : ~Waits(t, g)
        /\ \A w \in Thread : pc[w] \in WakePC /\ w # u => target[w] # t
    BY <2>1, <1>1 DEF TargetOK
  <2> QED BY <2>1, <2>2, <1>3 DEF PoolOK, ReqOK
<1>5. /\ state'[t] = "READY" /\ \A v \in Thread : v # t => state'[v] = state[v]
      /\ \A v \in Thread : /\ Runs(v)' <=> Runs(v)
                           /\ \A g \in Xstream : On(v, g)' <=> On(v, g)
                           /\ \A g \in Xstream : Waits(v, g)' <=> Waits(v, g)
  BY <1>2, <1>4, Types DEF Runs, On, Waits
<1>6. /\ InPool(t)' /\ \A v \in Thread : v # t => (InPool(v)' <=> InPool(v))
      /\ QueuedOnce' /\ AtHome'
  BY <1>2, <1>4, PushAdds, Types DEF PoolOK
<1>7. PoolOK'
  BY <1>5, <1>6 DEF PoolOK
<1>8. RunOK'
  <2>1. \A g \in Xstream : /\ phase[g] # "sched" => running[g] \in Thread
                           /\ running[g] # NoThread => running[g] \in Thread
    BY Types
  <2>2. \A g \in Xstream : running[g] = t => pc[t] = "low_switch"
    BY <1>2, <1>4, <2>1, Types DEF RunOK
  <2> QED BY <2>1, <2>2, <1>2, <1>3, <1>4, <1>5, <1>6 DEF RunOK, OneRunner
<1>9. ReqOK'
  BY <1>2, <1>3, <1>4, <1>5, <1>6 DEF ReqOK
<1>10. PlaceOK'
  BY <1>2, <1>3, <1>5 DEF PlaceOK, SwitchPC
<1>11. ServeOK'
  <2>1. \A w \in Thread : pc'[w] \in SwitchPC => pc[w] \in SwitchPC
    BY <1>2 DEF SwitchPC
  <2> QED BY <2>1, <1>2, <1>5 DEF ServeOK
<1>12. TableOK'
  BY <1>2, <1>4, <1>5 DEF TableOK
<1>13. TargetOK'
  <2>1. \A w \in Thread : target'[w] # NoThread => pc'[w] \in WakePC \cup {"dec_blocked"}
    BY <1>2 DEF TargetOK, WakePC, SwitchPC
  <2>2. \A w \in Thread : pc'[w] \in WakePC =>
          /\ pc[w] \in WakePC /\ w # u /\ pc'[w] = pc[w] /\ target[w] \in Thread
          /\ target[w] # u /\ target[w] # t
    BY <1>2, <1>3, <1>4, Types DEF WakePC, SwitchPC
  <2> QED BY <2>1, <2>2, <1>2, <1>5 DEF TargetOK
<1>14. GiverOK'
  <2>1. handover # NoThread => handover # u /\ giver \in Thread /\ handover \in Thread
    BY <1>2, Types DEF GiverOK
  <2>2. handover # NoThread => giver # t
    <3>1. pc[t] \in {"suspend", "resume", "low_switch"}
      BY <1>4 DEF PlaceOK
    <3> QED BY <3>1 DEF GiverOK
  <2> QED BY <2>1, <2>2, <1>2, <1>3, <1>5, <1>6 DEF GiverOK
<1>15. BlockedFound'
  BY <1>1, <1>2, <1>4, <1>5 DEF BlockedFound, WakePC, SwitchPC
<1> QED
  BY <1>7, <1>8, <1>9, <1>10, <1>11, <1>12, <1>13, <1>14, <1>15

\* The new owner pushes the ULT that gave it the mutex.
LEMMA TakeHandoverPlaces ==
  ASSUME IInv, PlacesInv, NEW u \in Thread, NEW e \in Xstream, On(u, e), TakeHandover(u), handover = u
  PROVE  PlacesInv'
<1> USE DEF PlacesInv
<1>1. PICK g : g = giver
  OBVIOUS
<1>2. /\ pc[u] = "resume" /\ pc'[u] = "cs" /\ \A v \in Thread : v # u => pc'[v] = pc[v]
      /\ Push(g) /\ state' = [state EXCEPT ![g] = "READY"] /\ handover' = NoThread
      /\ UNCHANGED <<request, running, phase, hq, lq, giver, target>>
  BY <1>1, Types DEF TakeHandover, MakeReady, Goto, tableVars
<1>3. /\ state[u] = "RUNNING" /\ ~InPool(u) /\ Runs(u)
      /\ \A f \in Xstream : running[f] = u => f = e
      /\ \A w \in Thread : pc[w] \in WakePC => target[w] # u
      /\ phase[e] = "ult" /\ running[e] = u /\ u # NoThread
  BY <1>2, OnES, Types
<1>4. /\ g \in Thread /\ g # u /\ pc[g] = "given" /\ state[g] = "RUNNING"
      /\ ~InPool(g) /\ ~Runs(g)
  <2>1. g \in Thread /\ g # u
    BY <1>1, <1>3, Types DEF GiverOK
  <2>2. pc[g] # "se_switch"
    BY <2>1, <1>3 DEF GiverOK, WakePC, SwitchPC
  <2> QED BY <1>1, <1>3, <2>1, <2>2 DEF GiverOK
<1>5. /\ request[g] \cap Stop = {} /\ "BLOCK" \notin request[g]
      /\ \A f \in Xstream : running[f] # g /\ ~Waits(g, f)
      /\ \A w \in Thread : pc[w] \in WakePC => target[w] # g
  BY <1>4 DEF ReqOK, Runs, TableOK, TargetOK
<1>6. /\ state'[g] = "READY" /\ \A v \in Thread : v # g => state'[v] = state[v]
      /\ \A v \in Thread : /\ Runs(v)' <=> Runs(v)
                           /\ \A f \in Xstream : On(v, f)' <=> On(v, f)
                           /\ \A f \in Xstream : Waits(v, f)' <=> Waits(v, f)
  BY <1>2, <1>4, Types DEF Runs, On, Waits
<1>7. /\ InPool(g)' /\ \A v \in Thread : v # g => (InPool(v)' <=> InPool(v))
      /\ QueuedOnce' /\ AtHome'
  BY <1>2, <1>4, PushAdds, Types DEF PoolOK
<1>8. PoolOK'
  BY <1>6, <1>7 DEF PoolOK
<1>9. RunOK'
  <2>1. \A f \in Xstream : /\ phase[f] # "sched" => running[f] \in Thread
                           /\ running[f] # NoThread => running[f] \in Thread
    BY Types
  <2> QED BY <2>1, <1>2, <1>3, <1>4, <1>5, <1>6, <1>7 DEF RunOK, OneRunner
<1>10. ReqOK'
  BY <1>2, <1>3, <1>4, <1>5, <1>6, <1>7 DEF ReqOK
<1>11. PlaceOK'
  BY <1>2, <1>3, <1>4, <1>6 DEF PlaceOK, SwitchPC
<1>12. ServeOK'
  <2>1. \A w \in Thread : pc'[w] \in SwitchPC => pc[w] \in SwitchPC
    BY <1>2 DEF SwitchPC
  <2> QED BY <2>1, <1>2, <1>6 DEF ServeOK
<1>13. TableOK'
  BY <1>2, <1>4, <1>5, <1>6 DEF TableOK
<1>14. TargetOK'
  <2>1. \A w \in Thread : target'[w] # NoThread => pc'[w] \in WakePC \cup {"dec_blocked"}
    BY <1>2 DEF TargetOK, WakePC, SwitchPC
  <2>2. \A w \in Thread : pc'[w] \in WakePC =>
          /\ pc[w] \in WakePC /\ w # u /\ pc'[w] = pc[w] /\ target[w] \in Thread
          /\ target[w] # u /\ target[w] # g
    BY <1>2, <1>3, <1>5, Types DEF WakePC, SwitchPC
  <2> QED BY <2>1, <2>2, <1>2, <1>6 DEF TargetOK
<1>15. GiverOK'
  <2>1. \A v \in Thread : pc'[v] # "se_switch"
    BY <1>1, <1>2, <1>4 DEF GiverOK
  <2> QED BY <2>1, <1>2 DEF GiverOK
<1>16. BlockedFound'
  <2>1. \A w \in Thread : pc[w] \in WakePC => pc'[w] \in WakePC
    BY <1>2 DEF WakePC, SwitchPC
  <2> QED BY <2>1, <1>2, <1>4, <1>6 DEF BlockedFound
<1> QED
  BY <1>8, <1>9, <1>10, <1>11, <1>12, <1>13, <1>14, <1>15, <1>16

\* The owner names the waiter it has taken as the next owner.
LEMMA SeGivePlaces ==
  ASSUME IInv, PlacesInv, NEW u \in Thread, NEW e \in Xstream, On(u, e), SeGive(u, e)
  PROVE  PlacesInv'
<1> USE DEF PlacesInv
<1>1. PICK t : t = target[u]
  OBVIOUS
<1>2. /\ pc[u] = "se_give" /\ pc'[u] = "se_switch" /\ \A v \in Thread : v # u => pc'[v] = pc[v]
      /\ handover' = t /\ giver' = u
      /\ UNCHANGED <<state, request, pool, running, phase, hq, lq, target>>
  BY <1>1, Types DEF SeGive, Goto, threadVars, tableVars
<1>3. /\ t \in Thread /\ state[t] = "BLOCKED" /\ pc[t] = "resume"
      /\ state[u] = "RUNNING" /\ t # u
  <2>1. t \in Thread /\ pc[u] \in WakePC
    BY <1>1, <1>2, Types DEF WakePC, SwitchPC
  <2>2. state[t] = "BLOCKED" /\ pc[t] = "resume"
    BY <1>1, <1>2, <2>1 DEF TargetOK
  <2>3. state[u] = "RUNNING"
    BY <1>2, OnES
  <2> QED BY <2>1, <2>2, <2>3
<1>4. \A v \in Thread : pc[v] # "se_switch"
  <2>1. handover = NoThread
    BY <1>2 DEF IInv, MutualExclusion, Owns, OwnerPC
  <2>2. \A v \in Thread : pc[v] = "se_switch" => target[v] \in Thread
    BY Types DEF WakePC, SwitchPC
  <2> QED BY <2>1, <2>2, Types DEF GiverOK
<1>5. \A v \in Thread : /\ InPool(v)' <=> InPool(v)
                        /\ Runs(v)' <=> Runs(v)
                        /\ \A f \in Xstream : Waits(v, f)' <=> Waits(v, f)
                        /\ \A f \in Xstream : On(v, f)' <=> On(v, f)
  BY <1>2 DEF InPool, Runs, Waits, On
<1>6. \A v \in Thread : /\ pc'[v] \in WakePC <=> pc[v] \in WakePC
                        /\ pc'[v] \in SwitchPC <=> pc[v] \in SwitchPC
                        /\ \A l \in {"low_switch", "suspend", "resume", "done", "low_try"} :
                             pc'[v] = l <=> pc[v] = l
  BY <1>2 DEF WakePC, SwitchPC
<1>7. PoolOK'
  BY <1>2, <1>5 DEF PoolOK, QueuedOnce, AtHome
<1>8. RunOK'
  <2>1. \A f \in Xstream : /\ phase[f] # "sched" => running[f] \in Thread
                           /\ running[f] # NoThread => running[f] \in Thread
    BY Types
  <2> QED BY <2>1, <1>2, <1>5, <1>6 DEF RunOK, OneRunner
<1>9. ReqOK'
  BY <1>2, <1>5, <1>6 DEF ReqOK
<1>10. PlaceOK'
  BY <1>2, <1>5, <1>6 DEF PlaceOK
<1>11. ServeOK'
  BY <1>2, <1>5, <1>6 DEF ServeOK
<1>12. TableOK'
  BY <1>2, <1>5 DEF TableOK
<1>13. TargetOK'
  <2>1. \A w \in Thread : /\ target'[w] # NoThread => pc'[w] \in WakePC \cup {"dec_blocked"}
                          /\ pc'[w] \in WakePC => target[w] \in Thread
    BY <1>2, <1>6, Types DEF TargetOK, WakePC, SwitchPC
  <2>2. \A w \in Thread : pc'[w] = "set_ready" <=> pc[w] = "set_ready"
    BY <1>2
  <2> QED BY <2>1, <2>2, <1>2, <1>5, <1>6 DEF TargetOK
<1>14. GiverOK'
  BY <1>1, <1>2, <1>3, <1>4 DEF GiverOK
<1>15. BlockedFound'
  BY <1>2, <1>5, <1>6 DEF BlockedFound
<1> QED
  BY <1>7, <1>8, <1>9, <1>10, <1>11, <1>12, <1>13, <1>14, <1>15

\* The giver hands its ES over to the new owner.
LEMMA SeSwitchPlaces ==
  ASSUME IInv, PlacesInv, NEW u \in Thread, NEW e \in Xstream, On(u, e), SeSwitch(u, e)
  PROVE  PlacesInv'
<1> USE DEF PlacesInv
<1>1. PICK t : t = target[u]
  OBVIOUS
<1>2. /\ pc[u] = "se_switch" /\ pc'[u] = "given" /\ \A v \in Thread : v # u => pc'[v] = pc[v]
      /\ target'[u] = NoThread /\ \A v \in Thread : v # u => target'[v] = target[v]
      /\ running'[e] = t /\ \A f \in Xstream : f # e => running'[f] = running[f]
      /\ state' = [state EXCEPT ![t] = "RUNNING"] /\ "BLOCK" \notin request[t]
      /\ UNCHANGED <<request, pool, phase, hq, lq, handover, giver>>
  BY <1>1, Types DEF SeSwitch, SwitchToThread, CanSetReady, Goto, mutexVars, tableVars
<1>3. /\ state[u] = "RUNNING" /\ ~InPool(u)
      /\ \A f \in Xstream : running[f] = u => f = e
      /\ \A w \in Thread : pc[w] \in WakePC => target[w] # u
      /\ phase[e] = "ult" /\ running[e] = u /\ u # NoThread
      /\ "BLOCK" \notin request[u]
  BY <1>2, OnES, Types
<1>4. /\ t \in Thread /\ t # NoThread /\ state[t] = "BLOCKED" /\ t # u /\ pc[t] = "resume" /\ ~Runs(t)
      /\ ~InPool(t) /\ request[t] \cap Stop = {}
      /\ \A f \in Xstream : ~Waits(t, f) /\ running[f] # t
      /\ \A w \in Thread : pc[w] \in WakePC /\ w # u => target[w] # t
  <2>1. pc[u] \in WakePC /\ t \in Thread /\ t # NoThread
    BY <1>1, <1>2, Types DEF WakePC, SwitchPC
  <2>2. /\ state[t] = "BLOCKED" /\ \A f \in Xstream : ~Waits(t, f)
        /\ pc[t] = "resume" /\ ~Runs(t)
        /\ \A w \in Thread : pc[w] \in WakePC /\ w # u => target[w] # t
    BY <2>1, <1>1, <1>2 DEF TargetOK
  <2> QED BY <2>1, <2>2, <1>3 DEF PoolOK, ReqOK, Runs
<1>5. /\ state'[t] = "RUNNING" /\ \A v \in Thread : v # t => state'[v] = state[v]
      /\ \A v \in Thread : /\ InPool(v)' <=> InPool(v)
                           /\ v \notin {u, t} => (Runs(v)' <=> Runs(v))
                           /\ v \notin {u, t} => \A f \in Xstream : On(v, f)' <=> On(v, f)
                           /\ \A f \in Xstream : Waits(v, f)' <=> Waits(v, f)
      /\ ~Runs(u)' /\ \A f \in Xstream : running'[f] = t => f = e
      /\ \A f \in Xstream : running'[f] # u
  <2>1. state'[t] = "RUNNING" /\ \A v \in Thread : v # t => state'[v] = state[v]
    BY <1>2, <1>4, Types
  <2>2. \A f \in Xstream : running'[f] # u /\ (running'[f] = t => f = e)
    BY <1>2, <1>3, <1>4
  <2>3. \A v \in Thread : /\ InPool(v)' <=> InPool(v)
                          /\ \A f \in Xstream : Waits(v, f)' <=> Waits(v, f)
    BY <1>2 DEF InPool, Waits
  <2>4. \A v \in Thread, f \in Xstream : v \notin {u, t} => (running'[f] = v <=> running[f] = v)
    BY <1>2, <1>3
  <2>5. \A v \in Thread : v \notin {u, t} => /\ Runs(v)' <=> Runs(v)
                                            /\ \A f \in Xstream : On(v, f)' <=> On(v, f)
    BY <2>4, <1>2 DEF Runs, On
  <2>6. ~Runs(u)'
    BY <2>2 DEF Runs
  <2> QED BY <2>1, <2>2, <2>3, <2>5, <2>6
<1>6. PoolOK'
  BY <1>2, <1>4, <1>5 DEF PoolOK, QueuedOnce, AtHome
<1>7. RunOK'
  <2>1. \A f \in Xstream : /\ phase[f] # "sched" => running[f] \in Thread
                           /\ running[f] # NoThread => running[f] \in Thread
    BY Types
  <2>2. OneRunner'
    BY <1>2, <1>4, <1>5 DEF RunOK, OneRunner
  <2>3. ASSUME NEW f \in Xstream
        PROVE  /\ phase'[f] # "cancel"
               /\ phase'[f] = "sched" => running'[f] = NoThread
               /\ phase'[f] = "ult" =>
                    state'[running'[f]] \in {"RUNNING", "BLOCKED"} \/ pc'[running'[f]] = "low_switch"
               /\ running'[f] # NoThread /\ state'[running'[f]] = "BLOCKED" =>
                    "BLOCK" \in request'[running'[f]] \/ pc'[running'[f]] = "low_switch"
               /\ running'[f] # NoThread /\ InPool(running[f])' => pc'[running'[f]] = "low_switch"
    <3>1. CASE f = e
      <4>1. running'[f] = t /\ phase'[f] = "ult" /\ state'[t] = "RUNNING" /\ ~InPool(t)'
        BY <3>1, <1>2, <1>3, <1>4, <1>5
      <4>2. ~InPool(running[f])'
        BY <4>1 DEF InPool
      <4> QED BY <4>1, <4>2
    <3>2. CASE f # e
      <4>1. PICK r : r = running[f]
        OBVIOUS
      <4>2. /\ running'[f] = r /\ phase'[f] = phase[f] /\ request' = request
            /\ r # u /\ r # t
        BY <3>2, <4>1, <1>2, <1>3, <1>4
      <4>3. r \in Thread => state'[r] = state[r] /\ pc'[r] = pc[r] /\ (InPool(r)' <=> InPool(r))
        BY <4>2, <1>2, <1>5
      <4>4. /\ phase[f] # "cancel"
            /\ phase[f] = "sched" => r = NoThread
            /\ phase[f] = "ult" => state[r] \in {"RUNNING", "BLOCKED"} \/ pc[r] = "low_switch"
            /\ r # NoThread /\ state[r] = "BLOCKED" =>
                 "BLOCK" \in request[r] \/ pc[r] = "low_switch"
            /\ r # NoThread /\ InPool(r) => pc[r] = "low_switch"
        BY <4>1 DEF RunOK
      <4>5. (phase[f] = "sched" \/ r \in Thread) /\ (r = NoThread \/ r \in Thread) /\ NoThread \notin Thread
        BY <2>1, <4>1, Types
      <4>6. InPool(running[f])' <=> InPool(r)'
        BY <4>2 DEF InPool
      <4> QED BY <4>2, <4>3, <4>4, <4>5, <4>6
    <3> QED BY <3>1, <3>2
  <2> QED BY <2>2, <2>3 DEF RunOK
<1>8. ReqOK'
  <2>1. \A v \in Thread, f \in Xstream : v # t /\ running'[f] = v => running[f] = v
    BY <1>2
  <2>2. ASSUME NEW v \in Thread, "BLOCK" \in request[v]
        PROVE  state'[v] = "BLOCKED" /\ Runs(v)' /\ pc'[v] # "low_switch"
    <3>1. v # u /\ v # t /\ state[v] = "BLOCKED" /\ Runs(v) /\ pc[v] # "low_switch"
      BY <2>2, <1>2, <1>3 DEF ReqOK
    <3> QED BY <3>1, <1>2, <1>5
  <2>3. ASSUME NEW v \in Thread, request[v] \cap Stop # {}
        PROVE  /\ state'[v] # "BLOCKED" /\ ~InPool(v)' /\ pc'[v] = "done"
               /\ \A f \in Xstream : running'[f] = v => phase'[f] = "ret"
    <3>1. v # t /\ state[v] # "BLOCKED" /\ ~InPool(v) /\ pc[v] = "done"
          /\ \A f \in Xstream : running[f] = v => phase[f] = "ret"
      BY <2>3, <1>4 DEF ReqOK
    <3> QED BY <3>1, <2>1, <1>2, <1>5
  <2> QED BY <2>2, <2>3, <1>2 DEF ReqOK
<1>9. PlaceOK'
  <2> SUFFICES ASSUME NEW v \in Thread
               PROVE  /\ state'[v] = "BLOCKED" => pc'[v] \in {"suspend", "resume", "low_switch"}
                      /\ pc'[v] \in SwitchPC \cup {"suspend"} => \E f \in Xstream : On(v, f)'
                      /\ \A f \in Xstream : On(v, f)' /\ state'[v] = "BLOCKED" => pc'[v] # "resume"
                      /\ pc'[v] \in {"low_try", "low_switch"} => Low(v)
    BY DEF PlaceOK
  <2>1. CASE v = u
    BY <2>1, <1>2, <1>3, <1>4, <1>5 DEF SwitchPC
  <2>2. CASE v = t
    BY <2>2, <1>2, <1>4, <1>5 DEF SwitchPC
  <2>3. CASE v \notin {u, t}
    <3>1. state'[v] = state[v] /\ pc'[v] = pc[v] /\ \A f \in Xstream : On(v, f)' <=> On(v, f)
      BY <2>3, <1>2, <1>5
    <3> QED BY <3>1 DEF PlaceOK
  <2> QED BY <2>1, <2>2, <2>3
<1>10. ServeOK'
  <2>1. Low(t) => Serves(e, HomePool[t])
    BY <1>1, <1>2, <1>3, <1>4 DEF ServeOK, SwitchPC
  <2>2. \A w \in Thread, f \in Xstream : running'[f] = w /\ pc'[w] \in SwitchPC =>
          w # u /\ w # t /\ running[f] = w /\ pc[w] \in SwitchPC /\ target'[w] = target[w]
    BY <1>2, <1>4, <1>5 DEF SwitchPC
  <2>3. \A v \in Thread, f \in Xstream : running'[f] = v => running[f] = v \/ (v = t /\ f = e)
    BY <1>2
  <2> QED BY <2>1, <2>2, <2>3, <1>5 DEF ServeOK
<1>11. TableOK'
  <2>1. \A v \in Thread, f \in Xstream : Waits(v, f)' => v # t /\ Waits(v, f)
    BY <1>4, <1>5
  <2>2. \A v \in Thread, f \in Xstream : v # t /\ running'[f] = v => running[f] = v
    BY <1>2
  <2> QED BY <2>1, <2>2, <1>2, <1>5 DEF TableOK
<1>12. TargetOK'
  <2>1. \A w \in Thread : target'[w] # NoThread => pc'[w] \in WakePC \cup {"dec_blocked"}
    BY <1>2 DEF TargetOK
  <2>2. \A w \in Thread : pc'[w] \in WakePC =>
          /\ pc[w] \in WakePC /\ w # u /\ pc'[w] = pc[w] /\ target'[w] = target[w] /\ target[w] \in Thread
          /\ target[w] # u /\ target[w] # t
    BY <1>2, <1>3, <1>4, Types DEF WakePC, SwitchPC
  <2> QED BY <2>1, <2>2, <1>2, <1>5 DEF TargetOK, Runs, Waits
<1>13. GiverOK'
  <2>1. handover = t /\ giver = u
    BY <1>1, <1>2 DEF GiverOK
  <2>2. \A v \in Thread : pc'[v] # "se_switch"
    BY <2>1, <1>2 DEF GiverOK
  <2>3. giver' = u /\ handover' = t /\ ~InPool(giver)' /\ ~Runs(giver)'
    BY <2>1, <1>2, <1>3, <1>5 DEF InPool, Runs
  <2>4. pc'[t] = "resume" /\ state'[u] = "RUNNING"
    BY <1>2, <1>3, <1>4, <1>5
  <2> QED BY <2>1, <2>2, <2>3, <2>4, <1>2, <1>4 DEF GiverOK
<1>14. BlockedFound'
  <2>1. ASSUME NEW v \in Thread, state'[v] = "BLOCKED"
        PROVE  \/ \E f \in Xstream : Waits(v, f)'
               \/ \E w \in Thread : pc'[w] \in WakePC /\ target'[w] = v
    <3>1. v # t /\ state[v] = "BLOCKED"
      BY <2>1, <1>4, <1>5
    <3>2. CASE \E f \in Xstream : Waits(v, f) BY <3>2, <1>5
    <3>3. CASE \E w \in Thread : pc[w] \in WakePC /\ target[w] = v BY <3>1, <3>3, <1>1, <1>2
    <3> QED BY <3>1, <3>2, <3>3 DEF BlockedFound
  <2> QED BY <2>1 DEF BlockedFound
<1> QED
  BY <1>6, <1>7, <1>8, <1>9, <1>10, <1>11, <1>12, <1>13, <1>14

\* The queue of low priority of an ES when a ULT has taken the place of its head.
LEMMA SwapMoves ==
  ASSUME IInv, PlacesInv, NEW u \in Thread, NEW e \in Xstream, \A f \in Xstream : ~Waits(u, f),
         lq[e] # <<>>, lq' = [lq EXCEPT ![e] = Append(Tail(@), u)], hq' = hq
  PROVE  /\ Head(lq[e]) \in Thread /\ Waits(Head(lq[e]), e)
         /\ \A g \in Xstream :
              /\ IsInjective(hq'[g]) /\ IsInjective(lq'[g])
              /\ \A v \in Thread : ~(Contains(hq'[g], v) /\ Contains(lq'[g], v))
         /\ \A v \in Thread, g \in Xstream :
              Waits(v, g)' <=> (Waits(v, g) /\ v # Head(lq[e])) \/ (v = u /\ g = e)
<1>1. PICK t : t = Head(lq[e])
  OBVIOUS
<1>2. /\ hq \in [Xstream -> Seq(Thread)] /\ lq \in [Xstream -> Seq(Thread)]
      /\ lq[e] \in Seq(Thread)
  BY Types
<1>3. /\ IsInjective(lq[e]) /\ ~Contains(lq[e], u)
      /\ \A v \in Thread, g, h \in Xstream : Waits(v, g) /\ Waits(v, h) => g = h
      /\ \A g \in Xstream :
           /\ IsInjective(hq[g]) /\ IsInjective(lq[g])
           /\ \A v \in Thread : ~(Contains(hq[g], v) /\ Contains(lq[g], v))
  BY DEF PlacesInv, TableOK, Waits
<1>4. /\ Tail(lq[e]) \in Seq(Thread) /\ IsInjective(Tail(lq[e]))
      /\ t \in Thread /\ Contains(lq[e], t) /\ ~Contains(Tail(lq[e]), t)
      /\ \A y : Contains(lq[e], y) <=> Contains(Tail(lq[e]), y) \/ y = t
  BY <1>1, <1>2, <1>3, TailContains
<1>5. ~Contains(Tail(lq[e]), u)
  BY <1>3, <1>4
<1>6. /\ IsInjective(Append(Tail(lq[e]), u))
      /\ \A y : Contains(Append(Tail(lq[e]), u), y) <=> Contains(Tail(lq[e]), y) \/ y = u
  BY <1>4, <1>5, AppendContains
<1>7. /\ lq'[e] = Append(Tail(lq[e]), u)
      /\ \A g \in Xstream : (g # e => lq'[g] = lq[g]) /\ hq'[g] = hq[g]
  BY <1>2
<1>8. Waits(t, e) /\ t # u
  BY <1>3, <1>4 DEF Waits
<1>9. ASSUME NEW g \in Xstream
      PROVE  /\ IsInjective(hq'[g]) /\ IsInjective(lq'[g])
             /\ \A v \in Thread : ~(Contains(hq'[g], v) /\ Contains(lq'[g], v))
  <2>1. CASE g # e BY <2>1, <1>3, <1>7
  <2>2. CASE g = e
    <3>1. ~Contains(hq[e], u)
      BY DEF Waits
    <3> QED BY <2>2, <3>1, <1>3, <1>4, <1>6, <1>7
  <2> QED BY <2>1, <2>2
<1>10. ASSUME NEW v \in Thread, NEW g \in Xstream
       PROVE  Waits(v, g)' <=> (Waits(v, g) /\ v # t) \/ (v = u /\ g = e)
  <2>1. CASE g # e
    <3>1. Waits(v, g)' <=> Waits(v, g)
      BY <2>1, <1>7 DEF Waits
    <3>2. Waits(v, g) => v # t
      BY <2>1, <1>3, <1>8
    <3> QED BY <2>1, <3>1, <3>2
  <2>2. CASE g = e BY <2>2, <1>3, <1>4, <1>6, <1>7, <1>8 DEF Waits
  <2> QED BY <2>1, <2>2
<1> QED
  BY <1>1, <1>4, <1>8, <1>9, <1>10

\* The ULT takes the place of the one it is to switch to.
LEMMA LowSwapPlaces ==
  ASSUME IInv, PlacesInv, NEW u \in Thread, NEW e \in Xstream, On(u, e), LowSwap(u, e), lq[e] # <<>>
  PROVE  PlacesInv'
<1> USE DEF PlacesInv
<1>1. PICK t : t = Head(lq[e])
  OBVIOUS
<1>2. /\ pc[u] = "low_try" /\ pc'[u] = "low_switch" /\ \A v \in Thread : v # u => pc'[v] = pc[v]
      /\ target'[u] = t /\ \A v \in Thread : v # u => target'[v] = target[v]
      /\ state'[u] = "BLOCKED" /\ \A v \in Thread : v # u => state'[v] = state[v]
      /\ lq' = [lq EXCEPT ![e] = Append(Tail(@), u)]
      /\ UNCHANGED <<request, pool, running, phase, hq, handover, giver>>
  BY <1>1, Types DEF LowSwap, Goto
<1>3. /\ state[u] = "RUNNING" /\ ~InPool(u) /\ request[u] \cap Stop = {} /\ "BLOCK" \notin request[u]
      /\ \A g \in Xstream : running[g] = u => g = e
      /\ \A w \in Thread : pc[w] \in WakePC => target[w] # u
      /\ \A g \in Xstream : ~Waits(u, g)
      /\ phase[e] = "ult" /\ running[e] = u /\ u # NoThread /\ (handover # NoThread => giver # u)
  BY <1>2, OnES, Types
<1>4. /\ t \in Thread /\ Waits(t, e)
      /\ \A g \in Xstream :
           /\ IsInjective(hq'[g]) /\ IsInjective(lq'[g])
           /\ \A v \in Thread : ~(Contains(hq'[g], v) /\ Contains(lq'[g], v))
      /\ \A v \in Thread, g \in Xstream :
           Waits(v, g)' <=> (Waits(v, g) /\ v # t) \/ (v = u /\ g = e)
  <2> HIDE DEF PlacesInv
  <2>1. lq' = [lq EXCEPT ![e] = Append(Tail(@), u)] /\ hq' = hq
    BY <1>2
  <2>2. \A g \in Xstream : ~Waits(u, g)
    BY <1>3
  <2>3. /\ Head(lq[e]) \in Thread /\ Waits(Head(lq[e]), e)
        /\ \A g \in Xstream :
             /\ IsInjective(hq'[g]) /\ IsInjective(lq'[g])
             /\ \A v \in Thread : ~(Contains(hq'[g], v) /\ Contains(lq'[g], v))
        /\ \A v \in Thread, g \in Xstream :
             Waits(v, g)' <=> (Waits(v, g) /\ v # Head(lq[e])) \/ (v = u /\ g = e)
    BY <2>1, <2>2, SwapMoves
  <2> QED BY <1>1, <2>3
<1>5. /\ state[t] = "BLOCKED" /\ t # u
      /\ \A w \in Thread : pc[w] \in WakePC => target[w] # t
      /\ ~Runs(t) /\ pc[t] = "resume"
      /\ Low(t) => Serves(e, HomePool[t])
  BY <1>3, <1>4, Waiter
<1>6. Low(u) /\ On(u, e)
  BY <1>2 DEF PlaceOK
<1>7. \A v \in Thread : /\ InPool(v)' <=> InPool(v)
                        /\ Runs(v)' <=> Runs(v)
                        /\ \A g \in Xstream : On(v, g)' <=> On(v, g)
  BY <1>2 DEF InPool, Runs, On
<1>8. PoolOK'
  BY <1>2, <1>3, <1>7 DEF PoolOK, QueuedOnce, AtHome
<1>9. RunOK'
  <2>1. \A g \in Xstream : /\ phase[g] # "sched" => running[g] \in Thread
                           /\ running[g] # NoThread => running[g] \in Thread
    BY Types
  <2> QED BY <2>1, <1>2, <1>3, <1>7 DEF RunOK, OneRunner
<1>10. ReqOK'
  BY <1>2, <1>3, <1>7 DEF ReqOK
<1>11. PlaceOK'
  BY <1>2, <1>3, <1>6, <1>7 DEF PlaceOK, SwitchPC
<1>12. ServeOK'
  <2> SUFFICES ASSUME NEW v \in Thread, NEW g \in Xstream, Low(v)
               PROVE  /\ running[g] = v \/ Waits(v, g)' => Serves(g, HomePool[v])
                      /\ \A w \in Thread : running[g] = w /\ pc'[w] \in SwitchPC /\ target'[w] = v =>
                           Serves(g, HomePool[v])
    BY <1>2 DEF ServeOK
  <2>1. running[g] = v \/ Waits(v, g)' => Serves(g, HomePool[v])
    BY <1>3, <1>4 DEF ServeOK
  <2>2. ASSUME NEW w \in Thread, running[g] = w, pc'[w] \in SwitchPC, target'[w] = v
        PROVE  Serves(g, HomePool[v])
    <3>1. CASE w # u BY <3>1, <2>2, <1>2 DEF ServeOK
    <3>2. CASE w = u
      <4>1. g = e /\ v = t
        BY <3>2, <2>2, <1>2, <1>3
      <4> QED BY <4>1, <1>5
    <3> QED BY <3>1, <3>2
  <2> QED BY <2>1, <2>2
<1>13. TableOK'
  <2>1. ASSUME NEW v \in Thread, NEW g \in Xstream, Waits(v, g)'
        PROVE  /\ state'[v] = "BLOCKED"
               /\ \A h \in Xstream : running'[h] = v \/ Waits(v, h)' => h = g
    <3>1. CASE v = u BY <3>1, <2>1, <1>2, <1>3, <1>4
    <3>2. CASE v # u BY <3>2, <2>1, <1>2, <1>4 DEF TableOK
    <3> QED BY <3>1, <3>2
  <2> QED BY <2>1, <1>4 DEF TableOK
<1>14. TargetOK'
  <2>1. \A w \in Thread : target'[w] # NoThread => pc'[w] \in WakePC \cup {"dec_blocked"}
    BY <1>2 DEF TargetOK, WakePC, SwitchPC
  <2>2. \A w \in Thread : w # u /\ pc'[w] \in WakePC =>
          /\ pc[w] \in WakePC /\ target'[w] = target[w] /\ target[w] \notin {t, u} /\ pc'[w] = pc[w]
          /\ target[w] \in Thread
    BY <1>2, <1>3, <1>5, Types
  <2>3. ASSUME NEW w \in Thread, pc'[w] \in WakePC
        PROVE  /\ state'[target'[w]] = "BLOCKED"
               /\ \A g \in Xstream : ~Waits(target[w], g)'
               /\ pc'[w] # "set_ready" => pc'[target'[w]] = "resume" /\ ~Runs(target'[w])
    <3>1. CASE w # u
      <4>1. PICK r : r = target[w]
        OBVIOUS
      <4>2. /\ r \in Thread /\ target'[w] = r /\ r # u /\ r # t
            /\ state[r] = "BLOCKED" /\ \A g \in Xstream : ~Waits(r, g)
            /\ pc'[w] # "set_ready" => pc[r] = "resume" /\ ~Runs(r)
        BY <3>1, <2>2, <2>3, <4>1 DEF TargetOK
      <4>3. \A g \in Xstream : ~Waits(target[w], g)'
        BY <4>2, <1>4 DEF Waits
      <4> QED BY <4>2, <4>3, <1>2
    <3>2. CASE w = u
      <4>1. target'[w] = t
        BY <3>2, <1>2
      <4>2. \A g \in Xstream : ~Waits(target[w], g)'
        BY <4>1, <1>4, <1>5 DEF Waits
      <4> QED BY <4>1, <4>2, <1>2, <1>4, <1>5
    <3> QED BY <3>1, <3>2
  <2>4. \A w, x \in Thread : pc'[w] \in WakePC /\ pc'[x] \in WakePC /\ target'[x] = target'[w] => x = w
    BY <2>2, <1>2 DEF TargetOK
  <2>5. \A w \in Thread : Runs(target[w])' <=> Runs(target'[w])
    BY <1>2 DEF Runs
  <2> QED BY <2>1, <2>3, <2>4, <2>5 DEF TargetOK
<1>15. GiverOK'
  <2>1. \A v \in Thread : pc'[v] = "se_switch" => v # u /\ pc[v] = "se_switch"
    BY <1>2
  <2>2. handover # NoThread => handover # u /\ giver # u /\ giver \in Thread /\ handover \in Thread
    BY <1>2, <1>3, Types DEF GiverOK
  <2> QED BY <2>1, <2>2, <1>2, <1>7 DEF GiverOK
<1>16. BlockedFound'
  <2>1. ASSUME NEW v \in Thread, state'[v] = "BLOCKED"
        PROVE  \/ \E g \in Xstream : Waits(v, g)'
               \/ \E w \in Thread : pc'[w] \in WakePC /\ target'[w] = v
    <3>1. CASE v = u BY <3>1, <1>4
    <3>2. CASE v = t BY <3>2, <1>2 DEF WakePC, SwitchPC
    <3>3. CASE v \notin {u, t}
      <4>1. state[v] = "BLOCKED"
        BY <3>3, <2>1, <1>2
      <4>2. CASE \E g \in Xstream : Waits(v, g) BY <4>2, <3>3, <1>4
      <4>3. CASE \E w \in Thread : pc[w] \in WakePC /\ target[w] = v
        BY <4>3, <1>2 DEF WakePC, SwitchPC
      <4> QED BY <4>1, <4>2, <4>3 DEF BlockedFound
    <3> QED BY <3>1, <3>2, <3>3
  <2> QED BY <2>1 DEF BlockedFound
<1> QED
  BY <1>8, <1>9, <1>10, <1>11, <1>12, <1>13, <1>14, <1>15, <1>16

\* A ULT that has taken the place of a waiter gives its ES over to it.
LEMMA LowSwitchPlaces ==
  ASSUME IInv, PlacesInv, NEW u \in Thread, NEW e \in Xstream, On(u, e), LowSwitch(u, e)
  PROVE  PlacesInv'
<1> USE DEF PlacesInv
<1>1. PICK t : t = target[u]
  OBVIOUS
<1>2. /\ pc[u] = "low_switch" /\ pc'[u] = "resume" /\ \A v \in Thread : v # u => pc'[v] = pc[v]
      /\ target'[u] = NoThread /\ \A v \in Thread : v # u => target'[v] = target[v]
      /\ running'[e] = t /\ \A f \in Xstream : f # e => running'[f] = running[f]
      /\ state' = [state EXCEPT ![t] = "RUNNING"]
      /\ UNCHANGED <<request, pool, phase, hq, lq, handover, giver>>
  BY <1>1, Types DEF LowSwitch, SwitchToThread, Goto, mutexVars, tableVars
<1>3. /\ request[u] \cap Stop = {}
      /\ \A f \in Xstream : running[f] = u => f = e
      /\ \A w \in Thread : pc[w] \in WakePC /\ target[w] = u => pc[w] = "set_ready"
      /\ phase[e] = "ult" /\ running[e] = u /\ u # NoThread
      /\ "BLOCK" \notin request[u] /\ (handover # NoThread => giver # u)
  <2>1. /\ request[u] \cap Stop = {} /\ Runs(u)
        /\ \A f \in Xstream : running[f] = u => f = e
        /\ phase[e] = "ult" /\ running[e] = u /\ u # NoThread
        /\ (handover # NoThread => giver # u)
    BY <1>2, OnES, Types
  <2>2. "BLOCK" \notin request[u]
    BY <1>2 DEF ReqOK
  <2>3. \A w \in Thread : pc[w] \in WakePC /\ target[w] = u => pc[w] = "set_ready"
    BY <2>1 DEF TargetOK
  <2> QED BY <2>1, <2>2, <2>3
<1>4. /\ t \in Thread /\ t # NoThread /\ state[t] = "BLOCKED" /\ t # u /\ pc[t] = "resume" /\ ~Runs(t)
      /\ ~InPool(t) /\ request[t] \cap Stop = {} /\ "BLOCK" \notin request[t]
      /\ \A f \in Xstream : ~Waits(t, f) /\ running[f] # t
      /\ \A w \in Thread : pc[w] \in WakePC /\ w # u => target[w] # t
  <2>1. pc[u] \in WakePC /\ t \in Thread /\ t # NoThread
    BY <1>1, <1>2, Types DEF WakePC, SwitchPC
  <2>2. /\ state[t] = "BLOCKED" /\ \A f \in Xstream : ~Waits(t, f)
        /\ pc[t] = "resume" /\ ~Runs(t)
        /\ \A w \in Thread : pc[w] \in WakePC /\ w # u => target[w] # t
    BY <2>1, <1>1, <1>2 DEF TargetOK
  <2> QED BY <2>1, <2>2, <1>3 DEF PoolOK, ReqOK, Runs
<1>5. /\ state'[t] = "RUNNING" /\ \A v \in Thread : v # t => state'[v] = state[v]
      /\ \A v \in Thread : /\ InPool(v)' <=> InPool(v)
                           /\ v \notin {u, t} => (Runs(v)' <=> Runs(v))
                           /\ v \notin {u, t} => \A f \in Xstream : On(v, f)' <=> On(v, f)
                           /\ \A f \in Xstream : Waits(v, f)' <=> Waits(v, f)
      /\ ~Runs(u)' /\ \A f \in Xstream : running'[f] = t => f = e
      /\ \A f \in Xstream : running'[f] # u
  <2>1. state'[t] = "RUNNING" /\ \A v \in Thread : v # t => state'[v] = state[v]
    BY <1>2, <1>4, Types
  <2>2. \A f \in Xstream : running'[f] # u /\ (running'[f] = t => f = e)
    BY <1>2, <1>3, <1>4
  <2>3. \A v \in Thread : /\ InPool(v)' <=> InPool(v)
                          /\ \A f \in Xstream : Waits(v, f)' <=> Waits(v, f)
    BY <1>2 DEF InPool, Waits
  <2>4. \A v \in Thread, f \in Xstream : v \notin {u, t} => (running'[f] = v <=> running[f] = v)
    BY <1>2, <1>3
  <2>5. \A v \in Thread : v \notin {u, t} => /\ Runs(v)' <=> Runs(v)
                                            /\ \A f \in Xstream : On(v, f)' <=> On(v, f)
    BY <2>4, <1>2 DEF Runs, On
  <2>6. ~Runs(u)'
    BY <2>2 DEF Runs
  <2> QED BY <2>1, <2>2, <2>3, <2>5, <2>6
<1>6. PoolOK'
  BY <1>2, <1>4, <1>5 DEF PoolOK, QueuedOnce, AtHome
<1>7. RunOK'
  <2>1. \A f \in Xstream : /\ phase[f] # "sched" => running[f] \in Thread
                           /\ running[f] # NoThread => running[f] \in Thread
    BY Types
  <2>2. OneRunner'
    BY <1>2, <1>4, <1>5 DEF RunOK, OneRunner
  <2>3. ASSUME NEW f \in Xstream
        PROVE  /\ phase'[f] # "cancel"
               /\ phase'[f] = "sched" => running'[f] = NoThread
               /\ phase'[f] = "ult" =>
                    state'[running'[f]] \in {"RUNNING", "BLOCKED"} \/ pc'[running'[f]] = "low_switch"
               /\ running'[f] # NoThread /\ state'[running'[f]] = "BLOCKED" =>
                    "BLOCK" \in request'[running'[f]] \/ pc'[running'[f]] = "low_switch"
               /\ running'[f] # NoThread /\ InPool(running[f])' => pc'[running'[f]] = "low_switch"
    <3>1. CASE f = e
      <4>1. running'[f] = t /\ phase'[f] = "ult" /\ state'[t] = "RUNNING" /\ ~InPool(t)'
        BY <3>1, <1>2, <1>3, <1>4, <1>5
      <4>2. ~InPool(running[f])'
        BY <4>1 DEF InPool
      <4> QED BY <4>1, <4>2
    <3>2. CASE f # e
      <4>1. PICK r : r = running[f]
        OBVIOUS
      <4>2. /\ running'[f] = r /\ phase'[f] = phase[f] /\ request' = request
            /\ r # u /\ r # t
        BY <3>2, <4>1, <1>2, <1>3, <1>4
      <4>3. r \in Thread => state'[r] = state[r] /\ pc'[r] = pc[r] /\ (InPool(r)' <=> InPool(r))
        BY <4>2, <1>2, <1>5
      <4>4. /\ phase[f] # "cancel"
            /\ phase[f] = "sched" => r = NoThread
            /\ phase[f] = "ult" => state[r] \in {"RUNNING", "BLOCKED"} \/ pc[r] = "low_switch"
            /\ r # NoThread /\ state[r] = "BLOCKED" =>
                 "BLOCK" \in request[r] \/ pc[r] = "low_switch"
            /\ r # NoThread /\ InPool(r) => pc[r] = "low_switch"
        BY <4>1 DEF RunOK
      <4>5. (phase[f] = "sched" \/ r \in Thread) /\ (r = NoThread \/ r \in Thread) /\ NoThread \notin Thread
        BY <2>1, <4>1, Types
      <4>6. InPool(running[f])' <=> InPool(r)'
        BY <4>2 DEF InPool
      <4> QED BY <4>2, <4>3, <4>4, <4>5, <4>6
    <3> QED BY <3>1, <3>2
  <2> QED BY <2>2, <2>3 DEF RunOK
<1>8. ReqOK'
  <2>1. \A v \in Thread, f \in Xstream : v # t /\ running'[f] = v => running[f] = v
    BY <1>2
  <2>2. ASSUME NEW v \in Thread, "BLOCK" \in request[v]
        PROVE  state'[v] = "BLOCKED" /\ Runs(v)' /\ pc'[v] # "low_switch"
    <3>1. v # u /\ v # t /\ state[v] = "BLOCKED" /\ Runs(v) /\ pc[v] # "low_switch"
      BY <2>2, <1>2, <1>3, <1>4 DEF ReqOK
    <3> QED BY <3>1, <1>2, <1>5
  <2>3. ASSUME NEW v \in Thread, request[v] \cap Stop # {}
        PROVE  /\ state'[v] # "BLOCKED" /\ ~InPool(v)' /\ pc'[v] = "done"
               /\ \A f \in Xstream : running'[f] = v => phase'[f] = "ret"
    <3>1. v # t /\ state[v] # "BLOCKED" /\ ~InPool(v) /\ pc[v] = "done"
          /\ \A f \in Xstream : running[f] = v => phase[f] = "ret"
      BY <2>3, <1>4 DEF ReqOK
    <3> QED BY <3>1, <2>1, <1>2, <1>5
  <2> QED BY <2>2, <2>3, <1>2 DEF ReqOK
<1>9. PlaceOK'
  <2> SUFFICES ASSUME NEW v \in Thread
               PROVE  /\ state'[v] = "BLOCKED" => pc'[v] \in {"suspend", "resume", "low_switch"}
                      /\ pc'[v] \in SwitchPC \cup {"suspend"} => \E f \in Xstream : On(v, f)'
                      /\ \A f \in Xstream : On(v, f)' /\ state'[v] = "BLOCKED" => pc'[v] # "resume"
                      /\ pc'[v] \in {"low_try", "low_switch"} => Low(v)
    BY DEF PlaceOK
  <2>1. CASE v = u
    BY <2>1, <1>2, <1>3, <1>4, <1>5 DEF SwitchPC, On
  <2>2. CASE v = t
    BY <2>2, <1>2, <1>4, <1>5 DEF SwitchPC
  <2>3. CASE v \notin {u, t}
    <3>1. state'[v] = state[v] /\ pc'[v] = pc[v] /\ \A f \in Xstream : On(v, f)' <=> On(v, f)
      BY <2>3, <1>2, <1>5
    <3> QED BY <3>1 DEF PlaceOK
  <2> QED BY <2>1, <2>2, <2>3
<1>10. ServeOK'
  <2>1. Low(t) => Serves(e, HomePool[t])
    BY <1>1, <1>2, <1>3, <1>4 DEF ServeOK, SwitchPC
  <2>2. \A w \in Thread, f \in Xstream : running'[f] = w /\ pc'[w] \in SwitchPC =>
          w # u /\ w # t /\ running[f] = w /\ pc[w] \in SwitchPC /\ target'[w] = target[w]
    BY <1>2, <1>4, <1>5 DEF SwitchPC
  <2>3. \A v \in Thread, f \in Xstream : running'[f] = v => running[f] = v \/ (v = t /\ f = e)
    BY <1>2
  <2> QED BY <2>1, <2>2, <2>3, <1>5 DEF ServeOK
<1>11. TableOK'
  <2>1. \A v \in Thread, f \in Xstream : Waits(v, f)' => v # t /\ Waits(v, f)
    BY <1>4, <1>5
  <2>2. \A v \in Thread, f \in Xstream : v # t /\ running'[f] = v => running[f] = v
    BY <1>2
  <2> QED BY <2>1, <2>2, <1>2, <1>5 DEF TableOK
<1>12. TargetOK'
  <2>1. \A w \in Thread : target'[w] # NoThread => pc'[w] \in WakePC \cup {"dec_blocked"}
    BY <1>2 DEF TargetOK
  <2>2. \A w \in Thread : pc'[w] \in WakePC =>
          /\ pc[w] \in WakePC /\ w # u /\ pc'[w] = pc[w] /\ target'[w] = target[w] /\ target[w] \in Thread
          /\ target[w] # t /\ (target[w] = u => pc'[w] = "set_ready")
    BY <1>2, <1>3, <1>4, Types DEF WakePC, SwitchPC
  <2>3. ASSUME NEW w \in Thread, pc'[w] \in WakePC
        PROVE  /\ state'[target'[w]] = "BLOCKED"
               /\ \A f \in Xstream : ~Waits(target[w], f)'
               /\ pc'[w] # "set_ready" => pc'[target'[w]] = "resume" /\ ~Runs(target[w])'
    <3>1. PICK r : r = target[w]
      OBVIOUS
    <3>2. /\ r \in Thread /\ r # t /\ target'[w] = r /\ (r = u => pc'[w] = "set_ready")
          /\ state[r] = "BLOCKED" /\ \A f \in Xstream : ~Waits(r, f)
          /\ pc'[w] # "set_ready" => pc[r] = "resume" /\ ~Runs(r)
      BY <2>2, <2>3, <3>1 DEF TargetOK
    <3>3. \A f \in Xstream : ~Waits(target[w], f)'
      BY <3>1, <3>2, <1>5 DEF Waits
    <3>4. pc'[w] # "set_ready" => ~Runs(target[w])'
      BY <3>1, <3>2, <1>2 DEF Runs
    <3> QED BY <3>2, <3>3, <3>4, <1>2, <1>5
  <2>4. \A w, x \in Thread : pc'[w] \in WakePC /\ pc'[x] \in WakePC /\ target'[x] = target'[w] => x = w
    BY <2>2 DEF TargetOK
  <2> QED BY <2>1, <2>3, <2>4, <1>2 DEF TargetOK
<1>13. GiverOK'
  <2>1. \A v \in Thread : pc'[v] = "se_switch" => v # u /\ pc[v] = "se_switch"
    BY <1>2
  <2>2. handover # NoThread => handover # u /\ giver # u /\ giver # t /\ giver \in Thread /\ handover \in Thread
    BY <1>2, <1>3, <1>4, Types DEF GiverOK
  <2>3. handover # NoThread => (Runs(giver)' <=> Runs(giver)) /\ (InPool(giver)' <=> InPool(giver))
    BY <2>2, <1>2, <1>3 DEF Runs, InPool
  <2> QED BY <2>1, <2>2, <2>3, <1>2, <1>5 DEF GiverOK
<1>14. BlockedFound'
  <2>1. ASSUME NEW v \in Thread, state'[v] = "BLOCKED"
        PROVE  \/ \E f \in Xstream : Waits(v, f)'
               \/ \E w \in Thread : pc'[w] \in WakePC /\ target'[w] = v
    <3>1. v # t /\ state[v] = "BLOCKED"
      BY <2>1, <1>4, <1>5
    <3>2. CASE \E f \in Xstream : Waits(v, f) BY <3>2, <1>5
    <3>3. CASE \E w \in Thread : pc[w] \in WakePC /\ target[w] = v BY <3>1, <3>3, <1>1, <1>2
    <3> QED BY <3>1, <3>2, <3>3 DEF BlockedFound
  <2> QED BY <2>1 DEF BlockedFound
<1> QED
  BY <1>6, <1>7, <1>8, <1>9, <1>10, <1>11, <1>12, <1>13, <1>14

(***************************************************************************)
(* The scheduler.                                                          *)
(***************************************************************************)

\* A ULT that is popped has left the ES it was on.  For one in the middle of switch_low
\* this is what LowPrivate is for: its pool is served by that ES alone.
LEMMA PoppedIsAway ==
  ASSUME LowPrivate, IInv, PlacesInv, NEW t \in Thread, NEW e \in Xstream, InPool(t),
         Serves(e, HomePool[t]), running[e] = NoThread
  PROVE  /\ ~Runs(t) /\ state[t] = "READY" /\ request[t] \cap Stop = {} /\ "BLOCK" \notin request[t]
         /\ pc[t] \notin SwitchPC \cup {"suspend"}
<1> USE DEF PlacesInv
<1>1. t # NoThread
  BY Types
<1>2. ASSUME NEW f \in Xstream, running[f] = t PROVE FALSE
  <2>1. pc[t] = "low_switch"
    <3>1. InPool(running[f])
      BY <1>2
    <3> QED BY <3>1, <1>1, <1>2 DEF RunOK
  <2>2. Low(t) /\ Serves(f, HomePool[t])
    BY <2>1, <1>2 DEF PlaceOK, ServeOK
  <2>3. f = e
    BY <2>2 DEF LowPrivate
  <2> QED BY <2>3, <1>1, <1>2
<1>3. ~Runs(t)
  BY <1>2 DEF Runs
<1>4. state[t] = "READY"
  BY DEF PoolOK
<1>5. request[t] \cap Stop = {} /\ "BLOCK" \notin request[t]
  BY <1>4 DEF ReqOK
<1>6. pc[t] \notin SwitchPC \cup {"suspend"}
  BY <1>2 DEF PlaceOK, On
<1> QED
  BY <1>3, <1>4, <1>5, <1>6

\* The scheduler runs the first unit of its pools.
LEMMA SchedRunPlaces ==
  ASSUME LowPrivate, IInv, PlacesInv, NEW e \in Xstream, SchedRun(e),
         UNCHANGED <<hq, lq, handover, giver, pc, target>>
  PROVE  PlacesInv'
<1> USE DEF PlacesInv
<1>1. PICK p \in Pool : /\ phase[e] = "sched" /\ NextPool(e, p)
                        /\ running' = [running EXCEPT ![e] = Head(pool[p])]
                        /\ state' = [state EXCEPT ![Head(pool[p])] = "RUNNING"]
                        /\ pool' = [pool EXCEPT ![p] = Tail(@)]
                        /\ phase' = [phase EXCEPT ![e] = "ult"]
                        /\ request' = request
  BY DEF SchedRun
<1>2. PICK t : t = Head(pool[p])
  OBVIOUS
<1>3. running[e] = NoThread /\ pool[p] # <<>> /\ Serves(e, p)
  <2>1. DOMAIN SchedPools[e] = 1 .. Len(SchedPools[e])
    BY ThreadsAssumption, LenProperties
  <2> QED BY <2>1, <1>1 DEF RunOK, NextPool, Serves, Contains
<1>4. /\ t \in Thread /\ InPool(t) /\ ~InPool(t)' /\ HomePool[t] = p
      /\ \A v \in Thread : InPool(v)' => InPool(v)
      /\ QueuedOnce' /\ AtHome'
  BY <1>1, <1>2, <1>3, PopRemoves, Types DEF PoolOK
<1>5. /\ ~Runs(t) /\ state[t] = "READY" /\ request[t] \cap Stop = {} /\ "BLOCK" \notin request[t]
      /\ pc[t] \notin SwitchPC \cup {"suspend"}
  <2> HIDE DEF PlacesInv
  <2> QED BY <1>3, <1>4, PoppedIsAway
<1>6. /\ t # NoThread
      /\ running'[e] = t /\ \A f \in Xstream : f # e => running'[f] = running[f]
      /\ phase'[e] = "ult" /\ \A f \in Xstream : f # e => phase'[f] = phase[f]
      /\ state'[t] = "RUNNING" /\ \A v \in Thread : v # t => state'[v] = state[v]
      /\ \A f \in Xstream : running[f] # t
  BY <1>1, <1>2, <1>4, <1>5, Types DEF Runs
<1>7. \A v \in Thread : /\ v # t => (Runs(v)' <=> Runs(v))
                        /\ v # t => \A f \in Xstream : On(v, f)' <=> On(v, f)
                        /\ \A f \in Xstream : Waits(v, f)' <=> Waits(v, f)
                        /\ \A f \in Xstream : running'[f] = v => running[f] = v \/ (v = t /\ f = e)
  <2>1. \A v \in Thread, f \in Xstream : v # t => (running'[f] = v <=> running[f] = v)
    BY <1>3, <1>6, Types
  <2>2. \A v \in Thread : v # t => (Runs(v)' <=> Runs(v))
    BY <2>1 DEF Runs
  <2>3. \A v \in Thread, f \in Xstream : v # t => (On(v, f)' <=> On(v, f))
    <3>1. \A v \in Thread : running[e] # v
      BY <1>3, Types
    <3>2. \A v \in Thread : v # t => running'[e] # v
      BY <1>6
    <3> QED BY <2>1, <3>1, <3>2, <1>6 DEF On
  <2>4. \A v \in Thread, f \in Xstream : Waits(v, f)' <=> Waits(v, f)
    BY DEF Waits
  <2> QED BY <2>1, <2>2, <2>3, <2>4, <1>6
<1>8. PoolOK'
  BY <1>4, <1>6 DEF PoolOK
<1>9. RunOK'
  <2>1. \A f \in Xstream : /\ phase[f] # "sched" => running[f] \in Thread
                           /\ running[f] # NoThread => running[f] \in Thread
    BY Types
  <2>2. OneRunner'
    BY <1>3, <1>4, <1>6 DEF RunOK, OneRunner
  <2>3. ASSUME NEW f \in Xstream
        PROVE  /\ phase'[f] # "cancel"
               /\ phase'[f] = "sched" => running'[f] = NoThread
               /\ phase'[f] = "ult" =>
                    state'[running'[f]] \in {"RUNNING", "BLOCKED"} \/ pc[running'[f]] = "low_switch"
               /\ running'[f] # NoThread /\ state'[running'[f]] = "BLOCKED" =>
                    "BLOCK" \in request[running'[f]] \/ pc[running'[f]] = "low_switch"
               /\ running'[f] # NoThread /\ InPool(running[f])' => pc[running'[f]] = "low_switch"
    <3>1. CASE f = e
      <4>1. running'[f] = t /\ phase'[f] = "ult" /\ state'[t] = "RUNNING" /\ ~InPool(t)'
        BY <3>1, <1>4, <1>6
      <4>2. ~InPool(running[f])'
        BY <4>1 DEF InPool
      <4> QED BY <4>1, <4>2
    <3>2. CASE f # e
      <4>1. PICK r : r = running[f]
        OBVIOUS
      <4>2. running'[f] = r /\ phase'[f] = phase[f] /\ r # t
        BY <3>2, <4>1, <1>6
      <4>3. r \in Thread => state'[r] = state[r] /\ (InPool(r)' => InPool(r))
        BY <4>2, <1>4, <1>6
      <4>4. /\ phase[f] # "cancel"
            /\ phase[f] = "sched" => r = NoThread
            /\ phase[f] = "ult" => state[r] \in {"RUNNING", "BLOCKED"} \/ pc[r] = "low_switch"
            /\ r # NoThread /\ state[r] = "BLOCKED" =>
                 "BLOCK" \in request[r] \/ pc[r] = "low_switch"
            /\ r # NoThread /\ InPool(r) => pc[r] = "low_switch"
        BY <4>1 DEF RunOK
      <4>5. (phase[f] = "sched" \/ r \in Thread) /\ (r = NoThread \/ r \in Thread)
        BY <2>1, <4>1
      <4>6. InPool(running[f])' <=> InPool(r)'
        BY <4>2 DEF InPool
      <4> QED BY <4>2, <4>3, <4>4, <4>5, <4>6
    <3> QED BY <3>1, <3>2
  <2> QED BY <2>2, <2>3, <1>1 DEF RunOK
<1>10. ReqOK'
  <2>1. ASSUME NEW v \in Thread, "BLOCK" \in request[v]
        PROVE  state'[v] = "BLOCKED" /\ Runs(v)' /\ pc[v] # "low_switch"
    <3>1. v # t /\ state[v] = "BLOCKED" /\ Runs(v) /\ pc[v] # "low_switch"
      BY <2>1, <1>5 DEF ReqOK
    <3> QED BY <3>1, <1>6, <1>7
  <2>2. ASSUME NEW v \in Thread, request[v] \cap Stop # {}
        PROVE  /\ state'[v] # "BLOCKED" /\ ~InPool(v)' /\ pc[v] = "done"
               /\ \A f \in Xstream : running'[f] = v => phase'[f] = "ret"
    <3>1. v # t /\ state[v] # "BLOCKED" /\ ~InPool(v) /\ pc[v] = "done"
          /\ \A f \in Xstream : running[f] = v => phase[f] = "ret"
      BY <2>2, <1>5 DEF ReqOK
    <3>2. \A f \in Xstream : running'[f] = v => f # e /\ running[f] = v
      BY <3>1, <1>6, <1>7
    <3> QED BY <3>1, <3>2, <1>4, <1>6
  <2> QED BY <2>1, <2>2, <1>1 DEF ReqOK
<1>11. PlaceOK'
  <2> SUFFICES ASSUME NEW v \in Thread
               PROVE  /\ state'[v] = "BLOCKED" => pc[v] \in {"suspend", "resume", "low_switch"}
                      /\ pc[v] \in SwitchPC \cup {"suspend"} => \E f \in Xstream : On(v, f)'
                      /\ \A f \in Xstream : On(v, f)' /\ state'[v] = "BLOCKED" => pc[v] # "resume"
                      /\ pc[v] \in {"low_try", "low_switch"} => Low(v)
    BY DEF PlaceOK
  <2>1. CASE v = t BY <2>1, <1>5, <1>6 DEF PlaceOK
  <2>2. CASE v # t
    <3>1. state'[v] = state[v] /\ \A f \in Xstream : On(v, f)' <=> On(v, f)
      BY <2>2, <1>6, <1>7
    <3> QED BY <3>1 DEF PlaceOK
  <2> QED BY <2>1, <2>2
<1>12. ServeOK'
  <2>1. \A w \in Thread, f \in Xstream : running'[f] = w /\ pc[w] \in SwitchPC => w # t /\ running[f] = w
    BY <1>5, <1>7
  <2> QED BY <2>1, <1>3, <1>4, <1>7 DEF ServeOK
<1>13. TableOK'
  <2>1. \A v \in Thread, f \in Xstream : Waits(v, f)' => v # t /\ Waits(v, f)
    BY <1>5, <1>7 DEF TableOK
  <2> QED BY <2>1, <1>6, <1>7 DEF TableOK
<1>14. TargetOK'
  <2>1. \A w \in Thread : pc[w] \in WakePC => target[w] \in Thread /\ target[w] # t
    BY <1>5, Types DEF TargetOK
  <2> QED BY <2>1, <1>6, <1>7 DEF TargetOK
<1>15. GiverOK'
  <2>1. handover # NoThread => handover \in Thread /\ giver \in Thread /\ giver # t
    BY <1>4, <1>5, Types DEF GiverOK, SwitchPC
  <2> QED BY <2>1, <1>4, <1>6, <1>7 DEF GiverOK
<1>16. BlockedFound'
  BY <1>6, <1>7 DEF BlockedFound
<1> QED
  BY <1>8, <1>9, <1>10, <1>11, <1>12, <1>13, <1>14, <1>15, <1>16

\* The ULT that has switched back to its scheduler is at none of the steps that only a ULT
\* on an ES takes.
LEMMA Returned ==
  ASSUME IInv, PlacesInv, NEW u \in Thread, NEW e \in Xstream, running[e] = u, phase[e] = "ret"
  PROVE  /\ Runs(u) /\ \A f \in Xstream : running[f] = u => f = e
         /\ pc[u] \notin SwitchPC \cup {"suspend"} /\ ~InPool(u)
         /\ state[u] = "BLOCKED" => "BLOCK" \in request[u] /\ pc[u] = "resume"
         /\ handover # NoThread => giver # u
<1> USE DEF PlacesInv
<1>1. Runs(u) /\ u # NoThread /\ \A f \in Xstream : running[f] = u => f = e
  BY Types DEF Runs, RunOK, OneRunner
<1>2. pc[u] \notin SwitchPC \cup {"suspend"}
  BY <1>1 DEF PlaceOK, On
<1>3. ~InPool(u)
  <2>1. InPool(u) <=> InPool(running[e])
    OBVIOUS
  <2> QED BY <2>1, <1>1, <1>2 DEF RunOK, SwitchPC
<1>4. state[u] = "BLOCKED" => "BLOCK" \in request[u] /\ pc[u] = "resume"
  BY <1>1, <1>2 DEF RunOK, PlaceOK, SwitchPC
<1>5. handover # NoThread => giver # u
  BY <1>1, <1>2 DEF GiverOK, SwitchPC
<1> QED
  BY <1>1, <1>2, <1>3, <1>4, <1>5

\* The scheduler handles the requests of the ULT that has switched back to it.
LEMMA ReturnPlaces ==
  ASSUME IInv, PlacesInv, NEW e \in Xstream,
         ReturnTerminated(e) \/ ReturnYielded(e) \/ ReturnBlocked(e),
         UNCHANGED <<hq, lq, handover, giver, pc, target>>
  PROVE  PlacesInv'
<1> USE DEF PlacesInv
<1>1. PICK u : u = running[e]
  OBVIOUS
<1>2. phase[e] = "ret" /\ BackToSched(e)
  BY DEF ReturnTerminated, ReturnYielded, ReturnBlocked, GoesOn
<1>3. u \in Thread /\ u # NoThread
  BY <1>1, <1>2, Types
<1>4. /\ Runs(u) /\ \A f \in Xstream : running[f] = u => f = e
      /\ pc[u] \notin SwitchPC \cup {"suspend"} /\ ~InPool(u)
      /\ state[u] = "BLOCKED" => "BLOCK" \in request[u] /\ pc[u] = "resume"
      /\ handover # NoThread => giver # u
  <2> HIDE DEF PlacesInv
  <2> QED BY <1>1, <1>2, <1>3, Returned
<1>5. /\ \A v \in Thread : v # u => /\ state'[v] = state[v] /\ request'[v] = request[v]
                                    /\ InPool(v)' <=> InPool(v)
      /\ \A v \in Thread : state[v] = "BLOCKED" => state'[v] = "BLOCKED"
      /\ "BLOCK" \notin request'[u] /\ QueuedOnce' /\ AtHome'
      /\ \/ state'[u] = "TERMINATED" /\ ~InPool(u)' /\ pc[u] = "done"
         \/ state'[u] = "READY" /\ request'[u] \cap Stop = {}
         \/ /\ state[u] = "BLOCKED" /\ state'[u] = "BLOCKED" /\ ~InPool(u)' /\ pc[u] = "resume"
            /\ request'[u] \cap Stop = {}
  <2>1. CASE ReturnTerminated(e)
    <3>1. /\ request[u] \cap Stop # {} /\ state' = [state EXCEPT ![u] = "TERMINATED"]
          /\ UNCHANGED <<request, pool>>
      BY <2>1, <1>1 DEF ReturnTerminated
    <3>2. pc[u] = "done" /\ "BLOCK" \notin request[u] /\ state[u] # "BLOCKED"
      BY <3>1, <1>3 DEF ReqOK
    <3>3. /\ \A v \in Thread : InPool(v)' <=> InPool(v)
          /\ QueuedOnce' /\ AtHome'
      BY <3>1 DEF InPool, PoolOK, QueuedOnce, AtHome
    <3> QED BY <3>1, <3>2, <3>3, <1>3, <1>4, Types
  <2>2. CASE ReturnYielded(e)
    <3>1. /\ request[u] \cap NonYield = {} /\ request' = request
          /\ state' = [state EXCEPT ![u] = "READY"] /\ Push(u)
      BY <2>2, <1>1 DEF ReturnYielded, MakeReady
    <3>2. /\ \A v \in Thread : v # u => (InPool(v)' <=> InPool(v))
          /\ QueuedOnce' /\ AtHome'
      BY <3>1, <1>3, <1>4, PushAdds, Types DEF PoolOK
    <3>3. state[u] # "BLOCKED" /\ "BLOCK" \notin request[u] /\ request[u] \cap Stop = {}
      BY <3>1, <1>4 DEF NonYield
    <3> QED BY <3>1, <3>2, <3>3, <1>3, Types
  <2>3. CASE ReturnBlocked(e)
    <3>1. /\ "BLOCK" \in request[u] /\ request' = [request EXCEPT ![u] = @ \ {"BLOCK"}]
          /\ request[u] \cap Stop = {}
          /\ UNCHANGED <<state, pool>>
      BY <2>3, <1>1 DEF ReturnBlocked, GoesOn
    <3>2. state[u] = "BLOCKED"
      BY <3>1, <1>3 DEF ReqOK
    <3>3. /\ \A v \in Thread : InPool(v)' <=> InPool(v)
          /\ QueuedOnce' /\ AtHome'
      BY <3>1 DEF InPool, PoolOK, QueuedOnce, AtHome
    <3>4. /\ request'[u] = request[u] \ {"BLOCK"}
          /\ \A v \in Thread : v # u => request'[v] = request[v]
      BY <3>1, <1>3, Types
    <3> QED BY <3>1, <3>2, <3>3, <3>4, <1>3, <1>4
  <2> QED BY <2>1, <2>2, <2>3
<1>6. /\ running'[e] = NoThread /\ \A f \in Xstream : f # e => running'[f] = running[f]
      /\ phase'[e] = "sched" /\ \A f \in Xstream : f # e => phase'[f] = phase[f]
      /\ \A f \in Xstream : running'[f] # u
      /\ \A v \in Thread, f \in Xstream : v # u => (running'[f] = v <=> running[f] = v)
  BY <1>1, <1>2, <1>3, <1>4, Types DEF BackToSched
<1>7. /\ \A v \in Thread : /\ v # u => (Runs(v)' <=> Runs(v))
                           /\ \A f \in Xstream : On(v, f)' <=> On(v, f)
                           /\ \A f \in Xstream : Waits(v, f)' <=> Waits(v, f)
      /\ ~Runs(u)'
  <2>1. \A v \in Thread : v # u => (Runs(v)' <=> Runs(v))
    BY <1>6 DEF Runs
  <2>2. ~Runs(u)'
    BY <1>6 DEF Runs
  <2>3. \A v \in Thread, f \in Xstream : On(v, f)' <=> On(v, f)
    BY <1>2, <1>4, <1>6 DEF On
  <2>4. \A v \in Thread, f \in Xstream : Waits(v, f)' <=> Waits(v, f)
    BY DEF Waits
  <2> QED BY <2>1, <2>2, <2>3, <2>4
<1>8. PoolOK'
  BY <1>5 DEF PoolOK
<1>9. RunOK'
  <2>1. \A f \in Xstream : /\ phase[f] # "sched" => running[f] \in Thread
                           /\ running[f] # NoThread => running[f] \in Thread
    BY Types
  <2>2. OneRunner'
    BY <1>6 DEF RunOK, OneRunner
  <2>3. ASSUME NEW f \in Xstream
        PROVE  /\ phase'[f] # "cancel"
               /\ phase'[f] = "sched" => running'[f] = NoThread
               /\ phase'[f] = "ult" =>
                    state'[running'[f]] \in {"RUNNING", "BLOCKED"} \/ pc[running'[f]] = "low_switch"
               /\ running'[f] # NoThread /\ state'[running'[f]] = "BLOCKED" =>
                    "BLOCK" \in request'[running'[f]] \/ pc[running'[f]] = "low_switch"
               /\ running'[f] # NoThread /\ InPool(running[f])' => pc[running'[f]] = "low_switch"
    <3>1. CASE f = e BY <3>1, <1>6
    <3>2. CASE f # e
      <4>1. PICK r : r = running[f]
        OBVIOUS
      <4>2. running'[f] = r /\ phase'[f] = phase[f] /\ r # u
        BY <3>2, <4>1, <1>4, <1>6
      <4>3. r \in Thread => state'[r] = state[r] /\ request'[r] = request[r] /\ (InPool(r)' => InPool(r))
        BY <4>2, <1>5
      <4>4. /\ phase[f] # "cancel"
            /\ phase[f] = "sched" => r = NoThread
            /\ phase[f] = "ult" => state[r] \in {"RUNNING", "BLOCKED"} \/ pc[r] = "low_switch"
            /\ r # NoThread /\ state[r] = "BLOCKED" =>
                 "BLOCK" \in request[r] \/ pc[r] = "low_switch"
            /\ r # NoThread /\ InPool(r) => pc[r] = "low_switch"
        BY <4>1 DEF RunOK
      <4>5. (phase[f] = "sched" \/ r \in Thread) /\ (r = NoThread \/ r \in Thread)
        BY <2>1, <4>1
      <4>6. InPool(running[f])' <=> InPool(r)'
        BY <4>2 DEF InPool
      <4> QED BY <4>2, <4>3, <4>4, <4>5, <4>6
    <3> QED BY <3>1, <3>2
  <2> QED BY <2>2, <2>3 DEF RunOK
<1>10. ReqOK'
  <2> SUFFICES ASSUME NEW v \in Thread
               PROVE  /\ "BLOCK" \in request'[v] => state'[v] = "BLOCKED" /\ Runs(v)' /\ pc[v] # "low_switch"
                      /\ request'[v] \cap Stop # {} =>
                           /\ state'[v] # "BLOCKED" /\ ~InPool(v)' /\ pc[v] = "done"
                           /\ \A f \in Xstream : running'[f] = v => phase'[f] = "ret"
    BY DEF ReqOK
  <2>1. CASE v = u BY <2>1, <1>5, <1>6
  <2>2. CASE v # u
    <3>1. \A f \in Xstream : running'[f] = v => running[f] = v /\ phase'[f] = phase[f]
      BY <2>2, <1>3, <1>6, Types
    <3> QED BY <2>2, <3>1, <1>5, <1>7 DEF ReqOK
  <2> QED BY <2>1, <2>2
<1>11. PlaceOK'
  <2> SUFFICES ASSUME NEW v \in Thread
               PROVE  /\ state'[v] = "BLOCKED" => pc[v] \in {"suspend", "resume", "low_switch"}
                      /\ pc[v] \in SwitchPC \cup {"suspend"} => \E f \in Xstream : On(v, f)'
                      /\ \A f \in Xstream : On(v, f)' /\ state'[v] = "BLOCKED" => pc[v] # "resume"
                      /\ pc[v] \in {"low_try", "low_switch"} => Low(v)
    BY DEF PlaceOK
  <2>1. \A f \in Xstream : On(v, f)' <=> On(v, f)
    BY <1>7
  <2>2. CASE v = u
    <3>1. \A f \in Xstream : ~On(u, f)
      BY <1>2, <1>4 DEF On
    <3> QED BY <2>2, <3>1, <2>1, <1>4, <1>5 DEF PlaceOK
  <2>3. CASE v # u BY <2>1, <2>3, <1>5 DEF PlaceOK
  <2> QED BY <2>2, <2>3
<1>12. ServeOK'
  <2>1. \A v \in Thread, f \in Xstream : running'[f] = v => running[f] = v
    BY <1>6
  <2> QED BY <2>1, <1>7 DEF ServeOK
<1>13. TableOK'
  <2>1. \A v \in Thread, f \in Xstream : running'[f] = v => running[f] = v
    BY <1>6
  <2>2. \A v \in Thread, f \in Xstream : Waits(v, f)' => state'[v] = "BLOCKED"
    BY <1>5, <1>7 DEF TableOK
  <2> QED BY <2>1, <2>2, <1>7 DEF TableOK
<1>14. TargetOK'
  <2>1. \A v \in Thread : Runs(v)' => Runs(v)
    BY <1>7
  <2>2. \A w \in Thread : pc[w] \in WakePC => target[w] \in Thread
    BY Types
  <2> QED BY <2>1, <2>2, <1>5, <1>7 DEF TargetOK
<1>15. GiverOK'
  <2>1. handover # NoThread => handover \in Thread /\ giver \in Thread /\ giver # u
    BY <1>4, Types
  <2> QED BY <2>1, <1>5, <1>7 DEF GiverOK
<1>16. BlockedFound'
  <2>1. \A v \in Thread : state'[v] = "BLOCKED" => state[v] = "BLOCKED"
    BY <1>5
  <2> QED BY <2>1, <1>7 DEF BlockedFound
<1> QED
  BY <1>8, <1>9, <1>10, <1>11, <1>12, <1>13, <1>14, <1>15, <1>16

(***************************************************************************)
(* All steps.                                                              *)
(***************************************************************************)

\* In the initial states nobody waits, and the pools hold every ULT at most once.
LEMMA InitPlaces == Init => PlacesInv
<1> SUFFICES ASSUME Init PROVE PlacesInv
  OBVIOUS
<1> USE DEF Init, ThreadsInit
<1>1. \A e \in Xstream : hq[e] = <<>> /\ lq[e] = <<>> /\ running[e] = NoThread /\ phase[e] = "sched"
  OBVIOUS
<1>2. \A u \in Thread : /\ state[u] = "READY" /\ request[u] = {} /\ pc[u] = "start"
                        /\ target[u] = NoThread
  OBVIOUS
<1>3. NoThread \notin Thread
  BY ThreadsAssumption
<1>4. \A u \in Thread, e \in Xstream : ~Waits(u, e)
  BY <1>1 DEF Waits, Contains
<1>5. PoolOK
  <2>1. pool = InitPool
    OBVIOUS
  <2>2. QueuedOnce /\ AtHome
    BY <2>1, ThreadsAssumption DEF QueuedOnce, AtHome
  <2> QED BY <2>2, <1>2 DEF PoolOK
<1>6. RunOK
  BY <1>1 DEF RunOK, OneRunner
<1>7. ReqOK
  BY <1>2 DEF ReqOK
<1>8. PlaceOK
  BY <1>2 DEF PlaceOK, SwitchPC
<1>9. ServeOK
  BY <1>1, <1>3, <1>4 DEF ServeOK
<1>10. TableOK
  BY <1>1, <1>4 DEF TableOK, IsInjective, Contains
<1>11. TargetOK
  BY <1>2 DEF TargetOK, WakePC, SwitchPC
<1>12. GiverOK
  BY <1>2 DEF GiverOK
<1>13. BlockedFound
  BY <1>2 DEF BlockedFound
<1> QED
  BY <1>5, <1>6, <1>7, <1>8, <1>9, <1>10, <1>11, <1>12, <1>13 DEF PlacesInv

\* The steps of the scheduler of an ES keep everybody's place.
LEMMA SchedPlaces ==
  ASSUME LowPrivate, IInv, PlacesInv, NEW e \in Xstream, Sched(e)
  PROVE  PlacesInv'
<1>1. Scheduler(e) /\ UNCHANGED <<hq, lq, handover, giver, pc, target>>
  BY DEF Sched, mutexVars, tableVars, localVars
<1> QED
  BY <1>1, SchedRunPlaces, ReturnPlaces DEF Scheduler

\* A ULT that yields, or ends, leaves its ES to the scheduler.
LEMMA LeavePlaces ==
  ASSUME IInv, PlacesInv, NEW u \in Thread, NEW e \in Xstream, On(u, e),
         SeYield(u, e) \/ YieldInCS(u, e) \/ Terminate(u, e)
  PROVE  PlacesInv'
<1>1. pc[u] \in {"se_yield", "cs", "start"} /\ handover # u
  BY Types DEF SeYield, YieldInCS, Terminate, PlacesInv, GiverOK
<1>2. pc[u] \notin WakePC \cup {"suspend"} /\ pc[u] # "dec_blocked"
  BY <1>1 DEF WakePC, SwitchPC
<1>3. \A l \in {"start", "cs2", "done"} :
        l \in PC /\ l \notin WakePC \cup {"suspend", "low_try", "dec_blocked"}
  BY DEF PC, WakePC, SwitchPC
<1>4. UNCHANGED <<pool, running, hq, lq, handover, giver, target>> /\ SwitchToSched(e)
  BY DEF SeYield, YieldInCS, Terminate, YieldThread, mutexVars, tableVars
<1>5. CASE SeYield(u, e)
  <2>1. /\ Goto(u, "start") /\ request' = request /\ state' = [state EXCEPT ![u] = "READY"]
    BY <1>5 DEF SeYield, YieldThread
  <2> QED BY <1>1, <1>2, <1>3, <1>4, <2>1, LeaveKeeps
<1>6. CASE YieldInCS(u, e)
  <2>1. /\ Goto(u, "cs2") /\ request' = request /\ state' = [state EXCEPT ![u] = "READY"]
    BY <1>6 DEF YieldInCS, YieldThread
  <2> QED BY <1>1, <1>2, <1>3, <1>4, <2>1, LeaveKeeps
<1>7. CASE Terminate(u, e)
  <2>1. /\ Goto(u, "done") /\ state' = state
        /\ request' = [request EXCEPT ![u] = @ \cup {"JOIN", "TERMINATE"}]
    BY <1>7 DEF Terminate
  <2> QED BY <1>1, <1>2, <1>3, <1>4, <2>1, LeaveKeeps
<1> QED
  BY <1>5, <1>6, <1>7

\* The steps of the lock operations.
LEMMA AcquirePlaces ==
  ASSUME IInv, PlacesInv, NEW u \in Thread, NEW e \in Xstream, On(u, e), Acquire(u, e)
  PROVE  PlacesInv'
<1>1. CASE LowSwitch(u, e) BY <1>1, LowSwitchPlaces
<1>2. CASE WaitEnqueue(u, e) BY <1>2, WaitEnqueuePlaces
<1>3. CASE WaitSuspend(u, e) BY <1>3, WaitSuspendPlaces
<1>4. CASE TakeHandover(u) /\ handover = u BY <1>4, TakeHandoverPlaces
<1>5. CASE LowSwap(u, e) /\ lq[e] # <<>> BY <1>5, LowSwapPlaces
<1>6. CASE \/ Lock(u) \/ LockLow(u, e) \/ LowCas(u) \/ Spinlock(u) \/ Trylock(u) \/ Xchg(u)
           \/ WaitCheck(u)
           \/ LowSwap(u, e) /\ lq[e] = <<>>
           \/ TakeHandover(u) /\ handover # u
  <2>1. PICK l \in PC : Quiet(u, l)
    BY <1>6, QuietAcquire
  <2> QED BY <2>1, QuietKeeps
<1> QED
  BY <1>1, <1>2, <1>3, <1>4, <1>5, <1>6 DEF Acquire

\* The steps of the unlock operations.
LEMMA ReleasePlaces ==
  ASSUME IInv, PlacesInv, NEW u \in Thread, NEW e \in Xstream, On(u, e), Release(u, e)
  PROVE  PlacesInv'
<1>1. CASE WakePop(u, e) /\ ~WakeNone(u, e)
  BY <1>1, TakePlaces DEF WakePop
<1>2. CASE WakeReady(u) BY <1>2, WakeReadyPlaces
<1>3. CASE SePop(u, e) /\ hq[e] # <<>> BY <1>3, TakePlaces
<1>4. CASE SePopLow(u, e) /\ lq[e] # <<>> BY <1>4, TakePlaces
<1>5. CASE SeGive(u, e) BY <1>5, SeGivePlaces
<1>6. CASE SeSwitch(u, e) BY <1>6, SeSwitchPlaces
<1>7. CASE SeYield(u, e) BY <1>7, LeavePlaces
<1>8. CASE \/ Unlock(u) \/ StoreZero(u) \/ WakeDec(u, e) \/ UnlockSe(u) \/ SeCheck(u, e)
           \/ SeLow(u, e) \/ SeReturn(u)
           \/ WakePop(u, e) /\ WakeNone(u, e)
           \/ SePop(u, e) /\ hq[e] = <<>>
           \/ SePopLow(u, e) /\ lq[e] = <<>>
  <2>1. PICK l \in PC : Quiet(u, l)
    BY <1>8, QuietRelease
  <2> QED BY <2>1, QuietKeeps
<1> QED
  BY <1>1, <1>2, <1>3, <1>4, <1>5, <1>6, <1>7, <1>8 DEF Release

\* Every step, or none, keeps everybody's place.
LEMMA NextPlaces == LowPrivate /\ IInv /\ PlacesInv /\ [Next]_vars => PlacesInv'
<1> SUFFICES ASSUME LowPrivate, IInv, PlacesInv, [Next]_vars PROVE PlacesInv'
  OBVIOUS
<1>1. ASSUME NEW e \in Xstream, Sched(e) PROVE PlacesInv'
  BY <1>1, SchedPlaces
<1>2. ASSUME NEW e \in Xstream, NEW u \in Thread, Step(u, e) PROVE PlacesInv'
  BY <1>2, AcquirePlaces, ReleasePlaces, LeavePlaces DEF Step
<1>3. CASE UNCHANGED vars
  <2> USE <1>3 DEF vars, threadVars, mutexVars, tableVars, localVars
  <2>1. \A v \in Thread : /\ InPool(v)' <=> InPool(v)
                          /\ Runs(v)' <=> Runs(v)
                          /\ \A f \in Xstream : Waits(v, f)' <=> Waits(v, f)
                          /\ \A f \in Xstream : On(v, f)' <=> On(v, f)
    BY DEF InPool, Runs, Waits, On
  <2>2. PoolOK' /\ RunOK' /\ ReqOK' /\ PlaceOK' /\ ServeOK'
    BY DEF PlacesInv, PoolOK, QueuedOnce, AtHome, RunOK, OneRunner, ReqOK, PlaceOK, ServeOK,
           InPool, Runs, Waits, On
  <2>3. TableOK' /\ TargetOK' /\ GiverOK' /\ BlockedFound'
    BY DEF PlacesInv, TableOK, TargetOK, GiverOK, BlockedFound, InPool, Runs, Waits
  <2> QED BY <2>2, <2>3 DEF PlacesInv
<1> QED
  BY <1>1, <1>2, <1>3 DEF Next

\* In every execution a ULT is in one place at a time: in one pool once, on one ES, in
\* one queue of the mutex, named in p_handover, or in the hands of one ULT that wakes
\* it; it is BLOCKED in the queues, READY in a pool and RUNNING on an ES.
THEOREM MutexPlaces == LowPrivate => (Spec => []PlacesInv)
<1> SUFFICES ASSUME LowPrivate PROVE Spec => []PlacesInv
  OBVIOUS
<1>1. Init => IInv /\ PlacesInv
  BY InitInv, InitPlaces
<1>2. IInv /\ PlacesInv /\ [Next]_vars => IInv' /\ PlacesInv'
  BY NextKeeps, NextPlaces
<1> QED
  BY <1>1, <1>2, PTL DEF Spec

(***************************************************************************)
(* The abstract mutex.                                                     *)
(***************************************************************************)

\* Where a ULT has asked for the mutex, and where it neither has nor owns it.
AskPC == {"low_try", "low_switch", "low_cas", "spin", "xchg", "wait", "enqueue",
          "suspend", "resume"}
OutPC == PC \ (AskPC \cup OwnerPC)

\* What the owner of the abstract mutex is.
LEMMA OwnerValue ==
  ASSUME MutualExclusion
  PROVE  /\ handover # NoThread => lockOwner = handover
         /\ \A u \in Thread : Owns(u) => lockOwner = u
         /\ handover = NoThread /\ (\A u \in Thread : ~Owns(u)) => lockOwner = NoThread
<1>1. ASSUME NEW u \in Thread, Owns(u) PROVE lockOwner = u
  <2>1. handover = NoThread /\ \A v \in Thread : Owns(v) => v = u
    BY <1>1 DEF MutualExclusion
  <2>2. (CHOOSE v \in Thread : Owns(v)) = u
    BY <1>1, <2>1
  <2> QED BY <1>1, <2>1, <2>2 DEF lockOwner
<1> QED
  BY <1>1 DEF lockOwner

\* The same after a step.
LEMMA OwnerValueNext ==
  ASSUME MutualExclusion'
  PROVE  /\ handover' # NoThread => lockOwner' = handover'
         /\ \A u \in Thread : Owns(u)' => lockOwner' = u
         /\ handover' = NoThread /\ (\A u \in Thread : ~Owns(u)') => lockOwner' = NoThread
<1>1. ASSUME NEW u \in Thread, Owns(u)' PROVE lockOwner' = u
  <2>1. handover' = NoThread /\ \A v \in Thread : Owns(v)' => v = u
    BY <1>1 DEF MutualExclusion
  <2>2. (CHOOSE v \in Thread : Owns(v)') = u
    BY <1>1, <2>1
  <2> QED BY <1>1, <2>1, <2>2 DEF lockOwner
<1> QED
  BY <1>1 DEF lockOwner

\* What a step of a ULT that names nobody in p_handover may be for the abstract mutex:
\* nothing, an Ask, an Acquire or a Release.
Moves(u, l) ==
  /\ Goto(u, l) /\ l \in PC /\ handover' = handover
  /\ \/ pc[u] \in OutPC /\ l \in OutPC
     \/ pc[u] \in AskPC /\ l \in AskPC /\ handover # u
     \/ pc[u] \in OwnerPC /\ l \in OwnerPC
     \/ pc[u] = "start" /\ l \in AskPC
     \/ pc[u] \in AskPC \cup {"start"} /\ l = "cs" /\ val = 0
     \/ pc[u] \in OwnerPC /\ l \in OutPC

\* Such a step is one of the abstract mutex.
LEMMA MovesImplement ==
  ASSUME IInv, IInv', GiverOK, NEW u \in Thread, NEW l, Moves(u, l)
  PROVE  Abstract!Next \/ UNCHANGED <<lockOwner, lockAsked>>
<1>1. /\ l \in PC /\ Goto(u, l) /\ handover' = handover
      /\ pc'[u] = l /\ \A v \in Thread : v # u => pc'[v] = pc[v]
  BY GotoType, Types DEF Moves
<1>2. MutualExclusion /\ MutualExclusion' /\ NoThread \notin Thread
  BY Types DEF IInv
<1>3. /\ AskPC \cap OwnerPC = {} /\ "start" \in OutPC /\ "cs" \in OwnerPC
      /\ AskPC \cap OutPC = {} /\ OwnerPC \cap OutPC = {}
  BY DEF AskPC, OwnerPC, OutPC, PC
<1>4. \A v \in Thread : v # u => (Owns(v)' <=> Owns(v))
  BY <1>1 DEF Owns
<1>5. /\ Owns(u) <=> pc[u] \in OwnerPC
      /\ Owns(u)' <=> l \in OwnerPC
  BY <1>1 DEF Owns
<1>6. /\ lockAsked = {v \in Thread : pc[v] \in AskPC /\ handover # v}
      /\ lockAsked' = {v \in Thread : pc'[v] \in AskPC /\ handover' # v}
  BY DEF lockAsked, AskPC
<1>7. handover = u => pc[u] = "resume"
  BY <1>2 DEF GiverOK
<1>8. "resume" \in AskPC
  BY DEF AskPC
<1>9. CASE pc[u] \in OutPC /\ l \in OutPC
  <2>1. lockAsked' = lockAsked
    BY <1>1, <1>3, <1>6, <1>9
  <2>2. \A v \in Thread : Owns(v)' <=> Owns(v)
    BY <1>3, <1>4, <1>5, <1>9
  <2>3. lockOwner' = lockOwner
    BY <1>1, <1>2, <2>2, OwnerValue, OwnerValueNext
  <2> QED BY <2>1, <2>3
<1>10. CASE pc[u] \in AskPC /\ l \in AskPC /\ handover # u
  <2>1. lockAsked' = lockAsked
    BY <1>1, <1>3, <1>6, <1>10
  <2>2. \A v \in Thread : Owns(v)' <=> Owns(v)
    BY <1>3, <1>4, <1>5, <1>10
  <2>3. lockOwner' = lockOwner
    BY <1>1, <1>2, <2>2, OwnerValue, OwnerValueNext
  <2> QED BY <2>1, <2>3
<1>11. CASE pc[u] \in OwnerPC /\ l \in OwnerPC
  <2>1. lockAsked' = lockAsked
    BY <1>1, <1>3, <1>6, <1>11
  <2>2. lockOwner' = u /\ lockOwner = u
    BY <1>2, <1>5, <1>11, OwnerValue, OwnerValueNext
  <2> QED BY <2>1, <2>2
<1>12. CASE pc[u] = "start" /\ l \in AskPC
  <2>1. handover # u /\ u \notin lockAsked
    BY <1>3, <1>6, <1>7, <1>12
  <2>2. lockAsked' = lockAsked \cup {u}
    BY <1>1, <1>6, <1>12, <2>1
  <2>3. ~Owns(u) /\ \A v \in Thread : Owns(v)' <=> Owns(v)
    BY <1>3, <1>4, <1>5, <1>12
  <2>4. lockOwner' = lockOwner /\ lockOwner # u
    BY <1>1, <1>2, <2>1, <2>3, OwnerValue, OwnerValueNext
  <2> QED BY <2>1, <2>2, <2>4 DEF Abstract!Next, Abstract!Ask
<1>13. CASE pc[u] \in AskPC \cup {"start"} /\ l = "cs" /\ val = 0
  <2>1. handover = NoThread /\ \A v \in Thread : ~Owns(v)
    BY <1>2, <1>13 DEF MutualExclusion
  <2>2. lockOwner = NoThread /\ lockOwner' = u
    BY <1>2, <1>3, <1>5, <1>13, <2>1, OwnerValue, OwnerValueNext
  <2>3. lockAsked' = lockAsked \ {u}
    BY <1>1, <1>3, <1>6, <1>13
  <2> QED BY <2>2, <2>3 DEF Abstract!Next, Abstract!Acquire
<1>14. CASE pc[u] \in OwnerPC /\ l \in OutPC
  <2>1. handover = NoThread /\ \A v \in Thread : ~Owns(v)'
    BY <1>2, <1>3, <1>4, <1>5, <1>14 DEF MutualExclusion
  <2>2. lockOwner = u /\ lockOwner' = NoThread
    BY <1>1, <1>2, <1>5, <1>14, <2>1, OwnerValue, OwnerValueNext
  <2>3. lockAsked' = lockAsked
    BY <1>1, <1>3, <1>6, <1>14
  <2> QED BY <2>2, <2>3 DEF Abstract!Next, Abstract!Release
<1> QED
  BY <1>9, <1>10, <1>11, <1>12, <1>13, <1>14 DEF Moves

\* The steps of the lock operations are such steps, but for the one that takes the
\* mutex from the giver.
LEMMA AcquireMoves ==
  ASSUME IInv, GiverOK, NEW u \in Thread, NEW e \in Xstream, Acquire(u, e),
         handover = u => ~TakeHandover(u)
  PROVE  \E l \in PC : Moves(u, l)
<1>0. handover = u => pc[u] = "resume"
  BY Types DEF GiverOK
<1> USE Types DEF Moves, CasLock, PC, OutPC, AskPC, OwnerPC, mutexVars, tableVars
<1>1. CASE Lock(u)
  BY <1>0, <1>1 DEF Lock
<1>2. CASE LockLow(u, e)
  BY <1>0, <1>2 DEF LockLow
<1>3. CASE LowCas(u)
  BY <1>0, <1>3 DEF LowCas
<1>4. CASE LowSwap(u, e)
  BY <1>0, <1>4 DEF LowSwap
<1>5. CASE LowSwitch(u, e)
  BY <1>0, <1>5 DEF LowSwitch
<1>6. CASE Spinlock(u)
  BY <1>0, <1>6 DEF Spinlock
<1>7. CASE Trylock(u)
  <2>1. CASE val = 0
    BY <1>0, <1>7, <2>1 DEF Trylock
  <2>2. CASE val # 0
    <3>1. Goto(u, "start")
      BY <1>7, <2>2 DEF Trylock, Goto
    <3> QED BY <1>0, <1>7, <2>2, <3>1 DEF Trylock
  <2> QED BY <2>1, <2>2
<1>8. CASE Xchg(u)
  BY <1>0, <1>8 DEF Xchg
<1>9. CASE WaitCheck(u)
  BY <1>0, <1>9 DEF WaitCheck
<1>10. CASE WaitEnqueue(u, e)
  BY <1>0, <1>10 DEF WaitEnqueue
<1>11. CASE WaitSuspend(u, e)
  BY <1>0, <1>11 DEF WaitSuspend
<1>12. CASE TakeHandover(u)
  BY <1>12 DEF TakeHandover
<1> QED
  BY <1>1, <1>2, <1>3, <1>4, <1>5, <1>6, <1>7, <1>8, <1>9, <1>10, <1>11, <1>12 DEF Acquire

\* The steps of the unlock operations are such steps, but for the one that hands the
\* mutex over.
LEMMA ReleaseMoves ==
  ASSUME IInv, NEW u \in Thread, NEW e \in Xstream,
         Release(u, e) \/ YieldInCS(u, e) \/ Terminate(u, e), ~SeGive(u, e)
  PROVE  \E l \in PC : Moves(u, l)
<1> USE Types DEF Moves, WakeOver, PC, OutPC, AskPC, OwnerPC, mutexVars, tableVars
<1>1. CASE Unlock(u)
  BY <1>1 DEF Unlock
<1>2. CASE StoreZero(u)
  BY <1>2 DEF StoreZero
<1>3. CASE WakePop(u, e)
  <2>1. CASE WakeHigh(u) BY <1>3, <2>1 DEF WakePop, WakeHigh, Woken
  <2>2. CASE WakeLow(u) BY <1>3, <2>2 DEF WakePop, WakeLow, Woken
  <2>3. CASE WakeNone(u, e) BY <1>3, <2>3 DEF WakePop, WakeNone
  <2> QED BY <1>3, <2>1, <2>2, <2>3 DEF WakePop
<1>4. CASE WakeReady(u)
  BY <1>4 DEF WakeReady
<1>5. CASE WakeDec(u, e)
  BY <1>5 DEF WakeDec
<1>6. CASE UnlockSe(u)
  BY <1>6 DEF UnlockSe
<1>7. CASE SeCheck(u, e)
  BY <1>7 DEF SeCheck
<1>8. CASE SePop(u, e)
  BY <1>8 DEF SePop
<1>9. CASE SeLow(u, e)
  BY <1>9 DEF SeLow
<1>10. CASE SePopLow(u, e)
  BY <1>10 DEF SePopLow
<1>11. CASE SeSwitch(u, e)
  BY <1>11 DEF SeSwitch
<1>12. CASE SeReturn(u)
  BY <1>12 DEF SeReturn
<1>13. CASE SeYield(u, e)
  BY <1>13 DEF SeYield
<1>14. CASE YieldInCS(u, e)
  BY <1>14 DEF YieldInCS
<1>15. CASE Terminate(u, e)
  BY <1>15 DEF Terminate
<1> QED
  BY <1>1, <1>2, <1>3, <1>4, <1>5, <1>6, <1>7, <1>8, <1>9, <1>10, <1>11, <1>12, <1>13,
     <1>14, <1>15 DEF Release

\* The handover is the abstract Pass: the ULT it goes to waits for the mutex.
LEMMA GivePasses ==
  ASSUME IInv, IInv', PlacesInv, NEW u \in Thread, NEW e \in Xstream, SeGive(u, e)
  PROVE  Abstract!Next
<1>1. PICK t : t = target[u]
  OBVIOUS
<1>2. /\ pc[u] = "se_give" /\ handover' = t
      /\ pc'[u] = "se_switch" /\ \A v \in Thread : v # u => pc'[v] = pc[v]
  BY <1>1, Types DEF SeGive, Goto
<1>3. /\ MutualExclusion /\ MutualExclusion' /\ Owns(u) /\ handover = NoThread
      /\ NoThread \notin Thread
  BY <1>2, Types DEF IInv, MutualExclusion, Owns, OwnerPC
<1>4. t \in Thread /\ pc[t] = "resume" /\ t # u
  BY <1>1, <1>2, Types DEF PlacesInv, TargetOK, WakePC, SwitchPC
<1>5. lockOwner = u /\ lockOwner' = t
  BY <1>2, <1>3, <1>4, OwnerValue, OwnerValueNext
<1>6. /\ lockAsked = {v \in Thread : pc[v] \in AskPC /\ handover # v}
      /\ lockAsked' = {v \in Thread : pc'[v] \in AskPC /\ handover' # v}
  BY DEF lockAsked, AskPC
<1>7. /\ "resume" \in AskPC /\ "se_give" \notin AskPC /\ "se_switch" \notin AskPC
  BY DEF AskPC
<1>8. t \in lockAsked /\ lockAsked' = lockAsked \ {t}
  BY <1>2, <1>3, <1>4, <1>6, <1>7
<1> QED
  BY <1>4, <1>5, <1>8 DEF Abstract!Next, Abstract!Pass

\* To take the mutex from the giver is nothing to the abstract mutex.
LEMMA TakeStutters ==
  ASSUME IInv, IInv', NEW u \in Thread, TakeHandover(u), handover = u
  PROVE  UNCHANGED <<lockOwner, lockAsked>>
<1>1. /\ pc[u] = "resume" /\ handover' = NoThread /\ u # NoThread
      /\ pc'[u] = "cs" /\ \A v \in Thread : v # u => pc'[v] = pc[v]
  BY Types DEF TakeHandover, Goto
<1>2. MutualExclusion /\ MutualExclusion' /\ Owns(u)'
  BY <1>1 DEF IInv, Owns, OwnerPC
<1>3. lockOwner = u /\ lockOwner' = u
  BY <1>1, <1>2, OwnerValue, OwnerValueNext
<1>4. /\ lockAsked = {v \in Thread : pc[v] \in AskPC /\ handover # v}
      /\ lockAsked' = {v \in Thread : pc'[v] \in AskPC /\ handover' # v}
  BY DEF lockAsked, AskPC
<1>5. "cs" \notin AskPC
  BY DEF AskPC
<1>6. \A v \in Thread : v # NoThread
  BY Types
<1>7. lockAsked' = lockAsked
  BY <1>1, <1>4, <1>5, <1>6
<1> QED
  BY <1>3, <1>7

\* ABT_mutex implements the abstract mutex of LockSpec: the lock word, the queues and the
\* handover together give the mutex to a ULT only when nobody holds it, and only its
\* holder gives it back or hands it over, to a ULT that waits.
THEOREM MutexImplementsLock == LowPrivate => (Spec => ImplementsLock)
<1> SUFFICES ASSUME LowPrivate PROVE Spec => ImplementsLock
  OBVIOUS
<1>1. Init => Abstract!Init
  <2> SUFFICES ASSUME Init PROVE lockOwner = NoThread /\ lockAsked = {}
    BY DEF Abstract!Init
  <2>1. handover = NoThread /\ \A u \in Thread : pc[u] = "start"
    BY DEF Init
  <2> QED BY <2>1 DEF lockOwner, lockAsked, Owns, OwnerPC
<1>2. Init => IInv /\ PlacesInv
  BY InitInv, InitPlaces
<1>3. IInv /\ PlacesInv /\ [Next]_vars => IInv' /\ PlacesInv'
  BY NextKeeps, NextPlaces
<1>4. ASSUME IInv, PlacesInv, [Next]_vars PROVE [Abstract!Next]_(Abstract!vars)
  <2> USE DEF Abstract!vars
  <2>1. IInv'
    BY <1>4, NextKeeps
  <2>2. ASSUME NEW u \in Thread, NEW e \in Xstream, Step(u, e)
        PROVE  Abstract!Next \/ UNCHANGED <<lockOwner, lockAsked>>
    <3>1. CASE SeGive(u, e) BY <1>4, <2>1, <3>1, GivePasses
    <3>2. CASE TakeHandover(u) /\ handover = u BY <1>4, <2>1, <3>2, TakeStutters
    <3>3. CASE ~SeGive(u, e) /\ ~(TakeHandover(u) /\ handover = u)
      <4>1. GiverOK
        BY <1>4 DEF PlacesInv
      <4>2. \E l \in PC : Moves(u, l)
        BY <1>4, <2>2, <3>3, <4>1, AcquireMoves, ReleaseMoves DEF Step
      <4> QED BY <1>4, <2>1, <4>1, <4>2, MovesImplement
    <3> QED BY <3>1, <3>2, <3>3
  <2>3. CASE UNCHANGED <<mutexVars, localVars>>
    BY <2>3 DEF mutexVars, localVars, lockOwner, lockAsked, Owns
  <2> QED BY <1>4, <2>2, <2>3 DEF Next, Sched, vars
<1> QED
  BY <1>1, <1>2, <1>3, <1>4, PTL DEF Spec, ImplementsLock, Abstract!Spec

\* No two ESs ever run the same ULT, although lock_low queues its caller before it has
\* left its stack: the ES that it is on is the only one that serves its pool.
THEOREM MutexOneRunner == LowPrivate => (Spec => []OneRunner)
<1>1. PlacesInv => OneRunner
  BY DEF PlacesInv, RunOK
<1> QED
  BY <1>1, MutexPlaces, PTL

\* Whoever is woken is BLOCKED, so that ABTI_thread_set_ready cannot fail; it is in no
\* queue any more, and no other ULT is waking it.
THEOREM MutexWakesBlocked == LowPrivate => (Spec => []WakesBlocked)
<1>1. ASSUME IInv, PlacesInv PROVE WakesBlocked
  <2> SUFFICES ASSUME NEW w \in Thread, pc[w] \in {"set_ready", "se_give", "se_switch"}
               PROVE  /\ state[target[w]] = "BLOCKED" /\ ~Waiting(target[w])
                      /\ \A x \in Thread : target[x] = target[w] /\ pc[x] # "dec_blocked" => x = w
    BY DEF WakesBlocked
  <2>1. pc[w] \in WakePC
    BY DEF WakePC, SwitchPC
  <2>2. /\ state[target[w]] = "BLOCKED" /\ \A e \in Xstream : ~Waits(target[w], e)
        /\ \A x \in Thread : pc[x] \in WakePC /\ target[x] = target[w] => x = w
    BY <1>1, <2>1 DEF PlacesInv, TargetOK
  <2>3. ~Waiting(target[w])
    BY <2>2 DEF Waiting, Waits
  <2>4. target[w] # NoThread
    BY <1>1, <2>1, Types
  <2>5. \A x \in Thread : target[x] # NoThread => pc[x] \in WakePC \cup {"dec_blocked"}
    BY <1>1 DEF PlacesInv, TargetOK
  <2> QED BY <2>2, <2>3, <2>4, <2>5
<1> SUFFICES ASSUME LowPrivate PROVE Spec => []WakesBlocked
  OBVIOUS
<1>2. Spec => []IInv
  BY InitInv, NextKeeps, PTL DEF Spec
<1>3. Spec => []PlacesInv
  BY MutexPlaces
<1> QED
  BY <1>1, <1>2, <1>3, PTL

(***************************************************************************)
(* The lists of the queues in use.                                         *)
(***************************************************************************)

\* Linking a queue in adds it, once.
LEMMA LinkAdds ==
  ASSUME NEW list \in Seq(Xstream), NEW e \in Xstream, IsInjective(list)
  PROVE  /\ IsInjective(Link(list, e))
         /\ \A f : Contains(Link(list, e), f) <=> Contains(list, f) \/ f = e
<1>1. CASE Contains(list, e)
  BY <1>1 DEF Link
<1>2. CASE ~Contains(list, e)
  BY <1>2, AppendContains DEF Link
<1> QED
  BY <1>1, <1>2

\* What is left of an injective sequence when its first i elements are dropped.
LEMMA RestContains ==
  ASSUME NEW S, NEW s \in Seq(S), IsInjective(s), NEW i \in DOMAIN s
  PROVE  LET rest == SubSeq(s, i + 1, Len(s))
         IN  /\ rest \in Seq(S) /\ IsInjective(rest) /\ ~Contains(rest, s[i])
             /\ \A j \in DOMAIN s : j > i => Contains(rest, s[j])
<1> DEFINE n == Len(s)
           rest == SubSeq(s, i + 1, n)
<1>1. /\ n \in Nat /\ i \in 1 .. n /\ DOMAIN s = 1 .. n
      /\ \A a, b \in 1 .. n : s[a] = s[b] => a = b
  BY LenProperties DEF IsInjective
<1>2. \A j \in i + 1 .. n : s[j] \in S
  BY <1>1, ElementOfSeq
<1>3. /\ rest \in Seq(S) /\ Len(rest) = n - i
      /\ \A j \in 1 .. n - i : rest[j] = s[i + j]
  <2>1. i + 1 \in Int /\ n \in Int
    BY <1>1
  <2>2. /\ rest \in Seq(S) /\ Len(rest) = IF i + 1 <= n THEN n - (i + 1) + 1 ELSE 0
        /\ \A j \in 1 .. n - (i + 1) + 1 : rest[j] = s[i + 1 + j - 1]
    BY <1>2, <2>1, SubSeqProperties
  <2>3. ASSUME NEW j \in 1 .. n - i PROVE rest[j] = s[i + j]
    <3>1. j \in 1 .. n - (i + 1) + 1 /\ i + 1 + j - 1 = i + j
      BY <1>1
    <3> QED BY <2>2, <3>1
  <2> QED BY <2>2, <2>3, <1>1
<1>4. DOMAIN rest = 1 .. n - i
  BY <1>3, LenProperties
<1> HIDE DEF rest, n
<1>5. IsInjective(rest)
  <2> SUFFICES ASSUME NEW a \in 1 .. n - i, NEW b \in 1 .. n - i, rest[a] = rest[b] PROVE a = b
    BY <1>4 DEF IsInjective
  <2>1. i + a \in 1 .. n /\ i + b \in 1 .. n /\ s[i + a] = s[i + b]
    BY <1>1, <1>3
  <2>2. i + a = i + b
    BY <2>1, <1>1
  <2> QED BY <2>2, <1>1
<1>6. ~Contains(rest, s[i])
  <2> SUFFICES ASSUME NEW a \in 1 .. n - i, rest[a] = s[i] PROVE FALSE
    BY <1>3, <1>4 DEF Contains
  <2>1. i + a \in 1 .. n /\ s[i + a] = s[i]
    BY <1>1, <1>3
  <2>2. i + a = i
    BY <2>1, <1>1
  <2> QED BY <2>2, <1>1
<1>7. ASSUME NEW j \in DOMAIN s, j > i PROVE Contains(rest, s[j])
  <2>1. j - i \in 1 .. n - i /\ rest[j - i] = s[i + (j - i)] /\ i + (j - i) = j
    BY <1>1, <1>3, <1>7
  <2> QED BY <2>1, <1>3 DEF Contains
<1> QED
  BY <1>3, <1>5, <1>6, <1>7 DEF rest, n

\* A turn round a list of queues keeps linked those that are not empty.
LEMMA TurnLinks ==
  ASSUME NEW list \in Seq(Xstream), IsInjective(list),
         NEW queue \in [Xstream -> Seq(Thread)], NEW i \in DOMAIN list,
         FirstLive(list, queue, i),
         \A e \in Xstream : queue[e] # <<>> => Contains(list, e)
  PROVE  /\ IsInjective(Turn(list, queue, i))
         /\ \A e \in Xstream : Pop(queue, list[i])[e] # <<>> => Contains(Turn(list, queue, i), e)
<1> DEFINE rest == SubSeq(list, i + 1, Len(list))
           g == list[i]
<1>1. /\ rest \in Seq(Xstream) /\ IsInjective(rest) /\ ~Contains(rest, g)
      /\ \A j \in DOMAIN list : j > i => Contains(rest, list[j])
  BY RestContains
<1>2. g \in Xstream /\ queue[g] \in Seq(Thread) /\ queue[g] # <<>>
  BY ElementOfSeq, LenProperties DEF FirstLive
<1>3. /\ IsInjective(Append(rest, g))
      /\ \A y : Contains(Append(rest, g), y) <=> Contains(rest, y) \/ y = g
  <2> HIDE DEF rest, g
  <2> QED BY <1>1, <1>2, AppendContains
<1>4. Turn(list, queue, i) = IF Len(queue[g]) = 1 THEN rest ELSE Append(rest, g)
  BY DEF Turn
<1>5. DOMAIN list = 1 .. Len(list) /\ Len(list) \in Nat
  BY LenProperties
<1>6. Len(queue[g]) = 1 => Tail(queue[g]) = <<>>
  <2> SUFFICES ASSUME Len(queue[g]) = 1 PROVE Tail(queue[g]) = <<>>
    OBVIOUS
  <2>1. Len(Tail(queue[g])) = Len(queue[g]) - 1 /\ Tail(queue[g]) \in Seq(Thread)
    BY <1>2, HeadTailProperties
  <2>2. Len(Tail(queue[g])) = 0
    BY <2>1
  <2> QED BY <2>1, <2>2, EmptySeq
<1>7. ASSUME NEW e \in Xstream, Pop(queue, g)[e] # <<>>
      PROVE  Contains(rest, e) \/ (e = g /\ Len(queue[g]) # 1)
  <2>1. CASE e = g BY <2>1, <1>2, <1>6, <1>7 DEF Pop
  <2>2. CASE e # g
    <3>1. queue[e] # <<>>
      BY <2>2, <1>2, <1>7 DEF Pop
    <3>2. PICK j \in DOMAIN list : list[j] = e
      BY <3>1 DEF Contains
    <3>3. ~(j \in 1 .. i - 1)
      BY <3>1, <3>2 DEF FirstLive
    <3>4. j > i
      BY <3>2, <3>3, <2>2, <1>5
    <3> QED BY <3>2, <3>4, <1>1
  <2> QED BY <2>1, <2>2
<1> HIDE DEF rest
<1> QED
  BY <1>1, <1>3, <1>4, <1>7

\* A step keeps the queues in use linked.
LEMMA LinkedKeeps ==
  ASSUME IInv, QueuesLinked, NEW u \in Thread, NEW e \in Xstream, Step(u, e)
  PROVE  QueuesLinked'
<1> USE DEF QueuesLinked
<1>1. /\ hq \in [Xstream -> Seq(Thread)] /\ lq \in [Xstream -> Seq(Thread)]
      /\ hList \in Seq(Xstream) /\ lList \in Seq(Xstream)
  BY DEF IInv, TypeOK, TableTypeOK
<1>2. CASE WaitEnqueue(u, e)
  <2>1. CASE hList' = Link(hList, e) /\ hq' = [hq EXCEPT ![e] = Append(@, u)] /\ UNCHANGED <<lList, lq>>
    BY <2>1, <1>1, LinkAdds
  <2>2. CASE lList' = Link(lList, e) /\ lq' = [lq EXCEPT ![e] = Append(@, u)] /\ UNCHANGED <<hList, hq>>
    BY <2>2, <1>1, LinkAdds
  <2> QED BY <1>2, <2>1, <2>2 DEF WaitEnqueue
<1>3. CASE WakeHigh(u)
  <2>1. PICK i \in DOMAIN hList : /\ FirstLive(hList, hq, i)
                                  /\ hList' = Turn(hList, hq, i)
                                  /\ hq' = Pop(hq, hList[i])
                                  /\ UNCHANGED <<lList, lq>>
    BY <1>3 DEF WakeHigh
  <2> QED BY <2>1, <1>1, TurnLinks
<1>4. CASE WakeLow(u)
  <2>1. PICK i \in DOMAIN lList : /\ NoneLive(hList, hq)
                                  /\ FirstLive(lList, lq, i)
                                  /\ hList' = <<>>
                                  /\ lList' = Turn(lList, lq, i)
                                  /\ lq' = Pop(lq, lList[i])
                                  /\ hq' = hq
    BY <1>4 DEF WakeLow
  <2>2. \A f \in Xstream : hq[f] = <<>>
    BY <2>1 DEF NoneLive, Contains
  <2>3. IsInjective(<<>>)
    BY DEF IsInjective
  <2> QED BY <2>1, <2>2, <2>3, <1>1, TurnLinks
<1>5. CASE WakeNone(u, e)
  <2>1. \A f \in Xstream : hq[f] = <<>> /\ lq[f] = <<>>
    BY <1>5 DEF WakeNone, NoneLive, Contains
  <2>2. IsInjective(<<>>)
    BY DEF IsInjective
  <2>3. hList' \in {hList, <<>>} /\ lList' \in {lList, <<>>} /\ hq' = hq /\ lq' = lq
    BY <1>5 DEF WakeNone
  <2> QED BY <2>1, <2>2, <2>3
<1>6. CASE SePop(u, e) \/ SePopLow(u, e) \/ LowSwap(u, e)
  <2>1. UNCHANGED <<hList, lList>>
    BY <1>6 DEF SePop, SePopLow, LowSwap
  <2>2. \A f \in Xstream : (hq'[f] # <<>> => hq[f] # <<>>) /\ (lq'[f] # <<>> => lq[f] # <<>>)
    BY <1>1, <1>6 DEF SePop, SePopLow, LowSwap
  <2> QED BY <2>1, <2>2
<1>7. CASE ~(\/ WaitEnqueue(u, e) \/ WakePop(u, e) \/ SePop(u, e) \/ SePopLow(u, e)
             \/ LowSwap(u, e))
  <2>1. CASE Acquire(u, e)
    BY <1>7, <2>1 DEF Acquire, Lock, LockLow, LowCas, CasLock, LowSwitch, Spinlock, Trylock, Xchg,
         WaitCheck, WaitSuspend, TakeHandover, mutexVars, tableVars
  <2>2. CASE Release(u, e)
    BY <1>7, <2>2 DEF Release, Unlock, StoreZero, WakeReady, WakeDec, UnlockSe, SeCheck,
         SeLow, SeGive, SeSwitch, SeReturn, SeYield, mutexVars, tableVars
  <2>3. CASE YieldInCS(u, e) \/ Terminate(u, e)
    BY <2>3 DEF YieldInCS, Terminate, mutexVars, tableVars
  <2> QED BY <2>1, <2>2, <2>3 DEF Step
<1> QED
  BY <1>2, <1>3, <1>4, <1>5, <1>6, <1>7 DEF WakePop

\* Every step keeps the queues that hold ULTs in the lists.
LEMMA NextLinked == IInv /\ QueuesLinked /\ [Next]_vars => QueuesLinked'
<1> SUFFICES ASSUME IInv, QueuesLinked, [Next]_vars PROVE QueuesLinked'
  OBVIOUS
<1>1. ASSUME NEW e \in Xstream, NEW u \in Thread, Step(u, e) PROVE QueuesLinked'
  BY <1>1, LinkedKeeps
<1>2. CASE UNCHANGED tableVars
  BY <1>2 DEF tableVars, QueuesLinked
<1> QED
  BY <1>1, <1>2 DEF Next, Sched, vars, mutexVars

\* Every queue that holds a ULT is in the list of its level, where wake_de looks for it,
\* and none is there twice: a take of the last ULT unlinks the queue of that ULT only.
THEOREM MutexQueuesLinked == Spec => []QueuesLinked
<1>1. Init => QueuesLinked
  BY DEF Init, QueuesLinked, IsInjective
<1> QED
  BY <1>1, InitInv, NextKeeps, NextLinked, PTL DEF Spec

(***************************************************************************)
(* No waiter is forgotten.                                                 *)
(***************************************************************************)

\* Where a ULT is on its way to wake somebody, or to set the lock word to 2.
HurryPC == {"xchg", "store0", "wake", "set_ready", "se_check", "se_pop", "se_low",
            "se_pop_low", "se_give"}
Hurries(u) == pc[u] \in HurryPC \/ (pc[u] = "resume" /\ ~Waiting(u))

\* Somebody waits, or is about to enter a queue.
Needed == \E u \in Thread : Waiting(u) \/ pc[u] = "enqueue"
\* The next owner, or somebody else, will look at the queues.
Promised == val = 2 \/ handover # NoThread \/ \E u \in Thread : Hurries(u)

\* A ULT that enters a queue holds the lock of the table since it has read the lock word.
WakeInv ==
  /\ \A u \in Thread : pc[u] = "enqueue" => htLock = u
  /\ Needed => Promised

\* A step after which its ULT is at l, somebody keeps the promise, and nobody but this
\* ULT has begun to wait.
Promises(u, l) ==
  /\ Goto(u, l) /\ l \in PC
  /\ \A w \in Thread : w # u => (Waiting(w)' => Waiting(w))
  /\ \/ l \in HurryPC
     \/ val' = 2
     \/ handover' # NoThread
     \/ \E w \in Thread : w # u /\ pc[w] = "resume" /\ ~Waiting(w)'
     \/ \A w \in Thread : ~Waiting(w)' /\ pc'[w] # "enqueue"
     \/ /\ pc[u] \notin HurryPC \cup {"resume"}
        /\ val # 2 /\ handover' = handover
        /\ (Waiting(u)' => Waiting(u) \/ pc[u] = "enqueue") /\ l # "enqueue"

\* Such a step leaves somebody to look at the queues.
LEMMA PromiseKept ==
  ASSUME IInv, Needed => Promised, NEW u \in Thread, NEW l, Promises(u, l)
  PROVE  (Needed => Promised)'
<1>1. /\ l \in PC /\ Goto(u, l) /\ pc'[u] = l /\ \A v \in Thread : v # u => pc'[v] = pc[v]
      /\ \A w \in Thread : w # u => (Waiting(w)' => Waiting(w))
  BY GotoType, Types DEF Promises
<1>2. CASE l \in HurryPC
  BY <1>1, <1>2 DEF Promised, Hurries
<1>3. CASE val' = 2 \/ handover' # NoThread
  BY <1>3 DEF Promised
<1>4. CASE \E w \in Thread : w # u /\ pc[w] = "resume" /\ ~Waiting(w)'
  BY <1>1, <1>4 DEF Promised, Hurries
<1>5. CASE \A w \in Thread : ~Waiting(w)' /\ pc'[w] # "enqueue"
  BY <1>5 DEF Needed
<1>6. CASE /\ pc[u] \notin HurryPC \cup {"resume"}
           /\ val # 2 /\ handover' = handover
           /\ (Waiting(u)' => Waiting(u) \/ pc[u] = "enqueue") /\ l # "enqueue"
  <2> SUFFICES ASSUME Needed' PROVE Promised'
    OBVIOUS
  <2>1. Needed
    BY <1>1, <1>6 DEF Needed
  <2>2. handover # NoThread \/ \E w \in Thread : Hurries(w)
    BY <2>1, <1>6 DEF Promised
  <2>3. CASE handover # NoThread BY <2>3, <1>6 DEF Promised
  <2>4. CASE \E w \in Thread : Hurries(w)
    <3>1. PICK w \in Thread : Hurries(w)
      BY <2>4
    <3>2. w # u
      BY <3>1, <1>6 DEF Hurries
    <3>3. Hurries(w)'
      BY <3>1, <3>2, <1>1 DEF Hurries
    <3> QED BY <3>3 DEF Promised
  <2> QED BY <2>2, <2>3, <2>4
<1> QED
  BY <1>2, <1>3, <1>4, <1>5, <1>6 DEF Promises

\* What the queues tell of who waits.
LEMMA WaitingWaits == \A u \in Thread : Waiting(u) <=> \E e \in Xstream : Waits(u, e)
BY DEF Waiting, Waits

\* A step that leaves the queues and p_handover alone, and does not lower a lock word of 2.
LEMMA PromiseIdle ==
  ASSUME NEW u \in Thread, NEW l \in PC, Goto(u, l), UNCHANGED <<hq, lq>>,
         \/ l \in HurryPC
         \/ val' = 2
         \/ /\ pc[u] \notin HurryPC \cup {"resume"} /\ l # "enqueue"
            /\ val # 2 /\ handover' = handover
  PROVE  Promises(u, l)
<1>1. \A w \in Thread : Waiting(w)' <=> Waiting(w)
  BY DEF Waiting
<1> QED
  BY <1>1 DEF Promises

\* The lock operations keep the promise.
LEMMA AcquirePromises ==
  ASSUME IInv, PlacesInv, NEW u \in Thread, NEW e \in Xstream, On(u, e), Acquire(u, e)
  PROVE  \E l \in PC : Promises(u, l)
<1>0. val \in 0 .. 2
  BY DEF IInv, TypeOK, WordTypeOK
<1> USE <1>0 DEF CasLock, PC, HurryPC, mutexVars, tableVars
<1>1. CASE Lock(u)
  BY <1>1, PromiseIdle DEF Lock
<1>2. CASE LockLow(u, e)
  BY <1>2, PromiseIdle DEF LockLow
<1>3. CASE LowCas(u)
  BY <1>3, PromiseIdle DEF LowCas
<1>4. CASE LowSwap(u, e)
  <2>1. CASE lq[e] = <<>>
    BY <1>4, <2>1, PromiseIdle DEF LowSwap
  <2>2. CASE lq[e] # <<>>
    <3>1. /\ pc[u] = "low_try" /\ Goto(u, "low_switch") /\ hq' = hq
          /\ lq' = [lq EXCEPT ![e] = Append(Tail(@), u)]
      BY <1>4, <2>2 DEF LowSwap
    <3>2. running[e] = u /\ \A g \in Xstream : ~Waits(u, g)
      BY <3>1, OnES
    <3>3. /\ Head(lq[e]) \in Thread /\ Waits(Head(lq[e]), e)
          /\ \A v \in Thread, g \in Xstream :
               Waits(v, g)' <=> (Waits(v, g) /\ v # Head(lq[e])) \/ (v = u /\ g = e)
      BY <2>2, <3>1, <3>2, SwapMoves
    <3>4. PICK t : t = Head(lq[e])
      OBVIOUS
    <3>5. t # u /\ pc[t] = "resume" /\ \A g \in Xstream : ~Waits(t, g)'
      BY <3>2, <3>3, <3>4, Waiter
    <3>6. /\ ~Waiting(t)'
          /\ \A w \in Thread : w # u => (Waiting(w)' => Waiting(w))
      BY <3>3, <3>4, <3>5 DEF Waiting, Waits
    <3>7. Promises(u, "low_switch")
      BY <3>1, <3>3, <3>4, <3>5, <3>6 DEF Promises
    <3> QED BY <3>7
  <2> QED BY <2>1, <2>2
<1>5. CASE LowSwitch(u, e)
  BY <1>5, PromiseIdle DEF LowSwitch
<1>6. CASE Spinlock(u)
  BY <1>6, PromiseIdle DEF Spinlock
<1>7. CASE Trylock(u)
  <2>1. CASE val = 0
    BY <1>7, <2>1, PromiseIdle DEF Trylock
  <2>2. CASE val # 0
    <3>1. Goto(u, "start")
      BY <1>7, <2>2, Types DEF Trylock, Goto
    <3> QED BY <1>7, <2>2, <3>1, PromiseIdle DEF Trylock
  <2> QED BY <2>1, <2>2
<1>8. CASE Xchg(u)
  BY <1>8, PromiseIdle DEF Xchg
<1>9. CASE WaitCheck(u)
  BY <1>9, PromiseIdle DEF WaitCheck
<1>10. CASE WaitEnqueue(u, e)
  <2>1. /\ pc[u] = "enqueue" /\ Goto(u, "suspend") /\ UNCHANGED <<val, handover>>
        /\ \/ hq' = [hq EXCEPT ![e] = Append(@, u)] /\ lq' = lq
           \/ lq' = [lq EXCEPT ![e] = Append(@, u)] /\ hq' = hq
    BY <1>10 DEF WaitEnqueue
  <2>2. \A g \in Xstream : ~Waits(u, g)
    BY <2>1, OnES
  <2>3. \A v \in Thread, g \in Xstream : Waits(v, g)' <=> Waits(v, g) \/ (v = u /\ g = e)
    BY <2>1, <2>2, EnqueueAdds
  <2>4. \A w \in Thread : w # u => (Waiting(w)' => Waiting(w))
    BY <2>3 DEF Waiting, Waits
  <2>5. Promises(u, "suspend")
    BY <2>1, <2>4 DEF Promises
  <2> QED BY <2>5
<1>11. CASE WaitSuspend(u, e)
  BY <1>11, PromiseIdle DEF WaitSuspend
<1>12. CASE TakeHandover(u)
  BY <1>12, PromiseIdle DEF TakeHandover
<1> QED
  BY <1>1, <1>2, <1>3, <1>4, <1>5, <1>6, <1>7, <1>8, <1>9, <1>10, <1>11, <1>12 DEF Acquire

\* Whoever has been pushed competes for the mutex, or has passed its place on to a ULT
\* that does.
LEMMA WakeReadyPromises ==
  ASSUME IInv, PlacesInv, NEW u \in Thread, NEW e \in Xstream, On(u, e), WakeReady(u)
  PROVE  Promises(u, "dec_blocked")
<1>1. PICK t : t = target[u]
  OBVIOUS
<1>2. /\ pc[u] = "set_ready" /\ Goto(u, "dec_blocked") /\ "BLOCK" \notin request[t]
      /\ UNCHANGED <<hq, lq>> /\ "dec_blocked" \in PC
  BY <1>1 DEF WakeReady, CanSetReady, mutexVars, tableVars, PC
<1>3. \A w \in Thread : Waiting(w)' <=> Waiting(w)
  BY <1>2 DEF Waiting
<1>4. t \in Thread /\ state[t] = "BLOCKED" /\ ~Waiting(t) /\ t # NoThread
  <2>1. pc[u] \in WakePC /\ t \in Thread
    BY <1>1, <1>2, Types DEF WakePC
  <2> QED BY <2>1, <1>1, Types DEF PlacesInv, TargetOK, Waiting, Waits
<1>5. pc[t] \in {"resume", "low_switch"}
  <2>1. pc[t] \in {"suspend", "resume", "low_switch"}
    BY <1>4 DEF PlacesInv, PlaceOK
  <2>2. ASSUME pc[t] = "suspend" PROVE FALSE
    <3>1. PICK f \in Xstream : running[f] = t
      BY <1>4, <2>2 DEF PlacesInv, PlaceOK, On
    <3> QED BY <3>1, <2>2, <1>2, <1>4 DEF PlacesInv, RunOK
  <2> QED BY <2>1, <2>2
<1>6. CASE pc[t] = "resume"
  BY <1>2, <1>3, <1>4, <1>6 DEF Promises
<1>7. CASE pc[t] = "low_switch"
  <2>1. PICK r : r = target[t]
    OBVIOUS
  <2>2. pc[t] \in WakePC /\ pc[t] # "set_ready" /\ r \in Thread
    BY <1>4, <1>7, <2>1, Types DEF WakePC, SwitchPC
  <2>3. pc[r] = "resume" /\ ~Waiting(r)
    BY <1>4, <2>1, <2>2 DEF PlacesInv, TargetOK, Waiting, Waits
  <2> QED BY <2>2, <2>3, <1>2, <1>3 DEF Promises
<1> QED
  BY <1>5, <1>6, <1>7

\* The unlock operations keep the promise, and so does everything else a ULT does.
LEMMA ReleasePromises ==
  ASSUME IInv, PlacesInv, QueuesLinked, \A v \in Thread : pc[v] = "enqueue" => htLock = v,
         NEW u \in Thread, NEW e \in Xstream, On(u, e),
         Release(u, e) \/ YieldInCS(u, e) \/ Terminate(u, e)
  PROVE  \E l \in PC : Promises(u, l)
<1>0. val \in 0 .. 2 /\ handover \in Thread \cup {NoThread}
  BY DEF IInv, TypeOK, WordTypeOK
<1> USE <1>0 DEF WakeOver, PC, HurryPC, mutexVars, tableVars
<1>1. CASE Unlock(u)
  BY <1>1, PromiseIdle DEF Unlock
<1>2. CASE StoreZero(u)
  BY <1>2, PromiseIdle DEF StoreZero
<1>3. CASE WakePop(u, e) /\ WakeNone(u, e)
  <2>1. PICK l \in PC : Goto(u, l) /\ l # "enqueue"
    BY <1>3 DEF WakeNone
  <2>2. htLock = NoThread /\ pc[u] = "wake" /\ hq' = hq /\ lq' = lq
    BY <1>3 DEF WakePop, WakeNone
  <2>3. \A f \in Xstream : hq[f] = <<>> /\ lq[f] = <<>>
    BY <1>3 DEF WakeNone, NoneLive, Contains, QueuesLinked
  <2>4. \A w \in Thread : ~Waiting(w)'
    BY <2>2, <2>3 DEF Waiting, Contains
  <2>5. \A w \in Thread : pc'[w] # "enqueue"
    BY <2>1, <2>2, Types DEF Goto
  <2> QED BY <2>1, <2>4, <2>5 DEF Promises
<1>4. CASE \/ WakePop(u, e) /\ (WakeHigh(u) \/ WakeLow(u))
           \/ SePop(u, e) /\ hq[e] # <<>>
           \/ SePopLow(u, e) /\ lq[e] # <<>>
  <2>1. PICK f \in Xstream : \E t : \E l \in {"set_ready", "se_give"} : Taking(u, e, f, t, l)
    BY <1>4, Takers
  <2>2. PICK t : \E l \in {"set_ready", "se_give"} : Taking(u, e, f, t, l)
    BY <2>1
  <2>3. PICK l \in {"set_ready", "se_give"} : Taking(u, e, f, t, l)
    BY <2>2
  <2>4. \A v \in Thread, g \in Xstream : Waits(v, g)' <=> Waits(v, g) /\ v # t
    BY <2>3, DequeueRemoves DEF Taking
  <2>5. \A w \in Thread : Waiting(w)' => Waiting(w)
    BY <2>4 DEF Waiting, Waits
  <2> QED BY <2>5, <2>3 DEF Promises, Taking
<1>5. CASE WakeReady(u)
  BY <1>5, WakeReadyPromises
<1>6. CASE WakeDec(u, e)
  BY <1>6, PromiseIdle DEF WakeDec
<1>7. CASE UnlockSe(u)
  BY <1>7, PromiseIdle DEF UnlockSe
<1>8. CASE SeCheck(u, e)
  BY <1>8, PromiseIdle DEF SeCheck
<1>9. CASE SePop(u, e) /\ hq[e] = <<>>
  BY <1>9, PromiseIdle DEF SePop
<1>10. CASE SeLow(u, e)
  BY <1>10, PromiseIdle DEF SeLow
<1>11. CASE SePopLow(u, e) /\ lq[e] = <<>>
  BY <1>11, PromiseIdle DEF SePopLow
<1>12. CASE SeGive(u, e)
  <2>1. handover' # NoThread /\ Goto(u, "se_switch") /\ UNCHANGED <<hq, lq>>
    BY <1>12, Types DEF SeGive, WakePC, SwitchPC
  <2>2. \A w \in Thread : Waiting(w)' <=> Waiting(w)
    BY <2>1 DEF Waiting
  <2>3. Promises(u, "se_switch")
    BY <2>1, <2>2 DEF Promises
  <2> QED BY <2>3
<1>13. CASE SeSwitch(u, e)
  BY <1>13, PromiseIdle DEF SeSwitch
<1>14. CASE SeReturn(u)
  BY <1>14, PromiseIdle DEF SeReturn
<1>15. CASE SeYield(u, e)
  BY <1>15, PromiseIdle DEF SeYield
<1>16. CASE YieldInCS(u, e)
  BY <1>16, PromiseIdle DEF YieldInCS
<1>17. CASE Terminate(u, e)
  BY <1>17, PromiseIdle DEF Terminate
<1> QED
  BY <1>1, <1>2, <1>3, <1>4, <1>5, <1>6, <1>7, <1>8, <1>9, <1>10, <1>11, <1>12, <1>13,
     <1>14, <1>15, <1>16, <1>17 DEF Release, WakePop

\* The lock of the table is held from the reading of the lock word to the entering of
\* the queue.
LEMMA TableLocked ==
  ASSUME IInv, \A v \in Thread : pc[v] = "enqueue" => htLock = v,
         NEW u \in Thread, NEW e \in Xstream, Step(u, e)
  PROVE  \A v \in Thread : pc'[v] = "enqueue" => htLock' = v
<1>0. PICK h : h = htLock
  OBVIOUS
<1> USE Types, <1>0 DEF Goto, CasLock, WakeOver, Woken, PC, mutexVars, tableVars
<1>1. CASE WaitCheck(u)
  BY <1>1 DEF WaitCheck
<1>2. CASE WaitEnqueue(u, e)
  BY <1>2 DEF WaitEnqueue
<1>3. CASE Acquire(u, e) /\ ~WaitCheck(u) /\ ~WaitEnqueue(u, e)
  BY <1>3 DEF Acquire, Lock, LockLow, LowCas, LowSwap, LowSwitch, Spinlock, Trylock, Xchg,
     WaitSuspend, TakeHandover
<1>4. CASE Release(u, e)
  BY <1>4 DEF Release, Unlock, StoreZero, WakePop, WakeHigh, WakeLow, WakeNone, WakeReady,
     WakeDec, UnlockSe, SeCheck, SePop, SeLow, SePopLow, SeGive, SeSwitch, SeReturn, SeYield
<1>5. CASE YieldInCS(u, e) \/ Terminate(u, e)
  BY <1>5 DEF YieldInCS, Terminate
<1> QED
  BY <1>1, <1>2, <1>3, <1>4, <1>5 DEF Step

\* Every step keeps the promise.
LEMMA NextPromises == IInv /\ PlacesInv /\ QueuesLinked /\ WakeInv /\ [Next]_vars => WakeInv'
<1> SUFFICES ASSUME IInv, PlacesInv, QueuesLinked, WakeInv, [Next]_vars PROVE WakeInv'
  OBVIOUS
<1>1. ASSUME NEW e \in Xstream, NEW u \in Thread, Step(u, e) PROVE WakeInv'
  <2>1. \A v \in Thread : pc'[v] = "enqueue" => htLock' = v
    BY <1>1, TableLocked DEF WakeInv
  <2>2. \E l \in PC : Promises(u, l)
    BY <1>1, AcquirePromises, ReleasePromises DEF Step, WakeInv
  <2>3. (Needed => Promised)'
    BY <2>2, PromiseKept DEF WakeInv
  <2> QED BY <2>1, <2>3 DEF WakeInv
<1>2. CASE UNCHANGED <<mutexVars, localVars>>
  BY <1>2 DEF mutexVars, tableVars, localVars, WakeInv, Needed, Promised, Hurries, Waiting
<1> QED
  BY <1>1, <1>2 DEF Next, Sched, vars

\* While ULTs wait for the mutex, the lock word is 2 or somebody is about to look at the
\* queues, so that no execution forgets them.
THEOREM MutexNoLostWakeup == LowPrivate => (Spec => []NoLostWakeup)
<1> SUFFICES ASSUME LowPrivate PROVE Spec => []NoLostWakeup
  OBVIOUS
<1>1. Init => WakeInv
  BY DEF Init, WakeInv, Needed, Waiting, Contains
<1>2. Init => QueuesLinked
  BY DEF Init, QueuesLinked, IsInjective
<1>3. WakeInv => NoLostWakeup
  BY DEF WakeInv, NoLostWakeup, Needed, Promised, Hurries, HurryPC
<1> QED
  BY <1>1, <1>2, <1>3, InitInv, InitPlaces, NextKeeps, NextPlaces, NextLinked, NextPromises,
     PTL DEF Spec

(***************************************************************************)
(* The count of blocked ULTs.                                              *)
(***************************************************************************)

\* The sets that the count of a pool is about.
BlockedIn(p) == {u \in Thread : state[u] = "BLOCKED" /\ HomePool[u] = p}
SwitchIn(p) == {u \in Thread : pc[u] = "low_switch" /\ HomePool[u] = p}
LateIn(p) == {w \in Thread : pc[w] = "dec_blocked" /\ HomePool[target[w]] = p}

CountInv ==
  /\ numBlocked \in [Pool -> Int]
  /\ \A p \in Pool :
       numBlocked[p] + Cardinality(SwitchIn(p)) = Cardinality(BlockedIn(p)) + Cardinality(LateIn(p))

\* Only ULTs that lock with low priority are in the low-priority queues, and are
\* switched to from there.
LowOK ==
  \A u \in Thread :
    /\ prio[u] = "low" => Low(u)
    /\ \A e \in Xstream : Contains(lq[e], u) => Low(u)
    /\ pc[u] = "low_switch" => Low(target[u])

\* A step that neither blocks nor wakes.
SameBlocked ==
  /\ numBlocked' = numBlocked
  /\ \A v \in Thread : /\ state'[v] = "BLOCKED" <=> state[v] = "BLOCKED"
                       /\ pc'[v] = "low_switch" <=> pc[v] = "low_switch"
                       /\ pc'[v] = "dec_blocked" <=> pc[v] = "dec_blocked"
                       /\ pc[v] = "dec_blocked" => target'[v] = target[v]

\* It keeps the counts.
LEMMA SameCounts ==
  ASSUME CountInv, SameBlocked
  PROVE  CountInv'
<1>1. ASSUME NEW p \in Pool
      PROVE  /\ BlockedIn(p)' = BlockedIn(p) /\ SwitchIn(p)' = SwitchIn(p)
             /\ LateIn(p)' = LateIn(p)
  BY DEF SameBlocked, BlockedIn, SwitchIn, LateIn
<1>2. numBlocked' = numBlocked
  BY DEF SameBlocked
<1> QED
  BY <1>1, <1>2 DEF CountInv

\* The steps of the lock operations that change none of the sets.
LEMMA AcquireSame ==
  ASSUME IInv, PlacesInv, NEW u \in Thread, NEW e \in Xstream, On(u, e), Acquire(u, e),
         ~WaitEnqueue(u, e), ~(LowSwap(u, e) /\ lq[e] # <<>>), ~LowSwitch(u, e)
  PROVE  SameBlocked
<1> USE Types DEF Goto, CasLock, SameBlocked, threadVars
<1>1. CASE TakeHandover(u) /\ handover = u
  <2>1. PICK g : g = giver
    OBVIOUS
  <2>2. /\ pc[u] = "resume" /\ Goto(u, "cs") /\ state' = [state EXCEPT ![g] = "READY"]
        /\ numBlocked' = numBlocked /\ target' = target
    BY <1>1, <2>1 DEF TakeHandover, MakeReady
  <2>3. state[u] = "RUNNING" /\ Runs(u)
    BY <2>2, OnES
  <2>4. g \in Thread /\ state[g] = "RUNNING"
    <3>1. g \in Thread /\ handover # NoThread
      BY <1>1, <2>1
    <3>2. pc[g] # "se_switch"
      <4>1. pc[g] = "se_switch" => target[g] = u
        BY <1>1, <3>1 DEF PlacesInv, GiverOK
      <4> QED BY <4>1, <2>3, <3>1 DEF PlacesInv, TargetOK, WakePC, SwitchPC
    <3> QED BY <3>1, <3>2, <2>1 DEF PlacesInv, GiverOK
  <2> QED BY <2>2, <2>4
<1>2. CASE \/ Lock(u) \/ LockLow(u, e) \/ LowCas(u) \/ Spinlock(u) \/ Trylock(u) \/ Xchg(u)
           \/ WaitCheck(u)
           \/ TakeHandover(u) /\ handover # u
  BY <1>2 DEF Lock, LockLow, LowCas, Spinlock, Trylock, Xchg, WaitCheck, TakeHandover
<1>3. CASE LowSwap(u, e) /\ lq[e] = <<>>
  BY <1>3 DEF LowSwap
<1>4. CASE WaitSuspend(u, e)
  BY <1>4 DEF WaitSuspend
<1> QED
  BY <1>1, <1>2, <1>3, <1>4 DEF Acquire

\* The steps of the unlock operations that change none of them, and of the program.
LEMMA ReleaseSame ==
  ASSUME IInv, PlacesInv, NEW u \in Thread, NEW e \in Xstream, On(u, e),
         Release(u, e) \/ YieldInCS(u, e) \/ Terminate(u, e),
         ~WakeReady(u), ~WakeDec(u, e), ~SeSwitch(u, e)
  PROVE  SameBlocked
<1> USE Types DEF Goto, WakeOver, Woken, SameBlocked, threadVars
<1>1. CASE SeYield(u, e) \/ YieldInCS(u, e)
  <2>1. pc[u] \in {"se_yield", "cs"}
    BY <1>1 DEF SeYield, YieldInCS
  <2>2. state[u] = "RUNNING"
    BY <2>1, OnES
  <2> QED BY <1>1, <2>1, <2>2 DEF SeYield, YieldInCS, YieldThread
<1>2. CASE WakePop(u, e)
  BY <1>2 DEF WakePop, WakeHigh, WakeLow, WakeNone
<1>3. CASE Unlock(u) \/ StoreZero(u) \/ UnlockSe(u) \/ SeCheck(u, e) \/ SeLow(u, e)
  BY <1>3 DEF Unlock, StoreZero, UnlockSe, SeCheck, SeLow
<1>4. CASE SePop(u, e) \/ SePopLow(u, e) \/ SeGive(u, e) \/ SeReturn(u) \/ Terminate(u, e)
  BY <1>4 DEF SePop, SePopLow, SeGive, SeReturn, Terminate
<1> QED
  BY <1>1, <1>2, <1>3, <1>4 DEF Release

\* The scheduler takes note of a blocked ULT, but neither blocks nor wakes one.
LEMMA SchedSame ==
  ASSUME IInv, PlacesInv, NEW e \in Xstream, Sched(e)
  PROVE  SameBlocked
<1>1. UNCHANGED <<pc, target>> /\ numBlocked' = numBlocked
  BY DEF Sched, localVars, Scheduler, SchedRun, ReturnTerminated, ReturnYielded, ReturnBlocked
<1>2. \A v \in Thread : state'[v] = "BLOCKED" <=> state[v] = "BLOCKED"
  <2>1. CASE SchedRun(e)
    <3>1. PICK p \in Pool : pool[p] # <<>> /\ state' = [state EXCEPT ![Head(pool[p])] = "RUNNING"]
      BY <2>1 DEF SchedRun, NextPool
    <3>2. Head(pool[p]) \in Thread /\ InPool(Head(pool[p]))
      <4>1. pool[p] \in Seq(Thread) /\ Head(pool[p]) \in Thread /\ Head(pool[p]) = pool[p][1]
            /\ 1 \in DOMAIN pool[p]
        BY <3>1, Types, HeadTailProperties, LenProperties, EmptySeq
      <4> QED BY <4>1 DEF InPool
    <3>3. state[Head(pool[p])] = "READY"
      BY <3>2 DEF PlacesInv, PoolOK
    <3> QED BY <3>1, <3>2, <3>3, Types
  <2>2. CASE ReturnTerminated(e) \/ ReturnYielded(e)
    <3>1. PICK u : u = running[e]
      OBVIOUS
    <3>2. u \in Thread /\ phase[e] = "ret"
      BY <2>2, <3>1, Types DEF ReturnTerminated, ReturnYielded, GoesOn
    <3>3. state[u] # "BLOCKED"
      <4>1. state[u] = "BLOCKED" => "BLOCK" \in request[u]
        BY <3>1, <3>2, Returned
      <4>2. request[u] \cap Stop # {} => state[u] # "BLOCKED"
        BY <3>2 DEF PlacesInv, ReqOK
      <4> QED BY <4>1, <4>2, <2>2, <3>1 DEF ReturnTerminated, ReturnYielded, NonYield
    <3>4. state' = [state EXCEPT ![u] = "TERMINATED"] \/ state' = [state EXCEPT ![u] = "READY"]
      BY <2>2, <3>1 DEF ReturnTerminated, ReturnYielded, MakeReady
    <3> QED BY <3>2, <3>3, <3>4, Types
  <2>3. CASE ReturnBlocked(e)
    BY <2>3 DEF ReturnBlocked
  <2> QED BY <2>1, <2>2, <2>3 DEF Sched, Scheduler
<1> QED
  BY <1>1, <1>2 DEF SameBlocked

\* What the counts of a pool are before a step.
LEMMA CountSets ==
  ASSUME CountInv, NEW p \in Pool
  PROVE  /\ SwitchIn(p) \in SUBSET Thread /\ Cardinality(SwitchIn(p)) \in Nat
         /\ BlockedIn(p) \in SUBSET Thread /\ Cardinality(BlockedIn(p)) \in Nat
         /\ LateIn(p) \in SUBSET Thread /\ Cardinality(LateIn(p)) \in Nat
         /\ numBlocked[p] \in Int
         /\ numBlocked[p] + Cardinality(SwitchIn(p)) = Cardinality(BlockedIn(p)) + Cardinality(LateIn(p))
<1>1. /\ BlockedIn(p) \in SUBSET Thread /\ SwitchIn(p) \in SUBSET Thread
      /\ LateIn(p) \in SUBSET Thread
  BY DEF BlockedIn, SwitchIn, LateIn
<1>2. \A S \in SUBSET Thread : Cardinality(S) \in Nat
  BY ThreadsAssumption, FS_Subset, FS_CardinalityType
<1> QED
  BY <1>1, <1>2 DEF CountInv

\* A waiter blocks and is counted.
LEMMA WaitEnqueueCounts ==
  ASSUME IInv, PlacesInv, CountInv, NEW u \in Thread, NEW e \in Xstream, On(u, e),
         WaitEnqueue(u, e)
  PROVE  CountInv'
<1>1. /\ pc[u] = "enqueue" /\ pc' = [pc EXCEPT ![u] = "suspend"] /\ target' = target
      /\ state' = [state EXCEPT ![u] = "BLOCKED"]
      /\ numBlocked' = [numBlocked EXCEPT ![HomePool[u]] = @ + 1]
  BY DEF WaitEnqueue, SetBlocked, Goto
<1>2. state[u] = "RUNNING" /\ HomePool[u] \in Pool
  BY <1>1, OnES, ThreadsAssumption
<1>3. ASSUME NEW p \in Pool
      PROVE  numBlocked'[p] + Cardinality(SwitchIn(p)')
               = Cardinality(BlockedIn(p)') + Cardinality(LateIn(p)')
  <2> DEFINE c == HomePool[u] = p
  <2>1. SwitchIn(p)' = SwitchIn(p) /\ LateIn(p)' = LateIn(p)
    BY <1>1, Types DEF SwitchIn, LateIn
  <2>2. BlockedIn(p)' = (IF c THEN BlockedIn(p) \cup {u} ELSE BlockedIn(p)) /\ u \notin BlockedIn(p)
    BY <1>1, <1>2, Types DEF BlockedIn
  <2>3. numBlocked'[p] = numBlocked[p] + (IF c THEN 1 ELSE 0)
    BY <1>1, <1>2 DEF CountInv
  <2>4. Cardinality(BlockedIn(p)') = Cardinality(BlockedIn(p)) + (IF c THEN 1 ELSE 0)
    BY <2>2, CountSets, CountNext
  <2> QED BY <2>1, <2>3, <2>4, CountSets
<1> QED
  BY <1>1, <1>2, <1>3 DEF CountInv

\* A ULT that takes the place of a waiter blocks and is not counted.
LEMMA LowSwapCounts ==
  ASSUME IInv, PlacesInv, CountInv, NEW u \in Thread, NEW e \in Xstream, On(u, e),
         LowSwap(u, e), lq[e] # <<>>
  PROVE  CountInv'
<1>1. /\ pc[u] = "low_try" /\ pc' = [pc EXCEPT ![u] = "low_switch"]
      /\ state' = [state EXCEPT ![u] = "BLOCKED"]
      /\ numBlocked' = numBlocked
      /\ \A w \in Thread : w # u => target'[w] = target[w]
  BY Types DEF LowSwap, Goto
<1>2. state[u] = "RUNNING" /\ HomePool[u] \in Pool
  BY <1>1, OnES, ThreadsAssumption
<1>3. ASSUME NEW p \in Pool
      PROVE  numBlocked[p] + Cardinality(SwitchIn(p)')
               = Cardinality(BlockedIn(p)') + Cardinality(LateIn(p)')
  <2> DEFINE c == HomePool[u] = p
  <2>1. LateIn(p)' = LateIn(p)
    BY <1>1, Types DEF LateIn
  <2>2. BlockedIn(p)' = (IF c THEN BlockedIn(p) \cup {u} ELSE BlockedIn(p)) /\ u \notin BlockedIn(p)
    BY <1>1, <1>2, Types DEF BlockedIn
  <2>3. SwitchIn(p)' = (IF c THEN SwitchIn(p) \cup {u} ELSE SwitchIn(p)) /\ u \notin SwitchIn(p)
    BY <1>1, Types DEF SwitchIn
  <2>4. Cardinality(BlockedIn(p)') = Cardinality(BlockedIn(p)) + (IF c THEN 1 ELSE 0)
    BY <2>2, CountSets, CountNext
  <2>5. Cardinality(SwitchIn(p)') = Cardinality(SwitchIn(p)) + (IF c THEN 1 ELSE 0)
    BY <2>3, CountSets, CountNext
  <2> QED BY <2>1, <2>4, <2>5, CountSets
<1> QED
  BY <1>1, <1>3 DEF CountInv

\* It leaves that count to the one it switches to, which is of the same pool.
LEMMA LowSwitchCounts ==
  ASSUME LowOnePool, IInv, PlacesInv, LowOK, CountInv, NEW u \in Thread, NEW e \in Xstream,
         On(u, e), LowSwitch(u, e)
  PROVE  CountInv'
<1>1. PICK t : t = target[u]
  OBVIOUS
<1>2. /\ pc[u] = "low_switch" /\ pc' = [pc EXCEPT ![u] = "resume"]
      /\ state' = [state EXCEPT ![t] = "RUNNING"]
      /\ numBlocked' = numBlocked
      /\ \A w \in Thread : w # u => target'[w] = target[w]
  BY <1>1, Types DEF LowSwitch, Goto
<1>3. pc[u] \in WakePC /\ pc[u] \in SwitchPC /\ t \in Thread
  BY <1>1, <1>2, Types DEF WakePC, SwitchPC
<1>4. state[t] = "BLOCKED"
  BY <1>1, <1>3 DEF PlacesInv, TargetOK
<1>5. HomePool[t] = HomePool[u]
  <2>1. Low(u) /\ Low(t)
    BY <1>1, <1>2 DEF LowOK, PlacesInv, PlaceOK
  <2>2. running[e] = u
    BY DEF On
  <2>3. Serves(e, HomePool[u]) /\ Serves(e, HomePool[t])
    BY <1>1, <1>3, <2>1, <2>2 DEF PlacesInv, ServeOK
  <2> QED BY <2>1, <2>3, <1>3 DEF LowOnePool
<1>6. ASSUME NEW p \in Pool
      PROVE  numBlocked[p] + Cardinality(SwitchIn(p)')
               = Cardinality(BlockedIn(p)') + Cardinality(LateIn(p)')
  <2> DEFINE c == HomePool[u] = p
  <2>1. LateIn(p)' = LateIn(p)
    BY <1>2, Types DEF LateIn
  <2>2. BlockedIn(p)' = (IF c THEN BlockedIn(p) \ {t} ELSE BlockedIn(p)) /\ (c => t \in BlockedIn(p))
    BY <1>2, <1>3, <1>4, <1>5, Types DEF BlockedIn
  <2>3. SwitchIn(p)' = (IF c THEN SwitchIn(p) \ {u} ELSE SwitchIn(p)) /\ (c => u \in SwitchIn(p))
    BY <1>2, Types DEF SwitchIn
  <2>4. Cardinality(BlockedIn(p)') = Cardinality(BlockedIn(p)) - (IF c THEN 1 ELSE 0)
    BY <1>3, <2>2, CountSets, CountNext
  <2>5. Cardinality(SwitchIn(p)') = Cardinality(SwitchIn(p)) - (IF c THEN 1 ELSE 0)
    BY <2>3, CountSets, CountNext
  <2> QED BY <2>1, <2>4, <2>5, CountSets
<1> QED
  BY <1>2, <1>6 DEF CountInv

\* A ULT that is woken stays counted until its waker has counted it out.
LEMMA WakeReadyCounts ==
  ASSUME IInv, PlacesInv, CountInv, NEW u \in Thread, NEW e \in Xstream, On(u, e),
         WakeReady(u)
  PROVE  CountInv'
<1>1. PICK t : t = target[u]
  OBVIOUS
<1>2. /\ pc[u] = "set_ready" /\ pc' = [pc EXCEPT ![u] = "dec_blocked"]
      /\ state' = [state EXCEPT ![t] = "READY"]
      /\ UNCHANGED <<numBlocked, target>>
  BY <1>1 DEF WakeReady, MakeReady, Goto
<1>3. pc[u] \in WakePC /\ t \in Thread
  BY <1>1, <1>2, Types DEF WakePC
<1>4. state[t] = "BLOCKED"
  BY <1>1, <1>3 DEF PlacesInv, TargetOK
<1>5. ASSUME NEW p \in Pool
      PROVE  numBlocked[p] + Cardinality(SwitchIn(p)')
               = Cardinality(BlockedIn(p)') + Cardinality(LateIn(p)')
  <2> DEFINE c == HomePool[t] = p
  <2>1. SwitchIn(p)' = SwitchIn(p)
    BY <1>2, Types DEF SwitchIn
  <2>2. BlockedIn(p)' = (IF c THEN BlockedIn(p) \ {t} ELSE BlockedIn(p)) /\ (c => t \in BlockedIn(p))
    BY <1>2, <1>3, <1>4, Types DEF BlockedIn
  <2>3. LateIn(p)' = (IF c THEN LateIn(p) \cup {u} ELSE LateIn(p)) /\ u \notin LateIn(p)
    BY <1>1, <1>2, Types DEF LateIn
  <2>4. Cardinality(BlockedIn(p)') = Cardinality(BlockedIn(p)) - (IF c THEN 1 ELSE 0)
    BY <1>3, <2>2, CountSets, CountNext
  <2>5. Cardinality(LateIn(p)') = Cardinality(LateIn(p)) + (IF c THEN 1 ELSE 0)
    BY <2>3, CountSets, CountNext
  <2> QED BY <2>1, <2>4, <2>5, CountSets
<1> QED
  BY <1>2, <1>5 DEF CountInv

\* The waker counts the woken ULT out of its pool.
LEMMA WakeDecCounts ==
  ASSUME IInv, CountInv, NEW u \in Thread, NEW e \in Xstream, WakeDec(u, e)
  PROVE  CountInv'
<1>1. PICK t : t = target[u]
  OBVIOUS
<1>2. /\ pc[u] = "dec_blocked" /\ state' = state
      /\ numBlocked' = [numBlocked EXCEPT ![HomePool[t]] = @ - 1]
      /\ \A w \in Thread : w # u => target'[w] = target[w]
      /\ pc'[u] \notin {"dec_blocked", "low_switch"}
      /\ \A w \in Thread : w # u => pc'[w] = pc[w]
  BY <1>1, Types DEF WakeDec, DecNumBlocked, WakeOver, Goto
<1>3. t \in Thread /\ HomePool[t] \in Pool
  BY <1>1, <1>2, Types, ThreadsAssumption
<1>4. ASSUME NEW p \in Pool
      PROVE  numBlocked'[p] + Cardinality(SwitchIn(p)')
               = Cardinality(BlockedIn(p)') + Cardinality(LateIn(p)')
  <2> DEFINE c == HomePool[t] = p
  <2>1. SwitchIn(p)' = SwitchIn(p) /\ BlockedIn(p)' = BlockedIn(p)
    BY <1>2 DEF SwitchIn, BlockedIn
  <2>2. LateIn(p)' = (IF c THEN LateIn(p) \ {u} ELSE LateIn(p)) /\ (c => u \in LateIn(p))
    BY <1>1, <1>2 DEF LateIn
  <2>3. numBlocked'[p] = numBlocked[p] - (IF c THEN 1 ELSE 0)
    BY <1>2, <1>3 DEF CountInv
  <2>4. Cardinality(LateIn(p)') = Cardinality(LateIn(p)) - (IF c THEN 1 ELSE 0)
    BY <2>2, CountSets, CountNext
  <2> QED BY <2>1, <2>3, <2>4, CountSets
<1> QED
  BY <1>2, <1>3, <1>4 DEF CountInv

\* The giver counts the new owner out before it switches to it.
LEMMA SeSwitchCounts ==
  ASSUME IInv, PlacesInv, CountInv, NEW u \in Thread, NEW e \in Xstream, SeSwitch(u, e)
  PROVE  CountInv'
<1>1. PICK t : t = target[u]
  OBVIOUS
<1>2. /\ pc[u] = "se_switch" /\ pc' = [pc EXCEPT ![u] = "given"]
      /\ state' = [state EXCEPT ![t] = "RUNNING"]
      /\ numBlocked' = [numBlocked EXCEPT ![HomePool[t]] = @ - 1]
      /\ \A w \in Thread : w # u => target'[w] = target[w]
  BY <1>1, Types DEF SeSwitch, DecNumBlocked, Goto
<1>3. pc[u] \in WakePC /\ t \in Thread /\ HomePool[t] \in Pool
  BY <1>1, <1>2, Types, ThreadsAssumption DEF WakePC, SwitchPC
<1>4. state[t] = "BLOCKED"
  BY <1>1, <1>3 DEF PlacesInv, TargetOK
<1>5. ASSUME NEW p \in Pool
      PROVE  numBlocked'[p] + Cardinality(SwitchIn(p)')
               = Cardinality(BlockedIn(p)') + Cardinality(LateIn(p)')
  <2> DEFINE c == HomePool[t] = p
  <2>1. SwitchIn(p)' = SwitchIn(p) /\ LateIn(p)' = LateIn(p)
    BY <1>2, Types DEF SwitchIn, LateIn
  <2>2. BlockedIn(p)' = (IF c THEN BlockedIn(p) \ {t} ELSE BlockedIn(p)) /\ (c => t \in BlockedIn(p))
    BY <1>2, <1>3, <1>4, Types DEF BlockedIn
  <2>3. numBlocked'[p] = numBlocked[p] - (IF c THEN 1 ELSE 0)
    BY <1>2, <1>3 DEF CountInv
  <2>4. Cardinality(BlockedIn(p)') = Cardinality(BlockedIn(p)) - (IF c THEN 1 ELSE 0)
    BY <1>3, <2>2, CountSets, CountNext
  <2> QED BY <2>1, <2>3, <2>4, CountSets
<1> QED
  BY <1>2, <1>3, <1>5 DEF CountInv

\* Every step keeps the counts.
LEMMA NextCounts ==
  LowOnePool /\ IInv /\ PlacesInv /\ LowOK /\ CountInv /\ [Next]_vars => CountInv'
<1> SUFFICES ASSUME LowOnePool, IInv, PlacesInv, LowOK, CountInv, [Next]_vars PROVE CountInv'
  OBVIOUS
<1>1. ASSUME NEW e \in Xstream, Sched(e) PROVE CountInv'
  BY <1>1, SchedSame, SameCounts
<1>2. ASSUME NEW e \in Xstream, NEW u \in Thread, Step(u, e) PROVE CountInv'
  <2>1. On(u, e) /\ (Acquire(u, e) \/ Release(u, e) \/ YieldInCS(u, e) \/ Terminate(u, e))
    BY <1>2 DEF Step
  <2>2. CASE WaitEnqueue(u, e) BY <2>1, <2>2, WaitEnqueueCounts
  <2>3. CASE LowSwap(u, e) /\ lq[e] # <<>> BY <2>1, <2>3, LowSwapCounts
  <2>4. CASE LowSwitch(u, e) BY <2>1, <2>4, LowSwitchCounts
  <2>5. CASE WakeReady(u) BY <2>1, <2>5, WakeReadyCounts
  <2>6. CASE WakeDec(u, e) BY <2>6, WakeDecCounts
  <2>7. CASE SeSwitch(u, e) BY <2>7, SeSwitchCounts
  <2>8. CASE ~(\/ WaitEnqueue(u, e) \/ (LowSwap(u, e) /\ lq[e] # <<>>) \/ LowSwitch(u, e)
               \/ WakeReady(u) \/ WakeDec(u, e) \/ SeSwitch(u, e))
    BY <2>1, <2>8, AcquireSame, ReleaseSame, SameCounts
  <2> QED BY <2>2, <2>3, <2>4, <2>5, <2>6, <2>7, <2>8
<1>3. CASE UNCHANGED vars
  BY <1>3, SameCounts DEF vars, threadVars, localVars, SameBlocked
<1> QED
  BY <1>1, <1>2, <1>3 DEF Next

\* Who has low priority, and who waits with it.
LEMMA LowOKKept ==
  ASSUME IInv, PlacesInv, LowOK, NEW u \in Thread, NEW e \in Xstream, Step(u, e)
  PROVE  LowOK'
<1>1. On(u, e)
  BY DEF Step
<1> USE DEF Goto, CasLock, WakeOver, Woken, mutexVars, tableVars
<1>2. CASE WaitEnqueue(u, e)
  <2>1. prio' = prio /\ target' = target /\ pc' = [pc EXCEPT ![u] = "suspend"] /\ pc[u] = "enqueue"
    BY <1>2 DEF WaitEnqueue
  <2>2. \A v \in Thread, g \in Xstream : Contains(lq'[g], v) => Contains(lq[g], v) \/ (v = u /\ prio[u] = "low")
    <3>1. CASE lq' = lq BY <3>1
    <3>2. CASE prio[u] = "low" /\ lq' = [lq EXCEPT ![e] = Append(@, u)] /\ hq' = hq
      <4>1. \A g \in Xstream : ~Waits(u, g)
        BY <1>1, <2>1, OnES
      <4>2. /\ lq[e] \in Seq(Thread) /\ IsInjective(lq[e]) /\ ~Contains(lq[e], u)
            /\ lq'[e] = Append(lq[e], u) /\ \A g \in Xstream : g # e => lq'[g] = lq[g]
        BY <3>2, <4>1, Types DEF PlacesInv, TableOK, Waits
      <4>3. \A v : Contains(lq'[e], v) <=> Contains(lq[e], v) \/ v = u
        BY <4>2, AppendContains
      <4> QED BY <3>2, <4>2, <4>3
    <3> QED BY <1>2, <3>1, <3>2 DEF WaitEnqueue
  <2> QED BY <2>1, <2>2, Types DEF LowOK
<1>3. CASE LowSwap(u, e) /\ lq[e] # <<>>
  <2>1. /\ prio' = prio /\ pc[u] = "low_try" /\ pc' = [pc EXCEPT ![u] = "low_switch"]
        /\ target' = [target EXCEPT ![u] = Head(lq[e])] /\ hq' = hq
        /\ lq' = [lq EXCEPT ![e] = Append(Tail(@), u)]
    BY <1>3 DEF LowSwap
  <2>2. Low(u)
    BY <2>1 DEF PlacesInv, PlaceOK
  <2>3. lq[e] \in Seq(Thread) /\ IsInjective(lq[e]) /\ ~Contains(lq[e], u)
    BY <1>1, <2>1, OnES, Types DEF PlacesInv, TableOK, Waits
  <2>4. /\ Tail(lq[e]) \in Seq(Thread) /\ IsInjective(Tail(lq[e]))
        /\ Contains(lq[e], Head(lq[e])) /\ Head(lq[e]) \in Thread
        /\ \A y : Contains(Tail(lq[e]), y) => Contains(lq[e], y)
    BY <1>3, <2>3, TailContains
  <2>5. \A y : Contains(Append(Tail(lq[e]), u), y) <=> Contains(Tail(lq[e]), y) \/ y = u
    <3>1. ~Contains(Tail(lq[e]), u)
      BY <2>3, <2>4
    <3> QED BY <3>1, <2>4, AppendContains
  <2>6. /\ lq'[e] = Append(Tail(lq[e]), u) /\ \A g \in Xstream : g # e => lq'[g] = lq[g]
    BY <2>1, Types
  <2>7. \A v \in Thread, g \in Xstream : Contains(lq'[g], v) => Contains(lq[g], v) \/ v = u
    BY <2>4, <2>5, <2>6
  <2>8. Low(Head(lq[e]))
    BY <2>4 DEF LowOK
  <2> QED BY <2>1, <2>2, <2>7, <2>8, Types DEF LowOK
<1>4. CASE \/ WakePop(u, e) /\ (WakeHigh(u) \/ WakeLow(u))
           \/ SePop(u, e) /\ hq[e] # <<>>
           \/ SePopLow(u, e) /\ lq[e] # <<>>
  <2>1. PICK f \in Xstream : \E t : \E l \in {"set_ready", "se_give"} : Taking(u, e, f, t, l)
    BY <1>4, Takers
  <2>2. PICK t : \E l \in {"set_ready", "se_give"} : Taking(u, e, f, t, l)
    BY <2>1
  <2>3. PICK l \in {"set_ready", "se_give"} : Taking(u, e, f, t, l)
    BY <2>2
  <2>4. \A v \in Thread, g \in Xstream : Contains(lq'[g], v) => Contains(lq[g], v)
    <3>1. CASE lq' = lq BY <3>1
    <3>2. CASE lq[f] # <<>> /\ lq' = [lq EXCEPT ![f] = Tail(@)]
      <4>1. lq[f] \in Seq(Thread) /\ IsInjective(lq[f])
        BY Types DEF PlacesInv, TableOK
      <4>2. \A y : Contains(Tail(lq[f]), y) => Contains(lq[f], y)
        BY <3>2, <4>1, TailContains
      <4>3. lq'[f] = Tail(lq[f]) /\ \A g \in Xstream : g # f => lq'[g] = lq[g]
        BY <3>2, Types
      <4> QED BY <4>2, <4>3
    <3> QED BY <2>3, <3>1, <3>2 DEF Taking, Takes
  <2>5. prio' = prio
    BY <1>4 DEF WakePop, SePop, SePopLow
  <2>6. /\ pc' = [pc EXCEPT ![u] = l] /\ l # "low_switch"
        /\ \A v \in Thread : v # u => target'[v] = target[v]
    BY <2>3, Types DEF Taking
  <2> QED BY <2>4, <2>5, <2>6, Types DEF LowOK
<1>5. CASE /\ Acquire(u, e) /\ ~WaitEnqueue(u, e) /\ ~(LowSwap(u, e) /\ lq[e] # <<>>)
  <2>1. prio \in [Thread -> {"high", "low"}]
    BY DEF IInv, TypeOK, LocalTypeOK
  <2> QED
    BY <2>1, <1>5, Types DEF LowOK, Low, Acquire, Lock, LockLow, LowCas, LowSwap, LowSwitch,
       Spinlock, Trylock, Xchg, WaitCheck, WaitSuspend, TakeHandover
<1>6. CASE /\ Release(u, e)
           /\ ~(\/ WakePop(u, e) /\ (WakeHigh(u) \/ WakeLow(u))
                \/ SePop(u, e) /\ hq[e] # <<>>
                \/ SePopLow(u, e) /\ lq[e] # <<>>)
  BY <1>6, Types DEF LowOK, Release, Unlock, StoreZero, WakePop, WakeNone, WakeReady,
     WakeDec, UnlockSe, SeCheck, SePop, SeLow, SePopLow, SeGive, SeSwitch, SeReturn, SeYield
<1>7. CASE YieldInCS(u, e) \/ Terminate(u, e)
  BY <1>7, Types DEF LowOK, YieldInCS, Terminate
<1> QED
  BY <1>2, <1>3, <1>4, <1>5, <1>6, <1>7 DEF Step

\* Every step keeps the ULTs that lock with low priority apart from the others.
LEMMA NextLow == IInv /\ PlacesInv /\ LowOK /\ [Next]_vars => LowOK'
<1> SUFFICES ASSUME IInv, PlacesInv, LowOK, [Next]_vars PROVE LowOK'
  OBVIOUS
<1>1. ASSUME NEW e \in Xstream, NEW u \in Thread, Step(u, e) PROVE LowOK'
  BY <1>1, LowOKKept
<1>2. CASE UNCHANGED <<mutexVars, localVars>>
  BY <1>2 DEF mutexVars, tableVars, localVars, LowOK
<1> QED
  BY <1>1, <1>2 DEF Next, Sched, vars

\* num_blocked of every pool counts its BLOCKED ULTs, and those that a waker has pushed
\* back and not counted out yet; a ULT in the middle of switch_low, not counted itself,
\* takes over the count of the ULT it switches to, which is right for the pool only if
\* both belong to it (LowOnePool).
THEOREM MutexBlockedCount == LowPrivate /\ LowOnePool => (Spec => []BlockedCount)
<1> SUFFICES ASSUME LowPrivate, LowOnePool PROVE Spec => []BlockedCount
  OBVIOUS
<1>1. Init => LowOK
  BY DEF Init, LowOK, Contains
<1>2. Init => CountInv
  <2> SUFFICES ASSUME Init PROVE CountInv
    OBVIOUS
  <2>1. numBlocked = [p \in Pool |-> 0]
    BY DEF Init, ThreadsInit
  <2>2. \A p \in Pool : BlockedIn(p) = {} /\ SwitchIn(p) = {} /\ LateIn(p) = {}
    BY DEF Init, ThreadsInit, BlockedIn, SwitchIn, LateIn
  <2>3. Cardinality({}) = 0
    BY FS_EmptySet
  <2> QED BY <2>1, <2>2, <2>3 DEF CountInv
<1>3. CountInv => BlockedCount
  <2> SUFFICES ASSUME CountInv, NEW p \in Pool
               PROVE  LET ofPool(S) == Cardinality({u \in S : HomePool[u] = p})
                          lateOnes == {w \in Thread : pc[w] = "dec_blocked"}
                      IN  numBlocked[p] + ofPool({u \in Thread : pc[u] = "low_switch"})
                            = ofPool({u \in Thread : state[u] = "BLOCKED"})
                              + Cardinality({w \in lateOnes : HomePool[target[w]] = p})
    BY DEF BlockedCount
  <2>1. /\ SwitchIn(p) = {u \in {v \in Thread : pc[v] = "low_switch"} : HomePool[u] = p}
        /\ BlockedIn(p) = {u \in {v \in Thread : state[v] = "BLOCKED"} : HomePool[u] = p}
        /\ LateIn(p) = {w \in {v \in Thread : pc[v] = "dec_blocked"} : HomePool[target[w]] = p}
    BY DEF SwitchIn, BlockedIn, LateIn
  <2> QED BY <2>1 DEF CountInv
<1> QED
  BY <1>1, <1>2, <1>3, InitInv, InitPlaces, NextKeeps, NextPlaces, NextLow, NextCounts,
     PTL DEF Spec
=============================================================================
