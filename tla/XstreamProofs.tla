--------------------------- MODULE XstreamProofs ---------------------------
(***************************************************************************)
(* Proofs about an execution stream: its main scheduler and the pools it   *)
(* serves (Stream), for every number of ESs, pools and ULTs and every      *)
(* program; its memory pools (Mem), for every number of ESs, pages, blocks *)
(* and stacks and every program of allocations, releases and ends of ESs;  *)
(* and the schedulers of BOLT that steal from each other (Steal), for any  *)
(* number of ESs, ULTs and tasklets and every program.  No proof about one *)
(* of the three uses a step of another.                                    *)
(***************************************************************************)
EXTENDS Stream, Mem, FiniteSetTheorems, SequenceTheorems, TLAPS

(***************************************************************************)
(* Facts about the queue of a pool.                                        *)
(***************************************************************************)

LEMMA PushUnit ==
  ASSUME NEW S, NEW q \in Seq(S), NEW u \in S
  PROVE  /\ Append(q, u) \in Seq(S)
         /\ Append(q, u) # <<>>
         /\ \A v : Contains(Append(q, u), v) <=> Contains(q, v) \/ v = u
         /\ IsInjective(q) /\ ~Contains(q, u) => IsInjective(Append(q, u))
<1>1. /\ Len(q) \in Nat
      /\ DOMAIN q = 1 .. Len(q)
      /\ Append(q, u) \in Seq(S)
      /\ Len(Append(q, u)) = Len(q) + 1
      /\ DOMAIN Append(q, u) = 1 .. Len(q) + 1
      /\ Append(q, u)[Len(q) + 1] = u
      /\ \A i \in 1 .. Len(q) : Append(q, u)[i] = q[i]
  BY AppendProperties, LenProperties
<1>2. \A v : Contains(Append(q, u), v) <=> Contains(q, v) \/ v = u
  BY <1>1 DEF Contains
<1>3. IsInjective(q) /\ ~Contains(q, u) => IsInjective(Append(q, u))
  BY <1>1 DEF Contains, IsInjective
<1> QED
  BY <1>1, <1>2, <1>3

LEMMA PopUnit ==
  ASSUME NEW S, NEW q \in Seq(S), q # <<>>
  PROVE  /\ Head(q) \in S
         /\ Contains(q, Head(q))
         /\ Tail(q) \in Seq(S)
         /\ \A v : v # Head(q) => (Contains(Tail(q), v) <=> Contains(q, v))
         /\ IsInjective(q) => IsInjective(Tail(q)) /\ ~Contains(Tail(q), Head(q))
<1>1. /\ Len(q) \in Nat \ {0}
      /\ DOMAIN q = 1 .. Len(q)
      /\ Head(q) \in S
      /\ Head(q) = q[1]
      /\ Tail(q) \in Seq(S)
      /\ Len(Tail(q)) = Len(q) - 1
      /\ DOMAIN Tail(q) = 1 .. Len(q) - 1
      /\ \A i \in 1 .. Len(q) - 1 : Tail(q)[i] = q[i + 1]
  BY HeadTailProperties, LenProperties, EmptySeq
<1>2. Contains(q, Head(q))
  BY <1>1 DEF Contains
<1>3. ASSUME NEW v, v # Head(q) PROVE Contains(Tail(q), v) <=> Contains(q, v)
  <2>1. ASSUME NEW i \in 1 .. Len(q) - 1, Tail(q)[i] = v PROVE Contains(q, v)
    <3>1. i + 1 \in 1 .. Len(q) /\ q[i + 1] = v
      BY <1>1, <2>1
    <3> QED
      BY <3>1 DEF Contains
  <2>2. ASSUME NEW i \in 1 .. Len(q), q[i] = v PROVE Contains(Tail(q), v)
    <3>1. i # 1
      BY <1>1, <1>3, <2>2
    <3>2. i - 1 \in 1 .. Len(q) - 1 /\ Tail(q)[i - 1] = v
      BY <1>1, <2>2, <3>1
    <3> QED
      BY <3>2, <1>1 DEF Contains
  <2> QED
    BY <2>1, <2>2, <1>1 DEF Contains
<1>4. IsInjective(q) => IsInjective(Tail(q)) /\ ~Contains(Tail(q), Head(q))
  <2> SUFFICES ASSUME IsInjective(q) PROVE IsInjective(Tail(q)) /\ ~Contains(Tail(q), Head(q))
    OBVIOUS
  <2>1. \A i, j \in 1 .. Len(q) : q[i] = q[j] => i = j
    BY <1>1 DEF IsInjective
  <2>2. ASSUME NEW i \in 1 .. Len(q) - 1, NEW j \in 1 .. Len(q) - 1, Tail(q)[i] = Tail(q)[j]
        PROVE  i = j
    <3>1. i + 1 \in 1 .. Len(q) /\ j + 1 \in 1 .. Len(q) /\ q[i + 1] = q[j + 1]
      BY <1>1, <2>2
    <3> QED
      BY <3>1, <2>1
  <2>3. ASSUME NEW i \in 1 .. Len(q) - 1, Tail(q)[i] = Head(q) PROVE FALSE
    <3>1. i + 1 \in 1 .. Len(q) /\ 1 \in 1 .. Len(q) /\ q[i + 1] = q[1]
      BY <1>1, <2>3
    <3> QED
      BY <3>1, <2>1
  <2> QED
    BY <2>2, <2>3, <1>1 DEF IsInjective, Contains
<1> QED
  BY <1>1, <1>2, <1>3, <1>4

\* What the steps use of the assumption.
LEMMA Null == NoThread \notin Thread /\ NoPool \notin Pool
BY StreamAssumption

LEMMA Freq == EventFreq \in Nat /\ EventFreq > 0
BY StreamAssumption

LEMMA ScanOrder ==
  ASSUME NEW e \in Xstream
  PROVE  /\ SchedPools[e] \in Seq(Pool)
         /\ Len(SchedPools[e]) \in Nat /\ Len(SchedPools[e]) > 0
         /\ DOMAIN SchedPools[e] = 1 .. Len(SchedPools[e])
         /\ \A i \in 1 .. Len(SchedPools[e]) : SchedPools[e][i] \in Pool
<1>1. SchedPools[e] \in Seq(Pool) /\ SchedPools[e] # <<>>
  BY StreamAssumption
<1> QED
  BY <1>1, LenProperties, EmptySeq, ElementOfSeq

\* The first count is that of the size of the first pool.
LEMMA FirstCountType ==
  /\ FirstCount \in Count
  /\ \A e \in Xstream : FirstCount.nth <= Len(SchedPools[e]) + 1
BY ScanOrder DEF FirstCount, Count

\* The arguments of a call are of the type that the call asks for.
LEMMA CallType ==
  ASSUME NEW c \in Call
  PROVE  /\ c[1] \in {"join", "cancel"} => c[2] \in Xstream
         /\ c[1] \in {"wake", "await"} => c[2] \in Thread
         /\ c[1] = "migrate_to_xstream" => c[2] \in Thread /\ c[3] \in Xstream
         /\ c[1] = "migrate_to_pool" => c[2] \in Thread /\ c[3] \in Pool
BY DEF Call

\* The call that a ULT is in is one of the program.
LEMMA OpType ==
  ASSUME TypeOK, NEW u \in Thread, calls[u] # <<>>
  PROVE  /\ Op(u) \in Call
         /\ Tail(calls[u]) \in Seq(Call)
BY HeadTailProperties DEF TypeOK, Op

(***************************************************************************)
(* Where every ULT is, in every program: the inductive invariant that      *)
(* needs nothing of the callers.                                           *)
(***************************************************************************)

Runs(u) == \E e \in Xstream : running[e] = u
InPool(u) == \E p \in Pool : Contains(pool[p], u)

\* The pools hold READY units that no ES executes, each in its home and once.
PoolAt(u) ==
  \A p \in Pool : Contains(pool[p], u) => home[u] = p /\ state[u] = "READY" /\ ~Runs(u)
PoolOK ==
  /\ \A p \in Pool : IsInjective(pool[p])
  /\ \A u \in Thread : PoolAt(u)

\* An ES has a ULT, or a pool, or a ULT to wake, where it executes or handles it.
RunAt(e) ==
  /\ running[e] # NoThread <=> xpc[e] \in {"ult", "ret", "migrate"}
  /\ dest[e] # NoPool <=> xpc[e] = "migrate_dec"
  /\ xpc[e] \in {"wake", "wake_dec"} => reqArg[e] # NoThread
  /\ woken[e] # NoThread <=> xpc[e] = "wake_dec"
RunOK ==
  /\ \A e, f \in Xstream : running[e] # NoThread /\ running[e] = running[f] => e = f
  /\ \A e \in Xstream : RunAt(e)

\* The places in a call where a ULT is on its ES; in some of them it is BLOCKED already.
OnPC == {"join_arg", "set_blocked", "join_post", "suspend", "dec_blocked", "post"}
Blocking(u) == pc[u] = "suspend" \/ (pc[u] = "join_post" /\ home[u] \in Blockable)

\* The ULT of an ES: the ES serves its pool, and its state is that of the place it is in.
OnAt(e, u) ==
  /\ e \in Scheds(home[u])
  /\ xpc[e] = "ult" =>
       IF Blocking(u) THEN state[u] = "BLOCKED" /\ "BLOCK" \in request[u]
       ELSE state[u] = "RUNNING"
  /\ xpc[e] = "ret" =>
       /\ pc[u] \notin OnPC
       /\ \/ state[u] = "READY" /\ request[u] \subseteq {"MIGRATE"}
          \/ state[u] = "BLOCKED" /\ "BLOCK" \in request[u] /\ "TERMINATE" \notin request[u]
          \/ state[u] = "RUNNING" /\ "TERMINATE" \in request[u]
  /\ xpc[e] = "migrate" => state[u] = "READY" /\ "MIGRATE" \in request[u] /\ pc[u] \notin OnPC
OnOK == \A e \in Xstream, u \in Thread : running[e] = u => OnAt(e, u)

\* The requests: BLOCK until the scheduler has seen it, TERMINATE of a ULT that has left its
\* function, MIGRATE with a pool to migrate to.
ReqAt(u) ==
  /\ "BLOCK" \in request[u] =>
       state[u] = "BLOCKED" /\ \E e \in Xstream : running[e] = u /\ xpc[e] \in {"ult", "ret"}
  /\ "TERMINATE" \in request[u] =>
       /\ pc[u] = "done"
       /\ state[u] = "TERMINATED" \/ \E e \in Xstream : running[e] = u /\ xpc[e] = "ret"
  /\ "MIGRATE" \in request[u] => target[u] # NoPool
ReqOK == \A u \in Thread : ReqAt(u)

\* A ULT that has not ended is in a pool, with an ES or BLOCKED.
PlaceAt(u) ==
  /\ state[u] = "TERMINATED" => ~Runs(u)
  /\ state[u] \in {"READY", "RUNNING"} => InPool(u) \/ Runs(u)
  /\ pc[u] \in OnPC => \E e \in Xstream : On(u, e)
  /\ pc[u] \in {"join_arg", "set_blocked"} => home[u] \in Blockable
PlaceOK == \A u \in Thread : PlaceAt(u)

\* Who is within a call is within that of its program.
CallAt(u) ==
  /\ pc[u] \in {"join_arg", "set_blocked", "join_post", "poll", "context_join"} =>
       calls[u] # <<>> /\ Op(u)[1] = "join"
  /\ pc[u] = "suspend" => calls[u] # <<>> /\ Op(u)[1] \in {"join", "sleep"}
  /\ pc[u] = "dec_blocked" => calls[u] # <<>> /\ Op(u)[1] = "wake"
  /\ pc[u] = "post" => calls[u] # <<>> /\ Op(u)[1] = "migrate_to_xstream"
  /\ pc[u] = "count" => calls[u] # <<>> /\ Op(u)[1] = "migrate_to_pool"
CallOK == \A u \in Thread : CallAt(u)

PartsOK == PoolOK /\ RunOK /\ OnOK /\ ReqOK /\ PlaceOK /\ CallOK
StreamInv == TypeOK /\ PartsOK

\* Where an ES has nothing in its hands.
LoopPC == XPC \ {"ult", "ret", "migrate", "migrate_dec", "wake", "wake_dec"}

\* A step of the loop that touches no ULT and no pool.
LEMMA LoopKeeps ==
  ASSUME StreamInv, NEW e \in Xstream, NEW l \in LoopPC \cup {"wake"},
         xpc[e] \in LoopPC, l = "wake" => reqArg[e] # NoThread, GotoX(e, l),
         UNCHANGED <<reqArg, dest, woken, running, pool, threadVars, localVars>>
  PROVE  PartsOK'
<1> DEFINE In(f) == xpc[f] \in {"ult", "ret", "migrate"}
<1>1. /\ xpc \in [Xstream -> XPC]
      /\ ~In(e) /\ ~In(e)'
      /\ \A f \in Xstream : f # e => xpc'[f] = xpc[f]
      /\ xpc'[e] = l
  BY DEF StreamInv, TypeOK, GotoX, LoopPC, XPC
<1>2. UNCHANGED <<reqArg, dest, woken, running, pool, state, request, home, target, pc, calls>>
  BY DEF threadVars, localVars
<1>3. RunOK'
  BY <1>1, <1>2 DEF StreamInv, PartsOK, RunOK, RunAt, LoopPC
<1>4. running[e] = NoThread
  BY <1>1 DEF StreamInv, PartsOK, RunOK, RunAt
<1>5. PoolOK'
  BY <1>2 DEF StreamInv, PartsOK, PoolOK, PoolAt, Runs
<1>6. OnOK'
  BY <1>1, <1>2, <1>4, Null DEF StreamInv, PartsOK, OnOK, OnAt, Scheds, Blocking
<1>7. ReqOK'
  BY <1>1, <1>2, <1>4, Null DEF StreamInv, PartsOK, ReqOK, ReqAt
<1>8. PlaceOK'
  BY <1>1, <1>2, <1>4, Null DEF StreamInv, PartsOK, PlaceOK, PlaceAt, Runs, InPool, On
<1>9. CallOK'
  BY <1>2 DEF StreamInv, PartsOK, CallOK, CallAt, Op
<1> QED
  BY <1>3, <1>5, <1>6, <1>7, <1>8, <1>9 DEF PartsOK

\* A step of the ULT u within its calls.
LEMMA UltKeeps ==
  ASSUME StreamInv, NEW e \in Xstream, NEW u \in Thread, On(u, e), NEW l \in PC,
         pc' = [pc EXCEPT ![u] = l],
         UNCHANGED <<xpc, running, pool, threadVars, dest, woken>>,
         \A f \in Xstream : reqArg[f] # NoThread => reqArg'[f] # NoThread,
         \A v \in Thread : v # u => calls'[v] = calls[v],
         CallAt(u)', Blocking(u)' <=> Blocking(u),
         l \in {"join_arg", "set_blocked"} => home[u] \in Blockable
  PROVE  PartsOK'
<1>1. /\ pc \in [Thread -> PC]
      /\ \A v \in Thread : v # u => pc'[v] = pc[v]
      /\ pc'[u] = l
      /\ running[e] = u /\ xpc[e] = "ult"
  BY DEF StreamInv, TypeOK, On
<1>2. UNCHANGED <<dest, woken, running, pool, state, request, home, target, xpc>>
  BY DEF threadVars
<1>3. RunOK'
  BY <1>1, <1>2 DEF StreamInv, PartsOK, RunOK, RunAt
<1>4. \A f \in Xstream : running[f] = u => f = e
  BY <1>1, Null DEF StreamInv, PartsOK, RunOK, RunAt
<1>5. PoolOK'
  BY <1>2 DEF StreamInv, PartsOK, PoolOK, PoolAt, Runs
<1>6. OnOK'
  <2> SUFFICES ASSUME NEW f \in Xstream, NEW v \in Thread, running[f] = v
               PROVE  OnAt(f, v)'
    BY <1>2 DEF OnOK
  <2>1. CASE v = u
    BY <2>1, <1>1, <1>2, <1>4 DEF StreamInv, PartsOK, OnOK, OnAt, Scheds
  <2>2. CASE v # u
    BY <2>2, <1>1, <1>2 DEF StreamInv, PartsOK, OnOK, OnAt, Scheds, Blocking
  <2> QED
    BY <2>1, <2>2
<1>7. "TERMINATE" \notin request[u]
  BY <1>1, <1>4 DEF StreamInv, PartsOK, ReqOK, ReqAt, PlaceOK, PlaceAt, Runs
<1>8. ReqOK'
  BY <1>1, <1>2, <1>7 DEF StreamInv, PartsOK, ReqOK, ReqAt
<1>9. PlaceOK'
  BY <1>1, <1>2 DEF StreamInv, PartsOK, PlaceOK, PlaceAt, Runs, InPool, On
<1>10. CallOK'
  BY <1>1, <1>2 DEF StreamInv, PartsOK, CallOK, CallAt, Op
<1> QED
  BY <1>3, <1>5, <1>6, <1>8, <1>9, <1>10 DEF PartsOK

\* A step that concerns the ES e and the ULTs U only.
StepOf(e, U) ==
  /\ running[e] \in U \cup {NoThread} /\ running'[e] \in U \cup {NoThread}
  /\ \A f \in Xstream : f # e =>
       /\ running'[f] = running[f] /\ xpc'[f] = xpc[f]
       /\ dest'[f] = dest[f] /\ woken'[f] = woken[f]
       /\ reqArg[f] # NoThread => reqArg'[f] # NoThread
       /\ running'[e] # NoThread => running[f] # running'[e]
  /\ \A v \in Thread \ U :
       /\ state'[v] = state[v] /\ request'[v] = request[v]
       /\ home'[v] = home[v] /\ target'[v] = target[v]
       /\ pc'[v] = pc[v] /\ calls'[v] = calls[v]
       /\ \A q \in Pool : Contains(pool'[q], v) <=> Contains(pool[q], v)
  /\ \A q \in Pool : IsInjective(pool[q]) => IsInjective(pool'[q])

\* What is to be shown of a ULT that the step concerns.
ThreadOK(v) ==
  /\ PoolAt(v) /\ ReqAt(v) /\ PlaceAt(v) /\ CallAt(v)
  /\ \A f \in Xstream : running[f] = v => OnAt(f, v)

LEMMA StepKeeps ==
  ASSUME StreamInv, NEW e \in Xstream, NEW U \in SUBSET Thread,
         StepOf(e, U), RunAt(e)', \A v \in U : ThreadOK(v)'
  PROVE  PartsOK'
<1> USE DEF StepOf
<1>1. ASSUME NEW v \in Thread \ U
      PROVE  /\ \A f \in Xstream : running[f] = v => f # e
             /\ \A f \in Xstream : running'[f] = v <=> running[f] = v
             /\ Runs(v)' <=> Runs(v)
  BY <1>1, Null DEF Runs
<1>2. RunOK'
  BY Null DEF StreamInv, PartsOK, RunOK, RunAt
<1>3. PoolOK'
  BY <1>1 DEF StreamInv, PartsOK, PoolOK, PoolAt, ThreadOK
<1>4. OnOK'
  <2> SUFFICES ASSUME NEW f \in Xstream, NEW v \in Thread \ U, running'[f] = v
               PROVE  OnAt(f, v)'
    BY DEF OnOK, ThreadOK
  <2>1. f # e /\ OnAt(f, v)
    BY <1>1 DEF StreamInv, PartsOK, OnOK
  <2> QED
    BY <2>1 DEF OnAt, Blocking, Scheds
<1>5. ReqOK'
  BY <1>1 DEF StreamInv, PartsOK, ReqOK, ReqAt, ThreadOK
<1>6. PlaceOK'
  BY <1>1 DEF StreamInv, PartsOK, PlaceOK, PlaceAt, InPool, On, ThreadOK
<1>7. CallOK'
  BY DEF StreamInv, PartsOK, CallOK, CallAt, Op, ThreadOK
<1> QED
  BY <1>2, <1>3, <1>4, <1>5, <1>6, <1>7 DEF PartsOK

(***************************************************************************)
(* The steps of the scheduler.                                             *)
(***************************************************************************)

LEMMA SchedStartKeeps ==
  ASSUME StreamInv, NEW e \in Xstream, SchedStart(e)
  PROVE  StreamInv'
<1>1. PICK l \in {"scan"} : GotoX(e, l) /\ (l = "wake" => reqArg[e] # NoThread)
  BY DEF SchedStart, GotoX
<1>2. TypeOK'
  <2>1. UNCHANGED <<xrequest, reqArg, schedRequest, schedLock, at, size, dest, woken, running,
                    poolVars, threadVars, localVars>>
    BY DEF SchedStart, xstreamVars, loopVars, poolVars, threadVars, localVars
  <2>2. xstate' \in [Xstream -> {"READY", "RUNNING", "TERMINATED"}]
    BY DEF SchedStart, StreamInv, TypeOK
  <2>3. schedState' \in [Xstream -> {"READY", "RUNNING", "TERMINATED"}]
    BY DEF SchedStart, StreamInv, TypeOK
  <2>4. workCount' \in [Xstream -> 0 .. EventFreq - 1]
    BY Freq DEF SchedStart, StreamInv, TypeOK
  <2>5. xpc' \in [Xstream -> XPC]
    BY <1>1 DEF StreamInv, TypeOK, GotoX, XPC
  <2> QED
    BY <2>1, <2>2, <2>3, <2>4, <2>5 DEF StreamInv, TypeOK, poolVars, threadVars, localVars
<1>3. xpc[e] \in LoopPC
  BY DEF SchedStart, LoopPC, XPC
<1>4. l \in LoopPC \cup {"wake"}
  BY DEF LoopPC, XPC
<1>5. UNCHANGED <<reqArg, dest, woken, running, pool, threadVars, localVars>>
  BY DEF SchedStart, xstreamVars, loopVars, poolVars
<1> QED
  BY <1>1, <1>2, <1>3, <1>4, <1>5, LoopKeeps DEF StreamInv

LEMMA SchedIdleKeeps ==
  ASSUME StreamInv, NEW e \in Xstream, SchedIdle(e)
  PROVE  StreamInv'
<1>1. PICK l \in {"count"} : GotoX(e, l) /\ (l = "wake" => reqArg[e] # NoThread)
  BY DEF SchedIdle, GotoX
<1>2. TypeOK'
  <2>1. UNCHANGED <<xstreamVars, loopVars, running, poolVars, threadVars, localVars>>
    BY DEF SchedIdle, xstreamVars, loopVars, poolVars, threadVars, localVars
  <2>2. xpc' \in [Xstream -> XPC]
    BY <1>1 DEF StreamInv, TypeOK, GotoX, XPC
  <2> QED
    BY <2>1, <2>2 DEF StreamInv, TypeOK, xstreamVars, loopVars, poolVars, threadVars, localVars
<1>3. xpc[e] \in LoopPC
  BY DEF SchedIdle, LoopPC, XPC
<1>4. l \in LoopPC \cup {"wake"}
  BY DEF LoopPC, XPC
<1>5. UNCHANGED <<reqArg, dest, woken, running, pool, threadVars, localVars>>
  BY DEF SchedIdle, xstreamVars, loopVars, poolVars
<1> QED
  BY <1>1, <1>2, <1>3, <1>4, <1>5, LoopKeeps DEF StreamInv

LEMMA StopOnExitKeeps ==
  ASSUME StreamInv, NEW e \in Xstream, StopOnExit(e)
  PROVE  StreamInv'
<1>1. PICK l \in {"stopped"} : GotoX(e, l) /\ (l = "wake" => reqArg[e] # NoThread)
  BY DEF StopOnExit, GotoX
<1>2. TypeOK'
  <2>1. UNCHANGED <<xstate, xrequest, reqArg, schedRequest, loopVars, running, poolVars,
                    threadVars, localVars>>
    BY DEF StopOnExit, xstreamVars, loopVars, poolVars, threadVars, localVars
  <2>2. schedState' \in [Xstream -> {"READY", "RUNNING", "TERMINATED"}]
    BY DEF StopOnExit, StreamInv, TypeOK
  <2>3. schedLock' \in [Xstream -> BOOLEAN]
    BY DEF StopOnExit, StreamInv, TypeOK
  <2>4. xpc' \in [Xstream -> XPC]
    BY <1>1 DEF StreamInv, TypeOK, GotoX, XPC
  <2> QED
    BY <2>1, <2>2, <2>3, <2>4 DEF StreamInv, TypeOK, loopVars, poolVars, threadVars, localVars
<1>3. xpc[e] \in LoopPC
  BY DEF StopOnExit, LoopPC, XPC
<1>4. l \in LoopPC \cup {"wake"}
  BY DEF LoopPC, XPC
<1>5. UNCHANGED <<reqArg, dest, woken, running, pool, threadVars, localVars>>
  BY DEF StopOnExit, xstreamVars, loopVars, poolVars
<1> QED
  BY <1>1, <1>2, <1>3, <1>4, <1>5, LoopKeeps DEF StreamInv

LEMMA EndKeeps ==
  ASSUME StreamInv, NEW e \in Xstream, End(e)
  PROVE  StreamInv'
<1>1. PICK l \in {"ended"} : GotoX(e, l) /\ (l = "wake" => reqArg[e] # NoThread)
  BY DEF End, GotoX
<1>2. TypeOK'
  <2>1. UNCHANGED <<xrequest, reqArg, schedState, schedRequest, schedLock, loopVars, running,
                    poolVars, threadVars, localVars>>
    BY DEF End, xstreamVars, loopVars, poolVars, threadVars, localVars
  <2>2. xstate' \in [Xstream -> {"READY", "RUNNING", "TERMINATED"}]
    BY DEF End, StreamInv, TypeOK
  <2>3. xpc' \in [Xstream -> XPC]
    BY <1>1 DEF StreamInv, TypeOK, GotoX, XPC
  <2> QED
    BY <2>1, <2>2, <2>3 DEF StreamInv, TypeOK, loopVars, poolVars, threadVars, localVars
<1>3. xpc[e] \in LoopPC
  BY DEF End, LoopPC, XPC
<1>4. l \in LoopPC \cup {"wake"}
  BY DEF LoopPC, XPC
<1>5. UNCHANGED <<reqArg, dest, woken, running, pool, threadVars, localVars>>
  BY DEF End, xstreamVars, loopVars, poolVars
<1> QED
  BY <1>1, <1>2, <1>3, <1>4, <1>5, LoopKeeps DEF StreamInv

LEMMA WorkDoneKeeps ==
  ASSUME StreamInv, NEW e \in Xstream, WorkDone(e)
  PROVE  StreamInv'
<1>1. PICK l \in {"events", "scan"} : GotoX(e, l) /\ (l = "wake" => reqArg[e] # NoThread)
  BY DEF WorkDone, GotoX
<1>2. TypeOK'
  <2>1. UNCHANGED <<xstreamVars, at, size, dest, woken, running, poolVars, threadVars, localVars>>
    BY DEF WorkDone, xstreamVars, loopVars, poolVars, threadVars, localVars
  <2>2. workCount' \in [Xstream -> 0 .. EventFreq - 1]
    <3> DEFINE w == IF workCount[e] + 1 >= EventFreq THEN 0 ELSE workCount[e] + 1
    <3>1. workCount \in [Xstream -> 0 .. EventFreq - 1]
      BY DEF StreamInv, TypeOK
    <3>2. workCount' = [workCount EXCEPT ![e] = w]
      BY DEF WorkDone
    <3>3. w \in 0 .. EventFreq - 1
      BY <3>1, Freq
    <3> QED
      BY <3>1, <3>2, <3>3
  <2>3. xpc' \in [Xstream -> XPC]
    BY <1>1 DEF StreamInv, TypeOK, GotoX, XPC
  <2> QED
    BY <2>1, <2>2, <2>3 DEF StreamInv, TypeOK, xstreamVars, poolVars, threadVars, localVars
<1>3. xpc[e] \in LoopPC
  BY DEF WorkDone, LoopPC, XPC
<1>4. l \in LoopPC \cup {"wake"}
  BY DEF LoopPC, XPC
<1>5. UNCHANGED <<reqArg, dest, woken, running, pool, threadVars, localVars>>
  BY DEF WorkDone, xstreamVars, loopVars, poolVars
<1> QED
  BY <1>1, <1>2, <1>3, <1>4, <1>5, LoopKeeps DEF StreamInv

LEMMA CheckEventsKeeps ==
  ASSUME StreamInv, NEW e \in Xstream, CheckEvents(e)
  PROVE  StreamInv'
<1>1. PICK l \in {"exit", "size1", "scan"} : GotoX(e, l) /\ (l = "wake" => reqArg[e] # NoThread)
  BY DEF CheckEvents, GotoX
<1>2. TypeOK'
  <2>1. UNCHANGED <<xstate, xrequest, reqArg, schedState, schedLock, loopVars, running, poolVars,
                    threadVars, localVars>>
    BY DEF CheckEvents, xstreamVars, loopVars, poolVars, threadVars, localVars
  <2>2. schedRequest' \in [Xstream -> SUBSET {"FINISH", "EXIT"}]
    BY DEF CheckEvents, StreamInv, TypeOK
  <2>3. xpc' \in [Xstream -> XPC]
    BY <1>1 DEF StreamInv, TypeOK, GotoX, XPC
  <2> QED
    BY <2>1, <2>2, <2>3 DEF StreamInv, TypeOK, loopVars, poolVars, threadVars, localVars
<1>3. xpc[e] \in LoopPC
  BY DEF CheckEvents, LoopPC, XPC
<1>4. l \in LoopPC \cup {"wake"}
  BY DEF LoopPC, XPC
<1>5. UNCHANGED <<reqArg, dest, woken, running, pool, threadVars, localVars>>
  BY DEF CheckEvents, xstreamVars, loopVars, poolVars
<1> QED
  BY <1>1, <1>2, <1>3, <1>4, <1>5, LoopKeeps DEF StreamInv

LEMMA DecideToLockKeeps ==
  ASSUME StreamInv, NEW e \in Xstream, DecideToLock(e)
  PROVE  StreamInv'
<1>1. PICK l \in {"size2", "scan"} : GotoX(e, l) /\ (l = "wake" => reqArg[e] # NoThread)
  BY DEF DecideToLock, GotoX
<1>2. TypeOK'
  <2>1. UNCHANGED <<xstate, xrequest, reqArg, schedState, schedRequest, workCount, dest, woken,
                    running, poolVars, threadVars, localVars>>
    BY DEF DecideToLock, Sized, xstreamVars, loopVars, poolVars, threadVars, localVars
  <2>2. schedLock' \in [Xstream -> BOOLEAN]
    BY DEF DecideToLock, Sized, StreamInv, TypeOK
  <2>3. xpc' \in [Xstream -> XPC]
    BY <1>1 DEF StreamInv, TypeOK, GotoX, XPC
  <2>4. at' \in [Xstream -> Count] /\ \A f \in Xstream : at'[f].nth <= Len(SchedPools[f]) + 1
    BY FirstCountType DEF DecideToLock, Sized, StreamInv, TypeOK
  <2>5. size' \in [Xstream -> Int]
    BY DEF DecideToLock, Sized, StreamInv, TypeOK
  <2> QED
    BY <2>1, <2>2, <2>3, <2>4, <2>5 DEF StreamInv, TypeOK, poolVars, threadVars, localVars
<1>3. xpc[e] \in LoopPC
  BY DEF DecideToLock, Sized, LoopPC, XPC
<1>4. l \in LoopPC \cup {"wake"}
  BY DEF LoopPC, XPC
<1>5. UNCHANGED <<reqArg, dest, woken, running, pool, threadVars, localVars>>
  BY DEF DecideToLock, Sized, xstreamVars, loopVars, poolVars
<1> QED
  BY <1>1, <1>2, <1>3, <1>4, <1>5, LoopKeeps DEF StreamInv

LEMMA DecideToStopKeeps ==
  ASSUME StreamInv, NEW e \in Xstream, DecideToStop(e)
  PROVE  StreamInv'
<1>1. PICK l \in {"stopped", "scan"} : GotoX(e, l) /\ (l = "wake" => reqArg[e] # NoThread)
  BY DEF DecideToStop, GotoX
<1>2. TypeOK'
  <2>1. UNCHANGED <<xstate, xrequest, reqArg, schedRequest, workCount, dest, woken, running,
                    poolVars, threadVars, localVars>>
    BY DEF DecideToStop, Sized, xstreamVars, loopVars, poolVars, threadVars, localVars
  <2>2. schedState' \in [Xstream -> {"READY", "RUNNING", "TERMINATED"}]
    BY DEF DecideToStop, Sized, StreamInv, TypeOK
  <2>3. schedLock' \in [Xstream -> BOOLEAN]
    BY DEF DecideToStop, Sized, StreamInv, TypeOK
  <2>4. xpc' \in [Xstream -> XPC]
    BY <1>1 DEF StreamInv, TypeOK, GotoX, XPC
  <2>5. at' \in [Xstream -> Count] /\ \A f \in Xstream : at'[f].nth <= Len(SchedPools[f]) + 1
    BY FirstCountType DEF DecideToStop, Sized, StreamInv, TypeOK
  <2>6. size' \in [Xstream -> Int]
    BY DEF DecideToStop, Sized, StreamInv, TypeOK
  <2> QED
    BY <2>1, <2>2, <2>3, <2>4, <2>5, <2>6 DEF StreamInv, TypeOK, poolVars, threadVars, localVars
<1>3. xpc[e] \in LoopPC
  BY DEF DecideToStop, Sized, LoopPC, XPC
<1>4. l \in LoopPC \cup {"wake"}
  BY DEF LoopPC, XPC
<1>5. UNCHANGED <<reqArg, dest, woken, running, pool, threadVars, localVars>>
  BY DEF DecideToStop, Sized, xstreamVars, loopVars, poolVars
<1> QED
  BY <1>1, <1>2, <1>3, <1>4, <1>5, LoopKeeps DEF StreamInv

LEMMA SchedStoppedKeeps ==
  ASSUME StreamInv, NEW e \in Xstream, SchedStopped(e)
  PROVE  StreamInv'
<1>1. PICK l \in {"end", "size3", "start"} : GotoX(e, l) /\ (l = "wake" => reqArg[e] # NoThread)
  BY DEF SchedStopped, GotoX
<1>2. TypeOK'
  <2>1. UNCHANGED <<xrequest, reqArg, schedState, schedRequest, loopVars, running, poolVars,
                    threadVars, localVars>>
    BY DEF SchedStopped, xstreamVars, loopVars, poolVars, threadVars, localVars
  <2>2. xstate' \in [Xstream -> {"READY", "RUNNING", "TERMINATED"}]
    BY DEF SchedStopped, StreamInv, TypeOK
  <2>3. schedLock' \in [Xstream -> BOOLEAN]
    BY DEF SchedStopped, StreamInv, TypeOK
  <2>4. xpc' \in [Xstream -> XPC]
    BY <1>1 DEF StreamInv, TypeOK, GotoX, XPC
  <2> QED
    BY <2>1, <2>2, <2>3, <2>4 DEF StreamInv, TypeOK, loopVars, poolVars, threadVars, localVars
<1>3. xpc[e] \in LoopPC
  BY DEF SchedStopped, LoopPC, XPC
<1>4. l \in LoopPC \cup {"wake"}
  BY DEF LoopPC, XPC
<1>5. UNCHANGED <<reqArg, dest, woken, running, pool, threadVars, localVars>>
  BY DEF SchedStopped, xstreamVars, loopVars, poolVars
<1> QED
  BY <1>1, <1>2, <1>3, <1>4, <1>5, LoopKeeps DEF StreamInv

LEMMA DecideToEndKeeps ==
  ASSUME StreamInv, NEW e \in Xstream, DecideToEnd(e)
  PROVE  StreamInv'
<1>1. PICK l \in {"start", "wake", "end"} : GotoX(e, l) /\ (l = "wake" => reqArg[e] # NoThread)
  BY DEF DecideToEnd, GotoX
<1>2. TypeOK'
  <2>1. UNCHANGED <<xstreamVars, workCount, dest, woken, running, poolVars, threadVars, localVars>>
    BY DEF DecideToEnd, Sized, xstreamVars, loopVars, poolVars, threadVars, localVars
  <2>2. xpc' \in [Xstream -> XPC]
    BY <1>1 DEF StreamInv, TypeOK, GotoX, XPC
  <2>3. at' \in [Xstream -> Count] /\ \A f \in Xstream : at'[f].nth <= Len(SchedPools[f]) + 1
    BY FirstCountType DEF DecideToEnd, Sized, StreamInv, TypeOK
  <2>4. size' \in [Xstream -> Int]
    BY DEF DecideToEnd, Sized, StreamInv, TypeOK
  <2> QED
    BY <2>1, <2>2, <2>3, <2>4 DEF StreamInv, TypeOK, xstreamVars, poolVars, threadVars, localVars
<1>3. xpc[e] \in LoopPC
  BY DEF DecideToEnd, Sized, LoopPC, XPC
<1>4. l \in LoopPC \cup {"wake"}
  BY DEF LoopPC, XPC
<1>5. UNCHANGED <<reqArg, dest, woken, running, pool, threadVars, localVars>>
  BY DEF DecideToEnd, Sized, xstreamVars, loopVars, poolVars
<1> QED
  BY <1>1, <1>2, <1>3, <1>4, <1>5, LoopKeeps DEF StreamInv

LEMMA ReadCounterKeeps ==
  ASSUME StreamInv, NEW e \in Xstream, ReadCounter(e)
  PROVE  StreamInv'
<1> DEFINE n == at[e].nth
           p == SchedPools[e][n]
           c == NextCount(e, at[e])
<1>1. /\ at \in [Xstream -> Count] /\ size \in [Xstream -> Int]
      /\ n \in Nat \ {0} /\ n <= Len(SchedPools[e])
      /\ at[e].what \in {"size", "migrations", "blocked"}
  BY DEF ReadCounter, StreamInv, TypeOK, Count
<1>2. p \in Pool
  BY <1>1, ScanOrder
<1>3. Value(at[e].what, p) \in Int
  <2>1. /\ Len(pool[p]) \in Int /\ numMigrations[p] \in Int /\ numBlocked[p] \in Int
    BY <1>2, LenProperties DEF StreamInv, TypeOK
  <2> QED
    BY <2>1, <1>1 DEF Value
<1>4. c \in Count /\ c.nth <= Len(SchedPools[e]) + 1
  <2>1. at[e] \in Count
    BY <1>1
  <2>2. CASE at[e].what = "size"
    BY <2>1, <2>2, <1>1, ScanOrder DEF NextCount, Count
  <2>3. CASE at[e].what = "migrations" /\ CountsBlocked(e, p)
    BY <2>1, <2>3, <1>1, ScanOrder DEF NextCount, Count
  <2>4. CASE at[e].what # "size" /\ ~(at[e].what = "migrations" /\ CountsBlocked(e, p))
    BY <2>1, <2>4, <1>1, ScanOrder DEF NextCount, Count
  <2> QED
    BY <2>2, <2>3, <2>4
<1> HIDE DEF n, p, c
<1>5. at' = [at EXCEPT ![e] = c]
  BY DEF ReadCounter, c
<1>6. size' = [size EXCEPT ![e] = @ + Value(at[e].what, p)]
  BY DEF ReadCounter, p, n
<1>7. UNCHANGED <<xstreamVars, workCount, dest, woken, xpc, running, poolVars, threadVars,
                  localVars>>
  BY DEF ReadCounter
<1>8. TypeOK'
  <2>1. at' \in [Xstream -> Count] /\ \A f \in Xstream : at'[f].nth <= Len(SchedPools[f]) + 1
    BY <1>1, <1>4, <1>5 DEF StreamInv, TypeOK
  <2>2. size' \in [Xstream -> Int]
    BY <1>1, <1>3, <1>6
  <2> QED
    BY <2>1, <2>2, <1>7 DEF StreamInv, TypeOK, xstreamVars, poolVars, threadVars, localVars
<1>9. PartsOK'
  BY <1>7 DEF StreamInv, PartsOK, PoolOK, PoolAt, RunOK, RunAt, OnOK, OnAt, ReqOK, ReqAt,
     PlaceOK, PlaceAt, CallOK, CallAt,
         xstreamVars, poolVars, threadVars, localVars, Runs, InPool, On, Scheds, Blocking, Op
<1> QED
  BY <1>8, <1>9 DEF StreamInv

\* The ULT of an ES is nowhere else.
LEMMA Alone ==
  ASSUME StreamInv, NEW e \in Xstream, NEW u \in Thread, running[e] = u
  PROVE  /\ \A f \in Xstream : running[f] = u => f = e
         /\ \A p \in Pool : ~Contains(pool[p], u)
         /\ xpc[e] \in {"ult", "ret", "migrate"}
         /\ e \in Scheds(home[u])
BY Null DEF StreamInv, PartsOK, RunOK, RunAt, PoolOK, PoolAt, OnOK, OnAt, Runs

LEMMA SchedRunKeeps ==
  ASSUME StreamInv, NEW e \in Xstream, SchedRun(e)
  PROVE  StreamInv'
<1>1. PICK p \in Pool :
        /\ xpc[e] = "scan"
        /\ NextPool(e, p)
        /\ running' = [running EXCEPT ![e] = Head(pool[p])]
        /\ IF "MIGRATE" \in request[Head(pool[p])]
           THEN GotoX(e, "migrate") /\ UNCHANGED state
           ELSE GotoX(e, "ult") /\ state' = [state EXCEPT ![Head(pool[p])] = "RUNNING"]
        /\ Pop(p)
  BY DEF SchedRun
<1>2. PICK u : u = Head(pool[p])
  OBVIOUS
<1>3. UNCHANGED <<xstreamVars, loopVars, numBlocked, numMigrations, request, home, target, pc,
                  calls>>
  BY DEF SchedRun, localVars
<1>4. PICK l \in {"migrate", "ult"} :
        /\ xpc' = [xpc EXCEPT ![e] = l]
        /\ l = "migrate" => "MIGRATE" \in request[u] /\ state' = state
        /\ l = "ult" => state' = [state EXCEPT ![u] = "RUNNING"]
  BY <1>1, <1>2 DEF GotoX
<1>5. /\ pool[p] \in Seq(Thread) /\ pool[p] # <<>>
      /\ pool' = [pool EXCEPT ![p] = Tail(@)]
      /\ running' = [running EXCEPT ![e] = u]
  BY <1>1, <1>2 DEF StreamInv, TypeOK, NextPool, Pop
<1>6. /\ u \in Thread /\ Contains(pool[p], u)
      /\ Tail(pool[p]) \in Seq(Thread)
      /\ \A v : v # u => (Contains(Tail(pool[p]), v) <=> Contains(pool[p], v))
      /\ IsInjective(pool[p]) => IsInjective(Tail(pool[p])) /\ ~Contains(Tail(pool[p]), u)
  BY <1>2, <1>5, PopUnit
<1>7. /\ home[u] = p /\ state[u] = "READY"
      /\ \A f \in Xstream : running[f] # u
      /\ \A q \in Pool : IsInjective(pool[q])
      /\ \A q \in Pool : Contains(pool[q], u) => q = p
  BY <1>6 DEF StreamInv, PartsOK, PoolOK, PoolAt, Runs
<1>8. e \in Scheds(p)
  BY <1>1, ScanOrder DEF NextPool, Scheds, Contains
<1>9. /\ pc[u] \notin OnPC
      /\ "BLOCK" \notin request[u] /\ "TERMINATE" \notin request[u]
  BY <1>6, <1>7 DEF StreamInv, PartsOK, PlaceOK, PlaceAt, ReqOK, ReqAt, On
<1>10. /\ running \in [Xstream -> Thread \cup {NoThread}] /\ xpc \in [Xstream -> XPC]
       /\ pool \in [Pool -> Seq(Thread)]
       /\ state \in [Thread -> {"READY", "RUNNING", "BLOCKED", "TERMINATED"}]
       /\ RunAt(e)
  BY DEF StreamInv, TypeOK, PartsOK, RunOK
<1>11. /\ running[e] = NoThread /\ running'[e] = u /\ u # NoThread
       /\ \A f \in Xstream : f # e => running'[f] = running[f] /\ xpc'[f] = xpc[f]
       /\ xpc[e] = "scan" /\ xpc'[e] = l
  BY <1>1, <1>4, <1>5, <1>6, <1>10, Null DEF RunAt
<1>12. /\ \A q \in Pool : IsInjective(pool'[q])
       /\ \A q \in Pool, v \in Thread : Contains(pool'[q], v) <=> Contains(pool[q], v) /\ v # u
  BY <1>5, <1>6, <1>7, <1>10
<1>13. /\ \A v \in Thread : v # u => state'[v] = state[v]
       /\ state'[u] = IF l = "ult" THEN "RUNNING" ELSE "READY"
  BY <1>4, <1>6, <1>7, <1>10
<1>14. TypeOK'
  <2>1. xpc' \in [Xstream -> XPC]
    BY <1>4, <1>10 DEF XPC
  <2>2. running' \in [Xstream -> Thread \cup {NoThread}]
    BY <1>5, <1>6, <1>10
  <2>3. pool' \in [Pool -> Seq(Thread)]
    BY <1>5, <1>6, <1>10
  <2>4. state' \in [Thread -> {"READY", "RUNNING", "BLOCKED", "TERMINATED"}]
    BY <1>4, <1>6, <1>10
  <2> QED
    BY <2>1, <2>2, <2>3, <2>4, <1>3 DEF StreamInv, TypeOK, xstreamVars, loopVars
<1>15. UNCHANGED <<reqArg, dest, woken, request, home, target, pc, calls>>
  BY <1>3 DEF xstreamVars, loopVars
<1>16. RunAt(e)'
  BY <1>4, <1>10, <1>11, <1>15 DEF RunAt
<1>17. PoolAt(u)'
  BY <1>6, <1>12 DEF PoolAt
<1>18. \A f \in Xstream : running'[f] = u => OnAt(f, u)'
  <2> SUFFICES OnAt(e, u)'
    BY <1>7, <1>11
  <2> QED
    BY <1>4, <1>7, <1>8, <1>9, <1>11, <1>13, <1>15 DEF OnAt, Blocking, OnPC, Scheds
<1>19. ReqAt(u)'
  BY <1>6, <1>9, <1>15 DEF StreamInv, PartsOK, ReqOK, ReqAt
<1>20. PlaceAt(u)'
  BY <1>9, <1>11, <1>13, <1>15 DEF PlaceAt, Runs, OnPC
<1>21. CallAt(u)'
  BY <1>6, <1>15 DEF StreamInv, PartsOK, CallOK, CallAt, Op
<1>22. StepOf(e, {u})
  BY <1>7, <1>11, <1>12, <1>13, <1>15 DEF StepOf
<1>23. ThreadOK(u)'
  BY <1>17, <1>18, <1>19, <1>20, <1>21 DEF ThreadOK
<1>24. PartsOK'
  BY <1>6, <1>16, <1>22, <1>23, StepKeeps
<1> QED
  BY <1>14, <1>24 DEF StreamInv

LEMMA PushKeeps ==
  ASSUME StreamInv, NEW u \in Thread, NEW p \in Pool, Push(u, p),
         \A q \in Pool : ~Contains(pool[q], u)
  PROVE  /\ pool' \in [Pool -> Seq(Thread)]
         /\ \A q \in Pool : IsInjective(pool'[q])
         /\ \A q \in Pool, v \in Thread :
              Contains(pool'[q], v) <=> Contains(pool[q], v) \/ (q = p /\ v = u)
<1>1. /\ pool \in [Pool -> Seq(Thread)]
      /\ \A q \in Pool : IsInjective(pool[q])
  BY DEF StreamInv, TypeOK, PartsOK, PoolOK
<1>2. pool' = [pool EXCEPT ![p] = Append(@, u)]
  BY DEF Push
<1>3. /\ Append(pool[p], u) \in Seq(Thread)
      /\ \A v : Contains(Append(pool[p], u), v) <=> Contains(pool[p], v) \/ v = u
      /\ IsInjective(Append(pool[p], u))
  BY <1>1, PushUnit
<1> QED
  BY <1>1, <1>2, <1>3

\* Types of what the steps of an ES and its ULT read.
LEMMA Types ==
  ASSUME StreamInv
  PROVE  /\ running \in [Xstream -> Thread \cup {NoThread}] /\ xpc \in [Xstream -> XPC]
         /\ dest \in [Xstream -> Pool \cup {NoPool}] /\ woken \in [Xstream -> Thread \cup {NoThread}]
         /\ reqArg \in [Xstream -> Thread \cup {NoThread}]
         /\ pool \in [Pool -> Seq(Thread)]
         /\ state \in [Thread -> {"READY", "RUNNING", "BLOCKED", "TERMINATED"}]
         /\ request \in [Thread -> SUBSET {"TERMINATE", "BLOCK", "MIGRATE"}]
         /\ home \in [Thread -> Pool] /\ target \in [Thread -> Pool \cup {NoPool}]
         /\ numBlocked \in [Pool -> Int] /\ numMigrations \in [Pool -> Int]
         /\ pc \in [Thread -> PC] /\ calls \in [Thread -> Seq(Call)]
BY DEF StreamInv, TypeOK

\* An ES that executes or handles a ULT.
LEMMA Running ==
  ASSUME StreamInv, NEW e \in Xstream, xpc[e] \in {"ult", "ret", "migrate"}
  PROVE  /\ running[e] \in Thread
         /\ \A f \in Xstream : running[f] = running[e] => f = e
         /\ \A p \in Pool : ~Contains(pool[p], running[e])
         /\ OnAt(e, running[e]) /\ ThreadOK(running[e])
<1>1. running[e] \in Thread
  BY Types DEF StreamInv, PartsOK, RunOK, RunAt
<1>2. OnAt(e, running[e]) /\ ThreadOK(running[e])
  BY <1>1 DEF StreamInv, PartsOK, OnOK, PoolOK, ReqOK, PlaceOK, CallOK, ThreadOK
<1> QED
  BY <1>1, <1>2, Alone

\* An ES lets go of its ULT u.
LEMMA LetGo ==
  ASSUME StreamInv, NEW e \in Xstream, xpc[e] \in {"ret", "migrate"},
         NEW l \in {"count", "migrate_dec"},
         NEW u, u = running[e],
         running' = [running EXCEPT ![e] = NoThread], GotoX(e, l), UNCHANGED <<reqArg, woken>>,
         dest'[e] # NoPool <=> l = "migrate_dec"
  PROVE  /\ xpc' \in [Xstream -> XPC] /\ running' \in [Xstream -> Thread \cup {NoThread}]
         /\ \A f \in Xstream : running'[f] # u
         /\ ~Runs(u)'
         /\ \A f \in Xstream : f # e => running'[f] = running[f] /\ xpc'[f] = xpc[f]
         /\ running'[e] = NoThread
         /\ RunAt(e)'
<1>1. running[e] \in Thread /\ \A f \in Xstream : running[f] = running[e] => f = e
  BY Running
<1>2. /\ xpc' \in [Xstream -> XPC] /\ running' \in [Xstream -> Thread \cup {NoThread}]
      /\ \A f \in Xstream : f # e => running'[f] = running[f] /\ xpc'[f] = xpc[f]
      /\ running'[e] = NoThread /\ xpc'[e] = l
  BY Types DEF GotoX, XPC
<1>3. \A f \in Xstream : running'[f] # u
  BY <1>1, <1>2, Null
<1>4. RunAt(e)'
  BY <1>2 DEF StreamInv, PartsOK, RunOK, RunAt
<1> QED
  BY <1>2, <1>3, <1>4 DEF Runs

LEMMA ReturnTerminatedKeeps ==
  ASSUME StreamInv, NEW e \in Xstream, ReturnTerminated(e)
  PROVE  StreamInv'
<1>1. PICK u \in Thread : u = running[e]
  BY Running DEF ReturnTerminated
<1>2. /\ xpc[e] = "ret" /\ "TERMINATE" \in request[u]
      /\ state' = [state EXCEPT ![u] = "TERMINATED"]
      /\ running' = [running EXCEPT ![e] = NoThread]
      /\ GotoX(e, "count")
  BY <1>1 DEF ReturnTerminated
<1>3. UNCHANGED <<xstreamVars, loopVars, poolVars, request, home, target, localVars>>
  BY DEF ReturnTerminated
<1>4. UNCHANGED <<reqArg, dest, woken, pool, request, home, target, pc, calls>>
  BY <1>3 DEF xstreamVars, loopVars, poolVars, localVars
<1>5. /\ \A p \in Pool : ~Contains(pool[p], u)
      /\ OnAt(e, u) /\ ThreadOK(u)
  BY <1>1, <1>2, Running
<1>6. /\ xpc' \in [Xstream -> XPC] /\ running' \in [Xstream -> Thread \cup {NoThread}]
      /\ \A f \in Xstream : running'[f] # u
      /\ ~Runs(u)'
      /\ \A f \in Xstream : f # e => running'[f] = running[f] /\ xpc'[f] = xpc[f]
      /\ running'[e] = NoThread
      /\ RunAt(e)'
  <2>1. dest[e] = NoPool
    BY <1>2 DEF StreamInv, PartsOK, RunOK, RunAt
  <2> QED
    BY <2>1, <1>1, <1>2, <1>4, LetGo, "count" # "migrate_dec"
<1>7. /\ state' \in [Thread -> {"READY", "RUNNING", "BLOCKED", "TERMINATED"}]
      /\ state'[u] = "TERMINATED"
      /\ \A v \in Thread : v # u => state'[v] = state[v]
  BY <1>2, Types
<1>8. TypeOK'
  BY <1>3, <1>6, <1>7 DEF StreamInv, TypeOK, xstreamVars, loopVars, poolVars, localVars
<1>9. ThreadOK(u)'
  <2>1. PoolAt(u)'
    BY <1>4, <1>5 DEF PoolAt
  <2>2. ReqAt(u)'
    BY <1>2, <1>4, <1>5, <1>7 DEF ThreadOK, ReqAt, OnAt
  <2>3. PlaceAt(u)'
    BY <1>2, <1>4, <1>5, <1>6, <1>7 DEF ThreadOK, OnAt, PlaceAt, OnPC
  <2>4. CallAt(u)'
    BY <1>4, <1>5 DEF ThreadOK, CallAt, Op
  <2> QED
    BY <2>1, <2>2, <2>3, <2>4, <1>6 DEF ThreadOK
<1>10. StepOf(e, {u})
  BY <1>1, <1>4, <1>6, <1>7 DEF StepOf
<1> QED
  BY <1>6, <1>8, <1>9, <1>10, StepKeeps DEF StreamInv

LEMMA ReturnYieldedKeeps ==
  ASSUME StreamInv, NEW e \in Xstream, ReturnYielded(e)
  PROVE  StreamInv'
<1>1. PICK u \in Thread : u = running[e]
  BY Running DEF ReturnYielded
<1>2. PICK p \in Pool : p = home[u]
  BY Types
<1>3. /\ xpc[e] = "ret" /\ request[u] = {}
      /\ state' = [state EXCEPT ![u] = "READY"]
      /\ Push(u, p)
      /\ running' = [running EXCEPT ![e] = NoThread]
      /\ GotoX(e, "count")
  BY <1>1, <1>2 DEF ReturnYielded, MakeReady
<1>4. UNCHANGED <<xstreamVars, loopVars, numBlocked, numMigrations, request, home, target,
                  localVars>>
  BY DEF ReturnYielded
<1>5. UNCHANGED <<reqArg, dest, woken, request, home, target, pc, calls>>
  BY <1>4 DEF xstreamVars, loopVars, localVars
<1>6. /\ \A q \in Pool : ~Contains(pool[q], u)
      /\ OnAt(e, u) /\ ThreadOK(u)
  BY <1>1, <1>3, Running
<1>7. /\ xpc' \in [Xstream -> XPC] /\ running' \in [Xstream -> Thread \cup {NoThread}]
      /\ \A f \in Xstream : running'[f] # u
      /\ ~Runs(u)'
      /\ \A f \in Xstream : f # e => running'[f] = running[f] /\ xpc'[f] = xpc[f]
      /\ running'[e] = NoThread
      /\ RunAt(e)'
  <2>1. dest[e] = NoPool
    BY <1>3 DEF StreamInv, PartsOK, RunOK, RunAt
  <2> QED
    BY <2>1, <1>1, <1>3, <1>5, LetGo, "count" # "migrate_dec"
<1>8. /\ pool' \in [Pool -> Seq(Thread)]
      /\ \A q \in Pool : IsInjective(pool'[q])
      /\ \A q \in Pool, v \in Thread :
           Contains(pool'[q], v) <=> Contains(pool[q], v) \/ (q = p /\ v = u)
  BY <1>3, <1>6, PushKeeps
<1>9. /\ state' \in [Thread -> {"READY", "RUNNING", "BLOCKED", "TERMINATED"}]
      /\ state'[u] = "READY"
      /\ \A v \in Thread : v # u => state'[v] = state[v]
  BY <1>3, Types
<1>10. TypeOK'
  BY <1>4, <1>7, <1>8, <1>9 DEF StreamInv, TypeOK, xstreamVars, loopVars, localVars
<1>11. ThreadOK(u)'
  <2>1. PoolAt(u)'
    BY <1>2, <1>5, <1>6, <1>7, <1>8, <1>9 DEF PoolAt
  <2>2. ReqAt(u)'
    BY <1>3, <1>5 DEF ReqAt
  <2>3. PlaceAt(u)'
    BY <1>3, <1>5, <1>6, <1>8, <1>9 DEF OnAt, PlaceAt, InPool, OnPC
  <2>4. CallAt(u)'
    BY <1>5, <1>6 DEF ThreadOK, CallAt, Op
  <2> QED
    BY <2>1, <2>2, <2>3, <2>4, <1>7 DEF ThreadOK
<1>12. StepOf(e, {u})
  BY <1>1, <1>5, <1>7, <1>8, <1>9 DEF StepOf
<1> QED
  BY <1>7, <1>10, <1>11, <1>12, StepKeeps DEF StreamInv

LEMMA ReturnBlockedKeeps ==
  ASSUME StreamInv, NEW e \in Xstream, ReturnBlocked(e)
  PROVE  StreamInv'
<1>1. PICK u \in Thread : u = running[e]
  BY Running DEF ReturnBlocked
<1>2. /\ xpc[e] = "ret" /\ "BLOCK" \in request[u]
      /\ request' = [request EXCEPT ![u] = @ \ {"BLOCK"}]
      /\ running' = [running EXCEPT ![e] = NoThread]
      /\ GotoX(e, "count")
  BY <1>1 DEF ReturnBlocked
<1>3. UNCHANGED <<xstreamVars, loopVars, poolVars, state, home, target, localVars>>
  BY DEF ReturnBlocked
<1>4. UNCHANGED <<reqArg, dest, woken, pool, state, home, target, pc, calls>>
  BY <1>3 DEF xstreamVars, loopVars, poolVars, localVars
<1>5. /\ \A p \in Pool : ~Contains(pool[p], u)
      /\ OnAt(e, u) /\ ThreadOK(u)
  BY <1>1, <1>2, Running
<1>6. /\ xpc' \in [Xstream -> XPC] /\ running' \in [Xstream -> Thread \cup {NoThread}]
      /\ \A f \in Xstream : running'[f] # u
      /\ ~Runs(u)'
      /\ \A f \in Xstream : f # e => running'[f] = running[f] /\ xpc'[f] = xpc[f]
      /\ running'[e] = NoThread
      /\ RunAt(e)'
  <2>1. dest[e] = NoPool
    BY <1>2 DEF StreamInv, PartsOK, RunOK, RunAt
  <2> QED
    BY <2>1, <1>1, <1>2, <1>4, LetGo, "count" # "migrate_dec"
<1>7. /\ request' \in [Thread -> SUBSET {"TERMINATE", "BLOCK", "MIGRATE"}]
      /\ request'[u] = request[u] \ {"BLOCK"}
      /\ \A v \in Thread : v # u => request'[v] = request[v]
  BY <1>2, Types
<1>8. TypeOK'
  BY <1>3, <1>6, <1>7 DEF StreamInv, TypeOK, xstreamVars, loopVars, poolVars, localVars
<1>9. state[u] = "BLOCKED" /\ "TERMINATE" \notin request[u] /\ pc[u] \notin OnPC
  <2>1. state[u] = "BLOCKED" /\ pc[u] \notin OnPC
    BY <1>2, <1>5 DEF OnAt, ThreadOK, ReqAt
  <2>2. "TERMINATE" \notin request[u]
    BY <2>1, <1>2, <1>5 DEF OnAt
  <2> QED
    BY <2>1, <2>2
<1>10. ThreadOK(u)'
  <2>1. PoolAt(u)'
    BY <1>4, <1>5 DEF PoolAt
  <2>2. ReqAt(u)'
    BY <1>4, <1>5, <1>7, <1>9 DEF ThreadOK, ReqAt
  <2>3. PlaceAt(u)'
    BY <1>4, <1>9 DEF PlaceAt, OnPC
  <2>4. CallAt(u)'
    BY <1>4, <1>5 DEF ThreadOK, CallAt, Op
  <2> QED
    BY <2>1, <2>2, <2>3, <2>4, <1>6 DEF ThreadOK
<1>11. StepOf(e, {u})
  BY <1>1, <1>4, <1>6, <1>7 DEF StepOf
<1> QED
  BY <1>6, <1>8, <1>10, <1>11, StepKeeps DEF StreamInv

LEMMA ReturnMigratingKeeps ==
  ASSUME StreamInv, NEW e \in Xstream, ReturnMigrating(e)
  PROVE  StreamInv'
<1>1. PICK u \in Thread : u = running[e]
  BY Running DEF ReturnMigrating
<1>2. /\ xpc[e] = "ret" /\ request[u] = {"MIGRATE"}
      /\ xpc' = [xpc EXCEPT ![e] = "migrate"]
  BY <1>1 DEF ReturnMigrating, GotoX
<1>3. UNCHANGED <<xstreamVars, loopVars, running, poolVars, threadVars, localVars>>
  BY DEF ReturnMigrating
<1>4. UNCHANGED <<reqArg, dest, woken, running, pool, state, request, home, target, pc, calls>>
  BY <1>3 DEF xstreamVars, loopVars, poolVars, threadVars, localVars
<1>5. /\ \A f \in Xstream : running[f] = u => f = e
      /\ OnAt(e, u) /\ ThreadOK(u)
  BY <1>1, <1>2, Running
<1>6. /\ xpc' \in [Xstream -> XPC] /\ xpc'[e] = "migrate"
      /\ \A f \in Xstream : f # e => xpc'[f] = xpc[f]
  BY <1>2, Types DEF XPC
<1>7. TypeOK'
  BY <1>3, <1>6 DEF StreamInv, TypeOK, xstreamVars, loopVars, poolVars, threadVars, localVars
<1>8. RunAt(e)'
  BY <1>2, <1>4, <1>6 DEF StreamInv, PartsOK, RunOK, RunAt
<1>9. ThreadOK(u)'
  <2>1. PoolAt(u)'
    BY <1>4, <1>5 DEF ThreadOK, PoolAt, Runs
  <2>2. ReqAt(u)'
    BY <1>2, <1>4, <1>5 DEF ThreadOK, ReqAt
  <2>3. PlaceAt(u)'
    BY <1>2, <1>4, <1>5, <1>6 DEF ThreadOK, OnAt, PlaceAt, Runs, InPool, OnPC
  <2>4. CallAt(u)'
    BY <1>4, <1>5 DEF ThreadOK, CallAt, Op
  <2>5. OnAt(e, u)'
    BY <1>2, <1>4, <1>5, <1>6 DEF OnAt, Scheds
  <2> QED
    BY <2>1, <2>2, <2>3, <2>4, <2>5, <1>4, <1>5 DEF ThreadOK
<1>10. StepOf(e, {u})
  BY <1>1, <1>4, <1>5, <1>6 DEF StepOf
<1> QED
  BY <1>7, <1>8, <1>9, <1>10, StepKeeps DEF StreamInv

\* A ULT that is to be migrated has a pool to go to, which is none that it is in.
LEMMA MigrateKeeps ==
  ASSUME StreamInv, NEW e \in Xstream, Migrate(e)
  PROVE  StreamInv'
<1>1. PICK u \in Thread : u = running[e]
  BY Running DEF Migrate
<1>2. PICK p : p = target[u]
  OBVIOUS
<1>3. /\ xpc[e] = "migrate"
      /\ home' = [home EXCEPT ![u] = p]
      /\ Push(u, p)
      /\ request' = [request EXCEPT ![u] = @ \ {"MIGRATE"}]
      /\ target' = [target EXCEPT ![u] = NoPool]
      /\ dest' = [dest EXCEPT ![e] = p]
      /\ running' = [running EXCEPT ![e] = NoThread]
      /\ GotoX(e, "migrate_dec")
  BY <1>1, <1>2 DEF Migrate
<1>4. UNCHANGED <<xstreamVars, workCount, at, size, woken, numBlocked, numMigrations, state,
                  localVars>>
  BY DEF Migrate
<1>5. UNCHANGED <<reqArg, woken, state, pc, calls>>
  BY <1>4 DEF xstreamVars, localVars
<1>6. /\ \A q \in Pool : ~Contains(pool[q], u)
      /\ OnAt(e, u) /\ ThreadOK(u)
  BY <1>1, <1>3, Running
<1>7. p \in Pool
  <2>1. target[u] # NoPool
    BY <1>3, <1>6 DEF OnAt, ThreadOK, ReqAt
  <2> QED
    BY <2>1, <1>2, Types
<1>8. /\ dest' \in [Xstream -> Pool \cup {NoPool}]
      /\ dest'[e] = p
      /\ \A f \in Xstream : f # e => dest'[f] = dest[f]
  BY <1>3, <1>7, Types
<1>9. /\ xpc' \in [Xstream -> XPC] /\ running' \in [Xstream -> Thread \cup {NoThread}]
      /\ \A f \in Xstream : running'[f] # u
      /\ ~Runs(u)'
      /\ \A f \in Xstream : f # e => running'[f] = running[f] /\ xpc'[f] = xpc[f]
      /\ running'[e] = NoThread
      /\ RunAt(e)'
  <2>1. dest'[e] # NoPool
    BY <1>7, <1>8, Null
  <2> QED
    BY <2>1, <1>1, <1>3, <1>5, LetGo
<1>10. /\ pool' \in [Pool -> Seq(Thread)]
       /\ \A q \in Pool : IsInjective(pool'[q])
       /\ \A q \in Pool, v \in Thread :
            Contains(pool'[q], v) <=> Contains(pool[q], v) \/ (q = p /\ v = u)
  BY <1>3, <1>6, <1>7, PushKeeps
<1>11. /\ home' \in [Thread -> Pool]
       /\ home'[u] = p
       /\ \A v \in Thread : v # u => home'[v] = home[v]
  BY <1>3, <1>7, Types
<1>12. /\ request' \in [Thread -> SUBSET {"TERMINATE", "BLOCK", "MIGRATE"}]
       /\ request'[u] = request[u] \ {"MIGRATE"}
       /\ \A v \in Thread : v # u => request'[v] = request[v]
  BY <1>3, Types
<1>13. /\ target' \in [Thread -> Pool \cup {NoPool}]
       /\ \A v \in Thread : v # u => target'[v] = target[v]
  BY <1>3, Types
<1>14. TypeOK'
  BY <1>4, <1>8, <1>9, <1>10, <1>11, <1>12, <1>13
  DEF StreamInv, TypeOK, xstreamVars, localVars
<1>15. /\ state[u] = "READY" /\ pc[u] \notin OnPC
       /\ "BLOCK" \notin request[u] /\ "TERMINATE" \notin request[u]
  <2>1. state[u] = "READY" /\ pc[u] \notin OnPC
    BY <1>3, <1>6 DEF OnAt
  <2>2. \A f \in Xstream : running[f] = u => xpc[f] = "migrate"
    BY <1>1, <1>3, Running
  <2> QED
    BY <2>1, <2>2, <1>6 DEF ThreadOK, ReqAt
<1>16. ThreadOK(u)'
  <2>1. PoolAt(u)'
    BY <1>5, <1>6, <1>9, <1>10, <1>11, <1>15 DEF PoolAt
  <2>2. ReqAt(u)'
    BY <1>12, <1>15 DEF ReqAt
  <2>3. PlaceAt(u)'
    BY <1>5, <1>7, <1>10, <1>15 DEF PlaceAt, InPool, OnPC
  <2>4. CallAt(u)'
    BY <1>5, <1>6 DEF ThreadOK, CallAt, Op
  <2> QED
    BY <2>1, <2>2, <2>3, <2>4, <1>9 DEF ThreadOK
<1>17. StepOf(e, {u})
  BY <1>1, <1>5, <1>8, <1>9, <1>10, <1>11, <1>12, <1>13 DEF StepOf
<1> QED
  BY <1>9, <1>14, <1>16, <1>17, StepKeeps DEF StreamInv

LEMMA MigrateDecKeeps ==
  ASSUME StreamInv, NEW e \in Xstream, MigrateDec(e)
  PROVE  StreamInv'
<1>1. /\ xpc[e] = "migrate_dec"
      /\ numMigrations' = [numMigrations EXCEPT ![dest[e]] = @ - 1]
      /\ dest' = [dest EXCEPT ![e] = NoPool]
      /\ xpc' = [xpc EXCEPT ![e] = "count"]
  BY DEF MigrateDec, DecMigrations, GotoX
<1>2. UNCHANGED <<xstreamVars, workCount, at, size, woken, running, pool, numBlocked, threadVars,
                  localVars>>
  BY DEF MigrateDec
<1>3. UNCHANGED <<reqArg, woken, running, pool, state, request, home, target, pc, calls>>
  BY <1>2 DEF xstreamVars, threadVars, localVars
<1>4. /\ xpc' \in [Xstream -> XPC] /\ xpc'[e] = "count"
      /\ dest' \in [Xstream -> Pool \cup {NoPool}] /\ dest'[e] = NoPool
      /\ \A f \in Xstream : f # e => xpc'[f] = xpc[f] /\ dest'[f] = dest[f]
  BY <1>1, Types DEF XPC
<1>5. numMigrations' \in [Pool -> Int]
  <2>1. dest[e] \in Pool
    BY <1>1, Types DEF StreamInv, PartsOK, RunOK, RunAt
  <2> QED
    BY <2>1, <1>1, Types
<1>6. TypeOK'
  BY <1>2, <1>4, <1>5 DEF StreamInv, TypeOK, xstreamVars, threadVars, localVars
<1>7. running[e] = NoThread /\ RunAt(e)'
  BY <1>1, <1>3, <1>4 DEF StreamInv, PartsOK, RunOK, RunAt
<1>8. StepOf(e, {})
  BY <1>3, <1>4, <1>7 DEF StepOf
<1> QED
  BY <1>6, <1>7, <1>8, StepKeeps DEF StreamInv

\* A ULT that is made READY is in no pool and on no ES: it has blocked, and the scheduler
\* of its ES knows.
LEMMA Wakeable ==
  ASSUME StreamInv, NEW w \in Thread, CanSetReady(w)
  PROVE  /\ \A f \in Xstream : running[f] # w
         /\ \A p \in Pool : ~Contains(pool[p], w)
         /\ ThreadOK(w) /\ pc[w] \notin OnPC
         /\ "BLOCK" \notin request[w] /\ "TERMINATE" \notin request[w]
<1>1. state[w] = "BLOCKED" /\ "BLOCK" \notin request[w]
  BY DEF CanSetReady
<1>2. ASSUME NEW f \in Xstream, running[f] = w PROVE FALSE
  <2>1. xpc[f] \in {"ult", "ret", "migrate"}
    BY <1>2, Alone
  <2>2. OnAt(f, w)
    BY <2>1, <1>2, Running
  <2> QED
    BY <2>1, <2>2, <1>1 DEF OnAt
<1>3. ThreadOK(w)
  BY DEF StreamInv, PartsOK, OnOK, PoolOK, ReqOK, PlaceOK, CallOK, ThreadOK
<1> QED
  BY <1>1, <1>2, <1>3 DEF ThreadOK, PoolAt, PlaceAt, ReqAt, On

LEMMA WakeKeeps ==
  ASSUME StreamInv, NEW w \in Thread, CanSetReady(w), MakeReady(w),
         UNCHANGED <<running, request, home, target, pc, calls>>
  PROVE  /\ pool' \in [Pool -> Seq(Thread)]
         /\ state' \in [Thread -> {"READY", "RUNNING", "BLOCKED", "TERMINATED"}]
         /\ \A q \in Pool : IsInjective(pool'[q])
         /\ \A v \in Thread : v # w =>
              /\ state'[v] = state[v]
              /\ \A q \in Pool : Contains(pool'[q], v) <=> Contains(pool[q], v)
         /\ state'[w] = "READY" /\ Contains(pool'[home[w]], w)
         /\ ThreadOK(w)'
<1>1. PICK p \in Pool : p = home[w]
  BY Types
<1>2. state' = [state EXCEPT ![w] = "READY"] /\ Push(w, p)
  BY <1>1 DEF MakeReady
<1>3. /\ \A f \in Xstream : running[f] # w
      /\ \A q \in Pool : ~Contains(pool[q], w)
      /\ ThreadOK(w) /\ pc[w] \notin OnPC
      /\ "BLOCK" \notin request[w] /\ "TERMINATE" \notin request[w]
  BY Wakeable
<1>4. /\ pool' \in [Pool -> Seq(Thread)]
      /\ \A q \in Pool : IsInjective(pool'[q])
      /\ \A q \in Pool, v \in Thread :
           Contains(pool'[q], v) <=> Contains(pool[q], v) \/ (q = p /\ v = w)
  BY <1>2, <1>3, PushKeeps
<1>5. /\ state' \in [Thread -> {"READY", "RUNNING", "BLOCKED", "TERMINATED"}]
      /\ state'[w] = "READY"
      /\ \A v \in Thread : v # w => state'[v] = state[v]
  BY <1>2, Types
<1>6. ThreadOK(w)'
  <2>1. PoolAt(w)'
    BY <1>1, <1>3, <1>4, <1>5 DEF PoolAt, Runs
  <2>2. ReqAt(w)'
    BY <1>3 DEF ThreadOK, ReqAt
  <2>3. PlaceAt(w)'
    BY <1>3, <1>4, <1>5 DEF PlaceAt, InPool, OnPC
  <2>4. CallAt(w)'
    BY <1>3 DEF ThreadOK, CallAt, Op
  <2> QED
    BY <2>1, <2>2, <2>3, <2>4, <1>3 DEF ThreadOK
<1> QED
  BY <1>1, <1>4, <1>5, <1>6

LEMMA WakeJoinerKeeps ==
  ASSUME StreamInv, NEW e \in Xstream, WakeJoiner(e)
  PROVE  StreamInv'
<1>1. PICK w \in Thread : w = reqArg[e]
  BY Types DEF WakeJoiner, StreamInv, PartsOK, RunOK, RunAt
<1>2. /\ xpc[e] = "wake" /\ CanSetReady(w) /\ MakeReady(w)
      /\ woken' = [woken EXCEPT ![e] = w]
      /\ xpc' = [xpc EXCEPT ![e] = "wake_dec"]
  BY <1>1 DEF WakeJoiner, GotoX
<1>3. UNCHANGED <<xstreamVars, workCount, at, size, dest, running, numBlocked, numMigrations,
                  request, home, target, localVars>>
  BY DEF WakeJoiner
<1>4. UNCHANGED <<reqArg, dest, running, request, home, target, pc, calls>>
  BY <1>3 DEF xstreamVars, localVars
<1>5. /\ pool' \in [Pool -> Seq(Thread)]
      /\ state' \in [Thread -> {"READY", "RUNNING", "BLOCKED", "TERMINATED"}]
      /\ \A q \in Pool : IsInjective(pool'[q])
      /\ \A v \in Thread : v # w =>
           /\ state'[v] = state[v]
           /\ \A q \in Pool : Contains(pool'[q], v) <=> Contains(pool[q], v)
      /\ ThreadOK(w)'
  BY <1>2, <1>4, WakeKeeps
<1>6. /\ xpc' \in [Xstream -> XPC] /\ xpc'[e] = "wake_dec"
      /\ woken' \in [Xstream -> Thread \cup {NoThread}] /\ woken'[e] = w
      /\ \A f \in Xstream : f # e => xpc'[f] = xpc[f] /\ woken'[f] = woken[f]
  BY <1>2, Types DEF XPC
<1>7. TypeOK'
  BY <1>3, <1>5, <1>6 DEF StreamInv, TypeOK, xstreamVars, localVars
<1>8. running[e] = NoThread /\ RunAt(e)'
  BY <1>1, <1>2, <1>4, <1>6, Null DEF StreamInv, PartsOK, RunOK, RunAt
<1>9. StepOf(e, {w})
  BY <1>4, <1>5, <1>6, <1>8 DEF StepOf
<1> QED
  BY <1>5, <1>7, <1>8, <1>9, StepKeeps DEF StreamInv

LEMMA WakeJoinerDecKeeps ==
  ASSUME StreamInv, NEW e \in Xstream, WakeJoinerDec(e)
  PROVE  StreamInv'
<1>1. /\ xpc[e] = "wake_dec"
      /\ numBlocked' = [numBlocked EXCEPT ![home[woken[e]]] = @ - 1]
      /\ woken' = [woken EXCEPT ![e] = NoThread]
      /\ reqArg' = [reqArg EXCEPT ![e] = NoThread]
      /\ xpc' = [xpc EXCEPT ![e] = "end"]
  BY DEF WakeJoinerDec, DecBlocked, GotoX
<1>2. UNCHANGED <<xstate, xrequest, schedState, schedRequest, schedLock, workCount, at, size,
                  dest, running, pool, numMigrations, threadVars, localVars>>
  BY DEF WakeJoinerDec
<1>3. UNCHANGED <<dest, running, pool, state, request, home, target, pc, calls>>
  BY <1>2 DEF threadVars, localVars
<1>4. /\ xpc' \in [Xstream -> XPC] /\ xpc'[e] = "end"
      /\ woken' \in [Xstream -> Thread \cup {NoThread}] /\ woken'[e] = NoThread
      /\ reqArg' \in [Xstream -> Thread \cup {NoThread}]
      /\ \A f \in Xstream : f # e =>
           xpc'[f] = xpc[f] /\ woken'[f] = woken[f] /\ reqArg'[f] = reqArg[f]
  BY <1>1, Types DEF XPC
<1>5. numBlocked' \in [Pool -> Int]
  <2>1. home[woken[e]] \in Pool
    BY <1>1, Types DEF StreamInv, PartsOK, RunOK, RunAt
  <2> QED
    BY <2>1, <1>1, Types
<1>6. TypeOK'
  BY <1>2, <1>4, <1>5 DEF StreamInv, TypeOK, threadVars, localVars
<1>7. running[e] = NoThread /\ RunAt(e)'
  BY <1>1, <1>3, <1>4 DEF StreamInv, PartsOK, RunOK, RunAt
<1>8. StepOf(e, {})
  BY <1>3, <1>4, <1>7 DEF StepOf
<1> QED
  BY <1>6, <1>7, <1>8, StepKeeps DEF StreamInv

(***************************************************************************)
(* The steps of a ULT.                                                     *)
(***************************************************************************)

LEMMA UltOn ==
  ASSUME StreamInv, NEW e \in Xstream, NEW u \in Thread, On(u, e)
  PROVE  /\ running[e] = u /\ xpc[e] = "ult"
         /\ \A f \in Xstream : running[f] = u => f = e
         /\ \A p \in Pool : ~Contains(pool[p], u)
         /\ e \in Scheds(home[u]) /\ ThreadOK(u)
         /\ "TERMINATE" \notin request[u] /\ state[u] # "TERMINATED"
         /\ Blocking(u) => state[u] = "BLOCKED" /\ "BLOCK" \in request[u]
         /\ ~Blocking(u) => state[u] = "RUNNING" /\ "BLOCK" \notin request[u]
<1>1. running[e] = u /\ xpc[e] = "ult"
  BY DEF On
<1>2. /\ \A f \in Xstream : running[f] = u => f = e
      /\ \A p \in Pool : ~Contains(pool[p], u)
      /\ OnAt(e, u) /\ ThreadOK(u)
  BY <1>1, Running
<1>3. state[u] # "TERMINATED" /\ "TERMINATE" \notin request[u]
  BY <1>1, <1>2 DEF ThreadOK, PlaceAt, ReqAt, Runs
<1>4. "BLOCK" \in request[u] => state[u] = "BLOCKED"
  BY <1>2 DEF ThreadOK, ReqAt
<1> QED
  BY <1>1, <1>2, <1>3, <1>4 DEF OnAt

\* A call that returns.
LEMMA ReturnsKeeps ==
  ASSUME StreamInv, NEW e \in Xstream, NEW u \in Thread, On(u, e),
         calls[u] # <<>>, ~Blocking(u), Returns(u),
         UNCHANGED <<reqArg, xpc, running, pool, threadVars, dest, woken>>
  PROVE  PartsOK' /\ pc' \in [Thread -> PC] /\ calls' \in [Thread -> Seq(Call)]
<1>1. /\ pc' = [pc EXCEPT ![u] = "call"]
      /\ calls' = [calls EXCEPT ![u] = Tail(@)]
      /\ "call" \in PC
  BY DEF Returns, PC
<1>2. /\ pc' \in [Thread -> PC] /\ pc'[u] = "call"
      /\ calls' \in [Thread -> Seq(Call)]
      /\ \A v \in Thread : v # u => calls'[v] = calls[v]
  BY <1>1, Types, OpType DEF StreamInv
<1>3. CallAt(u)' /\ ~Blocking(u)'
  BY <1>2 DEF CallAt, Blocking
<1> QED
  BY <1>1, <1>2, <1>3, UltKeeps

\* A step within a call.
LEMMA GotoKeeps ==
  ASSUME StreamInv, NEW e \in Xstream, NEW u \in Thread, On(u, e),
         NEW l \in PC, Goto(u, l), CallAt(u)',
         l = "suspend" \/ (l = "join_post" /\ home[u] \in Blockable) <=> Blocking(u),
         l \in {"join_arg", "set_blocked"} => home[u] \in Blockable,
         UNCHANGED <<xpc, running, pool, threadVars, dest, woken>>,
         \A f \in Xstream : reqArg[f] # NoThread => reqArg'[f] # NoThread
  PROVE  PartsOK' /\ pc' \in [Thread -> PC] /\ calls' \in [Thread -> Seq(Call)]
<1>1. /\ pc' = [pc EXCEPT ![u] = l]
      /\ UNCHANGED calls
      /\ UNCHANGED <<home>>
  BY DEF Goto, threadVars
<1>2. /\ pc' \in [Thread -> PC] /\ pc'[u] = l
      /\ calls' \in [Thread -> Seq(Call)]
  BY <1>1, Types
<1>3. Blocking(u)' <=> Blocking(u)
  BY <1>1, <1>2 DEF Blocking
<1> QED
  BY <1>1, <1>2, <1>3, UltKeeps

\* The pool that a ULT is to be migrated to.
LEMMA TargetType ==
  ASSUME StreamInv, NEW u \in Thread, calls[u] # <<>>,
         Op(u)[1] \in {"migrate_to_xstream", "migrate_to_pool"}
  PROVE  TargetPool(u) \in Pool /\ Op(u)[2] \in Thread
<1>1. Op(u) \in Call
  BY OpType DEF StreamInv
<1>2. CASE Op(u)[1] = "migrate_to_pool"
  BY <1>1, <1>2, CallType DEF TargetPool
<1>3. CASE Op(u)[1] = "migrate_to_xstream"
  BY <1>1, <1>3, CallType, ScanOrder DEF TargetPool
<1> QED
  BY <1>2, <1>3

LEMMA AwaitedKeeps ==
  ASSUME StreamInv, NEW e \in Xstream, NEW u \in Thread, On(u, e), Awaited(u)
  PROVE  StreamInv'
<1>1. ThreadOK(u)
  BY UltOn
<1>2. calls[u] # <<>> /\ ~Blocking(u) /\ Returns(u)
  BY <1>1 DEF Awaited, Calls, Blocking, ThreadOK, CallAt
<1>3. UNCHANGED <<xstreamVars, loopVars, xpc, running, poolVars, threadVars>>
  BY DEF Awaited
<1>4. UNCHANGED <<reqArg, xpc, running, pool, threadVars, dest, woken>>
  BY <1>3 DEF xstreamVars, loopVars, poolVars
<1>5. PartsOK' /\ pc' \in [Thread -> PC] /\ calls' \in [Thread -> Seq(Call)]
  BY <1>2, <1>4, ReturnsKeeps
<1> QED
  BY <1>3, <1>5 DEF StreamInv, TypeOK, xstreamVars, loopVars, poolVars, threadVars

LEMMA CancelXstreamKeeps ==
  ASSUME StreamInv, NEW e \in Xstream, NEW u \in Thread, On(u, e), CancelXstream(u)
  PROVE  StreamInv'
<1>1. ThreadOK(u)
  BY UltOn
<1>2. calls[u] # <<>> /\ ~Blocking(u) /\ Returns(u)
  BY <1>1 DEF CancelXstream, Calls, Blocking, ThreadOK, CallAt
<1>3. UNCHANGED <<xstate, reqArg, schedState, schedRequest, schedLock, loopVars, xpc, running,
                  poolVars, threadVars>>
  BY DEF CancelXstream
<1>4. UNCHANGED <<reqArg, xpc, running, pool, threadVars, dest, woken>>
  BY <1>3 DEF xstreamVars, loopVars, poolVars
<1>5. PartsOK' /\ pc' \in [Thread -> PC] /\ calls' \in [Thread -> Seq(Call)]
  BY <1>2, <1>4, ReturnsKeeps
<1>6. xrequest' \in [Xstream -> SUBSET {"JOIN", "CANCEL"}]
  BY DEF CancelXstream, StreamInv, TypeOK
<1> QED
  BY <1>3, <1>5, <1>6 DEF StreamInv, TypeOK, loopVars, poolVars, threadVars

LEMMA ContextJoinKeeps ==
  ASSUME StreamInv, NEW e \in Xstream, NEW u \in Thread, On(u, e), ContextJoin(u)
  PROVE  StreamInv'
<1>1. ThreadOK(u)
  BY UltOn
<1>2. calls[u] # <<>> /\ ~Blocking(u) /\ Returns(u)
  BY <1>1 DEF ContextJoin, Calls, Blocking, ThreadOK, CallAt
<1>3. UNCHANGED <<xstreamVars, loopVars, xpc, running, poolVars, threadVars>>
  BY DEF ContextJoin
<1>4. UNCHANGED <<reqArg, xpc, running, pool, threadVars, dest, woken>>
  BY <1>3 DEF xstreamVars, loopVars, poolVars
<1>5. PartsOK' /\ pc' \in [Thread -> PC] /\ calls' \in [Thread -> Seq(Call)]
  BY <1>2, <1>4, ReturnsKeeps
<1> QED
  BY <1>3, <1>5 DEF StreamInv, TypeOK, xstreamVars, loopVars, poolVars, threadVars

LEMMA WakeUpDecKeeps ==
  ASSUME StreamInv, NEW e \in Xstream, NEW u \in Thread, On(u, e), WakeUpDec(u)
  PROVE  StreamInv'
<1>1. ThreadOK(u)
  BY UltOn
<1>2. calls[u] # <<>> /\ ~Blocking(u) /\ Returns(u)
  BY <1>1 DEF WakeUpDec, Calls, Blocking, ThreadOK, CallAt
<1>3. UNCHANGED <<xstreamVars, loopVars, xpc, running, pool, numMigrations, threadVars>>
  BY DEF WakeUpDec
<1>4. UNCHANGED <<reqArg, xpc, running, pool, threadVars, dest, woken>>
  BY <1>3 DEF xstreamVars, loopVars, poolVars
<1>5. PartsOK' /\ pc' \in [Thread -> PC] /\ calls' \in [Thread -> Seq(Call)]
  BY <1>2, <1>4, ReturnsKeeps
<1>6. numBlocked' \in [Pool -> Int]
  <2>1. home[Op(u)[2]] \in Pool
    BY <1>1, <1>2, OpType, CallType, Types DEF StreamInv, WakeUpDec, ThreadOK, CallAt
  <2> QED
    BY <2>1, Types DEF WakeUpDec, DecBlocked
<1> QED
  BY <1>3, <1>5, <1>6 DEF StreamInv, TypeOK, xstreamVars, loopVars, threadVars

LEMMA CountMigrationKeeps ==
  ASSUME StreamInv, NEW e \in Xstream, NEW u \in Thread, On(u, e), CountMigration(u)
  PROVE  StreamInv'
<1>1. ThreadOK(u)
  BY UltOn
<1>2. calls[u] # <<>> /\ ~Blocking(u) /\ Returns(u)
  BY <1>1 DEF CountMigration, Calls, Blocking, ThreadOK, CallAt
<1>3. UNCHANGED <<xstreamVars, loopVars, xpc, running, pool, numBlocked, threadVars>>
  BY DEF CountMigration
<1>4. UNCHANGED <<reqArg, xpc, running, pool, threadVars, dest, woken>>
  BY <1>3 DEF xstreamVars, loopVars, poolVars
<1>5. PartsOK' /\ pc' \in [Thread -> PC] /\ calls' \in [Thread -> Seq(Call)]
  BY <1>2, <1>4, ReturnsKeeps
<1>6. numMigrations' \in [Pool -> Int]
  <2>1. TargetPool(u) \in Pool
    BY <1>1, <1>2, TargetType DEF CountMigration, ThreadOK, CallAt
  <2> QED
    BY <2>1, Types DEF CountMigration, IncMigrations
<1> QED
  BY <1>3, <1>5, <1>6 DEF StreamInv, TypeOK, xstreamVars, loopVars, threadVars

LEMMA RefuseMigrationKeeps ==
  ASSUME StreamInv, NEW e \in Xstream, NEW u \in Thread, On(u, e), RefuseMigration(u)
  PROVE  StreamInv'
<1>1. ThreadOK(u)
  BY UltOn
<1>2. calls[u] # <<>> /\ ~Blocking(u) /\ Returns(u)
  BY <1>1 DEF RefuseMigration, Calls, Blocking, ThreadOK, CallAt, Posts
<1>3. UNCHANGED <<xstreamVars, loopVars, xpc, running, pool, numBlocked, threadVars>>
  BY DEF RefuseMigration
<1>4. UNCHANGED <<reqArg, xpc, running, pool, threadVars, dest, woken>>
  BY <1>3 DEF xstreamVars, loopVars, poolVars
<1>5. PartsOK' /\ pc' \in [Thread -> PC] /\ calls' \in [Thread -> Seq(Call)]
  BY <1>2, <1>4, ReturnsKeeps
<1>6. numMigrations' \in [Pool -> Int]
  <2>1. TargetPool(u) \in Pool
    BY <1>1, <1>2, TargetType DEF RefuseMigration, Posts, Calls, ThreadOK, CallAt
  <2> QED
    BY <2>1, Types DEF RefuseMigration, DecMigrations
<1> QED
  BY <1>3, <1>5, <1>6 DEF StreamInv, TypeOK, xstreamVars, loopVars, threadVars

LEMMA JoinCheckKeeps ==
  ASSUME StreamInv, NEW e \in Xstream, NEW u \in Thread, On(u, e), JoinCheck(u, e)
  PROVE  StreamInv'
<1>1. UNCHANGED <<xstreamVars, loopVars, xpc, running, poolVars, threadVars>>
  BY DEF JoinCheck
<1>2. UNCHANGED <<reqArg, xpc, running, pool, threadVars, dest, woken>>
  BY <1>1 DEF xstreamVars, loopVars, poolVars
<1>3. calls[u] # <<>> /\ pc[u] = "call" /\ ~Blocking(u) /\ Op(u)[1] = "join"
  BY DEF JoinCheck, Calls, Blocking
<1>4. PartsOK' /\ pc' \in [Thread -> PC] /\ calls' \in [Thread -> Seq(Call)]
  <2>1. CASE Returns(u)
    BY <2>1, <1>2, <1>3, ReturnsKeeps
  <2>2. CASE ~Returns(u)
    <3>1. PICK l \in {"context_join", "join_arg", "join_post"} :
            Goto(u, l) /\ (l = "join_post" => home[u] \notin Blockable)
                       /\ (l = "join_arg" => home[u] \in Blockable)
      BY <2>2 DEF JoinCheck
    <3>2. l \in PC
      BY DEF PC
    <3>3. CallAt(u)'
      BY <3>1, <1>3, Types DEF Goto, CallAt, Op
    <3> QED
      BY <3>1, <3>2, <3>3, <1>2, <1>3, GotoKeeps
  <2> QED
    BY <2>1, <2>2
<1> QED
  BY <1>1, <1>4 DEF StreamInv, TypeOK, xstreamVars, loopVars, poolVars, threadVars

LEMMA JoinArgKeeps ==
  ASSUME StreamInv, NEW e \in Xstream, NEW u \in Thread, On(u, e), JoinArg(u)
  PROVE  StreamInv'
<1>1. ThreadOK(u)
  BY UltOn
<1>2. UNCHANGED <<xstate, xrequest, schedState, schedRequest, schedLock, loopVars, xpc, running,
                  poolVars, threadVars>>
  BY DEF JoinArg
<1>3. UNCHANGED <<xpc, running, pool, threadVars, dest, woken>>
  BY <1>2 DEF loopVars, poolVars
<1>4. /\ pc[u] = "join_arg" /\ calls[u] # <<>> /\ Op(u)[1] = "join"
      /\ home[u] \in Blockable /\ ~Blocking(u)
      /\ Goto(u, "set_blocked")
      /\ reqArg' = [reqArg EXCEPT ![Op(u)[2]] = u]
  BY <1>1 DEF JoinArg, ThreadOK, CallAt, PlaceAt, Blocking
<1>5. /\ reqArg' \in [Xstream -> Thread \cup {NoThread}]
      /\ \A f \in Xstream : reqArg[f] # NoThread => reqArg'[f] # NoThread
  BY <1>4, Types, Null
<1>6. CallAt(u)'
  BY <1>4, Types DEF Goto, CallAt, Op
<1>7. PartsOK' /\ pc' \in [Thread -> PC] /\ calls' \in [Thread -> Seq(Call)]
  BY <1>3, <1>4, <1>5, <1>6, GotoKeeps DEF PC
<1> QED
  BY <1>2, <1>5, <1>7 DEF StreamInv, TypeOK, loopVars, poolVars, threadVars

LEMMA JoinPostKeeps ==
  ASSUME StreamInv, NEW e \in Xstream, NEW u \in Thread, On(u, e), JoinPost(u)
  PROVE  StreamInv'
<1>1. ThreadOK(u)
  BY UltOn
<1>2. UNCHANGED <<xstate, reqArg, schedState, schedRequest, schedLock, loopVars, xpc, running,
                  poolVars, threadVars>>
  BY DEF JoinPost
<1>3. UNCHANGED <<reqArg, xpc, running, pool, threadVars, dest, woken>>
  BY <1>2 DEF loopVars, poolVars
<1>4. /\ pc[u] = "join_post" /\ calls[u] # <<>> /\ Op(u)[1] = "join"
      /\ xrequest' = [xrequest EXCEPT ![Op(u)[2]] = @ \cup {"JOIN"}]
  BY <1>1 DEF JoinPost, ThreadOK, CallAt
<1>5. PICK l \in {"suspend", "poll"} : Goto(u, l) /\ (l = "suspend" <=> Blocking(u))
  BY <1>4 DEF JoinPost, Blocking
<1>6. l \in PC
  BY DEF PC
<1>7. CallAt(u)'
  BY <1>4, <1>5, Types DEF Goto, CallAt, Op
<1>8. PartsOK' /\ pc' \in [Thread -> PC] /\ calls' \in [Thread -> Seq(Call)]
  BY <1>3, <1>5, <1>6, <1>7, GotoKeeps
<1>9. xrequest' \in [Xstream -> SUBSET {"JOIN", "CANCEL"}]
  BY <1>4 DEF StreamInv, TypeOK
<1> QED
  BY <1>2, <1>8, <1>9 DEF StreamInv, TypeOK, loopVars, poolVars, threadVars

LEMMA JoinPolledKeeps ==
  ASSUME StreamInv, NEW e \in Xstream, NEW u \in Thread, On(u, e), JoinPolled(u)
  PROVE  StreamInv'
<1>1. ThreadOK(u)
  BY UltOn
<1>2. UNCHANGED <<xstreamVars, loopVars, xpc, running, poolVars, threadVars>>
  BY DEF JoinPolled
<1>3. UNCHANGED <<reqArg, xpc, running, pool, threadVars, dest, woken>>
  BY <1>2 DEF xstreamVars, loopVars, poolVars
<1>4. /\ calls[u] # <<>> /\ Op(u)[1] = "join" /\ ~Blocking(u)
      /\ Goto(u, "context_join")
  BY <1>1 DEF JoinPolled, ThreadOK, CallAt, Blocking
<1>5. CallAt(u)'
  BY <1>4, Types DEF Goto, CallAt, Op
<1>6. PartsOK' /\ pc' \in [Thread -> PC] /\ calls' \in [Thread -> Seq(Call)]
  BY <1>3, <1>4, <1>5, GotoKeeps DEF PC
<1> QED
  BY <1>2, <1>6 DEF StreamInv, TypeOK, xstreamVars, loopVars, poolVars, threadVars

LEMMA MigrateToXstreamKeeps ==
  ASSUME StreamInv, NEW e \in Xstream, NEW u \in Thread, On(u, e), MigrateToXstream(u)
  PROVE  StreamInv'
<1>1. UNCHANGED <<xstreamVars, loopVars, xpc, running, pool, numBlocked, threadVars>>
  BY DEF MigrateToXstream
<1>2. UNCHANGED <<reqArg, xpc, running, pool, threadVars, dest, woken>>
  BY <1>1 DEF xstreamVars, loopVars
<1>3. calls[u] # <<>> /\ pc[u] = "call" /\ ~Blocking(u) /\ Op(u)[1] = "migrate_to_xstream"
  BY DEF MigrateToXstream, Calls, Blocking
<1>4. \/ Returns(u) /\ UNCHANGED numMigrations
      \/ Goto(u, "post") /\ IncMigrations(TargetPool(u))
  BY DEF MigrateToXstream
<1>5. PartsOK' /\ pc' \in [Thread -> PC] /\ calls' \in [Thread -> Seq(Call)]
  <2>1. CASE Returns(u)
    BY <2>1, <1>2, <1>3, ReturnsKeeps
  <2>2. CASE Goto(u, "post")
    <3>1. CallAt(u)'
      BY <2>2, <1>3, Types DEF Goto, CallAt, Op
    <3> QED
      BY <2>2, <3>1, <1>2, <1>3, GotoKeeps DEF PC
  <2> QED
    BY <2>1, <2>2, <1>4
<1>6. numMigrations' \in [Pool -> Int]
  <2>1. TargetPool(u) \in Pool
    BY <1>3, TargetType
  <2> QED
    BY <2>1, <1>4, Types DEF IncMigrations
<1> QED
  BY <1>1, <1>5, <1>6 DEF StreamInv, TypeOK, xstreamVars, loopVars, threadVars

\* The ULT switches to the scheduler: what that leaves to show.
LEMMA SwitchKeeps ==
  ASSUME StreamInv, NEW e \in Xstream, NEW u \in Thread, On(u, e), GotoX(e, "ret"),
         UNCHANGED <<reqArg, dest, woken, running>>
  PROVE  /\ xpc' \in [Xstream -> XPC] /\ xpc'[e] = "ret"
         /\ \A f \in Xstream : f # e => xpc'[f] = xpc[f] /\ running[f] # u
         /\ running'[e] = u /\ u # NoThread
         /\ RunAt(e)'
<1>1. running[e] = u /\ xpc[e] = "ult" /\ \A f \in Xstream : running[f] = u => f = e
  BY UltOn
<1>2. /\ xpc' \in [Xstream -> XPC] /\ xpc'[e] = "ret"
      /\ \A f \in Xstream : f # e => xpc'[f] = xpc[f]
  BY Types DEF GotoX, XPC
<1>3. RunAt(e)'
  BY <1>1, <1>2 DEF StreamInv, PartsOK, RunOK, RunAt
<1> QED
  BY <1>1, <1>2, <1>3, Null

LEMMA LeaveKeeps ==
  ASSUME StreamInv, NEW e \in Xstream, NEW u \in Thread, On(u, e), Leave(u, e)
  PROVE  StreamInv'
<1>1. /\ pc[u] = "call" /\ ~Blocking(u)
      /\ request' = [request EXCEPT ![u] = @ \cup {"TERMINATE"}]
      /\ pc' = [pc EXCEPT ![u] = "done"] /\ UNCHANGED calls
      /\ GotoX(e, "ret")
  BY DEF Leave, Goto, Blocking
<1>2. UNCHANGED <<xstreamVars, loopVars, running, poolVars, state, home, target>>
  BY DEF Leave
<1>3. UNCHANGED <<reqArg, dest, woken, running, pool, state, home, target, calls>>
  BY <1>1, <1>2 DEF xstreamVars, loopVars, poolVars
<1>4. /\ running[e] = u /\ \A p \in Pool : ~Contains(pool[p], u)
      /\ e \in Scheds(home[u]) /\ ThreadOK(u)
      /\ state[u] = "RUNNING" /\ "BLOCK" \notin request[u]
  BY <1>1, UltOn
<1>5. /\ xpc' \in [Xstream -> XPC] /\ xpc'[e] = "ret"
      /\ \A f \in Xstream : f # e => xpc'[f] = xpc[f] /\ running[f] # u
      /\ running'[e] = u /\ u # NoThread
      /\ RunAt(e)'
  BY <1>1, <1>3, SwitchKeeps
<1>6. /\ request' \in [Thread -> SUBSET {"TERMINATE", "BLOCK", "MIGRATE"}]
      /\ request'[u] = request[u] \cup {"TERMINATE"}
      /\ pc' \in [Thread -> PC] /\ pc'[u] = "done"
      /\ \A v \in Thread : v # u => request'[v] = request[v] /\ pc'[v] = pc[v]
  BY <1>1, Types DEF PC
<1>7. TypeOK'
  BY <1>1, <1>2, <1>5, <1>6 DEF StreamInv, TypeOK, xstreamVars, loopVars, poolVars
<1>8. ThreadOK(u)'
  <2>1. PoolAt(u)'
    BY <1>3, <1>4 DEF PoolAt
  <2>2. ReqAt(u)'
    BY <1>3, <1>4, <1>5, <1>6 DEF ThreadOK, ReqAt
  <2>3. PlaceAt(u)'
    BY <1>3, <1>4, <1>5, <1>6 DEF PlaceAt, Runs, OnPC
  <2>4. CallAt(u)'
    BY <1>6 DEF CallAt
  <2>5. OnAt(e, u)'
    BY <1>3, <1>4, <1>5, <1>6 DEF OnAt, Scheds, OnPC
  <2> QED
    BY <2>1, <2>2, <2>3, <2>4, <2>5, <1>3, <1>5 DEF ThreadOK
<1>9. StepOf(e, {u})
  BY <1>3, <1>4, <1>5, <1>6 DEF StepOf
<1> QED
  BY <1>5, <1>7, <1>8, <1>9, StepKeeps DEF StreamInv

LEMMA YieldKeeps ==
  ASSUME StreamInv, NEW e \in Xstream, NEW u \in Thread, On(u, e), Yield(u, e) \/ Poll(u, e)
  PROVE  StreamInv'
<1>1. /\ pc[u] \in {"call", "poll"} /\ ~Blocking(u)
      /\ state' = [state EXCEPT ![u] = "READY"]
      /\ GotoX(e, "ret")
  BY DEF Yield, Poll, Polls, Calls, SwitchToSched, Blocking
<1>2. UNCHANGED <<xstreamVars, loopVars, running, poolVars, request, home, target>>
  BY DEF Yield, Poll
<1>3. UNCHANGED <<reqArg, dest, woken, running, pool, request, home, target>>
  BY <1>2 DEF xstreamVars, loopVars, poolVars
<1>4. /\ running[e] = u /\ \A p \in Pool : ~Contains(pool[p], u)
      /\ e \in Scheds(home[u]) /\ ThreadOK(u)
      /\ "BLOCK" \notin request[u] /\ "TERMINATE" \notin request[u]
  BY <1>1, UltOn
<1>5. /\ xpc' \in [Xstream -> XPC] /\ xpc'[e] = "ret"
      /\ \A f \in Xstream : f # e => xpc'[f] = xpc[f] /\ running[f] # u
      /\ running'[e] = u /\ u # NoThread
      /\ RunAt(e)'
  BY <1>1, <1>3, SwitchKeeps
<1>6. /\ state' \in [Thread -> {"READY", "RUNNING", "BLOCKED", "TERMINATED"}]
      /\ state'[u] = "READY"
      /\ \A v \in Thread : v # u => state'[v] = state[v]
  BY <1>1, Types
<1>7. /\ pc' \in [Thread -> PC] /\ calls' \in [Thread -> Seq(Call)]
      /\ pc'[u] \in {"call", "poll"} /\ CallAt(u)'
      /\ \A v \in Thread : v # u => pc'[v] = pc[v] /\ calls'[v] = calls[v]
  <2>1. CASE Yield(u, e)
    <3>1. /\ calls[u] # <<>> /\ pc' = [pc EXCEPT ![u] = "call"]
          /\ calls' = [calls EXCEPT ![u] = Tail(@)]
      BY <2>1 DEF Yield, Calls, Returns
    <3>2. Tail(calls[u]) \in Seq(Call)
      BY <3>1, OpType DEF StreamInv
    <3> QED
      BY <3>1, <3>2, Types DEF PC, CallAt
  <2>2. CASE Poll(u, e)
    <3>1. UNCHANGED <<pc, calls>>
      BY <2>2 DEF Poll, localVars
    <3> QED
      BY <3>1, <1>1, <1>4, Types DEF ThreadOK, CallAt, Op
  <2> QED
    BY <2>1, <2>2
<1>8. TypeOK'
  BY <1>2, <1>5, <1>6, <1>7 DEF StreamInv, TypeOK, xstreamVars, loopVars, poolVars
<1>9. ThreadOK(u)'
  <2>1. PoolAt(u)'
    BY <1>3, <1>4 DEF PoolAt
  <2>2. ReqAt(u)'
    BY <1>3, <1>4 DEF ThreadOK, ReqAt
  <2>3. PlaceAt(u)'
    BY <1>5, <1>6, <1>7 DEF PlaceAt, Runs, OnPC
  <2>4. OnAt(e, u)'
    <3>1. request[u] \subseteq {"MIGRATE"}
      BY <1>4, Types
    <3> QED
      BY <3>1, <1>3, <1>4, <1>5, <1>6, <1>7 DEF OnAt, Scheds, OnPC
  <2> QED
    BY <2>1, <2>2, <2>3, <2>4, <1>3, <1>5, <1>7 DEF ThreadOK
<1>10. StepOf(e, {u})
  BY <1>3, <1>4, <1>5, <1>6, <1>7 DEF StepOf
<1> QED
  BY <1>5, <1>8, <1>9, <1>10, StepKeeps DEF StreamInv

LEMMA SuspendKeeps ==
  ASSUME StreamInv, NEW e \in Xstream, NEW u \in Thread, On(u, e), Suspend(u, e)
  PROVE  StreamInv'
<1>1. /\ pc[u] = "suspend" /\ Blocking(u)
      /\ GotoX(e, "ret")
      /\ IF Op(u)[1] = "join" THEN Goto(u, "context_join") ELSE Returns(u)
  BY DEF Suspend, Blocking
<1>2. UNCHANGED <<xstreamVars, loopVars, running, poolVars, threadVars>>
  BY DEF Suspend
<1>3. UNCHANGED <<reqArg, dest, woken, running, pool, state, request, home, target>>
  BY <1>2 DEF xstreamVars, loopVars, poolVars, threadVars
<1>4. /\ running[e] = u /\ \A p \in Pool : ~Contains(pool[p], u)
      /\ e \in Scheds(home[u]) /\ ThreadOK(u)
      /\ state[u] = "BLOCKED" /\ "BLOCK" \in request[u] /\ "TERMINATE" \notin request[u]
  BY <1>1, UltOn
<1>5. /\ xpc' \in [Xstream -> XPC] /\ xpc'[e] = "ret"
      /\ \A f \in Xstream : f # e => xpc'[f] = xpc[f] /\ running[f] # u
      /\ running'[e] = u /\ u # NoThread
      /\ RunAt(e)'
  BY <1>1, <1>3, SwitchKeeps
<1>6. calls[u] # <<>>
  BY <1>1, <1>4 DEF ThreadOK, CallAt
<1>7. /\ pc' \in [Thread -> PC] /\ calls' \in [Thread -> Seq(Call)]
      /\ pc'[u] \in {"call", "context_join"} /\ CallAt(u)'
      /\ \A v \in Thread : v # u => pc'[v] = pc[v] /\ calls'[v] = calls[v]
  <2>1. CASE Op(u)[1] = "join"
    <3>1. pc' = [pc EXCEPT ![u] = "context_join"] /\ UNCHANGED calls
      BY <2>1, <1>1 DEF Goto
    <3> QED
      BY <2>1, <3>1, <1>6, Types DEF PC, CallAt, Op
  <2>2. CASE Op(u)[1] # "join"
    <3>1. pc' = [pc EXCEPT ![u] = "call"] /\ calls' = [calls EXCEPT ![u] = Tail(@)]
      BY <2>2, <1>1 DEF Returns
    <3>2. Tail(calls[u]) \in Seq(Call)
      BY <1>6, OpType DEF StreamInv
    <3> QED
      BY <3>1, <3>2, Types DEF PC, CallAt
  <2> QED
    BY <2>1, <2>2
<1>8. TypeOK'
  BY <1>2, <1>5, <1>7 DEF StreamInv, TypeOK, xstreamVars, loopVars, poolVars, threadVars
<1>9. ThreadOK(u)'
  <2>1. PoolAt(u)'
    BY <1>3, <1>4 DEF PoolAt
  <2>2. ReqAt(u)'
    BY <1>3, <1>4, <1>5 DEF ThreadOK, ReqAt
  <2>3. PlaceAt(u)'
    BY <1>3, <1>4, <1>7 DEF PlaceAt, OnPC
  <2>4. OnAt(e, u)'
    BY <1>3, <1>4, <1>5, <1>7 DEF OnAt, Scheds, OnPC
  <2> QED
    BY <2>1, <2>2, <2>3, <2>4, <1>3, <1>5, <1>7 DEF ThreadOK
<1>10. StepOf(e, {u})
  BY <1>3, <1>4, <1>5, <1>7 DEF StepOf
<1> QED
  BY <1>5, <1>8, <1>9, <1>10, StepKeeps DEF StreamInv

LEMMA BlockUltKeeps ==
  ASSUME StreamInv, NEW e \in Xstream, NEW u \in Thread, On(u, e), BlockUlt(u)
  PROVE  StreamInv'
<1>1. /\ ~Blocking(u)
      /\ request' = [request EXCEPT ![u] = @ \cup {"BLOCK"}]
      /\ state' = [state EXCEPT ![u] = "BLOCKED"]
      /\ numBlocked' = [numBlocked EXCEPT ![home[u]] = @ + 1]
      /\ UNCHANGED calls
  BY DEF BlockUlt, SetBlocked, Calls, Goto, Blocking
<1>2. UNCHANGED <<xstreamVars, loopVars, xpc, running, pool, numMigrations, home, target>>
  BY DEF BlockUlt
<1>3. UNCHANGED <<reqArg, dest, woken, xpc, running, pool, home, target, calls>>
  BY <1>1, <1>2 DEF xstreamVars, loopVars
<1>4. /\ running[e] = u /\ xpc[e] = "ult"
      /\ \A f \in Xstream : running[f] = u => f = e
      /\ \A p \in Pool : ~Contains(pool[p], u)
      /\ e \in Scheds(home[u]) /\ ThreadOK(u)
      /\ "TERMINATE" \notin request[u]
  BY UltOn
<1>5. PICK l \in {"suspend", "join_post"} :
        /\ pc' = [pc EXCEPT ![u] = l]
        /\ l = "suspend" => calls[u] # <<>> /\ Op(u)[1] = "sleep"
        /\ l = "join_post" => home[u] \in Blockable /\ calls[u] # <<>> /\ Op(u)[1] = "join"
  <2>1. CASE Calls(u, "sleep") /\ Goto(u, "suspend")
    BY <2>1 DEF Calls, Goto
  <2>2. CASE pc[u] = "set_blocked" /\ Goto(u, "join_post")
    BY <2>2, <1>4 DEF Goto, ThreadOK, PlaceAt, CallAt
  <2> QED
    BY <2>1, <2>2 DEF BlockUlt
<1>6. /\ request' \in [Thread -> SUBSET {"TERMINATE", "BLOCK", "MIGRATE"}]
      /\ request'[u] = request[u] \cup {"BLOCK"}
      /\ state' \in [Thread -> {"READY", "RUNNING", "BLOCKED", "TERMINATED"}]
      /\ state'[u] = "BLOCKED"
      /\ \A v \in Thread : v # u => request'[v] = request[v] /\ state'[v] = state[v]
  BY <1>1, Types
<1>7. /\ pc' \in [Thread -> PC] /\ pc'[u] = l
      /\ \A v \in Thread : v # u => pc'[v] = pc[v]
  BY <1>5, Types DEF PC
<1>8. numBlocked' \in [Pool -> Int]
  BY <1>1, Types
<1>9. TypeOK'
  BY <1>1, <1>2, <1>6, <1>7, <1>8 DEF StreamInv, TypeOK, xstreamVars, loopVars
<1>10. ThreadOK(u)'
  <2>1. PoolAt(u)'
    BY <1>3, <1>4 DEF PoolAt
  <2>2. ReqAt(u)'
    BY <1>3, <1>4, <1>6 DEF ThreadOK, ReqAt
  <2>3. PlaceAt(u)'
    BY <1>3, <1>4, <1>6, <1>7 DEF PlaceAt, On
  <2>4. CallAt(u)'
    BY <1>3, <1>5, <1>7 DEF CallAt, Op
  <2>5. OnAt(e, u)'
    BY <1>3, <1>4, <1>5, <1>6, <1>7 DEF OnAt, Scheds, Blocking
  <2> QED
    BY <2>1, <2>2, <2>3, <2>4, <2>5, <1>3, <1>4 DEF ThreadOK
<1>11. RunAt(e)'
  BY <1>3 DEF StreamInv, PartsOK, RunOK, RunAt
<1>12. StepOf(e, {u})
  BY <1>3, <1>4, <1>6, <1>7 DEF StepOf
<1> QED
  BY <1>9, <1>10, <1>11, <1>12, StepKeeps DEF StreamInv

LEMMA WakeUpKeeps ==
  ASSUME StreamInv, NEW e \in Xstream, NEW u \in Thread, On(u, e), WakeUp(u)
  PROVE  StreamInv'
<1>1. /\ pc[u] = "call" /\ calls[u] # <<>> /\ Op(u)[1] = "wake" /\ ~Blocking(u)
      /\ pc' = [pc EXCEPT ![u] = "dec_blocked"] /\ UNCHANGED calls
  BY DEF WakeUp, Calls, Goto, Blocking
<1>2. PICK w \in Thread : w = Op(u)[2]
  BY <1>1, OpType, CallType DEF StreamInv
<1>3. CanSetReady(w) /\ MakeReady(w)
  BY <1>2 DEF WakeUp
<1>4. UNCHANGED <<xstreamVars, loopVars, xpc, running, numBlocked, numMigrations, request, home,
                  target>>
  BY DEF WakeUp
<1>5. UNCHANGED <<reqArg, dest, woken, xpc, running, request, home, target, calls>>
  BY <1>1, <1>4 DEF xstreamVars, loopVars
<1>6. /\ running[e] = u /\ xpc[e] = "ult"
      /\ \A f \in Xstream : running[f] = u => f = e
      /\ \A p \in Pool : ~Contains(pool[p], u)
      /\ e \in Scheds(home[u]) /\ ThreadOK(u)
      /\ state[u] = "RUNNING" /\ "BLOCK" \notin request[u] /\ "TERMINATE" \notin request[u]
  BY <1>1, UltOn
<1>7. /\ \A f \in Xstream : running[f] # w
      /\ \A p \in Pool : ~Contains(pool[p], w)
      /\ ThreadOK(w) /\ pc[w] \notin OnPC
      /\ "BLOCK" \notin request[w] /\ "TERMINATE" \notin request[w]
  BY <1>3, Wakeable
<1>8. w # u
  BY <1>6, <1>7
<1>9. PICK p \in Pool : p = home[w]
  BY Types
<1>10. /\ pool' \in [Pool -> Seq(Thread)]
       /\ \A q \in Pool : IsInjective(pool'[q])
       /\ \A q \in Pool, v \in Thread :
            Contains(pool'[q], v) <=> Contains(pool[q], v) \/ (q = p /\ v = w)
  BY <1>3, <1>7, <1>9, PushKeeps DEF MakeReady
<1>11. /\ state' \in [Thread -> {"READY", "RUNNING", "BLOCKED", "TERMINATED"}]
       /\ state'[w] = "READY"
       /\ \A v \in Thread : v # w => state'[v] = state[v]
  BY <1>3, Types DEF MakeReady
<1>12. /\ pc' \in [Thread -> PC] /\ pc'[u] = "dec_blocked"
       /\ \A v \in Thread : v # u => pc'[v] = pc[v]
  BY <1>1, Types DEF PC
<1>13. TypeOK'
  BY <1>1, <1>4, <1>10, <1>11, <1>12 DEF StreamInv, TypeOK, xstreamVars, loopVars
<1>14. ThreadOK(w)'
  <2>1. PoolAt(w)'
    BY <1>5, <1>7, <1>9, <1>10, <1>11 DEF PoolAt, Runs
  <2>2. ReqAt(w)'
    BY <1>5, <1>7 DEF ThreadOK, ReqAt
  <2>3. PlaceAt(w)'
    BY <1>7, <1>8, <1>10, <1>11, <1>12 DEF PlaceAt, InPool, OnPC
  <2>4. CallAt(w)'
    BY <1>5, <1>7, <1>8, <1>12 DEF ThreadOK, CallAt, Op
  <2> QED
    BY <2>1, <2>2, <2>3, <2>4, <1>5, <1>7 DEF ThreadOK
<1>15. ThreadOK(u)'
  <2>1. PoolAt(u)'
    BY <1>6, <1>8, <1>10 DEF PoolAt
  <2>2. ReqAt(u)'
    BY <1>5, <1>6 DEF ThreadOK, ReqAt
  <2>3. PlaceAt(u)'
    BY <1>5, <1>6, <1>8, <1>11, <1>12 DEF PlaceAt, Runs, On
  <2>4. CallAt(u)'
    BY <1>1, <1>5, <1>12 DEF CallAt, Op
  <2>5. OnAt(e, u)'
    BY <1>5, <1>6, <1>8, <1>11, <1>12 DEF OnAt, Scheds, Blocking
  <2> QED
    BY <2>1, <2>2, <2>3, <2>4, <2>5, <1>5, <1>6 DEF ThreadOK
<1>16. RunAt(e)'
  BY <1>5 DEF StreamInv, PartsOK, RunOK, RunAt
<1>17. StepOf(e, {u, w})
  BY <1>5, <1>6, <1>10, <1>11, <1>12 DEF StepOf
<1> QED
  BY <1>13, <1>14, <1>15, <1>16, <1>17, StepKeeps, {u, w} \in SUBSET Thread DEF StreamInv

\* What a request to migrate changes, but for the place of the ULT that makes it.
LEMMA PostPlace ==
  ASSUME StreamInv, NEW e \in Xstream, NEW u \in Thread, On(u, e), PostMigration(u, e)
  PROVE  /\ ~Blocking(u)
         /\ pc[u] \in {"call", "post"}
         /\ pc' \in [Thread -> PC] /\ calls' \in [Thread -> Seq(Call)]
         /\ pc'[u] \in {"call", "count"} /\ CallAt(u)'
         /\ \A v \in Thread : v # u => pc'[v] = pc[v] /\ calls'[v] = calls[v]
         /\ Op(u)[2] \in Thread /\ TargetPool(u) \in Pool
<1>1. ThreadOK(u)
  BY UltOn
<1>2. /\ calls[u] # <<>> /\ ~Blocking(u)
      /\ Op(u)[1] \in {"migrate_to_xstream", "migrate_to_pool"}
      /\ pc[u] = "post" \/ (pc[u] = "call" /\ Op(u)[1] = "migrate_to_pool")
  BY <1>1 DEF PostMigration, Posts, Calls, Blocking, ThreadOK, CallAt
<1>3. Op(u)[2] \in Thread /\ TargetPool(u) \in Pool
  BY <1>2, TargetType
<1>4. CASE Returns(u)
  <2>1. /\ pc' = [pc EXCEPT ![u] = "call"] /\ calls' = [calls EXCEPT ![u] = Tail(@)]
        /\ Tail(calls[u]) \in Seq(Call)
    BY <1>4, <1>2, OpType DEF Returns, StreamInv
  <2> QED
    BY <2>1, <1>2, <1>3, Types DEF PC, CallAt
<1>5. CASE pc[u] # "post" /\ Goto(u, "count")
  <2>1. pc' = [pc EXCEPT ![u] = "count"] /\ UNCHANGED calls
    BY <1>5 DEF Goto
  <2> QED
    BY <2>1, <1>2, <1>3, <1>5, Types DEF PC, CallAt, Op
<1> QED
  BY <1>4, <1>5 DEF PostMigration

LEMMA PostMigrationKeeps ==
  ASSUME StreamInv, NEW e \in Xstream, NEW u \in Thread, On(u, e), PostMigration(u, e)
  PROVE  StreamInv'
<1>1. /\ ~Blocking(u)
      /\ pc' \in [Thread -> PC] /\ calls' \in [Thread -> Seq(Call)]
      /\ pc'[u] \in {"call", "count"} /\ CallAt(u)'
      /\ \A v \in Thread : v # u => pc'[v] = pc[v] /\ calls'[v] = calls[v]
      /\ Op(u)[2] \in Thread /\ TargetPool(u) \in Pool
  BY PostPlace
<1>2. PICK v \in Thread : v = Op(u)[2]
  BY <1>1
<1>3. PICK p \in Pool : p = TargetPool(u)
  BY <1>1
<1>4. /\ target' = [target EXCEPT ![v] = p]
      /\ request' = [request EXCEPT ![v] = @ \cup {"MIGRATE"}]
      /\ IF u = v THEN SwitchToSched(u, e) ELSE UNCHANGED <<state, xpc>>
  BY <1>2, <1>3 DEF PostMigration
<1>5. UNCHANGED <<xstreamVars, loopVars, running, poolVars, home>>
  BY DEF PostMigration
<1>6. UNCHANGED <<reqArg, dest, woken, running, pool, home>>
  BY <1>5 DEF xstreamVars, loopVars, poolVars
<1>7. /\ target' \in [Thread -> Pool \cup {NoPool}] /\ target'[v] = p /\ p # NoPool
      /\ request' \in [Thread -> SUBSET {"TERMINATE", "BLOCK", "MIGRATE"}]
      /\ request'[v] = request[v] \cup {"MIGRATE"}
      /\ \A w \in Thread : w # v => request'[w] = request[w] /\ target'[w] = target[w]
  BY <1>4, Types, Null
<1>8. /\ running[e] = u /\ xpc[e] = "ult"
      /\ \A f \in Xstream : running[f] = u => f = e
      /\ \A q \in Pool : ~Contains(pool[q], u)
      /\ e \in Scheds(home[u]) /\ ThreadOK(u)
      /\ state[u] = "RUNNING" /\ "BLOCK" \notin request[u] /\ "TERMINATE" \notin request[u]
  BY <1>1, UltOn
<1>9. CASE u = v
  <2>1. state' = [state EXCEPT ![u] = "READY"] /\ GotoX(e, "ret")
    BY <1>4, <1>9 DEF SwitchToSched
  <2>2. /\ xpc' \in [Xstream -> XPC] /\ xpc'[e] = "ret"
        /\ \A f \in Xstream : f # e => xpc'[f] = xpc[f] /\ running[f] # u
        /\ running'[e] = u /\ u # NoThread
        /\ RunAt(e)'
    BY <2>1, <1>6, SwitchKeeps
  <2>3. /\ state' \in [Thread -> {"READY", "RUNNING", "BLOCKED", "TERMINATED"}]
        /\ state'[u] = "READY"
        /\ \A w \in Thread : w # u => state'[w] = state[w]
    BY <2>1, Types
  <2>4. TypeOK'
    BY <2>2, <2>3, <1>1, <1>5, <1>7 DEF StreamInv, TypeOK, xstreamVars, loopVars, poolVars
  <2>5. ThreadOK(u)'
    <3>1. PoolAt(u)'
      BY <1>6, <1>8 DEF PoolAt
    <3>2. ReqAt(u)'
      BY <1>7, <1>8, <1>9 DEF ReqAt
    <3>3. PlaceAt(u)'
      BY <2>2, <2>3, <1>1 DEF PlaceAt, Runs, OnPC
    <3>4. OnAt(e, u)'
      <4>1. request'[u] \subseteq {"MIGRATE"}
        BY <1>7, <1>8, <1>9, Types
      <4> QED
        BY <4>1, <2>2, <2>3, <1>1, <1>6, <1>8 DEF OnAt, Scheds, OnPC
    <3> QED
      BY <3>1, <3>2, <3>3, <3>4, <2>2, <1>1, <1>6 DEF ThreadOK
  <2>6. StepOf(e, {u})
    BY <2>2, <2>3, <1>1, <1>6, <1>7, <1>8, <1>9 DEF StepOf
  <2> QED
    BY <2>2, <2>4, <2>5, <2>6, StepKeeps DEF StreamInv
<1>10. CASE u # v
  <2>1. UNCHANGED <<state, xpc>>
    BY <1>4, <1>10
  <2>2. TypeOK'
    BY <2>1, <1>1, <1>5, <1>7 DEF StreamInv, TypeOK, xstreamVars, loopVars, poolVars
  <2>3. ThreadOK(u)'
    <3>1. PoolAt(u)'
      BY <1>6, <1>8 DEF PoolAt
    <3>2. ReqAt(u)'
      BY <2>1, <1>6, <1>7, <1>8, <1>10 DEF ReqAt, ThreadOK
    <3>3. PlaceAt(u)'
      BY <2>1, <1>1, <1>6, <1>8 DEF PlaceAt, Runs, OnPC
    <3>4. OnAt(e, u)'
      BY <2>1, <1>1, <1>6, <1>8 DEF OnAt, Scheds, Blocking
    <3> QED
      BY <3>1, <3>2, <3>3, <3>4, <1>1, <1>6, <1>8 DEF ThreadOK
  <2>4. ThreadOK(v)
    BY DEF StreamInv, PartsOK, OnOK, PoolOK, ReqOK, PlaceOK, CallOK, ThreadOK
  <2>5. ThreadOK(v)'
    <3>1. PoolAt(v)'
      BY <2>1, <2>4, <1>6 DEF ThreadOK, PoolAt, Runs
    <3>2. ReqAt(v)'
      BY <2>1, <2>4, <1>1, <1>6, <1>7, <1>10 DEF ThreadOK, ReqAt
    <3>3. PlaceAt(v)'
      BY <2>1, <2>4, <1>1, <1>6, <1>10 DEF ThreadOK, PlaceAt, Runs, InPool, On
    <3>4. CallAt(v)'
      BY <2>4, <1>1, <1>10 DEF ThreadOK, CallAt, Op
    <3>5. ASSUME NEW f \in Xstream, running'[f] = v PROVE OnAt(f, v)'
      <4>1. OnAt(f, v)
        BY <3>5, <2>4, <1>6 DEF ThreadOK
      <4> QED
        BY <4>1, <2>1, <1>1, <1>6, <1>7, <1>10 DEF OnAt, Scheds, Blocking
    <3> QED
      BY <3>1, <3>2, <3>3, <3>4, <3>5 DEF ThreadOK
  <2>6. RunAt(e)'
    BY <2>1, <1>6 DEF StreamInv, PartsOK, RunOK, RunAt
  <2>7. StepOf(e, {u, v})
    BY <2>1, <1>1, <1>6, <1>7, <1>8 DEF StepOf
  <2> QED
    BY <2>2, <2>3, <2>5, <2>6, <2>7, StepKeeps, {u, v} \in SUBSET Thread DEF StreamInv
<1> QED
  BY <1>9, <1>10

(***************************************************************************)
(* The inductive invariant holds.                                          *)
(***************************************************************************)

LEMMA StreamInitInv == Init => StreamInv
<1> SUFFICES ASSUME Init PROVE StreamInv
  OBVIOUS
<1>1. ASSUME NEW u \in Thread
      PROVE  home[u] \in Pool /\ Contains(pool[home[u]], u)
  BY <1>1, StreamAssumption DEF Init
<1>2. /\ pool \in [Pool -> Seq(Thread)] /\ pool = InitPool
      /\ \A p, q \in Pool : \A i \in DOMAIN pool[p], j \in DOMAIN pool[q] :
           pool[p][i] = pool[q][j] => p = q /\ i = j
  BY StreamAssumption DEF Init
<1>3. home \in [Thread -> Pool]
  BY <1>1 DEF Init
<1>4. TypeOK
  <2>1. at \in [Xstream -> Count] /\ \A e \in Xstream : at[e].nth <= Len(SchedPools[e]) + 1
    BY FirstCountType DEF Init
  <2>2. workCount \in [Xstream -> 0 .. EventFreq - 1]
    BY Freq DEF Init
  <2>3. calls \in [Thread -> Seq(Call)]
    BY StreamAssumption DEF Init
  <2> QED
    BY <2>1, <2>2, <2>3, <1>2, <1>3 DEF Init, TypeOK, XPC, PC
<1>5. PoolOK
  <2>1. \A p \in Pool : IsInjective(pool[p])
    BY <1>2 DEF IsInjective
  <2>2. ASSUME NEW p \in Pool, NEW u \in Thread, Contains(pool[p], u)
        PROVE  home[u] = p /\ state[u] = "READY" /\ ~Runs(u)
    <3>1. PICK i \in DOMAIN pool[p] : pool[p][i] = u
      BY <2>2, <1>2, LenProperties DEF Contains
    <3>2. PICK j \in DOMAIN pool[home[u]] : pool[home[u]][j] = u
      BY <1>1, <1>2, LenProperties DEF Contains
    <3>3. home[u] = p
      BY <3>1, <3>2, <1>1, <1>2
    <3> QED
      BY <3>3, Null DEF Init, Runs
  <2> QED
    BY <2>1, <2>2 DEF PoolOK, PoolAt
<1>6. RunOK
  BY DEF Init, RunOK, RunAt
<1>7. OnOK
  BY Null DEF Init, OnOK
<1>8. ReqOK
  BY DEF Init, ReqOK, ReqAt
<1>9. PlaceOK
  BY <1>1 DEF Init, PlaceOK, PlaceAt, InPool, OnPC
<1>10. CallOK
  BY DEF Init, CallOK, CallAt
<1> QED
  BY <1>4, <1>5, <1>6, <1>7, <1>8, <1>9, <1>10 DEF StreamInv, PartsOK

LEMMA StreamStutter == StreamInv /\ UNCHANGED vars => StreamInv'
<1> SUFFICES ASSUME StreamInv, UNCHANGED vars PROVE StreamInv'
  OBVIOUS
<1>1. UNCHANGED <<xstate, xrequest, reqArg, schedState, schedRequest, schedLock, workCount, at,
                  size,
                  dest, woken, xpc, running, pool, numBlocked, numMigrations, state, request, home,
                  target, pc, calls>>
  BY DEF vars, xstreamVars, loopVars, poolVars, threadVars, localVars
<1>2. TypeOK'
  BY <1>1 DEF StreamInv, TypeOK
<1>3. PartsOK'
  BY <1>1 DEF StreamInv, PartsOK, PoolOK, PoolAt, RunOK, RunAt, OnOK, OnAt, ReqOK, ReqAt, PlaceOK,
     PlaceAt, CallOK, CallAt, Runs, InPool, On, Scheds, Blocking, Op
<1> QED
  BY <1>2, <1>3 DEF StreamInv

LEMMA StreamNext == StreamInv /\ [Next]_vars => StreamInv'
<1> SUFFICES ASSUME StreamInv, Next PROVE StreamInv'
  BY StreamStutter
<1>1. PICK e \in Xstream : Es(e)
  BY DEF Next
<1>2. CASE Scheduler(e)
  BY <1>2, SchedStartKeeps, SchedRunKeeps, SchedIdleKeeps, ReturnTerminatedKeeps,
     ReturnYieldedKeeps, ReturnBlockedKeeps, ReturnMigratingKeeps, MigrateKeeps, MigrateDecKeeps,
     WorkDoneKeeps, CheckEventsKeeps, StopOnExitKeeps, ReadCounterKeeps, DecideToLockKeeps,
     DecideToStopKeeps, SchedStoppedKeeps, DecideToEndKeeps, WakeJoinerKeeps, WakeJoinerDecKeeps,
     EndKeeps DEF Scheduler
<1>3. ASSUME NEW u \in Thread, Ult(u, e) PROVE StreamInv'
  BY <1>3, LeaveKeeps, YieldKeeps, SuspendKeeps, PostMigrationKeeps, BlockUltKeeps, WakeUpKeeps,
     WakeUpDecKeeps, AwaitedKeeps, CancelXstreamKeeps, JoinCheckKeeps, JoinArgKeeps, JoinPostKeeps,
     JoinPolledKeeps, ContextJoinKeeps, MigrateToXstreamKeeps, RefuseMigrationKeeps,
     CountMigrationKeeps DEF Ult
<1> QED
  BY <1>1, <1>2, <1>3 DEF Es

LEMMA StreamInvariant == Spec => []StreamInv
BY StreamInitInv, StreamNext, PTL DEF Spec

\* Stream keeps the types of its variables; no ES reads a count past the last, or runs more
\* than event_freq units between two checks of its requests.
THEOREM StreamTypeCorrect == Spec => []TypeOK
<1>1. StreamInv => TypeOK
  BY DEF StreamInv
<1> QED
  BY <1>1, StreamInvariant, PTL

\* A pool that holds no unit twice is no longer than there are ULTs.
LEMMA QueueBound ==
  ASSUME TypeOK, NEW p \in Pool, IsInjective(pool[p])
  PROVE  Len(pool[p]) <= Cardinality(Thread) /\ Cardinality(Thread) \in Nat
<1>1. /\ pool[p] \in Seq(Thread) /\ Len(pool[p]) \in Nat
      /\ pool[p] \in [1 .. Len(pool[p]) -> Thread]
  BY LenProperties DEF TypeOK
<1>2. IsFiniteSet(Thread) /\ Cardinality(Thread) \in Nat
  BY StreamAssumption, FS_CardinalityType
<1>3. pool[p] \in Injection(1 .. Len(pool[p]), Thread)
  BY <1>1 DEF Injection
<1>4. Cardinality(1 .. Len(pool[p])) <= Cardinality(Thread)
  BY <1>2, <1>3, FS_Injection
<1>5. Cardinality(1 .. Len(pool[p])) = Len(pool[p])
  BY <1>1, FS_Interval
<1> QED
  BY <1>2, <1>4, <1>5

\* Every ULT that has not ended is in one place, and in one only: the step that wakes or
\* migrates it finds it there (stream.c, thread.c, set_ready).
THEOREM StreamOnePlace == Spec => []OnePlace
<1>1. StreamInv => OnePlace
  <2> SUFFICES ASSUME StreamInv, NEW u \in Thread
               PROVE  LET asleep == state[u] = "BLOCKED" /\ Runners(u) = {}
                      IN  Cardinality(Queued(u)) + Cardinality(Runners(u))
                            + (IF asleep THEN 1 ELSE 0)
                            = IF state[u] = "TERMINATED" THEN 0 ELSE 1
    BY DEF OnePlace
  <2>1. PoolAt(u) /\ PlaceAt(u) /\ TypeOK /\ \A p \in Pool : IsInjective(pool[p])
    BY DEF StreamInv, PartsOK, PoolOK, PlaceOK
  <2>2. \A x : Cardinality({x}) = 1
    BY FS_Singleton
  <2>3. Cardinality({}) = 0
    BY FS_EmptySet
  <2>4. IF Runs(u) THEN \E e \in Xstream : Runners(u) = {e} ELSE Runners(u) = {}
    <3>1. \A e, f \in Runners(u) : e = f
      BY Alone DEF Runners
    <3> QED
      BY <3>1 DEF Runners, Runs
  <2>5. IF InPool(u) THEN \E x : Queued(u) = {x} ELSE Queued(u) = {}
    <3>1. ASSUME NEW x \in Queued(u)
          PROVE  x[1] \in Pool /\ x[2] \in DOMAIN pool[x[1]] /\ pool[x[1]][x[2]] = u
                 /\ x = <<x[1], x[2]>> /\ Contains(pool[x[1]], u)
      <4>1. /\ x[1] \in Pool /\ x[2] \in DOMAIN pool[x[1]] /\ pool[x[1]][x[2]] = u
            /\ x = <<x[1], x[2]>>
        BY DEF Queued
      <4>2. pool[x[1]] \in Seq(Thread)
        BY <4>1, <2>1 DEF TypeOK
      <4> QED
        BY <4>1, <4>2, LenProperties DEF Contains
    <3>2. CASE InPool(u)
      <4>1. PICK p \in Pool : Contains(pool[p], u)
        BY <3>2 DEF InPool
      <4>2. PICK i \in 1 .. Len(pool[p]) : pool[p][i] = u
        BY <4>1 DEF Contains
      <4>3. pool[p] \in Seq(Thread) /\ Len(pool[p]) \in Nat /\ DOMAIN pool[p] = 1 .. Len(pool[p])
        BY <2>1, LenProperties DEF TypeOK
      <4>4. i \in 1 .. Cardinality(Thread) + 1
        BY <4>2, <4>3, <2>1, QueueBound
      <4>5. <<p, i>> \in Queued(u)
        BY <4>2, <4>3, <4>4 DEF Queued
      <4>6. ASSUME NEW x \in Queued(u) PROVE x = <<p, i>>
        <5>1. x[1] = p
          BY <3>1, <4>1, <2>1 DEF PoolAt
        <5>2. x[2] = i
          BY <5>1, <3>1, <4>2, <4>3, <2>1 DEF IsInjective
        <5> QED
          BY <5>1, <5>2, <3>1
      <4> QED
        BY <4>5, <4>6, <3>2
    <3>3. CASE ~InPool(u)
      BY <3>1, <3>3 DEF InPool
    <3> QED
      BY <3>2, <3>3
  <2>6. InPool(u) => state[u] = "READY" /\ ~Runs(u)
    BY <2>1 DEF InPool, PoolAt
  <2>7. \A e : Runners(u) = {e} => Runners(u) # {}
    OBVIOUS
  <2>8. state[u] \in {"READY", "RUNNING", "BLOCKED", "TERMINATED"}
    BY <2>1 DEF TypeOK
  <2>9. CASE InPool(u)
    BY <2>9, <2>2, <2>3, <2>4, <2>5, <2>6
  <2>10. CASE Runs(u)
    <3>1. Cardinality(Queued(u)) = 0 /\ Cardinality(Runners(u)) = 1 /\ Runners(u) # {}
      BY <2>10, <2>2, <2>3, <2>4, <2>5, <2>6, <2>7
    <3>2. state[u] # "TERMINATED"
      BY <2>10, <2>1 DEF PlaceAt
    <3> QED
      BY <3>1, <3>2
  <2>11. CASE ~InPool(u) /\ ~Runs(u)
    <3>1. Cardinality(Queued(u)) = 0 /\ Cardinality(Runners(u)) = 0 /\ Runners(u) = {}
      BY <2>11, <2>3, <2>4, <2>5
    <3>2. state[u] \in {"BLOCKED", "TERMINATED"}
      BY <2>11, <2>1, <2>8 DEF PlaceAt
    <3> QED
      BY <3>1, <3>2
  <2> QED
    BY <2>9, <2>10, <2>11
<1> QED
  BY <1>1, StreamInvariant, PTL

(***************************************************************************)
(* How many elements a set has after a step that concerns one of them.     *)
(***************************************************************************)

Bit(b) == IF b THEN 1 ELSE 0

LEMMA CountChange ==
  ASSUME NEW D, IsFiniteSet(D), NEW S \in SUBSET D, NEW T \in SUBSET D, NEW x,
         \A y \in D : y # x => (y \in T <=> y \in S)
  PROVE  /\ Cardinality(S) \in Nat /\ Cardinality(T) \in Nat
         /\ Cardinality(T) = Cardinality(S) + Bit(x \in T) - Bit(x \in S)
<1> DEFINE R == S \ {x}
<1>1. IsFiniteSet(S) /\ IsFiniteSet(T) /\ IsFiniteSet(R)
  BY FS_Subset, R \in SUBSET D
<1>2. Cardinality(S) \in Nat /\ Cardinality(T) \in Nat /\ Cardinality(R) \in Nat
  BY <1>1, FS_CardinalityType
<1>3. T \ {x} = R
  OBVIOUS
<1> HIDE DEF R
<1>4. Cardinality(R) = Cardinality(S) - Bit(x \in S)
  BY <1>1, <1>2, FS_RemoveElement DEF R, Bit
<1>5. Cardinality(R) = Cardinality(T) - Bit(x \in T)
  <2>1. Cardinality(T \ {x}) = IF x \in T THEN Cardinality(T) - 1 ELSE Cardinality(T)
    BY <1>1, FS_RemoveElement
  <2> QED
    BY <2>1, <1>2, <1>3 DEF Bit
<1>6. Bit(x \in S) \in Int /\ Bit(x \in T) \in Int
  BY DEF Bit
<1> QED
  BY <1>2, <1>4, <1>5, <1>6

(***************************************************************************)
(* num_blocked of a pool: the ULTs that are BLOCKED and those that were    *)
(* woken and not yet counted out, as long as none of these migrates.       *)
(***************************************************************************)

LateWakers(p) == {w \in Thread : pc[w] = "dec_blocked" /\ home[Op(w)[2]] = p}
LateXstreams(p) == {e \in Xstream : xpc[e] = "wake_dec" /\ home[woken[e]] = p}
BlockedIn(p) == {u \in Thread : state[u] = "BLOCKED" /\ home[u] = p}
BlockedCount ==
  \A p \in Pool :
    numBlocked[p] = Cardinality(BlockedIn(p)) + Cardinality(LateWakers(p))
                    + Cardinality(LateXstreams(p))

\* A step that blocks nobody, wakes nobody and counts nobody out.
BlockedSame ==
  /\ UNCHANGED numBlocked
  /\ \A v \in Thread :
       /\ state'[v] = "BLOCKED" <=> state[v] = "BLOCKED"
       /\ state[v] = "BLOCKED" => home'[v] = home[v]
       /\ pc'[v] = "dec_blocked" <=> pc[v] = "dec_blocked"
       /\ pc[v] = "dec_blocked" => calls'[v] = calls[v] /\ home'[Op(v)[2]] = home[Op(v)[2]]
  /\ \A f \in Xstream :
       /\ xpc'[f] = "wake_dec" <=> xpc[f] = "wake_dec"
       /\ xpc[f] = "wake_dec" => woken'[f] = woken[f] /\ home'[woken[f]] = home[woken[f]]

LEMMA BlockedSameCount == BlockedCount /\ BlockedSame => BlockedCount'
<1> SUFFICES ASSUME BlockedCount, BlockedSame, NEW p \in Pool
             PROVE  (numBlocked[p] = Cardinality(BlockedIn(p)) + Cardinality(LateWakers(p))
                                     + Cardinality(LateXstreams(p)))'
  BY DEF BlockedCount
<1>1. BlockedIn(p)' = BlockedIn(p)
  BY DEF BlockedSame, BlockedIn
<1>2. LateWakers(p)' = LateWakers(p)
  BY DEF BlockedSame, LateWakers, Op
<1>3. LateXstreams(p)' = LateXstreams(p)
  BY DEF BlockedSame, LateXstreams
<1> QED
  BY <1>1, <1>2, <1>3 DEF BlockedCount, BlockedSame

(***************************************************************************)
(* num_migrations of a pool.                                               *)
(***************************************************************************)

\* A step that asks for no migration, carries none out and counts none.
MigrationSame ==
  /\ UNCHANGED numMigrations
  /\ \A v \in Thread :
       /\ "MIGRATE" \in request'[v] <=> "MIGRATE" \in request[v]
       /\ "MIGRATE" \in request[v] => target'[v] = target[v]
       /\ pc'[v] = "post" <=> pc[v] = "post"
       /\ pc'[v] = "count" <=> pc[v] = "count"
       /\ pc[v] \in {"post", "count"} => calls'[v] = calls[v]
  /\ \A f \in Xstream :
       /\ xpc'[f] = "migrate_dec" <=> xpc[f] = "migrate_dec"
       /\ xpc[f] = "migrate_dec" => dest'[f] = dest[f]

LEMMA MigrationSameSets ==
  ASSUME MigrationSame, NEW p \in Pool
  PROVE  /\ Coming(p)' = Coming(p) /\ Posting(p)' = Posting(p)
         /\ Uncounted(p)' = Uncounted(p) /\ Arrived(p)' = Arrived(p)
         /\ numMigrations'[p] = numMigrations[p]
<1>1. Coming(p)' = Coming(p)
  BY DEF MigrationSame, Coming
<1>2. Posting(p)' = Posting(p)
  BY DEF MigrationSame, Posting, TargetPool, Op
<1>3. Uncounted(p)' = Uncounted(p)
  BY DEF MigrationSame, Uncounted, TargetPool, Op
<1>4. Arrived(p)' = Arrived(p)
  BY DEF MigrationSame, Arrived
<1> QED
  BY <1>1, <1>2, <1>3, <1>4 DEF MigrationSame

\* A step of the scheduler's loop changes neither count of a pool.
LEMMA LoopCounts ==
  ASSUME StreamInv, NEW e \in Xstream, NEW l \in LoopPC \cup {"wake"},
         xpc[e] \in LoopPC, GotoX(e, l),
         UNCHANGED <<dest, woken, numBlocked, numMigrations, threadVars, localVars>>
  PROVE  BlockedSame /\ MigrationSame
<1>1. UNCHANGED <<dest, woken, numBlocked, numMigrations, state, request, home, target, pc, calls>>
  BY DEF threadVars, localVars
<1>2. \A f \in Xstream : /\ xpc'[f] = "wake_dec" <=> xpc[f] = "wake_dec"
                         /\ xpc'[f] = "migrate_dec" <=> xpc[f] = "migrate_dec"
  BY Types DEF GotoX, LoopPC, XPC
<1> QED
  BY <1>1, <1>2 DEF BlockedSame, MigrationSame

LEMMA SchedStartCounts ==
  ASSUME StreamInv, NEW e \in Xstream, SchedStart(e)
  PROVE  BlockedSame /\ MigrationSame
<1>1. PICK l \in {"scan"} : GotoX(e, l)
  BY DEF SchedStart, GotoX
<1>2. xpc[e] \in LoopPC /\ l \in LoopPC \cup {"wake"}
  BY DEF SchedStart, LoopPC, XPC
<1>3. UNCHANGED <<dest, woken, numBlocked, numMigrations, threadVars, localVars>>
  BY DEF SchedStart, loopVars, poolVars
<1> QED
  BY <1>1, <1>2, <1>3, LoopCounts

LEMMA SchedIdleCounts ==
  ASSUME StreamInv, NEW e \in Xstream, SchedIdle(e)
  PROVE  BlockedSame /\ MigrationSame
<1>1. PICK l \in {"count"} : GotoX(e, l)
  BY DEF SchedIdle, GotoX
<1>2. xpc[e] \in LoopPC /\ l \in LoopPC \cup {"wake"}
  BY DEF SchedIdle, LoopPC, XPC
<1>3. UNCHANGED <<dest, woken, numBlocked, numMigrations, threadVars, localVars>>
  BY DEF SchedIdle, loopVars, poolVars
<1> QED
  BY <1>1, <1>2, <1>3, LoopCounts

LEMMA StopOnExitCounts ==
  ASSUME StreamInv, NEW e \in Xstream, StopOnExit(e)
  PROVE  BlockedSame /\ MigrationSame
<1>1. PICK l \in {"stopped"} : GotoX(e, l)
  BY DEF StopOnExit, GotoX
<1>2. xpc[e] \in LoopPC /\ l \in LoopPC \cup {"wake"}
  BY DEF StopOnExit, LoopPC, XPC
<1>3. UNCHANGED <<dest, woken, numBlocked, numMigrations, threadVars, localVars>>
  BY DEF StopOnExit, loopVars, poolVars
<1> QED
  BY <1>1, <1>2, <1>3, LoopCounts

LEMMA EndCounts ==
  ASSUME StreamInv, NEW e \in Xstream, End(e)
  PROVE  BlockedSame /\ MigrationSame
<1>1. PICK l \in {"ended"} : GotoX(e, l)
  BY DEF End, GotoX
<1>2. xpc[e] \in LoopPC /\ l \in LoopPC \cup {"wake"}
  BY DEF End, LoopPC, XPC
<1>3. UNCHANGED <<dest, woken, numBlocked, numMigrations, threadVars, localVars>>
  BY DEF End, loopVars, poolVars
<1> QED
  BY <1>1, <1>2, <1>3, LoopCounts

LEMMA WorkDoneCounts ==
  ASSUME StreamInv, NEW e \in Xstream, WorkDone(e)
  PROVE  BlockedSame /\ MigrationSame
<1>1. PICK l \in {"events", "scan"} : GotoX(e, l)
  BY DEF WorkDone, GotoX
<1>2. xpc[e] \in LoopPC /\ l \in LoopPC \cup {"wake"}
  BY DEF WorkDone, LoopPC, XPC
<1>3. UNCHANGED <<dest, woken, numBlocked, numMigrations, threadVars, localVars>>
  BY DEF WorkDone, loopVars, poolVars
<1> QED
  BY <1>1, <1>2, <1>3, LoopCounts

LEMMA CheckEventsCounts ==
  ASSUME StreamInv, NEW e \in Xstream, CheckEvents(e)
  PROVE  BlockedSame /\ MigrationSame
<1>1. PICK l \in {"exit", "size1", "scan"} : GotoX(e, l)
  BY DEF CheckEvents, GotoX
<1>2. xpc[e] \in LoopPC /\ l \in LoopPC \cup {"wake"}
  BY DEF CheckEvents, LoopPC, XPC
<1>3. UNCHANGED <<dest, woken, numBlocked, numMigrations, threadVars, localVars>>
  BY DEF CheckEvents, loopVars, poolVars
<1> QED
  BY <1>1, <1>2, <1>3, LoopCounts

LEMMA DecideToLockCounts ==
  ASSUME StreamInv, NEW e \in Xstream, DecideToLock(e)
  PROVE  BlockedSame /\ MigrationSame
<1>1. PICK l \in {"size2", "scan"} : GotoX(e, l)
  BY DEF DecideToLock, GotoX
<1>2. xpc[e] \in LoopPC /\ l \in LoopPC \cup {"wake"}
  BY DEF DecideToLock, Sized, LoopPC, XPC
<1>3. UNCHANGED <<dest, woken, numBlocked, numMigrations, threadVars, localVars>>
  BY DEF DecideToLock, Sized, loopVars, poolVars
<1> QED
  BY <1>1, <1>2, <1>3, LoopCounts

LEMMA DecideToStopCounts ==
  ASSUME StreamInv, NEW e \in Xstream, DecideToStop(e)
  PROVE  BlockedSame /\ MigrationSame
<1>1. PICK l \in {"stopped", "scan"} : GotoX(e, l)
  BY DEF DecideToStop, GotoX
<1>2. xpc[e] \in LoopPC /\ l \in LoopPC \cup {"wake"}
  BY DEF DecideToStop, Sized, LoopPC, XPC
<1>3. UNCHANGED <<dest, woken, numBlocked, numMigrations, threadVars, localVars>>
  BY DEF DecideToStop, Sized, loopVars, poolVars
<1> QED
  BY <1>1, <1>2, <1>3, LoopCounts

LEMMA SchedStoppedCounts ==
  ASSUME StreamInv, NEW e \in Xstream, SchedStopped(e)
  PROVE  BlockedSame /\ MigrationSame
<1>1. PICK l \in {"end", "size3", "start"} : GotoX(e, l)
  BY DEF SchedStopped, GotoX
<1>2. xpc[e] \in LoopPC /\ l \in LoopPC \cup {"wake"}
  BY DEF SchedStopped, LoopPC, XPC
<1>3. UNCHANGED <<dest, woken, numBlocked, numMigrations, threadVars, localVars>>
  BY DEF SchedStopped, loopVars, poolVars
<1> QED
  BY <1>1, <1>2, <1>3, LoopCounts

LEMMA DecideToEndCounts ==
  ASSUME StreamInv, NEW e \in Xstream, DecideToEnd(e)
  PROVE  BlockedSame /\ MigrationSame
<1>1. PICK l \in {"start", "wake", "end"} : GotoX(e, l)
  BY DEF DecideToEnd, GotoX
<1>2. xpc[e] \in LoopPC /\ l \in LoopPC \cup {"wake"}
  BY DEF DecideToEnd, Sized, LoopPC, XPC
<1>3. UNCHANGED <<dest, woken, numBlocked, numMigrations, threadVars, localVars>>
  BY DEF DecideToEnd, Sized, loopVars, poolVars
<1> QED
  BY <1>1, <1>2, <1>3, LoopCounts

LEMMA ReadCounterCounts ==
  ASSUME StreamInv, NEW e \in Xstream, ReadCounter(e)
  PROVE  BlockedSame /\ MigrationSame
BY DEF ReadCounter, BlockedSame, MigrationSame, poolVars, threadVars, localVars

LEMMA SchedRunCounts ==
  ASSUME StreamInv, NEW e \in Xstream, SchedRun(e)
  PROVE  BlockedSame /\ MigrationSame
<1>1. UNCHANGED <<dest, woken, numBlocked, numMigrations, request, home, target, pc, calls>>
  BY DEF SchedRun, loopVars, localVars
<1>2. PICK p \in Pool :
        /\ xpc[e] = "scan" /\ NextPool(e, p)
        /\ IF "MIGRATE" \in request[Head(pool[p])]
           THEN GotoX(e, "migrate") /\ UNCHANGED state
           ELSE GotoX(e, "ult") /\ state' = [state EXCEPT ![Head(pool[p])] = "RUNNING"]
  BY DEF SchedRun
<1>3. /\ Head(pool[p]) \in Thread
      /\ state[Head(pool[p])] = "READY"
  <2>1. pool[p] \in Seq(Thread) /\ pool[p] # <<>>
    BY <1>2, Types DEF NextPool
  <2> QED
    BY <2>1, PopUnit DEF StreamInv, PartsOK, PoolOK, PoolAt
<1>4. \A v \in Thread : state'[v] = "BLOCKED" <=> state[v] = "BLOCKED"
  BY <1>2, <1>3, Types
<1>5. \A f \in Xstream : /\ xpc'[f] = "wake_dec" <=> xpc[f] = "wake_dec"
                         /\ xpc'[f] = "migrate_dec" <=> xpc[f] = "migrate_dec"
  BY <1>2, Types DEF GotoX
<1> QED
  BY <1>1, <1>4, <1>5 DEF BlockedSame, MigrationSame

LEMMA ReturnCounts ==
  ASSUME StreamInv, NEW e \in Xstream,
         \/ ReturnTerminated(e) \/ ReturnYielded(e) \/ ReturnBlocked(e) \/ ReturnMigrating(e)
  PROVE  BlockedSame /\ MigrationSame
<1>1. PICK u \in Thread : u = running[e]
  BY Running DEF ReturnTerminated, ReturnYielded, ReturnBlocked, ReturnMigrating
<1>2. xpc[e] = "ret" /\ OnAt(e, u) /\ ThreadOK(u)
  BY <1>1, Running DEF ReturnTerminated, ReturnYielded, ReturnBlocked, ReturnMigrating
<1>3. UNCHANGED <<dest, woken, numBlocked, numMigrations, home, target, pc, calls>>
  BY DEF ReturnTerminated, ReturnYielded, ReturnBlocked, ReturnMigrating, loopVars, poolVars,
         localVars, threadVars
<1>4. \A v \in Thread : state'[v] = "BLOCKED" <=> state[v] = "BLOCKED"
  <2>1. CASE ReturnTerminated(e)
    <3>1. state' = [state EXCEPT ![u] = "TERMINATED"] /\ "TERMINATE" \in request[u]
      BY <2>1, <1>1 DEF ReturnTerminated
    <3>2. state[u] # "BLOCKED"
      BY <3>1, <1>2 DEF OnAt
    <3> QED
      BY <3>1, <3>2, Types
  <2>2. CASE ReturnYielded(e)
    <3>1. state' = [state EXCEPT ![u] = "READY"] /\ request[u] = {}
      BY <2>2, <1>1 DEF ReturnYielded, MakeReady
    <3>2. state[u] # "BLOCKED"
      BY <3>1, <1>2 DEF OnAt
    <3> QED
      BY <3>1, <3>2, Types
  <2>3. CASE ReturnBlocked(e) \/ ReturnMigrating(e)
    BY <2>3 DEF ReturnBlocked, ReturnMigrating, threadVars
  <2> QED
    BY <2>1, <2>2, <2>3
<1>5. \A v \in Thread : "MIGRATE" \in request'[v] <=> "MIGRATE" \in request[v]
  <2>1. CASE ReturnBlocked(e)
    BY <2>1, <1>1, Types DEF ReturnBlocked
  <2>2. CASE ~ReturnBlocked(e)
    BY <2>2 DEF ReturnTerminated, ReturnYielded, ReturnMigrating, threadVars
  <2> QED
    BY <2>1, <2>2
<1>6. \A f \in Xstream : /\ xpc'[f] = "wake_dec" <=> xpc[f] = "wake_dec"
                         /\ xpc'[f] = "migrate_dec" <=> xpc[f] = "migrate_dec"
  BY <1>2, Types DEF GotoX, ReturnTerminated, ReturnYielded, ReturnBlocked, ReturnMigrating
<1> QED
  BY <1>3, <1>4, <1>5, <1>6 DEF BlockedSame, MigrationSame

LEMMA WakeJoinerMigrations ==
  ASSUME StreamInv, NEW e \in Xstream, WakeJoiner(e) \/ WakeJoinerDec(e)
  PROVE  MigrationSame
<1>1. UNCHANGED <<dest, numMigrations, request, target, pc, calls>>
  BY DEF WakeJoiner, WakeJoinerDec, localVars, threadVars
<1>2. \A f \in Xstream : xpc'[f] = "migrate_dec" <=> xpc[f] = "migrate_dec"
  BY Types DEF WakeJoiner, WakeJoinerDec, GotoX
<1> QED
  BY <1>1, <1>2 DEF MigrationSame

LEMMA MigrateDecBlocked ==
  ASSUME StreamInv, NEW e \in Xstream, MigrateDec(e)
  PROVE  BlockedSame
<1>1. UNCHANGED <<woken, numBlocked, state, home, pc, calls>>
  BY DEF MigrateDec, localVars, threadVars
<1>2. \A f \in Xstream : xpc'[f] = "wake_dec" <=> xpc[f] = "wake_dec"
  BY Types DEF MigrateDec, GotoX
<1> QED
  BY <1>1, <1>2 DEF BlockedSame

\* A ULT that migrates is not one that is yet to be counted out of its pool.
LEMMA MigrateBlocked ==
  ASSUME StreamInv, CountedOut, NEW e \in Xstream, Migrate(e)
  PROVE  BlockedSame
<1>1. PICK u \in Thread : u = running[e]
  BY Running DEF Migrate
<1>2. xpc[e] = "migrate" /\ OnAt(e, u)
  BY <1>1, Running DEF Migrate
<1>3. UNCHANGED <<woken, numBlocked, state, pc, calls>>
  BY DEF Migrate, localVars
<1>4. state[u] # "BLOCKED"
  BY <1>2 DEF OnAt
<1>5. \A v : v # u => home'[v] = home[v]
  <2>1. home' = [home EXCEPT ![u] = target[u]]
    BY <1>1 DEF Migrate
  <2> QED
    BY <2>1, Types
<1>6. /\ \A w \in Thread : pc[w] = "dec_blocked" => Op(w)[2] # u
      /\ \A f \in Xstream : woken[f] # u
  BY <1>1, <1>2 DEF CountedOut
<1>7. \A f \in Xstream : xpc'[f] = "wake_dec" <=> xpc[f] = "wake_dec"
  BY <1>2, Types DEF Migrate, GotoX
<1> QED
  BY <1>3, <1>4, <1>5, <1>6, <1>7 DEF BlockedSame

\* Steps of a ULT that are neither of a wake-up nor of a migration.
PlainPC == PC \ {"dec_blocked", "post", "count"}

LEMMA PlainCalls ==
  ASSUME StreamInv, NEW u \in Thread, pc[u] \in PlainPC,
         Returns(u) \/ (\E l \in PlainPC : Goto(u, l)) \/ UNCHANGED localVars
  PROVE  \A v \in Thread :
           /\ pc'[v] = "dec_blocked" <=> pc[v] = "dec_blocked"
           /\ pc'[v] = "post" <=> pc[v] = "post"
           /\ pc'[v] = "count" <=> pc[v] = "count"
           /\ pc[v] \in {"dec_blocked", "post", "count"} => calls'[v] = calls[v]
<1>1. CASE Returns(u)
  BY <1>1, Types DEF Returns, PlainPC
<1>2. CASE \E l \in PlainPC : Goto(u, l)
  BY <1>2, Types DEF Goto, PlainPC
<1>3. CASE UNCHANGED localVars
  BY <1>3 DEF localVars
<1> QED
  BY <1>1, <1>2, <1>3

LEMMA SwitchCounts ==
  ASSUME StreamInv, NEW e \in Xstream, NEW u \in Thread, On(u, e),
         GotoX(e, "ret") \/ UNCHANGED xpc
  PROVE  \A f \in Xstream : /\ xpc'[f] = "wake_dec" <=> xpc[f] = "wake_dec"
                            /\ xpc'[f] = "migrate_dec" <=> xpc[f] = "migrate_dec"
BY Types DEF GotoX, On

LEMMA PlainCounts ==
  ASSUME StreamInv, NEW e \in Xstream, NEW u \in Thread, On(u, e),
         \/ Leave(u, e) \/ Yield(u, e) \/ Suspend(u, e) \/ Poll(u, e) \/ Awaited(u)
         \/ CancelXstream(u) \/ JoinCheck(u, e) \/ JoinArg(u) \/ JoinPost(u) \/ JoinPolled(u)
         \/ ContextJoin(u)
  PROVE  BlockedSame /\ MigrationSame
<1> DEFINE Switching == Leave(u, e) \/ Yield(u, e) \/ Suspend(u, e) \/ Poll(u, e)
           Joining1 == \/ Awaited(u) \/ CancelXstream(u) \/ JoinCheck(u, e) \/ JoinArg(u)
                       \/ JoinPost(u) \/ JoinPolled(u) \/ ContextJoin(u)
<1>1. UNCHANGED <<dest, woken, numBlocked, numMigrations, home, target>>
  <2>1. CASE Switching
    BY <2>1 DEF Leave, Yield, Suspend, Poll, loopVars, poolVars, threadVars
  <2>2. CASE Joining1
    BY <2>2 DEF Awaited, CancelXstream, JoinCheck, JoinArg, JoinPost, JoinPolled, ContextJoin,
         loopVars, poolVars, threadVars
  <2> QED
    BY <2>1, <2>2
<1>2. /\ pc[u] \in PlainPC
      /\ Returns(u) \/ (\E l \in PlainPC : Goto(u, l)) \/ UNCHANGED localVars
  <2>1. {"call", "poll", "suspend", "join_arg", "set_blocked", "join_post", "context_join", "done"}
          \subseteq PlainPC
    BY DEF PlainPC, PC
  <2>2. CASE Switching
    BY <2>1, <2>2 DEF Leave, Yield, Suspend, Poll, Polls, Calls
  <2>3. CASE Awaited(u) \/ CancelXstream(u) \/ JoinArg(u) \/ JoinPolled(u) \/ ContextJoin(u)
    BY <2>1, <2>3 DEF Awaited, CancelXstream, JoinArg, JoinPolled, ContextJoin, Calls
  <2>4. CASE JoinCheck(u, e)
    BY <2>1, <2>4 DEF JoinCheck, Calls
  <2>5. CASE JoinPost(u)
    BY <2>1, <2>5 DEF JoinPost, Calls
  <2> QED
    BY <2>2, <2>3, <2>4, <2>5
<1>3. GotoX(e, "ret") \/ UNCHANGED xpc
  <2>1. CASE Switching
    BY <2>1 DEF Leave, Yield, Suspend, Poll, SwitchToSched
  <2>2. CASE Joining1
    BY <2>2 DEF Awaited, CancelXstream, JoinCheck, JoinArg, JoinPost, JoinPolled, ContextJoin
  <2> QED
    BY <2>1, <2>2
<1>4. \A v \in Thread : state'[v] = "BLOCKED" <=> state[v] = "BLOCKED"
  <2>1. CASE Yield(u, e) \/ Poll(u, e)
    <3>1. pc[u] \in {"call", "poll"} /\ ~Blocking(u) /\ state' = [state EXCEPT ![u] = "READY"]
      BY <2>1 DEF Yield, Poll, Polls, Calls, SwitchToSched, Blocking
    <3>2. state[u] = "RUNNING"
      BY <3>1, UltOn
    <3> QED
      BY <3>1, <3>2, Types
  <2>2. CASE Leave(u, e) \/ Suspend(u, e)
    BY <2>2 DEF Leave, Suspend, threadVars
  <2>3. CASE Joining1
    BY <2>3 DEF Awaited, CancelXstream, JoinCheck, JoinArg, JoinPost, JoinPolled, ContextJoin,
       threadVars
  <2> QED
    BY <2>1, <2>2, <2>3
<1>5. \A v \in Thread : "MIGRATE" \in request'[v] <=> "MIGRATE" \in request[v]
  <2>1. CASE Leave(u, e)
    BY <2>1, Types DEF Leave
  <2>2. CASE Yield(u, e) \/ Suspend(u, e) \/ Poll(u, e)
    BY <2>2 DEF Yield, Suspend, Poll, threadVars
  <2>3. CASE Joining1
    BY <2>3 DEF Awaited, CancelXstream, JoinCheck, JoinArg, JoinPost, JoinPolled, ContextJoin,
       threadVars
  <2> QED
    BY <2>1, <2>2, <2>3
<1>6. \A v \in Thread :
        /\ pc'[v] = "dec_blocked" <=> pc[v] = "dec_blocked"
        /\ pc'[v] = "post" <=> pc[v] = "post"
        /\ pc'[v] = "count" <=> pc[v] = "count"
        /\ pc[v] \in {"dec_blocked", "post", "count"} => calls'[v] = calls[v]
  BY <1>2, PlainCalls
<1>7. \A f \in Xstream : /\ xpc'[f] = "wake_dec" <=> xpc[f] = "wake_dec"
                         /\ xpc'[f] = "migrate_dec" <=> xpc[f] = "migrate_dec"
  BY <1>3, SwitchCounts
<1> QED
  BY <1>1, <1>4, <1>5, <1>6, <1>7 DEF BlockedSame, MigrationSame

LEMMA WakeUpMigrations ==
  ASSUME StreamInv, NEW e \in Xstream, NEW u \in Thread, On(u, e),
         BlockUlt(u) \/ WakeUp(u) \/ WakeUpDec(u)
  PROVE  MigrationSame
<1>1. UNCHANGED <<xpc, dest, numMigrations, target>>
  BY DEF BlockUlt, WakeUp, WakeUpDec, loopVars, threadVars
<1>2. \A v \in Thread : "MIGRATE" \in request'[v] <=> "MIGRATE" \in request[v]
  <2>1. CASE BlockUlt(u)
    BY <2>1, Types DEF BlockUlt, SetBlocked
  <2>2. CASE WakeUp(u) \/ WakeUpDec(u)
    BY <2>2 DEF WakeUp, WakeUpDec, threadVars
  <2> QED
    BY <2>1, <2>2
<1>3. \A v \in Thread : /\ pc'[v] = "post" <=> pc[v] = "post"
                        /\ pc'[v] = "count" <=> pc[v] = "count"
                        /\ pc[v] \in {"post", "count"} => calls'[v] = calls[v]
  <2>1. CASE BlockUlt(u)
    BY <2>1, Types DEF BlockUlt, Calls, Goto
  <2>2. CASE WakeUp(u)
    BY <2>2, Types DEF WakeUp, Calls, Goto
  <2>3. CASE WakeUpDec(u)
    BY <2>3, Types DEF WakeUpDec, Returns
  <2> QED
    BY <2>1, <2>2, <2>3
<1> QED
  BY <1>1, <1>2, <1>3 DEF MigrationSame

LEMMA MigrationBlocked ==
  ASSUME StreamInv, NEW e \in Xstream, NEW u \in Thread, On(u, e),
         MigrateToXstream(u) \/ PostMigration(u, e) \/ RefuseMigration(u) \/ CountMigration(u)
  PROVE  BlockedSame
<1>1. UNCHANGED <<woken, numBlocked, home>>
  BY DEF MigrateToXstream, PostMigration, RefuseMigration, CountMigration, loopVars, poolVars,
         threadVars
<1>2. \A v \in Thread : state'[v] = "BLOCKED" <=> state[v] = "BLOCKED"
  <2>1. CASE PostMigration(u, e)
    <3>1. state[u] = "RUNNING"
      BY <2>1, PostPlace, UltOn
    <3>2. state' = [state EXCEPT ![u] = "READY"] \/ UNCHANGED state
      BY <2>1 DEF PostMigration, SwitchToSched
    <3> QED
      BY <3>1, <3>2, Types
  <2>2. CASE ~PostMigration(u, e)
    BY <2>2 DEF MigrateToXstream, RefuseMigration, CountMigration, threadVars
  <2> QED
    BY <2>1, <2>2
<1>3. \A v \in Thread : /\ pc'[v] = "dec_blocked" <=> pc[v] = "dec_blocked"
                        /\ pc[v] = "dec_blocked" => calls'[v] = calls[v]
  <2>1. CASE PostMigration(u, e)
    BY <2>1, PostPlace
  <2>2. CASE MigrateToXstream(u)
    BY <2>2, Types DEF MigrateToXstream, Calls, Goto, Returns
  <2>3. CASE RefuseMigration(u) \/ CountMigration(u)
    BY <2>3, Types DEF RefuseMigration, CountMigration, Posts, Calls, Returns
  <2> QED
    BY <2>1, <2>2, <2>3
<1>4. GotoX(e, "ret") \/ UNCHANGED xpc
  BY DEF MigrateToXstream, PostMigration, RefuseMigration, CountMigration, SwitchToSched
<1>5. \A f \in Xstream : xpc'[f] = "wake_dec" <=> xpc[f] = "wake_dec"
  BY <1>4, SwitchCounts
<1> QED
  BY <1>1, <1>2, <1>3, <1>5 DEF BlockedSame

(***************************************************************************)
(* The steps that change num_blocked, or what it counts.                   *)
(***************************************************************************)

LEMMA Finite ==
  IsFiniteSet(Thread) /\ IsFiniteSet(Xstream)
BY StreamAssumption

\* A step that concerns the blocked ULT w, the caller u and the ES e only.
BlockedStep(p, w, u, e) ==
  /\ \A v \in Thread : v # w => (v \in BlockedIn(p)' <=> v \in BlockedIn(p))
  /\ \A v \in Thread : v # u => (v \in LateWakers(p)' <=> v \in LateWakers(p))
  /\ \A f \in Xstream : f # e => (f \in LateXstreams(p)' <=> f \in LateXstreams(p))
  /\ numBlocked'[p] = numBlocked[p]
       + (Bit(w \in BlockedIn(p)') - Bit(w \in BlockedIn(p)))
       + (Bit(u \in LateWakers(p)') - Bit(u \in LateWakers(p)))
       + (Bit(e \in LateXstreams(p)') - Bit(e \in LateXstreams(p)))

LEMMA BlockedChange ==
  ASSUME BlockedCount, NEW w, NEW u, NEW e, NEW p \in Pool,
         numBlocked[p] \in Int, BlockedStep(p, w, u, e)
  PROVE  (numBlocked[p] = Cardinality(BlockedIn(p)) + Cardinality(LateWakers(p))
                          + Cardinality(LateXstreams(p)))'
<1> USE DEF BlockedStep
<1> DEFINE B == BlockedIn(p)
           C == BlockedIn(p)'
           L == LateWakers(p)
           M == LateWakers(p)'
           X == LateXstreams(p)
           Y == LateXstreams(p)'
<1>1. /\ B \in SUBSET Thread /\ C \in SUBSET Thread
      /\ L \in SUBSET Thread /\ M \in SUBSET Thread
      /\ X \in SUBSET Xstream /\ Y \in SUBSET Xstream
  BY DEF BlockedIn, LateWakers, LateXstreams
<1>2. numBlocked[p] = Cardinality(B) + Cardinality(L) + Cardinality(X)
  BY DEF BlockedCount
<1> HIDE DEF B, C, L, M, X, Y
<1>3. /\ Cardinality(B) \in Nat /\ Cardinality(C) \in Nat
      /\ Cardinality(C) = Cardinality(B) + Bit(w \in C) - Bit(w \in B)
  <2>1. \A v \in Thread : v # w => (v \in C <=> v \in B)
    BY DEF B, C
  <2> QED
    BY ONLY <2>1, <1>1, Finite, CountChange
<1>4. /\ Cardinality(L) \in Nat /\ Cardinality(M) \in Nat
      /\ Cardinality(M) = Cardinality(L) + Bit(u \in M) - Bit(u \in L)
  <2>1. \A v \in Thread : v # u => (v \in M <=> v \in L)
    BY DEF L, M
  <2> QED
    BY ONLY <2>1, <1>1, Finite, CountChange
<1>5. /\ Cardinality(X) \in Nat /\ Cardinality(Y) \in Nat
      /\ Cardinality(Y) = Cardinality(X) + Bit(e \in Y) - Bit(e \in X)
  <2>1. \A f \in Xstream : f # e => (f \in Y <=> f \in X)
    BY DEF X, Y
  <2> QED
    BY ONLY <2>1, <1>1, Finite, CountChange
<1>6. /\ Bit(w \in B) \in Int /\ Bit(w \in C) \in Int /\ Bit(u \in L) \in Int
      /\ Bit(u \in M) \in Int /\ Bit(e \in X) \in Int /\ Bit(e \in Y) \in Int
  BY DEF Bit
<1>7. numBlocked'[p] = numBlocked[p] + (Bit(w \in C) - Bit(w \in B))
         + (Bit(u \in M) - Bit(u \in L)) + (Bit(e \in Y) - Bit(e \in X))
  BY DEF B, C, L, M, X, Y
<1>8. numBlocked'[p] = Cardinality(C) + Cardinality(M) + Cardinality(Y)
  BY <1>2, <1>3, <1>4, <1>5, <1>6, <1>7
<1> QED
  BY <1>8 DEF C, M, Y

LEMMA BlockUltBlocked ==
  ASSUME StreamInv, BlockedCount, NEW e \in Xstream, NEW u \in Thread, On(u, e), BlockUlt(u)
  PROVE  BlockedCount'
<1> SUFFICES ASSUME NEW p \in Pool
             PROVE  (numBlocked[p] = Cardinality(BlockedIn(p)) + Cardinality(LateWakers(p))
                                     + Cardinality(LateXstreams(p)))'
  BY DEF BlockedCount
<1>1. /\ ~Blocking(u) /\ pc[u] \in {"call", "set_blocked"}
      /\ state' = [state EXCEPT ![u] = "BLOCKED"]
      /\ numBlocked' = [numBlocked EXCEPT ![home[u]] = @ + 1]
      /\ UNCHANGED <<calls, xpc, woken, home>>
      /\ pc' = [pc EXCEPT ![u] = "suspend"] \/ pc' = [pc EXCEPT ![u] = "join_post"]
  BY DEF BlockUlt, SetBlocked, Calls, Goto, Blocking, loopVars
<1>2. state[u] = "RUNNING"
  BY <1>1, UltOn
<1>3. \A v \in Thread : v # u => (v \in BlockedIn(p)' <=> v \in BlockedIn(p))
  BY <1>1, Types DEF BlockedIn
<1>4. Bit(u \in BlockedIn(p)) = 0 /\ Bit(u \in BlockedIn(p)') = Bit(home[u] = p)
  BY <1>1, <1>2, Types DEF BlockedIn, Bit
<1>5. LateWakers(p)' = LateWakers(p)
  BY <1>1, Types DEF LateWakers, Op
<1>6. LateXstreams(p)' = LateXstreams(p)
  BY <1>1 DEF LateXstreams
<1>7. numBlocked[p] \in Int /\ numBlocked'[p] = numBlocked[p] + Bit(home[u] = p)
  BY <1>1, Types DEF Bit
<1>8. /\ Bit(u \in LateWakers(p)) - Bit(u \in LateWakers(p)) = 0
      /\ Bit(e \in LateXstreams(p)) - Bit(e \in LateXstreams(p)) = 0
      /\ Bit(home[u] = p) \in Int
  BY DEF Bit
<1>9. numBlocked'[p] = numBlocked[p]
           + (Bit(u \in BlockedIn(p)') - Bit(u \in BlockedIn(p)))
           + (Bit(u \in LateWakers(p)') - Bit(u \in LateWakers(p)))
           + (Bit(e \in LateXstreams(p)') - Bit(e \in LateXstreams(p)))
  BY <1>4, <1>5, <1>6, <1>7, <1>8
<1>10. BlockedStep(p, u, u, e)
  BY <1>3, <1>5, <1>6, <1>9 DEF BlockedStep
<1> QED
  BY <1>7, <1>10, BlockedChange

LEMMA WakeUpBlocked ==
  ASSUME StreamInv, BlockedCount, NEW e \in Xstream, NEW u \in Thread, On(u, e), WakeUp(u)
  PROVE  BlockedCount'
<1> SUFFICES ASSUME NEW p \in Pool
             PROVE  (numBlocked[p] = Cardinality(BlockedIn(p)) + Cardinality(LateWakers(p))
                                     + Cardinality(LateXstreams(p)))'
  BY DEF BlockedCount
<1>1. /\ pc[u] = "call" /\ calls[u] # <<>> /\ Op(u)[1] = "wake"
      /\ pc' = [pc EXCEPT ![u] = "dec_blocked"]
      /\ UNCHANGED <<calls, xpc, woken, home, numBlocked>>
  BY DEF WakeUp, Calls, Goto, loopVars
<1>2. PICK w \in Thread : w = Op(u)[2]
  BY <1>1, OpType, CallType DEF StreamInv
<1>3. state[w] = "BLOCKED" /\ state' = [state EXCEPT ![w] = "READY"]
  BY <1>2 DEF WakeUp, CanSetReady, MakeReady
<1>4. \A v \in Thread : v # w => (v \in BlockedIn(p)' <=> v \in BlockedIn(p))
  BY <1>1, <1>3, Types DEF BlockedIn
<1>5. Bit(w \in BlockedIn(p)) = Bit(home[w] = p) /\ Bit(w \in BlockedIn(p)') = 0
  BY <1>1, <1>3, Types DEF BlockedIn, Bit
<1>6. \A v \in Thread : v # u => (v \in LateWakers(p)' <=> v \in LateWakers(p))
  BY <1>1, Types DEF LateWakers, Op
<1>7. Bit(u \in LateWakers(p)) = 0 /\ Bit(u \in LateWakers(p)') = Bit(home[w] = p)
  BY <1>1, <1>2, Types DEF LateWakers, Op, Bit
<1>8. LateXstreams(p)' = LateXstreams(p)
  BY <1>1 DEF LateXstreams
<1>9. numBlocked[p] \in Int /\ numBlocked'[p] = numBlocked[p]
  BY <1>1, Types
<1>10. /\ Bit(e \in LateXstreams(p)) - Bit(e \in LateXstreams(p)) = 0
       /\ Bit(home[w] = p) \in Int
  BY DEF Bit
<1>11. numBlocked'[p] = numBlocked[p]
           + (Bit(w \in BlockedIn(p)') - Bit(w \in BlockedIn(p)))
           + (Bit(u \in LateWakers(p)') - Bit(u \in LateWakers(p)))
           + (Bit(e \in LateXstreams(p)') - Bit(e \in LateXstreams(p)))
  BY <1>5, <1>7, <1>8, <1>9, <1>10
<1>12. BlockedStep(p, w, u, e)
  BY <1>4, <1>6, <1>8, <1>11 DEF BlockedStep
<1> QED
  BY <1>9, <1>12, BlockedChange

LEMMA WakeUpDecBlocked ==
  ASSUME StreamInv, BlockedCount, NEW e \in Xstream, NEW u \in Thread, On(u, e), WakeUpDec(u)
  PROVE  BlockedCount'
<1> SUFFICES ASSUME NEW p \in Pool
             PROVE  (numBlocked[p] = Cardinality(BlockedIn(p)) + Cardinality(LateWakers(p))
                                     + Cardinality(LateXstreams(p)))'
  BY DEF BlockedCount
<1>1. /\ pc[u] = "dec_blocked"
      /\ pc' = [pc EXCEPT ![u] = "call"] /\ calls' = [calls EXCEPT ![u] = Tail(@)]
      /\ numBlocked' = [numBlocked EXCEPT ![home[Op(u)[2]]] = @ - 1]
      /\ UNCHANGED <<xpc, woken, home, state>>
  BY DEF WakeUpDec, DecBlocked, Returns, loopVars, threadVars
<1>2. BlockedIn(p)' = BlockedIn(p)
  BY <1>1 DEF BlockedIn
<1>3. \A v \in Thread : v # u => (v \in LateWakers(p)' <=> v \in LateWakers(p))
  BY <1>1, Types DEF LateWakers, Op
<1>4. /\ Bit(u \in LateWakers(p)) = Bit(home[Op(u)[2]] = p)
      /\ Bit(u \in LateWakers(p)') = 0
  BY <1>1, Types DEF LateWakers, Bit
<1>5. LateXstreams(p)' = LateXstreams(p)
  BY <1>1 DEF LateXstreams
<1>6. numBlocked[p] \in Int /\ numBlocked'[p] = numBlocked[p] - Bit(home[Op(u)[2]] = p)
  BY <1>1, Types DEF Bit
<1>7. /\ Bit(e \in LateXstreams(p)) - Bit(e \in LateXstreams(p)) = 0
      /\ Bit(u \in BlockedIn(p)) - Bit(u \in BlockedIn(p)) = 0
      /\ Bit(home[Op(u)[2]] = p) \in Int
  BY DEF Bit
<1>8. numBlocked'[p] = numBlocked[p]
           + (Bit(u \in BlockedIn(p)') - Bit(u \in BlockedIn(p)))
           + (Bit(u \in LateWakers(p)') - Bit(u \in LateWakers(p)))
           + (Bit(e \in LateXstreams(p)') - Bit(e \in LateXstreams(p)))
  BY <1>2, <1>4, <1>5, <1>6, <1>7
<1>9. BlockedStep(p, u, u, e)
  BY <1>2, <1>3, <1>5, <1>8 DEF BlockedStep
<1> QED
  BY <1>6, <1>9, BlockedChange

LEMMA WakeJoinerBlocked ==
  ASSUME StreamInv, BlockedCount, NEW e \in Xstream, WakeJoiner(e)
  PROVE  BlockedCount'
<1> SUFFICES ASSUME NEW p \in Pool
             PROVE  (numBlocked[p] = Cardinality(BlockedIn(p)) + Cardinality(LateWakers(p))
                                     + Cardinality(LateXstreams(p)))'
  BY DEF BlockedCount
<1>1. PICK w \in Thread : w = reqArg[e]
  BY Types DEF WakeJoiner, StreamInv, PartsOK, RunOK, RunAt
<1>2. /\ xpc[e] = "wake" /\ state[w] = "BLOCKED"
      /\ state' = [state EXCEPT ![w] = "READY"]
      /\ woken' = [woken EXCEPT ![e] = w]
      /\ xpc' = [xpc EXCEPT ![e] = "wake_dec"]
      /\ UNCHANGED <<calls, pc, home, numBlocked>>
  BY <1>1 DEF WakeJoiner, CanSetReady, MakeReady, GotoX, localVars
<1>3. \A v \in Thread : v # w => (v \in BlockedIn(p)' <=> v \in BlockedIn(p))
  BY <1>2, Types DEF BlockedIn
<1>4. Bit(w \in BlockedIn(p)) = Bit(home[w] = p) /\ Bit(w \in BlockedIn(p)') = 0
  BY <1>2, Types DEF BlockedIn, Bit
<1>5. LateWakers(p)' = LateWakers(p)
  BY <1>2 DEF LateWakers, Op
<1>6. \A f \in Xstream : f # e => (f \in LateXstreams(p)' <=> f \in LateXstreams(p))
  BY <1>2, Types DEF LateXstreams
<1>7. Bit(e \in LateXstreams(p)) = 0 /\ Bit(e \in LateXstreams(p)') = Bit(home[w] = p)
  BY <1>2, Types DEF LateXstreams, Bit
<1>8. numBlocked[p] \in Int /\ numBlocked'[p] = numBlocked[p]
  BY <1>2, Types
<1>9. /\ Bit(w \in LateWakers(p)) - Bit(w \in LateWakers(p)) = 0
      /\ Bit(home[w] = p) \in Int
  BY DEF Bit
<1>10. numBlocked'[p] = numBlocked[p]
           + (Bit(w \in BlockedIn(p)') - Bit(w \in BlockedIn(p)))
           + (Bit(w \in LateWakers(p)') - Bit(w \in LateWakers(p)))
           + (Bit(e \in LateXstreams(p)') - Bit(e \in LateXstreams(p)))
  BY <1>4, <1>5, <1>7, <1>8, <1>9
<1>11. BlockedStep(p, w, w, e)
  BY <1>3, <1>5, <1>6, <1>10 DEF BlockedStep
<1> QED
  BY <1>8, <1>11, BlockedChange

LEMMA WakeJoinerDecBlocked ==
  ASSUME StreamInv, BlockedCount, NEW e \in Xstream, WakeJoinerDec(e)
  PROVE  BlockedCount'
<1> SUFFICES ASSUME NEW p \in Pool
             PROVE  (numBlocked[p] = Cardinality(BlockedIn(p)) + Cardinality(LateWakers(p))
                                     + Cardinality(LateXstreams(p)))'
  BY DEF BlockedCount
<1>1. PICK w : w = woken[e]
  OBVIOUS
<1>2. /\ xpc[e] = "wake_dec"
      /\ numBlocked' = [numBlocked EXCEPT ![home[w]] = @ - 1]
      /\ woken' = [woken EXCEPT ![e] = NoThread]
      /\ xpc' = [xpc EXCEPT ![e] = "end"]
      /\ UNCHANGED <<calls, pc, home, state>>
  BY <1>1 DEF WakeJoinerDec, DecBlocked, GotoX, localVars, threadVars
<1>3. BlockedIn(p)' = BlockedIn(p)
  BY <1>2 DEF BlockedIn
<1>4. LateWakers(p)' = LateWakers(p)
  BY <1>2 DEF LateWakers, Op
<1>5. \A f \in Xstream : f # e => (f \in LateXstreams(p)' <=> f \in LateXstreams(p))
  BY <1>2, Types DEF LateXstreams
<1>6. Bit(e \in LateXstreams(p)) = Bit(home[w] = p) /\ Bit(e \in LateXstreams(p)') = 0
  BY <1>1, <1>2, Types DEF LateXstreams, Bit
<1>7. numBlocked[p] \in Int /\ numBlocked'[p] = numBlocked[p] - Bit(home[w] = p)
  BY <1>2, Types DEF Bit
<1>8. /\ Bit(w \in LateWakers(p)) - Bit(w \in LateWakers(p)) = 0
      /\ Bit(w \in BlockedIn(p)) - Bit(w \in BlockedIn(p)) = 0
      /\ Bit(home[w] = p) \in Int
  BY DEF Bit
<1>9. numBlocked'[p] = numBlocked[p]
           + (Bit(w \in BlockedIn(p)') - Bit(w \in BlockedIn(p)))
           + (Bit(w \in LateWakers(p)') - Bit(w \in LateWakers(p)))
           + (Bit(e \in LateXstreams(p)') - Bit(e \in LateXstreams(p)))
  BY <1>3, <1>4, <1>6, <1>7, <1>8
<1>10. BlockedStep(p, w, w, e)
  BY <1>3, <1>4, <1>5, <1>9 DEF BlockedStep
<1> QED
  BY <1>7, <1>10, BlockedChange

LEMMA BlockedNext ==
  ASSUME StreamInv, CountedOut, BlockedCount, [Next]_vars
  PROVE  BlockedCount'
<1>1. CASE UNCHANGED vars
  BY <1>1, BlockedSameCount DEF BlockedSame, vars, loopVars, poolVars, threadVars, localVars
<1>2. ASSUME NEW e \in Xstream, Scheduler(e) PROVE BlockedCount'
  BY <1>2, BlockedSameCount, SchedStartCounts, SchedRunCounts, SchedIdleCounts, ReturnCounts,
     MigrateBlocked, MigrateDecBlocked, WorkDoneCounts, CheckEventsCounts, StopOnExitCounts,
     ReadCounterCounts, DecideToLockCounts, DecideToStopCounts, SchedStoppedCounts,
     DecideToEndCounts, WakeJoinerBlocked, WakeJoinerDecBlocked, EndCounts DEF Scheduler
<1>3. ASSUME NEW e \in Xstream, NEW u \in Thread, Ult(u, e) PROVE BlockedCount'
  BY <1>3, BlockedSameCount, PlainCounts, MigrationBlocked, BlockUltBlocked, WakeUpBlocked,
     WakeUpDecBlocked DEF Ult
<1> QED
  BY <1>1, <1>2, <1>3 DEF Next, Es

\* Where no ULT migrates between the step that wakes it and the one that counts it out,
\* num_blocked of a pool is the number of its ULTs that are BLOCKED and of those about to be
\* counted out (set_ready in thread.c, set_blocked in thread.c).
THEOREM StreamBlockedCount == Spec /\ []CountedOut => []BlockedCount
<1>1. Init => BlockedCount
  <2> SUFFICES ASSUME Init, NEW p \in Pool
               PROVE  numBlocked[p] = Cardinality(BlockedIn(p)) + Cardinality(LateWakers(p))
                                      + Cardinality(LateXstreams(p))
    BY DEF BlockedCount
  <2>1. BlockedIn(p) = {} /\ LateWakers(p) = {} /\ LateXstreams(p) = {} /\ numBlocked[p] = 0
    BY DEF Init, BlockedIn, LateWakers, LateXstreams
  <2> QED
    BY <2>1, FS_EmptySet
<1>2. StreamInv /\ CountedOut /\ BlockedCount /\ [Next]_vars => BlockedCount'
  BY BlockedNext
<1> QED
  BY <1>1, <1>2, StreamInvariant, PTL DEF Spec

(***************************************************************************)
(* The steps that change num_migrations, or what it counts.                *)
(***************************************************************************)

\* By how much num_migrations of a pool is too high.
Surplus(p) ==
  numMigrations[p] + Cardinality(Uncounted(p)) - Cardinality(Coming(p))
    - Cardinality(Posting(p)) - Cardinality(Arrived(p))

LEMMA SurplusType ==
  ASSUME StreamInv, NEW p \in Pool
  PROVE  /\ Surplus(p) \in Int /\ numMigrations[p] \in Int
         /\ Cardinality(Uncounted(p)) \in Nat /\ Cardinality(Coming(p)) \in Nat
         /\ Cardinality(Posting(p)) \in Nat /\ Cardinality(Arrived(p)) \in Nat
<1>1. /\ Uncounted(p) \in SUBSET Thread /\ Coming(p) \in SUBSET Thread
      /\ Posting(p) \in SUBSET Thread /\ Arrived(p) \in SUBSET Xstream
  BY DEF Uncounted, Coming, Posting, Arrived
<1>2. /\ Cardinality(Uncounted(p)) \in Nat /\ Cardinality(Coming(p)) \in Nat
      /\ Cardinality(Posting(p)) \in Nat /\ Cardinality(Arrived(p)) \in Nat
  BY <1>1, Finite, FS_Subset, FS_CardinalityType
<1>3. numMigrations[p] \in Int
  BY Types
<1> QED
  BY <1>2, <1>3 DEF Surplus

\* A step that concerns the ULT v that migrates, the caller u and the ES e only, and what it
\* adds to the surplus.
MigrationStep(p, v, u, e) ==
  /\ \A w \in Thread : w # v => (w \in Coming(p)' <=> w \in Coming(p))
  /\ \A w \in Thread : w # u => (w \in Posting(p)' <=> w \in Posting(p))
  /\ \A w \in Thread : w # u => (w \in Uncounted(p)' <=> w \in Uncounted(p))
  /\ \A f \in Xstream : f # e => (f \in Arrived(p)' <=> f \in Arrived(p))

LEMMA SurplusChange ==
  ASSUME StreamInv, NEW v, NEW u, NEW e, NEW p \in Pool, NEW n \in Int, MigrationStep(p, v, u, e),
         numMigrations'[p] = numMigrations[p] + n
  PROVE  Surplus(p)' = Surplus(p) + n
           + (Bit(u \in Uncounted(p)') - Bit(u \in Uncounted(p)))
           - (Bit(v \in Coming(p)') - Bit(v \in Coming(p)))
           - (Bit(u \in Posting(p)') - Bit(u \in Posting(p)))
           - (Bit(e \in Arrived(p)') - Bit(e \in Arrived(p)))
<1> USE DEF MigrationStep
<1> DEFINE U == Uncounted(p)
           V == Uncounted(p)'
           C == Coming(p)
           D == Coming(p)'
           P == Posting(p)
           Q == Posting(p)'
           A == Arrived(p)
           B == Arrived(p)'
<1>1. /\ U \in SUBSET Thread /\ V \in SUBSET Thread /\ C \in SUBSET Thread /\ D \in SUBSET Thread
      /\ P \in SUBSET Thread /\ Q \in SUBSET Thread /\ A \in SUBSET Xstream /\ B \in SUBSET Xstream
  BY DEF Uncounted, Coming, Posting, Arrived
<1>2. numMigrations[p] \in Int
  BY Types
<1> HIDE DEF U, V, C, D, P, Q, A, B
<1>3. /\ Cardinality(U) \in Nat /\ Cardinality(V) \in Nat
      /\ Cardinality(V) = Cardinality(U) + Bit(u \in V) - Bit(u \in U)
  <2>1. \A w \in Thread : w # u => (w \in V <=> w \in U)
    BY DEF U, V
  <2> QED
    BY ONLY <2>1, <1>1, Finite, CountChange
<1>4. /\ Cardinality(C) \in Nat /\ Cardinality(D) \in Nat
      /\ Cardinality(D) = Cardinality(C) + Bit(v \in D) - Bit(v \in C)
  <2>1. \A w \in Thread : w # v => (w \in D <=> w \in C)
    BY DEF C, D
  <2> QED
    BY ONLY <2>1, <1>1, Finite, CountChange
<1>5. /\ Cardinality(P) \in Nat /\ Cardinality(Q) \in Nat
      /\ Cardinality(Q) = Cardinality(P) + Bit(u \in Q) - Bit(u \in P)
  <2>1. \A w \in Thread : w # u => (w \in Q <=> w \in P)
    BY DEF P, Q
  <2> QED
    BY ONLY <2>1, <1>1, Finite, CountChange
<1>6. /\ Cardinality(A) \in Nat /\ Cardinality(B) \in Nat
      /\ Cardinality(B) = Cardinality(A) + Bit(e \in B) - Bit(e \in A)
  <2>1. \A f \in Xstream : f # e => (f \in B <=> f \in A)
    BY DEF A, B
  <2> QED
    BY ONLY <2>1, <1>1, Finite, CountChange
<1>7. /\ Bit(u \in U) \in Int /\ Bit(u \in V) \in Int /\ Bit(v \in C) \in Int /\ Bit(v \in D) \in Int
      /\ Bit(u \in P) \in Int /\ Bit(u \in Q) \in Int /\ Bit(e \in A) \in Int /\ Bit(e \in B) \in Int
  BY DEF Bit
<1>8. /\ Surplus(p) = numMigrations[p] + Cardinality(U) - Cardinality(C)
                        - Cardinality(P) - Cardinality(A)
      /\ Surplus(p)' = numMigrations'[p] + Cardinality(V) - Cardinality(D)
                         - Cardinality(Q) - Cardinality(B)
  BY DEF Surplus, U, V, C, D, P, Q, A, B
<1>9. Surplus(p)' = Surplus(p) + n + (Bit(u \in V) - Bit(u \in U)) - (Bit(v \in D) - Bit(v \in C))
           - (Bit(u \in Q) - Bit(u \in P)) - (Bit(e \in B) - Bit(e \in A))
  BY <1>2, <1>3, <1>4, <1>5, <1>6, <1>7, <1>8
<1> QED
  BY <1>9 DEF U, V, C, D, P, Q, A, B

LEMMA MigrateSurplus ==
  ASSUME StreamInv, NEW e \in Xstream, Migrate(e), NEW p \in Pool
  PROVE  Surplus(p)' = Surplus(p)
<1>1. PICK u \in Thread : u = running[e]
  BY Running DEF Migrate
<1>2. PICK q : q = target[u]
  OBVIOUS
<1>3. /\ xpc[e] = "migrate"
      /\ request' = [request EXCEPT ![u] = @ \ {"MIGRATE"}]
      /\ target' = [target EXCEPT ![u] = NoPool]
      /\ dest' = [dest EXCEPT ![e] = q]
      /\ xpc' = [xpc EXCEPT ![e] = "migrate_dec"]
      /\ UNCHANGED <<pc, calls, numMigrations>>
  BY <1>1, <1>2 DEF Migrate, GotoX, localVars
<1>4. "MIGRATE" \in request[u] /\ q \in Pool
  <2>1. OnAt(e, u) /\ ThreadOK(u)
    BY <1>1, <1>3, Running
  <2>2. "MIGRATE" \in request[u] /\ target[u] # NoPool
    BY <2>1, <1>3 DEF OnAt, ThreadOK, ReqAt
  <2> QED
    BY <2>2, <1>2, Types
<1>5. MigrationStep(p, u, u, e)
  <2>1. Posting(p)' = Posting(p) /\ Uncounted(p)' = Uncounted(p)
    BY <1>3 DEF Posting, Uncounted, TargetPool, Op
  <2>2. \A w \in Thread : w # u => (w \in Coming(p)' <=> w \in Coming(p))
    BY <1>3, Types DEF Coming
  <2>3. \A f \in Xstream : f # e => (f \in Arrived(p)' <=> f \in Arrived(p))
    BY <1>3, Types DEF Arrived
  <2> QED
    BY <2>1, <2>2, <2>3 DEF MigrationStep
<1>6. Bit(u \in Coming(p)) = Bit(q = p) /\ Bit(u \in Coming(p)') = 0
  BY <1>2, <1>3, <1>4, Types DEF Coming, Bit
<1>7. Bit(e \in Arrived(p)) = 0 /\ Bit(e \in Arrived(p)') = Bit(q = p)
  BY <1>3, <1>4, Types DEF Arrived, Bit
<1>8. /\ Bit(u \in Posting(p)') = Bit(u \in Posting(p)) /\ Bit(u \in Uncounted(p)') = Bit(u \in Uncounted(p))
      /\ Bit(u \in Posting(p)) \in Int /\ Bit(u \in Uncounted(p)) \in Int /\ Bit(q = p) \in Int
  BY <1>3 DEF Posting, Uncounted, TargetPool, Op, Bit
<1>9. numMigrations'[p] = numMigrations[p] + 0
  BY <1>3, SurplusType
<1>10. Surplus(p)' = Surplus(p) + 0
           + (Bit(u \in Uncounted(p)') - Bit(u \in Uncounted(p)))
           - (Bit(u \in Coming(p)') - Bit(u \in Coming(p)))
           - (Bit(u \in Posting(p)') - Bit(u \in Posting(p)))
           - (Bit(e \in Arrived(p)') - Bit(e \in Arrived(p)))
  BY <1>5, <1>9, SurplusChange
<1> QED
  BY <1>6, <1>7, <1>8, <1>10, SurplusType

LEMMA MigrateDecSurplus ==
  ASSUME StreamInv, NEW e \in Xstream, MigrateDec(e), NEW p \in Pool
  PROVE  Surplus(p)' = Surplus(p)
<1>1. PICK q : q = dest[e]
  OBVIOUS
<1>2. /\ xpc[e] = "migrate_dec"
      /\ numMigrations' = [numMigrations EXCEPT ![q] = @ - 1]
      /\ dest' = [dest EXCEPT ![e] = NoPool]
      /\ xpc' = [xpc EXCEPT ![e] = "count"]
      /\ UNCHANGED <<pc, calls, request, target>>
  BY <1>1 DEF MigrateDec, DecMigrations, GotoX, localVars, threadVars
<1>3. Posting(p)' = Posting(p) /\ Uncounted(p)' = Uncounted(p) /\ Coming(p)' = Coming(p)
  BY <1>2 DEF Posting, Uncounted, Coming, TargetPool, Op
<1>4. \A f \in Xstream : f # e => (f \in Arrived(p)' <=> f \in Arrived(p))
  BY <1>2, Types DEF Arrived
<1>5. PICK u : u = running[e]
  OBVIOUS
<1>6. MigrationStep(p, u, u, e)
  BY <1>3, <1>4 DEF MigrationStep
<1>7. Bit(e \in Arrived(p)) = Bit(q = p) /\ Bit(e \in Arrived(p)') = 0
  BY <1>1, <1>2, Types DEF Arrived, Bit
<1>8. /\ Bit(u \in Posting(p)') = Bit(u \in Posting(p)) /\ Bit(u \in Uncounted(p)') = Bit(u \in Uncounted(p))
      /\ Bit(u \in Coming(p)') = Bit(u \in Coming(p)) /\ Bit(u \in Coming(p)) \in Int
      /\ Bit(u \in Posting(p)) \in Int /\ Bit(u \in Uncounted(p)) \in Int
      /\ Bit(q = p) \in Int /\ -Bit(q = p) \in Int
  BY <1>3 DEF Bit
<1>9. numMigrations'[p] = numMigrations[p] + (-Bit(q = p))
  BY <1>2, SurplusType, Types DEF Bit
<1>10. Surplus(p)' = Surplus(p) + (-Bit(q = p))
           + (Bit(u \in Uncounted(p)') - Bit(u \in Uncounted(p)))
           - (Bit(u \in Coming(p)') - Bit(u \in Coming(p)))
           - (Bit(u \in Posting(p)') - Bit(u \in Posting(p)))
           - (Bit(e \in Arrived(p)') - Bit(e \in Arrived(p)))
  BY <1>6, <1>8, <1>9, SurplusChange
<1> QED
  BY <1>7, <1>8, <1>10, SurplusType

LEMMA SameSurplus ==
  ASSUME MigrationSame, NEW p \in Pool
  PROVE  Surplus(p)' = Surplus(p)
BY MigrationSameSets DEF Surplus

\* A step of u that leaves the ESs alone, from the place of u before to that after.
LEMMA CallerSets ==
  ASSUME StreamInv, NEW u \in Thread, NEW p \in Pool,
         \A v \in Thread : v # u => pc'[v] = pc[v] /\ calls'[v] = calls[v]
  PROVE  /\ \A w \in Thread : w # u => (w \in Posting(p)' <=> w \in Posting(p))
         /\ \A w \in Thread : w # u => (w \in Uncounted(p)' <=> w \in Uncounted(p))
         /\ Bit(u \in Posting(p)) = Bit(pc[u] = "post" /\ TargetPool(u) = p)
         /\ Bit(u \in Posting(p)') = Bit((pc[u] = "post" /\ TargetPool(u) = p)')
         /\ Bit(u \in Uncounted(p)) = Bit(pc[u] = "count" /\ TargetPool(u) = p)
         /\ Bit(u \in Uncounted(p)') = Bit((pc[u] = "count" /\ TargetPool(u) = p)')
<1>1. \A w \in Thread : w # u => TargetPool(w)' = TargetPool(w)
  BY DEF TargetPool, Op
<1> QED
  BY <1>1 DEF Posting, Uncounted, Bit

LEMMA MigrateToXstreamSurplus ==
  ASSUME StreamInv, NEW e \in Xstream, NEW u \in Thread, On(u, e), MigrateToXstream(u),
         NEW p \in Pool
  PROVE  Surplus(p)' = Surplus(p)
<1>1. /\ pc[u] = "call"
      /\ UNCHANGED <<request, target, xpc, dest>>
  BY DEF MigrateToXstream, Calls, threadVars, loopVars
<1>2. CASE Returns(u) /\ UNCHANGED numMigrations
  <2>1. \A v \in Thread :
           /\ pc'[v] = "post" <=> pc[v] = "post"
           /\ pc'[v] = "count" <=> pc[v] = "count"
           /\ pc[v] \in {"post", "count"} => calls'[v] = calls[v]
    BY <1>1, <1>2, Types DEF Returns
  <2>2. MigrationSame
    BY <2>1, <1>1, <1>2 DEF MigrationSame
  <2> QED
    BY <2>2, SameSurplus
<1>3. CASE Goto(u, "post") /\ IncMigrations(TargetPool(u))
  <2>1. PICK q : q = TargetPool(u)
    OBVIOUS
  <2>2. /\ pc' = [pc EXCEPT ![u] = "post"] /\ UNCHANGED calls
        /\ numMigrations' = [numMigrations EXCEPT ![q] = @ + 1]
    BY <2>1, <1>3 DEF Goto, IncMigrations
  <2>3. /\ \A w \in Thread : w # u => (w \in Posting(p)' <=> w \in Posting(p))
        /\ \A w \in Thread : w # u => (w \in Uncounted(p)' <=> w \in Uncounted(p))
        /\ Bit(u \in Posting(p)) = Bit(pc[u] = "post" /\ TargetPool(u) = p)
        /\ Bit(u \in Posting(p)') = Bit((pc[u] = "post" /\ TargetPool(u) = p)')
        /\ Bit(u \in Uncounted(p)) = Bit(pc[u] = "count" /\ TargetPool(u) = p)
        /\ Bit(u \in Uncounted(p)') = Bit((pc[u] = "count" /\ TargetPool(u) = p)')
    BY <2>2, Types, CallerSets
  <2>4. Coming(p)' = Coming(p) /\ Arrived(p)' = Arrived(p)
    BY <1>1 DEF Coming, Arrived
  <2>5. pc'[u] = "post" /\ TargetPool(u)' = q
    BY <2>1, <2>2, Types DEF TargetPool, Op
  <2>6. /\ Bit(u \in Posting(p)) = 0 /\ Bit(u \in Posting(p)') = Bit(q = p)
        /\ Bit(u \in Uncounted(p)) = 0 /\ Bit(u \in Uncounted(p)') = 0
    BY <2>3, <2>5, <1>1 DEF Bit
  <2>7. MigrationStep(p, u, u, e)
    BY <2>3, <2>4 DEF MigrationStep
  <2>8. Bit(q = p) \in Int /\ numMigrations'[p] = numMigrations[p] + Bit(q = p)
    BY <2>2, SurplusType, Types DEF Bit
  <2>9. Surplus(p)' = Surplus(p) + Bit(q = p)
           + (Bit(u \in Uncounted(p)') - Bit(u \in Uncounted(p)))
           - (Bit(u \in Coming(p)') - Bit(u \in Coming(p)))
           - (Bit(u \in Posting(p)') - Bit(u \in Posting(p)))
           - (Bit(e \in Arrived(p)') - Bit(e \in Arrived(p)))
    BY <2>7, <2>8, SurplusChange
  <2>10. /\ Bit(u \in Coming(p)') - Bit(u \in Coming(p)) = 0
         /\ Bit(e \in Arrived(p)') - Bit(e \in Arrived(p)) = 0
    BY <2>4 DEF Bit
  <2> QED
    BY <2>6, <2>8, <2>9, <2>10, SurplusType
<1> QED
  BY <1>2, <1>3 DEF MigrateToXstream

LEMMA CountMigrationSurplus ==
  ASSUME StreamInv, NEW e \in Xstream, NEW u \in Thread, On(u, e), CountMigration(u),
         NEW p \in Pool
  PROVE  Surplus(p)' = Surplus(p)
<1>1. PICK q : q = TargetPool(u)
  OBVIOUS
<1>2. /\ pc[u] = "count"
      /\ UNCHANGED <<request, target, xpc, dest>>
      /\ pc' = [pc EXCEPT ![u] = "call"] /\ calls' = [calls EXCEPT ![u] = Tail(@)]
      /\ numMigrations' = [numMigrations EXCEPT ![q] = @ + 1]
  BY <1>1 DEF CountMigration, Returns, IncMigrations, threadVars, loopVars
<1>3. /\ \A w \in Thread : w # u => (w \in Posting(p)' <=> w \in Posting(p))
      /\ \A w \in Thread : w # u => (w \in Uncounted(p)' <=> w \in Uncounted(p))
      /\ Bit(u \in Posting(p)) = Bit(pc[u] = "post" /\ TargetPool(u) = p)
      /\ Bit(u \in Posting(p)') = Bit((pc[u] = "post" /\ TargetPool(u) = p)')
      /\ Bit(u \in Uncounted(p)) = Bit(pc[u] = "count" /\ TargetPool(u) = p)
      /\ Bit(u \in Uncounted(p)') = Bit((pc[u] = "count" /\ TargetPool(u) = p)')
  BY <1>2, Types, CallerSets
<1>4. Coming(p)' = Coming(p) /\ Arrived(p)' = Arrived(p)
  BY <1>2 DEF Coming, Arrived
<1>5. pc'[u] = "call"
  BY <1>2, Types
<1>6. /\ Bit(u \in Posting(p)) = 0 /\ Bit(u \in Posting(p)') = 0
      /\ Bit(u \in Uncounted(p)) = Bit(q = p) /\ Bit(u \in Uncounted(p)') = 0
  BY <1>1, <1>2, <1>3, <1>5 DEF Bit
<1>7. MigrationStep(p, u, u, e)
  BY <1>3, <1>4 DEF MigrationStep
<1>8. Bit(q = p) \in Int /\ numMigrations'[p] = numMigrations[p] + Bit(q = p)
  BY <1>2, SurplusType, Types DEF Bit
<1>9. Surplus(p)' = Surplus(p) + Bit(q = p)
         + (Bit(u \in Uncounted(p)') - Bit(u \in Uncounted(p)))
         - (Bit(u \in Coming(p)') - Bit(u \in Coming(p)))
         - (Bit(u \in Posting(p)') - Bit(u \in Posting(p)))
         - (Bit(e \in Arrived(p)') - Bit(e \in Arrived(p)))
  BY <1>7, <1>8, SurplusChange
<1>10. /\ Bit(u \in Coming(p)') - Bit(u \in Coming(p)) = 0
       /\ Bit(e \in Arrived(p)') - Bit(e \in Arrived(p)) = 0
  BY <1>4 DEF Bit
<1> QED
  BY <1>6, <1>8, <1>9, <1>10, SurplusType

LEMMA RefuseMigrationSurplus ==
  ASSUME StreamInv, NEW e \in Xstream, NEW u \in Thread, On(u, e), RefuseMigration(u),
         NEW p \in Pool
  PROVE  Surplus(p)' = Surplus(p)
<1>1. PICK q : q = TargetPool(u)
  OBVIOUS
<1>2. /\ pc[u] \in {"call", "post"}
      /\ UNCHANGED <<request, target, xpc, dest>>
      /\ pc' = [pc EXCEPT ![u] = "call"] /\ calls' = [calls EXCEPT ![u] = Tail(@)]
  BY DEF RefuseMigration, Posts, Calls, Returns, threadVars, loopVars
<1>3. /\ \A w \in Thread : w # u => (w \in Posting(p)' <=> w \in Posting(p))
      /\ \A w \in Thread : w # u => (w \in Uncounted(p)' <=> w \in Uncounted(p))
      /\ Bit(u \in Posting(p)) = Bit(pc[u] = "post" /\ TargetPool(u) = p)
      /\ Bit(u \in Posting(p)') = Bit((pc[u] = "post" /\ TargetPool(u) = p)')
      /\ Bit(u \in Uncounted(p)) = Bit(pc[u] = "count" /\ TargetPool(u) = p)
      /\ Bit(u \in Uncounted(p)') = Bit((pc[u] = "count" /\ TargetPool(u) = p)')
  BY <1>2, Types, CallerSets
<1>4. Coming(p)' = Coming(p) /\ Arrived(p)' = Arrived(p)
  BY <1>2 DEF Coming, Arrived
<1>5. pc'[u] = "call"
  BY <1>2, Types
<1>6. PICK n : n = Bit(pc[u] = "post" /\ q = p)
  OBVIOUS
<1>7. /\ Bit(u \in Posting(p)) = n /\ Bit(u \in Posting(p)') = 0
      /\ Bit(u \in Uncounted(p)) = 0 /\ Bit(u \in Uncounted(p)') = 0
  BY <1>1, <1>2, <1>3, <1>5, <1>6 DEF Bit
<1>8. MigrationStep(p, u, u, e)
  BY <1>3, <1>4 DEF MigrationStep
<1>9. n \in Int /\ -n \in Int /\ numMigrations'[p] = numMigrations[p] + (-n)
  <2>1. CASE pc[u] = "post"
    <3>1. numMigrations' = [numMigrations EXCEPT ![q] = @ - 1]
      BY <2>1, <1>1 DEF RefuseMigration, DecMigrations
    <3> QED
      BY <3>1, <2>1, <1>6, SurplusType, Types DEF Bit
  <2>2. CASE pc[u] # "post"
    <3>1. UNCHANGED numMigrations
      BY <2>2 DEF RefuseMigration
    <3> QED
      BY <3>1, <2>2, <1>6, SurplusType, Types DEF Bit
  <2> QED
    BY <2>1, <2>2
<1>10. Surplus(p)' = Surplus(p) + (-n)
         + (Bit(u \in Uncounted(p)') - Bit(u \in Uncounted(p)))
         - (Bit(u \in Coming(p)') - Bit(u \in Coming(p)))
         - (Bit(u \in Posting(p)') - Bit(u \in Posting(p)))
         - (Bit(e \in Arrived(p)') - Bit(e \in Arrived(p)))
  BY <1>8, <1>9, SurplusChange
<1>11. /\ Bit(u \in Coming(p)') - Bit(u \in Coming(p)) = 0
       /\ Bit(e \in Arrived(p)') - Bit(e \in Arrived(p)) = 0
  BY <1>4 DEF Bit
<1> QED
  BY <1>7, <1>9, <1>10, <1>11, SurplusType

\* A migration that is asked for while one is pending replaces it: that one was counted, and
\* is not carried out.
LEMMA PostMigrationSurplus ==
  ASSUME StreamInv, NEW e \in Xstream, NEW u \in Thread, On(u, e), PostMigration(u, e),
         NEW p \in Pool
  PROVE  /\ Surplus(p)' >= Surplus(p)
         /\ "MIGRATE" \notin request[Op(u)[2]] => Surplus(p)' = Surplus(p)
<1>1. PICK q : q = TargetPool(u)
  OBVIOUS
<1>2. PICK v \in Thread : v = Op(u)[2]
  BY PostPlace
<1>3. /\ target' = [target EXCEPT ![v] = q]
      /\ request' = [request EXCEPT ![v] = @ \cup {"MIGRATE"}]
      /\ UNCHANGED <<dest, numMigrations>>
      /\ IF pc[u] = "post" THEN Returns(u) ELSE Goto(u, "count")
  BY <1>1, <1>2 DEF PostMigration, loopVars, poolVars
<1>4. /\ pc[u] \in {"call", "post"} /\ q \in Pool
      /\ \A w \in Thread : w # u => pc'[w] = pc[w] /\ calls'[w] = calls[w]
  BY <1>1, PostPlace
<1>5. /\ \A w \in Thread : w # u => (w \in Posting(p)' <=> w \in Posting(p))
      /\ \A w \in Thread : w # u => (w \in Uncounted(p)' <=> w \in Uncounted(p))
      /\ Bit(u \in Posting(p)) = Bit(pc[u] = "post" /\ TargetPool(u) = p)
      /\ Bit(u \in Posting(p)') = Bit((pc[u] = "post" /\ TargetPool(u) = p)')
      /\ Bit(u \in Uncounted(p)) = Bit(pc[u] = "count" /\ TargetPool(u) = p)
      /\ Bit(u \in Uncounted(p)') = Bit((pc[u] = "count" /\ TargetPool(u) = p)')
  BY <1>4, CallerSets
<1>6. GotoX(e, "ret") \/ UNCHANGED xpc
  BY DEF PostMigration, SwitchToSched
<1>7. Arrived(p)' = Arrived(p)
  BY <1>3, <1>6, SwitchCounts DEF Arrived
<1>8. \A w \in Thread : w # v => (w \in Coming(p)' <=> w \in Coming(p))
  BY <1>3, Types DEF Coming
<1>9. Bit(v \in Coming(p)') = Bit(q = p)
  BY <1>3, Types DEF Coming, Bit
<1>10. (Bit(u \in Uncounted(p)') - Bit(u \in Uncounted(p)))
         - (Bit(u \in Posting(p)') - Bit(u \in Posting(p))) = Bit(q = p)
  <2>1. CASE pc[u] = "post"
    <3>1. pc'[u] = "call"
      BY <2>1, <1>3, Types DEF Returns
    <3> QED
      BY <3>1, <2>1, <1>1, <1>5 DEF Bit
  <2>2. CASE pc[u] = "call"
    <3>1. pc'[u] = "count" /\ TargetPool(u)' = q
      BY <2>2, <1>1, <1>3, Types DEF Goto, TargetPool, Op
    <3> QED
      BY <3>1, <2>2, <1>5 DEF Bit
  <2> QED
    BY <2>1, <2>2, <1>4
<1>11. MigrationStep(p, v, u, e)
  BY <1>5, <1>7, <1>8 DEF MigrationStep
<1>12. numMigrations'[p] = numMigrations[p] + 0
  BY <1>3, SurplusType
<1>13. Surplus(p)' = Surplus(p) + 0
         + (Bit(u \in Uncounted(p)') - Bit(u \in Uncounted(p)))
         - (Bit(v \in Coming(p)') - Bit(v \in Coming(p)))
         - (Bit(u \in Posting(p)') - Bit(u \in Posting(p)))
         - (Bit(e \in Arrived(p)') - Bit(e \in Arrived(p)))
  BY <1>11, <1>12, SurplusChange
<1>14. /\ Bit(e \in Arrived(p)') - Bit(e \in Arrived(p)) = 0
       /\ Bit(v \in Coming(p)) \in Int /\ Bit(v \in Coming(p)) >= 0 /\ Bit(q = p) \in Int
       /\ "MIGRATE" \notin request[v] => Bit(v \in Coming(p)) = 0
       /\ Bit(u \in Uncounted(p)') \in Int /\ Bit(u \in Uncounted(p)) \in Int
       /\ Bit(u \in Posting(p)') \in Int /\ Bit(u \in Posting(p)) \in Int
  BY <1>7 DEF Bit, Coming
<1> QED
  BY <1>2, <1>9, <1>10, <1>13, <1>14, SurplusType

LEMMA SurplusNext ==
  ASSUME StreamInv, [Next]_vars, NEW p \in Pool
  PROVE  /\ Surplus(p)' >= Surplus(p)
         /\ OneMigration => Surplus(p)' = Surplus(p)
<1> DEFINE Goal == /\ Surplus(p)' >= Surplus(p)
                   /\ OneMigration => Surplus(p)' = Surplus(p)
<1>1. Surplus(p)' = Surplus(p) => Goal
  BY SurplusType
<1> HIDE DEF Goal
<1>2. ASSUME UNCHANGED vars PROVE Goal
  <2>1. MigrationSame
    BY <1>2 DEF MigrationSame, vars, loopVars, poolVars, threadVars, localVars
  <2> QED
    BY <2>1, <1>1, SameSurplus
<1>3. ASSUME NEW e \in Xstream, Scheduler(e) PROVE Goal
  BY <1>1, <1>3, SameSurplus, SchedStartCounts, SchedRunCounts, SchedIdleCounts, ReturnCounts,
     MigrateSurplus, MigrateDecSurplus, WorkDoneCounts, CheckEventsCounts, StopOnExitCounts,
     ReadCounterCounts, DecideToLockCounts, DecideToStopCounts, SchedStoppedCounts,
     DecideToEndCounts, WakeJoinerMigrations, EndCounts DEF Scheduler
<1>4. ASSUME NEW e \in Xstream, NEW u \in Thread, Ult(u, e) PROVE Goal
  <2>1. On(u, e)
    BY <1>4 DEF Ult
  <2>2. CASE PostMigration(u, e)
    <3>1. OneMigration => "MIGRATE" \notin request[Op(u)[2]]
      BY <2>1, <2>2 DEF OneMigration, PostMigration
    <3> QED
      BY <2>1, <2>2, <3>1, PostMigrationSurplus DEF Goal
  <2>3. CASE ~PostMigration(u, e)
    BY <2>1, <2>3, <1>1, <1>4, SameSurplus, PlainCounts, WakeUpMigrations,
       MigrateToXstreamSurplus, RefuseMigrationSurplus, CountMigrationSurplus DEF Ult
  <2> QED
    BY <2>2, <2>3
<1>5. Goal
  BY <1>2, <1>3, <1>4 DEF Next, Es
<1> QED
  BY <1>5 DEF Goal

\* num_migrations of a pool is never too low, in any program: a ULT that is on its way to a
\* pool counts there, or its count is about to be taken.
MigrationBound == \A p \in Pool : Surplus(p) >= 0

LEMMA SurplusInit ==
  ASSUME Init, NEW p \in Pool
  PROVE  Surplus(p) = 0
<1>1. Coming(p) = {} /\ Posting(p) = {} /\ Uncounted(p) = {} /\ Arrived(p) = {} /\ numMigrations[p] = 0
  BY DEF Init, Coming, Posting, Uncounted, Arrived
<1> QED
  BY <1>1, FS_EmptySet DEF Surplus

LEMMA StreamMigrationBound == Spec => []MigrationBound
<1>1. Init => MigrationBound
  BY SurplusInit DEF MigrationBound
<1>2. StreamInv /\ MigrationBound /\ [Next]_vars => MigrationBound'
  <2> SUFFICES ASSUME StreamInv, MigrationBound, [Next]_vars PROVE MigrationBound'
    OBVIOUS
  <2>1. StreamInv'
    BY StreamNext
  <2>2. ASSUME NEW p \in Pool PROVE Surplus(p)' >= 0
    <3>1. Surplus(p) \in Int /\ Surplus(p) >= 0
      BY SurplusType DEF MigrationBound
    <3>2. Surplus(p)' \in Int
      <4>1. /\ Uncounted(p)' \in SUBSET Thread /\ Coming(p)' \in SUBSET Thread
            /\ Posting(p)' \in SUBSET Thread /\ Arrived(p)' \in SUBSET Xstream
        BY DEF Uncounted, Coming, Posting, Arrived
      <4>2. numMigrations'[p] \in Int
        BY <2>1 DEF StreamInv, TypeOK
      <4>3. /\ Cardinality(Uncounted(p)') \in Nat /\ Cardinality(Coming(p)') \in Nat
            /\ Cardinality(Posting(p)') \in Nat /\ Cardinality(Arrived(p)') \in Nat
        BY <4>1, Finite, FS_Subset, FS_CardinalityType
      <4> QED
        BY <4>2, <4>3 DEF Surplus
    <3>3. Surplus(p)' >= Surplus(p)
      BY SurplusNext
    <3> QED
      BY <3>1, <3>2, <3>3
  <2> QED
    BY <2>2 DEF MigrationBound
<1> QED
  BY <1>1, <1>2, StreamInvariant, PTL DEF Spec

\* Where a ULT has one migration pending at a time, num_migrations of a pool is the number of
\* ULTs that are to be migrated to it and of those just pushed, less those not counted yet
\* (ABTI_xstream_migrate_thread and ABT_thread_migrate_to_pool).
THEOREM StreamMigrationCount == Spec /\ []OneMigration => []MigrationCount
<1> DEFINE I == \A p \in Pool : Surplus(p) = 0
<1>1. Init => I
  BY SurplusInit
<1>2. StreamInv /\ OneMigration /\ I /\ [Next]_vars => I'
  BY SurplusNext
<1>3. StreamInv /\ I => MigrationCount
  <2> SUFFICES ASSUME StreamInv, I, NEW p \in Pool
               PROVE  numMigrations[p] = Cardinality(Coming(p)) + Cardinality(Posting(p))
                        + Cardinality(Arrived(p)) - Cardinality(Uncounted(p))
    BY DEF MigrationCount
  <2>1. Surplus(p) = 0
    OBVIOUS
  <2> QED
    BY <2>1, SurplusType DEF Surplus
<1> QED
  BY <1>1, <1>2, <1>3, StreamInvariant, PTL DEF Spec

(***************************************************************************)
(* The counts that an ES reads one after the other when it stops: what it  *)
(* has found to be nothing stays nothing.                                  *)
(***************************************************************************)

\* No ULT is on its way to a pool; none of it is blocked; all of it have ended.
Quiet(p) == Coming(p) = {} /\ Posting(p) = {} /\ Arrived(p) = {}
Awake(p) == BlockedIn(p) = {}
Empty(p) == \A u \in Thread : home[u] = p => state[u] = "TERMINATED"

\* The ES is joined and takes no ULT any more: it holds sched_lock or its scheduler has
\* stopped.
StopPC == {"stopped", "size3", "wake", "wake_dec", "end", "ended"}
Closed(e) ==
  /\ xpc[e] \in {"size2"} \cup StopPC
  /\ "JOIN" \in xrequest[e]
  /\ schedLock[e] \/ schedState[e] = "TERMINATED"

LEMMA OwnedPool ==
  ASSUME NEW e \in Xstream, NEW p \in Owned(e)
  PROVE  /\ p \in Pool /\ Contains(SchedPools[e], p)
         /\ \A f \in Xstream : Contains(SchedPools[f], p) => f = e
BY DEF Owned, Scheds

\* A ULT that migrates was asked to, to a pool.
LEMMA Migrating ==
  ASSUME StreamInv, NEW f \in Xstream, Migrate(f)
  PROVE  \E u \in Thread, q \in Pool :
           /\ running[f] = u /\ target[u] = q /\ u \in Coming(q) /\ state[u] = "READY"
           /\ xpc[f] = "migrate"
           /\ home' = [home EXCEPT ![u] = q]
           /\ request' = [request EXCEPT ![u] = @ \ {"MIGRATE"}]
           /\ target' = [target EXCEPT ![u] = NoPool]
           /\ dest' = [dest EXCEPT ![f] = q]
           /\ xpc' = [xpc EXCEPT ![f] = "migrate_dec"]
           /\ UNCHANGED <<state, pc, calls>>
<1>1. PICK u \in Thread : u = running[f]
  BY Running DEF Migrate
<1>2. PICK q : q = target[u]
  OBVIOUS
<1>3. /\ xpc[f] = "migrate"
      /\ home' = [home EXCEPT ![u] = q]
      /\ request' = [request EXCEPT ![u] = @ \ {"MIGRATE"}]
      /\ target' = [target EXCEPT ![u] = NoPool]
      /\ dest' = [dest EXCEPT ![f] = q]
      /\ xpc' = [xpc EXCEPT ![f] = "migrate_dec"]
      /\ UNCHANGED <<state, pc, calls>>
  BY <1>1, <1>2 DEF Migrate, GotoX, localVars
<1>4. OnAt(f, u) /\ ThreadOK(u)
  BY <1>1, <1>3, Running
<1>5. "MIGRATE" \in request[u] /\ target[u] # NoPool /\ state[u] = "READY"
  BY <1>3, <1>4 DEF OnAt, ThreadOK, ReqAt
<1>6. q \in Pool
  BY <1>2, <1>5, Types
<1> QED
  BY <1>1, <1>2, <1>3, <1>5, <1>6 DEF Coming

LEMMA MigrateQuiet ==
  ASSUME StreamInv, NEW f \in Xstream, Migrate(f), NEW p \in Pool, Quiet(p)
  PROVE  Quiet(p)'
<1>1. PICK u \in Thread, q \in Pool :
           /\ running[f] = u /\ target[u] = q /\ u \in Coming(q)
           /\ request' = [request EXCEPT ![u] = @ \ {"MIGRATE"}]
           /\ target' = [target EXCEPT ![u] = NoPool]
           /\ dest' = [dest EXCEPT ![f] = q]
           /\ xpc' = [xpc EXCEPT ![f] = "migrate_dec"]
           /\ UNCHANGED <<pc, calls>>
  BY Migrating
<1>2. q # p
  BY <1>1 DEF Quiet
<1>3. Coming(p)' = {}
  BY <1>1, Types DEF Quiet, Coming
<1>4. Posting(p)' = {}
  BY <1>1 DEF Quiet, Posting, TargetPool, Op
<1>5. Arrived(p)' = {}
  BY <1>1, <1>2, Types DEF Quiet, Arrived
<1> QED
  BY <1>3, <1>4, <1>5 DEF Quiet

LEMMA MigrateDecQuiet ==
  ASSUME StreamInv, NEW f \in Xstream, MigrateDec(f), NEW p \in Pool, Quiet(p)
  PROVE  Quiet(p)'
<1>1. /\ dest' = [dest EXCEPT ![f] = NoPool]
      /\ xpc' = [xpc EXCEPT ![f] = "count"]
      /\ UNCHANGED <<pc, calls, request, target>>
  BY DEF MigrateDec, GotoX, localVars, threadVars
<1>2. Arrived(p)' = {}
  BY <1>1, Types DEF Quiet, Arrived
<1>3. Coming(p)' = {} /\ Posting(p)' = {}
  BY <1>1 DEF Quiet, Coming, Posting, TargetPool, Op
<1> QED
  BY <1>2, <1>3 DEF Quiet

\* A migration to an ES is counted under its sched_lock, and not once it has stopped.
LEMMA MigrateToXstreamQuiet ==
  ASSUME StreamInv, NEW f \in Xstream, NEW u \in Thread, On(u, f), MigrateToXstream(u),
         NEW e \in Xstream, Closed(e), NEW p \in Owned(e), Quiet(p)
  PROVE  Quiet(p)'
<1>1. /\ pc[u] = "call" /\ Op(u)[1] = "migrate_to_xstream" /\ calls[u] # <<>>
      /\ UNCHANGED <<request, target, xpc, dest>>
  BY DEF MigrateToXstream, Calls, threadVars, loopVars
<1>2. Coming(p)' = {} /\ Arrived(p)' = {}
  BY <1>1 DEF Quiet, Coming, Arrived
<1>3. Posting(p)' = {}
  <2>1. CASE Returns(u)
    BY <2>1, <1>1, Types DEF Returns, Quiet, Posting, TargetPool, Op
  <2>2. CASE ~Returns(u)
    <3>1. PICK g \in Xstream : g = Op(u)[3]
      BY <1>1, OpType, CallType DEF StreamInv
    <3>2. /\ ~schedLock[g] /\ schedState[g] # "TERMINATED"
          /\ Goto(u, "post")
      BY <2>2, <3>1 DEF MigrateToXstream
    <3>3. TargetPool(u) = SchedPools[g][1]
      BY <1>1, <3>1 DEF TargetPool
    <3>4. g # e
      BY <3>2 DEF Closed
    <3>5. Contains(SchedPools[g], TargetPool(u))
      BY <3>3, ScanOrder DEF Contains
    <3>6. TargetPool(u) # p
      BY <3>4, <3>5, OwnedPool
    <3> QED
      BY <3>2, <3>6, Types DEF Goto, Quiet, Posting, TargetPool, Op
  <2> QED
    BY <2>1, <2>2
<1> QED
  BY <1>2, <1>3 DEF Quiet

LEMMA LateQuiet ==
  ASSUME StreamInv, NEW f \in Xstream, NEW u \in Thread, On(u, f),
         CountMigration(u) \/ RefuseMigration(u), NEW p \in Pool, Quiet(p)
  PROVE  Quiet(p)'
<1>1. /\ UNCHANGED <<request, target, xpc, dest>>
      /\ Returns(u)
  BY DEF CountMigration, RefuseMigration, threadVars, loopVars
<1>2. Coming(p)' = {} /\ Arrived(p)' = {}
  BY <1>1 DEF Quiet, Coming, Arrived
<1>3. Posting(p)' = {}
  BY <1>1, Types DEF Returns, Quiet, Posting, TargetPool, Op
<1> QED
  BY <1>2, <1>3 DEF Quiet

\* A migration to a pool is asked for only before the ES is joined.
LEMMA PostMigrationQuiet ==
  ASSUME StreamInv, CountedEarly', NEW f \in Xstream, NEW u \in Thread, On(u, f),
         PostMigration(u, f), NEW e \in Xstream, Closed(e), NEW p \in Owned(e), Quiet(p)
  PROVE  Quiet(p)'
<1>1. PICK v \in Thread, q \in Pool : v = Op(u)[2] /\ q = TargetPool(u)
  BY PostPlace, TargetType
<1>2. /\ pc[u] = "post" \/ pc[u] = "call"
      /\ target' = [target EXCEPT ![v] = q]
      /\ request' = [request EXCEPT ![v] = @ \cup {"MIGRATE"}]
      /\ pc[u] = "post" => Returns(u)
      /\ pc[u] # "post" => Goto(u, "count")
      /\ UNCHANGED <<dest, xrequest>>
  BY <1>1 DEF PostMigration, Posts, Calls, loopVars, xstreamVars
<1>3. q # p
  <2>1. CASE pc[u] = "post"
    BY <2>1, <1>1 DEF Quiet, Posting
  <2>2. CASE pc[u] # "post"
    <3>1. pc'[u] = "count" /\ TargetPool(u)' = q /\ "JOIN" \in xrequest'[e]
      BY <2>2, <1>1, <1>2, Types DEF Goto, TargetPool, Op, Closed
    <3>2. ~Contains(SchedPools[e], q)
      BY <3>1 DEF CountedEarly
    <3> QED
      BY <3>2, OwnedPool
  <2> QED
    BY <2>1, <2>2
<1>4. Coming(p)' = {}
  BY <1>2, <1>3, Types DEF Quiet, Coming
<1>5. Posting(p)' = {}
  BY <1>2, Types DEF Returns, Goto, Quiet, Posting, TargetPool, Op
<1>6. Arrived(p)' = {}
  <2>1. GotoX(f, "ret") \/ UNCHANGED xpc
    BY DEF PostMigration, SwitchToSched
  <2>2. \A g \in Xstream : xpc'[g] = "migrate_dec" <=> xpc[g] = "migrate_dec"
    BY <2>1, SwitchCounts
  <2> QED
    BY <2>2, <1>2 DEF Quiet, Arrived
<1> QED
  BY <1>4, <1>5, <1>6 DEF Quiet

LEMMA QuietNext ==
  ASSUME StreamInv, CountedEarly', [Next]_vars, NEW e \in Xstream, Closed(e), NEW p \in Owned(e),
         Quiet(p)
  PROVE  Quiet(p)'
<1>1. p \in Pool
  BY OwnedPool
<1>2. MigrationSame => Quiet(p)'
  BY <1>1, MigrationSameSets DEF Quiet
<1>3. CASE UNCHANGED vars
  BY <1>2, <1>3 DEF MigrationSame, vars, loopVars, poolVars, threadVars, localVars
<1>4. ASSUME NEW f \in Xstream, Scheduler(f) PROVE Quiet(p)'
  BY <1>1, <1>2, <1>4, SchedStartCounts, SchedRunCounts, SchedIdleCounts, ReturnCounts,
     MigrateQuiet, MigrateDecQuiet, WorkDoneCounts, CheckEventsCounts, StopOnExitCounts,
     ReadCounterCounts, DecideToLockCounts, DecideToStopCounts, SchedStoppedCounts,
     DecideToEndCounts, WakeJoinerMigrations, EndCounts DEF Scheduler
<1>5. ASSUME NEW f \in Xstream, NEW u \in Thread, Ult(u, f) PROVE Quiet(p)'
  BY <1>1, <1>2, <1>5, PlainCounts, WakeUpMigrations, MigrateToXstreamQuiet, PostMigrationQuiet,
     LateQuiet DEF Ult
<1> QED
  BY <1>3, <1>4, <1>5 DEF Next, Es

LEMMA AwakeNext ==
  ASSUME StreamInv, CountedOut, [Next]_vars, NEW e \in Xstream, Closed(e), NEW p \in Owned(e),
         Awake(p)
  PROVE  Awake(p)'
<1>1. p \in Pool
  BY OwnedPool
<1>2. BlockedSame => Awake(p)'
  BY DEF BlockedSame, Awake, BlockedIn
<1>3. CASE UNCHANGED vars
  BY <1>2, <1>3 DEF BlockedSame, vars, loopVars, poolVars, threadVars, localVars
<1>4. ASSUME NEW w \in Thread, MakeReady(w), UNCHANGED home PROVE Awake(p)'
  BY <1>4, Types DEF MakeReady, Awake, BlockedIn
<1>5. ASSUME NEW f \in Xstream, Scheduler(f) PROVE Awake(p)'
  <2>1. CASE WakeJoiner(f)
    <3>1. reqArg[f] \in Thread
      <4>1. reqArg[f] # NoThread
        BY <2>1 DEF WakeJoiner, StreamInv, PartsOK, RunOK, RunAt
      <4> QED
        BY <4>1, Types
    <3> QED
      BY <2>1, <3>1, <1>4 DEF WakeJoiner
  <2>2. CASE WakeJoinerDec(f)
    BY <2>2 DEF WakeJoinerDec, threadVars, Awake, BlockedIn
  <2>3. CASE ~WakeJoiner(f) /\ ~WakeJoinerDec(f)
    BY <2>3, <1>2, <1>5, SchedStartCounts, SchedRunCounts, SchedIdleCounts, ReturnCounts,
       MigrateBlocked, MigrateDecBlocked, WorkDoneCounts, CheckEventsCounts, StopOnExitCounts,
       ReadCounterCounts, DecideToLockCounts, DecideToStopCounts, SchedStoppedCounts,
       DecideToEndCounts, EndCounts DEF Scheduler
  <2> QED
    BY <2>1, <2>2, <2>3
<1>6. ASSUME NEW f \in Xstream, NEW u \in Thread, Ult(u, f) PROVE Awake(p)'
  <2>1. On(u, f)
    BY <1>6 DEF Ult
  <2>2. CASE BlockUlt(u)
    <3>1. f # e /\ f \in Scheds(home[u])
      BY <2>1, UltOn DEF Closed, StopPC
    <3>2. home[u] # p
      BY <3>1 DEF Owned
    <3>3. state' = [state EXCEPT ![u] = "BLOCKED"] /\ UNCHANGED home
      BY <2>2 DEF BlockUlt, SetBlocked
    <3> QED
      BY <3>2, <3>3, Types DEF Awake, BlockedIn
  <2>3. CASE WakeUp(u)
    <3>1. Op(u)[2] \in Thread
      BY <2>3, OpType, CallType DEF WakeUp, Calls, StreamInv
    <3> QED
      BY <2>3, <3>1, <1>4 DEF WakeUp
  <2>4. CASE WakeUpDec(u)
    BY <2>4 DEF WakeUpDec, threadVars, Awake, BlockedIn
  <2>5. CASE ~BlockUlt(u) /\ ~WakeUp(u) /\ ~WakeUpDec(u)
    BY <2>1, <2>5, <1>2, <1>6, PlainCounts, MigrationBlocked DEF Ult
  <2> QED
    BY <2>2, <2>3, <2>4, <2>5
<1> QED
  BY <1>3, <1>5, <1>6 DEF Next, Es

\* A ULT that has ended stays so, and only the ULT that migrates changes its pool.
EndedStay ==
  \A u \in Thread : /\ state[u] = "TERMINATED" => state'[u] = "TERMINATED"
                    /\ home'[u] = home[u] \/ u \in Coming(home'[u])

LEMMA OneChanges ==
  ASSUME StreamInv, NEW w \in Thread, NEW l, state[w] # "TERMINATED",
         state' = [state EXCEPT ![w] = l], UNCHANGED home
  PROVE  EndedStay
BY Types DEF EndedStay

LEMMA SchedulerEndedStay ==
  ASSUME StreamInv, NEW f \in Xstream, Scheduler(f)
  PROVE  EndedStay
<1>1. UNCHANGED <<state, home>> => EndedStay
  BY DEF EndedStay
<1>2. CASE SchedRun(f)
  <2>1. PICK p \in Pool :
        /\ NextPool(f, p) /\ UNCHANGED home
        /\ UNCHANGED state \/ state' = [state EXCEPT ![Head(pool[p])] = "RUNNING"]
    BY <1>2 DEF SchedRun
  <2>2. Head(pool[p]) \in Thread /\ state[Head(pool[p])] = "READY"
    <3>1. pool[p] \in Seq(Thread) /\ pool[p] # <<>>
      BY <2>1, Types DEF NextPool
    <3> QED
      BY <3>1, PopUnit DEF StreamInv, PartsOK, PoolOK, PoolAt
  <2> QED
    BY <2>1, <2>2, <1>1, OneChanges
<1>3. CASE ReturnTerminated(f) \/ ReturnYielded(f)
  <2>1. PICK u \in Thread : u = running[f]
    BY <1>3, Running DEF ReturnTerminated, ReturnYielded
  <2>2. state[u] # "TERMINATED"
    BY <2>1 DEF StreamInv, PartsOK, PlaceOK, PlaceAt, Runs
  <2>3. \E l : state' = [state EXCEPT ![u] = l] /\ UNCHANGED home
    BY <1>3, <2>1 DEF ReturnTerminated, ReturnYielded, MakeReady
  <2> QED
    BY <2>2, <2>3, OneChanges
<1>4. CASE Migrate(f)
  <2>1. PICK u \in Thread, q \in Pool :
           u \in Coming(q) /\ home' = [home EXCEPT ![u] = q] /\ UNCHANGED state
    BY <1>4, Migrating
  <2> QED
    BY <2>1, Types DEF EndedStay
<1>5. CASE WakeJoiner(f)
  <2>1. PICK w \in Thread : w = reqArg[f]
    <3>1. reqArg[f] # NoThread
      BY <1>5 DEF WakeJoiner, StreamInv, PartsOK, RunOK, RunAt
    <3> QED
      BY <3>1, Types
  <2> QED
    BY <2>1, <1>5, OneChanges DEF WakeJoiner, MakeReady, CanSetReady
<1>6. CASE \/ SchedStart(f) \/ SchedIdle(f) \/ ReturnBlocked(f) \/ ReturnMigrating(f)
           \/ MigrateDec(f) \/ WorkDone(f) \/ CheckEvents(f) \/ StopOnExit(f)
           \/ ReadCounter(f) \/ DecideToLock(f) \/ DecideToStop(f)
           \/ SchedStopped(f) \/ DecideToEnd(f) \/ WakeJoinerDec(f) \/ End(f)
  BY <1>1, <1>6 DEF threadVars, SchedStart, SchedIdle, ReturnBlocked, ReturnMigrating, MigrateDec,
     WorkDone, CheckEvents, StopOnExit, ReadCounter, DecideToLock, DecideToStop, SchedStopped,
     DecideToEnd, WakeJoinerDec, End
<1> QED
  BY <1>2, <1>3, <1>4, <1>5, <1>6 DEF Scheduler

LEMMA UltEndedStay ==
  ASSUME StreamInv, NEW f \in Xstream, NEW u \in Thread, Ult(u, f)
  PROVE  EndedStay
<1>1. UNCHANGED <<state, home>> => EndedStay
  BY DEF EndedStay
<1>2. On(u, f) /\ state[u] # "TERMINATED"
  BY UltOn DEF Ult
<1>3. CASE Yield(u, f) \/ Poll(u, f) \/ BlockUlt(u)
  <2>1. \E l : state' = [state EXCEPT ![u] = l] /\ UNCHANGED home
    BY <1>3 DEF Yield, Poll, BlockUlt, SwitchToSched, SetBlocked
  <2> QED
    BY <1>2, <2>1, OneChanges
<1>4. CASE PostMigration(u, f)
  <2>1. UNCHANGED home /\ (UNCHANGED state \/ state' = [state EXCEPT ![u] = "READY"])
    BY <1>4 DEF PostMigration, SwitchToSched
  <2> QED
    BY <1>1, <1>2, <2>1, OneChanges
<1>5. CASE WakeUp(u)
  <2>1. PICK w \in Thread : w = Op(u)[2]
    BY <1>5, OpType, CallType DEF WakeUp, Calls, StreamInv
  <2> QED
    BY <2>1, <1>5, OneChanges DEF WakeUp, MakeReady, CanSetReady
<1>6. CASE \/ Leave(u, f) \/ Suspend(u, f) \/ WakeUpDec(u) \/ Awaited(u) \/ CancelXstream(u)
           \/ JoinCheck(u, f) \/ JoinArg(u) \/ JoinPost(u) \/ JoinPolled(u) \/ ContextJoin(u)
           \/ MigrateToXstream(u) \/ RefuseMigration(u) \/ CountMigration(u)
  BY <1>1, <1>6 DEF threadVars, Leave, Suspend, WakeUpDec, Awaited, CancelXstream, JoinCheck,
     JoinArg, JoinPost, JoinPolled, ContextJoin, MigrateToXstream, RefuseMigration, CountMigration
<1> QED
  BY <1>3, <1>4, <1>5, <1>6 DEF Ult

LEMMA EmptyNext ==
  ASSUME StreamInv, [Next]_vars, NEW p \in Pool, Quiet(p), Empty(p)
  PROVE  Empty(p)'
<1>1. UNCHANGED vars => EndedStay
  BY DEF EndedStay, vars, threadVars
<1>2. EndedStay
  BY <1>1, SchedulerEndedStay, UltEndedStay DEF Next, Es
<1> QED
  BY <1>2 DEF EndedStay, Quiet, Empty

\* What an ES that stops has found of a pool of its own.
Stay(p) ==
  /\ Quiet(p) => Quiet(p)'
  /\ Awake(p) => Awake(p)'
  /\ Quiet(p) /\ Empty(p) => Empty(p)'

LEMMA ClosedStay ==
  ASSUME StreamInv, CountedOut, CountedEarly', [Next]_vars, NEW e \in Xstream, Closed(e),
         NEW p \in Owned(e)
  PROVE  Stay(p)
<1>1. p \in Pool
  BY OwnedPool
<1> QED
  BY <1>1, QuietNext, AwakeNext, EmptyNext DEF Stay

(***************************************************************************)
(* An ES that ends because it is joined: what it has found while it stops. *)
(***************************************************************************)

\* What the requests, the lock and the sum are along the way.
StopPlace(e) ==
  /\ "FINISH" \in schedRequest[e] => "JOIN" \in xrequest[e]
  /\ xpc[e] \in {"size1", "size2"} \cup StopPC => "JOIN" \in xrequest[e]
  /\ "EXIT" \notin schedRequest[e] /\ xpc[e] # "exit"
  /\ xpc[e] \in {"size2", "stopped"} => schedLock[e]
  /\ xpc[e] \in StopPC => schedState[e] = "TERMINATED"
  /\ size[e] \in Nat
  /\ xpc[e] \notin {"size1", "size2", "size3"} => size[e] = 0 /\ at[e] = FirstCount

\* Whether it has read that no ULT is on its way to its ith pool, that none of it is blocked,
\* that none is in it.
ReadQuiet(e, i) == i < at[e].nth \/ (i = at[e].nth /\ at[e].what = "blocked")
ReadAwake(e, i) == i < at[e].nth
ReadEmpty(e, i) == i < at[e].nth \/ (i = at[e].nth /\ at[e].what # "size")

\* Under the lock, what it has read so far is nothing; and so is what is left in the end.
StopFound(e) ==
  /\ xpc[e] = "size2" /\ size[e] = 0 =>
       \A i \in DOMAIN SchedPools[e] : SchedPools[e][i] \in Owned(e) =>
         /\ ReadQuiet(e, i) => Quiet(SchedPools[e][i])
         /\ ReadAwake(e, i) => Awake(SchedPools[e][i])
  /\ xpc[e] \in StopPC => \A p \in Owned(e) : Quiet(p) /\ Awake(p)
  /\ xpc[e] = "size3" /\ size[e] = 0 =>
       \A i \in DOMAIN SchedPools[e] :
         SchedPools[e][i] \in Owned(e) /\ ReadEmpty(e, i) => Empty(SchedPools[e][i])
  /\ xpc[e] \in StopPC \ {"stopped", "size3"} => \A p \in Owned(e) : Empty(p)

\* An ES that is not cancelled.
StopOK(e) == StopPlace(e) /\ StopFound(e)
StopInv == \A e \in Xstream : "CANCEL" \notin xrequest[e] => StopOK(e)

\* What StopInv needs of the step besides itself.
StopStep ==
  /\ StreamInv /\ BlockedCount /\ MigrationBound
  /\ CountedOut /\ CountedEarly /\ CountedEarly'
  /\ [Next]_vars

LEMMA StopClosed ==
  ASSUME NEW e \in Xstream, StopPlace(e), xpc[e] \in {"size2"} \cup StopPC
  PROVE  Closed(e)
BY DEF StopPlace, Closed, StopPC

LEMMA StopStay ==
  ASSUME StopStep, NEW e \in Xstream, StopPlace(e), xpc[e] \in {"size2"} \cup StopPC,
         NEW p \in Owned(e)
  PROVE  Stay(p)
BY StopClosed, ClosedStay DEF StopStep

\* The steps of the others, and those of the ES before it stops.
Same(e) ==
  /\ xpc'[e] = xpc[e] /\ at'[e] = at[e] /\ size'[e] = size[e]
  /\ schedState'[e] = schedState[e] /\ schedRequest'[e] = schedRequest[e]
  /\ schedLock'[e] = schedLock[e]
  /\ xrequest[e] \subseteq xrequest'[e]

LEMMA SameStops ==
  ASSUME StopStep, NEW e \in Xstream, StopOK(e), Same(e)
  PROVE  StopOK(e)'
<1>1. StopPlace(e)'
  BY DEF Same, StopOK, StopPlace
<1>2. xpc[e] \in {"size2"} \cup StopPC => \A p \in Owned(e) : Stay(p)
  BY StopStay DEF StopOK
<1>3. /\ \A i : /\ ReadQuiet(e, i)' <=> ReadQuiet(e, i)
                /\ ReadAwake(e, i)' <=> ReadAwake(e, i)
                /\ ReadEmpty(e, i)' <=> ReadEmpty(e, i)
      /\ Owned(e)' = Owned(e)
  BY DEF Same, ReadQuiet, ReadAwake, ReadEmpty, Owned, Scheds
<1>4. StopFound(e)'
  BY <1>2, <1>3 DEF Same, StopOK, StopFound, Stay, StopPC
<1> QED
  BY <1>1, <1>4 DEF StopOK

\* A step of its own that is not one of stopping.
LEMMA LoopStops ==
  ASSUME NEW e \in Xstream, StopOK(e), xpc[e] \notin {"size1", "size2", "size3"},
         xpc'[e] \notin {"size1", "size2", "exit"} \cup StopPC,
         UNCHANGED <<at, size, schedRequest>>, xrequest[e] \subseteq xrequest'[e]
  PROVE  StopOK(e)'
BY DEF StopOK, StopPlace, StopFound, StopPC

LEMMA OtherScheduler ==
  ASSUME StreamInv, NEW f \in Xstream, Scheduler(f), NEW e \in Xstream, f # e
  PROVE  Same(e)
<1>1. /\ xpc \in [Xstream -> XPC] /\ at \in [Xstream -> Count] /\ size \in [Xstream -> Int]
      /\ schedState \in [Xstream -> {"READY", "RUNNING", "TERMINATED"}]
      /\ schedRequest \in [Xstream -> SUBSET {"FINISH", "EXIT"}]
      /\ schedLock \in [Xstream -> BOOLEAN]
  BY DEF StreamInv, TypeOK
<1>2. CASE SchedStart(f) \/ SchedRun(f) \/ SchedIdle(f) \/ WorkDone(f) \/ CheckEvents(f)
  BY <1>1, <1>2 DEF Same, SchedStart, SchedRun, SchedIdle, WorkDone, CheckEvents, GotoX,
     loopVars, xstreamVars
<1>3. CASE ReturnTerminated(f) \/ ReturnYielded(f) \/ ReturnBlocked(f) \/ ReturnMigrating(f)
  BY <1>1, <1>3 DEF Same, ReturnTerminated, ReturnYielded, ReturnBlocked, ReturnMigrating, GotoX,
     loopVars, xstreamVars
<1>4. CASE Migrate(f) \/ MigrateDec(f)
  BY <1>1, <1>4 DEF Same, Migrate, MigrateDec, GotoX, xstreamVars
<1>5. CASE StopOnExit(f) \/ ReadCounter(f) \/ DecideToLock(f)
  BY <1>1, <1>5 DEF Same, StopOnExit, ReadCounter, DecideToLock, Sized, GotoX, loopVars,
     xstreamVars
<1>6. CASE DecideToStop(f) \/ SchedStopped(f) \/ DecideToEnd(f)
  BY <1>1, <1>6 DEF Same, DecideToStop, SchedStopped, DecideToEnd, Sized, GotoX, loopVars,
     xstreamVars
<1>7. CASE WakeJoiner(f) \/ WakeJoinerDec(f) \/ End(f)
  BY <1>1, <1>7 DEF Same, WakeJoiner, WakeJoinerDec, End, GotoX, loopVars, xstreamVars
<1> QED
  BY <1>2, <1>3, <1>4, <1>5, <1>6, <1>7 DEF Scheduler

\* A step of a ULT leaves the sizes and the schedulers alone, and at most makes its own ES
\* switch back to the scheduler.
LEMMA UltFrame ==
  ASSUME StreamInv, NEW f \in Xstream, NEW u \in Thread, Ult(u, f)
  PROVE  /\ UNCHANGED <<at, size, schedState, schedRequest, schedLock>>
         /\ \A e \in Xstream : xrequest[e] \subseteq xrequest'[e]
         /\ UNCHANGED xpc \/ xpc' = [xpc EXCEPT ![f] = "ret"]
         /\ xpc[f] = "ult"
<1>1. xpc[f] = "ult"
  BY DEF Ult, On
<1>2. CASE Leave(u, f) \/ Yield(u, f) \/ Suspend(u, f) \/ Poll(u, f) \/ PostMigration(u, f)
  BY <1>1, <1>2 DEF Leave, Yield, Suspend, Poll, PostMigration, SwitchToSched, GotoX, xstreamVars,
     loopVars
<1>3. CASE \/ BlockUlt(u) \/ WakeUp(u) \/ WakeUpDec(u) \/ Awaited(u) \/ JoinCheck(u, f)
           \/ JoinPolled(u) \/ ContextJoin(u)
           \/ MigrateToXstream(u) \/ RefuseMigration(u) \/ CountMigration(u)
  BY <1>1, <1>3 DEF BlockUlt, WakeUp, WakeUpDec, Awaited, JoinCheck, JoinPolled, ContextJoin,
     MigrateToXstream, RefuseMigration, CountMigration, xstreamVars, loopVars
<1>4. CASE CancelXstream(u) \/ JoinArg(u) \/ JoinPost(u)
  <2>1. xrequest \in [Xstream -> SUBSET {"JOIN", "CANCEL"}]
    BY DEF StreamInv, TypeOK
  <2>2. \A e \in Xstream : xrequest[e] \subseteq xrequest'[e]
    BY <1>4, <2>1 DEF CancelXstream, JoinArg, JoinPost
  <2> QED
    BY <1>1, <1>4, <2>2 DEF CancelXstream, JoinArg, JoinPost, loopVars
<1> QED
  BY <1>1, <1>2, <1>3, <1>4 DEF Ult

LEMMA UltStops ==
  ASSUME StopStep, NEW f \in Xstream, NEW u \in Thread, Ult(u, f), NEW e \in Xstream, StopOK(e)
  PROVE  StopOK(e)'
<1>1. /\ UNCHANGED <<at, size, schedState, schedRequest, schedLock>>
      /\ xrequest[e] \subseteq xrequest'[e]
      /\ UNCHANGED xpc \/ xpc' = [xpc EXCEPT ![f] = "ret"]
      /\ xpc[f] = "ult" /\ xpc \in [Xstream -> XPC]
  BY UltFrame, Types DEF StopStep
<1>2. CASE xpc'[e] = xpc[e]
  BY <1>1, <1>2, SameStops DEF Same
<1>3. CASE xpc'[e] # xpc[e]
  <2>1. xpc[e] = "ult" /\ xpc'[e] = "ret"
    BY <1>1, <1>3
  <2> QED
    BY <1>1, <2>1, LoopStops DEF StopPC
<1> QED
  BY <1>2, <1>3

\* What the counts say that an ES which is joined reads of its pools.
LEMMA CountsRead ==
  ASSUME StopStep, NEW e \in Xstream, "JOIN" \in xrequest[e],
         NEW p \in Pool, Contains(SchedPools[e], p)
  PROVE  /\ Len(pool[p]) \in Nat /\ numMigrations[p] \in Nat /\ numBlocked[p] \in Nat
         /\ Len(pool[p]) = 0 => pool[p] = <<>>
         /\ numMigrations[p] = 0 => Quiet(p)
         /\ numBlocked[p] = 0 => Awake(p)
<1>1. StreamInv
  BY DEF StopStep
<1>2. Uncounted(p) = {}
  BY DEF StopStep, CountedEarly, Uncounted
<1>3. Cardinality(Uncounted(p)) = 0
  BY <1>2, FS_EmptySet
<1>4. Surplus(p) >= 0
  BY DEF StopStep, MigrationBound
<1>5. /\ numMigrations[p] \in Int
      /\ Cardinality(Coming(p)) \in Nat /\ Cardinality(Posting(p)) \in Nat
      /\ Cardinality(Arrived(p)) \in Nat
  BY <1>1, SurplusType
<1>6. numMigrations[p] >= Cardinality(Coming(p)) + Cardinality(Posting(p)) + Cardinality(Arrived(p))
  BY <1>3, <1>4, <1>5 DEF Surplus
<1>7. /\ IsFiniteSet(Coming(p)) /\ IsFiniteSet(Posting(p)) /\ IsFiniteSet(Arrived(p))
      /\ IsFiniteSet(BlockedIn(p)) /\ IsFiniteSet(LateWakers(p)) /\ IsFiniteSet(LateXstreams(p))
  <2>1. /\ Coming(p) \in SUBSET Thread /\ Posting(p) \in SUBSET Thread
        /\ Arrived(p) \in SUBSET Xstream /\ BlockedIn(p) \in SUBSET Thread
        /\ LateWakers(p) \in SUBSET Thread /\ LateXstreams(p) \in SUBSET Xstream
    BY DEF Coming, Posting, Arrived, BlockedIn, LateWakers, LateXstreams
  <2> QED
    BY <2>1, Finite, FS_Subset
<1>8. numMigrations[p] = 0 => Quiet(p)
  <2> SUFFICES ASSUME numMigrations[p] = 0 PROVE Quiet(p)
    OBVIOUS
  <2>1. /\ Cardinality(Coming(p)) = 0 /\ Cardinality(Posting(p)) = 0
        /\ Cardinality(Arrived(p)) = 0
    BY <1>5, <1>6
  <2> QED
    BY <2>1, <1>7, FS_EmptySet DEF Quiet
<1>9. /\ Cardinality(BlockedIn(p)) \in Nat /\ Cardinality(LateWakers(p)) \in Nat
      /\ Cardinality(LateXstreams(p)) \in Nat
  BY <1>7, FS_CardinalityType
<1>10. numBlocked[p] = Cardinality(BlockedIn(p)) + Cardinality(LateWakers(p))
                         + Cardinality(LateXstreams(p))
  BY DEF StopStep, BlockedCount
<1>11. numBlocked[p] = 0 => Cardinality(BlockedIn(p)) = 0
  BY <1>9, <1>10
<1>12. numBlocked[p] = 0 => Awake(p)
  BY <1>7, <1>11, FS_EmptySet DEF Awake
<1>13. Len(pool[p]) \in Nat /\ (Len(pool[p]) = 0 => pool[p] = <<>>)
  <2>1. pool[p] \in Seq(Thread)
    BY <1>1, Types
  <2> QED
    BY <2>1, LenProperties, EmptySeq
<1> QED
  BY <1>5, <1>6, <1>8, <1>9, <1>10, <1>12, <1>13

\* A pool of its own that holds nothing, and of which nothing is blocked, has no ULT left.
LEMMA NobodyLeft ==
  ASSUME StreamInv, NEW e \in Xstream, NEW p \in Owned(e), pool[p] = <<>>, Awake(p),
         xpc[e] \notin {"ult", "ret", "migrate"}
  PROVE  Empty(p)
<1> SUFFICES ASSUME NEW u \in Thread, home[u] = p, state[u] # "TERMINATED" PROVE FALSE
  BY DEF Empty
<1>1. state[u] \in {"READY", "RUNNING"}
  BY Types DEF Awake, BlockedIn
<1>2. ~Runs(u)
  <2> SUFFICES ASSUME NEW f \in Xstream, running[f] = u PROVE FALSE
    BY DEF Runs
  <2>1. f \in Scheds(p) /\ xpc[f] \in {"ult", "ret", "migrate"}
    BY Alone
  <2> QED
    BY <2>1 DEF Owned
<1>3. PICK q \in Pool : Contains(pool[q], u)
  BY <1>1, <1>2 DEF StreamInv, PartsOK, PlaceOK, PlaceAt, InPool
<1>4. q = p
  BY <1>3 DEF StreamInv, PartsOK, PoolOK, PoolAt
<1>5. DOMAIN pool[p] = {}
  BY EmptySeq
<1> QED
  BY <1>3, <1>4, <1>5 DEF Contains

LEMMA AtType ==
  ASSUME StreamInv, NEW e \in Xstream
  PROVE  /\ at[e] \in Count /\ at[e].nth \in Nat /\ at[e].nth > 0
         /\ at[e].what \in {"size", "migrations", "blocked"}
         /\ at \in [Xstream -> Count] /\ size \in [Xstream -> Int]
BY DEF StreamInv, TypeOK, Count

\* What ReadCounter reads, and what it goes on to.
LEMMA CounterRead ==
  ASSUME StopStep, NEW e \in Xstream, StopOK(e), ReadCounter(e)
  PROVE  \E n \in Nat, i \in DOMAIN SchedPools[e], p \in Pool :
           /\ i = at[e].nth /\ p = SchedPools[e][i]
           /\ size'[e] = size[e] + n /\ size'[e] \in Nat
           /\ n = 0 /\ at[e].what = "size" => pool[p] = <<>>
           /\ n = 0 /\ at[e].what = "migrations" => Quiet(p)
           /\ n = 0 /\ at[e].what = "blocked" => Awake(p)
           /\ \/ at[e].what = "size" /\ at'[e].nth = i /\ at'[e].what = "migrations"
              \/ /\ at[e].what = "migrations" /\ p \in Owned(e)
                 /\ at'[e].nth = i /\ at'[e].what = "blocked"
              \/ /\ at[e].what = "migrations" /\ p \notin Owned(e)
                 /\ at'[e].nth = i + 1 /\ at'[e].what = "size"
              \/ at[e].what = "blocked" /\ at'[e].nth = i + 1 /\ at'[e].what = "size"
<1>1. StreamInv
  BY DEF StopStep
<1>2. /\ at[e] \in Count /\ at[e].nth \in Nat /\ at[e].nth > 0
      /\ at[e].what \in {"size", "migrations", "blocked"}
      /\ at \in [Xstream -> Count] /\ size \in [Xstream -> Int]
  BY <1>1, AtType
<1>3. at[e].nth <= Len(SchedPools[e])
  BY DEF ReadCounter
<1>4. PICK i \in DOMAIN SchedPools[e] : i = at[e].nth
  BY <1>2, <1>3, ScanOrder
<1>5. PICK p \in Pool : p = SchedPools[e][i]
  BY ScanOrder
<1>6. Contains(SchedPools[e], p)
  BY <1>5 DEF Contains
<1>7. "JOIN" \in xrequest[e]
  BY DEF ReadCounter, StopOK, StopPlace, StopPC
<1>8. PICK n : n = Value(at[e].what, p)
  OBVIOUS
<1>9. /\ n \in Nat
      /\ n = 0 /\ at[e].what = "size" => pool[p] = <<>>
      /\ n = 0 /\ at[e].what = "migrations" => Quiet(p)
      /\ n = 0 /\ at[e].what = "blocked" => Awake(p)
  BY <1>2, <1>6, <1>7, <1>8, CountsRead DEF Value
<1>10. size'[e] = size[e] + n /\ size'[e] \in Nat
  <2>1. size' = [size EXCEPT ![e] = @ + n]
    BY <1>4, <1>5, <1>8 DEF ReadCounter
  <2>2. size[e] \in Nat
    BY DEF StopOK, StopPlace
  <2> QED
    BY <2>1, <2>2, <1>2, <1>9
<1>11. at'[e] = NextCount(e, at[e])
  BY <1>2 DEF ReadCounter
<1>12. /\ \/ at[e].what = "size" /\ at'[e].nth = i /\ at'[e].what = "migrations"
          \/ /\ at[e].what = "migrations" /\ p \in Owned(e)
             /\ at'[e].nth = i /\ at'[e].what = "blocked"
          \/ /\ at[e].what = "migrations" /\ p \notin Owned(e)
             /\ at'[e].nth = i + 1 /\ at'[e].what = "size"
          \/ at[e].what = "blocked" /\ at'[e].nth = i + 1 /\ at'[e].what = "size"
  BY <1>2, <1>4, <1>5, <1>11 DEF NextCount, CountsBlocked, Count
<1> QED
  BY <1>4, <1>5, <1>9, <1>10, <1>12

LEMMA ReadCounterStops ==
  ASSUME StopStep, NEW e \in Xstream, StopOK(e), ReadCounter(e)
  PROVE  StopOK(e)'
<1>1. PICK n \in Nat, i \in DOMAIN SchedPools[e], p \in Pool :
           /\ i = at[e].nth /\ p = SchedPools[e][i]
           /\ size'[e] = size[e] + n /\ size'[e] \in Nat
           /\ n = 0 /\ at[e].what = "size" => pool[p] = <<>>
           /\ n = 0 /\ at[e].what = "migrations" => Quiet(p)
           /\ n = 0 /\ at[e].what = "blocked" => Awake(p)
           /\ \/ at[e].what = "size" /\ at'[e].nth = i /\ at'[e].what = "migrations"
              \/ /\ at[e].what = "migrations" /\ p \in Owned(e)
                 /\ at'[e].nth = i /\ at'[e].what = "blocked"
              \/ /\ at[e].what = "migrations" /\ p \notin Owned(e)
                 /\ at'[e].nth = i + 1 /\ at'[e].what = "size"
              \/ at[e].what = "blocked" /\ at'[e].nth = i + 1 /\ at'[e].what = "size"
  BY CounterRead
<1>2. /\ UNCHANGED <<xpc, xrequest, schedState, schedRequest, schedLock>>
      /\ xpc[e] \in {"size1", "size2", "size3"}
  BY DEF ReadCounter, xstreamVars
<1>3. StopPlace(e)'
  BY <1>1, <1>2 DEF StopOK, StopPlace
<1>4. xpc[e] \in {"size2"} \cup StopPC => \A q \in Owned(e) : Stay(q)
  BY StopStay DEF StopOK
<1>5. size[e] \in Nat /\ (size'[e] = 0 => size[e] = 0 /\ n = 0)
  BY <1>1 DEF StopOK, StopPlace
<1>6. DOMAIN SchedPools[e] \subseteq Nat
  BY ScanOrder
<1>7. Owned(e)' = Owned(e)
  BY DEF Owned, Scheds
<1>8. ASSUME xpc'[e] = "size2", size'[e] = 0, NEW j \in DOMAIN SchedPools[e],
             SchedPools[e][j] \in Owned(e)
      PROVE  /\ ReadQuiet(e, j)' => Quiet(SchedPools[e][j])'
             /\ ReadAwake(e, j)' => Awake(SchedPools[e][j])'
  <2>1. PICK q \in Owned(e) : q = SchedPools[e][j]
    BY <1>8
  <2>2. /\ ReadQuiet(e, j) => Quiet(q)
        /\ ReadAwake(e, j) => Awake(q)
        /\ Stay(q)
    BY <1>2, <1>4, <1>5, <1>8, <2>1 DEF StopOK, StopFound
  <2>3. i \in Nat /\ j \in Nat /\ n = 0
    BY <1>5, <1>6, <1>8
  <2>4. CASE j < i
    <3>1. ReadQuiet(e, j) /\ ReadAwake(e, j)
      BY <1>1, <2>4 DEF ReadQuiet, ReadAwake
    <3> QED
      BY <3>1, <2>1, <2>2 DEF Stay
  <2>5. CASE j = i
    <3>1. q = p /\ p \in Owned(e)
      BY <1>1, <2>1, <2>5
    <3>2. at[e].what = "size" => ~ReadQuiet(e, j)' /\ ~ReadAwake(e, j)'
      BY <1>1, <2>3, <2>5 DEF ReadQuiet, ReadAwake
    <3>3. at[e].what = "migrations" => Quiet(q) /\ ~ReadAwake(e, j)'
      BY <1>1, <2>3, <2>5, <3>1 DEF ReadAwake
    <3>4. at[e].what = "blocked" => Quiet(q) /\ Awake(q)
      BY <1>1, <2>2, <2>3, <2>5, <3>1 DEF ReadQuiet
    <3> QED
      BY <1>1, <2>1, <2>2, <3>2, <3>3, <3>4 DEF Stay
  <2>6. CASE j > i
    <3>1. ~ReadQuiet(e, j)' /\ ~ReadAwake(e, j)'
      BY <1>1, <2>3, <2>6 DEF ReadQuiet, ReadAwake
    <3> QED
      BY <3>1
  <2> QED
    BY <2>3, <2>4, <2>5, <2>6
<1>9. ASSUME xpc'[e] = "size3", size'[e] = 0, NEW j \in DOMAIN SchedPools[e],
             SchedPools[e][j] \in Owned(e), ReadEmpty(e, j)'
      PROVE  Empty(SchedPools[e][j])'
  <2>1. PICK q \in Owned(e) : q = SchedPools[e][j]
    BY <1>9
  <2>2. /\ ReadEmpty(e, j) => Empty(q)
        /\ Stay(q) /\ Quiet(q) /\ Awake(q)
    BY <1>2, <1>4, <1>5, <1>9, <2>1 DEF StopOK, StopFound, StopPC
  <2>3. pool[q] = <<>> => Empty(q)
    BY <1>2, <1>9, <2>2, NobodyLeft DEF StopStep
  <2>4. Empty(q)
    <3>1. i \in Nat /\ j \in Nat /\ n = 0
      BY <1>5, <1>6, <1>9
    <3>2. j <= i
      BY <1>1, <1>9, <3>1 DEF ReadEmpty
    <3>3. CASE j < i
      BY <1>1, <2>2, <3>3 DEF ReadEmpty
    <3>4. CASE j = i
      <4>1. q = p
        BY <1>1, <2>1, <3>4
      <4>2. at[e].what = "size" => pool[q] = <<>>
        BY <1>1, <3>1, <4>1
      <4>3. at[e].what # "size" => ReadEmpty(e, j)
        BY <1>1, <3>4 DEF ReadEmpty
      <4> QED
        BY <2>2, <2>3, <4>2, <4>3
    <3> QED
      BY <3>1, <3>2, <3>3, <3>4
  <2> QED
    BY <2>1, <2>2, <2>4 DEF Stay
<1>10. StopFound(e)'
  <2>1. xpc'[e] \in StopPC => \A q \in Owned(e) : Quiet(q)' /\ Awake(q)'
    BY <1>2, <1>4 DEF StopOK, StopFound, Stay
  <2>2. xpc'[e] \notin StopPC \ {"stopped", "size3"}
    BY <1>2 DEF StopPC
  <2>3. \A q : q \in Owned(e)' <=> q \in Owned(e)
    BY <1>7
  <2>4. (xpc[e] = "size2" /\ size[e] = 0 =>
           \A i1 \in DOMAIN SchedPools[e] : SchedPools[e][i1] \in Owned(e) =>
             /\ ReadQuiet(e, i1) => Quiet(SchedPools[e][i1])
             /\ ReadAwake(e, i1) => Awake(SchedPools[e][i1]))'
    BY <1>8, <2>3
  <2>5. (xpc[e] = "size3" /\ size[e] = 0 =>
           \A i1 \in DOMAIN SchedPools[e] :
             SchedPools[e][i1] \in Owned(e) /\ ReadEmpty(e, i1) => Empty(SchedPools[e][i1]))'
    BY <1>9, <2>3
  <2> QED
    BY <1>7, <2>1, <2>2, <2>4, <2>5 DEF StopFound
<1> QED
  BY <1>3, <1>10 DEF StopOK

\* The pools of its own are among those that it counts.
LEMMA OwnedCounted ==
  ASSUME NEW e \in Xstream, NEW p \in Owned(e)
  PROVE  \E i \in DOMAIN SchedPools[e] : SchedPools[e][i] = p
<1>1. Contains(SchedPools[e], p)
  BY OwnedPool
<1> QED
  BY <1>1 DEF Contains

LEMMA PlainStops ==
  ASSUME StreamInv, NEW e \in Xstream, StopOK(e),
         \/ SchedStart(e) \/ SchedRun(e) \/ SchedIdle(e) \/ WorkDone(e)
         \/ ReturnTerminated(e) \/ ReturnYielded(e) \/ ReturnBlocked(e) \/ ReturnMigrating(e)
         \/ Migrate(e) \/ MigrateDec(e)
  PROVE  StopOK(e)'
<1>1. xpc \in [Xstream -> XPC]
  BY Types
<1>2. UNCHANGED <<at, size, schedRequest, xrequest>> \/ SchedStart(e)
  BY DEF SchedRun, SchedIdle, WorkDone, ReturnTerminated, ReturnYielded, ReturnBlocked,
     ReturnMigrating, Migrate, MigrateDec, loopVars, xstreamVars
<1>3. UNCHANGED <<at, size, schedRequest, xrequest>>
  BY <1>2 DEF SchedStart
<1>4. /\ xpc[e] \in {"start", "scan", "count", "ret", "migrate", "migrate_dec"}
      /\ xpc'[e] \in {"scan", "ult", "count", "events", "migrate", "migrate_dec"}
  <2>1. CASE SchedStart(e) \/ SchedRun(e) \/ SchedIdle(e) \/ WorkDone(e)
    BY <1>1, <2>1 DEF SchedStart, SchedRun, SchedIdle, WorkDone, GotoX
  <2>2. CASE \/ ReturnTerminated(e) \/ ReturnYielded(e) \/ ReturnBlocked(e) \/ ReturnMigrating(e)
             \/ Migrate(e) \/ MigrateDec(e)
    BY <1>1, <2>2 DEF ReturnTerminated, ReturnYielded, ReturnBlocked, ReturnMigrating, Migrate,
       MigrateDec, GotoX
  <2> QED
    BY <2>1, <2>2
<1> QED
  BY <1>3, <1>4, LoopStops DEF StopPC

LEMMA CheckEventsStops ==
  ASSUME StreamInv, NEW e \in Xstream, StopOK(e), CheckEvents(e), "CANCEL" \notin xrequest'[e]
  PROVE  StopOK(e)'
<1>1. PICK R : R = schedRequest[e]
                   \cup (IF "JOIN" \in xrequest[e] THEN {"FINISH"} ELSE {})
                   \cup (IF "CANCEL" \in xrequest[e] THEN {"EXIT"} ELSE {})
  OBVIOUS
<1>2. /\ xpc[e] = "events"
      /\ schedRequest' = [schedRequest EXCEPT ![e] = R]
      /\ xpc' = [xpc EXCEPT ![e] = IF "EXIT" \in R THEN "exit"
                                   ELSE IF "FINISH" \in R THEN "size1" ELSE "scan"]
      /\ UNCHANGED <<xrequest, at, size>>
  BY <1>1 DEF CheckEvents, GotoX, loopVars
<1>3. "EXIT" \notin R /\ ("FINISH" \in R => "JOIN" \in xrequest[e])
  BY <1>1, <1>2 DEF StopOK, StopPlace
<1>4. /\ schedRequest'[e] = R
      /\ xpc'[e] = IF "FINISH" \in R THEN "size1" ELSE "scan"
  <2>1. /\ xpc \in [Xstream -> XPC]
        /\ schedRequest \in [Xstream -> SUBSET {"FINISH", "EXIT"}]
    BY DEF StreamInv, TypeOK
  <2> QED
    BY <1>2, <1>3, <2>1
<1>5. StopPlace(e)'
  BY <1>2, <1>3, <1>4 DEF StopOK, StopPlace, StopPC
<1>6. StopFound(e)'
  BY <1>4 DEF StopFound, StopPC
<1> QED
  BY <1>5, <1>6 DEF StopOK

LEMMA SizedType ==
  ASSUME StreamInv, NEW e \in Xstream, NEW l, Sized(e, l)
  PROVE  /\ xpc[e] = l /\ at[e].nth > Len(SchedPools[e])
         /\ at'[e] = FirstCount /\ size'[e] = 0
         /\ \A i \in DOMAIN SchedPools[e] : i < at[e].nth
<1>1. at[e].nth \in Nat /\ at \in [Xstream -> Count] /\ size \in [Xstream -> Int]
  BY AtType
<1> QED
  BY <1>1, ScanOrder DEF Sized

LEMMA DecideToLockStops ==
  ASSUME StreamInv, NEW e \in Xstream, StopOK(e), DecideToLock(e)
  PROVE  StopOK(e)'
<1>1. xpc[e] = "size1" /\ at'[e] = FirstCount /\ size'[e] = 0
  BY SizedType DEF DecideToLock
<1>2. xpc \in [Xstream -> XPC] /\ schedLock \in [Xstream -> BOOLEAN]
  BY DEF StreamInv, TypeOK
<1>3. /\ xpc'[e] = "scan" \/ (xpc'[e] = "size2" /\ schedLock'[e])
      /\ UNCHANGED <<xrequest, schedRequest>>
  BY <1>2 DEF DecideToLock, GotoX
<1>4. StopPlace(e)'
  BY <1>1, <1>3 DEF StopOK, StopPlace, StopPC
<1>5. ASSUME NEW i \in DOMAIN SchedPools[e] PROVE ~ReadQuiet(e, i)' /\ ~ReadAwake(e, i)'
  BY <1>1, ScanOrder DEF ReadQuiet, ReadAwake, FirstCount
<1>6. StopFound(e)'
  BY <1>3, <1>5 DEF StopFound, StopPC
<1> QED
  BY <1>4, <1>6 DEF StopOK

LEMMA DecideToStopStops ==
  ASSUME StopStep, NEW e \in Xstream, StopOK(e), DecideToStop(e)
  PROVE  StopOK(e)'
<1>1. StreamInv
  BY DEF StopStep
<1>2. /\ xpc[e] = "size2" /\ at'[e] = FirstCount /\ size'[e] = 0
      /\ \A i \in DOMAIN SchedPools[e] : i < at[e].nth
  BY <1>1, SizedType DEF DecideToStop
<1>3. xpc \in [Xstream -> XPC] /\ schedState \in [Xstream -> {"READY", "RUNNING", "TERMINATED"}]
  BY <1>1 DEF StreamInv, TypeOK
<1>4. /\ \/ xpc'[e] = "scan"
         \/ /\ size[e] = 0 /\ xpc'[e] = "stopped" /\ schedState'[e] = "TERMINATED"
            /\ UNCHANGED schedLock
      /\ UNCHANGED <<xrequest, schedRequest>>
  BY <1>3 DEF DecideToStop, GotoX
<1>5. StopPlace(e)'
  BY <1>2, <1>4 DEF StopOK, StopPlace, StopPC
<1>6. ASSUME size[e] = 0, NEW p \in Owned(e) PROVE Quiet(p)' /\ Awake(p)'
  <2>1. PICK i \in DOMAIN SchedPools[e] : SchedPools[e][i] = p
    BY OwnedCounted
  <2>2. ReadQuiet(e, i) /\ ReadAwake(e, i)
    BY <1>2 DEF ReadQuiet, ReadAwake
  <2>3. Quiet(p) /\ Awake(p)
    BY <1>2, <1>6, <2>1, <2>2 DEF StopOK, StopFound
  <2>4. Stay(p)
    BY <1>2, StopStay DEF StopOK
  <2> QED
    BY <2>3, <2>4 DEF Stay
<1>7. Owned(e)' = Owned(e)
  BY DEF Owned, Scheds
<1>8. StopFound(e)'
  BY <1>4, <1>6, <1>7 DEF StopFound, StopPC
<1> QED
  BY <1>5, <1>8 DEF StopOK

\* What it found stays while it ends.
LEMMA EndingStay ==
  ASSUME StopStep, NEW e \in Xstream, StopOK(e), xpc[e] \in StopPC
  PROVE  /\ \A p \in Owned(e) : Quiet(p)' /\ Awake(p)'
         /\ \A p \in Owned(e) : Empty(p) => Empty(p)'
         /\ Owned(e)' = Owned(e)
<1>1. ASSUME NEW p \in Owned(e) PROVE Quiet(p) /\ Awake(p) /\ Stay(p)
  BY StopStay DEF StopOK, StopFound
<1> QED
  BY <1>1 DEF Stay, Owned, Scheds

LEMMA SchedStoppedStops ==
  ASSUME StopStep, NEW e \in Xstream, StopOK(e), SchedStopped(e), "CANCEL" \notin xrequest'[e]
  PROVE  StopOK(e)'
<1>1. /\ xpc[e] = "stopped" /\ xpc'[e] = "size3"
      /\ UNCHANGED <<at, size, xrequest, schedState, schedRequest>>
      /\ xpc[e] \in StopPC
  <2>1. xpc \in [Xstream -> XPC]
    BY Types DEF StopStep
  <2> QED
    BY <2>1 DEF SchedStopped, GotoX, loopVars, StopOK, StopPlace, StopPC
<1>2. at'[e] = FirstCount
  BY <1>1 DEF StopOK, StopPlace
<1>3. StopPlace(e)'
  BY <1>1 DEF StopOK, StopPlace, StopPC
<1>4. ASSUME NEW i \in DOMAIN SchedPools[e] PROVE ~ReadEmpty(e, i)'
  BY <1>2, ScanOrder DEF ReadEmpty, FirstCount
<1>5. \A p \in Owned(e) : Quiet(p)' /\ Awake(p)'
  BY <1>1, EndingStay
<1>6. Owned(e)' = Owned(e)
  BY DEF Owned, Scheds
<1>7. StopFound(e)'
  BY <1>1, <1>4, <1>5, <1>6 DEF StopFound
<1> QED
  BY <1>3, <1>7 DEF StopOK

LEMMA DecideToEndStops ==
  ASSUME StopStep, NEW e \in Xstream, StopOK(e), DecideToEnd(e)
  PROVE  StopOK(e)'
<1>1. StreamInv
  BY DEF StopStep
<1>2. /\ xpc[e] = "size3" /\ at'[e] = FirstCount /\ size'[e] = 0
      /\ \A i \in DOMAIN SchedPools[e] : i < at[e].nth
  BY <1>1, SizedType DEF DecideToEnd
<1>3. xpc \in [Xstream -> XPC]
  BY <1>1, Types
<1>4. /\ xpc'[e] = "start" \/ (size[e] = 0 /\ xpc'[e] \in {"wake", "end"})
      /\ UNCHANGED <<xrequest, schedState, schedRequest>>
  BY <1>3 DEF DecideToEnd, GotoX, xstreamVars
<1>5. StopPlace(e)'
  BY <1>2, <1>4 DEF StopOK, StopPlace, StopPC
<1>6. ASSUME size[e] = 0, NEW p \in Owned(e) PROVE Empty(p)
  <2>1. PICK i \in DOMAIN SchedPools[e] : SchedPools[e][i] = p
    BY OwnedCounted
  <2>2. ReadEmpty(e, i)
    BY <1>2 DEF ReadEmpty
  <2> QED
    BY <1>2, <1>6, <2>1, <2>2 DEF StopOK, StopFound
<1>7. /\ \A p \in Owned(e) : Quiet(p)' /\ Awake(p)'
      /\ \A p \in Owned(e) : Empty(p) => Empty(p)'
      /\ Owned(e)' = Owned(e)
  BY <1>2, EndingStay DEF StopPC
<1>8. StopFound(e)'
  BY <1>4, <1>6, <1>7 DEF StopFound, StopPC
<1> QED
  BY <1>5, <1>8 DEF StopOK

LEMMA EndStops ==
  ASSUME StopStep, NEW e \in Xstream, StopOK(e), WakeJoiner(e) \/ WakeJoinerDec(e) \/ End(e)
  PROVE  StopOK(e)'
<1>1. xpc \in [Xstream -> XPC]
  BY Types DEF StopStep
<1>2. /\ xpc[e] \in {"wake", "wake_dec", "end"} /\ xpc'[e] \in {"wake_dec", "end", "ended"}
      /\ UNCHANGED <<at, size, xrequest, schedState, schedRequest>>
  BY <1>1 DEF WakeJoiner, WakeJoinerDec, End, GotoX, loopVars, xstreamVars
<1>3. StopPlace(e)'
  BY <1>2 DEF StopOK, StopPlace, StopPC
<1>4. \A p \in Owned(e) : Empty(p)
  BY <1>2 DEF StopOK, StopFound, StopPC
<1>5. /\ \A p \in Owned(e) : Quiet(p)' /\ Awake(p)'
      /\ \A p \in Owned(e) : Empty(p) => Empty(p)'
      /\ Owned(e)' = Owned(e)
  BY <1>2, EndingStay DEF StopPC
<1>6. StopFound(e)'
  BY <1>2, <1>4, <1>5 DEF StopFound
<1> QED
  BY <1>3, <1>6 DEF StopOK

LEMMA StopNext ==
  ASSUME StopStep, StopInv
  PROVE  StopInv'
<1> SUFFICES ASSUME NEW e \in Xstream, "CANCEL" \notin xrequest'[e] PROVE StopOK(e)'
  BY DEF StopInv
<1>1. StreamInv
  BY DEF StopStep
<1>2. ASSUME "CANCEL" \notin xrequest[e] PROVE StopOK(e)
  BY <1>2 DEF StopInv
<1>3. CASE UNCHANGED vars
  <2>1. UNCHANGED xrequest /\ Same(e)
    BY <1>3 DEF Same, vars, xstreamVars, loopVars
  <2> QED
    BY <1>2, <2>1, SameStops
<1>4. ASSUME NEW f \in Xstream, Scheduler(f) PROVE StopOK(e)'
  <2>1. UNCHANGED xrequest
    BY <1>4 DEF Scheduler, SchedStart, SchedRun, SchedIdle, ReturnTerminated, ReturnYielded,
       ReturnBlocked, ReturnMigrating, Migrate, MigrateDec, WorkDone, CheckEvents, StopOnExit,
       ReadCounter, DecideToLock, DecideToStop, SchedStopped, DecideToEnd, WakeJoiner,
       WakeJoinerDec, End, xstreamVars
  <2>2. StopOK(e)
    BY <1>2, <2>1
  <2>3. CASE f # e
    BY <1>1, <1>4, <2>2, <2>3, OtherScheduler, SameStops
  <2>4. CASE f = e
    <3>1. ~StopOnExit(e)
      BY <2>2 DEF StopOnExit, StopOK, StopPlace
    <3> QED
      BY <1>1, <1>4, <2>2, <2>4, <3>1, PlainStops, CheckEventsStops, ReadCounterStops,
         DecideToLockStops, DecideToStopStops, SchedStoppedStops, DecideToEndStops, EndStops
         DEF Scheduler
  <2> QED
    BY <2>3, <2>4
<1>5. ASSUME NEW f \in Xstream, NEW u \in Thread, Ult(u, f) PROVE StopOK(e)'
  <2>1. "CANCEL" \notin xrequest[e]
    BY <1>1, <1>5, UltFrame
  <2> QED
    BY <1>2, <1>5, <2>1, UltStops
<1> QED
  BY <1>3, <1>4, <1>5 DEF StopStep, Next, Es

LEMMA StopInit == Init => StopInv
<1> SUFFICES ASSUME Init, NEW e \in Xstream PROVE StopOK(e)
  BY DEF StopInv
<1>1. StopPlace(e)
  BY DEF Init, StopPlace, StopPC
<1>2. StopFound(e)
  BY DEF Init, StopFound, StopPC
<1> QED
  BY <1>1, <1>2 DEF StopOK

\* An ES that is joined, and not cancelled, ends with no ULT left that only its scheduler could
\* run, in every program whose migrations keep to what the functions ask of their callers
\* (has_to_stop and get_effective_size of sched.c, ABTI_xstream_schedule): num_migrations is
\* never too low, num_blocked is exact, and what was read under sched_lock stays true.
THEOREM StreamNothingLeft == Spec /\ []CountedOut /\ []CountedEarly => []NothingLeft
<1>1. StopInv => NothingLeft
  <2> SUFFICES ASSUME StopInv, NEW e \in Xstream, NEW u \in Thread, xpc[e] \in {"end", "ended"},
                      "CANCEL" \notin xrequest[e], home[u] \in Owned(e)
               PROVE  state[u] = "TERMINATED"
    BY DEF NothingLeft
  <2>1. Empty(home[u])
    BY DEF StopInv, StopOK, StopFound, StopPC
  <2> QED
    BY <2>1 DEF Empty
<1>2. /\ StreamInv /\ BlockedCount /\ MigrationBound /\ CountedOut /\ CountedEarly
      /\ CountedEarly' /\ [Next]_vars /\ StopInv
      => StopInv'
  BY StopNext DEF StopStep
<1> QED
  BY <1>1, <1>2, StopInit, StreamInvariant, StreamBlockedCount, StreamMigrationBound, PTL DEF Spec

(***************************************************************************)
(* The memory pools of the ESs: Mem.                                       *)
(***************************************************************************)

(***************************************************************************)
(* Facts about lists without repetitions.                                  *)
(***************************************************************************)

\* The elements of a list are those of its type.
LEMMA ToSetType ==
  ASSUME NEW S, NEW s \in Seq(S)
  PROVE  ToSet(s) \subseteq S
BY LenProperties, ElementOfSeq DEF ToSet

\* The elements of two lists that are joined, and when none is repeated.
LEMMA ConcatSet ==
  ASSUME NEW S, NEW s \in Seq(S), NEW t \in Seq(S)
  PROVE  /\ s \o t \in Seq(S)
         /\ ToSet(s \o t) = ToSet(s) \cup ToSet(t)
         /\ IsInjective(s \o t) <=>
              IsInjective(s) /\ IsInjective(t) /\ ToSet(s) \cap ToSet(t) = {}
<1> DEFINE m == Len(s)
           n == Len(t)
           r == s \o t
           I == 1 .. m
           J == 1 .. n
           K == 1 .. m + n
           shift == [j \in J |-> m + j]
<1>1. m \in Nat /\ n \in Nat /\ r \in Seq(S) /\ DOMAIN s = I /\ DOMAIN t = J /\ DOMAIN r = K
  BY ConcatProperties, LenProperties
<1>2. \A i \in I : i \in K /\ r[i] = s[i]
  BY <1>1, ConcatProperties
<1>3. \A j \in J : shift[j] \in K /\ shift[j] \notin I /\ r[shift[j]] = t[j]
  BY <1>1, ConcatProperties
<1>4. \A i, j \in J : shift[i] = shift[j] => i = j
  BY <1>1
<1>5. ASSUME NEW k \in K PROVE k \in I \/ \E j \in J : k = shift[j]
  <2>1. k \notin I => k - m \in J /\ k = shift[k - m]
    BY <1>1
  <2> QED
    BY <2>1
<1> HIDE DEF m, n, r, I, J, K, shift
<1>6. ToSet(r) = ToSet(s) \cup ToSet(t)
  <2>1. ASSUME NEW x \in ToSet(r) PROVE x \in ToSet(s) \cup ToSet(t)
    <3>1. PICK k \in K : x = r[k]
      BY <1>1 DEF ToSet
    <3>2. CASE k \in I
      BY <1>1, <1>2, <3>1, <3>2 DEF ToSet
    <3>3. CASE \E j \in J : k = shift[j]
      BY <1>1, <1>3, <3>1, <3>3 DEF ToSet
    <3> QED
      BY <1>5, <3>2, <3>3
  <2>2. ToSet(s) \subseteq ToSet(r)
    BY <1>1, <1>2 DEF ToSet
  <2>3. ToSet(t) \subseteq ToSet(r)
    BY <1>1, <1>3 DEF ToSet
  <2> QED
    BY <2>1, <2>2, <2>3
<1>7. ASSUME IsInjective(r)
      PROVE  IsInjective(s) /\ IsInjective(t) /\ ToSet(s) \cap ToSet(t) = {}
  <2>1. IsInjective(s)
    BY <1>1, <1>2, <1>7 DEF IsInjective
  <2>2. IsInjective(t)
    BY <1>1, <1>3, <1>4, <1>7 DEF IsInjective
  <2>3. ASSUME NEW x \in ToSet(s), x \in ToSet(t) PROVE FALSE
    <3>1. PICK i \in I : x = s[i]
      BY <1>1 DEF ToSet
    <3>2. PICK j \in J : x = t[j]
      BY <1>1, <2>3 DEF ToSet
    <3>3. i \in K /\ shift[j] \in K /\ r[i] = r[shift[j]] /\ i # shift[j]
      BY <1>2, <1>3, <3>1, <3>2
    <3> QED
      BY <1>1, <1>7, <3>3 DEF IsInjective
  <2> QED
    BY <2>1, <2>2, <2>3
<1>8. ASSUME IsInjective(s), IsInjective(t), ToSet(s) \cap ToSet(t) = {}
      PROVE  IsInjective(r)
  <2>1. ASSUME NEW k \in K, NEW l \in K, r[k] = r[l] PROVE k = l
    <3>1. \A i \in I, j \in J : s[i] # t[j]
      BY <1>1, <1>8 DEF ToSet
    <3>2. CASE k \in I /\ l \in I
      BY <1>1, <1>2, <1>8, <2>1, <3>2 DEF IsInjective
    <3>3. ASSUME NEW i \in J, NEW j \in J, k = shift[i], l = shift[j] PROVE k = l
      BY <1>1, <1>3, <1>8, <2>1, <3>3 DEF IsInjective
    <3>4. CASE k \in I /\ \E j \in J : l = shift[j]
      BY <1>2, <1>3, <2>1, <3>1, <3>4
    <3>5. CASE l \in I /\ \E j \in J : k = shift[j]
      BY <1>2, <1>3, <2>1, <3>1, <3>5
    <3> QED
      BY <1>5, <3>2, <3>3, <3>4, <3>5
  <2> QED
    BY <1>1, <2>1 DEF IsInjective
<1> QED
  BY <1>1, <1>6, <1>7, <1>8 DEF r

\* The list of one element.
LEMMA SingleSet ==
  ASSUME NEW S, NEW x \in S
  PROVE  <<x>> \in Seq(S) /\ Len(<<x>>) = 1 /\ ToSet(<<x>>) = {x} /\ IsInjective(<<x>>)
<1>1. <<x>> \in Seq(S) /\ Len(<<x>>) = 1 /\ DOMAIN <<x>> = {1} /\ <<x>>[1] = x
  OBVIOUS
<1> QED
  BY <1>1 DEF ToSet, IsInjective

\* A list with a new head.
LEMMA ConsSet ==
  ASSUME NEW S, NEW s \in Seq(S), NEW x \in S
  PROVE  /\ <<x>> \o s \in Seq(S)
         /\ Len(<<x>> \o s) = Len(s) + 1
         /\ ToSet(<<x>> \o s) = {x} \cup ToSet(s)
         /\ IsInjective(<<x>> \o s) <=> IsInjective(s) /\ x \notin ToSet(s)
<1> DEFINE h == <<x>>
<1>1. h \in Seq(S) /\ Len(h) = 1 /\ ToSet(h) = {x} /\ IsInjective(h)
  BY SingleSet
<1> HIDE DEF h
<1>2. /\ h \o s \in Seq(S)
      /\ ToSet(h \o s) = {x} \cup ToSet(s)
      /\ IsInjective(h \o s) <=> IsInjective(s) /\ x \notin ToSet(s)
  BY <1>1, ConcatSet
<1>3. Len(h \o s) = Len(s) + 1
  <2>1. Len(h \o s) = Len(h) + Len(s)
    BY <1>1, ConcatProperties
  <2>2. Len(s) \in Nat
    BY LenProperties
  <2> QED
    BY <1>1, <2>1, <2>2
<1> QED
  BY <1>2, <1>3 DEF h

\* The rest of a list.
LEMMA TailSet ==
  ASSUME NEW S, NEW s \in Seq(S), s # <<>>
  PROVE  /\ Head(s) \in S /\ Tail(s) \in Seq(S)
         /\ Len(s) \in Nat \ {0} /\ Len(Tail(s)) = Len(s) - 1
         /\ ToSet(s) = {Head(s)} \cup ToSet(Tail(s))
         /\ IsInjective(s) => IsInjective(Tail(s)) /\ Head(s) \notin ToSet(Tail(s))
<1> DEFINE h == Head(s)
           t == Tail(s)
<1>1. h \in S /\ t \in Seq(S) /\ Len(s) \in Nat \ {0} /\ Len(t) = Len(s) - 1
  BY EmptySeq, HeadTailProperties
<1>2. s = <<h>> \o t
  <2>1. s \in [1 .. Len(s) -> S] /\ \A i \in 1 .. Len(t) : t[i] = s[i + 1]
    BY LenProperties, HeadTailProperties
  <2>2. /\ <<h>> \o t \in Seq(S) /\ Len(<<h>> \o t) = Len(s)
        /\ \A i \in 1 .. Len(s) : (<<h>> \o t)[i] = IF i <= 1 THEN h ELSE t[i - 1]
    <3>1. <<h>> \in Seq(S) /\ Len(<<h>>) = 1 /\ <<h>>[1] = h
      BY <1>1
    <3> QED
      BY <1>1, <3>1, ConcatProperties
  <2>3. s[1] = h
    OBVIOUS
  <2>4. \A i \in 1 .. Len(s) : s[i] = (<<h>> \o t)[i]
    BY <1>1, <2>1, <2>2, <2>3
  <2> QED
    BY <1>1, <2>2, <2>4, SeqEqual
<1> HIDE DEF h, t
<1>3. /\ ToSet(s) = {h} \cup ToSet(t)
      /\ IsInjective(s) <=> IsInjective(t) /\ h \notin ToSet(t)
  BY <1>1, <1>2, ConsSet
<1> QED
  BY <1>1, <1>3 DEF h, t

(***************************************************************************)
(* Counters modulo Word, and how many blocks of a page are not free.       *)
(***************************************************************************)

\* Adding to a counter that wraps around is adding to what it stands for.
LEMMA ModAdd ==
  ASSUME NEW a \in Int, NEW c \in Int
  PROVE  ((a % Word) + c) % Word = (a + c) % Word
<1>1. Word \in Nat \ {0}
  BY MemAssumption, FS_CardinalityType
<1> DEFINE q == a \div Word
           d == a % Word
           x == d + c
           y == x \div Word
           z == x % Word
<1>2. q \in Int /\ d \in 0 .. Word - 1 /\ a = Word * q + d
  BY <1>1
<1>3. y \in Int /\ z \in 0 .. Word - 1 /\ x = Word * y + z
  BY <1>1, <1>2
<1>4. a + c = Word * (q + y) + z
  BY <1>1, <1>2, <1>3
<1> HIDE DEF q, d, x, y, z
<1>5. (Word * (q + y) + z) % Word = z
  BY <1>1, <1>2, <1>3
<1> QED
  BY <1>4, <1>5 DEF z, x, d

\* The two counters of a page stand for all blocks but x.
Counts(empty, remote, x) == (empty + remote) % Word = (NumBlocks - x) % Word

\* One of the counters changes by as much as what their sum counts.
LEMMA CountStep ==
  ASSUME NEW a \in Int, NEW b \in Int, NEW k \in Int, NEW x \in Int, Counts(a, b, x)
  PROVE  Counts((a + k) % Word, b, x - k) /\ Counts(b, (a + k) % Word, x - k)
<1> DEFINE y == NumBlocks - x
           z == a + b
           d == a + k
<1>1. y \in Int /\ z \in Int /\ d \in Int /\ z % Word = y % Word
  BY MemAssumption DEF Counts
<1>2. y + k = NumBlocks - (x - k) /\ z + k = d + b
  BY MemAssumption
<1> HIDE DEF y, z, d
<1>3. d % Word \in Int
  BY <1>1, MemAssumption, FS_CardinalityType
<1>4. (d % Word) + b = b + (d % Word)
  BY <1>3
<1>5. ((d % Word) + b) % Word = (d + b) % Word
  BY <1>1, ModAdd
<1>6. (z + k) % Word = ((z % Word) + k) % Word /\ (y + k) % Word = ((y % Word) + k) % Word
  BY <1>1, ModAdd
<1>7. ((d % Word) + b) % Word = (y + k) % Word
  BY <1>1, <1>2, <1>5, <1>6
<1> QED
  BY <1>2, <1>4, <1>7 DEF d, Counts

\* A block is handed out, or becomes free.
LEMMA CountDown ==
  ASSUME NEW a \in Int, NEW b \in Int, NEW x \in Int, Counts(a, b, x)
  PROVE  Counts((a - 1) % Word, b, x + 1)
<1> DEFINE k == -1
<1>1. k \in Int /\ a + k = a - 1 /\ x - k = x + 1
  OBVIOUS
<1> HIDE DEF k
<1>2. Counts((a + k) % Word, b, x - k)
  BY <1>1, CountStep
<1> QED
  BY <1>1, <1>2

\* A block is freed by its owner, or counted by the ES that freed it remotely.
LEMMA CountUp ==
  ASSUME NEW a \in Int, NEW b \in Int, NEW x \in Int, Counts(a, b, x)
  PROVE  Counts((a + 1) % Word, b, x - 1) /\ Counts(a, (b + 1) % Word, x - 1)
<1> DEFINE k == 1
<1>1. k \in Int /\ Counts(b, a, x)
  BY DEF Counts
<1> HIDE DEF k
<1>2. Counts((a + k) % Word, b, x - k) /\ Counts(a, (b + k) % Word, x - k)
  BY <1>1, CountStep
<1> QED
  BY <1>2 DEF k

\* What one counter loses the other one gets.
LEMMA CountMove ==
  ASSUME NEW a \in Int, NEW b \in Int, NEW t \in Int, NEW x \in Int, Counts(a, b, x)
  PROVE  Counts((a + t) % Word, (b - t) % Word, x)
<1> DEFINE d == (a + t) % Word
           y == x - t
           k == -t
<1>1. d \in Int /\ y \in Int /\ k \in Int /\ b + k = b - t /\ y - k = x
  BY MemAssumption, FS_CardinalityType
<1>2. Counts(b, d, y)
  BY CountStep
<1> HIDE DEF d, y, k
<1>3. Counts(d, (b + k) % Word, y - k)
  BY <1>1, <1>2, CountStep
<1> QED
  BY <1>1, <1>3 DEF d

\* How many blocks of a page are in use or on their way to its second list.
Busy(p) == Cardinality(UsedOf(p)) + Cardinality(Freeing(p, "push"))
             + Cardinality(Freeing(p, "count"))

NotUsed(p) ==
  UsedOf(p) = {} /\ Freeing(p, "push") = {} /\ Freeing(p, "count") = {}

\* These sets are finite, and too small for Word to hide a block.
LEMMA BusyBound ==
  ASSUME NEW p \in Page
  PROVE  /\ IsFiniteSet(UsedOf(p)) /\ Cardinality(UsedOf(p)) \in Nat
         /\ \A l \in {"push", "count"} :
              IsFiniteSet(Freeing(p, l)) /\ Cardinality(Freeing(p, l)) \in Nat
         /\ Busy(p) \in Nat /\ Busy(p) < Word
         /\ Busy(p) = 0 <=> NotUsed(p)
<1> DEFINE U == UsedOf(p)
           F == Freeing(p, "push")
           C == Freeing(p, "count")
<1>1. IsFiniteSet(Blocks(p)) /\ Cardinality(Blocks(p)) = NumBlocks
  <2>1. IsFiniteSet({p}) /\ Cardinality({p}) = 1
    BY FS_Singleton
  <2>2. IsFiniteSet(1 .. NumBlocks) /\ Cardinality(1 .. NumBlocks) = NumBlocks
    BY MemAssumption, FS_Interval
  <2> DEFINE A == {p}
             B == 1 .. NumBlocks
  <2> HIDE DEF A, B
  <2>3. IsFiniteSet(A \X B) /\ Cardinality(A \X B) = Cardinality(A) * Cardinality(B)
    BY <2>1, <2>2, FS_Product, Zenon DEF A, B
  <2>4. Cardinality(A) * Cardinality(B) = NumBlocks
    BY <2>1, <2>2, MemAssumption DEF A, B
  <2> QED
    BY <2>3, <2>4 DEF A, B, Blocks
<1>2. U \in SUBSET Blocks(p)
  BY DEF UsedOf
<1>3. IsFiniteSet(U) /\ Cardinality(U) \in Nat /\ Cardinality(U) <= NumBlocks
  BY <1>1, <1>2, FS_Subset, FS_CardinalityType
<1>4. IsFiniteSet(MemXstream) /\ F \in SUBSET MemXstream /\ C \in SUBSET MemXstream /\ F \cap C = {}
  BY MemAssumption DEF Freeing
<1>5. /\ IsFiniteSet(F) /\ Cardinality(F) \in Nat
      /\ IsFiniteSet(C) /\ Cardinality(C) \in Nat
  BY <1>4, FS_Subset, FS_CardinalityType
<1>6. Cardinality(F) + Cardinality(C) <= Cardinality(MemXstream)
  <2>1. Cardinality(F \cup C) = Cardinality(F) + Cardinality(C) - Cardinality(F \cap C)
    BY <1>5, FS_Union
  <2>2. Cardinality(F \cap C) = 0
    BY <1>4, FS_EmptySet
  <2>3. Cardinality(F \cup C) <= Cardinality(MemXstream)
    BY <1>4, FS_Subset
  <2> QED
    BY <1>5, <2>1, <2>2, <2>3
<1>7. Busy(p) \in Nat /\ Busy(p) < Word
  <2>1. Cardinality(MemXstream) \in Nat /\ NumBlocks \in Nat /\ Word \in Nat
        /\ Word > NumBlocks + Cardinality(MemXstream)
    BY MemAssumption, FS_CardinalityType
  <2> QED
    BY <1>3, <1>5, <1>6, <2>1 DEF Busy
<1>8. Busy(p) = 0 <=> Cardinality(U) = 0 /\ Cardinality(F) = 0 /\ Cardinality(C) = 0
  BY <1>3, <1>5 DEF Busy
<1>9. Busy(p) = 0 <=> NotUsed(p)
  BY <1>3, <1>5, <1>8, FS_EmptySet DEF NotUsed
<1> QED
  BY <1>3, <1>5, <1>7, <1>9

(***************************************************************************)
(* The inductive invariant.  That a block is handed out once rests on a    *)
(* new page having no blocks in use, which rests on the page having been   *)
(* unmapped unused, which rests on its counters.                           *)
(***************************************************************************)

\* The blocks that an ES is about to link in the second list of page p.
Hands(p) == {blk[e] : e \in Freeing(p, "push")}

\* Of a mapped page: its lists, and its counters.
ListsOK(p) ==
  /\ IsInjective(head[p]) /\ IsInjective(free[p])
  /\ ToSet(head[p]) \cap ToSet(free[p]) = {}
  /\ ToSet(head[p]) \cup ToSet(free[p]) \subseteq Blocks(p) \ (UsedOf(p) \cup Hands(p))
  /\ UsedOf(p) \cap Hands(p) = {}
  /\ \A e, f \in Freeing(p, "push") : blk[e] = blk[f] => e = f

CountOK(p) == Counts(numEmpty[p], numRemote[p], Busy(p))

PageInv(p) ==
  /\ p \in Mapped => ListsOK(p) /\ CountOK(p)
  /\ p \notin Mapped => NotUsed(p)

\* The page that an ES works on is its own; at its end, it is the first one.
TakePC == {"take", "take_sub", "take_head"}
Place(e) == IF mpc[e] \in TakePC THEN back[e] ELSE mpc[e]

LocalInv(e) ==
  /\ mpc[e] \in {"push", "count"} => blk[e] \in Block
  /\ Place(e) \in {"scan", "adopted", "ready"} => cur[e] \in ToSet(pages[e])
  /\ Place(e) \in {"end_free", "end_keep"} => pages[e] # <<>> /\ cur[e] = Head(pages[e])

\* All stacks are in stack pages that are mapped.
StacksMapped ==
  /\ \A e \in MemXstream : \A s \in ToSet(stacks[e]) : s[1] \in DOMAIN firstPos
  /\ \A s \in ToSet(globalStacks) \cup usedStacks : s[1] \in DOMAIN firstPos

StackInv == StackTypes /\ StacksMapped /\ StacksOnce

IInv ==
  /\ BlockTypes /\ LocalTypes
  /\ \A p \in Page : PageInv(p)
  /\ \A e \in MemXstream : LocalInv(e)
  /\ StackInv

\* A page that a step does not touch.
LEMMA PageSame ==
  ASSUME NEW p \in Page, PageInv(p),
         head'[p] = head[p], free'[p] = free[p],
         numEmpty'[p] = numEmpty[p], numRemote'[p] = numRemote[p],
         UsedOf(p)' = UsedOf(p),
         \A l \in {"push", "count"} : Freeing(p, l)' = Freeing(p, l),
         \A e \in Freeing(p, "push") : blk'[e] = blk[e],
         p \in Mapped' <=> p \in Mapped
  PROVE  PageInv(p)'
<1>1. Hands(p)' = Hands(p)
  BY DEF Hands
<1>2. Busy(p)' = Busy(p) /\ NotUsed(p)' = NotUsed(p)
  BY DEF Busy, NotUsed
<1>3. ListsOK(p) => ListsOK(p)'
  BY <1>1 DEF ListsOK
<1>4. CountOK(p) => CountOK(p)'
  BY <1>2 DEF CountOK
<1> QED
  BY <1>2, <1>3, <1>4 DEF PageInv

\* A step of an ES changes what is local to it only.
LEMMA LocalStep ==
  ASSUME NEW e \in MemXstream, \A f \in MemXstream : LocalInv(f),
         \A f \in MemXstream \ {e} : /\ mpc'[f] = mpc[f] /\ blk'[f] = blk[f] /\ cur'[f] = cur[f]
                                  /\ back'[f] = back[f] /\ pages'[f] = pages[f],
         LocalInv(e)'
  PROVE  \A f \in MemXstream : LocalInv(f)'
<1>1. ASSUME NEW f \in MemXstream \ {e} PROVE LocalInv(f)'
  <2>1. Place(f)' = Place(f)
    BY DEF Place
  <2> QED
    BY <2>1 DEF LocalInv
<1> QED
  BY <1>1

\* A step that is neither in nor at the end of a remote free leaves these alone.
LEMMA FreeingSame ==
  ASSUME LocalTypes, NEW e \in MemXstream, NEW l \in MemPC,
         mpc' = [mpc EXCEPT ![e] = l], blk' = blk,
         mpc[e] \notin {"push", "count"}, l \notin {"push", "count"}
  PROVE  \A p \in Page, k \in {"push", "count"} : Freeing(p, k)' = Freeing(p, k)
<1>1. \A f \in MemXstream : mpc'[f] = IF f = e THEN l ELSE mpc[f]
  BY DEF LocalTypes
<1> QED
  BY <1>1 DEF Freeing

\* A step that touches no page, and maps and unmaps none.
LEMMA QuietStep ==
  ASSUME IInv, NEW e \in MemXstream, NEW l \in MemPC,
         mpc' = [mpc EXCEPT ![e] = l], blk' = blk,
         mpc[e] \notin {"push", "count"}, l \notin {"push", "count"},
         UNCHANGED <<head, free, numEmpty, numRemote, used>>, Mapped' = Mapped
  PROVE  \A p \in Page : PageInv(p)'
<1>1. \A p \in Page, k \in {"push", "count"} : Freeing(p, k)' = Freeing(p, k)
  BY FreeingSame DEF IInv
<1>2. \A p \in Page : UsedOf(p)' = UsedOf(p)
  BY DEF UsedOf
<1> QED
  BY <1>1, <1>2, PageSame DEF IInv

\* A page is mapped if it is in a list.
Linked(p) ==
  \/ \E f \in MemXstream : p \in ToSet(pages[f]) \/ p \in ToSet(kept[f])
  \/ p \in ToSet(globalPages)

\* The same of Mapped, before and after a step.
LEMMA MappedLinked ==
  /\ \A p : p \in Mapped <=> Linked(p)
  /\ \A p : p \in Mapped' <=> Linked(p)'
<1> DEFINE lists(f) == ToSet(pages[f]) \cup ToSet(kept[f])
           mine == UNION {lists(f) : f \in MemXstream}
<1>1. Mapped = ToSet(globalPages) \cup mine
  BY DEF Mapped
<1>2. Mapped' = ToSet(globalPages') \cup mine'
  BY DEF Mapped
<1>3. \A p : p \in mine <=> \E f \in MemXstream : p \in lists(f)
  OBVIOUS
<1>4. \A p : p \in mine' <=> \E f \in MemXstream : p \in lists(f)'
  OBVIOUS
<1> QED
  BY <1>1, <1>2, <1>3, <1>4 DEF Linked

\* A step that leaves the stacks alone.
LEMMA StackSame ==
  ASSUME StackInv, UNCHANGED stackVars
  PROVE  StackInv'
<1> USE DEF stackVars
<1>1. StackTypes'
  BY DEF StackInv, StackTypes
<1>2. StacksMapped'
  BY DEF StackInv, StacksMapped
<1>3. StacksOnce'
  BY DEF StackInv, StacksOnce
<1> QED
  BY <1>1, <1>2, <1>3 DEF StackInv

(***************************************************************************)
(* The steps of ABTI_mem_alloc_task that find a page.                      *)
(***************************************************************************)

\* The type of the first page of a list.
LEMMA FirstPage ==
  ASSUME NEW list \in Seq(Page), list # <<>>
  PROVE  /\ Head(list) \in Page /\ Head(list) \in ToSet(list)
         /\ Tail(list) \in Seq(Page) /\ ToSet(list) = {Head(list)} \cup ToSet(Tail(list))
BY TailSet

\* The first page of the ES is looked at, or the global list.
LEMMA AllocTaskKeeps ==
  ASSUME IInv, NEW e \in MemXstream, AllocTask(e)
  PROVE  IInv'
<1> USE DEF AllocTask, Idle, Spend, MemGoto, taskVars, pageVars, stackVars
<1>1. pages[e] \in Seq(Page)
  BY DEF IInv, BlockTypes
<1>2. PICK l \in {"global", "scan"} :
         /\ mpc' = [mpc EXCEPT ![e] = l]
         /\ l = "scan" => pages[e] # <<>> /\ cur' = [cur EXCEPT ![e] = Head(pages[e])]
         /\ l = "global" => cur' = cur
  OBVIOUS
<1>3. BlockTypes'
  BY DEF IInv, BlockTypes
<1>4. LocalTypes'
  <2>1. cur' \in [MemXstream -> Page \cup {NoPage}]
    BY <1>1, <1>2, FirstPage, ZenonT(30) DEF IInv, LocalTypes
  <2>2. mpc' \in [MemXstream -> MemPC]
    BY <1>2 DEF IInv, LocalTypes, MemPC
  <2>3. budget' \in [{"tasks", "threads", "ends"} -> Nat]
    BY DEF IInv, LocalTypes
  <2> QED
    BY <2>1, <2>2, <2>3 DEF IInv, LocalTypes
<1>5. \A p \in Page : PageInv(p)'
  <2>1. Mapped' = Mapped
    BY DEF Mapped
  <2> QED
    BY <1>2, <2>1, QuietStep DEF IInv, LocalTypes, MemPC
<1>6. \A f \in MemXstream : LocalInv(f)'
  <2>1. LocalInv(e)'
    BY <1>1, <1>2, FirstPage DEF LocalInv, Place, TakePC, IInv, LocalTypes
  <2>2. \A f \in MemXstream \ {e} : mpc'[f] = mpc[f] /\ cur'[f] = cur[f]
    BY <1>2 DEF IInv, LocalTypes
  <2> QED
    BY <2>1, <2>2, LocalStep DEF IInv
<1>7. StackInv'
  BY StackSame DEF IInv
<1> QED
  BY <1>3, <1>4, <1>5, <1>6, <1>7 DEF IInv

\* The read of the global list without its lock changes nothing.
LEMMA CheckGlobalKeeps ==
  ASSUME IInv, NEW e \in MemXstream, CheckGlobal(e)
  PROVE  IInv'
<1> USE DEF CheckGlobal, MemGoto, taskVars, pageVars, stackVars
<1>1. PICK l \in {"adopt", "new"} : mpc' = [mpc EXCEPT ![e] = l]
  OBVIOUS
<1>2. BlockTypes'
  BY DEF IInv, BlockTypes
<1>3. LocalTypes'
  BY <1>1 DEF IInv, LocalTypes, MemPC
<1>4. \A p \in Page : PageInv(p)'
  <2>1. Mapped' = Mapped
    BY DEF Mapped
  <2> QED
    BY <1>1, <2>1, QuietStep DEF IInv, LocalTypes, MemPC
<1>5. \A f \in MemXstream : LocalInv(f)'
  <2>1. LocalInv(e)'
    BY <1>1 DEF LocalInv, Place, TakePC, IInv, LocalTypes
  <2>2. \A f \in MemXstream \ {e} : mpc'[f] = mpc[f]
    BY <1>1 DEF IInv, LocalTypes
  <2> QED
    BY <2>1, <2>2, LocalStep DEF IInv
<1>6. StackInv'
  BY StackSame DEF IInv
<1> QED
  BY <1>2, <1>3, <1>4, <1>5, <1>6 DEF IInv

\* A page goes from the global list to the ES: it stays mapped.
LEMMA TakeGlobalPageKeeps ==
  ASSUME IInv, NEW e \in MemXstream, TakeGlobalPage(e)
  PROVE  IInv'
<1> USE DEF TakeGlobalPage, MemGoto, stackVars
<1>1. CASE globalPages = <<>>
  <2>1. BlockTypes'
    BY <1>1 DEF IInv, BlockTypes
  <2>2. LocalTypes'
    BY <1>1 DEF IInv, LocalTypes, MemPC
  <2>3. \A p \in Page : PageInv(p)'
    <3>1. Mapped' = Mapped
      BY <1>1 DEF Mapped
    <3>2. "new" \in MemPC
      BY DEF MemPC
    <3> QED
      BY <1>1, <3>1, <3>2, QuietStep
  <2>4. \A f \in MemXstream : LocalInv(f)'
    <3>1. LocalInv(e)'
      BY <1>1 DEF LocalInv, Place, TakePC, IInv, LocalTypes
    <3>2. \A f \in MemXstream \ {e} : mpc'[f] = mpc[f]
      BY <1>1 DEF IInv, LocalTypes
    <3> QED
      BY <1>1, <3>1, <3>2, LocalStep DEF IInv
  <2>5. StackInv'
    BY StackSame DEF IInv
  <2> QED
    BY <2>1, <2>2, <2>3, <2>4, <2>5 DEF IInv
<1>2. CASE globalPages # <<>>
  <2> DEFINE p == Head(globalPages)
             rest == Tail(globalPages)
             mine == <<p>> \o pages[e]
  <2>1. /\ p \in Page /\ rest \in Seq(Page)
        /\ ToSet(globalPages) = {p} \cup ToSet(rest)
    BY <1>2, FirstPage DEF IInv, BlockTypes
  <2>2. /\ pages[e] \in Seq(Page) /\ mine \in Seq(Page)
        /\ ToSet(mine) = {p} \cup ToSet(pages[e])
    BY <2>1, ConsSet, SMTT(30) DEF IInv, BlockTypes
  <2>3. /\ globalPages' = rest /\ owner' = [owner EXCEPT ![p] = e]
        /\ pages' = [pages EXCEPT ![e] = mine] /\ cur' = [cur EXCEPT ![e] = p]
        /\ mpc' = [mpc EXCEPT ![e] = "adopted"]
    BY <1>2 DEF AddPage
  <2> HIDE DEF p, rest, mine
  <2>4. BlockTypes'
    BY <2>1, <2>2, <2>3 DEF IInv, BlockTypes
  <2>5. LocalTypes'
    BY <2>1, <2>3 DEF IInv, LocalTypes, MemPC
  <2>6. \A q \in Page : PageInv(q)'
    <3>1. /\ \A f \in MemXstream : ToSet(pages'[f]) =
                 IF f = e THEN {p} \cup ToSet(pages[f]) ELSE ToSet(pages[f])
      BY <2>2, <2>3 DEF IInv, BlockTypes
    <3>2. ToSet(globalPages) = {p} \cup ToSet(globalPages')
      BY <2>1, <2>3
    <3>3. Mapped' = Mapped
      <4>1. \A q : Linked(q) <=> Linked(q)'
        <5>1. kept' = kept
          OBVIOUS
        <5> QED
          BY <3>1, <3>2, <5>1 DEF Linked
      <4> QED
        BY <4>1, MappedLinked
    <3>4. "adopted" \in MemPC
      BY DEF MemPC
    <3> QED
      BY <2>3, <3>3, <3>4, QuietStep
  <2>7. \A f \in MemXstream : LocalInv(f)'
    <3>1. mpc'[e] = "adopted" /\ cur'[e] = p /\ pages'[e] = mine
      BY <2>3 DEF IInv, LocalTypes, BlockTypes
    <3>2. LocalInv(e)'
      BY <2>2, <3>1 DEF LocalInv, Place, TakePC
    <3>3. \A f \in MemXstream \ {e} :
            mpc'[f] = mpc[f] /\ cur'[f] = cur[f] /\ pages'[f] = pages[f]
      BY <2>3 DEF IInv, LocalTypes, BlockTypes
    <3> QED
      BY <3>2, <3>3, LocalStep DEF IInv
  <2>8. StackInv'
    BY StackSame DEF IInv
  <2> QED
    BY <2>4, <2>5, <2>6, <2>7, <2>8 DEF IInv
<1> QED
  BY <1>1, <1>2

\* The ES that adopted a page looks at its second list.
LEMMA AdoptedKeeps ==
  ASSUME IInv, NEW e \in MemXstream, Adopted(e)
  PROVE  IInv'
<1> USE DEF Adopted, MemGoto, taskVars, pageVars, stackVars
<1>1. PICK l \in {"take", "ready"} : mpc' = [mpc EXCEPT ![e] = l]
  OBVIOUS
<1>2. BlockTypes'
  BY DEF IInv, BlockTypes
<1>3. LocalTypes'
  BY <1>1 DEF IInv, LocalTypes, MemPC
<1>4. \A p \in Page : PageInv(p)'
  <2>1. Mapped' = Mapped
    BY DEF Mapped
  <2> QED
    BY <1>1, <2>1, QuietStep DEF IInv, LocalTypes, MemPC
<1>5. \A f \in MemXstream : LocalInv(f)'
  <2>1. mpc'[e] = l /\ back'[e] = "ready"
    BY <1>1 DEF IInv, LocalTypes
  <2>2. cur[e] \in ToSet(pages[e])
    BY DEF IInv, LocalInv, Place, TakePC
  <2>3. LocalInv(e)'
    BY <1>1, <2>1, <2>2 DEF LocalInv, Place, TakePC
  <2>4. \A f \in MemXstream \ {e} : mpc'[f] = mpc[f] /\ back'[f] = back[f]
    BY <1>1 DEF IInv, LocalTypes
  <2> QED
    BY <2>3, <2>4, LocalStep DEF IInv
<1>6. StackInv'
  BY StackSame DEF IInv
<1> QED
  BY <1>2, <1>3, <1>4, <1>5, <1>6 DEF IInv

\* What is left to show of a step of an ES that has nothing to do with stacks.
LEMMA MemStepKeeps ==
  ASSUME IInv, NEW e \in MemXstream, BlockTypes', LocalTypes', UNCHANGED stackVars,
         \A p \in Page : PageInv(p)',
         \A f \in MemXstream \ {e} : /\ mpc'[f] = mpc[f] /\ blk'[f] = blk[f] /\ cur'[f] = cur[f]
                                  /\ back'[f] = back[f] /\ pages'[f] = pages[f],
         LocalInv(e)'
  PROVE  IInv'
<1>1. \A f \in MemXstream : LocalInv(f)'
  BY LocalStep DEF IInv
<1>2. StackInv'
  BY StackSame DEF IInv
<1> QED
  BY <1>1, <1>2 DEF IInv

(***************************************************************************)
(* Handing out a block.                                                    *)
(***************************************************************************)

\* The free list that a block is taken from was one without the blocks in use.
LEMMA HandOutPages ==
  ASSUME IInv, NEW e \in MemXstream, NEW p \in ToSet(pages[e]), head[p] # <<>>,
         mpc[e] \notin {"push", "count"}, HandOut(e, p),
         UNCHANGED <<free, numRemote, pages, globalPages, kept, blk>>
  PROVE  /\ p \in Page
         /\ head' \in [Page -> Seq(Block)] /\ numEmpty' \in [Page -> 0 .. Word - 1]
         /\ used' \subseteq Block
         /\ \A q \in Page : PageInv(q)'
<1> DEFINE b == Head(head[p])
           rest == Tail(head[p])
<1>1. p \in Page
  BY ToSetType DEF IInv, BlockTypes
<1>2. /\ head[p] \in Seq(Block) /\ free[p] \in Seq(Block)
      /\ numEmpty[p] \in Int /\ numRemote[p] \in Int /\ Word \in Nat \ {0}
  BY <1>1, MemAssumption, FS_CardinalityType DEF IInv, BlockTypes
<1>3. p \in Mapped
  BY MappedLinked DEF Linked
<1>4. ListsOK(p) /\ CountOK(p)
  BY <1>1, <1>3 DEF IInv, PageInv
<1>5. /\ b \in Block /\ rest \in Seq(Block)
      /\ ToSet(head[p]) = {b} \cup ToSet(rest)
      /\ IsInjective(rest) /\ b \notin ToSet(rest)
  BY <1>2, <1>4, TailSet DEF ListsOK
<1>6. /\ used' = used \cup {b} /\ head' = [head EXCEPT ![p] = rest]
      /\ numEmpty' = [numEmpty EXCEPT ![p] = (numEmpty[p] - 1) % Word]
      /\ mpc' = [mpc EXCEPT ![e] = "idle"]
  BY DEF HandOut, MemGoto
<1> HIDE DEF b, rest
<1>7. b \in Blocks(p) /\ b \notin UsedOf(p) /\ b \notin Hands(p)
  BY <1>4, <1>5 DEF ListsOK
<1>8. /\ head' \in [Page -> Seq(Block)] /\ numEmpty' \in [Page -> 0 .. Word - 1]
      /\ used' \subseteq Block
  BY <1>1, <1>2, <1>5, <1>6 DEF IInv, BlockTypes
<1>9. \A q \in Page, k \in {"push", "count"} : Freeing(q, k)' = Freeing(q, k)
  <2>1. "idle" \in MemPC
    BY DEF MemPC
  <2> QED
    BY <1>6, <2>1, FreeingSame DEF IInv
<1>10. \A q \in Page : q \in Mapped' <=> q \in Mapped
  BY DEF Mapped
<1>11. UsedOf(p)' = UsedOf(p) \cup {b}
  BY <1>6, <1>7 DEF UsedOf, Blocks
<1>12. ASSUME NEW q \in Page, q # p PROVE PageInv(q)'
  <2>1. UsedOf(q)' = UsedOf(q)
    BY <1>6, <1>7, <1>12 DEF UsedOf, Blocks
  <2> QED
    BY <1>6, <1>9, <1>10, <1>12, <2>1, PageSame DEF IInv, BlockTypes
<1>13. ListsOK(p)'
  <2>1. head'[p] = rest /\ Hands(p)' = Hands(p)
    BY <1>1, <1>6, <1>9 DEF Hands, IInv, BlockTypes
  <2>2. ToSet(rest) \cap ToSet(free[p]) = {}
    BY <1>4, <1>5 DEF ListsOK
  <2>3. b \notin ToSet(free[p])
    BY <1>4, <1>5 DEF ListsOK
  <2> QED
    BY <1>1, <1>4, <1>5, <1>7, <1>9, <1>11, <2>1, <2>2, <2>3 DEF ListsOK
<1>14. CountOK(p)'
  <2>1. Busy(p)' = Busy(p) + 1 /\ Busy(p) \in Int
    <3>1. Cardinality(UsedOf(p)') = Cardinality(UsedOf(p)) + 1
      BY <1>1, <1>7, <1>11, BusyBound, FS_AddElement
    <3> QED
      BY <1>1, <1>9, <3>1, BusyBound DEF Busy
  <2>2. numEmpty'[p] = (numEmpty[p] - 1) % Word /\ numRemote'[p] = numRemote[p]
    BY <1>1, <1>6 DEF IInv, BlockTypes
  <2>3. Counts((numEmpty[p] - 1) % Word, numRemote[p], Busy(p) + 1)
    BY <1>2, <1>4, <2>1, CountDown DEF CountOK
  <2> QED
    BY <2>1, <2>2, <2>3 DEF CountOK
<1> QED
  BY <1>1, <1>3, <1>8, <1>10, <1>12, <1>13, <1>14 DEF PageInv

\* The search hands out a block, stops at a page or goes on to the next one.
LEMMA ScanKeeps ==
  ASSUME IInv, NEW e \in MemXstream, Scan(e)
  PROVE  IInv'
<1> USE DEF stackVars
<1>1. /\ mpc[e] = "scan" /\ cur[e] \in ToSet(pages[e]) /\ cur[e] \in Page
      /\ pages[e] \in Seq(Page)
  BY ToSetType DEF Scan, IInv, LocalInv, Place, TakePC, BlockTypes
<1>2. CASE head[cur[e]] # <<>>
  <2>1. /\ HandOut(e, cur[e]) /\ mpc' = [mpc EXCEPT ![e] = "idle"]
        /\ UNCHANGED <<free, numRemote, owner, pages, globalPages, stackVars, alive, blk,
                       taken, kept, budget, cur, back>>
    BY <1>2 DEF Scan, HandOut, MemGoto
  <2>2. /\ head' \in [Page -> Seq(Block)] /\ numEmpty' \in [Page -> 0 .. Word - 1]
        /\ used' \subseteq Block
        /\ \A q \in Page : PageInv(q)'
    BY <1>1, <1>2, <2>1, HandOutPages
  <2>3. BlockTypes'
    BY <2>1, <2>2 DEF IInv, BlockTypes
  <2>4. LocalTypes'
    BY <2>1 DEF IInv, LocalTypes, MemPC
  <2>5. LocalInv(e)'
    BY <2>1 DEF LocalInv, Place, TakePC, IInv, LocalTypes
  <2>6. \A f \in MemXstream \ {e} : mpc'[f] = mpc[f]
    BY <2>1 DEF IInv, LocalTypes
  <2> QED
    BY <2>1, <2>2, <2>3, <2>4, <2>5, <2>6, MemStepKeeps
<1>3. CASE head[cur[e]] = <<>>
  <2>1. /\ UNCHANGED <<head, numEmpty, used, free, numRemote, owner, pages, globalPages,
                       stackVars, alive, blk, taken, kept, budget>>
        /\ \/ /\ mpc' = [mpc EXCEPT ![e] = "take"]
              /\ back' = [back EXCEPT ![e] = "ready"] /\ cur' = cur
           \/ /\ mpc' = mpc /\ back' = back
              /\ \E p \in Page : HasNextPage(e, p) /\ cur' = [cur EXCEPT ![e] = p]
           \/ mpc' = [mpc EXCEPT ![e] = "global"] /\ back' = back /\ cur' = cur
    BY <1>3 DEF Scan, MemGoto
  <2>2. BlockTypes'
    BY <2>1 DEF IInv, BlockTypes
  <2>3. LocalTypes'
    BY <2>1 DEF IInv, LocalTypes, MemPC
  <2>4. PICK l \in {"take", "scan", "global"} : mpc' = [mpc EXCEPT ![e] = l]
    BY <1>1, <2>1 DEF IInv, LocalTypes
  <2>5. \A p \in Page : PageInv(p)'
    <3>1. Mapped' = Mapped
      BY <2>1 DEF Mapped
    <3> QED
      BY <1>1, <2>1, <2>4, <3>1, QuietStep DEF MemPC
  <2>6. LocalInv(e)'
    <3>1. CASE mpc'[e] = "scan"
      <4>1. PICK p \in Page : HasNextPage(e, p) /\ cur' = [cur EXCEPT ![e] = p]
        BY <2>1, <3>1 DEF IInv, LocalTypes
      <4>2. p \in ToSet(pages[e])
        <5>1. DOMAIN pages[e] = 1 .. Len(pages[e]) /\ Len(pages[e]) \in Nat
          BY <1>1, LenProperties
        <5> QED
          BY <4>1, <5>1 DEF HasNextPage, ToSet
      <4> QED
        BY <2>1, <3>1, <4>1, <4>2 DEF LocalInv, Place, TakePC, IInv, LocalTypes
    <3>2. CASE mpc'[e] # "scan"
      BY <1>1, <2>1, <3>2 DEF LocalInv, Place, TakePC, IInv, LocalTypes
    <3> QED
      BY <3>1, <3>2
  <2>7. \A f \in MemXstream \ {e} : mpc'[f] = mpc[f] /\ cur'[f] = cur[f] /\ back'[f] = back[f]
    BY <2>1 DEF IInv, LocalTypes
  <2> QED
    BY <2>1, <2>2, <2>3, <2>5, <2>6, <2>7, MemStepKeeps
<1> QED
  BY <1>2, <1>3

\* A page that was made ready hands out a block, if it has one.
LEMMA ReadyKeeps ==
  ASSUME IInv, NEW e \in MemXstream, Ready(e)
  PROVE  IInv'
<1> USE DEF stackVars
<1>1. mpc[e] = "ready" /\ cur[e] \in ToSet(pages[e])
  BY DEF Ready, IInv, LocalInv, Place, TakePC
<1>2. CASE head[cur[e]] # <<>>
  <2>1. /\ HandOut(e, cur[e]) /\ mpc' = [mpc EXCEPT ![e] = "idle"]
        /\ UNCHANGED <<free, numRemote, owner, pages, globalPages, stackVars, alive, cur,
                       blk, taken, back, kept, budget>>
    BY <1>2 DEF Ready, HandOut, MemGoto
  <2>2. /\ head' \in [Page -> Seq(Block)] /\ numEmpty' \in [Page -> 0 .. Word - 1]
        /\ used' \subseteq Block
        /\ \A q \in Page : PageInv(q)'
    BY <1>1, <1>2, <2>1, HandOutPages
  <2>3. BlockTypes'
    BY <2>1, <2>2 DEF IInv, BlockTypes
  <2>4. LocalTypes'
    BY <2>1 DEF IInv, LocalTypes, MemPC
  <2>5. LocalInv(e)'
    BY <2>1 DEF LocalInv, Place, TakePC, IInv, LocalTypes
  <2>6. \A f \in MemXstream \ {e} : mpc'[f] = mpc[f]
    BY <2>1 DEF IInv, LocalTypes
  <2> QED
    BY <2>1, <2>2, <2>3, <2>4, <2>5, <2>6, MemStepKeeps
<1>3. CASE head[cur[e]] = <<>>
  <2>1. /\ mpc' = [mpc EXCEPT ![e] = "new"]
        /\ UNCHANGED <<head, numEmpty, used, free, numRemote, owner, pages, globalPages,
                       stackVars, alive, cur, blk, taken, back, kept, budget>>
    BY <1>3 DEF Ready, MemGoto
  <2>2. BlockTypes'
    BY <2>1 DEF IInv, BlockTypes
  <2>3. LocalTypes'
    BY <2>1 DEF IInv, LocalTypes, MemPC
  <2>4. \A p \in Page : PageInv(p)'
    <3>1. Mapped' = Mapped
      BY <2>1 DEF Mapped
    <3> QED
      BY <1>1, <2>1, <3>1, QuietStep DEF MemPC
  <2>5. LocalInv(e)'
    BY <2>1 DEF LocalInv, Place, TakePC, IInv, LocalTypes
  <2>6. \A f \in MemXstream \ {e} : mpc'[f] = mpc[f]
    BY <2>1 DEF IInv, LocalTypes
  <2> QED
    BY <2>1, <2>2, <2>3, <2>4, <2>5, <2>6, MemStepKeeps
<1> QED
  BY <1>2, <1>3

\* A new page: its first block is handed out, all others are in its free list.
LEMMA NewPageKeeps ==
  ASSUME IInv, NEW e \in MemXstream, NewPage(e)
  PROVE  IInv'
<1> USE DEF stackVars
<1>1. PICK p \in Page \ Mapped :
        /\ mpc[e] = "new"
        /\ owner' = [owner EXCEPT ![p] = e]
        /\ head' = [head EXCEPT ![p] = [i \in 1 .. NumBlocks - 1 |-> <<p, i + 1>>]]
        /\ free' = [free EXCEPT ![p] = <<>>]
        /\ numEmpty' = [numEmpty EXCEPT ![p] = NumBlocks - 1]
        /\ numRemote' = [numRemote EXCEPT ![p] = 0]
        /\ used' = used \cup {<<p, 1>>}
        /\ AddPage(e, p)
        /\ MemGoto(e, "idle")
        /\ UNCHANGED <<globalPages, stackVars, alive, blk, taken, back, kept, budget>>
  BY DEF NewPage
<1> DEFINE rest == [i \in 1 .. NumBlocks - 1 |-> <<p, i + 1>>]
           mine == <<p>> \o pages[e]
           b == <<p, 1>>
<1>2. /\ NumBlocks \in Nat \ {0} /\ NumBlocks - 1 \in 0 .. Word - 1 /\ 0 \in 0 .. Word - 1
      /\ Word \in Nat \ {0}
  BY MemAssumption, FS_CardinalityType
<1>3. /\ rest \in Seq(Block) /\ IsInjective(rest)
      /\ ToSet(rest) \subseteq Blocks(p) \ {b}
  <2>1. \A i \in 1 .. NumBlocks - 1 : <<p, i + 1>> \in Blocks(p) \ {b}
    BY <1>2 DEF Blocks
  <2>2. rest \in [1 .. NumBlocks - 1 -> Block]
    BY <2>1 DEF Blocks, Block
  <2>3. rest \in Seq(Block)
    BY <1>2, <2>2
  <2>4. IsInjective(rest)
    BY <1>2 DEF IsInjective
  <2>5. ToSet(rest) \subseteq Blocks(p) \ {b}
    BY <2>1 DEF ToSet
  <2> QED
    BY <2>3, <2>4, <2>5
<1>4. /\ pages[e] \in Seq(Page) /\ mine \in Seq(Page)
      /\ ToSet(mine) = {p} \cup ToSet(pages[e])
  BY ConsSet DEF IInv, BlockTypes
<1>5. /\ pages' = [pages EXCEPT ![e] = mine] /\ cur' = [cur EXCEPT ![e] = p]
      /\ mpc' = [mpc EXCEPT ![e] = "idle"]
  BY <1>1 DEF AddPage, MemGoto
<1>6. /\ head'[p] = rest /\ free'[p] = <<>>
      /\ numEmpty'[p] = NumBlocks - 1 /\ numRemote'[p] = 0
  BY <1>1 DEF IInv, BlockTypes
<1>7. b \in Block /\ b \in Blocks(p) /\ used' = used \cup {b}
  BY <1>1, <1>2 DEF Block, Blocks
<1>8. NotUsed(p)
  BY DEF IInv, PageInv
<1>9. <<>> \in Seq(Block) /\ ToSet(<<>>) = {} /\ IsInjective(<<>>)
  BY DEF ToSet, IsInjective
<1>10. head' = [head EXCEPT ![p] = rest]
  BY <1>1
<1> HIDE DEF rest, mine, b
<1>11. BlockTypes'
  BY <1>1, <1>2, <1>3, <1>4, <1>5, <1>7, <1>9, <1>10, ZenonT(30) DEF IInv, BlockTypes
<1>12. LocalTypes'
  BY <1>1, <1>5 DEF IInv, LocalTypes, MemPC
<1>13. \A q \in Page, k \in {"push", "count"} : Freeing(q, k)' = Freeing(q, k)
  <2>1. "idle" \in MemPC
    BY DEF MemPC
  <2> QED
    BY <1>1, <1>5, <2>1, FreeingSame DEF IInv
<1>14. \A q : q \in Mapped' <=> q \in Mapped \/ q = p
  <2>1. \A f \in MemXstream : ToSet(pages'[f]) =
           IF f = e THEN {p} \cup ToSet(pages[f]) ELSE ToSet(pages[f])
    BY <1>4, <1>5 DEF IInv, BlockTypes
  <2>2. kept' = kept /\ globalPages' = globalPages
    BY <1>1
  <2>3. \A q : Linked(q)' <=> Linked(q) \/ q = p
    BY <2>1, <2>2 DEF Linked
  <2> QED
    BY <2>3, MappedLinked
<1>15. ASSUME NEW q \in Page, q # p PROVE PageInv(q)'
  <2>1. UsedOf(q)' = UsedOf(q)
    BY <1>7, <1>15 DEF UsedOf, Blocks
  <2>2. blk' = blk
    BY <1>1
  <2>3. /\ head'[q] = head[q] /\ free'[q] = free[q]
        /\ numEmpty'[q] = numEmpty[q] /\ numRemote'[q] = numRemote[q]
    BY <1>1, <1>15 DEF IInv, BlockTypes
  <2> QED
    BY <1>13, <1>14, <1>15, <2>1, <2>2, <2>3, PageSame DEF IInv
<1>16. PageInv(p)'
  <2>1. UsedOf(p)' = {b}
    BY <1>7, <1>8 DEF NotUsed, UsedOf
  <2>2. Freeing(p, "push")' = {} /\ Freeing(p, "count")' = {} /\ Hands(p)' = {}
    BY <1>8, <1>13 DEF NotUsed, Hands
  <2>3. ListsOK(p)'
    BY <1>3, <1>6, <1>9, <2>1, <2>2 DEF ListsOK
  <2>4. CountOK(p)'
    <3>1. Cardinality(UsedOf(p)') = 1
      BY <2>1, FS_Singleton
    <3>2. Cardinality(Freeing(p, "push")') = 0 /\ Cardinality(Freeing(p, "count")') = 0
      BY <2>2, FS_EmptySet
    <3>3. Busy(p)' = 1
      BY <3>1, <3>2 DEF Busy
    <3>4. Counts(NumBlocks - 1, 0, 1)
      BY <1>2 DEF Counts
    <3> QED
      BY <1>6, <3>3, <3>4 DEF CountOK
  <2> QED
    BY <1>14, <2>3, <2>4 DEF PageInv
<1>17. LocalInv(e)'
  BY <1>5 DEF LocalInv, Place, TakePC, IInv, LocalTypes
<1>18. \A f \in MemXstream \ {e} : mpc'[f] = mpc[f] /\ cur'[f] = cur[f] /\ pages'[f] = pages[f]
  BY <1>5 DEF IInv, LocalTypes, BlockTypes
<1> QED
  BY <1>1, <1>11, <1>12, <1>15, <1>16, <1>17, <1>18, MemStepKeeps

(***************************************************************************)
(* ABTI_mem_take_free.                                                     *)
(***************************************************************************)

\* The counter of remote frees is read.
LEMMA TakeReadKeeps ==
  ASSUME IInv, NEW e \in MemXstream, TakeRead(e)
  PROVE  IInv'
<1> USE DEF TakeRead, MemGoto, taskVars, pageVars, stackVars
<1>1. cur[e] \in Page
  <2>1. pages[e] \in Seq(Page) /\ back[e] \in {"ready", "end_keep"}
    BY DEF IInv, BlockTypes, LocalTypes
  <2> QED
    BY <2>1, ToSetType, FirstPage DEF IInv, LocalInv, Place, TakePC
<1>2. BlockTypes'
  BY DEF IInv, BlockTypes
<1>3. LocalTypes'
  BY <1>1 DEF IInv, LocalTypes, BlockTypes, MemPC
<1>4. \A p \in Page : PageInv(p)'
  <2>1. Mapped' = Mapped
    BY DEF Mapped
  <2> QED
    BY <2>1, QuietStep DEF MemPC
<1>5. LocalInv(e)'
  BY DEF LocalInv, Place, TakePC, IInv, LocalTypes
<1>6. \A f \in MemXstream \ {e} : mpc'[f] = mpc[f]
  BY DEF IInv, LocalTypes
<1> QED
  BY <1>2, <1>3, <1>4, <1>5, <1>6, MemStepKeeps

\* What is taken off one counter is added to the other.
LEMMA TakeSubKeeps ==
  ASSUME IInv, NEW e \in MemXstream, TakeSub(e)
  PROVE  IInv'
<1> USE DEF TakeSub, MemGoto, stackVars
<1>1. PICK p \in Page : p = cur[e]
  <2>1. pages[e] \in Seq(Page) /\ back[e] \in {"ready", "end_keep"}
    BY DEF IInv, BlockTypes, LocalTypes
  <2> QED
    BY <2>1, ToSetType, FirstPage DEF IInv, LocalInv, Place, TakePC
<1> PICK t \in Int : t = taken[e]
  BY MemAssumption, FS_CardinalityType DEF IInv, LocalTypes
<1>2. /\ numEmpty[p] \in Int /\ numRemote[p] \in Int /\ Word \in Nat \ {0}
  BY <1>1, MemAssumption, FS_CardinalityType DEF IInv, BlockTypes, LocalTypes
<1>3. /\ numRemote' = [numRemote EXCEPT ![p] = (numRemote[p] - t) % Word]
      /\ numEmpty' = [numEmpty EXCEPT ![p] = (numEmpty[p] + t) % Word]
  BY <1>1
<1>4. BlockTypes'
  <2>1. PICK m \in 0 .. Word - 1 : m = (numRemote[p] - t) % Word
    BY <1>2
  <2>2. PICK n \in 0 .. Word - 1 : n = (numEmpty[p] + t) % Word
    BY <1>2
  <2>3. numRemote' = [numRemote EXCEPT ![p] = m] /\ numEmpty' = [numEmpty EXCEPT ![p] = n]
    BY <1>3, <2>1, <2>2
  <2> QED
    BY <2>3, ZenonT(30) DEF IInv, BlockTypes
<1>5. LocalTypes'
  BY DEF IInv, LocalTypes, MemPC
<1>6. \A q \in Page, k \in {"push", "count"} : Freeing(q, k)' = Freeing(q, k)
  BY FreeingSame DEF IInv, MemPC
<1>7. \A q \in Page : UsedOf(q)' = UsedOf(q) /\ (q \in Mapped' <=> q \in Mapped)
  BY DEF UsedOf, Mapped
<1>8. ASSUME NEW q \in Page, q # p PROVE PageInv(q)'
  <2>1. /\ head'[q] = head[q] /\ free'[q] = free[q] /\ blk' = blk
        /\ numEmpty'[q] = numEmpty[q] /\ numRemote'[q] = numRemote[q]
    BY <1>3, <1>8 DEF IInv, BlockTypes
  <2> QED
    BY <1>6, <1>7, <2>1, PageSame DEF IInv
<1>9. PageInv(p)'
  <2>1. ListsOK(p) => ListsOK(p)'
    BY <1>1, <1>6, <1>7 DEF ListsOK, Hands
  <2>2. NotUsed(p) => NotUsed(p)'
    BY <1>1, <1>6, <1>7 DEF NotUsed
  <2>3. CountOK(p) => CountOK(p)'
    <3>1. Busy(p)' = Busy(p) /\ Busy(p) \in Int
      BY <1>1, <1>6, <1>7, BusyBound DEF Busy
    <3>2. /\ numEmpty'[p] = (numEmpty[p] + t) % Word
          /\ numRemote'[p] = (numRemote[p] - t) % Word
      BY <1>1, <1>3 DEF IInv, BlockTypes
    <3> QED
      BY <1>2, <3>1, <3>2, CountMove DEF CountOK
  <2> QED
    BY <1>1, <1>7, <2>1, <2>2, <2>3 DEF IInv, PageInv
<1>10. LocalInv(e)'
  BY DEF LocalInv, Place, TakePC, IInv, LocalTypes
<1>11. \A f \in MemXstream \ {e} : mpc'[f] = mpc[f]
  BY DEF IInv, LocalTypes
<1> QED
  BY <1>4, <1>5, <1>8, <1>9, <1>10, <1>11, MemStepKeeps

\* The second list becomes the first one: its blocks stay in one list.
LEMMA TakeHeadKeeps ==
  ASSUME IInv, NEW e \in MemXstream, TakeHead(e)
  PROVE  IInv'
<1> USE DEF TakeHead, MemGoto, stackVars
<1>1. PICK p \in Page : p = cur[e] /\ back[e] \in {"ready", "end_keep"}
  <2>1. pages[e] \in Seq(Page) /\ back[e] \in {"ready", "end_keep"}
    BY DEF IInv, BlockTypes, LocalTypes
  <2> QED
    BY <2>1, ToSetType, FirstPage DEF IInv, LocalInv, Place, TakePC
<1>2. /\ head' = [head EXCEPT ![p] = free[p]] /\ free' = [free EXCEPT ![p] = <<>>]
      /\ mpc' = [mpc EXCEPT ![e] = back[e]]
  BY <1>1
<1>3. <<>> \in Seq(Block) /\ ToSet(<<>>) = {} /\ IsInjective(<<>>)
  BY DEF ToSet, IsInjective
<1>4. BlockTypes'
  BY <1>1, <1>2, <1>3, SMTT(30) DEF IInv, BlockTypes
<1>5. LocalTypes'
  BY <1>1, <1>2 DEF IInv, LocalTypes, MemPC
<1>6. \A q \in Page, k \in {"push", "count"} : Freeing(q, k)' = Freeing(q, k)
  <2>1. back[e] \in MemPC
    BY <1>1 DEF MemPC
  <2> QED
    BY <1>1, <1>2, <2>1, FreeingSame DEF IInv
<1>7. \A q \in Page : UsedOf(q)' = UsedOf(q) /\ (q \in Mapped' <=> q \in Mapped)
  BY DEF UsedOf, Mapped
<1>8. ASSUME NEW q \in Page, q # p PROVE PageInv(q)'
  <2>1. /\ head'[q] = head[q] /\ free'[q] = free[q] /\ blk' = blk
        /\ numEmpty'[q] = numEmpty[q] /\ numRemote'[q] = numRemote[q]
    BY <1>2, <1>8 DEF IInv, BlockTypes
  <2> QED
    BY <1>6, <1>7, <2>1, PageSame DEF IInv
<1>9. PageInv(p)'
  <2>1. ListsOK(p) => ListsOK(p)'
    <3>1. head'[p] = free[p] /\ free'[p] = <<>>
      BY <1>1, <1>2 DEF IInv, BlockTypes
    <3>2. Hands(p)' = Hands(p) /\ blk' = blk
      BY <1>1, <1>6 DEF Hands
    <3> QED
      BY <1>1, <1>3, <1>6, <1>7, <3>1, <3>2 DEF ListsOK
  <2>2. NotUsed(p) => NotUsed(p)'
    BY <1>1, <1>6, <1>7 DEF NotUsed
  <2>3. CountOK(p) => CountOK(p)'
    BY <1>1, <1>6, <1>7 DEF CountOK, Busy
  <2> QED
    BY <1>1, <1>7, <2>1, <2>2, <2>3 DEF IInv, PageInv
<1>10. LocalInv(e)'
  <2>1. Place(e)' = Place(e)
    BY <1>1, <1>2 DEF Place, TakePC, IInv, LocalTypes
  <2>2. mpc'[e] = back[e]
    BY <1>2 DEF IInv, LocalTypes
  <2> QED
    BY <1>1, <2>1, <2>2 DEF LocalInv, IInv
<1>11. \A f \in MemXstream \ {e} : mpc'[f] = mpc[f]
  BY <1>2 DEF IInv, LocalTypes
<1> QED
  BY <1>4, <1>5, <1>8, <1>9, <1>10, <1>11, MemStepKeeps

(***************************************************************************)
(* Freeing a block.                                                        *)
(***************************************************************************)

\* The owner of its page links it in the first list.
LEMMA FreeLocalKeeps ==
  ASSUME IInv, NEW e \in MemXstream, NEW b \in used, NEW p \in Page, p = PageOf(b),
         mpc[e] = "idle", used' = used \ {b},
         head' = [head EXCEPT ![p] = <<b>> \o head[p]],
         numEmpty' = [numEmpty EXCEPT ![p] = (numEmpty[p] + 1) % Word],
         UNCHANGED <<mpc, blk, free, numRemote, owner, pages, globalPages, stackVars,
                     alive, cur, taken, back, kept, budget>>
  PROVE  IInv'
<1>1. /\ b \in Block /\ b \in Blocks(p) /\ b \in UsedOf(p)
      /\ head[p] \in Seq(Block) /\ free[p] \in Seq(Block)
      /\ numEmpty[p] \in Int /\ numRemote[p] \in Int /\ Word \in Nat \ {0}
  <2>1. b \in Block /\ b \in Blocks(p) /\ b \in UsedOf(p)
    BY DEF IInv, BlockTypes, Block, Blocks, UsedOf, PageOf
  <2>2. Word \in Nat \ {0}
    BY MemAssumption, FS_CardinalityType
  <2> QED
    BY <2>1, <2>2 DEF IInv, BlockTypes
<1>2. p \in Mapped /\ ListsOK(p) /\ CountOK(p)
  BY <1>1 DEF IInv, PageInv, NotUsed
<1>3. PICK list \in Seq(Block) :
        /\ list = <<b>> \o head[p]
        /\ ToSet(list) = {b} \cup ToSet(head[p])
        /\ IsInjective(list)
  <2>1. b \notin ToSet(head[p]) /\ IsInjective(head[p])
    BY <1>1, <1>2 DEF ListsOK
  <2>2. <<b>> \o head[p] \in Seq(Block) /\ IsInjective(<<b>> \o head[p])
        /\ ToSet(<<b>> \o head[p]) = {b} \cup ToSet(head[p])
    BY <1>1, <2>1, ConsSet
  <2> QED
    BY <2>2
<1>4. PICK m \in 0 .. Word - 1 : m = (numEmpty[p] + 1) % Word
  BY <1>1
<1>5. head' = [head EXCEPT ![p] = list] /\ numEmpty' = [numEmpty EXCEPT ![p] = m]
  BY <1>3, <1>4
<1>6. BlockTypes'
  <2>1. BlockTypes
    BY DEF IInv
  <2>2. head' \in [Page -> Seq(Block)] /\ numEmpty' \in [Page -> 0 .. Word - 1]
    BY <1>5, <2>1 DEF BlockTypes
  <2>3. used' \subseteq Block
    BY <2>1 DEF BlockTypes
  <2> QED
    BY ONLY <2>1, <2>2, <2>3, UNCHANGED <<free, numRemote, owner, pages, globalPages, kept>>
       DEF BlockTypes
<1>7. LocalTypes'
  BY DEF IInv, LocalTypes
<1>8. /\ \A q \in Page, k \in {"push", "count"} : Freeing(q, k)' = Freeing(q, k)
      /\ \A q \in Page : Hands(q)' = Hands(q) /\ (q \in Mapped' <=> q \in Mapped)
  BY DEF Freeing, Hands, Mapped
<1>9. ASSUME NEW q \in Page, q # p PROVE PageInv(q)'
  <2>1. UsedOf(q)' = UsedOf(q)
    BY <1>1, <1>9 DEF UsedOf, Blocks
  <2>2. /\ head'[q] = head[q] /\ free'[q] = free[q] /\ blk' = blk
        /\ numEmpty'[q] = numEmpty[q] /\ numRemote'[q] = numRemote[q]
    BY <1>5, <1>9 DEF IInv, BlockTypes
  <2> QED
    BY <1>8, <1>9, <2>1, <2>2, PageSame DEF IInv
<1>10. UsedOf(p)' = UsedOf(p) \ {b}
  BY DEF UsedOf
<1>11. ListsOK(p)'
  <2>1. head'[p] = list /\ free'[p] = free[p]
    BY <1>5 DEF IInv, BlockTypes
  <2>2. b \notin ToSet(free[p]) /\ b \notin Hands(p)
    BY <1>1, <1>2 DEF ListsOK
  <2>3. blk' = blk /\ Freeing(p, "push")' = Freeing(p, "push") /\ Hands(p)' = Hands(p)
    BY <1>8
  <2>4. /\ ToSet(list) \cap ToSet(free[p]) = {}
        /\ ToSet(list) \cup ToSet(free[p]) \subseteq Blocks(p) \ (UsedOf(p)' \cup Hands(p))
    BY <1>1, <1>2, <1>3, <1>10, <2>2 DEF ListsOK
  <2>5. UsedOf(p)' \cap Hands(p) = {}
    BY <1>2, <1>10 DEF ListsOK
  <2> QED
    BY <1>2, <1>3, <2>1, <2>3, <2>4, <2>5 DEF ListsOK
<1>12. CountOK(p)'
  <2>1. Busy(p)' = Busy(p) - 1 /\ Busy(p) \in Int
    <3>1. Cardinality(UsedOf(p)') = Cardinality(UsedOf(p)) - 1
      <4>1. IsFiniteSet(UsedOf(p))
        BY BusyBound
      <4>2. Cardinality(UsedOf(p) \ {b}) = Cardinality(UsedOf(p)) - 1
        BY <1>1, <4>1, FS_RemoveElement, Zenon
      <4> QED
        BY <1>10, <4>2, Zenon
    <3> QED
      BY <1>8, <3>1, BusyBound DEF Busy
  <2>2. numEmpty'[p] = (numEmpty[p] + 1) % Word /\ numRemote'[p] = numRemote[p]
    BY DEF IInv, BlockTypes
  <2>3. Counts((numEmpty[p] + 1) % Word, numRemote[p], Busy(p) - 1)
    BY <1>1, <1>2, <2>1, CountUp DEF CountOK
  <2> QED
    BY <2>1, <2>2, <2>3 DEF CountOK
<1>13. LocalInv(e)'
  BY DEF LocalInv, Place, TakePC, IInv
<1> QED
  BY <1>2, <1>6, <1>7, <1>8, <1>9, <1>11, <1>12, <1>13, MemStepKeeps DEF PageInv

\* Any other ES has it in its hands for a moment.
LEMMA FreeRemoteKeeps ==
  ASSUME IInv, NEW e \in MemXstream, NEW b \in used, NEW p \in Page, p = PageOf(b),
         mpc[e] = "idle", used' = used \ {b},
         blk' = [blk EXCEPT ![e] = b], mpc' = [mpc EXCEPT ![e] = "push"],
         UNCHANGED <<head, numEmpty, free, numRemote, owner, pages, globalPages,
                     stackVars, alive, cur, taken, back, kept, budget>>
  PROVE  IInv'
<1>1. b \in Block /\ b \in Blocks(p) /\ b \in UsedOf(p)
  BY DEF IInv, BlockTypes, Block, Blocks, UsedOf, PageOf
<1>2. p \in Mapped /\ ListsOK(p) /\ CountOK(p)
  BY <1>1 DEF IInv, PageInv, NotUsed
<1>3. BlockTypes'
  BY DEF IInv, BlockTypes
<1>4. LocalTypes'
  BY <1>1 DEF IInv, LocalTypes, MemPC
<1>5. /\ mpc'[e] = "push" /\ blk'[e] = b
      /\ \A f \in MemXstream \ {e} : mpc'[f] = mpc[f] /\ blk'[f] = blk[f]
  BY DEF IInv, LocalTypes
<1>6. \A q \in Page : q \in Mapped' <=> q \in Mapped
  BY DEF Mapped
<1>7. /\ \A q \in Page : Freeing(q, "count")' = Freeing(q, "count")
      /\ \A q \in Page : q # p => Freeing(q, "push")' = Freeing(q, "push")
      /\ Freeing(p, "push")' = Freeing(p, "push") \cup {e} /\ e \notin Freeing(p, "push")
  BY <1>5 DEF Freeing
<1>8. ASSUME NEW q \in Page, q # p PROVE PageInv(q)'
  <2>1. UsedOf(q)' = UsedOf(q)
    BY <1>1, <1>8 DEF UsedOf, Blocks
  <2>2. \A f \in Freeing(q, "push") : blk'[f] = blk[f]
    BY <1>5 DEF Freeing
  <2> QED
    BY <1>6, <1>7, <1>8, <2>1, <2>2, PageSame DEF IInv
<1>9. UsedOf(p)' = UsedOf(p) \ {b}
  BY DEF UsedOf
<1>10. \A f \in Freeing(p, "push") : blk'[f] = blk[f] /\ blk[f] # b
  BY <1>1, <1>2, <1>5 DEF ListsOK, Hands, Freeing
<1>11. Hands(p)' = Hands(p) \cup {b}
  BY <1>5, <1>7, <1>10 DEF Hands
<1>12. ListsOK(p)'
  BY <1>1, <1>2, <1>5, <1>7, <1>9, <1>10, <1>11 DEF ListsOK
<1>13. CountOK(p)'
  <2>1. Cardinality(UsedOf(p)') = Cardinality(UsedOf(p)) - 1
    <3>1. IsFiniteSet(UsedOf(p))
      BY BusyBound
    <3>2. Cardinality(UsedOf(p) \ {b}) = Cardinality(UsedOf(p)) - 1
      BY <1>1, <3>1, FS_RemoveElement, Zenon
    <3> QED
      BY <1>9, <3>2, Zenon
  <2>2. Cardinality(Freeing(p, "push")') = Cardinality(Freeing(p, "push")) + 1
    BY <1>7, BusyBound, FS_AddElement
  <2>3. Busy(p)' = Busy(p)
    BY <1>7, <2>1, <2>2, BusyBound DEF Busy
  <2> QED
    BY <1>2, <2>3 DEF CountOK
<1>14. LocalInv(e)'
  BY <1>1, <1>5 DEF LocalInv, Place, TakePC
<1> QED
  BY <1>2, <1>3, <1>4, <1>5, <1>6, <1>8, <1>12, <1>13, <1>14, MemStepKeeps DEF PageInv

\* A block is freed by the owner of its page or by another ES.
LEMMA FreeTaskKeeps ==
  ASSUME IInv, NEW e \in MemXstream, FreeTask(e)
  PROVE  IInv'
<1>1. PICK b \in used : FreeTask(e)!(b)
  BY DEF FreeTask
<1>2. PICK p \in Page : p = PageOf(b)
  BY DEF IInv, BlockTypes, Block, PageOf
<1>3. CASE owner[p] = e
  BY <1>1, <1>2, <1>3, FreeLocalKeeps DEF Idle
<1>4. CASE owner[p] # e
  BY <1>1, <1>2, <1>4, FreeRemoteKeeps DEF Idle, MemGoto
<1> QED
  BY <1>3, <1>4

\* The block goes from the hands of the ES to the second list.
LEMMA FreePushKeeps ==
  ASSUME IInv, NEW e \in MemXstream, FreePush(e)
  PROVE  IInv'
<1> USE DEF FreePush, MemGoto, stackVars
<1>1. PICK b \in Block : b = blk[e]
  BY DEF IInv, LocalInv
<1>2. PICK p \in Page : p = PageOf(b)
  BY DEF Block, PageOf
<1>3. /\ e \in Freeing(p, "push") /\ e \notin Freeing(p, "count")
      /\ b \in Blocks(p) /\ b \in Hands(p)
      /\ head[p] \in Seq(Block) /\ free[p] \in Seq(Block)
  BY <1>1, <1>2 DEF Freeing, Hands, Block, Blocks, PageOf, IInv, BlockTypes
<1>4. p \in Mapped /\ ListsOK(p) /\ CountOK(p)
  BY <1>3 DEF IInv, PageInv, NotUsed
<1>5. PICK list \in Seq(Block) :
        /\ list = <<b>> \o free[p]
        /\ ToSet(list) = {b} \cup ToSet(free[p])
        /\ IsInjective(list)
  <2>1. b \notin ToSet(free[p]) /\ IsInjective(free[p])
    BY <1>3, <1>4 DEF ListsOK
  <2>2. <<b>> \o free[p] \in Seq(Block) /\ IsInjective(<<b>> \o free[p])
        /\ ToSet(<<b>> \o free[p]) = {b} \cup ToSet(free[p])
    BY <1>3, <2>1, ConsSet
  <2> QED
    BY <2>2
<1>6. free' = [free EXCEPT ![p] = list] /\ mpc' = [mpc EXCEPT ![e] = "count"] /\ blk' = blk
  BY <1>1, <1>2, <1>5
<1>7. BlockTypes'
  BY <1>6 DEF IInv, BlockTypes
<1>8. LocalTypes'
  BY DEF IInv, LocalTypes, MemPC
<1>9. mpc'[e] = "count" /\ \A f \in MemXstream \ {e} : mpc'[f] = mpc[f]
  BY DEF IInv, LocalTypes
<1>10. /\ \A q \in Page, k \in {"push", "count"} : q # p => Freeing(q, k)' = Freeing(q, k)
       /\ Freeing(p, "push")' = Freeing(p, "push") \ {e}
       /\ Freeing(p, "count")' = Freeing(p, "count") \cup {e}
  BY <1>1, <1>2, <1>6, <1>9 DEF Freeing
<1>11. \A q \in Page : UsedOf(q)' = UsedOf(q) /\ (q \in Mapped' <=> q \in Mapped)
  BY DEF UsedOf, Mapped
<1>12. ASSUME NEW q \in Page, q # p PROVE PageInv(q)'
  <2>1. /\ head'[q] = head[q] /\ free'[q] = free[q]
        /\ numEmpty'[q] = numEmpty[q] /\ numRemote'[q] = numRemote[q]
    BY <1>6, <1>12 DEF IInv, BlockTypes
  <2> QED
    BY <1>6, <1>10, <1>11, <1>12, <2>1, PageSame DEF IInv
<1>13. ListsOK(p)'
  <2>1. Hands(p)' = Hands(p) \ {b}
    <3>1. \A f \in Freeing(p, "push") : blk[f] = b => f = e
      BY <1>1, <1>3, <1>4 DEF ListsOK
    <3> QED
      BY <1>1, <1>3, <1>6, <1>10, <3>1 DEF Hands
  <2>2. b \notin UsedOf(p) /\ b \notin ToSet(head[p])
    BY <1>3, <1>4 DEF ListsOK
  <2>3. head'[p] = head[p] /\ free'[p] = list
    BY <1>6 DEF IInv, BlockTypes
  <2> QED
    BY <1>3, <1>4, <1>5, <1>6, <1>10, <1>11, <2>1, <2>2, <2>3 DEF ListsOK
<1>14. CountOK(p)'
  <2>1. Cardinality(Freeing(p, "push")') = Cardinality(Freeing(p, "push")) - 1
    BY <1>3, <1>10, BusyBound, FS_RemoveElement
  <2>2. Cardinality(Freeing(p, "count")') = Cardinality(Freeing(p, "count")) + 1
    BY <1>3, <1>10, BusyBound, FS_AddElement
  <2>3. Busy(p)' = Busy(p)
    BY <1>11, <2>1, <2>2, BusyBound DEF Busy
  <2> QED
    BY <1>4, <2>3 DEF CountOK
<1>15. LocalInv(e)'
  BY <1>1, <1>6, <1>9 DEF LocalInv, Place, TakePC
<1> QED
  BY <1>4, <1>7, <1>8, <1>9, <1>11, <1>12, <1>13, <1>14, <1>15, MemStepKeeps DEF PageInv

\* It is counted.
LEMMA FreeCountKeeps ==
  ASSUME IInv, NEW e \in MemXstream, FreeCount(e)
  PROVE  IInv'
<1> USE DEF FreeCount, MemGoto, stackVars
<1>1. PICK b \in Block : b = blk[e]
  BY DEF IInv, LocalInv
<1>2. PICK p \in Page : p = PageOf(b)
  BY DEF Block, PageOf
<1>3. /\ e \in Freeing(p, "count")
      /\ numEmpty[p] \in Int /\ numRemote[p] \in Int /\ Word \in Nat \ {0}
  BY <1>1, <1>2, MemAssumption, FS_CardinalityType DEF Freeing, IInv, BlockTypes
<1>4. p \in Mapped /\ ListsOK(p) /\ CountOK(p)
  BY <1>3 DEF IInv, PageInv, NotUsed
<1>5. PICK m \in 0 .. Word - 1 : m = (numRemote[p] + 1) % Word
  BY <1>3
<1>6. /\ numRemote' = [numRemote EXCEPT ![p] = m]
      /\ mpc' = [mpc EXCEPT ![e] = "idle"] /\ blk' = [blk EXCEPT ![e] = NoBlock]
  BY <1>1, <1>2, <1>5
<1>7. BlockTypes'
  BY <1>6 DEF IInv, BlockTypes
<1>8. LocalTypes'
  BY <1>6 DEF IInv, LocalTypes, MemPC
<1>9. mpc'[e] = "idle" /\ \A f \in MemXstream \ {e} : mpc'[f] = mpc[f] /\ blk'[f] = blk[f]
  BY <1>6 DEF IInv, LocalTypes
<1>10. /\ \A q \in Page : Freeing(q, "push")' = Freeing(q, "push")
       /\ \A q \in Page : q # p => Freeing(q, "count")' = Freeing(q, "count")
       /\ Freeing(p, "count")' = Freeing(p, "count") \ {e}
       /\ \A q \in Page : \A f \in Freeing(q, "push") : blk'[f] = blk[f]
  BY <1>1, <1>2, <1>9 DEF Freeing
<1>11. \A q \in Page : UsedOf(q)' = UsedOf(q) /\ (q \in Mapped' <=> q \in Mapped)
  BY DEF UsedOf, Mapped
<1>12. ASSUME NEW q \in Page, q # p PROVE PageInv(q)'
  <2>1. /\ head'[q] = head[q] /\ free'[q] = free[q]
        /\ numEmpty'[q] = numEmpty[q] /\ numRemote'[q] = numRemote[q]
    BY <1>6, <1>12 DEF IInv, BlockTypes
  <2> QED
    BY <1>10, <1>11, <1>12, <2>1, PageSame DEF IInv
<1>13. ListsOK(p)'
  <2>1. Hands(p)' = Hands(p)
    BY <1>10 DEF Hands
  <2>2. head'[p] = head[p] /\ free'[p] = free[p]
    OBVIOUS
  <2> QED
    BY <1>4, <1>10, <1>11, <2>1, <2>2 DEF ListsOK
<1>14. CountOK(p)'
  <2>1. Cardinality(Freeing(p, "count")') = Cardinality(Freeing(p, "count")) - 1
    BY <1>3, <1>10, BusyBound, FS_RemoveElement
  <2>2. Busy(p)' = Busy(p) - 1 /\ Busy(p) \in Int
    BY <1>10, <1>11, <2>1, BusyBound DEF Busy
  <2>3. numRemote'[p] = (numRemote[p] + 1) % Word /\ numEmpty'[p] = numEmpty[p]
    BY <1>5, <1>6 DEF IInv, BlockTypes
  <2>4. Counts(numEmpty[p], (numRemote[p] + 1) % Word, Busy(p) - 1)
    BY <1>3, <1>4, <2>2, CountUp DEF CountOK
  <2> QED
    BY <2>2, <2>3, <2>4 DEF CountOK
<1>15. LocalInv(e)'
  BY <1>9 DEF LocalInv, Place, TakePC
<1> QED
  BY <1>4, <1>7, <1>8, <1>9, <1>11, <1>12, <1>13, <1>14, <1>15, MemStepKeeps DEF PageInv

(***************************************************************************)
(* The end of an ES.                                                       *)
(***************************************************************************)

\* Counters that stand for all blocks leave none in use.
LEMMA CountAll ==
  ASSUME NEW a \in Int, NEW b \in Int, NEW x \in Nat, x < Word, Counts(a, b, x),
         (a + b) % Word = NumBlocks
  PROVE  x = 0
<1>1. NumBlocks \in Nat /\ Word \in Nat /\ NumBlocks < Word
  BY MemAssumption, FS_CardinalityType
<1> DEFINE y == NumBlocks - x
<1>2. y \in Int /\ y < Word /\ y > -Word /\ y % Word = NumBlocks
  BY <1>1 DEF Counts
<1>3. CASE y >= 0
  <2>1. y % Word = y
    BY <1>1, <1>2, <1>3
  <2> QED
    BY <1>1, <1>2, <2>1
<1>4. CASE y < 0
  <2>1. y % Word = y + Word
    <3> DEFINE z == y + Word
    <3>1. z \in 0 .. Word - 1 /\ y = Word * (-1) + z
      BY <1>1, <1>2, <1>4
    <3> HIDE DEF y, z
    <3>2. (Word * (-1) + z) % Word = z
      BY <1>1, <3>1
    <3> QED
      BY <3>1, <3>2 DEF z
  <2> QED
    BY <1>1, <1>2, <2>1
<1> QED
  BY <1>2, <1>3, <1>4

\* A page whose counters say that it is unused is unused, and is unmapped.
LEMMA EndPageKeeps ==
  ASSUME IInv, NEW e \in MemXstream, EndPage(e)
  PROVE  IInv'
<1> USE DEF EndPage, MemGoto, pageVars, stackVars
<1>1. PICK p \in Page : /\ p = Head(pages[e]) /\ p \in ToSet(pages[e])
                        /\ Tail(pages[e]) \in Seq(Page)
                        /\ ToSet(pages[e]) = {p} \cup ToSet(Tail(pages[e]))
  BY FirstPage DEF IInv, BlockTypes
<1>2. PICK rest \in Seq(Page) : rest = Tail(pages[e]) /\ ToSet(pages[e]) = {p} \cup ToSet(rest)
  BY <1>1
<1>3. cur' = [cur EXCEPT ![e] = p] /\ mpc[e] = "end" /\ pages[e] # <<>>
  BY <1>1
<1>4. CASE Unused(p)
  <2>1. pages' = [pages EXCEPT ![e] = rest] /\ mpc' = mpc
    BY <1>1, <1>2, <1>4
  <2>2. BlockTypes'
    BY <2>1 DEF IInv, BlockTypes
  <2>3. LocalTypes'
    BY <1>3, <2>1 DEF IInv, LocalTypes
  <2>4. /\ \A q \in Page, k \in {"push", "count"} : Freeing(q, k)' = Freeing(q, k)
        /\ \A q \in Page : UsedOf(q)' = UsedOf(q)
    BY <2>1 DEF Freeing, UsedOf
  <2>5. \A q : q \in Mapped' => q \in Mapped
    <3>1. \A f \in MemXstream : ToSet(pages'[f]) \subseteq ToSet(pages[f])
      BY <1>2, <2>1 DEF IInv, BlockTypes
    <3>2. kept' = kept /\ globalPages' = globalPages
      OBVIOUS
    <3>3. \A q : Linked(q)' => Linked(q)
      BY <3>1, <3>2 DEF Linked
    <3> QED
      BY <3>3, MappedLinked
  <2>6. \A q : q # p /\ q \in Mapped => q \in Mapped'
    <3>1. \A f \in MemXstream : ToSet(pages[f]) \subseteq {p} \cup ToSet(pages'[f])
      BY <1>2, <2>1 DEF IInv, BlockTypes
    <3>2. kept' = kept /\ globalPages' = globalPages
      OBVIOUS
    <3>3. \A q : q # p /\ Linked(q) => Linked(q)'
      BY <3>1, <3>2 DEF Linked
    <3> QED
      BY <3>3, MappedLinked
  <2>7. p \in Mapped
    BY <1>1, MappedLinked DEF Linked
  <2>8. ASSUME NEW q \in Page, q # p \/ p \in Mapped' PROVE PageInv(q)'
    <3>1. q \in Mapped' <=> q \in Mapped
      BY <2>5, <2>6, <2>7, <2>8
    <3> QED
      BY <2>1, <2>4, <3>1, PageSame DEF IInv
  <2>9. ASSUME p \notin Mapped' PROVE PageInv(p)'
    <3>1. CountOK(p) /\ (numEmpty[p] + numRemote[p]) % Word = NumBlocks
      BY <1>4, <2>7 DEF IInv, PageInv, Unused
    <3>2. /\ numEmpty[p] \in Int /\ numRemote[p] \in Int /\ Busy(p) \in Nat /\ Busy(p) < Word
      BY BusyBound DEF IInv, BlockTypes
    <3>3. Busy(p) = 0
      BY <3>1, <3>2, CountAll DEF CountOK
    <3>4. NotUsed(p)
      BY <3>3, BusyBound
    <3> QED
      BY <2>4, <2>9, <3>4 DEF PageInv, NotUsed
  <2>10. LocalInv(e)'
    BY <1>3, <2>1 DEF LocalInv, Place, TakePC
  <2>11. \A f \in MemXstream \ {e} : cur'[f] = cur[f] /\ pages'[f] = pages[f]
    BY <1>3, <2>1 DEF IInv, LocalTypes, BlockTypes
  <2> QED
    BY <2>1, <2>2, <2>3, <2>8, <2>9, <2>10, <2>11, MemStepKeeps
<1>5. CASE ~Unused(p)
  <2>1. pages' = pages /\ mpc' = [mpc EXCEPT ![e] = "end_free"]
    BY <1>1, <1>5
  <2>2. BlockTypes'
    BY <2>1 DEF IInv, BlockTypes
  <2>3. LocalTypes'
    BY <1>3, <2>1 DEF IInv, LocalTypes, MemPC
  <2>4. \A q \in Page : PageInv(q)'
    <3>1. Mapped' = Mapped
      BY <2>1 DEF Mapped
    <3> QED
      BY <1>3, <2>1, <3>1, QuietStep DEF MemPC
  <2>5. LocalInv(e)'
    BY <1>1, <1>3, <2>1 DEF LocalInv, Place, TakePC, IInv, LocalTypes
  <2>6. \A f \in MemXstream \ {e} : cur'[f] = cur[f] /\ mpc'[f] = mpc[f]
    BY <1>3, <2>1 DEF IInv, LocalTypes
  <2> QED
    BY <2>1, <2>2, <2>3, <2>4, <2>5, <2>6, MemStepKeeps
<1> QED
  BY <1>4, <1>5

\* The ES that ends looks at the second list of a page.
LEMMA EndTakeKeeps ==
  ASSUME IInv, NEW e \in MemXstream, EndTake(e)
  PROVE  IInv'
<1> USE DEF EndTake, MemGoto, taskVars, pageVars, stackVars
<1>1. PICK l \in {"take", "end_keep"} : mpc' = [mpc EXCEPT ![e] = l]
  OBVIOUS
<1>2. BlockTypes'
  BY DEF IInv, BlockTypes
<1>3. LocalTypes'
  BY <1>1 DEF IInv, LocalTypes, MemPC
<1>4. \A p \in Page : PageInv(p)'
  <2>1. Mapped' = Mapped
    BY DEF Mapped
  <2> QED
    BY <1>1, <2>1, QuietStep DEF IInv, LocalTypes, MemPC
<1>5. LocalInv(e)'
  <2>1. mpc'[e] = l /\ back'[e] = "end_keep"
    BY <1>1 DEF IInv, LocalTypes
  <2>2. pages[e] # <<>> /\ cur[e] = Head(pages[e])
    BY DEF IInv, LocalInv, Place, TakePC
  <2> QED
    BY <1>1, <2>1, <2>2 DEF LocalInv, Place, TakePC
<1>6. \A f \in MemXstream \ {e} : mpc'[f] = mpc[f] /\ back'[f] = back[f]
  BY <1>1 DEF IInv, LocalTypes
<1> QED
  BY <1>2, <1>3, <1>4, <1>5, <1>6, MemStepKeeps

\* The page goes from one list of the ES to another: it stays mapped.
LEMMA EndKeepKeeps ==
  ASSUME IInv, NEW e \in MemXstream, EndKeep(e)
  PROVE  IInv'
<1> USE DEF EndKeep, MemGoto, stackVars
<1>1. pages[e] # <<>> /\ cur[e] = Head(pages[e]) /\ pages[e] \in Seq(Page)
      /\ kept[e] \in Seq(Page)
  BY DEF IInv, LocalInv, Place, TakePC, BlockTypes
<1>2. PICK p \in Page, rest \in Seq(Page) :
        p = cur[e] /\ rest = Tail(pages[e]) /\ ToSet(pages[e]) = {p} \cup ToSet(rest)
  <2>1. /\ Head(pages[e]) \in Page /\ Tail(pages[e]) \in Seq(Page)
        /\ ToSet(pages[e]) = {Head(pages[e])} \cup ToSet(Tail(pages[e]))
    BY <1>1, TailSet
  <2> QED
    BY <1>1, <2>1
<1>3. PICK mine \in Seq(Page) :
        mine = <<p>> \o kept[e] /\ ToSet(mine) = {p} \cup ToSet(kept[e])
  <2>1. <<p>> \o kept[e] \in Seq(Page) /\ ToSet(<<p>> \o kept[e]) = {p} \cup ToSet(kept[e])
    BY <1>1, <1>2, ConsSet
  <2> QED
    BY <2>1
<1>4. /\ owner' = [owner EXCEPT ![p] = NoXstream]
      /\ kept' = [kept EXCEPT ![e] = mine]
      /\ pages' = [pages EXCEPT ![e] = rest]
      /\ mpc' = [mpc EXCEPT ![e] = "end"]
  BY <1>2, <1>3
<1>5. BlockTypes'
  BY <1>4, ZenonT(30) DEF IInv, BlockTypes
<1>6. LocalTypes'
  BY <1>4 DEF IInv, LocalTypes, MemPC
<1>7. \A q \in Page : PageInv(q)'
  <2>1. \A f \in MemXstream : ToSet(pages'[f]) \cup ToSet(kept'[f])
                             = ToSet(pages[f]) \cup ToSet(kept[f])
    BY <1>2, <1>3, <1>4 DEF IInv, BlockTypes
  <2>2. globalPages' = globalPages
    OBVIOUS
  <2>3. Mapped' = Mapped
    <3>1. \A q : Linked(q)' <=> Linked(q)
      BY <2>1, <2>2 DEF Linked
    <3> QED
      BY <3>1, MappedLinked
  <2> QED
    BY <1>4, <2>3, QuietStep DEF MemPC
<1>8. LocalInv(e)'
  BY <1>4 DEF LocalInv, Place, TakePC, IInv, LocalTypes
<1>9. \A f \in MemXstream \ {e} : mpc'[f] = mpc[f] /\ pages'[f] = pages[f]
  BY <1>4 DEF IInv, LocalTypes, BlockTypes
<1> QED
  BY <1>5, <1>6, <1>7, <1>8, <1>9, MemStepKeeps

\* The pages that were kept go to the global list: they stay mapped.
LEMMA EndedKeeps ==
  ASSUME IInv, NEW e \in MemXstream, Ended(e)
  PROVE  IInv'
<1> USE DEF Ended, MemGoto, pageVars, stackVars
<1>1. PICK list \in Seq(Page) :
        /\ list = kept[e] \o globalPages
        /\ ToSet(list) = ToSet(kept[e]) \cup ToSet(globalPages)
  <2>1. kept[e] \in Seq(Page) /\ globalPages \in Seq(Page)
    BY DEF IInv, BlockTypes
  <2>2. /\ kept[e] \o globalPages \in Seq(Page)
        /\ ToSet(kept[e] \o globalPages) = ToSet(kept[e]) \cup ToSet(globalPages)
    BY <2>1, ConcatSet
  <2> QED
    BY <2>2
<1>2. /\ globalPages' = list /\ kept' = [kept EXCEPT ![e] = <<>>]
      /\ mpc' = [mpc EXCEPT ![e] = "idle"]
  BY <1>1
<1>3. <<>> \in Seq(Page) /\ ToSet(<<>>) = {}
  BY DEF ToSet
<1>4. BlockTypes'
  BY <1>2, <1>3 DEF IInv, BlockTypes
<1>5. LocalTypes'
  BY <1>2 DEF IInv, LocalTypes, MemPC
<1>6. \A q \in Page : PageInv(q)'
  <2>1. /\ pages' = pages
        /\ \A f \in MemXstream : ToSet(kept'[f]) = IF f = e THEN {} ELSE ToSet(kept[f])
    BY <1>2, <1>3 DEF IInv, BlockTypes
  <2>2. ToSet(globalPages') = ToSet(kept[e]) \cup ToSet(globalPages)
    BY <1>1, <1>2
  <2>3. Mapped' = Mapped
    <3>1. ASSUME NEW q PROVE Linked(q)' <=> Linked(q)
      BY <2>1, <2>2, SMTT(30) DEF Linked
    <3> QED
      BY <3>1, MappedLinked
  <2> QED
    BY <1>2, <2>3, QuietStep DEF MemPC
<1>7. LocalInv(e)'
  BY <1>2 DEF LocalInv, Place, TakePC, IInv, LocalTypes
<1>8. \A f \in MemXstream \ {e} : mpc'[f] = mpc[f]
  BY <1>2 DEF IInv, LocalTypes
<1> QED
  BY <1>4, <1>5, <1>6, <1>7, <1>8, MemStepKeeps

\* An ES starts again.
LEMMA StartKeeps ==
  ASSUME IInv, NEW e \in MemXstream, Start(e)
  PROVE  IInv'
<1> USE DEF Start, taskVars, pageVars, stackVars
<1>1. BlockTypes'
  BY DEF IInv, BlockTypes
<1>2. LocalTypes'
  BY DEF IInv, LocalTypes
<1>3. \A p \in Page : PageInv(p)'
  <2>1. ASSUME NEW p \in Page PROVE PageInv(p)'
    <3>1. /\ UsedOf(p)' = UsedOf(p) /\ (p \in Mapped' <=> p \in Mapped)
          /\ \A l \in {"push", "count"} : Freeing(p, l)' = Freeing(p, l)
      BY DEF UsedOf, Mapped, Freeing
    <3> QED
      BY <3>1, PageSame DEF IInv
  <2> QED
    BY <2>1
<1>4. LocalInv(e)'
  BY DEF LocalInv, Place, IInv
<1> QED
  BY <1>1, <1>2, <1>3, <1>4, MemStepKeeps

(***************************************************************************)
(* The stacks.                                                             *)
(***************************************************************************)

\* A step that changes the list of one ES, the global list and the stacks in use.
LEMMA StackChange ==
  ASSUME StackInv, NEW e \in MemXstream,
         NEW mine \in Seq(Stack), NEW glob \in Seq(Stack), NEW inUse \in SUBSET Stack,
         stacks' = [stacks EXCEPT ![e] = mine],
         numStacks' = [numStacks EXCEPT ![e] = Len(mine)],
         globalStacks' = glob, usedStacks' = inUse,
         IsInjective(mine), IsInjective(glob),
         ToSet(mine) \cap (ToSet(glob) \cup inUse) = {}, ToSet(glob) \cap inUse = {},
         \A f \in MemXstream \ {e} :
           ToSet(stacks[f]) \cap (ToSet(mine) \cup ToSet(glob) \cup inUse) = {},
         \A s \in ToSet(mine) \cup ToSet(glob) \cup inUse : s[1] \in DOMAIN firstPos',
         DOMAIN firstPos \subseteq DOMAIN firstPos', DOMAIN firstPos' \subseteq StackPage,
         firstPos' \in [DOMAIN firstPos' -> 0 .. NumStacks - 1], spId' \in Nat
  PROVE  StackInv'
<1>1. Len(mine) \in Nat
  BY LenProperties
<1>2. \A f \in MemXstream :
        /\ stacks'[f] = IF f = e THEN mine ELSE stacks[f]
        /\ numStacks'[f] = IF f = e THEN Len(mine) ELSE numStacks[f]
  BY DEF StackInv, StackTypes
<1>3. StackTypes'
  BY <1>1 DEF StackInv, StackTypes
<1>4. StacksMapped'
  <2>1. ASSUME NEW f \in MemXstream, NEW s \in ToSet(stacks'[f])
        PROVE  s[1] \in DOMAIN firstPos'
    <3>1. CASE f = e
      BY <1>2, <2>1, <3>1
    <3>2. CASE f # e
      BY <1>2, <2>1, <3>2 DEF StackInv, StacksMapped
    <3> QED
      BY <3>1, <3>2
  <2> QED
    BY <2>1 DEF StacksMapped
<1>5. StacksOnce'
  <2>1. \A f \in MemXstream : numStacks'[f] = Len(stacks'[f]) /\ IsInjective(stacks'[f])
    BY <1>2 DEF StackInv, StacksOnce
  <2>2. ASSUME NEW f \in MemXstream
        PROVE  ToSet(stacks'[f]) \cap (ToSet(glob) \cup inUse) = {}
    <3>1. CASE f = e
      BY <1>2, <3>1
    <3>2. CASE f # e
      <4>1. ToSet(stacks[f]) \cap (ToSet(mine) \cup ToSet(glob) \cup inUse) = {}
        BY <3>2
      <4> QED
        BY <1>2, <3>2, <4>1
    <3> QED
      BY <3>1, <3>2
  <2>3. ASSUME NEW f \in MemXstream, NEW g \in MemXstream \ {f}
        PROVE  ToSet(stacks'[f]) \cap ToSet(stacks'[g]) = {}
    <3>1. CASE f # e /\ g # e
      BY <1>2, <3>1 DEF StackInv, StacksOnce
    <3>2. CASE f = e
      <4>1. ToSet(stacks[g]) \cap (ToSet(mine) \cup ToSet(glob) \cup inUse) = {}
        BY <3>2
      <4> QED
        BY <1>2, <3>2, <4>1
    <3>3. CASE g = e
      <4>1. ToSet(stacks[f]) \cap (ToSet(mine) \cup ToSet(glob) \cup inUse) = {}
        BY <3>3
      <4> QED
        BY <1>2, <3>3, <4>1
    <3> QED
      BY <3>1, <3>2, <3>3
  <2> QED
    BY <2>1, <2>2, <2>3 DEF StacksOnce
<1> QED
  BY <1>3, <1>4, <1>5 DEF StackInv

\* A step of the stacks leaves the blocks alone.
LEMMA ThreadSame ==
  ASSUME IInv, UNCHANGED <<taskVars, opVars>>,
         budget' \in [{"tasks", "threads", "ends"} -> Nat], StackInv'
  PROVE  IInv'
<1> USE DEF taskVars, pageVars, opVars
<1>1. BlockTypes' /\ LocalTypes'
  BY DEF IInv, BlockTypes, LocalTypes
<1>2. ASSUME NEW p \in Page PROVE PageInv(p)'
  <2>1. /\ UsedOf(p)' = UsedOf(p) /\ (p \in Mapped' <=> p \in Mapped)
        /\ \A l \in {"push", "count"} : Freeing(p, l)' = Freeing(p, l)
    BY DEF UsedOf, Mapped, Freeing
  <2> QED
    BY <2>1, PageSame DEF IInv
<1>3. ASSUME NEW e \in MemXstream PROVE LocalInv(e)'
  BY DEF IInv, LocalInv, Place
<1> QED
  BY <1>1, <1>2, <1>3 DEF IInv

\* A stack of the ES, or of the global list, is handed out.
LEMMA TakeListKeeps ==
  ASSUME StackInv, NEW e \in MemXstream, NEW list \in Seq(Stack), list # <<>>,
         NEW glob \in Seq(Stack), \/ list = stacks[e] /\ glob = globalStacks
                                  \/ /\ stacks[e] = <<>>
                                     /\ list = globalStacks /\ glob = <<>>,
         TakeStack(e, list), globalStacks' = glob,
         numStacks' = [numStacks EXCEPT ![e] = Len(list) - 1],
         UNCHANGED <<firstPos, spId>>
  PROVE  StackInv'
<1>1. PICK s \in Stack, mine \in Seq(Stack) :
        /\ s = Head(list) /\ mine = Tail(list) /\ Len(mine) = Len(list) - 1
        /\ ToSet(list) = {s} \cup ToSet(mine)
        /\ IsInjective(list) => IsInjective(mine) /\ s \notin ToSet(mine)
  <2>1. /\ Head(list) \in Stack /\ Tail(list) \in Seq(Stack)
        /\ Len(Tail(list)) = Len(list) - 1
        /\ ToSet(list) = {Head(list)} \cup ToSet(Tail(list))
        /\ IsInjective(list) =>
             IsInjective(Tail(list)) /\ Head(list) \notin ToSet(Tail(list))
    BY TailSet
  <2> QED
    BY <2>1
<1>2. ToSet(<<>>) = {} /\ IsInjective(<<>>)
  BY DEF ToSet, IsInjective
<1>3. IsInjective(list) /\ IsInjective(glob)
  BY <1>2 DEF StackInv, StacksOnce
<1>4. /\ ToSet(list) \cap (ToSet(glob) \cup usedStacks) = {}
      /\ ToSet(glob) \cap usedStacks = {}
  BY <1>2 DEF StackInv, StacksOnce
<1>5. \A f \in MemXstream \ {e} :
        ToSet(stacks[f]) \cap (ToSet(list) \cup ToSet(glob) \cup usedStacks) = {}
  BY <1>2 DEF StackInv, StacksOnce
<1>6. \A x \in ToSet(list) \cup ToSet(glob) \cup usedStacks : x[1] \in DOMAIN firstPos
  BY <1>2 DEF StackInv, StacksMapped
<1>7. PICK inUse \in SUBSET Stack : inUse = usedStacks \cup {s} /\ usedStacks' = inUse
  BY <1>1 DEF StackInv, StackTypes, TakeStack
<1>8. /\ stacks' = [stacks EXCEPT ![e] = mine]
      /\ numStacks' = [numStacks EXCEPT ![e] = Len(mine)]
  BY <1>1 DEF TakeStack
<1>9. /\ ToSet(mine) \cap (ToSet(glob) \cup inUse) = {} /\ ToSet(glob) \cap inUse = {}
      /\ \A f \in MemXstream \ {e} :
           ToSet(stacks[f]) \cap (ToSet(mine) \cup ToSet(glob) \cup inUse) = {}
      /\ \A x \in ToSet(mine) \cup ToSet(glob) \cup inUse : x[1] \in DOMAIN firstPos
  BY <1>1, <1>3, <1>4, <1>5, <1>6, <1>7
<1>10. /\ DOMAIN firstPos' = DOMAIN firstPos /\ DOMAIN firstPos' \subseteq StackPage
       /\ firstPos' \in [DOMAIN firstPos' -> 0 .. NumStacks - 1] /\ spId' \in Nat
  BY DEF StackInv, StackTypes
<1>11. \A x \in ToSet(mine) \cup ToSet(glob) \cup inUse : x[1] \in DOMAIN firstPos'
  BY <1>9, <1>10
<1> QED
  BY <1>1, <1>3, <1>7, <1>8, <1>9, <1>10, <1>11, StackChange

\* The stacks of a new stack page are in no list yet.
LEMMA StackPageKeeps ==
  ASSUME StackInv, NEW e \in MemXstream, AllocStackPage(e)
  PROVE  StackInv'
<1>1. PICK sp \in StackPage \ DOMAIN firstPos :
        /\ stacks[e] = <<>> /\ globalStacks = <<>>
        /\ TakeStack(e, [i \in 1 .. NumStacks |-> <<sp, i>>])
        /\ numStacks' = [numStacks EXCEPT ![e] = NumStacks - 1]
        /\ firstPos' = [q \in DOMAIN firstPos \cup {sp} |->
                          IF q = sp THEN spId % NumStacks ELSE firstPos[q]]
        /\ spId' = spId + 1
        /\ globalStacks' = globalStacks
  BY DEF AllocStackPage
<1>2. PICK list \in Seq(Stack) :
        /\ list = [i \in 1 .. NumStacks |-> <<sp, i>>] /\ list # <<>>
        /\ Len(list) = NumStacks /\ IsInjective(list) /\ \A s \in ToSet(list) : s[1] = sp
  <2> DEFINE new == [i \in 1 .. NumStacks |-> <<sp, i>>]
  <2>1. new \in Seq(Stack) /\ Len(new) = NumStacks /\ new # <<>>
    <3>1. \A i \in 1 .. NumStacks : <<sp, i>> \in Stack
      BY DEF Stack
    <3>2. new \in [1 .. NumStacks -> Stack] /\ NumStacks \in Nat \ {0}
      BY <3>1, MemAssumption
    <3>3. new \in Seq(Stack)
      BY <3>2
    <3>4. Len(new) = NumStacks
      BY <3>2, <3>3
    <3> QED
      BY <3>2, <3>3, <3>4
  <2>2. DOMAIN new = 1 .. NumStacks /\ \A i \in 1 .. NumStacks : new[i] = <<sp, i>>
    OBVIOUS
  <2>3. IsInjective(new) /\ \A s \in ToSet(new) : s[1] = sp
    BY <2>2 DEF IsInjective, ToSet
  <2> QED
    BY <2>1, <2>3
<1>3. PICK s \in Stack, mine \in Seq(Stack) :
        /\ s = Head(list) /\ mine = Tail(list) /\ Len(mine) = Len(list) - 1
        /\ ToSet(list) = {s} \cup ToSet(mine)
        /\ IsInjective(mine) /\ s \notin ToSet(mine)
  <2>1. /\ Head(list) \in Stack /\ Tail(list) \in Seq(Stack)
        /\ Len(Tail(list)) = Len(list) - 1
        /\ ToSet(list) = {Head(list)} \cup ToSet(Tail(list))
        /\ IsInjective(list) =>
             IsInjective(Tail(list)) /\ Head(list) \notin ToSet(Tail(list))
    BY <1>2, TailSet
  <2> QED
    BY <1>2, <2>1
<1>4. PICK glob \in Seq(Stack) :
        glob = <<>> /\ globalStacks' = glob /\ ToSet(glob) = {} /\ IsInjective(glob)
  <2>1. <<>> \in Seq(Stack) /\ globalStacks' = <<>>
    BY <1>1
  <2>2. ToSet(<<>>) = {} /\ IsInjective(<<>>)
    BY DEF ToSet, IsInjective
  <2> QED
    BY <2>1, <2>2
<1>5. PICK inUse \in SUBSET Stack : inUse = usedStacks \cup {s} /\ usedStacks' = inUse
  BY <1>1, <1>2, <1>3 DEF StackInv, StackTypes, TakeStack
<1>6. /\ stacks' = [stacks EXCEPT ![e] = mine]
      /\ numStacks' = [numStacks EXCEPT ![e] = Len(mine)]
  BY <1>1, <1>2, <1>3 DEF TakeStack
<1>7. \A x \in ToSet(mine) \cup {s} : x[1] = sp
  BY <1>2, <1>3
<1>8. /\ \A x \in usedStacks : x[1] \in DOMAIN firstPos
      /\ \A f \in MemXstream : \A x \in ToSet(stacks[f]) : x[1] \in DOMAIN firstPos
  BY DEF StackInv, StacksMapped
<1>9. \A f \in MemXstream : ToSet(stacks[f]) \cap usedStacks = {}
  BY DEF StackInv, StacksOnce
<1>10. ToSet(mine) \cap (ToSet(glob) \cup inUse) = {} /\ ToSet(glob) \cap inUse = {}
  BY <1>3, <1>4, <1>5, <1>7, <1>8
<1>11. \A f \in MemXstream \ {e} :
         ToSet(stacks[f]) \cap (ToSet(mine) \cup ToSet(glob) \cup inUse) = {}
  BY <1>4, <1>5, <1>7, <1>8, <1>9
<1>12. /\ DOMAIN firstPos' = DOMAIN firstPos \cup {sp}
       /\ DOMAIN firstPos' \subseteq StackPage
       /\ spId' \in Nat
  BY <1>1 DEF StackInv, StackTypes
<1>13. firstPos' \in [DOMAIN firstPos' -> 0 .. NumStacks - 1]
  <2>1. spId % NumStacks \in 0 .. NumStacks - 1
    BY MemAssumption, SMTT(30) DEF StackInv, StackTypes
  <2> QED
    BY <1>1, <1>12, <2>1 DEF StackInv, StackTypes
<1>14. \A x \in ToSet(mine) \cup ToSet(glob) \cup inUse : x[1] \in DOMAIN firstPos'
  BY <1>4, <1>5, <1>7, <1>8, <1>12
<1>15. DOMAIN firstPos \subseteq DOMAIN firstPos'
  BY <1>12
<1> QED
  BY <1>3, <1>4, <1>5, <1>6, <1>10, <1>11, <1>12, <1>13, <1>14, <1>15, StackChange, ZenonT(30)

\* ABTI_mem_alloc_thread hands out a stack that nobody has.
LEMMA AllocThreadKeeps ==
  ASSUME IInv, NEW e \in MemXstream, AllocThread(e)
  PROVE  IInv'
<1>1. StackInv /\ stacks[e] \in Seq(Stack) /\ globalStacks \in Seq(Stack)
  BY DEF IInv, StackInv, StackTypes
<1>2. numStacks[e] = Len(stacks[e]) /\ <<>> \in Seq(Stack)
  BY <1>1 DEF StackInv, StacksOnce
<1>3. ASSUME AllocLocal(e) PROVE StackInv'
  <2>1. numStacks' = [numStacks EXCEPT ![e] = Len(stacks[e]) - 1]
    BY <1>2, <1>3 DEF AllocLocal
  <2> QED
    BY <1>1, <1>3, <2>1, TakeListKeeps DEF AllocLocal
<1>4. ASSUME TakeGlobalStack(e) PROVE StackInv'
  BY <1>1, <1>2, <1>4, TakeListKeeps DEF TakeGlobalStack
<1>5. ASSUME AllocStackPage(e) PROVE StackInv'
  BY <1>1, <1>5, StackPageKeeps
<1>6. StackInv'
  BY <1>3, <1>4, <1>5 DEF AllocThread
<1>7. budget' \in [{"tasks", "threads", "ends"} -> Nat]
  BY DEF AllocThread, Spend, IInv, LocalTypes
<1> QED
  BY <1>6, <1>7, ThreadSame DEF AllocThread

\* ABTI_mem_free_thread puts a stack that was in use into one list.
LEMMA FreeThreadKeeps ==
  ASSUME IInv, NEW e \in MemXstream, FreeThread(e)
  PROVE  IInv'
<1>1. StackInv /\ stacks[e] \in Seq(Stack) /\ globalStacks \in Seq(Stack)
  BY DEF IInv, StackInv, StackTypes
<1>2. PICK s \in usedStacks :
        /\ usedStacks' = usedStacks \ {s}
        /\ \/ /\ numStacks[e] <= MaxStacks
              /\ stacks' = [stacks EXCEPT ![e] = <<s>> \o @]
              /\ numStacks' = [numStacks EXCEPT ![e] = @ + 1]
              /\ UNCHANGED globalStacks
           \/ /\ numStacks[e] > MaxStacks
              /\ globalStacks' = <<s>> \o globalStacks
              /\ UNCHANGED <<stacks, numStacks>>
        /\ UNCHANGED <<taskVars, firstPos, spId, opVars, budget>>
  BY DEF FreeThread
<1>3. PICK inUse \in SUBSET Stack : inUse = usedStacks \ {s} /\ usedStacks' = inUse
  BY <1>1, <1>2 DEF StackInv, StackTypes
<1>4. s \in Stack /\ numStacks[e] = Len(stacks[e])
  BY <1>1 DEF StackInv, StackTypes, StacksOnce
<1>5. PICK mine \in Seq(Stack), glob \in Seq(Stack) :
        /\ stacks' = [stacks EXCEPT ![e] = mine] /\ globalStacks' = glob
        /\ numStacks' = [numStacks EXCEPT ![e] = Len(mine)]
        /\ IsInjective(mine) /\ IsInjective(glob)
        /\ \/ ToSet(mine) = {s} \cup ToSet(stacks[e]) /\ ToSet(glob) = ToSet(globalStacks)
           \/ ToSet(mine) = ToSet(stacks[e]) /\ ToSet(glob) = {s} \cup ToSet(globalStacks)
  <2>1. /\ IsInjective(stacks[e]) /\ s \notin ToSet(stacks[e])
        /\ IsInjective(globalStacks) /\ s \notin ToSet(globalStacks)
    BY <1>1 DEF StackInv, StacksOnce
  <2>2. CASE stacks' = [stacks EXCEPT ![e] = <<s>> \o @]
             /\ numStacks' = [numStacks EXCEPT ![e] = @ + 1] /\ UNCHANGED globalStacks
    <3>1. /\ <<s>> \o stacks[e] \in Seq(Stack)
          /\ Len(<<s>> \o stacks[e]) = numStacks[e] + 1
          /\ ToSet(<<s>> \o stacks[e]) = {s} \cup ToSet(stacks[e])
          /\ IsInjective(<<s>> \o stacks[e])
      BY <1>1, <1>4, <2>1, ConsSet
    <3>2. /\ stacks' = [stacks EXCEPT ![e] = <<s>> \o stacks[e]]
          /\ numStacks' = [numStacks EXCEPT ![e] = Len(<<s>> \o stacks[e])]
      BY <2>2, <3>1
    <3> QED
      BY <1>1, <2>1, <2>2, <3>1, <3>2
  <2>3. CASE globalStacks' = <<s>> \o globalStacks /\ UNCHANGED <<stacks, numStacks>>
    <3>1. /\ <<s>> \o globalStacks \in Seq(Stack)
          /\ ToSet(<<s>> \o globalStacks) = {s} \cup ToSet(globalStacks)
          /\ IsInjective(<<s>> \o globalStacks)
      BY <1>1, <1>4, <2>1, ConsSet
    <3>2. /\ stacks' = [stacks EXCEPT ![e] = stacks[e]]
          /\ numStacks' = [numStacks EXCEPT ![e] = Len(stacks[e])]
      BY <1>1, <1>4, <2>3 DEF StackInv, StackTypes
    <3> QED
      BY <1>1, <2>1, <2>3, <3>1, <3>2
  <2> QED
    BY <1>2, <2>2, <2>3
<1>6. /\ ToSet(stacks[e]) \cap (ToSet(globalStacks) \cup usedStacks) = {}
      /\ ToSet(globalStacks) \cap usedStacks = {}
      /\ \A f \in MemXstream \ {e} :
           ToSet(stacks[f]) \cap (ToSet(stacks[e]) \cup ToSet(globalStacks) \cup usedStacks) = {}
  BY <1>1 DEF StackInv, StacksOnce
<1>7. /\ ToSet(mine) \cap (ToSet(glob) \cup inUse) = {} /\ ToSet(glob) \cap inUse = {}
      /\ ToSet(mine) \cup ToSet(glob) \cup inUse
           = ToSet(stacks[e]) \cup ToSet(globalStacks) \cup usedStacks
  BY <1>2, <1>3, <1>5, <1>6
<1>8. \A f \in MemXstream \ {e} :
        ToSet(stacks[f]) \cap (ToSet(mine) \cup ToSet(glob) \cup inUse) = {}
  BY <1>6, <1>7
<1>9. \A x \in ToSet(mine) \cup ToSet(glob) \cup inUse : x[1] \in DOMAIN firstPos'
  BY <1>1, <1>2, <1>7 DEF StackInv, StacksMapped
<1>10. /\ DOMAIN firstPos' = DOMAIN firstPos /\ DOMAIN firstPos' \subseteq StackPage
       /\ firstPos' \in [DOMAIN firstPos' -> 0 .. NumStacks - 1] /\ spId' \in Nat
  BY <1>1, <1>2 DEF StackInv, StackTypes
<1>11. StackInv'
  BY <1>1, <1>3, <1>5, <1>7, <1>8, <1>9, <1>10, StackChange
<1>12. budget' \in [{"tasks", "threads", "ends"} -> Nat]
  BY <1>2 DEF IInv, LocalTypes
<1> QED
  BY <1>2, <1>11, <1>12, ThreadSame

\* An ES that ends gives up its list of stacks.
LEMMA EndEsKeeps ==
  ASSUME IInv, NEW e \in MemXstream, EndEs(e)
  PROVE  IInv'
<1> USE DEF EndEs, MemGoto, Idle, Spend, taskVars, pageVars
<1>1. BlockTypes'
  BY DEF IInv, BlockTypes
<1>2. LocalTypes'
  <2>1. budget' \in [{"tasks", "threads", "ends"} -> Nat]
    BY DEF IInv, LocalTypes
  <2>2. mpc' \in [MemXstream -> MemPC]
    BY DEF IInv, LocalTypes, MemPC
  <2> QED
    BY <2>1, <2>2 DEF IInv, LocalTypes
<1>3. \A p \in Page : PageInv(p)'
  <2>1. Mapped' = Mapped
    BY DEF Mapped
  <2> QED
    BY <2>1, QuietStep DEF MemPC
<1>4. \A f \in MemXstream : LocalInv(f)'
  <2>1. LocalInv(e)'
    BY DEF LocalInv, Place, TakePC, IInv, LocalTypes
  <2>2. \A f \in MemXstream \ {e} : mpc'[f] = mpc[f]
    BY DEF IInv, LocalTypes
  <2> QED
    BY <2>1, <2>2, LocalStep DEF IInv
<1>5. StackInv'
  <2>1. StackInv
    BY DEF IInv
  <2>2. PICK mine \in Seq(Stack) :
          mine = <<>> /\ Len(mine) = 0 /\ ToSet(mine) = {} /\ IsInjective(mine)
    <3>1. <<>> \in Seq(Stack) /\ Len(<<>>) = 0
      OBVIOUS
    <3>2. ToSet(<<>>) = {} /\ IsInjective(<<>>)
      BY DEF ToSet, IsInjective
    <3> QED
      BY <3>1, <3>2
  <2>3. PICK glob \in Seq(Stack), inUse \in SUBSET Stack :
          glob = globalStacks /\ inUse = usedStacks
    BY <2>1 DEF StackInv, StackTypes
  <2>4. /\ stacks' = [stacks EXCEPT ![e] = mine]
        /\ numStacks' = [numStacks EXCEPT ![e] = Len(mine)]
        /\ globalStacks' = glob /\ usedStacks' = inUse
    BY <2>2, <2>3
  <2>5. /\ IsInjective(glob)
        /\ ToSet(mine) \cap (ToSet(glob) \cup inUse) = {} /\ ToSet(glob) \cap inUse = {}
        /\ \A f \in MemXstream \ {e} :
             ToSet(stacks[f]) \cap (ToSet(mine) \cup ToSet(glob) \cup inUse) = {}
    BY <2>1, <2>2, <2>3 DEF StackInv, StacksOnce
  <2>6. /\ DOMAIN firstPos' = DOMAIN firstPos /\ DOMAIN firstPos' \subseteq StackPage
        /\ firstPos' \in [DOMAIN firstPos' -> 0 .. NumStacks - 1] /\ spId' \in Nat
    BY <2>1 DEF StackInv, StackTypes
  <2>7. \A x \in ToSet(mine) \cup ToSet(glob) \cup inUse : x[1] \in DOMAIN firstPos'
    BY <2>1, <2>2, <2>3, <2>6 DEF StackInv, StacksMapped
  <2> QED
    BY <2>1, <2>2, <2>4, <2>5, <2>6, <2>7, StackChange
<1> QED
  BY <1>1, <1>2, <1>3, <1>4, <1>5 DEF IInv

(***************************************************************************)
(* The invariant holds.                                                    *)
(***************************************************************************)

\* At the start no page is mapped.
LEMMA InitInv ==
  ASSUME MemInit
  PROVE  IInv
<1> USE DEF MemInit
<1>1. ToSet(<<>>) = {} /\ IsInjective(<<>>)
  BY DEF ToSet, IsInjective
<1>2. \A S : <<>> \in Seq(S)
  OBVIOUS
<1>3. BlockTypes
  <2>1. 0 \in 0 .. Word - 1
    BY MemAssumption, FS_CardinalityType
  <2> QED
    BY <1>2, <2>1 DEF BlockTypes
<1>4. LocalTypes
  <2>1. 0 \in 0 .. Word - 1
    BY MemAssumption, FS_CardinalityType
  <2>2. budget \in [{"tasks", "threads", "ends"} -> Nat]
    BY MemAssumption
  <2> QED
    BY <2>1, <2>2 DEF LocalTypes, MemPC
<1>5. ASSUME NEW p \in Page PROVE PageInv(p)
  <2>1. p \notin Mapped
    BY <1>1, MappedLinked DEF Linked
  <2>2. NotUsed(p)
    BY DEF NotUsed, UsedOf, Freeing
  <2> QED
    BY <2>1, <2>2 DEF PageInv
<1>6. ASSUME NEW e \in MemXstream PROVE LocalInv(e)
  BY DEF LocalInv, Place, TakePC
<1>7. StackInv
  <2>1. DOMAIN firstPos = {} /\ firstPos \in [DOMAIN firstPos -> 0 .. NumStacks - 1]
    <3>1. firstPos \in Seq(0 .. NumStacks - 1) /\ Len(firstPos) = 0
      BY <1>2
    <3>2. firstPos \in [1 .. 0 -> 0 .. NumStacks - 1] /\ 1 .. 0 = {}
      BY <3>1, LenProperties
    <3> QED
      BY <3>2
  <2>2. StackTypes
    BY <1>2, <2>1 DEF StackTypes
  <2>3. StacksMapped
    BY <1>1 DEF StacksMapped
  <2>4. StacksOnce
    <3>1. Len(<<>>) = 0
      OBVIOUS
    <3> QED
      BY <1>1, <3>1 DEF StacksOnce
  <2> QED
    BY <2>2, <2>3, <2>4 DEF StackInv
<1> QED
  BY <1>3, <1>4, <1>5, <1>6, <1>7 DEF IInv

\* A step that changes nothing.
LEMMA StutterKeeps ==
  ASSUME IInv, UNCHANGED memVars
  PROVE  IInv'
<1> USE DEF memVars, taskVars, pageVars, stackVars, opVars
<1>1. StackInv'
  BY StackSame DEF IInv
<1>2. budget' \in [{"tasks", "threads", "ends"} -> Nat]
  BY DEF IInv, LocalTypes
<1> QED
  BY <1>1, <1>2, ThreadSame

\* Every step keeps the invariant.
LEMMA NextKeeps ==
  ASSUME IInv, [MemNext]_memVars
  PROVE  IInv'
<1>1. ASSUME NEW e \in MemXstream, Step(e) PROVE IInv'
  <2>1. CASE \/ AllocTask(e) \/ Scan(e) \/ CheckGlobal(e) \/ TakeGlobalPage(e)
             \/ Adopted(e) \/ Ready(e) \/ NewPage(e)
    BY <2>1, AllocTaskKeeps, ScanKeeps, CheckGlobalKeeps, TakeGlobalPageKeeps,
       AdoptedKeeps, ReadyKeeps, NewPageKeeps
  <2>2. CASE TakeRead(e) \/ TakeSub(e) \/ TakeHead(e)
    BY <2>2, TakeReadKeeps, TakeSubKeeps, TakeHeadKeeps
  <2>3. CASE FreeTask(e) \/ FreePush(e) \/ FreeCount(e)
    BY <2>3, FreeTaskKeeps, FreePushKeeps, FreeCountKeeps
  <2>4. CASE EndEs(e) \/ EndPage(e) \/ EndTake(e) \/ EndKeep(e) \/ Ended(e) \/ Start(e)
    BY <2>4, EndEsKeeps, EndPageKeeps, EndTakeKeeps, EndKeepKeeps, EndedKeeps, StartKeeps
  <2>5. CASE AllocThread(e) \/ FreeThread(e)
    BY <2>5, AllocThreadKeeps, FreeThreadKeeps
  <2> QED
    BY <1>1, <2>1, <2>2, <2>3, <2>4, <2>5 DEF Step
<1>2. CASE UNCHANGED memVars
  BY <1>2, StutterKeeps
<1> QED
  BY <1>1, <1>2 DEF MemNext

\* The invariant holds in every state: it is what the theorems below follow from.
LEMMA MemInvariant == MemSpec => []IInv
<1>1. MemInit => IInv
  BY InitInv
<1>2. IInv /\ [MemNext]_memVars => IInv'
  BY NextKeeps
<1> QED
  BY <1>1, <1>2, PTL DEF MemSpec

\* A page in a list is a page.
LEMMA MappedType ==
  ASSUME IInv
  PROVE  Mapped \subseteq Page
<1>1. ToSet(globalPages) \subseteq Page
  BY ToSetType DEF IInv, BlockTypes
<1>2. ASSUME NEW e \in MemXstream PROVE ToSet(pages[e]) \subseteq Page /\ ToSet(kept[e]) \subseteq Page
  <2>1. pages[e] \in Seq(Page) /\ kept[e] \in Seq(Page)
    BY DEF IInv, BlockTypes
  <2> QED
    BY <2>1, ToSetType
<1> QED
  BY <1>1, <1>2, MappedLinked DEF Linked

\* Every variable of the memory pools keeps its type: the counters of a page stay
\* in their word, and every list holds blocks, pages or stacks.
THEOREM MemTypeCorrect == MemSpec => []MemTypeOK
<1>1. IInv => MemTypeOK
  BY DEF IInv, StackInv, MemTypeOK
<1> QED
  BY <1>1, MemInvariant, PTL

\* ABTI_mem_alloc_task never hands out a block twice: a block of a mapped page is
\* in use, on its way back, or once in one of the two lists of its page.
THEOREM MemBlocksOnce == MemSpec => []BlocksOnce
<1>1. ASSUME IInv, NEW p \in Mapped
      PROVE  LET list == head[p] \o free[p]
                 hands == {blk[e] : e \in Freeing(p, "push")}
             IN  /\ IsInjective(list)
                 /\ ToSet(list) \subseteq Blocks(p) \ (used \cup hands)
                 /\ used \cap hands = {}
                 /\ \A e, f \in Freeing(p, "push") : blk[e] = blk[f] => e = f
  <2>1. p \in Page /\ ListsOK(p)
    BY <1>1, MappedType DEF IInv, PageInv
  <2>2. head[p] \in Seq(Block) /\ free[p] \in Seq(Block)
    BY <1>1, <2>1 DEF IInv, BlockTypes
  <2>3. /\ ToSet(head[p] \o free[p]) = ToSet(head[p]) \cup ToSet(free[p])
        /\ IsInjective(head[p] \o free[p])
    BY <2>1, <2>2, ConcatSet DEF ListsOK
  <2>4. Hands(p) \subseteq Blocks(p)
    <3>1. ASSUME NEW e \in Freeing(p, "push") PROVE blk[e] \in Blocks(p)
      <4>1. blk[e] \in Block /\ PageOf(blk[e]) = p
        BY <1>1 DEF IInv, LocalInv, Freeing
      <4> QED
        BY <4>1 DEF Block, Blocks, PageOf
    <3> QED
      BY <3>1 DEF Hands
  <2> QED
    BY <2>1, <2>3, <2>4 DEF ListsOK, Hands, UsedOf
<1>2. IInv => BlocksOnce
  BY <1>1 DEF BlocksOnce
<1> QED
  BY <1>2, MemInvariant, PTL

\* ABTI_mem_finalize_local unmaps a page only when no block of it is in use and no
\* ES is in the middle of freeing one of them.
THEOREM MemNoDangling == MemSpec => []NoDangling
<1>1. IInv => NoDangling
  BY DEF IInv, PageInv, NotUsed, NoDangling
<1> QED
  BY <1>1, MemInvariant, PTL

\* The sum of the two counters of a page, modulo the word, is the number of its free
\* blocks less those being counted: what the NOTE of ABTI_mem_take_free relies on.
THEOREM MemFreeBlocks == MemSpec => []FreeBlocks
<1>1. ASSUME IInv, NEW p \in Mapped
      PROVE  (numEmpty[p] + numRemote[p]) % Word =
               (NumBlocks - Cardinality(UsedOf(p)) - Cardinality(Freeing(p, "push"))
                          - Cardinality(Freeing(p, "count"))) % Word
  <2>1. p \in Page /\ CountOK(p)
    BY <1>1, MappedType DEF IInv, PageInv
  <2>2. NumBlocks - Busy(p) = NumBlocks - Cardinality(UsedOf(p))
          - Cardinality(Freeing(p, "push")) - Cardinality(Freeing(p, "count"))
    BY <2>1, BusyBound, MemAssumption DEF Busy
  <2> QED
    BY <2>1, <2>2 DEF CountOK, Counts
<1>2. IInv => FreeBlocks
  BY <1>1 DEF FreeBlocks
<1> QED
  BY <1>2, MemInvariant, PTL

\* A stack is in use or in one list, and num_stacks is the length of the list of its
\* ES: what ABTI_mem_alloc_thread and ABTI_mem_free_thread rely on without a lock.
THEOREM MemStacksOnce == MemSpec => []StacksOnce
<1>1. IInv => StacksOnce
  BY DEF IInv, StackInv
<1> QED
  BY <1>1, MemInvariant, PTL

\* The stacks of a page come one after the other, with the headers in between.
LEMMA StackBaseValue ==
  ASSUME NEW first \in 0 .. NumStacks - 1, NEW k \in 0 .. NumStacks - 1
  PROVE  StackBase(first, k) =
           IF k < first THEN ActualSize * k ELSE ActualSize * k + HeaderSize * NumStacks
<1>1. /\ NumStacks \in Nat /\ ActualSize \in Nat /\ HeaderSize \in Nat
      /\ first \in Nat /\ k \in Nat
  BY MemAssumption
<1>2. ActualSize * first + ActualSize * (k - first) = ActualSize * k
  BY <1>1
<1>3. HeaderSize * NumStacks \in Nat /\ ActualSize * first \in Nat
      /\ ActualSize * (k - first) \in Int
  BY <1>1
<1> QED
  BY <1>1, <1>2, <1>3 DEF StackBase, Headers

\* A stack ends before the place of the next one.
LEMMA StackEnd ==
  ASSUME NEW k \in Nat, NEW j \in Nat, k < j
  PROVE  ActualSize * k \in Nat /\ ActualSize * j \in Nat
         /\ ActualSize * k + ActualSize <= ActualSize * j
<1> DEFINE d == j - (k + 1)
<1>1. d \in Nat /\ j = (k + 1) + d /\ ActualSize \in Nat
  BY MemAssumption
<1> HIDE DEF d
<1>2. ActualSize * j = ActualSize * k + ActualSize + ActualSize * d
  BY <1>1
<1>3. ActualSize * k \in Nat /\ ActualSize * j \in Nat /\ ActualSize * d \in Nat
  BY <1>1
<1> QED
  BY <1>1, <1>2, <1>3

\* The stacks that ABTI_mem_alloc_thread cuts out of a stack page overlap neither
\* each other nor the row of headers, and stay in the page, for all sizes.
THEOREM MemStacksApart == MemSpec => []StacksApart
<1>1. ASSUME StackTypes, NEW sp \in DOMAIN firstPos, NEW k \in 0 .. NumStacks - 1
      PROVE  LET first == firstPos[sp]
                 base  == StackBase(first, k)
             IN  /\ 0 <= base /\ base + ActualSize <= NumStacks * (HeaderSize + ActualSize)
                 /\ \/ base + ActualSize <= Headers(first)
                    \/ Headers(first) + HeaderSize * NumStacks <= base
                 /\ \A j \in k + 1 .. NumStacks - 1 : base + ActualSize <= StackBase(first, j)
  <2>1. PICK first \in 0 .. NumStacks - 1 : first = firstPos[sp]
    BY <1>1 DEF StackTypes
  <2>2. PICK rows \in Nat : rows = HeaderSize * NumStacks
    BY MemAssumption
  <2>3. NumStacks * (HeaderSize + ActualSize) = rows + ActualSize * NumStacks
    BY <2>2, MemAssumption
  <2>4. NumStacks \in Nat /\ ActualSize \in Nat /\ k \in Nat /\ first \in Nat
    BY MemAssumption
  <2>5. ActualSize * k \in Nat /\ ActualSize * k + ActualSize <= ActualSize * NumStacks
        /\ ActualSize * NumStacks \in Nat
    BY <2>4, StackEnd
  <2>6. /\ ActualSize * first \in Nat
        /\ k < first => ActualSize * k + ActualSize <= ActualSize * first
        /\ first <= k => ActualSize * first <= ActualSize * k
    <3>1. CASE k < first
      BY <2>4, <3>1, StackEnd
    <3>2. CASE k = first
      BY <2>4, <2>5, <3>2
    <3>3. CASE first < k
      <4>1. /\ ActualSize * first \in Nat
            /\ ActualSize * first + ActualSize <= ActualSize * k
        BY <2>4, <3>3, StackEnd
      <4> QED
        BY <2>4, <2>5, <3>3, <4>1
    <3> QED
      BY <2>4, <3>1, <3>2, <3>3
  <2>7. StackBase(first, k) = IF k < first THEN ActualSize * k ELSE ActualSize * k + rows
    BY <2>2, StackBaseValue
  <2>8. ASSUME NEW j \in k + 1 .. NumStacks - 1
        PROVE  StackBase(first, k) + ActualSize <= StackBase(first, j)
    <3>1. j \in 0 .. NumStacks - 1 /\ k < j /\ j \in Nat
      BY <2>4
    <3>2. ActualSize * j \in Nat /\ ActualSize * k + ActualSize <= ActualSize * j
      BY <2>4, <3>1, StackEnd
    <3>3. StackBase(first, j) = IF j < first THEN ActualSize * j ELSE ActualSize * j + rows
      BY <2>2, <3>1, StackBaseValue
    <3> QED
      BY <2>4, <2>5, <2>7, <3>1, <3>2, <3>3
  <2>9. Headers(first) = ActualSize * first
    BY DEF Headers
  <2>10. /\ 0 <= StackBase(first, k)
         /\ StackBase(first, k) + ActualSize <= NumStacks * (HeaderSize + ActualSize)
         /\ \/ StackBase(first, k) + ActualSize <= Headers(first)
            \/ Headers(first) + HeaderSize * NumStacks <= StackBase(first, k)
    BY <2>2, <2>3, <2>4, <2>5, <2>6, <2>7, <2>9
  <2> QED
    BY <2>1, <2>8, <2>10
<1>2. IInv => StacksApart
  BY <1>1 DEF IInv, StackInv, StacksApart
<1> QED
  BY <1>2, MemInvariant, PTL

(***************************************************************************)
(* The schedulers of BOLT and the stealing of units.  Of the variables,    *)
(* those that have the same name in Steal as in Stream are shared by the   *)
(* instance: what is proved of it holds for any values they have, and uses *)
(* nothing that was proved about Stream.  The constants are its own.       *)
(***************************************************************************)

CONSTANTS OmpThread, OmpTask, OmpXstreams, OmpPool, OmpProgram, NoUnit

VARIABLES waking, emptyList, esState, stateList, unit

Bolt == INSTANCE Steal WITH Thread <- OmpThread, Task <- OmpTask, N <- OmpXstreams,
                            InitPool <- OmpPool, Program <- OmpProgram

BoltTypes ==
  /\ pool \in [Bolt!Pool -> Seq(Bolt!Unit)]
  /\ home \in [Bolt!Unit -> Bolt!Pool]
  /\ state \in [Bolt!Unit -> {"READY", "RUNNING", "BLOCKED", "TERMINATED", "LOST"}]
  /\ request \in [OmpThread -> SUBSET {"BLOCK", "TERMINATE"}]
  /\ xpc \in [Bolt!Xstream -> Bolt!XPC]
  /\ running \in [Bolt!Xstream -> OmpThread \cup {NoUnit}]
  /\ unit \in [Bolt!Xstream -> Bolt!Unit \cup {NoUnit}]
  /\ at \in [Bolt!Xstream -> 0 .. OmpXstreams]

Holds(e, u) == running[e] = u \/ unit[e] = u
UnitAsleep(u) == u \in OmpThread /\ state[u] = "BLOCKED" /\ request[u] = {}
UnitGone(u) == state[u] \in {"TERMINATED", "LOST"}
UnitReady(u) == state[u] = "READY" /\ (u \in OmpThread => request[u] = {})

\* A unit in a pool is ready, and in no hands; one in hands is in those of one ES; one that
\* is in neither sleeps or is gone.
UnitOK(u) ==
  /\ \A p \in Bolt!Pool : Contains(pool[p], u) => /\ home[u] = p
                                                  /\ UnitReady(u)
                                                  /\ \A e \in Bolt!Xstream : ~Holds(e, u)
  /\ \A e, f \in Bolt!Xstream : Holds(e, u) /\ Holds(f, u) => e = f
  /\ \/ \E e \in Bolt!Xstream : Holds(e, u)
     \/ Contains(pool[home[u]], u)
     \/ UnitAsleep(u)
     \/ UnitGone(u)

\* The ULT that an ES runs or gets back is in the state that its last call has left it in;
\* a unit that it moves is ready.
HandsOK(e) ==
  /\ running[e] # NoUnit <=> xpc[e] \in {"ult", "ret"}
  /\ unit[e] # NoUnit <=> xpc[e] = "move"
  /\ xpc[e] = "ult" => state[running[e]] = "RUNNING" /\ request[running[e]] = {}
  /\ xpc[e] = "ret" => \/ UnitReady(running[e])
                       \/ state[running[e]] = "BLOCKED" /\ request[running[e]] = {"BLOCK"}
                       \/ state[running[e]] = "RUNNING" /\ request[running[e]] = {"TERMINATE"}
  /\ xpc[e] = "move" => UnitReady(unit[e])

BoltInv ==
  /\ BoltTypes
  /\ \A p \in Bolt!Pool : IsInjective(pool[p])
  /\ \A u \in Bolt!Unit : UnitOK(u)
  /\ \A e \in Bolt!Xstream : HandsOK(e)

\* The operators of the community modules, as the instance names them.
LEMMA BoltOperators ==
  /\ \A s, u : Bolt!Contains(s, u) <=> Contains(s, u)
  /\ \A s : Bolt!IsInjective(s) <=> IsInjective(s)
<1>1. ASSUME NEW s, NEW u PROVE Bolt!Contains(s, u) <=> Contains(s, u)
  BY DEF Bolt!Contains, Contains
<1>2. ASSUME NEW s PROVE Bolt!IsInjective(s) <=> IsInjective(s)
  BY DEF Bolt!IsInjective, IsInjective
<1> QED
  BY <1>1, <1>2

LEMMA BoltNull ==
  ASSUME Bolt!StealAssumption
  PROVE  /\ NoUnit \notin Bolt!Unit
         /\ OmpThread \subseteq Bolt!Unit /\ OmpTask \subseteq Bolt!Unit
         /\ OmpThread \cap OmpTask = {}
         /\ OmpXstreams \in Nat \ {0}
BY DEF Bolt!StealAssumption, Bolt!Unit

\* The pools of a scheduler are pools.
LEMMA BoltPools ==
  ASSUME Bolt!StealAssumption, NEW e \in Bolt!Xstream
  PROVE  /\ \A i \in 0 .. OmpXstreams : Bolt!SchedPools(e)[i] \in Bolt!Pool
         /\ Bolt!MyShared(e) \in Bolt!Pool
<1>1. OmpXstreams \in Nat /\ OmpXstreams > 0 /\ e \in 0 .. OmpXstreams - 1
  BY BoltNull DEF Bolt!Xstream
<1>2. ASSUME NEW i \in 1 .. OmpXstreams
      PROVE  (e + i - 1) % OmpXstreams \in 0 .. OmpXstreams - 1
  BY <1>1
<1>3. ASSUME NEW i \in 0 .. OmpXstreams PROVE Bolt!SchedPools(e)[i] \in Bolt!Pool
  <2>1. CASE i = 0
    BY <2>1 DEF Bolt!SchedPools, Bolt!Pool
  <2>2. CASE i # 0
    <3>1. i \in 1 .. OmpXstreams
      BY <2>2, <1>1
    <3>2. Bolt!SchedPools(e)[i] = <<"shared", (e + i - 1) % OmpXstreams>>
      BY <2>2 DEF Bolt!SchedPools
    <3> QED
      BY <3>1, <3>2, <1>2 DEF Bolt!Pool, Bolt!Xstream
  <2> QED
    BY <2>1, <2>2
<1> QED
  BY <1>3 DEF Bolt!MyShared, Bolt!Pool

LEMMA BoltInitial ==
  ASSUME Bolt!StealAssumption, Bolt!Init
  PROVE  BoltInv
<1>1. /\ pool = OmpPool /\ OmpPool \in [Bolt!Pool -> Seq(Bolt!Unit)]
      /\ \A p \in Bolt!Pool : IsInjective(OmpPool[p])
      /\ \A u \in Bolt!Unit : \E p \in Bolt!Pool : \A q \in Bolt!Pool :
           Contains(OmpPool[q], u) <=> q = p
  BY BoltOperators DEF Bolt!StealAssumption, Bolt!Init
<1>2. \A u \in Bolt!Unit : /\ home[u] \in Bolt!Pool
                           /\ \A q \in Bolt!Pool : Contains(pool[q], u) <=> q = home[u]
  <2> SUFFICES ASSUME NEW u \in Bolt!Unit
               PROVE  /\ home[u] \in Bolt!Pool
                      /\ \A q \in Bolt!Pool : Contains(pool[q], u) <=> q = home[u]
    OBVIOUS
  <2>1. PICK p \in Bolt!Pool : \A q \in Bolt!Pool : Contains(OmpPool[q], u) <=> q = p
    BY <1>1
  <2>2. home[u] = CHOOSE q \in Bolt!Pool : Bolt!Contains(OmpPool[q], u)
    BY DEF Bolt!Init
  <2>3. home[u] \in Bolt!Pool /\ Bolt!Contains(OmpPool[home[u]], u)
    <3>1. Bolt!Contains(OmpPool[p], u)
      BY <2>1, BoltOperators
    <3> QED
      BY <2>2, <3>1
  <2> QED
    BY <2>1, <2>3, <1>1, BoltOperators
<1>3. /\ state = [u \in Bolt!Unit |-> "READY"]
      /\ request = [u \in OmpThread |-> {}]
      /\ xpc = [e \in Bolt!Xstream |-> "loop"]
      /\ running = [e \in Bolt!Xstream |-> NoUnit]
      /\ unit = [e \in Bolt!Xstream |-> NoUnit]
      /\ at = [e \in Bolt!Xstream |-> 0]
      /\ home = [u \in Bolt!Unit |-> home[u]]
  BY DEF Bolt!Init
<1>4. BoltTypes
  <2>1. 0 \in 0 .. OmpXstreams /\ "loop" \in Bolt!XPC
    BY BoltNull DEF Bolt!XPC
  <2>2. home \in [Bolt!Unit -> Bolt!Pool]
    BY <1>2, <1>3
  <2> QED
    BY <1>1, <1>3, <2>1, <2>2 DEF BoltTypes
<1>5. \A u \in Bolt!Unit : UnitOK(u)
  BY <1>2, <1>3, BoltNull DEF UnitOK, Holds, UnitReady
<1>6. \A e \in Bolt!Xstream : HandsOK(e)
  BY <1>3 DEF HandsOK
<1> QED
  BY <1>1, <1>4, <1>5, <1>6 DEF BoltInv

\* A step of e that handles u leaves every other unit, and what the other ESs hold, as it is.
OthersStay(e, u) ==
  /\ \A v \in Bolt!Unit : v # u =>
       /\ \A p \in Bolt!Pool : Contains(pool'[p], v) <=> Contains(pool[p], v)
       /\ home'[v] = home[v] /\ state'[v] = state[v]
       /\ v \in OmpThread => request'[v] = request[v]
       /\ Holds(e, v)' <=> Holds(e, v)
  /\ \A f \in Bolt!Xstream : f # e =>
       xpc'[f] = xpc[f] /\ running'[f] = running[f] /\ unit'[f] = unit[f]

LEMMA OtherUnits ==
  ASSUME Bolt!StealAssumption, BoltInv, BoltTypes', NEW e, NEW u, OthersStay(e, u)
  PROVE  \A v \in Bolt!Unit : v # u => UnitOK(v)'
<1> SUFFICES ASSUME NEW v \in Bolt!Unit, v # u
             PROVE  UnitOK(v)'
  OBVIOUS
<1>1. UnitOK(v) /\ home[v] \in Bolt!Pool
  BY DEF BoltInv, BoltTypes
<1>2. /\ \A p \in Bolt!Pool : Contains(pool'[p], v) <=> Contains(pool[p], v)
      /\ home'[v] = home[v] /\ state'[v] = state[v]
      /\ v \in OmpThread => request'[v] = request[v]
      /\ \A f \in Bolt!Xstream : Holds(f, v)' <=> Holds(f, v)
  BY DEF OthersStay, Holds
<1>3. /\ UnitReady(v)' <=> UnitReady(v)
      /\ UnitAsleep(v)' <=> UnitAsleep(v)
      /\ UnitGone(v)' <=> UnitGone(v)
  BY <1>2 DEF UnitReady, UnitAsleep, UnitGone
<1> QED
  BY <1>1, <1>2, <1>3 DEF UnitOK

\* What the other ESs have in their hands is not u.
LEMMA OtherHands ==
  ASSUME Bolt!StealAssumption, BoltInv, NEW e, NEW u, OthersStay(e, u),
         \A f \in Bolt!Xstream : f # e => ~Holds(f, u)
  PROVE  \A f \in Bolt!Xstream : f # e => HandsOK(f)'
<1> SUFFICES ASSUME NEW f \in Bolt!Xstream, f # e
             PROVE  HandsOK(f)'
  OBVIOUS
<1>1. HandsOK(f) /\ running[f] \in OmpThread \cup {NoUnit} /\ unit[f] \in Bolt!Unit \cup {NoUnit}
  BY DEF BoltInv, BoltTypes
<1>2. xpc'[f] = xpc[f] /\ running'[f] = running[f] /\ unit'[f] = unit[f]
  BY DEF OthersStay
<1>3. running[f] # u /\ unit[f] # u
  BY DEF Holds
<1>4. ASSUME NEW v \in Bolt!Unit, v # u
      PROVE  state'[v] = state[v] /\ (v \in OmpThread => request'[v] = request[v])
  BY <1>4 DEF OthersStay
<1>5. CASE xpc[f] \in {"ult", "ret"}
  <2>1. running[f] \in OmpThread /\ xpc[f] # "move"
    BY <1>1, <1>5 DEF HandsOK
  <2>2. state'[running[f]] = state[running[f]] /\ request'[running[f]] = request[running[f]]
    BY <2>1, <1>3, <1>4, BoltNull
  <2> QED
    BY <1>1, <1>2, <2>1, <2>2 DEF HandsOK, UnitReady
<1>6. CASE xpc[f] = "move"
  <2>1. unit[f] \in Bolt!Unit
    BY <1>1, <1>6 DEF HandsOK
  <2>2. /\ state'[unit[f]] = state[unit[f]]
        /\ unit[f] \in OmpThread => request'[unit[f]] = request[unit[f]]
    BY <2>1, <1>3, <1>4
  <2> QED
    BY <1>1, <1>2, <1>6, <2>1, <2>2 DEF HandsOK, UnitReady
<1>7. CASE xpc[f] \notin {"ult", "ret", "move"}
  BY <1>1, <1>2, <1>7 DEF HandsOK
<1> QED
  BY <1>5, <1>6, <1>7

\* The queue of p loses its head, or gets a unit that it did not have.
LEMMA BoltPop ==
  ASSUME BoltInv, NEW p \in Bolt!Pool, pool[p] # <<>>, Bolt!Pop(p)
  PROVE  /\ Head(pool[p]) \in Bolt!Unit
         /\ Contains(pool[p], Head(pool[p]))
         /\ pool' \in [Bolt!Pool -> Seq(Bolt!Unit)]
         /\ \A q \in Bolt!Pool : IsInjective(pool'[q])
         /\ \A q \in Bolt!Pool : ~Contains(pool'[q], Head(pool[p]))
         /\ \A v : v # Head(pool[p]) =>
              \A q \in Bolt!Pool : Contains(pool'[q], v) <=> Contains(pool[q], v)
<1> DEFINE u == Head(pool[p])
<1>1. /\ pool \in [Bolt!Pool -> Seq(Bolt!Unit)]
      /\ \A q \in Bolt!Pool : IsInjective(pool[q])
      /\ pool' = [pool EXCEPT ![p] = Tail(@)]
  BY DEF BoltInv, BoltTypes, Bolt!Pop
<1>2. /\ u \in Bolt!Unit /\ Contains(pool[p], u)
      /\ Tail(pool[p]) \in Seq(Bolt!Unit)
      /\ \A v : v # u => (Contains(Tail(pool[p]), v) <=> Contains(pool[p], v))
      /\ IsInjective(Tail(pool[p])) /\ ~Contains(Tail(pool[p]), u)
  BY <1>1, PopUnit
<1>3. pool'[p] = Tail(pool[p]) /\ \A q \in Bolt!Pool : q # p => pool'[q] = pool[q]
  BY <1>1
<1>4. \A q \in Bolt!Pool : q # p => ~Contains(pool[q], u)
  BY <1>2 DEF BoltInv, UnitOK
<1> QED
  BY <1>1, <1>2, <1>3, <1>4

LEMMA BoltPush ==
  ASSUME BoltInv, NEW p \in Bolt!Pool, NEW u \in Bolt!Unit, ~Contains(pool[p], u), Bolt!Push(u, p)
  PROVE  /\ pool' \in [Bolt!Pool -> Seq(Bolt!Unit)]
         /\ \A q \in Bolt!Pool : IsInjective(pool'[q])
         /\ Contains(pool'[p], u)
         /\ \A q \in Bolt!Pool : q # p => (Contains(pool'[q], u) <=> Contains(pool[q], u))
         /\ \A v : v # u =>
              \A q \in Bolt!Pool : Contains(pool'[q], v) <=> Contains(pool[q], v)
<1>1. /\ pool \in [Bolt!Pool -> Seq(Bolt!Unit)]
      /\ \A q \in Bolt!Pool : IsInjective(pool[q])
      /\ pool' = [pool EXCEPT ![p] = Append(@, u)]
  BY DEF BoltInv, BoltTypes, Bolt!Push
<1>2. /\ Append(pool[p], u) \in Seq(Bolt!Unit)
      /\ \A v : Contains(Append(pool[p], u), v) <=> Contains(pool[p], v) \/ v = u
      /\ IsInjective(Append(pool[p], u))
  BY <1>1, PushUnit
<1>3. pool'[p] = Append(pool[p], u) /\ \A q \in Bolt!Pool : q # p => pool'[q] = pool[q]
  BY <1>1
<1> QED
  BY <1>1, <1>2, <1>3

\* The steps that move no unit: e goes on with its loop.
LEMMA BoltQuiet ==
  ASSUME Bolt!StealAssumption, BoltInv, NEW e \in Bolt!Xstream,
         UNCHANGED <<pool, home, state, request, running, unit>>,
         NEW l \in Bolt!XPC \ {"ult", "ret", "move"}, xpc' = [xpc EXCEPT ![e] = l],
         xpc[e] \notin {"ult", "ret", "move"},
         at' \in [Bolt!Xstream -> 0 .. OmpXstreams]
  PROVE  BoltInv'
<1>1. /\ BoltTypes /\ \A p \in Bolt!Pool : IsInjective(pool[p])
      /\ \A u \in Bolt!Unit : UnitOK(u)
      /\ \A f \in Bolt!Xstream : HandsOK(f)
  BY DEF BoltInv
<1>2. BoltTypes'
  BY <1>1 DEF BoltTypes
<1>3. \A u \in Bolt!Unit : UnitOK(u)'
  BY <1>1 DEF UnitOK, UnitReady, UnitAsleep, UnitGone, Holds
<1>4. /\ xpc'[e] = l
      /\ \A f \in Bolt!Xstream : f # e => xpc'[f] = xpc[f]
  BY <1>1 DEF BoltTypes
<1>5. HandsOK(e)'
  BY <1>1, <1>4 DEF HandsOK
<1>6. ASSUME NEW f \in Bolt!Xstream, f # e PROVE HandsOK(f)'
  <2>1. HandsOK(f) /\ xpc'[f] = xpc[f]
    BY <1>1, <1>4, <1>6
  <2> QED
    BY <2>1 DEF HandsOK, UnitReady
<1> QED
  BY <1>1, <1>2, <1>3, <1>5, <1>6 DEF BoltInv

\* Where a scheduler goes after a pool, and that it handles one of its pools there.
LEMMA BoltPosition ==
  ASSUME Bolt!StealAssumption, BoltInv, NEW e \in Bolt!Xstream
  PROVE  /\ at[e] \in 0 .. OmpXstreams
         /\ Bolt!At(e) \in Bolt!Pool
         /\ \A i \in 0 .. OmpXstreams :
              [at EXCEPT ![e] = i] \in [Bolt!Xstream -> 0 .. OmpXstreams]
         /\ Bolt!NextPool(e) =>
              /\ at' \in [Bolt!Xstream -> 0 .. OmpXstreams]
              /\ \E l \in {"scan", "steal"} : xpc' = [xpc EXCEPT ![e] = l]
<1>1. at \in [Bolt!Xstream -> 0 .. OmpXstreams] /\ OmpXstreams \in Nat /\ 1 \in 0 .. OmpXstreams
  BY BoltNull DEF BoltInv, BoltTypes
<1>2. Bolt!At(e) \in Bolt!Pool
  BY <1>1, BoltPools DEF Bolt!At
<1>3. ASSUME Bolt!NextPool(e)
      PROVE  /\ at' \in [Bolt!Xstream -> 0 .. OmpXstreams]
             /\ \E l \in {"scan", "steal"} : xpc' = [xpc EXCEPT ![e] = l]
  <2>1. at' = [at EXCEPT ![e] = IF at[e] = 0 THEN 1 ELSE at[e]]
    BY <1>1, <1>3 DEF Bolt!NextPool
  <2>2. at' \in [Bolt!Xstream -> 0 .. OmpXstreams]
    BY <1>1, <2>1
  <2> QED
    BY <1>3, <2>2 DEF Bolt!NextPool, Bolt!Goto
<1> QED
  BY <1>1, <1>2, <1>3

LEMMA BoltLoops ==
  ASSUME Bolt!StealAssumption, BoltInv, NEW e \in Bolt!Xstream,
         \/ Bolt!Scan(e) \/ Bolt!PopNothing(e) \/ Bolt!Check(e) \/ Bolt!PopMoveNothing(e)
         \/ Bolt!Steal(e) \/ Bolt!Round(e) \/ Bolt!GetInfo(e) \/ Bolt!SetRInfo(e)
         \/ Bolt!SetSInfo(e)
  PROVE  BoltInv'
<1> DEFINE Stays == UNCHANGED <<pool, home, state, request, running, unit>>
           Leads(l) == xpc' = [xpc EXCEPT ![e] = l]
           Loops == {"loop", "set_s", "scan", "pop", "check", "again", "steal"}
<1>0. /\ Loops \subseteq Bolt!XPC \ {"ult", "ret", "move"}
      /\ xpc \in [Bolt!Xstream -> Bolt!XPC]
      /\ at \in [Bolt!Xstream -> 0 .. OmpXstreams]
      /\ 0 \in 0 .. OmpXstreams
  BY BoltNull DEF Bolt!XPC, BoltInv, BoltTypes
<1>1. ASSUME Stays, NEW l \in Loops, Leads(l), xpc[e] \in Loops,
             at' \in [Bolt!Xstream -> 0 .. OmpXstreams]
      PROVE  BoltInv'
  BY <1>0, <1>1, BoltQuiet
<1>2. CASE Bolt!Scan(e)
  <2>1. Stays /\ xpc[e] = "scan" /\ ((Leads("pop") /\ at' = at) \/ Bolt!NextPool(e))
    BY <1>2 DEF Bolt!Scan, Bolt!Goto, Bolt!threadVars
  <2>2. at' \in [Bolt!Xstream -> 0 .. OmpXstreams]
    BY <2>1, <1>0, BoltPosition
  <2> HIDE DEF Stays
  <2> QED
    BY <2>1, <2>2, <1>1, BoltPosition
<1>3. CASE Bolt!PopNothing(e)
  BY <1>0, <1>1, <1>3 DEF Bolt!PopNothing, Bolt!Goto, Bolt!threadVars
<1>4. CASE Bolt!Check(e)
  <2>1. Stays /\ xpc[e] = "check" /\ ((Leads("again") /\ at' = at) \/ Bolt!NextPool(e))
    BY <1>4 DEF Bolt!Check, Bolt!Goto, Bolt!threadVars
  <2>2. at' \in [Bolt!Xstream -> 0 .. OmpXstreams]
    BY <2>1, <1>0, BoltPosition
  <2> HIDE DEF Stays
  <2> QED
    BY <2>1, <2>2, <1>1, BoltPosition
<1>5. CASE Bolt!PopMoveNothing(e)
  <2>1. /\ Stays /\ xpc[e] = "again"
        /\ (Leads("loop") /\ at' = [at EXCEPT ![e] = 0]) \/ Bolt!NextPool(e)
    BY <1>5 DEF Bolt!PopMoveNothing, Bolt!Goto, Bolt!threadVars
  <2>2. CASE Leads("loop") /\ at' = [at EXCEPT ![e] = 0]
    <3>1. at' \in [Bolt!Xstream -> 0 .. OmpXstreams]
      BY <2>2, <1>0, BoltPosition
    <3> QED
      BY <2>1, <2>2, <3>1, <1>1
  <2>3. CASE Bolt!NextPool(e)
    BY <2>1, <2>3, <1>1, BoltPosition
  <2> QED
    BY <2>1, <2>2, <2>3
<1>6. CASE Bolt!Steal(e)
  <2>1. Stays /\ xpc[e] = "steal"
    BY <1>6 DEF Bolt!Steal, Bolt!threadVars
  <2>2. PICK i \in 2 .. OmpXstreams :
          \/ Leads("again") /\ at' = [at EXCEPT ![e] = i]
          \/ Leads("loop") /\ at' = [at EXCEPT ![e] = 0]
    BY <1>6 DEF Bolt!Steal, Bolt!Goto
  <2>3. i \in 0 .. OmpXstreams
    BY BoltNull
  <2>4. at' \in [Bolt!Xstream -> 0 .. OmpXstreams]
    BY <2>2, <2>3, <1>0, BoltPosition
  <2>5. \E l \in {"again", "loop"} : Leads(l)
    BY <2>2
  <2> HIDE DEF Stays
  <2> QED
    BY <2>1, <2>4, <2>5, <1>1
<1>7. CASE Bolt!Round(e)
  <2>1. Stays /\ xpc[e] = "loop" /\ Leads("scan") /\ at' = [at EXCEPT ![e] = 0]
    BY <1>7 DEF Bolt!Round, Bolt!Goto, Bolt!threadVars
  <2>2. at' \in [Bolt!Xstream -> 0 .. OmpXstreams]
    BY <2>1, <1>0, BoltPosition
  <2> HIDE DEF Stays
  <2> QED
    BY <2>1, <2>2, <1>1, BoltPosition
<1>8. CASE Bolt!GetInfo(e)
  <2>1. Stays /\ xpc[e] = "loop" /\ xpc' = xpc /\ at' = at
    BY <1>8 DEF Bolt!GetInfo, Bolt!threadVars
  <2>2. Leads("loop")
    BY <2>1, <1>0
  <2> QED
    BY <2>1, <2>2, <1>0, <1>1
<1>9. CASE Bolt!SetRInfo(e)
  BY <1>0, <1>1, <1>9 DEF Bolt!SetRInfo, Bolt!Goto, Bolt!threadVars
<1>10. CASE Bolt!SetSInfo(e)
  <2>1. Stays /\ xpc[e] = "set_s" /\ Leads("scan") /\ at' = [at EXCEPT ![e] = 0]
    BY <1>10 DEF Bolt!SetSInfo, Bolt!Goto, Bolt!threadVars
  <2>2. at' \in [Bolt!Xstream -> 0 .. OmpXstreams]
    BY <2>1, <1>0, BoltPosition
  <2> HIDE DEF Stays
  <2> QED
    BY <2>1, <2>2, <1>1, BoltPosition
<1> QED
  BY <1>2, <1>3, <1>4, <1>5, <1>6, <1>7, <1>8, <1>9, <1>10

\* A pop takes u from its pool into the hands of e, or loses it, if it is a tasklet.
LEMMA BoltPopRun ==
  ASSUME Bolt!StealAssumption, BoltInv, NEW e \in Bolt!Xstream, Bolt!PopRun(e)
  PROVE  BoltInv'
<1> PICK p \in Bolt!Pool : p = Bolt!At(e)
  BY BoltPosition
<1> PICK u : u = Head(pool[p])
  OBVIOUS
<1>1. /\ BoltTypes /\ xpc[e] = "pop"
      /\ pool[p] # <<>> /\ Bolt!Pop(p)
      /\ UNCHANGED <<home, request, unit, at>>
  BY BoltPosition DEF Bolt!PopRun, BoltInv
<1>2. /\ u \in Bolt!Unit /\ Contains(pool[p], u)
      /\ pool' \in [Bolt!Pool -> Seq(Bolt!Unit)]
      /\ \A q \in Bolt!Pool : IsInjective(pool'[q]) /\ ~Contains(pool'[q], u)
      /\ \A v : v # u => \A q \in Bolt!Pool : Contains(pool'[q], v) <=> Contains(pool[q], v)
  BY <1>1, BoltPop
<1>3. UnitReady(u) /\ \A f \in Bolt!Xstream : ~Holds(f, u)
  BY <1>1, <1>2 DEF BoltInv, UnitOK
<1>4. HandsOK(e) /\ running[e] = NoUnit /\ unit[e] = NoUnit
  BY <1>1 DEF BoltInv, HandsOK
<1>5. u # NoUnit /\ (u \in OmpThread => u \notin OmpTask)
  BY <1>2, BoltNull
<1>6. CASE /\ u \in OmpThread
           /\ running' = [running EXCEPT ![e] = u]
           /\ state' = [state EXCEPT ![u] = "RUNNING"]
           /\ Bolt!Goto(e, "ult")
  <2>1. xpc' = [xpc EXCEPT ![e] = "ult"] /\ "ult" \in Bolt!XPC
    BY <1>6 DEF Bolt!Goto, Bolt!XPC
  <2>2. BoltTypes'
    BY <1>1, <1>2, <1>6, <2>1 DEF BoltTypes
  <2>3. /\ xpc'[e] = "ult" /\ running'[e] = u /\ unit'[e] = NoUnit /\ state'[u] = "RUNNING"
        /\ \A f \in Bolt!Xstream : f # e =>
             xpc'[f] = xpc[f] /\ running'[f] = running[f] /\ unit'[f] = unit[f]
        /\ \A v \in Bolt!Unit : v # u => state'[v] = state[v]
    BY <1>1, <1>2, <1>4, <1>6, <2>1 DEF BoltTypes
  <2>4. OthersStay(e, u)
    <3>1. \A v \in Bolt!Unit : v # u => (Holds(e, v)' <=> Holds(e, v))
      BY <1>4, <2>3, BoltNull DEF Holds
    <3> QED
      BY <1>1, <1>2, <2>3, <3>1 DEF OthersStay
  <2>5. UnitOK(u)'
    <3>1. Holds(e, u)' /\ \A f \in Bolt!Xstream : f # e => ~Holds(f, u)'
      BY <1>3, <2>3 DEF Holds
    <3> QED
      BY <1>2, <3>1 DEF UnitOK
  <2>6. HandsOK(e)'
    BY <1>1, <1>3, <1>5, <1>6, <2>3 DEF HandsOK, UnitReady
  <2> QED
    BY <1>2, <1>3, <2>2, <2>4, <2>5, <2>6, OtherUnits, OtherHands DEF BoltInv
<1>7. CASE /\ u \in OmpTask
           /\ state' = [state EXCEPT ![u] = "LOST"]
           /\ Bolt!Goto(e, "check")
           /\ running' = running
  <2>1. xpc' = [xpc EXCEPT ![e] = "check"] /\ "check" \in Bolt!XPC
    BY <1>7 DEF Bolt!Goto, Bolt!XPC
  <2>2. BoltTypes'
    BY <1>1, <1>2, <1>7, <2>1 DEF BoltTypes
  <2>3. /\ xpc'[e] = "check" /\ state'[u] = "LOST"
        /\ \A f \in Bolt!Xstream : f # e => xpc'[f] = xpc[f]
        /\ \A v \in Bolt!Unit : v # u => state'[v] = state[v]
    BY <1>1, <1>2, <1>7, <2>1 DEF BoltTypes
  <2>4. OthersStay(e, u)
    BY <1>1, <1>2, <1>7, <2>3 DEF OthersStay, Holds
  <2>5. UnitOK(u)'
    BY <1>1, <1>2, <1>3, <1>7, <2>3 DEF UnitOK, UnitGone, Holds
  <2>6. HandsOK(e)'
    BY <1>1, <1>4, <1>7, <2>3 DEF HandsOK
  <2> QED
    BY <1>2, <1>3, <2>2, <2>4, <2>5, <2>6, OtherUnits, OtherHands DEF BoltInv
<1> QED
  BY <1>6, <1>7 DEF Bolt!PopRun

\* The unit that is to be moved leaves its pool for the hands of e.
LEMMA BoltPopMove ==
  ASSUME Bolt!StealAssumption, BoltInv, NEW e \in Bolt!Xstream, Bolt!PopMove(e)
  PROVE  BoltInv'
<1> PICK p \in Bolt!Pool : p = Bolt!At(e)
  BY BoltPosition
<1> PICK u : u = Head(pool[p])
  OBVIOUS
<1>1. /\ BoltTypes /\ xpc[e] = "again"
      /\ pool[p] # <<>> /\ Bolt!Pop(p)
      /\ unit' = [unit EXCEPT ![e] = u]
      /\ xpc' = [xpc EXCEPT ![e] = "move"] /\ "move" \in Bolt!XPC
      /\ UNCHANGED <<home, state, request, running, at>>
  BY DEF Bolt!PopMove, Bolt!Goto, Bolt!threadVars, Bolt!XPC, BoltInv
<1>2. /\ u \in Bolt!Unit /\ Contains(pool[p], u)
      /\ pool' \in [Bolt!Pool -> Seq(Bolt!Unit)]
      /\ \A q \in Bolt!Pool : IsInjective(pool'[q]) /\ ~Contains(pool'[q], u)
      /\ \A v : v # u => \A q \in Bolt!Pool : Contains(pool'[q], v) <=> Contains(pool[q], v)
  BY <1>1, BoltPop
<1>3. UnitReady(u) /\ \A f \in Bolt!Xstream : ~Holds(f, u)
  BY <1>1, <1>2 DEF BoltInv, UnitOK
<1>4. HandsOK(e) /\ running[e] = NoUnit /\ unit[e] = NoUnit /\ u # NoUnit
  BY <1>1, <1>2, BoltNull DEF BoltInv, HandsOK
<1>5. BoltTypes'
  BY <1>1, <1>2 DEF BoltTypes
<1>6. /\ xpc'[e] = "move" /\ running'[e] = NoUnit /\ unit'[e] = u
      /\ \A f \in Bolt!Xstream : f # e =>
           xpc'[f] = xpc[f] /\ running'[f] = running[f] /\ unit'[f] = unit[f]
  BY <1>1, <1>4 DEF BoltTypes
<1>7. OthersStay(e, u)
  <2>1. \A v \in Bolt!Unit : v # u => (Holds(e, v)' <=> Holds(e, v))
    BY <1>4, <1>6, BoltNull DEF Holds
  <2> QED
    BY <1>1, <1>2, <1>6, <2>1 DEF OthersStay
<1>8. UnitOK(u)'
  <2>1. Holds(e, u)' /\ \A f \in Bolt!Xstream : f # e => ~Holds(f, u)'
    BY <1>3, <1>6 DEF Holds
  <2> QED
    BY <1>2, <2>1 DEF UnitOK
<1>9. HandsOK(e)'
  BY <1>1, <1>3, <1>4, <1>6 DEF HandsOK, UnitReady
<1> QED
  BY <1>2, <1>3, <1>5, <1>7, <1>8, <1>9, OtherUnits, OtherHands DEF BoltInv

\* ... and from there it goes to the shared pool of e, which is its home from then on.
LEMMA BoltMove ==
  ASSUME Bolt!StealAssumption, BoltInv, NEW e \in Bolt!Xstream, Bolt!Move(e)
  PROVE  BoltInv'
<1> PICK p \in Bolt!Pool : p = Bolt!MyShared(e)
  BY BoltPools
<1> PICK u : u = unit[e]
  OBVIOUS
<1>1. /\ BoltTypes /\ xpc[e] = "move" /\ u \in Bolt!Unit /\ Holds(e, u)
      /\ HandsOK(e) /\ running[e] = NoUnit /\ UnitReady(u) /\ UnitOK(u)
  <2>1. /\ BoltTypes /\ xpc[e] = "move" /\ HandsOK(e)
    BY DEF BoltInv, Bolt!Move
  <2>2. u \in Bolt!Unit /\ running[e] = NoUnit /\ UnitReady(u)
    BY <2>1 DEF BoltTypes, HandsOK
  <2> QED
    BY <2>1, <2>2 DEF BoltInv, Holds
<1>2. /\ home' = [home EXCEPT ![u] = p] /\ Bolt!Push(u, p)
      /\ unit' = [unit EXCEPT ![e] = NoUnit]
      /\ UNCHANGED <<state, request, running>>
  BY DEF Bolt!Move, Bolt!threadVars
<1>3. PICK l \in {"scan", "steal", "loop"} : /\ xpc' = [xpc EXCEPT ![e] = l]
                                            /\ at' \in [Bolt!Xstream -> 0 .. OmpXstreams]
  <2>1. CASE Bolt!NextPool(e)
    BY <2>1, BoltPosition
  <2>2. CASE Bolt!Goto(e, "loop") /\ at' = [at EXCEPT ![e] = 0]
    <3>1. 0 \in 0 .. OmpXstreams
      BY BoltNull
    <3>2. at' \in [Bolt!Xstream -> 0 .. OmpXstreams]
      BY <2>2, <3>1, BoltPosition
    <3> QED
      BY <2>2, <3>2 DEF Bolt!Goto
  <2> QED
    BY <2>1, <2>2 DEF Bolt!Move
<1>4. \A q \in Bolt!Pool : ~Contains(pool[q], u)
  BY <1>1 DEF UnitOK
<1>5. /\ pool' \in [Bolt!Pool -> Seq(Bolt!Unit)]
      /\ \A q \in Bolt!Pool : IsInjective(pool'[q])
      /\ Contains(pool'[p], u)
      /\ \A q \in Bolt!Pool : q # p => ~Contains(pool'[q], u)
      /\ \A v : v # u => \A q \in Bolt!Pool : Contains(pool'[q], v) <=> Contains(pool[q], v)
  BY <1>1, <1>2, <1>4, BoltPush
<1>6. BoltTypes'
  <2>1. l \in Bolt!XPC
    BY DEF Bolt!XPC
  <2> QED
    BY <1>1, <1>2, <1>3, <1>5, <2>1 DEF BoltTypes
<1>7. /\ xpc'[e] = l /\ running'[e] = NoUnit /\ unit'[e] = NoUnit /\ home'[u] = p
      /\ \A f \in Bolt!Xstream : f # e =>
           xpc'[f] = xpc[f] /\ running'[f] = running[f] /\ unit'[f] = unit[f]
      /\ \A v \in Bolt!Unit : v # u => home'[v] = home[v]
  BY <1>1, <1>2, <1>3 DEF BoltTypes
<1>8. OthersStay(e, u)
  <2>1. \A v \in Bolt!Unit : v # u => (Holds(e, v)' <=> Holds(e, v))
    BY <1>1, <1>7, BoltNull DEF Holds
  <2> QED
    BY <1>2, <1>5, <1>7, <2>1 DEF OthersStay
<1>9. \A f \in Bolt!Xstream : f # e => ~Holds(f, u)
  BY <1>1 DEF UnitOK
<1>10. UnitOK(u)'
  <2>1. \A f \in Bolt!Xstream : ~Holds(f, u)'
    BY <1>1, <1>7, <1>9, BoltNull DEF Holds
  <2>2. UnitReady(u)'
    BY <1>1, <1>2 DEF UnitReady
  <2> QED
    BY <1>5, <1>7, <2>1, <2>2 DEF UnitOK
<1>11. HandsOK(e)'
  BY <1>7 DEF HandsOK
<1> QED
  BY <1>5, <1>6, <1>8, <1>9, <1>10, <1>11, OtherUnits, OtherHands DEF BoltInv

\* A ULT that yields, suspends itself or ends is back in the hands of the scheduler.
LEMMA BoltUlt ==
  ASSUME Bolt!StealAssumption, BoltInv, NEW e \in Bolt!Xstream,
         Bolt!Yield(e) \/ Bolt!Suspend(e) \/ Bolt!Terminate(e)
  PROVE  BoltInv'
<1> PICK u : u = running[e]
  OBVIOUS
<1>1. /\ xpc[e] = "ult" /\ xpc' = [xpc EXCEPT ![e] = "ret"]
      /\ UNCHANGED <<pool, home, running, unit, at>>
      /\ \/ state' = [state EXCEPT ![u] = "READY"] /\ request' = request
         \/ /\ state' = [state EXCEPT ![u] = "BLOCKED"]
            /\ request' = [request EXCEPT ![u] = {"BLOCK"}]
         \/ state' = state /\ request' = [request EXCEPT ![u] = {"TERMINATE"}]
  BY DEF Bolt!Yield, Bolt!Suspend, Bolt!Terminate, Bolt!Does, Bolt!Goto
<1>2. /\ BoltTypes /\ HandsOK(e) /\ u \in OmpThread /\ u \in Bolt!Unit
      /\ state[u] = "RUNNING" /\ request[u] = {} /\ Holds(e, u) /\ UnitOK(u)
  <2>1. BoltTypes /\ HandsOK(e)
    BY DEF BoltInv
  <2>2. u \in OmpThread /\ state[u] = "RUNNING" /\ request[u] = {}
    BY <1>1, <2>1 DEF BoltTypes, HandsOK
  <2> QED
    BY <2>1, <2>2, BoltNull DEF BoltInv, Holds
<1>3. BoltTypes'
  <2>1. xpc' \in [Bolt!Xstream -> Bolt!XPC]
    BY <1>1, <1>2 DEF BoltTypes, Bolt!XPC
  <2>2. /\ state' \in [Bolt!Unit -> {"READY", "RUNNING", "BLOCKED", "TERMINATED", "LOST"}]
        /\ request' \in [OmpThread -> SUBSET {"BLOCK", "TERMINATE"}]
    <3>1. \A l \in {"READY", "BLOCKED"} : [state EXCEPT ![u] = l] \in
            [Bolt!Unit -> {"READY", "RUNNING", "BLOCKED", "TERMINATED", "LOST"}]
      BY <1>2 DEF BoltTypes
    <3>2. \A l \in {"BLOCK", "TERMINATE"} :
            [request EXCEPT ![u] = {l}] \in [OmpThread -> SUBSET {"BLOCK", "TERMINATE"}]
      BY <1>2 DEF BoltTypes
    <3> QED
      BY <1>1, <1>2, <3>1, <3>2 DEF BoltTypes
  <2> QED
    BY <1>1, <1>2, <2>1, <2>2 DEF BoltTypes
<1>4. /\ xpc'[e] = "ret" /\ \A f \in Bolt!Xstream : f # e => xpc'[f] = xpc[f]
      /\ \A v \in Bolt!Unit : v # u => state'[v] = state[v]
      /\ \A v \in OmpThread : v # u => request'[v] = request[v]
      /\ \/ state'[u] = "READY" /\ request'[u] = {}
         \/ state'[u] = "BLOCKED" /\ request'[u] = {"BLOCK"}
         \/ state'[u] = "RUNNING" /\ request'[u] = {"TERMINATE"}
  BY <1>1, <1>2 DEF BoltTypes
<1>5. OthersStay(e, u)
  BY <1>1, <1>4 DEF OthersStay, Holds
<1>6. \A f \in Bolt!Xstream : f # e => ~Holds(f, u)
  BY <1>2 DEF UnitOK
<1>7. UnitOK(u)'
  <2>1. Holds(e, u)' /\ \A f \in Bolt!Xstream : f # e => ~Holds(f, u)'
    BY <1>1, <1>2, <1>6 DEF Holds
  <2>2. \A q \in Bolt!Pool : ~Contains(pool'[q], u)
    BY <1>1, <1>2 DEF UnitOK
  <2> QED
    BY <2>1, <2>2 DEF UnitOK
<1>8. HandsOK(e)'
  BY <1>1, <1>2, <1>4 DEF HandsOK, UnitReady
<1> QED
  BY <1>1, <1>3, <1>5, <1>6, <1>7, <1>8, OtherUnits, OtherHands DEF BoltInv

\* The scheduler lets go of the ULT that has come back: it goes to its pool, to sleep, or
\* away.
LEMMA BoltReturn ==
  ASSUME Bolt!StealAssumption, BoltInv, NEW e \in Bolt!Xstream, Bolt!Return(e)
  PROVE  BoltInv'
<1> PICK u : u = running[e]
  OBVIOUS
<1>1. /\ BoltTypes /\ xpc[e] = "ret" /\ HandsOK(e) /\ unit[e] = NoUnit /\ u \in OmpThread
      /\ u \in Bolt!Unit /\ UnitOK(u) /\ Holds(e, u)
  <2>1. BoltTypes /\ xpc[e] = "ret" /\ HandsOK(e)
    BY DEF BoltInv, Bolt!Return
  <2>2. u \in OmpThread /\ unit[e] = NoUnit
    BY <2>1 DEF BoltTypes, HandsOK
  <2> QED
    BY <2>1, <2>2, BoltNull DEF BoltInv, Holds
<1>2. /\ running' = [running EXCEPT ![e] = NoUnit]
      /\ xpc' = [xpc EXCEPT ![e] = "check"] /\ "check" \in Bolt!XPC
      /\ UNCHANGED <<home, unit, at>>
  BY DEF Bolt!Return, Bolt!Goto, Bolt!XPC
<1>3. /\ xpc'[e] = "check" /\ running'[e] = NoUnit /\ unit'[e] = NoUnit
      /\ \A f \in Bolt!Xstream : f # e =>
           xpc'[f] = xpc[f] /\ running'[f] = running[f] /\ unit'[f] = unit[f]
  BY <1>1, <1>2 DEF BoltTypes
<1>4. /\ \A f \in Bolt!Xstream : f # e => ~Holds(f, u)
      /\ \A f \in Bolt!Xstream : ~Holds(f, u)'
      /\ \A v \in Bolt!Unit : v # u => (Holds(e, v)' <=> Holds(e, v))
  BY <1>1, <1>3, BoltNull DEF UnitOK, Holds
<1>5. \A q \in Bolt!Pool : ~Contains(pool[q], u) /\ IsInjective(pool[q])
  BY <1>1 DEF UnitOK, BoltInv
<1>6. HandsOK(e)'
  BY <1>3 DEF HandsOK
<1>7. ASSUME BoltTypes', OthersStay(e, u), UnitOK(u)',
             \A q \in Bolt!Pool : IsInjective(pool'[q])
      PROVE  BoltInv'
  BY <1>1, <1>4, <1>6, <1>7, OtherUnits, OtherHands DEF BoltInv
<1>8. CASE request[u] = {"TERMINATE"} /\ state' = [state EXCEPT ![u] = "TERMINATED"]
           /\ UNCHANGED <<request, pool>>
  <2>1. BoltTypes'
    BY <1>1, <1>2, <1>8 DEF BoltTypes
  <2>2. OthersStay(e, u)
    BY <1>1, <1>2, <1>3, <1>4, <1>8 DEF OthersStay, BoltTypes
  <2>3. UnitGone(u)'
    BY <1>1, <1>8 DEF UnitGone, BoltTypes
  <2>4. UnitOK(u)'
    BY <1>4, <1>5, <1>8, <2>3 DEF UnitOK
  <2> QED
    BY <1>5, <1>7, <1>8, <2>1, <2>2, <2>4
<1>9. CASE request[u] = {} /\ Bolt!Push(u, home[u]) /\ UNCHANGED <<state, request>>
  <2>1. /\ pool' \in [Bolt!Pool -> Seq(Bolt!Unit)]
        /\ \A q \in Bolt!Pool : IsInjective(pool'[q])
        /\ Contains(pool'[home[u]], u)
        /\ \A q \in Bolt!Pool : q # home[u] => ~Contains(pool'[q], u)
        /\ \A v : v # u => \A q \in Bolt!Pool : Contains(pool'[q], v) <=> Contains(pool[q], v)
    <3>1. home[u] \in Bolt!Pool
      BY <1>1 DEF BoltTypes
    <3> QED
      BY <1>1, <1>5, <1>9, <3>1, BoltPush
  <2>2. BoltTypes'
    BY <1>1, <1>2, <1>9, <2>1 DEF BoltTypes
  <2>3. OthersStay(e, u)
    BY <1>2, <1>3, <1>4, <1>9, <2>1 DEF OthersStay
  <2>4. UnitReady(u)'
    BY <1>1, <1>9 DEF HandsOK, UnitReady
  <2>5. UnitOK(u)'
    BY <1>2, <1>4, <2>1, <2>4 DEF UnitOK
  <2> QED
    BY <1>7, <2>1, <2>2, <2>3, <2>5
<1>10. CASE /\ request[u] = {"BLOCK"}
            /\ request' = [request EXCEPT ![u] = {}]
            /\ UNCHANGED <<state, pool>>
  <2>1. BoltTypes'
    BY <1>1, <1>2, <1>10 DEF BoltTypes
  <2>2. OthersStay(e, u)
    BY <1>1, <1>2, <1>3, <1>4, <1>10 DEF OthersStay, BoltTypes
  <2>3. UnitAsleep(u)'
    BY <1>1, <1>10 DEF UnitAsleep, UnitReady, HandsOK, BoltTypes
  <2>4. UnitOK(u)'
    BY <1>4, <1>5, <1>10, <2>3 DEF UnitOK
  <2> QED
    BY <1>5, <1>7, <1>10, <2>1, <2>2, <2>4
<1> QED
  BY <1>8, <1>9, <1>10 DEF Bolt!Return

\* A ULT that sleeps is in no hands, and is pushed to the pool that it had last.
LEMMA BoltResume ==
  ASSUME Bolt!StealAssumption, BoltInv, NEW u \in OmpThread, Bolt!Resume(u)
  PROVE  BoltInv'
<1>1. /\ state[u] = "BLOCKED" /\ request[u] = {}
      /\ state' = [state EXCEPT ![u] = "READY"]
      /\ Bolt!Push(u, home[u])
      /\ UNCHANGED <<home, request, xpc, running, unit, at>>
  BY DEF Bolt!Resume, Bolt!CanSetReady
<1>2. /\ BoltTypes /\ u \in Bolt!Unit /\ UnitOK(u) /\ home[u] \in Bolt!Pool
      /\ \A e \in Bolt!Xstream : HandsOK(e)
  BY BoltNull DEF BoltInv, BoltTypes
<1>3. ASSUME NEW e \in Bolt!Xstream PROVE ~Holds(e, u)
  <2>1. HandsOK(e) /\ u # NoUnit /\ ~UnitReady(u)
    BY <1>1, <1>2, BoltNull DEF UnitReady
  <2>2. running[e] # u
    BY <1>1, <2>1 DEF HandsOK
  <2>3. unit[e] # u
    BY <2>1 DEF HandsOK
  <2> QED
    BY <2>2, <2>3 DEF Holds
<1>4. \A q \in Bolt!Pool : ~Contains(pool[q], u)
  BY <1>1, <1>2 DEF UnitOK, UnitReady
<1>5. /\ pool' \in [Bolt!Pool -> Seq(Bolt!Unit)]
      /\ \A q \in Bolt!Pool : IsInjective(pool'[q])
      /\ Contains(pool'[home[u]], u)
      /\ \A q \in Bolt!Pool : q # home[u] => ~Contains(pool'[q], u)
      /\ \A v : v # u => \A q \in Bolt!Pool : Contains(pool'[q], v) <=> Contains(pool[q], v)
  BY <1>1, <1>2, <1>4, BoltPush
<1>6. BoltTypes'
  BY <1>1, <1>2, <1>5 DEF BoltTypes
<1>7. state'[u] = "READY" /\ \A v \in Bolt!Unit : v # u => state'[v] = state[v]
  BY <1>1, <1>2 DEF BoltTypes
<1>8. \A e : OthersStay(e, u)
  BY <1>1, <1>5, <1>7 DEF OthersStay, Holds
<1>9. UnitOK(u)'
  BY <1>1, <1>2, <1>3, <1>5, <1>7 DEF UnitOK, UnitReady, Holds
<1>10. \A v \in Bolt!Unit : UnitOK(v)'
  BY <1>6, <1>8, <1>9, OtherUnits
<1>11. \A e \in Bolt!Xstream : HandsOK(e)'
  <2> SUFFICES ASSUME NEW e \in Bolt!Xstream PROVE HandsOK(e)'
    OBVIOUS
  <2>1. OthersStay(NoUnit, u)
    BY <1>8
  <2>2. running[e] # u /\ unit[e] # u /\ HandsOK(e)
    BY <1>2, <1>3 DEF Holds
  <2> QED
    BY <1>1, <1>2, <1>7, <2>2 DEF HandsOK, UnitReady, BoltTypes
<1> QED
  BY <1>5, <1>6, <1>10, <1>11 DEF BoltInv

LEMMA BoltNext ==
  ASSUME Bolt!StealAssumption, BoltInv, [Bolt!Next]_Bolt!vars
  PROVE  BoltInv'
<1>1. ASSUME UNCHANGED <<pool, home, state, request, xpc, running, unit, at>>
      PROVE  BoltInv'
  BY <1>1 DEF BoltInv, BoltTypes, UnitOK, HandsOK, Holds, UnitReady, UnitAsleep, UnitGone
<1>2. CASE UNCHANGED Bolt!vars
  BY <1>1, <1>2 DEF Bolt!vars, Bolt!threadVars
<1>3. CASE Bolt!Resumed
  BY <1>1, <1>3 DEF Bolt!Resumed, Bolt!threadVars
<1>4. ASSUME NEW u \in OmpThread, Bolt!Resume(u) PROVE BoltInv'
  BY <1>4, BoltResume
<1>5. ASSUME NEW e \in Bolt!Xstream,
             Bolt!Sched(e) \/ Bolt!Round(e) \/ Bolt!GetInfo(e) \/ Bolt!SetRInfo(e)
             \/ Bolt!SetSInfo(e)
      PROVE  BoltInv'
  BY <1>5, BoltLoops, BoltPopRun, BoltPopMove, BoltMove, BoltUlt, BoltReturn DEF Bolt!Sched
<1> QED
  BY <1>2, <1>3, <1>4, <1>5 DEF Bolt!Next, Bolt!Outside

\* What the property counts: the pools a unit is in, and the hands it is in.
LEMMA AtMostOne ==
  ASSUME NEW S, \A x, y \in S : x = y
  PROVE  Bolt!Cardinality(S) = IF S = {} THEN 0 ELSE 1
<1>1. Bolt!Cardinality(S) = Cardinality(S)
  BY Zenon DEF Bolt!Cardinality, Cardinality
<1>2. CASE S = {}
  BY <1>1, <1>2, FS_EmptySet
<1>3. CASE S # {}
  <2>1. PICK x \in S : TRUE
    BY <1>3
  <2>2. S = {x}
    BY <2>1
  <2> QED
    BY <1>1, <1>3, <2>2, FS_Singleton
<1> QED
  BY <1>2, <1>3

LEMMA BoltCounted ==
  ASSUME Bolt!StealAssumption, BoltInv
  PROVE  Bolt!UnitsOnce
<1> SUFFICES ASSUME NEW u \in Bolt!Unit
             PROVE  LET pools == {p \in Bolt!Pool : Bolt!Contains(pool[p], u)}
                        hands == {e \in Bolt!Xstream : running[e] = u \/ unit[e] = u}
                        asleep == u \in OmpThread /\ state[u] = "BLOCKED" /\ request[u] = {}
                    IN  /\ Bolt!Cardinality(pools) + Bolt!Cardinality(hands)
                             = IF asleep \/ state[u] \in {"TERMINATED", "LOST"} THEN 0 ELSE 1
                        /\ \A p \in pools : home[u] = p /\ Bolt!IsInjective(pool[p])
  BY DEF Bolt!UnitsOnce
<1> DEFINE Places == {p \in Bolt!Pool : Bolt!Contains(pool[p], u)}
           Keepers == {e \in Bolt!Xstream : running[e] = u \/ unit[e] = u}
<1>1. /\ UnitOK(u) /\ home[u] \in Bolt!Pool
      /\ \A p \in Bolt!Pool : IsInjective(pool[p])
      /\ \A e \in Bolt!Xstream : HandsOK(e)
      /\ u # NoUnit
  BY BoltNull DEF BoltInv, BoltTypes
<1>2. \A p \in Bolt!Pool : p \in Places <=> Contains(pool[p], u)
  BY BoltOperators
<1>3. \A e \in Bolt!Xstream : e \in Keepers <=> Holds(e, u)
  BY DEF Holds
<1>4. /\ Bolt!Cardinality(Places) = IF Places = {} THEN 0 ELSE 1
      /\ Bolt!Cardinality(Keepers) = IF Keepers = {} THEN 0 ELSE 1
  <2>1. \A p, q \in Places : p = q
    BY <1>1, <1>2 DEF UnitOK
  <2>2. \A e, f \in Keepers : e = f
    BY <1>1, <1>3 DEF UnitOK
  <2> HIDE DEF Places, Keepers
  <2> QED
    BY <2>1, <2>2, AtMostOne
<1>5. \A p \in Places : home[u] = p /\ Bolt!IsInjective(pool[p])
  BY <1>1, <1>2, BoltOperators DEF UnitOK
<1>6. CASE Places # {}
  <2>1. UnitReady(u) /\ Keepers = {}
    BY <1>1, <1>2, <1>3, <1>6 DEF UnitOK
  <2>2. ~(UnitAsleep(u) \/ UnitGone(u))
    BY <2>1 DEF UnitAsleep, UnitGone, UnitReady
  <2> HIDE DEF Places, Keepers
  <2> QED
    BY <1>4, <1>5, <1>6, <2>1, <2>2 DEF Places, Keepers, UnitAsleep, UnitGone
<1>7. CASE Places = {} /\ Keepers # {}
  <2>1. PICK e \in Bolt!Xstream : HandsOK(e) /\ (running[e] = u \/ unit[e] = u)
    BY <1>1, <1>7
  <2>2. ~(UnitAsleep(u) \/ UnitGone(u))
    <3>1. CASE running[e] = u
      <4>1. xpc[e] \in {"ult", "ret"}
        BY <1>1, <2>1, <3>1 DEF HandsOK
      <4> QED
        BY <2>1, <3>1, <4>1 DEF HandsOK, UnitAsleep, UnitGone, UnitReady
    <3>2. CASE unit[e] = u
      <4>1. xpc[e] = "move"
        BY <1>1, <2>1, <3>2 DEF HandsOK
      <4> QED
        BY <2>1, <3>2, <4>1 DEF HandsOK, UnitAsleep, UnitGone, UnitReady
    <3> QED
      BY <2>1, <3>1, <3>2
  <2> QED
    BY <1>4, <1>5, <1>7, <2>2 DEF UnitAsleep, UnitGone
<1>8. CASE Places = {} /\ Keepers = {}
  <2>1. UnitAsleep(u) \/ UnitGone(u)
    BY <1>1, <1>2, <1>3, <1>8 DEF UnitOK
  <2> QED
    BY <1>4, <1>5, <1>8, <2>1 DEF UnitAsleep, UnitGone
<1> QED
  BY <1>6, <1>7, <1>8

\* No unit is lost or doubled on its way between the pools of BOLT's schedulers, although the
\* lists by which they steal are read and written without a lock (ABT_xstream_check and
\* ABT_my_migrate of stream.c): it is in its pool, once, or in the hands of one ES, or asleep.
THEOREM StealUnitsOnce ==
  ASSUME Bolt!StealAssumption
  PROVE  Bolt!Spec => []Bolt!UnitsOnce
<1>1. Bolt!Init => BoltInv
  BY BoltInitial
<1>2. BoltInv /\ [Bolt!Next]_Bolt!vars => BoltInv'
  BY BoltNext
<1>3. BoltInv => Bolt!UnitsOnce
  BY BoltCounted
<1> QED
  BY <1>1, <1>2, <1>3, PTL DEF Bolt!Spec

(***************************************************************************)
(* The sum of num_blocked over the pools.                                  *)
(***************************************************************************)

\* One more in the count of p: the pools have one more, or owe one less.
LEMMA TotalUp ==
  ASSUME NEW f \in [Bolt!Pool -> Int], NEW g \in [Bolt!Pool -> Int], NEW p \in Bolt!Pool,
         g[p] = f[p] + 1, \A q \in Bolt!Pool : q # p => g[q] = f[q]
  PROVE  \/ /\ <<p, f[p] + 1>> \notin Bolt!Has(f)
            /\ Bolt!Has(g) = Bolt!Has(f) \cup {<<p, f[p] + 1>>}
            /\ Bolt!Owes(g) = Bolt!Owes(f)
         \/ /\ Bolt!Has(g) = Bolt!Has(f)
            /\ <<p, -f[p]>> \notin Bolt!Owes(g)
            /\ Bolt!Owes(f) = Bolt!Owes(g) \cup {<<p, -f[p]>>}
<1>1. \A h \in [Bolt!Pool -> Int] : \A x :
        x \in Bolt!Has(h) <=> \E q \in Bolt!Pool, i \in Int : 1 <= i /\ i <= h[q] /\ x = <<q, i>>
  BY DEF Bolt!Has
<1>2. \A h \in [Bolt!Pool -> Int] : \A x :
        x \in Bolt!Owes(h) <=> \E q \in Bolt!Pool, i \in Int : 1 <= i /\ i <= -h[q] /\ x = <<q, i>>
  BY DEF Bolt!Owes
<1>3. /\ f[p] \in Int /\ g[p] \in Int
      /\ \A q \in Bolt!Pool : f[q] \in Int /\ g[q] \in Int
  OBVIOUS
<1>4. CASE f[p] >= 0
  <2>1. <<p, f[p] + 1>> \notin Bolt!Has(f)
    BY <1>1, <1>3
  <2>2. Bolt!Has(g) \subseteq Bolt!Has(f) \cup {<<p, f[p] + 1>>}
    <3> SUFFICES ASSUME NEW x \in Bolt!Has(g) PROVE x \in Bolt!Has(f) \/ x = <<p, f[p] + 1>>
      OBVIOUS
    <3>1. PICK q \in Bolt!Pool, i \in Int : 1 <= i /\ i <= g[q] /\ x = <<q, i>>
      BY <1>1
    <3>2. (q = p /\ i = f[p] + 1) \/ i <= f[q]
      BY <1>3, <3>1
    <3> QED
      BY <1>1, <3>1, <3>2
  <2>3. Bolt!Has(f) \cup {<<p, f[p] + 1>>} \subseteq Bolt!Has(g)
    <3>1. ASSUME NEW x \in Bolt!Has(f) PROVE x \in Bolt!Has(g)
      <4>1. PICK q \in Bolt!Pool, i \in Int : 1 <= i /\ i <= f[q] /\ x = <<q, i>>
        BY <1>1, <3>1
      <4>2. i <= g[q]
        BY <1>3, <4>1
      <4> QED
        BY <1>1, <4>1, <4>2
    <3>2. <<p, f[p] + 1>> \in Bolt!Has(g)
      BY <1>1, <1>3, <1>4
    <3> QED
      BY <3>1, <3>2
  <2>4. \A q \in Bolt!Pool, i \in Int : 1 <= i => (i <= -g[q] <=> i <= -f[q])
    BY <1>3, <1>4
  <2>5. Bolt!Owes(g) = Bolt!Owes(f)
    BY <1>2, <2>4
  <2> QED
    BY <2>1, <2>2, <2>3, <2>5
<1>5. CASE f[p] < 0
  <2>1. <<p, -f[p]>> \notin Bolt!Owes(g)
    BY <1>2, <1>3
  <2>2. Bolt!Owes(f) \subseteq Bolt!Owes(g) \cup {<<p, -f[p]>>}
    <3> SUFFICES ASSUME NEW x \in Bolt!Owes(f) PROVE x \in Bolt!Owes(g) \/ x = <<p, -f[p]>>
      OBVIOUS
    <3>1. PICK q \in Bolt!Pool, i \in Int : 1 <= i /\ i <= -f[q] /\ x = <<q, i>>
      BY <1>2
    <3>2. (q = p /\ i = -f[p]) \/ i <= -g[q]
      BY <1>3, <3>1
    <3> QED
      BY <1>2, <3>1, <3>2
  <2>3. Bolt!Owes(g) \cup {<<p, -f[p]>>} \subseteq Bolt!Owes(f)
    <3>1. ASSUME NEW x \in Bolt!Owes(g) PROVE x \in Bolt!Owes(f)
      <4>1. PICK q \in Bolt!Pool, i \in Int : 1 <= i /\ i <= -g[q] /\ x = <<q, i>>
        BY <1>2, <3>1
      <4>2. i <= -f[q]
        BY <1>3, <4>1
      <4> QED
        BY <1>2, <4>1, <4>2
    <3>2. <<p, -f[p]>> \in Bolt!Owes(f)
      BY <1>2, <1>3, <1>5
    <3> QED
      BY <3>1, <3>2
  <2>4. \A q \in Bolt!Pool, i \in Int : 1 <= i => (i <= g[q] <=> i <= f[q])
    BY <1>3, <1>5
  <2>5. Bolt!Has(g) = Bolt!Has(f)
    BY <1>1, <2>4
  <2> QED
    BY <2>1, <2>2, <2>3, <2>5
<1> QED
  BY <1>3, <1>4, <1>5

\* The sum, where the sets of units that it is counted by are finite.
SumIs(f, n) ==
  /\ IsFiniteSet(Bolt!Has(f)) /\ IsFiniteSet(Bolt!Owes(f))
  /\ Cardinality(Bolt!Has(f)) - Cardinality(Bolt!Owes(f)) = n

LEMMA SumUp ==
  ASSUME NEW f \in [Bolt!Pool -> Int], NEW g \in [Bolt!Pool -> Int], NEW p \in Bolt!Pool,
         g[p] = f[p] + 1, \A q \in Bolt!Pool : q # p => g[q] = f[q], NEW n \in Int
  PROVE  SumIs(g, n + 1) <=> SumIs(f, n)
<1> DEFINE x == <<p, f[p] + 1>>
           y == <<p, -f[p]>>
           hasF == Bolt!Has(f)
           hasG == Bolt!Has(g)
           owesF == Bolt!Owes(f)
           owesG == Bolt!Owes(g)
<1>1. \/ x \notin hasF /\ hasG = hasF \cup {x} /\ owesG = owesF
      \/ hasG = hasF /\ y \notin owesG /\ owesF = owesG \cup {y}
  BY TotalUp
<1> HIDE DEF x, y, hasF, hasG, owesF, owesG
<1>2. ASSUME NEW S, NEW T, NEW z, z \notin S, T = S \cup {z}
      PROVE  /\ IsFiniteSet(T) <=> IsFiniteSet(S)
             /\ IsFiniteSet(S) => Cardinality(T) = Cardinality(S) + 1
  <2>1. S \subseteq T
    BY <1>2
  <2> QED
    BY <1>2, <2>1, FS_AddElement, FS_Subset
<1>3. \A S : IsFiniteSet(S) => Cardinality(S) \in Nat
  BY FS_CardinalityType
<1>4. CASE x \notin hasF /\ hasG = hasF \cup {x} /\ owesG = owesF
  <2>1. /\ IsFiniteSet(hasG) <=> IsFiniteSet(hasF)
        /\ IsFiniteSet(hasF) => Cardinality(hasG) = Cardinality(hasF) + 1
    BY <1>2, <1>4
  <2>2. /\ SumIs(f, n) <=> /\ IsFiniteSet(hasF) /\ IsFiniteSet(owesF)
                          /\ Cardinality(hasF) - Cardinality(owesF) = n
        /\ SumIs(g, n + 1) <=> /\ IsFiniteSet(hasG) /\ IsFiniteSet(owesG)
                              /\ Cardinality(hasG) - Cardinality(owesG) = n + 1
    BY DEF SumIs, hasF, hasG, owesF, owesG
  <2>3. ASSUME IsFiniteSet(hasF), IsFiniteSet(owesF)
        PROVE  SumIs(g, n + 1) <=> SumIs(f, n)
    BY <1>3, <1>4, <2>1, <2>2, <2>3
  <2> QED
    BY <1>4, <2>1, <2>2, <2>3
<1>5. CASE hasG = hasF /\ y \notin owesG /\ owesF = owesG \cup {y}
  <2>1. /\ IsFiniteSet(owesF) <=> IsFiniteSet(owesG)
        /\ IsFiniteSet(owesG) => Cardinality(owesF) = Cardinality(owesG) + 1
    BY <1>2, <1>5
  <2>2. /\ SumIs(f, n) <=> /\ IsFiniteSet(hasF) /\ IsFiniteSet(owesF)
                          /\ Cardinality(hasF) - Cardinality(owesF) = n
        /\ SumIs(g, n + 1) <=> /\ IsFiniteSet(hasG) /\ IsFiniteSet(owesG)
                              /\ Cardinality(hasG) - Cardinality(owesG) = n + 1
    BY DEF SumIs, hasF, hasG, owesF, owesG
  <2>3. ASSUME IsFiniteSet(hasG), IsFiniteSet(owesG)
        PROVE  SumIs(g, n + 1) <=> SumIs(f, n)
    BY <1>3, <1>5, <2>1, <2>2, <2>3
  <2> QED
    BY <1>5, <2>1, <2>2, <2>3
<1> QED
  BY <1>1, <1>4, <1>5

\* The counts add up to the BLOCKED ULTs and the one that is not counted out yet.
BoltSum ==
  /\ numBlocked \in [Bolt!Pool -> Int]
  /\ waking \in OmpThread \cup {NoUnit}
  /\ SumIs(numBlocked, Cardinality(Bolt!Blocked) + (IF waking = NoUnit THEN 0 ELSE 1))

LEMMA BlockedFinite ==
  ASSUME Bolt!StealAssumption
  PROVE  /\ IsFiniteSet(Bolt!Blocked) /\ Cardinality(Bolt!Blocked) \in Nat
         /\ IsFiniteSet(Bolt!Blocked') /\ Cardinality(Bolt!Blocked') \in Nat
<1>1. \A S : Bolt!IsFiniteSet(S) <=> IsFiniteSet(S)
  BY Zenon DEF Bolt!IsFiniteSet, IsFiniteSet
<1>2. IsFiniteSet(OmpThread)
  BY <1>1 DEF Bolt!StealAssumption
<1>3. Bolt!Blocked \in SUBSET OmpThread /\ Bolt!Blocked' \in SUBSET OmpThread
  BY DEF Bolt!Blocked
<1> QED
  BY <1>2, <1>3, FS_Subset, FS_CardinalityType

\* The steps that change neither the counts nor who is BLOCKED.
LEMMA BoltSumStays ==
  ASSUME BoltSum, UNCHANGED <<numBlocked, waking>>, Bolt!Blocked' = Bolt!Blocked
  PROVE  BoltSum'
BY DEF BoltSum

\* A step that changes the state of u, from one other than BLOCKED to another.
LEMMA BoltAwake ==
  ASSUME BoltTypes, NEW u \in Bolt!Unit, state[u] # "BLOCKED", NEW l, l # "BLOCKED",
         state' = [state EXCEPT ![u] = l]
  PROVE  Bolt!Blocked' = Bolt!Blocked
<1>1. \A v \in OmpThread : state'[v] = "BLOCKED" <=> state[v] = "BLOCKED"
  BY DEF BoltTypes, Bolt!Unit
<1> QED
  BY <1>1 DEF Bolt!Blocked

LEMMA BoltSumSched ==
  ASSUME Bolt!StealAssumption, BoltInv, BoltSum, NEW e \in Bolt!Xstream,
         \/ Bolt!Sched(e) \/ Bolt!Round(e) \/ Bolt!GetInfo(e) \/ Bolt!SetRInfo(e)
         \/ Bolt!SetSInfo(e)
  PROVE  BoltSum'
<1>1. BoltTypes /\ HandsOK(e) /\ OmpThread \subseteq Bolt!Unit
  BY BoltNull DEF BoltInv
<1>2. ASSUME state' = state, UNCHANGED <<numBlocked, waking>>
      PROVE  BoltSum'
  BY <1>2, BoltSumStays DEF Bolt!Blocked
<1>3. CASE \/ Bolt!Scan(e) \/ Bolt!PopNothing(e) \/ Bolt!Check(e) \/ Bolt!PopMoveNothing(e)
           \/ Bolt!Steal(e) \/ Bolt!Round(e) \/ Bolt!GetInfo(e) \/ Bolt!SetRInfo(e)
           \/ Bolt!SetSInfo(e)
  BY <1>2, <1>3 DEF Bolt!Scan, Bolt!PopNothing, Bolt!Check, Bolt!PopMoveNothing, Bolt!Steal,
       Bolt!Round, Bolt!GetInfo, Bolt!SetRInfo, Bolt!SetSInfo, Bolt!threadVars
<1>4. CASE Bolt!PopMove(e) \/ Bolt!Move(e) \/ Bolt!Terminate(e)
  BY <1>2, <1>4 DEF Bolt!PopMove, Bolt!Move, Bolt!Terminate, Bolt!threadVars
<1>5. CASE Bolt!PopRun(e)
  <2>1. PICK p \in Bolt!Pool : p = Bolt!At(e)
    BY BoltPosition
  <2>2. PICK u : u = Head(pool[p])
    OBVIOUS
  <2>3. u \in Bolt!Unit /\ Contains(pool[p], u)
    BY <1>1, <1>5, <2>1, <2>2, PopUnit DEF Bolt!PopRun, BoltTypes
  <2>4. state[u] = "READY"
    BY <2>3 DEF BoltInv, UnitOK, UnitReady
  <2>5. PICK l \in {"RUNNING", "LOST"} : state' = [state EXCEPT ![u] = l]
    BY <1>5, <2>1, <2>2 DEF Bolt!PopRun
  <2>6. Bolt!Blocked' = Bolt!Blocked
    BY <1>1, <2>3, <2>4, <2>5, BoltAwake
  <2> QED
    BY <1>5, <2>6, BoltSumStays DEF Bolt!PopRun
<1>6. CASE Bolt!Yield(e)
  <2>1. running[e] \in Bolt!Unit /\ state[running[e]] = "RUNNING"
    BY <1>1, <1>6 DEF Bolt!Yield, Bolt!Does, HandsOK, BoltTypes
  <2>2. Bolt!Blocked' = Bolt!Blocked
    BY <1>1, <1>6, <2>1, BoltAwake DEF Bolt!Yield
  <2> QED
    BY <1>6, <2>2, BoltSumStays DEF Bolt!Yield
<1>7. CASE Bolt!Return(e)
  <2>1. UNCHANGED <<numBlocked, waking>> /\ xpc[e] = "ret"
    BY <1>7 DEF Bolt!Return
  <2>2. running[e] \in OmpThread
    BY <1>1, <2>1 DEF HandsOK, BoltTypes
  <2>3. CASE request[running[e]] = {"TERMINATE"}
             /\ state' = [state EXCEPT ![running[e]] = "TERMINATED"]
    <3>1. state[running[e]] # "BLOCKED"
      BY <1>1, <2>1, <2>2, <2>3 DEF HandsOK, UnitReady
    <3>2. Bolt!Blocked' = Bolt!Blocked
      BY <1>1, <2>2, <2>3, <3>1, BoltAwake
    <3> QED
      BY <2>1, <3>2, BoltSumStays
  <2>4. CASE state' = state
    BY <1>2, <2>1, <2>4
  <2> QED
    BY <1>7, <2>3, <2>4 DEF Bolt!Return
<1>8. CASE Bolt!Suspend(e)
  <2>1. PICK u \in OmpThread : u = running[e] /\ state[u] = "RUNNING"
    BY <1>1, <1>8 DEF Bolt!Suspend, Bolt!Does, HandsOK, BoltTypes
  <2>2. PICK p \in Bolt!Pool : p = home[u]
    BY <1>1, <2>1 DEF BoltTypes
  <2>3. /\ state' = [state EXCEPT ![u] = "BLOCKED"] /\ waking' = waking
        /\ numBlocked' = [numBlocked EXCEPT ![p] = @ + 1]
    BY <1>8, <2>1, <2>2 DEF Bolt!Suspend
  <2>4. numBlocked \in [Bolt!Pool -> Int] /\ numBlocked' \in [Bolt!Pool -> Int]
    BY <2>3 DEF BoltSum
  <2>5. u \notin Bolt!Blocked /\ Bolt!Blocked' = Bolt!Blocked \cup {u}
    <3>1. /\ state'[u] = "BLOCKED"
          /\ \A v \in OmpThread : v # u => state'[v] = state[v]
      BY <1>1, <2>1, <2>3 DEF BoltTypes
    <3> QED
      BY <2>1, <3>1 DEF Bolt!Blocked
  <2>6. Cardinality(Bolt!Blocked') = Cardinality(Bolt!Blocked) + 1
    BY <2>5, BlockedFinite, FS_AddElement
  <2>7. numBlocked'[p] = numBlocked[p] + 1
        /\ \A q \in Bolt!Pool : q # p => numBlocked'[q] = numBlocked[q]
    BY <2>3, <2>4
  <2> PICK n \in Int : n = Cardinality(Bolt!Blocked) + (IF waking = NoUnit THEN 0 ELSE 1)
    BY BlockedFinite
  <2>8. SumIs(numBlocked, n)
    BY DEF BoltSum
  <2>9. SumIs(numBlocked', n + 1)
    <3>1. SumIs(numBlocked', n + 1) <=> SumIs(numBlocked, n)
      BY <2>4, <2>7, SumUp
    <3> QED
      BY <2>8, <3>1
  <2>10. n + 1 = Cardinality(Bolt!Blocked') + (IF waking' = NoUnit THEN 0 ELSE 1)
    BY <2>3, <2>6, BlockedFinite
  <2> QED
    BY <2>3, <2>4, <2>9, <2>10 DEF BoltSum, SumIs
<1> QED
  BY <1>3, <1>4, <1>5, <1>6, <1>7, <1>8 DEF Bolt!Sched

LEMMA BoltSumOutside ==
  ASSUME Bolt!StealAssumption, BoltInv, BoltSum, Bolt!Outside
  PROVE  BoltSum'
<1> PICK k \in Nat : k = Cardinality(Bolt!Blocked)
  BY BlockedFinite
<1>1. /\ BoltTypes /\ OmpThread \subseteq Bolt!Unit /\ NoUnit \notin OmpThread
      /\ numBlocked \in [Bolt!Pool -> Int]
      /\ SumIs(numBlocked, k + (IF waking = NoUnit THEN 0 ELSE 1))
  BY BoltNull, BlockedFinite DEF BoltInv, BoltSum
<1>2. ASSUME NEW u \in OmpThread, Bolt!Resume(u) PROVE BoltSum'
  <2>1. /\ waking = NoUnit /\ state[u] = "BLOCKED" /\ state' = [state EXCEPT ![u] = "READY"]
        /\ waking' = u /\ numBlocked' = numBlocked
    BY <1>2 DEF Bolt!Resume, Bolt!CanSetReady
  <2>2. u \in Bolt!Blocked /\ Bolt!Blocked' = Bolt!Blocked \ {u}
    <3>1. /\ state'[u] # "BLOCKED"
          /\ \A v \in OmpThread : v # u => state'[v] = state[v]
      BY <1>1, <2>1 DEF BoltTypes
    <3> QED
      BY <2>1, <3>1 DEF Bolt!Blocked
  <2>3. Cardinality(Bolt!Blocked') = k - 1
    BY <2>2, BlockedFinite, FS_RemoveElement
  <2>4. Cardinality(Bolt!Blocked') + (IF waking' = NoUnit THEN 0 ELSE 1) = k
    BY <1>1, <2>1, <2>3
  <2>5. SumIs(numBlocked, k)
    BY <1>1, <2>1
  <2> QED
    BY <1>1, <2>1, <2>4, <2>5 DEF BoltSum, SumIs
<1>3. CASE Bolt!Resumed
  <2>1. /\ waking \in OmpThread /\ waking' = NoUnit /\ Bolt!Blocked' = Bolt!Blocked
        /\ numBlocked' = [numBlocked EXCEPT ![home[waking]] = @ - 1]
    BY <1>3 DEF Bolt!Resumed, Bolt!threadVars, Bolt!Blocked, BoltSum
  <2>2. PICK p \in Bolt!Pool : p = home[waking]
    BY <1>1, <2>1 DEF BoltTypes
  <2>3. numBlocked' \in [Bolt!Pool -> Int]
    BY <1>1, <2>1, <2>2
  <2>4. /\ numBlocked[p] = numBlocked'[p] + 1
        /\ \A q \in Bolt!Pool : q # p => numBlocked[q] = numBlocked'[q]
    BY <1>1, <2>1, <2>2
  <2>5. SumIs(numBlocked, k + 1)
    BY <1>1, <2>1
  <2>6. SumIs(numBlocked', k)
    <3>1. k \in Int
      OBVIOUS
    <3>2. SumIs(numBlocked, k + 1) <=> SumIs(numBlocked', k)
      BY <1>1, <2>3, <2>4, <3>1, SumUp
    <3> QED
      BY <2>5, <3>2
  <2> QED
    BY <1>1, <2>1, <2>3, <2>6 DEF BoltSum, SumIs
<1> QED
  BY <1>2, <1>3 DEF Bolt!Outside

\* The counts of all pools together are the number of BLOCKED ULTs, plus one while the ULT
\* that is being resumed is pushed and not counted out, through whichever pools these came
\* (set_blocked and set_ready in thread.c, which read p_pool at different times).
THEOREM StealBlockedTotal ==
  ASSUME Bolt!StealAssumption
  PROVE  Bolt!Spec => []Bolt!BlockedTotal
<1>1. Bolt!Init => BoltInv /\ BoltSum
  <2> SUFFICES ASSUME Bolt!Init PROVE BoltSum
    BY BoltInitial
  <2>1. /\ numBlocked = [p \in Bolt!Pool |-> 0] /\ waking = NoUnit
        /\ \A u \in OmpThread : state[u] = "READY"
    BY BoltNull DEF Bolt!Init
  <2>2. Bolt!Has(numBlocked) = {} /\ Bolt!Owes(numBlocked) = {}
    BY <2>1 DEF Bolt!Has, Bolt!Owes
  <2>3. Bolt!Blocked = {}
    BY <2>1 DEF Bolt!Blocked
  <2>4. IsFiniteSet({}) /\ Cardinality({}) = 0
    BY FS_EmptySet
  <2>5. SumIs(numBlocked, 0)
    BY <2>2, <2>4 DEF SumIs
  <2>6. 0 = Cardinality(Bolt!Blocked) + (IF waking = NoUnit THEN 0 ELSE 1)
    BY <2>1, <2>3, <2>4
  <2> QED
    BY <2>1, <2>5, <2>6 DEF BoltSum, SumIs
<1>2. BoltInv /\ BoltSum /\ [Bolt!Next]_Bolt!vars => BoltInv' /\ BoltSum'
  <2> SUFFICES ASSUME BoltInv, BoltSum, [Bolt!Next]_Bolt!vars PROVE BoltSum'
    BY BoltNext
  <2>1. CASE UNCHANGED Bolt!vars
    BY <2>1, BoltSumStays DEF Bolt!vars, Bolt!threadVars, Bolt!Blocked
  <2> QED
    BY <2>1, BoltSumSched, BoltSumOutside DEF Bolt!Next
<1>3. BoltSum => Bolt!BlockedTotal
  <2>1. \A S : Bolt!Cardinality(S) = Cardinality(S)
    BY Zenon DEF Bolt!Cardinality, Cardinality
  <2> QED
    BY <2>1 DEF BoltSum, SumIs, Bolt!BlockedTotal
<1> QED
  BY <1>1, <1>2, <1>3, PTL DEF Bolt!Spec
=============================================================================
