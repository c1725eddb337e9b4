-------------------------------- MODULE Cond --------------------------------
(***************************************************************************)
(* ABT_cond (cond.c, abti_cond.h) over the ULT layer of Threads: wait,     *)
(* timedwait, signal and broadcast, with the mutexes that guard it in      *)
(* their simple build (ABT_CONFIG_USE_SIMPLE_MUTEX): a ULT that finds the  *)
(* mutex locked yields and tries again.                                    *)
(*                                                                         *)
(* A ULT that waits is linked in the queue of the condition variable.  It  *)
(* either suspends (wait) or yields until a flag in its unit is set        *)
(* (timedwait); the unit of a timedwait is allocated for the call.         *)
(*                                                                         *)
(* The ULTs are the usual clients: a consumer locks its mutex, waits while *)
(* there are no items, takes one and unlocks; a producer locks, adds an    *)
(* item for each consumer and broadcasts, or signals once for each, before *)
(* or after it unlocks.                                                    *)
(***************************************************************************)
EXTENDS Threads, SequencesExt

CONSTANTS
  Mutex,      \* the mutexes
  NoMutex,    \* a NULL mutex pointer
  Mutexes,    \* the mutexes that every ULT may use
  Calls,      \* what every ULT may call: wait, timedwait, signal, broadcast
  CSYield     \* whether a producer may yield while it holds its mutex

ASSUME CondAssumption ==
  /\ NoMutex \notin Mutex
  /\ Mutexes \in [Thread -> SUBSET Mutex]
  /\ Calls \in [Thread -> (SUBSET {"wait", "timedwait"}) \cup (SUBSET {"signal", "broadcast"})]
  /\ CSYield \in BOOLEAN

VARIABLES
  owner,        \* the ULT that has locked every mutex (val is 0 for NoThread)
  condLock,     \* the holder of p_cond->lock
  waiters,      \* the queue of the condition variable: p_head first
  waiterMutex,  \* p_cond->p_waiter_mutex
  unit,         \* of every timedwait: none, allocated or signalled (ext_signal)
  late,         \* the ULTs whose abstime has passed
  pc,           \* where every ULT is
  target,       \* the ULT that a signal or broadcast is waking
  told,         \* how often every producer has signalled
  call,         \* the one of its Calls that every ULT makes
  mutex,        \* ... with this one of its Mutexes
  result,       \* what the last wait of every ULT returned
  items         \* what the consumers wait for

condVars == <<owner, condLock, waiters, waiterMutex, unit>>
localVars == <<late, pc, target, told, call, mutex, result, items>>
vars == <<threadVars, condVars, localVars>>

PC == {"lock", "cs", "yielded", "wait", "release", "suspend", "relock", "timed",
       "clock", "remove", "free", "signal", "all", "wake", "dec_blocked", "unlock",
       "leave", "done"}

Goto(u, l) == pc' = [pc EXCEPT ![u] = l]
Linked(u) == Contains(waiters, u)
Consumer == {u \in Thread : Calls[u] \subseteq {"wait", "timedwait"}}
Timed(u) == call[u] = "timedwait"
Signals(u) == IF call[u] = "broadcast" THEN 1 ELSE Cardinality(Consumer)

\* Every way to choose an element of each set.
OneOfEach(sets) ==
  {f \in [Thread -> UNION Range(sets)] : \A u \in Thread : f[u] \in sets[u]}

Init ==
  /\ ThreadsInit
  /\ owner = [m \in Mutex |-> NoThread]
  /\ condLock = NoThread
  /\ waiters = <<>>
  /\ waiterMutex = NoMutex
  /\ unit = [u \in Thread |-> "none"]
  /\ late = {}
  /\ pc = [u \in Thread |-> "lock"]
  /\ target = [u \in Thread |-> NoThread]
  /\ told = [u \in Thread |-> 0]
  /\ call \in OneOfEach(Calls)
  /\ mutex \in OneOfEach(Mutexes)
  /\ result = [u \in Thread |-> "success"]
  /\ items = 0

Locked(u) == owner[mutex[u]] # NoThread
Take(u) == owner' = [owner EXCEPT ![mutex[u]] = u]
Free(u) == owner' = [owner EXCEPT ![mutex[u]] = NoThread]

AfterSignal(u) == IF owner[mutex[u]] = u THEN "unlock" ELSE "leave"

(* Faulty variants of definitions below, see Mutex *)

EnqueueLinking(u, queue) ==
  /\ pc[u] = "wait" /\ condLock = NoThread
  /\ waiterMutex' = mutex[u]
  /\ waiters' = queue
  /\ IF Timed(u)
     THEN unit' = [unit EXCEPT ![u] = "allocated"]
          /\ UNCHANGED <<state, request, numBlocked>>
     ELSE SetBlocked(u) /\ UNCHANGED unit
  /\ Goto(u, "release")
  /\ UNCHANGED <<lastES, pool, running, phase, owner, condLock, late, target, told,
                 call, mutex, result, items>>

\* The new unit replaces the queue.
EnqueueOverwrites(u) == EnqueueLinking(u, <<u>>)

TimedRemoving(u, queue, left) ==
  /\ pc[u] = "remove"
  /\ Linked(u) => condLock = NoThread
  /\ waiters' = queue
  /\ waiterMutex' = left
  /\ result' = [result EXCEPT ![u] = "timedout"]
  /\ Goto(u, "free")
  /\ UNCHANGED <<threadVars, owner, condLock, unit, late, target, told, call,
                 mutex, items>>

\* The mutex of the waiters is not forgotten with the last of them.
TimedRemoveKeepsMutex(u) == TimedRemoving(u, RemoveFirst(waiters, u), waiterMutex)

\* A waiter that times out unlinks the head of the queue.
TimedRemoveHead(u) ==
  TimedRemoving(u, IF Linked(u) THEN Tail(waiters) ELSE waiters,
                IF waiters = <<u>> THEN NoMutex ELSE waiterMutex)

WakingNext(u, queue, left, woken) ==
  /\ pc[u] = "all" /\ waiters # <<>>
  /\ target' = [target EXCEPT ![u] = woken]
  /\ waiters' = queue
  /\ waiterMutex' = left
  /\ Goto(u, "wake")
  /\ UNCHANGED <<threadVars, owner, condLock, unit, late, told, call, mutex,
                 result, items>>

\* The unit is unlinked and then looked for at the head of the queue.
WakeNextLate(u) ==
  WakingNext(u, Tail(waiters), IF Tail(waiters) = <<>> THEN NoMutex ELSE waiterMutex,
             IF Tail(waiters) = <<>> THEN NoThread ELSE Head(Tail(waiters)))

(* Locking and unlocking a mutex *)

Lock(u, e) ==
  /\ pc[u] = "lock"
  /\ \/ ~Locked(u) /\ Take(u) /\ Goto(u, "cs") /\ UNCHANGED threadVars
     \/ Locked(u) /\ YieldThread(u, e) /\ UNCHANGED <<owner, pc>>
  /\ UNCHANGED <<condLock, waiters, waiterMutex, unit, late, target, told, call,
                 mutex, result, items>>

Unlock(u) ==
  /\ pc[u] = "unlock"
  /\ Free(u)
  /\ Goto(u, "leave")
  /\ UNCHANGED <<threadVars, condLock, waiters, waiterMutex, unit, late, target,
                 told, call, mutex, result, items>>

(* The clients *)

\* A consumer that was woken looks again; one that timed out or used the wrong
\* mutex does so for the last time.
Consume(u) ==
  /\ pc[u] = "cs" /\ u \in Consumer
  /\ \/ items > 0 /\ items' = items - 1 /\ Goto(u, "unlock")
     \/ items = 0 /\ result[u] = "success" /\ items' = items /\ Goto(u, "wait")
     \/ items = 0 /\ result[u] # "success" /\ items' = items /\ Goto(u, "unlock")
  /\ UNCHANGED <<threadVars, condVars, late, target, told, call, mutex, result>>

Produce(u) ==
  /\ pc[u] = "cs" /\ u \notin Consumer
  /\ items' = items + Cardinality(Consumer)
  /\ \E l \in {"signal", "unlock"} \cup (IF CSYield THEN {"yielded"} ELSE {}) : Goto(u, l)
  /\ UNCHANGED <<threadVars, condVars, late, target, told, call, mutex, result>>

YieldInCS(u, e) ==
  /\ pc[u] = "yielded"
  /\ YieldThread(u, e)
  /\ Goto(u, "unlock")
  /\ UNCHANGED <<condVars, late, target, told, call, mutex, result, items>>

\* A producer that has signals left does them now, without the mutex.
Leave(u, e) ==
  /\ pc[u] = "leave"
  /\ \/ /\ u \notin Consumer /\ told[u] < Signals(u)
        /\ Goto(u, "signal")
        /\ UNCHANGED threadVars
     \/ /\ u \in Consumer \/ told[u] = Signals(u)
        /\ request' = [request EXCEPT ![u] = @ \cup {"TERMINATE"}]
        /\ SwitchToSched(e)
        /\ Goto(u, "done")
        /\ UNCHANGED <<state, lastES, pool, numBlocked, running>>
  /\ UNCHANGED <<condVars, late, target, told, call, mutex, result, items>>

(* ABT_cond_wait and ABT_cond_timedwait *)

\* Under the lock of the condition variable: a ULT that uses another mutex than
\* those that wait is refused, with its mutex still locked.
Refuse(u) ==
  /\ pc[u] = "wait" /\ condLock = NoThread
  /\ waiterMutex \notin {NoMutex, mutex[u]}
  /\ result' = [result EXCEPT ![u] = "inv_mutex"]
  /\ Goto(u, "cs")
  /\ UNCHANGED <<threadVars, condVars, late, target, told, call, mutex, items>>

\* Any other is linked in the queue, and BLOCKED unless it waits with a timeout.
Enqueue(u) ==
  /\ pc[u] = "wait" /\ condLock = NoThread
  /\ waiterMutex \in {NoMutex, mutex[u]}
  /\ waiterMutex' = mutex[u]
  /\ waiters' = Append(waiters, u)
  /\ IF Timed(u)
     THEN unit' = [unit EXCEPT ![u] = "allocated"]
          /\ UNCHANGED <<state, request, numBlocked>>
     ELSE SetBlocked(u) /\ UNCHANGED unit
  /\ Goto(u, "release")
  /\ UNCHANGED <<lastES, pool, running, phase, owner, condLock, late, target, told,
                 call, mutex, result, items>>

Release(u) ==
  /\ pc[u] = "release"
  /\ Free(u)
  /\ Goto(u, IF Timed(u) THEN "timed" ELSE "suspend")
  /\ UNCHANGED <<threadVars, condLock, waiters, waiterMutex, unit, late, target,
                 told, call, mutex, result, items>>

Suspend(u, e) ==
  /\ pc[u] = "suspend"
  /\ SwitchToSched(e)
  /\ Goto(u, "relock")
  /\ UNCHANGED <<state, request, lastES, pool, numBlocked, running, condVars, late,
                 target, told, call, mutex, result, items>>

\* The waiter spins, without yielding, until it has its mutex again.
Relock(u) ==
  /\ pc[u] = "relock"
  /\ ~Locked(u)
  /\ Take(u)
  /\ Goto(u, "cs")
  /\ UNCHANGED <<threadVars, condLock, waiters, waiterMutex, unit, late, target,
                 told, call, mutex, result, items>>

\* The flag is tested first, then the clock, then the link of the unit, the last
\* without the lock if the unit is linked no more.
TimedTest(u) ==
  /\ pc[u] = "timed"
  /\ Goto(u, IF unit[u] = "signalled" THEN "free" ELSE "clock")
  /\ UNCHANGED <<threadVars, condVars, late, target, told, call, mutex, result,
                 items>>

TimedClock(u, e) ==
  /\ pc[u] = "clock"
  /\ \/ u \in late /\ Goto(u, "remove") /\ UNCHANGED threadVars
     \/ u \notin late /\ YieldThread(u, e) /\ Goto(u, "timed")
  /\ UNCHANGED <<condVars, late, target, told, call, mutex, result, items>>

TimedRemove(u) ==
  /\ pc[u] = "remove"
  /\ Linked(u) => condLock = NoThread
  /\ waiters' = RemoveFirst(waiters, u)
  /\ waiterMutex' = IF waiters = <<u>> THEN NoMutex ELSE waiterMutex
  /\ result' = [result EXCEPT ![u] = "timedout"]
  /\ Goto(u, "free")
  /\ UNCHANGED <<threadVars, owner, condLock, unit, late, target, told, call,
                 mutex, items>>

TimedFree(u) ==
  /\ pc[u] = "free"
  /\ unit' = [unit EXCEPT ![u] = "none"]
  /\ Goto(u, "relock")
  /\ UNCHANGED <<threadVars, owner, condLock, waiters, waiterMutex, late, target,
                 told, call, mutex, result, items>>

\* Time passes.
Tick(u) ==
  /\ u \in Consumer /\ Timed(u) /\ u \notin late
  /\ late' = late \cup {u}
  /\ UNCHANGED <<threadVars, condVars, pc, target, told, call, mutex, result,
                 items>>

(* ABT_cond_signal and ABT_cond_broadcast *)

Signal(u) ==
  /\ pc[u] = "signal" /\ condLock = NoThread
  /\ told' = [told EXCEPT ![u] = @ + 1]
  /\ IF waiters = <<>>
     THEN Goto(u, AfterSignal(u)) /\ UNCHANGED condVars
     ELSE /\ condLock' = u
          /\ Goto(u, "all")
          /\ UNCHANGED <<owner, waiters, waiterMutex, unit>>
  /\ UNCHANGED <<threadVars, late, target, call, mutex, result, items>>

\* The head of the queue is unlinked to be woken: once by a signal, until the
\* queue is empty by a broadcast.
WakeNext(u) ==
  /\ pc[u] = "all" /\ waiters # <<>>
  /\ target' = [target EXCEPT ![u] = Head(waiters)]
  /\ waiters' = Tail(waiters)
  /\ waiterMutex' = IF Tail(waiters) = <<>> THEN NoMutex ELSE waiterMutex
  /\ Goto(u, "wake")
  /\ UNCHANGED <<threadVars, owner, condLock, unit, late, told, call, mutex,
                 result, items>>

Woken(u) ==
  IF call[u] = "broadcast" /\ waiters # <<>>
  THEN Goto(u, "all") /\ UNCHANGED condLock
  ELSE Goto(u, AfterSignal(u)) /\ condLock' = NoThread

\* A ULT that has suspended is pushed to its pool; the flag of any other is set,
\* in a unit that may not exist any more.
WakeTimed(u) ==
  /\ pc[u] = "wake" /\ Timed(target[u])
  /\ unit' = [unit EXCEPT ![target[u]] = IF @ = "none" THEN @ ELSE "signalled"]
  /\ Woken(u)
  /\ UNCHANGED <<threadVars, owner, waiters, waiterMutex, late, target, told, call,
                 mutex, result, items>>

WakeBlocked(u) ==
  /\ pc[u] = "wake" /\ ~Timed(target[u])
  /\ CanSetReady(target[u])
  /\ MakeReady(target[u])
  /\ Goto(u, "dec_blocked")
  /\ UNCHANGED <<request, lastES, numBlocked, running, phase, condVars, late,
                 target, told, call, mutex, result, items>>

WakeDec(u) ==
  /\ pc[u] = "dec_blocked"
  /\ DecNumBlocked(target[u])
  /\ Woken(u)
  /\ UNCHANGED <<state, request, lastES, pool, running, phase, owner, waiters,
                 waiterMutex, unit, late, target, told, call, mutex, result, items>>

Step(u, e) ==
  /\ On(u, e)
  /\ \/ Lock(u, e) \/ Unlock(u) \/ Consume(u) \/ Produce(u) \/ YieldInCS(u, e)
     \/ Leave(u, e) \/ Refuse(u) \/ Enqueue(u) \/ Release(u) \/ Suspend(u, e)
     \/ Relock(u) \/ TimedTest(u) \/ TimedClock(u, e) \/ TimedRemove(u)
     \/ TimedFree(u) \/ Signal(u) \/ WakeNext(u) \/ WakeTimed(u) \/ WakeBlocked(u)
     \/ WakeDec(u)

Sched(e) == Scheduler(e) /\ UNCHANGED <<condVars, localVars>>

AllDone == \A u \in Thread : state[u] = "TERMINATED"

Next ==
  \/ \E e \in Xstream : Sched(e)
  \/ \E e \in Xstream, u \in Thread : Step(u, e)
  \/ \E u \in Thread : Tick(u)
  \/ AllDone /\ UNCHANGED vars

Spec == Init /\ [][Next]_vars

\* Every ES makes progress, in its scheduler and in the ULT it runs, and the
\* clock advances.
Fairness ==
  /\ \A e \in Xstream : WF_vars(Sched(e))
  /\ \A u \in Thread : WF_vars(\E e \in Xstream : Step(u, e)) /\ WF_vars(Tick(u))

FairSpec == Spec /\ Fairness

(* Properties *)

\* Every variable has its type; whoever wakes a ULT knows which.
TypeOK ==
  /\ ThreadsTypeOK
  /\ owner \in [Mutex -> Thread \cup {NoThread}]
  /\ condLock \in Thread \cup {NoThread}
  /\ waiters \in Seq(Thread)
  /\ waiterMutex \in Mutex \cup {NoMutex}
  /\ unit \in [Thread -> {"none", "allocated", "signalled"}]
  /\ late \subseteq Thread
  /\ pc \in [Thread -> PC]
  /\ target \in [Thread -> Thread \cup {NoThread}]
  /\ told \in [Thread -> Nat]
  /\ \A u \in Thread : call[u] \in Calls[u] /\ mutex[u] \in Mutexes[u]
  /\ result \in [Thread -> {"success", "timedout", "inv_mutex"}]
  /\ items \in Nat
  /\ \A u \in Thread : pc[u] \in {"wake", "dec_blocked"} => target[u] # NoThread

\* The condition variable knows the mutex of those that wait, all use that one,
\* and it takes any mutex again as soon as nobody waits.
OneMutex ==
  condLock = NoThread =>
    IF waiters = <<>> THEN waiterMutex = NoMutex
    ELSE \A i \in DOMAIN waiters : mutex[waiters[i]] = waiterMutex

\* A ULT that has suspended is still in the queue, or somebody holds the lock of
\* the condition variable to wake it, or it is back in its pool.
NoLostWaiter ==
  \A u \in Thread : pc[u] = "relock" /\ state[u] = "BLOCKED" =>
    \/ Linked(u)
    \/ condLock # NoThread /\ target[condLock] = u /\ pc[condLock] = "wake"

\* With an item for each, every consumer gets one, or times out: no signal
\* falls between the test of a consumer and its wait.
Termination == <>AllDone
=============================================================================
