------------------------------- MODULE RWLock -------------------------------
(***************************************************************************)
(* ABT_rwlock (rwlock.c, abti_rwlock.h) over the ULT layer of Threads: a   *)
(* count of readers and a flag for a writer, which are looked at and       *)
(* changed under a mutex, and a condition variable on which all those wait *)
(* who find the lock taken.  The mutex is the one of Cond: a ULT that      *)
(* finds it locked yields and tries again, one that comes back from a wait *)
(* spins.  The lock of the condition variable needs no variable: whoever   *)
(* takes it holds the mutex.                                               *)
(*                                                                         *)
(* Every ULT takes the lock some rounds, by one of its operations, may     *)
(* yield while it holds it (HoldYield), releases it and terminates.        *)
(***************************************************************************)
EXTENDS Threads, SequencesExt

CONSTANTS
  Rounds,      \* how often each ULT takes the lock
  Ops,         \* [Thread -> SUBSET {"rdlock", "wrlock"}]
  HoldYield    \* whether a ULT may yield while it holds the lock

ASSUME RWLockAssumption ==
  /\ IsFiniteSet(Thread)
  /\ Rounds \in [Thread -> Nat]
  /\ Ops \in [Thread -> SUBSET {"rdlock", "wrlock"}]
  /\ HoldYield \in BOOLEAN

VARIABLES
  owner,        \* the ULT that has locked p_rwlock->mutex
  waiters,      \* the queue of p_rwlock->cond, head first
  readerCount,  \* p_rwlock->reader_count
  writeFlag,    \* p_rwlock->write_flag
  pc,           \* where every ULT is
  op,           \* its operation: rdlock or wrlock
  target,       \* the ULT that its broadcast is waking
  rounds        \* the rounds it has left

rwVars == <<owner, waiters, readerCount, writeFlag>>
localVars == <<pc, op, target, rounds>>
vars == <<threadVars, rwVars, localVars>>

PC == {"start", "lock", "test", "wait", "suspend", "relock", "locked", "hold",
       "held", "release", "broadcast", "dec_blocked", "unlocked", "done"}

Goto(u, l) == pc' = [pc EXCEPT ![u] = l]

Init ==
  /\ ThreadsInit
  /\ owner = NoThread
  /\ waiters = <<>>
  /\ readerCount = 0
  /\ writeFlag = 0
  /\ pc = [u \in Thread |-> "start"]
  /\ op = [u \in Thread |-> "rdlock"]
  /\ target = [u \in Thread |-> NoThread]
  /\ rounds = Rounds

\* Faulty variant of Busy, see Mutex: a writer does not look for readers.
BusyFlagOnly(u) == writeFlag = 1

\* The conditions of the two loops: the lock is not free for this caller.
Busy(u) == writeFlag = 1 \/ (op[u] = "wrlock" /\ readerCount > 0)

(* Faulty variants of definitions below, see Mutex *)

\* A reader is not counted when the lock is free already.
TestNoCount(u) ==
  /\ pc[u] = "test"
  /\ Goto(u, IF Busy(u) THEN "wait" ELSE "locked")
  /\ writeFlag' = IF ~Busy(u) /\ op[u] = "wrlock" THEN 1 ELSE writeFlag
  /\ UNCHANGED <<threadVars, owner, waiters, readerCount, op, target, rounds>>

\* Unlock wakes the head of the queue only.
WakeOne(u) ==
  /\ pc[u] = "broadcast" /\ waiters # <<>>
  /\ CanSetReady(Head(waiters))
  /\ MakeReady(Head(waiters))
  /\ target' = [target EXCEPT ![u] = Head(waiters)]
  /\ waiters' = Tail(waiters)
  /\ Goto(u, "unlocked")
  /\ UNCHANGED <<request, lastES, numBlocked, running, phase, owner, readerCount,
                 writeFlag, op, rounds>>

\* The mutex is not released by a ULT that gets the lock.
LockedKeeps(u) ==
  /\ pc[u] = "locked"
  /\ Goto(u, "hold")
  /\ UNCHANGED <<threadVars, rwVars, op, target, rounds>>

(* The mutex *)

MutexLock(u, e, from, to) ==
  /\ pc[u] = from
  /\ \/ owner = NoThread /\ owner' = u /\ Goto(u, to) /\ UNCHANGED threadVars
     \/ owner # NoThread /\ YieldThread(u, e) /\ UNCHANGED <<owner, pc>>
  /\ UNCHANGED <<waiters, readerCount, writeFlag, op, target, rounds>>

(* ABT_rwlock_rdlock and ABT_rwlock_wrlock *)

Start(u) ==
  /\ pc[u] = "start" /\ rounds[u] > 0
  /\ \E o \in Ops[u] : op' = [op EXCEPT ![u] = o]
  /\ rounds' = [rounds EXCEPT ![u] = @ - 1]
  /\ Goto(u, "lock")
  /\ UNCHANGED <<threadVars, rwVars, target>>

Lock(u, e) == MutexLock(u, e, "lock", "test")

\* One evaluation of the loop's condition: the lock is taken, or the caller waits.
Test(u) ==
  /\ pc[u] = "test"
  /\ \/ Busy(u) /\ Goto(u, "wait") /\ UNCHANGED <<readerCount, writeFlag>>
     \/ /\ ~Busy(u) /\ op[u] = "rdlock"
        /\ readerCount' = readerCount + 1
        /\ Goto(u, "locked")
        /\ UNCHANGED writeFlag
     \/ /\ ~Busy(u) /\ op[u] = "wrlock"
        /\ writeFlag' = 1
        /\ Goto(u, "locked")
        /\ UNCHANGED readerCount
  /\ UNCHANGED <<threadVars, owner, waiters, op, target, rounds>>

\* ABTI_cond_wait: enter the queue and become BLOCKED, ...
Wait(u) ==
  /\ pc[u] = "wait"
  /\ SetBlocked(u)
  /\ waiters' = Append(waiters, u)
  /\ Goto(u, "suspend")
  /\ UNCHANGED <<lastES, pool, running, phase, owner, readerCount, writeFlag, op,
                 target, rounds>>

\* ... release the mutex, then switch to the scheduler, ...
Suspend(u, e) ==
  /\ pc[u] = "suspend"
  /\ \/ owner = u /\ owner' = NoThread /\ UNCHANGED <<phase, pc>>
     \/ owner # u /\ SwitchToSched(e) /\ Goto(u, "relock") /\ owner' = owner
  /\ UNCHANGED <<state, request, lastES, pool, numBlocked, running, waiters,
                 readerCount, writeFlag, op, target, rounds>>

\* ... and when woken spin for the mutex, without yielding, to test again.
Relock(u) ==
  /\ pc[u] = "relock" /\ owner = NoThread
  /\ owner' = u
  /\ Goto(u, "test")
  /\ UNCHANGED <<threadVars, waiters, readerCount, writeFlag, op, target, rounds>>

Locked(u) ==
  /\ pc[u] = "locked"
  /\ owner' = NoThread
  /\ Goto(u, "hold")
  /\ UNCHANGED <<threadVars, waiters, readerCount, writeFlag, op, target, rounds>>

HoldAndYield(u, e) ==
  /\ pc[u] = "hold" /\ HoldYield
  /\ YieldThread(u, e)
  /\ Goto(u, "held")
  /\ UNCHANGED <<rwVars, op, target, rounds>>

(* ABT_rwlock_unlock *)

UnlockLock(u, e) == \E l \in {"hold", "held"} : MutexLock(u, e, l, "release")

\* The caller is taken for the writer if there is one.
Release(u) ==
  /\ pc[u] = "release"
  /\ \/ writeFlag = 1 /\ writeFlag' = 0 /\ UNCHANGED readerCount
     \/ writeFlag = 0 /\ readerCount' = readerCount - 1 /\ UNCHANGED writeFlag
  /\ Goto(u, "broadcast")
  /\ UNCHANGED <<threadVars, owner, waiters, op, target, rounds>>

\* ABTI_cond_broadcast, one waiter after the other.
WakeNext(u) ==
  /\ pc[u] = "broadcast" /\ waiters # <<>>
  /\ CanSetReady(Head(waiters))
  /\ MakeReady(Head(waiters))
  /\ target' = [target EXCEPT ![u] = Head(waiters)]
  /\ waiters' = Tail(waiters)
  /\ Goto(u, "dec_blocked")
  /\ UNCHANGED <<request, lastES, numBlocked, running, phase, owner, readerCount,
                 writeFlag, op, rounds>>

WakeDec(u) ==
  /\ pc[u] = "dec_blocked"
  /\ DecNumBlocked(target[u])
  /\ target' = [target EXCEPT ![u] = NoThread]
  /\ Goto(u, "broadcast")
  /\ UNCHANGED <<state, request, lastES, pool, running, phase, rwVars, op, rounds>>

AllWoken(u) ==
  /\ pc[u] = "broadcast" /\ waiters = <<>>
  /\ Goto(u, "unlocked")
  /\ UNCHANGED <<threadVars, rwVars, op, target, rounds>>

Unlocked(u) ==
  /\ pc[u] = "unlocked"
  /\ owner' = NoThread
  /\ Goto(u, "start")
  /\ UNCHANGED <<threadVars, waiters, readerCount, writeFlag, op, target, rounds>>

(* The rest of the program, and the specification *)

Terminate(u, e) ==
  /\ pc[u] = "start" /\ rounds[u] = 0
  /\ request' = [request EXCEPT ![u] = @ \cup {"JOIN", "TERMINATE"}]
  /\ SwitchToSched(e)
  /\ Goto(u, "done")
  /\ UNCHANGED <<state, lastES, pool, numBlocked, running, rwVars, op, target, rounds>>

Acquire(u, e) ==
  \/ Start(u) \/ Lock(u, e) \/ Test(u) \/ Wait(u) \/ Suspend(u, e) \/ Relock(u)
  \/ Locked(u)

GiveUp(u, e) ==
  \/ UnlockLock(u, e) \/ Release(u) \/ WakeNext(u) \/ WakeDec(u)
  \/ AllWoken(u) \/ Unlocked(u)

Step(u, e) ==
  On(u, e) /\ (Acquire(u, e) \/ HoldAndYield(u, e) \/ GiveUp(u, e) \/ Terminate(u, e))

Sched(e) == Scheduler(e) /\ UNCHANGED <<rwVars, localVars>>

AllDone == \A u \in Thread : state[u] = "TERMINATED"

Next ==
  \/ \E e \in Xstream : Sched(e)
  \/ \E e \in Xstream, u \in Thread : Step(u, e)
  \/ AllDone /\ UNCHANGED vars

Spec == Init /\ [][Next]_vars

\* Every ES makes progress, in its scheduler and in the ULT it runs.
Fairness ==
  /\ \A e \in Xstream : WF_vars(Sched(e))
  /\ \A u \in Thread : WF_vars(\E e \in Xstream : Step(u, e))

FairSpec == Spec /\ Fairness

(* Properties *)

\* Every variable has its type; the count of readers never drops below zero.
TypeOK ==
  /\ ThreadsTypeOK
  /\ owner \in Thread \cup {NoThread}
  /\ waiters \in Seq(Thread)
  /\ readerCount \in Nat
  /\ writeFlag \in {0, 1}
  /\ pc \in [Thread -> PC]
  /\ op \in [Thread -> {"rdlock", "wrlock"}]
  /\ target \in [Thread -> Thread \cup {NoThread}]
  /\ rounds \in [Thread -> Nat]
  /\ \A u \in Thread : pc[u] = "dec_blocked" => target[u] # NoThread

\* From the moment the caller is counted until it is counted out.
Holds(u) == pc[u] \in {"locked", "hold", "held", "release"}
Readers == {u \in Thread : Holds(u) /\ op[u] = "rdlock"}
Writers == {u \in Thread : Holds(u) /\ op[u] = "wrlock"}

\* A ULT that sleeps has a reason to (the lock is still taken for it), or the one
\* that has just released the lock is waking all that sleep: no reader or writer
\* is left in the queue of a free lock, whoever releases it and however the
\* broadcast interleaves with ULTs that are still on their way to the scheduler.
NoSleeper ==
  \A i \in DOMAIN waiters :
    Busy(waiters[i]) \/ \E w \in Thread : pc[w] \in {"broadcast", "dec_blocked"}

Abstract == INSTANCE RWLockSpec
              WITH Client <- Thread, readers <- Readers, writers <- Writers

\* ABT_rwlock implements the abstract readers-writer lock: a writer has it alone,
\* although neither the flag nor the count says who holds the lock and unlock has
\* to guess from them what its caller did.
ImplementsRWLock == Abstract!Spec

\* Every ULT gets the lock as often as it asks for it, and terminates; a woken
\* waiter that spins on an ES does not keep the holder of the mutex from running.
Termination == <>AllDone
=============================================================================
