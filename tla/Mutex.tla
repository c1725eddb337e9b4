------------------------------- MODULE Mutex -------------------------------
(***************************************************************************)
(* ABT_mutex (mutex.c, abti_mutex.h) and the table of waiting ULTs it      *)
(* keeps (thread_htable.c), over the ULT layer of Threads.  The lock word  *)
(* val is 0 (free), 1 (locked) or 2 (locked, and ULTs may be waiting).     *)
(* The table has one queue of high- and one of low-priority waiters for    *)
(* every ES, and a circular list of the queues in use for each priority.   *)
(* ABT_mutex_unlock_se hands the mutex over, without freeing it, to a ULT  *)
(* that waits in the queues of its own ES.                                 *)
(*                                                                         *)
(* Every ULT runs a program: Rounds times, take the mutex by one of the    *)
(* operations it has in LockOps, run a critical section (in which it may   *)
(* yield once when CSYield), release it by one of UnlockOps; then          *)
(* terminate.                                                              *)
(***************************************************************************)
EXTENDS Threads, SequencesExt

CONSTANTS
  Rounds,        \* how often every ULT takes the mutex
  LockOps,       \* [Thread -> SUBSET {"lock", "lock_low", "spinlock", "trylock"}]
  UnlockOps,     \* a subset of {"unlock", "unlock_se"}
  CSYield,       \* whether a critical section may call ABT_thread_yield
  MaxHandovers,  \* attr.max_handovers
  MaxWakeups     \* attr.max_wakeups

ASSUME MutexAssumption ==
  /\ Rounds \in Nat
  /\ LockOps \in [Thread -> SUBSET {"lock", "lock_low", "spinlock", "trylock"}]
  /\ UnlockOps \subseteq {"unlock", "unlock_se"}
  /\ CSYield \in BOOLEAN
  /\ MaxHandovers \in Nat \ {0}
  /\ MaxWakeups \in Nat \ {0}

VARIABLES
  val,           \* p_mutex->val
  handover,      \* p_mutex->p_handover
  giver,         \* p_mutex->p_giver
  htLock,        \* the holder of p_htable->mutex
  hq, lq,        \* the high- and low-priority queue of every ES
  hList, lList,  \* p_htable->h_list and l_list, head first
  numHandovers,  \* p_queue->num_handovers of every ES
  pc,            \* where in the program every ULT is
  prio,          \* the priority of its lock call: high or low
  after,         \* what follows its wake-ups: return, yield, or a reset as well
  target,        \* the ULT it is waking, or switching to
  wakes,         \* the wake-ups done by its ABTI_mutex_wake_de
  rounds         \* the rounds it has left

tableVars == <<hq, lq, hList, lList>>
mutexVars == <<val, handover, giver, htLock, tableVars, numHandovers>>
localVars == <<pc, prio, after, target, wakes, rounds>>
vars == <<threadVars, mutexVars, localVars>>

PC == {"start", "low_try", "low_switch", "low_cas", "spin", "xchg", "wait",
       "enqueue", "suspend", "resume", "cs", "cs2", "store0", "wake", "set_ready",
       "dec_blocked", "se_check", "se_pop", "se_low", "se_pop_low", "se_give",
       "se_switch", "given", "se_yield", "done"}

\* p_htable->num_elems: every push and pop keeps it equal to the queues' total.
NumElems == SumFunction([e \in Xstream |-> Len(hq[e]) + Len(lq[e])])

Goto(u, l) == pc' = [pc EXCEPT ![u] = l]

Init ==
  /\ ThreadsInit
  /\ val = 0
  /\ handover = NoThread
  /\ giver = NoThread
  /\ htLock = NoThread
  /\ hq = [e \in Xstream |-> <<>>]
  /\ lq = [e \in Xstream |-> <<>>]
  /\ hList = <<>>
  /\ lList = <<>>
  /\ numHandovers = [e \in Xstream |-> 0]
  /\ pc = [u \in Thread |-> "start"]
  /\ prio = [u \in Thread |-> "high"]
  /\ after = [u \in Thread |-> "return"]
  /\ target = [u \in Thread |-> NoThread]
  /\ wakes = [u \in Thread |-> 0]
  /\ rounds = [u \in Thread |-> Rounds]

(* Faulty variants of definitions below: what a small mistake in the code   *)
(* would make of them.  No specification uses them; they show that each    *)
(* property tells the code from such a mistake.                             *)

\* A ULT that comes back from the wait does not announce the others.
XchgOne(u) ==
  /\ pc[u] = "xchg"
  /\ val' = IF val = 0 THEN 1 ELSE 2
  /\ Goto(u, IF val = 0 THEN "cs" ELSE "wait")
  /\ UNCHANGED <<threadVars, handover, giver, htLock, tableVars, numHandovers, prio,
                 after, target, wakes, rounds>>

\* ABTI_mutex_wait does not look at the lock word again under the table's lock.
WaitNoCheck(u) ==
  /\ pc[u] = "wait"
  /\ htLock = NoThread
  /\ htLock' = u /\ Goto(u, "enqueue")
  /\ UNCHANGED <<threadVars, val, handover, giver, tableVars, numHandovers, prio,
                 after, target, wakes, rounds>>

\* The queue whose head is taken is unlinked even if more ULTs wait in it.
TurnUnlink(list, queue, i) == SubSeq(list, i + 1, Len(list))

\* The head of the queue is woken but stays in the queue.
PopNothing(queue, e) == queue

\* unlock_se names the ULT it hands the mutex over to but frees the mutex, too.
SeGiveFree(u, e) ==
  /\ pc[u] = "se_give"
  /\ numHandovers' = [numHandovers EXCEPT ![e] = @ + 1]
  /\ handover' = target[u]
  /\ giver' = u
  /\ val' = 0
  /\ Goto(u, "se_switch")
  /\ UNCHANGED <<threadVars, htLock, tableVars, prio, after, target, wakes, rounds>>

\* The giver leaves its own count of blocked ULTs to the one it switches to.
SeSwitchNoCount(u, e) ==
  /\ pc[u] = "se_switch"
  /\ CanSetReady(target[u])
  /\ numBlocked' = numBlocked
  /\ SwitchToThread(e, target[u])
  /\ state' = [state EXCEPT ![target[u]] = "RUNNING"]
  /\ target' = [target EXCEPT ![u] = NoThread]
  /\ Goto(u, "given")
  /\ UNCHANGED <<request, lastES, pool, phase, mutexVars, prio, after, wakes, rounds>>

(* Taking the mutex *)

\* The first compare-and-swap of ABTI_mutex_lock; l is the ULT's next step if
\* the mutex is taken and its waiters have to be announced (val was 1).
CasLock(u) ==
  /\ \/ val = 0 /\ val' = 1 /\ Goto(u, "cs")
     \/ val = 1 /\ val' = val /\ Goto(u, "xchg")
     \/ val = 2 /\ val' = val /\ Goto(u, "wait")
  /\ UNCHANGED <<handover, giver, htLock, tableVars, numHandovers>>

Lock(u) ==
  /\ pc[u] = "start" /\ rounds[u] > 0 /\ "lock" \in LockOps[u]
  /\ CasLock(u)
  /\ prio' = [prio EXCEPT ![u] = "high"]
  /\ UNCHANGED <<threadVars, after, target, wakes, rounds>>

\* ABTI_mutex_lock_low first looks for low-priority waiters of its own ES.
LockLow(u, e) ==
  /\ pc[u] = "start" /\ rounds[u] > 0 /\ "lock_low" \in LockOps[u]
  /\ Goto(u, IF lq[e] # <<>> THEN "low_try" ELSE "low_cas")
  /\ prio' = [prio EXCEPT ![u] = "low"]
  /\ UNCHANGED <<threadVars, mutexVars, after, target, wakes, rounds>>

LowCas(u) ==
  /\ pc[u] = "low_cas"
  /\ CasLock(u)
  /\ UNCHANGED <<threadVars, prio, after, target, wakes, rounds>>

\* ABTI_thread_htable_switch_low: under the queue's lock, u takes the place of
\* the queue's head behind its tail; it is BLOCKED but neither carries the
\* BLOCK request nor is it counted in num_blocked.
LowSwap(u, e) ==
  /\ pc[u] = "low_try"
  /\ IF lq[e] # <<>>
     THEN /\ target' = [target EXCEPT ![u] = Head(lq[e])]
          /\ lq' = [lq EXCEPT ![e] = Append(Tail(@), u)]
          /\ state' = [state EXCEPT ![u] = "BLOCKED"]
          /\ Goto(u, "low_switch")
     ELSE /\ Goto(u, "low_cas")
          /\ UNCHANGED <<target, lq, state>>
  /\ UNCHANGED <<request, lastES, pool, numBlocked, running, phase, val, handover,
                 giver, htLock, hq, hList, lList, numHandovers, prio, after,
                 wakes, rounds>>

\* Then u context switches to the former head.
LowSwitch(u, e) ==
  /\ pc[u] = "low_switch"
  /\ SwitchToThread(e, target[u])
  /\ state' = [state EXCEPT ![target[u]] = "RUNNING"]
  /\ target' = [target EXCEPT ![u] = NoThread]
  /\ Goto(u, "resume")
  /\ UNCHANGED <<request, lastES, pool, numBlocked, phase, mutexVars, prio, after,
                 wakes, rounds>>

\* ABTI_mutex_spinlock: compare-and-swap until the mutex is free.
Spinlock(u) ==
  /\ \/ /\ pc[u] = "start" /\ rounds[u] > 0 /\ "spinlock" \in LockOps[u]
        /\ val # 0 /\ val' = val /\ Goto(u, "spin")
     \/ /\ \/ pc[u] = "start" /\ rounds[u] > 0 /\ "spinlock" \in LockOps[u]
           \/ pc[u] = "spin"
        /\ val = 0 /\ val' = 1 /\ Goto(u, "cs")
  /\ UNCHANGED <<threadVars, handover, giver, htLock, tableVars, numHandovers, prio,
                 after, target, wakes, rounds>>

\* ABTI_mutex_trylock; a ULT that finds the mutex locked gives this round up.
Trylock(u) ==
  /\ pc[u] = "start" /\ rounds[u] > 0 /\ "trylock" \in LockOps[u]
  /\ \/ val = 0 /\ val' = 1 /\ Goto(u, "cs") /\ rounds' = rounds
     \/ val # 0 /\ rounds' = [rounds EXCEPT ![u] = @ - 1] /\ UNCHANGED <<val, pc>>
  /\ UNCHANGED <<threadVars, handover, giver, htLock, tableVars, numHandovers, prio,
                 after, target, wakes>>

\* c = exchange(val, 2), after the compare-and-swap and after every wait.
Xchg(u) ==
  /\ pc[u] = "xchg"
  /\ val' = 2
  /\ Goto(u, IF val = 0 THEN "cs" ELSE "wait")
  /\ UNCHANGED <<threadVars, handover, giver, htLock, tableVars, numHandovers, prio,
                 after, target, wakes, rounds>>

\* ABTI_mutex_wait(_low): under the table's lock, return unless val is still 2;
WaitCheck(u) ==
  /\ pc[u] = "wait"
  /\ htLock = NoThread
  /\ IF val = 2 THEN htLock' = u /\ Goto(u, "enqueue")
                ELSE htLock' = htLock /\ Goto(u, "resume")
  /\ UNCHANGED <<threadVars, val, handover, giver, tableVars, numHandovers, prio,
                 after, target, wakes, rounds>>

Link(list, e) == IF Contains(list, e) THEN list ELSE Append(list, e)

\* enter the queue of this ES, link the queue in, become BLOCKED, unlock;
WaitEnqueue(u, e) ==
  /\ pc[u] = "enqueue"
  /\ \/ /\ prio[u] = "high"
        /\ hList' = Link(hList, e)
        /\ hq' = [hq EXCEPT ![e] = Append(@, u)]
        /\ UNCHANGED <<lList, lq>>
     \/ /\ prio[u] = "low"
        /\ lList' = Link(lList, e)
        /\ lq' = [lq EXCEPT ![e] = Append(@, u)]
        /\ UNCHANGED <<hList, hq>>
  /\ SetBlocked(u)
  /\ htLock' = NoThread
  /\ Goto(u, "suspend")
  /\ UNCHANGED <<lastES, pool, running, phase, val, handover, giver, numHandovers,
                 prio, after, target, wakes, rounds>>

\* and suspend.
WaitSuspend(u, e) ==
  /\ pc[u] = "suspend"
  /\ SwitchToSched(e)
  /\ Goto(u, "resume")
  /\ UNCHANGED <<state, request, lastES, pool, numBlocked, running, mutexVars, prio,
                 after, target, wakes, rounds>>

\* Back from the wait: the ULT to which the mutex was handed over owns it, and
\* pushes the giver, which no one else will; any other competes again.
TakeHandover(u) ==
  /\ pc[u] = "resume"
  /\ IF handover = u
     THEN /\ handover' = NoThread
          /\ val' = 2
          /\ MakeReady(giver)
          /\ Goto(u, "cs")
     ELSE /\ Goto(u, "xchg")
          /\ UNCHANGED <<handover, val, state, pool>>
  /\ UNCHANGED <<request, lastES, numBlocked, running, phase, giver, htLock,
                 tableVars, numHandovers, prio, after, target, wakes, rounds>>

(* Releasing it *)

Finish(u) == rounds' = [rounds EXCEPT ![u] = @ - 1]

\* fetch_sub(val, 1): with val = 1 no ULT waits and the call is over.
Unlock(u) ==
  /\ pc[u] \in {"cs", "cs2"} /\ "unlock" \in UnlockOps
  /\ val' = val - 1
  /\ \/ val = 1 /\ Goto(u, "start") /\ Finish(u) /\ after' = after
     \/ /\ val # 1 /\ Goto(u, "store0") /\ rounds' = rounds
        /\ after' = [after EXCEPT ![u] = "return"]
  /\ UNCHANGED <<threadVars, handover, giver, htLock, tableVars, numHandovers, prio,
                 target, wakes>>

\* Otherwise val = 0, and ABTI_mutex_wake_de wakes MaxWakeups waiters up.
StoreZero(u) ==
  /\ pc[u] = "store0"
  /\ val' = 0
  /\ wakes' = [wakes EXCEPT ![u] = 0]
  /\ Goto(u, "wake")
  /\ UNCHANGED <<threadVars, handover, giver, htLock, tableVars, numHandovers, prio,
                 after, target, rounds>>

\* The i-th queue of the list is the first one that is not empty.
FirstLive(list, queue, i) ==
  queue[list[i]] # <<>> /\ \A j \in 1 .. i - 1 : queue[list[j]] = <<>>
NoneLive(list, queue) == \A i \in DOMAIN list : queue[list[i]] = <<>>

\* A turn round the list that takes the head of the i-th queue: the empty queues
\* before it are unlinked on the way, and it moves to the end of the list
\* itself, or leaves it when it has become empty.
Turn(list, queue, i) ==
  LET rest == SubSeq(list, i + 1, Len(list))
  IN  IF Len(queue[list[i]]) = 1 THEN rest ELSE Append(rest, list[i])
Pop(queue, e) == [queue EXCEPT ![e] = Tail(@)]

\* The end of ABTI_mutex_wake_de, and of the unlock that called it.
WakeOver(u, e) ==
  /\ numHandovers' = [numHandovers EXCEPT ![e] = IF after[u] = "reset" THEN 0 ELSE @]
  /\ \/ after[u] = "return" /\ Goto(u, "start") /\ Finish(u)
     \/ after[u] # "return" /\ Goto(u, "se_yield") /\ rounds' = rounds

Woken(u, t) ==
  /\ target' = [target EXCEPT ![u] = t]
  /\ Goto(u, "set_ready")
  /\ UNCHANGED <<numHandovers, rounds>>

\* One iteration of ABTI_mutex_wake_de, under the table's lock: high-priority
\* waiters come first.
WakeHigh(u) ==
  \E i \in DOMAIN hList :
    /\ FirstLive(hList, hq, i)
    /\ Woken(u, Head(hq[hList[i]]))
    /\ hList' = Turn(hList, hq, i)
    /\ hq' = Pop(hq, hList[i])
    /\ UNCHANGED <<lList, lq>>

WakeLow(u) ==
  \E i \in DOMAIN lList :
    /\ NoneLive(hList, hq)
    /\ FirstLive(lList, lq, i)
    /\ Woken(u, Head(lq[lList[i]]))
    /\ hList' = <<>>
    /\ lList' = Turn(lList, lq, i)
    /\ lq' = Pop(lq, lList[i])
    /\ hq' = hq

\* Nobody waits; with num_elems = 0 the lists are not even looked at.
WakeNone(u, e) ==
  /\ NoneLive(hList, hq) /\ NoneLive(lList, lq)
  /\ hList' = IF NumElems = 0 THEN hList ELSE <<>>
  /\ lList' = IF NumElems = 0 THEN lList ELSE <<>>
  /\ WakeOver(u, e)
  /\ UNCHANGED <<hq, lq, target>>

WakePop(u, e) ==
  /\ pc[u] = "wake"
  /\ htLock = NoThread
  /\ WakeHigh(u) \/ WakeLow(u) \/ WakeNone(u, e)
  /\ UNCHANGED <<threadVars, val, handover, giver, htLock, prio, after, wakes>>

WakeReady(u) ==
  /\ pc[u] = "set_ready"
  /\ CanSetReady(target[u])
  /\ MakeReady(target[u])
  /\ Goto(u, "dec_blocked")
  /\ UNCHANGED <<request, lastES, numBlocked, running, phase, mutexVars, prio, after,
                 target, wakes, rounds>>

WakeDec(u, e) ==
  /\ pc[u] = "dec_blocked"
  /\ DecNumBlocked(target[u])
  /\ target' = [target EXCEPT ![u] = NoThread]
  /\ wakes' = [wakes EXCEPT ![u] = @ + 1]
  /\ \/ wakes'[u] = MaxWakeups /\ WakeOver(u, e)
     \/ wakes'[u] < MaxWakeups /\ Goto(u, "wake") /\ UNCHANGED <<rounds, numHandovers>>
  /\ UNCHANGED <<state, request, lastES, pool, running, phase, val, handover, giver,
                 htLock, tableVars, prio, after>>

\* ABTI_mutex_unlock_se: without waiters it unlocks and yields.
UnlockSe(u) ==
  /\ pc[u] \in {"cs", "cs2"} /\ "unlock_se" \in UnlockOps
  /\ val' = val - 1
  /\ Goto(u, IF val = 1 THEN "se_yield" ELSE "se_check")
  /\ after' = [after EXCEPT ![u] = "yield"]
  /\ UNCHANGED <<threadVars, handover, giver, htLock, tableVars, numHandovers, prio,
                 target, wakes, rounds>>

\* After MaxHandovers handovers in a row the mutex is unlocked instead; it is
\* unlocked, too, when at most one high-priority ULT waits on this ES and some
\* queue is linked in the high-priority list.
SeCheck(u, e) ==
  /\ pc[u] = "se_check"
  /\ LET full == numHandovers[e] >= MaxHandovers
     IN  /\ after' = [after EXCEPT ![u] = IF full THEN "reset" ELSE @]
         /\ Goto(u, CASE full -> "store0"
                      [] ~full /\ Len(hq[e]) > 1 -> "se_pop"
                      [] ~full /\ Len(hq[e]) <= 1 /\ hList # <<>> -> "store0"
                      [] OTHER -> "se_low")
  /\ UNCHANGED <<threadVars, mutexVars, prio, target, wakes, rounds>>

SePop(u, e) ==
  /\ pc[u] = "se_pop"
  /\ IF hq[e] = <<>>
     THEN Goto(u, "se_check") /\ UNCHANGED <<hq, target>>
     ELSE /\ target' = [target EXCEPT ![u] = Head(hq[e])]
          /\ hq' = [hq EXCEPT ![e] = Tail(@)]
          /\ Goto(u, "se_give")
  /\ UNCHANGED <<threadVars, val, handover, giver, htLock, lq, hList, lList,
                 numHandovers, prio, after, wakes, rounds>>

\* Low-priority ULTs of this ES are next, again when there are two or more.
SeLow(u, e) ==
  /\ pc[u] = "se_low"
  /\ Goto(u, IF Len(lq[e]) <= 1 THEN "store0" ELSE "se_pop_low")
  /\ UNCHANGED <<threadVars, mutexVars, prio, after, target, wakes, rounds>>

SePopLow(u, e) ==
  /\ pc[u] = "se_pop_low"
  /\ IF lq[e] = <<>>
     THEN Goto(u, "se_check") /\ UNCHANGED <<lq, target>>
     ELSE /\ target' = [target EXCEPT ![u] = Head(lq[e])]
          /\ lq' = [lq EXCEPT ![e] = Tail(@)]
          /\ Goto(u, "se_give")
  /\ UNCHANGED <<threadVars, val, handover, giver, htLock, hq, hList, lList,
                 numHandovers, prio, after, wakes, rounds>>

SeGive(u, e) ==
  /\ pc[u] = "se_give"
  /\ numHandovers' = [numHandovers EXCEPT ![e] = @ + 1]
  /\ handover' = target[u]
  /\ giver' = u
  /\ Goto(u, "se_switch")
  /\ UNCHANGED <<threadVars, val, htLock, tableVars, prio, after, target, wakes, rounds>>

\* The giver is not pushed: it switches to the new owner, which will push it.
SeSwitch(u, e) ==
  /\ pc[u] = "se_switch"
  /\ CanSetReady(target[u])
  /\ DecNumBlocked(target[u])
  /\ SwitchToThread(e, target[u])
  /\ state' = [state EXCEPT ![target[u]] = "RUNNING"]
  /\ target' = [target EXCEPT ![u] = NoThread]
  /\ Goto(u, "given")
  /\ UNCHANGED <<request, lastES, pool, phase, mutexVars, prio, after, wakes, rounds>>

SeReturn(u) ==
  /\ pc[u] = "given"
  /\ Goto(u, "start") /\ Finish(u)
  /\ UNCHANGED <<threadVars, mutexVars, prio, after, target, wakes>>

SeYield(u, e) ==
  /\ pc[u] = "se_yield"
  /\ YieldThread(u, e)
  /\ Goto(u, "start") /\ Finish(u)
  /\ UNCHANGED <<mutexVars, prio, after, target, wakes>>

(* The rest of the program, and the specification *)

YieldInCS(u, e) ==
  /\ CSYield /\ pc[u] = "cs"
  /\ YieldThread(u, e)
  /\ Goto(u, "cs2")
  /\ UNCHANGED <<mutexVars, prio, after, target, wakes, rounds>>

\* The ULT's function returns; nobody has joined it.
Terminate(u, e) ==
  /\ pc[u] = "start" /\ rounds[u] = 0
  /\ request' = [request EXCEPT ![u] = @ \cup {"JOIN", "TERMINATE"}]
  /\ SwitchToSched(e)
  /\ Goto(u, "done")
  /\ UNCHANGED <<state, lastES, pool, numBlocked, running, mutexVars, prio, after,
                 target, wakes, rounds>>

Acquire(u, e) ==
  \/ Lock(u) \/ LockLow(u, e) \/ LowCas(u) \/ LowSwap(u, e) \/ LowSwitch(u, e)
  \/ Spinlock(u) \/ Trylock(u) \/ Xchg(u) \/ WaitCheck(u) \/ WaitEnqueue(u, e)
  \/ WaitSuspend(u, e) \/ TakeHandover(u)

Release(u, e) ==
  \/ Unlock(u) \/ StoreZero(u) \/ WakePop(u, e) \/ WakeReady(u) \/ WakeDec(u, e)
  \/ UnlockSe(u) \/ SeCheck(u, e) \/ SePop(u, e) \/ SeLow(u, e) \/ SePopLow(u, e)
  \/ SeGive(u, e) \/ SeSwitch(u, e) \/ SeReturn(u) \/ SeYield(u, e)

Step(u, e) ==
  On(u, e) /\ (Acquire(u, e) \/ Release(u, e) \/ YieldInCS(u, e) \/ Terminate(u, e))

Sched(e) == Scheduler(e) /\ UNCHANGED <<mutexVars, localVars>>

AllDone == \A u \in Thread : state[u] = "TERMINATED"

Next ==
  \/ \E e \in Xstream : Sched(e)
  \/ \E e \in Xstream, u \in Thread : Step(u, e)
  \/ AllDone /\ UNCHANGED vars

Spec == Init /\ [][Next]_vars

\* The OS runs the thread of every ES, and an ES never stops in the middle of
\* its scheduler or of a ULT; a critical section ends.
Fairness ==
  /\ \A e \in Xstream : WF_vars(Sched(e))
  /\ \A u \in Thread : WF_vars(\E e \in Xstream : Step(u, e))

FairSpec == Spec /\ Fairness

(* Properties *)

\* A ULT that locks with low priority lives in a pool that one ES alone serves.  The
\* code does not demand it, and OneRunner fails without it: ABT_mutex_lock_low queues
\* its caller before the caller has left its stack, with no BLOCK request to wait for.
Low(u) == "lock_low" \in LockOps[u]
Serves(e, p) == Contains(SchedPools[e], p)
LowPrivate ==
  \A u \in Thread, e, f \in Xstream :
    Low(u) /\ Serves(e, HomePool[u]) /\ Serves(f, HomePool[u]) => e = f

\* Those that one ES serves live in one pool.  The code does not demand this either:
\* switch_low moves a count of blocked ULTs from one ULT to another without looking
\* at their pools.
LowOnePool ==
  \A u, v \in Thread, e \in Xstream :
    Low(u) /\ Low(v) /\ Serves(e, HomePool[u]) /\ Serves(e, HomePool[v]) =>
      HomePool[u] = HomePool[v]

TableTypeOK ==
  /\ hq \in [Xstream -> Seq(Thread)]
  /\ lq \in [Xstream -> Seq(Thread)]
  /\ hList \in Seq(Xstream)
  /\ lList \in Seq(Xstream)

WordTypeOK ==
  /\ val \in 0 .. 2
  /\ handover \in Thread \cup {NoThread}
  /\ giver \in Thread \cup {NoThread}
  /\ handover # NoThread => giver # NoThread
  /\ htLock \in Thread \cup {NoThread}
  /\ numHandovers \in [Xstream -> Nat]

LocalTypeOK ==
  /\ pc \in [Thread -> PC]
  /\ prio \in [Thread -> {"high", "low"}]
  /\ after \in [Thread -> {"return", "yield", "reset"}]
  /\ target \in [Thread -> Thread \cup {NoThread}]
  /\ wakes \in [Thread -> Nat]
  /\ rounds \in [Thread -> Nat]
  /\ \A u \in Thread :
       /\ pc[u] \in {"low_switch", "set_ready", "dec_blocked", "se_give", "se_switch"}
            => target[u] # NoThread
       /\ pc[u] \notin {"start", "done"} => rounds[u] > 0

\* Every variable has its type; in particular the lock word stays within 0 .. 2
\* and no operation dereferences a NULL ULT.
TypeOK == ThreadsTypeOK /\ TableTypeOK /\ WordTypeOK /\ LocalTypeOK

\* Where a ULT owns the mutex: in its critical section, and while it releases a
\* mutex that has waiters until it stores 0 or names the ULT it hands it to.
OwnerPC == {"cs", "cs2", "store0", "se_check", "se_pop", "se_low", "se_pop_low",
            "se_give"}
Owns(u) == pc[u] \in OwnerPC

\* The mutex has one owner at most, whatever mixture of lock, lock_low,
\* spinlock, trylock, unlock and unlock_se competes for it; a mutex that is
\* being handed over counts as owned, and the lock word says so.
MutualExclusion ==
  /\ \A u, v \in Thread : Owns(u) /\ Owns(v) => u = v
  /\ \A u \in Thread : Owns(u) => val # 0 /\ handover = NoThread
  /\ handover # NoThread => val # 0

Waiting(u) == \E e \in Xstream : Contains(hq[e], u) \/ Contains(lq[e], u)

\* A ULT in the queues is never forgotten: either the lock word tells the owner
\* that it must wake somebody, or a ULT is already on the way to do so or to
\* set the word to 2 itself (abti_mutex.h, the loop of ABTI_mutex_lock).
NoLostWakeup ==
  (\E u \in Thread : Waiting(u)) =>
    \/ val = 2
    \/ handover # NoThread
    \/ \E u \in Thread :
         \/ pc[u] \in {"xchg", "store0", "wake", "set_ready", "dec_blocked",
                       "se_check", "se_pop", "se_low", "se_pop_low", "se_give"}
         \/ pc[u] = "resume" /\ ~Waiting(u)

\* num_blocked counts the blocked ULTs of its pool, and those that a waker has
\* pushed back but not counted out yet; a ULT in the middle of switch_low, not
\* counted itself, is about to take over the count of the one it switches to.
BlockedCount ==
  \A p \in Pool :
    LET ofPool(S) == Cardinality({u \in S : HomePool[u] = p})
        lateOnes == {w \in Thread : pc[w] = "dec_blocked"}
    IN  numBlocked[p] + ofPool({u \in Thread : pc[u] = "low_switch"})
          = ofPool({u \in Thread : state[u] = "BLOCKED"})
            + Cardinality({w \in lateOnes : HomePool[target[w]] = p})

\* Each queue in use is linked in the list of its priority exactly once, so a
\* wake-up that scans the lists under the table's lock finds every waiter.
QueuesLinked ==
  /\ \A e \in Xstream : hq[e] # <<>> => Contains(hList, e)
  /\ \A e \in Xstream : lq[e] # <<>> => Contains(lList, e)
  /\ IsInjective(hList) /\ IsInjective(lList)

\* Whoever is woken is blocked (ABTI_thread_set_ready fails otherwise), and no
\* other ULT is waking it or has been handed the mutex for it.
WakesBlocked ==
  \A w \in Thread : pc[w] \in {"set_ready", "se_give", "se_switch"} =>
    /\ state[target[w]] = "BLOCKED"
    /\ ~Waiting(target[w])
    /\ \A x \in Thread : target[x] = target[w] /\ pc[x] # "dec_blocked" => x = w

\* The abstract mutex: during a handover the ULT named in p_handover owns it.
lockOwner ==
  IF handover # NoThread THEN handover
  ELSE IF \E u \in Thread : Owns(u) THEN CHOOSE u \in Thread : Owns(u) ELSE NoThread
lockAsked ==
  {u \in Thread : /\ pc[u] \in {"low_try", "low_switch", "low_cas", "spin", "xchg",
                                "wait", "enqueue", "suspend", "resume"}
                  /\ handover # u}
Abstract == INSTANCE LockSpec
              WITH Client <- Thread, NoClient <- NoThread,
                   owner <- lockOwner, asked <- lockAsked

\* ABT_mutex implements the abstract mutex: the ownership moves only from the
\* owner, and only to a ULT that found the mutex free or was waiting for it.
ImplementsLock == Abstract!Spec

\* Every ULT gets the mutex as often as it asks for it, and terminates: no
\* waiter is lost, no handover is left hanging, the giver is pushed back.
Termination == <>AllDone
=============================================================================
