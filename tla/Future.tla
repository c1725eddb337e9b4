------------------------------- MODULE Future -------------------------------
(***************************************************************************)
(* ABT_eventual (eventual.c) and ABT_future (futures.c) over the ULT layer *)
(* of Threads.  Both keep a queue of the ULTs that wait until they are     *)
(* ready: an eventual is ready when it is set, a future when all its       *)
(* compartments are.  The set that makes one ready wakes its whole queue   *)
(* under its lock.  A reset makes either unready, to be used again.        *)
(***************************************************************************)
EXTENDS Threads, SequencesExt

CONSTANTS
  Eventual, FutureObj,   \* the objects of either kind
  Compartments,          \* p_future->compartments of every future
  Program                \* the calls of every ULT: sequences of [op, obj]

Obj == Eventual \cup FutureObj
Op == [op : {"wait", "test", "set", "reset"}, obj : Obj]

ASSUME FutureAssumption ==
  /\ Eventual \cap FutureObj = {}
  /\ Compartments \in [FutureObj -> Nat \ {0}]
  /\ Program \in [Thread -> Seq(Op)]

VARIABLES
  ready,     \* p_eventual->ready, p_future->ready
  counter,   \* p_future->counter: the compartments that were set
  lock,      \* the holder of the lock of every object
  waiters,   \* the queue of every object: p_head first
  pc,        \* where every ULT is
  calls      \* the calls it has left, the current one first

objVars == <<ready, counter, lock, waiters>>
localVars == <<pc, calls>>
vars == <<threadVars, objVars, localVars>>

PC == {"call", "suspend", "resume", "wake", "dec_blocked", "done"}

Init ==
  /\ ThreadsInit
  /\ ready = [o \in Obj |-> FALSE]
  /\ counter = [o \in FutureObj |-> 0]
  /\ lock = [o \in Obj |-> NoThread]
  /\ waiters = [o \in Obj |-> <<>>]
  /\ pc = [u \in Thread |-> "call"]
  /\ calls = Program

Goto(u, l) == pc' = [pc EXCEPT ![u] = l]
Target(u) == Head(calls[u]).obj
Calls(u, op) == pc[u] = "call" /\ calls[u] # <<>> /\ Head(calls[u]).op = op
Returns(u) == Goto(u, "call") /\ calls' = [calls EXCEPT ![u] = Tail(@)]

(* Faulty variants of definitions below, see Mutex *)

\* The ULT is not linked in the queue.
WaitUnlinked(u) ==
  /\ Calls(u, "wait") /\ lock[Target(u)] = NoThread
  /\ \/ ready[Target(u)] /\ Returns(u) /\ UNCHANGED <<threadVars, waiters>>
     \/ /\ ~ready[Target(u)]
        /\ SetBlocked(u)
        /\ Goto(u, "suspend")
        /\ UNCHANGED <<lastES, pool, running, phase, calls, waiters>>
  /\ UNCHANGED <<ready, counter, lock>>

\* A future is ready as soon as one compartment is set.
FutureSetFirst(u) ==
  /\ Calls(u, "set") /\ Target(u) \in FutureObj /\ lock[Target(u)] = NoThread
  /\ counter' = [counter EXCEPT ![Target(u)] = @ + 1]
  /\ IF waiters[Target(u)] = <<>>
     THEN Returns(u) /\ UNCHANGED lock
     ELSE Goto(u, "wake") /\ lock' = [lock EXCEPT ![Target(u)] = u] /\ UNCHANGED calls
  /\ ready' = [ready EXCEPT ![Target(u)] = TRUE]
  /\ UNCHANGED <<threadVars, waiters>>

\* Only the head of the queue is woken.
WakeDecOne(u) ==
  /\ pc[u] = "dec_blocked"
  /\ DecNumBlocked(Head(waiters[Target(u)]))
  /\ waiters' = [waiters EXCEPT ![Target(u)] = Tail(@)]
  /\ lock' = [lock EXCEPT ![Target(u)] = NoThread]
  /\ Returns(u)
  /\ UNCHANGED <<state, request, lastES, pool, running, phase, ready, counter>>

(* ABT_eventual_wait and ABT_future_wait *)

Wait(u) ==
  /\ Calls(u, "wait") /\ lock[Target(u)] = NoThread
  /\ \/ ready[Target(u)] /\ Returns(u) /\ UNCHANGED <<threadVars, waiters>>
     \/ /\ ~ready[Target(u)]
        /\ waiters' = [waiters EXCEPT ![Target(u)] = Append(@, u)]
        /\ SetBlocked(u)
        /\ Goto(u, "suspend")
        /\ UNCHANGED <<lastES, pool, running, phase, calls>>
  /\ UNCHANGED <<ready, counter, lock>>

Suspend(u, e) ==
  /\ pc[u] = "suspend"
  /\ SwitchToSched(e)
  /\ Goto(u, "resume")
  /\ UNCHANGED <<state, request, lastES, pool, numBlocked, running, objVars, calls>>

Resume(u) ==
  /\ pc[u] = "resume"
  /\ Returns(u)
  /\ UNCHANGED <<threadVars, objVars>>

\* ABT_future_test reads the flag without the lock; the client polls with it.
Test(u, e) ==
  /\ Calls(u, "test")
  /\ \/ ready[Target(u)] /\ Returns(u) /\ UNCHANGED threadVars
     \/ ~ready[Target(u)] /\ YieldThread(u, e) /\ UNCHANGED localVars
  /\ UNCHANGED objVars

(* ABT_eventual_set, ABT_future_set, ABT_eventual_reset and ABT_future_reset *)

Resolve(u) ==
  /\ ready' = [ready EXCEPT ![Target(u)] = TRUE]
  /\ IF waiters[Target(u)] = <<>>
     THEN Returns(u) /\ UNCHANGED lock
     ELSE Goto(u, "wake") /\ lock' = [lock EXCEPT ![Target(u)] = u] /\ UNCHANGED calls

EventualSet(u) ==
  /\ Calls(u, "set") /\ Target(u) \in Eventual /\ lock[Target(u)] = NoThread
  /\ Resolve(u)
  /\ UNCHANGED <<threadVars, counter, waiters>>

FutureSet(u) ==
  /\ Calls(u, "set") /\ Target(u) \in FutureObj /\ lock[Target(u)] = NoThread
  /\ counter' = [counter EXCEPT ![Target(u)] = @ + 1]
  /\ \/ counter'[Target(u)] < Compartments[Target(u)] /\ Returns(u) /\ UNCHANGED <<ready, lock>>
     \/ counter'[Target(u)] = Compartments[Target(u)] /\ Resolve(u)
  /\ UNCHANGED <<threadVars, waiters>>

\* A set too many is an error: the call returns with the lock held.
FutureSetFails(u) ==
  /\ Calls(u, "set") /\ Target(u) \in FutureObj /\ lock[Target(u)] = NoThread
  /\ counter[Target(u)] >= Compartments[Target(u)]
  /\ counter' = [counter EXCEPT ![Target(u)] = @ + 1]
  /\ lock' = [lock EXCEPT ![Target(u)] = u]
  /\ Returns(u)
  /\ UNCHANGED <<threadVars, ready, waiters>>

WakeReady(u) ==
  /\ pc[u] = "wake"
  /\ LET w == Head(waiters[Target(u)]) IN CanSetReady(w) /\ MakeReady(w)
  /\ Goto(u, "dec_blocked")
  /\ UNCHANGED <<request, lastES, numBlocked, running, phase, objVars, calls>>

WakeDec(u) ==
  /\ pc[u] = "dec_blocked"
  /\ DecNumBlocked(Head(waiters[Target(u)]))
  /\ waiters' = [waiters EXCEPT ![Target(u)] = Tail(@)]
  /\ IF Tail(waiters[Target(u)]) = <<>>
     THEN Returns(u) /\ lock' = [lock EXCEPT ![Target(u)] = NoThread]
     ELSE Goto(u, "wake") /\ UNCHANGED <<lock, calls>>
  /\ UNCHANGED <<state, request, lastES, pool, running, phase, ready, counter>>

\* The counter of a future keeps its value.
Reset(u) ==
  /\ Calls(u, "reset") /\ lock[Target(u)] = NoThread
  /\ ready' = [ready EXCEPT ![Target(u)] = FALSE]
  /\ Returns(u)
  /\ UNCHANGED <<threadVars, counter, lock, waiters>>

Leave(u, e) ==
  /\ pc[u] = "call" /\ calls[u] = <<>>
  /\ request' = [request EXCEPT ![u] = @ \cup {"TERMINATE"}]
  /\ SwitchToSched(e)
  /\ Goto(u, "done")
  /\ UNCHANGED <<state, lastES, pool, numBlocked, running, objVars, calls>>

Step(u, e) ==
  /\ On(u, e)
  /\ \/ Wait(u) \/ Suspend(u, e) \/ Resume(u) \/ Test(u, e) \/ EventualSet(u)
     \/ FutureSet(u) \/ FutureSetFails(u) \/ WakeReady(u) \/ WakeDec(u) \/ Reset(u)
     \/ Leave(u, e)

Sched(e) == Scheduler(e) /\ UNCHANGED <<objVars, localVars>>

AllDone == \A u \in Thread : state[u] = "TERMINATED"

Next ==
  \/ \E e \in Xstream : Sched(e)
  \/ \E e \in Xstream, u \in Thread : Step(u, e)
  \/ AllDone /\ UNCHANGED vars

Spec == Init /\ [][Next]_vars

\* Every ES makes progress, in its scheduler and in the ULT it runs.
Fairness ==
  /\ \A e \in Xstream : WF_vars(Sched(e))
  /\ \A u \in Thread : WF_vars(\E e \in Xstream : Step(u, e))

FairSpec == Spec /\ Fairness

(* Properties *)

\* Every variable has its type, and whoever wakes ULTs holds the lock of a queue
\* that is not empty.
TypeOK ==
  /\ ThreadsTypeOK
  /\ ready \in [Obj -> BOOLEAN]
  /\ counter \in [FutureObj -> Nat]
  /\ lock \in [Obj -> Thread \cup {NoThread}]
  /\ waiters \in [Obj -> Seq(Thread)]
  /\ pc \in [Thread -> PC]
  /\ calls \in [Thread -> Seq(Op)]
  /\ \A u \in Thread :
       /\ pc[u] # "call" /\ pc[u] # "done" => calls[u] # <<>>
       /\ pc[u] \in {"wake", "dec_blocked"} =>
            lock[Target(u)] = u /\ waiters[Target(u)] # <<>>

\* Nobody sleeps on an object that is ready, and every ULT that sleeps is in the
\* queue of the object it waits for.
NoSleeper ==
  /\ \A o \in Obj : lock[o] = NoThread /\ ready[o] => waiters[o] = <<>>
  /\ \A u \in Thread : state[u] = "BLOCKED" => Contains(waiters[Target(u)], u)

\* A ULT leaves the queue of an object only when that has been resolved: an
\* eventual that was set, a future all of whose compartments were.
OnlyResolved ==
  [][\A o \in Obj, u \in Thread :
       Contains(waiters[o], u) /\ ~Contains(waiters'[o], u) =>
         ready[o] /\ (o \in FutureObj => counter[o] >= Compartments[o])]_vars

\* A wait for an object that is set as often as it must be returns.
EveryWaitReturns ==
  \A u \in Thread : Calls(u, "wait") \/ pc[u] = "suspend" ~> ~Calls(u, "wait") /\ pc[u] = "call"

\* All calls return: no set comes between a ULT's look at the flag and its sleep,
\* no reset takes back what a waiter was woken for.
Termination == <>AllDone
=============================================================================
