-------------------------------- MODULE Join --------------------------------
(***************************************************************************)
(* How ULTs end and wait for each other: ABT_thread_join, ABT_thread_exit, *)
(* ABT_thread_cancel, ABT_thread_revive, ABT_thread_yield and              *)
(* ABT_thread_yield_to (thread.c), and the end of a ULT in                 *)
(* ABTD_thread_terminate and ABTD_thread_cancel (arch/abtd_thread.c), over *)
(* the ULT layer of Threads.                                               *)
(*                                                                         *)
(* A joiner waits in one of three ways: it runs the target itself, it      *)
(* suspends and leaves its context in the target's link, or it polls.  The *)
(* terminating target must find out, without a lock, which of them it is.  *)
(***************************************************************************)
EXTENDS Threads, SequencesExt

CONSTANTS
  Access,    \* how the ESs share every pool
  Program    \* what every ULT may do before it ends, see Todo

AccessKind == {"PRIV", "SPSC", "MPSC", "SPMC", "MPMC"}

\* The calls a ULT has left: the ULTs it must join, and those it may cancel,
\* yield to and revive (after joining them); and how often it may yield.
Todo == [join : SUBSET Thread, cancel : SUBSET Thread, to : SUBSET Thread,
         revive : SUBSET Thread, yield : Nat, exit : BOOLEAN]

ASSUME JoinAssumption ==
  /\ Access \in [Pool -> AccessKind]
  /\ Program \in [Thread -> Todo]
  /\ \A u \in Thread : u \notin Program[u].join \cup Program[u].to

VARIABLES
  link,    \* p_thread->ctx.p_link of every ULT
  pc,      \* where every ULT is
  goal,    \* the ULT it joins, yields to or wakes
  todo     \* what is left of its program

localVars == <<link, pc, goal, todo>>
vars == <<threadVars, localVars>>

PC == {"run", "join", "find", "block", "link", "suspend", "resume", "poll",
       "yield_to", "end", "jump", "wait_link", "wake", "set_ready", "push", "dec_blocked", "stop",
       "done"}

Goto(u, l) == pc' = [pc EXCEPT ![u] = l]

Init ==
  /\ ThreadsInit
  /\ link = [u \in Thread |-> NoThread]
  /\ pc = [u \in Thread |-> "run"]
  /\ goal = [u \in Thread |-> NoThread]
  /\ todo = Program

(* Faulty variants of definitions below, see Mutex *)

\* The joiner blocks although the JOIN request was set before.
JoinChooseBlocks(u) ==
  /\ pc[u] = "join"
  /\ state[goal[u]] # "TERMINATED"
  /\ request' = [request EXCEPT ![goal[u]] = @ \cup {"JOIN"}]
  /\ Goto(u, "block")
  /\ UNCHANGED <<state, lastES, pool, numBlocked, running, phase, link, goal, todo>>

\* The joiner that a scheduler has resumed takes its target for terminated.
JoinResumeReturns(u) ==
  /\ pc[u] = "resume"
  /\ state' = [state EXCEPT ![u] = "RUNNING"]
  /\ numBlocked' = IF state[u] = "BLOCKED"
                     THEN [numBlocked EXCEPT ![HomePool[u]] = @ - 1] ELSE numBlocked
  /\ todo' = [todo EXCEPT ![u].join = @ \ {goal[u]}]
  /\ goal' = [goal EXCEPT ![u] = NoThread]
  /\ Goto(u, "run")
  /\ UNCHANGED <<request, lastES, pool, running, phase, link>>

\* A joiner that has run its target does not count as blocked any more, but is
\* never counted out.
JoinResumeNoCount(u) ==
  /\ pc[u] = "resume" /\ state[u] = "BLOCKED"
  /\ state' = [state EXCEPT ![u] = "RUNNING"]
  /\ todo' = [todo EXCEPT ![u].join = @ \ {goal[u]}]
  /\ goal' = [goal EXCEPT ![u] = NoThread]
  /\ Goto(u, "run")
  /\ UNCHANGED <<request, lastES, pool, numBlocked, running, phase, link>>

\* A terminating ULT changes its state before it has woken its joiner.
EndLinkedEarly(u, e) ==
  /\ pc[u] \in {"run", "end"} /\ todo[u].join = {}
  /\ link[u] # NoThread
  /\ state' = [state EXCEPT ![u] = "TERMINATED"]
  /\ goal' = [goal EXCEPT ![u] = link[u]]
  /\ Goto(u, "wake")
  /\ UNCHANGED <<request, lastES, pool, numBlocked, running, phase, link, todo>>

\* A terminating ULT that sees no link does not look at the JOIN request.
EndUnlinkedStops(u) ==
  /\ pc[u] \in {"run", "end"} /\ todo[u].join = {}
  /\ link[u] = NoThread
  /\ request' = [request EXCEPT ![u] = @ \cup {"JOIN", "TERMINATE"}]
  /\ Goto(u, "stop")
  /\ UNCHANGED <<state, lastES, pool, numBlocked, running, phase, link, goal, todo>>

(* ABT_thread_join *)

Join(u, t) ==
  /\ pc[u] = "run" /\ t \in todo[u].join
  /\ goal' = [goal EXCEPT ![u] = t]
  /\ Goto(u, "join")
  /\ UNCHANGED <<threadVars, link, todo>>

Joined(u) ==
  /\ todo' = [todo EXCEPT ![u].join = @ \ {goal[u]}]
  /\ goal' = [goal EXCEPT ![u] = NoThread]
  /\ Goto(u, "run")

\* Nothing to wait for if the target has terminated.
JoinTerminated(u) ==
  /\ pc[u] = "join"
  /\ state[goal[u]] = "TERMINATED"
  /\ Joined(u)
  /\ UNCHANGED <<threadVars, link>>

SamePool(u, t) == HomePool[u] = HomePool[t]
OneConsumer(u) == Access[HomePool[u]] \in {"PRIV", "MPSC", "SPSC"}
OneProducer(u) == Access[HomePool[u]] \in {"PRIV", "SPSC"}
RunsTarget(u) == SamePool(u, goal[u]) /\ OneConsumer(u) /\ state[goal[u]] = "READY"

\* A READY target in a pool that only this ES pops from is run by the joiner
\* itself; a joiner whose pool takes no ULTs from other ESs polls; any other
\* sets the JOIN request, and polls if somebody has set it before.
JoinChoose(u) ==
  /\ pc[u] = "join"
  /\ state[goal[u]] # "TERMINATED"
  /\ \/ RunsTarget(u) /\ Goto(u, "find") /\ request' = request
     \/ /\ ~RunsTarget(u) /\ ~SamePool(u, goal[u]) /\ OneProducer(u)
        /\ Goto(u, "poll") /\ request' = request
     \/ /\ ~RunsTarget(u) /\ (SamePool(u, goal[u]) \/ ~OneProducer(u))
        /\ request' = [request EXCEPT ![goal[u]] = @ \cup {"JOIN"}]
        /\ Goto(u, IF "JOIN" \in request[goal[u]] THEN "poll" ELSE "block")
  /\ UNCHANGED <<state, lastES, pool, numBlocked, running, phase, link, goal, todo>>

\* The target may be READY but not pushed yet: wait until it is in the pool,
\* take it out and switch to it.  The joiner is BLOCKED without a request.
JoinRun(u, e) ==
  /\ pc[u] = "find"
  /\ InPool(goal[u])
  /\ pool' = [pool EXCEPT ![HomePool[u]] = RemoveFirst(@, goal[u])]
  /\ link' = [link EXCEPT ![goal[u]] = u]
  /\ lastES' = [lastES EXCEPT ![goal[u]] = e]
  /\ state' = [state EXCEPT ![goal[u]] = "RUNNING", ![u] = "BLOCKED"]
  /\ numBlocked' = [numBlocked EXCEPT ![HomePool[u]] = @ + 1]
  /\ SwitchToThread(e, goal[u])
  /\ Goto(u, "resume")
  /\ UNCHANGED <<request, phase, goal, todo>>

JoinBlock(u) ==
  /\ pc[u] = "block"
  /\ SetBlocked(u)
  /\ Goto(u, "link")
  /\ UNCHANGED <<lastES, pool, running, phase, link, goal, todo>>

JoinLink(u) ==
  /\ pc[u] = "link"
  /\ link' = [link EXCEPT ![goal[u]] = u]
  /\ Goto(u, "suspend")
  /\ UNCHANGED <<threadVars, goal, todo>>

JoinSuspend(u, e) ==
  /\ pc[u] = "suspend"
  /\ SwitchToSched(e)
  /\ Goto(u, "resume")
  /\ UNCHANGED <<state, request, lastES, pool, numBlocked, running, link, goal, todo>>

\* Back on an ES, still BLOCKED: the target has switched straight to the joiner.
\* Otherwise a scheduler has resumed it, and the target has not quite ended.
JoinResume(u) ==
  /\ pc[u] = "resume"
  /\ \/ /\ state[u] = "BLOCKED"
        /\ state' = [state EXCEPT ![u] = "RUNNING"]
        /\ DecNumBlocked(u)
        /\ Joined(u)
     \/ /\ state[u] # "BLOCKED"
        /\ Goto(u, "poll")
        /\ UNCHANGED <<state, numBlocked, goal, todo>>
  /\ UNCHANGED <<request, lastES, pool, running, phase, link>>

JoinPoll(u, e) ==
  /\ pc[u] = "poll"
  /\ \/ state[goal[u]] = "TERMINATED" /\ Joined(u) /\ UNCHANGED threadVars
     \/ state[goal[u]] # "TERMINATED" /\ YieldThread(u, e) /\ UNCHANGED <<pc, goal, todo>>
  /\ UNCHANGED link

(* The other calls *)

Yield(u, e) ==
  /\ pc[u] = "run" /\ todo[u].yield > 0
  /\ YieldThread(u, e)
  /\ todo' = [todo EXCEPT ![u].yield = @ - 1]
  /\ UNCHANGED <<link, pc, goal>>

Cancel(u, t) ==
  /\ pc[u] = "run" /\ t \in todo[u].cancel
  /\ request' = [request EXCEPT ![t] = @ \cup {"CANCEL"}]
  /\ todo' = [todo EXCEPT ![u].cancel = @ \ {t}]
  /\ UNCHANGED <<state, lastES, pool, numBlocked, running, phase, link, pc, goal>>

\* ABT_thread_revive of a ULT that the caller has joined.
Revive(u, t) ==
  /\ pc[u] = "run" /\ t \in todo[u].revive \ todo[u].join
  /\ state[t] = "TERMINATED"
  /\ MakeReady(t)
  /\ request' = [request EXCEPT ![t] = {}]
  /\ lastES' = [lastES EXCEPT ![t] = NoXstream]
  /\ link' = [link EXCEPT ![t] = NoThread]
  /\ pc' = [pc EXCEPT ![t] = "run"]
  /\ goal' = [goal EXCEPT ![t] = NoThread]
  /\ todo' = [todo EXCEPT ![u].revive = @ \ {t}, ![u].join = @ \cup {t}]
  /\ UNCHANGED <<numBlocked, running, phase>>

\* ABTI_thread_is_ready: in a pool, and then READY, since whoever wakes a ULT makes it
\* READY before the push.
IsReady(t) == InPool(t) /\ state[t] = "READY"

\* ABT_thread_yield_to pushes the caller, before it takes the target out of the pool.
YieldTo(u, t) ==
  /\ pc[u] = "run" /\ t \in todo[u].to
  /\ SamePool(u, t) /\ IsReady(t)
  /\ MakeReady(u)
  /\ goal' = [goal EXCEPT ![u] = t]
  /\ todo' = [todo EXCEPT ![u].to = @ \ {t}]
  /\ Goto(u, "yield_to")
  /\ UNCHANGED <<request, lastES, numBlocked, running, phase, link>>

\* The target may have left the pool meanwhile: an error for the caller, which
\* goes on, with itself in the pool.
YieldToFails(u) ==
  /\ pc[u] = "yield_to"
  /\ ~InPool(goal[u])
  /\ goal' = [goal EXCEPT ![u] = NoThread]
  /\ Goto(u, "run")
  /\ UNCHANGED <<threadVars, link, todo>>

YieldToSwitch(u, e) ==
  /\ pc[u] = "yield_to"
  /\ InPool(goal[u])
  /\ pool' = [pool EXCEPT ![HomePool[u]] = RemoveFirst(@, goal[u])]
  /\ lastES' = [lastES EXCEPT ![goal[u]] = e]
  /\ state' = [state EXCEPT ![goal[u]] = "RUNNING"]
  /\ SwitchToThread(e, goal[u])
  /\ goal' = [goal EXCEPT ![u] = NoThread]
  /\ Goto(u, "run")
  /\ UNCHANGED <<request, numBlocked, phase, link, todo>>

Exit(u) ==
  /\ pc[u] = "run" /\ todo[u].exit
  /\ request' = [request EXCEPT ![u] = @ \cup {"EXIT"}]
  /\ Goto(u, "end")
  /\ UNCHANGED <<state, lastES, pool, numBlocked, running, phase, link, goal, todo>>

(* The end of a ULT, by itself or, cancelled, by a scheduler *)

Ends(u) == pc[u] = "end" \/ (pc[u] = "run" /\ todo[u].join = {})

\* A joiner is linked: jump to it if its context is on this ES (unless the ULT is
\* cancelled), wake it up otherwise.  Before the jump the ULT is TERMINATED for all.
EndLinked(u, e) ==
  /\ Ends(u) /\ link[u] # NoThread
  /\ \/ /\ phase[e] = "ult" /\ lastES[u] = lastES[link[u]]
        /\ state' = [state EXCEPT ![u] = "TERMINATED"]
        /\ Goto(u, "jump")
        /\ goal' = goal
     \/ /\ phase[e] = "cancel" \/ lastES[u] # lastES[link[u]]
        /\ goal' = [goal EXCEPT ![u] = link[u]]
        /\ Goto(u, "wake")
        /\ state' = state
  /\ UNCHANGED <<request, lastES, pool, numBlocked, running, phase, link, todo>>

\* Only now does it read its link again and leave its stack.
EndJump(u, e) ==
  /\ pc[u] = "jump"
  /\ SwitchToThread(e, link[u])
  /\ Goto(u, "done")
  /\ UNCHANGED <<state, request, lastES, pool, numBlocked, phase, link, goal, todo>>

\* Nobody is: either no join has started, and none can block any more, or the
\* joiner is about to leave its link.
EndUnlinked(u) ==
  /\ Ends(u) /\ link[u] = NoThread
  /\ request' = [request EXCEPT ![u] = @ \cup {"JOIN", "TERMINATE"}]
  /\ Goto(u, IF "JOIN" \in request[u] THEN "wait_link" ELSE "stop")
  /\ UNCHANGED <<state, lastES, pool, numBlocked, running, phase, link, goal, todo>>

WaitLink(u) ==
  /\ pc[u] = "wait_link"
  /\ link[u] # NoThread
  /\ goal' = [goal EXCEPT ![u] = link[u]]
  /\ Goto(u, "wake")
  /\ UNCHANGED <<threadVars, link, todo>>

\* ABTI_thread_set_ready fails, and its caller goes on, if the ULT is not BLOCKED.
WakeJoiner(u) ==
  /\ pc[u] = "wake"
  /\ Goto(u, IF state[goal[u]] = "BLOCKED" THEN "set_ready" ELSE "stop")
  /\ UNCHANGED <<threadVars, link, goal, todo>>

\* The joiner is READY before it is in its pool, see JoinRun.
WakeReady(u) ==
  /\ pc[u] = "set_ready"
  /\ CanSetReady(goal[u])
  /\ state' = [state EXCEPT ![goal[u]] = "READY"]
  /\ Goto(u, "push")
  /\ UNCHANGED <<request, lastES, pool, numBlocked, running, phase, link, goal, todo>>

WakePush(u) ==
  /\ pc[u] = "push"
  /\ Push(goal[u])
  /\ Goto(u, "dec_blocked")
  /\ UNCHANGED <<state, request, lastES, numBlocked, running, phase, link, goal, todo>>

WakeDec(u) ==
  /\ pc[u] = "dec_blocked"
  /\ DecNumBlocked(goal[u])
  /\ Goto(u, "stop")
  /\ UNCHANGED <<state, request, lastES, pool, running, phase, link, goal, todo>>

\* The ULT leaves to its scheduler, which will retire it; a cancelled ULT is in
\* the scheduler's hands already.
StopUlt(u, e) ==
  /\ pc[u] = "stop"
  /\ \/ /\ phase[e] = "ult"
        /\ request' = [request EXCEPT ![u] = @ \cup {"TERMINATE"}]
        /\ SwitchToSched(e)
        /\ UNCHANGED <<state, running>>
     \/ /\ phase[e] = "cancel"
        /\ state' = [state EXCEPT ![u] = "TERMINATED"]
        /\ BackToSched(e)
        /\ request' = request
  /\ Goto(u, "done")
  /\ goal' = [goal EXCEPT ![u] = NoThread]
  /\ UNCHANGED <<lastES, pool, numBlocked, link, todo>>

(* The scheduler of an ES *)

\* A cancelled ULT is terminated when it is popped ...
CancelPopped(e) == \E p \in Pool :
  /\ phase[e] = "sched"
  /\ NextPool(e, p)
  /\ "CANCEL" \in request[Head(pool[p])]
  /\ running' = [running EXCEPT ![e] = Head(pool[p])]
  /\ pool' = [pool EXCEPT ![p] = Tail(@)]
  /\ phase' = [phase EXCEPT ![e] = "cancel"]
  /\ Goto(Head(pool[p]), "end")
  /\ UNCHANGED <<state, request, lastES, numBlocked, link, goal, todo>>

\* ... or when it comes back to the scheduler, whatever it has left to do.
CancelReturned(e) ==
  /\ phase[e] = "ret"
  /\ "CANCEL" \in request[running[e]]
  /\ request[running[e]] \cap Stop = {}
  /\ phase' = [phase EXCEPT ![e] = "cancel"]
  /\ Goto(running[e], "end")
  /\ UNCHANGED <<state, request, lastES, pool, numBlocked, running, link, goal, todo>>

Sched(e) ==
  \/ Scheduler(e) /\ UNCHANGED localVars
  \/ CancelPopped(e) \/ CancelReturned(e)

Call(u, e) ==
  \/ \E t \in Thread : Join(u, t) \/ Cancel(u, t) \/ Revive(u, t) \/ YieldTo(u, t)
  \/ JoinTerminated(u) \/ JoinChoose(u) \/ JoinRun(u, e) \/ JoinBlock(u)
  \/ JoinLink(u) \/ JoinSuspend(u, e) \/ JoinResume(u) \/ JoinPoll(u, e)
  \/ Yield(u, e) \/ YieldToFails(u)
  \/ YieldToSwitch(u, e) \/ Exit(u)

End(u, e) ==
  \/ EndLinked(u, e) \/ EndJump(u, e) \/ EndUnlinked(u) \/ WaitLink(u) \/ WakeJoiner(u)
  \/ WakeReady(u) \/ WakePush(u) \/ WakeDec(u) \/ StopUlt(u, e)

Step(u, e) ==
  /\ running[e] = u
  /\ \/ phase[e] = "ult" /\ (Call(u, e) \/ End(u, e))
     \/ phase[e] = "cancel" /\ End(u, e)

AllDone == \A u \in Thread : state[u] = "TERMINATED"

Next ==
  \/ \E e \in Xstream : Sched(e)
  \/ \E e \in Xstream, u \in Thread : Step(u, e)
  \/ AllDone /\ UNCHANGED vars

Spec == Init /\ [][Next]_vars

\* Every ES makes progress, in its scheduler and in the ULT it runs; a ULT that
\* spins or polls is run again and again.
Fairness ==
  /\ \A e \in Xstream : WF_vars(Sched(e))
  /\ \A u \in Thread : WF_vars(\E e \in Xstream : Step(u, e))

FairSpec == Spec /\ Fairness

(* Properties *)

Serves(e, p) == Contains(SchedPools[e], p)
\* A joiner may find its target in the pool and run it; a joiner may block.
Lone(u, t) == SamePool(u, t) /\ OneConsumer(u)
MayBlock(u, t) == SamePool(u, t) \/ ~OneProducer(u)

\* What the code leaves to its callers.  Each conjunct excludes programs for which it
\* goes wrong: the sharing of a pool is as its access says; a ULT calls yield_to only
\* in a pool of one ES; a ULT that is revived has one joiner, who revives it; nobody
\* blocks in the join of a ULT that another joiner may run; and a ULT that may be
\* cancelled joins nobody.
ProgramOK ==
  /\ \A u \in Thread, e, f \in Xstream :
       OneConsumer(u) /\ Serves(e, HomePool[u]) /\ Serves(f, HomePool[u]) => e = f
  /\ \A u \in Thread : Program[u].to # {} => OneConsumer(u)
  /\ \A u, t \in Thread : t \in Program[u].revive =>
       /\ t \in Program[u].join
       /\ \A v \in Thread : t \in Program[v].join => v = u
  /\ \A u, v, t \in Thread :
       t \in Program[u].join \cap Program[v].join /\ u # v /\ Lone(u, t) => ~MayBlock(v, t)
  /\ \A u, t \in Thread : t \in Program[u].cancel => Program[t].join = {}

\* Every variable has its type; whoever joins, yields to or wakes a ULT knows which.
TypeOK ==
  /\ ThreadsTypeOK
  /\ link \in [Thread -> Thread \cup {NoThread}]
  /\ pc \in [Thread -> PC]
  /\ goal \in [Thread -> Thread \cup {NoThread}]
  /\ todo \in [Thread -> Todo]
  /\ \A u \in Thread :
       pc[u] \in {"join", "find", "block", "link", "suspend", "resume", "poll",
                  "yield_to", "wake", "set_ready", "push", "dec_blocked"} => goal[u] # NoThread

\* ABT_thread_join returns only when its target has terminated.
JoinWaits ==
  [][\A u, t \in Thread :
       t \in todo[u].join /\ t \notin todo'[u].join => state[t] = "TERMINATED"]_vars

\* A ULT that has terminated is in no pool.  If it is still on an ES, it is about to
\* jump to a joiner that sleeps in its link, whose context was saved on that ES, and
\* whose join has not returned: the last of its joiners to return may free the ULT.
LastJoinerMayFree ==
  \A u \in Thread : state[u] = "TERMINATED" =>
    /\ ~InPool(u)
    /\ \A e \in Xstream : running[e] = u =>
         \E v \in Thread :
           /\ link[u] = v /\ u \in todo[v].join
           /\ state[v] = "BLOCKED" /\ lastES[v] = e /\ \A f \in Xstream : running[f] # v

\* A joiner that has suspended is in the link of its target, and the target has
\* not passed the point where it looks there.
NoLostJoiner ==
  \A u \in Thread :
    pc[u] = "resume" /\ state[u] = "BLOCKED" =>
      \/ \E e \in Xstream : On(u, e)
      \/ link[goal[u]] = u /\ pc[goal[u]] \notin {"stop", "done"}

\* num_blocked counts the blocked ULTs of its pool, and those that a waker
\* has made READY but not counted out yet.
BlockedCount ==
  \A p \in Pool :
    numBlocked[p] = Cardinality({u \in Thread : state[u] = "BLOCKED" /\ HomePool[u] = p})
                    + Cardinality({w \in Thread : /\ pc[w] \in {"push", "dec_blocked"}
                                                  /\ HomePool[goal[w]] = p})

\* Every join returns, unless the joiner itself is cancelled.
EveryJoinReturns ==
  \A u \in Thread : pc[u] = "join" ~> pc[u] \in {"run", "done"}
=============================================================================
