------------------------------ MODULE Threads ------------------------------
(***************************************************************************)
(* The layer under every blocking object of Argobots: user-level threads   *)
(* (ULTs), the pools they wait in and the execution streams (ESs) whose    *)
(* schedulers run them (thread.c, stream.c).  The module has no next-state *)
(* relation of its own: the modules of the synchronisation objects extend  *)
(* it and build their actions from its operators, so that an ES is, in     *)
(* every one of them, either in its scheduler, in a ULT, or on the way     *)
(* back from a ULT whose requests it has not handled yet.                  *)
(***************************************************************************)
EXTENDS Integers, Sequences, FiniteSets

CONSTANTS
  Thread,      \* the ULTs
  Xstream,     \* the execution streams
  Pool,        \* the pools
  NoThread,    \* a NULL ULT pointer
  HomePool,    \* p_thread->p_pool of every ULT
  InitPool,    \* the units pushed to every pool before the ESs start
  NoXstream,   \* a NULL ES pointer
  SchedPools   \* the pools of the scheduler of every ES, in scan order

ASSUME ThreadsAssumption ==
  /\ NoThread \notin Thread
  /\ IsFiniteSet(Thread)
  /\ NoXstream \notin Xstream
  /\ HomePool \in [Thread -> Pool]
  /\ InitPool \in [Pool -> Seq(Thread)]
  /\ \A p, q \in Pool : \A i \in DOMAIN InitPool[p], j \in DOMAIN InitPool[q] :
       InitPool[p][i] = InitPool[q][j] => p = q /\ i = j
  /\ \A p \in Pool : \A i \in DOMAIN InitPool[p] : HomePool[InitPool[p][i]] = p
  /\ SchedPools \in [Xstream -> Seq(Pool)]

VARIABLES
  state,       \* p_thread->state
  request,     \* p_thread->request: the bits that are set
  lastES,      \* p_thread->p_last_xstream
  pool,        \* the units in every pool, head first
  numBlocked,  \* p_pool->num_blocked
  running,     \* the local current ULT of every ES (NoThread: none)
  phase        \* whose context an ES executes

threadVars == <<state, request, lastES, pool, numBlocked, running, phase>>

ThreadState == {"READY", "RUNNING", "BLOCKED", "TERMINATED"}
Request == {"JOIN", "EXIT", "CANCEL", "TERMINATE", "BLOCK"}
Stop == {"EXIT", "TERMINATE"}
NonYield == Stop \cup {"CANCEL", "BLOCK"}
\* sched: the scheduler's own; ult: the current ULT's; ret: the scheduler's
\* again, the ULT it has just switched from not handled yet; cancel: the
\* scheduler's, which is terminating a cancelled ULT.
Phase == {"sched", "ult", "ret", "cancel"}

ThreadsTypeOK ==
  /\ state \in [Thread -> ThreadState]
  /\ request \in [Thread -> SUBSET Request]
  /\ lastES \in [Thread -> Xstream \cup {NoXstream}]
  /\ pool \in [Pool -> Seq(Thread)]
  /\ numBlocked \in [Pool -> Int]
  /\ running \in [Xstream -> Thread \cup {NoThread}]
  /\ phase \in [Xstream -> Phase]
  /\ \A e \in Xstream : phase[e] # "sched" => running[e] # NoThread

ThreadsInit ==
  /\ state = [u \in Thread |-> "READY"]
  /\ request = [u \in Thread |-> {}]
  /\ lastES = [u \in Thread |-> NoXstream]
  /\ pool = InitPool
  /\ numBlocked = [p \in Pool |-> 0]
  /\ running = [e \in Xstream |-> NoThread]
  /\ phase = [e \in Xstream |-> "sched"]

\* ULT u executes on ES e.
On(u, e) == running[e] = u /\ phase[e] = "ult"

InPool(u) == \E p \in Pool : \E i \in DOMAIN pool[p] : pool[p][i] = u

Push(u) == pool' = [pool EXCEPT ![HomePool[u]] = Append(@, u)]

(* Faulty variants of definitions below, see Mutex *)

\* The ULT blocks without the BLOCK request.
SetBlockedNoRequest(u) ==
  /\ request' = request
  /\ state' = [state EXCEPT ![u] = "BLOCKED"]
  /\ numBlocked' = [numBlocked EXCEPT ![HomePool[u]] = @ + 1]

\* set_ready does not wait for the BLOCK request to be reset.
CanSetReadyAlways(u) == u \in Thread

(* What a ULT does to block itself, and others to wake it *)

SetBlocked(u) ==
  /\ request' = [request EXCEPT ![u] = @ \cup {"BLOCK"}]
  /\ state' = [state EXCEPT ![u] = "BLOCKED"]
  /\ numBlocked' = [numBlocked EXCEPT ![HomePool[u]] = @ + 1]

\* Context switch from the ULT on e to the scheduler of e.
SwitchToSched(e) == phase' = [phase EXCEPT ![e] = "ret"]

\* set_ready spins while the scheduler of u has not taken note that u is
\* blocked, then pushes u ...
CanSetReady(u) == "BLOCK" \notin request[u]
MakeReady(u) ==
  /\ state' = [state EXCEPT ![u] = "READY"]
  /\ Push(u)
\* ... and only afterwards counts it out of the blocked ULTs of its pool.
DecNumBlocked(u) == numBlocked' = [numBlocked EXCEPT ![HomePool[u]] = @ - 1]

\* Context switch from the ULT on e straight to the ULT u.
SwitchToThread(e, u) == running' = [running EXCEPT ![e] = u]

YieldThread(u, e) ==
  /\ state' = [state EXCEPT ![u] = "READY"]
  /\ SwitchToSched(e)
  /\ UNCHANGED <<request, lastES, pool, numBlocked, running>>

(* What the scheduler of e does *)

\* The scheduler pops the first unit of the first non-empty pool.
NextPool(e, p) ==
  \E i \in DOMAIN SchedPools[e] :
    /\ p = SchedPools[e][i]
    /\ pool[p] # <<>>
    /\ \A j \in 1 .. i - 1 : pool[SchedPools[e][j]] = <<>>

SchedRun(e) == \E p \in Pool :
  /\ phase[e] = "sched"
  /\ NextPool(e, p)
  /\ LET u == Head(pool[p])
     IN  /\ "CANCEL" \notin request[u]
         /\ running' = [running EXCEPT ![e] = u]
         /\ state' = [state EXCEPT ![u] = "RUNNING"]
         /\ lastES' = [lastES EXCEPT ![u] = e]
  /\ pool' = [pool EXCEPT ![p] = Tail(@)]
  /\ phase' = [phase EXCEPT ![e] = "ult"]
  /\ UNCHANGED <<request, numBlocked>>

BackToSched(e) ==
  /\ running' = [running EXCEPT ![e] = NoThread]
  /\ phase' = [phase EXCEPT ![e] = "sched"]

\* The requests of the ULT that has switched back, in the order of the code; they
\* are loaded once for all the tests.
ReturnTerminated(e) ==
  /\ phase[e] = "ret"
  /\ request[running[e]] \cap Stop # {}
  /\ state' = [state EXCEPT ![running[e]] = "TERMINATED"]
  /\ BackToSched(e)
  /\ UNCHANGED <<request, lastES, pool, numBlocked>>

GoesOn(e) == phase[e] = "ret" /\ request[running[e]] \cap (Stop \cup {"CANCEL"}) = {}

ReturnYielded(e) ==
  /\ GoesOn(e)
  /\ request[running[e]] \cap NonYield = {}
  /\ MakeReady(running[e])
  /\ BackToSched(e)
  /\ UNCHANGED <<request, lastES, numBlocked>>

ReturnBlocked(e) ==
  /\ GoesOn(e)
  /\ "BLOCK" \in request[running[e]]
  /\ request' = [request EXCEPT ![running[e]] = @ \ {"BLOCK"}]
  /\ BackToSched(e)
  /\ UNCHANGED <<state, lastES, pool, numBlocked>>

Scheduler(e) ==
  SchedRun(e) \/ ReturnTerminated(e) \/ ReturnYielded(e) \/ ReturnBlocked(e)

(* Invariants that every module above this layer must keep *)

\* No ULT runs on two ESs at once (they would share its stack).
OneRunner ==
  \A e, f \in Xstream :
    running[e] = running[f] /\ running[e] # NoThread => e = f

\* No ULT is in a pool while an ES is still on its stack: whoever pushes it has
\* waited until its context was saved (the BLOCK request is there for this).
SavedBeforePush ==
  \A e \in Xstream : running[e] # NoThread => ~InPool(running[e])

\* No ULT is in the pools twice: whoever pushes it is its only waker.
QueuedOnce ==
  \A p, q \in Pool : \A i \in DOMAIN pool[p], j \in DOMAIN pool[q] :
    pool[p][i] = pool[q][j] => p = q /\ i = j
=============================================================================
