------------------------------- MODULE Stream -------------------------------
(***************************************************************************)
(* How an execution stream stops (stream.c, sched/sched.c): its scheduler  *)
(* runs units until a join, a cancel or an exit is requested, adds up what *)
(* is left for it (units in its pools, blocked ULTs that will come back,   *)
(* ULTs that are migrating to it) and ends when that is nothing; the ULT   *)
(* that joins the ES is woken by it.  The counts are read one after the    *)
(* other while other ESs change them, and ULTs migrate meanwhile           *)
(* (thread.c, ABTI_xstream_migrate_thread).                                *)
(*                                                                         *)
(* A ULT changes its pool here, which it does not in Threads; the protocol *)
(* of blocking and waking is that of Threads.                              *)
(***************************************************************************)
EXTENDS Integers, Sequences, FiniteSets, SequencesExt

CONSTANTS
  Thread,      \* the ULTs
  Xstream,     \* the execution streams
  Pool,        \* the pools
  NoThread,    \* a NULL ULT pointer
  NoPool,      \* a NULL pool pointer
  InitPool,    \* the units pushed to every pool before the ESs start
  SchedPools,  \* the pools of the scheduler of every ES, in scan order
  Blockable,   \* the pools any ES may push to and pop from (access MPMC)
  EventFreq,   \* event_freq: units that are run between two checks for events
  Program      \* the calls of every ULT

Call ==
  {<<"yield">>, <<"sleep">>} \cup ({"join", "cancel"} \X Xstream)
  \cup ({"wake", "await"} \X Thread) \cup ({"migrate_to_xstream"} \X Thread \X Xstream)
  \cup ({"migrate_to_pool"} \X Thread \X Pool)

ASSUME StreamAssumption ==
  /\ NoThread \notin Thread
  /\ NoPool \notin Pool
  /\ IsFiniteSet(Thread) /\ IsFiniteSet(Xstream)
  /\ InitPool \in [Pool -> Seq(Thread)]
  /\ \A u \in Thread : \E p \in Pool : Contains(InitPool[p], u)
  /\ \A p, q \in Pool : \A i \in DOMAIN InitPool[p], j \in DOMAIN InitPool[q] :
       InitPool[p][i] = InitPool[q][j] => p = q /\ i = j
  /\ SchedPools \in [Xstream -> Seq(Pool) \ {<<>>}]
  /\ Blockable \subseteq Pool
  /\ EventFreq \in Nat \ {0}
  /\ Program \in [Thread -> Seq(Call)]

VARIABLES
  xstate,         \* p_xstream->state
  xrequest,       \* p_xstream->request
  reqArg,         \* p_xstream->p_req_arg: the ULT that waits for the ES
  schedState,     \* p_xstream->p_main_sched->state
  schedRequest,   \* p_xstream->p_main_sched->request
  schedLock,      \* whether the scheduler itself holds p_xstream->sched_lock
  workCount,      \* work_count of the scheduler
  xpc,            \* where every ES is
  at, size,       \* the count of its pools that it reads next, and the sum so far
  dest,           \* the pool of the migration it carries out
  woken,          \* the ULT that it makes ready: p_thread of set_ready
  running,        \* the current ULT of every ES
  pool,           \* the units in every pool, head first
  numBlocked,     \* p_pool->num_blocked
  numMigrations,  \* p_pool->num_migrations
  state,          \* p_thread->state
  request,        \* p_thread->request
  home,           \* p_thread->p_pool
  target,         \* the pool in the argument of the migration request
  pc,             \* where every ULT is
  calls           \* the calls it has left, the current one first

xstreamVars == <<xstate, xrequest, reqArg, schedState, schedRequest, schedLock>>
loopVars == <<workCount, at, size, dest, woken>>
poolVars == <<pool, numBlocked, numMigrations>>
threadVars == <<state, request, home, target>>
localVars == <<pc, calls>>
vars == <<xstreamVars, loopVars, xpc, running, poolVars, threadVars, localVars>>

XPC == {"start", "scan", "ult", "ret", "migrate", "migrate_dec", "count", "events", "exit",
        "size1", "size2", "stopped", "size3", "wake", "wake_dec", "end", "ended"}
PC == {"call", "join_arg", "set_blocked", "join_post", "suspend", "poll", "context_join",
       "dec_blocked", "post", "count", "done"}

\* The counts of a pool, in the order in which they are read.
Count == [nth : Nat \ {0}, what : {"size", "migrations", "blocked"}]
FirstCount == [nth |-> 1, what |-> "size"]

Init ==
  /\ xstate = [e \in Xstream |-> "READY"]
  /\ xrequest = [e \in Xstream |-> {}]
  /\ reqArg = [e \in Xstream |-> NoThread]
  /\ schedState = [e \in Xstream |-> "READY"]
  /\ schedRequest = [e \in Xstream |-> {}]
  /\ schedLock = [e \in Xstream |-> FALSE]
  /\ workCount = [e \in Xstream |-> 0]
  /\ xpc = [e \in Xstream |-> "start"]
  /\ at = [e \in Xstream |-> FirstCount]
  /\ size = [e \in Xstream |-> 0]
  /\ dest = [e \in Xstream |-> NoPool]
  /\ woken = [e \in Xstream |-> NoThread]
  /\ running = [e \in Xstream |-> NoThread]
  /\ pool = InitPool
  /\ numBlocked = [p \in Pool |-> 0]
  /\ numMigrations = [p \in Pool |-> 0]
  /\ state = [u \in Thread |-> "READY"]
  /\ request = [u \in Thread |-> {}]
  /\ home = [u \in Thread |-> CHOOSE p \in Pool : Contains(InitPool[p], u)]
  /\ target = [u \in Thread |-> NoPool]
  /\ pc = [u \in Thread |-> "call"]
  /\ calls = Program

GotoX(e, l) == xpc' = [xpc EXCEPT ![e] = l]
Goto(u, l) == pc' = [pc EXCEPT ![u] = l] /\ UNCHANGED calls
Op(u) == Head(calls[u])
Calls(u, op) == pc[u] = "call" /\ calls[u] # <<>> /\ Op(u)[1] = op
Returns(u) ==
  /\ pc' = [pc EXCEPT ![u] = "call"]
  /\ calls' = [calls EXCEPT ![u] = Tail(@)]

Push(u, p) == pool' = [pool EXCEPT ![p] = Append(@, u)]
Pop(p) == pool' = [pool EXCEPT ![p] = Tail(@)]
IncMigrations(p) == numMigrations' = [numMigrations EXCEPT ![p] = @ + 1]
DecMigrations(p) == numMigrations' = [numMigrations EXCEPT ![p] = @ - 1]

(* The operators marked as faulty are what a plausible mistake would make of the
   next definition; the properties must reject them. *)

\* Faulty: the blocked ULTs of shared pools are counted too (get_total_size).
CountsBlockedAlways(e, p) == p \in Pool

\* Faulty: set_ready does not wait for the BLOCK request to be reset.
CanSetReadyAlways(u) == state[u] = "BLOCKED"

\* set_ready: it spins while the scheduler of u has not taken note that u is
\* blocked, then pushes u, and then counts it out of the pool u has by then.
CanSetReady(u) == state[u] = "BLOCKED" /\ "BLOCK" \notin request[u]
MakeReady(u) ==
  /\ state' = [state EXCEPT ![u] = "READY"]
  /\ Push(u, home[u])
DecBlocked(u) == numBlocked' = [numBlocked EXCEPT ![home[u]] = @ - 1]

\* The schedulers that use a pool: num_scheds is their number.  A pool with one
\* has the ES of that scheduler as its consumer, since set_main_sched.
Scheds(p) == {e \in Xstream : Contains(SchedPools[e], p)}
Owned(e) == {p \in Pool : Scheds(p) = {e}}

\* What get_effective_size adds up, in its order.  Blocked ULTs count in the pools
\* that no other scheduler uses; a private pool is always one of these.
CountsBlocked(e, p) == p \in Owned(e)
Value(what, p) ==
  CASE what = "size"       -> Len(pool[p])
    [] what = "migrations" -> numMigrations[p]
    [] what = "blocked"    -> numBlocked[p]
NextCount(e, c) ==
  CASE c.what = "size" -> [c EXCEPT !.what = "migrations"]
    [] c.what = "migrations" /\ CountsBlocked(e, SchedPools[e][c.nth]) ->
         [c EXCEPT !.what = "blocked"]
    [] OTHER -> [nth |-> c.nth + 1, what |-> "size"]

(* The scheduler of an ES *)

SchedStart(e) ==
  /\ xpc[e] = "start"
  /\ xstate' = [xstate EXCEPT ![e] = "RUNNING"]
  /\ schedState' = [schedState EXCEPT ![e] = "RUNNING"]
  /\ workCount' = [workCount EXCEPT ![e] = 0]
  /\ GotoX(e, "scan")
  /\ UNCHANGED <<xrequest, reqArg, schedRequest, schedLock, at, size, dest, woken,
                 running, poolVars, threadVars, localVars>>

NextPool(e, p) ==
  \E i \in DOMAIN SchedPools[e] :
    /\ p = SchedPools[e][i]
    /\ pool[p] # <<>>
    /\ \A j \in 1 .. i - 1 : pool[SchedPools[e][j]] = <<>>

\* The unit that is popped is switched to, or migrated if that was asked for.
SchedRun(e) == \E p \in Pool :
  /\ xpc[e] = "scan"
  /\ NextPool(e, p)
  /\ LET u == Head(pool[p])
     IN  /\ running' = [running EXCEPT ![e] = u]
         /\ IF "MIGRATE" \in request[u]
            THEN GotoX(e, "migrate") /\ UNCHANGED state
            ELSE GotoX(e, "ult") /\ state' = [state EXCEPT ![u] = "RUNNING"]
  /\ Pop(p)
  /\ UNCHANGED <<xstreamVars, loopVars, numBlocked, numMigrations, request, home, target,
                 localVars>>

SchedIdle(e) ==
  /\ xpc[e] = "scan"
  /\ \A p \in Pool : ~NextPool(e, p)
  /\ GotoX(e, "count")
  /\ UNCHANGED <<xstreamVars, loopVars, running, poolVars, threadVars, localVars>>

\* The requests of the ULT that has switched back, in the order of the code.
ReturnTerminated(e) ==
  /\ xpc[e] = "ret"
  /\ "TERMINATE" \in request[running[e]]
  /\ state' = [state EXCEPT ![running[e]] = "TERMINATED"]
  /\ running' = [running EXCEPT ![e] = NoThread]
  /\ GotoX(e, "count")
  /\ UNCHANGED <<xstreamVars, loopVars, poolVars, request, home, target, localVars>>

ReturnYielded(e) ==
  /\ xpc[e] = "ret"
  /\ request[running[e]] = {}
  /\ MakeReady(running[e])
  /\ running' = [running EXCEPT ![e] = NoThread]
  /\ GotoX(e, "count")
  /\ UNCHANGED <<xstreamVars, loopVars, numBlocked, numMigrations, request, home, target,
                 localVars>>

ReturnBlocked(e) ==
  /\ xpc[e] = "ret"
  /\ "BLOCK" \in request[running[e]]
  /\ request' = [request EXCEPT ![running[e]] = @ \ {"BLOCK"}]
  /\ running' = [running EXCEPT ![e] = NoThread]
  /\ GotoX(e, "count")
  /\ UNCHANGED <<xstreamVars, loopVars, poolVars, state, home, target, localVars>>

ReturnMigrating(e) ==
  /\ xpc[e] = "ret"
  /\ request[running[e]] = {"MIGRATE"}
  /\ GotoX(e, "migrate")
  /\ UNCHANGED <<xstreamVars, loopVars, running, poolVars, threadVars, localVars>>

\* migrate_thread: the ULT is pushed to its new pool, which then has one ULT
\* less on the way to it.
Migrate(e) ==
  /\ xpc[e] = "migrate"
  /\ LET u == running[e]
         p == target[u]
     IN  /\ home' = [home EXCEPT ![u] = p]
         /\ Push(u, p)
         /\ request' = [request EXCEPT ![u] = @ \ {"MIGRATE"}]
         /\ target' = [target EXCEPT ![u] = NoPool]
         /\ dest' = [dest EXCEPT ![e] = p]
  /\ running' = [running EXCEPT ![e] = NoThread]
  /\ GotoX(e, "migrate_dec")
  /\ UNCHANGED <<xstreamVars, workCount, at, size, woken, numBlocked, numMigrations, state,
                 localVars>>

\* Faulty: the migration is not counted out.
MigrateDecNot(e) ==
  /\ xpc[e] = "migrate_dec"
  /\ dest' = [dest EXCEPT ![e] = NoPool]
  /\ GotoX(e, "count")
  /\ UNCHANGED <<xstreamVars, workCount, at, size, woken, running, poolVars, threadVars,
                 localVars>>

MigrateDec(e) ==
  /\ xpc[e] = "migrate_dec"
  /\ DecMigrations(dest[e])
  /\ dest' = [dest EXCEPT ![e] = NoPool]
  /\ GotoX(e, "count")
  /\ UNCHANGED <<xstreamVars, workCount, at, size, woken, running, pool, numBlocked, threadVars,
                 localVars>>

WorkDone(e) ==
  /\ xpc[e] = "count"
  /\ IF workCount[e] + 1 >= EventFreq
     THEN GotoX(e, "events") /\ workCount' = [workCount EXCEPT ![e] = 0]
     ELSE GotoX(e, "scan") /\ workCount' = [workCount EXCEPT ![e] = @ + 1]
  /\ UNCHANGED <<xstreamVars, at, size, dest, woken, running, poolVars, threadVars, localVars>>

\* check_events passes the requests of the ES on to its scheduler; has_to_stop
\* tests them.  It adds up the size for nothing when there is none.
CheckEvents(e) ==
  LET requests == schedRequest[e]
                  \cup (IF "JOIN" \in xrequest[e] THEN {"FINISH"} ELSE {})
                  \cup (IF "CANCEL" \in xrequest[e] THEN {"EXIT"} ELSE {})
  IN  /\ xpc[e] = "events"
      /\ schedRequest' = [schedRequest EXCEPT ![e] = requests]
      /\ GotoX(e, IF "EXIT" \in requests THEN "exit"
                  ELSE IF "FINISH" \in requests THEN "size1" ELSE "scan")
      /\ UNCHANGED <<xstate, xrequest, reqArg, schedState, schedLock, loopVars, running,
                     poolVars, threadVars, localVars>>

\* The scheduler stops under sched_lock, which it keeps for ABTI_xstream_schedule.
StopOnExit(e) ==
  /\ xpc[e] = "exit"
  /\ schedLock' = [schedLock EXCEPT ![e] = TRUE]
  /\ schedState' = [schedState EXCEPT ![e] = "TERMINATED"]
  /\ GotoX(e, "stopped")
  /\ UNCHANGED <<xstate, xrequest, reqArg, schedRequest, loopVars, running, poolVars,
                 threadVars, localVars>>

\* get_effective_size, one counter at a time.
ReadCounter(e) ==
  /\ xpc[e] \in {"size1", "size2", "size3"}
  /\ at[e].nth <= Len(SchedPools[e])
  /\ at' = [at EXCEPT ![e] = NextCount(e, @)]
  /\ size' = [size EXCEPT ![e] = @ + Value(at[e].what, SchedPools[e][at[e].nth])]
  /\ UNCHANGED <<xstreamVars, workCount, dest, woken, xpc, running>>
  /\ UNCHANGED <<poolVars, threadVars, localVars>>

Sized(e, l) ==
  /\ xpc[e] = l
  /\ at[e].nth > Len(SchedPools[e])
  /\ at' = [at EXCEPT ![e] = FirstCount]
  /\ size' = [size EXCEPT ![e] = 0]
  /\ UNCHANGED <<workCount, dest, woken>>

\* Nothing was left: it locks and adds up again.
DecideToLock(e) ==
  /\ Sized(e, "size1")
  /\ IF size[e] = 0
     THEN schedLock' = [schedLock EXCEPT ![e] = TRUE] /\ GotoX(e, "size2")
     ELSE GotoX(e, "scan") /\ UNCHANGED schedLock
  /\ UNCHANGED <<xstate, xrequest, reqArg, schedState, schedRequest, running, poolVars,
                 threadVars, localVars>>

DecideToStop(e) ==
  /\ Sized(e, "size2")
  /\ IF size[e] = 0
     THEN /\ schedState' = [schedState EXCEPT ![e] = "TERMINATED"]
          /\ GotoX(e, "stopped")
          /\ UNCHANGED schedLock
     ELSE /\ schedLock' = [schedLock EXCEPT ![e] = FALSE]
          /\ GotoX(e, "scan")
          /\ UNCHANGED schedState
  /\ UNCHANGED <<xstate, xrequest, reqArg, schedRequest, running, poolVars, threadVars, localVars>>

SchedStopped(e) ==
  /\ xpc[e] = "stopped"
  /\ xstate' = [xstate EXCEPT ![e] = "READY"]
  /\ schedLock' = [schedLock EXCEPT ![e] = FALSE]
  /\ GotoX(e, IF "CANCEL" \in xrequest[e] THEN "end"
              ELSE IF "JOIN" \in xrequest[e] THEN "size3" ELSE "start")
  /\ UNCHANGED <<xrequest, reqArg, schedState, schedRequest, loopVars, running, poolVars,
                 threadVars, localVars>>

DecideToEnd(e) ==
  /\ Sized(e, "size3")
  /\ GotoX(e, IF size[e] # 0 THEN "start" ELSE IF reqArg[e] # NoThread THEN "wake" ELSE "end")
  /\ UNCHANGED <<xstreamVars, running, poolVars, threadVars, localVars>>

WakeJoiner(e) ==
  /\ xpc[e] = "wake"
  /\ CanSetReady(reqArg[e])
  /\ MakeReady(reqArg[e])
  /\ woken' = [woken EXCEPT ![e] = reqArg[e]]
  /\ GotoX(e, "wake_dec")
  /\ UNCHANGED <<xstreamVars, workCount, at, size, dest, running, numBlocked, numMigrations,
                 request, home, target, localVars>>

WakeJoinerDec(e) ==
  /\ xpc[e] = "wake_dec"
  /\ DecBlocked(woken[e])
  /\ woken' = [woken EXCEPT ![e] = NoThread]
  /\ reqArg' = [reqArg EXCEPT ![e] = NoThread]
  /\ GotoX(e, "end")
  /\ UNCHANGED <<xstate, xrequest, schedState, schedRequest, schedLock, workCount, at, size,
                 dest, running, pool, numMigrations, threadVars, localVars>>

End(e) ==
  /\ xpc[e] = "end"
  /\ xstate' = [xstate EXCEPT ![e] = "TERMINATED"]
  /\ GotoX(e, "ended")
  /\ UNCHANGED <<xrequest, reqArg, schedState, schedRequest, schedLock, loopVars, running,
                 poolVars, threadVars, localVars>>

Scheduler(e) ==
  \/ SchedStart(e) \/ SchedRun(e) \/ SchedIdle(e)
  \/ ReturnTerminated(e) \/ ReturnYielded(e) \/ ReturnBlocked(e) \/ ReturnMigrating(e)
  \/ Migrate(e) \/ MigrateDec(e)
  \/ WorkDone(e) \/ CheckEvents(e) \/ StopOnExit(e)
  \/ ReadCounter(e) \/ DecideToLock(e) \/ DecideToStop(e)
  \/ SchedStopped(e) \/ DecideToEnd(e) \/ WakeJoiner(e) \/ WakeJoinerDec(e) \/ End(e)

(* What the ULT u does, which is the current one of e *)

On(u, e) == xpc[e] = "ult" /\ running[e] = u

SwitchToSched(u, e) ==
  /\ state' = [state EXCEPT ![u] = "READY"]
  /\ GotoX(e, "ret")

SetBlocked(u) ==
  /\ request' = [request EXCEPT ![u] = @ \cup {"BLOCK"}]
  /\ state' = [state EXCEPT ![u] = "BLOCKED"]
  /\ numBlocked' = [numBlocked EXCEPT ![home[u]] = @ + 1]

\* The ULT has returned from its function; nobody has joined it.
Leave(u, e) ==
  /\ pc[u] = "call" /\ calls[u] = <<>>
  /\ request' = [request EXCEPT ![u] = @ \cup {"TERMINATE"}]
  /\ Goto(u, "done")
  /\ GotoX(e, "ret")
  /\ UNCHANGED <<xstreamVars, loopVars, running, poolVars, state, home, target>>

Yield(u, e) ==
  /\ Calls(u, "yield")
  /\ SwitchToSched(u, e)
  /\ Returns(u)
  /\ UNCHANGED <<xstreamVars, loopVars, running, poolVars, request, home, target>>

\* The ULT blocks: a caller of ABT_xstream_join after it has left its pointer,
\* and any ULT that waits for something else.
BlockUlt(u) ==
  /\ \/ Calls(u, "sleep") /\ Goto(u, "suspend")
     \/ pc[u] = "set_blocked" /\ Goto(u, "join_post")
  /\ SetBlocked(u)
  /\ UNCHANGED <<xstreamVars, loopVars, xpc, running, pool, numMigrations, home, target>>

Suspend(u, e) ==
  /\ pc[u] = "suspend"
  /\ GotoX(e, "ret")
  /\ IF Op(u)[1] = "join" THEN Goto(u, "context_join") ELSE Returns(u)
  /\ UNCHANGED <<xstreamVars, loopVars, running, poolVars, threadVars>>

\* u wakes the ULT it names, once that has blocked.
WakeUp(u) ==
  /\ Calls(u, "wake")
  /\ CanSetReady(Op(u)[2])
  /\ MakeReady(Op(u)[2])
  /\ Goto(u, "dec_blocked")
  /\ UNCHANGED <<xstreamVars, loopVars, xpc, running, numBlocked, numMigrations, request, home,
                 target>>

WakeUpDec(u) ==
  /\ pc[u] = "dec_blocked"
  /\ DecBlocked(Op(u)[2])
  /\ Returns(u)
  /\ UNCHANGED <<xstreamVars, loopVars, xpc, running, pool, numMigrations, threadVars>>

\* u polls: for a ULT that blocks, for a ULT that ends, or for an ES that ends.
Polls(u) ==
  \/ Calls(u, "wake") /\ state[Op(u)[2]] # "BLOCKED"
  \/ Calls(u, "await") /\ state[Op(u)[2]] # "TERMINATED"
  \/ pc[u] = "poll" /\ xstate[Op(u)[2]] # "TERMINATED"

Poll(u, e) ==
  /\ Polls(u)
  /\ SwitchToSched(u, e)
  /\ UNCHANGED <<xstreamVars, loopVars, running, poolVars, request, home, target, localVars>>

Awaited(u) ==
  /\ Calls(u, "await")
  /\ state[Op(u)[2]] = "TERMINATED"
  /\ Returns(u)
  /\ UNCHANGED <<xstreamVars, loopVars, xpc, running, poolVars, threadVars>>

(* ABT_xstream_cancel and ABT_xstream_join *)

CancelXstream(u) ==
  /\ Calls(u, "cancel")
  /\ xrequest' = [xrequest EXCEPT ![Op(u)[2]] = @ \cup {"CANCEL"}]
  /\ Returns(u)
  /\ UNCHANGED <<xstate, reqArg, schedState, schedRequest, schedLock, loopVars, xpc, running,
                 poolVars, threadVars>>

\* The caller blocks only if others may push to its pool; if not, it may not join
\* its own ES either.
JoinCheck(u, e) ==
  /\ Calls(u, "join")
  /\ IF home[u] \notin Blockable /\ Op(u)[2] = e
     THEN Returns(u)
     ELSE Goto(u, IF xstate[Op(u)[2]] = "TERMINATED" THEN "context_join"
                  ELSE IF home[u] \in Blockable THEN "join_arg" ELSE "join_post")
  /\ UNCHANGED <<xstreamVars, loopVars, xpc, running, poolVars, threadVars>>

JoinArg(u) ==
  /\ pc[u] = "join_arg"
  /\ reqArg' = [reqArg EXCEPT ![Op(u)[2]] = u]
  /\ Goto(u, "set_blocked")
  /\ UNCHANGED <<xstate, xrequest, schedState, schedRequest, schedLock, loopVars, xpc, running,
                 poolVars, threadVars>>

JoinPost(u) ==
  /\ pc[u] = "join_post"
  /\ xrequest' = [xrequest EXCEPT ![Op(u)[2]] = @ \cup {"JOIN"}]
  /\ Goto(u, IF home[u] \in Blockable THEN "suspend" ELSE "poll")
  /\ UNCHANGED <<xstate, reqArg, schedState, schedRequest, schedLock, loopVars, xpc, running,
                 poolVars, threadVars>>

JoinPolled(u) ==
  /\ pc[u] = "poll"
  /\ xstate[Op(u)[2]] = "TERMINATED"
  /\ Goto(u, "context_join")
  /\ UNCHANGED <<xstreamVars, loopVars, xpc, running, poolVars, threadVars>>

\* Faulty: u does not wait for the OS thread of the ES to end.
ContextJoinAtOnce(u) ==
  /\ pc[u] = "context_join"
  /\ Returns(u)
  /\ UNCHANGED <<xstreamVars, loopVars, xpc, running, poolVars, threadVars>>

\* The OS thread of the ES is joined; the ES of u waits for it.
ContextJoin(u) ==
  /\ pc[u] = "context_join"
  /\ xpc[Op(u)[2]] = "ended"
  /\ Returns(u)
  /\ UNCHANGED <<xstreamVars, loopVars, xpc, running, poolVars, threadVars>>

(* ABT_thread_migrate_to_xstream and ABT_thread_migrate_to_pool *)

TargetPool(u) ==
  IF Op(u)[1] = "migrate_to_pool" THEN Op(u)[3] ELSE SchedPools[Op(u)[3]][1]

\* Faulty: the state of the scheduler is not checked.
MigrateToXstreamUnchecked(u) ==
  LET v == Op(u)[2]
      f == Op(u)[3]
  IN  /\ Calls(u, "migrate_to_xstream")
      /\ ~schedLock[f]
      /\ IF "TERMINATED" \in {xstate[f], state[v]}
         THEN Returns(u) /\ UNCHANGED numMigrations
         ELSE Goto(u, "post") /\ IncMigrations(TargetPool(u))
      /\ UNCHANGED <<xstreamVars, loopVars, xpc, running, pool, numBlocked, threadVars>>

\* Under sched_lock: a scheduler that has stopped takes no ULT any more, and one
\* that has not is kept from stopping.  The ES is RUNNING or READY, and either way
\* its scheduler is the main one.
MigrateToXstream(u) ==
  LET v == Op(u)[2]
      f == Op(u)[3]
  IN  /\ Calls(u, "migrate_to_xstream")
      /\ ~schedLock[f]
      /\ IF "TERMINATED" \in {xstate[f], state[v], schedState[f]}
         THEN Returns(u) /\ UNCHANGED numMigrations
         ELSE Goto(u, "post") /\ IncMigrations(TargetPool(u))
      /\ UNCHANGED <<xstreamVars, loopVars, xpc, running, pool, numBlocked, threadVars>>

\* ABTI_thread_migrate_to_pool.  The argument and the request are two writes,
\* one step here: a ULT has one migration pending at a time.
Refused(u) == state[Op(u)[2]] = "TERMINATED" \/ home[Op(u)[2]] = TargetPool(u)
Posts(u) == pc[u] = "post" \/ Calls(u, "migrate_to_pool")

PostMigration(u, e) ==
  LET v == Op(u)[2]
  IN  /\ Posts(u) /\ ~Refused(u)
      /\ target' = [target EXCEPT ![v] = TargetPool(u)]
      /\ request' = [request EXCEPT ![v] = @ \cup {"MIGRATE"}]
      /\ IF pc[u] = "post" THEN Returns(u) ELSE Goto(u, "count")
      /\ IF u = v THEN SwitchToSched(u, e) ELSE UNCHANGED <<state, xpc>>
      /\ UNCHANGED <<xstreamVars, loopVars, running, poolVars, home>>

RefuseMigration(u) ==
  /\ Posts(u) /\ Refused(u)
  /\ IF pc[u] = "post"
     THEN DecMigrations(TargetPool(u))
     ELSE UNCHANGED numMigrations
  /\ Returns(u)
  /\ UNCHANGED <<xstreamVars, loopVars, xpc, running, pool, numBlocked, threadVars>>

\* ABT_thread_migrate_to_pool counts the migration after it was asked for.
CountMigration(u) ==
  /\ pc[u] = "count"
  /\ IncMigrations(TargetPool(u))
  /\ Returns(u)
  /\ UNCHANGED <<xstreamVars, loopVars, xpc, running, pool, numBlocked, threadVars>>

Ult(u, e) ==
  /\ On(u, e)
  /\ \/ Leave(u, e) \/ Yield(u, e) \/ Suspend(u, e) \/ Poll(u, e) \/ PostMigration(u, e)
     \/ BlockUlt(u) \/ WakeUp(u) \/ WakeUpDec(u) \/ Awaited(u) \/ CancelXstream(u)
     \/ JoinCheck(u, e) \/ JoinArg(u) \/ JoinPost(u) \/ JoinPolled(u) \/ ContextJoin(u)
     \/ MigrateToXstream(u) \/ RefuseMigration(u) \/ CountMigration(u)

\* One ES, which runs its scheduler or the ULT it has switched to.
Es(e) == Scheduler(e) \/ \E u \in Thread : Ult(u, e)

Next == \E e \in Xstream : Es(e)

\* Every ES is an OS thread.
Spec == Init /\ [][Next]_vars /\ \A e \in Xstream : WF_vars(Es(e))

(* Properties *)

\* The type invariant; the scheduler of basic.c runs at most EventFreq units between
\* two checks of the requests, and reads no counter past the last.
TypeOK ==
  /\ xstate \in [Xstream -> {"READY", "RUNNING", "TERMINATED"}]
  /\ xrequest \in [Xstream -> SUBSET {"JOIN", "CANCEL"}]
  /\ reqArg \in [Xstream -> Thread \cup {NoThread}]
  /\ schedState \in [Xstream -> {"READY", "RUNNING", "TERMINATED"}]
  /\ schedRequest \in [Xstream -> SUBSET {"FINISH", "EXIT"}]
  /\ schedLock \in [Xstream -> BOOLEAN]
  /\ workCount \in [Xstream -> 0 .. EventFreq - 1]
  /\ xpc \in [Xstream -> XPC]
  /\ at \in [Xstream -> Count]
  /\ \A e \in Xstream : at[e].nth <= Len(SchedPools[e]) + 1
  /\ size \in [Xstream -> Int]
  /\ dest \in [Xstream -> Pool \cup {NoPool}]
  /\ woken \in [Xstream -> Thread \cup {NoThread}]
  /\ running \in [Xstream -> Thread \cup {NoThread}]
  /\ pool \in [Pool -> Seq(Thread)]
  /\ numBlocked \in [Pool -> Int] /\ numMigrations \in [Pool -> Int]
  /\ state \in [Thread -> {"READY", "RUNNING", "BLOCKED", "TERMINATED"}]
  /\ request \in [Thread -> SUBSET {"TERMINATE", "BLOCK", "MIGRATE"}]
  /\ home \in [Thread -> Pool]
  /\ target \in [Thread -> Pool \cup {NoPool}]
  /\ pc \in [Thread -> PC]
  /\ calls \in [Thread -> Seq(Call)]

\* An ES that ends because it is joined leaves no ULT behind: none that only its
\* scheduler could run, be it in a pool, blocked or on its way to a pool.
NothingLeft ==
  \A e \in Xstream, u \in Thread :
    /\ xpc[e] \in {"end", "ended"}
    /\ "CANCEL" \notin xrequest[e]
    /\ home[u] \in Owned(e)
    => state[u] = "TERMINATED"

\* num_migrations of a pool is the number of ULTs that are to be migrated to it
\* and those just pushed, less the requests that are not counted yet.
Coming(p) == {u \in Thread : "MIGRATE" \in request[u] /\ target[u] = p}
Posting(p) == {u \in Thread : pc[u] = "post" /\ TargetPool(u) = p}
Uncounted(p) == {u \in Thread : pc[u] = "count" /\ TargetPool(u) = p}
Arrived(p) == {e \in Xstream : xpc[e] = "migrate_dec" /\ dest[e] = p}
MigrationCount ==
  \A p \in Pool :
    numMigrations[p] = Cardinality(Coming(p)) + Cardinality(Posting(p))
                       + Cardinality(Arrived(p)) - Cardinality(Uncounted(p))

\* A ULT is in one place: in one pool, with one ES, or blocked; and nowhere when it
\* has ended.  Whoever wakes or migrates it takes it from the one place it was in.
Queued(u) == {place \in Pool \X (1 .. Cardinality(Thread) + 1) :
                place[2] \in DOMAIN pool[place[1]] /\ pool[place[1]][place[2]] = u}
Runners(u) == {e \in Xstream : running[e] = u}
OnePlace ==
  \A u \in Thread :
    LET asleep == state[u] = "BLOCKED" /\ Runners(u) = {}
    IN  Cardinality(Queued(u)) + Cardinality(Runners(u)) + (IF asleep THEN 1 ELSE 0)
          = IF state[u] = "TERMINATED" THEN 0 ELSE 1

\* What the code leaves to its callers.  A ULT has one migration pending at a time.
OneMigration ==
  \A u \in Thread, e \in Xstream :
    On(u, e) /\ Posts(u) /\ ~Refused(u) => "MIGRATE" \notin request[Op(u)[2]]

\* A ULT does not migrate after it was woken and before it was counted out: it is counted
\* out of the pool that it has by then.
CountedOut ==
  \A e \in Xstream : xpc[e] = "migrate" =>
    /\ \A w \in Thread : pc[w] = "dec_blocked" => Op(w)[2] # running[e]
    /\ \A f \in Xstream : woken[f] # running[e]

\* ABT_thread_migrate_to_pool, which counts a migration late, has returned before an ES that
\* has the pool is joined.
CountedEarly ==
  \A u \in Thread, e \in Xstream :
    pc[u] = "count" /\ Contains(SchedPools[e], TargetPool(u)) => "JOIN" \notin xrequest[e]

\* The program of a run keeps to all of these.  That a ULT which has joined an ES and then
\* migrates keeps to the second is the work of the code: it waits for the end of the ES.
CallersOK == OneMigration /\ CountedOut /\ CountedEarly

\* Every call of ABT_xstream_join returns, in programs that wake what they put to
\* sleep.
Joining(u) == calls[u] # <<>> /\ Op(u)[1] = "join" /\ pc[u] # "call"
EveryJoinReturns == \A u \in Thread : Joining(u) ~> ~Joining(u)

=============================================================================
