------------------------------- MODULE Steal -------------------------------
(***************************************************************************)
(* The schedulers that BOLT gives to its ESs (kmp_abt_util_Linux.c) and    *)
(* the stealing of units that this repository adds to Argobots (stream.c,  *)
(* ABT_xstream_check, ABT_my_migrate and the lists of states they go by).  *)
(* Every ES has a pool of its own and a shared one; its scheduler runs a   *)
(* unit of each, may move a unit of either to its shared pool, and then    *)
(* tries to take a unit from the shared pool of another ES.                *)
(*                                                                         *)
(* The unit that is moved is in no pool for a while, and the lists are     *)
(* read and written without a lock: by the time that a unit is popped the  *)
(* pool may be empty.  ULTs yield, suspend themselves, are resumed by an   *)
(* OS thread outside Argobots, and terminate; tasklets are popped like     *)
(* ULTs but never run.  The ESs are not stopped here (see Stream).         *)
(***************************************************************************)
EXTENDS Integers, Sequences, FiniteSets, SequencesExt

CONSTANTS
  Thread,      \* the ULTs
  Task,        \* the tasklets
  N,           \* num_xstreams, and the 40 that is written into stream.c
  InitPool,    \* the units that BOLT has pushed to every pool
  Program,     \* the calls of every ULT
  NoUnit       \* ABT_UNIT_NULL

Unit == Thread \cup Task
Xstream == 0 .. N - 1
Pool == {"priv", "shared"} \X Xstream
Threshold == 2

ASSUME StealAssumption ==
  /\ N \in Nat \ {0}
  /\ IsFiniteSet(Thread)
  /\ Thread \cap Task = {} /\ NoUnit \notin Unit
  /\ InitPool \in [Pool -> Seq(Unit)]
  /\ \A p \in Pool : IsInjective(InitPool[p])
  /\ \A u \in Unit : \E p \in Pool : \A q \in Pool : Contains(InitPool[q], u) <=> q = p
  /\ Program \in [Thread -> Seq({"yield", "suspend"})]

VARIABLES
  pool,        \* the units in every pool, head first
  numBlocked,  \* p_pool->num_blocked
  home,        \* the pool that a unit is associated with
  state,       \* p_thread->state (a tasklet that was popped is LOST)
  request,     \* whether the ULT has the BLOCK request
  calls,       \* the calls that a ULT has left
  waking,      \* the ULT that was pushed by set_ready and is not counted yet
  emptyList,   \* empty_list: whether the pool with that id has enough units
  esState,     \* es_state: '1' once an ES has run a unit
  stateList,   \* state_list: the '0' that a unit may be moved for, or '1'
  xpc,         \* where every scheduler is
  running,     \* the current ULT of every ES
  unit,        \* the unit that a scheduler moves
  at           \* the position of the pool it handles in its list

listVars == <<emptyList, esState, stateList>>
threadVars == <<state, request, calls>>
vars == <<pool, numBlocked, home, threadVars, waking, listVars, xpc, running, unit, at>>

XPC == {"loop", "set_s", "scan", "pop", "ult", "ret", "check", "again", "move", "steal"}

\* The pools in the order of their creation: one belongs to the first scheduler of
\* the primary ES, then every ES gets its own and its shared pool.
Id(p) == 2 * p[2] + (IF p[1] = "priv" THEN 1 ELSE 2)

\* The pools of a scheduler: its own, its shared one, those of the ESs after it.
SchedPools(e) ==
  [i \in 0 .. N |-> IF i = 0 THEN <<"priv", e>> ELSE <<"shared", (e + i - 1) % N>>]
MyShared(e) == <<"shared", e>>
At(e) == SchedPools(e)[at[e]]

Init ==
  /\ pool = InitPool
  /\ numBlocked = [p \in Pool |-> 0]
  /\ home = [u \in Unit |-> CHOOSE p \in Pool : Contains(InitPool[p], u)]
  /\ state = [u \in Unit |-> "READY"]
  /\ request = [u \in Thread |-> {}]
  /\ calls = Program
  /\ waking = NoUnit
  /\ emptyList = [i \in 0 .. 2 * N |-> 0]
  /\ esState = [e \in Xstream |-> "0"]
  /\ stateList = [e \in Xstream |-> "0"]
  /\ xpc = [e \in Xstream |-> "loop"]
  /\ running = [e \in Xstream |-> NoUnit]
  /\ unit = [e \in Xstream |-> NoUnit]
  /\ at = [e \in Xstream |-> 0]

Goto(e, l) == xpc' = [xpc EXCEPT ![e] = l]
Push(u, p) == pool' = [pool EXCEPT ![p] = Append(@, u)]
Pop(p) == pool' = [pool EXCEPT ![p] = Tail(@)]

(* Faulty variants of definitions below, see Mutex *)

\* The list entry of a pool that has run short of units is not reset.
SetSInfoNot(e) ==
  /\ xpc[e] = "set_s"
  /\ Goto(e, "scan") /\ at' = [at EXCEPT ![e] = 0]
  /\ UNCHANGED <<pool, numBlocked, home, threadVars, waking, listVars, running, unit>>

\* set_ready does not wait for the BLOCK request to be reset.
CanSetReadyAlways(u) == state[u] = "BLOCKED"

\* A ULT that runs again by the time it would be counted out is not.
ResumedIfReady ==
  /\ waking # NoUnit
  /\ numBlocked' = [numBlocked EXCEPT ![home[waking]] =
                      IF state[waking] = "READY" THEN @ - 1 ELSE @]
  /\ waking' = NoUnit
  /\ UNCHANGED <<pool, home, threadVars, listVars, xpc, running, unit, at>>

(* The loop of __kmp_abt_sched_run: every 1000th round ABT_get_info, every     *)
(* 50000th round ABT_set_r_info and ABT_set_s_info                             *)

GetInfo(e) ==
  /\ xpc[e] = "loop"
  /\ \E i \in Xstream : stateList' = [stateList EXCEPT ![i] = esState[i]]
  /\ UNCHANGED <<pool, numBlocked, home, threadVars, waking, emptyList, esState, xpc,
                 running, unit, at>>

SetRInfo(e) ==
  /\ xpc[e] = "loop"
  /\ IF Len(pool[MyShared(e)]) >= Threshold
     THEN emptyList' = [emptyList EXCEPT ![Id(MyShared(e))] = 1]
     ELSE emptyList' = emptyList
  /\ Goto(e, "set_s")
  /\ UNCHANGED <<pool, numBlocked, home, threadVars, waking, esState, stateList, running,
                 unit, at>>

SetSInfo(e) ==
  /\ xpc[e] = "set_s"
  /\ IF Len(pool[MyShared(e)]) < Threshold
     THEN emptyList' = [emptyList EXCEPT ![Id(MyShared(e))] = 0]
     ELSE emptyList' = emptyList
  /\ Goto(e, "scan") /\ at' = [at EXCEPT ![e] = 0]
  /\ UNCHANGED <<pool, numBlocked, home, threadVars, waking, esState, stateList, running,
                 unit>>

Round(e) ==
  /\ xpc[e] = "loop"
  /\ Goto(e, "scan") /\ at' = [at EXCEPT ![e] = 0]
  /\ UNCHANGED <<pool, numBlocked, home, threadVars, waking, listVars, running, unit>>

\* After a pool of its own, or the shared one, or the attempt to steal, is done.
NextPool(e) ==
  /\ Goto(e, IF at[e] = 0 THEN "scan" ELSE "steal")
  /\ at' = [at EXCEPT ![e] = IF @ = 0 THEN 1 ELSE @]

\* The size is looked at first, and again by the pop.
Scan(e) ==
  /\ xpc[e] = "scan"
  /\ \/ pool[At(e)] # <<>> /\ Goto(e, "pop") /\ at' = at
     \/ pool[At(e)] = <<>> /\ NextPool(e)
  /\ UNCHANGED <<pool, numBlocked, home, threadVars, waking, listVars, running, unit>>

(* ABT_xstream_check *)

\* ABT_my_xstream_run_unit notes that the ES runs and switches to the unit if it is
\* a ULT.  There is no other case: a tasklet has left the pool and nothing runs it.
PopRun(e) ==
  /\ xpc[e] = "pop" /\ pool[At(e)] # <<>>
  /\ LET u == Head(pool[At(e)])
     IN  \/ /\ u \in Thread
            /\ running' = [running EXCEPT ![e] = u]
            /\ state' = [state EXCEPT ![u] = "RUNNING"]
            /\ Goto(e, "ult")
         \/ /\ u \in Task
            /\ state' = [state EXCEPT ![u] = "LOST"]
            /\ Goto(e, "check")
            /\ running' = running
  /\ Pop(At(e))
  /\ esState' = [esState EXCEPT ![e] = "1"]
  /\ UNCHANGED <<numBlocked, home, request, calls, waking, emptyList, stateList, unit, at>>

PopNothing(e) ==
  /\ xpc[e] = "pop" /\ pool[At(e)] = <<>>
  /\ Goto(e, "check")
  /\ UNCHANGED <<pool, numBlocked, home, threadVars, waking, listVars, running, unit, at>>

\* state_list has an entry for half of the pool's id; the one behind its end, which
\* the shared pool of the last ES has, may be anything.
Check(e) ==
  /\ xpc[e] = "check"
  /\ LET i == Id(At(e)) \div 2
         wanted == i \in Xstream => stateList[i] = "0"
         unwanted == i \in Xstream => stateList[i] # "0"
     IN  \/ wanted /\ pool[At(e)] # <<>> /\ Goto(e, "again") /\ at' = at
         \/ wanted /\ pool[At(e)] = <<>> /\ NextPool(e)
         \/ unwanted /\ NextPool(e)
  /\ UNCHANGED <<pool, numBlocked, home, threadVars, waking, listVars, running, unit>>

\* The second pop of ABT_xstream_check, and the one of ABT_my_migrate: the pool may
\* have become empty since its size was read.
PopMove(e) ==
  /\ xpc[e] = "again" /\ pool[At(e)] # <<>>
  /\ unit' = [unit EXCEPT ![e] = Head(pool[At(e)])]
  /\ Pop(At(e))
  /\ Goto(e, "move")
  /\ UNCHANGED <<numBlocked, home, threadVars, waking, listVars, running, at>>

PopMoveNothing(e) ==
  /\ xpc[e] = "again" /\ pool[At(e)] = <<>>
  /\ \/ at[e] <= 1 /\ NextPool(e)
     \/ at[e] > 1 /\ Goto(e, "loop") /\ at' = [at EXCEPT ![e] = 0]
  /\ UNCHANGED <<pool, numBlocked, home, threadVars, waking, listVars, running, unit>>

\* Whichever pool it comes from, the unit goes to the shared pool of this ES.
Move(e) ==
  /\ xpc[e] = "move"
  /\ home' = [home EXCEPT ![unit[e]] = MyShared(e)]
  /\ Push(unit[e], MyShared(e))
  /\ unit' = [unit EXCEPT ![e] = NoUnit]
  /\ \/ at[e] <= 1 /\ NextPool(e)
     \/ at[e] > 1 /\ Goto(e, "loop") /\ at' = [at EXCEPT ![e] = 0]
  /\ UNCHANGED <<numBlocked, threadVars, waking, listVars, running>>

(* ABT_my_migrate: the list is by the id of a pool, and read by its position    *)

Steal(e) ==
  /\ xpc[e] = "steal"
  /\ \E i \in 2 .. N :
       \/ /\ emptyList[i] = 1 /\ pool[SchedPools(e)[i]] # <<>>
          /\ Goto(e, "again") /\ at' = [at EXCEPT ![e] = i]
       \/ /\ emptyList[i] # 1 \/ pool[SchedPools(e)[i]] = <<>>
          /\ Goto(e, "loop") /\ at' = [at EXCEPT ![e] = 0]
  /\ UNCHANGED <<pool, numBlocked, home, threadVars, waking, listVars, running, unit>>

(* The ULTs *)

Does(e, call) ==
  /\ xpc[e] = "ult"
  /\ calls[running[e]] # <<>> /\ Head(calls[running[e]]) = call
  /\ calls' = [calls EXCEPT ![running[e]] = Tail(@)]
  /\ Goto(e, "ret")

Yield(e) ==
  /\ Does(e, "yield")
  /\ state' = [state EXCEPT ![running[e]] = "READY"]
  /\ UNCHANGED <<pool, numBlocked, home, request, waking, listVars, running, unit, at>>

\* set_blocked, then the switch to the scheduler.
Suspend(e) ==
  /\ Does(e, "suspend")
  /\ request' = [request EXCEPT ![running[e]] = {"BLOCK"}]
  /\ state' = [state EXCEPT ![running[e]] = "BLOCKED"]
  /\ numBlocked' = [numBlocked EXCEPT ![home[running[e]]] = @ + 1]
  /\ UNCHANGED <<pool, home, waking, listVars, running, unit, at>>

Terminate(e) ==
  /\ xpc[e] = "ult" /\ calls[running[e]] = <<>>
  /\ request' = [request EXCEPT ![running[e]] = {"TERMINATE"}]
  /\ Goto(e, "ret")
  /\ UNCHANGED <<pool, numBlocked, home, state, calls, waking, listVars, running, unit, at>>

\* What the scheduler does with the ULT that has switched back to it.
Return(e) ==
  /\ xpc[e] = "ret"
  /\ LET u == running[e]
     IN  \/ /\ request[u] = {"TERMINATE"}
            /\ state' = [state EXCEPT ![u] = "TERMINATED"]
            /\ UNCHANGED <<request, pool>>
         \/ request[u] = {} /\ Push(u, home[u]) /\ UNCHANGED <<state, request>>
         \/ /\ request[u] = {"BLOCK"}
            /\ request' = [request EXCEPT ![u] = {}]
            /\ UNCHANGED <<state, pool>>
  /\ running' = [running EXCEPT ![e] = NoUnit]
  /\ Goto(e, "check")
  /\ UNCHANGED <<numBlocked, home, calls, waking, listVars, unit, at>>

(* ABT_thread_resume, called by an OS thread that is no ES *)

CanSetReady(u) == state[u] = "BLOCKED" /\ request[u] = {}

\* set_ready pushes the ULT to its pool, ...
Resume(u) ==
  /\ waking = NoUnit
  /\ CanSetReady(u)
  /\ state' = [state EXCEPT ![u] = "READY"]
  /\ Push(u, home[u])
  /\ waking' = u
  /\ UNCHANGED <<numBlocked, home, request, calls, listVars, xpc, running, unit, at>>

\* ... and counts it out of the pool it has by then.
Resumed ==
  /\ waking # NoUnit
  /\ numBlocked' = [numBlocked EXCEPT ![home[waking]] = @ - 1]
  /\ waking' = NoUnit
  /\ UNCHANGED <<pool, home, threadVars, listVars, xpc, running, unit, at>>

(* The specification *)

Sched(e) ==
  \/ Scan(e) \/ PopRun(e) \/ PopNothing(e) \/ Check(e) \/ PopMove(e) \/ PopMoveNothing(e)
  \/ Move(e) \/ Steal(e) \/ Yield(e) \/ Suspend(e) \/ Terminate(e) \/ Return(e)

Outside == (\E u \in Thread : Resume(u)) \/ Resumed

Next ==
  \/ \E e \in Xstream : Sched(e) \/ Round(e) \/ GetInfo(e) \/ SetRInfo(e) \/ SetSInfo(e)
  \/ Outside

Spec == Init /\ [][Next]_vars

\* Every ES goes on with its loop, and every so many rounds it looks at the size of
\* its shared pool; whoever resumes ULTs goes on as well.
Fairness ==
  /\ \A e \in Xstream :
       /\ WF_vars(Sched(e) \/ Round(e) \/ SetSInfo(e))
       /\ SF_vars(SetRInfo(e))
  /\ WF_vars(Outside)

FairSpec == Spec /\ Fairness

(* Properties *)

\* A unit is in the pool that it is associated with, once, or in the hands of the one
\* ES that runs or moves it, or blocked, or gone: no stealing loses or doubles it.
\* That leaves out the tasklets, which are lost when they are popped to be run.
UnitsOnce ==
  \A u \in Unit :
    LET pools == {p \in Pool : Contains(pool[p], u)}
        hands == {e \in Xstream : running[e] = u \/ unit[e] = u}
        asleep == u \in Thread /\ state[u] = "BLOCKED" /\ request[u] = {}
    IN  /\ Cardinality(pools) + Cardinality(hands)
             = IF asleep \/ state[u] \in {"TERMINATED", "LOST"} THEN 0 ELSE 1
        /\ \A p \in pools : home[u] = p /\ IsInjective(pool[p])

\* The pools together count the blocked ULTs, whichever pools they came through; the
\* count of a single pool may be wrong for good, even negative, see Resumed.  The sum of
\* the counts is what the positive ones have less what the negative ones owe.
Has(count) == UNION {{p} \X (1 .. count[p]) : p \in Pool}
Owes(count) == UNION {{p} \X (1 .. -count[p]) : p \in Pool}
Blocked == {u \in Thread : state[u] = "BLOCKED"}
BlockedTotal ==
  Cardinality(Has(numBlocked)) - Cardinality(Owes(numBlocked))
    = Cardinality(Blocked) + (IF waking = NoUnit THEN 0 ELSE 1)

\* Every ULT terminates: none is moved back and forth for ever between schedulers
\* that take it from each other before one of them runs it.
Termination == <>(\A u \in Thread : state[u] = "TERMINATED")
=============================================================================
