----------------------------- MODULE JoinProofs -----------------------------
(***************************************************************************)
(* Proofs about Join, for every finite set of ULTs, every set of ESs and   *)
(* pools and every program of calls that ProgramOK allows.                 *)
(***************************************************************************)
EXTENDS Join, ThreadsProofs

(***************************************************************************)
(* The inductive invariant.                                                *)
(***************************************************************************)

Runs(u) == \E e \in Xstream : running[e] = u

\* Where a ULT is in the end of its life, and where its joiner has been made READY.
EndPC == {"end", "wait_link", "wake", "set_ready", "push", "dec_blocked", "stop"}
LatePC == {"push", "dec_blocked", "stop", "done"}
\* In a join; between two calls of the ULT, or where it waits for somebody.
JoinPC == {"join", "find", "block", "link", "suspend", "resume", "poll"}
RestPC == {"run", "resume", "poll"}

\* The pools hold READY units, each in its home pool and once.  None of them has an ES on
\* its stack, but for the one that is about to yield to another.
PoolOK ==
  /\ QueuedOnce
  /\ AtHome
  /\ \A u \in Thread : InPool(u) =>
       /\ state[u] = "READY"
       /\ pc[u] \in RestPC \cup {"yield_to"}
       /\ \A e \in Xstream : running[e] = u => phase[e] = "ult" /\ pc[u] = "yield_to"

\* The state of a ULT on an ES is that of the place where it is.
ESOK(e) ==
  /\ phase[e] = "sched" => running[e] = NoThread
  /\ \A u \in Thread : running[e] = u =>
       /\ phase[e] \in {"ult", "ret"} => lastES[u] = e
       /\ phase[e] = "ult" =>
            /\ pc[u] # "done"
            /\ pc[u] = "yield_to" => state[u] = "READY" /\ InPool(u)
            /\ pc[u] \in {"link", "suspend"} => state[u] = "BLOCKED" /\ "BLOCK" \in request[u]
            /\ pc[u] = "resume" =>
                 \/ state[u] = "RUNNING"
                 \/ state[u] = "BLOCKED" /\ state[goal[u]] = "TERMINATED" /\ pc[goal[u]] = "done"
            /\ pc[u] = "jump" => state[u] = "TERMINATED"
            /\ pc[u] \notin {"yield_to", "link", "suspend", "resume", "jump"} => state[u] = "RUNNING"
       /\ phase[e] = "ret" =>
            \/ pc[u] \in {"run", "poll"} /\ state[u] = "READY"
            \/ pc[u] = "resume" /\ state[u] = "BLOCKED" /\ "BLOCK" \in request[u]
            \/ pc[u] = "done" /\ state[u] = "RUNNING" /\ "TERMINATE" \in request[u]
       /\ phase[e] = "cancel" => pc[u] \in EndPC /\ state[u] = "READY"
RunOK == OneRunner /\ \A e \in Xstream : ESOK(e)

\* The requests: BLOCK until the scheduler has seen it, those of a ULT that ends, and
\* CANCEL only where the programs allow it.
ReqOK ==
  \A u \in Thread :
    /\ "BLOCK" \in request[u] => \E e \in Xstream :
         /\ running[e] = u
         /\ \/ phase[e] = "ult" /\ pc[u] \in {"link", "suspend"}
            \/ phase[e] = "ret" /\ pc[u] = "resume"
    /\ "EXIT" \in request[u] \/ "TERMINATE" \in request[u] => pc[u] \in EndPC \cup {"jump", "done"}
    /\ "CANCEL" \in request[u] => \E v \in Thread : u \in Program[v].cancel

\* Where in its program a ULT is that blocks, runs, ends or has ended.  One that is to jump to
\* its joiner has ended for all others, but is on the ES where the joiner has left its context.
PlaceOK ==
  \A u \in Thread :
    /\ state[u] = "BLOCKED" => pc[u] \in {"link", "suspend", "resume"}
    /\ pc[u] \in {"join", "find", "block", "link", "suspend", "yield_to"} =>
         \E e \in Xstream : On(u, e)
    /\ pc[u] \in EndPC => \E e \in Xstream : running[e] = u /\ phase[e] \in {"ult", "cancel"}
    /\ pc[u] = "done" =>
         state[u] = "TERMINATED" \/ \E e \in Xstream : running[e] = u /\ phase[e] = "ret"
    /\ pc[u] = "jump" =>
         /\ state[u] = "TERMINATED" /\ \E e \in Xstream : On(u, e)
         /\ link[u] # NoThread /\ lastES[link[u]] = lastES[u]
    /\ state[u] = "TERMINATED" => ~InPool(u) /\ (pc[u] = "jump" \/ (pc[u] = "done" /\ ~Runs(u)))
    /\ lastES[u] # NoXstream => Serves(lastES[u], HomePool[u])

\* What is left of a program is part of it; who is in a join, or yields to another ULT, is in
\* a call of its program.
TodoOK ==
  \A u \in Thread :
    /\ todo[u].join \subseteq Program[u].join
    /\ todo[u].cancel \subseteq Program[u].cancel
    /\ todo[u].to \subseteq Program[u].to
    /\ todo[u].revive \subseteq Program[u].revive
    /\ pc[u] \in JoinPC => goal[u] \in todo[u].join
    /\ pc[u] = "find" => Lone(u, goal[u])
    /\ pc[u] = "yield_to" =>
         /\ goal[u] # u /\ SamePool(u, goal[u]) /\ OneConsumer(u) /\ InPool(goal[u])

\* x has left its context to its target t, and nobody has woken it.
Linked(x, t) ==
  /\ state[x] = "BLOCKED" /\ pc[x] \in {"suspend", "resume"} /\ goal[x] = t

\* Whoever is in the link of a ULT joins that ULT, or has joined it.
LinkOK ==
  \A t \in Thread : link[t] # NoThread =>
    /\ t \in Program[link[t]].join
    /\ MayBlock(link[t], t)
    /\ "JOIN" \in request[t] \/ Lone(link[t], t)
    /\ t \in todo[link[t]].join =>
         goal[link[t]] = t /\ pc[link[t]] \in {"suspend", "resume", "poll"}
    /\ pc[t] \notin LatePC => Linked(link[t], t)

\* Whoever blocks in a join is the only one, has set the JOIN request before it is in the
\* link, and is in the link then, until its target wakes it or switches to it.
BlockerOK ==
  /\ \A x \in Thread : pc[x] \in {"block", "link"} =>
       /\ "JOIN" \in request[goal[x]] /\ link[goal[x]] = NoThread
       /\ MayBlock(x, goal[x])
       /\ pc[goal[x]] \notin LatePC \cup {"wake", "set_ready"}
       /\ \A y \in Thread : pc[y] \in {"block", "link"} /\ goal[y] = goal[x] => y = x
  /\ \A x \in Thread : state[x] = "BLOCKED" /\ pc[x] \in {"suspend", "resume"} =>
       \/ link[goal[x]] = x /\ pc[goal[x]] \notin LatePC
       \/ pc[x] = "resume" /\ \E e \in Xstream : On(x, e)

\* A ULT that ends wakes the joiner that is in its link; one that has stopped has had a
\* joiner, or has set the JOIN request itself.
EndOK ==
  \A w \in Thread :
    /\ pc[w] \in {"wake", "set_ready", "push"} => link[w] # NoThread /\ goal[w] = link[w]
    /\ pc[w] = "push" =>
         /\ state[goal[w]] = "READY" /\ ~InPool(goal[w]) /\ ~Runs(goal[w])
         /\ pc[goal[w]] = "resume" /\ goal[goal[w]] = w
    /\ pc[w] \in {"wait_link"} \cup LatePC => "JOIN" \in request[w] \/ link[w] # NoThread

PartsOK == PoolOK /\ RunOK /\ ReqOK /\ PlaceOK /\ TodoOK /\ LinkOK /\ BlockerOK /\ EndOK
JoinInv == TypeOK /\ PartsOK

(***************************************************************************)
(* Facts that every step uses.                                             *)
(***************************************************************************)

\* The types that the proofs below need.
LEMMA Types ==
  ASSUME JoinInv
  PROVE  /\ state \in [Thread -> ThreadState]
         /\ request \in [Thread -> SUBSET Request]
         /\ lastES \in [Thread -> Xstream \cup {NoXstream}]
         /\ pool \in [Pool -> Seq(Thread)]
         /\ numBlocked \in [Pool -> Int]
         /\ running \in [Xstream -> Thread \cup {NoThread}]
         /\ phase \in [Xstream -> Phase]
         /\ \A e \in Xstream : phase[e] # "sched" => running[e] \in Thread
         /\ link \in [Thread -> Thread \cup {NoThread}]
         /\ pc \in [Thread -> PC]
         /\ goal \in [Thread -> Thread \cup {NoThread}]
         /\ todo \in [Thread -> Todo]
         /\ \A u \in Thread : pc[u] \in JoinPC \cup {"yield_to", "wake", "set_ready", "push", "dec_blocked"} =>
              goal[u] \in Thread
         /\ NoThread \notin Thread /\ NoXstream \notin Xstream
         /\ \A u \in Thread : u \notin Program[u].join
<1>1. NoThread \notin Thread /\ NoXstream \notin Xstream /\ \A u \in Thread : u \notin Program[u].join
  BY ThreadsAssumption, JoinAssumption
<1> QED
  BY <1>1 DEF JoinInv, PartsOK, TypeOK, ThreadsTypeOK, JoinPC

\* The ULT that is on an ES is on no other; its state is that of its place, and it is in a
\* pool only when it is about to yield to another.
LEMMA OnES ==
  ASSUME JoinInv, NEW u \in Thread, NEW e \in Xstream, On(u, e)
  PROVE  /\ running[e] = u /\ phase[e] = "ult" /\ Runs(u)
         /\ \A f \in Xstream : running[f] = u => f = e
         /\ lastES[u] = e /\ Serves(e, HomePool[u])
         /\ pc[u] # "done" /\ (pc[u] # "jump" => state[u] # "TERMINATED")
         /\ pc[u] \notin {"yield_to", "link", "suspend", "resume", "jump"} => state[u] = "RUNNING"
         /\ pc[u] \in {"link", "suspend"} => state[u] = "BLOCKED" /\ "BLOCK" \in request[u]
         /\ pc[u] = "resume" => \/ state[u] = "RUNNING"
                                \/ /\ state[u] = "BLOCKED"
                                   /\ state[goal[u]] = "TERMINATED" /\ pc[goal[u]] = "done"
         /\ InPool(u) <=> pc[u] = "yield_to"
         /\ "BLOCK" \in request[u] <=> pc[u] \in {"link", "suspend"}
         /\ \A w \in Thread : pc[w] = "push" => goal[w] # u
<1>1. running[e] = u /\ phase[e] = "ult" /\ Runs(u) /\ u # NoThread
  BY ThreadsAssumption DEF On, Runs
<1>2. \A f \in Xstream : running[f] = u => f = e
  BY <1>1 DEF JoinInv, PartsOK, RunOK, OneRunner
<1>3. /\ lastES[u] = e
      /\ pc[u] # "done"
      /\ pc[u] \notin {"yield_to", "link", "suspend", "resume", "jump"} => state[u] = "RUNNING"
      /\ pc[u] \in {"link", "suspend"} => state[u] = "BLOCKED" /\ "BLOCK" \in request[u]
      /\ pc[u] = "resume" => \/ state[u] = "RUNNING"
                             \/ /\ state[u] = "BLOCKED"
                                /\ state[goal[u]] = "TERMINATED" /\ pc[goal[u]] = "done"
      /\ pc[u] = "yield_to" => InPool(u)
  BY <1>1 DEF JoinInv, PartsOK, RunOK, ESOK
<1>4. Serves(e, HomePool[u]) /\ (pc[u] # "jump" => state[u] # "TERMINATED")
  <2>1. PlaceOK /\ e # NoXstream
    BY ThreadsAssumption DEF JoinInv, PartsOK
  <2> QED BY <1>1, <1>3, <2>1 DEF PlaceOK
<1>5. InPool(u) => pc[u] = "yield_to"
  BY <1>1 DEF JoinInv, PartsOK, PoolOK
<1>6. "BLOCK" \in request[u] => pc[u] \in {"link", "suspend"}
  BY <1>1, <1>2 DEF JoinInv, PartsOK, ReqOK
<1>7. \A w \in Thread : pc[w] = "push" => goal[w] # u
  BY <1>1 DEF JoinInv, PartsOK, EndOK
<1> QED
  BY <1>1, <1>2, <1>3, <1>4, <1>5, <1>6, <1>7

\* The joiner in the link of a ULT that has not woken it.
LEMMA LinkedJoiner ==
  ASSUME JoinInv, NEW u \in Thread, NEW x \in Thread, link[u] = x, pc[u] \notin LatePC
  PROVE  /\ Linked(x, u) /\ x # u
         /\ ~InPool(x)
         /\ \A f \in Xstream : running[f] = x => "BLOCK" \in request[x] /\ lastES[x] = f
         /\ \A y \in Thread : pc[y] \in {"block", "link"} => goal[y] # u
         /\ \A w \in Thread : pc[w] = "push" => goal[w] # x
<1>1. Linked(x, u) /\ u \in Program[x].join /\ x # NoThread
  BY Types DEF JoinInv, PartsOK, LinkOK
<1>2. ~InPool(x)
  BY <1>1 DEF JoinInv, PartsOK, PoolOK, Linked
<1>3. ASSUME NEW f \in Xstream, running[f] = x PROVE "BLOCK" \in request[x] /\ lastES[x] = f
  BY <1>1, <1>3 DEF JoinInv, PartsOK, RunOK, ESOK, Linked, LatePC, Phase, EndPC, TypeOK, ThreadsTypeOK
<1>4. \A y \in Thread : pc[y] \in {"block", "link"} => goal[y] # u
  BY <1>1 DEF JoinInv, PartsOK, BlockerOK
<1>5. \A w \in Thread : pc[w] = "push" => goal[w] # x
  BY <1>1 DEF JoinInv, PartsOK, EndOK, Linked
<1> QED
  BY <1>1, <1>2, <1>3, <1>4, <1>5, Types

\* The joiner of a ULT that has ended and is to jump to it: asleep, and nowhere else.
LEMMA JumpTarget ==
  ASSUME JoinInv, NEW u \in Thread, pc[u] = "jump"
  PROVE  /\ link[u] \in Thread /\ link[u] # u /\ Linked(link[u], u)
         /\ u \in todo[link[u]].join /\ u \in Program[link[u]].join
         /\ ~InPool(link[u]) /\ ~Runs(link[u])
         /\ \E e \in Xstream : On(u, e) /\ lastES[u] = e /\ lastES[link[u]] = e
<1>1. PICK x : x = link[u]
  OBVIOUS
<1>2. x \in Thread /\ x # NoThread /\ lastES[x] = lastES[u]
  BY <1>1, Types DEF JoinInv, PartsOK, PlaceOK
<1>3. PICK e \in Xstream : On(u, e)
  BY DEF JoinInv, PartsOK, PlaceOK
<1>4. lastES[u] = e /\ running[e] = u
  BY <1>3, OnES
<1>5. /\ Linked(x, u) /\ x # u /\ ~InPool(x)
      /\ \A f \in Xstream : running[f] = x => lastES[x] = f
  BY <1>1, <1>2, LinkedJoiner DEF LatePC
<1>6. ~Runs(x)
  BY <1>2, <1>4, <1>5 DEF Runs
<1>7. u \in todo[x].join /\ u \in Program[x].join
  BY <1>2, <1>5, Types DEF JoinInv, PartsOK, TodoOK, Linked, JoinPC
<1> QED
  BY <1>1, <1>2, <1>3, <1>4, <1>5, <1>6, <1>7

\* A step that leaves the pools alone.
LEMMA SamePools ==
  ASSUME JoinInv, pool' = pool
  PROVE  QueuedOnce' /\ AtHome' /\ \A v : InPool(v)' <=> InPool(v)
BY DEF JoinInv, PartsOK, PoolOK, QueuedOnce, AtHome, InPool

(***************************************************************************)
(* The steps of a join.                                                    *)
(***************************************************************************)

\* A ULT calls join.
LEMMA JoinKeeps ==
  ASSUME JoinInv, NEW u \in Thread, NEW e \in Xstream, On(u, e), NEW t \in Thread, Join(u, t)
  PROVE  PartsOK'
<1>1. /\ pc[u] = "run" /\ pc' = [pc EXCEPT ![u] = "join"] /\ goal' = [goal EXCEPT ![u] = t]
      /\ t \in todo[u].join
      /\ UNCHANGED <<state, request, lastES, pool, running, phase, link, todo>>
  BY DEF Join, Goto, threadVars
<1>2. /\ running[e] = u /\ phase[e] = "ult" /\ \A f \in Xstream : running[f] = u => f = e
      /\ lastES[u] = e /\ ~InPool(u) /\ state[u] = "RUNNING" /\ "BLOCK" \notin request[u]
      /\ \A w \in Thread : pc[w] = "push" => goal[w] # u
  BY <1>1, OnES
<1> USE <1>1, <1>2, Types, SamePools
<1>3. PoolOK' BY DEF JoinInv, PartsOK, PoolOK, RestPC
<1>4. RunOK'
  <2>1. OneRunner' BY DEF JoinInv, PartsOK, RunOK, OneRunner
  <2>2. ESOK(e)' BY DEF ESOK, EndPC
  <2>3. ASSUME NEW f \in Xstream, f # e PROVE ESOK(f)'
    <3>1. ESOK(f) /\ running[f] # u
      BY <2>3 DEF JoinInv, PartsOK, RunOK
    <3> QED BY <2>3, <3>1 DEF ESOK, EndPC
  <2> QED BY <2>1, <2>2, <2>3 DEF RunOK
<1>5. ReqOK' BY DEF JoinInv, PartsOK, ReqOK, EndPC
<1>6. PlaceOK' BY DEF JoinInv, PartsOK, PlaceOK, EndPC, On, Runs
<1>7. TodoOK' BY DEF JoinInv, PartsOK, TodoOK, JoinPC
<1>8. LinkOK' BY DEF JoinInv, PartsOK, LinkOK, Linked, LatePC
<1>9. BlockerOK' BY DEF JoinInv, PartsOK, BlockerOK, LatePC, On
<1>10. EndOK' BY DEF JoinInv, PartsOK, EndOK, LatePC, Runs
<1> QED BY <1>3, <1>4, <1>5, <1>6, <1>7, <1>8, <1>9, <1>10 DEF PartsOK

\* The target has terminated, and the call returns.
LEMMA JoinTerminatedKeeps ==
  ASSUME JoinInv, NEW u \in Thread, NEW e \in Xstream, On(u, e), JoinTerminated(u)
  PROVE  PartsOK'
<1>1. /\ pc[u] = "join" /\ pc' = [pc EXCEPT ![u] = "run"] /\ goal' = [goal EXCEPT ![u] = NoThread]
      /\ todo'[u].join = todo[u].join \ {goal[u]}
      /\ todo'[u].cancel = todo[u].cancel /\ todo'[u].to = todo[u].to
      /\ todo'[u].revive = todo[u].revive
      /\ \A v \in Thread : v # u => todo'[v] = todo[v]
      /\ UNCHANGED <<state, request, lastES, pool, running, phase, link>>
  BY Types DEF JoinTerminated, Joined, Goto, threadVars, Todo
<1>2. /\ running[e] = u /\ phase[e] = "ult" /\ \A f \in Xstream : running[f] = u => f = e
      /\ lastES[u] = e /\ ~InPool(u) /\ state[u] = "RUNNING" /\ "BLOCK" \notin request[u]
      /\ \A w \in Thread : pc[w] = "push" => goal[w] # u
  BY <1>1, OnES
<1> USE <1>1, <1>2, Types, SamePools
<1>3. PoolOK' BY DEF JoinInv, PartsOK, PoolOK, RestPC
<1>4. RunOK'
  <2>1. OneRunner' BY DEF JoinInv, PartsOK, RunOK, OneRunner
  <2>2. ESOK(e)' BY DEF ESOK, EndPC
  <2>3. ASSUME NEW f \in Xstream, f # e PROVE ESOK(f)'
    <3>1. ESOK(f) /\ running[f] # u
      BY <2>3 DEF JoinInv, PartsOK, RunOK
    <3> QED BY <2>3, <3>1 DEF ESOK, EndPC
  <2> QED BY <2>1, <2>2, <2>3 DEF RunOK
<1>5. ReqOK' BY DEF JoinInv, PartsOK, ReqOK, EndPC
<1>6. PlaceOK' BY DEF JoinInv, PartsOK, PlaceOK, EndPC, On, Runs
<1>7. TodoOK' BY DEF JoinInv, PartsOK, TodoOK, JoinPC
<1>8. LinkOK' BY DEF JoinInv, PartsOK, LinkOK, Linked, LatePC
<1>9. BlockerOK' BY DEF JoinInv, PartsOK, BlockerOK, LatePC, On
<1>10. EndOK' BY DEF JoinInv, PartsOK, EndOK, LatePC, Runs
<1> QED BY <1>3, <1>4, <1>5, <1>6, <1>7, <1>8, <1>9, <1>10 DEF PartsOK

\* The joiner is to run its target.
LEMMA JoinFindKeeps ==
  ASSUME JoinInv, NEW u \in Thread, NEW e \in Xstream, On(u, e), JoinChoose(u),
         pc' = [pc EXCEPT ![u] = "find"]
  PROVE  PartsOK'
<1>1. /\ pc[u] = "join" /\ pc' = [pc EXCEPT ![u] = "find"] /\ Lone(u, goal[u])
      /\ UNCHANGED <<state, request, lastES, pool, running, phase, link, goal, todo>>
  BY Types DEF JoinChoose, Goto, PC, RunsTarget, Lone
<1>2. /\ running[e] = u /\ phase[e] = "ult" /\ \A f \in Xstream : running[f] = u => f = e
      /\ lastES[u] = e /\ ~InPool(u) /\ state[u] = "RUNNING" /\ "BLOCK" \notin request[u]
      /\ \A w \in Thread : pc[w] = "push" => goal[w] # u
  BY <1>1, OnES
<1> USE <1>1, <1>2, Types, SamePools
<1>3. PoolOK' BY DEF JoinInv, PartsOK, PoolOK, RestPC
<1>4. RunOK'
  <2>1. OneRunner' BY DEF JoinInv, PartsOK, RunOK, OneRunner
  <2>2. ESOK(e)' BY DEF ESOK, EndPC
  <2>3. ASSUME NEW f \in Xstream, f # e PROVE ESOK(f)'
    <3>1. ESOK(f) /\ running[f] # u
      BY <2>3 DEF JoinInv, PartsOK, RunOK
    <3> QED BY <2>3, <3>1 DEF ESOK, EndPC
  <2> QED BY <2>1, <2>2, <2>3 DEF RunOK
<1>5. ReqOK' BY DEF JoinInv, PartsOK, ReqOK, EndPC
<1>6. PlaceOK' BY DEF JoinInv, PartsOK, PlaceOK, EndPC, On, Runs
<1>7. TodoOK' BY DEF JoinInv, PartsOK, TodoOK, JoinPC
<1>8. LinkOK' BY DEF JoinInv, PartsOK, LinkOK, Linked, LatePC
<1>9. BlockerOK' BY DEF JoinInv, PartsOK, BlockerOK, LatePC, On
<1>10. EndOK' BY DEF JoinInv, PartsOK, EndOK, LatePC, Runs
<1> QED BY <1>3, <1>4, <1>5, <1>6, <1>7, <1>8, <1>9, <1>10 DEF PartsOK

\* The joiner is to poll, since its pool takes no ULTs from other ESs or the JOIN request was
\* set before.
LEMMA JoinPollKeeps ==
  ASSUME JoinInv, NEW u \in Thread, NEW e \in Xstream, On(u, e), JoinChoose(u),
         pc' = [pc EXCEPT ![u] = "poll"]
  PROVE  PartsOK'
<1>1. /\ pc[u] = "join" /\ goal[u] \in Thread
      /\ UNCHANGED <<state, lastES, pool, running, phase, link, goal, todo>>
      /\ request' \in {request, [request EXCEPT ![goal[u]] = @ \cup {"JOIN"}]}
  BY Types DEF JoinChoose, Goto, PC, JoinPC
<1>2. \A v \in Thread : /\ \A r \in Request \ {"JOIN"} : r \in request'[v] <=> r \in request[v]
                        /\ "JOIN" \in request[v] => "JOIN" \in request'[v]
  BY <1>1, Types
<1>3. /\ running[e] = u /\ phase[e] = "ult" /\ \A f \in Xstream : running[f] = u => f = e
      /\ lastES[u] = e /\ ~InPool(u) /\ state[u] = "RUNNING" /\ "BLOCK" \notin request[u]
      /\ \A w \in Thread : pc[w] = "push" => goal[w] # u
  BY <1>1, OnES
<1> USE <1>1, <1>2, <1>3, Types, SamePools DEF Request
<1>4. PoolOK' BY DEF JoinInv, PartsOK, PoolOK, RestPC
<1>5. RunOK'
  <2>1. OneRunner' BY DEF JoinInv, PartsOK, RunOK, OneRunner
  <2>2. ESOK(e)' BY DEF ESOK, EndPC
  <2>3. ASSUME NEW f \in Xstream, f # e PROVE ESOK(f)'
    <3>1. ESOK(f) /\ running[f] # u
      BY <2>3 DEF JoinInv, PartsOK, RunOK
    <3> QED BY <2>3, <3>1 DEF ESOK, EndPC
  <2> QED BY <2>1, <2>2, <2>3 DEF RunOK
<1>6. ReqOK' BY DEF JoinInv, PartsOK, ReqOK, EndPC
<1>7. PlaceOK' BY DEF JoinInv, PartsOK, PlaceOK, EndPC, On, Runs
<1>8. TodoOK' BY DEF JoinInv, PartsOK, TodoOK, JoinPC
<1>9. LinkOK' BY DEF JoinInv, PartsOK, LinkOK, Linked, LatePC
<1>10. BlockerOK' BY DEF JoinInv, PartsOK, BlockerOK, LatePC, On, JoinPC
<1>11. EndOK' BY DEF JoinInv, PartsOK, EndOK, LatePC, Runs
<1> QED BY <1>4, <1>5, <1>6, <1>7, <1>8, <1>9, <1>10, <1>11 DEF PartsOK

\* The joiner is to block: it has set the JOIN request, and nobody has set it before.
LEMMA JoinBlockKeeps ==
  ASSUME ProgramOK, JoinInv, NEW u \in Thread, NEW e \in Xstream, On(u, e), JoinChoose(u),
         pc' = [pc EXCEPT ![u] = "block"]
  PROVE  PartsOK'
<1>1. /\ pc[u] = "join" /\ goal[u] \in Thread
      /\ UNCHANGED <<state, lastES, pool, running, phase, link, goal, todo>>
      /\ request' = [request EXCEPT ![goal[u]] = @ \cup {"JOIN"}]
      /\ "JOIN" \notin request[goal[u]] /\ MayBlock(u, goal[u])
  <2>1. goal[u] \in Thread /\ pc[u] = "join" /\ pc'[u] = "block"
    BY Types DEF JoinChoose, JoinPC
  <2> QED BY <2>1, Types DEF JoinChoose, Goto, MayBlock
<1>2. \A v \in Thread : /\ \A r \in Request \ {"JOIN"} : r \in request'[v] <=> r \in request[v]
                        /\ "JOIN" \in request[v] => "JOIN" \in request'[v]
                        /\ "JOIN" \in request'[goal[u]]
  BY <1>1, Types
<1>3. /\ running[e] = u /\ phase[e] = "ult" /\ \A f \in Xstream : running[f] = u => f = e
      /\ lastES[u] = e /\ ~InPool(u) /\ state[u] = "RUNNING" /\ "BLOCK" \notin request[u]
      /\ \A w \in Thread : pc[w] = "push" => goal[w] # u
  BY <1>1, OnES
<1>4. /\ goal[u] \in Thread /\ goal[u] \in todo[u].join /\ goal[u] \in Program[u].join /\ goal[u] # u
  BY <1>1, Types DEF JoinInv, PartsOK, TodoOK, JoinPC
<1> USE <1>1, <1>2, <1>3, <1>4, Types, SamePools DEF Request
<1>5. PoolOK' BY DEF JoinInv, PartsOK, PoolOK, RestPC
<1>6. RunOK'
  <2>1. OneRunner' BY DEF JoinInv, PartsOK, RunOK, OneRunner
  <2>2. ESOK(e)' BY DEF ESOK, EndPC
  <2>3. ASSUME NEW f \in Xstream, f # e PROVE ESOK(f)'
    <3>1. ESOK(f) /\ running[f] # u
      BY <2>3 DEF JoinInv, PartsOK, RunOK
    <3> QED BY <2>3, <3>1 DEF ESOK, EndPC
  <2> QED BY <2>1, <2>2, <2>3 DEF RunOK
<1>7. ReqOK' BY DEF JoinInv, PartsOK, ReqOK, EndPC
<1>8. PlaceOK' BY DEF JoinInv, PartsOK, PlaceOK, EndPC, On, Runs
<1>9. TodoOK' BY DEF JoinInv, PartsOK, TodoOK, JoinPC
<1>10. LinkOK' BY DEF JoinInv, PartsOK, LinkOK, Linked, LatePC
<1>11. BlockerOK'
  <2>1. link[goal[u]] = NoThread
    <3>1. PICK t : t = goal[u]
      OBVIOUS
    <3>2. PICK x : x = link[t]
      OBVIOUS
    <3> SUFFICES ASSUME x # NoThread PROVE FALSE
      BY <3>1, <3>2
    <3>3. x # NoThread /\ x \in Thread /\ t \in Thread /\ "JOIN" \notin request[t] /\ t \in todo[u].join
      BY <3>1, <3>2, <1>1, <1>4, Types
    <3>4. /\ t \in Program[x].join
          /\ "JOIN" \in request[t] \/ Lone(x, t)
          /\ t \in todo[x].join => pc[x] \in {"suspend", "resume", "poll"}
      BY ONLY <3>1, <3>2, <3>3, JoinInv DEF JoinInv, PartsOK, LinkOK
    <3>5. x # u
      BY <3>3, <3>4
    <3> QED BY <3>1, <3>3, <3>4, <3>5 DEF ProgramOK
  <2>2. pc[goal[u]] \notin LatePC \cup {"wake", "set_ready"}
    BY <2>1 DEF JoinInv, PartsOK, EndOK
  <2>3. \A y \in Thread : pc[y] \in {"block", "link"} => goal[y] # goal[u]
    BY DEF JoinInv, PartsOK, BlockerOK
  <2> QED BY <2>1, <2>2, <2>3 DEF JoinInv, PartsOK, BlockerOK, LatePC, On
<1>12. EndOK' BY DEF JoinInv, PartsOK, EndOK, LatePC, Runs
<1> QED BY <1>5, <1>6, <1>7, <1>8, <1>9, <1>10, <1>11, <1>12 DEF PartsOK

\* The joiner sets itself BLOCKED.
LEMMA BlockKeeps ==
  ASSUME JoinInv, NEW u \in Thread, NEW e \in Xstream, On(u, e), JoinBlock(u)
  PROVE  PartsOK'
<1>1. /\ pc[u] = "block" /\ pc' = [pc EXCEPT ![u] = "link"]
      /\ request' = [request EXCEPT ![u] = @ \cup {"BLOCK"}] /\ state' = [state EXCEPT ![u] = "BLOCKED"]
      /\ UNCHANGED <<lastES, pool, running, phase, link, goal, todo>>
  BY DEF JoinBlock, Goto, SetBlocked
<1>2. /\ running[e] = u /\ phase[e] = "ult" /\ \A f \in Xstream : running[f] = u => f = e
      /\ lastES[u] = e /\ ~InPool(u) /\ state[u] = "RUNNING" /\ "BLOCK" \notin request[u]
      /\ \A w \in Thread : pc[w] = "push" => goal[w] # u
  BY <1>1, OnES
<1> USE <1>1, <1>2, Types, SamePools
<1>3. PoolOK' BY DEF JoinInv, PartsOK, PoolOK, RestPC
<1>4. RunOK'
  <2>1. OneRunner' BY DEF JoinInv, PartsOK, RunOK, OneRunner
  <2>2. ESOK(e)' BY DEF ESOK, EndPC
  <2>3. ASSUME NEW f \in Xstream, f # e PROVE ESOK(f)'
    <3>1. ESOK(f) /\ running[f] # u
      BY <2>3 DEF JoinInv, PartsOK, RunOK
    <3> QED BY <2>3, <3>1 DEF ESOK, EndPC
  <2> QED BY <2>1, <2>2, <2>3 DEF RunOK
<1>5. ReqOK'
  <2>1. /\ "BLOCK" \in request'[u] /\ running'[e] = u /\ phase'[e] = "ult" /\ pc'[u] = "link"
        /\ \A r \in Request \ {"BLOCK"} : r \in request'[u] <=> r \in request[u]
    OBVIOUS
  <2> QED BY <2>1 DEF JoinInv, PartsOK, ReqOK, EndPC, Request
<1>6. PlaceOK' BY DEF JoinInv, PartsOK, PlaceOK, EndPC, On, Runs
<1>7. TodoOK' BY DEF JoinInv, PartsOK, TodoOK, JoinPC
<1>8. LinkOK' BY DEF JoinInv, PartsOK, LinkOK, Linked, LatePC
<1>9. BlockerOK' BY DEF JoinInv, PartsOK, BlockerOK, LatePC, On
<1>10. EndOK' BY DEF JoinInv, PartsOK, EndOK, LatePC, Runs
<1> QED BY <1>3, <1>4, <1>5, <1>6, <1>7, <1>8, <1>9, <1>10 DEF PartsOK

\* The joiner leaves its context in the link of its target.
LEMMA LinkKeeps ==
  ASSUME JoinInv, NEW u \in Thread, NEW e \in Xstream, On(u, e), JoinLink(u)
  PROVE  PartsOK'
<1>1. PICK t : t = goal[u]
  OBVIOUS
<1>2. /\ pc[u] = "link" /\ pc' = [pc EXCEPT ![u] = "suspend"] /\ link' = [link EXCEPT ![t] = u]
      /\ UNCHANGED <<state, request, lastES, pool, running, phase, goal, todo>>
  BY <1>1 DEF JoinLink, Goto, threadVars
<1>3. /\ t \in Thread /\ t \in todo[u].join /\ t \in Program[u].join /\ t # u
      /\ link[t] = NoThread /\ MayBlock(u, t) /\ "JOIN" \in request[t]
      /\ pc[t] \notin LatePC \cup {"wake", "set_ready"}
      /\ \A y \in Thread : pc[y] \in {"block", "link"} /\ goal[y] = t => y = u
  BY <1>1, <1>2, Types DEF JoinInv, PartsOK, TodoOK, JoinPC, BlockerOK
<1>4. /\ running[e] = u /\ phase[e] = "ult" /\ \A f \in Xstream : running[f] = u => f = e
      /\ lastES[u] = e /\ ~InPool(u) /\ state[u] = "BLOCKED" /\ "BLOCK" \in request[u]
      /\ \A w \in Thread : pc[w] = "push" => goal[w] # u
  BY <1>2, OnES
<1> USE <1>1, <1>2, <1>3, <1>4, Types, SamePools
<1>5. PoolOK' BY DEF JoinInv, PartsOK, PoolOK, RestPC
<1>6. RunOK'
  <2>1. OneRunner' BY DEF JoinInv, PartsOK, RunOK, OneRunner
  <2>2. ESOK(e)' BY DEF ESOK, EndPC
  <2>3. ASSUME NEW f \in Xstream, f # e PROVE ESOK(f)'
    <3>1. ESOK(f) /\ running[f] # u
      BY <2>3 DEF JoinInv, PartsOK, RunOK
    <3> QED BY <2>3, <3>1 DEF ESOK, EndPC
  <2> QED BY <2>1, <2>2, <2>3 DEF RunOK
<1>7. ReqOK' BY DEF JoinInv, PartsOK, ReqOK, EndPC
<1>8. PlaceOK' BY DEF JoinInv, PartsOK, PlaceOK, EndPC, On, Runs
<1>9. TodoOK' BY DEF JoinInv, PartsOK, TodoOK, JoinPC
<1>10. LinkOK' BY DEF JoinInv, PartsOK, LinkOK, Linked, LatePC
<1>11. BlockerOK' BY DEF JoinInv, PartsOK, BlockerOK, LatePC, On
<1>12. EndOK' BY DEF JoinInv, PartsOK, EndOK, LatePC, Runs
<1> QED BY <1>5, <1>6, <1>7, <1>8, <1>9, <1>10, <1>11, <1>12 DEF PartsOK

\* The joiner switches to its scheduler.
LEMMA SuspendKeeps ==
  ASSUME JoinInv, NEW u \in Thread, NEW e \in Xstream, On(u, e), JoinSuspend(u, e)
  PROVE  PartsOK'
<1>1. /\ pc[u] = "suspend" /\ pc' = [pc EXCEPT ![u] = "resume"] /\ phase' = [phase EXCEPT ![e] = "ret"]
      /\ UNCHANGED <<state, request, lastES, pool, running, link, goal, todo>>
  BY DEF JoinSuspend, Goto, SwitchToSched
<1>2. /\ running[e] = u /\ phase[e] = "ult" /\ \A f \in Xstream : running[f] = u => f = e
      /\ lastES[u] = e /\ ~InPool(u) /\ state[u] = "BLOCKED" /\ "BLOCK" \in request[u]
      /\ \A w \in Thread : pc[w] = "push" => goal[w] # u
  BY <1>1, OnES
<1> USE <1>1, <1>2, Types, SamePools
<1>3. PoolOK' BY DEF JoinInv, PartsOK, PoolOK, RestPC
<1>4. RunOK'
  <2>1. OneRunner' BY DEF JoinInv, PartsOK, RunOK, OneRunner
  <2>2. ESOK(e)' BY DEF ESOK, EndPC
  <2>3. ASSUME NEW f \in Xstream, f # e PROVE ESOK(f)'
    <3>1. ESOK(f) /\ running[f] # u
      BY <2>3 DEF JoinInv, PartsOK, RunOK
    <3> QED BY <2>3, <3>1 DEF ESOK, EndPC
  <2> QED BY <2>1, <2>2, <2>3 DEF RunOK
<1>5. ReqOK' BY DEF JoinInv, PartsOK, ReqOK, EndPC
<1>6. PlaceOK' BY DEF JoinInv, PartsOK, PlaceOK, EndPC, On, Runs
<1>7. TodoOK' BY DEF JoinInv, PartsOK, TodoOK, JoinPC
<1>8. LinkOK' BY DEF JoinInv, PartsOK, LinkOK, Linked, LatePC
<1>9. BlockerOK' BY DEF JoinInv, PartsOK, BlockerOK, LatePC, On
<1>10. EndOK' BY DEF JoinInv, PartsOK, EndOK, LatePC, Runs
<1> QED BY <1>3, <1>4, <1>5, <1>6, <1>7, <1>8, <1>9, <1>10 DEF PartsOK

\* The target has switched to the joiner at its end, and the call returns.
LEMMA ResumeReturnsKeeps ==
  ASSUME JoinInv, NEW u \in Thread, NEW e \in Xstream, On(u, e), JoinResume(u), state[u] = "BLOCKED"
  PROVE  PartsOK'
<1>1. /\ pc[u] = "resume" /\ pc' = [pc EXCEPT ![u] = "run"] /\ goal' = [goal EXCEPT ![u] = NoThread]
      /\ state' = [state EXCEPT ![u] = "RUNNING"]
      /\ todo'[u].join = todo[u].join \ {goal[u]}
      /\ todo'[u].cancel = todo[u].cancel /\ todo'[u].to = todo[u].to
      /\ todo'[u].revive = todo[u].revive
      /\ \A v \in Thread : v # u => todo'[v] = todo[v]
      /\ UNCHANGED <<request, lastES, pool, running, phase, link>>
  BY Types DEF JoinResume, Joined, Goto, Todo
<1>2. /\ running[e] = u /\ phase[e] = "ult" /\ \A f \in Xstream : running[f] = u => f = e
      /\ lastES[u] = e /\ ~InPool(u)
      /\ \A w \in Thread : pc[w] = "push" => goal[w] # u
  BY <1>1, OnES
<1>3. /\ goal[u] \in Thread /\ goal[u] \in todo[u].join /\ goal[u] \in Program[u].join /\ goal[u] # u
  BY <1>1, Types DEF JoinInv, PartsOK, TodoOK, JoinPC
<1>4. state[goal[u]] = "TERMINATED" /\ pc[goal[u]] = "done" /\ "BLOCK" \notin request[u]
  BY <1>1, <1>3, OnES
<1> USE <1>1, <1>2, <1>3, <1>4, Types, SamePools
<1>5. PoolOK' BY DEF JoinInv, PartsOK, PoolOK, RestPC
<1>6. RunOK'
  <2>1. OneRunner' BY DEF JoinInv, PartsOK, RunOK, OneRunner
  <2>2. ESOK(e)' BY DEF ESOK, EndPC
  <2>3. ASSUME NEW f \in Xstream, f # e PROVE ESOK(f)'
    <3>1. ESOK(f) /\ running[f] # u
      BY <2>3 DEF JoinInv, PartsOK, RunOK
    <3> QED BY <2>3, <3>1 DEF ESOK, EndPC
  <2> QED BY <2>1, <2>2, <2>3 DEF RunOK
<1>7. ReqOK' BY DEF JoinInv, PartsOK, ReqOK, EndPC
<1>8. PlaceOK' BY DEF JoinInv, PartsOK, PlaceOK, EndPC, On, Runs
<1>9. TodoOK' BY DEF JoinInv, PartsOK, TodoOK, JoinPC
<1>10. LinkOK' BY DEF JoinInv, PartsOK, LinkOK, Linked, LatePC
<1>11. BlockerOK' BY DEF JoinInv, PartsOK, BlockerOK, LatePC, On
<1>12. EndOK' BY DEF JoinInv, PartsOK, EndOK, LatePC, Runs
<1> QED BY <1>5, <1>6, <1>7, <1>8, <1>9, <1>10, <1>11, <1>12 DEF PartsOK

\* A scheduler has resumed the joiner: it polls for the last steps of its target.
LEMMA ResumePollsKeeps ==
  ASSUME JoinInv, NEW u \in Thread, NEW e \in Xstream, On(u, e), JoinResume(u), state[u] # "BLOCKED"
  PROVE  PartsOK'
<1>1. /\ pc[u] = "resume" /\ pc' = [pc EXCEPT ![u] = "poll"]
      /\ UNCHANGED <<state, request, lastES, pool, running, phase, link, goal, todo>>
  BY DEF JoinResume, Goto
<1>2. state[u] = "RUNNING" /\ "BLOCK" \notin request[u]
  BY <1>1, OnES
<1>3. /\ running[e] = u /\ phase[e] = "ult" /\ \A f \in Xstream : running[f] = u => f = e
      /\ lastES[u] = e /\ ~InPool(u)
      /\ \A w \in Thread : pc[w] = "push" => goal[w] # u
  BY <1>1, OnES
<1> USE <1>1, <1>2, <1>3, Types, SamePools
<1>4. PoolOK' BY DEF JoinInv, PartsOK, PoolOK, RestPC
<1>5. RunOK'
  <2>1. OneRunner' BY DEF JoinInv, PartsOK, RunOK, OneRunner
  <2>2. ESOK(e)' BY DEF ESOK, EndPC
  <2>3. ASSUME NEW f \in Xstream, f # e PROVE ESOK(f)'
    <3>1. ESOK(f) /\ running[f] # u
      BY <2>3 DEF JoinInv, PartsOK, RunOK
    <3> QED BY <2>3, <3>1 DEF ESOK, EndPC
  <2> QED BY <2>1, <2>2, <2>3 DEF RunOK
<1>6. ReqOK' BY DEF JoinInv, PartsOK, ReqOK, EndPC
<1>7. PlaceOK' BY DEF JoinInv, PartsOK, PlaceOK, EndPC, On, Runs
<1>8. TodoOK' BY DEF JoinInv, PartsOK, TodoOK, JoinPC
<1>9. LinkOK' BY DEF JoinInv, PartsOK, LinkOK, Linked, LatePC
<1>10. BlockerOK' BY DEF JoinInv, PartsOK, BlockerOK, LatePC, On
<1>11. EndOK' BY DEF JoinInv, PartsOK, EndOK, LatePC, Runs
<1> QED BY <1>4, <1>5, <1>6, <1>7, <1>8, <1>9, <1>10, <1>11 DEF PartsOK

\* The target has terminated, and the call returns.
LEMMA PollReturnsKeeps ==
  ASSUME JoinInv, NEW u \in Thread, NEW e \in Xstream, On(u, e), JoinPoll(u, e),
         pc' = [pc EXCEPT ![u] = "run"]
  PROVE  PartsOK'
<1>1. /\ pc[u] = "poll" /\ goal' = [goal EXCEPT ![u] = NoThread]
      /\ todo'[u].join = todo[u].join \ {goal[u]}
      /\ todo'[u].cancel = todo[u].cancel /\ todo'[u].to = todo[u].to
      /\ todo'[u].revive = todo[u].revive
      /\ \A v \in Thread : v # u => todo'[v] = todo[v]
      /\ UNCHANGED <<state, request, lastES, pool, running, phase, link>>
  BY Types DEF JoinPoll, Joined, Goto, threadVars, Todo
<1>2. /\ running[e] = u /\ phase[e] = "ult" /\ \A f \in Xstream : running[f] = u => f = e
      /\ lastES[u] = e /\ ~InPool(u) /\ state[u] = "RUNNING" /\ "BLOCK" \notin request[u]
      /\ \A w \in Thread : pc[w] = "push" => goal[w] # u
  BY <1>1, OnES
<1> USE <1>1, <1>2, Types, SamePools
<1>3. PoolOK' BY DEF JoinInv, PartsOK, PoolOK, RestPC
<1>4. RunOK'
  <2>1. OneRunner' BY DEF JoinInv, PartsOK, RunOK, OneRunner
  <2>2. ESOK(e)' BY DEF ESOK, EndPC
  <2>3. ASSUME NEW f \in Xstream, f # e PROVE ESOK(f)'
    <3>1. ESOK(f) /\ running[f] # u
      BY <2>3 DEF JoinInv, PartsOK, RunOK
    <3> QED BY <2>3, <3>1 DEF ESOK, EndPC
  <2> QED BY <2>1, <2>2, <2>3 DEF RunOK
<1>5. ReqOK' BY DEF JoinInv, PartsOK, ReqOK, EndPC
<1>6. PlaceOK' BY DEF JoinInv, PartsOK, PlaceOK, EndPC, On, Runs
<1>7. TodoOK' BY DEF JoinInv, PartsOK, TodoOK, JoinPC
<1>8. LinkOK' BY DEF JoinInv, PartsOK, LinkOK, Linked, LatePC
<1>9. BlockerOK' BY DEF JoinInv, PartsOK, BlockerOK, LatePC, On
<1>10. EndOK' BY DEF JoinInv, PartsOK, EndOK, LatePC, Runs
<1> QED BY <1>3, <1>4, <1>5, <1>6, <1>7, <1>8, <1>9, <1>10 DEF PartsOK


\* The target has not terminated, and the joiner yields.
LEMMA PollYieldsKeeps ==
  ASSUME JoinInv, NEW u \in Thread, NEW e \in Xstream, On(u, e), JoinPoll(u, e), pc' = pc, goal' = goal, todo' = todo,
         YieldThread(u, e)
  PROVE  PartsOK'
<1>1. /\ pc[u] = "poll" /\ state' = [state EXCEPT ![u] = "READY"] /\ phase' = [phase EXCEPT ![e] = "ret"]
      /\ UNCHANGED <<request, lastES, pool, running, link, pc, goal, todo>>
  BY DEF JoinPoll, YieldThread, SwitchToSched
<1>2. /\ running[e] = u /\ phase[e] = "ult" /\ \A f \in Xstream : running[f] = u => f = e
      /\ lastES[u] = e /\ ~InPool(u) /\ state[u] = "RUNNING" /\ "BLOCK" \notin request[u]
      /\ \A w \in Thread : pc[w] = "push" => goal[w] # u
  BY <1>1, OnES
<1> USE <1>1, <1>2, Types, SamePools
<1>3. PoolOK' BY DEF JoinInv, PartsOK, PoolOK, RestPC
<1>4. RunOK'
  <2>1. OneRunner' BY DEF JoinInv, PartsOK, RunOK, OneRunner
  <2>2. ESOK(e)' BY DEF ESOK, EndPC
  <2>3. ASSUME NEW f \in Xstream, f # e PROVE ESOK(f)'
    <3>1. ESOK(f) /\ running[f] # u
      BY <2>3 DEF JoinInv, PartsOK, RunOK
    <3> QED BY <2>3, <3>1 DEF ESOK, EndPC
  <2> QED BY <2>1, <2>2, <2>3 DEF RunOK
<1>5. ReqOK' BY DEF JoinInv, PartsOK, ReqOK, EndPC
<1>6. PlaceOK' BY DEF JoinInv, PartsOK, PlaceOK, EndPC, On, Runs
<1>7. TodoOK' BY DEF JoinInv, PartsOK, TodoOK, JoinPC
<1>8. LinkOK' BY DEF JoinInv, PartsOK, LinkOK, Linked, LatePC
<1>9. BlockerOK' BY DEF JoinInv, PartsOK, BlockerOK, LatePC, On
<1>10. EndOK' BY DEF JoinInv, PartsOK, EndOK, LatePC, Runs
<1> QED BY <1>3, <1>4, <1>5, <1>6, <1>7, <1>8, <1>9, <1>10 DEF PartsOK

\* The joiner takes its target out of the pool and switches to it.  Nobody else has left a
\* context in the link, since nobody else may block; and the target is not in the middle of
\* a yield_to, since it would be so on the ES of the joiner.
LEMMA RunTargetKeeps ==
  ASSUME ProgramOK, JoinInv, NEW u \in Thread, NEW e \in Xstream, On(u, e), JoinRun(u, e)
  PROVE  PartsOK'
<1>1. PICK t : t = goal[u]
  OBVIOUS
<1>2. /\ pc[u] = "find" /\ pc' = [pc EXCEPT ![u] = "resume"] /\ InPool(t)
      /\ link' = [link EXCEPT ![t] = u] /\ lastES' = [lastES EXCEPT ![t] = e]
      /\ state' = [state EXCEPT ![t] = "RUNNING", ![u] = "BLOCKED"]
      /\ running' = [running EXCEPT ![e] = t]
      /\ pool' = [pool EXCEPT ![HomePool[u]] = RemoveFirst(@, t)]
      /\ UNCHANGED <<request, phase, goal, todo>>
  BY <1>1 DEF JoinRun, Goto, SwitchToThread
<1>3. /\ t \in Thread /\ t \in todo[u].join /\ t \in Program[u].join /\ t # u /\ Lone(u, t)
  BY <1>1, <1>2, Types DEF JoinInv, PartsOK, TodoOK, JoinPC
<1>4. /\ running[e] = u /\ phase[e] = "ult" /\ \A f \in Xstream : running[f] = u => f = e
      /\ lastES[u] = e /\ ~InPool(u) /\ state[u] = "RUNNING" /\ "BLOCK" \notin request[u]
      /\ \A w \in Thread : pc[w] = "push" => goal[w] # u
  BY <1>2, OnES
<1>5. /\ QueuedOnce' /\ AtHome' /\ \A v \in Thread : InPool(v)' <=> InPool(v) /\ v # t
  <2>1. pool' = [pool EXCEPT ![HomePool[t]] = RemoveFirst(@, t)]
    BY <1>2, <1>3 DEF Lone, SamePool
  <2> QED BY <2>1, <1>2, <1>3, Types, TakeLeaves DEF JoinInv, PartsOK, PoolOK
<1>6. \A v \in Thread, f \in Xstream : HomePool[v] = HomePool[u] /\ On(v, f) => v = u
  <2> SUFFICES ASSUME NEW v \in Thread, NEW f \in Xstream, HomePool[v] = HomePool[u], On(v, f)
               PROVE  v = u
    OBVIOUS
  <2>1. lastES[v] = f /\ lastES[u] = e /\ running[f] = v /\ running[e] = u
    BY <1>4 DEF JoinInv, PartsOK, RunOK, ESOK, On
  <2>2. Serves(f, HomePool[u]) /\ Serves(e, HomePool[u])
    BY <2>1, Types DEF JoinInv, PartsOK, PlaceOK
  <2> QED BY <2>1, <2>2, <1>3 DEF ProgramOK, Lone
<1>7. state[t] = "READY" /\ pc[t] \in RestPC /\ \A f \in Xstream : running[f] # t
  <2>1. /\ state[t] = "READY" /\ pc[t] \in RestPC \cup {"yield_to"}
        /\ \A f \in Xstream : running[f] = t => On(t, f)
        /\ pc[t] = "yield_to" => \E f \in Xstream : On(t, f)
    BY <1>2, <1>3 DEF JoinInv, PartsOK, PoolOK, PlaceOK, On
  <2> QED BY <2>1, <1>3, <1>6 DEF Lone, SamePool
<1>8. \A v \in Thread : t \in Program[v].join /\ MayBlock(v, t) => v = u
  BY <1>3 DEF ProgramOK
<1>9. link[t] = NoThread
  <2>1. PICK x : x = link[t]
    OBVIOUS
  <2> SUFFICES ASSUME x # NoThread PROVE FALSE
    BY <2>1
  <2>2. x # NoThread /\ x \in Thread
    BY <2>1, <1>3, Types
  <2>3. /\ t \in Program[x].join /\ MayBlock(x, t)
        /\ t \in todo[x].join => pc[x] \in {"suspend", "resume", "poll"}
    BY ONLY <2>1, <2>2, <1>3, JoinInv DEF JoinInv, PartsOK, LinkOK
  <2> QED BY <2>2, <2>3, <1>2, <1>3, <1>8
<1>10. /\ \A x \in Thread : pc[x] \in {"block", "link"} => goal[x] # t
       /\ \A x \in Thread : pc[x] = "yield_to" => goal[x] # t
  <2>1. ASSUME NEW x \in Thread, pc[x] \in {"block", "link"}, goal[x] = t PROVE FALSE
    <3>1. t \in Program[x].join /\ MayBlock(x, t)
      BY <2>1 DEF JoinInv, PartsOK, TodoOK, BlockerOK, JoinPC
    <3> QED BY <3>1, <2>1, <1>2, <1>8
  <2>2. ASSUME NEW x \in Thread, pc[x] = "yield_to", goal[x] = t PROVE FALSE
    <3>1. SamePool(x, t) /\ \E f \in Xstream : On(x, f)
      BY <2>2 DEF JoinInv, PartsOK, TodoOK, PlaceOK
    <3> QED BY <3>1, <2>2, <1>2, <1>3, <1>6 DEF Lone, SamePool
  <2> QED BY <2>1, <2>2
<1>11. MayBlock(u, t) /\ Serves(e, HomePool[t])
  BY <1>3, <1>4, OnES DEF Lone, MayBlock, SamePool
<1> USE <1>1, <1>2, <1>3, <1>4, <1>5, <1>6, <1>7, <1>8, <1>9, <1>10, <1>11, Types DEF RestPC
<1>12. PoolOK' BY DEF JoinInv, PartsOK, PoolOK, RestPC
<1>13. RunOK'
  <2>1. OneRunner' BY DEF JoinInv, PartsOK, RunOK, OneRunner
  <2>2. ESOK(e)' BY DEF ESOK, EndPC, JoinPC
  <2>3. ASSUME NEW f \in Xstream, f # e PROVE ESOK(f)'
    <3>1. ESOK(f) /\ running[f] # u
      BY <2>3 DEF JoinInv, PartsOK, RunOK
    <3> QED BY <2>3, <3>1 DEF ESOK, EndPC, JoinPC
  <2> QED BY <2>1, <2>2, <2>3 DEF RunOK
<1>14. ReqOK' BY DEF JoinInv, PartsOK, ReqOK, EndPC
<1>15. PlaceOK'
  <2>1. \A w \in Thread : pc[w] = "jump" => link[w] \in Thread /\ link[w] # t
    BY JumpTarget
  <2> QED BY <2>1 DEF JoinInv, PartsOK, PlaceOK, EndPC, On, Runs
<1>16. TodoOK' BY DEF JoinInv, PartsOK, TodoOK, JoinPC
<1>17. LinkOK' BY DEF JoinInv, PartsOK, LinkOK, Linked, LatePC
<1>18. BlockerOK' BY DEF JoinInv, PartsOK, BlockerOK, LatePC, On
<1>19. EndOK' BY DEF JoinInv, PartsOK, EndOK, LatePC, Runs
<1> QED BY <1>12, <1>13, <1>14, <1>15, <1>16, <1>17, <1>18, <1>19 DEF PartsOK

\* A ULT yields.
LEMMA YieldKeeps ==
  ASSUME JoinInv, NEW u \in Thread, NEW e \in Xstream, On(u, e), Yield(u, e)
  PROVE  PartsOK'
<1>1. /\ pc[u] = "run" /\ state' = [state EXCEPT ![u] = "READY"] /\ phase' = [phase EXCEPT ![e] = "ret"]
      /\ todo'[u].join = todo[u].join
      /\ todo'[u].cancel = todo[u].cancel /\ todo'[u].to = todo[u].to
      /\ todo'[u].revive = todo[u].revive
      /\ \A v \in Thread : v # u => todo'[v] = todo[v]
      /\ UNCHANGED <<request, lastES, pool, running, link, pc, goal>>
  BY Types DEF Yield, YieldThread, SwitchToSched, Todo
<1>2. /\ running[e] = u /\ phase[e] = "ult" /\ \A f \in Xstream : running[f] = u => f = e
      /\ lastES[u] = e /\ ~InPool(u) /\ state[u] = "RUNNING" /\ "BLOCK" \notin request[u]
      /\ \A w \in Thread : pc[w] = "push" => goal[w] # u
  BY <1>1, OnES
<1> USE <1>1, <1>2, Types, SamePools
<1>3. PoolOK' BY DEF JoinInv, PartsOK, PoolOK, RestPC
<1>4. RunOK'
  <2>1. OneRunner' BY DEF JoinInv, PartsOK, RunOK, OneRunner
  <2>2. ESOK(e)' BY DEF ESOK, EndPC
  <2>3. ASSUME NEW f \in Xstream, f # e PROVE ESOK(f)'
    <3>1. ESOK(f) /\ running[f] # u
      BY <2>3 DEF JoinInv, PartsOK, RunOK
    <3> QED BY <2>3, <3>1 DEF ESOK, EndPC
  <2> QED BY <2>1, <2>2, <2>3 DEF RunOK
<1>5. ReqOK' BY DEF JoinInv, PartsOK, ReqOK, EndPC
<1>6. PlaceOK' BY DEF JoinInv, PartsOK, PlaceOK, EndPC, On, Runs
<1>7. TodoOK'
  <2>1. \A v \in Thread : /\ todo'[v].join = todo[v].join /\ todo'[v].cancel = todo[v].cancel
                           /\ todo'[v].to = todo[v].to /\ todo'[v].revive = todo[v].revive
    OBVIOUS
  <2>2. TodoOK /\ pc' = pc /\ goal' = goal /\ \A v : InPool(v)' <=> InPool(v)
    BY DEF JoinInv, PartsOK
  <2> QED BY ONLY <2>1, <2>2 DEF TodoOK
<1>8. LinkOK' BY DEF JoinInv, PartsOK, LinkOK, Linked, LatePC
<1>9. BlockerOK' BY DEF JoinInv, PartsOK, BlockerOK, LatePC, On
<1>10. EndOK' BY DEF JoinInv, PartsOK, EndOK, LatePC, Runs
<1> QED BY <1>3, <1>4, <1>5, <1>6, <1>7, <1>8, <1>9, <1>10 DEF PartsOK

\* A ULT cancels another.
LEMMA CancelKeeps ==
  ASSUME JoinInv, NEW u \in Thread, NEW e \in Xstream, On(u, e), NEW t \in Thread, Cancel(u, t)
  PROVE  PartsOK'
<1>1. /\ pc[u] = "run" /\ t \in todo[u].cancel /\ request' = [request EXCEPT ![t] = @ \cup {"CANCEL"}]
      /\ todo'[u].cancel = todo[u].cancel \ {t}
      /\ todo'[u].join = todo[u].join /\ todo'[u].to = todo[u].to
      /\ todo'[u].revive = todo[u].revive
      /\ \A v \in Thread : v # u => todo'[v] = todo[v]
      /\ UNCHANGED <<state, lastES, pool, running, phase, link, pc, goal>>
  BY Types DEF Cancel, Todo
<1>2. \A v \in Thread : /\ \A r \in Request \ {"CANCEL"} : r \in request'[v] <=> r \in request[v]
                        /\ "CANCEL" \in request'[v] => v = t \/ "CANCEL" \in request[v]
  BY <1>1, Types
<1>3. t \in Program[u].cancel
  BY <1>1 DEF JoinInv, PartsOK, TodoOK
<1>4. /\ running[e] = u /\ phase[e] = "ult" /\ \A f \in Xstream : running[f] = u => f = e
      /\ lastES[u] = e /\ ~InPool(u) /\ state[u] = "RUNNING" /\ "BLOCK" \notin request[u]
      /\ \A w \in Thread : pc[w] = "push" => goal[w] # u
  BY <1>1, OnES
<1> USE <1>1, <1>2, <1>3, <1>4, Types, SamePools DEF Request
<1>5. PoolOK' BY DEF JoinInv, PartsOK, PoolOK, RestPC
<1>6. RunOK'
  <2>1. OneRunner' BY DEF JoinInv, PartsOK, RunOK, OneRunner
  <2>2. ESOK(e)' BY DEF ESOK, EndPC
  <2>3. ASSUME NEW f \in Xstream, f # e PROVE ESOK(f)'
    <3>1. ESOK(f) /\ running[f] # u
      BY <2>3 DEF JoinInv, PartsOK, RunOK
    <3> QED BY <2>3, <3>1 DEF ESOK, EndPC
  <2> QED BY <2>1, <2>2, <2>3 DEF RunOK
<1>7. ReqOK' BY DEF JoinInv, PartsOK, ReqOK, EndPC
<1>8. PlaceOK' BY DEF JoinInv, PartsOK, PlaceOK, EndPC, On, Runs
<1>9. TodoOK' BY DEF JoinInv, PartsOK, TodoOK, JoinPC, Lone, SamePool, OneConsumer
<1>10. LinkOK' BY DEF JoinInv, PartsOK, LinkOK, Linked, LatePC
<1>11. BlockerOK' BY DEF JoinInv, PartsOK, BlockerOK, LatePC, On
<1>12. EndOK' BY DEF JoinInv, PartsOK, EndOK, LatePC, Runs
<1> QED BY <1>5, <1>6, <1>7, <1>8, <1>9, <1>10, <1>11, <1>12 DEF PartsOK

\* A ULT exits.
LEMMA ExitKeeps ==
  ASSUME JoinInv, NEW u \in Thread, NEW e \in Xstream, On(u, e), Exit(u)
  PROVE  PartsOK'
<1>1. /\ pc[u] = "run" /\ pc' = [pc EXCEPT ![u] = "end"]
      /\ request' = [request EXCEPT ![u] = @ \cup {"EXIT"}]
      /\ UNCHANGED <<state, lastES, pool, running, phase, link, goal, todo>>
  BY DEF Exit, Goto
<1>2. \A v \in Thread : /\ \A r \in Request \ {"EXIT"} : r \in request'[v] <=> r \in request[v]
                        /\ "EXIT" \in request'[v] => v = u \/ "EXIT" \in request[v]
  BY <1>1, Types
<1>3. /\ running[e] = u /\ phase[e] = "ult" /\ \A f \in Xstream : running[f] = u => f = e
      /\ lastES[u] = e /\ ~InPool(u) /\ state[u] = "RUNNING" /\ "BLOCK" \notin request[u]
      /\ \A w \in Thread : pc[w] = "push" => goal[w] # u
  BY <1>1, OnES
<1> USE <1>1, <1>2, <1>3, Types, SamePools DEF Request
<1>4. PoolOK' BY DEF JoinInv, PartsOK, PoolOK, RestPC
<1>5. RunOK'
  <2>1. OneRunner' BY DEF JoinInv, PartsOK, RunOK, OneRunner
  <2>2. ESOK(e)' BY DEF ESOK, EndPC
  <2>3. ASSUME NEW f \in Xstream, f # e PROVE ESOK(f)'
    <3>1. ESOK(f) /\ running[f] # u
      BY <2>3 DEF JoinInv, PartsOK, RunOK
    <3> QED BY <2>3, <3>1 DEF ESOK, EndPC
  <2> QED BY <2>1, <2>2, <2>3 DEF RunOK
<1>6. ReqOK' BY DEF JoinInv, PartsOK, ReqOK, EndPC
<1>7. PlaceOK' BY DEF JoinInv, PartsOK, PlaceOK, EndPC, On, Runs
<1>8. TodoOK' BY DEF JoinInv, PartsOK, TodoOK, JoinPC
<1>9. LinkOK' BY DEF JoinInv, PartsOK, LinkOK, Linked, LatePC
<1>10. BlockerOK' BY DEF JoinInv, PartsOK, BlockerOK, LatePC, On
<1>11. EndOK' BY DEF JoinInv, PartsOK, EndOK, LatePC, Runs
<1> QED BY <1>4, <1>5, <1>6, <1>7, <1>8, <1>9, <1>10, <1>11 DEF PartsOK

\* A ULT pushes itself and is to yield to another, which is in a pool of this ES only.
LEMMA YieldToKeeps ==
  ASSUME ProgramOK, JoinInv, NEW u \in Thread, NEW e \in Xstream, On(u, e),
         NEW t \in Thread, YieldTo(u, t)
  PROVE  PartsOK'
<1>1. /\ pc[u] = "run" /\ pc' = [pc EXCEPT ![u] = "yield_to"] /\ goal' = [goal EXCEPT ![u] = t]
      /\ t \in todo[u].to /\ SamePool(u, t) /\ InPool(t)
      /\ state' = [state EXCEPT ![u] = "READY"] /\ Push(u)
      /\ todo'[u].to = todo[u].to \ {t}
      /\ todo'[u].join = todo[u].join /\ todo'[u].cancel = todo[u].cancel
      /\ todo'[u].revive = todo[u].revive
      /\ \A v \in Thread : v # u => todo'[v] = todo[v]
      /\ UNCHANGED <<request, lastES, running, phase, link>>
  BY Types DEF YieldTo, IsReady, MakeReady, Goto, Todo
<1>2. /\ running[e] = u /\ phase[e] = "ult" /\ \A f \in Xstream : running[f] = u => f = e
      /\ lastES[u] = e /\ ~InPool(u) /\ state[u] = "RUNNING" /\ "BLOCK" \notin request[u]
      /\ \A w \in Thread : pc[w] = "push" => goal[w] # u
  BY <1>1, OnES
<1>3. t # u /\ OneConsumer(u)
  <2>1. t \in Program[u].to
    BY <1>1 DEF JoinInv, PartsOK, TodoOK
  <2> QED BY <2>1, JoinAssumption DEF ProgramOK
<1>4. /\ QueuedOnce' /\ AtHome' /\ InPool(u)'
      /\ \A v \in Thread : v # u => (InPool(v)' <=> InPool(v))
  BY <1>1, <1>2, Types, PushAdds DEF JoinInv, PartsOK, PoolOK
<1> USE <1>1, <1>2, <1>3, <1>4, Types
<1>5. PoolOK' BY DEF JoinInv, PartsOK, PoolOK, RestPC
<1>6. RunOK'
  <2>1. OneRunner' BY DEF JoinInv, PartsOK, RunOK, OneRunner
  <2>2. ESOK(e)' BY DEF ESOK, EndPC
  <2>3. ASSUME NEW f \in Xstream, f # e PROVE ESOK(f)'
    <3>1. ESOK(f) /\ running[f] # u
      BY <2>3 DEF JoinInv, PartsOK, RunOK
    <3> QED BY <2>3, <3>1 DEF ESOK, EndPC
  <2> QED BY <2>1, <2>2, <2>3 DEF RunOK
<1>7. ReqOK' BY DEF JoinInv, PartsOK, ReqOK, EndPC
<1>8. PlaceOK' BY DEF JoinInv, PartsOK, PlaceOK, EndPC, On, Runs
<1>9. TodoOK' BY DEF JoinInv, PartsOK, TodoOK, JoinPC
<1>10. LinkOK' BY DEF JoinInv, PartsOK, LinkOK, Linked, LatePC
<1>11. BlockerOK' BY DEF JoinInv, PartsOK, BlockerOK, LatePC, On
<1>12. EndOK' BY DEF JoinInv, PartsOK, EndOK, LatePC, Runs
<1> QED BY <1>5, <1>6, <1>7, <1>8, <1>9, <1>10, <1>11, <1>12 DEF PartsOK

\* The ULT yields to its target, which nobody has taken from the pool meanwhile: no other ES
\* pops from it, and no other ULT of the pool is on this one.
LEMMA YieldToSwitchKeeps ==
  ASSUME ProgramOK, JoinInv, NEW u \in Thread, NEW e \in Xstream, On(u, e), YieldToSwitch(u, e)
  PROVE  PartsOK'
<1>1. PICK t : t = goal[u]
  OBVIOUS
<1>2. /\ pc[u] = "yield_to" /\ pc' = [pc EXCEPT ![u] = "run"] /\ goal' = [goal EXCEPT ![u] = NoThread]
      /\ InPool(t) /\ lastES' = [lastES EXCEPT ![t] = e]
      /\ state' = [state EXCEPT ![t] = "RUNNING"]
      /\ running' = [running EXCEPT ![e] = t]
      /\ pool' = [pool EXCEPT ![HomePool[u]] = RemoveFirst(@, t)]
      /\ UNCHANGED <<request, phase, link, todo>>
  BY <1>1 DEF YieldToSwitch, Goto, SwitchToThread
<1>3. /\ t \in Thread /\ t # u /\ SamePool(u, t) /\ OneConsumer(u)
  BY <1>1, <1>2, Types DEF JoinInv, PartsOK, TodoOK
<1>4. /\ running[e] = u /\ phase[e] = "ult" /\ \A f \in Xstream : running[f] = u => f = e
      /\ lastES[u] = e /\ InPool(u) /\ state[u] = "READY" /\ "BLOCK" \notin request[u]
      /\ \A w \in Thread : pc[w] = "push" => goal[w] # u
  <2>1. state[u] = "READY"
    BY <1>2, OnES DEF JoinInv, PartsOK, RunOK, ESOK
  <2> QED BY <1>2, <2>1, OnES
<1>5. /\ QueuedOnce' /\ AtHome' /\ \A v \in Thread : InPool(v)' <=> InPool(v) /\ v # t
  <2>1. pool' = [pool EXCEPT ![HomePool[t]] = RemoveFirst(@, t)]
    BY <1>2, <1>3 DEF SamePool
  <2> QED BY <2>1, <1>2, <1>3, Types, TakeLeaves DEF JoinInv, PartsOK, PoolOK
<1>6. \A v \in Thread, f \in Xstream : HomePool[v] = HomePool[u] /\ On(v, f) => v = u
  <2> SUFFICES ASSUME NEW v \in Thread, NEW f \in Xstream, HomePool[v] = HomePool[u], On(v, f)
               PROVE  v = u
    OBVIOUS
  <2>1. lastES[v] = f /\ lastES[u] = e /\ running[f] = v /\ running[e] = u
    BY <1>4 DEF JoinInv, PartsOK, RunOK, ESOK, On
  <2>2. Serves(f, HomePool[u]) /\ Serves(e, HomePool[u])
    BY <2>1, Types DEF JoinInv, PartsOK, PlaceOK
  <2> QED BY <2>1, <2>2, <1>3 DEF ProgramOK
<1>7. state[t] = "READY" /\ pc[t] \in RestPC /\ \A f \in Xstream : running[f] # t
  <2>1. /\ state[t] = "READY" /\ pc[t] \in RestPC \cup {"yield_to"}
        /\ \A f \in Xstream : running[f] = t => On(t, f)
        /\ pc[t] = "yield_to" => \E f \in Xstream : On(t, f)
    BY <1>2, <1>3 DEF JoinInv, PartsOK, PoolOK, PlaceOK, On
  <2> QED BY <2>1, <1>3, <1>6 DEF SamePool
<1>8. \A x \in Thread : pc[x] = "yield_to" /\ x # u => goal[x] # t
  <2> SUFFICES ASSUME NEW x \in Thread, pc[x] = "yield_to", x # u, goal[x] = t PROVE FALSE
    OBVIOUS
  <2>1. SamePool(x, t) /\ \E f \in Xstream : On(x, f)
    BY DEF JoinInv, PartsOK, TodoOK, PlaceOK
  <2> QED BY <2>1, <1>3, <1>6 DEF SamePool
<1>9. Serves(e, HomePool[t])
  BY <1>3, <1>4, OnES DEF SamePool
<1> USE <1>1, <1>2, <1>3, <1>4, <1>5, <1>6, <1>7, <1>8, <1>9, Types DEF RestPC
<1>10. PoolOK' BY DEF JoinInv, PartsOK, PoolOK, RestPC
<1>11. RunOK'
  <2>1. OneRunner' BY DEF JoinInv, PartsOK, RunOK, OneRunner
  <2>2. ESOK(e)' BY DEF ESOK, EndPC, JoinPC
  <2>3. ASSUME NEW f \in Xstream, f # e PROVE ESOK(f)'
    <3>1. ESOK(f) /\ running[f] # u
      BY <2>3 DEF JoinInv, PartsOK, RunOK
    <3> QED BY <2>3, <3>1 DEF ESOK, EndPC, JoinPC
  <2> QED BY <2>1, <2>2, <2>3 DEF RunOK
<1>12. ReqOK' BY DEF JoinInv, PartsOK, ReqOK, EndPC
<1>13. PlaceOK'
  <2>1. \A w \in Thread : pc[w] = "jump" => link[w] \in Thread /\ link[w] # t
    BY JumpTarget
  <2> QED BY <2>1 DEF JoinInv, PartsOK, PlaceOK, EndPC, On, Runs
<1>14. TodoOK' BY DEF JoinInv, PartsOK, TodoOK, JoinPC
<1>15. LinkOK' BY DEF JoinInv, PartsOK, LinkOK, Linked, LatePC
<1>16. BlockerOK' BY DEF JoinInv, PartsOK, BlockerOK, LatePC, On
<1>17. EndOK' BY DEF JoinInv, PartsOK, EndOK, LatePC, Runs
<1> QED BY <1>10, <1>11, <1>12, <1>13, <1>14, <1>15, <1>16, <1>17 DEF PartsOK

\* A ULT revives another.  It is the only one that joins that ULT, so nobody waits for its end.
LEMMA ReviveKeeps ==
  ASSUME ProgramOK, JoinInv, NEW u \in Thread, NEW e \in Xstream, On(u, e),
         NEW t \in Thread, Revive(u, t)
  PROVE  PartsOK'
<1>1. /\ pc[u] = "run" /\ state[t] = "TERMINATED"
      /\ t \in todo[u].revive \ todo[u].join
      /\ state' = [state EXCEPT ![t] = "READY"] /\ Push(t)
      /\ request' = [request EXCEPT ![t] = {}]
      /\ lastES' = [lastES EXCEPT ![t] = NoXstream]
      /\ link' = [link EXCEPT ![t] = NoThread]
      /\ pc' = [pc EXCEPT ![t] = "run"]
      /\ goal' = [goal EXCEPT ![t] = NoThread]
      /\ todo'[u].revive = todo[u].revive \ {t}
      /\ todo'[u].join = todo[u].join \cup {t}
      /\ todo'[u].to = todo[u].to /\ todo'[u].cancel = todo[u].cancel
      /\ \A v \in Thread : v # u => todo'[v] = todo[v]
      /\ UNCHANGED <<running, phase>>
  BY Types DEF Revive, MakeReady, Todo
<1>2. /\ running[e] = u /\ phase[e] = "ult" /\ \A f \in Xstream : running[f] = u => f = e
      /\ lastES[u] = e /\ ~InPool(u) /\ state[u] = "RUNNING" /\ "BLOCK" \notin request[u]
      /\ \A w \in Thread : pc[w] = "push" => goal[w] # u
  BY <1>1, OnES
<1>3. t \in Program[u].join /\ \A v \in Thread : t \in Program[v].join => v = u
  <2>1. t \in Program[u].revive
    BY <1>1 DEF JoinInv, PartsOK, TodoOK
  <2> QED BY <2>1 DEF ProgramOK
<1>4. /\ t # u /\ pc[t] = "done" /\ ~InPool(t) /\ \A f \in Xstream : running[f] # t
  <2>1. pc[t] # "jump"
    BY <1>2, <1>3, JumpTarget DEF Linked
  <2> QED BY <1>1, <1>2, <2>1 DEF JoinInv, PartsOK, PlaceOK, Runs
<1>5. /\ QueuedOnce' /\ AtHome' /\ InPool(t)'
      /\ \A v \in Thread : v # t => (InPool(v)' <=> InPool(v))
  BY <1>1, <1>4, Types, PushAdds DEF JoinInv, PartsOK, PoolOK
<1>6. \A v \in Thread : pc[v] \in JoinPC => goal[v] # t
  <2>1. \A v \in Thread : pc[v] \in JoinPC => goal[v] \in Program[v].join
    BY DEF JoinInv, PartsOK, TodoOK
  <2> QED BY <2>1, <1>1, <1>3 DEF JoinPC
<1> USE <1>1, <1>2, <1>3, <1>4, <1>5, <1>6, Types
<1>7. PoolOK' BY DEF JoinInv, PartsOK, PoolOK, RestPC
<1>8. RunOK'
  <2>1. OneRunner' BY DEF JoinInv, PartsOK, RunOK, OneRunner
  <2>2. ESOK(e)' BY DEF ESOK, EndPC, JoinPC
  <2>3. ASSUME NEW f \in Xstream, f # e PROVE ESOK(f)'
    <3>1. ESOK(f) /\ running[f] # u
      BY <2>3 DEF JoinInv, PartsOK, RunOK
    <3> QED BY <2>3, <3>1 DEF ESOK, EndPC, JoinPC
  <2> QED BY <2>1, <2>2, <2>3 DEF RunOK
<1>9. ReqOK' BY DEF JoinInv, PartsOK, ReqOK, EndPC
<1>10. PlaceOK'
  <2>1. \A w \in Thread : pc[w] = "jump" => link[w] \in Thread /\ link[w] # t
    BY JumpTarget DEF Linked
  <2> QED BY <2>1 DEF JoinInv, PartsOK, PlaceOK, EndPC, On, Runs
<1>11. TodoOK' BY DEF JoinInv, PartsOK, TodoOK, JoinPC
<1>12. LinkOK'
  <2> SUFFICES ASSUME NEW s \in Thread, NEW x \in Thread, link'[s] = x
               PROVE  /\ s \in Program[x].join /\ MayBlock(x, s)
                      /\ "JOIN" \in request'[s] \/ Lone(x, s)
                      /\ s \in todo'[x].join => goal'[x] = s /\ pc'[x] \in {"suspend", "resume", "poll"}
                      /\ pc'[s] \notin LatePC => Linked(x, s)'
    BY <1>1, Types DEF LinkOK
  <2>1. s # t /\ link[s] = x /\ request'[s] = request[s] /\ pc'[s] = pc[s]
    BY <1>1, Types
  <2>2. /\ s \in Program[x].join /\ MayBlock(x, s)
        /\ "JOIN" \in request[s] \/ Lone(x, s)
        /\ s \in todo[x].join => goal[x] = s /\ pc[x] \in {"suspend", "resume", "poll"}
        /\ pc[s] \notin LatePC => Linked(x, s)
    BY <2>1, Types DEF JoinInv, PartsOK, LinkOK
  <2>3. s \in todo'[x].join <=> s \in todo[x].join
    BY <1>1, <2>1
  <2>4. x = t => s \notin todo[x].join /\ pc[s] \in LatePC
    BY <1>1, <1>4, <2>2 DEF Linked
  <2>5. x # t => goal'[x] = goal[x] /\ pc'[x] = pc[x] /\ state'[x] = state[x]
    BY <1>1, Types
  <2> QED BY ONLY <2>1, <2>2, <2>3, <2>4, <2>5 DEF Linked
<1>13. BlockerOK' BY DEF JoinInv, PartsOK, BlockerOK, LatePC, On
<1>14. EndOK' BY DEF JoinInv, PartsOK, EndOK, LatePC, Runs
<1> QED BY <1>7, <1>8, <1>9, <1>10, <1>11, <1>12, <1>13, <1>14 DEF PartsOK

(***************************************************************************)
(* The end of a ULT.                                                       *)
(***************************************************************************)

\* A ULT that ends is on one ES, in its own context or, cancelled, in that of the scheduler.
LEMMA OnEnd ==
  ASSUME JoinInv, NEW u \in Thread, NEW e \in Xstream, running[e] = u, phase[e] \in {"ult", "cancel"},
         pc[u] \in EndPC \cup {"run"}
  PROVE  /\ \A f \in Xstream : running[f] = u => f = e
         /\ phase[e] = "cancel" => pc[u] # "run"
         /\ phase[e] = "ult" => state[u] = "RUNNING" /\ lastES[u] = e
         /\ phase[e] = "cancel" => state[u] = "READY"
         /\ ~InPool(u) /\ "BLOCK" \notin request[u]
         /\ \A w \in Thread : pc[w] = "push" => goal[w] # u
<1>1. Runs(u) /\ u # NoThread /\ \A f \in Xstream : running[f] = u => f = e
  BY Types DEF JoinInv, PartsOK, RunOK, OneRunner, Runs
<1>2. /\ phase[e] = "cancel" => pc[u] # "run"
      /\ phase[e] = "ult" => state[u] = "RUNNING" /\ lastES[u] = e
      /\ phase[e] = "cancel" => state[u] = "READY"
  BY DEF JoinInv, PartsOK, RunOK, ESOK, EndPC
<1>3. ~InPool(u)
  BY DEF JoinInv, PartsOK, PoolOK, EndPC
<1>4. "BLOCK" \notin request[u]
  BY <1>1 DEF JoinInv, PartsOK, ReqOK, EndPC
<1>5. \A w \in Thread : pc[w] = "push" => goal[w] # u
  BY <1>1 DEF JoinInv, PartsOK, EndOK
<1> QED
  BY <1>1, <1>2, <1>3, <1>4, <1>5

\* The joiner's context is on this ES: the ULT is TERMINATED, before it jumps there.
LEMMA EndLeavesKeeps ==
  ASSUME JoinInv, NEW u \in Thread, NEW e \in Xstream, running[e] = u, phase[e] = "ult",
         Ends(u), link[u] # NoThread, lastES[u] = lastES[link[u]],
         state' = [state EXCEPT ![u] = "TERMINATED"], Goto(u, "jump"), goal' = goal,
         UNCHANGED <<request, lastES, pool, numBlocked, running, phase, link, todo>>
  PROVE  PartsOK'
<1>1. /\ pc[u] \in {"run", "end"} /\ pc' = [pc EXCEPT ![u] = "jump"]
      /\ link[u] # NoThread /\ lastES[u] = lastES[link[u]]
      /\ state' = [state EXCEPT ![u] = "TERMINATED"]
      /\ UNCHANGED <<request, lastES, pool, running, phase, link, goal, todo>>
  BY DEF Ends, Goto
<1>2. /\ \A f \in Xstream : running[f] = u => f = e
      /\ running[e] = u /\ phase[e] = "ult"
      /\ state[u] = "RUNNING" /\ lastES[u] = e /\ ~InPool(u) /\ "BLOCK" \notin request[u]
      /\ \A w \in Thread : pc[w] = "push" => goal[w] # u
  BY <1>1, OnEnd DEF EndPC
<1> USE <1>1, <1>2, Types, SamePools
<1>3. PoolOK' BY DEF JoinInv, PartsOK, PoolOK, RestPC
<1>4. RunOK'
  <2>1. OneRunner' BY DEF JoinInv, PartsOK, RunOK, OneRunner
  <2>2. ESOK(e)' BY DEF ESOK, EndPC
  <2>3. ASSUME NEW f \in Xstream, f # e PROVE ESOK(f)'
    <3>1. ESOK(f) /\ running[f] # u
      BY <2>3 DEF JoinInv, PartsOK, RunOK
    <3> QED BY <2>3, <3>1 DEF ESOK, EndPC
  <2> QED BY <2>1, <2>2, <2>3 DEF RunOK
<1>5. ReqOK' BY DEF JoinInv, PartsOK, ReqOK, EndPC
<1>6. PlaceOK'
  <2>1. /\ state'[u] = "TERMINATED" /\ pc'[u] = "jump" /\ On(u, e)'
        /\ \A v \in Thread : v # u => state'[v] = state[v] /\ pc'[v] = pc[v]
    BY DEF On
  <2>2. \A v \in Thread, f \in Xstream : On(v, f)' <=> On(v, f)
    BY DEF On
  <2>3. \A v \in Thread : (InPool(v)' <=> InPool(v)) /\ (Runs(v)' <=> Runs(v))
    BY DEF Runs
  <2> SUFFICES ASSUME NEW v \in Thread PROVE PlaceOK!(v)'
    BY DEF PlaceOK
  <2>4. CASE v = u
    BY <2>1, <2>2, <2>3, <2>4 DEF JoinInv, PartsOK, PlaceOK, EndPC
  <2>5. CASE v # u
    BY <2>1, <2>2, <2>3, <2>5 DEF JoinInv, PartsOK, PlaceOK, EndPC
  <2> QED BY <2>4, <2>5
<1>7. TodoOK' BY DEF JoinInv, PartsOK, TodoOK, JoinPC
<1>8. LinkOK' BY DEF JoinInv, PartsOK, LinkOK, Linked, LatePC
<1>9. BlockerOK' BY DEF JoinInv, PartsOK, BlockerOK, LatePC, On
<1>10. EndOK' BY DEF JoinInv, PartsOK, EndOK, LatePC, Runs
<1> QED BY <1>3, <1>4, <1>5, <1>6, <1>7, <1>8, <1>9, <1>10 DEF PartsOK

\* The last step of the ULT: it jumps to its joiner.
LEMMA JumpKeeps ==
  ASSUME JoinInv, NEW u \in Thread, NEW e \in Xstream, running[e] = u, phase[e] \in {"ult", "cancel"},
         EndJump(u, e)
  PROVE  PartsOK'
<1>1. PICK x : x = link[u]
  OBVIOUS
<1>2. /\ pc[u] = "jump" /\ pc' = [pc EXCEPT ![u] = "done"]
      /\ running' = [running EXCEPT ![e] = x] /\ link[u] = x
      /\ UNCHANGED <<state, request, lastES, pool, phase, link, goal, todo>>
  BY <1>1 DEF EndJump, Goto, SwitchToThread
<1>3. /\ x \in Thread /\ x # u /\ Linked(x, u) /\ ~InPool(x)
      /\ \A f \in Xstream : running[f] # x
      /\ \E f \in Xstream : On(u, f) /\ lastES[x] = f
  BY <1>2, JumpTarget DEF Runs
<1>4. /\ \A f \in Xstream : running[f] = u => f = e
      /\ running[e] = u /\ phase[e] = "ult" /\ lastES[u] = e /\ lastES[x] = e
      /\ state[u] = "TERMINATED" /\ ~InPool(u) /\ "BLOCK" \notin request[u]
      /\ \A w \in Thread : pc[w] = "push" => goal[w] # u
  <2>1. PICK f \in Xstream : On(u, f) /\ lastES[x] = f
    BY <1>3
  <2>2. f = e
    BY <2>1, OnES
  <2> QED BY <1>2, <2>1, <2>2, OnES DEF JoinInv, PartsOK, PlaceOK
<1>5. /\ state[x] = "BLOCKED" /\ goal[x] = u
      /\ pc[x] = "resume" /\ "BLOCK" \notin request[x]
      /\ \A y \in Thread : pc[y] \in {"block", "link"} => goal[y] # u
      /\ \A w \in Thread : pc[w] = "push" => goal[w] # x
  <2>1. /\ \A y \in Thread : pc[y] \in {"block", "link"} => goal[y] # u
        /\ \A w \in Thread : pc[w] = "push" => goal[w] # x
    BY <1>2, <1>3, LinkedJoiner DEF LatePC
  <2>2. pc[x] # "suspend"
    BY <1>3 DEF JoinInv, PartsOK, PlaceOK, On
  <2> QED BY <1>3, <2>1, <2>2 DEF JoinInv, PartsOK, ReqOK, Linked
<1>6. /\ running'[e] = x /\ state'[x] = "BLOCKED" /\ pc'[x] = "resume" /\ goal'[x] = u
      /\ state'[u] = "TERMINATED" /\ lastES'[x] = e /\ phase'[e] = "ult"
  BY <1>2, <1>3, <1>4, <1>5, Types
<1> USE <1>1, <1>2, <1>3, <1>4, <1>5, <1>6, Types, SamePools
<1>7. PoolOK' BY DEF JoinInv, PartsOK, PoolOK, RestPC
<1>8. RunOK'
  <2>1. OneRunner' BY DEF JoinInv, PartsOK, RunOK, OneRunner
  <2>2. ESOK(e)' BY DEF ESOK, EndPC, JoinPC
  <2>3. ASSUME NEW f \in Xstream, f # e PROVE ESOK(f)'
    <3>1. ESOK(f) /\ running[f] # u
      BY <2>3 DEF JoinInv, PartsOK, RunOK
    <3> QED BY <2>3, <3>1 DEF ESOK, EndPC, JoinPC
  <2> QED BY <2>1, <2>2, <2>3 DEF RunOK
<1>9. ReqOK'
  <2>1. ASSUME NEW v \in Thread, "BLOCK" \in request[v]
        PROVE  \E f \in Xstream : /\ running'[f] = v
                                 /\ \/ phase'[f] = "ult" /\ pc'[v] \in {"link", "suspend"}
                                    \/ phase'[f] = "ret" /\ pc'[v] = "resume"
    <3>1. PICK f \in Xstream : /\ running[f] = v
                              /\ \/ phase[f] = "ult" /\ pc[v] \in {"link", "suspend"}
                                 \/ phase[f] = "ret" /\ pc[v] = "resume"
      BY <2>1 DEF JoinInv, PartsOK, ReqOK
    <3>2. v # u /\ f # e
      BY <2>1, <3>1
    <3> QED BY <3>1, <3>2
  <2>2. \A v \in Thread : "EXIT" \in request[v] \/ "TERMINATE" \in request[v] => pc'[v] \in EndPC \cup {"jump", "done"}
    BY DEF JoinInv, PartsOK, ReqOK
  <2> QED BY <2>1, <2>2 DEF JoinInv, PartsOK, ReqOK
<1>10. PlaceOK' BY DEF JoinInv, PartsOK, PlaceOK, EndPC, On, Runs
<1>11. TodoOK' BY DEF JoinInv, PartsOK, TodoOK, JoinPC
<1>12. LinkOK' BY DEF JoinInv, PartsOK, LinkOK, Linked, LatePC
<1>13. BlockerOK' BY DEF JoinInv, PartsOK, BlockerOK, LatePC, On
<1>14. EndOK' BY DEF JoinInv, PartsOK, EndOK, LatePC, Runs
<1> QED BY <1>7, <1>8, <1>9, <1>10, <1>11, <1>12, <1>13, <1>14 DEF PartsOK

\* The ULT is to wake the joiner in its link.
LEMMA EndWakesKeeps ==
  ASSUME JoinInv, NEW u \in Thread, NEW e \in Xstream, running[e] = u, phase[e] \in {"ult", "cancel"},
         Ends(u) \/ pc[u] = "wait_link", link[u] # NoThread,
         goal' = [goal EXCEPT ![u] = link[u]], Goto(u, "wake"),
         UNCHANGED <<state, request, lastES, pool, running, phase, link, todo>>
  PROVE  PartsOK'
<1>1. /\ pc[u] \in {"run", "end", "wait_link"} /\ pc' = [pc EXCEPT ![u] = "wake"]
      /\ link[u] # NoThread /\ goal' = [goal EXCEPT ![u] = link[u]]
      /\ UNCHANGED <<state, request, lastES, pool, running, phase, link, todo>>
  BY DEF Ends, Goto
<1>2. /\ \A f \in Xstream : running[f] = u => f = e
      /\ running[e] = u /\ phase[e] \in {"ult", "cancel"}
      /\ ~InPool(u) /\ "BLOCK" \notin request[u]
      /\ phase[e] = "ult" => state[u] = "RUNNING" /\ lastES[u] = e
      /\ phase[e] = "cancel" => state[u] = "READY"
      /\ \A w \in Thread : pc[w] = "push" => goal[w] # u
  BY <1>1, OnEnd DEF EndPC
<1>3. \A y \in Thread : pc[y] \in {"block", "link"} => goal[y] # u
  BY <1>1 DEF JoinInv, PartsOK, BlockerOK
<1> USE <1>1, <1>2, <1>3, Types, SamePools
<1>4. PoolOK' BY DEF JoinInv, PartsOK, PoolOK, RestPC
<1>5. RunOK'
  <2>1. OneRunner' BY DEF JoinInv, PartsOK, RunOK, OneRunner
  <2>2. ESOK(e)' BY DEF ESOK, EndPC
  <2>3. ASSUME NEW f \in Xstream, f # e PROVE ESOK(f)'
    <3>1. ESOK(f) /\ running[f] # u
      BY <2>3 DEF JoinInv, PartsOK, RunOK
    <3> QED BY <2>3, <3>1 DEF ESOK, EndPC
  <2> QED BY <2>1, <2>2, <2>3 DEF RunOK
<1>6. ReqOK' BY DEF JoinInv, PartsOK, ReqOK, EndPC
<1>7. PlaceOK' BY DEF JoinInv, PartsOK, PlaceOK, EndPC, On, Runs
<1>8. TodoOK' BY DEF JoinInv, PartsOK, TodoOK, JoinPC
<1>9. LinkOK' BY DEF JoinInv, PartsOK, LinkOK, Linked, LatePC
<1>10. BlockerOK' BY DEF JoinInv, PartsOK, BlockerOK, LatePC, On
<1>11. EndOK' BY DEF JoinInv, PartsOK, EndOK, LatePC, Runs
<1> QED BY <1>4, <1>5, <1>6, <1>7, <1>8, <1>9, <1>10, <1>11 DEF PartsOK

\* Nobody is in the link: the ULT is to wait for a joiner that has set the JOIN request, or to
\* stop, and has set that request itself.
LEMMA EndUnlinkedKeeps ==
  ASSUME JoinInv, NEW u \in Thread, NEW e \in Xstream, running[e] = u, phase[e] \in {"ult", "cancel"},
         EndUnlinked(u)
  PROVE  PartsOK'
<1>1. /\ pc[u] \in {"run", "end"} /\ link[u] = NoThread
      /\ pc' = [pc EXCEPT ![u] = IF "JOIN" \in request[u] THEN "wait_link" ELSE "stop"]
      /\ request' = [request EXCEPT ![u] = @ \cup {"JOIN", "TERMINATE"}]
      /\ UNCHANGED <<state, lastES, pool, running, phase, link, goal, todo>>
  BY DEF EndUnlinked, Ends, Goto
<1>2. /\ \A f \in Xstream : running[f] = u => f = e
      /\ running[e] = u /\ phase[e] \in {"ult", "cancel"}
      /\ ~InPool(u) /\ "BLOCK" \notin request[u]
      /\ phase[e] = "ult" => state[u] = "RUNNING" /\ lastES[u] = e
      /\ phase[e] = "cancel" => state[u] = "READY"
      /\ \A w \in Thread : pc[w] = "push" => goal[w] # u
  BY <1>1, OnEnd DEF EndPC
<1>3. /\ \A v \in Thread : \A r \in Request \ {"JOIN", "TERMINATE"} : r \in request'[v] <=> r \in request[v]
      /\ \A v \in Thread : "JOIN" \in request[v] => "JOIN" \in request'[v]
      /\ \A v \in Thread : "TERMINATE" \in request'[v] => v = u \/ "TERMINATE" \in request[v]
      /\ "JOIN" \in request'[u]
  BY <1>1, Types
<1>4. pc'[u] \in {"wait_link", "stop"} /\ \A v \in Thread : v # u => pc'[v] = pc[v]
  BY <1>1, Types
<1>5. \A y \in Thread : pc[y] \in {"block", "link"} /\ goal[y] = u => pc'[u] = "wait_link"
  BY <1>1, Types DEF JoinInv, PartsOK, BlockerOK
<1> USE <1>1, <1>2, <1>3, <1>4, <1>5, Types, SamePools DEF Request
<1>6. PoolOK' BY DEF JoinInv, PartsOK, PoolOK, RestPC
<1>7. RunOK'
  <2>1. OneRunner' BY DEF JoinInv, PartsOK, RunOK, OneRunner
  <2>2. ESOK(e)' BY DEF ESOK, EndPC
  <2>3. ASSUME NEW f \in Xstream, f # e PROVE ESOK(f)'
    <3>1. ESOK(f) /\ running[f] # u
      BY <2>3 DEF JoinInv, PartsOK, RunOK
    <3> QED BY <2>3, <3>1 DEF ESOK, EndPC
  <2> QED BY <2>1, <2>2, <2>3 DEF RunOK
<1>8. ReqOK' BY DEF JoinInv, PartsOK, ReqOK, EndPC
<1>9. PlaceOK' BY DEF JoinInv, PartsOK, PlaceOK, EndPC, On, Runs
<1>10. TodoOK' BY DEF JoinInv, PartsOK, TodoOK, JoinPC
<1>11. LinkOK' BY DEF JoinInv, PartsOK, LinkOK, Linked, LatePC
<1>12. BlockerOK' BY DEF JoinInv, PartsOK, BlockerOK, LatePC, On, JoinPC
<1>13. EndOK' BY DEF JoinInv, PartsOK, EndOK, LatePC, Runs
<1> QED BY <1>6, <1>7, <1>8, <1>9, <1>10, <1>11, <1>12, <1>13 DEF PartsOK

\* The joiner is BLOCKED, so set_ready will not fail.
LEMMA WakeChecksKeeps ==
  ASSUME JoinInv, NEW u \in Thread, NEW e \in Xstream, running[e] = u, phase[e] \in {"ult", "cancel"},
         WakeJoiner(u)
  PROVE  PartsOK'
<1>1. /\ pc[u] = "wake" /\ state[goal[u]] = "BLOCKED" /\ pc' = [pc EXCEPT ![u] = "set_ready"]
      /\ UNCHANGED <<state, request, lastES, pool, running, phase, link, goal, todo>>
  <2>1. pc[u] = "wake" /\ link[u] \in Thread /\ goal[u] = link[u] /\ state[u] # "TERMINATED"
    BY Types, OnEnd DEF WakeJoiner, EndPC, JoinInv, PartsOK, EndOK
  <2>2. state[goal[u]] = "BLOCKED"
    BY <2>1, LinkedJoiner DEF LatePC, Linked
  <2> QED BY <2>1, <2>2 DEF WakeJoiner, Goto, threadVars
<1>2. /\ \A f \in Xstream : running[f] = u => f = e
      /\ running[e] = u /\ phase[e] \in {"ult", "cancel"}
      /\ ~InPool(u) /\ "BLOCK" \notin request[u]
      /\ phase[e] = "ult" => state[u] = "RUNNING" /\ lastES[u] = e
      /\ phase[e] = "cancel" => state[u] = "READY"
      /\ \A w \in Thread : pc[w] = "push" => goal[w] # u
  BY <1>1, OnEnd DEF EndPC
<1> USE <1>1, <1>2, Types, SamePools
<1>3. PoolOK' BY DEF JoinInv, PartsOK, PoolOK, RestPC
<1>4. RunOK'
  <2>1. OneRunner' BY DEF JoinInv, PartsOK, RunOK, OneRunner
  <2>2. ESOK(e)' BY DEF ESOK, EndPC
  <2>3. ASSUME NEW f \in Xstream, f # e PROVE ESOK(f)'
    <3>1. ESOK(f) /\ running[f] # u
      BY <2>3 DEF JoinInv, PartsOK, RunOK
    <3> QED BY <2>3, <3>1 DEF ESOK, EndPC
  <2> QED BY <2>1, <2>2, <2>3 DEF RunOK
<1>5. ReqOK' BY DEF JoinInv, PartsOK, ReqOK, EndPC
<1>6. PlaceOK' BY DEF JoinInv, PartsOK, PlaceOK, EndPC, On, Runs
<1>7. TodoOK' BY DEF JoinInv, PartsOK, TodoOK, JoinPC
<1>8. LinkOK' BY DEF JoinInv, PartsOK, LinkOK, Linked, LatePC
<1>9. BlockerOK' BY DEF JoinInv, PartsOK, BlockerOK, LatePC, On
<1>10. EndOK' BY DEF JoinInv, PartsOK, EndOK, LatePC, Runs
<1> QED BY <1>3, <1>4, <1>5, <1>6, <1>7, <1>8, <1>9, <1>10 DEF PartsOK

\* The joiner is made READY, once its context is saved.
LEMMA WakeReadyKeeps ==
  ASSUME JoinInv, NEW u \in Thread, NEW e \in Xstream, running[e] = u, phase[e] \in {"ult", "cancel"},
         WakeReady(u)
  PROVE  PartsOK'
<1>1. PICK x : x = goal[u]
  OBVIOUS
<1>2. /\ pc[u] = "set_ready" /\ pc' = [pc EXCEPT ![u] = "push"] /\ "BLOCK" \notin request[x]
      /\ state' = [state EXCEPT ![x] = "READY"]
      /\ x \in Thread /\ goal[u] = x /\ link[u] = x
      /\ UNCHANGED <<request, lastES, pool, running, phase, link, goal, todo>>
  BY <1>1, Types DEF WakeReady, CanSetReady, Goto, JoinInv, PartsOK, EndOK
<1>3. /\ \A f \in Xstream : running[f] = u => f = e
      /\ running[e] = u /\ phase[e] \in {"ult", "cancel"}
      /\ ~InPool(u) /\ "BLOCK" \notin request[u]
      /\ phase[e] = "ult" => state[u] = "RUNNING" /\ lastES[u] = e
      /\ phase[e] = "cancel" => state[u] = "READY"
      /\ \A w \in Thread : pc[w] = "push" => goal[w] # u
  BY <1>2, OnEnd DEF EndPC
<1>4. /\ state[x] = "BLOCKED" /\ pc[x] \in {"suspend", "resume"} /\ goal[x] = u /\ x # u
      /\ ~InPool(x)
      /\ \A f \in Xstream : running[f] # x
      /\ \A y \in Thread : pc[y] \in {"block", "link"} => goal[y] # u
      /\ \A w \in Thread : pc[w] = "push" => goal[w] # x
  <2>1. pc[u] \notin LatePC /\ state[u] # "TERMINATED"
    BY <1>2, <1>3 DEF LatePC
  <2>2. /\ Linked(x, u) /\ x # u /\ ~InPool(x)
        /\ \A f \in Xstream : running[f] = x => "BLOCK" \in request[x]
        /\ \A y \in Thread : pc[y] \in {"block", "link"} => goal[y] # u
        /\ \A w \in Thread : pc[w] = "push" => goal[w] # x
    BY <1>2, <2>1, LinkedJoiner
  <2> QED BY <1>2, <2>2 DEF Linked
<1>5. pc[x] = "resume"
  BY <1>2, <1>4 DEF JoinInv, PartsOK, PlaceOK, On
<1> USE <1>1, <1>2, <1>3, <1>4, <1>5, Types, SamePools
<1>6. PoolOK' BY DEF JoinInv, PartsOK, PoolOK, RestPC
<1>7. RunOK'
  <2>1. OneRunner' BY DEF JoinInv, PartsOK, RunOK, OneRunner
  <2>2. ESOK(e)' BY DEF ESOK, EndPC, JoinPC
  <2>3. ASSUME NEW f \in Xstream, f # e PROVE ESOK(f)'
    <3>1. ESOK(f) /\ running[f] # u
      BY <2>3 DEF JoinInv, PartsOK, RunOK
    <3> QED BY <2>3, <3>1 DEF ESOK, EndPC, JoinPC
  <2> QED BY <2>1, <2>2, <2>3 DEF RunOK
<1>8. ReqOK' BY DEF JoinInv, PartsOK, ReqOK, EndPC
<1>9. PlaceOK' BY DEF JoinInv, PartsOK, PlaceOK, EndPC, On, Runs
<1>10. TodoOK' BY DEF JoinInv, PartsOK, TodoOK, JoinPC
<1>11. LinkOK' BY DEF JoinInv, PartsOK, LinkOK, Linked, LatePC
<1>12. BlockerOK' BY DEF JoinInv, PartsOK, BlockerOK, LatePC, On
<1>13. EndOK' BY DEF JoinInv, PartsOK, EndOK, LatePC, Runs
<1> QED BY <1>6, <1>7, <1>8, <1>9, <1>10, <1>11, <1>12, <1>13 DEF PartsOK

\* The joiner is pushed to its pool.  Nobody else is to push it, since it waits for one ULT.
LEMMA WakePushKeeps ==
  ASSUME JoinInv, NEW u \in Thread, NEW e \in Xstream, running[e] = u, phase[e] \in {"ult", "cancel"},
         WakePush(u)
  PROVE  PartsOK'
<1>1. PICK x : x = goal[u]
  OBVIOUS
<1>2. /\ pc[u] = "push" /\ pc' = [pc EXCEPT ![u] = "dec_blocked"] /\ Push(x)
      /\ x \in Thread /\ goal[u] = x /\ link[u] = x
      /\ UNCHANGED <<state, request, lastES, running, phase, link, goal, todo>>
  BY <1>1, Types DEF WakePush, Goto, JoinInv, PartsOK, EndOK
<1>3. /\ \A f \in Xstream : running[f] = u => f = e
      /\ running[e] = u /\ phase[e] \in {"ult", "cancel"}
      /\ ~InPool(u) /\ "BLOCK" \notin request[u]
      /\ phase[e] = "ult" => state[u] = "RUNNING" /\ lastES[u] = e
      /\ phase[e] = "cancel" => state[u] = "READY"
      /\ \A w \in Thread : pc[w] = "push" => goal[w] # u
  BY <1>2, OnEnd DEF EndPC
<1>4. /\ state[x] = "READY" /\ pc[x] = "resume" /\ goal[x] = u /\ x # u
      /\ ~InPool(x)
      /\ \A f \in Xstream : running[f] # x
      /\ \A w \in Thread : pc[w] = "push" /\ w # u => goal[w] # x
  BY <1>2, <1>3 DEF JoinInv, PartsOK, EndOK, Runs
<1>5. /\ QueuedOnce' /\ AtHome' /\ InPool(x)'
      /\ \A v \in Thread : v # x => (InPool(v)' <=> InPool(v))
  BY <1>2, <1>4, Types, PushAdds DEF JoinInv, PartsOK, PoolOK
<1> USE <1>1, <1>2, <1>3, <1>4, <1>5, Types
<1>6. PoolOK' BY DEF JoinInv, PartsOK, PoolOK, RestPC
<1>7. RunOK'
  <2>1. OneRunner' BY DEF JoinInv, PartsOK, RunOK, OneRunner
  <2>2. ESOK(e)' BY DEF ESOK, EndPC, JoinPC
  <2>3. ASSUME NEW f \in Xstream, f # e PROVE ESOK(f)'
    <3>1. ESOK(f) /\ running[f] # u
      BY <2>3 DEF JoinInv, PartsOK, RunOK
    <3> QED BY <2>3, <3>1 DEF ESOK, EndPC, JoinPC
  <2> QED BY <2>1, <2>2, <2>3 DEF RunOK
<1>8. ReqOK' BY DEF JoinInv, PartsOK, ReqOK, EndPC
<1>9. PlaceOK' BY DEF JoinInv, PartsOK, PlaceOK, EndPC, On, Runs
<1>10. TodoOK' BY DEF JoinInv, PartsOK, TodoOK, JoinPC
<1>11. LinkOK' BY DEF JoinInv, PartsOK, LinkOK, Linked, LatePC
<1>12. BlockerOK' BY DEF JoinInv, PartsOK, BlockerOK, LatePC, On
<1>13. EndOK' BY DEF JoinInv, PartsOK, EndOK, LatePC, Runs
<1> QED BY <1>6, <1>7, <1>8, <1>9, <1>10, <1>11, <1>12, <1>13 DEF PartsOK

\* The joiner is counted out of the blocked ULTs.
LEMMA WakeCountsKeeps ==
  ASSUME JoinInv, NEW u \in Thread, NEW e \in Xstream, running[e] = u, phase[e] \in {"ult", "cancel"},
         WakeDec(u)
  PROVE  PartsOK'
<1>1. /\ pc[u] = "dec_blocked" /\ pc' = [pc EXCEPT ![u] = "stop"]
      /\ UNCHANGED <<state, request, lastES, pool, running, phase, link, goal, todo>>
  BY DEF WakeDec, Goto
<1>2. /\ \A f \in Xstream : running[f] = u => f = e
      /\ running[e] = u /\ phase[e] \in {"ult", "cancel"}
      /\ ~InPool(u) /\ "BLOCK" \notin request[u]
      /\ phase[e] = "ult" => state[u] = "RUNNING" /\ lastES[u] = e
      /\ phase[e] = "cancel" => state[u] = "READY"
      /\ \A w \in Thread : pc[w] = "push" => goal[w] # u
  BY <1>1, OnEnd DEF EndPC
<1> USE <1>1, <1>2, Types, SamePools
<1>3. PoolOK' BY DEF JoinInv, PartsOK, PoolOK, RestPC
<1>4. RunOK'
  <2>1. OneRunner' BY DEF JoinInv, PartsOK, RunOK, OneRunner
  <2>2. ESOK(e)' BY DEF ESOK, EndPC
  <2>3. ASSUME NEW f \in Xstream, f # e PROVE ESOK(f)'
    <3>1. ESOK(f) /\ running[f] # u
      BY <2>3 DEF JoinInv, PartsOK, RunOK
    <3> QED BY <2>3, <3>1 DEF ESOK, EndPC
  <2> QED BY <2>1, <2>2, <2>3 DEF RunOK
<1>5. ReqOK' BY DEF JoinInv, PartsOK, ReqOK, EndPC
<1>6. PlaceOK' BY DEF JoinInv, PartsOK, PlaceOK, EndPC, On, Runs
<1>7. TodoOK' BY DEF JoinInv, PartsOK, TodoOK, JoinPC
<1>8. LinkOK' BY DEF JoinInv, PartsOK, LinkOK, Linked, LatePC
<1>9. BlockerOK' BY DEF JoinInv, PartsOK, BlockerOK, LatePC, On
<1>10. EndOK' BY DEF JoinInv, PartsOK, EndOK, LatePC, Runs
<1> QED BY <1>3, <1>4, <1>5, <1>6, <1>7, <1>8, <1>9, <1>10 DEF PartsOK

\* The ULT leaves to its scheduler.
LEMMA StopsKeeps ==
  ASSUME JoinInv, NEW u \in Thread, NEW e \in Xstream, running[e] = u, phase[e] = "ult",
         StopUlt(u, e)
  PROVE  PartsOK'
<1>1. /\ pc[u] = "stop" /\ pc' = [pc EXCEPT ![u] = "done"] /\ goal' = [goal EXCEPT ![u] = NoThread]
      /\ request' = [request EXCEPT ![u] = @ \cup {"TERMINATE"}]
      /\ phase' = [phase EXCEPT ![e] = "ret"]
      /\ UNCHANGED <<state, lastES, pool, running, link, todo>>
  BY DEF StopUlt, Goto, SwitchToSched
<1>2. /\ \A f \in Xstream : running[f] = u => f = e
      /\ running[e] = u /\ phase[e] = "ult"
      /\ ~InPool(u) /\ "BLOCK" \notin request[u]
      /\ state[u] = "RUNNING" /\ lastES[u] = e
      /\ \A w \in Thread : pc[w] = "push" => goal[w] # u
  BY <1>1, OnEnd DEF EndPC
<1>3. /\ \A v \in Thread : \A r \in Request \ {"TERMINATE"} : r \in request'[v] <=> r \in request[v]
      /\ \A v \in Thread : "TERMINATE" \in request'[v] => v = u \/ "TERMINATE" \in request[v]
      /\ "TERMINATE" \in request'[u]
  BY <1>1, Types
<1> USE <1>1, <1>2, <1>3, Types, SamePools DEF Request
<1>4. PoolOK' BY DEF JoinInv, PartsOK, PoolOK, RestPC
<1>5. RunOK'
  <2>1. OneRunner' BY DEF JoinInv, PartsOK, RunOK, OneRunner
  <2>2. ESOK(e)' BY DEF ESOK, EndPC
  <2>3. ASSUME NEW f \in Xstream, f # e PROVE ESOK(f)'
    <3>1. ESOK(f) /\ running[f] # u
      BY <2>3 DEF JoinInv, PartsOK, RunOK
    <3> QED BY <2>3, <3>1 DEF ESOK, EndPC
  <2> QED BY <2>1, <2>2, <2>3 DEF RunOK
<1>6. ReqOK' BY DEF JoinInv, PartsOK, ReqOK, EndPC
<1>7. PlaceOK' BY DEF JoinInv, PartsOK, PlaceOK, EndPC, On, Runs
<1>8. TodoOK' BY DEF JoinInv, PartsOK, TodoOK, JoinPC
<1>9. LinkOK' BY DEF JoinInv, PartsOK, LinkOK, Linked, LatePC
<1>10. BlockerOK' BY DEF JoinInv, PartsOK, BlockerOK, LatePC, On
<1>11. EndOK' BY DEF JoinInv, PartsOK, EndOK, LatePC, Runs
<1> QED BY <1>4, <1>5, <1>6, <1>7, <1>8, <1>9, <1>10, <1>11 DEF PartsOK

\* A cancelled ULT has terminated.
LEMMA CancelStopsKeeps ==
  ASSUME JoinInv, NEW u \in Thread, NEW e \in Xstream, running[e] = u, phase[e] = "cancel",
         StopUlt(u, e)
  PROVE  PartsOK'
<1>1. /\ pc[u] = "stop" /\ pc' = [pc EXCEPT ![u] = "done"] /\ goal' = [goal EXCEPT ![u] = NoThread]
      /\ state' = [state EXCEPT ![u] = "TERMINATED"]
      /\ running' = [running EXCEPT ![e] = NoThread] /\ phase' = [phase EXCEPT ![e] = "sched"]
      /\ UNCHANGED <<request, lastES, pool, link, todo>>
  BY DEF StopUlt, Goto, BackToSched
<1>2. /\ \A f \in Xstream : running[f] = u => f = e
      /\ running[e] = u /\ phase[e] = "cancel"
      /\ ~InPool(u) /\ "BLOCK" \notin request[u]
      /\ state[u] = "READY"
      /\ \A w \in Thread : pc[w] = "push" => goal[w] # u
  BY <1>1, OnEnd DEF EndPC
<1>3. /\ \A f \in Xstream : running'[f] # u
      /\ \A v \in Thread, f \in Xstream : v # u =>
           /\ running'[f] = v <=> running[f] = v
           /\ running[f] = v => phase'[f] = phase[f]
  BY <1>1, <1>2, Types
<1> USE <1>1, <1>2, <1>3, Types, SamePools
<1>4. PoolOK' BY DEF JoinInv, PartsOK, PoolOK, RestPC
<1>5. RunOK'
  <2>1. OneRunner' BY DEF JoinInv, PartsOK, RunOK, OneRunner
  <2>2. ESOK(e)' BY DEF ESOK, EndPC, JoinPC
  <2>3. ASSUME NEW f \in Xstream, f # e PROVE ESOK(f)'
    <3>1. ESOK(f) /\ running[f] # u
      BY <2>3 DEF JoinInv, PartsOK, RunOK
    <3> QED BY <2>3, <3>1 DEF ESOK, EndPC, JoinPC
  <2> QED BY <2>1, <2>2, <2>3 DEF RunOK
<1>6. ReqOK' BY DEF JoinInv, PartsOK, ReqOK, EndPC
<1>7. PlaceOK' BY DEF JoinInv, PartsOK, PlaceOK, EndPC, On, Runs
<1>8. TodoOK' BY DEF JoinInv, PartsOK, TodoOK, JoinPC
<1>9. LinkOK' BY DEF JoinInv, PartsOK, LinkOK, Linked, LatePC
<1>10. BlockerOK' BY DEF JoinInv, PartsOK, BlockerOK, LatePC, On
<1>11. EndOK' BY DEF JoinInv, PartsOK, EndOK, LatePC, Runs
<1> QED BY <1>4, <1>5, <1>6, <1>7, <1>8, <1>9, <1>10, <1>11 DEF PartsOK

(***************************************************************************)
(* The schedulers.                                                         *)
(***************************************************************************)

\* What the scheduler of an ES pops is on no ES.  It is not in the middle of a yield_to, which
\* it would be on the same ES; and no ULT is to yield to it.
LEMMA Popped ==
  ASSUME ProgramOK, JoinInv, NEW e \in Xstream, phase[e] = "sched", NEW p \in Pool, NextPool(e, p),
         pool' = [pool EXCEPT ![p] = Tail(@)]
  PROVE  LET u == Head(pool[p])
         IN  /\ u \in Thread /\ state[u] = "READY" /\ pc[u] \in RestPC
             /\ HomePool[u] = p /\ InPool(u) /\ Serves(e, HomePool[u])
             /\ \A f \in Xstream : running[f] # u
             /\ \A w \in Thread : pc[w] = "push" => goal[w] # u
             /\ \A w \in Thread : pc[w] = "yield_to" => goal[w] # u
             /\ QueuedOnce' /\ AtHome'
             /\ \A v \in Thread : InPool(v)' <=> InPool(v) /\ v # u
<1>1. PICK u : u = Head(pool[p])
  OBVIOUS
<1>2. pool[p] # <<>> /\ Serves(e, p)
  BY ThreadsAssumption, LenProperties DEF NextPool, Serves, Contains
<1>3. /\ u \in Thread /\ HomePool[u] = p /\ InPool(u)
      /\ QueuedOnce' /\ AtHome'
      /\ \A v \in Thread : InPool(v)' <=> InPool(v) /\ v # u
  BY <1>1, <1>2, Types, PopLeaves DEF JoinInv, PartsOK, PoolOK
<1>4. running[e] = NoThread
  BY DEF JoinInv, PartsOK, RunOK, ESOK
<1>5. \A v \in Thread : HomePool[v] = p /\ pc[v] = "yield_to" => FALSE
  <2> SUFFICES ASSUME NEW v \in Thread, HomePool[v] = p, pc[v] = "yield_to" PROVE FALSE
    OBVIOUS
  <2>1. PICK f \in Xstream : On(v, f)
    BY DEF JoinInv, PartsOK, PlaceOK
  <2>2. Serves(f, p) /\ OneConsumer(v)
    BY <2>1, OnES DEF JoinInv, PartsOK, TodoOK
  <2>3. f = e
    BY <2>2, <1>2 DEF ProgramOK
  <2> QED BY <2>1, <2>3 DEF On
<1>6. /\ state[u] = "READY" /\ pc[u] \in RestPC
      /\ \A f \in Xstream : running[f] # u
  BY <1>3, <1>5 DEF JoinInv, PartsOK, PoolOK
<1>7. \A w \in Thread : pc[w] = "push" => goal[w] # u
  BY <1>3 DEF JoinInv, PartsOK, EndOK
<1>8. \A w \in Thread : pc[w] = "yield_to" => goal[w] # u
  BY <1>3, <1>5 DEF JoinInv, PartsOK, TodoOK, SamePool
<1> QED
  BY <1>1, <1>2, <1>3, <1>6, <1>7, <1>8

\* The scheduler runs a unit.
LEMMA RunsKeeps ==
  ASSUME ProgramOK, JoinInv, NEW e \in Xstream, SchedRun(e), UNCHANGED localVars
  PROVE  PartsOK'
<1>1. PICK p \in Pool :
        /\ phase[e] = "sched" /\ NextPool(e, p)
        /\ "CANCEL" \notin request[Head(pool[p])]
        /\ running' = [running EXCEPT ![e] = Head(pool[p])]
        /\ state' = [state EXCEPT ![Head(pool[p])] = "RUNNING"]
        /\ lastES' = [lastES EXCEPT ![Head(pool[p])] = e]
        /\ pool' = [pool EXCEPT ![p] = Tail(@)]
        /\ phase' = [phase EXCEPT ![e] = "ult"]
  BY Zenon DEF SchedRun
<1>2. PICK u : u = Head(pool[p])
  OBVIOUS
<1>3. /\ phase[e] = "sched"
      /\ running' = [running EXCEPT ![e] = u] /\ state' = [state EXCEPT ![u] = "RUNNING"]
      /\ lastES' = [lastES EXCEPT ![u] = e] /\ phase' = [phase EXCEPT ![e] = "ult"]
      /\ UNCHANGED <<request, link, pc, goal, todo>>
  BY <1>1, <1>2 DEF SchedRun, localVars
<1>4. /\ u \in Thread /\ state[u] = "READY" /\ pc[u] \in RestPC
      /\ InPool(u) /\ Serves(e, HomePool[u])
      /\ \A f \in Xstream : running[f] # u
      /\ \A w \in Thread : pc[w] = "push" => goal[w] # u
      /\ \A w \in Thread : pc[w] = "yield_to" => goal[w] # u
      /\ QueuedOnce' /\ AtHome'
      /\ \A v \in Thread : InPool(v)' <=> InPool(v) /\ v # u
  BY <1>1, <1>2, Popped
<1>5. running[e] = NoThread /\ "BLOCK" \notin request[u]
  BY <1>3, <1>4 DEF JoinInv, PartsOK, RunOK, ESOK, ReqOK
<1>6. \A v \in Thread, f \in Xstream :
        running[f] = v => v # u /\ f # e /\ running'[f] = v /\ phase'[f] = phase[f]
  BY <1>3, <1>4, <1>5, Types
<1> USE <1>1, <1>2, <1>3, <1>4, <1>5, <1>6, Types DEF RestPC
<1>7. PoolOK' BY DEF JoinInv, PartsOK, PoolOK, RestPC
<1>8. RunOK'
  <2>1. OneRunner' BY DEF JoinInv, PartsOK, RunOK, OneRunner
  <2>2. ESOK(e)' BY DEF ESOK, EndPC, JoinPC
  <2>3. ASSUME NEW f \in Xstream, f # e PROVE ESOK(f)'
    <3>1. ESOK(f) /\ running[f] # u
      BY <2>3 DEF JoinInv, PartsOK, RunOK
    <3> QED BY <2>3, <3>1 DEF ESOK, EndPC, JoinPC
  <2> QED BY <2>1, <2>2, <2>3 DEF RunOK
<1>9. ReqOK' BY DEF JoinInv, PartsOK, ReqOK, EndPC
<1>10. PlaceOK'
  <2>1. \A w \in Thread : pc[w] = "jump" => link[w] \in Thread /\ link[w] # u
    BY JumpTarget
  <2> QED BY <2>1 DEF JoinInv, PartsOK, PlaceOK, EndPC, On, Runs
<1>11. TodoOK' BY DEF JoinInv, PartsOK, TodoOK, JoinPC
<1>12. LinkOK' BY DEF JoinInv, PartsOK, LinkOK, Linked, LatePC
<1>13. BlockerOK' BY DEF JoinInv, PartsOK, BlockerOK, LatePC, On
<1>14. EndOK' BY DEF JoinInv, PartsOK, EndOK, LatePC, Runs
<1> QED BY <1>7, <1>8, <1>9, <1>10, <1>11, <1>12, <1>13, <1>14 DEF PartsOK

\* Who joins nobody is in no link.
LEMMA NoJoiner ==
  ASSUME JoinInv, NEW u \in Thread, Program[u].join = {}
  PROVE  \A t \in Thread : link[t] # u
<1> SUFFICES ASSUME NEW t \in Thread, link[t] = u PROVE FALSE
  OBVIOUS
<1>1. PICK x : x = link[t]
  OBVIOUS
<1>2. x = u /\ x # NoThread
  BY <1>1, Types
<1>3. t \in Program[x].join
  BY <1>1, <1>2 DEF JoinInv, PartsOK, LinkOK
<1> QED
  BY <1>2, <1>3

\* The scheduler terminates a cancelled unit.
LEMMA CancelPopsKeeps ==
  ASSUME ProgramOK, JoinInv, NEW e \in Xstream, CancelPopped(e)
  PROVE  PartsOK'
<1>1. PICK p \in Pool :
        /\ phase[e] = "sched" /\ NextPool(e, p)
        /\ "CANCEL" \in request[Head(pool[p])]
        /\ running' = [running EXCEPT ![e] = Head(pool[p])]
        /\ pool' = [pool EXCEPT ![p] = Tail(@)]
        /\ phase' = [phase EXCEPT ![e] = "cancel"]
        /\ Goto(Head(pool[p]), "end")
  BY Zenon DEF CancelPopped
<1>2. PICK u : u = Head(pool[p])
  OBVIOUS
<1>3. /\ phase[e] = "sched" /\ "CANCEL" \in request[u]
      /\ running' = [running EXCEPT ![e] = u] /\ pc' = [pc EXCEPT ![u] = "end"]
      /\ phase' = [phase EXCEPT ![e] = "cancel"]
      /\ UNCHANGED <<state, request, lastES, link, goal, todo>>
  BY <1>1, <1>2 DEF CancelPopped, Goto
<1>4. /\ u \in Thread /\ state[u] = "READY" /\ pc[u] \in RestPC
      /\ InPool(u) /\ Serves(e, HomePool[u])
      /\ \A f \in Xstream : running[f] # u
      /\ \A w \in Thread : pc[w] = "push" => goal[w] # u
      /\ \A w \in Thread : pc[w] = "yield_to" => goal[w] # u
      /\ QueuedOnce' /\ AtHome'
      /\ \A v \in Thread : InPool(v)' <=> InPool(v) /\ v # u
  BY <1>1, <1>2, Popped
<1>5. /\ running[e] = NoThread /\ "BLOCK" \notin request[u]
      /\ Program[u].join = {} /\ \A t \in Thread : link[t] # u
  <2>1. running[e] = NoThread /\ "BLOCK" \notin request[u]
    BY <1>3, <1>4 DEF JoinInv, PartsOK, RunOK, ESOK, ReqOK
  <2>2. Program[u].join = {}
    BY <1>3, <1>4 DEF JoinInv, PartsOK, ReqOK, ProgramOK
  <2>3. \A t \in Thread : link[t] # u
    BY <2>2, <1>4, NoJoiner
  <2> QED BY <2>1, <2>2, <2>3
<1>6. \A v \in Thread, f \in Xstream :
        running[f] = v => v # u /\ f # e /\ running'[f] = v /\ phase'[f] = phase[f]
  BY <1>3, <1>4, <1>5, Types
<1> USE <1>1, <1>2, <1>3, <1>4, <1>5, <1>6, Types DEF RestPC
<1>7. PoolOK' BY DEF JoinInv, PartsOK, PoolOK, RestPC
<1>8. RunOK'
  <2>1. OneRunner' BY DEF JoinInv, PartsOK, RunOK, OneRunner
  <2>2. ESOK(e)' BY DEF ESOK, EndPC, JoinPC
  <2>3. ASSUME NEW f \in Xstream, f # e PROVE ESOK(f)'
    <3>1. ESOK(f) /\ running[f] # u
      BY <2>3 DEF JoinInv, PartsOK, RunOK
    <3> QED BY <2>3, <3>1 DEF ESOK, EndPC, JoinPC
  <2> QED BY <2>1, <2>2, <2>3 DEF RunOK
<1>9. ReqOK'
  <2>1. ASSUME NEW v \in Thread, "BLOCK" \in request[v]
        PROVE  \E f \in Xstream : /\ running'[f] = v
                                 /\ \/ phase'[f] = "ult" /\ pc'[v] \in {"link", "suspend"}
                                    \/ phase'[f] = "ret" /\ pc'[v] = "resume"
    <3>1. PICK f \in Xstream : /\ running[f] = v
                              /\ \/ phase[f] = "ult" /\ pc[v] \in {"link", "suspend"}
                                 \/ phase[f] = "ret" /\ pc[v] = "resume"
      BY <2>1 DEF JoinInv, PartsOK, ReqOK
    <3>2. v # u /\ f # e
      BY <2>1, <3>1
    <3> QED BY <3>1, <3>2
  <2>2. \A v \in Thread : "EXIT" \in request[v] \/ "TERMINATE" \in request[v] => pc'[v] \in EndPC \cup {"jump", "done"}
    BY DEF JoinInv, PartsOK, ReqOK, EndPC
  <2> QED BY <2>1, <2>2 DEF JoinInv, PartsOK, ReqOK
<1>10. PlaceOK' BY DEF JoinInv, PartsOK, PlaceOK, EndPC, On, Runs
<1>11. TodoOK' BY DEF JoinInv, PartsOK, TodoOK, JoinPC
<1>12. LinkOK' BY DEF JoinInv, PartsOK, LinkOK, Linked, LatePC
<1>13. BlockerOK' BY DEF JoinInv, PartsOK, BlockerOK, LatePC, On
<1>14. EndOK' BY DEF JoinInv, PartsOK, EndOK, LatePC, Runs
<1> QED BY <1>7, <1>8, <1>9, <1>10, <1>11, <1>12, <1>13, <1>14 DEF PartsOK

\* The scheduler is given back a cancelled ULT.
LEMMA CancelReturnsKeeps ==
  ASSUME ProgramOK, JoinInv, NEW e \in Xstream, CancelReturned(e)
  PROVE  PartsOK'
<1>1. PICK u : u = running[e]
  OBVIOUS
<1>2. /\ phase[e] = "ret" /\ "CANCEL" \in request[u] /\ request[u] \cap Stop = {}
      /\ pc' = [pc EXCEPT ![u] = "end"] /\ phase' = [phase EXCEPT ![e] = "cancel"]
      /\ running[e] = u /\ u \in Thread
      /\ UNCHANGED <<state, request, lastES, pool, running, link, goal, todo>>
  BY <1>1, Types DEF CancelReturned, Goto
<1>3. /\ Program[u].join = {} /\ \A t \in Thread : link[t] # u
      /\ \A f \in Xstream : running[f] = u => f = e
  <2>1. Program[u].join = {}
    BY <1>2 DEF JoinInv, PartsOK, ReqOK, ProgramOK
  <2>2. \A t \in Thread : link[t] # u
    BY <2>1, <1>2, NoJoiner
  <2>3. \A f \in Xstream : running[f] = u => f = e
    BY <1>2, Types DEF JoinInv, PartsOK, RunOK, OneRunner
  <2> QED BY <2>1, <2>2, <2>3
<1>4. state[u] = "READY" /\ pc[u] = "run" /\ ~InPool(u) /\ "BLOCK" \notin request[u]
  <2>1. pc[u] \notin JoinPC
    BY <1>2, <1>3 DEF JoinInv, PartsOK, TodoOK
  <2>2. state[u] = "READY" /\ pc[u] = "run"
    BY <1>2, <2>1 DEF JoinInv, PartsOK, RunOK, ESOK, JoinPC, Stop
  <2> QED BY <1>2, <1>3, <2>2 DEF JoinInv, PartsOK, PoolOK, ReqOK
<1>5. \A w \in Thread : pc[w] = "push" => goal[w] # u
  BY <1>4 DEF JoinInv, PartsOK, EndOK
<1> USE <1>1, <1>2, <1>3, <1>4, <1>5, Types, SamePools
<1>6. PoolOK' BY DEF JoinInv, PartsOK, PoolOK, RestPC
<1>7. RunOK'
  <2>1. OneRunner' BY DEF JoinInv, PartsOK, RunOK, OneRunner
  <2>2. ESOK(e)' BY DEF ESOK, EndPC, JoinPC
  <2>3. ASSUME NEW f \in Xstream, f # e PROVE ESOK(f)'
    <3>1. ESOK(f) /\ running[f] # u
      BY <2>3 DEF JoinInv, PartsOK, RunOK
    <3> QED BY <2>3, <3>1 DEF ESOK, EndPC, JoinPC
  <2> QED BY <2>1, <2>2, <2>3 DEF RunOK
<1>8. ReqOK'
  <2>1. ASSUME NEW v \in Thread, "BLOCK" \in request[v]
        PROVE  \E f \in Xstream : /\ running'[f] = v
                                 /\ \/ phase'[f] = "ult" /\ pc'[v] \in {"link", "suspend"}
                                    \/ phase'[f] = "ret" /\ pc'[v] = "resume"
    <3>1. PICK f \in Xstream : /\ running[f] = v
                              /\ \/ phase[f] = "ult" /\ pc[v] \in {"link", "suspend"}
                                 \/ phase[f] = "ret" /\ pc[v] = "resume"
      BY <2>1 DEF JoinInv, PartsOK, ReqOK
    <3>2. v # u /\ f # e
      BY <2>1, <3>1
    <3> QED BY <3>1, <3>2
  <2>2. \A v \in Thread : "EXIT" \in request[v] \/ "TERMINATE" \in request[v] => pc'[v] \in EndPC \cup {"jump", "done"}
    BY DEF JoinInv, PartsOK, ReqOK, EndPC
  <2> QED BY <2>1, <2>2 DEF JoinInv, PartsOK, ReqOK
<1>9. PlaceOK' BY DEF JoinInv, PartsOK, PlaceOK, EndPC, On, Runs
<1>10. TodoOK' BY DEF JoinInv, PartsOK, TodoOK, JoinPC
<1>11. LinkOK' BY DEF JoinInv, PartsOK, LinkOK, Linked, LatePC
<1>12. BlockerOK' BY DEF JoinInv, PartsOK, BlockerOK, LatePC, On
<1>13. EndOK' BY DEF JoinInv, PartsOK, EndOK, LatePC, Runs
<1> QED BY <1>6, <1>7, <1>8, <1>9, <1>10, <1>11, <1>12, <1>13 DEF PartsOK

\* The scheduler is given back a ULT that has ended.
LEMMA TerminatesKeeps ==
  ASSUME JoinInv, NEW e \in Xstream, ReturnTerminated(e), UNCHANGED localVars
  PROVE  PartsOK'
<1>1. PICK u : u = running[e]
  OBVIOUS
<1>2. /\ phase[e] = "ret" /\ request[u] \cap Stop # {}
      /\ state' = [state EXCEPT ![u] = "TERMINATED"]
      /\ running' = [running EXCEPT ![e] = NoThread] /\ phase' = [phase EXCEPT ![e] = "sched"]
      /\ running[e] = u /\ u \in Thread
      /\ UNCHANGED <<request, lastES, pool, pc, link, goal, todo>>
  BY <1>1, Types DEF ReturnTerminated, BackToSched, localVars
<1>3. /\ \A f \in Xstream : running[f] = u => f = e
      /\ pc[u] = "done" /\ state[u] = "RUNNING" /\ ~InPool(u) /\ "BLOCK" \notin request[u]
  <2>1. \A f \in Xstream : running[f] = u => f = e
    BY <1>2, Types DEF JoinInv, PartsOK, RunOK, OneRunner
  <2>2. pc[u] \in EndPC \cup {"jump", "done"}
    BY <1>2 DEF JoinInv, PartsOK, ReqOK, Stop
  <2>3. pc[u] = "done" /\ state[u] = "RUNNING"
    BY <1>2, <2>2 DEF JoinInv, PartsOK, RunOK, ESOK, EndPC
  <2> QED BY <1>2, <2>1, <2>3 DEF JoinInv, PartsOK, PoolOK, ReqOK
<1>4. \A w \in Thread : pc[w] = "push" => goal[w] # u
  BY <1>3 DEF JoinInv, PartsOK, EndOK
<1>5. /\ \A f \in Xstream : running'[f] # u
      /\ \A v \in Thread, f \in Xstream : v # u =>
           /\ running'[f] = v <=> running[f] = v
           /\ running[f] = v => phase'[f] = phase[f]
  BY <1>2, <1>3, Types
<1> USE <1>1, <1>2, <1>3, <1>4, <1>5, Types, SamePools
<1>6. PoolOK' BY DEF JoinInv, PartsOK, PoolOK, RestPC
<1>7. RunOK'
  <2>1. OneRunner' BY DEF JoinInv, PartsOK, RunOK, OneRunner
  <2>2. ESOK(e)' BY DEF ESOK, EndPC, JoinPC
  <2>3. ASSUME NEW f \in Xstream, f # e PROVE ESOK(f)'
    <3>1. ESOK(f) /\ running[f] # u
      BY <2>3 DEF JoinInv, PartsOK, RunOK
    <3> QED BY <2>3, <3>1 DEF ESOK, EndPC, JoinPC
  <2> QED BY <2>1, <2>2, <2>3 DEF RunOK
<1>8. ReqOK'
  <2>1. ASSUME NEW v \in Thread, "BLOCK" \in request[v]
        PROVE  \E f \in Xstream : /\ running'[f] = v
                                 /\ \/ phase'[f] = "ult" /\ pc'[v] \in {"link", "suspend"}
                                    \/ phase'[f] = "ret" /\ pc'[v] = "resume"
    <3>1. PICK f \in Xstream : /\ running[f] = v
                              /\ \/ phase[f] = "ult" /\ pc[v] \in {"link", "suspend"}
                                 \/ phase[f] = "ret" /\ pc[v] = "resume"
      BY <2>1 DEF JoinInv, PartsOK, ReqOK
    <3>2. v # u /\ f # e
      BY <2>1, <3>1
    <3> QED BY <3>1, <3>2
  <2>2. \A v \in Thread : "EXIT" \in request[v] \/ "TERMINATE" \in request[v] => pc'[v] \in EndPC \cup {"jump", "done"}
    BY DEF JoinInv, PartsOK, ReqOK, EndPC
  <2> QED BY <2>1, <2>2 DEF JoinInv, PartsOK, ReqOK
<1>9. PlaceOK' BY DEF JoinInv, PartsOK, PlaceOK, EndPC, On, Runs
<1>10. TodoOK' BY DEF JoinInv, PartsOK, TodoOK, JoinPC
<1>11. LinkOK' BY DEF JoinInv, PartsOK, LinkOK, Linked, LatePC
<1>12. BlockerOK' BY DEF JoinInv, PartsOK, BlockerOK, LatePC, On
<1>13. EndOK' BY DEF JoinInv, PartsOK, EndOK, LatePC, Runs
<1> QED BY <1>6, <1>7, <1>8, <1>9, <1>10, <1>11, <1>12, <1>13 DEF PartsOK

\* The scheduler is given back a ULT that has yielded, and pushes it.
LEMMA YieldedKeeps ==
  ASSUME JoinInv, NEW e \in Xstream, ReturnYielded(e), UNCHANGED localVars
  PROVE  PartsOK'
<1>1. PICK u : u = running[e]
  OBVIOUS
<1>2. /\ phase[e] = "ret" /\ request[u] \cap NonYield = {}
      /\ state' = [state EXCEPT ![u] = "READY"] /\ Push(u)
      /\ running' = [running EXCEPT ![e] = NoThread] /\ phase' = [phase EXCEPT ![e] = "sched"]
      /\ running[e] = u /\ u \in Thread
      /\ UNCHANGED <<request, lastES, pc, link, goal, todo>>
  BY <1>1, Types DEF ReturnYielded, GoesOn, MakeReady, BackToSched, localVars
<1>3. /\ \A f \in Xstream : running[f] = u => f = e
      /\ pc[u] \in {"run", "poll"} /\ state[u] = "READY" /\ ~InPool(u) /\ "BLOCK" \notin request[u]
  <2>1. \A f \in Xstream : running[f] = u => f = e
    BY <1>2, Types DEF JoinInv, PartsOK, RunOK, OneRunner
  <2>2. pc[u] \in {"run", "poll"} /\ state[u] = "READY"
    BY <1>2 DEF JoinInv, PartsOK, RunOK, ESOK, NonYield, Stop
  <2> QED BY <1>2, <2>1, <2>2 DEF JoinInv, PartsOK, PoolOK, ReqOK
<1>4. \A w \in Thread : pc[w] = "push" => goal[w] # u
  BY <1>3 DEF JoinInv, PartsOK, EndOK
<1>5. /\ \A f \in Xstream : running'[f] # u
      /\ \A v \in Thread, f \in Xstream : v # u =>
           /\ running'[f] = v <=> running[f] = v
           /\ running[f] = v => phase'[f] = phase[f]
  BY <1>2, <1>3, Types
<1>6. /\ QueuedOnce' /\ AtHome' /\ InPool(u)'
      /\ \A v \in Thread : v # u => (InPool(v)' <=> InPool(v))
  BY <1>2, <1>3, Types, PushAdds DEF JoinInv, PartsOK, PoolOK
<1> USE <1>1, <1>2, <1>3, <1>4, <1>5, <1>6, Types
<1>7. PoolOK' BY DEF JoinInv, PartsOK, PoolOK, RestPC
<1>8. RunOK'
  <2>1. OneRunner' BY DEF JoinInv, PartsOK, RunOK, OneRunner
  <2>2. ESOK(e)' BY DEF ESOK, EndPC, JoinPC
  <2>3. ASSUME NEW f \in Xstream, f # e PROVE ESOK(f)'
    <3>1. ESOK(f) /\ running[f] # u
      BY <2>3 DEF JoinInv, PartsOK, RunOK
    <3> QED BY <2>3, <3>1 DEF ESOK, EndPC, JoinPC
  <2> QED BY <2>1, <2>2, <2>3 DEF RunOK
<1>9. ReqOK' BY DEF JoinInv, PartsOK, ReqOK, EndPC
<1>10. PlaceOK' BY DEF JoinInv, PartsOK, PlaceOK, EndPC, On, Runs
<1>11. TodoOK' BY DEF JoinInv, PartsOK, TodoOK, JoinPC
<1>12. LinkOK' BY DEF JoinInv, PartsOK, LinkOK, Linked, LatePC
<1>13. BlockerOK' BY DEF JoinInv, PartsOK, BlockerOK, LatePC, On
<1>14. EndOK' BY DEF JoinInv, PartsOK, EndOK, LatePC, Runs
<1> QED BY <1>7, <1>8, <1>9, <1>10, <1>11, <1>12, <1>13, <1>14 DEF PartsOK

\* The scheduler takes note that a joiner has blocked.
LEMMA BlockedKeeps ==
  ASSUME JoinInv, NEW e \in Xstream, ReturnBlocked(e), UNCHANGED localVars
  PROVE  PartsOK'
<1>1. PICK u : u = running[e]
  OBVIOUS
<1>2. /\ phase[e] = "ret" /\ "BLOCK" \in request[u]
      /\ request' = [request EXCEPT ![u] = @ \ {"BLOCK"}]
      /\ running' = [running EXCEPT ![e] = NoThread] /\ phase' = [phase EXCEPT ![e] = "sched"]
      /\ running[e] = u /\ u \in Thread
      /\ UNCHANGED <<state, lastES, pool, pc, link, goal, todo>>
  BY <1>1, Types DEF ReturnBlocked, GoesOn, BackToSched, localVars
<1>3. /\ \A f \in Xstream : running[f] = u => f = e
      /\ pc[u] = "resume" /\ state[u] = "BLOCKED" /\ ~InPool(u)
  <2>1. \A f \in Xstream : running[f] = u => f = e
    BY <1>2, Types DEF JoinInv, PartsOK, RunOK, OneRunner
  <2>2. pc[u] = "resume"
    BY <1>2, <2>1 DEF JoinInv, PartsOK, ReqOK
  <2>3. state[u] = "BLOCKED"
    BY <1>2, <2>2 DEF JoinInv, PartsOK, RunOK, ESOK
  <2> QED BY <1>2, <2>1, <2>2, <2>3 DEF JoinInv, PartsOK, PoolOK
<1>4. \A w \in Thread : pc[w] = "push" => goal[w] # u
  BY <1>3 DEF JoinInv, PartsOK, EndOK
<1>5. /\ \A f \in Xstream : running'[f] # u
      /\ \A v \in Thread, f \in Xstream : v # u =>
           /\ running'[f] = v <=> running[f] = v
           /\ running[f] = v => phase'[f] = phase[f]
  BY <1>2, <1>3, Types
<1>6. /\ \A v \in Thread : \A r \in Request \ {"BLOCK"} : r \in request'[v] <=> r \in request[v]
      /\ \A v \in Thread : "BLOCK" \in request'[v] <=> "BLOCK" \in request[v] /\ v # u
  BY <1>2, Types
<1> USE <1>1, <1>2, <1>3, <1>4, <1>5, <1>6, Types, SamePools DEF Request
<1>7. PoolOK' BY DEF JoinInv, PartsOK, PoolOK, RestPC
<1>8. RunOK'
  <2>1. OneRunner' BY DEF JoinInv, PartsOK, RunOK, OneRunner
  <2>2. ESOK(e)' BY DEF ESOK, EndPC, JoinPC
  <2>3. ASSUME NEW f \in Xstream, f # e PROVE ESOK(f)'
    <3>1. ESOK(f) /\ running[f] # u
      BY <2>3 DEF JoinInv, PartsOK, RunOK
    <3> QED BY <2>3, <3>1 DEF ESOK, EndPC, JoinPC
  <2> QED BY <2>1, <2>2, <2>3 DEF RunOK
<1>9. ReqOK' BY DEF JoinInv, PartsOK, ReqOK, EndPC
<1>10. PlaceOK' BY DEF JoinInv, PartsOK, PlaceOK, EndPC, On, Runs
<1>11. TodoOK' BY DEF JoinInv, PartsOK, TodoOK, JoinPC
<1>12. LinkOK' BY DEF JoinInv, PartsOK, LinkOK, Linked, LatePC
<1>13. BlockerOK' BY DEF JoinInv, PartsOK, BlockerOK, LatePC, On
<1>14. EndOK' BY DEF JoinInv, PartsOK, EndOK, LatePC, Runs
<1> QED BY <1>7, <1>8, <1>9, <1>10, <1>11, <1>12, <1>13, <1>14 DEF PartsOK

(***************************************************************************)
(* The invariant.                                                          *)
(***************************************************************************)

\* The initial states satisfy the invariant: the pools hold each unit once, at home.
LEMMA JoinInit ==
  ASSUME Init
  PROVE  JoinInv
<1> USE ThreadsAssumption, JoinAssumption DEF Init, ThreadsInit
<1>1. TypeOK
  BY DEF TypeOK, ThreadsTypeOK, ThreadState, Phase, PC
<1>2. PoolOK
  BY DEF PoolOK, QueuedOnce, AtHome, InPool, RestPC
<1>3. RunOK
  BY DEF RunOK, ESOK, OneRunner
<1>4. ReqOK
  BY DEF ReqOK
<1>5. PlaceOK
  BY DEF PlaceOK, EndPC
<1>6. TodoOK
  BY DEF TodoOK, JoinPC, Todo
<1>7. LinkOK
  BY DEF LinkOK
<1>8. BlockerOK
  BY DEF BlockerOK
<1>9. EndOK
  BY DEF EndOK, LatePC
<1> QED
  BY <1>1, <1>2, <1>3, <1>4, <1>5, <1>6, <1>7, <1>8, <1>9 DEF JoinInv, PartsOK

\* A step that pushes a ULT, or takes one out of a pool, leaves sequences of ULTs.
LEMMA PoolTypes ==
  ASSUME JoinInv, NEW u \in Thread
  PROVE  /\ Push(u) => pool' \in [Pool -> Seq(Thread)]
         /\ InPool(u) /\ pool' = [pool EXCEPT ![HomePool[u]] = RemoveFirst(@, u)]
              => pool' \in [Pool -> Seq(Thread)]
<1>1. QueuedOnce /\ AtHome
  BY DEF JoinInv, PartsOK, PoolOK
<1> QED BY <1>1, Types, PushAdds, TakeLeaves

\* What is left of the programs after a call.
LEMMA TodoTypes ==
  ASSUME JoinInv, NEW u \in Thread, NEW t \in Thread
  PROVE  /\ [todo EXCEPT ![u].join = @ \ {goal[u]}] \in [Thread -> Todo]
         /\ [todo EXCEPT ![u].cancel = @ \ {t}] \in [Thread -> Todo]
         /\ [todo EXCEPT ![u].to = @ \ {t}] \in [Thread -> Todo]
         /\ [todo EXCEPT ![u].revive = @ \ {t}, ![u].join = @ \cup {t}] \in [Thread -> Todo]
         /\ todo[u].yield > 0 => [todo EXCEPT ![u].yield = @ - 1] \in [Thread -> Todo]
<1>1. PICK r \in Todo : r = todo[u]
  BY Types
<1>2. todo \in [Thread -> Todo]
  BY Types
<1>3. \A S \in SUBSET Thread : \A n \in Nat :
        /\ [r EXCEPT !.join = S] \in Todo
        /\ [r EXCEPT !.cancel = S] \in Todo
        /\ [r EXCEPT !.to = S] \in Todo
        /\ [r EXCEPT !.yield = n] \in Todo
        /\ r.join \in SUBSET Thread /\ r.cancel \in SUBSET Thread /\ r.to \in SUBSET Thread
        /\ r.revive \in SUBSET Thread /\ r.yield \in Nat
  BY DEF Todo
<1>4. /\ [r EXCEPT !.join = r.join \ {goal[u]}] \in Todo
      /\ [r EXCEPT !.cancel = r.cancel \ {t}] \in Todo
      /\ [r EXCEPT !.to = r.to \ {t}] \in Todo
      /\ r.yield > 0 => [r EXCEPT !.yield = r.yield - 1] \in Todo
  BY <1>3 DEF Todo
<1>5. [[r EXCEPT !.revive = r.revive \ {t}] EXCEPT !.join = r.join \cup {t}] \in Todo
  BY <1>3 DEF Todo
<1>6. [todo EXCEPT ![u].revive = @ \ {t}, ![u].join = @ \cup {t}]
        = [todo EXCEPT ![u] = [[r EXCEPT !.revive = r.revive \ {t}] EXCEPT !.join = r.join \cup {t}]]
  BY <1>1, <1>2
<1>7. [todo EXCEPT ![u].revive = @ \ {t}, ![u].join = @ \cup {t}] \in [Thread -> Todo]
  BY <1>2, <1>5, <1>6
<1> QED
  BY <1>1, <1>2, <1>4, <1>7

\* Who has a goal: whoever joins, yields to or wakes another ULT.
GoalPC == JoinPC \cup {"yield_to", "wake", "set_ready", "push", "dec_blocked"}

\* The types, and the goals.
LEMMA GoalTypes ==
  ASSUME JoinInv
  PROVE  /\ state \in [Thread -> ThreadState] /\ request \in [Thread -> SUBSET Request]
         /\ lastES \in [Thread -> Xstream \cup {NoXstream}]
         /\ pool \in [Pool -> Seq(Thread)] /\ numBlocked \in [Pool -> Int]
         /\ running \in [Xstream -> Thread \cup {NoThread}] /\ phase \in [Xstream -> Phase]
         /\ \A f \in Xstream : phase[f] # "sched" => running[f] # NoThread
         /\ link \in [Thread -> Thread \cup {NoThread}] /\ pc \in [Thread -> PC]
         /\ goal \in [Thread -> Thread \cup {NoThread}]
         /\ todo \in [Thread -> Todo]
         /\ \A u \in Thread : pc[u] \in GoalPC => goal[u] # NoThread
BY DEF JoinInv, TypeOK, ThreadsTypeOK, GoalPC, JoinPC

\* A call keeps the types.
LEMMA CallTypes ==
  ASSUME JoinInv, NEW u \in Thread, NEW e \in Xstream, On(u, e), Call(u, e)
  PROVE  TypeOK'
<1> USE ThreadsAssumption, JoinAssumption, GoalTypes
    DEF ThreadState, Phase, PC, Goto, threadVars, localVars, BackToSched, GoalPC, JoinPC
<1> u # NoThread /\ running[e] = u /\ phase[e] = "ult"
  BY DEF On
<1>1. ASSUME NEW t \in Thread, Join(u, t) PROVE TypeOK'
  <2>1. state' \in [Thread -> ThreadState] /\ request' \in [Thread -> SUBSET Request]
    BY <1>1 DEF Join
  <2>2. lastES' \in [Thread -> Xstream \cup {NoXstream}]
    BY <1>1 DEF Join
  <2>3. pool' \in [Pool -> Seq(Thread)] /\ numBlocked' \in [Pool -> Int]
    BY <1>1 DEF Join
  <2>4. running' \in [Xstream -> Thread \cup {NoThread}] /\ phase' \in [Xstream -> Phase]
    BY <1>1 DEF Join
  <2>5. \A f \in Xstream : phase'[f] # "sched" => running'[f] # NoThread
    BY <1>1 DEF Join
  <2>6. link' \in [Thread -> Thread \cup {NoThread}] /\ pc' \in [Thread -> PC]
    BY <1>1 DEF Join
  <2>7. goal' \in [Thread -> Thread \cup {NoThread}]
    BY <1>1 DEF Join
  <2>8. todo' \in [Thread -> Todo]
    BY <1>1 DEF Join
  <2>9. \A v \in Thread : pc'[v] \in GoalPC => goal'[v] # NoThread
    BY <1>1 DEF Join
  <2> QED BY <2>1, <2>2, <2>3, <2>4, <2>5, <2>6, <2>7, <2>8, <2>9 DEF TypeOK, ThreadsTypeOK, GoalPC
<1>2. ASSUME NEW t \in Thread, Cancel(u, t) PROVE TypeOK'
  <2>1. state' \in [Thread -> ThreadState] /\ request' \in [Thread -> SUBSET Request]
    BY <1>2 DEF Cancel, Request, Todo
  <2>2. lastES' \in [Thread -> Xstream \cup {NoXstream}]
    BY <1>2 DEF Cancel, Request, Todo
  <2>3. pool' \in [Pool -> Seq(Thread)] /\ numBlocked' \in [Pool -> Int]
    BY <1>2 DEF Cancel, Request, Todo
  <2>4. running' \in [Xstream -> Thread \cup {NoThread}] /\ phase' \in [Xstream -> Phase]
    BY <1>2 DEF Cancel, Request, Todo
  <2>5. \A f \in Xstream : phase'[f] # "sched" => running'[f] # NoThread
    BY <1>2 DEF Cancel, Request, Todo
  <2>6. link' \in [Thread -> Thread \cup {NoThread}] /\ pc' \in [Thread -> PC]
    BY <1>2 DEF Cancel, Request, Todo
  <2>7. goal' \in [Thread -> Thread \cup {NoThread}]
    BY <1>2 DEF Cancel, Request, Todo
  <2>8. todo' \in [Thread -> Todo]
    BY <1>2, TodoTypes DEF Cancel, Request
  <2>9. \A v \in Thread : pc'[v] \in GoalPC => goal'[v] # NoThread
    BY <1>2 DEF Cancel, Request, Todo
  <2> QED BY <2>1, <2>2, <2>3, <2>4, <2>5, <2>6, <2>7, <2>8, <2>9 DEF TypeOK, ThreadsTypeOK, GoalPC
<1>3. ASSUME NEW t \in Thread, Revive(u, t) PROVE TypeOK'
  <2>1. state' \in [Thread -> ThreadState] /\ request' \in [Thread -> SUBSET Request]
    BY <1>3, PoolTypes DEF Revive, MakeReady, Todo
  <2>2. lastES' \in [Thread -> Xstream \cup {NoXstream}]
    BY <1>3, PoolTypes DEF Revive, MakeReady, Todo
  <2>3. pool' \in [Pool -> Seq(Thread)] /\ numBlocked' \in [Pool -> Int]
    BY <1>3, PoolTypes DEF Revive, MakeReady, Todo
  <2>4. running' \in [Xstream -> Thread \cup {NoThread}] /\ phase' \in [Xstream -> Phase]
    BY <1>3, PoolTypes DEF Revive, MakeReady, Todo
  <2>5. \A f \in Xstream : phase'[f] # "sched" => running'[f] # NoThread
    BY <1>3, PoolTypes DEF Revive, MakeReady, Todo
  <2>6. link' \in [Thread -> Thread \cup {NoThread}] /\ pc' \in [Thread -> PC]
    BY <1>3, PoolTypes DEF Revive, MakeReady, Todo
  <2>7. goal' \in [Thread -> Thread \cup {NoThread}]
    BY <1>3, PoolTypes DEF Revive, MakeReady, Todo
  <2>8. todo' \in [Thread -> Todo]
    <3>1. todo' = [todo EXCEPT ![u].revive = @ \ {t}, ![u].join = @ \cup {t}]
      BY ONLY <1>3 DEF Revive
    <3>2. [todo EXCEPT ![u].revive = @ \ {t}, ![u].join = @ \cup {t}] \in [Thread -> Todo]
      <4>1. JoinInv
        OBVIOUS
      <4> QED BY ONLY <4>1, TodoTypes
    <3> QED BY ONLY <3>1, <3>2
  <2>9. \A v \in Thread : pc'[v] \in GoalPC => goal'[v] # NoThread
    BY <1>3, PoolTypes DEF Revive, MakeReady, Todo
  <2> QED BY <2>1, <2>2, <2>3, <2>4, <2>5, <2>6, <2>7, <2>8, <2>9 DEF TypeOK, ThreadsTypeOK, GoalPC
<1>4. ASSUME NEW t \in Thread, YieldTo(u, t) PROVE TypeOK'
  <2>1. state' \in [Thread -> ThreadState] /\ request' \in [Thread -> SUBSET Request]
    BY <1>4, PoolTypes DEF YieldTo, IsReady, MakeReady, Todo
  <2>2. lastES' \in [Thread -> Xstream \cup {NoXstream}]
    BY <1>4, PoolTypes DEF YieldTo, IsReady, MakeReady, Todo
  <2>3. pool' \in [Pool -> Seq(Thread)] /\ numBlocked' \in [Pool -> Int]
    BY <1>4, PoolTypes DEF YieldTo, IsReady, MakeReady, Todo
  <2>4. running' \in [Xstream -> Thread \cup {NoThread}] /\ phase' \in [Xstream -> Phase]
    BY <1>4, PoolTypes DEF YieldTo, IsReady, MakeReady, Todo
  <2>5. \A f \in Xstream : phase'[f] # "sched" => running'[f] # NoThread
    BY <1>4, PoolTypes DEF YieldTo, IsReady, MakeReady, Todo
  <2>6. link' \in [Thread -> Thread \cup {NoThread}] /\ pc' \in [Thread -> PC]
    BY <1>4, PoolTypes DEF YieldTo, IsReady, MakeReady, Todo
  <2>7. goal' \in [Thread -> Thread \cup {NoThread}]
    BY <1>4, PoolTypes DEF YieldTo, IsReady, MakeReady, Todo
  <2>8. todo' \in [Thread -> Todo]
    BY <1>4, TodoTypes DEF YieldTo, MakeReady
  <2>9. \A v \in Thread : pc'[v] \in GoalPC => goal'[v] # NoThread
    BY <1>4, PoolTypes DEF YieldTo, IsReady, MakeReady, Todo
  <2> QED BY <2>1, <2>2, <2>3, <2>4, <2>5, <2>6, <2>7, <2>8, <2>9 DEF TypeOK, ThreadsTypeOK, GoalPC
<1>5. CASE JoinTerminated(u)
  <2>1. state' \in [Thread -> ThreadState] /\ request' \in [Thread -> SUBSET Request]
    BY <1>5 DEF JoinTerminated, Joined, Todo
  <2>2. lastES' \in [Thread -> Xstream \cup {NoXstream}]
    BY <1>5 DEF JoinTerminated, Joined, Todo
  <2>3. pool' \in [Pool -> Seq(Thread)] /\ numBlocked' \in [Pool -> Int]
    BY <1>5 DEF JoinTerminated, Joined, Todo
  <2>4. running' \in [Xstream -> Thread \cup {NoThread}] /\ phase' \in [Xstream -> Phase]
    BY <1>5 DEF JoinTerminated, Joined, Todo
  <2>5. \A f \in Xstream : phase'[f] # "sched" => running'[f] # NoThread
    BY <1>5 DEF JoinTerminated, Joined, Todo
  <2>6. link' \in [Thread -> Thread \cup {NoThread}] /\ pc' \in [Thread -> PC]
    BY <1>5 DEF JoinTerminated, Joined, Todo
  <2>7. goal' \in [Thread -> Thread \cup {NoThread}]
    BY <1>5 DEF JoinTerminated, Joined, Todo
  <2>8. todo' \in [Thread -> Todo]
    BY <1>5, TodoTypes DEF JoinTerminated, Joined
  <2>9. \A v \in Thread : pc'[v] \in GoalPC => goal'[v] # NoThread
    BY <1>5 DEF JoinTerminated, Joined, Todo
  <2> QED BY <2>1, <2>2, <2>3, <2>4, <2>5, <2>6, <2>7, <2>8, <2>9 DEF TypeOK, ThreadsTypeOK, GoalPC
<1>6. ASSUME NEW l \in {"find", "poll", "block"}, pc[u] = "join", Goto(u, l),
            request' \in [Thread -> SUBSET Request],
            UNCHANGED <<state, lastES, pool, numBlocked, running, phase, link, goal, todo>>
     PROVE  TypeOK'
  <2>1. state' \in [Thread -> ThreadState] /\ request' \in [Thread -> SUBSET Request]
    BY <1>6 DEF Request
  <2>2. lastES' \in [Thread -> Xstream \cup {NoXstream}]
    BY <1>6 DEF Request
  <2>3. pool' \in [Pool -> Seq(Thread)] /\ numBlocked' \in [Pool -> Int]
    BY <1>6 DEF Request
  <2>4. running' \in [Xstream -> Thread \cup {NoThread}] /\ phase' \in [Xstream -> Phase]
    BY <1>6 DEF Request
  <2>5. \A f \in Xstream : phase'[f] # "sched" => running'[f] # NoThread
    BY <1>6 DEF Request
  <2>6. link' \in [Thread -> Thread \cup {NoThread}] /\ pc' \in [Thread -> PC]
    BY <1>6 DEF Request
  <2>7. goal' \in [Thread -> Thread \cup {NoThread}]
    BY <1>6 DEF Request
  <2>8. todo' \in [Thread -> Todo]
    BY <1>6 DEF Request
  <2>9. \A v \in Thread : pc'[v] \in GoalPC => goal'[v] # NoThread
    BY <1>6 DEF Request
  <2> QED BY <2>1, <2>2, <2>3, <2>4, <2>5, <2>6, <2>7, <2>8, <2>9 DEF TypeOK, ThreadsTypeOK, GoalPC
<1>7. CASE JoinRun(u, e)
  <2>1. PICK t : t = goal[u]
    OBVIOUS
  <2>2. t \in Thread /\ SamePool(u, t)
    BY <1>7, <2>1 DEF JoinRun, JoinInv, PartsOK, TodoOK, Lone
  <2>3. pool' \in [Pool -> Seq(Thread)]
    BY <1>7, <2>1, <2>2, PoolTypes DEF JoinRun, SamePool
  <2>4. state' \in [Thread -> ThreadState] /\ request' \in [Thread -> SUBSET Request]
    BY <1>7, <2>1, <2>2, <2>3 DEF JoinRun, SwitchToThread
  <2>5. lastES' \in [Thread -> Xstream \cup {NoXstream}]
    BY <1>7, <2>1, <2>2, <2>3 DEF JoinRun, SwitchToThread
  <2>6. pool' \in [Pool -> Seq(Thread)] /\ numBlocked' \in [Pool -> Int]
    BY <1>7, <2>1, <2>2, <2>3 DEF JoinRun, SwitchToThread
  <2>7. running' \in [Xstream -> Thread \cup {NoThread}] /\ phase' \in [Xstream -> Phase]
    BY <1>7, <2>1, <2>2, <2>3 DEF JoinRun, SwitchToThread
  <2>8. \A f \in Xstream : phase'[f] # "sched" => running'[f] # NoThread
    BY <1>7, <2>1, <2>2, <2>3 DEF JoinRun, SwitchToThread
  <2>9. link' \in [Thread -> Thread \cup {NoThread}] /\ pc' \in [Thread -> PC]
    BY <1>7, <2>1, <2>2, <2>3 DEF JoinRun, SwitchToThread
  <2>10. goal' \in [Thread -> Thread \cup {NoThread}]
    BY <1>7, <2>1, <2>2, <2>3 DEF JoinRun, SwitchToThread
  <2>11. todo' \in [Thread -> Todo]
    BY <1>7, <2>1, <2>2, <2>3 DEF JoinRun, SwitchToThread
  <2>12. \A v \in Thread : pc'[v] \in GoalPC => goal'[v] # NoThread
    BY <1>7, <2>1, <2>2, <2>3 DEF JoinRun, SwitchToThread
  <2> QED BY <2>4, <2>5, <2>6, <2>7, <2>8, <2>9, <2>10, <2>11, <2>12 DEF TypeOK, ThreadsTypeOK, GoalPC
<1>8. CASE JoinBlock(u)
  <2>1. state' \in [Thread -> ThreadState] /\ request' \in [Thread -> SUBSET Request]
    BY <1>8 DEF JoinBlock, SetBlocked, Request
  <2>2. lastES' \in [Thread -> Xstream \cup {NoXstream}]
    BY <1>8 DEF JoinBlock, SetBlocked, Request
  <2>3. pool' \in [Pool -> Seq(Thread)] /\ numBlocked' \in [Pool -> Int]
    BY <1>8 DEF JoinBlock, SetBlocked, Request
  <2>4. running' \in [Xstream -> Thread \cup {NoThread}] /\ phase' \in [Xstream -> Phase]
    BY <1>8 DEF JoinBlock, SetBlocked, Request
  <2>5. \A f \in Xstream : phase'[f] # "sched" => running'[f] # NoThread
    BY <1>8 DEF JoinBlock, SetBlocked, Request
  <2>6. link' \in [Thread -> Thread \cup {NoThread}] /\ pc' \in [Thread -> PC]
    BY <1>8 DEF JoinBlock, SetBlocked, Request
  <2>7. goal' \in [Thread -> Thread \cup {NoThread}]
    BY <1>8 DEF JoinBlock, SetBlocked, Request
  <2>8. todo' \in [Thread -> Todo]
    BY <1>8 DEF JoinBlock, SetBlocked, Request
  <2>9. \A v \in Thread : pc'[v] \in GoalPC => goal'[v] # NoThread
    BY <1>8 DEF JoinBlock, SetBlocked, Request
  <2> QED BY <2>1, <2>2, <2>3, <2>4, <2>5, <2>6, <2>7, <2>8, <2>9 DEF TypeOK, ThreadsTypeOK, GoalPC
<1>9. CASE JoinLink(u)
  <2>1. state' \in [Thread -> ThreadState] /\ request' \in [Thread -> SUBSET Request]
    BY <1>9 DEF JoinLink
  <2>2. lastES' \in [Thread -> Xstream \cup {NoXstream}]
    BY <1>9 DEF JoinLink
  <2>3. pool' \in [Pool -> Seq(Thread)] /\ numBlocked' \in [Pool -> Int]
    BY <1>9 DEF JoinLink
  <2>4. running' \in [Xstream -> Thread \cup {NoThread}] /\ phase' \in [Xstream -> Phase]
    BY <1>9 DEF JoinLink
  <2>5. \A f \in Xstream : phase'[f] # "sched" => running'[f] # NoThread
    BY <1>9 DEF JoinLink
  <2>6. link' \in [Thread -> Thread \cup {NoThread}] /\ pc' \in [Thread -> PC]
    BY <1>9 DEF JoinLink
  <2>7. goal' \in [Thread -> Thread \cup {NoThread}]
    BY <1>9 DEF JoinLink
  <2>8. todo' \in [Thread -> Todo]
    BY <1>9 DEF JoinLink
  <2>9. \A v \in Thread : pc'[v] \in GoalPC => goal'[v] # NoThread
    BY <1>9 DEF JoinLink
  <2> QED BY <2>1, <2>2, <2>3, <2>4, <2>5, <2>6, <2>7, <2>8, <2>9 DEF TypeOK, ThreadsTypeOK, GoalPC
<1>10. CASE JoinSuspend(u, e)
  <2>1. state' \in [Thread -> ThreadState] /\ request' \in [Thread -> SUBSET Request]
    BY <1>10 DEF JoinSuspend, SwitchToSched
  <2>2. lastES' \in [Thread -> Xstream \cup {NoXstream}]
    BY <1>10 DEF JoinSuspend, SwitchToSched
  <2>3. pool' \in [Pool -> Seq(Thread)] /\ numBlocked' \in [Pool -> Int]
    BY <1>10 DEF JoinSuspend, SwitchToSched
  <2>4. running' \in [Xstream -> Thread \cup {NoThread}] /\ phase' \in [Xstream -> Phase]
    BY <1>10 DEF JoinSuspend, SwitchToSched
  <2>5. \A f \in Xstream : phase'[f] # "sched" => running'[f] # NoThread
    BY <1>10 DEF JoinSuspend, SwitchToSched
  <2>6. link' \in [Thread -> Thread \cup {NoThread}] /\ pc' \in [Thread -> PC]
    BY <1>10 DEF JoinSuspend, SwitchToSched
  <2>7. goal' \in [Thread -> Thread \cup {NoThread}]
    BY <1>10 DEF JoinSuspend, SwitchToSched
  <2>8. todo' \in [Thread -> Todo]
    BY <1>10 DEF JoinSuspend, SwitchToSched
  <2>9. \A v \in Thread : pc'[v] \in GoalPC => goal'[v] # NoThread
    BY <1>10 DEF JoinSuspend, SwitchToSched
  <2> QED BY <2>1, <2>2, <2>3, <2>4, <2>5, <2>6, <2>7, <2>8, <2>9 DEF TypeOK, ThreadsTypeOK, GoalPC
<1>11. ASSUME state' = [state EXCEPT ![u] = "RUNNING"], DecNumBlocked(u), Joined(u),
             UNCHANGED <<request, lastES, pool, running, phase, link>>
      PROVE  TypeOK'
  <2>1. state' \in [Thread -> ThreadState] /\ request' \in [Thread -> SUBSET Request]
    BY <1>11 DEF Joined, DecNumBlocked, Todo
  <2>2. lastES' \in [Thread -> Xstream \cup {NoXstream}]
    BY <1>11 DEF Joined, DecNumBlocked, Todo
  <2>3. pool' \in [Pool -> Seq(Thread)] /\ numBlocked' \in [Pool -> Int]
    BY <1>11 DEF Joined, DecNumBlocked, Todo
  <2>4. running' \in [Xstream -> Thread \cup {NoThread}] /\ phase' \in [Xstream -> Phase]
    BY <1>11 DEF Joined, DecNumBlocked, Todo
  <2>5. \A f \in Xstream : phase'[f] # "sched" => running'[f] # NoThread
    BY <1>11 DEF Joined, DecNumBlocked, Todo
  <2>6. link' \in [Thread -> Thread \cup {NoThread}] /\ pc' \in [Thread -> PC]
    BY <1>11 DEF Joined, DecNumBlocked, Todo
  <2>7. goal' \in [Thread -> Thread \cup {NoThread}]
    BY <1>11 DEF Joined, DecNumBlocked, Todo
  <2>8. todo' \in [Thread -> Todo]
    BY <1>11, TodoTypes DEF Joined, DecNumBlocked
  <2>9. \A v \in Thread : pc'[v] \in GoalPC => goal'[v] # NoThread
    BY <1>11 DEF Joined, DecNumBlocked, Todo
  <2> QED BY <2>1, <2>2, <2>3, <2>4, <2>5, <2>6, <2>7, <2>8, <2>9 DEF TypeOK, ThreadsTypeOK, GoalPC
<1>12. ASSUME pc[u] = "resume", Goto(u, "poll"), UNCHANGED <<threadVars, link, goal, todo>>
      PROVE  TypeOK'
  <2>1. state' \in [Thread -> ThreadState] /\ request' \in [Thread -> SUBSET Request]
    BY <1>12 DEF DecNumBlocked
  <2>2. lastES' \in [Thread -> Xstream \cup {NoXstream}]
    BY <1>12 DEF DecNumBlocked
  <2>3. pool' \in [Pool -> Seq(Thread)] /\ numBlocked' \in [Pool -> Int]
    BY <1>12 DEF DecNumBlocked
  <2>4. running' \in [Xstream -> Thread \cup {NoThread}] /\ phase' \in [Xstream -> Phase]
    BY <1>12 DEF DecNumBlocked
  <2>5. \A f \in Xstream : phase'[f] # "sched" => running'[f] # NoThread
    BY <1>12 DEF DecNumBlocked
  <2>6. link' \in [Thread -> Thread \cup {NoThread}] /\ pc' \in [Thread -> PC]
    BY <1>12 DEF DecNumBlocked
  <2>7. goal' \in [Thread -> Thread \cup {NoThread}]
    BY <1>12 DEF DecNumBlocked
  <2>8. todo' \in [Thread -> Todo]
    BY <1>12 DEF DecNumBlocked
  <2>9. \A v \in Thread : pc'[v] \in GoalPC => goal'[v] # NoThread
    BY <1>12 DEF DecNumBlocked
  <2> QED BY <2>1, <2>2, <2>3, <2>4, <2>5, <2>6, <2>7, <2>8, <2>9 DEF TypeOK, ThreadsTypeOK, GoalPC
<1>13. CASE Yield(u, e)
  <2>1. state' \in [Thread -> ThreadState] /\ request' \in [Thread -> SUBSET Request]
    BY <1>13 DEF Yield, YieldThread, SwitchToSched, Todo
  <2>2. lastES' \in [Thread -> Xstream \cup {NoXstream}]
    BY <1>13 DEF Yield, YieldThread, SwitchToSched, Todo
  <2>3. pool' \in [Pool -> Seq(Thread)] /\ numBlocked' \in [Pool -> Int]
    BY <1>13 DEF Yield, YieldThread, SwitchToSched, Todo
  <2>4. running' \in [Xstream -> Thread \cup {NoThread}] /\ phase' \in [Xstream -> Phase]
    BY <1>13 DEF Yield, YieldThread, SwitchToSched, Todo
  <2>5. \A f \in Xstream : phase'[f] # "sched" => running'[f] # NoThread
    BY <1>13 DEF Yield, YieldThread, SwitchToSched, Todo
  <2>6. link' \in [Thread -> Thread \cup {NoThread}] /\ pc' \in [Thread -> PC]
    BY <1>13 DEF Yield, YieldThread, SwitchToSched, Todo
  <2>7. goal' \in [Thread -> Thread \cup {NoThread}]
    BY <1>13 DEF Yield, YieldThread, SwitchToSched, Todo
  <2>8. todo' \in [Thread -> Todo]
    BY <1>13, TodoTypes DEF Yield, YieldThread, SwitchToSched
  <2>9. \A v \in Thread : pc'[v] \in GoalPC => goal'[v] # NoThread
    BY <1>13 DEF Yield, YieldThread, SwitchToSched, Todo
  <2> QED BY <2>1, <2>2, <2>3, <2>4, <2>5, <2>6, <2>7, <2>8, <2>9 DEF TypeOK, ThreadsTypeOK, GoalPC
<1>14. CASE YieldToFails(u)
  <2>1. state' \in [Thread -> ThreadState] /\ request' \in [Thread -> SUBSET Request]
    BY <1>14 DEF YieldToFails
  <2>2. lastES' \in [Thread -> Xstream \cup {NoXstream}]
    BY <1>14 DEF YieldToFails
  <2>3. pool' \in [Pool -> Seq(Thread)] /\ numBlocked' \in [Pool -> Int]
    BY <1>14 DEF YieldToFails
  <2>4. running' \in [Xstream -> Thread \cup {NoThread}] /\ phase' \in [Xstream -> Phase]
    BY <1>14 DEF YieldToFails
  <2>5. \A f \in Xstream : phase'[f] # "sched" => running'[f] # NoThread
    BY <1>14 DEF YieldToFails
  <2>6. link' \in [Thread -> Thread \cup {NoThread}] /\ pc' \in [Thread -> PC]
    BY <1>14 DEF YieldToFails
  <2>7. goal' \in [Thread -> Thread \cup {NoThread}]
    BY <1>14 DEF YieldToFails
  <2>8. todo' \in [Thread -> Todo]
    BY <1>14 DEF YieldToFails
  <2>9. \A v \in Thread : pc'[v] \in GoalPC => goal'[v] # NoThread
    BY <1>14 DEF YieldToFails
  <2> QED BY <2>1, <2>2, <2>3, <2>4, <2>5, <2>6, <2>7, <2>8, <2>9 DEF TypeOK, ThreadsTypeOK, GoalPC
<1>15. CASE YieldToSwitch(u, e)
  <2>1. PICK t : t = goal[u]
    OBVIOUS
  <2>2. t \in Thread /\ SamePool(u, t)
    BY <1>15, <2>1 DEF YieldToSwitch, JoinInv, PartsOK, TodoOK, Lone
  <2>3. pool' \in [Pool -> Seq(Thread)]
    BY <1>15, <2>1, <2>2, PoolTypes DEF YieldToSwitch, SamePool
  <2>4. state' \in [Thread -> ThreadState] /\ request' \in [Thread -> SUBSET Request]
    BY <1>15, <2>1, <2>2, <2>3 DEF YieldToSwitch, SwitchToThread
  <2>5. lastES' \in [Thread -> Xstream \cup {NoXstream}]
    BY <1>15, <2>1, <2>2, <2>3 DEF YieldToSwitch, SwitchToThread
  <2>6. pool' \in [Pool -> Seq(Thread)] /\ numBlocked' \in [Pool -> Int]
    BY <1>15, <2>1, <2>2, <2>3 DEF YieldToSwitch, SwitchToThread
  <2>7. running' \in [Xstream -> Thread \cup {NoThread}] /\ phase' \in [Xstream -> Phase]
    BY <1>15, <2>1, <2>2, <2>3 DEF YieldToSwitch, SwitchToThread
  <2>8. \A f \in Xstream : phase'[f] # "sched" => running'[f] # NoThread
    BY <1>15, <2>1, <2>2, <2>3 DEF YieldToSwitch, SwitchToThread
  <2>9. link' \in [Thread -> Thread \cup {NoThread}] /\ pc' \in [Thread -> PC]
    BY <1>15, <2>1, <2>2, <2>3 DEF YieldToSwitch, SwitchToThread
  <2>10. goal' \in [Thread -> Thread \cup {NoThread}]
    BY <1>15, <2>1, <2>2, <2>3 DEF YieldToSwitch, SwitchToThread
  <2>11. todo' \in [Thread -> Todo]
    BY <1>15, <2>1, <2>2, <2>3 DEF YieldToSwitch, SwitchToThread
  <2>12. \A v \in Thread : pc'[v] \in GoalPC => goal'[v] # NoThread
    BY <1>15, <2>1, <2>2, <2>3 DEF YieldToSwitch, SwitchToThread
  <2> QED BY <2>4, <2>5, <2>6, <2>7, <2>8, <2>9, <2>10, <2>11, <2>12 DEF TypeOK, ThreadsTypeOK, GoalPC
<1>16. CASE Exit(u)
  <2>1. state' \in [Thread -> ThreadState] /\ request' \in [Thread -> SUBSET Request]
    BY <1>16 DEF Exit, Request
  <2>2. lastES' \in [Thread -> Xstream \cup {NoXstream}]
    BY <1>16 DEF Exit, Request
  <2>3. pool' \in [Pool -> Seq(Thread)] /\ numBlocked' \in [Pool -> Int]
    BY <1>16 DEF Exit, Request
  <2>4. running' \in [Xstream -> Thread \cup {NoThread}] /\ phase' \in [Xstream -> Phase]
    BY <1>16 DEF Exit, Request
  <2>5. \A f \in Xstream : phase'[f] # "sched" => running'[f] # NoThread
    BY <1>16 DEF Exit, Request
  <2>6. link' \in [Thread -> Thread \cup {NoThread}] /\ pc' \in [Thread -> PC]
    BY <1>16 DEF Exit, Request
  <2>7. goal' \in [Thread -> Thread \cup {NoThread}]
    BY <1>16 DEF Exit, Request
  <2>8. todo' \in [Thread -> Todo]
    BY <1>16 DEF Exit, Request
  <2>9. \A v \in Thread : pc'[v] \in GoalPC => goal'[v] # NoThread
    BY <1>16 DEF Exit, Request
  <2> QED BY <2>1, <2>2, <2>3, <2>4, <2>5, <2>6, <2>7, <2>8, <2>9 DEF TypeOK, ThreadsTypeOK, GoalPC
<1>17. CASE JoinPoll(u, e) /\ Joined(u) /\ UNCHANGED threadVars
  <2>1. state' \in [Thread -> ThreadState] /\ request' \in [Thread -> SUBSET Request]
    BY <1>17 DEF JoinPoll, Joined, Todo
  <2>2. lastES' \in [Thread -> Xstream \cup {NoXstream}]
    BY <1>17 DEF JoinPoll, Joined, Todo
  <2>3. pool' \in [Pool -> Seq(Thread)] /\ numBlocked' \in [Pool -> Int]
    BY <1>17 DEF JoinPoll, Joined, Todo
  <2>4. running' \in [Xstream -> Thread \cup {NoThread}] /\ phase' \in [Xstream -> Phase]
    BY <1>17 DEF JoinPoll, Joined, Todo
  <2>5. \A f \in Xstream : phase'[f] # "sched" => running'[f] # NoThread
    BY <1>17 DEF JoinPoll, Joined, Todo
  <2>6. link' \in [Thread -> Thread \cup {NoThread}] /\ pc' \in [Thread -> PC]
    BY <1>17 DEF JoinPoll, Joined, Todo
  <2>7. goal' \in [Thread -> Thread \cup {NoThread}]
    BY <1>17 DEF JoinPoll, Joined, Todo
  <2>8. todo' \in [Thread -> Todo]
    BY <1>17, TodoTypes DEF JoinPoll, Joined
  <2>9. \A v \in Thread : pc'[v] \in GoalPC => goal'[v] # NoThread
    BY <1>17 DEF JoinPoll, Joined, Todo
  <2> QED BY <2>1, <2>2, <2>3, <2>4, <2>5, <2>6, <2>7, <2>8, <2>9 DEF TypeOK, ThreadsTypeOK, GoalPC
<1>18. CASE JoinPoll(u, e) /\ YieldThread(u, e) /\ UNCHANGED <<pc, goal, todo>>
  <2>1. state' \in [Thread -> ThreadState] /\ request' \in [Thread -> SUBSET Request]
    BY <1>18 DEF JoinPoll, YieldThread, SwitchToSched
  <2>2. lastES' \in [Thread -> Xstream \cup {NoXstream}]
    BY <1>18 DEF JoinPoll, YieldThread, SwitchToSched
  <2>3. pool' \in [Pool -> Seq(Thread)] /\ numBlocked' \in [Pool -> Int]
    BY <1>18 DEF JoinPoll, YieldThread, SwitchToSched
  <2>4. running' \in [Xstream -> Thread \cup {NoThread}] /\ phase' \in [Xstream -> Phase]
    BY <1>18 DEF JoinPoll, YieldThread, SwitchToSched
  <2>5. \A f \in Xstream : phase'[f] # "sched" => running'[f] # NoThread
    BY <1>18 DEF JoinPoll, YieldThread, SwitchToSched
  <2>6. link' \in [Thread -> Thread \cup {NoThread}] /\ pc' \in [Thread -> PC]
    BY <1>18 DEF JoinPoll, YieldThread, SwitchToSched
  <2>7. goal' \in [Thread -> Thread \cup {NoThread}]
    BY <1>18 DEF JoinPoll, YieldThread, SwitchToSched
  <2>8. todo' \in [Thread -> Todo]
    BY <1>18 DEF JoinPoll, YieldThread, SwitchToSched
  <2>9. \A v \in Thread : pc'[v] \in GoalPC => goal'[v] # NoThread
    BY <1>18 DEF JoinPoll, YieldThread, SwitchToSched
  <2> QED BY <2>1, <2>2, <2>3, <2>4, <2>5, <2>6, <2>7, <2>8, <2>9 DEF TypeOK, ThreadsTypeOK, GoalPC
<1>19. CASE JoinPoll(u, e)
  BY <1>17, <1>18, <1>19, Zenon DEF JoinPoll
<1>20. CASE JoinChoose(u)
  <2>1. request' = request \/ request' = [request EXCEPT ![goal[u]] = @ \cup {"JOIN"}]
    BY <1>20, Zenon DEF JoinChoose
  <2>2. [request EXCEPT ![goal[u]] = @ \cup {"JOIN"}] \in [Thread -> SUBSET Request]
    BY DEF Request
  <2>3. request \in [Thread -> SUBSET Request]
    OBVIOUS
  <2>4. request' \in [Thread -> SUBSET Request]
    BY ONLY <2>1, <2>2, <2>3
  <2>5. Goto(u, "find") \/ Goto(u, "poll") \/ Goto(u, "block")
    BY ONLY JoinChoose(u), <1>20, Zenon DEF JoinChoose
  <2>6. /\ pc[u] = "join"
        /\ UNCHANGED <<state, lastES, pool, numBlocked, running, phase, link, goal, todo>>
    BY <1>20 DEF JoinChoose
  <2> QED BY ONLY <1>6, <2>4, <2>5, <2>6
<1>21. CASE JoinResume(u)
  BY ONLY <1>11, <1>12, <1>21 DEF JoinResume, threadVars
<1> QED
  BY ONLY Call(u, e), <1>1, <1>2, <1>3, <1>4, <1>5, <1>7, <1>8, <1>9, <1>10,
     <1>13, <1>14, <1>15, <1>16, <1>19, <1>20, <1>21 DEF Call

\* A step of the end of a ULT keeps the types.
LEMMA EndTypes ==
  ASSUME JoinInv, NEW u \in Thread, NEW e \in Xstream, running[e] = u, phase[e] \in {"ult", "cancel"},
         End(u, e)
  PROVE  TypeOK'
<1> USE ThreadsAssumption, JoinAssumption, GoalTypes
    DEF ThreadState, Phase, PC, Goto, threadVars, localVars, BackToSched, GoalPC, JoinPC
<1>1. ASSUME state' = [state EXCEPT ![u] = "TERMINATED"], Goto(u, "jump"), goal' = goal,
            UNCHANGED <<request, lastES, pool, numBlocked, running, phase, link, todo>>
     PROVE  TypeOK'
  <2>1. state' \in [Thread -> ThreadState] /\ request' \in [Thread -> SUBSET Request]
    BY <1>1 DEF Goto
  <2>2. lastES' \in [Thread -> Xstream \cup {NoXstream}]
    BY <1>1 DEF Goto
  <2>3. pool' \in [Pool -> Seq(Thread)] /\ numBlocked' \in [Pool -> Int]
    BY <1>1 DEF Goto
  <2>4. running' \in [Xstream -> Thread \cup {NoThread}] /\ phase' \in [Xstream -> Phase]
    BY <1>1 DEF Goto
  <2>5. \A f \in Xstream : phase'[f] # "sched" => running'[f] # NoThread
    BY <1>1 DEF Goto
  <2>6. link' \in [Thread -> Thread \cup {NoThread}] /\ pc' \in [Thread -> PC]
    BY <1>1 DEF Goto
  <2>7. goal' \in [Thread -> Thread \cup {NoThread}]
    BY <1>1 DEF Goto
  <2>8. todo' \in [Thread -> Todo]
    BY <1>1 DEF Goto
  <2>9. \A v \in Thread : pc'[v] \in GoalPC => goal'[v] # NoThread
    BY <1>1 DEF Goto
  <2> QED BY <2>1, <2>2, <2>3, <2>4, <2>5, <2>6, <2>7, <2>8, <2>9 DEF TypeOK, ThreadsTypeOK, GoalPC
<1>2. CASE EndUnlinked(u)
  <2>1. state' \in [Thread -> ThreadState] /\ request' \in [Thread -> SUBSET Request]
    BY <1>2 DEF EndUnlinked, Ends, Request
  <2>2. lastES' \in [Thread -> Xstream \cup {NoXstream}]
    BY <1>2 DEF EndUnlinked, Ends, Request
  <2>3. pool' \in [Pool -> Seq(Thread)] /\ numBlocked' \in [Pool -> Int]
    BY <1>2 DEF EndUnlinked, Ends, Request
  <2>4. running' \in [Xstream -> Thread \cup {NoThread}] /\ phase' \in [Xstream -> Phase]
    BY <1>2 DEF EndUnlinked, Ends, Request
  <2>5. \A f \in Xstream : phase'[f] # "sched" => running'[f] # NoThread
    BY <1>2 DEF EndUnlinked, Ends, Request
  <2>6. link' \in [Thread -> Thread \cup {NoThread}] /\ pc' \in [Thread -> PC]
    BY <1>2 DEF EndUnlinked, Ends, Request
  <2>7. goal' \in [Thread -> Thread \cup {NoThread}]
    BY <1>2 DEF EndUnlinked, Ends, Request
  <2>8. todo' \in [Thread -> Todo]
    BY <1>2 DEF EndUnlinked, Ends, Request
  <2>9. \A v \in Thread : pc'[v] \in GoalPC => goal'[v] # NoThread
    BY <1>2 DEF EndUnlinked, Ends, Request
  <2> QED BY <2>1, <2>2, <2>3, <2>4, <2>5, <2>6, <2>7, <2>8, <2>9 DEF TypeOK, ThreadsTypeOK, GoalPC
<1>3. CASE WaitLink(u)
  <2>1. state' \in [Thread -> ThreadState] /\ request' \in [Thread -> SUBSET Request]
    BY <1>3 DEF WaitLink
  <2>2. lastES' \in [Thread -> Xstream \cup {NoXstream}]
    BY <1>3 DEF WaitLink
  <2>3. pool' \in [Pool -> Seq(Thread)] /\ numBlocked' \in [Pool -> Int]
    BY <1>3 DEF WaitLink
  <2>4. running' \in [Xstream -> Thread \cup {NoThread}] /\ phase' \in [Xstream -> Phase]
    BY <1>3 DEF WaitLink
  <2>5. \A f \in Xstream : phase'[f] # "sched" => running'[f] # NoThread
    BY <1>3 DEF WaitLink
  <2>6. link' \in [Thread -> Thread \cup {NoThread}] /\ pc' \in [Thread -> PC]
    BY <1>3 DEF WaitLink
  <2>7. goal' \in [Thread -> Thread \cup {NoThread}]
    BY <1>3 DEF WaitLink
  <2>8. todo' \in [Thread -> Todo]
    BY <1>3 DEF WaitLink
  <2>9. \A v \in Thread : pc'[v] \in GoalPC => goal'[v] # NoThread
    BY <1>3 DEF WaitLink
  <2> QED BY <2>1, <2>2, <2>3, <2>4, <2>5, <2>6, <2>7, <2>8, <2>9 DEF TypeOK, ThreadsTypeOK, GoalPC
<1>4. CASE WakeJoiner(u)
  <2>1. state' \in [Thread -> ThreadState] /\ request' \in [Thread -> SUBSET Request]
    BY <1>4 DEF WakeJoiner
  <2>2. lastES' \in [Thread -> Xstream \cup {NoXstream}]
    BY <1>4 DEF WakeJoiner
  <2>3. pool' \in [Pool -> Seq(Thread)] /\ numBlocked' \in [Pool -> Int]
    BY <1>4 DEF WakeJoiner
  <2>4. running' \in [Xstream -> Thread \cup {NoThread}] /\ phase' \in [Xstream -> Phase]
    BY <1>4 DEF WakeJoiner
  <2>5. \A f \in Xstream : phase'[f] # "sched" => running'[f] # NoThread
    BY <1>4 DEF WakeJoiner
  <2>6. link' \in [Thread -> Thread \cup {NoThread}] /\ pc' \in [Thread -> PC]
    BY <1>4 DEF WakeJoiner
  <2>7. goal' \in [Thread -> Thread \cup {NoThread}]
    BY <1>4 DEF WakeJoiner
  <2>8. todo' \in [Thread -> Todo]
    BY <1>4 DEF WakeJoiner
  <2>9. \A v \in Thread : pc'[v] \in GoalPC => goal'[v] # NoThread
    BY <1>4 DEF WakeJoiner
  <2> QED BY <2>1, <2>2, <2>3, <2>4, <2>5, <2>6, <2>7, <2>8, <2>9 DEF TypeOK, ThreadsTypeOK, GoalPC
<1>5. CASE WakeReady(u)
  <2>1. state' \in [Thread -> ThreadState] /\ request' \in [Thread -> SUBSET Request]
    BY <1>5 DEF WakeReady
  <2>2. lastES' \in [Thread -> Xstream \cup {NoXstream}]
    BY <1>5 DEF WakeReady
  <2>3. pool' \in [Pool -> Seq(Thread)] /\ numBlocked' \in [Pool -> Int]
    BY <1>5 DEF WakeReady
  <2>4. running' \in [Xstream -> Thread \cup {NoThread}] /\ phase' \in [Xstream -> Phase]
    BY <1>5 DEF WakeReady
  <2>5. \A f \in Xstream : phase'[f] # "sched" => running'[f] # NoThread
    BY <1>5 DEF WakeReady
  <2>6. link' \in [Thread -> Thread \cup {NoThread}] /\ pc' \in [Thread -> PC]
    BY <1>5 DEF WakeReady
  <2>7. goal' \in [Thread -> Thread \cup {NoThread}]
    BY <1>5 DEF WakeReady
  <2>8. todo' \in [Thread -> Todo]
    BY <1>5 DEF WakeReady
  <2>9. \A v \in Thread : pc'[v] \in GoalPC => goal'[v] # NoThread
    BY <1>5 DEF WakeReady
  <2> QED BY <2>1, <2>2, <2>3, <2>4, <2>5, <2>6, <2>7, <2>8, <2>9 DEF TypeOK, ThreadsTypeOK, GoalPC
<1>6. CASE WakePush(u)
  <2>1. goal[u] \in Thread
    BY <1>6 DEF WakePush
  <2>2. state' \in [Thread -> ThreadState] /\ request' \in [Thread -> SUBSET Request]
    BY <1>6, <2>1, PoolTypes DEF WakePush
  <2>3. lastES' \in [Thread -> Xstream \cup {NoXstream}]
    BY <1>6, <2>1, PoolTypes DEF WakePush
  <2>4. pool' \in [Pool -> Seq(Thread)] /\ numBlocked' \in [Pool -> Int]
    BY <1>6, <2>1, PoolTypes DEF WakePush
  <2>5. running' \in [Xstream -> Thread \cup {NoThread}] /\ phase' \in [Xstream -> Phase]
    BY <1>6, <2>1, PoolTypes DEF WakePush
  <2>6. \A f \in Xstream : phase'[f] # "sched" => running'[f] # NoThread
    BY <1>6, <2>1, PoolTypes DEF WakePush
  <2>7. link' \in [Thread -> Thread \cup {NoThread}] /\ pc' \in [Thread -> PC]
    BY <1>6, <2>1, PoolTypes DEF WakePush
  <2>8. goal' \in [Thread -> Thread \cup {NoThread}]
    BY <1>6, <2>1, PoolTypes DEF WakePush
  <2>9. todo' \in [Thread -> Todo]
    BY <1>6, <2>1, PoolTypes DEF WakePush
  <2>10. \A v \in Thread : pc'[v] \in GoalPC => goal'[v] # NoThread
    BY <1>6, <2>1, PoolTypes DEF WakePush
  <2> QED BY <2>2, <2>3, <2>4, <2>5, <2>6, <2>7, <2>8, <2>9, <2>10 DEF TypeOK, ThreadsTypeOK, GoalPC
<1>7. CASE WakeDec(u)
  <2>1. state' \in [Thread -> ThreadState] /\ request' \in [Thread -> SUBSET Request]
    BY <1>7 DEF WakeDec, DecNumBlocked
  <2>2. lastES' \in [Thread -> Xstream \cup {NoXstream}]
    BY <1>7 DEF WakeDec, DecNumBlocked
  <2>3. pool' \in [Pool -> Seq(Thread)] /\ numBlocked' \in [Pool -> Int]
    BY <1>7 DEF WakeDec, DecNumBlocked
  <2>4. running' \in [Xstream -> Thread \cup {NoThread}] /\ phase' \in [Xstream -> Phase]
    BY <1>7 DEF WakeDec, DecNumBlocked
  <2>5. \A f \in Xstream : phase'[f] # "sched" => running'[f] # NoThread
    BY <1>7 DEF WakeDec, DecNumBlocked
  <2>6. link' \in [Thread -> Thread \cup {NoThread}] /\ pc' \in [Thread -> PC]
    BY <1>7 DEF WakeDec, DecNumBlocked
  <2>7. goal' \in [Thread -> Thread \cup {NoThread}]
    BY <1>7 DEF WakeDec, DecNumBlocked
  <2>8. todo' \in [Thread -> Todo]
    BY <1>7 DEF WakeDec, DecNumBlocked
  <2>9. \A v \in Thread : pc'[v] \in GoalPC => goal'[v] # NoThread
    BY <1>7 DEF WakeDec, DecNumBlocked
  <2> QED BY <2>1, <2>2, <2>3, <2>4, <2>5, <2>6, <2>7, <2>8, <2>9 DEF TypeOK, ThreadsTypeOK, GoalPC
<1>8. ASSUME request' = [request EXCEPT ![u] = @ \cup {"TERMINATE"}], SwitchToSched(e),
            Goto(u, "done"), goal' = [goal EXCEPT ![u] = NoThread],
            UNCHANGED <<state, running, lastES, pool, numBlocked, link, todo>>
     PROVE  TypeOK'
  <2>1. state' \in [Thread -> ThreadState] /\ request' \in [Thread -> SUBSET Request]
    BY <1>8 DEF SwitchToSched, Request
  <2>2. lastES' \in [Thread -> Xstream \cup {NoXstream}]
    BY <1>8 DEF SwitchToSched, Request
  <2>3. pool' \in [Pool -> Seq(Thread)] /\ numBlocked' \in [Pool -> Int]
    BY <1>8 DEF SwitchToSched, Request
  <2>4. running' \in [Xstream -> Thread \cup {NoThread}] /\ phase' \in [Xstream -> Phase]
    BY <1>8 DEF SwitchToSched, Request
  <2>5. \A f \in Xstream : phase'[f] # "sched" => running'[f] # NoThread
    BY <1>8 DEF SwitchToSched, Request
  <2>6. link' \in [Thread -> Thread \cup {NoThread}] /\ pc' \in [Thread -> PC]
    BY <1>8 DEF SwitchToSched, Request
  <2>7. goal' \in [Thread -> Thread \cup {NoThread}]
    BY <1>8 DEF SwitchToSched, Request
  <2>8. todo' \in [Thread -> Todo]
    BY <1>8 DEF SwitchToSched, Request
  <2>9. \A v \in Thread : pc'[v] \in GoalPC => goal'[v] # NoThread
    BY <1>8 DEF SwitchToSched, Request
  <2> QED BY <2>1, <2>2, <2>3, <2>4, <2>5, <2>6, <2>7, <2>8, <2>9 DEF TypeOK, ThreadsTypeOK, GoalPC
<1>9. ASSUME state' = [state EXCEPT ![u] = "TERMINATED"], BackToSched(e), request' = request,
            Goto(u, "done"), goal' = [goal EXCEPT ![u] = NoThread],
            UNCHANGED <<lastES, pool, numBlocked, link, todo>>
     PROVE  TypeOK'
  <2>1. state' \in [Thread -> ThreadState] /\ request' \in [Thread -> SUBSET Request]
    BY <1>9 DEF BackToSched
  <2>2. lastES' \in [Thread -> Xstream \cup {NoXstream}]
    BY <1>9 DEF BackToSched
  <2>3. pool' \in [Pool -> Seq(Thread)] /\ numBlocked' \in [Pool -> Int]
    BY <1>9 DEF BackToSched
  <2>4. running' \in [Xstream -> Thread \cup {NoThread}] /\ phase' \in [Xstream -> Phase]
    BY <1>9 DEF BackToSched
  <2>5. \A f \in Xstream : phase'[f] # "sched" => running'[f] # NoThread
    BY <1>9 DEF BackToSched
  <2>6. link' \in [Thread -> Thread \cup {NoThread}] /\ pc' \in [Thread -> PC]
    BY <1>9 DEF BackToSched
  <2>7. goal' \in [Thread -> Thread \cup {NoThread}]
    BY <1>9 DEF BackToSched
  <2>8. todo' \in [Thread -> Todo]
    BY <1>9 DEF BackToSched
  <2>9. \A v \in Thread : pc'[v] \in GoalPC => goal'[v] # NoThread
    BY <1>9 DEF BackToSched
  <2> QED BY <2>1, <2>2, <2>3, <2>4, <2>5, <2>6, <2>7, <2>8, <2>9 DEF TypeOK, ThreadsTypeOK, GoalPC
<1>10. ASSUME link[u] \in Thread, goal' = [goal EXCEPT ![u] = link[u]], Goto(u, "wake"),
             UNCHANGED <<threadVars, link, todo>>
      PROVE  TypeOK'
  <2>1. state' \in [Thread -> ThreadState] /\ request' \in [Thread -> SUBSET Request]
    BY <1>10 DEF Goto
  <2>2. lastES' \in [Thread -> Xstream \cup {NoXstream}]
    BY <1>10 DEF Goto
  <2>3. pool' \in [Pool -> Seq(Thread)] /\ numBlocked' \in [Pool -> Int]
    BY <1>10 DEF Goto
  <2>4. running' \in [Xstream -> Thread \cup {NoThread}] /\ phase' \in [Xstream -> Phase]
    BY <1>10 DEF Goto
  <2>5. \A f \in Xstream : phase'[f] # "sched" => running'[f] # NoThread
    BY <1>10 DEF Goto
  <2>6. link' \in [Thread -> Thread \cup {NoThread}] /\ pc' \in [Thread -> PC]
    BY <1>10 DEF Goto
  <2>7. goal' \in [Thread -> Thread \cup {NoThread}]
    BY <1>10 DEF Goto
  <2>8. todo' \in [Thread -> Todo]
    BY <1>10 DEF Goto
  <2>9. \A v \in Thread : pc'[v] \in GoalPC => goal'[v] # NoThread
    BY <1>10 DEF Goto
  <2> QED BY <2>1, <2>2, <2>3, <2>4, <2>5, <2>6, <2>7, <2>8, <2>9 DEF TypeOK, ThreadsTypeOK, GoalPC
<1>11. CASE EndLinked(u, e)
  <2>1. link[u] \in Thread
    BY <1>11 DEF EndLinked
  <2> QED BY ONLY <1>1, <1>10, <1>11, <2>1 DEF EndLinked, threadVars
<1>12. CASE StopUlt(u, e)
  BY ONLY <1>8, <1>9, <1>12 DEF StopUlt
<1>13. ASSUME link[u] \in Thread, EndJump(u, e) PROVE TypeOK'
  <2>1. state' \in [Thread -> ThreadState] /\ request' \in [Thread -> SUBSET Request]
    BY <1>13 DEF EndJump, SwitchToThread
  <2>2. lastES' \in [Thread -> Xstream \cup {NoXstream}]
    BY <1>13 DEF EndJump, SwitchToThread
  <2>3. pool' \in [Pool -> Seq(Thread)] /\ numBlocked' \in [Pool -> Int]
    BY <1>13 DEF EndJump, SwitchToThread
  <2>4. running' \in [Xstream -> Thread \cup {NoThread}] /\ phase' \in [Xstream -> Phase]
    BY <1>13 DEF EndJump, SwitchToThread
  <2>5. \A f \in Xstream : phase'[f] # "sched" => running'[f] # NoThread
    BY <1>13 DEF EndJump, SwitchToThread
  <2>6. link' \in [Thread -> Thread \cup {NoThread}] /\ pc' \in [Thread -> PC]
    BY <1>13 DEF EndJump, SwitchToThread
  <2>7. goal' \in [Thread -> Thread \cup {NoThread}]
    BY <1>13 DEF EndJump, SwitchToThread
  <2>8. todo' \in [Thread -> Todo]
    BY <1>13 DEF EndJump, SwitchToThread
  <2>9. \A v \in Thread : pc'[v] \in GoalPC => goal'[v] # NoThread
    BY <1>13 DEF EndJump, SwitchToThread
  <2> QED BY <2>1, <2>2, <2>3, <2>4, <2>5, <2>6, <2>7, <2>8, <2>9 DEF TypeOK, ThreadsTypeOK, GoalPC
<1>14. CASE EndJump(u, e)
  <2>1. link[u] \in Thread
    BY <1>14, JumpTarget DEF EndJump
  <2> QED BY ONLY <1>13, <1>14, <2>1
<1> QED
  BY ONLY End(u, e), <1>2, <1>3, <1>4, <1>5, <1>6, <1>7, <1>11, <1>12, <1>14 DEF End

\* A step of a scheduler keeps the types.
LEMMA SchedTypes ==
  ASSUME ProgramOK, JoinInv, NEW e \in Xstream, Sched(e)
  PROVE  TypeOK'
<1> USE ThreadsAssumption, JoinAssumption, GoalTypes
    DEF ThreadState, Phase, PC, Goto, threadVars, localVars, BackToSched, GoalPC, JoinPC
<1>1. ASSUME NEW p \in Pool, phase[e] = "sched", NextPool(e, p), pool' = [pool EXCEPT ![p] = Tail(@)]
      PROVE  Head(pool[p]) \in Thread /\ pool' \in [Pool -> Seq(Thread)]
  BY <1>1, PopLeaves DEF NextPool, JoinInv, PartsOK, PoolOK
<1>2. CASE SchedRun(e) /\ UNCHANGED localVars
  <2>1. PICK p \in Pool :
          /\ phase[e] = "sched" /\ NextPool(e, p)
          /\ running' = [running EXCEPT ![e] = Head(pool[p])]
          /\ state' = [state EXCEPT ![Head(pool[p])] = "RUNNING"]
          /\ lastES' = [lastES EXCEPT ![Head(pool[p])] = e]
          /\ pool' = [pool EXCEPT ![p] = Tail(@)]
          /\ phase' = [phase EXCEPT ![e] = "ult"]
    BY <1>2, Zenon DEF SchedRun
  <2>2. PICK u : u = Head(pool[p])
    OBVIOUS
  <2>3. u \in Thread /\ pool' \in [Pool -> Seq(Thread)]
    BY <1>1, <2>1, <2>2
  <2>4. state' \in [Thread -> ThreadState] /\ request' \in [Thread -> SUBSET Request]
    BY <1>2, <2>1, <2>2, <2>3 DEF SchedRun
  <2>5. lastES' \in [Thread -> Xstream \cup {NoXstream}]
    BY <1>2, <2>1, <2>2, <2>3 DEF SchedRun
  <2>6. pool' \in [Pool -> Seq(Thread)] /\ numBlocked' \in [Pool -> Int]
    BY <1>2, <2>1, <2>2, <2>3 DEF SchedRun
  <2>7. running' \in [Xstream -> Thread \cup {NoThread}] /\ phase' \in [Xstream -> Phase]
    BY <1>2, <2>1, <2>2, <2>3 DEF SchedRun
  <2>8. \A f \in Xstream : phase'[f] # "sched" => running'[f] # NoThread
    BY <1>2, <2>1, <2>2, <2>3 DEF SchedRun
  <2>9. link' \in [Thread -> Thread \cup {NoThread}] /\ pc' \in [Thread -> PC]
    BY <1>2, <2>1, <2>2, <2>3 DEF SchedRun
  <2>10. goal' \in [Thread -> Thread \cup {NoThread}]
    BY <1>2, <2>1, <2>2, <2>3 DEF SchedRun
  <2>11. todo' \in [Thread -> Todo]
    BY <1>2, <2>1, <2>2, <2>3 DEF SchedRun
  <2>12. \A v \in Thread : pc'[v] \in GoalPC => goal'[v] # NoThread
    BY <1>2, <2>1, <2>2, <2>3 DEF SchedRun
  <2> QED BY <2>4, <2>5, <2>6, <2>7, <2>8, <2>9, <2>10, <2>11, <2>12 DEF TypeOK, ThreadsTypeOK, GoalPC
<1>3. CASE ReturnTerminated(e) /\ UNCHANGED localVars
  <2>1. state' \in [Thread -> ThreadState] /\ request' \in [Thread -> SUBSET Request]
    BY <1>3 DEF ReturnTerminated
  <2>2. lastES' \in [Thread -> Xstream \cup {NoXstream}]
    BY <1>3 DEF ReturnTerminated
  <2>3. pool' \in [Pool -> Seq(Thread)] /\ numBlocked' \in [Pool -> Int]
    BY <1>3 DEF ReturnTerminated
  <2>4. running' \in [Xstream -> Thread \cup {NoThread}] /\ phase' \in [Xstream -> Phase]
    BY <1>3 DEF ReturnTerminated
  <2>5. \A f \in Xstream : phase'[f] # "sched" => running'[f] # NoThread
    BY <1>3 DEF ReturnTerminated
  <2>6. link' \in [Thread -> Thread \cup {NoThread}] /\ pc' \in [Thread -> PC]
    BY <1>3 DEF ReturnTerminated
  <2>7. goal' \in [Thread -> Thread \cup {NoThread}]
    BY <1>3 DEF ReturnTerminated
  <2>8. todo' \in [Thread -> Todo]
    BY <1>3 DEF ReturnTerminated
  <2>9. \A v \in Thread : pc'[v] \in GoalPC => goal'[v] # NoThread
    BY <1>3 DEF ReturnTerminated
  <2> QED BY <2>1, <2>2, <2>3, <2>4, <2>5, <2>6, <2>7, <2>8, <2>9 DEF TypeOK, ThreadsTypeOK, GoalPC
<1>4. CASE ReturnYielded(e) /\ UNCHANGED localVars
  <2>1. running[e] \in Thread
    BY <1>4 DEF ReturnYielded, GoesOn
  <2>2. state' \in [Thread -> ThreadState] /\ request' \in [Thread -> SUBSET Request]
    BY <1>4, <2>1, PoolTypes DEF ReturnYielded, MakeReady
  <2>3. lastES' \in [Thread -> Xstream \cup {NoXstream}]
    BY <1>4, <2>1, PoolTypes DEF ReturnYielded, MakeReady
  <2>4. pool' \in [Pool -> Seq(Thread)] /\ numBlocked' \in [Pool -> Int]
    BY <1>4, <2>1, PoolTypes DEF ReturnYielded, MakeReady
  <2>5. running' \in [Xstream -> Thread \cup {NoThread}] /\ phase' \in [Xstream -> Phase]
    BY <1>4, <2>1, PoolTypes DEF ReturnYielded, MakeReady
  <2>6. \A f \in Xstream : phase'[f] # "sched" => running'[f] # NoThread
    BY <1>4, <2>1, PoolTypes DEF ReturnYielded, MakeReady
  <2>7. link' \in [Thread -> Thread \cup {NoThread}] /\ pc' \in [Thread -> PC]
    BY <1>4, <2>1, PoolTypes DEF ReturnYielded, MakeReady
  <2>8. goal' \in [Thread -> Thread \cup {NoThread}]
    BY <1>4, <2>1, PoolTypes DEF ReturnYielded, MakeReady
  <2>9. todo' \in [Thread -> Todo]
    BY <1>4, <2>1, PoolTypes DEF ReturnYielded, MakeReady
  <2>10. \A v \in Thread : pc'[v] \in GoalPC => goal'[v] # NoThread
    BY <1>4, <2>1, PoolTypes DEF ReturnYielded, MakeReady
  <2> QED BY <2>2, <2>3, <2>4, <2>5, <2>6, <2>7, <2>8, <2>9, <2>10 DEF TypeOK, ThreadsTypeOK, GoalPC
<1>5. CASE ReturnBlocked(e) /\ UNCHANGED localVars
  <2>1. state' \in [Thread -> ThreadState] /\ request' \in [Thread -> SUBSET Request]
    BY <1>5 DEF ReturnBlocked
  <2>2. lastES' \in [Thread -> Xstream \cup {NoXstream}]
    BY <1>5 DEF ReturnBlocked
  <2>3. pool' \in [Pool -> Seq(Thread)] /\ numBlocked' \in [Pool -> Int]
    BY <1>5 DEF ReturnBlocked
  <2>4. running' \in [Xstream -> Thread \cup {NoThread}] /\ phase' \in [Xstream -> Phase]
    BY <1>5 DEF ReturnBlocked
  <2>5. \A f \in Xstream : phase'[f] # "sched" => running'[f] # NoThread
    BY <1>5 DEF ReturnBlocked
  <2>6. link' \in [Thread -> Thread \cup {NoThread}] /\ pc' \in [Thread -> PC]
    BY <1>5 DEF ReturnBlocked
  <2>7. goal' \in [Thread -> Thread \cup {NoThread}]
    BY <1>5 DEF ReturnBlocked
  <2>8. todo' \in [Thread -> Todo]
    BY <1>5 DEF ReturnBlocked
  <2>9. \A v \in Thread : pc'[v] \in GoalPC => goal'[v] # NoThread
    BY <1>5 DEF ReturnBlocked
  <2> QED BY <2>1, <2>2, <2>3, <2>4, <2>5, <2>6, <2>7, <2>8, <2>9 DEF TypeOK, ThreadsTypeOK, GoalPC
<1>6. CASE CancelPopped(e)
  <2>1. PICK p \in Pool :
          /\ phase[e] = "sched" /\ NextPool(e, p)
          /\ running' = [running EXCEPT ![e] = Head(pool[p])]
          /\ pool' = [pool EXCEPT ![p] = Tail(@)]
          /\ phase' = [phase EXCEPT ![e] = "cancel"]
          /\ Goto(Head(pool[p]), "end")
    BY <1>6, Zenon DEF CancelPopped
  <2>2. PICK u : u = Head(pool[p])
    OBVIOUS
  <2>3. u \in Thread /\ pool' \in [Pool -> Seq(Thread)]
    BY <1>1, <2>1, <2>2
  <2>4. state' \in [Thread -> ThreadState] /\ request' \in [Thread -> SUBSET Request]
    BY <1>6, <2>1, <2>2, <2>3 DEF CancelPopped
  <2>5. lastES' \in [Thread -> Xstream \cup {NoXstream}]
    BY <1>6, <2>1, <2>2, <2>3 DEF CancelPopped
  <2>6. pool' \in [Pool -> Seq(Thread)] /\ numBlocked' \in [Pool -> Int]
    BY <1>6, <2>1, <2>2, <2>3 DEF CancelPopped
  <2>7. running' \in [Xstream -> Thread \cup {NoThread}] /\ phase' \in [Xstream -> Phase]
    BY <1>6, <2>1, <2>2, <2>3 DEF CancelPopped
  <2>8. \A f \in Xstream : phase'[f] # "sched" => running'[f] # NoThread
    BY <1>6, <2>1, <2>2, <2>3 DEF CancelPopped
  <2>9. link' \in [Thread -> Thread \cup {NoThread}] /\ pc' \in [Thread -> PC]
    BY <1>6, <2>1, <2>2, <2>3 DEF CancelPopped
  <2>10. goal' \in [Thread -> Thread \cup {NoThread}]
    BY <1>6, <2>1, <2>2, <2>3 DEF CancelPopped
  <2>11. todo' \in [Thread -> Todo]
    BY <1>6, <2>1, <2>2, <2>3 DEF CancelPopped
  <2>12. \A v \in Thread : pc'[v] \in GoalPC => goal'[v] # NoThread
    BY <1>6, <2>1, <2>2, <2>3 DEF CancelPopped
  <2> QED BY <2>4, <2>5, <2>6, <2>7, <2>8, <2>9, <2>10, <2>11, <2>12 DEF TypeOK, ThreadsTypeOK, GoalPC
<1>7. CASE CancelReturned(e)
  <2>1. state' \in [Thread -> ThreadState] /\ request' \in [Thread -> SUBSET Request]
    BY <1>7 DEF CancelReturned
  <2>2. lastES' \in [Thread -> Xstream \cup {NoXstream}]
    BY <1>7 DEF CancelReturned
  <2>3. pool' \in [Pool -> Seq(Thread)] /\ numBlocked' \in [Pool -> Int]
    BY <1>7 DEF CancelReturned
  <2>4. running' \in [Xstream -> Thread \cup {NoThread}] /\ phase' \in [Xstream -> Phase]
    BY <1>7 DEF CancelReturned
  <2>5. \A f \in Xstream : phase'[f] # "sched" => running'[f] # NoThread
    BY <1>7 DEF CancelReturned
  <2>6. link' \in [Thread -> Thread \cup {NoThread}] /\ pc' \in [Thread -> PC]
    BY <1>7 DEF CancelReturned
  <2>7. goal' \in [Thread -> Thread \cup {NoThread}]
    BY <1>7 DEF CancelReturned
  <2>8. todo' \in [Thread -> Todo]
    BY <1>7 DEF CancelReturned
  <2>9. \A v \in Thread : pc'[v] \in GoalPC => goal'[v] # NoThread
    BY <1>7 DEF CancelReturned
  <2> QED BY <2>1, <2>2, <2>3, <2>4, <2>5, <2>6, <2>7, <2>8, <2>9 DEF TypeOK, ThreadsTypeOK, GoalPC
<1> QED
  BY ONLY Sched(e), <1>2, <1>3, <1>4, <1>5, <1>6, <1>7 DEF Sched, Scheduler

\* A step of a scheduler keeps the parts of the invariant.
LEMMA SchedKeeps ==
  ASSUME ProgramOK, JoinInv, NEW e \in Xstream, Sched(e)
  PROVE  PartsOK'
BY RunsKeeps, CancelPopsKeeps, CancelReturnsKeeps, TerminatesKeeps, YieldedKeeps, BlockedKeeps
   DEF Sched, Scheduler

\* So does a call.
LEMMA CallKeeps ==
  ASSUME ProgramOK, JoinInv, NEW u \in Thread, NEW e \in Xstream, On(u, e), Call(u, e)
  PROVE  PartsOK'
<1>1. CASE JoinChoose(u)
  <2>1. \/ pc' = [pc EXCEPT ![u] = "find"] \/ pc' = [pc EXCEPT ![u] = "poll"]
        \/ pc' = [pc EXCEPT ![u] = "block"]
    BY <1>1, Zenon DEF JoinChoose, Goto
  <2> QED BY <1>1, <2>1, JoinFindKeeps, JoinPollKeeps, JoinBlockKeeps
<1>2. CASE JoinPoll(u, e)
  <2>1. \/ pc' = [pc EXCEPT ![u] = "run"]
        \/ YieldThread(u, e) /\ pc' = pc /\ goal' = goal /\ todo' = todo
    BY <1>2, Zenon DEF JoinPoll, Joined, Goto
  <2> QED BY <1>2, <2>1, PollReturnsKeeps, PollYieldsKeeps
<1>3. ~YieldToFails(u)
  BY DEF YieldToFails, JoinInv, PartsOK, TodoOK
<1> QED
  BY <1>1, <1>2, <1>3, JoinKeeps, CancelKeeps, ReviveKeeps, YieldToKeeps, JoinTerminatedKeeps,
     RunTargetKeeps, BlockKeeps, LinkKeeps, SuspendKeeps, ResumeReturnsKeeps, ResumePollsKeeps,
     YieldKeeps, YieldToSwitchKeeps, ExitKeeps DEF Call

\* So does a step of the end of a ULT.
LEMMA EndKeeps ==
  ASSUME JoinInv, NEW u \in Thread, NEW e \in Xstream, running[e] = u, phase[e] \in {"ult", "cancel"},
         End(u, e)
  PROVE  PartsOK'
<1>1. CASE EndLinked(u, e)
  <2>1. CASE phase[e] = "ult" /\ lastES[u] = lastES[link[u]] /\ Goto(u, "jump")
    <3>1. /\ state' = [state EXCEPT ![u] = "TERMINATED"] /\ goal' = goal
          /\ Ends(u) /\ link[u] # NoThread
          /\ UNCHANGED <<request, lastES, pool, numBlocked, running, phase, link, todo>>
      BY <1>1, <2>1, Types DEF EndLinked, Goto, PC
    <3> QED BY <2>1, <3>1, EndLeavesKeeps
  <2>2. CASE ~(phase[e] = "ult" /\ lastES[u] = lastES[link[u]] /\ Goto(u, "jump"))
    <3>1. /\ goal' = [goal EXCEPT ![u] = link[u]] /\ Goto(u, "wake") /\ UNCHANGED <<state, running>>
          /\ Ends(u) /\ link[u] # NoThread
          /\ UNCHANGED <<request, lastES, pool, phase, link, todo>>
      BY <1>1, <2>2 DEF EndLinked
    <3> QED BY <3>1, EndWakesKeeps
  <2> QED BY <2>1, <2>2
<1>2. CASE WaitLink(u)
  BY <1>2, EndWakesKeeps DEF WaitLink, threadVars
<1> QED
  BY <1>1, <1>2, JumpKeeps, EndUnlinkedKeeps, WakeChecksKeeps, WakeReadyKeeps, WakePushKeeps, WakeCountsKeeps,
     StopsKeeps, CancelStopsKeeps DEF End

\* Every step keeps the invariant.
LEMMA JoinNext ==
  ASSUME ProgramOK, JoinInv, [Next]_vars
  PROVE  JoinInv'
<1>1. ASSUME NEW e \in Xstream, Sched(e) PROVE JoinInv'
  BY <1>1, SchedTypes, SchedKeeps DEF JoinInv
<1>2. ASSUME NEW e \in Xstream, NEW u \in Thread, Step(u, e) PROVE JoinInv'
  BY <1>2, CallTypes, CallKeeps, EndTypes, EndKeeps DEF JoinInv, Step, On
<1>3. CASE UNCHANGED vars
  BY <1>3 DEF vars, threadVars, localVars, JoinInv, TypeOK, ThreadsTypeOK, PartsOK, PoolOK,
     QueuedOnce, AtHome, InPool, RunOK, OneRunner, ESOK, ReqOK, PlaceOK, On, Runs, TodoOK, LinkOK,
     Linked, BlockerOK, EndOK
<1> QED
  BY <1>1, <1>2, <1>3 DEF Next

\* Under ProgramOK, JoinInv is an invariant.
LEMMA JoinInvHolds == ProgramOK => (Spec => []JoinInv)
<1> SUFFICES ASSUME ProgramOK PROVE Spec => []JoinInv
  OBVIOUS
<1>1. Init => JoinInv
  BY JoinInit
<1>2. JoinInv /\ [Next]_vars => JoinInv'
  BY JoinNext
<1> QED
  BY <1>1, <1>2, PTL DEF Spec

(***************************************************************************)
(* The blocked ULTs of every pool.                                         *)
(***************************************************************************)

WakerPC == {"push", "dec_blocked"}
BlockedIn(p) == {u \in Thread : state[u] = "BLOCKED" /\ HomePool[u] = p}
LateIn(p) == {w \in Thread : pc[w] \in WakerPC /\ HomePool[goal[w]] = p}
CountInv ==
  \A p \in Pool : numBlocked[p] = Cardinality(BlockedIn(p)) + Cardinality(LateIn(p))

\* A step that counts nobody, and changes none of those that are counted.
SameBlocked ==
  /\ numBlocked' = numBlocked
  /\ \A v \in Thread : state'[v] = "BLOCKED" <=> state[v] = "BLOCKED"
  /\ \A w \in Thread : /\ pc'[w] \in WakerPC <=> pc[w] \in WakerPC
                       /\ pc[w] \in WakerPC => goal'[w] = goal[w]

LEMMA SameBlockedCounts ==
  ASSUME CountInv, SameBlocked
  PROVE  CountInv'
<1>1. \A p \in Pool : BlockedIn(p)' = BlockedIn(p) /\ LateIn(p)' = LateIn(p)
  BY DEF SameBlocked, BlockedIn, LateIn
<1> QED
  BY <1>1 DEF CountInv, SameBlocked

\* What the counts of a pool are before a step.
LEMMA CountSets ==
  ASSUME JoinInv, CountInv, NEW p \in Pool
  PROVE  /\ BlockedIn(p) \in SUBSET Thread /\ Cardinality(BlockedIn(p)) \in Nat
         /\ LateIn(p) \in SUBSET Thread /\ Cardinality(LateIn(p)) \in Nat
         /\ numBlocked[p] \in Int
         /\ numBlocked[p] = Cardinality(BlockedIn(p)) + Cardinality(LateIn(p))
<1>1. BlockedIn(p) \in SUBSET Thread /\ LateIn(p) \in SUBSET Thread
  BY DEF BlockedIn, LateIn
<1>2. \A S \in SUBSET Thread : Cardinality(S) \in Nat
  BY ThreadsAssumption, FS_Subset, FS_CardinalityType
<1> QED
  BY <1>1, <1>2, Types DEF CountInv

\* A joiner blocks and is counted.
LEMMA BlockCounts ==
  ASSUME JoinInv, CountInv, NEW u \in Thread, state[u] # "BLOCKED", state'[u] = "BLOCKED",
         \A v \in Thread : v # u => (state'[v] = "BLOCKED" <=> state[v] = "BLOCKED"),
         numBlocked' = [numBlocked EXCEPT ![HomePool[u]] = @ + 1],
         \A w \in Thread : pc'[w] \in WakerPC <=> pc[w] \in WakerPC, goal' = goal
  PROVE  CountInv'
<1>1. HomePool[u] \in Pool
  BY ThreadsAssumption
<1>2. ASSUME NEW p \in Pool
      PROVE  numBlocked'[p] = Cardinality(BlockedIn(p)') + Cardinality(LateIn(p)')
  <2> DEFINE c == HomePool[u] = p
  <2>1. LateIn(p)' = LateIn(p)
    BY DEF LateIn
  <2>2. BlockedIn(p)' = (IF c THEN BlockedIn(p) \cup {u} ELSE BlockedIn(p)) /\ u \notin BlockedIn(p)
    BY DEF BlockedIn
  <2>3. numBlocked'[p] = numBlocked[p] + (IF c THEN 1 ELSE 0)
    BY <1>1, Types
  <2>4. Cardinality(BlockedIn(p)') = Cardinality(BlockedIn(p)) + (IF c THEN 1 ELSE 0)
    BY <2>2, CountSets, CountNext
  <2> QED BY <2>1, <2>3, <2>4, CountSets
<1> QED
  BY <1>2 DEF CountInv

\* A joiner that its target has switched to is not BLOCKED any more, and is counted out.
LEMMA ReturnCounts ==
  ASSUME JoinInv, CountInv, NEW u \in Thread, NEW e \in Xstream, On(u, e), JoinResume(u),
         state[u] = "BLOCKED"
  PROVE  CountInv'
<1>1. /\ pc[u] = "resume" /\ pc' = [pc EXCEPT ![u] = "run"] /\ goal' = [goal EXCEPT ![u] = NoThread]
      /\ state' = [state EXCEPT ![u] = "RUNNING"]
      /\ numBlocked' = [numBlocked EXCEPT ![HomePool[u]] = @ - 1]
  BY DEF JoinResume, Joined, Goto, DecNumBlocked
<1>2. HomePool[u] \in Pool
  BY ThreadsAssumption
<1>3. ASSUME NEW p \in Pool
      PROVE  numBlocked'[p] = Cardinality(BlockedIn(p)') + Cardinality(LateIn(p)')
  <2> DEFINE c == HomePool[u] = p
  <2>1. LateIn(p)' = LateIn(p)
    BY <1>1, Types DEF LateIn, WakerPC
  <2>2. BlockedIn(p)' = (IF c THEN BlockedIn(p) \ {u} ELSE BlockedIn(p)) /\ (c => u \in BlockedIn(p))
    BY <1>1, Types DEF BlockedIn
  <2>3. numBlocked'[p] = numBlocked[p] - (IF c THEN 1 ELSE 0)
    BY <1>1, <1>2, Types
  <2>4. Cardinality(BlockedIn(p)') = Cardinality(BlockedIn(p)) - (IF c THEN 1 ELSE 0)
    BY <2>2, CountSets, CountNext
  <2> QED BY <2>1, <2>3, <2>4, CountSets
<1> QED
  BY <1>3 DEF CountInv

\* A joiner that has been made READY still counts, for the ULT that has made it so.
LEMMA WakeReadyCounts ==
  ASSUME JoinInv, CountInv, NEW u \in Thread, NEW e \in Xstream, running[e] = u,
         phase[e] \in {"ult", "cancel"}, WakeReady(u)
  PROVE  CountInv'
<1>1. PICK x : x = goal[u]
  OBVIOUS
<1>2. /\ pc[u] = "set_ready" /\ pc' = [pc EXCEPT ![u] = "push"] /\ goal' = goal
      /\ state' = [state EXCEPT ![x] = "READY"] /\ numBlocked' = numBlocked
      /\ x \in Thread /\ link[u] = x
  BY <1>1, Types DEF WakeReady, Goto, JoinInv, PartsOK, EndOK
<1>3. state[x] = "BLOCKED"
  <2>1. state[u] # "TERMINATED"
    BY <1>2, OnEnd DEF EndPC
  <2> QED BY <1>2, <2>1, LinkedJoiner DEF LatePC, Linked
<1>4. ASSUME NEW p \in Pool
      PROVE  numBlocked[p] = Cardinality(BlockedIn(p)') + Cardinality(LateIn(p)')
  <2> DEFINE c == HomePool[x] = p
  <2>1. LateIn(p)' = (IF c THEN LateIn(p) \cup {u} ELSE LateIn(p)) /\ u \notin LateIn(p)
    BY <1>1, <1>2, Types DEF LateIn, WakerPC
  <2>2. BlockedIn(p)' = (IF c THEN BlockedIn(p) \ {x} ELSE BlockedIn(p)) /\ (c => x \in BlockedIn(p))
    BY <1>2, <1>3, Types DEF BlockedIn
  <2>3. Cardinality(BlockedIn(p)') = Cardinality(BlockedIn(p)) - (IF c THEN 1 ELSE 0)
    BY <1>2, <2>2, CountSets, CountNext
  <2>4. Cardinality(LateIn(p)') = Cardinality(LateIn(p)) + (IF c THEN 1 ELSE 0)
    BY <2>1, CountSets, CountNext
  <2> QED BY <2>3, <2>4, CountSets
<1> QED
  BY <1>2, <1>4 DEF CountInv

\* Then that ULT counts it out.
LEMMA WakeDecCounts ==
  ASSUME JoinInv, CountInv, NEW u \in Thread, WakeDec(u)
  PROVE  CountInv'
<1>1. PICK x : x = goal[u]
  OBVIOUS
<1>2. /\ pc[u] = "dec_blocked" /\ pc' = [pc EXCEPT ![u] = "stop"] /\ goal' = goal /\ state' = state
      /\ numBlocked' = [numBlocked EXCEPT ![HomePool[x]] = @ - 1]
      /\ x \in Thread
  BY <1>1, Types DEF WakeDec, DecNumBlocked, Goto
<1>3. HomePool[x] \in Pool
  BY <1>2, ThreadsAssumption
<1>4. ASSUME NEW p \in Pool
      PROVE  numBlocked'[p] = Cardinality(BlockedIn(p)') + Cardinality(LateIn(p)')
  <2> DEFINE c == HomePool[x] = p
  <2>1. LateIn(p)' = (IF c THEN LateIn(p) \ {u} ELSE LateIn(p)) /\ (c => u \in LateIn(p))
    BY <1>1, <1>2, Types DEF LateIn, WakerPC
  <2>2. BlockedIn(p)' = BlockedIn(p)
    BY <1>2 DEF BlockedIn
  <2>3. numBlocked'[p] = numBlocked[p] - (IF c THEN 1 ELSE 0)
    BY <1>2, <1>3, Types
  <2>4. Cardinality(LateIn(p)') = Cardinality(LateIn(p)) - (IF c THEN 1 ELSE 0)
    BY <2>1, CountSets, CountNext
  <2> QED BY <2>2, <2>3, <2>4, CountSets
<1> QED
  BY <1>4 DEF CountInv

\* A scheduler blocks nobody and wakes nobody.
LEMMA SchedCounts ==
  ASSUME ProgramOK, JoinInv, CountInv, NEW e \in Xstream, Sched(e)
  PROVE  CountInv'
<1>1. CASE SchedRun(e) /\ UNCHANGED localVars
  <2>1. PICK p \in Pool :
          /\ phase[e] = "sched" /\ NextPool(e, p)
          /\ state' = [state EXCEPT ![Head(pool[p])] = "RUNNING"]
          /\ pool' = [pool EXCEPT ![p] = Tail(@)]
    BY <1>1, Zenon DEF SchedRun
  <2>2. PICK u : u = Head(pool[p])
    OBVIOUS
  <2>3. u \in Thread /\ state[u] = "READY"
    BY <2>1, <2>2, Popped
  <2>4. SameBlocked
    BY <1>1, <2>1, <2>2, <2>3, Types DEF SameBlocked, SchedRun, localVars
  <2> QED BY <2>4, SameBlockedCounts
<1>2. CASE (ReturnTerminated(e) \/ ReturnYielded(e)) /\ UNCHANGED localVars
  <2>1. PICK u : u = running[e]
    OBVIOUS
  <2>2. u \in Thread /\ phase[e] = "ret"
    BY <1>2, <2>1, Types DEF ReturnTerminated, ReturnYielded, GoesOn
  <2>3. state[u] # "BLOCKED"
    <3>1. state[u] = "BLOCKED" => "BLOCK" \in request[u] /\ pc[u] = "resume"
      BY <2>1, <2>2 DEF JoinInv, PartsOK, RunOK, ESOK
    <3>2. "EXIT" \in request[u] \/ "TERMINATE" \in request[u] => pc[u] # "resume"
      BY <2>2 DEF JoinInv, PartsOK, ReqOK, EndPC
    <3> QED BY <1>2, <2>1, <3>1, <3>2 DEF ReturnTerminated, ReturnYielded, NonYield, Stop
  <2>4. state' = [state EXCEPT ![u] = "TERMINATED"] \/ state' = [state EXCEPT ![u] = "READY"]
    BY <1>2, <2>1 DEF ReturnTerminated, ReturnYielded, MakeReady
  <2>5. numBlocked' = numBlocked /\ UNCHANGED localVars
    BY <1>2 DEF ReturnTerminated, ReturnYielded
  <2>6. SameBlocked
    BY <2>2, <2>3, <2>4, <2>5, Types DEF SameBlocked, localVars
  <2> QED BY <2>6, SameBlockedCounts
<1>3. CASE ReturnBlocked(e) /\ UNCHANGED localVars
  BY <1>3, SameBlockedCounts DEF ReturnBlocked, SameBlocked, localVars
<1>4. CASE CancelPopped(e)
  <2>1. PICK p \in Pool :
          /\ phase[e] = "sched" /\ NextPool(e, p)
          /\ pool' = [pool EXCEPT ![p] = Tail(@)]
          /\ Goto(Head(pool[p]), "end")
    BY <1>4, Zenon DEF CancelPopped
  <2>2. PICK u : u = Head(pool[p])
    OBVIOUS
  <2>3. u \in Thread /\ pc[u] \in RestPC /\ pc' = [pc EXCEPT ![u] = "end"]
    BY <2>1, <2>2, Popped DEF Goto
  <2>4. SameBlocked
    BY <1>4, <2>3, Types DEF SameBlocked, CancelPopped, RestPC, WakerPC
  <2> QED BY <2>4, SameBlockedCounts
<1>5. CASE CancelReturned(e)
  <2>1. PICK u : u = running[e]
    OBVIOUS
  <2>2. u \in Thread /\ phase[e] = "ret" /\ pc' = [pc EXCEPT ![u] = "end"]
    BY <1>5, <2>1, Types DEF CancelReturned, Goto
  <2>3. pc[u] \notin WakerPC
    BY <2>1, <2>2 DEF JoinInv, PartsOK, RunOK, ESOK, WakerPC
  <2>4. SameBlocked
    BY <1>5, <2>2, <2>3, Types DEF SameBlocked, CancelReturned, WakerPC
  <2> QED BY <2>4, SameBlockedCounts
<1> QED
  BY <1>1, <1>2, <1>3, <1>4, <1>5 DEF Sched, Scheduler

\* The calls, of which a join counts its joiner.
LEMMA CallCounts ==
  ASSUME ProgramOK, JoinInv, CountInv, NEW u \in Thread, NEW e \in Xstream, On(u, e), Call(u, e)
  PROVE  CountInv'
<1>1. ASSUME NEW t \in Thread, Join(u, t) PROVE SameBlocked
  BY <1>1, Types DEF Join, Goto, SameBlocked, WakerPC, threadVars
<1>2. ASSUME NEW t \in Thread, Cancel(u, t) PROVE SameBlocked
  BY <1>2 DEF Cancel, SameBlocked
<1>3. ASSUME NEW t \in Thread, Revive(u, t) PROVE SameBlocked
  <2>1. pc[t] \in {"jump", "done"}
    BY <1>3 DEF Revive, JoinInv, PartsOK, PlaceOK
  <2> QED BY <1>3, <2>1, Types DEF Revive, MakeReady, SameBlocked, WakerPC
<1>4. ASSUME NEW t \in Thread, YieldTo(u, t) PROVE SameBlocked
  <2>1. pc[u] = "run" /\ state[u] = "RUNNING"
    BY <1>4, OnES DEF YieldTo
  <2> QED BY <1>4, <2>1, Types DEF YieldTo, MakeReady, Goto, SameBlocked, WakerPC
<1>5. ASSUME JoinTerminated(u) \/ JoinLink(u) \/ JoinSuspend(u, e) \/ Exit(u) PROVE SameBlocked
  BY <1>5, Types DEF JoinTerminated, Joined, JoinLink, JoinSuspend, Exit, Goto, SameBlocked,
     WakerPC, threadVars
<1>6. ASSUME JoinChoose(u) PROVE SameBlocked
  <2>1. \/ pc' = [pc EXCEPT ![u] = "find"] \/ pc' = [pc EXCEPT ![u] = "poll"]
        \/ pc' = [pc EXCEPT ![u] = "block"]
    BY <1>6, Zenon DEF JoinChoose, Goto
  <2>2. pc[u] = "join" /\ state' = state /\ numBlocked' = numBlocked /\ goal' = goal
    BY <1>6 DEF JoinChoose
  <2>3. \A w \in Thread : pc'[w] \in WakerPC <=> pc[w] \in WakerPC
    BY <2>1, <2>2, Types DEF WakerPC
  <2> QED BY <2>2, <2>3 DEF SameBlocked
<1>7. CASE JoinRun(u, e)
  <2>1. PICK t : t = goal[u]
    OBVIOUS
  <2>2. /\ pc[u] = "find" /\ pc' = [pc EXCEPT ![u] = "resume"] /\ goal' = goal /\ InPool(t)
        /\ state' = [state EXCEPT ![t] = "RUNNING", ![u] = "BLOCKED"]
        /\ numBlocked' = [numBlocked EXCEPT ![HomePool[u]] = @ + 1]
    BY <1>7, <2>1 DEF JoinRun, Goto
  <2>3. t \in Thread /\ state[t] = "READY" /\ state[u] = "RUNNING"
    <3>1. t \in Thread
      BY <2>1, <2>2, Types DEF JoinPC
    <3> QED BY <2>2, <3>1, OnES DEF JoinInv, PartsOK, PoolOK
  <2>4. /\ \A w \in Thread : pc'[w] \in WakerPC <=> pc[w] \in WakerPC
        /\ \A v \in Thread : v # u => (state'[v] = "BLOCKED" <=> state[v] = "BLOCKED")
        /\ state'[u] = "BLOCKED"
    BY <2>2, <2>3, Types DEF WakerPC
  <2> QED BY <2>2, <2>3, <2>4, BlockCounts
<1>8. CASE JoinBlock(u)
  <2>1. /\ pc[u] = "block" /\ pc' = [pc EXCEPT ![u] = "link"] /\ goal' = goal
        /\ state' = [state EXCEPT ![u] = "BLOCKED"]
        /\ numBlocked' = [numBlocked EXCEPT ![HomePool[u]] = @ + 1]
    BY <1>8 DEF JoinBlock, SetBlocked, Goto
  <2>2. state[u] = "RUNNING"
    BY <2>1, OnES
  <2>3. /\ \A w \in Thread : pc'[w] \in WakerPC <=> pc[w] \in WakerPC
        /\ \A v \in Thread : v # u => (state'[v] = "BLOCKED" <=> state[v] = "BLOCKED")
        /\ state'[u] = "BLOCKED"
    BY <2>1, Types DEF WakerPC
  <2> QED BY <2>1, <2>2, <2>3, BlockCounts
<1>9. CASE JoinResume(u)
  <2>1. CASE state[u] = "BLOCKED" BY <1>9, <2>1, ReturnCounts
  <2>2. CASE state[u] # "BLOCKED"
    <3>1. /\ pc[u] = "resume" /\ pc' = [pc EXCEPT ![u] = "poll"] /\ state' = state
          /\ numBlocked' = numBlocked /\ goal' = goal
      BY <1>9, <2>2 DEF JoinResume, Goto
    <3>2. SameBlocked
      BY <3>1, Types DEF SameBlocked, WakerPC
    <3> QED BY <3>2, SameBlockedCounts
  <2> QED BY <2>1, <2>2
<1>10. ASSUME JoinPoll(u, e) PROVE SameBlocked
  <2>1. pc[u] = "poll" /\ state[u] = "RUNNING"
    BY <1>10, OnES DEF JoinPoll
  <2>2. CASE Joined(u) /\ UNCHANGED threadVars
    BY <2>1, <2>2, Types DEF Joined, Goto, SameBlocked, WakerPC, threadVars
  <2>3. CASE YieldThread(u, e) /\ UNCHANGED <<pc, goal, todo>>
    BY <2>1, <2>3, Types DEF YieldThread, SameBlocked
  <2> QED BY <1>10, <2>2, <2>3, Zenon DEF JoinPoll
<1>11. ASSUME Yield(u, e) PROVE SameBlocked
  <2>1. pc[u] = "run" /\ state[u] = "RUNNING"
    BY <1>11, OnES DEF Yield
  <2> QED BY <1>11, <2>1, Types DEF Yield, YieldThread, SameBlocked
<1>12. ~YieldToFails(u)
  BY DEF YieldToFails, JoinInv, PartsOK, TodoOK
<1>13. ASSUME YieldToSwitch(u, e) PROVE SameBlocked
  <2>1. PICK t : t = goal[u]
    OBVIOUS
  <2>2. /\ pc[u] = "yield_to" /\ pc' = [pc EXCEPT ![u] = "run"] /\ goal' = [goal EXCEPT ![u] = NoThread]
        /\ InPool(t) /\ state' = [state EXCEPT ![t] = "RUNNING"] /\ numBlocked' = numBlocked
    BY <1>13, <2>1 DEF YieldToSwitch, Goto
  <2>3. t \in Thread /\ state[t] = "READY"
    <3>1. t \in Thread
      BY <2>1, <2>2, Types
    <3> QED BY <2>2, <3>1 DEF JoinInv, PartsOK, PoolOK
  <2> QED BY <2>2, <2>3, Types DEF SameBlocked, WakerPC
<1> QED
  BY <1>1, <1>2, <1>3, <1>4, <1>5, <1>6, <1>7, <1>8, <1>9, <1>10, <1>11, <1>12, <1>13,
     SameBlockedCounts DEF Call

\* The steps of the end of a ULT.
LEMMA EndCounts ==
  ASSUME JoinInv, CountInv, NEW u \in Thread, NEW e \in Xstream, running[e] = u,
         phase[e] \in {"ult", "cancel"}, End(u, e)
  PROVE  CountInv'
<1>1. ASSUME EndLinked(u, e) PROVE SameBlocked
  <2>1. pc[u] \in {"run", "end"} /\ numBlocked' = numBlocked
    BY <1>1 DEF EndLinked, Ends
  <2>2. state[u] # "BLOCKED"
    BY <2>1, OnEnd DEF EndPC
  <2>3. \/ /\ state' = [state EXCEPT ![u] = "TERMINATED"]
           /\ pc' = [pc EXCEPT ![u] = "jump"] /\ goal' = goal
        \/ /\ state' = state
           /\ pc' = [pc EXCEPT ![u] = "wake"] /\ goal' = [goal EXCEPT ![u] = link[u]]
    BY <1>1, Zenon DEF EndLinked, Goto
  <2> QED BY <2>1, <2>2, <2>3, Types DEF SameBlocked, WakerPC
<1>2. ASSUME EndUnlinked(u) \/ WaitLink(u) \/ WakeJoiner(u) \/ WakePush(u) PROVE SameBlocked
  BY <1>2, Types DEF EndUnlinked, Ends, WaitLink, WakeJoiner, WakePush, Goto, SameBlocked, WakerPC, threadVars
<1>3. CASE WakeReady(u) BY <1>3, WakeReadyCounts
<1>4. CASE WakeDec(u) BY <1>4, WakeDecCounts
<1>5. ASSUME StopUlt(u, e) PROVE SameBlocked
  <2>1. /\ pc[u] = "stop" /\ pc' = [pc EXCEPT ![u] = "done"] /\ numBlocked' = numBlocked
        /\ goal' = [goal EXCEPT ![u] = NoThread]
        /\ state' = state \/ state' = [state EXCEPT ![u] = "TERMINATED"]
    BY <1>5 DEF StopUlt, Goto
  <2>2. state[u] # "BLOCKED"
    BY <2>1, OnEnd DEF EndPC
  <2> QED BY <2>1, <2>2, Types DEF SameBlocked, WakerPC
<1>6. ASSUME EndJump(u, e) PROVE SameBlocked
  BY <1>6, Types DEF EndJump, Goto, SameBlocked, WakerPC
<1> QED
  BY <1>1, <1>2, <1>3, <1>4, <1>5, <1>6, SameBlockedCounts DEF End

\* Every step keeps the counts.
LEMMA JoinCounts ==
  ASSUME ProgramOK, JoinInv, CountInv, [Next]_vars
  PROVE  CountInv'
<1>1. ASSUME NEW e \in Xstream, Sched(e) PROVE CountInv'
  BY <1>1, SchedCounts
<1>2. ASSUME NEW e \in Xstream, NEW u \in Thread, Step(u, e) PROVE CountInv'
  BY <1>2, CallCounts, EndCounts DEF Step, On
<1>3. CASE UNCHANGED vars
  BY <1>3, SameBlockedCounts DEF vars, threadVars, localVars, SameBlocked
<1> QED
  BY <1>1, <1>2, <1>3 DEF Next

(***************************************************************************)
(* Theorems.                                                               *)
(***************************************************************************)

\* Every variable has its type.
THEOREM JoinTypeCorrect == ProgramOK => (Spec => []TypeOK)
BY JoinInvHolds, PTL DEF JoinInv

\* A ULT that has terminated is in no pool; if it is on an ES, it is about to jump to a joiner
\* that sleeps in its link, and whose join has not returned.
THEOREM JoinLastJoinerMayFree == ProgramOK => (Spec => []LastJoinerMayFree)
<1>1. JoinInv => LastJoinerMayFree
  <2> SUFFICES ASSUME JoinInv, NEW u \in Thread, state[u] = "TERMINATED"
               PROVE  /\ ~InPool(u)
                      /\ \A e \in Xstream : running[e] = u =>
                           \E v \in Thread :
                             /\ link[u] = v /\ u \in todo[v].join
                             /\ state[v] = "BLOCKED" /\ lastES[v] = e
                             /\ \A f \in Xstream : running[f] # v
    BY DEF LastJoinerMayFree
  <2>1. ~InPool(u) /\ (pc[u] = "jump" \/ ~Runs(u))
    BY DEF JoinInv, PartsOK, PlaceOK
  <2>2. ASSUME NEW e \in Xstream, running[e] = u
        PROVE  /\ link[u] \in Thread /\ u \in todo[link[u]].join
               /\ state[link[u]] = "BLOCKED" /\ lastES[link[u]] = e
               /\ \A f \in Xstream : running[f] # link[u]
    <3>1. pc[u] = "jump"
      BY <2>1, <2>2 DEF Runs
    <3>2. PICK f \in Xstream : On(u, f) /\ lastES[link[u]] = f
      BY <3>1, JumpTarget
    <3>3. f = e
      BY <2>2, <3>2, OnES
    <3> QED BY <3>1, <3>2, <3>3, JumpTarget DEF Linked, Runs
  <2> QED BY <2>1, <2>2
<1> QED BY <1>1, JoinInvHolds, PTL

\* No joiner is lost.
THEOREM JoinNoLostJoiner == ProgramOK => (Spec => []NoLostJoiner)
<1>1. JoinInv => NoLostJoiner
  BY DEF JoinInv, PartsOK, BlockerOK, NoLostJoiner, LatePC
<1> QED BY <1>1, JoinInvHolds, PTL

\* No ULT is on two ESs.
THEOREM JoinOneRunner == ProgramOK => (Spec => []OneRunner)
<1>1. JoinInv => OneRunner
  BY DEF JoinInv, PartsOK, RunOK
<1> QED BY <1>1, JoinInvHolds, PTL

\* A join returns only when its target has terminated: either the joiner sees that it has,
\* or the target has switched to the joiner with its last step.
THEOREM JoinReturnsLate == ProgramOK => (Spec => JoinWaits)
<1>1. ASSUME JoinInv, [Next]_vars, NEW u \in Thread, NEW t \in Thread,
             t \in todo[u].join, t \notin todo'[u].join
      PROVE  state[t] = "TERMINATED"
  <2>1. todo' # todo
    BY <1>1
  <2>2. PICK e \in Xstream, v \in Thread : On(v, e) /\ Call(v, e)
    <3>1. ~UNCHANGED vars
      BY <2>1 DEF vars, localVars
    <3>2. ASSUME NEW e \in Xstream, Sched(e) PROVE FALSE
      BY <2>1, <3>2 DEF Sched, localVars, CancelPopped, CancelReturned
    <3>3. ASSUME NEW e \in Xstream, NEW v \in Thread, End(v, e) PROVE FALSE
      BY <2>1, <3>3 DEF End, EndLinked, EndJump, EndUnlinked, WaitLink, WakeJoiner, WakeReady, WakePush,
         WakeDec, StopUlt
    <3> QED BY ONLY <1>1, <3>1, <3>2, <3>3 DEF Next, Step, On
  <2>3. Joined(v) => t = goal[v]
    BY <1>1, Types DEF Joined, Todo
  <2>4. ~(\E x \in Thread : Join(v, x) \/ Cancel(v, x) \/ Revive(v, x) \/ YieldTo(v, x))
    <3>1. ASSUME NEW x \in Thread, Join(v, x) PROVE FALSE
      BY <2>1, <3>1 DEF Join
    <3>2. ASSUME NEW x \in Thread, Cancel(v, x) PROVE FALSE
      BY <1>1, <3>2, Types DEF Cancel, Todo
    <3>3. ASSUME NEW x \in Thread, Revive(v, x) PROVE FALSE
      BY <1>1, <3>3, Types DEF Revive, Todo
    <3>4. ASSUME NEW x \in Thread, YieldTo(v, x) PROVE FALSE
      BY <1>1, <3>4, Types DEF YieldTo, Todo
    <3> QED BY <3>1, <3>2, <3>3, <3>4
  <2>5. ASSUME Yield(v, e) PROVE FALSE
    <3>1. \A x \in Thread : todo'[x].join = todo[x].join
      BY <1>1, <2>5, Types DEF Yield, Todo
    <3> QED BY <1>1, <3>1
  <2>6. CASE JoinTerminated(v) BY <2>3, <2>6 DEF JoinTerminated
  <2>7. CASE JoinResume(v)
    <3>1. state[v] = "BLOCKED" /\ Joined(v) /\ pc[v] = "resume"
      BY <2>1, <2>7 DEF JoinResume
    <3>2. state[goal[v]] = "TERMINATED"
      BY <1>1, <2>2, <3>1, OnES
    <3> QED BY <2>3, <3>1, <3>2
  <2>8. CASE JoinPoll(v, e)
    BY <2>1, <2>3, <2>8 DEF JoinPoll
  <2>9. ~(\/ JoinChoose(v) \/ JoinRun(v, e) \/ JoinBlock(v) \/ JoinLink(v) \/ JoinSuspend(v, e)
          \/ YieldToFails(v) \/ YieldToSwitch(v, e) \/ Exit(v))
    BY <2>1 DEF JoinChoose, JoinRun, JoinBlock, JoinLink, JoinSuspend, YieldToFails, YieldToSwitch, Exit
  <2> QED BY ONLY <2>2, <2>4, <2>5, <2>6, <2>7, <2>8, <2>9 DEF Call
<1>2. JoinInv /\ [Next]_vars =>
        [\A u, t \in Thread :
           t \in todo[u].join /\ t \notin todo'[u].join => state[t] = "TERMINATED"]_vars
  BY <1>1
<1> QED
  BY <1>2, JoinInvHolds, PTL DEF JoinWaits, Spec

\* num_blocked of every pool counts its BLOCKED ULTs, and those that a waker has made READY
\* and not counted out yet.
THEOREM JoinBlockedCount == ProgramOK => (Spec => []BlockedCount)
<1> SUFFICES ASSUME ProgramOK PROVE Spec => []BlockedCount
  OBVIOUS
<1>1. Init => CountInv
  <2> SUFFICES ASSUME Init PROVE CountInv
    OBVIOUS
  <2>1. numBlocked = [p \in Pool |-> 0]
    BY DEF Init, ThreadsInit
  <2>2. \A p \in Pool : BlockedIn(p) = {} /\ LateIn(p) = {}
    BY DEF Init, ThreadsInit, BlockedIn, LateIn, WakerPC
  <2>3. Cardinality({}) = 0
    BY FS_EmptySet
  <2> QED BY <2>1, <2>2, <2>3 DEF CountInv
<1>2. JoinInv /\ CountInv /\ [Next]_vars => CountInv'
  BY JoinCounts
<1>3. CountInv => BlockedCount
  BY DEF CountInv, BlockedCount, BlockedIn, LateIn, WakerPC
<1> QED
  BY <1>1, <1>2, <1>3, JoinInvHolds, PTL DEF Spec
=============================================================================
