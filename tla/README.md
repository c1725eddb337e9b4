# Argobots: a TLA+ verification project

The repository is a user-level threading runtime, Argobots (`src/argobots/src`),
with an OpenMP runtime (BOLT, in `src/llvm/projects/openmp/runtime/src/abt`) that
is built on it and a vendored LLVM/clang that compiles OpenMP programs for it.
The core logic, and the concurrency, are those of Argobots: this project models
Argobots.  All the paths below are relative to `src/argobots/src`.

## 1. Inventory

| Component | State it keeps | Operations | What is hard |
|---|---|---|---|
| ULT layer (`thread.c`, `include/abti_thread.h`, `arch/abtd_thread.c`) | `state`, `request` bits, `p_last_xstream`, `p_link` of every ULT; the ULT each ES runs | create, revive, yield, yield_to, suspend, set_ready, join, exit, cancel, migrate | a ULT can be woken, joined, cancelled or migrated by another ES at any point between two of its own steps |
| Pools (`pool/fifo.c`, `pool/pool.c`) | a doubly linked list of units, `num_scheds`, `num_blocked`, `num_migrations`, the producer and consumer ES | push, pop, remove, size | accesses by several ESs; a unit removed that was popped meanwhile; the two counters that keep an ES alive |
| Schedulers (`sched/*.c`) | pools, request bits, state | run, finish, exit, has_to_stop, effective size | stopping while ULTs are blocked or migrating |
| ESs (`stream.c`) | state, request bits, stack of schedulers, rank | create, start, join, exit, cancel, set_main_sched | join racing with the last ULT; a joiner that blocks |
| Mutex (`mutex.c`, `thread_htable.c`) | the lock word, a table of waiting ULTs, the handover pair | lock, lock_low, spinlock, trylock, unlock, unlock_se | lost wake-ups, handover without freeing, per-ES queues in circular lists |
| Condition variable (`cond.c`) | waiters, their mutex | wait, timedwait, signal, broadcast | time-out racing a signal; re-acquiring without yielding |
| Eventual, future (`eventual.c`, `futures.c`) | ready flag or counter, waiters | wait, test, set, reset | a set racing a wait; reuse after reset |
| Barriers (`barrier.c`, `stream_barrier.c`) | counter, waiters | wait, reinit | reuse for the next phase while ULTs of the last are still waking |
| Readers-writer lock (`rwlock.c`) | reader count, writer flag, a mutex and a condition | rdlock, wrlock, unlock | a waiter that was not there when the broadcast began; writer starvation |
| Tasklets (`task.c`) | state, request | create, join, cancel | joined by polling |
| Memory pools (`mem/malloc.c`, `include/abti_mem.h`) | the pages of every ES, two free lists and two counters in each page, the stacks of every ES, global lists of both | allocate and free a block or a stack, end of an ES | blocks freed by another ES than the owner of their page, without a lock; unmapping a page that somebody still touches |
| Work stealing (`stream.c`, `ABT_my_*`, `ABT_xstream_check`) and the schedulers of BOLT that drive it | lists of the states of the ESs and the sizes of their shared pools | check, steal, migrate, `get_info`, `set_r_info`, `set_s_info` | lists that every ES reads and writes without synchronisation; a pool that is empty by the time of the pop |
| Work-unit local storage, event, timers, logging, environment (`key.c`, `event.c`, ...) | – | – | see section 7 |

How they interact: an ES's scheduler pops a ULT from a pool and switches to its
context; the ULT runs until it yields, blocks or ends, and switches back (or
straight to another ULT).  Every blocking object does the same thing: it queues the
calling ULT, marks it BLOCKED, sets its BLOCK request, counts it in `num_blocked` of
its pool, and switches to the scheduler, which resets the request; whoever wakes the
ULT waits for that reset, marks it READY, pushes it to its pool and counts it out.

What makes each part correct: a ULT is on one ES, or in one pool, or waits in one
queue, never in two of these; whoever waits is woken by the event it waits for, and
by nothing else; the counter of blocked ULTs is exact, because an ES stops when it
reads zero; a mutex has one owner, a barrier releases whole groups, a join returns
after the end of its target and not before, and nothing touches a ULT afterwards; a
block or a stack has one user, and the page that it lies in is mapped; a unit that one
scheduler takes from another is neither lost nor run twice.

## 2. Modules

| Module | Models | State and its code |
|---|---|---|
| `Threads` | the layer under every blocking object: `ABTI_thread_set_blocked`, `_suspend`, `_set_ready`, yield, the run of a unit, the scheduler's handling of a ULT that comes back | `state`, `request`, `lastES` (`p_last_xstream`) of every ULT; `pool` and `numBlocked` of every pool; `running`, `phase` of every ES |
| `Mutex` | `ABT_mutex_*` with the table of waiters of `thread_htable.c` and the handover of `unlock_se` | the lock word `val`, the queues of every ES and priority, the circular list of queues in use, `p_handover`, `p_giver` |
| `LockSpec` | what a mutex promises: one owner at a time | implemented by `Mutex` (`ImplementsLock`) |
| `Join` | join, exit, cancel, revive, yield, yield_to and the end of a ULT (`ABTD_thread_terminate`, `ABTD_thread_cancel`) | `link` is `ctx.p_link`, where a joiner leaves its context |
| `Cond` | `ABT_cond_wait`, `_timedwait`, `_signal`, `_broadcast` over several mutexes | the queue `waiters`, `waiterMutex`, the spinlock `condLock` |
| `Barrier` | `ABT_barrier_wait` | `counter`, `waiters` (an array), `lock`, and `index`, the loop variable of the last ULT |
| `BarrierSpec` | what a barrier promises: groups of `num_waiters` are released whole | implemented by `Barrier` (`ImplementsBarrier`) |
| `Future` | `ABT_eventual_*` and `ABT_future_*` wait, test, set, reset | `ready`, `counter`, `lock`, `waiters` of every object |
| `Stream` | the main loop of an ES and its stop: `ABTI_xstream_schedule`, `sched_run`, `check_events`, `has_to_stop`, the effective size; `ABT_xstream_join` and `_cancel`; `ABT_thread_migrate_to_xstream` and `_to_pool` | `xstate`, `xrequest`, `reqArg` (`p_req_arg`), `schedState`, `schedRequest`, `schedLock` of every ES; `numMigrations`; `home` (`p_pool`) and `target` of every ULT; `at`, `size`: how far the counters were added up |
| `RWLock` | `ABT_rwlock_rdlock`, `_wrlock`, `_unlock` with the wait and the broadcast of the condition variable under them | `readerCount`, `writeFlag`, the queue `waiters`, `owner` of the inner mutex |
| `RWLockSpec` | what a readers-writer lock promises: a writer is alone | implemented by `RWLock` (`ImplementsRWLock`) |
| `Mem` | `ABTI_mem_alloc_task`, `_free_task`, `_free_remote`, `_take_free`, `_alloc_thread`, `_free_thread`, `_finalize_local`, the global lists and the layout of a stack page | `head`, `free` (`p_head`, `p_free`), `numEmpty`, `numRemote`, `owner` of every page; `pages`, `stacks`, `numStacks` of every ES |
| `Steal` | the loop of BOLT's scheduler, `ABT_xstream_check`, `ABT_my_migrate`, `ABT_get_info`, `ABT_set_r_info`, `ABT_set_s_info` | `emptyList`, `esState`, `stateList`; `pool`, `home` (the pool of a unit), `unit` (what an ES is moving) |
| `ThreadsProofs` | the invariant of the ULT layer, for the proofs about what is built on it | |
| `MutexProofs`, `JoinProofs`, `CondProofs`, `RWLockProofs`, `BarrierProofs`, `FutureProofs` | the proofs about these modules | |
| `XstreamProofs` | the proofs about `Stream`, `Mem` and `Steal`: what an ES keeps | |
| `MCMutex`, `MCJoin`, `MCCond`, `MCBarrier`, `MCFuture`, `MCRWLock`, `MCMem`, `MCSteal`, `MCStream` | values of the constants for TLC | |

`Stream` does not extend `Threads`: its ULTs change their pool, which is a constant there,
and its schedulers stop.  It models the same protocol of blocking and waking, with the
pool as a variable.  `xpc[e]` says where an ES is in its loop; get_effective_size is one
step per counter, because other ESs push, migrate and wake between its reads.

`Steal` does not extend `Threads` either, for a stolen ULT changes its pool, too.  A unit
that an ES has popped to move it is in `unit[e]`; the ULTs of its instance yield, suspend
themselves and are resumed from outside (`waking`).  Its ESs are never stopped.

`Mem` is about addresses, and has neither ULTs nor schedulers: an ES is idle or at a
place (`mpc`) in one of the operations.  The blocks linked in a list are the list.  A
compare-and-swap loop is one step.  `Word` stands for 2^32: the counters are unsigned, and
`num_empty_blks` does wrap around.  `StackBase` is the arithmetic of a stack page.  Its
specification is called `MemSpec`, its ESs `MemXstream`, and so on, for `XstreamProofs` extends
both `Stream` and `Mem`.

`Threads` has no next-state relation.  The module of every object (`Mutex`, `Join`, `Cond`,
`RWLock`, `Barrier`, `Future`) extends it, and composes
its own actions with the scheduler's (`Sched(e)`), so that each of them is checked with
the whole layer under it.  An ES is in its scheduler (`phase` = `sched`), in a ULT
(`ult`), back from a ULT whose requests are still to be handled (`ret`) or ending a
cancelled ULT (`cancel`).  `pc[u]` says where in an operation ULT `u` is.

One action is one step that other ESs can observe: an atomic instruction on a shared
word, a critical section of a spinlock, a push, a context switch.  A critical section
in which a ULT waits for something (the loops that call `ABTI_thread_set_ready`, which
spins for the BLOCK request) is several actions with the lock held.

Faulty variants: some definitions are followed or preceded by others that do what the
code would do with a plausible mistake in it: a flag that is not reset, a test that is
dropped, two lines swapped.  They are used by no specification.  Each property was
checked to fail when the definition it watches is replaced by such a variant;
`PROJECT.json` lists the pairs under `mutants`.

## 3. Runs

| Run | Instance | What it shows |
|---|---|---|
| `mutex` | 4 ULTs, two in a pool of one ES's own (lock, lock_low), two in a pool of 2 ESs (lock, trylock, spinlock); unlock and unlock_se, yields in the critical section | one owner at a time through chains of handovers; no waiter is forgotten and none runs before it has left its stack, however lock, barging and unlock interleave; the list of queues stays linked, the blocked count exact; all finish; implements `LockSpec` |
| `join` | 4 ULTs in a private and a shared pool that join, yield to, cancel and revive each other | every way to wait (running the target, suspending, polling) meets every way to end; the target finds its joiner in every order of their steps; a terminated ULT is in no pool, and on an ES only until it jumps to a joiner that still sleeps |
| `cond` | 2 waiters, one with a time-out and either of two mutexes, a producer that signals or broadcasts, with or without the mutex | no signal is lost between queueing, unlocking and suspending; the recorded mutex is that of all waiters, and is forgotten with the last; a time-out that races a signal frees its unit once; a woken waiter gets its mutex |
| `barrier` | 3 ULTs, 2 rounds | nobody overtakes a round; groups are released whole: implements `BarrierSpec` |
| `future` | an eventual set, reset and set again; a future of two compartments; polls; a set too many | nobody sleeps on what is ready, nobody is woken by less |
| `rwlock` | 2 readers, a writer and a ULT of either kind, which comes twice; yields while the lock is held | nobody shares the lock with a writer, though unlock guesses what its caller held; no ULT sleeps on a lock that is free for it; all get it: implements `RWLockSpec` |
| `stream_stop` | 3 ESs, 4 ULTs, a pool shared by two ESs, a private one and three of one ES each; one ES is joined by a ULT that blocks while one of its own ULTs sleeps and another migrates to it; one is cancelled and joined by a ULT that polls | an ES that was joined ends with nothing left that only it could run; the count of migrations is right at every step; a ULT is in one place; every join returns; the program keeps to what the theorems ask of one (`CallersOK`, see section 4) |
| `mem` | 3 ESs, 4 pages of 2 blocks, 2 pages of 3 stacks; up to 5 allocations, one end of an ES | no block or stack is handed out twice; no page is unmapped that is in use or being freed into; the two counters of a page add up, modulo the word; stacks do not overlap |
| `steal` | 2 ESs with a pool of their own and a shared one each, 3 ULTs that yield or suspend, a tasklet | no unit is lost or doubled on its way between pools; the counts of blocked ULTs add up; every ULT is run in the end instead of being taken back and forth |
| `future_reset` | violation | a future that was reset cannot be set again, and the failing set keeps the lock |
| `stream_leak` | violation | a ULT ends while its migration is pending: the ES it was to go to counts it for ever and cannot be joined |
| `mutex_low` | violation | `lock_low` in a pool that two ESs share: a ULT that is still switching away is woken and run by the other ES |

Two runs say `CHECK_DEADLOCK FALSE`: `future_reset` ends with a ULT that nobody will ever
wake, and in `mutex_low` a ULT that runs twice may leave nothing to do.

Bounds.  Three ULTs are enough for one owner of a mutex, one waiter in its queue and
one on its way there; a handover needs two waiters on the owner's ES and a fourth ULT on
the other.  `MaxWakeups` is 1, the default of the code; `MaxHandovers` is 1 (64 in the
code), so that the limit is reached.  Two ESs are enough for every race between a
sleeper and its waker: only two ESs take part in any of the protocols.  Two rounds of
the barrier are those between which it is reused.  `stream_stop` checks for events after every
second unit (50 in the code): the number only delays the stop.  Its joined ES needs a pool
of its own and a shared one, for blocked ULTs count in the first only.  Programs of the clients are finite,
so that the state spaces are; the ULTs end after them.

Three ESs in `mem` are the owner of a page, one that frees into it remotely and one that
adopts it; two blocks per page let one be in use and one be free, or both be on their way
back; the fourth page is where a new one can be mapped while the others are in every state.
`Word` is 6, the smallest that the code's 2^32 allows one to conclude from (blocks of a
page and ESs stay below it), so that both counters wrap around.  Three stacks per page and
two pages let the row of headers be first, and between two stacks.  `MaxStacks` is 1, so
that an ES has more than it may keep.  In `steal` two ESs are a thief and its victim,
and each is both; `N` stands for the 40 that is written into `stream.c` in place of the number
of ESs.

Fairness.  Weak fairness of every ES's scheduler and of every ULT while it is on an ES:
the operating system runs the threads of the ESs.  A ULT that is in no ES has no fairness
of its own: it depends on a scheduler popping it, and on its waker.  In `Cond` the
clock advances (`Tick`), so that a time-out comes at last.  Nothing is assumed about
spinlocks beyond that.  Strong fairness is assumed of one action, `SetRInfo` of `Steal`:
BOLT's scheduler calls `ABT_set_r_info` every 50000th round of a loop that it never leaves, and
the model does not count the rounds.  `Mem` has no liveness property: an operation on
the memory pools waits for nobody but the holder of a spinlock.

## 4. Proofs

Each theorem holds for any sets of ULTs, ESs, pools, pages and objects, any programs of
the clients, and any values of the limits, under the assumptions that the modules state
about their constants.  `PROJECT.json` lists the theorems and the properties of the runs
that they state.

The assumptions about the ULTs, in `Threads`: there are finitely many; each is created in one
pool at most, and that is the pool that `p_pool` names (`ABTI_thread_create` pushes it there);
an ES's scheduler has a list of pools.  Which ESs share which pools, and who calls what in
which order, is free, unless a theorem says otherwise.

`MutexProofs` has all the safety properties that `mutex` checks, the types of its variables
(which no run checks separately), and that `Mutex` implements
`LockSpec`.  The invariant has four layers:

* `IInv`: types and mutual exclusion, handovers included.  That `val - 1` stays in range when an
  owner releases the mutex rests on `val` being non-zero while somebody owns it, which is the
  second half of mutual exclusion.  This needs no assumption about the programs.
* `PlacesInv`: where a ULT can be, and what its state and its requests are there.  It is in one pool,
  or on one ES, or in one queue of the table, or named in the handover pair, or in the hands of
  one ULT that is about to wake or switch to it; in the queues it may still be on its stack.  That a waker finds a BLOCKED ULT
  (`WakesBlocked`) and that nobody runs on two ESs (`OneRunner`) are parts of it, and
  neither is inductive: the waker takes its ULT from a queue, and the queue had it from a ULT that
  may not have left its stack yet.  For the refinement of `LockSpec` it says who takes part in
  the handover, and that the ULT that gets the mutex has left the queues.
* `QueuesLinked`: a queue that holds a waiter is in the list of its level, once.  Given the types, it
  is inductive as it stands, and needs no assumption about the programs either.
* `WakeInv`: while somebody waits, or is about to enter a queue, the lock word is 2, or a
  handover is going on, or a ULT is on its way to set the word to 2 or to look at the queues
  (`Hurries`; `NoLostWakeup` follows).  What closes it: a ULT holds the lock of the table from its
  last look at the lock word until it is in the queue, and whoever is woken sets the word to 2.
* `CountInv`: `num_blocked` is the number of BLOCKED ULTs, plus the wakers that have not counted
  out yet, less the ULTs in the middle of `switch_low` (`BlockedCount`).

The other theorems suppose `LowPrivate`: a ULT that calls `lock_low` lives in a pool
that one ES alone serves.  The code does not demand it, and the run `mutex_low` shows what happens
without: `lock_low` queues its caller with no BLOCK request to wait for.  `MutexBlockedCount` also
supposes `LowOnePool`, that those of one ES live in one pool, because `switch_low` moves a count of
blocked ULTs between two ULTs without looking at their pools.  `MCMutex` has TLC
check both on the instance of `mutex`, and that the one of `mutex_low` satisfies only the second.

`JoinProofs` has all the safety properties that `join` checks.  The invariant `JoinInv` follows a
joiner and its target through every way of meeting: `PoolOK`, `RunOK`, `ReqOK` and `PlaceOK` say
what the state, the requests and the place in the program of a ULT are in a pool, on an ES and
after its end; `TodoOK` that it is in a call of its program; `LinkOK`, `BlockerOK` and `EndOK`
are the protocol.  Whoever is in a ULT's link has blocked in its join and is still asleep, until
the ULT that ends has made it READY; whoever has blocked is in the link or about to enter it, and
the target, which has seen its JOIN request, waits for it there (`NoLostJoiner`).  A ULT that ends
stays on its ES until it is TERMINATED, and nobody pushes it meanwhile, for it joins nobody
any more.  If it jumps to its joiner it is TERMINATED a step before it leaves its stack; until
then the joiner sleeps in its link, so whoever returns from the last join of a ULT finds it on no
ES and may free it (`LastJoinerMayFree`; section 5 says what an earlier one finds).
`LayerInv` of `ThreadsProofs` does not hold here: `yield_to` pushes its caller while it runs, and a
joiner that runs its target is BLOCKED without a request.

The theorems suppose `ProgramOK`, what the code leaves to its callers without a check: the
sharing of a pool is what its access kind says; `yield_to` is called in pools of one ES only; a
ULT that is revived has one joiner, who revives it; nobody blocks in the join of a
ULT that another joiner may run itself; a ULT that may be cancelled joins nobody.  Each of the
five is needed.  On an instance that only violates that one, TLC finds: with a PRIV pool that two
ESs serve, a joiner that looks for a target in the pool while the other ES has it (a
deadlock); `LastJoinerMayFree` violated by a `yield_to` in a shared pool; `JoinWaits` by a second
joiner of a ULT that is revived; `NoLostJoiner` by two joiners, of which one runs the target;
`BlockedCount` by the cancel of a ULT that joins.  The instance of `join` satisfies `ProgramOK`, as
`MCJoin` has TLC check, with yield_to, revive, cancel and two joiners of one ULT in it.

`CondProofs`: types, `OneMutex`, `NoLostWaiter`, `HoldsMutex`, and the safety of the layer.  The
invariant says that whoever is BLOCKED is in the queue, or in the hands of the one ULT that
has unlinked it and holds the lock of the condition variable; that a ULT in the queue is asleep
(or polls, if it has a time-out, and then its unit is not signalled); and that the recorded mutex
is that of everyone in the queue.  A signal and the time-out of the same wait meet
in the lock: the unit is unlinked by one of them.

`ThreadsProofs` has no theorem of its own: `Threads` has no next-state relation.  It proves that
every operation of the layer (popping, yielding, blocking, waking, ending) keeps `LayerInv`,
which says that no ULT is on two ESs (`OneRunner`), in a pool before its context is saved
(`SavedBeforePush`), or in its pool twice (`QueuedOnce`).  None of these is inductive.  That
a woken ULT is on no stack rests on the BLOCK request being there as long as it is on one,
which rests on the request being set with the state BLOCKED and reset by the scheduler of the
same ES; so `LayerInv` relates `state`, `request`, `running` and `phase`.  The modules below
cite these lemmas; what an object has to contribute is that it wakes none but BLOCKED ULTs.

`BarrierProofs`: types (the counter never exceeds the size of a group, and a waker finds a ULT in
the array), the safety of the layer, and that the barrier implements `BarrierSpec`.  The
invariant adds that the lock is held from the completion of a group until all of it is
awake, and that the entries of the array that are still to be woken (up to `counter`, or from
`index` on) are BLOCKED ULTs, each once: that is why a ULT that is back early cannot slip
into the group that is being released.

`FutureProofs`: types, `NoSleeper`, `OnlyResolved` and the safety of the layer.  The invariant says
that whoever is BLOCKED is in the queue of the object it waits for, once, and all in a queue
are BLOCKED but the head that was woken a moment ago; and that the queue of an object that
is ready and not locked is empty.

`RWLockProofs`: types (the count of readers never drops below zero, though unlock decrements it
for anyone who finds no writer), `NoSleeper`, that it implements `RWLockSpec`, and the safety of
the layer.  The invariant counts: `readerCount` is the number of ULTs that hold the lock
for reading, and `writeFlag` says whether one holds it for writing, although neither names
its holders; and whoever has decided to wait still has a reason to when it enters the queue
(`Waits`), because it has the mutex all the while.

`XstreamProofs`, about `Stream`: types, `OnePlace`, `MigrationCount`, `NothingLeft`, and that the
count of blocked ULTs of each pool is right.  The argument has four layers:

* `StreamInv`, in every program: where a ULT can be, what its state and its requests are in a
  pool, on an ES, asleep and after its end, and where an ES is in its loop with it.  Whoever
  wakes a ULT or takes it out of a pool finds it in no other place (`OnePlace`).
* `BlockedCount`: `num_blocked` of a pool is the number of its BLOCKED ULTs, plus those who have
  woken one and have not counted it out.
* `Surplus`: what `num_migrations` of a pool has beyond the ULTs that are on their way to it.  In
  every program it is never negative (`StreamMigrationBound`): an ES may wait for a migration
  that never comes, as `stream_leak` shows, but does not miss one.  Where a ULT has one migration
  pending at a time it is zero (`MigrationCount`).
* `StopInv`: what an ES has found out when it stops.  It adds up its counts one by one, while
  other ESs push, migrate and wake.  While it holds `sched_lock`, the pools that it has read and
  that it alone serves have nobody BLOCKED and nobody on the way to them, and that stays true:
  a ULT gets there by a migration, which needs the lock, or from there.  Once the scheduler is
  marked as stopped, `ABT_thread_migrate_to_xstream` refuses; the ES reads its counts again, and a
  pool that has nobody asleep, nobody on its way and nobody queued stays empty.  So nothing is
  left in the end (`NothingLeft`).

The last three suppose something about the callers, which the code does not check:

* `OneMigration`: a ULT has one migration pending at a time (`MigrationCount` only).
* `CountedOut`: no ULT migrates between the step of `ABTI_thread_set_ready` that pushes it and the
  one that counts it out, of the pool it has by then (`BlockedCount`, `NothingLeft`).
* `CountedEarly`: `ABT_thread_migrate_to_pool`, which posts its request first and counts the
  migration after, has returned before an ES that has the pool is joined (`NothingLeft`).

The run `stream_stop` checks that its program keeps to all three (`CallersOK`), so they can be met by a
program in which ULTs block, migrate and are joined.  The second is not the program's doing alone:
a ULT that has blocked in the join of an ES and then migrates keeps to it because it waits for the
OS thread of that ES, which counted it out before it ended.  Each is needed: a program of `MCStream`
that migrates a ULT to a pool while the ES of that pool is being joined, or one that lets a
sleeper migrate as soon as it is awake, makes TLC find an ES that ends with a ULT left.

`XstreamProofs`, about `Steal`: `UnitsOnce` and `BlockedTotal`, of an instance (`Bolt`) whose constants
are its own.  The invariant says what a unit is in a pool, in the hands of an ES, asleep and gone,
and that the lists, which are read and written without a lock, decide only where a scheduler looks
next.  The theorems state the properties as `Bolt!UnitsOnce` and `Bolt!BlockedTotal`, which is why
`PROJECT.json` names no property of theirs.  The count of one pool may be wrong for good, and the sum is not; to be within the reach of
the prover it is stated by the sizes of two sets, what the positive counts have and what the
negative ones owe, rather than by a fold.  The assumptions of `Steal` say that BOLT has pushed every
unit to one pool, once, and that there are finitely many ULTs.

The three parts of `XstreamProofs` are independent of each other.  `Steal` and `Stream` have variables
of the same names there; a theorem of the one holds whatever values they have and uses nothing of
the other.

`XstreamProofs`, about `Mem`: types, `BlocksOnce`, `NoDangling`, `FreeBlocks`, `StacksOnce` and
`StacksApart`.  They rest on each other in a circle that only the whole invariant closes.  A block is handed out
once because a new page has no blocks in use; it has none because a page is unmapped only
when unused; that is so because its counters say so, and they count right because a block
is in one list only.  The counters are read without a lock and each is off at times, even
below zero; what holds is that their sum, modulo `Word`, is the number of blocks less those
in use and those on their way back (`CountOK`).  An ES that ends reads `NumBlocks` there only
if these are none, because they are fewer than `Word`: that is what the assumption about `Word` is
for.  `LocalInv` says that the page that an ES works on is its own, and the first one when
it ends.  `StacksApart` holds for all sizes of stacks and headers.

Only model-checked: all liveness (`Termination`, `EveryJoinReturns`), which is beyond what the prover
supports.  Every other property of a passing run is proved, but for `CallersOK`, which says something
about the program of one run.

## 5. What the code does that its docs do not say

The three findings are in the table above; `PROJECT.json` quotes the lines.  Further
hazards are in reach of the modules, but in no run:

* Two ULTs join the same ULT (`thread.c:348`, `390`): the second joiner overwrites the link of a
  first that ran the target itself, and the first sleeps for ever.  `MCJoin`, two joiners of
  one ULT that yields, all in `p1`: `EveryJoinReturns` fails.
* A joiner cancelled between setting itself BLOCKED and being noted as blocked
  (`stream.c:2003`): it is terminated, still counted in `num_blocked`, and its target later switches
  to it.  `MCJoin`, `a` in a pool of its own that cancels `d` while `d` joins `c`, which yields once,
  with both in the shared pool, where `e1` looks last: `BlockedCount` and `LastJoinerMayFree` fail.
* A ULT that jumps to its joiner is TERMINATED before it reads its link again and leaves its stack
  (`abtd_thread.c:76`, `81`), although the comment at `include/abti_stream.h:142-145` says that "we must not
  access any field of p_thead after changing the state to TERMINATED".  A second joiner that
  polls on another ES may return in between, and would free the stack too early.  It happens in
  the run `join` itself: that a terminated ULT is on no ES is violated there, and so is that a
  ULT whose join by somebody has returned is on none.
* A cancelled ES ends without waking a ULT that has blocked in its join (`stream.c:1897`);
  two joiners of one ES overwrite each other's `p_req_arg` (`stream.c:513`); a ULT of an MPMC pool
  that joins its own ES blocks for ever, where the doc says that the call returns
  immediately (`stream.c:452`).  `EveryJoinReturns` of `Stream` fails for each.
* `ABTI_thread_set_ready` decrements `num_blocked` of the pool that the woken ULT has after the
  push (`thread.c:1880`); a ULT that migrates at once moves the decrement to another pool,
  whose count drops below zero.  Give the sleeper of `MCStream` a `migrate_to_pool` of its own after
  its `sleep`.  (The joiner of an ES is safe from it: it waits for the end of the waking ES.)
* `ABT_thread_yield_to` in a pool that two ESs serve (`thread.c:772`): the caller is pushed
  before its context is saved.  `MCJoin`, all in `p2`, one ULT that yields to another:
  `OneRunner` fails.  In a pool of one ES the target cannot leave between the
  test and the removal, because `ABTI_thread_is_ready` (`thread.c:1890`) tests that it is in the pool
  before it tests the state; only a shared pool gets to the error path (`YieldToFails`).
* `ABT_cond_wait` with critical sections that yield, and all ULTs on one ES
  (`include/abti_cond.h:145`): the woken waiter spins for its mutex on the ES that alone could
  run the owner.  `MCCond` with a second producer and one ES for all: a deadlock.
* A block list that is not empty is overwritten (`mem/malloc.c:498`): `ABTI_mem_take_free` makes the
  remotely freed blocks the free list of a page whatever that was, which loses free blocks in
  `ABTI_mem_finalize_local` and after the page was adopted.  Nothing hands them out again; they
  are still counted as free, so that the page is unmapped with them.
* `ABTI_mem_free_thread` keeps a stack while `num_stacks <= mem_max_stacks`: one more than
  `mem_max_stacks` in the end.
* The primary ES's own pool is created after a first scheduler's, so that all ids are one higher than
  the positions that `empty_list` and `state_list` are read by, and the index of the last ES is
  behind the end of `state_list` (`stream.c`, `ABT_xstream_check`); the model lets that read be anything.
* A tasklet that BOLT's schedulers pop is lost (`stream.c:1528`): state LOST in `Steal`.
* A ULT in an ES's own pool may be moved to its shared pool and stolen: that includes the main
  ULT, in the pool of the primary ES.
* The count of blocked ULTs of one pool may stay wrong in `Steal`; only the sum is right
  (`BlockedTotal`), and the stop of an ES looks at single pools.
* Smaller ones, not in the models: a tasklet is refused by a barrier after the counter was
  incremented and with the lock held (`barrier.c:166`); a waiter frees its unit without the
  lock of the condition variable (`cond.c:142`); a setter reads the link of a waiter that
  also links it in a pool, in time (`eventual.c:211`); the ready flag of a future is set before
  its callback (`futures.c:256`); ranks are claimed without the lock of their array
  (`stream.c:2463`).
* a cancel between two reads of the request field (`stream.c:2003`, `2009`): the models read it
  once, as a compiler may, and do not have this.

The passing runs avoid these on purpose: they use `lock_low` and `yield_to` in pools of one ES
and yield in the critical sections of `Cond` over shared pools.

## 6. Abstractions and assumptions

* A pool is a sequence; push, pop and remove are atomic.  The size check before the lock
  of `pool_pop` and the linked list are left out; the producer checks of PRIV pools also.
* `request` bits are set and reset atomically, as the code's fetch-and-or does; a ULT that
  sets TERMINATE for itself and switches away takes one step.
* A direct jump to another ULT (`switch`, `terminate`) sets the state of the ULT that is left
  and changes the ULT on the ES in one step.
* `Cond` and `RWLock` run over mutexes that are a bit, taken by trying again: the protocols on
  top do not depend on how a mutex sleeps.  In `RWLock` every ULT takes the lock a finite
  number of times: an endless stream of readers can starve a writer in the code.
* `Mem`: a page is of a fixed number of blocks; a stack page is never unmapped, as in the code
  before the very end; the stacks of an ES that has ended are unreachable and stay so.
* `Steal`: the counts of rounds after which a scheduler looks at the lists (1000 and 50000) are
  left to chance.  The lists are read and written a word at a time.
* The clients (what a ULT calls and in which order) are external to the repository.  Their
  programs are constants; a ULT ends when its program is finished.
* Waiters that are not ULTs (external threads that spin on a flag) are left out everywhere,
  as are scheduler ULTs, orphaned and unpushed ULTs.
* `Stream`: pools are PRIV or MPMC, and a pool with one scheduler has that scheduler's ES as
  its consumer, as `ABTI_xstream_set_main_sched` sets it and the modelled calls leave it.  The
  ESs are created and started before the model begins.  A ULT has one migration pending
  at a time, and its argument and its request bit are set in one step.  The scheduler adds
  up its size only when it was asked to finish: without that, the result is not used.
* Copied values, callbacks and error strings are left out.

## 7. Not modelled

The life of a tasklet but for its block and its loss; stacked schedulers; the creation of
objects, ULTs and ESs, and the primary ES; the linked lists of pools; ranks; the recursive
mutex; `ABT_barrier_reinit`; external threads.  `stream_barrier.c` wraps a pthread barrier.
Work-unit local storage is sequential; events, timers, logging, environment and info are
start-up and input/output.  `prio` and `randws` scan pools as the schedulers that are modelled do.
BOLT is a client of Argobots of its own size, of which only the scheduler is modelled; LLVM and
clang, nearly all of the repository's lines, are third-party code.

## 8. Plan

1. `Stream`: joiners of cancelled ESs, `ABT_xstream_exit` and `_free`, `migrate_to_sched`, and an
   abstract specification of a join that it implements.
2. The linked list of `pool/fifo.c` as an implementation of the sequences of `Threads`.
3. The recursive mutex; ranks; the stop of an ES whose scheduler steals.
