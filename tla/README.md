# TLA+ models of the ART runtime's concurrent core

This directory specifies the parts of the Android runtime in which threads meet:
the locks of `runtime/base/mutex.*`, the barrier, the way `Thread` and
`ThreadList` stop, restart, interrogate, start and end threads, the locks of Java
objects, the heap's choice of collections, the concurrent mark-sweep collector
with reference processing, and the loading and initialisation of classes.  Paths
below are relative to `src/runtime/`.

`PROJECT.json` holds the same information for tools: components, runs, the
source lines of each definition, the faulty variant that each property detects,
findings, hazards and theorems.

## 1. Inventory

### 1.1 The parts that are modelled

**Locks** (`base/mutex.cc`, `base/mutex-inl.h`).
State: `state_`, `exclusive_owner_`, the counters of pending threads, the
kernel's futex queue.  Operations: shared, exclusive, try and timed acquisition,
unlock, wait, timed wait, signal, broadcast.  What is hard: a thread decides to
sleep and another decides whom to wake by looking at two or three words, none of
them under a lock; waits end by wake-up, by `EAGAIN`, by a signal, by time-out;
`Broadcast` moves sleepers from one queue to another.  What must hold: the lock
word tells the truth, counters return to zero, no wake-up is lost.

**Barrier** (`barrier.cc`).
State: `count_` under a mutex with a condition variable.  Operations: `Init`,
`Pass`, `Increment` with and without time-out.  What is hard: passes may precede
the increment that accounts for them.  What must hold: the waiter leaves when,
and only when, all have passed.

**Thread states** (`thread-inl.h`, `thread.cc`).
State: `state_and_flags` (Runnable or not, suspend request, checkpoint request),
`suspend_count`, checkpoint slots, a share of `mutator_lock_`.  Operations:
`TransitionFromRunnableToSuspended`, `TransitionFromSuspendedToRunnable`,
`FullSuspendCheck`, `ModifySuspendCount`, `RequestCheckpoint`,
`RunCheckpointFunction`, creation and destruction.  What is hard: state, flag and
lock change in separate steps and the flag is set by others at any moment.

**ThreadList** (`thread_list.cc`).
State: `list_`, `suspend_all_count_`, `allocated_ids_`, `thread_list_lock_`,
`thread_suspend_count_lock_`, `resume_cond_`.  Operations: `SuspendAll`,
`ResumeAll`, `Register`, `Unregister`, `RunCheckpoint`,
`RunCheckpointOnRunnableThreads`, `SuspendThreadByPeer`,
`SuspendThreadByThreadId`, `Resume`.  What is hard: several of these overlap, the
threads they loop over change state, attach and exit meanwhile, and some use
threads after they have released the lock that protects the list.

**Monitors** (`monitor.cc`, `lock_word.h`, `mirror/object.cc`).
State: the lock word (unlocked, thin, fat, hash), the fat `Monitor` with owner,
count, wait set and hash code, the `MonitorList` and its gate.  Operations:
enter, exit, wait, notify, notify all, interrupt, identity hash code, inflation,
deflation.  What is hard: lock and hash code share one word that is read, then
written, partly by plain stores, while others inflate it with its owner suspended
and the collector deflates it in a pause.

**Heap** (`gc/heap.cc`, `gc/heap-inl.h`, array access in `jni_internal.cc`).
State: the current, the running and the desired collector, the plan, the count
that disables moving collections, the requests to the Java daemons.  Operations:
allocation with its rounds of collections, explicit, background and native
collections, critical array access, process state changes, transitions, trims.
What is hard: each waits for a collection to end and goes on with what it decided
before.

**Concurrent mark-sweep** (`gc/collector/mark_sweep.cc`, its sticky variant,
`gc/reference_processor.cc`, `gc/reference_queue.cc`, `gc/accounting/`).
State: mark and live bitmaps, cards, allocation and live stacks, reference
queues, system weaks.  Operations: every phase of a collection, and what threads
do meanwhile: allocate, load, store, look up referents and weak globals,
finalize.  What must hold: what is reachable is kept, garbage goes.

**Class linker** (`class_linker.cc`, `mirror/class.cc`).
State: class table, dex cache, the status of each class and its lock.  Operations:
find, define, create array class, resolve, verify, initialise.  What is hard:
they call one another recursively, holding class locks, and any of them can fail.

**Their callers**, as far as they matter: `MarkSweep::MarkRootsCheckpoint`, the
profiler's sampling loop, `GetThreadStack`, `nativeSetName`, the signal catcher
and other callers of `SuspendAll`, `ResolveVerifyAndClinit`.

### 1.2 How they interact

```
 collector, profiler, signal catcher, inflation, stack traces
      |            |             |             |
 RunCheckpoint   SuspendAll / ResumeAll   SuspendThreadBy..., Resume
      |            |             |             |
      +---- Thread: state_and_flags, suspend_count, checkpoint slots
      |            |             |
   Barrier    mutator_lock_   thread_list_lock_, thread_suspend_count_lock_, resume_cond_
      |            |             |
    Mutex   ReaderWriterMutex   Mutex + ConditionVariable
                   |
                 futex
```

`Heap`, `MarkSweep`, `Monitor` and `ClassLinker` stand above this picture.  They use
what it provides as follows: a pause takes place while no thread is Runnable, a
checkpoint while its thread is at a safe point (`WorldStopped`,
`SuspendedWhileChecked`), a suspended owner stays suspended (`TargetStaysSuspended`),
a monitor is the lock of `JavaLock`.

The upper models use locks in the abstract form of `RWLock` (or, for the two
mutexes of `ThreadList`, as an owner variable, which is the same thing without
readers); the lower models show that the futex code implements that form.

### 1.3 The parts that are not modelled

See section 8.

## 2. Modules

| module | models | built on |
|---|---|---|
| `RWLock` | what a reader-writer lock promises: the table in `mutex.h` | |
| `ReaderWriterMutex` | `ReaderWriterMutex`, futex build | refines `RWLock` |
| `Mutex` | `Mutex` and `ConditionVariable`, futex build | refines `RWLock` without readers |
| `Barrier` | `Barrier` | extends `Mutex` |
| `ThreadSuspension` | thread states, `SuspendAll`, `ResumeAll`, `Register`, `Unregister` | instantiates `RWLock` as `mutator_lock_`; refines `RWLock` |
| `Checkpoint` | `RunCheckpoint`, `RunCheckpointOnRunnableThreads` and the code that answers them | extends `ThreadSuspension` |
| `SuspendThread` | `SuspendThreadByPeer`, `SuspendThreadByThreadId`, `Resume`, ids and peers | extends `ThreadSuspension` |
| `JavaLock` | what the lock of an object promises a Java program | |
| `Monitor` | `Monitor`, `LockWord`, `MonitorList`, `IdentityHashCode` for one object | refines `JavaLock` |
| `Heap` | `gc::Heap`: which collection runs when | |
| `MarkSweep` | `MarkSweep`, `StickyMarkSweep`, `ReferenceProcessor`, card table, system weaks | |
| `ClassLinker` | `ClassLinker`, `Class::SetStatus`, `ObjectLock` | |
| `MC...` | bounds and fairness for TLC | |
| `..._proofs` | theorems checked by TLAPS | |

### Granularity

A step is one access to memory that another thread reads or writes without the
same lock.  A load followed by a compare-and-swap on the loaded value is one
step, because the swap fails, and the code goes round again, if the value has
changed.  What a mutex protects is merged into one step with its critical
section, *unless* the section also reads something the mutex does not protect:
the loops of `ThreadList` over `list_` take one step per thread, because threads
change state under them.

### State and actions

*ReaderWriterMutex.*  Variables are the fields of the class plus `sleepers` (the
kernel's queue), and per thread a program counter, its operation and its local
`cur_state`.  An acquisition is `Begin`, then `AcquireShared` or
`AcquireExclusive` with `SetOwner`, or `Blocked`, `Pend`, `FutexWait`, one of
`Woken`, `Interrupted`, `TimedOut`, and `Unpend` or `GiveUp`.  A release is
`ReleaseShared`, or `ClearOwner` and `ReleaseExclusive`, then `CheckFirst`,
`CheckSecond` (the two operands of `||`, in the order of each function) and
`FutexWake`.  `aborted` records that `PLOG(FATAL)` was reached.

*Mutex.*  The same style, with both queues.  `Wait` stands for the beginning of
`WaitHoldingLocks` and of `TimedWait` up to the compare-and-swap of the guard's
unlock; the thread then runs through the unlock, `CondFutexWait`, and the code of
`ExclusiveLock`, to `Rewaited`.  A time-out and a signal have the same effect on
the state, so `CondInterrupted` is both.

*Barrier.*  One coordinator and any number of passers.  `at` says where each is in
the barrier's code and the inherited `pc` where it is inside the mutex.

*ThreadSuspension.*  `state` is the state half of `state_and_flags`.  The suspend
flag is not a variable: `ModifySuspendCount` sets it exactly while the count is
not zero, under the lock, so it is `SuspendRequest`.  A thread that is in native
code may do anything a native thread may do; managed code may reach a suspend
check at any time.  The signal catcher marks itself Runnable while it holds
`mutator_lock_` exclusively, to keep the lock while dumping; the model leaves it
`Native` there, since nobody else runs.

*Checkpoint.*  A closure is identified by its requester.  `closures` are the copies
that `RunCheckpointFunction` runs after it has cleared the slots.  `asked` and
`runs` are history variables for the properties.

*SuspendThread.*  `stage` says how far a thread is in a suspension of another
thread, or in its own destruction; `suspended_thread` is the local of that name
(in the peer version, `thread` with `did_suspend_request`).  The 30 second
time-out is a possible outcome of every look but the first.

*Monitor.*  One object.  `lw` is the local copy of the lock word, so that reading it
and storing it are separate steps; `op` is the call, `pc` the place in it.  What
holds `monitor_lock_` from end to end is one step.  A thread is Runnable unless it
is blocked, waiting, or inflating somebody else's lock; `Deflate` happens when no
thread is Runnable.  `SuspendThreadByThreadId` is represented by its promise, which
`SuspendThread` establishes.

*Heap.*  A thread in a call is at a label (`pc`) with the locals of its frame; a
label is a place where it may be suspended or wait.  `object` is the space in which
a thread's array lies.  Sizes and times become choices: an attempt succeeds or not,
a limit is passed or not.

*MarkSweep.*  Objects have one reference field and a card each.  `store` is the half
of a reference store that is still to come (the card after the field), `get_pc` the
place in `GetReferent`.  The collector's `pc` names the phases; root marking goes
thread by thread, card scanning and marking object by object.  The four reference
queues are one set of references, told apart by their kind.

*ClassLinker.*  `stack` is the call stack of each thread, because these functions
call one another; a frame holds the function, the class, the place and the class
locks it has taken.  Failures of loading, linking, verifying and `<clinit>` are
choices.  `VerifyMethods`, `ResolveClass`, `MethodsFail` and `MethodsVerified` are
`MethodVerifier::VerifyClass`: with the lock of the class held it loads types that
the methods mention (`Mentions`), in order, each by `FindClass`, and accepts or
rejects the class.

## 3. Properties and runs

The properties are about what several threads can do to each other.  `PROJECT.json`
lists for each of them the hazards it is meant for.

| run | checks | distinct states |
|---|---|---|
| `rwmutex` | `NoStrandedSleeper`, refinement of `RWLock`, `EveryCallReturns` | 435,924 |
| `mutex` | `MutualExclusion`, `NotifyReachesWaiters`, `EveryContenderAcquires` | 147,605 |
| `barrier` | `LeavesAfterAllPassed`, `CoordinatorReturns` | 20,266 |
| `suspension` | `CountsRequests`, `WorldStopped`, `SuspendAllCompletes`, `EveryoneRunsAgain` | 32,112 |
| `checkpoint` | `SuspendedWhileChecked`, `EveryThreadChecked`, `NoDeletedThreadUsed`, `NoLostResumeAfterCheckpoint`, `CheckpointCompletes` | 198,624 |
| `suspend_one` | `EveryCountOwned`, `TargetStaysSuspended`, `IdStillNamesTarget`, `SuspensionReturns` | 180,324 |
| `monitor` | refinement of `JavaLock`, `MonitorStaysWhileUsed`, `HashNeverChanges`, `SleeperIsReachable`, `EveryEnterReturns` | 315,232 |
| `heap` | `OneCollector`, `CriticalArraysStayPut`, `NothingInRetiredSpace`, `EveryCallReturns`, `DesiredCollectorInstalled` | 152,318 |
| `mark_sweep` | `ReachableIsKept`, `GarbageIsFreed`, `ClearedBeforeFinalized`, `NoForgottenWaiter` | 2,040,514 |
| `class_linker` | `NoCheckFails`, `ClinitRunsOnceAfterSuper`, `ReadyWhenReturned`, `OneClassPerName`, `EveryCallReturns` | 99,232 |

`monitor` and `suspend_one` meet in `IdStillNamesTarget`: inflation identifies the
owner by an id, and the id of a thread that exits goes to the next that attaches.

`ImplementsJavaLock` covers refused calls: `MonitorExit`, `wait` and `notify` of a
thread that does not hold the lock (`NotOwner`), and a `wait` of the holder whose
timeout is out of range (`TimeoutOutOfRange`, `monitor.cc:415`).  The latter inflates the
lock and leaves the holder and its entries alone.

`EveryCallReturns` of `class_linker` names the two ways in which a request may never be
answered.  `InitCycle`: initialisers wait for one another, which the Java language
allows.  `ResolveCycle`: threads wait for one another's class locks, at least one of them
in `EnsureResolved` with the lock of another class held, because it defines or verifies
that class; section 4 shows such a deadlock.  In every other case the request is
answered: no notification is missed, who waits for a `<clinit>` holds no class lock, and
the class locks that verification of superclasses and initialisation nest cause no
deadlock.

Deadlock is checked in the first six: their only states without a further step are
those in which everybody has finished, which stutter explicitly.  In the other
four the bounds on calls let everything come to rest; that nobody is stuck is
`EveryEnterReturns`, `EveryCallReturns` and `NoForgottenWaiter` there.

## 4. What the code does otherwise than it says

Two runs are expected to end with a counterexample.

| run | what happens |
|---|---|
| `mark_sweep_get_referent` | `GetReferent` reads the referent, then whether the slow path is enabled (`gc/reference_processor.cc:49-50`).  Enabling happens in a pause, as `gc/collector/mark_sweep.cc:204` demands, but disabling does not: a thread that reads the referent before the reference is cleared and the flag after it has been reset returns an object that is swept.  `mark_sweep` sets `GetReferentIsAtomic` and finds no other way in which a reachable object is swept. |
| `class_linker_deadlock` | Thread 1 defines B, holds the lock of B, and in `EnsureResolved` wants that of its superclass A, which it saw unresolved (`class_linker.cc:1318-1320`).  Thread 2 has linked A, verifies it with its lock held (`:2576`) and loads B, which a method of A mentions (`verifier/reg_type_cache.cc:148`) or catches (`:2812`).  Both wait for ever, although A has been linked, which is all that `EnsureResolved` says it waits for (`:1317`).  In `class_linker` the same happens, and `EveryCallReturns` excepts it as a `ResolveCycle`. |

The following were found the same way.  The passing runs keep clear of them by
the constants named here; with the other values TLC shows the counterexample.

* `SharedLock` treats `EINTR` as fatal (`base/mutex-inl.h:198`); of the same wait
  `ExclusiveLock` says that it is a spurious failure (`base/mutex.cc:493`).
  `rwmutex` has no `"shared"` in `Interruptible`.
* `Barrier::Increment` waits with `if` (`barrier.cc:55`) although a signal makes
  `Wait` return (`base/mutex.cc:748`); the coordinator can then leave before the
  last pass.  `barrier` has no `Coordinator` in `Interruptible`.
* `SuspendThreadByPeer` raises the target's count, sleeps, finds that the target has
  cleared `nativePeer`, returns NULL and leaves the count raised
  (`thread_list.cc:447`): the target never gets out of `Unregister`.  `suspend_one`
  has the target b outside `Mortal`.
* `nativePeer` is published before `Register` (`thread.cc:299`), so that a starting
  thread's count can be raised, and `Resume` ignores threads that are not in the
  list (`thread_list.cc:402`).  `suspend_one` has no `<<a, c>>` in `PeerCalls`.
* Two threads suspend each other by id while both are Runnable.  Each waits in the
  `ScopedObjectAccess` of its next round (`thread_list.cc:501`) for its own count to
  become zero; the time-out is tested only after that.  `suspend_one` has one caller.
* `Inflate` checks that the lock word is fat after `MonitorList::Add`
  (`monitor.cc:631`).  `Add` may wait for the collector, and a thread that inflates
  for a hash code or a hashed lock word is neither holder nor contender meanwhile:
  a deflation can come in between.  `Monitor` goes on with whatever it finds there.
* A class that is its own superclass makes `EnsureResolved` set the status to Error
  (`class_linker.cc:1322`) and `DefineClass` set it again (`:1476`), against the
  `CHECK_NE` of `mirror/class.cc:76`.  Use `InACycle` of `MCClassLinker`.

Read off the heap model, without a run of their own: the last collection before an
`OutOfMemoryError` does nothing while moving collections are disabled and the
collector moves, so that SoftReferences stay although `gc/heap.cc:1132` says that
they must have been cleared; `ConcurrentGC` drops its request when it had to wait
for any other collection (`gc/heap.cc:2561`); and `IsGCRequestPending`
(`gc/heap.cc:2663`) is true when no request is pending.  The time-out of
`SuspendThreadByPeer` is logged at level FATAL (`thread_list.cc:471`), so
`*timed_out`, which `thread_list.h:67` promises, is never set there; the model ends
such a behaviour with `aborted`.

## 5. Bounds

*Threads.*  Three threads per lock give a holder, a sleeper and a third that
barges in or wakes; readers and writers change roles from call to call.  The
barrier has three passers, so that passes fall before, between and after the
increment.  `suspension` has two suspenders, which run managed code as well, and
a thread that attaches during the SuspendAlls.  `checkpoint` has a collector, a
profiler that also calls `SuspendAll`, and a thread that attaches, runs and exits.
`suspend_one` has a caller, by peer and by id, a target, a thread that is created,
calls `SuspendAll` and exits, and one that attaches itself and exits.  There are three
ids for these four, so that the last two follow each other with the same id, also
while the caller looks for it.  With a fourth id they exist side by side as well; that
was checked apart (3,230,270 states, safety).

`monitor` has two threads, a thin lock that overflows at its second entry, two
hash codes to choose from, four calls besides unlocking, an interrupt and two
pauses.  `heap` has two threads of the program and both daemons, in a process that
was forked from the zygote with CMS in the foreground and a semi-space collector in
the background, the one pair with transitions in both directions and movable
objects in both spaces.  The pair GSS and SS was checked apart (99,041 states,
safety).  `mark_sweep` has two plain objects, a soft and a finalizer reference, so
that chains, cycles and references to references occur, one thread with three
operations and two collections; an instance with two threads, a weak and a phantom
reference was checked apart (11,244,939 states).  `class_linker` has a class, its
superclass, an interface and an array class; the methods of the superclass mention the
class and the interface, and catch the interface.  Two calls per thread were checked
apart (3,443,427 states, safety), and so were a chain of three classes and this hierarchy
with methods that mention one another in a ring (132,861 and 112,438 states).

*Calls.*  `MaxOps`, `MaxLocks`, `MaxHeldCalls`, `MaxSuspendAlls`, `MaxCalls`,
`MaxTrips`, `MaxOperations`, `MaxInterrupts`, `MaxPauses` and `MaxCollections` bound what threads start of their own accord, never how often they go
round a loop inside an operation.  Per thread are `MaxLocks`,
`MaxSuspendAlls`, `MaxTrips` and, but for `Monitor`, `MaxCalls`; the others are
shared.  They are enough
for the overlaps of two operations in every order, which is what the hazards are
about; the theorems of section 7 remove the bounds for the core modules.

*kMaxCheckpoints* is 3 as in the code.  *ThreadIds* is one short of the threads, so
that an id has to be released before the last thread can attach.

*Symmetry* is not used: all but one of the passing runs check properties under
fairness, where it would be unsound, and in the other there is one thread.

## 6. Fairness

Safety needs none.  The liveness properties assume weak fairness of each thread's next
step inside an operation: a thread that can continuously proceed is eventually
scheduled.  Managed code is assumed to reach a suspend check (compiled code has
one in each loop and method), so `FullSuspendCheck` is among these steps.
What a thread does of its own accord, signals, spurious wake-ups and
attaching or detaching are never forced.

`MCSuspendThread` also assumes strong fairness for taking `thread_list_lock_` in a
lookup: pollers leave the lock free for growing intervals (`ThreadSuspendSleep`
doubles its delay), so nobody misses it for ever.

`Monitor` assumes that a thread that holds the lock exits in the end and that the
collector opens the gate for new monitors again.  `Heap` assumes that the Java
daemons serve their requests.  `ClassLinker` assumes that no `<clinit>` runs for
ever and, by strong fairness of `ObjectLock`, that a contended class monitor is won
in the end.  Initialisers that wait for one another, which the Java language
allows, are excepted by name (`InitCycle`), and so are the deadlocks of `EnsureResolved`
(`ResolveCycle`).

`mutator_lock_` gives writers no priority over each other or over readers.
Completion of `SuspendAll` is therefore claimed for finitely many competing
`SuspendAll`s; readers cannot starve it, since their request flags are set.

## 7. What is proved

TLAPS checks the following for every finite set of threads, without bounds on
calls.  The assumptions are the named `ASSUME`s of the modules: the set of
threads is finite, `NoThread` is not in it, and the sets that say who may be
interrupted or may call what are subsets of it; for `Heap`, that a process that
was not forked from the zygote has one collector; for `MarkSweep`, that the heaps it
starts from are closed and that the program does not itself hold FinalizerReferences.

### `ReaderWriterMutex_proofs`

`Invariance` proves the inductive invariant
`Types /\ Positions /\ StateCountsHolders /\ Owner /\ PendingCounted /\ Promised`.
`Positions` ties a thread's operation and queue membership to its place in the
code.  `Promised` is the strengthening that makes `NoStrandedSleeper` inductive:
it speaks also of threads that have *not yet* gone to sleep but will, because
they hold the current value of `state_` in `cur_state`, and relates them to the
unlocks that have not yet finished looking at the counters.  From it follow
`TypeCorrect`, `StateCorrect`, `OwnerCorrect`, `PendingCorrect`, `WakeupCorrect`
and `RWLockCorrect`, the refinement of `RWLock`.  Counting rests on lemmas about
the cardinality of a set of threads when one thread enters or leaves it.

### `Mutex_proofs`

The invariant is `Types /\ Positions /\ Exclusive /\ Recursion /\ Queues /\
Sequence /\ CountersExact /\ NoStrandedContender`.  `Exclusive` and `Recursion`
together are `MutualExclusion` in inductive form, `Queues` says who can be in
which futex queue, `Sequence` that no waiter remembers a value from the future.
It gives `TypeCorrect`, `MutualExclusionCorrect`, `CountersCorrect`,
`WakeupCorrect`, the action property `NotifyCorrect` and the refinement
`LockCorrect`.

The second half of the module is about `Barrier`.  A step of the barrier is a step
of its mutex or leaves it alone (`BarrierStepOnMutex`), so the invariant above holds
there too.  `BarrierInv` adds that `count_` is the number of passes announced less
those made, and the strengthening that `LeavesAfterAllPassed` needs: while the
coordinator is in `Increment` and somebody has not passed, the coordinator is inside
its wait and nothing has happened that could end it (`Unnotified`: `sequence_` is
still the value it remembers, and if it sleeps it is still in the queue).
`LeavesAfterAllPassedHolds` has the hypothesis that the coordinator's own `FUTEX_WAIT`
is not interrupted; without it the property is false, for `Increment` waits without a
loop (barrier.cc:51).

### `ThreadSuspension_proofs`

The invariant is `Types /\ Sharing /\ Locking /\ Counting /\ Waking`.  `Sharing`
says who holds `mutator_lock_` at which place in the code, `Locking` the same of
the two mutexes and of the loops, `Counting` is `CountsRequests` with the cases
of a loop in the middle, `Waking` is `NoLostResume` with the places where a
thread sleeps.  It gives `TypeCorrect`, `CountsCorrect`, `WorldStoppedCorrect`,
`NoDanglingCorrect`, `NoLostResumeCorrect` and `StopTheWorldCorrect`: that a
thread is Runnable and that a thread has stopped the world are the two sides of a
reader-writer lock.

### `Checkpoint_proofs`

For any number of threads, collectors, profilers and concurrent `SuspendAll`s.  The
invariant `CheckpointInv` has the places and locks of `ThreadSuspension` again, with
the collector's and the profiler's places in them, and three parts of its own.
`CCounting`: a suspend count is the number of `SuspendAll`s in force plus the number of
collectors that keep the thread suspended, so a thread whose count a collector has
raised cannot become Runnable or leave the list.  `Slots`: a thread has checkpoints
to run only while it is Runnable, and each requester's once, in its slots or among
the closures it has taken out of them, not both.  `Rounds`: for every requester the
threads asked so far are divided into those that still have its closure, those it
has raised and not yet run it for, and those it has run for; `count` and the barrier
are the cardinalities of these sets.  It gives `SuspendedWhileCheckedHolds`,
`EveryThreadCheckedHolds`, `NoDeletedThreadUsedHolds`,
`NoLostResumeAfterCheckpointHolds` and `WorldStoppedWithCheckpoints`.

### `Heap_proofs`

For every finite set of program threads, every pair of collectors and any number
of calls.  The invariant is `TypeOK /\ Counted /\ OneCollector /\
CriticalArraysStayPut /\ NothingInRetiredSpace`.  `Counted` is what makes it
inductive: the arrays in movable spaces whose address a thread holds are at most
`disable_moving_gc_count_`, so a collection that finds the count zero moves nothing
that is pinned.  Most steps are *quiet*: they move a thread between labels outside
the collecting ones, and place an array only with the current allocator; each
is shown quiet by a lemma of its own and `QuietPreserves` covers them all.
What is left are the steps that begin, carry out and end a collection, a
transition or a trim, and those that pin and unpin.  `PlanInBounds` and `NextIndex`
show that loops over `gc_plan_` stay inside it while a transition replaces it.
From the invariant follow `OneCollectorCorrect`, `CriticalArraysCorrect` and
`RetiredSpaceCorrect`.

### `Monitor_proofs`

For every finite set of threads and every recursion limit, without bounds on calls,
interrupts and pauses.  The invariant `MonitorInv` is `TypeOK /\ Words /\ Monitors
/\ Counted /\ SleeperIsReachable` and, for each thread, `Mine`: what the thread may
conclude from the lock word it read some steps ago (`Known`, `Installing`).  A word
is stale in general.  It is not stale if it is the thread's own thin lock, a hash
code, which nobody takes away, or the lock of an owner the thread keeps suspended;
`Counted` is what connects the last case to the suspend count, and it also makes
`num_waiters_`, by which `Deflate` decides, the number of threads inside.  `Steady`
says what a step of one thread may do to what others know, and `SteadyStep` is the
lemma through which every action passes.  From the invariant follow
`MonitorIsNotDeflatedWhileUsed`, `IdentityHashCodeIsStable` and
`SleepingWaiterCanBeWoken`.  `LockImplementsJavaLock` is the refinement: only the
compare-and-swaps and stores that take or give up the lock, `Wait` and the end of a
wait are steps of `JavaLock`; inflation and deflation stutter.

### `MarkSweep_proofs`

For every finite heap, any threads and any number of collections, full and sticky.
`CollectorInv` says phase by phase what has been marked.  `TriColour` is for marking: a
reference from a marked to an unmarked object leaves an object that will be
scanned again, on the mark stack, on a dirty card, or on a card that an
unfinished store is about to dirty, or else is a referent in the queue.  `CardFirst`
and `Remembered` say the same of the write barrier before marking begins; sticky
collections rest on them.  After the pause `KeptEdges` and `KeptHeld` say that what
is marked, or was allocated since, refers to nothing else.  `Confinement` is for
the time in which references are processed: there is a set of objects that threads
cannot leave, although the collector marks beyond it.  It gives
`ReferencesClearedBeforeFinalization`.  `ReachableObjectsAreKept` needs only that what
is allocated is closed under references, for reachability is defined as the least
closed set.  `GarbageIsFreedByFullCollection` adds `Doomed`, that nobody gets hold of
what was garbage at the start.  These theorems assume `GetReferentIsAtomic`; without
it the first is false (section 4).  `NoWaiterIsForgotten` does not assume it.

### Only model-checked

All liveness properties (the proof system has no rules for fairness), and
everything about `SuspendThread` and `ClassLinker`.

`StateCountsHolders`, `OwnerIsHolder`, `PendingCounted`, `CountersExact`,
`NoStrandedContender`, `NoDanglingThread`, `NoLostResume` and two of the refinements
are proved and therefore not checked again by a run.

## 8. Abstractions, and what is not modelled

* Memory is sequentially consistent.  The code uses compare-and-swap with acquire
  or release order and full barriers (`MembarStoreLoad`, `__sync_...`); whether
  these suffice on each architecture is not examined.
* Counters and `sequence_` are unbounded integers.
* `LOG(FATAL)` and failing `CHECK`s are either shown unreachable, by the property
  that says so, or end the behaviour (`aborted`).
* All thread states but `kRunnable` are one value.  No modelled function tells
  them apart; `CheckpointMarkThreadRoots` accepts `kWaitingPerformingGc` for the
  collector's own thread, which the model treats as the requester's own run.
* `heap_bitmap_lock_`, which the collector releases around its wait, protects
  nothing in the models.
* `Monitor` is about one object; thread ids do not change in it (that is the
  subject of `SuspendThread`).
* `MarkSweep` has one space.  Parallel marking, immune spaces, large objects and the
  expansion of the mark stack are left out.  Object identities are not reused, so
  that a reference to a freed object can be told from one to its successor.
* What a futex call does is modelled from its uses.  `FUTEX_WAKE` with the count -1
  (`base/mutex.cc:527`, `base/mutex-inl.h:226`) is taken to wake everybody, as the code
  means it; how the kernel treats a negative count is not part of this repository.
  `NoStrandedSleeper` depends on it: it fails if only one sleeper is woken.
* `ClassLinker` is about classes of the boot class path after start-up, in a runtime
  that verifies classes (the early exit of `class_linker.cc:2600` is for one that does
  not).  The verifier is modelled as far as it loads classes; what it concludes about
  the code of a method is a choice.  Classes of
  the image, `kStatusRetryVerificationAtRuntime` (set by the compiler only), proxies
  and user class loaders, whose `findClass` is Java code, are left out.
* `Heap` leaves out `PreZygoteFork`, which runs before there are other threads.

`PROJECT.json` lists every part that is not modelled, with its reason.  They are of
three kinds.

* *Other state machines.*  Debugger suspension and JDWP need the event machinery
  that drives them from outside the process.  Shutdown and thread birth run once, and
  the source marks their race as known (`thread_list.cc:58`).  Thread pools, intern
  table and indirect reference tables do their work under one lock.
* *Data structures*: allocators, spaces, mod-union tables, semi-space copying.
  They are single-threaded or under a lock, and a model would be of their layout.
* *Translations*: compilers, the verifier's analysis of a method, interpreter, assembly
  stubs, file formats, the JNI surface, tools.  They make up most of the repository's
  lines.  Their own state belongs to one thread, and where they call the parts above
  (the verifier loads classes, the interpreter locks, allocates and reaches suspend
  checks) the call is an action of that part's model.

Known and outside the models: `sequence_` of a condition variable wraps after 2^32
notifies (`base/mutex.cc:691`); `RunCheckpoint` retries with
`thread_suspend_count_lock_` held when all three checkpoint slots of a Runnable
thread are full (`thread_list.cc:227`), which two requesters cannot bring about;
`SuspendAll` ends the process after 30 seconds (`thread_list.cc:337`); a Thread whose
`pthread_create` failed is deleted before its `nativePeer` is cleared
(`thread.cc:319`); `SuspendAllForDebugger` asserts that all threads are suspended
after it has released `mutator_lock_` (`thread_list.cc:601`).

The mapped lines are therefore a small share of the repository, although they are
most of what threads do to each other in `runtime/`.

## 9. Running

```
tlc -config MCThreadSuspension.cfg MCThreadSuspension
tlc -config Heap.cfg Heap
tlapm Heap_proofs.tla
```
