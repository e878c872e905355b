----------------------------- MODULE Checkpoint -----------------------------
(***************************************************************************)
(* Checkpoints, on top of ThreadSuspension: Thread::RequestCheckpoint and  *)
(* RunCheckpointFunction (runtime/thread.cc), ThreadList::RunCheckpoint as *)
(* MarkSweep::MarkRootsCheckpoint calls it, and                            *)
(* RunCheckpointOnRunnableThreads as the sampling profiler calls it.  Both *)
(* callers then wait at a barrier that every closure passes; the barrier   *)
(* is the integer that Barrier.tla keeps, and a wait for it to be zero.    *)
(*                                                                         *)
(* A closure is named by the thread that requested it.                     *)
(***************************************************************************)
EXTENDS ThreadSuspension, Sequences

CONSTANTS
  Collectors,       \* call MarkRootsCheckpoint
  Profilers,        \* run the sampling loop
  kMaxCheckpoints   \* slots of a thread

Requesters == Collectors \cup Profilers

ASSUME CheckpointAssumption ==
  Requesters \subseteq Threads /\ Collectors \cap Profilers = {} /\ kMaxCheckpoints \in Nat

VARIABLES
  checkpoint_functions,  \* of each thread, the slots in use; its
                         \* kCheckpointRequest flag is set while there are any
  closures,              \* those RunCheckpointFunction has copied and not yet run
  modified,              \* RunCheckpoint's suspended_count_modified_threads
  cur,                   \* the one of them it is at
  count,                 \* what RunCheckpoint will return
  barrier,               \* count_ of the requester's Barrier
  asked, runs            \* history: whom the loop asks, and how often each
                         \* thread's checkpoint has run in this round

requests == <<checkpoint_functions, closures>>
round == <<modified, cur, count>>
history == <<asked, runs>>
cvars == <<vars, requests, round, barrier, history>>

CInit ==
  /\ Init
  /\ checkpoint_functions = [t \in Threads |-> << >>]
  /\ closures = [t \in Threads |-> << >>]
  /\ modified = [r \in Requesters |-> {}]
  /\ cur = [r \in Requesters |-> NoThread]
  /\ count = [r \in Requesters |-> 0]
  /\ barrier = [r \in Requesters |-> 0]
  /\ asked = [r \in Requesters |-> {}]
  /\ runs = [r \in Requesters |-> [t \in Threads |-> 0]]

\* r's closure runs on u: it visits u's roots or takes a sample, then passes.
Run(r, u) ==
  /\ runs' = [runs EXCEPT ![r][u] = @ + 1]
  /\ barrier' = [barrier EXCEPT ![r] = @ - 1]
  /\ UNCHANGED asked
-----------------------------------------------------------------------------
(* The thread that is asked.                                               *)

CheckpointRequest(t) == checkpoint_functions[t] # << >>

\* Under thread_suspend_count_lock_: copy the slots, clear them and the flag.
\* CheckSuspend and TransitionFromRunnableToSuspended both come here first.
RunCheckpointFunction(t) ==
  /\ CheckpointRequest(t)
  /\ thread_suspend_count_lock_ = NoThread
  /\ Goto(t, "running", "closures")
  /\ closures' = [closures EXCEPT ![t] = checkpoint_functions[t]]
  /\ checkpoint_functions' = [checkpoint_functions EXCEPT ![t] = << >>]
  /\ UNCHANGED <<list_, counts, state, mutator_lock_, locks, resume_waiters, todo,
                 round, barrier, history>>

RunClosure(t) ==
  /\ closures[t] # << >>
  /\ Run(Head(closures[t]), t)
  /\ closures' = [closures EXCEPT ![t] = Tail(@)]
  /\ Goto(t, "closures", IF Len(closures[t]) = 1 THEN "running" ELSE "closures")
  /\ UNCHANGED <<list_, counts, state, mutator_lock_, locks, resume_waiters, todo,
                 checkpoint_functions, round>>

\* A thread stops being Runnable only when its checkpoint flag is clear.
CEnterNative(t) == ~CheckpointRequest(t) /\ EnterNative(t)
CFullSuspendCheck(t) == ~CheckpointRequest(t) /\ FullSuspendCheck(t)
-----------------------------------------------------------------------------
(* Thread::RequestCheckpoint and the loops over list_.                     *)

\* Fails if u is not Runnable or its slots are full.
RequestCheckpoint(r, u) ==
  /\ state[u] = "Runnable"
  /\ Len(checkpoint_functions[u]) < kMaxCheckpoints
  /\ checkpoint_functions' = [checkpoint_functions EXCEPT ![u] = Append(@, r)]

LockForLoop(r, from, to) ==
  /\ LockThreadList(r, from, to)
  /\ UNCHANGED <<requests, round, barrier, history>>

BeginLoop(r, from, to) ==
  /\ StartLoop(r, from, to)
  /\ modified' = [modified EXCEPT ![r] = {}]
  /\ count' = [count EXCEPT ![r] = 0]
  /\ asked' = [asked EXCEPT ![r] = list_ \ (Profilers \cap {r})]
  /\ runs' = [runs EXCEPT ![r] = [t \in Threads |-> 0]]
  /\ UNCHANGED <<list_, counts, state, mutator_lock_, thread_list_lock_, resume_waiters,
                 requests, cur, barrier>>

\* One successful request of the loop at `at'.
Requested(r, at) ==
  /\ pc[r] = at
  /\ \E u \in todo[r] :
       /\ RequestCheckpoint(r, u)
       /\ todo' = [todo EXCEPT ![r] = @ \ {u}]
  /\ count' = [count EXCEPT ![r] = @ + 1]
  /\ UNCHANGED <<list_, counts, state, mutator_lock_, locks, resume_waiters, pc,
                 closures, modified, cur, barrier, history>>

EndLoop(r, from, to) ==
  /\ todo[r] = {}
  /\ Goto(r, from, to)
  /\ UnlockBoth(r)
  /\ UNCHANGED <<list_, counts, state, mutator_lock_, resume_waiters, todo,
                 requests, round, barrier, history>>
-----------------------------------------------------------------------------
(* ThreadList::RunCheckpoint, between the two halves of                    *)
(* MarkSweep::MarkRootsCheckpoint.  The collector is not Runnable but holds *)
(* a share of mutator_lock_.                                               *)

CollectorShare(r, from, to) ==
  /\ Goto(r, from, to)
  /\ MutatorLock!AcquireShared(r)
  /\ UNCHANGED <<list_, counts, state, locks, resume_waiters, todo,
                 requests, round, barrier, history>>

CollectorUnshare(r, from, to) ==
  /\ Goto(r, from, to)
  /\ MutatorLock!ReleaseShared(r)
  /\ UNCHANGED <<list_, counts, state, locks, resume_waiters, todo,
                 requests, round, barrier, history>>

StartMarking(r) == r \in Collectors /\ CollectorShare(r, "native", "marking")
RunCheckpoint(r) == LockForLoop(r, "marking", "checkpoint")
CheckpointBegin(r) == BeginLoop(r, "checkpoint", "checkpointLoop")
CheckpointRequested(r) == Requested(r, "checkpointLoop")

\* RequestCheckpoint failed and the thread is still not Runnable.
CheckpointRefused(r) ==
  /\ Goto(r, "checkpointLoop", "checkpointRaise")
  /\ \E u \in todo[r] :
       /\ state[u] # "Runnable"
       /\ cur' = [cur EXCEPT ![r] = u]
       /\ todo' = [todo EXCEPT ![r] = @ \ {u}]
  /\ UNCHANGED <<list_, counts, state, mutator_lock_, locks, resume_waiters,
                 requests, modified, count, barrier, history>>

CheckpointRaise(r) ==
  /\ Goto(r, "checkpointRaise", "checkpointLoop")
  /\ ModifySuspendCount(cur[r], 1)
  /\ modified' = [modified EXCEPT ![r] = @ \cup {cur[r]}]
  /\ count' = [count EXCEPT ![r] = @ + 1]
  /\ UNCHANGED <<list_, suspend_all_count_, state, mutator_lock_, locks, resume_waiters, todo,
                 requests, cur, barrier, history>>

CheckpointUnlock(r) == EndLoop(r, "checkpointLoop", "checkpointSelf")

\* Faulty: does not count the collector itself.
CheckpointSelfUncounted(r) ==
  /\ Goto(r, "checkpointSelf", "checkpointNext")
  /\ Run(r, r)
  /\ UNCHANGED <<list_, counts, state, mutator_lock_, locks, resume_waiters, todo,
                 requests, round>>

CheckpointSelf(r) ==
  /\ Goto(r, "checkpointSelf", "checkpointNext")
  /\ Run(r, r)
  /\ count' = [count EXCEPT ![r] = @ + 1]
  /\ UNCHANGED <<list_, counts, state, mutator_lock_, locks, resume_waiters, todo,
                 requests, modified, cur>>

CheckpointNext(r) ==
  /\ Goto(r, "checkpointNext", "checkpointWait")
  /\ \E u \in modified[r] : cur' = [cur EXCEPT ![r] = u]
  /\ UNCHANGED <<list_, counts, state, mutator_lock_, locks, resume_waiters, todo,
                 requests, modified, count, barrier, history>>

\* Faulty: does not wait for the thread to stop.
CheckpointWaitSkipped(r) ==
  /\ Goto(r, "checkpointWait", "checkpointRun")
  /\ UNCHANGED <<list_, counts, state, mutator_lock_, locks, resume_waiters, todo,
                 requests, round, barrier, history>>

\* Faulty: polls for a thread that is Runnable.
CheckpointWaitInverted(r) ==
  /\ pc[r] = "checkpointWait"
  /\ IF IsSuspended(cur[r])
     THEN UNCHANGED cvars
     ELSE /\ pc' = [pc EXCEPT ![r] = "checkpointRun"]
          /\ UNCHANGED <<list_, counts, state, mutator_lock_, locks, resume_waiters, todo,
                         requests, round, barrier, history>>

\* Polled, with ThreadSuspendSleep in between.
CheckpointWait(r) ==
  /\ Goto(r, "checkpointWait", "checkpointRun")
  /\ IsSuspended(cur[r])
  /\ UNCHANGED <<list_, counts, state, mutator_lock_, locks, resume_waiters, todo,
                 requests, round, barrier, history>>

CheckpointRun(r) ==
  /\ Goto(r, "checkpointRun", "checkpointLower")
  /\ Run(r, cur[r])
  /\ UNCHANGED <<list_, counts, state, mutator_lock_, locks, resume_waiters, todo,
                 requests, round>>

\* Only thread_suspend_count_lock_ is taken here.
CheckpointLower(r) ==
  /\ thread_suspend_count_lock_ = NoThread
  /\ Goto(r, "checkpointLower", "checkpointNext")
  /\ ModifySuspendCount(cur[r], -1)
  /\ modified' = [modified EXCEPT ![r] = @ \ {cur[r]}]
  /\ UNCHANGED <<list_, suspend_all_count_, state, mutator_lock_, locks, resume_waiters, todo,
                 requests, cur, count, barrier, history>>

\* Faulty: nobody is woken.
CheckpointSilently(r) ==
  /\ modified[r] = {}
  /\ Goto(r, "checkpointNext", "checkpointed")
  /\ UNCHANGED <<list_, counts, state, mutator_lock_, locks, resume_waiters, todo,
                 requests, round, barrier, history>>

CheckpointBroadcast(r) ==
  /\ modified[r] = {}
  /\ thread_suspend_count_lock_ = NoThread
  /\ Goto(r, "checkpointNext", "checkpointed")
  /\ resume_waiters' = {}
  /\ UNCHANGED <<list_, counts, state, mutator_lock_, locks, todo,
                 requests, round, barrier, history>>

Checkpointed(r) == CollectorUnshare(r, "checkpointed", "increment")

\* Barrier::Increment: add the number of threads asked, then wait for zero.
Increment(r, from, to) ==
  /\ Goto(r, from, to)
  /\ barrier' = [barrier EXCEPT ![r] = @ + count[r]]
  /\ UNCHANGED <<list_, counts, state, mutator_lock_, locks, resume_waiters, todo,
                 requests, round, history>>

AwaitZero(r, from, to) ==
  /\ barrier[r] = 0
  /\ Goto(r, from, to)
  /\ UNCHANGED <<list_, counts, state, mutator_lock_, locks, resume_waiters, todo,
                 requests, round, barrier, history>>

CollectorIncrement(r) == Increment(r, "increment", "await")
CollectorAwait(r) == AwaitZero(r, "await", "rootsMarked")
ResumeMarking(r) == CollectorShare(r, "rootsMarked", "sweeping")
FinishCollection(r) == CollectorUnshare(r, "sweeping", "native")
-----------------------------------------------------------------------------
(* One turn of the profiler's loop, with RunCheckpointOnRunnableThreads.   *)

\* profiler_barrier_->Init(self, 0) and the first lock.
Sample(r) ==
  /\ r \in Profilers
  /\ LockThreadList(r, "native", "sample")
  /\ barrier' = [barrier EXCEPT ![r] = 0]
  /\ UNCHANGED <<requests, round, history>>

SampleBegin(r) == BeginLoop(r, "sample", "sampleLoop")
SampleRequested(r) == Requested(r, "sampleLoop")

\* RequestCheckpoint returned false.
SampleRefused(r) ==
  /\ pc[r] = "sampleLoop"
  /\ \E u \in todo[r] :
       /\ state[u] # "Runnable" \/ Len(checkpoint_functions[u]) = kMaxCheckpoints
       /\ todo' = [todo EXCEPT ![r] = @ \ {u}]
       /\ asked' = [asked EXCEPT ![r] = @ \ {u}]
  /\ UNCHANGED <<list_, counts, state, mutator_lock_, locks, resume_waiters, pc,
                 requests, round, barrier, runs>>

SampleUnlock(r) ==
  EndLoop(r, "sampleLoop", IF count[r] = 0 THEN "native" ELSE "sampleIncrement")

SampleIncrement(r) == Increment(r, "sampleIncrement", "sampleAwait")
SampleAwait(r) == AwaitZero(r, "sampleAwait", "native")
-----------------------------------------------------------------------------
Unaffected == UNCHANGED <<requests, round, barrier, history>>

\* What a thread does of its own accord.
CChoose(t) ==
  \/ (CEnterNative(t) \/ LeaveNative(t) \/ SuspendAll(t) \/ RegisterLock(t) \/ Destroy(t))
     /\ Unaffected
  \/ StartMarking(t) \/ Sample(t)

\* The steps of ThreadSuspension that checkpoints leave as they are.
BaseStep(t) ==
  \/ SharedUnlock(t)
  \/ CheckRequest(t) \/ WaitForResume(t) \/ Woken(t) \/ SharedLock(t) \/ CasToRunnable(t)
  \/ SuspendAllBegin(t) \/ SuspendAllLoop(t) \/ SuspendAllUnlock(t) \/ ExclusiveLock(t)
  \/ ResumeAll(t) \/ ResumeAllLock(t) \/ ResumeAllBegin(t) \/ ResumeAllLoop(t)
  \/ ResumeAllBroadcast(t)
  \/ Register(t) \/ Unregister(t)

CheckpointStep(r) ==
  \/ RunCheckpoint(r) \/ CheckpointBegin(r) \/ CheckpointRequested(r) \/ CheckpointRefused(r)
  \/ CheckpointRaise(r) \/ CheckpointUnlock(r) \/ CheckpointSelf(r) \/ CheckpointNext(r)
  \/ CheckpointWait(r) \/ CheckpointRun(r) \/ CheckpointLower(r) \/ CheckpointBroadcast(r)
  \/ Checkpointed(r) \/ CollectorIncrement(r) \/ CollectorAwait(r) \/ ResumeMarking(r)
  \/ FinishCollection(r)

SampleStep(r) ==
  \/ SampleBegin(r) \/ SampleRequested(r) \/ SampleRefused(r) \/ SampleUnlock(r)
  \/ SampleIncrement(r) \/ SampleAwait(r)

CStep(t) ==
  \/ (BaseStep(t) \/ CFullSuspendCheck(t)) /\ Unaffected
  \/ RunCheckpointFunction(t) \/ RunClosure(t)
  \/ t \in Collectors /\ CheckpointStep(t)
  \/ t \in Profilers /\ SampleStep(t)

CSpurious(t) == SpuriousWakeup(t) /\ Unaffected

CNext == \E t \in Threads : CChoose(t) \/ CStep(t) \/ CSpurious(t)

CSpec == CInit /\ [][CNext]_cvars
-----------------------------------------------------------------------------
\* While a closure runs on a thread on that thread's behalf, the thread stays
\* suspended: the CHECK of CheckpointMarkThreadRoots::Run, for its whole run.
SuspendedWhileChecked ==
  \A r \in Collectors :
    pc[r] \in {"checkpointRun", "checkpointLower"} => IsSuspended(cur[r])

\* Once a requester has passed its barrier, its checkpoint has run exactly
\* once for every thread that it asked, whether the thread was Runnable,
\* suspended, or changed between the two while being asked.
EveryThreadChecked ==
  \A r \in Requesters :
    /\ \A t \in Threads : runs[r][t] <= 1
    /\ (pc[r] = "rootsMarked" \/ (pc[r] = "sampleAwait" /\ barrier[r] = 0)) =>
         \A t \in asked[r] : runs[r][t] = 1

\* RunCheckpoint uses thread pointers after it has released thread_list_lock_;
\* Unregister does not delete those threads, nor any thread that still has a
\* checkpoint to run (the CHECKs of ~Thread).
NoDeletedThreadUsed ==
  /\ \A r \in Threads : todo[r] \subseteq list_
  /\ \A r \in Collectors : modified[r] \subseteq list_
  /\ \A t \in Threads \ list_ : checkpoint_functions[t] = << >> /\ closures[t] = << >>

\* No lost resume: RunCheckpoint lowers a count in one critical section and
\* broadcasts in a later one.
NoLostResumeAfterCheckpoint ==
  \A t \in resume_waiters :
    \/ SuspendRequest(t)
    \/ \E r \in Threads : pc[r] \in {"resumeAllLoop", "checkpointNext", "checkpointWait",
                                     "checkpointRun", "checkpointLower"}

=============================================================================
