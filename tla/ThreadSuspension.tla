-------------------------- MODULE ThreadSuspension --------------------------
(***************************************************************************)
(* How ART stops and restarts its threads: Thread's transitions between    *)
(* Runnable and the other states (runtime/thread-inl.h), the suspend count *)
(* (runtime/thread.cc) and ThreadList's SuspendAll, ResumeAll, Register    *)
(* and Unregister (runtime/thread_list.cc).                                *)
(*                                                                         *)
(* A step is one access to something another thread reads or writes        *)
(* without the same lock: state_and_flags, mutator_lock_, the two mutexes. *)
(* A load of state_and_flags and the compare-and-swap that follows it are  *)
(* one step.  A critical section that touches only what its mutex guards   *)
(* is one step; the loops over list_ are not, because the threads they     *)
(* visit change state meanwhile.                                           *)
(*                                                                         *)
(* The mutexes and mutator_lock_ are the abstract locks that Mutex and     *)
(* ReaderWriterMutex are shown to implement; resume_cond_ is a wait set    *)
(* with spurious wake-ups.  All states but kRunnable are "Native".         *)
(***************************************************************************)
EXTENDS Integers, FiniteSets

CONSTANTS
  Threads,         \* every thread that ever attaches
  NoThread,
  InitialThreads,  \* attached at the start
  Suspenders       \* the threads that call SuspendAll (GC, signal catcher, tracing)

ASSUME ThreadsAssumption ==
  /\ NoThread \notin Threads /\ IsFiniteSet(Threads)
  /\ InitialThreads \subseteq Threads /\ Suspenders \subseteq Threads

VARIABLES
  list_,               \* ThreadList::list_; the order is not used
  suspend_all_count_,
  suspend_count,       \* Thread::tls32_.suspend_count
  state,               \* "Runnable" or "Native", of state_and_flags
  readers, writers,    \* holders of mutator_lock_
  thread_list_lock_, thread_suspend_count_lock_,   \* their owners
  resume_waiters,      \* threads asleep in resume_cond_->Wait
  pc,
  todo                 \* what is left of the loop over list_

mutator_lock_ == <<readers, writers>>
locks == <<thread_list_lock_, thread_suspend_count_lock_>>
counts == <<suspend_all_count_, suspend_count>>
vars == <<list_, counts, state, mutator_lock_, locks, resume_waiters, pc, todo>>

MutatorLock == INSTANCE RWLock

Init ==
  /\ list_ = InitialThreads
  /\ suspend_all_count_ = 0
  /\ suspend_count = [t \in Threads |-> 0]
  /\ state = [t \in Threads |-> "Native"]
  /\ MutatorLock!Init
  /\ thread_list_lock_ = NoThread
  /\ thread_suspend_count_lock_ = NoThread
  /\ resume_waiters = {}
  /\ pc = [t \in Threads |-> IF t \in InitialThreads THEN "native" ELSE "unborn"]
  /\ todo = [t \in Threads |-> {}]

Goto(t, from, to) == pc[t] = from /\ pc' = [pc EXCEPT ![t] = to]

\* kSuspendRequest: ModifySuspendCount sets it exactly while the count is not 0.
SuspendRequest(t) == suspend_count[t] # 0

IsSuspended(t) == state[t] # "Runnable" /\ SuspendRequest(t)

ModifySuspendCount(t, delta) == suspend_count' = [suspend_count EXCEPT ![t] = @ + delta]
-----------------------------------------------------------------------------
(* Thread::TransitionFromRunnableToSuspended.                              *)

\* The compare-and-swap.  FullSuspendCheck goes on to
\* TransitionFromSuspendedToRunnable; other callers stay in native code.
TransitionFromRunnableToSuspended(t, next) ==
  /\ Goto(t, "running", next)
  /\ state' = [state EXCEPT ![t] = "Native"]
  /\ UNCHANGED <<list_, counts, mutator_lock_, locks, resume_waiters, todo>>

EnterNative(t) == TransitionFromRunnableToSuspended(t, "unshare")

\* Faulty: takes the first request for none.
FullSuspendCheckLate(t) ==
  suspend_count[t] > 1 /\ TransitionFromRunnableToSuspended(t, "unshareForCheck")

\* CheckSuspend finds the request flag set.
FullSuspendCheck(t) ==
  SuspendRequest(t) /\ TransitionFromRunnableToSuspended(t, "unshareForCheck")

\* mutator_lock_->SharedUnlock: at the end of the transition, and when the
\* transition to Runnable has to start again.
SharedUnlock(t) ==
  /\ \/ Goto(t, "unshare", "native")
     \/ Goto(t, "unshareForCheck", "toRunnable")
     \/ Goto(t, "unshareAndRetry", "toRunnable")
  /\ MutatorLock!ReleaseShared(t)
  /\ UNCHANGED <<list_, counts, state, locks, resume_waiters, todo>>
-----------------------------------------------------------------------------
(* Thread::TransitionFromSuspendedToRunnable.                              *)

LeaveNative(t) ==
  /\ Goto(t, "native", "toRunnable")
  /\ UNCHANGED <<list_, counts, state, mutator_lock_, locks, resume_waiters, todo>>

\* The unlocked look at the flags.
CheckRequest(t) ==
  /\ Goto(t, "toRunnable", IF SuspendRequest(t) THEN "suspended" ELSE "share")
  /\ UNCHANGED <<list_, counts, state, mutator_lock_, locks, resume_waiters, todo>>

\* Under thread_suspend_count_lock_: wait while the flag is set.
WaitForResume(t) ==
  /\ thread_suspend_count_lock_ = NoThread
  /\ IF SuspendRequest(t)
     THEN Goto(t, "suspended", "waiting") /\ resume_waiters' = resume_waiters \cup {t}
     ELSE Goto(t, "suspended", "share") /\ UNCHANGED resume_waiters
  /\ UNCHANGED <<list_, counts, state, mutator_lock_, locks, todo>>

\* resume_cond_->Wait returns; the lock is taken again in the next step.
Woken(t) ==
  /\ t \notin resume_waiters
  /\ Goto(t, "waiting", "suspended")
  /\ UNCHANGED <<list_, counts, state, mutator_lock_, locks, resume_waiters, todo>>

SpuriousWakeup(t) ==
  /\ pc[t] = "waiting" /\ t \in resume_waiters
  /\ resume_waiters' = resume_waiters \ {t}
  /\ UNCHANGED <<list_, counts, state, mutator_lock_, locks, pc, todo>>

SharedLock(t) ==
  /\ Goto(t, "share", "cas")
  /\ MutatorLock!AcquireShared(t)
  /\ UNCHANGED <<list_, counts, state, locks, resume_waiters, todo>>

\* Runnable only if no request is pending; otherwise give the share back.
CasToRunnable(t) ==
  /\ IF SuspendRequest(t)
     THEN Goto(t, "cas", "unshareAndRetry") /\ UNCHANGED state
     ELSE Goto(t, "cas", "running") /\ state' = [state EXCEPT ![t] = "Runnable"]
  /\ UNCHANGED <<list_, counts, mutator_lock_, locks, resume_waiters, todo>>
-----------------------------------------------------------------------------
(* The two mutexes, in the order of their levels.                          *)

LockThreadList(t, from, to) ==
  /\ thread_list_lock_ = NoThread
  /\ Goto(t, from, to)
  /\ thread_list_lock_' = t
  /\ UNCHANGED <<list_, counts, state, mutator_lock_, thread_suspend_count_lock_,
                 resume_waiters, todo>>

\* Faulty: does not skip the caller.
StartLoopWithSelf(t, from, to) ==
  /\ thread_suspend_count_lock_ = NoThread
  /\ thread_suspend_count_lock_' = t
  /\ Goto(t, from, to)
  /\ todo' = [todo EXCEPT ![t] = list_]

\* Takes thread_suspend_count_lock_ and starts a loop over the other threads.
StartLoop(t, from, to) ==
  /\ thread_suspend_count_lock_ = NoThread
  /\ thread_suspend_count_lock_' = t
  /\ Goto(t, from, to)
  /\ todo' = [todo EXCEPT ![t] = list_ \ {t}]

LoopModify(t, at, delta) ==
  /\ pc[t] = at
  /\ \E u \in todo[t] :
       /\ ModifySuspendCount(u, delta)
       /\ todo' = [todo EXCEPT ![t] = @ \ {u}]
  /\ UNCHANGED <<list_, suspend_all_count_, state, mutator_lock_, locks, resume_waiters, pc>>

UnlockBoth(t) == thread_list_lock_' = NoThread /\ thread_suspend_count_lock_' = NoThread

(* ThreadList::SuspendAll.                                                 *)

SuspendAll(t) == t \in Suspenders /\ LockThreadList(t, "native", "suspendAll")

SuspendAllBegin(t) ==
  /\ StartLoop(t, "suspendAll", "suspendAllLoop")
  /\ suspend_all_count_' = suspend_all_count_ + 1
  /\ UNCHANGED <<list_, suspend_count, state, mutator_lock_, thread_list_lock_, resume_waiters>>

SuspendAllLoop(t) == LoopModify(t, "suspendAllLoop", 1)

SuspendAllUnlock(t) ==
  /\ todo[t] = {}
  /\ Goto(t, "suspendAllLoop", "exclusive")
  /\ UnlockBoth(t)
  /\ UNCHANGED <<list_, counts, state, mutator_lock_, resume_waiters, todo>>

\* Faulty: goes on although ExclusiveLockWithTimeout returned false.
ExclusiveLockTimedOut(t) ==
  /\ Goto(t, "exclusive", "stopped")
  /\ UNCHANGED <<list_, counts, state, mutator_lock_, locks, resume_waiters, todo>>

ExclusiveLock(t) ==
  /\ Goto(t, "exclusive", "stopped")
  /\ MutatorLock!AcquireExclusive(t)
  /\ UNCHANGED <<list_, counts, state, locks, resume_waiters, todo>>

(* ThreadList::ResumeAll.                                                  *)

ResumeAll(t) ==
  /\ Goto(t, "stopped", "resumeAll")
  /\ MutatorLock!ReleaseExclusive(t)
  /\ UNCHANGED <<list_, counts, state, locks, resume_waiters, todo>>

ResumeAllLock(t) == LockThreadList(t, "resumeAll", "resumeAllLocked")

ResumeAllBegin(t) ==
  /\ StartLoop(t, "resumeAllLocked", "resumeAllLoop")
  /\ suspend_all_count_' = suspend_all_count_ - 1
  /\ UNCHANGED <<list_, suspend_count, state, mutator_lock_, thread_list_lock_, resume_waiters>>

ResumeAllLoop(t) == LoopModify(t, "resumeAllLoop", -1)

\* Faulty: nobody is woken.
ResumeAllSilently(t) ==
  /\ todo[t] = {}
  /\ Goto(t, "resumeAllLoop", "native")
  /\ UnlockBoth(t)
  /\ UNCHANGED <<list_, counts, state, mutator_lock_, resume_waiters, todo>>

\* resume_cond_->Broadcast, then both mutexes are released.
ResumeAllBroadcast(t) ==
  /\ todo[t] = {}
  /\ Goto(t, "resumeAllLoop", "native")
  /\ resume_waiters' = {}
  /\ UnlockBoth(t)
  /\ UNCHANGED <<list_, counts, state, mutator_lock_, todo>>
-----------------------------------------------------------------------------
(* ThreadList::Register and Unregister.                                    *)

RegisterLock(t) == LockThreadList(t, "unborn", "register")

\* The new thread takes over the requests of the SuspendAlls in progress.
Register(t) ==
  /\ thread_suspend_count_lock_ = NoThread
  /\ Goto(t, "register", "native")
  /\ suspend_count' = [suspend_count EXCEPT ![t] = @ + suspend_all_count_]
  /\ list_' = list_ \cup {t}
  /\ thread_list_lock_' = NoThread
  /\ UNCHANGED <<suspend_all_count_, state, mutator_lock_, thread_suspend_count_lock_,
                 resume_waiters, todo>>

Destroy(t) ==
  /\ Goto(t, "native", "unregister")
  /\ UNCHANGED <<list_, counts, state, mutator_lock_, locks, resume_waiters, todo>>

\* Faulty: does not look whether somebody keeps it suspended.
UnregisterSuspended(t) ==
  /\ thread_list_lock_ = NoThread
  /\ Goto(t, "unregister", "dead")
  /\ list_' = list_ \ {t}
  /\ UNCHANGED <<counts, state, mutator_lock_, locks, resume_waiters, todo>>

\* The turn of the loop that finds the thread not suspended; the others
\* release thread_list_lock_ and try again.
Unregister(t) ==
  /\ thread_list_lock_ = NoThread
  /\ ~IsSuspended(t)
  /\ Goto(t, "unregister", "dead")
  /\ list_' = list_ \ {t}
  /\ UNCHANGED <<counts, state, mutator_lock_, locks, resume_waiters, todo>>
-----------------------------------------------------------------------------
\* What a thread does of its own accord.
Choose(t) == EnterNative(t) \/ LeaveNative(t) \/ SuspendAll(t) \/ RegisterLock(t) \/ Destroy(t)

\* What it does next once it has started something.
Step(t) ==
  \/ FullSuspendCheck(t) \/ SharedUnlock(t)
  \/ CheckRequest(t) \/ WaitForResume(t) \/ Woken(t) \/ SharedLock(t) \/ CasToRunnable(t)
  \/ SuspendAllBegin(t) \/ SuspendAllLoop(t) \/ SuspendAllUnlock(t) \/ ExclusiveLock(t)
  \/ ResumeAll(t) \/ ResumeAllLock(t) \/ ResumeAllBegin(t) \/ ResumeAllLoop(t)
  \/ ResumeAllBroadcast(t)
  \/ Register(t) \/ Unregister(t)

Next == \E t \in Threads : Choose(t) \/ Step(t) \/ SpuriousWakeup(t)

Spec == Init /\ [][Next]_vars
-----------------------------------------------------------------------------
PcValues ==
  {"unborn", "register", "native", "toRunnable", "suspended", "waiting", "share", "cas",
   "unshareAndRetry", "running", "unshare", "unshareForCheck", "suspendAll", "suspendAllLoop",
   "exclusive", "stopped", "resumeAll", "resumeAllLocked", "resumeAllLoop", "unregister", "dead"}

TypeOK ==
  /\ list_ \subseteq Threads
  /\ suspend_all_count_ \in Nat
  /\ suspend_count \in [Threads -> Int] /\ \A t \in list_ : suspend_count[t] \in Nat
  /\ state \in [Threads -> {"Runnable", "Native"}]
  /\ readers \subseteq Threads /\ writers \subseteq Threads
  /\ thread_list_lock_ \in Threads \cup {NoThread}
  /\ thread_suspend_count_lock_ \in Threads \cup {NoThread}
  /\ resume_waiters \subseteq Threads
  /\ pc \in [Threads -> PcValues]
  /\ todo \in [Threads -> SUBSET Threads]

\* The SuspendAll or ResumeAll of r has raised t's count and not lowered it.
InForce(r, t) ==
  /\ r # t
  /\ \/ pc[r] \in {"exclusive", "stopped", "resumeAll", "resumeAllLocked"}
     \/ pc[r] = "suspendAllLoop" /\ t \notin todo[r]
     \/ pc[r] = "resumeAllLoop" /\ t \in todo[r]

\* Every attached thread's suspend count is the number of SuspendAlls in
\* force against it, also for threads that attach or detach in the middle:
\* ModifySuspendCount never meets "suspend count already zero", and a thread
\* is released exactly when the last request ends.
CountsRequests ==
  /\ \A t \in list_ : suspend_count[t] = Cardinality({r \in Threads : InForce(r, t)})
  /\ suspend_all_count_ =
       Cardinality({r \in Threads : pc[r] \in {"suspendAllLoop", "exclusive", "stopped",
                                               "resumeAll", "resumeAllLocked"}})

\* AssertThreadsAreSuspended, which debug builds run when SuspendAll returns:
\* nobody else is Runnable, and everybody else, threads that attached since
\* included, has its suspend request set.
WorldStopped ==
  \A r \in Threads :
    pc[r] = "stopped" => \A t \in list_ \ {r} : IsSuspended(t)

\* A loop over list_ never holds a thread that has been deleted.
NoDanglingThread ==
  \A r \in Threads : todo[r] \subseteq list_

\* No lost resume: a thread asleep in resume_cond_ whose count is back to zero
\* is about to be woken by the ResumeAll that lowered it.
NoLostResume ==
  \A t \in resume_waiters :
    SuspendRequest(t) \/ \E r \in Threads : pc[r] = "resumeAllLoop"

\* To the rest of the runtime, being Runnable and having stopped the world
\* are the two sides of a reader-writer lock.
World == INSTANCE RWLock WITH
  readers <- {t \in Threads : state[t] = "Runnable"},
  writers <- {t \in Threads : pc[t] = "stopped"}
ImplementsStopTheWorld == World!Spec
=============================================================================
