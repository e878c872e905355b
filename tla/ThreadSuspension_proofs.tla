----------------------- MODULE ThreadSuspension_proofs ----------------------
(***************************************************************************)
(* Proofs, for any number of threads and of SuspendAlls in progress, that  *)
(* ThreadSuspension keeps its invariants and implements the stop-the-world *)
(* lock.  The inductive invariant is Types /\ Sharing /\ Locking /\       *)
(* Counting /\ Waking: the first two suffice for the refinement, the       *)
(* counting argument needs the locks, and the wake-up argument the counts. *)
(***************************************************************************)
EXTENDS ThreadSuspension, FiniteSetTheorems, TLAPS

\* TypeOK without what needs the counting invariants.
Types ==
  /\ list_ \subseteq Threads
  /\ suspend_all_count_ \in Int
  /\ suspend_count \in [Threads -> Int]
  /\ state \in [Threads -> {"Runnable", "Native"}]
  /\ readers \subseteq Threads /\ writers \subseteq Threads
  /\ thread_list_lock_ \in Threads \cup {NoThread}
  /\ thread_suspend_count_lock_ \in Threads \cup {NoThread}
  /\ resume_waiters \subseteq Threads
  /\ pc \in [Threads -> PcValues]
  /\ todo \in [Threads -> SUBSET Threads]

\* Who holds mutator_lock_, and who is Runnable, is a matter of where each
\* thread is; readers and a writer exclude each other.
Sharing ==
  /\ \A t \in Threads : t \in readers <=>
       pc[t] \in {"cas", "running", "unshare", "unshareForCheck", "unshareAndRetry"}
  /\ \A t \in Threads : state[t] = "Runnable" <=> pc[t] = "running"
  /\ \A t \in Threads : t \in writers <=> pc[t] = "stopped"
  /\ writers # {} => readers = {}
  /\ \A t, u \in writers : t = u

Loops == {"suspendAllLoop", "resumeAllLoop"}

\* Who holds the two mutexes and who is in the list; a loop visits attached
\* threads only, because nobody detaches while it holds thread_list_lock_.
Locking ==
  /\ \A t \in Threads : thread_list_lock_ = t <=>
       pc[t] \in {"suspendAll", "suspendAllLoop", "resumeAllLocked", "resumeAllLoop", "register"}
  /\ \A t \in Threads : thread_suspend_count_lock_ = t <=> pc[t] \in Loops
  /\ \A t \in Threads : t \in list_ <=> pc[t] \notin {"unborn", "register", "dead"}
  /\ \A t \in Threads : todo[t] \subseteq list_ \ {t}
  /\ \A t \in Threads : todo[t] # {} => pc[t] \in Loops

Forcing(t) == {r \in Threads : InForce(r, t)}

Stopping == {r \in Threads : pc[r] \in {"suspendAllLoop", "exclusive", "stopped",
                                        "resumeAll", "resumeAllLocked"}}

\* CountsRequests, and a thread that has not attached has no requests.
Counting ==
  /\ \A t \in list_ : suspend_count[t] = Cardinality(Forcing(t))
  /\ \A t \in Threads : pc[t] \in {"unborn", "register"} => suspend_count[t] = 0
  /\ suspend_all_count_ = Cardinality(Stopping)

\* NoLostResume, and only threads in resume_cond_->Wait are waiters.
Waking ==
  /\ \A t \in resume_waiters : pc[t] = "waiting"
  /\ NoLostResume
-----------------------------------------------------------------------------
\* Every step keeps the variables' types.
LEMMA TypeStep == Types /\ [Next]_vars => Types'
<1>1. ASSUME Types, UNCHANGED vars PROVE Types'
  BY <1>1 DEF vars, Types, PcValues, counts, mutator_lock_, locks
<1>2. ASSUME Types, NEW t \in Threads,
             Choose(t) \/ Step(t) \/ SpuriousWakeup(t)
      PROVE Types'
  <2>1. CASE EnterNative(t)
    BY <1>2, <2>1
    DEF EnterNative, TransitionFromRunnableToSuspended, Goto, Types, PcValues, counts,
        mutator_lock_, locks
  <2>2. CASE FullSuspendCheck(t)
    BY <1>2, <2>2
    DEF FullSuspendCheck, TransitionFromRunnableToSuspended, Goto, Types, PcValues, counts,
        mutator_lock_, locks
  <2>3. CASE SharedUnlock(t)
    BY <1>2, <2>3
    DEF SharedUnlock, Goto, MutatorLock!ReleaseShared, Types, PcValues, counts, mutator_lock_,
        locks
  <2>4. CASE LeaveNative(t)
    BY <1>2, <2>4 DEF LeaveNative, Goto, Types, PcValues, counts, mutator_lock_, locks
  <2>5. CASE CheckRequest(t)
    BY <1>2, <2>5 DEF CheckRequest, Goto, Types, PcValues, counts, mutator_lock_, locks
  <2>6. CASE WaitForResume(t)
    BY <1>2, <2>6 DEF WaitForResume, Goto, Types, PcValues, counts, mutator_lock_, locks
  <2>7. CASE Woken(t)
    BY <1>2, <2>7 DEF Woken, Goto, Types, PcValues, counts, mutator_lock_, locks
  <2>8. CASE SpuriousWakeup(t)
    BY <1>2, <2>8 DEF SpuriousWakeup, Types, PcValues, counts, mutator_lock_, locks
  <2>9. CASE SharedLock(t)
    BY <1>2, <2>9
    DEF SharedLock, Goto, MutatorLock!AcquireShared, Types, PcValues, counts, mutator_lock_,
        locks
  <2>10. CASE CasToRunnable(t)
    BY <1>2, <2>10 DEF CasToRunnable, Goto, Types, PcValues, counts, mutator_lock_, locks
  <2>11. CASE SuspendAll(t)
    BY <1>2, <2>11
    DEF SuspendAll, LockThreadList, Goto, Types, PcValues, counts, mutator_lock_, locks
  <2>12. CASE SuspendAllBegin(t)
    BY <1>2, <2>12
    DEF SuspendAllBegin, StartLoop, Goto, Types, PcValues, counts, mutator_lock_, locks
  <2>13. CASE SuspendAllLoop(t)
    BY <1>2, <2>13
    DEF SuspendAllLoop, LoopModify, ModifySuspendCount, Types, PcValues, counts, mutator_lock_,
        locks
  <2>14. CASE SuspendAllUnlock(t)
    BY <1>2, <2>14
    DEF SuspendAllUnlock, Goto, UnlockBoth, Types, PcValues, counts, mutator_lock_, locks
  <2>15. CASE ExclusiveLock(t)
    BY <1>2, <2>15
    DEF ExclusiveLock, Goto, MutatorLock!AcquireExclusive, Types, PcValues, counts,
        mutator_lock_, locks
  <2>16. CASE ResumeAll(t)
    BY <1>2, <2>16
    DEF ResumeAll, Goto, MutatorLock!ReleaseExclusive, Types, PcValues, counts, mutator_lock_,
        locks
  <2>17. CASE ResumeAllLock(t)
    BY <1>2, <2>17
    DEF ResumeAllLock, LockThreadList, Goto, Types, PcValues, counts, mutator_lock_, locks
  <2>18. CASE ResumeAllBegin(t)
    BY <1>2, <2>18
    DEF ResumeAllBegin, StartLoop, Goto, Types, PcValues, counts, mutator_lock_, locks
  <2>19. CASE ResumeAllLoop(t)
    BY <1>2, <2>19
    DEF ResumeAllLoop, LoopModify, ModifySuspendCount, Types, PcValues, counts, mutator_lock_,
        locks
  <2>20. CASE ResumeAllBroadcast(t)
    BY <1>2, <2>20
    DEF ResumeAllBroadcast, Goto, UnlockBoth, Types, PcValues, counts, mutator_lock_, locks
  <2>21. CASE RegisterLock(t)
    BY <1>2, <2>21
    DEF RegisterLock, LockThreadList, Goto, Types, PcValues, counts, mutator_lock_, locks
  <2>22. CASE Register(t)
    BY <1>2, <2>22 DEF Register, Goto, Types, PcValues, counts, mutator_lock_, locks
  <2>23. CASE Destroy(t)
    BY <1>2, <2>23 DEF Destroy, Goto, Types, PcValues, counts, mutator_lock_, locks
  <2>24. CASE Unregister(t)
    BY <1>2, <2>24 DEF Unregister, Goto, Types, PcValues, counts, mutator_lock_, locks
  <2>q. QED
    BY <1>2, <2>1, <2>2, <2>3, <2>4, <2>5, <2>6, <2>7, <2>8, <2>9, <2>10, <2>11, <2>12,
       <2>13, <2>14, <2>15, <2>16, <2>17, <2>18, <2>19, <2>20, <2>21, <2>22, <2>23, <2>24
    DEF Choose, Step
<1>q. QED
  BY <1>1, <1>2 DEF Next

\* Every step keeps mutator_lock_ consistent with where the threads are.
LEMMA SharingStep == Types /\ Sharing /\ [Next]_vars => Sharing'
<1>1. ASSUME Types, Sharing, UNCHANGED vars PROVE Sharing'
  BY <1>1 DEF vars, Types, Sharing, counts, mutator_lock_, locks
<1>2. ASSUME Types, Sharing, NEW t \in Threads,
             Choose(t) \/ Step(t) \/ SpuriousWakeup(t)
      PROVE Sharing'
  <2>1. CASE EnterNative(t)
    BY <1>2, <2>1
    DEF EnterNative, TransitionFromRunnableToSuspended, Goto, Types, Sharing, counts,
        mutator_lock_, locks
  <2>2. CASE FullSuspendCheck(t)
    BY <1>2, <2>2
    DEF FullSuspendCheck, TransitionFromRunnableToSuspended, Goto, Types, Sharing, counts,
        mutator_lock_, locks
  <2>3. CASE SharedUnlock(t)
    BY <1>2, <2>3
    DEF SharedUnlock, Goto, MutatorLock!ReleaseShared, Types, Sharing, counts, mutator_lock_,
        locks
  <2>4. CASE LeaveNative(t)
    BY <1>2, <2>4 DEF LeaveNative, Goto, Types, Sharing, counts, mutator_lock_, locks
  <2>5. CASE CheckRequest(t)
    BY <1>2, <2>5 DEF CheckRequest, Goto, Types, Sharing, counts, mutator_lock_, locks
  <2>6. CASE WaitForResume(t)
    BY <1>2, <2>6 DEF WaitForResume, Goto, Types, Sharing, counts, mutator_lock_, locks
  <2>7. CASE Woken(t)
    BY <1>2, <2>7 DEF Woken, Goto, Types, Sharing, counts, mutator_lock_, locks
  <2>8. CASE SpuriousWakeup(t)
    BY <1>2, <2>8 DEF SpuriousWakeup, Types, Sharing, counts, mutator_lock_, locks
  <2>9. CASE SharedLock(t)
    BY <1>2, <2>9
    DEF SharedLock, Goto, MutatorLock!AcquireShared, Types, Sharing, counts, mutator_lock_,
        locks
  <2>10. CASE CasToRunnable(t)
    BY <1>2, <2>10 DEF CasToRunnable, Goto, Types, Sharing, counts, mutator_lock_, locks
  <2>11. CASE SuspendAll(t)
    BY <1>2, <2>11
    DEF SuspendAll, LockThreadList, Goto, Types, Sharing, counts, mutator_lock_, locks
  <2>12. CASE SuspendAllBegin(t)
    BY <1>2, <2>12
    DEF SuspendAllBegin, StartLoop, Goto, Types, Sharing, counts, mutator_lock_, locks
  <2>13. CASE SuspendAllLoop(t)
    BY <1>2, <2>13
    DEF SuspendAllLoop, LoopModify, ModifySuspendCount, Types, Sharing, counts, mutator_lock_,
        locks
  <2>14. CASE SuspendAllUnlock(t)
    BY <1>2, <2>14
    DEF SuspendAllUnlock, Goto, UnlockBoth, Types, Sharing, counts, mutator_lock_, locks
  <2>15. CASE ExclusiveLock(t)
    BY <1>2, <2>15
    DEF ExclusiveLock, Goto, MutatorLock!AcquireExclusive, Types, Sharing, counts,
        mutator_lock_, locks
  <2>16. CASE ResumeAll(t)
    BY <1>2, <2>16
    DEF ResumeAll, Goto, MutatorLock!ReleaseExclusive, Types, Sharing, counts, mutator_lock_,
        locks
  <2>17. CASE ResumeAllLock(t)
    BY <1>2, <2>17
    DEF ResumeAllLock, LockThreadList, Goto, Types, Sharing, counts, mutator_lock_, locks
  <2>18. CASE ResumeAllBegin(t)
    BY <1>2, <2>18
    DEF ResumeAllBegin, StartLoop, Goto, Types, Sharing, counts, mutator_lock_, locks
  <2>19. CASE ResumeAllLoop(t)
    BY <1>2, <2>19
    DEF ResumeAllLoop, LoopModify, ModifySuspendCount, Types, Sharing, counts, mutator_lock_,
        locks
  <2>20. CASE ResumeAllBroadcast(t)
    BY <1>2, <2>20
    DEF ResumeAllBroadcast, Goto, UnlockBoth, Types, Sharing, counts, mutator_lock_, locks
  <2>21. CASE RegisterLock(t)
    BY <1>2, <2>21
    DEF RegisterLock, LockThreadList, Goto, Types, Sharing, counts, mutator_lock_, locks
  <2>22. CASE Register(t)
    BY <1>2, <2>22 DEF Register, Goto, Types, Sharing, counts, mutator_lock_, locks
  <2>23. CASE Destroy(t)
    BY <1>2, <2>23 DEF Destroy, Goto, Types, Sharing, counts, mutator_lock_, locks
  <2>24. CASE Unregister(t)
    BY <1>2, <2>24 DEF Unregister, Goto, Types, Sharing, counts, mutator_lock_, locks
  <2>q. QED
    BY <1>2, <2>1, <2>2, <2>3, <2>4, <2>5, <2>6, <2>7, <2>8, <2>9, <2>10, <2>11, <2>12,
       <2>13, <2>14, <2>15, <2>16, <2>17, <2>18, <2>19, <2>20, <2>21, <2>22, <2>23, <2>24
    DEF Choose, Step
<1>q. QED
  BY <1>1, <1>2 DEF Next

\* Every step keeps the mutexes and the loops consistent with where the
\* threads are.
LEMMA LockingStep == Types /\ Locking /\ [Next]_vars => Locking'
<1>1. ASSUME Types, Locking, UNCHANGED vars PROVE Locking'
  BY <1>1 DEF vars, Types, Locking, Loops, counts, mutator_lock_, locks
<1>2. ASSUME Types, Locking, NEW t \in Threads,
             Choose(t) \/ Step(t) \/ SpuriousWakeup(t)
      PROVE Locking'
  <2>1. CASE EnterNative(t)
    BY <1>2, <2>1, ThreadsAssumption
    DEF EnterNative, TransitionFromRunnableToSuspended, Goto, Types, Locking, Loops, counts,
        mutator_lock_, locks
  <2>2. CASE FullSuspendCheck(t)
    BY <1>2, <2>2, ThreadsAssumption
    DEF FullSuspendCheck, TransitionFromRunnableToSuspended, Goto, Types, Locking, Loops,
        counts, mutator_lock_, locks
  <2>3. CASE SharedUnlock(t)
    BY <1>2, <2>3, ThreadsAssumption
    DEF SharedUnlock, Goto, MutatorLock!ReleaseShared, Types, Locking, Loops, counts,
        mutator_lock_, locks
  <2>4. CASE LeaveNative(t)
    BY <1>2, <2>4, ThreadsAssumption
    DEF LeaveNative, Goto, Types, Locking, Loops, counts, mutator_lock_, locks
  <2>5. CASE CheckRequest(t)
    BY <1>2, <2>5, ThreadsAssumption
    DEF CheckRequest, Goto, Types, Locking, Loops, counts, mutator_lock_, locks
  <2>6. CASE WaitForResume(t)
    BY <1>2, <2>6, ThreadsAssumption
    DEF WaitForResume, Goto, Types, Locking, Loops, counts, mutator_lock_, locks
  <2>7. CASE Woken(t)
    BY <1>2, <2>7, ThreadsAssumption
    DEF Woken, Goto, Types, Locking, Loops, counts, mutator_lock_, locks
  <2>8. CASE SpuriousWakeup(t)
    BY <1>2, <2>8, ThreadsAssumption
    DEF SpuriousWakeup, Types, Locking, Loops, counts, mutator_lock_, locks
  <2>9. CASE SharedLock(t)
    BY <1>2, <2>9, ThreadsAssumption
    DEF SharedLock, Goto, MutatorLock!AcquireShared, Types, Locking, Loops, counts,
        mutator_lock_, locks
  <2>10. CASE CasToRunnable(t)
    BY <1>2, <2>10, ThreadsAssumption
    DEF CasToRunnable, Goto, Types, Locking, Loops, counts, mutator_lock_, locks
  <2>11. CASE SuspendAll(t)
    BY <1>2, <2>11, ThreadsAssumption
    DEF SuspendAll, LockThreadList, Goto, Types, Locking, Loops, counts, mutator_lock_, locks
  <2>12. CASE SuspendAllBegin(t)
    BY <1>2, <2>12, ThreadsAssumption
    DEF SuspendAllBegin, StartLoop, Goto, Types, Locking, Loops, counts, mutator_lock_, locks
  <2>13. CASE SuspendAllLoop(t)
    BY <1>2, <2>13, ThreadsAssumption
    DEF SuspendAllLoop, LoopModify, ModifySuspendCount, Types, Locking, Loops, counts,
        mutator_lock_, locks
  <2>14. CASE SuspendAllUnlock(t)
    BY <1>2, <2>14, ThreadsAssumption
    DEF SuspendAllUnlock, Goto, UnlockBoth, Types, Locking, Loops, counts, mutator_lock_, locks
  <2>15. CASE ExclusiveLock(t)
    BY <1>2, <2>15, ThreadsAssumption
    DEF ExclusiveLock, Goto, MutatorLock!AcquireExclusive, Types, Locking, Loops, counts,
        mutator_lock_, locks
  <2>16. CASE ResumeAll(t)
    BY <1>2, <2>16, ThreadsAssumption
    DEF ResumeAll, Goto, MutatorLock!ReleaseExclusive, Types, Locking, Loops, counts,
        mutator_lock_, locks
  <2>17. CASE ResumeAllLock(t)
    BY <1>2, <2>17, ThreadsAssumption
    DEF ResumeAllLock, LockThreadList, Goto, Types, Locking, Loops, counts, mutator_lock_,
        locks
  <2>18. CASE ResumeAllBegin(t)
    BY <1>2, <2>18, ThreadsAssumption
    DEF ResumeAllBegin, StartLoop, Goto, Types, Locking, Loops, counts, mutator_lock_, locks
  <2>19. CASE ResumeAllLoop(t)
    BY <1>2, <2>19, ThreadsAssumption
    DEF ResumeAllLoop, LoopModify, ModifySuspendCount, Types, Locking, Loops, counts,
        mutator_lock_, locks
  <2>20. CASE ResumeAllBroadcast(t)
    BY <1>2, <2>20, ThreadsAssumption
    DEF ResumeAllBroadcast, Goto, UnlockBoth, Types, Locking, Loops, counts, mutator_lock_,
        locks
  <2>21. CASE RegisterLock(t)
    BY <1>2, <2>21, ThreadsAssumption
    DEF RegisterLock, LockThreadList, Goto, Types, Locking, Loops, counts, mutator_lock_, locks
  <2>22. CASE Register(t)
    BY <1>2, <2>22, ThreadsAssumption
    DEF Register, Goto, Types, Locking, Loops, counts, mutator_lock_, locks
  <2>23. CASE Destroy(t)
    BY <1>2, <2>23, ThreadsAssumption
    DEF Destroy, Goto, Types, Locking, Loops, counts, mutator_lock_, locks
  <2>24. CASE Unregister(t)
    BY <1>2, <2>24, ThreadsAssumption
    DEF Unregister, Goto, Types, Locking, Loops, counts, mutator_lock_, locks
  <2>q. QED
    BY <1>2, <2>1, <2>2, <2>3, <2>4, <2>5, <2>6, <2>7, <2>8, <2>9, <2>10, <2>11, <2>12,
       <2>13, <2>14, <2>15, <2>16, <2>17, <2>18, <2>19, <2>20, <2>21, <2>22, <2>23, <2>24
    DEF Choose, Step
<1>q. QED
  BY <1>1, <1>2 DEF Next

-----------------------------------------------------------------------------
\* A set of threads with one more, or one less, member.
LEMMA CountOne ==
  ASSUME NEW S \in SUBSET Threads, NEW x \in Threads
  PROVE  /\ IsFiniteSet(S) /\ Cardinality(S) \in Nat
         /\ x \notin S => Cardinality(S \cup {x}) = Cardinality(S) + 1
         /\ x \in S => Cardinality(S \ {x}) = Cardinality(S) - 1
         /\ x \in S => Cardinality(S) # 0
<1>1. IsFiniteSet(S)
  BY ThreadsAssumption, FS_Subset
<1>2. Cardinality(S) \in Nat
  BY <1>1, FS_CardinalityType
<1>3. x \notin S => Cardinality(S \cup {x}) = Cardinality(S) + 1
  BY <1>1, FS_AddElement
<1>4. x \in S => Cardinality(S \ {x}) = Cardinality(S) - 1
  BY <1>1, FS_RemoveElement
<1>5. x \in S => Cardinality(S) # 0
  BY <1>1, FS_EmptySet
<1>q. QED
  BY <1>1, <1>2, <1>3, <1>4, <1>5

\* A step that changes neither the counts nor who is in force against the
\* attached threads keeps the counts right.
LEMMA SameRequests ==
  ASSUME Counting, UNCHANGED <<suspend_all_count_, suspend_count>>,
         \A t \in list_' : t \in list_ /\ Forcing(t)' = Forcing(t),
         Stopping' = Stopping,
         \A t \in Threads : pc'[t] \in {"unborn", "register"} => pc[t] \in {"unborn", "register"}
  PROVE  Counting'
BY DEF Counting

\* Every step keeps the suspend counts equal to the requests in force.
LEMMA CountingStep == Types /\ Locking /\ Counting /\ [Next]_vars => Counting'
<1>1. ASSUME Counting, UNCHANGED vars PROVE Counting'
  BY <1>1 DEF vars, counts, Counting, Forcing, InForce, Stopping
<1>2. ASSUME Types, Locking, Counting, NEW t \in Threads,
             Choose(t) \/ Step(t) \/ SpuriousWakeup(t)
      PROVE  Counting'
  <2>1. CASE EnterNative(t) \/ FullSuspendCheck(t) \/ SharedUnlock(t) \/ LeaveNative(t)
    <3>1. \A u \in list_' : u \in list_ /\ Forcing(u)' = Forcing(u)
      BY <1>2, <2>1 DEF EnterNative, TransitionFromRunnableToSuspended, Goto, FullSuspendCheck,
        SharedUnlock, MutatorLock!ReleaseShared, LeaveNative, Types, Locking, Loops, Forcing,
        InForce, counts, mutator_lock_, locks
    <3>2. Stopping' = Stopping
      BY <1>2, <2>1 DEF EnterNative, TransitionFromRunnableToSuspended, Goto, FullSuspendCheck,
        SharedUnlock, MutatorLock!ReleaseShared, LeaveNative, Types, Stopping, counts,
        mutator_lock_, locks
    <3>3. UNCHANGED <<suspend_all_count_, suspend_count>>
      BY <2>1 DEF EnterNative, TransitionFromRunnableToSuspended, Goto, FullSuspendCheck,
        SharedUnlock, MutatorLock!ReleaseShared, LeaveNative, counts, mutator_lock_, locks
    <3>4. \A u \in Threads : pc'[u] \in {"unborn", "register"} => pc[u] \in {"unborn", "register"}
      BY <1>2, <2>1 DEF EnterNative, TransitionFromRunnableToSuspended, Goto, FullSuspendCheck,
        SharedUnlock, MutatorLock!ReleaseShared, LeaveNative, Types, counts, mutator_lock_,
        locks
    <3>q. QED
      BY <1>2, <3>1, <3>2, <3>3, <3>4, SameRequests
  <2>2. CASE CheckRequest(t) \/ WaitForResume(t) \/ Woken(t) \/ SpuriousWakeup(t) \/
             SharedLock(t) \/ CasToRunnable(t)
    <3>1. \A u \in list_' : u \in list_ /\ Forcing(u)' = Forcing(u)
      BY <1>2, <2>2 DEF CheckRequest, Goto, WaitForResume, Woken, SpuriousWakeup, SharedLock,
        MutatorLock!AcquireShared, CasToRunnable, Types, Locking, Loops, Forcing, InForce,
        counts, mutator_lock_, locks
    <3>2. Stopping' = Stopping
      BY <1>2, <2>2 DEF CheckRequest, Goto, WaitForResume, Woken, SpuriousWakeup, SharedLock,
        MutatorLock!AcquireShared, CasToRunnable, Types, Stopping, counts, mutator_lock_, locks
    <3>3. UNCHANGED <<suspend_all_count_, suspend_count>>
      BY <2>2 DEF CheckRequest, Goto, WaitForResume, Woken, SpuriousWakeup, SharedLock,
        MutatorLock!AcquireShared, CasToRunnable, counts, mutator_lock_, locks
    <3>4. \A u \in Threads : pc'[u] \in {"unborn", "register"} => pc[u] \in {"unborn", "register"}
      BY <1>2, <2>2 DEF CheckRequest, Goto, WaitForResume, Woken, SpuriousWakeup, SharedLock,
        MutatorLock!AcquireShared, CasToRunnable, Types, counts, mutator_lock_, locks
    <3>q. QED
      BY <1>2, <3>1, <3>2, <3>3, <3>4, SameRequests
  <2>3. CASE SuspendAll(t) \/ SuspendAllUnlock(t) \/ ExclusiveLock(t)
    <3>1. \A u \in list_' : u \in list_ /\ Forcing(u)' = Forcing(u)
      BY <1>2, <2>3 DEF SuspendAll, LockThreadList, Goto, SuspendAllUnlock, UnlockBoth,
        ExclusiveLock, MutatorLock!AcquireExclusive, Types, Locking, Loops, Forcing, InForce,
        counts, mutator_lock_, locks
    <3>2. Stopping' = Stopping
      BY <1>2, <2>3 DEF SuspendAll, LockThreadList, Goto, SuspendAllUnlock, UnlockBoth,
        ExclusiveLock, MutatorLock!AcquireExclusive, Types, Stopping, counts, mutator_lock_,
        locks
    <3>3. UNCHANGED <<suspend_all_count_, suspend_count>>
      BY <2>3 DEF SuspendAll, LockThreadList, Goto, SuspendAllUnlock, UnlockBoth, ExclusiveLock,
        MutatorLock!AcquireExclusive, counts, mutator_lock_, locks
    <3>4. \A u \in Threads : pc'[u] \in {"unborn", "register"} => pc[u] \in {"unborn", "register"}
      BY <1>2, <2>3 DEF SuspendAll, LockThreadList, Goto, SuspendAllUnlock, UnlockBoth,
        ExclusiveLock, MutatorLock!AcquireExclusive, Types, counts, mutator_lock_, locks
    <3>q. QED
      BY <1>2, <3>1, <3>2, <3>3, <3>4, SameRequests
  <2>4. CASE ResumeAll(t) \/ ResumeAllLock(t) \/ ResumeAllBroadcast(t)
    <3>1. \A u \in list_' : u \in list_ /\ Forcing(u)' = Forcing(u)
      BY <1>2, <2>4 DEF ResumeAll, Goto, MutatorLock!ReleaseExclusive, ResumeAllLock,
        LockThreadList, ResumeAllBroadcast, UnlockBoth, Types, Locking, Loops, Forcing,
        InForce, counts, mutator_lock_, locks
    <3>2. Stopping' = Stopping
      BY <1>2, <2>4 DEF ResumeAll, Goto, MutatorLock!ReleaseExclusive, ResumeAllLock,
        LockThreadList, ResumeAllBroadcast, UnlockBoth, Types, Stopping, counts, mutator_lock_,
        locks
    <3>3. UNCHANGED <<suspend_all_count_, suspend_count>>
      BY <2>4 DEF ResumeAll, Goto, MutatorLock!ReleaseExclusive, ResumeAllLock, LockThreadList,
        ResumeAllBroadcast, UnlockBoth, counts, mutator_lock_, locks
    <3>4. \A u \in Threads : pc'[u] \in {"unborn", "register"} => pc[u] \in {"unborn", "register"}
      BY <1>2, <2>4 DEF ResumeAll, Goto, MutatorLock!ReleaseExclusive, ResumeAllLock,
        LockThreadList, ResumeAllBroadcast, UnlockBoth, Types, counts, mutator_lock_, locks
    <3>q. QED
      BY <1>2, <3>1, <3>2, <3>3, <3>4, SameRequests
  <2>5. CASE RegisterLock(t) \/ Destroy(t) \/ Unregister(t)
    <3>1. \A u \in list_' : u \in list_ /\ Forcing(u)' = Forcing(u)
      BY <1>2, <2>5 DEF RegisterLock, LockThreadList, Goto, Destroy, Unregister, Types,
        Locking, Loops, Forcing, InForce, counts, mutator_lock_, locks
    <3>2. Stopping' = Stopping
      BY <1>2, <2>5 DEF RegisterLock, LockThreadList, Goto, Destroy, Unregister, Types,
        Stopping, counts, mutator_lock_, locks
    <3>3. UNCHANGED <<suspend_all_count_, suspend_count>>
      BY <2>5 DEF RegisterLock, LockThreadList, Goto, Destroy, Unregister, counts,
        mutator_lock_, locks
    <3>4. \A u \in Threads : pc'[u] \in {"unborn", "register"} => pc[u] \in {"unborn", "register"}
      BY <1>2, <2>5 DEF RegisterLock, LockThreadList, Goto, Destroy, Unregister, Types, counts,
        mutator_lock_, locks
    <3>q. QED
      BY <1>2, <3>1, <3>2, <3>3, <3>4, SameRequests
  <2>6. CASE SuspendAllBegin(t)
    <3>1. \A u \in list_' : u \in list_ /\ Forcing(u)' = Forcing(u)
      BY <1>2, <2>6
      DEF SuspendAllBegin, StartLoop, Goto, Types, Locking, Loops, Forcing, InForce
    <3>2. t \notin Stopping /\ Stopping' = Stopping \cup {t}
      BY <1>2, <2>6 DEF SuspendAllBegin, StartLoop, Goto, Types, Stopping
    <3>3. /\ suspend_all_count_' = suspend_all_count_ + 1 /\ UNCHANGED <<list_, suspend_count>>
          /\ \A u \in Threads : pc'[u] \in {"unborn", "register"} =>
               pc[u] \in {"unborn", "register"}
      BY <1>2, <2>6 DEF SuspendAllBegin, StartLoop, Goto, Types
    <3>4. suspend_all_count_' = Cardinality(Stopping')
      BY <1>2, <3>2, <3>3, CountOne DEF Counting, Stopping
    <3>q. QED
      BY <1>2, <3>1, <3>3, <3>4 DEF Counting
  <2>7. CASE SuspendAllLoop(t)
    <3>1. PICK u \in todo[t] : /\ ModifySuspendCount(u, 1)
                              /\ todo' = [todo EXCEPT ![t] = @ \ {u}]
      BY <2>7 DEF SuspendAllLoop, LoopModify
    <3>2. u \in list_ /\ u # t /\ u \in Threads /\ pc[u] \notin {"unborn", "register"}
      BY <1>2, <3>1 DEF Locking, Types
    <3>3. UNCHANGED <<list_, suspend_all_count_, pc>>
      BY <2>7 DEF SuspendAllLoop, LoopModify
    <3>4. t \notin Forcing(u) /\ Forcing(u)' = Forcing(u) \cup {t}
      BY <1>2, <2>7, <3>1, <3>2, <3>3 DEF SuspendAllLoop, LoopModify, Types, Forcing, InForce
    <3>5. \A v \in list_ \ {u} : Forcing(v)' = Forcing(v)
      BY <1>2, <3>1, <3>2, <3>3 DEF Types, Forcing, InForce
    <3>6. suspend_count'[u] = Cardinality(Forcing(u)')
      <4>1. Forcing(u) \in SUBSET Threads
        BY DEF Forcing
      <4>2. Cardinality(Forcing(u)') = Cardinality(Forcing(u)) + (1)
        BY <3>4, <4>1, CountOne
      <4>3. suspend_count'[u] = suspend_count[u] + (1)
        BY <1>2, <3>1, <3>2 DEF ModifySuspendCount, Types
      <4>q. QED
        BY <1>2, <3>2, <4>2, <4>3 DEF Counting
    <3>7. \A v \in Threads \ {u} : suspend_count'[v] = suspend_count[v]
      BY <1>2, <3>1 DEF ModifySuspendCount, Types
    <3>8. Stopping' = Stopping
      BY <3>3 DEF Stopping
    <3>q. QED
      BY <1>2, <3>2, <3>3, <3>5, <3>6, <3>7, <3>8 DEF Counting, Types
  <2>8. CASE ResumeAllBegin(t)
    <3>1. \A u \in list_' : u \in list_ /\ Forcing(u)' = Forcing(u)
      BY <1>2, <2>8
      DEF ResumeAllBegin, StartLoop, Goto, Types, Locking, Loops, Forcing, InForce
    <3>2. t \in Stopping /\ Stopping' = Stopping \ {t}
      BY <1>2, <2>8 DEF ResumeAllBegin, StartLoop, Goto, Types, Stopping
    <3>3. /\ suspend_all_count_' = suspend_all_count_ - 1 /\ UNCHANGED <<list_, suspend_count>>
          /\ \A u \in Threads : pc'[u] \in {"unborn", "register"} =>
               pc[u] \in {"unborn", "register"}
      BY <1>2, <2>8 DEF ResumeAllBegin, StartLoop, Goto, Types
    <3>4. suspend_all_count_' = Cardinality(Stopping')
      BY <1>2, <3>2, <3>3, CountOne DEF Counting, Stopping
    <3>q. QED
      BY <1>2, <3>1, <3>3, <3>4 DEF Counting
  <2>9. CASE ResumeAllLoop(t)
    <3>1. PICK u \in todo[t] : /\ ModifySuspendCount(u, -1)
                              /\ todo' = [todo EXCEPT ![t] = @ \ {u}]
      BY <2>9 DEF ResumeAllLoop, LoopModify
    <3>2. u \in list_ /\ u # t /\ u \in Threads /\ pc[u] \notin {"unborn", "register"}
      BY <1>2, <3>1 DEF Locking, Types
    <3>3. UNCHANGED <<list_, suspend_all_count_, pc>>
      BY <2>9 DEF ResumeAllLoop, LoopModify
    <3>4. t \in Forcing(u) /\ Forcing(u)' = Forcing(u) \ {t}
      BY <1>2, <2>9, <3>1, <3>2, <3>3 DEF ResumeAllLoop, LoopModify, Types, Forcing, InForce
    <3>5. \A v \in list_ \ {u} : Forcing(v)' = Forcing(v)
      BY <1>2, <3>1, <3>2, <3>3 DEF Types, Forcing, InForce
    <3>6. suspend_count'[u] = Cardinality(Forcing(u)')
      <4>1. Forcing(u) \in SUBSET Threads
        BY DEF Forcing
      <4>2. Cardinality(Forcing(u)') = Cardinality(Forcing(u)) + (-1)
        BY <3>4, <4>1, CountOne
      <4>3. suspend_count'[u] = suspend_count[u] + (-1)
        BY <1>2, <3>1, <3>2 DEF ModifySuspendCount, Types
      <4>q. QED
        BY <1>2, <3>2, <4>2, <4>3 DEF Counting
    <3>7. \A v \in Threads \ {u} : suspend_count'[v] = suspend_count[v]
      BY <1>2, <3>1 DEF ModifySuspendCount, Types
    <3>8. Stopping' = Stopping
      BY <3>3 DEF Stopping
    <3>q. QED
      BY <1>2, <3>2, <3>3, <3>5, <3>6, <3>7, <3>8 DEF Counting, Types
  <2>10. CASE Register(t)
    <3>1. \A u \in list_ : Forcing(u)' = Forcing(u)
      BY <1>2, <2>10 DEF Register, Goto, Types, Locking, Loops, Forcing, InForce
    <3>2. Forcing(t)' = Stopping /\ Stopping' = Stopping
      BY <1>2, <2>10, ThreadsAssumption
      DEF Register, Goto, Types, Locking, Loops, Forcing, InForce, Stopping
    <3>3. /\ list_' = list_ \cup {t} /\ t \notin list_ /\ UNCHANGED suspend_all_count_
          /\ \A u \in Threads : pc'[u] \in {"unborn", "register"} =>
               u # t /\ pc[u] \in {"unborn", "register"}
      BY <1>2, <2>10 DEF Register, Goto, Types, Locking
    <3>4. suspend_count[t] = 0
      BY <1>2, <2>10 DEF Register, Goto, Counting
    <3>5. suspend_count' = [suspend_count EXCEPT ![t] = suspend_all_count_]
      BY <1>2, <2>10, <3>4 DEF Register, Types
    <3>q. QED
      BY <1>2, <3>1, <3>2, <3>3, <3>5 DEF Counting, Types
  <2>q. QED
    BY <1>2, <2>1, <2>2, <2>3, <2>4, <2>5, <2>6, <2>7, <2>8, <2>9, <2>10
    DEF Choose, Step
<1>q. QED
  BY <1>1, <1>2 DEF Next

\* Every step keeps a waiter whose requests are over within reach of a
\* broadcast.
LEMMA WakingStep == Types /\ Locking /\ Counting /\ Waking /\ [Next]_vars => Waking'
<1>1. ASSUME Types, Locking, Counting, Waking, UNCHANGED vars PROVE Waking'
  BY <1>1 DEF vars, Types, Waking, NoLostResume, SuspendRequest, counts, mutator_lock_, locks
<1>2. ASSUME Types, Locking, Counting, Waking, NEW t \in Threads,
             Choose(t) \/ Step(t) \/ SpuriousWakeup(t)
      PROVE Waking'
  <2>1. CASE EnterNative(t)
    BY <1>2, <2>1
    DEF EnterNative, TransitionFromRunnableToSuspended, Goto, Types, Waking, NoLostResume,
        SuspendRequest, counts, mutator_lock_, locks
  <2>2. CASE FullSuspendCheck(t)
    BY <1>2, <2>2
    DEF FullSuspendCheck, TransitionFromRunnableToSuspended, Goto, Types, Waking, NoLostResume,
        SuspendRequest, counts, mutator_lock_, locks
  <2>3. CASE SharedUnlock(t)
    BY <1>2, <2>3
    DEF SharedUnlock, Goto, MutatorLock!ReleaseShared, Types, Waking, NoLostResume,
        SuspendRequest, counts, mutator_lock_, locks
  <2>4. CASE LeaveNative(t)
    BY <1>2, <2>4
    DEF LeaveNative, Goto, Types, Waking, NoLostResume, SuspendRequest, counts, mutator_lock_,
        locks
  <2>5. CASE CheckRequest(t)
    BY <1>2, <2>5
    DEF CheckRequest, Goto, Types, Waking, NoLostResume, SuspendRequest, counts, mutator_lock_,
        locks
  <2>6. CASE WaitForResume(t)
    BY <1>2, <2>6
    DEF WaitForResume, Goto, Types, Waking, NoLostResume, SuspendRequest, counts,
        mutator_lock_, locks
  <2>7. CASE Woken(t)
    BY <1>2, <2>7
    DEF Woken, Goto, Types, Waking, NoLostResume, SuspendRequest, counts, mutator_lock_, locks
  <2>8. CASE SpuriousWakeup(t)
    BY <1>2, <2>8
    DEF SpuriousWakeup, Types, Waking, NoLostResume, SuspendRequest, counts, mutator_lock_,
        locks
  <2>9. CASE SharedLock(t)
    BY <1>2, <2>9
    DEF SharedLock, Goto, MutatorLock!AcquireShared, Types, Waking, NoLostResume,
        SuspendRequest, counts, mutator_lock_, locks
  <2>10. CASE CasToRunnable(t)
    BY <1>2, <2>10
    DEF CasToRunnable, Goto, Types, Waking, NoLostResume, SuspendRequest, counts,
        mutator_lock_, locks
  <2>11. CASE SuspendAll(t)
    BY <1>2, <2>11
    DEF SuspendAll, LockThreadList, Goto, Types, Waking, NoLostResume, SuspendRequest, counts,
        mutator_lock_, locks
  <2>12. CASE SuspendAllBegin(t)
    BY <1>2, <2>12
    DEF SuspendAllBegin, StartLoop, Goto, Types, Waking, NoLostResume, SuspendRequest, counts,
        mutator_lock_, locks
  <2>13. CASE SuspendAllLoop(t)
    <3>1. PICK u \in todo[t] : ModifySuspendCount(u, 1)
      BY <2>13 DEF SuspendAllLoop, LoopModify
    <3>2. u \in list_ /\ u \in Threads
      BY <1>2, <3>1 DEF Locking, Types
    <3>3. suspend_count[u] \in Nat
      BY <1>2, <3>2, CountOne DEF Counting, Forcing
    <3>4. \A v \in Threads : SuspendRequest(v) => SuspendRequest(v)'
      BY <1>2, <3>1, <3>3 DEF SuspendRequest, ModifySuspendCount, Types
    <3>q. QED
      BY <1>2, <2>13, <3>4 DEF SuspendAllLoop, LoopModify, Waking, NoLostResume, Types
  <2>14. CASE SuspendAllUnlock(t)
    BY <1>2, <2>14
    DEF SuspendAllUnlock, Goto, UnlockBoth, Types, Waking, NoLostResume, SuspendRequest,
        counts, mutator_lock_, locks
  <2>15. CASE ExclusiveLock(t)
    BY <1>2, <2>15
    DEF ExclusiveLock, Goto, MutatorLock!AcquireExclusive, Types, Waking, NoLostResume,
        SuspendRequest, counts, mutator_lock_, locks
  <2>16. CASE ResumeAll(t)
    BY <1>2, <2>16
    DEF ResumeAll, Goto, MutatorLock!ReleaseExclusive, Types, Waking, NoLostResume,
        SuspendRequest, counts, mutator_lock_, locks
  <2>17. CASE ResumeAllLock(t)
    BY <1>2, <2>17
    DEF ResumeAllLock, LockThreadList, Goto, Types, Waking, NoLostResume, SuspendRequest,
        counts, mutator_lock_, locks
  <2>18. CASE ResumeAllBegin(t)
    BY <1>2, <2>18
    DEF ResumeAllBegin, StartLoop, Goto, Types, Waking, NoLostResume, SuspendRequest, counts,
        mutator_lock_, locks
  <2>19. CASE ResumeAllLoop(t)
    BY <1>2, <2>19
    DEF ResumeAllLoop, LoopModify, ModifySuspendCount, Types, Waking, NoLostResume,
        SuspendRequest, counts, mutator_lock_, locks
  <2>20. CASE ResumeAllBroadcast(t)
    BY <1>2, <2>20
    DEF ResumeAllBroadcast, Goto, UnlockBoth, Types, Waking, NoLostResume, SuspendRequest,
        counts, mutator_lock_, locks
  <2>21. CASE RegisterLock(t)
    BY <1>2, <2>21
    DEF RegisterLock, LockThreadList, Goto, Types, Waking, NoLostResume, SuspendRequest,
        counts, mutator_lock_, locks
  <2>22. CASE Register(t)
    BY <1>2, <2>22
    DEF Register, Goto, Types, Waking, NoLostResume, SuspendRequest, counts, mutator_lock_,
        locks
  <2>23. CASE Destroy(t)
    BY <1>2, <2>23
    DEF Destroy, Goto, Types, Waking, NoLostResume, SuspendRequest, counts, mutator_lock_,
        locks
  <2>24. CASE Unregister(t)
    BY <1>2, <2>24
    DEF Unregister, Goto, Types, Waking, NoLostResume, SuspendRequest, counts, mutator_lock_,
        locks
  <2>q. QED
    BY <1>2, <2>1, <2>2, <2>3, <2>4, <2>5, <2>6, <2>7, <2>8, <2>9, <2>10, <2>11, <2>12,
       <2>13, <2>14, <2>15, <2>16, <2>17, <2>18, <2>19, <2>20, <2>21, <2>22, <2>23, <2>24
    DEF Choose, Step
<1>q. QED
  BY <1>1, <1>2 DEF Next

-----------------------------------------------------------------------------
IInv == Types /\ Sharing /\ Locking /\ Counting /\ Waking

\* Initially every listed thread is suspended and nobody has asked for more.
LEMMA InitIInv == Init => IInv
<1> SUFFICES ASSUME Init PROVE IInv
  OBVIOUS
<1> USE ThreadsAssumption DEF Init, MutatorLock!Init
<1>1. Types
  BY DEF Types, PcValues
<1>2. Sharing /\ Locking /\ Waking
  BY DEF Sharing, Locking, Loops, Waking, NoLostResume
<1>3. Stopping = {} /\ \A t \in Threads : Forcing(t) = {}
  BY DEF Stopping, Forcing, InForce
<1>4. Counting
  BY <1>3, FS_EmptySet DEF Counting
<1>q. QED
  BY <1>1, <1>2, <1>4 DEF IInv

\* The inductive invariant holds in every reachable state.
THEOREM Invariance == Spec => []IInv
<1>1. IInv /\ [Next]_vars => IInv'
  BY TypeStep, SharingStep, LockingStep, CountingStep, WakingStep DEF IInv
<1>q. QED
  BY InitIInv, <1>1, PTL DEF Spec

\* Type correctness of the suspension protocol.
THEOREM TypeCorrect == Spec => []TypeOK
<1>1. IInv => TypeOK
  <2> SUFFICES ASSUME IInv PROVE TypeOK
    OBVIOUS
  <2>1. \A S \in SUBSET Threads : Cardinality(S) \in Nat
    BY ThreadsAssumption, FS_Subset, FS_CardinalityType
  <2>2. Stopping \in SUBSET Threads /\ \A t \in list_ : Forcing(t) \in SUBSET Threads
    BY DEF Stopping, Forcing
  <2>3. suspend_all_count_ \in Nat /\ \A t \in list_ : suspend_count[t] \in Nat
    BY <2>1, <2>2 DEF IInv, Counting
  <2>q. QED
    BY <2>3 DEF IInv, Types, TypeOK
<1>q. QED
  BY Invariance, <1>1, PTL

\* For any number of threads attaching, detaching and calling SuspendAll, the
\* suspend counts are the requests in force (ModifySuspendCount, Register).
THEOREM CountsCorrect == Spec => []CountsRequests
<1>1. IInv => CountsRequests
  BY DEF IInv, Counting, CountsRequests, Forcing, Stopping
<1>q. QED
  BY Invariance, <1>1, PTL

\* AssertThreadsAreSuspended never fails after SuspendAll.
THEOREM WorldStoppedCorrect == Spec => []WorldStopped
<1>1. IInv => WorldStopped
  <2> SUFFICES ASSUME IInv, NEW r \in Threads, pc[r] = "stopped", NEW t \in list_ \ {r}
               PROVE  IsSuspended(t)
    BY DEF WorldStopped
  <2>1. t \in Threads
    BY DEF IInv, Types
  <2>2. r \in Forcing(t)
    BY DEF Forcing, InForce
  <2>3. suspend_count[t] # 0
    BY <2>1, <2>2, CountOne DEF IInv, Counting, Forcing
  <2>4. state[t] # "Runnable"
    BY <2>1 DEF IInv, Sharing
  <2>q. QED
    BY <2>3, <2>4 DEF IsSuspended, SuspendRequest
<1>q. QED
  BY Invariance, <1>1, PTL

\* The loops of SuspendAll and ResumeAll never touch a deleted Thread.
THEOREM NoDanglingCorrect == Spec => []NoDanglingThread
<1>1. IInv => NoDanglingThread
  BY DEF IInv, Locking, NoDanglingThread
<1>q. QED
  BY Invariance, <1>1, PTL

\* No thread is left asleep in resume_cond_ after its last resume.
THEOREM NoLostResumeCorrect == Spec => []NoLostResume
<1>1. IInv => NoLostResume
  BY DEF IInv, Waking
<1>q. QED
  BY Invariance, <1>1, PTL
-----------------------------------------------------------------------------
(* ImplementsStopTheWorld: step by step, only the compare-and-swaps, the   *)
(* ExclusiveLock of SuspendAll and the ExclusiveUnlock of ResumeAll are     *)
(* steps of the abstract lock.                                             *)

Running == {t \in Threads : state[t] = "Runnable"}
Stoppers == {t \in Threads : pc[t] = "stopped"}

\* A step that leaves the Runnable threads and the stopper alone stutters.
LEMMA WorldStutters ==
  ASSUME Running' = Running, Stoppers' = Stoppers
  PROVE  [World!Next]_World!lock
BY DEF World!lock, Running, Stoppers

\* Every step starts or stops one thread, stops or restarts the world, or
\* changes neither.
LEMMA WorldStep == Types /\ Sharing /\ Sharing' /\ [Next]_vars => [World!Next]_World!lock
<1>1. ASSUME UNCHANGED vars PROVE [World!Next]_World!lock
  BY <1>1, WorldStutters DEF vars, Running, Stoppers
<1>2. ASSUME Types, Sharing, Sharing', NEW t \in Threads,
             Choose(t) \/ Step(t) \/ SpuriousWakeup(t)
      PROVE  [World!Next]_World!lock
  <2>1. CASE EnterNative(t)
    <3>1. World!ReleaseShared(t)
      BY <1>2, <2>1
      DEF EnterNative, TransitionFromRunnableToSuspended, Goto, World!ReleaseShared, Sharing,
          Types
    <3>q. QED
      BY <3>1 DEF World!Next
  <2>2. CASE FullSuspendCheck(t)
    <3>1. World!ReleaseShared(t)
      BY <1>2, <2>2
      DEF FullSuspendCheck, TransitionFromRunnableToSuspended, Goto, World!ReleaseShared,
          Sharing, Types
    <3>q. QED
      BY <3>1 DEF World!Next
  <2>3. CASE SharedUnlock(t)
    BY <1>2, <2>3, WorldStutters
    DEF SharedUnlock, Goto, MutatorLock!ReleaseShared, Running, Stoppers, Types
  <2>4. CASE LeaveNative(t)
    BY <1>2, <2>4, WorldStutters DEF LeaveNative, Goto, Running, Stoppers, Types
  <2>5. CASE CheckRequest(t)
    BY <1>2, <2>5, WorldStutters DEF CheckRequest, Goto, Running, Stoppers, Types
  <2>6. CASE WaitForResume(t)
    BY <1>2, <2>6, WorldStutters DEF WaitForResume, Goto, Running, Stoppers, Types
  <2>7. CASE Woken(t)
    BY <1>2, <2>7, WorldStutters DEF Woken, Goto, Running, Stoppers, Types
  <2>8. CASE SpuriousWakeup(t)
    BY <1>2, <2>8, WorldStutters DEF SpuriousWakeup, Running, Stoppers, Types
  <2>9. CASE SharedLock(t)
    BY <1>2, <2>9, WorldStutters
    DEF SharedLock, Goto, MutatorLock!AcquireShared, Running, Stoppers, Types
  <2>10. CASE CasToRunnable(t)
    <3>1. CASE SuspendRequest(t)
      BY <1>2, <2>10, <3>1, WorldStutters DEF CasToRunnable, Goto, Running, Stoppers, Types
    <3>2. CASE ~SuspendRequest(t)
      <4>1. World!AcquireShared(t)
        BY <1>2, <2>10, <3>2 DEF CasToRunnable, Goto, World!AcquireShared, Sharing, Types
      <4>q. QED
        BY <4>1 DEF World!Next
    <3>q. QED
      BY <3>1, <3>2
  <2>11. CASE SuspendAll(t)
    BY <1>2, <2>11, WorldStutters
    DEF SuspendAll, LockThreadList, Goto, Running, Stoppers, Types
  <2>12. CASE SuspendAllBegin(t)
    BY <1>2, <2>12, WorldStutters
    DEF SuspendAllBegin, StartLoop, Goto, Running, Stoppers, Types
  <2>13. CASE SuspendAllLoop(t)
    BY <1>2, <2>13, WorldStutters
    DEF SuspendAllLoop, LoopModify, ModifySuspendCount, Running, Stoppers, Types
  <2>14. CASE SuspendAllUnlock(t)
    BY <1>2, <2>14, WorldStutters
    DEF SuspendAllUnlock, Goto, UnlockBoth, Running, Stoppers, Types
  <2>15. CASE ExclusiveLock(t)
    <3>1. World!AcquireExclusive(t)
      BY <1>2, <2>15
      DEF ExclusiveLock, Goto, MutatorLock!AcquireExclusive, World!AcquireExclusive, Sharing,
          Types
    <3>q. QED
      BY <3>1 DEF World!Next
  <2>16. CASE ResumeAll(t)
    <3>1. World!ReleaseExclusive(t)
      BY <1>2, <2>16
      DEF ResumeAll, Goto, MutatorLock!ReleaseExclusive, World!ReleaseExclusive, Sharing, Types
    <3>q. QED
      BY <3>1 DEF World!Next
  <2>17. CASE ResumeAllLock(t)
    BY <1>2, <2>17, WorldStutters
    DEF ResumeAllLock, LockThreadList, Goto, Running, Stoppers, Types
  <2>18. CASE ResumeAllBegin(t)
    BY <1>2, <2>18, WorldStutters DEF ResumeAllBegin, StartLoop, Goto, Running, Stoppers, Types
  <2>19. CASE ResumeAllLoop(t)
    BY <1>2, <2>19, WorldStutters
    DEF ResumeAllLoop, LoopModify, ModifySuspendCount, Running, Stoppers, Types
  <2>20. CASE ResumeAllBroadcast(t)
    BY <1>2, <2>20, WorldStutters
    DEF ResumeAllBroadcast, Goto, UnlockBoth, Running, Stoppers, Types
  <2>21. CASE RegisterLock(t)
    BY <1>2, <2>21, WorldStutters
    DEF RegisterLock, LockThreadList, Goto, Running, Stoppers, Types
  <2>22. CASE Register(t)
    BY <1>2, <2>22, WorldStutters DEF Register, Goto, Running, Stoppers, Types
  <2>23. CASE Destroy(t)
    BY <1>2, <2>23, WorldStutters DEF Destroy, Goto, Running, Stoppers, Types
  <2>24. CASE Unregister(t)
    BY <1>2, <2>24, WorldStutters DEF Unregister, Goto, Running, Stoppers, Types
  <2>q. QED
    BY <1>2, <2>1, <2>2, <2>3, <2>4, <2>5, <2>6, <2>7, <2>8, <2>9, <2>10, <2>11, <2>12,
       <2>13, <2>14, <2>15, <2>16, <2>17, <2>18, <2>19, <2>20, <2>21, <2>22, <2>23, <2>24
    DEF Choose, Step
<1>q. QED
  BY <1>1, <1>2 DEF Next

\* Runnable threads and the thread that has stopped the world are the readers
\* and the writer of a reader-writer lock, whatever the number of threads.
THEOREM StopTheWorldCorrect == Spec => ImplementsStopTheWorld
<1>1. Init => World!Init
  BY DEF Init, World!Init
<1>2. IInv /\ IInv' /\ [Next]_vars => [World!Next]_World!lock
  BY WorldStep DEF IInv
<1>q. QED
  BY <1>1, <1>2, Invariance, PTL DEF Spec, ImplementsStopTheWorld, World!Spec
=============================================================================
