-------------------------- MODULE Checkpoint_proofs --------------------------
(***************************************************************************)
(* Proofs about checkpoints, for any number of threads, collectors,        *)
(* profilers and SuspendAlls: a checkpoint runs exactly once for every     *)
(* thread that was asked, on a thread that stays suspended or on the       *)
(* thread itself, no deleted thread is used, and no resume is lost.        *)
(***************************************************************************)
EXTENDS Checkpoint, ThreadSuspension_proofs

-----------------------------------------------------------------------------
(* The inductive invariant.                                                *)

\* Where a collector's checkpoint, and a profiler's, is under way.
Raising == {"checkpointLoop", "checkpointRaise", "checkpointSelf", "checkpointNext",
            "checkpointWait", "checkpointRun", "checkpointLower"}
Marking == Raising \cup {"checkpointed", "increment", "await"}
Sampling == {"sampleLoop", "sampleIncrement", "sampleAwait"}
Round == Marking \cup Sampling

CollectorPcs == Marking \cup {"marking", "checkpoint", "rootsMarked", "sweeping"}
ProfilerPcs == Sampling \cup {"sample"}
CPcValues == PcValues \cup {"closures"} \cup CollectorPcs \cup ProfilerPcs

CTypes ==
  /\ list_ \subseteq Threads
  /\ suspend_all_count_ \in Int
  /\ suspend_count \in [Threads -> Int]
  /\ state \in [Threads -> {"Runnable", "Native"}]
  /\ readers \subseteq Threads /\ writers \subseteq Threads
  /\ thread_list_lock_ \in Threads \cup {NoThread}
  /\ thread_suspend_count_lock_ \in Threads \cup {NoThread}
  /\ resume_waiters \subseteq Threads
  /\ pc \in [Threads -> CPcValues]
  /\ todo \in [Threads -> SUBSET Threads]

RTypes ==
  /\ checkpoint_functions \in [Threads -> Seq(Requesters)]
  /\ closures \in [Threads -> Seq(Requesters)]
  /\ modified \in [Requesters -> SUBSET Threads]
  /\ cur \in [Requesters -> Threads \cup {NoThread}]
  /\ count \in [Requesters -> Int]
  /\ barrier \in [Requesters -> Int]
  /\ asked \in [Requesters -> SUBSET Threads]
  /\ runs \in [Requesters -> [Threads -> Nat]]

\* Who holds mutator_lock_ and who is Runnable, by where each thread is.
Sharers == {"cas", "running", "closures", "unshare", "unshareForCheck", "unshareAndRetry",
            "marking", "checkpoint", "checkpointed", "sweeping"} \cup Raising

CSharing ==
  /\ \A t \in Threads : t \in readers <=> pc[t] \in Sharers
  /\ \A t \in Threads : state[t] = "Runnable" <=> pc[t] \in {"running", "closures"}
  /\ \A t \in Threads : t \in writers <=> pc[t] = "stopped"
  /\ writers # {} => readers = {}
  /\ \A t, u \in writers : t = u

CLoops == {"suspendAllLoop", "resumeAllLoop", "checkpointLoop", "checkpointRaise", "sampleLoop"}
Listing == CLoops \cup {"suspendAll", "resumeAllLocked", "register", "checkpoint", "sample"}

CLocking ==
  /\ \A t \in Threads : thread_list_lock_ = t <=> pc[t] \in Listing
  /\ \A t \in Threads : thread_suspend_count_lock_ = t <=> pc[t] \in CLoops
  /\ \A t \in Threads : t \in list_ <=> pc[t] \notin {"unborn", "register", "dead"}
  /\ \A t \in Threads : todo[t] \subseteq list_ \ {t}
  /\ \A t \in Threads : todo[t] # {} => pc[t] \in CLoops

\* Only collectors and profilers are where checkpoints are requested.
Roles ==
  \A t \in Threads :
    /\ pc[t] \in CollectorPcs => t \in Collectors
    /\ pc[t] \in ProfilerPcs => t \in Profilers

Has(s, r) == \E i \in 1..Len(s) : s[i] = r
Distinct(s) == \A i, j \in 1..Len(s) : s[i] = s[j] => i = j

\* A thread has checkpoints to run only while it is Runnable, and each
\* requester's once.
Slots(t) ==
  /\ closures[t] # << >> <=> pc[t] = "closures"
  /\ checkpoint_functions[t] # << >> => pc[t] \in {"running", "closures"}
  /\ Distinct(checkpoint_functions[t]) /\ Distinct(closures[t])
  /\ \A r \in Requesters : ~(Has(checkpoint_functions[t], r) /\ Has(closures[t], r))

\* The threads whose counts r has raised are attached; the one that r is at is
\* raised or about to be, and suspended while r's closure runs on it.
Raised(r) ==
  /\ modified[r] \subseteq list_ \ {r} /\ modified[r] \cap todo[r] = {}
  /\ modified[r] # {} => pc[r] \in Raising
  /\ pc[r] = "checkpointRaise" => cur[r] \in list_ \ ({r} \cup modified[r] \cup todo[r])
  /\ pc[r] \in {"checkpointWait", "checkpointRun", "checkpointLower"} => cur[r] \in modified[r]
  /\ pc[r] \in {"checkpointRun", "checkpointLower"} => state[cur[r]] = "Native"

Raisers(t) == {r \in Requesters : t \in modified[r]}

\* A suspend count is the number of SuspendAlls in force and of collectors that
\* keep the thread suspended.
CCounting ==
  /\ \A t \in list_ : suspend_count[t] = Cardinality(Forcing(t)) + Cardinality(Raisers(t))
  /\ \A t \in Threads : pc[t] \in {"unborn", "register"} => suspend_count[t] = 0
  /\ suspend_all_count_ = Cardinality(Stopping)

\* The threads that r has asked and counted, the ones it is still to ask, and
\* the ones that r's closure has run on.
Ahead(r) ==
  todo[r] \cup (IF pc[r] = "checkpointRaise" THEN {cur[r]} ELSE {})
          \cup (IF pc[r] \in {"checkpointLoop", "checkpointRaise", "checkpointSelf"} THEN {r} ELSE {})
Pending(r) == {t \in Threads : Has(checkpoint_functions[t], r) \/ Has(closures[t], r)}
Unrun(r) == modified[r] \ (IF pc[r] = "checkpointLower" THEN {cur[r]} ELSE {})
Checked(r) == {t \in Threads : runs[r][t] = 1}

\* The round that r is in: the count it will announce is the number of threads
\* asked, and its barrier is short of it by those that have run.
Accounting(r) ==
  /\ Checked(r) \subseteq asked[r]
  /\ Ahead(r) \subseteq asked[r] \ Checked(r)
  /\ Pending(r) \subseteq asked[r] \ (Checked(r) \cup Ahead(r) \cup modified[r])
  /\ Unrun(r) \subseteq asked[r] \ Checked(r)
  /\ modified[r] \cap Ahead(r) = {}
  /\ count[r] = Cardinality(asked[r] \ Ahead(r))
  /\ barrier[r] = (IF pc[r] \in {"await", "sampleAwait"} THEN count[r] ELSE 0)
                  - Cardinality(Checked(r))

RoundOf(r) ==
  /\ \A t \in Threads : runs[r][t] <= 1
  /\ IF pc[r] \in Round THEN Accounting(r)
     ELSE /\ Pending(r) = {} /\ barrier[r] = 0
          /\ pc[r] = "rootsMarked" => asked[r] \subseteq Checked(r)

Rounds == \A r \in Requesters : RoundOf(r)

CWaking ==
  /\ \A t \in resume_waiters : pc[t] = "waiting"
  /\ NoLostResumeAfterCheckpoint

CheckpointInv ==
  /\ CTypes /\ RTypes /\ CSharing /\ CLocking /\ Roles /\ (\A t \in Threads : Slots(t))
  /\ (\A r \in Requesters : Raised(r)) /\ CCounting /\ Rounds /\ CWaking

-----------------------------------------------------------------------------
(* Types, mutator_lock_ and the mutexes.                                   *)

\* A step of ThreadSuspension as Checkpoint has it: a thread leaves Runnable only
\* when its checkpoint flag is clear.
BaseAction(t) ==
  /\ Choose(t) \/ Step(t) \/ SpuriousWakeup(t)
  /\ pc[t] = "running" => ~CheckpointRequest(t)
  /\ Unaffected

\* The steps of a checkpoint, whether its requester or the thread asked takes them.
CheckpointAction(t) ==
  \/ RunCheckpointFunction(t) \/ RunClosure(t) \/ StartMarking(t) \/ Sample(t)
  \/ t \in Collectors /\ CheckpointStep(t)
  \/ t \in Profilers /\ SampleStep(t)

Places == CTypes /\ CSharing /\ CLocking

\* A step of ThreadSuspension keeps the locks consistent with where the threads
\* are, also when some of them are in a checkpoint.
LEMMA BasePlaces ==
  ASSUME Places, NEW t \in Threads, BaseAction(t)
  PROVE  Places'
<1> USE ThreadsAssumption DEF Places, CTypes, CSharing, CLocking, counts, mutator_lock_, locks
<1> USE DEF CPcValues, PcValues, Sharers, CLoops, Listing, CollectorPcs, ProfilerPcs, Marking, Raising, Sampling
<1>1. CASE EnterNative(t)
  BY <1>1, SMTT(30) DEF EnterNative, TransitionFromRunnableToSuspended, Goto
<1>2. CASE FullSuspendCheck(t)
  BY <1>2, SMTT(30) DEF FullSuspendCheck, TransitionFromRunnableToSuspended, Goto
<1>3. CASE SharedUnlock(t)
  BY <1>3, SMTT(30) DEF SharedUnlock, Goto, MutatorLock!ReleaseShared
<1>4. CASE LeaveNative(t)
  BY <1>4, SMTT(30) DEF LeaveNative, Goto
<1>5. CASE CheckRequest(t)
  BY <1>5, SMTT(30) DEF CheckRequest, Goto
<1>6. CASE WaitForResume(t)
  BY <1>6, SMTT(30) DEF WaitForResume, Goto
<1>7. CASE Woken(t)
  BY <1>7, SMTT(30) DEF Woken, Goto
<1>8. CASE SpuriousWakeup(t)
  BY <1>8, Zenon DEF SpuriousWakeup
<1>9. CASE SharedLock(t)
  BY <1>9, SMTT(30) DEF SharedLock, Goto, MutatorLock!AcquireShared
<1>10. CASE CasToRunnable(t)
  BY <1>10, SMTT(30) DEF CasToRunnable, Goto
<1>11. CASE SuspendAll(t)
  BY <1>11, SMTT(30) DEF SuspendAll, LockThreadList, Goto
<1>12. CASE SuspendAllBegin(t)
  BY <1>12, SMTT(30) DEF SuspendAllBegin, StartLoop, Goto
<1>13. CASE SuspendAllLoop(t)
  BY <1>13, SMTT(30) DEF SuspendAllLoop, LoopModify, ModifySuspendCount
<1>14. CASE SuspendAllUnlock(t)
  BY <1>14, SMTT(30) DEF SuspendAllUnlock, Goto, UnlockBoth
<1>15. CASE ExclusiveLock(t)
  BY <1>15, SMTT(30) DEF ExclusiveLock, Goto, MutatorLock!AcquireExclusive
<1>16. CASE ResumeAll(t)
  BY <1>16, SMTT(30) DEF ResumeAll, Goto, MutatorLock!ReleaseExclusive
<1>17. CASE ResumeAllLock(t)
  BY <1>17, SMTT(30) DEF ResumeAllLock, LockThreadList, Goto
<1>18. CASE ResumeAllBegin(t)
  BY <1>18, SMTT(30) DEF ResumeAllBegin, StartLoop, Goto
<1>19. CASE ResumeAllLoop(t)
  BY <1>19, SMTT(30) DEF ResumeAllLoop, LoopModify, ModifySuspendCount
<1>20. CASE ResumeAllBroadcast(t)
  BY <1>20, SMTT(30) DEF ResumeAllBroadcast, Goto, UnlockBoth
<1>21. CASE RegisterLock(t)
  BY <1>21, SMTT(30) DEF RegisterLock, LockThreadList, Goto
<1>22. CASE Register(t)
  BY <1>22, SMTT(30) DEF Register, Goto
<1>23. CASE Destroy(t)
  BY <1>23, SMTT(30) DEF Destroy, Goto
<1>24. CASE Unregister(t)
  BY <1>24, SMTT(30) DEF Unregister, Goto
<1> QED
  BY <1>1, <1>2, <1>3, <1>4, <1>5, <1>6, <1>7, <1>8, <1>9, <1>10, <1>11, <1>12, <1>13, <1>14,
     <1>15, <1>16, <1>17, <1>18, <1>19, <1>20, <1>21, <1>22, <1>23, <1>24, ZenonT(40)
     DEF BaseAction, Choose, Step

\* Suspend counts stay integers.
LEMMA CountTyped ==
  ASSUME suspend_count \in [Threads -> Int], NEW x, NEW d \in {1, -1}, ModifySuspendCount(x, d)
  PROVE  suspend_count' \in [Threads -> Int]
<1>1. CASE x \in Threads
  BY <1>1 DEF ModifySuspendCount
<1>2. CASE x \notin Threads
  BY <1>2, Zenon DEF ModifySuspendCount
<1> QED
  BY <1>1, <1>2, Zenon

\* A step of a checkpoint keeps the locks consistent with where the threads are.
LEMMA CheckpointPlaces ==
  ASSUME Places, NEW t \in Threads, CheckpointAction(t)
  PROVE  Places'
<1> USE ThreadsAssumption DEF Places, CTypes, CSharing, CLocking, counts, mutator_lock_, locks
<1> USE DEF CPcValues, PcValues, Sharers, CLoops, Listing, CollectorPcs, ProfilerPcs, Marking,
            Raising, Sampling
<1>1. CASE RunCheckpointFunction(t)
  BY <1>1, SMTT(30) DEF RunCheckpointFunction, Goto
<1>2. CASE RunClosure(t)
  BY <1>2, SMTT(30) DEF RunClosure, Goto
<1>3. CASE StartMarking(t)
  BY <1>3, SMTT(30) DEF StartMarking, CollectorShare, Goto, MutatorLock!AcquireShared
<1>4. CASE Sample(t)
  BY <1>4, SMTT(30) DEF Sample, LockThreadList, Goto
<1>5. CASE RunCheckpoint(t)
  BY <1>5, SMTT(30) DEF RunCheckpoint, LockForLoop, LockThreadList, Goto
<1>6. CASE CheckpointBegin(t)
  BY <1>6, SMTT(30) DEF CheckpointBegin, BeginLoop, StartLoop, Goto
<1>7. CASE CheckpointRequested(t)
  BY <1>7, SMTT(30) DEF CheckpointRequested, Requested
<1>8. CASE CheckpointRefused(t)
  BY <1>8, SMTT(30) DEF CheckpointRefused, Goto
<1>9. CASE CheckpointRaise(t)
  <2>1. PICK x : ModifySuspendCount(x, 1)
    BY <1>9, Zenon DEF CheckpointRaise
  <2>2. suspend_count' \in [Threads -> Int]
    BY <2>1, CountTyped, Zenon
  <2>3. /\ pc[t] = "checkpointRaise" /\ pc' = [pc EXCEPT ![t] = "checkpointLoop"]
        /\ UNCHANGED <<list_, suspend_all_count_, state, readers, writers, thread_list_lock_,
                       thread_suspend_count_lock_, resume_waiters, todo>>
    BY <1>9, Zenon DEF CheckpointRaise, Goto
  <2> QED
    BY <2>2, <2>3, SMTT(30)
<1>10. CASE CheckpointUnlock(t)
  BY <1>10, SMTT(30) DEF CheckpointUnlock, EndLoop, Goto, UnlockBoth
<1>11. CASE CheckpointSelf(t)
  BY <1>11, SMTT(30) DEF CheckpointSelf, Goto
<1>12. CASE CheckpointNext(t)
  BY <1>12, SMTT(30) DEF CheckpointNext, Goto
<1>13. CASE CheckpointWait(t)
  BY <1>13, SMTT(30) DEF CheckpointWait, Goto
<1>14. CASE CheckpointRun(t)
  BY <1>14, SMTT(30) DEF CheckpointRun, Goto
<1>15. CASE CheckpointLower(t)
  <2>1. PICK x : ModifySuspendCount(x, -1)
    BY <1>15, Zenon DEF CheckpointLower
  <2>2. suspend_count' \in [Threads -> Int]
    BY <2>1, CountTyped, Zenon
  <2>3. /\ pc[t] = "checkpointLower" /\ pc' = [pc EXCEPT ![t] = "checkpointNext"]
        /\ UNCHANGED <<list_, suspend_all_count_, state, readers, writers, thread_list_lock_,
                       thread_suspend_count_lock_, resume_waiters, todo>>
    BY <1>15, Zenon DEF CheckpointLower, Goto
  <2> QED
    BY <2>2, <2>3, SMTT(30)
<1>16. CASE CheckpointBroadcast(t)
  BY <1>16, SMTT(30) DEF CheckpointBroadcast, Goto
<1>17. CASE Checkpointed(t)
  BY <1>17, SMTT(30) DEF Checkpointed, CollectorUnshare, Goto, MutatorLock!ReleaseShared
<1>18. CASE CollectorIncrement(t)
  BY <1>18, SMTT(30) DEF CollectorIncrement, Increment, Goto
<1>19. CASE CollectorAwait(t)
  BY <1>19, SMTT(30) DEF CollectorAwait, AwaitZero, Goto
<1>20. CASE ResumeMarking(t)
  BY <1>20, SMTT(30) DEF ResumeMarking, CollectorShare, Goto, MutatorLock!AcquireShared
<1>21. CASE FinishCollection(t)
  BY <1>21, SMTT(30) DEF FinishCollection, CollectorUnshare, Goto, MutatorLock!ReleaseShared
<1>22. CASE SampleBegin(t)
  BY <1>22, SMTT(30) DEF SampleBegin, BeginLoop, StartLoop, Goto
<1>23. CASE SampleRequested(t)
  BY <1>23, SMTT(30) DEF SampleRequested, Requested
<1>24. CASE SampleRefused(t)
  BY <1>24, SMTT(30) DEF SampleRefused
<1>25. CASE SampleUnlock(t)
  BY <1>25, SMTT(30) DEF SampleUnlock, EndLoop, Goto, UnlockBoth
<1>26. CASE SampleIncrement(t)
  BY <1>26, SMTT(30) DEF SampleIncrement, Increment, Goto
<1>27. CASE SampleAwait(t)
  BY <1>27, SMTT(30) DEF SampleAwait, AwaitZero, Goto
<1> QED
  BY <1>1, <1>2, <1>3, <1>4, <1>5, <1>6, <1>7, <1>8, <1>9, <1>10, <1>11, <1>12, <1>13, <1>14,
     <1>15, <1>16, <1>17, <1>18, <1>19, <1>20, <1>21, <1>22, <1>23, <1>24, <1>25, <1>26, <1>27,
     ZenonT(40)
     DEF CheckpointAction, CheckpointStep, SampleStep


\* Every step is one of the two.
LEMMA NextSplits == CNext => \E t \in Threads : BaseAction(t) \/ CheckpointAction(t)
<1> SUFFICES ASSUME NEW t \in Threads, CChoose(t) \/ CStep(t) \/ CSpurious(t)
             PROVE  BaseAction(t) \/ CheckpointAction(t)
  BY Zenon DEF CNext
<1>1. CASE (CEnterNative(t) \/ CFullSuspendCheck(t)) /\ Unaffected
  BY <1>1, Zenon DEF CEnterNative, CFullSuspendCheck, BaseAction, Choose, Step
<1>2. CASE (LeaveNative(t) \/ SuspendAll(t) \/ RegisterLock(t) \/ Destroy(t)) /\ Unaffected
  <2>1. pc[t] # "running"
    BY <1>2, Zenon DEF LeaveNative, SuspendAll, RegisterLock, Destroy, LockThreadList, Goto
  <2> QED
    BY <1>2, <2>1, Zenon DEF BaseAction, Choose
<1>3. CASE (BaseStep(t) \/ SpuriousWakeup(t)) /\ Unaffected
  <2>1. pc[t] # "running"
    BY <1>3, Zenon
       DEF BaseStep, SpuriousWakeup, SharedUnlock, CheckRequest, WaitForResume, Woken,
           SharedLock, CasToRunnable, SuspendAllBegin, SuspendAllLoop, SuspendAllUnlock,
           ExclusiveLock, ResumeAll, ResumeAllLock, ResumeAllBegin, ResumeAllLoop,
           ResumeAllBroadcast, Register, Unregister, LockThreadList, StartLoop, LoopModify,
           Goto
  <2> QED
    BY <1>3, <2>1, Zenon DEF BaseAction, Step, BaseStep
<1> QED
  BY <1>1, <1>2, <1>3, Zenon DEF CChoose, CStep, CSpurious, CheckpointAction

\* Where a thread is stopping the world or starting it again.
StopPcs == {"suspendAllLoop", "exclusive", "stopped", "resumeAll", "resumeAllLocked", "resumeAllLoop"}

\* A step of t leaves the other threads where they are.
Alone(t) ==
  \A u \in Threads \ {t} : pc'[u] = pc[u] /\ todo'[u] = todo[u] /\ state'[u] = state[u]

\* What a step of ThreadSuspension may do to a thread that a checkpoint is about:
\* only one with a zero suspend count becomes Runnable or leaves the list.
BaseEffect(t) ==
  /\ Alone(t) /\ pc[t] \in PcValues /\ pc'[t] \in PcValues
  /\ list_ \ {t} \subseteq list_'
  /\ t \in list_ \ list_' => suspend_count[t] = 0 /\ thread_list_lock_ = NoThread
  /\ state'[t] = "Runnable" => state[t] = "Runnable" \/ suspend_count[t] = 0
  /\ pc[t] = "running" => ~CheckpointRequest(t)
  /\ Unaffected

\* The steps of ThreadSuspension have these effects only.
LEMMA BaseEffects ==
  ASSUME Places, NEW t \in Threads, BaseAction(t)
  PROVE  BaseEffect(t)
<1> USE DEF Places, CTypes, CSharing, CLocking, counts, mutator_lock_, locks, PcValues, BaseEffect, Alone,
            SuspendRequest, IsSuspended
<1>0. Unaffected /\ (pc[t] = "running" => ~CheckpointRequest(t))
  BY Zenon DEF BaseAction
<1> USE <1>0
<1>1. CASE EnterNative(t)
  BY <1>1, ZenonT(60) DEF EnterNative, TransitionFromRunnableToSuspended, Goto
<1>2. CASE FullSuspendCheck(t)
  BY <1>2, ZenonT(40) DEF FullSuspendCheck, TransitionFromRunnableToSuspended, Goto
<1>3. CASE SharedUnlock(t)
  BY <1>3, ZenonT(40) DEF SharedUnlock, Goto
<1>4. CASE LeaveNative(t)
  BY <1>4, ZenonT(40) DEF LeaveNative, Goto
<1>5. CASE CheckRequest(t)
  BY <1>5, ZenonT(40) DEF CheckRequest, Goto
<1>6. CASE WaitForResume(t)
  BY <1>6, SMTT(30) DEF WaitForResume, Goto
<1>7. CASE Woken(t)
  BY <1>7, ZenonT(40) DEF Woken, Goto
<1>8. CASE SpuriousWakeup(t)
  BY <1>8, Zenon DEF SpuriousWakeup
<1>9. CASE SharedLock(t)
  BY <1>9, ZenonT(40) DEF SharedLock, Goto
<1>10. CASE CasToRunnable(t)
  BY <1>10, ZenonT(60) DEF CasToRunnable, Goto
<1>11. CASE SuspendAll(t)
  BY <1>11, ZenonT(40) DEF SuspendAll, LockThreadList, Goto
<1>12. CASE SuspendAllBegin(t)
  BY <1>12, SMTT(30) DEF SuspendAllBegin, StartLoop, Goto
<1>13. CASE SuspendAllLoop(t)
  BY <1>13, ZenonT(60) DEF SuspendAllLoop, LoopModify
<1>14. CASE SuspendAllUnlock(t)
  BY <1>14, ZenonT(40) DEF SuspendAllUnlock, Goto
<1>15. CASE ExclusiveLock(t)
  BY <1>15, ZenonT(40) DEF ExclusiveLock, Goto
<1>16. CASE ResumeAll(t)
  BY <1>16, ZenonT(40) DEF ResumeAll, Goto
<1>17. CASE ResumeAllLock(t)
  BY <1>17, ZenonT(40) DEF ResumeAllLock, LockThreadList, Goto
<1>18. CASE ResumeAllBegin(t)
  BY <1>18, SMTT(30) DEF ResumeAllBegin, StartLoop, Goto
<1>19. CASE ResumeAllLoop(t)
  BY <1>19, ZenonT(60) DEF ResumeAllLoop, LoopModify
<1>20. CASE ResumeAllBroadcast(t)
  BY <1>20, ZenonT(40) DEF ResumeAllBroadcast, Goto
<1>21. CASE RegisterLock(t)
  BY <1>21, ZenonT(40) DEF RegisterLock, LockThreadList, Goto
<1>22. CASE Register(t)
  BY <1>22, SMTT(30) DEF Register, Goto
<1>23. CASE Destroy(t)
  BY <1>23, ZenonT(40) DEF Destroy, Goto
<1>24. CASE Unregister(t)
  BY <1>24, ZenonT(40) DEF Unregister, Goto
<1> QED
  BY <1>1, <1>2, <1>3, <1>4, <1>5, <1>6, <1>7, <1>8, <1>9, <1>10, <1>11, <1>12, <1>13, <1>14,
     <1>15, <1>16, <1>17, <1>18, <1>19, <1>20, <1>21, <1>22, <1>23, <1>24, ZenonT(40)
     DEF BaseAction, Choose, Step

-----------------------------------------------------------------------------
(* Suspend counts.                                                         *)

\* A step that changes neither the counts nor who is owed by the attached
\* threads keeps the counts right.
LEMMA SameOwed ==
  ASSUME CCounting, UNCHANGED <<suspend_all_count_, suspend_count>>,
         \A u \in list_' : u \in list_ /\ Forcing(u)' = Forcing(u),
         \A u \in list_' : Raisers(u)' = Raisers(u),
         Stopping' = Stopping,
         \A u \in Threads : pc'[u] \in {"unborn", "register"} => pc[u] \in {"unborn", "register"}
  PROVE  CCounting'
BY Zenon DEF CCounting

\* A step of ThreadSuspension keeps the suspend counts right.
LEMMA BaseCounts ==
  ASSUME Places, CCounting, \A r \in Requesters : Raised(r), NEW t \in Threads, BaseAction(t)
  PROVE  CCounting'
<1>0. /\ \A u \in list_' : Raisers(u)' = Raisers(u)
      /\ \A u \in Threads : Raisers(u) \subseteq Threads
      /\ \A u \in Threads : Cardinality(Raisers(u)) \in Nat
      /\ \A u \in Threads \ list_ : Cardinality(Raisers(u)) = 0
      /\ CTypes /\ CLocking /\ CCounting
  <2>1. \A u \in Threads : Raisers(u) \in SUBSET Threads /\ Cardinality(Raisers(u)) \in Nat
    BY CountOne, CheckpointAssumption, Zenon DEF Raisers
  <2>2. \A u \in Threads \ list_ : Raisers(u) = {}
    BY Zenon DEF Raisers, Raised
  <2> QED
    BY <2>1, <2>2, FS_EmptySet, Zenon DEF BaseAction, Unaffected, round, Raisers, Places
<1>1. CASE EnterNative(t) \/ FullSuspendCheck(t) \/ SharedUnlock(t) \/ LeaveNative(t)
  <2>1. \A u \in list_' : u \in list_ /\ Forcing(u)' = Forcing(u)
    BY <1>0, <1>1, SMTT(30)
       DEF EnterNative, TransitionFromRunnableToSuspended, Goto, FullSuspendCheck,
           SharedUnlock, MutatorLock!ReleaseShared, LeaveNative, CTypes, CLocking, CLoops,
           Listing, Forcing, InForce, counts, mutator_lock_, locks
  <2>2. Stopping' = Stopping
    BY <1>0, <1>1, Zenon
       DEF EnterNative, TransitionFromRunnableToSuspended, Goto, FullSuspendCheck,
           SharedUnlock, MutatorLock!ReleaseShared, LeaveNative, CTypes, Stopping, counts,
           mutator_lock_, locks
  <2>3. UNCHANGED <<suspend_all_count_, suspend_count>>
    BY <1>0, <1>1, Zenon
       DEF EnterNative, TransitionFromRunnableToSuspended, Goto, FullSuspendCheck,
           SharedUnlock, MutatorLock!ReleaseShared, LeaveNative, counts, mutator_lock_, locks
  <2>4. \A u \in Threads : pc'[u] \in {"unborn", "register"} => pc[u] \in {"unborn", "register"}
    BY <1>0, <1>1, Zenon
       DEF EnterNative, TransitionFromRunnableToSuspended, Goto, FullSuspendCheck,
           SharedUnlock, MutatorLock!ReleaseShared, LeaveNative, CTypes, counts, mutator_lock_,
           locks
  <2> QED
    BY <1>0, <2>1, <2>2, <2>3, <2>4, SameOwed, Zenon
<1>2. CASE CheckRequest(t) \/ WaitForResume(t) \/ Woken(t) \/ SpuriousWakeup(t) \/
           SharedLock(t) \/ CasToRunnable(t)
  <2>1. \A u \in list_' : u \in list_ /\ Forcing(u)' = Forcing(u)
    BY <1>0, <1>2, SMTT(30)
       DEF CheckRequest, Goto, WaitForResume, Woken, SpuriousWakeup, SharedLock,
           MutatorLock!AcquireShared, CasToRunnable, CTypes, CLocking, CLoops, Listing,
           Forcing, InForce, counts, mutator_lock_, locks
  <2>2. Stopping' = Stopping
    BY <1>0, <1>2, Zenon
       DEF CheckRequest, Goto, WaitForResume, Woken, SpuriousWakeup, SharedLock,
           MutatorLock!AcquireShared, CasToRunnable, CTypes, Stopping, counts, mutator_lock_,
           locks
  <2>3. UNCHANGED <<suspend_all_count_, suspend_count>>
    BY <1>0, <1>2, Zenon
       DEF CheckRequest, Goto, WaitForResume, Woken, SpuriousWakeup, SharedLock,
           MutatorLock!AcquireShared, CasToRunnable, counts, mutator_lock_, locks
  <2>4. \A u \in Threads : pc'[u] \in {"unborn", "register"} => pc[u] \in {"unborn", "register"}
    BY <1>0, <1>2, ZenonT(40)
       DEF CheckRequest, Goto, WaitForResume, Woken, SpuriousWakeup, SharedLock,
           MutatorLock!AcquireShared, CasToRunnable, CTypes, counts, mutator_lock_, locks
  <2> QED
    BY <1>0, <2>1, <2>2, <2>3, <2>4, SameOwed, Zenon
<1>3. CASE SuspendAll(t) \/ SuspendAllUnlock(t) \/ ExclusiveLock(t)
  <2>1. \A u \in list_' : u \in list_ /\ Forcing(u)' = Forcing(u)
    BY <1>0, <1>3, SMTT(30)
       DEF SuspendAll, LockThreadList, Goto, SuspendAllUnlock, UnlockBoth, ExclusiveLock,
           MutatorLock!AcquireExclusive, CTypes, CLocking, CLoops, Listing, Forcing, InForce,
           counts, mutator_lock_, locks
  <2>2. Stopping' = Stopping
    BY <1>0, <1>3, Zenon DEF SuspendAll, LockThreadList, Goto, SuspendAllUnlock, UnlockBoth,
      ExclusiveLock, MutatorLock!AcquireExclusive, CTypes, Stopping, counts, mutator_lock_,
      locks
  <2>3. UNCHANGED <<suspend_all_count_, suspend_count>>
    BY <1>0, <1>3, Zenon
       DEF SuspendAll, LockThreadList, Goto, SuspendAllUnlock, UnlockBoth, ExclusiveLock,
           MutatorLock!AcquireExclusive, counts, mutator_lock_, locks
  <2>4. \A u \in Threads : pc'[u] \in {"unborn", "register"} => pc[u] \in {"unborn", "register"}
    BY <1>0, <1>3, Zenon DEF SuspendAll, LockThreadList, Goto, SuspendAllUnlock, UnlockBoth,
      ExclusiveLock, MutatorLock!AcquireExclusive, CTypes, counts, mutator_lock_, locks
  <2> QED
    BY <1>0, <2>1, <2>2, <2>3, <2>4, SameOwed, Zenon
<1>4. CASE ResumeAll(t) \/ ResumeAllLock(t) \/ ResumeAllBroadcast(t)
  <2>1. \A u \in list_' : u \in list_ /\ Forcing(u)' = Forcing(u)
    BY <1>0, <1>4, SMTT(30)
       DEF ResumeAll, Goto, MutatorLock!ReleaseExclusive, ResumeAllLock, LockThreadList,
           ResumeAllBroadcast, UnlockBoth, CTypes, CLocking, CLoops, Listing, Forcing, InForce,
           counts, mutator_lock_, locks
  <2>2. Stopping' = Stopping
    BY <1>0, <1>4, Zenon DEF ResumeAll, Goto, MutatorLock!ReleaseExclusive, ResumeAllLock,
      LockThreadList, ResumeAllBroadcast, UnlockBoth, CTypes, Stopping, counts, mutator_lock_,
      locks
  <2>3. UNCHANGED <<suspend_all_count_, suspend_count>>
    BY <1>0, <1>4, Zenon
       DEF ResumeAll, Goto, MutatorLock!ReleaseExclusive, ResumeAllLock, LockThreadList,
           ResumeAllBroadcast, UnlockBoth, counts, mutator_lock_, locks
  <2>4. \A u \in Threads : pc'[u] \in {"unborn", "register"} => pc[u] \in {"unborn", "register"}
    BY <1>0, <1>4, Zenon DEF ResumeAll, Goto, MutatorLock!ReleaseExclusive, ResumeAllLock,
      LockThreadList, ResumeAllBroadcast, UnlockBoth, CTypes, counts, mutator_lock_, locks
  <2> QED
    BY <1>0, <2>1, <2>2, <2>3, <2>4, SameOwed, Zenon
<1>5. CASE RegisterLock(t) \/ Destroy(t) \/ Unregister(t)
  <2>1. \A u \in list_' : u \in list_ /\ Forcing(u)' = Forcing(u)
    BY <1>0, <1>5, SMTT(30)
       DEF RegisterLock, LockThreadList, Goto, Destroy, Unregister, CTypes, CLocking, CLoops,
           Listing, Forcing, InForce, counts, mutator_lock_, locks
  <2>2. Stopping' = Stopping
    BY <1>0, <1>5, Zenon DEF RegisterLock, LockThreadList, Goto, Destroy, Unregister, CTypes,
      Stopping, counts, mutator_lock_, locks
  <2>3. UNCHANGED <<suspend_all_count_, suspend_count>>
    BY <1>0, <1>5, Zenon DEF RegisterLock, LockThreadList, Goto, Destroy, Unregister, counts,
      mutator_lock_, locks
  <2>4. \A u \in Threads : pc'[u] \in {"unborn", "register"} => pc[u] \in {"unborn", "register"}
    BY <1>0, <1>5, Zenon
       DEF RegisterLock, LockThreadList, Goto, Destroy, Unregister, CTypes, counts,
           mutator_lock_, locks
  <2> QED
    BY <1>0, <2>1, <2>2, <2>3, <2>4, SameOwed, Zenon
<1>6. CASE SuspendAllBegin(t)
  <2>1. \A u \in list_' : u \in list_ /\ Forcing(u)' = Forcing(u)
    BY <1>0, <1>6, SMTT(30)
    DEF SuspendAllBegin, StartLoop, Goto, CTypes, CLocking, CLoops, Listing, Forcing, InForce
  <2>2. t \notin Stopping /\ Stopping' = Stopping \cup {t}
    BY <1>0, <1>6, Zenon DEF SuspendAllBegin, StartLoop, Goto, CTypes, Stopping
  <2>3. /\ suspend_all_count_' = suspend_all_count_ + 1 /\ UNCHANGED <<list_, suspend_count>>
        /\ \A u \in Threads : pc'[u] \in {"unborn", "register"} =>
             pc[u] \in {"unborn", "register"}
    BY <1>0, <1>6, Zenon DEF SuspendAllBegin, StartLoop, Goto, CTypes
  <2>4. suspend_all_count_' = Cardinality(Stopping')
    BY <1>0, <2>2, <2>3, CountOne, Zenon DEF CCounting, Stopping
  <2> QED
    BY <1>0, <2>1, <2>3, <2>4, Zenon DEF CCounting
<1>7. CASE SuspendAllLoop(t)
  <2>1. PICK u \in todo[t] : /\ ModifySuspendCount(u, 1)
                            /\ todo' = [todo EXCEPT ![t] = @ \ {u}]
    BY <1>0, <1>7, Zenon DEF SuspendAllLoop, LoopModify
  <2>2. u \in list_ /\ u # t /\ u \in Threads /\ pc[u] \notin {"unborn", "register"}
    BY <1>0, <2>1, Zenon DEF CLocking, CTypes
  <2>3. UNCHANGED <<list_, suspend_all_count_, pc>>
    BY <1>0, <1>7, Zenon DEF SuspendAllLoop, LoopModify
  <2>4. t \notin Forcing(u) /\ Forcing(u)' = Forcing(u) \cup {t}
    BY <1>0, <1>7, <2>1, <2>2, <2>3, SMTT(30)
       DEF SuspendAllLoop, LoopModify, CTypes, Forcing, InForce
  <2>5. \A v \in list_ \ {u} : Forcing(v)' = Forcing(v)
    BY <1>0, <2>1, <2>2, <2>3, Zenon DEF CTypes, Forcing, InForce
  <2>6. suspend_count'[u] = Cardinality(Forcing(u)') + Cardinality(Raisers(u))
    <3>1. Forcing(u) \in SUBSET Threads
      BY Zenon DEF Forcing
    <3>2. Cardinality(Forcing(u)') = Cardinality(Forcing(u)) + (1)
      BY <1>0, <2>4, <3>1, CountOne, Zenon
    <3>3. suspend_count'[u] = suspend_count[u] + (1)
      BY <1>0, <2>1, <2>2, Zenon DEF ModifySuspendCount, CTypes
    <3>4. /\ suspend_count[u] = Cardinality(Forcing(u)) + Cardinality(Raisers(u))
          /\ Cardinality(Forcing(u)) \in Nat /\ Cardinality(Raisers(u)) \in Nat
      BY <1>0, <2>2, <3>1, CountOne, Zenon DEF CCounting
    <3> QED
      BY <3>2, <3>3, <3>4, SMTT(30)
  <2>7. \A v \in Threads \ {u} : suspend_count'[v] = suspend_count[v]
    BY <1>0, <2>1, Zenon DEF ModifySuspendCount, CTypes
  <2>8. Stopping' = Stopping
    BY <1>0, <2>3, Zenon DEF Stopping
  <2> QED
    BY <1>0, <2>2, <2>3, <2>5, <2>6, <2>7, <2>8, SMTT(30) DEF CCounting, CTypes
<1>8. CASE ResumeAllBegin(t)
  <2>1. \A u \in list_' : u \in list_ /\ Forcing(u)' = Forcing(u)
    BY <1>0, <1>8, SMTT(30)
    DEF ResumeAllBegin, StartLoop, Goto, CTypes, CLocking, CLoops, Listing, Forcing, InForce
  <2>2. t \in Stopping /\ Stopping' = Stopping \ {t}
    BY <1>0, <1>8, Zenon DEF ResumeAllBegin, StartLoop, Goto, CTypes, Stopping
  <2>3. /\ suspend_all_count_' = suspend_all_count_ - 1 /\ UNCHANGED <<list_, suspend_count>>
        /\ \A u \in Threads : pc'[u] \in {"unborn", "register"} =>
             pc[u] \in {"unborn", "register"}
    BY <1>0, <1>8, Zenon DEF ResumeAllBegin, StartLoop, Goto, CTypes
  <2>4. suspend_all_count_' = Cardinality(Stopping')
    BY <1>0, <2>2, <2>3, CountOne, ZenonT(40) DEF CCounting, Stopping
  <2> QED
    BY <1>0, <2>1, <2>3, <2>4, Zenon DEF CCounting
<1>9. CASE ResumeAllLoop(t)
  <2>1. PICK u \in todo[t] : /\ ModifySuspendCount(u, -1)
                            /\ todo' = [todo EXCEPT ![t] = @ \ {u}]
    BY <1>0, <1>9, Zenon DEF ResumeAllLoop, LoopModify
  <2>2. u \in list_ /\ u # t /\ u \in Threads /\ pc[u] \notin {"unborn", "register"}
    BY <1>0, <2>1, Zenon DEF CLocking, CTypes
  <2>3. UNCHANGED <<list_, suspend_all_count_, pc>>
    BY <1>0, <1>9, Zenon DEF ResumeAllLoop, LoopModify
  <2>4. t \in Forcing(u) /\ Forcing(u)' = Forcing(u) \ {t}
    BY <1>0, <1>9, <2>1, <2>2, <2>3, SMTT(30)
       DEF ResumeAllLoop, LoopModify, CTypes, Forcing, InForce
  <2>5. \A v \in list_ \ {u} : Forcing(v)' = Forcing(v)
    BY <1>0, <2>1, <2>2, <2>3, Zenon DEF CTypes, Forcing, InForce
  <2>6. suspend_count'[u] = Cardinality(Forcing(u)') + Cardinality(Raisers(u))
    <3>1. Forcing(u) \in SUBSET Threads
      BY Zenon DEF Forcing
    <3>2. Cardinality(Forcing(u)') = Cardinality(Forcing(u)) + (-1)
      BY <1>0, <2>4, <3>1, CountOne, Zenon
    <3>3. suspend_count'[u] = suspend_count[u] + (-1)
      BY <1>0, <2>1, <2>2, Zenon DEF ModifySuspendCount, CTypes
    <3>4. /\ suspend_count[u] = Cardinality(Forcing(u)) + Cardinality(Raisers(u))
          /\ Cardinality(Forcing(u)) \in Nat /\ Cardinality(Raisers(u)) \in Nat
      BY <1>0, <2>2, <3>1, CountOne, Zenon DEF CCounting
    <3> QED
      BY <3>2, <3>3, <3>4, SMTT(30)
  <2>7. \A v \in Threads \ {u} : suspend_count'[v] = suspend_count[v]
    BY <1>0, <2>1, Zenon DEF ModifySuspendCount, CTypes
  <2>8. Stopping' = Stopping
    BY <1>0, <2>3, Zenon DEF Stopping
  <2> QED
    BY <1>0, <2>2, <2>3, <2>5, <2>6, <2>7, <2>8, SMTT(30) DEF CCounting, CTypes
<1>10. CASE Register(t)
  <2>1. \A u \in list_ : Forcing(u)' = Forcing(u)
    BY <1>0, <1>10, Zenon
       DEF Register, Goto, CTypes, CLocking, CLoops, Listing, Forcing, InForce
  <2>2. Forcing(t)' = Stopping /\ Stopping' = Stopping
    BY <1>0, <1>10, ThreadsAssumption, Zenon
    DEF Register, Goto, CTypes, CLocking, CLoops, Listing, Forcing, InForce, Stopping
  <2>3. /\ list_' = list_ \cup {t} /\ t \notin list_ /\ UNCHANGED suspend_all_count_
        /\ \A u \in Threads : pc'[u] \in {"unborn", "register"} =>
             u # t /\ pc[u] \in {"unborn", "register"}
    BY <1>0, <1>10, Zenon DEF Register, Goto, CTypes, CLocking
  <2>4. suspend_count[t] = 0
    BY <1>0, <1>10, Zenon DEF Register, Goto, CCounting
  <2>5. suspend_count' = [suspend_count EXCEPT ![t] = suspend_all_count_]
    BY <1>0, <1>10, <2>4, SMTT(30) DEF Register, CTypes
  <2> QED
    BY <1>0, <2>1, <2>2, <2>3, <2>5, SMTT(30) DEF CCounting, CTypes
<1> QED
  BY <1>1, <1>2, <1>3, <1>4, <1>5, <1>6, <1>7, <1>8, <1>9, <1>10, Zenon
     DEF BaseAction, Choose, Step

-----------------------------------------------------------------------------
(* What a step of ThreadSuspension leaves of a checkpoint.                 *)

\* A thread that a requester has raised has a positive suspend count.
LEMMA RaisedCounts ==
  ASSUME CTypes, CCounting, NEW u \in list_, NEW r \in Requesters, u \in modified[r]
  PROVE  suspend_count[u] > 0
<1>1. /\ Forcing(u) \in SUBSET Threads /\ Raisers(u) \in SUBSET Threads
      /\ r \in Threads /\ r \in Raisers(u)
  BY CheckpointAssumption, Zenon DEF Forcing, Raisers
<1>2. Cardinality(Forcing(u)) \in Nat /\ Cardinality(Raisers(u)) \in Nat \ {0}
  BY <1>1, CountOne, Zenon
<1> QED
  BY <1>2 DEF CCounting

\* A step of ThreadSuspension keeps the rest of the invariant: it moves nobody
\* into or out of a checkpoint, and a raised thread stays attached and suspended.
LEMMA BaseKeeps ==
  ASSUME CTypes, CLocking, RTypes, Roles, \A u \in Threads : Slots(u),
         \A r \in Requesters : Raised(r), CCounting, Rounds, NEW t \in Threads, BaseEffect(t), CTypes'
  PROVE  /\ RTypes' /\ Roles' /\ (\A u \in Threads : Slots(u)')
         /\ (\A r \in Requesters : Raised(r)') /\ Rounds'
<1> USE CheckpointAssumption DEF BaseEffect, Alone, PcValues
<1>0. UNCHANGED <<checkpoint_functions, closures, modified, cur, count, barrier, asked, runs>>
  BY Zenon DEF Unaffected, requests, round, history
<1>1. RTypes'
  BY <1>0, Zenon DEF RTypes
<1>2. Roles'
  <2> SUFFICES ASSUME NEW u \in Threads
               PROVE  /\ pc'[u] \in CollectorPcs => u \in Collectors
                      /\ pc'[u] \in ProfilerPcs => u \in Profilers
    BY Zenon DEF Roles
  <2> QED
    BY Zenon DEF Roles, CollectorPcs, ProfilerPcs, Marking, Raising, Sampling
<1>3. ASSUME NEW u \in Threads PROVE Slots(u)'
  <2>1. CASE u # t
    BY <1>0, <2>1, Zenon DEF Slots
  <2>2. CASE u = t
    BY <1>0, <2>2, Zenon DEF Slots, CheckpointRequest
  <2> QED
    BY <2>1, <2>2, Zenon
<1>4. ASSUME NEW r \in Requesters PROVE Raised(r)'
  <2>1. \A u \in modified[r] : u \in list_' /\ u # r /\ (state[u] = "Native" => state'[u] = "Native")
    <3> SUFFICES ASSUME NEW u \in modified[r]
                 PROVE  u \in list_' /\ u # r /\ (state[u] = "Native" => state'[u] = "Native")
      BY Zenon
    <3>1. u \in list_ /\ u # r /\ u \in Threads
      BY Zenon DEF Raised, CTypes
    <3>2. suspend_count[u] > 0
      BY <3>1, RaisedCounts, Zenon
    <3>3. suspend_count[u] # 0
      BY <3>1, <3>2, SMTT(30) DEF CTypes
    <3> QED
      BY <3>1, <3>3, Zenon DEF CTypes
  <2>2. CASE r # t
    <3>1. pc'[r] = pc[r] /\ todo'[r] = todo[r]
      BY <2>2, Zenon
    <3>2. pc[r] = "checkpointRaise" => cur[r] \in list_'
      BY <2>2, ThreadsAssumption, SMTT(30) DEF Raised, CLocking, Listing, CLoops
    <3> QED
      BY <1>0, <2>1, <3>1, <3>2, Zenon DEF Raised
  <2>3. CASE r = t
    BY <1>0, <2>1, <2>3, ZenonT(40) DEF Raised, Raising
  <2> QED
    BY <2>2, <2>3, Zenon
<1>5. ASSUME NEW r \in Requesters PROVE RoundOf(r)'
  <2>0. RoundOf(r)
    BY Zenon DEF Rounds
  <2>1. Pending(r)' = Pending(r) /\ Checked(r)' = Checked(r)
    BY <1>0, Zenon DEF Pending, Checked
  <2>2. CASE r # t
    <3>1. pc'[r] = pc[r] /\ todo'[r] = todo[r]
      BY <2>2, Zenon
    <3>2. Ahead(r)' = Ahead(r) /\ Unrun(r)' = Unrun(r)
      BY <1>0, <3>1, Zenon DEF Ahead, Unrun
    <3>3. Accounting(r)' = Accounting(r)
      BY <1>0, <2>1, <3>1, <3>2, ZenonT(40) DEF Accounting
    <3> QED
      BY <1>0, <2>0, <2>1, <3>1, <3>3, Zenon DEF RoundOf
  <2>3. CASE r = t
    <3>1. pc[r] \notin Round /\ pc'[r] \notin Round /\ pc'[r] # "rootsMarked"
      BY <2>3, Zenon DEF Round, Marking, Raising, Sampling
    <3> QED
      BY <1>0, <2>0, <2>1, <3>1, Zenon DEF RoundOf
  <2> QED
    BY <2>2, <2>3, Zenon
<1> QED
  BY <1>1, <1>2, <1>3, <1>4, <1>5, Zenon DEF Rounds
-----------------------------------------------------------------------------
(* What a step of a checkpoint leaves alone.                               *)

\* Where a collector runs its closure on the threads it has raised.
Lowering == {"checkpointNext", "checkpointWait", "checkpointRun", "checkpointLower"}

\* It attaches, detaches and stops nobody, and it touches no other round, except
\* that a closure counts for the requester it belongs to.
CheckpointEffect(t) ==
  /\ Alone(t) /\ UNCHANGED <<list_, state, suspend_all_count_>>
  /\ pc[t] \notin StopPcs \cup {"unborn", "register", "dead"}
  /\ pc'[t] \notin StopPcs \cup {"unborn", "register", "dead"}
  /\ pc'[t] \in CollectorPcs => t \in Collectors
  /\ pc'[t] \in ProfilerPcs => t \in Profilers
  /\ \A r \in Requesters \ {t} : /\ modified'[r] = modified[r] /\ cur'[r] = cur[r]
                                 /\ count'[r] = count[r] /\ asked'[r] = asked[r]
                                 /\ \/ RunClosure(t)
                                    \/ barrier'[r] = barrier[r] /\ runs'[r] = runs[r]
  /\ \/ CheckpointRaise(t) \/ CheckpointLower(t)
     \/ UNCHANGED <<suspend_count, modified>>
     \/ /\ UNCHANGED suspend_count /\ modified' = [modified EXCEPT ![t] = {}]
        /\ pc[t] \in {"checkpoint", "sample"}
  /\ \/ CheckpointBroadcast(t)
     \/ resume_waiters' = resume_waiters /\ (pc[t] \in Lowering => pc'[t] \in Lowering)
  /\ pc[t] # "waiting"

\* The steps of a checkpoint have these effects only.
LEMMA CheckpointEffects ==
  ASSUME CTypes, RTypes, NEW t \in Threads, CheckpointAction(t)
  PROVE  CheckpointEffect(t)
<1> USE CheckpointAssumption
    DEF CTypes, RTypes, counts, round, history, CheckpointEffect, Alone, Requesters, StopPcs,
        CollectorPcs, ProfilerPcs, Marking, Raising, Sampling, Lowering
<1>1. CASE RunCheckpointFunction(t)
  BY <1>1, Zenon DEF RunCheckpointFunction, Goto
<1>2. CASE RunClosure(t)
  BY <1>2, Zenon DEF RunClosure, Run, Goto
<1>3. CASE StartMarking(t)
  BY <1>3, Zenon DEF StartMarking, CollectorShare, Goto
<1>4. CASE Sample(t)
  BY <1>4, Zenon DEF Sample, LockThreadList, Goto
<1>5. CASE t \in Collectors /\ RunCheckpoint(t)
  BY <1>5, Zenon DEF RunCheckpoint, LockForLoop, LockThreadList, Goto
<1>6. CASE t \in Collectors /\ CheckpointBegin(t)
  BY <1>6, Zenon DEF CheckpointBegin, BeginLoop, StartLoop, Goto
<1>7. CASE t \in Collectors /\ CheckpointRequested(t)
  BY <1>7, Zenon DEF CheckpointRequested, Requested
<1>8. CASE t \in Collectors /\ CheckpointRefused(t)
  BY <1>8, ZenonT(40) DEF CheckpointRefused, Goto
<1>9. CASE t \in Collectors /\ CheckpointRaise(t)
  BY <1>9, Zenon DEF CheckpointRaise, Goto
<1>10. CASE t \in Collectors /\ CheckpointUnlock(t)
  BY <1>10, Zenon DEF CheckpointUnlock, EndLoop, Goto
<1>11. CASE t \in Collectors /\ CheckpointSelf(t)
  BY <1>11, Zenon DEF CheckpointSelf, Run, Goto
<1>12. CASE t \in Collectors /\ CheckpointNext(t)
  BY <1>12, Zenon DEF CheckpointNext, Goto
<1>13. CASE t \in Collectors /\ CheckpointWait(t)
  BY <1>13, Zenon DEF CheckpointWait, Goto
<1>14. CASE t \in Collectors /\ CheckpointRun(t)
  BY <1>14, Zenon DEF CheckpointRun, Run, Goto
<1>15. CASE t \in Collectors /\ CheckpointLower(t)
  BY <1>15, Zenon DEF CheckpointLower, Goto
<1>16. CASE t \in Collectors /\ CheckpointBroadcast(t)
  BY <1>16, Zenon DEF CheckpointBroadcast, Goto
<1>17. CASE t \in Collectors /\ Checkpointed(t)
  BY <1>17, Zenon DEF Checkpointed, CollectorUnshare, Goto
<1>18. CASE t \in Collectors /\ CollectorIncrement(t)
  BY <1>18, Zenon DEF CollectorIncrement, Increment, Goto
<1>19. CASE t \in Collectors /\ CollectorAwait(t)
  BY <1>19, Zenon DEF CollectorAwait, AwaitZero, Goto
<1>20. CASE t \in Collectors /\ ResumeMarking(t)
  BY <1>20, Zenon DEF ResumeMarking, CollectorShare, Goto
<1>21. CASE t \in Collectors /\ FinishCollection(t)
  BY <1>21, Zenon DEF FinishCollection, CollectorUnshare, Goto
<1>22. CASE t \in Profilers /\ SampleBegin(t)
  BY <1>22, Zenon DEF SampleBegin, BeginLoop, StartLoop, Goto
<1>23. CASE t \in Profilers /\ SampleRequested(t)
  BY <1>23, Zenon DEF SampleRequested, Requested
<1>24. CASE t \in Profilers /\ SampleRefused(t)
  BY <1>24, Zenon DEF SampleRefused
<1>25. CASE t \in Profilers /\ SampleUnlock(t)
  BY <1>25, Zenon DEF SampleUnlock, EndLoop, Goto
<1>26. CASE t \in Profilers /\ SampleIncrement(t)
  BY <1>26, Zenon DEF SampleIncrement, Increment, Goto
<1>27. CASE t \in Profilers /\ SampleAwait(t)
  BY <1>27, Zenon DEF SampleAwait, AwaitZero, Goto
<1> QED
  BY ZenonT(40), <1>1, <1>2, <1>3, <1>4, <1>5, <1>6, <1>7, <1>8, <1>9, <1>10, <1>11, <1>12, <1>13,
     <1>14, <1>15, <1>16, <1>17, <1>18, <1>19, <1>20, <1>21, <1>22, <1>23, <1>24, <1>25,
     <1>26, <1>27 DEF CheckpointAction, CheckpointStep, SampleStep

\* A closure of r that runs on u for the first time checks u and passes r's barrier.
LEMMA RunEffect ==
  ASSUME RTypes, NEW r \in Requesters, NEW u \in Threads, Run(r, u)
  PROVE  /\ barrier' \in [Requesters -> Int] /\ runs' \in [Requesters -> [Threads -> Nat]]
         /\ barrier'[r] = barrier[r] - 1 /\ asked' = asked
         /\ \A s \in Requesters \ {r} : barrier'[s] = barrier[s] /\ runs'[s] = runs[s]
         /\ \A v \in Threads \ {u} : runs'[r][v] = runs[r][v]
         /\ runs'[r][u] = runs[r][u] + 1
<1>1. runs[r] \in [Threads -> Nat] /\ runs \in [Requesters -> [Threads -> Nat]]
  BY Zenon DEF RTypes
<1>2. runs' = [runs EXCEPT ![r] = [runs[r] EXCEPT ![u] = @ + 1]]
  BY Zenon DEF Run
<1>3. [runs[r] EXCEPT ![u] = @ + 1] \in [Threads -> Nat]
  BY <1>1
<1>4. runs' \in [Requesters -> [Threads -> Nat]] /\ runs'[r] = [runs[r] EXCEPT ![u] = @ + 1]
  BY <1>1, <1>2, <1>3, Zenon
<1>5. \A s \in Requesters \ {r} : runs'[s] = runs[s]
  BY <1>1, <1>2, Zenon
<1>6. (\A v \in Threads \ {u} : runs'[r][v] = runs[r][v]) /\ runs'[r][u] = runs[r][u] + 1
  BY <1>1, <1>4, Zenon
<1>7. /\ barrier' \in [Requesters -> Int] /\ barrier'[r] = barrier[r] - 1 /\ asked' = asked
      /\ \A s \in Requesters \ {r} : barrier'[s] = barrier[s]
  BY DEF RTypes, Run
<1> QED
  BY <1>4, <1>5, <1>6, <1>7, Zenon

\* A nonempty sequence over S starts in S.
LEMMA HeadTail ==
  ASSUME NEW S, NEW s \in Seq(S), s # << >>
  PROVE  Head(s) \in S /\ Tail(s) \in Seq(S) /\ Len(s) \in Nat \ {0}
OBVIOUS

\* Counting one more keeps the counts integers.
LEMMA CountOneMore ==
  ASSUME NEW S, NEW f \in [S -> Int], NEW x \in S
  PROVE  [f EXCEPT ![x] = @ + 1] \in [S -> Int]
OBVIOUS

\* A step of a checkpoint keeps the requests and the rounds well formed.
LEMMA CheckpointTypes ==
  ASSUME CTypes, RTypes, \A r \in Requesters : Raised(r), NEW t \in Threads, CheckpointAction(t)
  PROVE  RTypes'
<1> USE CheckpointAssumption DEF CTypes, RTypes, requests, round, history
<1>0. (t \in Collectors => t \in Requesters) /\ (t \in Profilers => t \in Requesters)
  BY Zenon DEF Requesters
<1> USE <1>0
<1>1. CASE RunCheckpointFunction(t)
  BY <1>1, SMTT(30) DEF RunCheckpointFunction, Goto
<1>2. CASE RunClosure(t)
  <2>0. closures[t] \in Seq(Requesters) /\ closures[t] # << >> /\ Run(Head(closures[t]), t)
    BY <1>2, Zenon DEF RunClosure
  <2>1. PICK r \in Requesters : Run(r, t)
    BY <2>0, HeadTail, Zenon
  <2>2. /\ UNCHANGED <<checkpoint_functions, modified, cur, count>>
        /\ closures' \in [Threads -> Seq(Requesters)]
    BY <1>2, SMTT(30) DEF RunClosure
  <2> QED
    BY <2>1, <2>2, RunEffect, Zenon
<1>3. CASE StartMarking(t)
  BY <1>3, Zenon DEF StartMarking, CollectorShare, Goto
<1>4. CASE Sample(t)
  BY <1>4, SMTT(30) DEF Sample, LockThreadList, Goto
<1>5. CASE t \in Collectors /\ RunCheckpoint(t)
  BY <1>5, Zenon DEF RunCheckpoint, LockForLoop, LockThreadList, Goto
<1>6. CASE t \in Collectors /\ CheckpointBegin(t)
  BY <1>6, SMTT(30) DEF CheckpointBegin, BeginLoop, StartLoop, Goto
<1>7. CASE t \in Collectors /\ CheckpointRequested(t)
  <2>1. PICK u \in Threads : checkpoint_functions' = [checkpoint_functions EXCEPT ![u] = Append(@, t)]
    BY <1>7, Zenon DEF CheckpointRequested, Requested, RequestCheckpoint, RequestCheckpoint
  <2>2. checkpoint_functions' \in [Threads -> Seq(Requesters)]
    BY <1>7, <2>1, SMTT(30)
  <2>3. /\ count' = [count EXCEPT ![t] = @ + 1]
        /\ UNCHANGED <<closures, modified, cur, barrier, asked, runs>>
    BY <1>7, Zenon DEF CheckpointRequested, Requested
  <2>4. count' \in [Requesters -> Int]
    BY <1>7, <2>3, CountOneMore, Zenon
  <2> QED
    BY <2>2, <2>3, <2>4, Zenon
<1>8. CASE t \in Collectors /\ CheckpointRefused(t)
  <2>1. PICK u \in Threads : cur' = [cur EXCEPT ![t] = u]
    BY <1>8, Zenon DEF CheckpointRefused
  <2>2. UNCHANGED <<checkpoint_functions, closures, modified, count, barrier, asked, runs>>
    BY <1>8, Zenon DEF CheckpointRefused
  <2> QED
    BY <1>8, <2>1, <2>2, Zenon
<1>9. CASE t \in Collectors /\ CheckpointRaise(t)
  <2>1. cur[t] \in Threads
    BY <1>9, Zenon DEF CheckpointRaise, Goto, Raised
  <2>2. /\ count' = [count EXCEPT ![t] = @ + 1]
        /\ modified' = [modified EXCEPT ![t] = @ \cup {cur[t]}]
        /\ UNCHANGED <<checkpoint_functions, closures, cur, barrier, asked, runs>>
    BY <1>9, Zenon DEF CheckpointRaise
  <2>3. count' \in [Requesters -> Int]
    BY <1>9, <2>2, CountOneMore, Zenon
  <2>4. modified' \in [Requesters -> SUBSET Threads]
    BY <1>9, <2>1, <2>2, Zenon
  <2> QED
    BY <2>2, <2>3, <2>4, Zenon
<1>10. CASE t \in Collectors /\ CheckpointUnlock(t)
  BY <1>10, Zenon DEF CheckpointUnlock, EndLoop, Goto
<1>11. CASE t \in Collectors /\ CheckpointSelf(t)
  <2>1. Run(t, t) /\ UNCHANGED <<checkpoint_functions, closures, modified, cur>>
    BY <1>11, Zenon DEF CheckpointSelf, Goto
  <2>2. count' \in [Requesters -> Int]
    BY <1>11, SMTT(30) DEF CheckpointSelf
  <2>3. t \in Requesters /\ t \in Threads
    BY <1>11, Zenon DEF CheckpointSelf, Goto, Raised
  <2> QED
    BY <2>1, <2>2, <2>3, RunEffect, Zenon
<1>12. CASE t \in Collectors /\ CheckpointNext(t)
  BY <1>12, SMTT(30) DEF CheckpointNext, Goto
<1>13. CASE t \in Collectors /\ CheckpointWait(t)
  BY <1>13, Zenon DEF CheckpointWait, Goto
<1>14. CASE t \in Collectors /\ CheckpointRun(t)
  <2>1. Run(t, cur[t]) /\ UNCHANGED <<checkpoint_functions, closures, modified, cur>>
    BY <1>14, Zenon DEF CheckpointRun, Goto
  <2>2. count' \in [Requesters -> Int]
    BY <1>14, Zenon DEF CheckpointRun
  <2>3. t \in Requesters /\ cur[t] \in Threads
    BY <1>14, Zenon DEF CheckpointRun, Goto, Raised
  <2> QED
    BY <2>1, <2>2, <2>3, RunEffect, Zenon
<1>15. CASE t \in Collectors /\ CheckpointLower(t)
  BY <1>15, Zenon DEF CheckpointLower, Goto
<1>16. CASE t \in Collectors /\ CheckpointBroadcast(t)
  BY <1>16, Zenon DEF CheckpointBroadcast, Goto
<1>17. CASE t \in Collectors /\ Checkpointed(t)
  BY <1>17, Zenon DEF Checkpointed, CollectorUnshare, Goto
<1>18. CASE t \in Collectors /\ CollectorIncrement(t)
  BY <1>18, SMTT(30) DEF CollectorIncrement, Increment, Goto
<1>19. CASE t \in Collectors /\ CollectorAwait(t)
  BY <1>19, Zenon DEF CollectorAwait, AwaitZero, Goto
<1>20. CASE t \in Collectors /\ ResumeMarking(t)
  BY <1>20, Zenon DEF ResumeMarking, CollectorShare, Goto
<1>21. CASE t \in Collectors /\ FinishCollection(t)
  BY <1>21, Zenon DEF FinishCollection, CollectorUnshare, Goto
<1>22. CASE t \in Profilers /\ SampleBegin(t)
  BY <1>22, SMTT(30) DEF SampleBegin, BeginLoop, StartLoop, Goto
<1>23. CASE t \in Profilers /\ SampleRequested(t)
  <2>1. PICK u \in Threads : checkpoint_functions' = [checkpoint_functions EXCEPT ![u] = Append(@, t)]
    BY <1>23, Zenon DEF SampleRequested, Requested, RequestCheckpoint, RequestCheckpoint
  <2>2. checkpoint_functions' \in [Threads -> Seq(Requesters)]
    BY <1>23, <2>1, SMTT(30)
  <2>3. /\ count' = [count EXCEPT ![t] = @ + 1]
        /\ UNCHANGED <<closures, modified, cur, barrier, asked, runs>>
    BY <1>23, Zenon DEF SampleRequested, Requested
  <2>4. count' \in [Requesters -> Int]
    BY <1>23, <2>3, CountOneMore, Zenon
  <2> QED
    BY <2>2, <2>3, <2>4, Zenon
<1>24. CASE t \in Profilers /\ SampleRefused(t)
  <2>1. PICK u \in Threads : asked' = [asked EXCEPT ![t] = @ \ {u}]
    BY <1>24, Zenon DEF SampleRefused
  <2>2. UNCHANGED <<checkpoint_functions, closures, modified, cur, count, barrier, runs>>
    BY <1>24, Zenon DEF SampleRefused
  <2> QED
    BY <1>24, <2>1, <2>2, Zenon
<1>25. CASE t \in Profilers /\ SampleUnlock(t)
  BY <1>25, Zenon DEF SampleUnlock, EndLoop, Goto
<1>26. CASE t \in Profilers /\ SampleIncrement(t)
  BY <1>26, SMTT(30) DEF SampleIncrement, Increment, Goto
<1>27. CASE t \in Profilers /\ SampleAwait(t)
  BY <1>27, Zenon DEF SampleAwait, AwaitZero, Goto
<1> QED
  BY ZenonT(40), <1>1, <1>2, <1>3, <1>4, <1>5, <1>6, <1>7, <1>8, <1>9, <1>10, <1>11, <1>12, <1>13,
     <1>14, <1>15, <1>16, <1>17, <1>18, <1>19, <1>20, <1>21, <1>22, <1>23, <1>24, <1>25,
     <1>26, <1>27 DEF CheckpointAction, CheckpointStep, SampleStep

-----------------------------------------------------------------------------
(* A thread's slots.                                                       *)

\* Members of the slots: of none, of one more, and of one fewer.
LEMMA EmptyHas == Distinct(<< >>) /\ \A y : ~Has(<< >>, y)
BY DEF Distinct, Has

\* RequestCheckpoint appends a closure to the slots,
LEMMA AppendHas ==
  ASSUME NEW S, NEW s \in Seq(S), NEW x \in S
  PROVE  /\ \A y : Has(Append(s, x), y) <=> Has(s, y) \/ y = x
         /\ Distinct(s) /\ ~Has(s, x) => Distinct(Append(s, x))
         /\ Append(s, x) # << >>
<1>1. /\ Len(Append(s, x)) = Len(s) + 1 /\ Len(s) \in Nat
      /\ \A i \in 1..Len(s) : Append(s, x)[i] = s[i]
      /\ Append(s, x)[Len(s) + 1] = x
  OBVIOUS
<1>2. ASSUME NEW y PROVE Has(Append(s, x), y) <=> Has(s, y) \/ y = x
  BY <1>1 DEF Has
<1>3. Distinct(s) /\ ~Has(s, x) => Distinct(Append(s, x))
  BY <1>1 DEF Has, Distinct
<1> QED
  BY <1>1, <1>2, <1>3

\* and RunCheckpointFunction takes the first one off.
LEMMA TailHas ==
  ASSUME NEW S, NEW s \in Seq(S), s # << >>, Distinct(s)
  PROVE  /\ Distinct(Tail(s)) /\ Has(s, Head(s))
         /\ \A y : Has(Tail(s), y) <=> Has(s, y) /\ y # Head(s)
         /\ Tail(s) = << >> <=> Len(s) = 1
<1>1. /\ Len(s) \in Nat \ {0} /\ Len(Tail(s)) = Len(s) - 1 /\ Tail(s) \in Seq(S)
      /\ \A i \in 1..Len(s) - 1 : Tail(s)[i] = s[i + 1]
      /\ Head(s) = s[1]
  OBVIOUS
<1>2. Distinct(Tail(s)) /\ Has(s, Head(s))
  BY <1>1 DEF Distinct, Has
<1>3. ASSUME NEW y PROVE Has(Tail(s), y) <=> Has(s, y) /\ y # Head(s)
  <2>1. ASSUME Has(Tail(s), y) PROVE Has(s, y) /\ y # Head(s)
    <3>1. PICK i \in 1..Len(s) - 1 : Tail(s)[i] = y
      BY <1>1, <2>1, Zenon DEF Has
    <3>2. i + 1 \in 1..Len(s) /\ 1 \in 1..Len(s) /\ i + 1 # 1 /\ s[i + 1] = y
      BY <1>1, <3>1
    <3> QED
      BY <1>1, <3>2, Zenon DEF Has, Distinct
  <2>2. ASSUME Has(s, y), y # Head(s) PROVE Has(Tail(s), y)
    <3>1. PICK i \in 1..Len(s) : s[i] = y
      BY <2>2, Zenon DEF Has
    <3>2. i - 1 \in 1..Len(s) - 1 /\ Tail(s)[i - 1] = s[(i - 1) + 1] /\ (i - 1) + 1 = i
      BY <1>1, <2>2, <3>1
    <3> QED
      BY <1>1, <3>1, <3>2, Zenon DEF Has
  <2> QED
    BY <2>1, <2>2, Zenon
<1>4. Tail(s) = << >> <=> Len(s) = 1
  BY <1>1
<1> QED
  BY <1>2, <1>3, <1>4, Zenon

\* The steps that neither request a checkpoint nor run one from the slots.
Quiet(t) ==
  /\ UNCHANGED <<checkpoint_functions, closures>>
  /\ pc[t] \notin {"running", "closures"} /\ pc'[t] \notin {"running", "closures"}

\* A request made in one of the two loops.
Requesting(t) ==
  t \in Requesters /\ pc[t] \in {"checkpointLoop", "sampleLoop"} /\ Requested(t, pc[t])

\* What a step of a checkpoint does to the slots.
LEMMA SlotSteps ==
  ASSUME CTypes, NEW t \in Threads, CheckpointAction(t)
  PROVE  RunCheckpointFunction(t) \/ RunClosure(t) \/ Requesting(t) \/ Quiet(t)
<1> USE DEF CTypes, requests, Quiet
<1>1. CASE RunCheckpointFunction(t)
  BY <1>1, Zenon
<1>2. CASE RunClosure(t)
  BY <1>2, Zenon
<1>3. CASE StartMarking(t)
  BY <1>3, Zenon DEF StartMarking, CollectorShare, Goto
<1>4. CASE Sample(t)
  BY <1>4, Zenon DEF Sample, LockThreadList, Goto
<1>5. CASE t \in Collectors /\ RunCheckpoint(t)
  BY <1>5, Zenon DEF RunCheckpoint, LockForLoop, LockThreadList, Goto
<1>6. CASE t \in Collectors /\ CheckpointBegin(t)
  BY <1>6, Zenon DEF CheckpointBegin, BeginLoop, StartLoop, Goto
<1>7. CASE t \in Collectors /\ CheckpointRequested(t)
  BY <1>7, Zenon DEF CheckpointRequested, Requested, Requesting, Requesters
<1>8. CASE t \in Collectors /\ CheckpointRefused(t)
  BY <1>8, Zenon DEF CheckpointRefused, Goto
<1>9. CASE t \in Collectors /\ CheckpointRaise(t)
  BY <1>9, Zenon DEF CheckpointRaise, Goto
<1>10. CASE t \in Collectors /\ CheckpointUnlock(t)
  BY <1>10, Zenon DEF CheckpointUnlock, EndLoop, Goto
<1>11. CASE t \in Collectors /\ CheckpointSelf(t)
  BY <1>11, Zenon DEF CheckpointSelf, Goto
<1>12. CASE t \in Collectors /\ CheckpointNext(t)
  BY <1>12, Zenon DEF CheckpointNext, Goto
<1>13. CASE t \in Collectors /\ CheckpointWait(t)
  BY <1>13, Zenon DEF CheckpointWait, Goto
<1>14. CASE t \in Collectors /\ CheckpointRun(t)
  BY <1>14, Zenon DEF CheckpointRun, Goto
<1>15. CASE t \in Collectors /\ CheckpointLower(t)
  BY <1>15, Zenon DEF CheckpointLower, Goto
<1>16. CASE t \in Collectors /\ CheckpointBroadcast(t)
  BY <1>16, Zenon DEF CheckpointBroadcast, Goto
<1>17. CASE t \in Collectors /\ Checkpointed(t)
  BY <1>17, Zenon DEF Checkpointed, CollectorUnshare, Goto
<1>18. CASE t \in Collectors /\ CollectorIncrement(t)
  BY <1>18, Zenon DEF CollectorIncrement, Increment, Goto
<1>19. CASE t \in Collectors /\ CollectorAwait(t)
  BY <1>19, Zenon DEF CollectorAwait, AwaitZero, Goto
<1>20. CASE t \in Collectors /\ ResumeMarking(t)
  BY <1>20, Zenon DEF ResumeMarking, CollectorShare, Goto
<1>21. CASE t \in Collectors /\ FinishCollection(t)
  BY <1>21, Zenon DEF FinishCollection, CollectorUnshare, Goto
<1>22. CASE t \in Profilers /\ SampleBegin(t)
  BY <1>22, Zenon DEF SampleBegin, BeginLoop, StartLoop, Goto
<1>23. CASE t \in Profilers /\ SampleRequested(t)
  BY <1>23, Zenon DEF SampleRequested, Requested, Requesting, Requesters
<1>24. CASE t \in Profilers /\ SampleRefused(t)
  BY <1>24, Zenon DEF SampleRefused
<1>25. CASE t \in Profilers /\ SampleUnlock(t)
  BY <1>25, Zenon DEF SampleUnlock, EndLoop, Goto
<1>26. CASE t \in Profilers /\ SampleIncrement(t)
  BY <1>26, Zenon DEF SampleIncrement, Increment, Goto
<1>27. CASE t \in Profilers /\ SampleAwait(t)
  BY <1>27, Zenon DEF SampleAwait, AwaitZero, Goto
<1> QED
  BY ZenonT(40), <1>1, <1>2, <1>3, <1>4, <1>5, <1>6, <1>7, <1>8, <1>9, <1>10, <1>11, <1>12, <1>13,
     <1>14, <1>15, <1>16, <1>17, <1>18, <1>19, <1>20, <1>21, <1>22, <1>23, <1>24, <1>25,
     <1>26, <1>27 DEF CheckpointAction, CheckpointStep, SampleStep


\* Copying the slots and clearing them keeps them and leaves every request pending.
LEMMA RunCheckpointFunctionSlots ==
  ASSUME CTypes, RTypes, \A u \in Threads : Slots(u), NEW t \in Threads,
         RunCheckpointFunction(t)
  PROVE  (\A u \in Threads : Slots(u)') /\ \A r \in Requesters : Pending(r)' = Pending(r)
<1>1. /\ closures[t] = << >> /\ closures'[t] = checkpoint_functions[t]
      /\ checkpoint_functions'[t] = << >> /\ checkpoint_functions[t] # << >>
      /\ pc'[t] = "closures"
      /\ \A u \in Threads \ {t} : /\ closures'[u] = closures[u] /\ pc'[u] = pc[u]
                                 /\ checkpoint_functions'[u] = checkpoint_functions[u]
  BY Zenon DEF RunCheckpointFunction, Goto, CheckpointRequest, CTypes, RTypes, Slots
<1>2. ASSUME NEW u \in Threads PROVE Slots(u)'
  <2>1. CASE u = t
    BY <1>1, <2>1, EmptyHas, Zenon DEF Slots
  <2>2. CASE u # t
    BY <1>1, <2>2, Zenon DEF Slots
  <2> QED
    BY <2>1, <2>2, Zenon
<1>3. ASSUME NEW r \in Requesters PROVE Pending(r)' = Pending(r)
  <2>1. \A u \in Threads : Has(checkpoint_functions[u], r)' \/ Has(closures[u], r)'
                       <=> Has(checkpoint_functions[u], r) \/ Has(closures[u], r)
    <3>1. Has(checkpoint_functions'[t], r) \/ Has(closures'[t], r)
          <=> Has(checkpoint_functions[t], r) \/ Has(closures[t], r)
      BY <1>1, EmptyHas, Zenon
    <3>2. \A u \in Threads \ {t} : Has(checkpoint_functions'[u], r) \/ Has(closures'[u], r)
          <=> Has(checkpoint_functions[u], r) \/ Has(closures[u], r)
      BY <1>1, Zenon
    <3> QED
      BY <3>1, <3>2, Zenon DEF Has
  <2> QED
    BY <2>1, Zenon DEF Pending
<1> QED
  BY <1>2, <1>3, Zenon

\* Running the first closure takes it, and only it, out of the pending ones.
LEMMA RunClosureSlots ==
  ASSUME CTypes, RTypes, \A u \in Threads : Slots(u), NEW t \in Threads, RunClosure(t)
  PROVE  /\ \A u \in Threads : Slots(u)'
         /\ \E r \in Requesters : /\ Run(r, t) /\ t \in Pending(r)
                                 /\ Pending(r)' = Pending(r) \ {t}
                                 /\ \A s \in Requesters \ {r} : Pending(s)' = Pending(s)
<1>1. /\ closures[t] # << >> /\ closures[t] \in Seq(Requesters) /\ closures'[t] = Tail(closures[t])
      /\ pc[t] = "closures"
      /\ pc'[t] = IF Len(closures[t]) = 1 THEN "running" ELSE "closures"
      /\ checkpoint_functions' = checkpoint_functions
      /\ \A u \in Threads \ {t} : closures'[u] = closures[u] /\ pc'[u] = pc[u]
  BY Zenon DEF RunClosure, Goto, CTypes, RTypes
<1>2. PICK r \in Requesters : r = Head(closures[t])
  BY <1>1, HeadTail, Zenon
<1>3. /\ Distinct(Tail(closures[t])) /\ Has(closures[t], r)
      /\ \A y : Has(Tail(closures[t]), y) <=> Has(closures[t], y) /\ y # r
      /\ Tail(closures[t]) = << >> <=> Len(closures[t]) = 1
  BY <1>1, <1>2, TailHas, Zenon DEF Slots
<1>4. ~Has(checkpoint_functions[t], r)
  BY <1>3, Zenon DEF Slots
<1>5. ASSUME NEW u \in Threads PROVE Slots(u)'
  <2>1. CASE u = t
    BY <1>1, <1>3, <2>1, Zenon DEF Slots
  <2>2. CASE u # t
    BY <1>1, <2>2, Zenon DEF Slots
  <2> QED
    BY <2>1, <2>2, Zenon
<1>6. \A s \in Requesters, u \in Threads :
        Has(checkpoint_functions'[u], s) \/ Has(closures'[u], s)
        <=> (Has(checkpoint_functions[u], s) \/ Has(closures[u], s)) /\ ~(u = t /\ s = r)
  BY <1>1, <1>3, <1>4, Zenon
<1>7. \A s \in Requesters : Pending(s)' = {u \in Pending(s) : ~(u = t /\ s = r)}
  BY <1>6, Zenon DEF Pending, Has
<1>8. t \in Pending(r)
  BY <1>3, Zenon DEF Pending
<1>9. Pending(r)' = Pending(r) \ {t} /\ \A s \in Requesters \ {r} : Pending(s)' = Pending(s)
  BY <1>7, Zenon
<1>10. Run(r, t)
  BY <1>2, Zenon DEF RunClosure
<1> QED
  BY <1>5, <1>8, <1>9, <1>10, Zenon

\* A request adds the thread that is asked to the requester's pending ones.
LEMMA RequestingSlots ==
  ASSUME CTypes, RTypes, CSharing, \A u \in Threads : Slots(u), NEW t \in Requesters,
         NEW u \in Threads, RequestCheckpoint(t, u), u \notin Pending(t),
         UNCHANGED <<closures, pc>>
  PROVE  /\ \A v \in Threads : Slots(v)'
         /\ Pending(t)' = Pending(t) \cup {u}
         /\ \A s \in Requesters \ {t} : Pending(s)' = Pending(s)
<1>1. /\ checkpoint_functions[u] \in Seq(Requesters)
      /\ checkpoint_functions'[u] = Append(checkpoint_functions[u], t)
      /\ \A v \in Threads \ {u} : checkpoint_functions'[v] = checkpoint_functions[v]
      /\ pc[u] \in {"running", "closures"}
  BY Zenon DEF RequestCheckpoint, RTypes, CSharing
<1>2. ~Has(checkpoint_functions[u], t) /\ ~Has(closures[u], t)
  BY Zenon DEF Pending
<1>3. /\ \A y : Has(checkpoint_functions'[u], y) <=> Has(checkpoint_functions[u], y) \/ y = t
      /\ Distinct(checkpoint_functions'[u]) /\ checkpoint_functions'[u] # << >>
  BY <1>1, <1>2, AppendHas, SMTT(30) DEF Slots
<1>4. ASSUME NEW v \in Threads PROVE Slots(v)'
  <2>1. CASE v = u
    BY <1>1, <1>2, <1>3, <2>1, Zenon DEF Slots
  <2>2. CASE v # u
    BY <1>1, <2>2, Zenon DEF Slots
  <2> QED
    BY <2>1, <2>2, Zenon
<1>5. \A s \in Requesters, v \in Threads :
        Has(checkpoint_functions'[v], s) \/ Has(closures'[v], s)
        <=> (Has(checkpoint_functions[v], s) \/ Has(closures[v], s)) \/ (v = u /\ s = t)
  BY <1>1, <1>3, Zenon
<1>6. \A s \in Requesters :
        Pending(s)' = {v \in Threads : v \in Pending(s) \/ (v = u /\ s = t)}
  BY <1>5, ZenonT(60) DEF Pending, Has
<1>7. \A s \in Requesters : Pending(s) \subseteq Threads
  BY Zenon DEF Pending
<1> QED
  BY <1>4, <1>6, <1>7, Zenon

\* The remaining steps leave the slots and the pending requests.
LEMMA QuietSlots ==
  ASSUME \A u \in Threads : Slots(u), NEW t \in Threads, Alone(t), Quiet(t)
  PROVE  (\A u \in Threads : Slots(u)') /\ \A r \in Requesters : Pending(r)' = Pending(r)
<1>1. ASSUME NEW u \in Threads PROVE Slots(u)'
  <2>1. CASE u = t
    BY <2>1, Zenon DEF Quiet, Slots
  <2>2. CASE u # t
    BY <2>2, Zenon DEF Quiet, Slots, Alone
  <2> QED
    BY <2>1, <2>2, Zenon
<1>2. \A r \in Requesters : Pending(r)' = Pending(r)
  BY Zenon DEF Quiet, Pending
<1> QED
  BY <1>1, <1>2, Zenon
-----------------------------------------------------------------------------
(* The threads that a collector keeps suspended.                           *)

\* A step of a checkpoint keeps what the requesters have raised.
LEMMA CheckpointRaised ==
  ASSUME CTypes, RTypes, CLocking, \A r \in Requesters : Raised(r), NEW t \in Threads,
         CheckpointAction(t), CheckpointEffect(t)
  PROVE  \A r \in Requesters : Raised(r)'
<1>0. ASSUME NEW r \in Requesters \ {t} PROVE Raised(r)'
  BY CheckpointAssumption, SMTT(30) DEF CheckpointEffect, Alone, Raised
<1> SUFFICES ASSUME t \in Requesters PROVE Raised(t)'
  BY <1>0, Zenon
<1>a. ASSUME pc[t] \notin Raising, pc'[t] \notin Raising, modified'[t] \in {modified[t], {}}
      PROVE  Raised(t)'
  <2>1. modified[t] = {}
    BY <1>a, Zenon DEF Raised
  <2> QED
    BY <1>a, <2>1, Zenon DEF Raised, Raising
<1> USE DEF CTypes, RTypes, CLocking, Raising, round
<1>1. CASE RunCheckpointFunction(t)
  BY <1>a, <1>1, Zenon DEF RunCheckpointFunction, Goto
<1>2. CASE RunClosure(t)
  BY <1>a, <1>2, Zenon DEF RunClosure, Goto
<1>3. CASE StartMarking(t)
  BY <1>a, <1>3, Zenon DEF StartMarking, CollectorShare, Goto
<1>4. CASE Sample(t)
  BY <1>a, <1>4, Zenon DEF Sample, LockThreadList, Goto
<1>5. CASE t \in Collectors /\ RunCheckpoint(t)
  BY <1>a, <1>5, Zenon DEF RunCheckpoint, LockForLoop, LockThreadList, Goto
<1>6. CASE t \in Collectors /\ CheckpointBegin(t)
  BY <1>6, SMTT(30) DEF CheckpointBegin, BeginLoop, StartLoop, Goto, Raised
<1>7. CASE t \in Collectors /\ CheckpointRequested(t)
  BY <1>7, SMTT(30) DEF CheckpointRequested, Requested, Raised
<1>8. CASE t \in Collectors /\ CheckpointRefused(t)
  BY <1>8, SMTT(30) DEF CheckpointRefused, Goto, Raised
<1>9. CASE t \in Collectors /\ CheckpointRaise(t)
  BY <1>9, SMTT(30) DEF CheckpointRaise, Goto, Raised
<1>10. CASE t \in Collectors /\ CheckpointUnlock(t)
  BY <1>10, SMTT(30) DEF CheckpointUnlock, EndLoop, Goto, Raised
<1>11. CASE t \in Collectors /\ CheckpointSelf(t)
  BY <1>11, SMTT(30) DEF CheckpointSelf, Goto, Raised
<1>12. CASE t \in Collectors /\ CheckpointNext(t)
  BY <1>12, SMTT(30) DEF CheckpointNext, Goto, Raised
<1>13. CASE t \in Collectors /\ CheckpointWait(t)
  BY <1>13, SMTT(30) DEF CheckpointWait, Goto, IsSuspended, Raised
<1>14. CASE t \in Collectors /\ CheckpointRun(t)
  BY <1>14, SMTT(30) DEF CheckpointRun, Goto, Raised
<1>15. CASE t \in Collectors /\ CheckpointLower(t)
  BY <1>15, SMTT(30) DEF CheckpointLower, Goto, Raised
<1>16. CASE t \in Collectors /\ CheckpointBroadcast(t)
  BY <1>16, SMTT(30) DEF CheckpointBroadcast, Goto, Raised
<1>17. CASE t \in Collectors /\ Checkpointed(t)
  BY <1>a, <1>17, Zenon DEF Checkpointed, CollectorUnshare, Goto
<1>18. CASE t \in Collectors /\ CollectorIncrement(t)
  BY <1>a, <1>18, Zenon DEF CollectorIncrement, Increment, Goto
<1>19. CASE t \in Collectors /\ CollectorAwait(t)
  BY <1>a, <1>19, Zenon DEF CollectorAwait, AwaitZero, Goto
<1>20. CASE t \in Collectors /\ ResumeMarking(t)
  BY <1>a, <1>20, Zenon DEF ResumeMarking, CollectorShare, Goto
<1>21. CASE t \in Collectors /\ FinishCollection(t)
  BY <1>a, <1>21, Zenon DEF FinishCollection, CollectorUnshare, Goto
<1>22. CASE t \in Profilers /\ SampleBegin(t)
  BY <1>a, <1>22, Zenon DEF SampleBegin, BeginLoop, StartLoop, Goto
<1>23. CASE t \in Profilers /\ SampleRequested(t)
  BY <1>a, <1>23, Zenon DEF SampleRequested, Requested
<1>24. CASE t \in Profilers /\ SampleRefused(t)
  BY <1>a, <1>24, Zenon DEF SampleRefused
<1>25. CASE t \in Profilers /\ SampleUnlock(t)
  BY <1>a, <1>25, Zenon DEF SampleUnlock, EndLoop, Goto
<1>26. CASE t \in Profilers /\ SampleIncrement(t)
  BY <1>a, <1>26, Zenon DEF SampleIncrement, Increment, Goto
<1>27. CASE t \in Profilers /\ SampleAwait(t)
  BY <1>a, <1>27, Zenon DEF SampleAwait, AwaitZero, Goto
<1> QED
  BY Zenon, <1>1, <1>2, <1>3, <1>4, <1>5, <1>6, <1>7, <1>8, <1>9, <1>10, <1>11, <1>12, <1>13,
     <1>14, <1>15, <1>16, <1>17, <1>18, <1>19, <1>20, <1>21, <1>22, <1>23, <1>24, <1>25,
     <1>26, <1>27 DEF CheckpointAction, CheckpointStep, SampleStep

\* A step of a checkpoint keeps the suspend counts right: a collector raises a
\* count when it takes the thread into its list and lowers it when it drops it.
LEMMA CheckpointCounts ==
  ASSUME CTypes, RTypes, CLocking, CCounting, \A r \in Requesters : Raised(r), NEW t \in Threads,
         CheckpointEffect(t)
  PROVE  CCounting'
<1>1. (\A u \in Threads : Forcing(u)' = Forcing(u)) /\ Stopping' = Stopping
  <2>1. \A r, u \in Threads : InForce(r, u)' <=> InForce(r, u)
    BY Zenon DEF CheckpointEffect, Alone, StopPcs, InForce
  <2>2. \A r \in Threads : r \in Stopping' <=> r \in Stopping
    BY Zenon DEF CheckpointEffect, Alone, StopPcs, Stopping
  <2> QED
    BY <2>1, <2>2, Zenon DEF Forcing, Stopping
<1>2. /\ list_' = list_ /\ suspend_all_count_' = suspend_all_count_ /\ list_ \subseteq Threads
      /\ \A u \in Threads : pc'[u] \in {"unborn", "register"} =>
           u # t /\ pc[u] \in {"unborn", "register"}
  BY Zenon DEF CheckpointEffect, Alone, CTypes
<1>3. \A u \in Threads : /\ Forcing(u) \in SUBSET Threads /\ Raisers(u) \in SUBSET Threads
                         /\ Cardinality(Forcing(u)) \in Nat /\ Cardinality(Raisers(u)) \in Nat
  BY CountOne, CheckpointAssumption, Zenon DEF Forcing, Raisers
<1>4. CASE CheckpointRaise(t) /\ t \in Requesters
  <2>1. PICK x : x = cur[t]
    BY Zenon
  <2>2. x \in list_ /\ x \in Threads /\ x \notin modified[t]
    BY <1>2, <1>4, <2>1, Zenon DEF CheckpointRaise, Goto, Raised
  <2>3. /\ suspend_count'[x] = suspend_count[x] + 1
        /\ \A u \in Threads \ {x} : suspend_count'[u] = suspend_count[u]
    BY <1>4, <2>1, <2>2, Zenon DEF CheckpointRaise, ModifySuspendCount, CTypes
  <2>4. modified' = [modified EXCEPT ![t] = @ \cup {x}] /\ modified \in [Requesters -> SUBSET Threads]
    BY <1>4, <2>1, Zenon DEF CheckpointRaise, RTypes
  <2>5. /\ Raisers(x)' = Raisers(x) \cup {t} /\ t \notin Raisers(x)
        /\ \A u \in Threads \ {x} : Raisers(u)' = Raisers(u)
    BY <1>4, <2>2, <2>4, Zenon DEF Raisers
  <2>6. Cardinality(Raisers(x)') = Cardinality(Raisers(x)) + 1
    BY <1>3, <2>2, <2>5, CountOne, Zenon
  <2>7. pc[x] \notin {"unborn", "register"}
    BY <2>2, Zenon DEF CLocking
  <2>8. suspend_count'[x] = Cardinality(Forcing(x)') + Cardinality(Raisers(x)')
    <3>1. suspend_count[x] = Cardinality(Forcing(x)) + Cardinality(Raisers(x))
      BY <2>2, Zenon DEF CCounting
    <3> QED
      BY <1>1, <1>3, <2>2, <2>3, <2>6, <3>1, SMTT(30)
  <2>9. \A u \in list_ \ {x} : suspend_count'[u] = Cardinality(Forcing(u)') + Cardinality(Raisers(u)')
    BY <1>1, <1>2, <2>3, <2>5, Zenon DEF CCounting
  <2> QED
    BY <1>1, <1>2, <2>3, <2>7, <2>8, <2>9, Zenon DEF CCounting
<1>5. CASE CheckpointLower(t) /\ t \in Requesters
  <2>1. PICK x : x = cur[t]
    BY Zenon
  <2>2. x \in list_ /\ x \in Threads /\ x \in modified[t]
    BY <1>2, <1>5, <2>1, Zenon DEF CheckpointLower, Goto, Raised
  <2>3. /\ suspend_count'[x] = suspend_count[x] - 1
        /\ \A u \in Threads \ {x} : suspend_count'[u] = suspend_count[u]
    BY <1>5, <2>1, <2>2, Zenon DEF CheckpointLower, ModifySuspendCount, CTypes
  <2>4. modified' = [modified EXCEPT ![t] = @ \ {x}] /\ modified \in [Requesters -> SUBSET Threads]
    BY <1>5, <2>1, Zenon DEF CheckpointLower, RTypes
  <2>5. /\ Raisers(x)' = Raisers(x) \ {t} /\ t \in Raisers(x)
        /\ \A u \in Threads \ {x} : Raisers(u)' = Raisers(u)
    BY <1>5, <2>2, <2>4, Zenon DEF Raisers
  <2>6. Cardinality(Raisers(x)') = Cardinality(Raisers(x)) - 1
    BY <1>3, <2>2, <2>5, CountOne, Zenon
  <2>7. pc[x] \notin {"unborn", "register"}
    BY <2>2, Zenon DEF CLocking
  <2>8. suspend_count'[x] = Cardinality(Forcing(x)') + Cardinality(Raisers(x)')
    <3>1. suspend_count[x] = Cardinality(Forcing(x)) + Cardinality(Raisers(x))
      BY <2>2, Zenon DEF CCounting
    <3> QED
      BY <1>1, <1>3, <2>2, <2>3, <2>6, <3>1, SMTT(30)
  <2>9. \A u \in list_ \ {x} : suspend_count'[u] = Cardinality(Forcing(u)') + Cardinality(Raisers(u)')
    BY <1>1, <1>2, <2>3, <2>5, Zenon DEF CCounting
  <2> QED
    BY <1>1, <1>2, <2>3, <2>7, <2>8, <2>9, Zenon DEF CCounting
<1>6. CASE /\ UNCHANGED suspend_count /\ modified' = [modified EXCEPT ![t] = {}]
           /\ pc[t] \in {"checkpoint", "sample"}
  <2>0. modified \in [Requesters -> SUBSET Threads] /\ (t \in Requesters => modified[t] = {})
    BY <1>6, Zenon DEF Raised, Raising, RTypes
  <2>1. modified' = modified
    BY <1>6, <2>0, Zenon
  <2>2. \A u \in Threads : Raisers(u)' = Raisers(u)
    BY <2>1, Zenon DEF Raisers
  <2> QED
    BY <1>1, <1>2, <1>6, <2>2, SameOwed, Zenon
<1>7. CASE UNCHANGED <<suspend_count, modified>>
  <2>1. \A u \in Threads : Raisers(u)' = Raisers(u)
    BY <1>7, Zenon DEF Raisers
  <2> QED
    BY <1>1, <1>2, <1>7, <2>1, SameOwed, Zenon
<1>8. CheckpointRaise(t) \/ CheckpointLower(t) => t \in Requesters
  BY Zenon DEF CheckpointEffect, CheckpointRaise, CheckpointLower, Goto, CTypes, Requesters,
         CollectorPcs, Marking, Raising
<1> QED
  BY <1>4, <1>5, <1>6, <1>7, <1>8, Zenon DEF CheckpointEffect

-----------------------------------------------------------------------------
(* The rounds.                                                             *)

\* A step leaves the round of a requester that it is not about.
LEMMA RoundElse ==
  ASSUME NEW t \in Threads, CheckpointEffect(t), NEW r \in Requesters \ {t}, RoundOf(r),
         barrier'[r] = barrier[r], runs'[r] = runs[r], Pending(r)' = Pending(r)
  PROVE  RoundOf(r)'
<1>1. /\ pc'[r] = pc[r] /\ todo'[r] = todo[r] /\ modified'[r] = modified[r] /\ cur'[r] = cur[r]
      /\ count'[r] = count[r] /\ asked'[r] = asked[r]
  BY CheckpointAssumption, Zenon DEF CheckpointEffect, Alone
<1>2. Ahead(r)' = Ahead(r) /\ Unrun(r)' = Unrun(r) /\ Checked(r)' = Checked(r)
  BY <1>1, Zenon DEF Ahead, Unrun, Checked
<1>3. Accounting(r)' = Accounting(r)
  BY <1>1, <1>2, Zenon DEF Accounting
<1> QED
  BY <1>1, <1>2, <1>3, Zenon DEF RoundOf

\* Outside a round nothing is pending and the barrier is zero.
LEMMA RoundOutside ==
  ASSUME NEW r \in Requesters, RoundOf(r), pc[r] \notin Round,
         pc'[r] \notin Round \cup {"rootsMarked"},
         barrier'[r] \in {barrier[r], 0}, runs'[r] = runs[r], Pending(r)' = Pending(r)
  PROVE  RoundOf(r)'
BY Zenon DEF RoundOf

\* A step within a round that runs no closure of the round and asks nobody.
LEMMA RoundWithin ==
  ASSUME NEW r \in Requesters, RoundOf(r), pc[r] \in Round, pc'[r] \in Round,
         asked'[r] = asked[r], count'[r] = count[r], runs'[r] = runs[r],
         Pending(r)' = Pending(r), Ahead(r)' = Ahead(r), Unrun(r)' = Unrun(r),
         modified'[r] \subseteq modified[r],
         barrier'[r] = (IF pc'[r] \in {"await", "sampleAwait"} THEN count[r] ELSE 0)
                       - Cardinality(Checked(r))
  PROVE  RoundOf(r)'
<1>1. Checked(r)' = Checked(r)
  BY Zenon DEF Checked
<1>2. Accounting(r)
  BY Zenon DEF RoundOf
<1>3. Accounting(r)'
  BY <1>1, <1>2, Zenon DEF Accounting
<1> QED
  BY <1>3, Zenon DEF RoundOf

\* One closure of the round runs, on a thread u that was asked and not checked.
LEMMA RoundRuns ==
  ASSUME RTypes, NEW r \in Requesters, NEW u \in Threads, RoundOf(r), Run(r, u),
         pc[r] \in Round, pc'[r] \in Round,
         pc'[r] \in {"await", "sampleAwait"} <=> pc[r] \in {"await", "sampleAwait"},
         pc[r] \in {"await", "sampleAwait"} => u \notin Ahead(r),
         u \in asked[r] \ Checked(r), modified'[r] = modified[r],
         Pending(r)' = Pending(r) \ {u}, Ahead(r)' = Ahead(r) \ {u},
         Unrun(r)' = Unrun(r) \ {u},
         count'[r] = count[r] + (IF u \in Ahead(r) THEN 1 ELSE 0)
  PROVE  RoundOf(r)'
<1>1. Accounting(r) /\ asked[r] \in SUBSET Threads /\ \A v \in Threads : runs[r][v] \in Nat
  BY SMTT(30) DEF RoundOf, RTypes
<1>2. /\ runs'[r][u] = runs[r][u] + 1 /\ asked' = asked /\ barrier'[r] = barrier[r] - 1
      /\ \A v \in Threads \ {u} : runs'[r][v] = runs[r][v]
  BY RunEffect, Zenon
<1>3. runs[r][u] = 0 /\ \A v \in Threads : runs'[r][v] <= 1
  BY <1>1, <1>2, SMTT(30) DEF Checked, RoundOf
<1>4. Checked(r)' = Checked(r) \cup {u} /\ Checked(r) \in SUBSET Threads
  BY <1>2, <1>3, SMTT(30) DEF Checked
<1>5. Cardinality(Checked(r)') = Cardinality(Checked(r)) + 1 /\ Cardinality(Checked(r)) \in Nat
  BY <1>4, CountOne, Zenon
<1>6. count'[r] = Cardinality(asked'[r] \ Ahead(r)')
  <2>1. CASE u \in Ahead(r)
    <3>1. asked'[r] \ Ahead(r)' = (asked[r] \ Ahead(r)) \cup {u}
      BY <1>2, <2>1, Zenon
    <3>2. Cardinality((asked[r] \ Ahead(r)) \cup {u}) = Cardinality(asked[r] \ Ahead(r)) + 1
      <4>1. asked[r] \ Ahead(r) \in SUBSET Threads /\ u \notin asked[r] \ Ahead(r)
        BY <1>1, <2>1, Zenon
      <4> QED
        BY <4>1, CountOne, Zenon
    <3> QED
      BY <1>1, <2>1, <3>1, <3>2, Zenon DEF Accounting
  <2>2. CASE u \notin Ahead(r)
    <3>1. Ahead(r)' = Ahead(r) /\ Cardinality(asked[r] \ Ahead(r)) \in Nat
      BY <1>1, <2>2, CountOne, Zenon
    <3>2. count[r] = Cardinality(asked[r] \ Ahead(r)) /\ asked'[r] = asked[r]
      BY <1>1, <1>2, ZenonT(40) DEF Accounting
    <3>3. count'[r] = count[r]
      <4>1. count'[r] = count[r] + 0
        BY <2>2, Zenon
      <4> QED
        BY ONLY <3>1, <3>2, <4>1
    <3> QED
      BY <3>1, <3>2, <3>3, Zenon
  <2> QED
    BY <2>1, <2>2, Zenon
<1>7. barrier'[r] = (IF pc'[r] \in {"await", "sampleAwait"} THEN count'[r] ELSE 0)
                    - Cardinality(Checked(r)')
  BY <1>1, <1>2, <1>5, SMTT(30) DEF Accounting, RTypes
<1>8. Accounting(r)'
  BY <1>1, <1>2, <1>4, <1>6, <1>7, Zenon DEF Accounting
<1> QED
  BY <1>3, <1>8, Zenon DEF RoundOf

\* One more thread is asked: it runs the closure itself or r keeps it suspended.
LEMMA RoundAsks ==
  ASSUME RTypes, NEW r \in Requesters, NEW u \in Threads, RoundOf(r),
         pc[r] \in Round \ {"await", "sampleAwait"}, pc'[r] \in Round \ {"await", "sampleAwait"},
         u \in Ahead(r), Ahead(r)' = Ahead(r) \ {u}, count'[r] = count[r] + 1,
         asked'[r] = asked[r], runs'[r] = runs[r], barrier'[r] = barrier[r],
         Pending(r)' \subseteq Pending(r) \cup {u}, modified'[r] \subseteq modified[r] \cup {u},
         Pending(r)' \cap modified'[r] = {}, Unrun(r)' \subseteq Unrun(r) \cup {u}
  PROVE  RoundOf(r)'
<1>1. Accounting(r) /\ asked[r] \in SUBSET Threads
  BY Zenon DEF RoundOf, RTypes
<1>2. Checked(r)' = Checked(r)
  BY Zenon DEF Checked
<1>3. /\ asked[r] \ Ahead(r)' = (asked[r] \ Ahead(r)) \cup {u}
      /\ asked[r] \ Ahead(r) \in SUBSET Threads /\ u \notin asked[r] \ Ahead(r)
  BY <1>1, Zenon DEF Accounting
<1>4. Cardinality(asked[r] \ Ahead(r)') = Cardinality(asked[r] \ Ahead(r)) + 1
  BY <1>3, CountOne, Zenon
<1>5. Accounting(r)'
  BY <1>1, <1>2, <1>4, ZenonT(40) DEF Accounting
<1> QED
  BY <1>5, Zenon DEF RoundOf

\* One thread refuses, and counts as not asked.
LEMMA RoundSkips ==
  ASSUME NEW r \in Requesters, NEW u \in Threads, RoundOf(r), pc[r] \in Round,
         pc'[r] = pc[r], u \in Ahead(r), Ahead(r)' = Ahead(r) \ {u},
         asked'[r] = asked[r] \ {u}, count'[r] = count[r], runs'[r] = runs[r],
         barrier'[r] = barrier[r], Pending(r)' = Pending(r), modified'[r] = modified[r],
         Unrun(r)' = Unrun(r), u \notin Unrun(r)
  PROVE  RoundOf(r)'
<1>1. Accounting(r)
  BY Zenon DEF RoundOf
<1>2. Checked(r)' = Checked(r)
  BY Zenon DEF Checked
<1>3. asked'[r] \ Ahead(r)' = asked[r] \ Ahead(r)
  BY <1>1, Zenon DEF Accounting
<1>4. Accounting(r)'
  BY <1>1, <1>2, <1>3, ZenonT(40) DEF Accounting
<1> QED
  BY <1>4, Zenon DEF RoundOf

\* A requester that passes its barrier has had its closure run on every thread
\* that it asked.
LEMMA RoundPassed ==
  ASSUME RTypes, NEW r \in Requesters, RoundOf(r), pc[r] \in {"await", "sampleAwait"},
         Ahead(r) = {}, barrier[r] = 0
  PROVE  Checked(r) = asked[r] /\ Pending(r) = {}
<1>1. Accounting(r) /\ asked[r] \in SUBSET Threads
  BY Zenon DEF RoundOf, RTypes, Round, Marking, Sampling
<1>2. Checked(r) \in SUBSET asked[r] /\ IsFiniteSet(asked[r]) /\ asked[r] \ Ahead(r) = asked[r]
  BY <1>1, ThreadsAssumption, FS_Subset, Zenon DEF Accounting
<1>3. Cardinality(Checked(r)) \in Nat /\ Cardinality(asked[r]) \in Nat
  BY <1>2, FS_Subset, FS_CardinalityType, Zenon
<1>4. Cardinality(asked[r]) = Cardinality(Checked(r))
  BY <1>1, <1>2, <1>3, SMTT(30) DEF Accounting
<1>5. asked[r] = Checked(r)
  BY <1>2, <1>4, FS_Subset, Zenon
<1> QED
  BY <1>1, <1>5, Zenon DEF Accounting

\* The loop over list_ begins with everybody to ask.
LEMMA RoundBegins ==
  ASSUME NEW r \in Requesters, pc'[r] \in {"checkpointLoop", "sampleLoop"},
         asked'[r] = todo'[r] \cup (IF pc'[r] = "checkpointLoop" THEN {r} ELSE {}),
         modified'[r] = {}, count'[r] = 0, barrier'[r] = 0, Pending(r)' = {},
         runs'[r] = [u \in Threads |-> 0]
  PROVE  RoundOf(r)'
<1>1. \A u \in Threads : runs'[r][u] = 0
  BY Zenon
<1>2. 0 <= 1 /\ 0 # 1 /\ 0 = 0 - 0
  OBVIOUS
<1>3. Checked(r)' = {} /\ \A u \in Threads : runs'[r][u] <= 1
  BY <1>1, <1>2, Zenon DEF Checked
<1>4. Ahead(r)' = asked'[r] /\ Unrun(r)' = {} /\ asked'[r] \ Ahead(r)' = {}
  BY Zenon DEF Ahead, Unrun
<1>5. Cardinality(Checked(r)') = 0 /\ Cardinality(asked'[r] \ Ahead(r)') = 0
  BY <1>3, <1>4, FS_EmptySet, Zenon
<1>6. pc'[r] \notin {"await", "sampleAwait"} /\ pc'[r] \in Round
  BY Zenon DEF Round, Marking, Raising, Sampling
<1>7. barrier'[r] = (IF pc'[r] \in {"await", "sampleAwait"} THEN count'[r] ELSE 0)
                    - Cardinality(Checked(r)')
  BY <1>2, <1>5, <1>6, Zenon
<1>8. Accounting(r)'
  BY <1>3, <1>4, <1>5, <1>7, Zenon DEF Accounting
<1> QED
  BY <1>3, <1>6, <1>8, Zenon DEF RoundOf

\* Barrier::Increment adds what the loop counted.
LEMMA RoundAnnounces ==
  ASSUME RTypes, NEW r \in Requesters, RoundOf(r), Pending(r)' = Pending(r),
         pc[r] \in {"increment", "sampleIncrement"}, pc'[r] \in {"await", "sampleAwait"},
         todo'[r] = todo[r], barrier'[r] = barrier[r] + count[r],
         UNCHANGED <<asked, count, runs, modified>>
  PROVE  RoundOf(r)'
<1>1. Ahead(r)' = Ahead(r) /\ Unrun(r)' = Unrun(r)
  BY Zenon DEF Ahead, Unrun
<1>2. pc[r] \in Round /\ pc'[r] \in Round
  BY Zenon DEF Round, Marking, Sampling
<1>3. barrier[r] = 0 - Cardinality(Checked(r))
  BY <1>2, Zenon DEF RoundOf, Accounting
<1>4. Cardinality(Checked(r)) \in Nat
  <2>1. Checked(r) \in SUBSET Threads
    BY Zenon DEF Checked
  <2> QED
    BY <2>1, CountOne, CheckpointAssumption, Zenon
<1>5. count[r] \in Int
  BY Zenon DEF RTypes
<1>6. barrier'[r] = count[r] - Cardinality(Checked(r))
  <2>1. barrier'[r] = barrier[r] + count[r]
    OBVIOUS
  <2> QED
    BY ONLY <1>3, <1>4, <1>5, <2>1
<1> QED
  BY <1>1, <1>2, <1>6, RoundWithin, Zenon

\* The steps of a requester that neither ask a Runnable thread nor run closures
\* from the slots keep its round.
LEMMA RequesterRound ==
  ASSUME CTypes, RTypes, CLocking, Roles, NEW t \in Requesters, Raised(t), RoundOf(t),
         CheckpointAction(t), Quiet(t), ~Requesting(t), Pending(t)' = Pending(t)
  PROVE  RoundOf(t)'
<1>0. t \in Threads
  BY CheckpointAssumption, Zenon
<1>b. pc[t] \notin CLoops => todo[t] = {}
  BY <1>0, Zenon DEF CLocking
<1> USE DEF CTypes, RTypes, round, history, requests
<1>1. CASE RunCheckpointFunction(t)
  BY <1>1, Zenon DEF RunCheckpointFunction, Goto, Quiet
<1>2. CASE RunClosure(t)
  BY <1>2, Zenon DEF RunClosure, Goto, Quiet
<1>3. CASE StartMarking(t)
  <2>1. /\ pc[t] \notin Round /\ pc'[t] \notin Round \cup {"rootsMarked"}
        /\ barrier'[t] \in {barrier[t], 0} /\ runs' = runs
    BY <1>0, <1>3, Zenon
       DEF StartMarking, CollectorShare, Goto, Round, Marking, Raising, Sampling
  <2> QED
    BY <2>1, RoundOutside, Zenon
<1>4. CASE Sample(t)
  <2>1. /\ pc[t] \notin Round /\ pc'[t] \notin Round \cup {"rootsMarked"}
        /\ barrier'[t] \in {barrier[t], 0} /\ runs' = runs
    BY <1>0, <1>4, Zenon DEF Sample, LockThreadList, Goto, Round, Marking, Raising, Sampling
  <2> QED
    BY <2>1, RoundOutside, Zenon
<1>5. CASE t \in Collectors /\ RunCheckpoint(t)
  <2>1. /\ pc[t] \notin Round /\ pc'[t] \notin Round \cup {"rootsMarked"}
        /\ barrier'[t] \in {barrier[t], 0} /\ runs' = runs
    BY <1>0, <1>5, Zenon
       DEF RunCheckpoint, LockForLoop, LockThreadList, Goto, Round, Marking, Raising, Sampling
  <2> QED
    BY <2>1, RoundOutside, Zenon
<1>6. CASE t \in Collectors /\ CheckpointBegin(t)
  <2>1. /\ pc[t] = "checkpoint" /\ pc'[t] = "checkpointLoop" /\ todo'[t] = list_ \ {t}
        /\ modified'[t] = {} /\ count'[t] = 0 /\ asked'[t] = list_ /\ barrier'[t] = barrier[t]
        /\ runs'[t] = [u \in Threads |-> 0]
    BY <1>0, <1>6, CheckpointAssumption, ZenonT(40)
       DEF CheckpointBegin, BeginLoop, StartLoop, Goto
  <2>2. t \in list_ /\ Pending(t) = {} /\ barrier[t] = 0 /\ pc'[t] \in Round
    BY <1>0, <2>1, Zenon DEF CLocking, RoundOf, Round, Marking, Raising, Sampling
  <2>3. asked'[t] = todo'[t] \cup (IF pc'[t] = "checkpointLoop" THEN {t} ELSE {})
    BY <2>1, <2>2, Zenon
  <2> QED
    BY <2>1, <2>2, <2>3, RoundBegins, Zenon
<1>7. CASE t \in Collectors /\ CheckpointRequested(t)
  BY <1>7, Zenon DEF CheckpointRequested, Requested, Requesting
<1>8. CASE t \in Collectors /\ CheckpointRefused(t)
  <2>1. PICK u \in todo[t] : /\ cur' = [cur EXCEPT ![t] = u]
                            /\ todo' = [todo EXCEPT ![t] = @ \ {u}]
    BY <1>8, Zenon DEF CheckpointRefused
  <2>2. /\ pc[t] = "checkpointLoop" /\ pc'[t] = "checkpointRaise"
        /\ cur'[t] = u /\ todo'[t] = todo[t] \ {u}
        /\ UNCHANGED <<asked, count, runs, modified, barrier>>
    BY <1>0, <2>1, <1>8, Zenon DEF CheckpointRefused, Goto
  <2>3. Ahead(t)' = Ahead(t) /\ Unrun(t)' = Unrun(t)
    BY <2>2, Zenon DEF Ahead, Unrun
  <2>4. pc[t] \in Round /\ pc'[t] \in Round
    BY <2>2, Zenon DEF Round, Marking, Raising
  <2>5. barrier[t] = 0 - Cardinality(Checked(t))
    BY <2>2, <2>4, Zenon DEF RoundOf, Accounting
  <2> QED
    BY <2>2, <2>3, <2>4, <2>5, RoundWithin, Zenon
<1>9. CASE t \in Collectors /\ CheckpointRaise(t)
  <2>1. PICK u : u = cur[t]
    BY Zenon
  <2>2. /\ pc[t] = "checkpointRaise" /\ pc'[t] = "checkpointLoop" /\ todo'[t] = todo[t]
        /\ modified'[t] = modified[t] \cup {u} /\ count'[t] = count[t] + 1
        /\ UNCHANGED <<asked, runs, barrier>>
    BY <1>0, <2>1, <1>9, Zenon DEF CheckpointRaise, Goto
  <2>3. u \in Threads /\ u # t /\ u \notin todo[t]
    BY <2>1, <2>2, Zenon DEF Raised
  <2>4. u \in Ahead(t) /\ Ahead(t)' = Ahead(t) \ {u}
    BY <2>1, <2>2, <2>3, Zenon DEF Ahead
  <2>5. Unrun(t) = modified[t] /\ Unrun(t)' = modified[t] \cup {u}
    BY <2>2, Zenon DEF Unrun
  <2>6. /\ pc[t] \in Round \ {"await", "sampleAwait"}
        /\ pc'[t] \in Round \ {"await", "sampleAwait"}
    BY <2>2, Zenon DEF Round, Marking, Raising
  <2>7. Pending(t) \cap (modified[t] \cup {u}) = {}
    BY <2>4, <2>6, Zenon DEF RoundOf, Accounting
  <2> QED
    BY <2>2, <2>3, <2>4, <2>5, <2>6, <2>7, RoundAsks, ZenonT(40)
<1>10. CASE t \in Collectors /\ CheckpointUnlock(t)
  <2>1. /\ pc[t] = "checkpointLoop" /\ pc'[t] = "checkpointSelf" /\ todo'[t] = todo[t]
        /\ UNCHANGED <<asked, count, runs, modified, barrier>>
    BY <1>0, <1>10, Zenon DEF CheckpointUnlock, EndLoop, Goto
  <2>2. Ahead(t)' = Ahead(t) /\ Unrun(t)' = Unrun(t)
    BY <2>1, Zenon DEF Ahead, Unrun
  <2>3. pc[t] \in Round /\ pc'[t] \in Round
    BY <2>1, Zenon DEF Round, Marking, Raising
  <2>4. barrier[t] = 0 - Cardinality(Checked(t))
    BY <2>1, <2>3, Zenon DEF RoundOf, Accounting
  <2> QED
    BY <2>1, <2>2, <2>3, <2>4, RoundWithin, Zenon
<1>11. CASE t \in Collectors /\ CheckpointSelf(t)
  <2>1. /\ pc[t] = "checkpointSelf" /\ pc'[t] = "checkpointNext" /\ todo'[t] = todo[t]
        /\ modified'[t] = modified[t] /\ count'[t] = count[t] + 1 /\ Run(t, t)
    BY <1>0, <1>11, Zenon DEF CheckpointSelf, Goto
  <2>2. todo[t] = {}
    BY <1>b, <2>1, Zenon DEF CLoops
  <2>3. Ahead(t) = {t} /\ Ahead(t)' = {} /\ Unrun(t) = modified[t] /\ Unrun(t)' = modified[t]
    BY <2>1, <2>2, Zenon DEF Ahead, Unrun
  <2>4. /\ pc[t] \in Round /\ pc'[t] \in Round /\ pc[t] \notin {"await", "sampleAwait"}
        /\ pc'[t] \notin {"await", "sampleAwait"}
    BY <2>1, Zenon DEF Round, Marking, Raising
  <2>5. t \in asked[t] \ Checked(t) /\ t \notin Pending(t) /\ t \notin modified[t]
    BY <2>3, <2>4, Zenon DEF RoundOf, Accounting
  <2>6. /\ Pending(t)' = Pending(t) \ {t} /\ Ahead(t)' = Ahead(t) \ {t}
        /\ Unrun(t)' = Unrun(t) \ {t}
        /\ count'[t] = count[t] + (IF t \in Ahead(t) THEN 1 ELSE 0)
    BY <2>1, <2>3, <2>5, ZenonT(60)
  <2> QED
    BY <1>0, <2>1, <2>4, <2>5, <2>6, RoundRuns, Zenon
<1>12. CASE t \in Collectors /\ CheckpointNext(t)
  <2>1. /\ pc[t] = "checkpointNext" /\ pc'[t] = "checkpointWait" /\ todo'[t] = todo[t]
        /\ UNCHANGED <<asked, count, runs, modified, barrier>>
    BY <1>0, <1>12, Zenon DEF CheckpointNext, Goto
  <2>2. Ahead(t)' = Ahead(t) /\ Unrun(t)' = Unrun(t)
    BY <2>1, Zenon DEF Ahead, Unrun
  <2>3. pc[t] \in Round /\ pc'[t] \in Round
    BY <2>1, Zenon DEF Round, Marking, Raising
  <2>4. barrier[t] = 0 - Cardinality(Checked(t))
    BY <2>1, <2>3, Zenon DEF RoundOf, Accounting
  <2> QED
    BY <2>1, <2>2, <2>3, <2>4, RoundWithin, Zenon
<1>13. CASE t \in Collectors /\ CheckpointWait(t)
  <2>1. /\ pc[t] = "checkpointWait" /\ pc'[t] = "checkpointRun" /\ todo'[t] = todo[t]
        /\ UNCHANGED <<asked, count, runs, modified, barrier>>
    BY <1>0, <1>13, Zenon DEF CheckpointWait, Goto
  <2>2. Ahead(t)' = Ahead(t) /\ Unrun(t)' = Unrun(t)
    BY <2>1, Zenon DEF Ahead, Unrun
  <2>3. pc[t] \in Round /\ pc'[t] \in Round
    BY <2>1, Zenon DEF Round, Marking, Raising
  <2>4. barrier[t] = 0 - Cardinality(Checked(t))
    BY <2>1, <2>3, Zenon DEF RoundOf, Accounting
  <2> QED
    BY <2>1, <2>2, <2>3, <2>4, RoundWithin, Zenon
<1>14. CASE t \in Collectors /\ CheckpointRun(t)
  <2>1. PICK u : u = cur[t]
    BY Zenon
  <2>2. /\ pc[t] = "checkpointRun" /\ pc'[t] = "checkpointLower" /\ todo'[t] = todo[t]
        /\ modified'[t] = modified[t] /\ cur'[t] = u /\ count'[t] = count[t] /\ Run(t, u)
    BY <1>0, <2>1, <1>14, Zenon DEF CheckpointRun, Goto
  <2>3. todo[t] = {} /\ u \in modified[t] /\ u \in Threads
    BY <1>b, <2>1, <2>2, Zenon DEF CLoops, Raised
  <2>4. Ahead(t) = {} /\ Ahead(t)' = {} /\ Unrun(t) = modified[t] /\ Unrun(t)' = modified[t] \ {u}
    BY <2>2, <2>3, Zenon DEF Ahead, Unrun
  <2>5. /\ pc[t] \in Round /\ pc'[t] \in Round /\ pc[t] \notin {"await", "sampleAwait"}
        /\ pc'[t] \notin {"await", "sampleAwait"}
    BY <2>2, Zenon DEF Round, Marking, Raising
  <2>6. u \in asked[t] \ Checked(t) /\ u \notin Pending(t)
    BY <2>3, <2>4, <2>5, Zenon DEF RoundOf, Accounting
  <2>7. /\ Pending(t)' = Pending(t) \ {u} /\ Ahead(t)' = Ahead(t) \ {u}
        /\ Unrun(t)' = Unrun(t) \ {u}
        /\ count'[t] = count[t] + (IF u \in Ahead(t) THEN 1 ELSE 0)
    <3>1. u \notin Ahead(t) /\ count[t] \in Int
      BY <2>4, ZenonT(40)
    <3>2. count'[t] = count[t] + (IF u \in Ahead(t) THEN 1 ELSE 0)
      BY <2>2, <3>1, SMTT(30)
    <3>3. Pending(t)' = Pending(t) \ {u}
      BY <2>6, Zenon
    <3>4. Ahead(t)' = Ahead(t) \ {u} /\ Unrun(t)' = Unrun(t) \ {u}
      BY <2>4, Zenon
    <3> QED
      BY <3>2, <3>3, <3>4, Zenon
  <2> QED
    BY <2>2, <2>3, <2>5, <2>6, <2>7, RoundRuns, Zenon
<1>15. CASE t \in Collectors /\ CheckpointLower(t)
  <2>1. /\ pc[t] = "checkpointLower" /\ pc'[t] = "checkpointNext" /\ todo'[t] = todo[t]
        /\ modified'[t] = modified[t] \ {cur[t]} /\ UNCHANGED <<asked, count, runs, barrier>>
    BY <1>0, <1>15, Zenon DEF CheckpointLower, Goto
  <2>2. Ahead(t)' = Ahead(t) /\ Unrun(t)' = Unrun(t)
    BY <2>1, Zenon DEF Ahead, Unrun
  <2>3. pc[t] \in Round /\ pc'[t] \in Round
    BY <2>1, Zenon DEF Round, Marking, Raising
  <2>4. barrier[t] = 0 - Cardinality(Checked(t))
    BY <2>1, <2>3, Zenon DEF RoundOf, Accounting
  <2> QED
    BY <2>1, <2>2, <2>3, <2>4, RoundWithin, Zenon
<1>16. CASE t \in Collectors /\ CheckpointBroadcast(t)
  <2>1. /\ pc[t] = "checkpointNext" /\ pc'[t] = "checkpointed" /\ todo'[t] = todo[t]
        /\ UNCHANGED <<asked, count, runs, modified, barrier>>
    BY <1>0, <1>16, Zenon DEF CheckpointBroadcast, Goto
  <2>2. Ahead(t)' = Ahead(t) /\ Unrun(t)' = Unrun(t)
    BY <2>1, Zenon DEF Ahead, Unrun
  <2>3. pc[t] \in Round /\ pc'[t] \in Round
    BY <2>1, Zenon DEF Round, Marking, Raising
  <2>4. barrier[t] = 0 - Cardinality(Checked(t))
    BY <2>1, <2>3, Zenon DEF RoundOf, Accounting
  <2> QED
    BY <2>1, <2>2, <2>3, <2>4, RoundWithin, Zenon
<1>17. CASE t \in Collectors /\ Checkpointed(t)
  <2>1. /\ pc[t] = "checkpointed" /\ pc'[t] = "increment" /\ todo'[t] = todo[t]
        /\ UNCHANGED <<asked, count, runs, modified, barrier>>
    BY <1>0, <1>17, Zenon DEF Checkpointed, CollectorUnshare, Goto
  <2>2. Ahead(t)' = Ahead(t) /\ Unrun(t)' = Unrun(t)
    BY <2>1, Zenon DEF Ahead, Unrun
  <2>3. pc[t] \in Round /\ pc'[t] \in Round
    BY <2>1, Zenon DEF Round, Marking, Raising
  <2>4. barrier[t] = 0 - Cardinality(Checked(t))
    BY <2>1, <2>3, Zenon DEF RoundOf, Accounting
  <2> QED
    BY <2>1, <2>2, <2>3, <2>4, RoundWithin, Zenon
<1>18. CASE t \in Collectors /\ CollectorIncrement(t)
  <2>1. /\ pc[t] = "increment" /\ pc'[t] = "await" /\ todo'[t] = todo[t]
        /\ barrier'[t] = barrier[t] + count[t] /\ UNCHANGED <<asked, count, runs, modified>>
    BY <1>0, <1>18, Zenon DEF CollectorIncrement, Increment, Goto
  <2> QED
    BY <2>1, RoundAnnounces, Zenon
<1>19. CASE t \in Collectors /\ CollectorAwait(t)
  <2>1. /\ pc[t] = "await" /\ pc'[t] = "rootsMarked" /\ barrier[t] = 0
        /\ UNCHANGED <<asked, runs, barrier>>
    BY <1>0, <1>19, Zenon DEF CollectorAwait, AwaitZero, Goto
  <2>2. Ahead(t) = {}
    BY <1>b, <2>1, Zenon DEF Ahead, CLoops
  <2>3. Checked(t) = asked[t] /\ Pending(t) = {} /\ pc'[t] \notin Round
    BY <2>1, <2>2, RoundPassed, Zenon DEF Round, Marking, Raising, Sampling
  <2>4. Checked(t)' = Checked(t)
    BY <2>1, Zenon DEF Checked
  <2> QED
    BY <2>1, <2>3, <2>4, Zenon DEF RoundOf
<1>20. CASE t \in Collectors /\ ResumeMarking(t)
  <2>1. /\ pc[t] \notin Round /\ pc'[t] \notin Round \cup {"rootsMarked"}
        /\ barrier'[t] \in {barrier[t], 0} /\ runs' = runs
    BY <1>0, <1>20, Zenon
       DEF ResumeMarking, CollectorShare, Goto, Round, Marking, Raising, Sampling
  <2> QED
    BY <2>1, RoundOutside, Zenon
<1>21. CASE t \in Collectors /\ FinishCollection(t)
  <2>1. /\ pc[t] \notin Round /\ pc'[t] \notin Round \cup {"rootsMarked"}
        /\ barrier'[t] \in {barrier[t], 0} /\ runs' = runs
    BY <1>0, <1>21, Zenon
       DEF FinishCollection, CollectorUnshare, Goto, Round, Marking, Raising, Sampling
  <2> QED
    BY <2>1, RoundOutside, Zenon
<1>22. CASE t \in Profilers /\ SampleBegin(t)
  <2>1. /\ pc[t] = "sample" /\ pc'[t] = "sampleLoop" /\ todo'[t] = list_ \ {t}
        /\ modified'[t] = {} /\ count'[t] = 0 /\ asked'[t] = list_ \ {t} /\ barrier'[t] = barrier[t]
        /\ runs'[t] = [u \in Threads |-> 0]
    BY <1>0, <1>22, CheckpointAssumption, Zenon DEF SampleBegin, BeginLoop, StartLoop, Goto
  <2>2. t \in list_ /\ Pending(t) = {} /\ barrier[t] = 0 /\ pc'[t] \in Round
    BY <1>0, <2>1, Zenon DEF CLocking, RoundOf, Round, Marking, Raising, Sampling
  <2>3. asked'[t] = todo'[t] \cup (IF pc'[t] = "checkpointLoop" THEN {t} ELSE {})
    BY <2>1, <2>2, Zenon
  <2> QED
    BY <2>1, <2>2, <2>3, RoundBegins, Zenon
<1>23. CASE t \in Profilers /\ SampleRequested(t)
  BY <1>23, Zenon DEF SampleRequested, Requested, Requesting
<1>24. CASE t \in Profilers /\ SampleRefused(t)
  <2>1. PICK u \in todo[t] : /\ todo' = [todo EXCEPT ![t] = @ \ {u}]
                            /\ asked' = [asked EXCEPT ![t] = @ \ {u}]
    BY <1>24, Zenon DEF SampleRefused
  <2>2. /\ pc[t] = "sampleLoop" /\ pc' = pc /\ todo'[t] = todo[t] \ {u}
        /\ asked'[t] = asked[t] \ {u} /\ u \in Threads
        /\ UNCHANGED <<count, runs, modified, barrier>>
    BY <1>0, <2>1, <1>24, Zenon DEF SampleRefused
  <2>3. u \in Ahead(t) /\ Ahead(t)' = Ahead(t) \ {u}
    BY <2>2, Zenon DEF Ahead
  <2>4. Unrun(t)' = Unrun(t) /\ u \notin Unrun(t)
    BY <2>2, Zenon DEF Unrun, Raised
  <2>5. pc[t] \in Round
    BY <2>2, Zenon DEF Round, Sampling
  <2> QED
    BY <2>2, <2>3, <2>4, <2>5, RoundSkips, Zenon
<1>25. CASE t \in Profilers /\ SampleUnlock(t)
  <2>1. /\ pc[t] = "sampleLoop" /\ todo'[t] = todo[t] /\ todo[t] = {}
        /\ pc'[t] = IF count[t] = 0 THEN "native" ELSE "sampleIncrement"
        /\ UNCHANGED <<asked, count, runs, modified, barrier>>
    BY <1>0, <1>25, Zenon DEF SampleUnlock, EndLoop, Goto
  <2>2. Ahead(t) = {} /\ Ahead(t)' = Ahead(t) /\ Unrun(t)' = Unrun(t) /\ Checked(t)' = Checked(t)
    BY <2>1, Zenon DEF Ahead, Unrun, Checked
  <2>3. pc[t] \in Round
    BY <2>1, Zenon DEF Round, Sampling
  <2>4. barrier[t] = 0 - Cardinality(Checked(t)) /\ Accounting(t)
    BY <2>1, <2>3, Zenon DEF RoundOf, Accounting
  <2>5. CASE count[t] # 0
    <3>1. pc'[t] \in Round /\ pc'[t] \notin {"await", "sampleAwait"}
      BY <2>1, <2>5, Zenon DEF Round, Sampling
    <3> QED
      BY <2>1, <2>2, <2>3, <2>4, <3>1, RoundWithin, Zenon
  <2>6. CASE count[t] = 0
    <3>1. Cardinality(asked[t]) = 0 /\ IsFiniteSet(asked[t])
      <4>1. asked[t] \ Ahead(t) = asked[t] /\ asked[t] \in SUBSET Threads
        BY <2>2, Zenon
      <4> QED
        BY <1>0, <2>4, <2>6, <4>1, CountOne, Zenon DEF Accounting
    <3>2. asked[t] = {}
      BY <3>1, FS_EmptySet, Zenon
    <3>3. Checked(t) = {} /\ Pending(t) = {} /\ Cardinality(Checked(t)) = 0
      BY <2>4, <3>2, FS_EmptySet, ZenonT(40) DEF Accounting
    <3>4. pc'[t] \notin Round /\ pc'[t] # "rootsMarked" /\ barrier[t] = 0
      BY <2>1, <2>4, <2>6, <3>3, SMTT(30) DEF Round, Marking, Raising, Sampling
    <3> QED
      BY <2>1, <3>3, <3>4, Zenon DEF RoundOf
  <2> QED
    BY <2>5, <2>6, Zenon
<1>26. CASE t \in Profilers /\ SampleIncrement(t)
  <2>1. /\ pc[t] = "sampleIncrement" /\ pc'[t] = "sampleAwait" /\ todo'[t] = todo[t]
        /\ barrier'[t] = barrier[t] + count[t] /\ UNCHANGED <<asked, count, runs, modified>>
    BY <1>0, <1>26, Zenon DEF SampleIncrement, Increment, Goto
  <2> QED
    BY <2>1, RoundAnnounces, Zenon
<1>27. CASE t \in Profilers /\ SampleAwait(t)
  <2>1. /\ pc[t] = "sampleAwait" /\ pc'[t] = "native" /\ barrier[t] = 0
        /\ UNCHANGED <<asked, runs, barrier>>
    BY <1>0, <1>27, Zenon DEF SampleAwait, AwaitZero, Goto
  <2>2. Ahead(t) = {}
    BY <1>b, <2>1, Zenon DEF Ahead, CLoops
  <2>3. Checked(t) = asked[t] /\ Pending(t) = {} /\ pc'[t] \notin Round
    BY <2>1, <2>2, RoundPassed, Zenon DEF Round, Marking, Raising, Sampling
  <2>4. Checked(t)' = Checked(t)
    BY <2>1, Zenon DEF Checked
  <2> QED
    BY <2>1, <2>3, <2>4, Zenon DEF RoundOf
<1> QED
  BY ZenonT(40), <1>1, <1>2, <1>3, <1>4, <1>5, <1>6, <1>7, <1>8, <1>9, <1>10, <1>11, <1>12, <1>13,
     <1>14, <1>15, <1>16, <1>17, <1>18, <1>19, <1>20, <1>21, <1>22, <1>23, <1>24, <1>25,
     <1>26, <1>27 DEF CheckpointAction, CheckpointStep, SampleStep


\* A thread that runs a closure is outside any round of its own, and counts in
\* the round of the closure's requester.
LEMMA RunClosureRounds ==
  ASSUME CTypes, RTypes, \A u \in Threads : Slots(u), Rounds, NEW t \in Threads,
         RunClosure(t), CheckpointEffect(t)
  PROVE  (\A u \in Threads : Slots(u)') /\ Rounds'
<1>1. \A u \in Threads : Slots(u)'
  BY RunClosureSlots, Zenon
<1>2. PICK r \in Requesters : /\ Run(r, t) /\ t \in Pending(r) /\ Pending(r)' = Pending(r) \ {t}
                              /\ \A s \in Requesters \ {r} : Pending(s)' = Pending(s)
  BY RunClosureSlots, Zenon
<1>3. /\ pc[t] = "closures" /\ pc'[t] \in {"running", "closures"}
      /\ \A s \in Requesters \ {r} : barrier'[s] = barrier[s] /\ runs'[s] = runs[s]
  BY <1>2, RunEffect, Zenon DEF RunClosure, Goto, CTypes
<1>4. RoundOf(r) /\ pc[r] \in Round /\ r # t
  BY <1>2, <1>3, Zenon DEF Rounds, RoundOf, Round, Marking, Raising, Sampling
<1>5. RoundOf(r)'
  <2>1. /\ pc'[r] = pc[r] /\ todo'[r] = todo[r] /\ modified'[r] = modified[r] /\ cur'[r] = cur[r]
        /\ count'[r] = count[r] /\ count[r] \in Int
    BY <1>4, CheckpointAssumption, Zenon DEF CheckpointEffect, Alone, RTypes
  <2>2. Ahead(r)' = Ahead(r) /\ Unrun(r)' = Unrun(r) /\ Unrun(r) \subseteq modified[r]
    BY <2>1, Zenon DEF Ahead, Unrun
  <2>3. t \in asked[r] \ Checked(r) /\ t \notin Ahead(r) /\ t \notin modified[r]
    BY <1>2, <1>4, Zenon DEF RoundOf, Accounting
  <2>4. Ahead(r)' = Ahead(r) \ {t} /\ Unrun(r)' = Unrun(r) \ {t}
    BY <2>2, <2>3, ZenonT(40)
  <2>5. count'[r] = count[r] + (IF t \in Ahead(r) THEN 1 ELSE 0)
    BY <2>1, <2>3, SMTT(30)
  <2> QED
    BY <1>2, <1>4, <2>1, <2>3, <2>4, <2>5, RoundRuns, Zenon
<1>6. ASSUME NEW s \in Requesters \ {r, t} PROVE RoundOf(s)'
  BY <1>2, <1>3, RoundElse, Zenon DEF Rounds
<1>7. ASSUME t \in Requesters PROVE RoundOf(t)'
  BY <1>2, <1>3, <1>4, <1>7, RoundOutside, Zenon DEF Rounds, Round, Marking, Raising, Sampling
<1> QED
  BY <1>1, <1>5, <1>6, <1>7, Zenon DEF Rounds

\* A request counts in the round of the thread that makes it.
LEMMA RequestingRounds ==
  ASSUME CTypes, RTypes, CSharing, CLocking, \A u \in Threads : Slots(u), Rounds,
         \A r \in Requesters : Raised(r), NEW t \in Requesters, Requesting(t), CheckpointEffect(t)
  PROVE  (\A u \in Threads : Slots(u)') /\ Rounds'
<1>0. t \in Threads /\ RoundOf(t) /\ Raised(t) /\ Accounting(t)
  BY CheckpointAssumption, Zenon
     DEF Rounds, RoundOf, Requesting, Round, Marking, Raising, Sampling
<1>1. PICK u \in todo[t] : RequestCheckpoint(t, u) /\ todo' = [todo EXCEPT ![t] = @ \ {u}]
  BY Zenon DEF Requesting, Requested
<1>2. /\ pc' = pc /\ pc[t] \in {"checkpointLoop", "sampleLoop"} /\ count'[t] = count[t] + 1
      /\ todo'[t] = todo[t] \ {u} /\ u \in Threads /\ u # t
      /\ UNCHANGED <<closures, modified, barrier, asked, runs>>
  BY <1>0, <1>1, SMTT(30) DEF Requesting, Requested, history, CTypes, RTypes, CLocking
<1>3. /\ u \in Ahead(t) /\ Ahead(t)' = Ahead(t) \ {u}
      /\ Unrun(t) = modified[t] /\ Unrun(t)' = Unrun(t)
  BY <1>2, ZenonT(60) DEF Ahead, Unrun
<1>4. u \notin Pending(t) /\ u \notin modified[t] /\ Pending(t) \cap modified[t] = {}
  BY <1>0, <1>3, Zenon DEF Accounting
<1>5. /\ \A v \in Threads : Slots(v)'
      /\ Pending(t)' = Pending(t) \cup {u}
      /\ \A s \in Requesters \ {t} : Pending(s)' = Pending(s)
  BY <1>1, <1>2, <1>4, RequestingSlots, Zenon
<1>6. /\ pc[t] \in Round \ {"await", "sampleAwait"} /\ pc'[t] \in Round \ {"await", "sampleAwait"}
  BY <1>2, Zenon DEF Round, Marking, Raising, Sampling
<1>7. RoundOf(t)'
  BY <1>0, <1>2, <1>3, <1>4, <1>5, <1>6, RoundAsks, Zenon
<1>8. ASSUME NEW s \in Requesters \ {t} PROVE RoundOf(s)'
  BY <1>0, <1>2, <1>5, RoundElse, Zenon DEF Rounds
<1> QED
  BY <1>5, <1>7, <1>8, Zenon DEF Rounds

\* A step of a checkpoint keeps the slots and the rounds.
LEMMA CheckpointRounds ==
  ASSUME CTypes, RTypes, CSharing, CLocking, Roles, \A u \in Threads : Slots(u), Rounds,
         \A r \in Requesters : Raised(r), NEW t \in Threads,
         CheckpointAction(t), CheckpointEffect(t)
  PROVE  (\A u \in Threads : Slots(u)') /\ Rounds'
<1>1. CASE RunClosure(t)
  BY <1>1, RunClosureRounds, Zenon
<1>2. CASE Requesting(t)
  BY <1>2, RequestingRounds, Zenon DEF Requesting
<1>3. CASE RunCheckpointFunction(t)
  <2>1. /\ \A u \in Threads : Slots(u)'
        /\ \A r \in Requesters : Pending(r)' = Pending(r)
    BY <1>3, RunCheckpointFunctionSlots, Zenon
  <2>2. /\ pc[t] = "running" /\ pc'[t] = "closures" /\ UNCHANGED <<barrier, runs>>
    BY <1>3, Zenon DEF RunCheckpointFunction, Goto, history, CTypes
  <2>3. ASSUME NEW s \in Requesters \ {t} PROVE RoundOf(s)'
    BY <2>1, <2>2, RoundElse, Zenon DEF Rounds
  <2>4. ASSUME t \in Requesters PROVE RoundOf(t)'
    BY <2>1, <2>2, <2>4, RoundOutside, Zenon DEF Rounds, Round, Marking, Raising, Sampling
  <2> QED
    BY <2>1, <2>3, <2>4, Zenon DEF Rounds
<1>4. CASE Quiet(t) /\ ~Requesting(t) /\ ~RunClosure(t)
  <2>1. /\ \A u \in Threads : Slots(u)'
        /\ \A r \in Requesters : Pending(r)' = Pending(r)
    BY <1>4, QuietSlots, Zenon DEF CheckpointEffect
  <2>2. ASSUME NEW s \in Requesters \ {t} PROVE RoundOf(s)'
    <3>1. barrier'[s] = barrier[s] /\ runs'[s] = runs[s]
      BY <1>4, Zenon DEF CheckpointEffect
    <3> QED
      BY <2>1, <3>1, RoundElse, Zenon DEF Rounds
  <2>3. ASSUME t \in Requesters PROVE RoundOf(t)'
    BY <1>4, <2>1, <2>3, RequesterRound, ZenonT(40) DEF Rounds
  <2> QED
    BY <2>1, <2>2, <2>3, Zenon DEF Rounds
<1> QED
  BY <1>1, <1>2, <1>3, <1>4, SlotSteps, Zenon
-----------------------------------------------------------------------------
(* Waiting for a resume.                                                   *)

\* An attached thread's suspend count is never negative.
LEMMA CountsNatural ==
  ASSUME CTypes, CCounting, NEW u \in list_
  PROVE  suspend_count[u] \in Nat
<1>1. /\ Forcing(u) \in SUBSET Threads /\ Raisers(u) \in SUBSET Threads /\ u \in Threads
  BY CheckpointAssumption, Zenon DEF Forcing, Raisers, CTypes
<1>2. Cardinality(Forcing(u)) \in Nat /\ Cardinality(Raisers(u)) \in Nat
  BY <1>1, CountOne, Zenon
<1> QED
  BY <1>2 DEF CCounting

\* A step of ThreadSuspension loses no resume.
LEMMA BaseWaking ==
  ASSUME Places, CCounting, CWaking, NEW t \in Threads, BaseAction(t)
  PROVE  CWaking'
<1> USE DEF Places, CTypes, counts, locks, mutator_lock_, CWaking, NoLostResumeAfterCheckpoint,
            SuspendRequest
<1>1. CASE EnterNative(t)
  BY <1>1, Zenon DEF EnterNative, TransitionFromRunnableToSuspended, Goto
<1>2. CASE FullSuspendCheck(t)
  BY <1>2, Zenon DEF FullSuspendCheck, TransitionFromRunnableToSuspended, Goto
<1>3. CASE SharedUnlock(t)
  BY <1>3, Zenon DEF SharedUnlock, Goto
<1>4. CASE LeaveNative(t)
  BY <1>4, Zenon DEF LeaveNative, Goto
<1>5. CASE CheckRequest(t)
  BY <1>5, Zenon DEF CheckRequest, Goto
<1>6. CASE WaitForResume(t)
  BY <1>6, SMTT(30) DEF WaitForResume, Goto
<1>7. CASE Woken(t)
  BY <1>7, Zenon DEF Woken, Goto
<1>8. CASE SpuriousWakeup(t)
  BY <1>8, Zenon DEF SpuriousWakeup
<1>9. CASE SharedLock(t)
  BY <1>9, Zenon DEF SharedLock, Goto
<1>10. CASE CasToRunnable(t)
  BY <1>10, Zenon DEF CasToRunnable, Goto
<1>11. CASE SuspendAll(t)
  BY <1>11, Zenon DEF SuspendAll, LockThreadList, Goto
<1>12. CASE SuspendAllBegin(t)
  BY <1>12, Zenon DEF SuspendAllBegin, StartLoop, Goto
<1>13. CASE SuspendAllLoop(t)
  <2>1. PICK u \in todo[t] : ModifySuspendCount(u, 1)
    BY <1>13, Zenon DEF SuspendAllLoop, LoopModify
  <2>2. u \in list_ /\ u \in Threads
    BY <2>1, Zenon DEF CLocking
  <2>3. suspend_count[u] \in Nat
    BY <2>2, CountsNatural, Zenon
  <2>4. \A v \in Threads : suspend_count[v] # 0 => suspend_count'[v] # 0
    BY <2>1, <2>3, SMTT(30) DEF ModifySuspendCount
  <2> QED
    BY <1>13, <2>4, Zenon DEF SuspendAllLoop, LoopModify
<1>14. CASE SuspendAllUnlock(t)
  BY <1>14, Zenon DEF SuspendAllUnlock, Goto
<1>15. CASE ExclusiveLock(t)
  BY <1>15, Zenon DEF ExclusiveLock, Goto
<1>16. CASE ResumeAll(t)
  BY <1>16, Zenon DEF ResumeAll, Goto
<1>17. CASE ResumeAllLock(t)
  BY <1>17, Zenon DEF ResumeAllLock, LockThreadList, Goto
<1>18. CASE ResumeAllBegin(t)
  BY <1>18, Zenon DEF ResumeAllBegin, StartLoop, Goto
<1>19. CASE ResumeAllLoop(t)
  BY <1>19, Zenon DEF ResumeAllLoop, LoopModify
<1>20. CASE ResumeAllBroadcast(t)
  BY <1>20, Zenon DEF ResumeAllBroadcast, Goto
<1>21. CASE RegisterLock(t)
  BY <1>21, Zenon DEF RegisterLock, LockThreadList, Goto
<1>22. CASE Register(t)
  BY <1>22, Zenon DEF Register, Goto
<1>23. CASE Destroy(t)
  BY <1>23, Zenon DEF Destroy, Goto
<1>24. CASE Unregister(t)
  BY <1>24, Zenon DEF Unregister, Goto
<1> QED
  BY ZenonT(40), <1>1, <1>2, <1>3, <1>4, <1>5, <1>6, <1>7, <1>8, <1>9, <1>10, <1>11, <1>12, <1>13,
     <1>14, <1>15, <1>16, <1>17, <1>18, <1>19, <1>20, <1>21, <1>22, <1>23, <1>24 DEF
     BaseAction, Choose, Step

\* A step of a checkpoint loses no resume: the counts that it lowers are
\* announced by the broadcast that ends its loop.
LEMMA CheckpointWaking ==
  ASSUME CTypes, CCounting, CWaking, \A r \in Requesters : Raised(r), NEW t \in Threads,
         CheckpointEffect(t)
  PROVE  CWaking'
<1>1. CASE CheckpointBroadcast(t)
  BY <1>1, Zenon DEF CheckpointBroadcast, CWaking, NoLostResumeAfterCheckpoint
<1>2. CASE ~CheckpointBroadcast(t)
  <2>1. /\ resume_waiters' = resume_waiters /\ resume_waiters \subseteq Threads \ {t}
        /\ pc[t] \in Lowering => pc'[t] \in Lowering
        /\ \A u \in Threads \ {t} : pc'[u] = pc[u]
        /\ pc[t] # "resumeAllLoop"
    BY <1>2, Zenon DEF CheckpointEffect, Alone, CWaking, CTypes, StopPcs
  <2>2. \A u \in resume_waiters' : pc'[u] = "waiting"
    BY <2>1, Zenon DEF CWaking
  <2>3. CASE CheckpointLower(t)
    <3>1. pc'[t] = "checkpointNext"
      BY <2>3, Zenon DEF CheckpointLower, Goto, CTypes
    <3> QED
      BY <2>2, <3>1, Zenon DEF CWaking, NoLostResumeAfterCheckpoint
  <2>4. ASSUME \A u \in Threads : suspend_count[u] # 0 => suspend_count'[u] # 0 PROVE CWaking'
    <3>1. \A r \in Threads :
            pc[r] \in {"resumeAllLoop"} \cup Lowering => pc'[r] \in {"resumeAllLoop"} \cup Lowering
      BY <2>1, Zenon
    <3> QED
      BY <2>1, <2>2, <2>4, <3>1, Zenon
         DEF CWaking, NoLostResumeAfterCheckpoint, SuspendRequest, Lowering
  <2>5. CASE CheckpointRaise(t)
    <3>1. t \in Requesters
      BY <2>5, Zenon
         DEF CheckpointEffect, CheckpointRaise, Goto, CTypes, Requesters, CollectorPcs,
             Marking, Raising
    <3>2. cur[t] \in list_ /\ cur[t] \in Threads
      BY <2>5, <3>1, Zenon DEF CheckpointRaise, Goto, Raised, CTypes
    <3>3. suspend_count[cur[t]] \in Nat
      BY <3>2, CountsNatural, ZenonT(40)
    <3>4. /\ suspend_count'[cur[t]] = suspend_count[cur[t]] + 1
          /\ \A u \in Threads : u # cur[t] => suspend_count'[u] = suspend_count[u]
      BY <2>5, <3>2, Zenon DEF CheckpointRaise, ModifySuspendCount, CTypes
    <3>5. suspend_count'[cur[t]] # 0
      <4>1. \A n \in Nat : n + 1 # 0
        OBVIOUS
      <4> QED
        BY <3>3, <3>4, <4>1, Zenon
    <3>6. \A u \in Threads : suspend_count[u] # 0 => suspend_count'[u] # 0
      BY <3>4, <3>5, Zenon
    <3> QED
      BY <2>4, <3>6, Zenon
  <2> QED
    BY <2>3, <2>4, <2>5, Zenon DEF CheckpointEffect
<1> QED
  BY <1>1, <1>2, Zenon

-----------------------------------------------------------------------------
(* The theorems.                                                           *)

\* The threads start with nothing requested, nobody raised and no round begun.
LEMMA CheckpointStart == CInit => CheckpointInv
<1> SUFFICES ASSUME CInit PROVE CheckpointInv
  BY Zenon
<1> USE CheckpointAssumption, ThreadsAssumption DEF CInit, Init, MutatorLock!Init
<1>1. CTypes /\ CSharing /\ CLocking
  <2>1. CTypes
    BY DEF CTypes, CPcValues, PcValues
  <2>2. CSharing
    BY Zenon DEF CSharing, Sharers, Raising
  <2>3. CLocking
    BY Zenon DEF CLocking, CLoops, Listing
  <2> QED
    BY <2>1, <2>2, <2>3, Zenon
<1>2. RTypes
  BY DEF RTypes
<1>3. Roles
  BY Zenon DEF Roles, CollectorPcs, ProfilerPcs, Marking, Raising, Sampling
<1>4. ASSUME NEW t \in Threads PROVE Slots(t)
  BY EmptyHas, Zenon DEF Slots
<1>5. ASSUME NEW r \in Requesters PROVE Raised(r)
  BY ZenonT(40) DEF Raised
<1>6. CCounting
  <2>1. \A t \in Threads : Forcing(t) = {} /\ Raisers(t) = {}
    BY Zenon DEF Forcing, InForce, Raisers
  <2>2. Stopping = {}
    BY Zenon DEF Stopping
  <2>3. list_ \subseteq Threads /\ suspend_all_count_ = 0 /\ \A t \in Threads : suspend_count[t] = 0
    BY Zenon
  <2>4. Cardinality({}) = 0
    BY ONLY FS_EmptySet, Zenon
  <2> QED
    BY ONLY <2>1, <2>2, <2>3, <2>4, SMTT(30) DEF CCounting
<1>7. ASSUME NEW r \in Requesters PROVE RoundOf(r)
  <2>1. pc[r] \notin Round /\ pc[r] # "rootsMarked" /\ barrier[r] = 0
    BY Zenon DEF Round, Marking, Raising, Sampling
  <2>2. Pending(r) = {}
    BY EmptyHas, Zenon DEF Pending
  <2>3. \A t \in Threads : runs[r][t] <= 1
    OBVIOUS
  <2> QED
    BY <2>1, <2>2, <2>3, Zenon DEF RoundOf
<1>8. CWaking
  BY Zenon DEF CWaking, NoLostResumeAfterCheckpoint
<1> QED
  BY <1>1, <1>2, <1>3, <1>4, <1>5, <1>6, <1>7, <1>8, ZenonT(40) DEF CheckpointInv, Rounds

\* Every step keeps the invariant.
LEMMA CheckpointInvStep == CheckpointInv /\ [CNext]_cvars => CheckpointInv'
<1>1. ASSUME CheckpointInv, NEW t \in Threads, BaseAction(t) PROVE CheckpointInv'
  <2>1. Places /\ Places' /\ BaseEffect(t)
    BY <1>1, BasePlaces, BaseEffects, Zenon DEF CheckpointInv, Places
  <2>2. CCounting'
    BY <1>1, <2>1, BaseCounts, Zenon DEF CheckpointInv
  <2>3. /\ RTypes' /\ Roles' /\ (\A u \in Threads : Slots(u)')
        /\ (\A r \in Requesters : Raised(r)') /\ Rounds'
    BY <1>1, <2>1, BaseKeeps, Zenon DEF CheckpointInv, Places
  <2>4. CWaking'
    BY <1>1, <2>1, BaseWaking, Zenon DEF CheckpointInv
  <2> QED
    BY <2>1, <2>2, <2>3, <2>4, Zenon DEF CheckpointInv, Places
<1>2. ASSUME CheckpointInv, NEW t \in Threads, CheckpointAction(t) PROVE CheckpointInv'
  <2>1. Places /\ Places' /\ CheckpointEffect(t) /\ RTypes'
    BY <1>2, CheckpointPlaces, CheckpointEffects, CheckpointTypes, Zenon
       DEF CheckpointInv, Places
  <2>2. (\A r \in Requesters : Raised(r)') /\ CCounting' /\ CWaking'
    BY <1>2, <2>1, CheckpointRaised, CheckpointCounts, CheckpointWaking, Zenon
       DEF CheckpointInv
  <2>3. (\A u \in Threads : Slots(u)') /\ Rounds'
    BY <1>2, <2>1, CheckpointRounds, Zenon DEF CheckpointInv
  <2>4. Roles'
    BY <1>2, <2>1, Zenon DEF CheckpointInv, Roles, CheckpointEffect, Alone
  <2> QED
    BY <2>1, <2>2, <2>3, <2>4, Zenon DEF CheckpointInv, Places
<1>3. ASSUME CheckpointInv, UNCHANGED cvars PROVE CheckpointInv'
  <2>1. /\ UNCHANGED <<list_, suspend_all_count_, suspend_count, state, readers, writers,
                       thread_list_lock_, thread_suspend_count_lock_, resume_waiters, pc, todo>>
        /\ UNCHANGED <<checkpoint_functions, closures, modified, cur, count, barrier, asked, runs>>
    BY <1>3, Zenon DEF cvars, vars, counts, mutator_lock_, locks, requests, round, history
  <2>2. CTypes' /\ RTypes' /\ CSharing' /\ CLocking' /\ Roles'
    BY <1>3, <2>1, Zenon DEF CheckpointInv, CTypes, RTypes, CSharing, CLocking, Roles
  <2>3. (\A t \in Threads : Slots(t)') /\ (\A r \in Requesters : Raised(r)')
    BY <1>3, <2>1, Zenon DEF CheckpointInv, Slots, Raised
  <2>4. CCounting'
    <3>1. (\A u \in Threads : Forcing(u)' = Forcing(u) /\ Raisers(u)' = Raisers(u))
          /\ Stopping' = Stopping
      BY <2>1, Zenon DEF Forcing, InForce, Raisers, Stopping
    <3> QED
      BY <1>3, <2>1, <3>1, SameOwed, Zenon DEF CheckpointInv, CTypes
  <2>5. ASSUME NEW r \in Requesters PROVE RoundOf(r)'
    <3>1. /\ Ahead(r)' = Ahead(r) /\ Unrun(r)' = Unrun(r) /\ Checked(r)' = Checked(r)
          /\ Pending(r)' = Pending(r)
      BY <2>1, Zenon DEF Ahead, Unrun, Checked, Pending
    <3>2. Accounting(r)' = Accounting(r)
      BY <2>1, <3>1, Zenon DEF Accounting
    <3> QED
      BY <1>3, <2>1, <3>1, <3>2, Zenon DEF CheckpointInv, Rounds, RoundOf
  <2>6. CWaking'
    BY <1>3, <2>1, Zenon
       DEF CheckpointInv, CWaking, NoLostResumeAfterCheckpoint, SuspendRequest
  <2> QED
    BY <2>2, <2>3, <2>4, <2>5, <2>6, ZenonT(40) DEF CheckpointInv, Rounds
<1> QED
  BY <1>1, <1>2, <1>3, NextSplits, Zenon

\* The invariant holds in every state of every behaviour.
THEOREM CheckpointInvariant == CSpec => []CheckpointInv
<1>1. CInit => CheckpointInv
  BY CheckpointStart, Zenon
<1>2. CheckpointInv /\ [CNext]_cvars => CheckpointInv'
  BY CheckpointInvStep, Zenon
<1> QED
  BY <1>1, <1>2, PTL DEF CSpec

\* RunCheckpoint never runs a closure on behalf of a thread that may run: from the
\* poll of IsSuspended until the count is lowered, the thread stays suspended.
THEOREM SuspendedWhileCheckedHolds == CSpec => []SuspendedWhileChecked
<1>1. CheckpointInv => SuspendedWhileChecked
  <2> SUFFICES ASSUME CheckpointInv, NEW r \in Collectors,
                      pc[r] \in {"checkpointRun", "checkpointLower"}
               PROVE  IsSuspended(cur[r])
    BY Zenon DEF SuspendedWhileChecked
  <2>1. r \in Requesters /\ Raised(r) /\ CTypes /\ CCounting
    BY Zenon DEF CheckpointInv, Requesters
  <2>2. cur[r] \in list_ /\ cur[r] \in modified[r] /\ state[cur[r]] = "Native"
    BY <2>1, Zenon DEF Raised
  <2>3. suspend_count[cur[r]] > 0 /\ suspend_count[cur[r]] \in Int
    BY <2>1, <2>2, RaisedCounts, Zenon DEF CTypes
  <2> QED
    BY <2>2, <2>3, SMTT(30) DEF IsSuspended, SuspendRequest
<1> QED
  BY <1>1, CheckpointInvariant, PTL

\* A requester that passes its barrier has had its closure run exactly once for
\* every thread that it asked.
THEOREM EveryThreadCheckedHolds == CSpec => []EveryThreadChecked
<1>1. CheckpointInv => EveryThreadChecked
  <2> SUFFICES ASSUME CheckpointInv, NEW r \in Requesters
               PROVE  /\ \A t \in Threads : runs[r][t] <= 1
                      /\ pc[r] = "rootsMarked" \/ (pc[r] = "sampleAwait" /\ barrier[r] = 0) =>
                           \A t \in asked[r] : runs[r][t] = 1
    BY Zenon DEF EveryThreadChecked
  <2>1. RoundOf(r) /\ RTypes /\ CLocking /\ r \in Threads
    BY CheckpointAssumption, Zenon DEF CheckpointInv, Rounds
  <2>2. CASE pc[r] = "rootsMarked"
    BY <2>1, <2>2, Zenon DEF RoundOf, Checked, Round, Marking, Raising, Sampling
  <2>3. CASE pc[r] = "sampleAwait" /\ barrier[r] = 0
    <3>1. Ahead(r) = {}
      BY <2>1, <2>3, Zenon DEF Ahead, CLocking, CLoops
    <3>2. Checked(r) = asked[r]
      BY <2>1, <2>3, <3>1, RoundPassed, Zenon
    <3> QED
      BY <2>1, <3>2, Zenon DEF RoundOf, Checked
  <2> QED
    BY <2>1, <2>2, <2>3, Zenon DEF RoundOf
<1> QED
  BY <1>1, CheckpointInvariant, PTL

\* No thread is deleted while a loop over list_, a collector that has raised its
\* count, or a checkpoint in its slots still refers to it.
THEOREM NoDeletedThreadUsedHolds == CSpec => []NoDeletedThreadUsed
<1>1. CheckpointInv => NoDeletedThreadUsed
  <2> SUFFICES ASSUME CheckpointInv PROVE NoDeletedThreadUsed
    BY Zenon
  <2>1. CLocking /\ (\A t \in Threads : Slots(t)) /\ \A r \in Requesters : Raised(r)
    BY Zenon DEF CheckpointInv
  <2>2. \A r \in Threads : todo[r] \subseteq list_
    BY <2>1, Zenon DEF CLocking
  <2>3. \A r \in Collectors : modified[r] \subseteq list_
    BY <2>1, Zenon DEF Raised, Requesters
  <2>4. \A t \in Threads \ list_ : checkpoint_functions[t] = << >> /\ closures[t] = << >>
    BY <2>1, Zenon DEF CLocking, Slots
  <2> QED
    BY <2>2, <2>3, <2>4, Zenon DEF NoDeletedThreadUsed
<1> QED
  BY <1>1, CheckpointInvariant, PTL

\* A thread asleep in resume_cond_ with a zero count is about to be woken, although
\* RunCheckpoint lowers counts and broadcasts in different critical sections.
THEOREM NoLostResumeAfterCheckpointHolds == CSpec => []NoLostResumeAfterCheckpoint
<1>1. CheckpointInv => NoLostResumeAfterCheckpoint
  BY Zenon DEF CheckpointInv, CWaking
<1> QED
  BY <1>1, CheckpointInvariant, PTL

\* Checkpoints do not disturb SuspendAll: while the world is stopped every other
\* thread is suspended, collectors that hold a share of mutator_lock_ included.
THEOREM WorldStoppedWithCheckpoints == CSpec => []WorldStopped
<1>1. CheckpointInv => WorldStopped
  <2> SUFFICES ASSUME CheckpointInv, NEW r \in Threads, pc[r] = "stopped", NEW t \in list_ \ {r}
               PROVE  IsSuspended(t)
    BY Zenon DEF WorldStopped
  <2>1. t \in Threads /\ CTypes /\ CSharing /\ CCounting
    BY Zenon DEF CheckpointInv, CTypes
  <2>2. state[t] # "Runnable"
    BY <2>1, Zenon DEF CSharing, Sharers
  <2>3. /\ Forcing(t) \in SUBSET Threads /\ Raisers(t) \in SUBSET Threads /\ r \in Forcing(t)
    BY CheckpointAssumption, Zenon DEF Forcing, Raisers, InForce
  <2>4. Cardinality(Forcing(t)) \in Nat \ {0} /\ Cardinality(Raisers(t)) \in Nat
    BY <2>1, <2>3, CountOne, Zenon
  <2>5. suspend_count[t] # 0
    BY <2>1, <2>4, SMTT(30) DEF CCounting
  <2> QED
    BY <2>2, <2>5, Zenon DEF IsSuspended, SuspendRequest
<1> QED
  BY <1>1, CheckpointInvariant, PTL
=============================================================================
