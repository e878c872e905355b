---------------------------- MODULE SuspendThread ---------------------------
(***************************************************************************)
(* Suspending one thread, on top of ThreadSuspension: ThreadList's         *)
(* SuspendThreadByPeer, SuspendThreadByThreadId and Resume, together with  *)
(* the thread ids and the nativePeer fields by which the target is found   *)
(* (runtime/thread_list.cc, runtime/thread.cc).                            *)
(*                                                                         *)
(* The callers are those of the runtime: GetThreadStack and nativeSetName  *)
(* suspend by peer, become Runnable, use the target and resume it;         *)
(* Monitor::InflateThinLocked suspends by id and resumes without becoming  *)
(* Runnable.  The 30 second time-out is a choice that is open from the     *)
(* second look at the target on.                                           *)
(***************************************************************************)
EXTENDS ThreadSuspension

CONSTANTS
  PeerCalls,   \* pairs <<t, u>>: t may suspend u by its peer
  IdCalls,     \* pairs <<t, i>>: t may suspend the thread with id i
  Mortal,      \* the threads that detach
  Created,     \* started by Thread.start, the others attach themselves
  ThreadIds,   \* the ids that allocated_ids_ has room for
  TimeOuts     \* the kinds of calls whose target may take more than 30 seconds

ASSUME SuspendThreadAssumption ==
  /\ PeerCalls \subseteq Threads \X Threads /\ \A p \in PeerCalls : p[1] # p[2]
  /\ IdCalls \subseteq Threads \X ThreadIds
  /\ Mortal \subseteq Threads /\ Created \subseteq Threads \ InitialThreads
  /\ ThreadIds \subseteq Nat \ {0} /\ TimeOuts \subseteq {"peer", "id"}

VARIABLES
  nativePeer,             \* whether the field of t's java.lang.Thread holds t
  allocated_ids_,
  thin_lock_thread_id,    \* of each thread, 0 before AllocThreadId
  call,                   \* the suspension t is performing: <<"peer", u>>, <<"id", i>>
  stage,                  \* how far it is
  suspended_thread,       \* whose count it has raised; did_suspend_request
  aborted                 \* LOG(FATAL)

NoCall == <<"none", NoThread>>

ids == <<allocated_ids_, thin_lock_thread_id>>
progress == <<call, stage, suspended_thread, aborted>>
svars == <<vars, nativePeer, ids, progress>>

SInit ==
  /\ Init
  /\ nativePeer = [t \in Threads |-> t \in InitialThreads]
  /\ thin_lock_thread_id \in [Threads -> ThreadIds \cup {0}]
  /\ \A t \in Threads : thin_lock_thread_id[t] # 0 <=> t \in InitialThreads
  /\ \A t, u \in InitialThreads :
       thin_lock_thread_id[t] = thin_lock_thread_id[u] => t = u
  /\ allocated_ids_ = {thin_lock_thread_id[t] : t \in InitialThreads}
  /\ call = [t \in Threads |-> NoCall]
  /\ stage = [t \in Threads |-> "none"]
  /\ suspended_thread = [t \in Threads |-> NoThread]
  /\ aborted = FALSE

Stage(t, from, to) == stage[t] = from /\ stage' = [stage EXCEPT ![t] = to]
-----------------------------------------------------------------------------
(* Thread birth and death.                                                 *)

\* CreateNativeThread publishes the new Thread* before the thread exists.
CreateNativeThread(t) ==
  /\ t \in Created /\ pc[t] = "unborn" /\ ~nativePeer[t] /\ thin_lock_thread_id[t] = 0
  /\ nativePeer' = [nativePeer EXCEPT ![t] = TRUE]
  /\ UNCHANGED <<vars, ids, progress>>

\* pthread_create failed: the creator deletes the Thread again, and clears the
\* field after that.
CreateFailed(t) ==
  /\ t \in Created /\ nativePeer[t] /\ thin_lock_thread_id[t] = 0
  /\ Goto(t, "unborn", "dead")
  /\ UNCHANGED <<list_, counts, state, mutator_lock_, locks, resume_waiters, todo,
                 nativePeer, ids, progress>>

ClearUnstarted(t) ==
  /\ pc[t] = "dead" /\ nativePeer[t] /\ thin_lock_thread_id[t] = 0
  /\ nativePeer' = [nativePeer EXCEPT ![t] = FALSE]
  /\ UNCHANGED <<vars, ids, progress>>

\* The lowest free id, allocated before the thread is registered.
AllocThreadId(t) ==
  /\ pc[t] = "unborn" /\ thin_lock_thread_id[t] = 0
  /\ t \in Created => nativePeer[t]
  /\ \E i \in ThreadIds \ allocated_ids_ :
       /\ \A j \in ThreadIds \ allocated_ids_ : i <= j
       /\ thin_lock_thread_id' = [thin_lock_thread_id EXCEPT ![t] = i]
       /\ allocated_ids_' = allocated_ids_ \cup {i}
  /\ UNCHANGED <<vars, nativePeer, progress>>

SRegisterLock(t) ==
  /\ thin_lock_thread_id[t] # 0
  /\ RegisterLock(t)
  /\ UNCHANGED <<nativePeer, ids, progress>>

\* Thread::CreatePeer, for a thread that attached itself.
CreatePeer(t) ==
  /\ pc[t] = "running" /\ stage[t] = "none" /\ ~nativePeer[t]
  /\ nativePeer' = [nativePeer EXCEPT ![t] = TRUE]
  /\ UNCHANGED <<vars, ids, progress>>

\* Thread::Destroy becomes Runnable to clear the peer's field, leaves
\* Runnable, and Unregister goes on to the loop.
StartDestroy(t) ==
  /\ t \in Mortal /\ nativePeer[t]
  /\ LeaveNative(t)
  /\ Stage(t, "none", "destroy")
  /\ UNCHANGED <<nativePeer, ids, call, suspended_thread, aborted>>

ClearPeer(t) ==
  /\ pc[t] = "running" /\ Stage(t, "destroy", "destroyed")
  /\ nativePeer' = [nativePeer EXCEPT ![t] = FALSE]
  /\ UNCHANGED <<vars, ids, call, suspended_thread, aborted>>

SDestroy(t) ==
  /\ stage[t] = "destroyed"
  /\ Destroy(t)
  /\ UNCHANGED <<nativePeer, ids, progress>>

\* A thread that has no peer.
DestroyWithoutPeer(t) ==
  /\ t \in Mortal /\ ~nativePeer[t]
  /\ Stage(t, "none", "destroyed")
  /\ Destroy(t)
  /\ UNCHANGED <<nativePeer, ids, call, suspended_thread, aborted>>

SUnregister(t) == Unregister(t) /\ UNCHANGED <<nativePeer, ids, progress>>

\* Faulty: the id is free while the thread is still in the list.
ReleaseThreadIdEarly(t) ==
  /\ pc[t] = "unregister" /\ Stage(t, "destroyed", "none")
  /\ allocated_ids_' = allocated_ids_ \ {thin_lock_thread_id[t]}
  /\ UNCHANGED <<vars, nativePeer, thin_lock_thread_id, call, suspended_thread, aborted>>

\* After the thread has left the list and its Thread has been deleted.
ReleaseThreadId(t) ==
  /\ pc[t] = "dead" /\ Stage(t, "destroyed", "none")
  /\ allocated_ids_' = allocated_ids_ \ {thin_lock_thread_id[t]}
  /\ UNCHANGED <<vars, nativePeer, thin_lock_thread_id, call, suspended_thread, aborted>>
-----------------------------------------------------------------------------
(* SuspendThreadByPeer and SuspendThreadByThreadId.                        *)

\* ScopedObjectAccess, at the top of the loop.
BeginCall(t, c) ==
  /\ LeaveNative(t)
  /\ Stage(t, "none", "lookup")
  /\ call' = [call EXCEPT ![t] = c]
  /\ UNCHANGED <<nativePeer, ids, suspended_thread, aborted>>

SuspendThreadByPeer(t, u) == <<t, u>> \in PeerCalls /\ BeginCall(t, <<"peer", u>>)

\* Not one's own id (InflateThinLocked tests for it).
SuspendThreadByThreadId(t, i) ==
  /\ <<t, i>> \in IdCalls /\ i # thin_lock_thread_id[t]
  /\ BeginCall(t, <<"id", i>>)

LookupLock(t) ==
  /\ stage[t] = "lookup"
  /\ LockThreadList(t, "running", "find")
  /\ UNCHANGED <<nativePeer, ids, progress>>

\* FromManagedThread, or the search of list_ for the id.
Found(t) ==
  IF call[t][1] = "peer" THEN {u \in {call[t][2]} : nativePeer[u]}
                         ELSE {u \in list_ : thin_lock_thread_id[u] = call[t][2]}

\* "No such thread": return NULL.
NotFound(t) ==
  /\ Found(t) = {}
  /\ Goto(t, "find", "running")
  /\ Stage(t, "lookup", "null")
  /\ thread_list_lock_' = NoThread
  /\ suspended_thread' = [suspended_thread EXCEPT ![t] = NoThread]
  /\ UNCHANGED <<list_, counts, state, mutator_lock_, thread_suspend_count_lock_, resume_waiters,
                 todo, nativePeer, ids, call, aborted>>

FoundOne(t) ==
  /\ Found(t) # {} /\ stage[t] = "lookup"
  /\ Goto(t, "find", "request")
  /\ todo' = [todo EXCEPT ![t] = Found(t)]
  /\ UNCHANGED <<list_, counts, state, mutator_lock_, locks, resume_waiters,
                 nativePeer, ids, progress>>

\* What the faulty variants of Request change: what is added to the count, and
\* where the caller goes.
RequestVariant(t, delta, next(_)) ==
  /\ thread_suspend_count_lock_ = NoThread
  /\ Goto(t, "request", "running")
  /\ \E u \in todo[t] :
       /\ ModifySuspendCount(u, delta)
       /\ suspended_thread' = [suspended_thread EXCEPT ![t] = u]
       /\ Stage(t, "lookup", next(u))
  /\ thread_list_lock_' = NoThread
  /\ todo' = [todo EXCEPT ![t] = {}]
  /\ UNCHANGED <<list_, suspend_all_count_, state, mutator_lock_, thread_suspend_count_lock_,
                 resume_waiters, nativePeer, ids, call, aborted>>

GotOrSleep(u) == IF state[u] # "Runnable" THEN "got" ELSE "sleep"

\* Faulty: returns the thread while it may still be Runnable.
RequestUnchecked(t) ==
  RequestVariant(t, IF suspended_thread[t] = NoThread THEN 1 ELSE 0, LAMBDA u : "got")

\* Faulty: waits for a suspension that it never requests.
RequestNothing(t) == RequestVariant(t, 0, GotOrSleep)

\* Both locks are held: request the suspension the first time round, then
\* return the thread if it is suspended, and go to sleep otherwise.
Request(t) ==
  /\ thread_suspend_count_lock_ = NoThread
  /\ Goto(t, "request", "running")
  /\ \E u \in todo[t] :
       /\ IF suspended_thread[t] = NoThread THEN ModifySuspendCount(u, 1)
                                            ELSE UNCHANGED suspend_count
       /\ suspended_thread' = [suspended_thread EXCEPT ![t] = u]
       /\ Stage(t, "lookup", IF state[u] # "Runnable" THEN "got" ELSE "sleep")
  /\ thread_list_lock_' = NoThread
  /\ todo' = [todo EXCEPT ![t] = {}]
  /\ UNCHANGED <<list_, suspend_all_count_, state, mutator_lock_, thread_suspend_count_lock_,
                 resume_waiters, nativePeer, ids, call, aborted>>

\* Faulty: leaves the request behind.
TimedOutSuspended(t) ==
  /\ call[t][1] \in TimeOuts
  /\ thread_suspend_count_lock_ = NoThread
  /\ suspended_thread[t] \in todo[t] /\ state[suspended_thread[t]] = "Runnable"
  /\ Goto(t, "request", "running")
  /\ Stage(t, "lookup", "null")
  /\ suspended_thread' = [suspended_thread EXCEPT ![t] = NoThread]
  /\ thread_list_lock_' = NoThread
  /\ todo' = [todo EXCEPT ![t] = {}]
  /\ aborted' = (call[t][1] = "peer")
  /\ UNCHANGED <<list_, counts, state, mutator_lock_, thread_suspend_count_lock_,
                 resume_waiters, nativePeer, ids, call>>

\* Still Runnable after 30 seconds.  By id: undo the request, return NULL and
\* set *timed_out.  By peer: the message is logged at level FATAL.
TimedOut(t) ==
  /\ call[t][1] \in TimeOuts
  /\ thread_suspend_count_lock_ = NoThread
  /\ suspended_thread[t] \in todo[t] /\ state[suspended_thread[t]] = "Runnable"
  /\ Goto(t, "request", "running")
  /\ Stage(t, "lookup", "null")
  /\ ModifySuspendCount(suspended_thread[t], -1)
  /\ suspended_thread' = [suspended_thread EXCEPT ![t] = NoThread]
  /\ thread_list_lock_' = NoThread
  /\ todo' = [todo EXCEPT ![t] = {}]
  /\ aborted' = (call[t][1] = "peer")
  /\ UNCHANGED <<list_, suspend_all_count_, state, mutator_lock_, thread_suspend_count_lock_,
                 resume_waiters, nativePeer, ids, call>>

\* The end of the ScopedObjectAccess, and of the one in which the target is used.
LeaveRunnable(t) ==
  /\ EnterNative(t)
  /\ \/ stage[t] \in {"got", "null", "sleep", "destroyed"} /\ UNCHANGED stage
     \/ Stage(t, "use", "used")
  /\ UNCHANGED <<nativePeer, ids, call, suspended_thread, aborted>>

\* ThreadSuspendSleep, then round again.
Again(t) ==
  /\ LeaveNative(t)
  /\ Stage(t, "sleep", "lookup")
  /\ UNCHANGED <<nativePeer, ids, call, suspended_thread, aborted>>

ReturnNull(t) ==
  /\ pc[t] = "native" /\ Stage(t, "null", "none")
  /\ call' = [call EXCEPT ![t] = NoCall]
  /\ UNCHANGED <<vars, nativePeer, ids, suspended_thread, aborted>>

\* GetThreadStack and nativeSetName: "Must be runnable".
UseTarget(t) ==
  /\ call[t][1] = "peer"
  /\ LeaveNative(t)
  /\ Stage(t, "got", "use")
  /\ UNCHANGED <<nativePeer, ids, call, suspended_thread, aborted>>
-----------------------------------------------------------------------------
(* ThreadList::Resume.                                                     *)

Resume(t) ==
  /\ \/ Stage(t, "used", "resume")
     \/ call[t][1] = "id" /\ Stage(t, "got", "resume")
  /\ LockThreadList(t, "native", "resumeLocked")
  /\ UNCHANGED <<nativePeer, ids, call, suspended_thread, aborted>>

\* Contains: a thread that is not in the list is left alone.
ResumeLower(t) ==
  /\ thread_suspend_count_lock_ = NoThread
  /\ Goto(t, "resumeLocked", "native")
  /\ IF suspended_thread[t] \in list_
     THEN Stage(t, "resume", "broadcast") /\ ModifySuspendCount(suspended_thread[t], -1)
     ELSE Stage(t, "resume", "null") /\ UNCHANGED suspend_count
  /\ suspended_thread' = [suspended_thread EXCEPT ![t] = NoThread]
  /\ thread_list_lock_' = NoThread
  /\ UNCHANGED <<list_, suspend_all_count_, state, mutator_lock_, thread_suspend_count_lock_,
                 resume_waiters, todo, nativePeer, ids, call, aborted>>

ResumeBroadcast(t) ==
  /\ thread_suspend_count_lock_ = NoThread
  /\ pc[t] = "native" /\ Stage(t, "broadcast", "null")
  /\ resume_waiters' = {}
  /\ UNCHANGED <<list_, counts, state, mutator_lock_, locks, pc, todo,
                 nativePeer, ids, call, suspended_thread, aborted>>
-----------------------------------------------------------------------------
Aside == UNCHANGED <<nativePeer, ids, progress>>

SFullSuspendCheck(t) == stage[t] \in {"none", "use", "destroy"} /\ FullSuspendCheck(t)

\* What a thread does of its own accord.
SChoose(t) ==
  \/ stage[t] = "none" /\ (EnterNative(t) \/ LeaveNative(t) \/ SuspendAll(t)) /\ Aside
  \/ CreateNativeThread(t) \/ CreateFailed(t)
  \/ CreatePeer(t) \/ StartDestroy(t) \/ DestroyWithoutPeer(t)
  \/ \E u \in Threads : SuspendThreadByPeer(t, u)
  \/ \E i \in ThreadIds : SuspendThreadByThreadId(t, i)

\* The steps of ThreadSuspension that are as they were.
SBaseStep(t) ==
  \/ SharedUnlock(t)
  \/ CheckRequest(t) \/ WaitForResume(t) \/ Woken(t) \/ SharedLock(t) \/ CasToRunnable(t)
  \/ SuspendAllBegin(t) \/ SuspendAllLoop(t) \/ SuspendAllUnlock(t) \/ ExclusiveLock(t)
  \/ ResumeAll(t) \/ ResumeAllLock(t) \/ ResumeAllBegin(t) \/ ResumeAllLoop(t)
  \/ ResumeAllBroadcast(t)
  \/ Register(t)

SStep(t) ==
  \/ (SBaseStep(t) \/ SFullSuspendCheck(t)) /\ Aside
  \/ ClearUnstarted(t) \/ AllocThreadId(t) \/ SRegisterLock(t)
  \/ ClearPeer(t) \/ SDestroy(t) \/ SUnregister(t) \/ ReleaseThreadId(t)
  \/ LookupLock(t) \/ NotFound(t) \/ FoundOne(t) \/ Request(t) \/ TimedOut(t)
  \/ LeaveRunnable(t) \/ Again(t) \/ ReturnNull(t) \/ UseTarget(t)
  \/ Resume(t) \/ ResumeLower(t) \/ ResumeBroadcast(t)

SSpurious(t) == SpuriousWakeup(t) /\ Aside

SNext == ~aborted /\ \E t \in Threads : SChoose(t) \/ SStep(t) \/ SSpurious(t)

SSpec == SInit /\ [][SNext]_svars
-----------------------------------------------------------------------------
\* Every suspend count is accounted for: by a SuspendAll in force or by a
\* suspension of one thread that has not been resumed yet.  A count that
\* nobody will lower again stops its thread for ever.
EveryCountOwned ==
  \A t \in Threads :
    pc[t] \notin {"unborn", "register", "dead"} =>
      suspend_count[t] = Cardinality({r \in Threads : InForce(r, t)})
                       + Cardinality({r \in Threads : suspended_thread[r] = t})

\* Between the return of the suspension and the end of Resume the target is
\* suspended and in the list, so that its caller may walk its stack or
\* inflate its lock.
TargetStaysSuspended ==
  \A t \in Threads :
    stage[t] \in {"got", "use", "used", "resume"} =>
      /\ suspended_thread[t] # NoThread
      /\ IsSuspended(suspended_thread[t])
      /\ suspended_thread[t] \in list_

\* The CHECKs of SuspendThreadByThreadId: the id of a thread that exits goes to
\* the next thread that attaches, but from the request on the target of a
\* suspension by id stays in the list, and its id finds it and nobody else.
IdStillNamesTarget ==
  \A t \in Threads :
    call[t][1] = "id" /\ suspended_thread[t] # NoThread =>
      {u \in list_ : thin_lock_thread_id[u] = call[t][2]} = {suspended_thread[t]}

=============================================================================
