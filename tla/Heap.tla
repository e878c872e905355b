-------------------------------- MODULE Heap --------------------------------
(***************************************************************************)
(* How gc::Heap decides which collection runs when: allocation that falls  *)
(* back on collections (AllocateInternalWithGc), explicit, background and  *)
(* native-allocation requests, GetPrimitiveArrayCritical, which forbids    *)
(* moving collections, the transition between the foreground and the       *)
(* background collector, and heap trims.  gc_complete_lock_ and            *)
(* heap_trim_request_lock_ protect blocks that are one action each.        *)
(*                                                                         *)
(* A Runnable thread is suspended at safe points only, so what it does     *)
(* between two of them is one action, and so is the pause of a transition. *)
(* Sizes and times are abstracted: an attempt to allocate succeeds or      *)
(* fails, a limit is passed or not, a delay has elapsed or not.            *)
(***************************************************************************)
EXTENDS Naturals, FiniteSets, FiniteSetsExt

CONSTANTS
  Apps,                \* threads of the program
  GcDaemon,            \* java.lang.Daemons: calls ConcurrentGC
  TrimDaemon,          \* java.lang.Daemons: calls DoPendingTransitionOrTrim
  foreground_collector_type_,
  background_collector_type_,
  have_zygote_space_,  \* the process was forked from the zygote
  MaxOperations        \* bounds the calls the program makes

kGcTypeNone    == 0
kGcTypeSticky  == 1
kGcTypePartial == 2
kGcTypeFull    == 3
CollectorTypes == {"MS", "CMS", "SS", "GSS"}

ASSUME HeapAssumption ==
  /\ IsFiniteSet(Apps)
  /\ GcDaemon \notin Apps /\ TrimDaemon \notin Apps /\ GcDaemon # TrimDaemon
  /\ foreground_collector_type_ \in CollectorTypes
  /\ background_collector_type_ \in CollectorTypes
  /\ have_zygote_space_ \in BOOLEAN
  /\ ~have_zygote_space_ => background_collector_type_ = foreground_collector_type_
  /\ MaxOperations \in Nat

Threads == Apps \cup {GcDaemon, TrimDaemon}

VARIABLES
  collector_type_, collector_type_running_, disable_moving_gc_count_,
  last_gc_type_, next_gc_type_,
  concurrent_start_bytes_,      \* "max", or "set" to some number of bytes
  process_state_, desired_collector_type_, heap_trim_request_pending_,
  gc_requested, trim_requested, \* what the Java daemons have been asked for
  object,                       \* where the array of each thread of the program lies
  pc, frame,                    \* where each thread is, and its locals
  sleep,                        \* Wait on gc_complete_cond_
  operations                    \* the calls the program has made

requestVars == <<process_state_, desired_collector_type_, heap_trim_request_pending_,
                 gc_requested, trim_requested>>
gcVars == <<collector_type_, collector_type_running_, last_gc_type_, next_gc_type_>>
threadVars == <<pc, frame, sleep>>
vars == <<gcVars, requestVars, threadVars, operations, disable_moving_gc_count_,
          concurrent_start_bytes_, object>>

IsMovingGc(c) == c \in {"SS", "GSS"}
IsGcConcurrent == collector_type_ = "CMS"
CareAboutPauseTimes == process_state_ = "JankPerceptible"
IsGCRequestPending == concurrent_start_bytes_ # "max"

AllocatorOf(c) == IF IsMovingGc(c) THEN "BumpPointer" ELSE "RosAlloc"
CurrentAllocator == AllocatorOf(collector_type_)
AllocatorHasAllocationStack(a) == a # "BumpPointer"

\* CreateMainMallocSpace, which PreZygoteFork calls before it sets
\* have_zygote_space_: the zygote's main space is movable, that of a process
\* which is not forked from it is not, as its two collectors are the same.
MainSpaceCanMoveObjects == have_zygote_space_
IsMovableObject(o) ==
  \/ o = "BumpPointer"
  \/ o = "RosAlloc" /\ MainSpaceCanMoveObjects

\* The storage of gc_plan_ and its size.  ChangeCollector clears the vector and
\* fills it again in the same storage, where a loop that is under way goes on
\* reading up to the end it began with.
GcPlan(i) == CASE i = 1 -> IF IsMovingGc(collector_type_) THEN kGcTypeFull ELSE kGcTypeSticky
               [] i = 2 -> kGcTypePartial
               [] i = 3 -> kGcTypeFull
GcPlanSize == IF IsMovingGc(collector_type_) THEN 1 ELSE 3

\* The locals of a thread's call: of CollectGarbageInternal (gc_type, and ret,
\* where it returns to), of WaitForGcToComplete and CollectGarbageInternal (result),
\* of AllocateInternalWithGc (allocator, default, tried), of a loop over
\* gc_plan_ (next, end) and of TransitionCollector (wanted).
NoFrame == [gc_type |-> kGcTypeNone, ret |-> "idle",
            result |-> kGcTypeNone, allocator |-> "none", default |-> FALSE,
            tried |-> kGcTypeNone, next |-> 1, end |-> 0, wanted |-> "none"]

\* A loop over gc_plan_ evaluates its end once; a turn of it at index i.
PlanEnd(f) == IF f.end = 0 THEN GcPlanSize ELSE f.end
Advance(f, i) == [f EXCEPT !.next = i + 1, !.end = PlanEnd(f)]

\* The heap as it was constructed, or after a transition to the background
\* collector.
Init ==
  /\ \/ /\ collector_type_ = foreground_collector_type_
        /\ process_state_ = "JankPerceptible"
        /\ last_gc_type_ = kGcTypeNone /\ next_gc_type_ = kGcTypePartial
     \/ /\ collector_type_ = background_collector_type_
        /\ process_state_ = "JankImperceptible"
        /\ last_gc_type_ = kGcTypeFull /\ next_gc_type_ = kGcTypeSticky
  /\ desired_collector_type_ = collector_type_
  /\ collector_type_running_ = "None"
  /\ disable_moving_gc_count_ = 0
  /\ concurrent_start_bytes_ = IF IsGcConcurrent THEN "set" ELSE "max"
  /\ heap_trim_request_pending_ = FALSE
  /\ gc_requested = FALSE /\ trim_requested = FALSE
  /\ object = [t \in Apps |-> CurrentAllocator]
  /\ pc = [t \in Threads |-> "idle"]
  /\ frame = [t \in Threads |-> NoFrame]
  /\ sleep = [t \in Threads |-> "no"]
  /\ operations = 0

Operate(t) ==
  /\ t \in Apps /\ pc[t] = "idle"
  /\ operations < MaxOperations
  /\ operations' = operations + 1

Goto(t, label, f) ==
  /\ pc' = [pc EXCEPT ![t] = label]
  /\ frame' = [frame EXCEPT ![t] = IF label = "idle" THEN NoFrame ELSE f]
  /\ sleep' = [sleep EXCEPT ![t] = "no"]

\* Calls of WaitForGcToComplete and CollectGarbageInternal, and their returns.  A
\* partial collection returns at once when there is no zygote space.
Await(t, f, ret) == Goto(t, "await", [f EXCEPT !.ret = ret])
Collect(t, f, type, ret) ==
  IF type = kGcTypePartial /\ ~have_zygote_space_
    THEN Goto(t, ret, [f EXCEPT !.result = kGcTypeNone])
    ELSE Goto(t, "collect", [f EXCEPT !.gc_type = type, !.ret = ret])
Return(t, result) ==
  Goto(t, frame[t].ret, [frame[t] EXCEPT !.result = result])

-----------------------------------------------------------------------------
(* gc_complete_cond_.                                                      *)

\* WaitForGcToCompleteLocked while a collection runs.
SleepOnGcCompleteCond(t) ==
  /\ pc[t] \in {"await", "collect", "transition", "trim", "pin"}
  /\ sleep[t] # "asleep"
  /\ collector_type_running_ # "None"
  /\ sleep' = [sleep EXCEPT ![t] = "asleep"]
  /\ UNCHANGED <<gcVars, requestVars, pc, frame, operations, disable_moving_gc_count_,
                 concurrent_start_bytes_, object>>

\* Faulty: the wait is not repeated when another collection has started.
NoGcRunsOnce(t) == sleep[t] # "asleep" /\ (collector_type_running_ = "None" \/ sleep[t] = "woken")

\* It returns, with gc_complete_lock_ held.
NoGcRuns(t) == sleep[t] # "asleep" /\ collector_type_running_ = "None"

WaitForGcToComplete(t) ==
  /\ pc[t] = "await" /\ NoGcRuns(t)
  /\ Return(t, IF sleep[t] = "woken" THEN last_gc_type_ ELSE kGcTypeNone)
  /\ UNCHANGED <<gcVars, requestVars, operations, disable_moving_gc_count_,
                 concurrent_start_bytes_, object>>

\* Faulty: the threads that wait are not woken.
FinishGCSilently(t) ==
  /\ pc[t] = "finish"
  /\ collector_type_running_' = "None"
  /\ last_gc_type_' = frame[t].gc_type
  /\ Return(t, frame[t].gc_type)
  /\ UNCHANGED <<collector_type_, next_gc_type_, requestVars, operations,
                 disable_moving_gc_count_, concurrent_start_bytes_, object>>

FinishGC(t) ==
  /\ pc[t] = "finish"
  /\ collector_type_running_' = "None"
  /\ last_gc_type_' = IF frame[t].gc_type # kGcTypeNone THEN frame[t].gc_type
                      ELSE last_gc_type_
  /\ pc' = [pc EXCEPT ![t] = frame[t].ret]
  /\ frame' = [frame EXCEPT ![t] = IF @.ret = "idle" THEN NoFrame
                                   ELSE [@ EXCEPT !.result = frame[t].gc_type]]
  /\ sleep' = [u \in Threads |-> IF sleep[u] = "asleep" THEN "woken" ELSE sleep[u]]
  /\ UNCHANGED <<collector_type_, next_gc_type_, requestVars, operations,
                 disable_moving_gc_count_, concurrent_start_bytes_, object>>

-----------------------------------------------------------------------------
(* CollectGarbageInternal.                                                 *)

CollectGarbageInternal(t) ==
  /\ pc[t] = "collect" /\ NoGcRuns(t)
  /\ IF IsMovingGc(collector_type_) /\ disable_moving_gc_count_ # 0
       THEN /\ Return(t, kGcTypeNone)
            /\ UNCHANGED collector_type_running_
       ELSE /\ collector_type_running_' = collector_type_
            /\ Goto(t, "run", frame[t])
  /\ UNCHANGED <<collector_type_, last_gc_type_, next_gc_type_, requestVars, operations,
                 disable_moving_gc_count_, concurrent_start_bytes_, object>>

\* GarbageCollector::Run, then RequestHeapTrim.  A generational semi-space
\* collection may promote an array from the bump pointer space to the main space.
Run(t) ==
  /\ pc[t] = "run"
  /\ object' \in [Apps -> {"RosAlloc", "BumpPointer", "NonMoving"}]
  /\ \A u \in Apps :
       \/ object'[u] = object[u]
       \/ /\ collector_type_ = "GSS" /\ object[u] = "BumpPointer"
          /\ object'[u] = "RosAlloc"
  /\ \/ /\ ~CareAboutPauseTimes
        /\ heap_trim_request_pending_' = TRUE
        /\ trim_requested' = TRUE
     \/ \* CareAboutPauseTimes, or a trim less than kHeapTrimWait ago
        UNCHANGED <<heap_trim_request_pending_, trim_requested>>
  /\ Goto(t, "grow", [frame[t] EXCEPT !.gc_type = IF IsMovingGc(collector_type_)
                                                  THEN kGcTypeFull ELSE @])
  /\ UNCHANGED <<gcVars, process_state_, desired_collector_type_, gc_requested, operations,
                 disable_moving_gc_count_, concurrent_start_bytes_>>

GrowForUtilization(t) ==
  /\ pc[t] = "grow"
  /\ next_gc_type_' \in
       IF frame[t].gc_type # kGcTypeSticky THEN {kGcTypeSticky}
       ELSE {kGcTypeSticky, IF have_zygote_space_ THEN kGcTypePartial ELSE kGcTypeFull}
  /\ concurrent_start_bytes_' = IF IsGcConcurrent THEN "set" ELSE concurrent_start_bytes_
  /\ Goto(t, "finish", frame[t])
  /\ UNCHANGED <<collector_type_, collector_type_running_, last_gc_type_, requestVars,
                 operations, disable_moving_gc_count_, object>>

-----------------------------------------------------------------------------
(* Allocation: AllocObjectWithAllocator and AllocateInternalWithGc.        *)

\* "We already have a request pending, no reason to start more until we update
\* concurrent_start_bytes_."
RequestConcurrentGC ==
  /\ concurrent_start_bytes_' = "max"
  /\ gc_requested' = TRUE

\* The end of an allocation: CheckConcurrentGC.
CheckConcurrentGC(t, allocator) ==
  /\ \/ /\ AllocatorHasAllocationStack(allocator) /\ IsGcConcurrent
        /\ concurrent_start_bytes_ = "set"
        /\ RequestConcurrentGC
     \/ UNCHANGED <<concurrent_start_bytes_, gc_requested>>
  /\ Goto(t, "idle", NoFrame)

\* TryToAllocate succeeded; a full allocation stack makes the thread collect.
Allocated(t, allocator) ==
  /\ object' = [object EXCEPT ![t] = allocator]
  /\ \/ CheckConcurrentGC(t, allocator)
     \/ /\ AllocatorHasAllocationStack(allocator)
        /\ Collect(t, [NoFrame EXCEPT !.allocator = allocator], kGcTypeSticky, "push")
        /\ UNCHANGED <<concurrent_start_bytes_, gc_requested>>

\* TryToAllocate failed and the thread goes on collecting.
TryToAllocate(t, allocator, retry) ==
  \/ Allocated(t, allocator)
  \/ retry /\ UNCHANGED <<object, concurrent_start_bytes_, gc_requested>>

allocFrame == <<gcVars, process_state_, desired_collector_type_,
                heap_trim_request_pending_, trim_requested, disable_moving_gc_count_>>

FirstTry(t, allocator) ==
  TryToAllocate(t, allocator,
    Await(t, [NoFrame EXCEPT !.allocator = allocator,
                             !.default = (allocator = CurrentAllocator)], "alloc_waited"))

AllocObject(t) ==
  /\ Operate(t)
  /\ \E allocator \in {CurrentAllocator, "NonMoving"} : FirstTry(t, allocator)
  /\ UNCHANGED allocFrame

\* PushOnAllocationStack after a collection: it succeeds unless no collection ran.
PushOnAllocationStack(t) ==
  /\ pc[t] = "push"
  /\ \/ CheckConcurrentGC(t, frame[t].allocator)
     \/ /\ frame[t].result = kGcTypeNone
        /\ Collect(t, frame[t], kGcTypeSticky, "push")
        /\ UNCHANGED <<concurrent_start_bytes_, gc_requested>>
  /\ UNCHANGED <<allocFrame, operations, object>>

\* Faulty: a change of the allocator goes unnoticed.
AllocatorChangeUnseen(t) == FALSE

\* "If we were the default allocator but the allocator changed while we were
\* suspended, abort the allocation": the caller starts again with the new one.
AllocatorChanged(t) == frame[t].default /\ frame[t].allocator # CurrentAllocator
Restart(t) == FirstTry(t, CurrentAllocator)

AllocWaited(t) ==
  LET f == frame[t]
      collect == Collect(t, [f EXCEPT !.tried = next_gc_type_], next_gc_type_,
                         "alloc_collected")
  IN  /\ pc[t] = "alloc_waited"
      /\ IF f.result = kGcTypeNone
           THEN collect /\ UNCHANGED <<object, concurrent_start_bytes_, gc_requested>>
         ELSE IF AllocatorChanged(t) THEN Restart(t)
         ELSE TryToAllocate(t, f.allocator, collect)
      /\ UNCHANGED <<allocFrame, operations>>

\* The rest of the loop over gc_plan_, then the attempt that may grow the heap,
\* then the collection that clears SoftReferences.
AllocNext(t) ==
  LET f == frame[t]
      left == {i \in f.next .. PlanEnd(f) : GcPlan(i) # f.tried}
  IN  IF left # {}
        THEN /\ Collect(t, Advance(f, Min(left)), GcPlan(Min(left)), "alloc_collected")
             /\ UNCHANGED <<object, concurrent_start_bytes_, gc_requested>>
        ELSE TryToAllocate(t, f.allocator,
               Collect(t, f, GcPlan(GcPlanSize), "alloc_soft"))

AllocCollected(t) ==
  /\ pc[t] = "alloc_collected"
  /\ IF AllocatorChanged(t) THEN Restart(t)
     ELSE \/ frame[t].result # kGcTypeNone /\ Allocated(t, frame[t].allocator)
          \/ AllocNext(t)
  /\ UNCHANGED <<allocFrame, operations>>

ThrowOutOfMemoryError(t) ==
  /\ Goto(t, "idle", NoFrame)
  /\ UNCHANGED <<object, concurrent_start_bytes_, gc_requested>>

AllocSoft(t) ==
  /\ pc[t] = "alloc_soft"
  /\ IF AllocatorChanged(t) THEN Restart(t)
     ELSE Allocated(t, frame[t].allocator) \/ ThrowOutOfMemoryError(t)
  /\ UNCHANGED <<allocFrame, operations>>

-----------------------------------------------------------------------------
(* The other requests of the program.                                      *)

CollectGarbage(t) ==
  /\ Operate(t)
  /\ Collect(t, NoFrame, GcPlan(GcPlanSize), "idle")
  /\ UNCHANGED <<gcVars, requestVars, disable_moving_gc_count_, concurrent_start_bytes_,
                 object>>

NativeGcType == IF have_zygote_space_ THEN kGcTypePartial ELSE kGcTypeFull

\* Native allocations over native_footprint_limit_, or over
\* native_footprint_gc_watermark_ only.
RegisterNativeAllocation(t) ==
  /\ Operate(t)
  /\ \/ /\ Await(t, NoFrame, "native_waited")
        /\ UNCHANGED <<concurrent_start_bytes_, gc_requested>>
     \/ /\ ~IsGCRequestPending
        /\ IF IsGcConcurrent
             THEN RequestConcurrentGC /\ Goto(t, "idle", NoFrame)
             ELSE /\ Collect(t, NoFrame, NativeGcType, "idle")
                  /\ UNCHANGED <<concurrent_start_bytes_, gc_requested>>
  /\ UNCHANGED <<allocFrame, object>>

NativeWaited(t) ==
  /\ pc[t] = "native_waited"
  /\ \/ Collect(t, NoFrame, NativeGcType, "idle")
     \/ Goto(t, "idle", NoFrame)
  /\ UNCHANGED <<gcVars, requestVars, operations, disable_moving_gc_count_,
                 concurrent_start_bytes_, object>>

\* JNI GetPrimitiveArrayCritical up to IncrementDisableMovingGC.
GetPrimitiveArrayCritical(t) ==
  /\ Operate(t)
  /\ Goto(t, IF IsMovableObject(object[t]) THEN "increment" ELSE "critical", NoFrame)
  /\ UNCHANGED <<gcVars, requestVars, disable_moving_gc_count_, concurrent_start_bytes_,
                 object>>

\* Faulty: a moving collection that runs already is not waited for.
IncrementWithoutWait(t) ==
  /\ pc[t] = "increment"
  /\ disable_moving_gc_count_' = disable_moving_gc_count_ + 1
  /\ Goto(t, "critical", NoFrame)
  /\ UNCHANGED <<gcVars, requestVars, operations, concurrent_start_bytes_, object>>

\* A moving collection that runs is waited for.
IncrementDisableMovingGC(t) ==
  /\ pc[t] = "increment"
  /\ disable_moving_gc_count_' = disable_moving_gc_count_ + 1
  /\ IF IsMovingGc(collector_type_running_)
       THEN /\ pc' = [pc EXCEPT ![t] = "pin"]
            /\ sleep' = [sleep EXCEPT ![t] = "asleep"]
            /\ UNCHANGED frame
       ELSE Goto(t, "critical", NoFrame)
  /\ UNCHANGED <<gcVars, requestVars, operations, concurrent_start_bytes_, object>>

MovingGcDisabled(t) ==
  /\ pc[t] = "pin" /\ NoGcRuns(t)
  /\ Goto(t, "critical", NoFrame)
  /\ UNCHANGED <<gcVars, requestVars, operations, disable_moving_gc_count_,
                 concurrent_start_bytes_, object>>

\* JNI ReleasePrimitiveArray with DecrementDisableMovingGC.
ReleasePrimitiveArray(t) ==
  /\ pc[t] = "critical"
  /\ disable_moving_gc_count_' =
       IF IsMovableObject(object[t]) THEN disable_moving_gc_count_ - 1
       ELSE disable_moving_gc_count_
  /\ Goto(t, "idle", NoFrame)
  /\ UNCHANGED <<gcVars, requestVars, operations, concurrent_start_bytes_, object>>

\* UpdateProcessState.  ActivityManager reports one state after the other.
UpdateProcessState(t, state) ==
  /\ \A u \in Apps : pc[u] # "request_transition"
  /\ process_state_ # state
  /\ Operate(t)
  /\ process_state_' = state
  /\ Goto(t, "request_transition", NoFrame)
  /\ UNCHANGED <<gcVars, desired_collector_type_, heap_trim_request_pending_, gc_requested,
                 trim_requested, disable_moving_gc_count_, concurrent_start_bytes_, object>>

\* Faulty: the daemon is signalled by the next heap trim only.
RequestTransitionSilently(t) ==
  /\ pc[t] = "request_transition"
  /\ desired_collector_type_' = IF CareAboutPauseTimes THEN foreground_collector_type_
                                ELSE background_collector_type_
  /\ Goto(t, "idle", NoFrame)
  /\ UNCHANGED <<gcVars, process_state_, heap_trim_request_pending_, gc_requested, trim_requested,
                 operations, disable_moving_gc_count_, concurrent_start_bytes_, object>>

RequestCollectorTransition(t) ==
  LET desired == IF CareAboutPauseTimes THEN foreground_collector_type_
                 ELSE background_collector_type_
  IN  /\ pc[t] = "request_transition"
      /\ desired_collector_type_' = desired
      /\ trim_requested' = (trim_requested \/ desired # desired_collector_type_)
      /\ Goto(t, "idle", NoFrame)
      /\ UNCHANGED <<gcVars, process_state_, heap_trim_request_pending_, gc_requested,
                     operations, disable_moving_gc_count_, concurrent_start_bytes_, object>>

-----------------------------------------------------------------------------
(* The daemons.                                                            *)

ConcurrentGC ==
  /\ pc[GcDaemon] = "idle" /\ gc_requested
  /\ gc_requested' = FALSE
  /\ Await(GcDaemon, NoFrame, "concurrent_waited")
  /\ UNCHANGED <<allocFrame, operations, concurrent_start_bytes_, object>>

ConcurrentWaited ==
  /\ pc[GcDaemon] = "concurrent_waited"
  /\ IF frame[GcDaemon].result = kGcTypeNone
       THEN Collect(GcDaemon, NoFrame, next_gc_type_, "concurrent_collected")
       ELSE Goto(GcDaemon, "idle", NoFrame)
  /\ UNCHANGED <<gcVars, requestVars, operations, disable_moving_gc_count_,
                 concurrent_start_bytes_, object>>

\* The type wanted could not run: the loop over gc_plan_.
ConcurrentCollected ==
  LET f == frame[GcDaemon]
      left == {i \in f.next .. PlanEnd(f) : GcPlan(i) > next_gc_type_}
  IN  /\ pc[GcDaemon] = "concurrent_collected"
      /\ IF f.result # kGcTypeNone \/ left = {}
           THEN Goto(GcDaemon, "idle", NoFrame)
           ELSE Collect(GcDaemon, Advance(f, Min(left)), GcPlan(Min(left)),
                        "concurrent_collected")
      /\ UNCHANGED <<gcVars, requestVars, operations, disable_moving_gc_count_,
                     concurrent_start_bytes_, object>>

\* DoPendingTransitionOrTrim, when the target time has been reached, up to the
\* first test of TransitionCollector.
DoPendingTransitionOrTrim ==
  /\ pc[TrimDaemon] = "idle" /\ trim_requested
  /\ trim_requested' = FALSE
  /\ Goto(TrimDaemon,
          IF desired_collector_type_ = collector_type_ THEN "trim_check" ELSE "transition",
          [NoFrame EXCEPT !.wanted = desired_collector_type_])
  /\ UNCHANGED <<gcVars, process_state_, desired_collector_type_, heap_trim_request_pending_,
                 gc_requested, operations, disable_moving_gc_count_, concurrent_start_bytes_,
                 object>>

CopyingTransition ==
  IsMovingGc(background_collector_type_) \/ IsMovingGc(foreground_collector_type_)

\* TransitionCollector: a turn of its loop that leaves it.
TransitionCollector ==
  /\ pc[TrimDaemon] = "transition" /\ NoGcRuns(TrimDaemon)
  /\ CopyingTransition => disable_moving_gc_count_ = 0
  /\ collector_type_running_' =
       IF CopyingTransition THEN "SS" ELSE frame[TrimDaemon].wanted
  /\ Goto(TrimDaemon, "compact", frame[TrimDaemon])
  /\ UNCHANGED <<collector_type_, last_gc_type_, next_gc_type_, requestVars, operations,
                 disable_moving_gc_count_, concurrent_start_bytes_, object>>

\* SuspendAll, Compact, ChangeCollector and ResumeAll.
ChangeCollector ==
  LET wanted == frame[TrimDaemon].wanted
      compacted(o) == IF o # "NonMoving" /\ IsMovingGc(wanted) # IsMovingGc(collector_type_)
                      THEN AllocatorOf(wanted) ELSE o
  IN  /\ pc[TrimDaemon] = "compact"
      /\ object' = [t \in Apps |-> compacted(object[t])]
      /\ collector_type_' = wanted
      /\ concurrent_start_bytes_' = IF wanted = "CMS" THEN "set" ELSE "max"
      /\ Goto(TrimDaemon, "grow", [frame[TrimDaemon] EXCEPT !.gc_type = kGcTypeFull,
                                                            !.ret = "trim_check"])
      /\ UNCHANGED <<collector_type_running_, last_gc_type_, next_gc_type_, requestVars,
                     operations, disable_moving_gc_count_>>

\* The rest of DoPendingTransitionOrTrim: Trim up to its wait, unless there is
\* nothing to trim or the last trim was less than kHeapTrimWait ago.
CheckTrim ==
  /\ pc[TrimDaemon] = "trim_check"
  /\ \/ /\ ~CareAboutPauseTimes /\ heap_trim_request_pending_
        /\ heap_trim_request_pending_' = FALSE
        /\ Goto(TrimDaemon, "trim", NoFrame)
     \/ /\ Goto(TrimDaemon, "idle", NoFrame)
        /\ UNCHANGED heap_trim_request_pending_
  /\ UNCHANGED <<gcVars, process_state_, desired_collector_type_, gc_requested,
                 trim_requested, operations, disable_moving_gc_count_,
                 concurrent_start_bytes_, object>>

Trim ==
  /\ pc[TrimDaemon] = "trim" /\ NoGcRuns(TrimDaemon)
  /\ collector_type_running_' = "HeapTrim"
  /\ Goto(TrimDaemon, "finish", NoFrame)
  /\ UNCHANGED <<collector_type_, last_gc_type_, next_gc_type_, requestVars, operations,
                 disable_moving_gc_count_, concurrent_start_bytes_, object>>

-----------------------------------------------------------------------------
Daemons ==
  \/ ConcurrentGC \/ ConcurrentWaited \/ ConcurrentCollected
  \/ DoPendingTransitionOrTrim \/ TransitionCollector \/ ChangeCollector
  \/ CheckTrim \/ Trim

Step(t) ==
  \/ SleepOnGcCompleteCond(t) \/ WaitForGcToComplete(t) \/ FinishGC(t)
  \/ CollectGarbageInternal(t) \/ Run(t) \/ GrowForUtilization(t)
  \/ PushOnAllocationStack(t) \/ AllocWaited(t) \/ AllocCollected(t) \/ AllocSoft(t)
  \/ NativeWaited(t)
  \/ IncrementDisableMovingGC(t) \/ MovingGcDisabled(t) \/ ReleasePrimitiveArray(t)
  \/ RequestCollectorTransition(t)

Request(t) ==
  \/ AllocObject(t) \/ CollectGarbage(t) \/ RegisterNativeAllocation(t)
  \/ GetPrimitiveArrayCritical(t)
  \/ \E state \in {"JankPerceptible", "JankImperceptible"} : UpdateProcessState(t, state)

Next == Daemons \/ \E t \in Threads : Step(t) \/ Request(t)

\* The scheduler runs every thread that can run; the program releases the
\* arrays it holds.  Nothing makes the program call.
Spec ==
  /\ Init /\ [][Next]_vars
  /\ WF_vars(Daemons /\ pc'[GcDaemon] # pc[GcDaemon])
  /\ WF_vars(Daemons /\ pc'[TrimDaemon] # pc[TrimDaemon])
  /\ \A t \in Threads : WF_vars(Step(t))

-----------------------------------------------------------------------------
(* Properties.                                                             *)

\* One collection, transition or trim at a time, as WaitForGcToCompleteLocked is
\* called for ("Ensure there is only one GC at a time"), and the heap knows it.
OneCollector ==
  LET collecting == {t \in Threads : pc[t] \in {"run", "compact", "grow", "finish"}}
  IN  /\ \A t, u \in collecting : t = u
      /\ collecting = {} <=> collector_type_running_ = "None"

\* While the program holds the address of a movable array, no collection that
\* moves objects runs: GetPrimitiveArrayCritical and ReleasePrimitiveArray.
CriticalArraysStayPut ==
  \A t \in Apps :
    (pc[t] = "critical" /\ IsMovableObject(object[t])) =>
      ~IsMovingGc(collector_type_running_)

\* No array lies in the space the last transition has emptied, whichever
\* allocation was under way meanwhile.  A transition between the two moving
\* collectors empties none.
NothingInRetiredSpace ==
  \A t \in Apps :
    /\ object[t] = "BumpPointer" => IsMovingGc(collector_type_)
    /\ object[t] = "RosAlloc" =>
         collector_type_ # "SS" \/ "GSS" \in {foreground_collector_type_, background_collector_type_}

\* Every call into the heap returns, whoever else collects.
EveryCallReturns == \A t \in Threads : pc[t] # "idle" ~> pc[t] = "idle"

\* The collector that UpdateProcessState asked for last is the one in use in the
\* end, however requests and transitions overlap.
DesiredCollectorInstalled == <>[](collector_type_ = desired_collector_type_)

=============================================================================
