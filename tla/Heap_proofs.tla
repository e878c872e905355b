----------------------------- MODULE Heap_proofs ----------------------------
(***************************************************************************)
(* OneCollector, CriticalArraysStayPut and NothingInRetiredSpace, for any  *)
(* finite number of threads, any two collectors and any number of calls.   *)
(*                                                                         *)
(* Most actions only move one thread between labels at which no collection *)
(* runs and no array is pinned, after at most one allocation.  They are    *)
(* steps of Quiet, and one lemma shows what all of them preserve.          *)
(***************************************************************************)
EXTENDS Heap, FiniteSetTheorems, TLAPS

GcTypes == {kGcTypeNone, kGcTypeSticky, kGcTypePartial, kGcTypeFull}
Spaces == {"RosAlloc", "BumpPointer", "NonMoving"}
Installed == {foreground_collector_type_, background_collector_type_}

\* Labels at which an allocation tries again, to which WaitForGcToComplete and
\* CollectGarbageInternal may return, and of threads that collect or pin an array.
AllocLabels == {"alloc_waited", "alloc_collected", "alloc_soft"}
ReturnLabels ==
  AllocLabels \cup {"idle", "push", "native_waited", "concurrent_waited",
                    "concurrent_collected", "trim_check"}
Collecting == {"run", "compact", "grow", "finish"}
Pinning == {"increment", "pin", "critical"}
QuietLabels ==
  ReturnLabels \cup {"await", "collect", "request_transition", "transition", "trim"}
Labels == QuietLabels \cup Collecting \cup Pinning

Frames ==
  [gc_type : GcTypes, ret : ReturnLabels, result : GcTypes,
   allocator : Spaces \cup {"none"}, default : BOOLEAN, tried : GcTypes,
   next : Nat \ {0}, end : 0 .. 3, wanted : Installed \cup {"none"}]

\* The locals of an allocation: unless it uses the default allocator, which
\* AllocatorChanged looks at again, it is one in the non-moving space.
AllocFrame(f) ==
  f.ret \in AllocLabels => f.allocator # "none" /\ (f.default \/ f.allocator = "NonMoving")

\* The locals f fit a thread at label l.
Fits(l, f) ==
  /\ AllocFrame(f)
  /\ l \in AllocLabels => f.ret \in AllocLabels
  /\ l \in {"transition", "compact"} => f.wanted # "none"

TypeOK ==
  /\ collector_type_ \in Installed /\ desired_collector_type_ \in Installed
  /\ last_gc_type_ \in GcTypes /\ next_gc_type_ \in GcTypes
  /\ disable_moving_gc_count_ \in Nat
  /\ object \in [Apps -> Spaces]
  /\ pc \in [Threads -> Labels]
  /\ frame \in [Threads -> Frames]
  /\ \A t \in Threads : Fits(pc[t], frame[t]) /\ (pc[t] \in Pinning => t \in Apps)

\* Every array that may not be moved is counted: the count is what stops the
\* next moving collection.
Pinned == {t \in Apps : pc[t] = "pin" \/ (pc[t] = "critical" /\ IsMovableObject(object[t]))}
Counted == Cardinality(Pinned) <= disable_moving_gc_count_

IInv == TypeOK /\ Counted /\ OneCollector /\ CriticalArraysStayPut /\ NothingInRetiredSpace
-----------------------------------------------------------------------------
(* Quiet steps.                                                            *)

\* Thread t goes to a quiet label, with locals that fit.
Moved(t) ==
  \E l \in QuietLabels, f \in Frames :
    /\ Fits(l, f)
    /\ pc' = [pc EXCEPT ![t] = l]
    /\ frame' = [frame EXCEPT ![t] = f]

\* An array may be allocated in space a with the collector in use.
Allowed(a) ==
  /\ a \in Spaces
  /\ a = "BumpPointer" => IsMovingGc(collector_type_)
  /\ a = "RosAlloc" => ~IsMovingGc(collector_type_)

Placed(t) ==
  \/ object' = object
  \/ \E a \in Spaces : Allowed(a) /\ object' = [object EXCEPT ![t] = a]

Quiet(t) ==
  /\ pc[t] \in QuietLabels
  /\ Moved(t) /\ Placed(t)
  /\ desired_collector_type_' \in Installed
  /\ UNCHANGED <<gcVars, disable_moving_gc_count_>>

\* The locals that a call starts with.
LEMMA NoFrameFits ==
  /\ NoFrame \in Frames /\ AllocFrame(NoFrame)
  /\ NoFrame.wanted = "none" /\ NoFrame.ret = "idle"
BY DEF NoFrame, Frames, GcTypes, Spaces, ReturnLabels, AllocLabels, AllocFrame

\* Goto to a quiet label with locals that fit.
LEMMA GotoMoves ==
  ASSUME NEW t \in Threads, NEW l \in QuietLabels, NEW f \in Frames, Fits(l, f), Goto(t, l, f)
  PROVE  Moved(t)
<1>1. Fits("idle", NoFrame)
  BY NoFrameFits DEF Fits, AllocLabels
<1> QED
  BY <1>1, NoFrameFits DEF Goto, Moved

\* A call of WaitForGcToComplete.
LEMMA AwaitMoves ==
  ASSUME NEW t \in Threads, NEW f \in Frames, NEW ret \in ReturnLabels,
         AllocFrame([f EXCEPT !.ret = ret]), Await(t, f, ret)
  PROVE  Moved(t)
<1> DEFINE g == [f EXCEPT !.ret = ret]
<1>1. g \in Frames
  BY DEF Frames
<1>2. Fits("await", g)
  BY DEF Fits, AllocLabels
<1>3. "await" \in QuietLabels
  BY DEF QuietLabels
<1> HIDE DEF g
<1> QED
  BY <1>1, <1>2, <1>3, GotoMoves DEF Await, g

\* A call of CollectGarbageInternal, which may return at once.
LEMMA CollectMoves ==
  ASSUME NEW t \in Threads, NEW f \in Frames, NEW type \in GcTypes, NEW ret \in ReturnLabels,
         AllocFrame(f), AllocFrame([f EXCEPT !.ret = ret]),
         ret \in AllocLabels => f.ret \in AllocLabels,
         Collect(t, f, type, ret)
  PROVE  Moved(t)
<1> DEFINE g == [f EXCEPT !.result = kGcTypeNone]
           h == [f EXCEPT !.gc_type = type, !.ret = ret]
<1>1. g \in Frames /\ h \in Frames
  BY DEF Frames, GcTypes
<1>2. Fits(ret, g) /\ Fits("collect", h)
  BY DEF Fits, AllocFrame, AllocLabels, ReturnLabels, Frames
<1>3. ret \in QuietLabels /\ "collect" \in QuietLabels
  BY DEF QuietLabels
<1>4. Goto(t, ret, g) \/ Goto(t, "collect", h)
  BY DEF Collect
<1> HIDE DEF g, h
<1> QED
  BY <1>1, <1>2, <1>3, <1>4, GotoMoves

\* The return of either.
LEMMA ReturnMoves ==
  ASSUME TypeOK, NEW t \in Threads, NEW result \in GcTypes, Return(t, result)
  PROVE  Moved(t)
<1> DEFINE f == [frame[t] EXCEPT !.result = result]
<1>1. frame[t] \in Frames /\ Fits(pc[t], frame[t])
  BY DEF TypeOK
<1>2. f \in Frames /\ f.ret = frame[t].ret /\ AllocFrame(f)
  BY <1>1 DEF Frames, Fits, AllocFrame
<1>3. frame[t].ret \in QuietLabels /\ Fits(frame[t].ret, f)
  BY <1>1, <1>2 DEF Frames, Fits, QuietLabels, ReturnLabels, AllocLabels
<1> HIDE DEF f
<1> QED
  BY <1>2, <1>3, GotoMoves DEF Return, f

\* Threads that allocate: the end of an allocation, and an attempt at one.
LEMMA AllocatedMoves ==
  ASSUME NEW t \in Threads, NEW a \in Spaces, Allowed(a), Allocated(t, a)
  PROVE  Moved(t) /\ Placed(t)
<1> DEFINE f == [NoFrame EXCEPT !.allocator = a]
<1>1. f \in Frames /\ AllocFrame(f) /\ AllocFrame([f EXCEPT !.ret = "push"])
  <2>1. f \in Frames /\ f.ret = "idle"
    BY NoFrameFits DEF Frames
  <2>2. [f EXCEPT !.ret = "push"].ret = "push"
    BY <2>1 DEF Frames
  <2> HIDE DEF f
  <2> QED
    BY <2>1, <2>2 DEF AllocFrame, AllocLabels
<1>2. Placed(t)
  BY DEF Allocated, Placed
<1>3. CASE CheckConcurrentGC(t, a)
  <2>1. Fits("idle", NoFrame) /\ "idle" \in QuietLabels
    BY NoFrameFits DEF Fits, AllocLabels, QuietLabels, ReturnLabels
  <2> QED
    BY <1>2, <1>3, <2>1, NoFrameFits, GotoMoves DEF CheckConcurrentGC
<1>4. CASE Collect(t, f, kGcTypeSticky, "push")
  <2>1. kGcTypeSticky \in GcTypes /\ "push" \in ReturnLabels /\ "push" \notin AllocLabels
    BY DEF GcTypes, ReturnLabels, AllocLabels
  <2> HIDE DEF f
  <2> QED
    BY <1>1, <1>2, <1>4, <2>1, CollectMoves
<1> QED
  BY <1>3, <1>4 DEF Allocated

\* The first attempt of an allocation, and one that starts again.
LEMMA FirstTryMoves ==
  ASSUME NEW t \in Threads, NEW a \in Spaces, a \in {CurrentAllocator, "NonMoving"},
         FirstTry(t, a)
  PROVE  Moved(t) /\ Placed(t)
<1> DEFINE f == [NoFrame EXCEPT !.allocator = a, !.default = (a = CurrentAllocator)]
<1>1. f \in Frames
  <2>1. (a = CurrentAllocator) \in BOOLEAN
    OBVIOUS
  <2> QED
    BY <2>1, NoFrameFits DEF Frames
<1>2. AllocFrame([f EXCEPT !.ret = "alloc_waited"])
  BY DEF NoFrame, AllocFrame, Spaces
<1>3. Allowed(a)
  BY DEF Allowed, CurrentAllocator, AllocatorOf
<1>4. CASE Allocated(t, a)
  BY <1>3, <1>4, AllocatedMoves
<1>5. CASE Await(t, f, "alloc_waited") /\ object' = object
  <2>1. "alloc_waited" \in ReturnLabels
    BY DEF ReturnLabels, AllocLabels
  <2> HIDE DEF f
  <2> QED
    BY <1>1, <1>2, <1>5, <2>1, AwaitMoves DEF Placed
<1> QED
  BY <1>4, <1>5 DEF FirstTry, TryToAllocate

LEMMA CurrentAllocatorSpace == CurrentAllocator \in Spaces
BY DEF CurrentAllocator, AllocatorOf, Spaces

\* An allocation that goes on uses a space it may use: AllocatorChanged.
LEMMA SameAllocator ==
  ASSUME TypeOK, NEW t \in Threads, pc[t] \in AllocLabels, ~AllocatorChanged(t)
  PROVE  frame[t].allocator \in Spaces /\ Allowed(frame[t].allocator)
<1>1. frame[t] \in Frames /\ AllocFrame(frame[t]) /\ frame[t].ret \in AllocLabels
  BY DEF TypeOK, Fits
<1>2. frame[t].allocator \in Spaces
  BY <1>1 DEF AllocFrame, Frames
<1>3. frame[t].allocator = CurrentAllocator \/ frame[t].allocator = "NonMoving"
  BY <1>1 DEF AllocFrame, AllocatorChanged
<1> QED
  BY <1>2, <1>3 DEF Allowed, CurrentAllocator, AllocatorOf

\* A loop over gc_plan_ reads inside its storage, also when the plan has been
\* replaced while the loop was suspended.
LEMMA PlanInBounds ==
  /\ GcPlanSize \in 1 .. 3
  /\ \A i \in 1 .. 3 : GcPlan(i) \in GcTypes
BY DEF GcPlanSize, GcPlan, GcTypes, kGcTypeNone, kGcTypeSticky, kGcTypePartial, kGcTypeFull
-----------------------------------------------------------------------------
(* The quiet actions.                                                      *)

\* What the actions of an allocation leave alone.
LEMMA AllocQuiet ==
  ASSUME TypeOK, NEW t \in Threads, pc[t] \in QuietLabels, Moved(t), Placed(t),
         UNCHANGED allocFrame
  PROVE  Quiet(t)
BY DEF Quiet, TypeOK, allocFrame, gcVars

\* CollectGarbageInternal for a thread that goes on allocating.
LEMMA AllocCollectMoves ==
  ASSUME TypeOK, NEW t \in Threads, pc[t] \in AllocLabels,
         NEW f \in Frames, AllocFrame(f), f.ret \in AllocLabels,
         NEW type \in GcTypes, NEW ret \in AllocLabels, Collect(t, f, type, ret)
  PROVE  Moved(t)
<1>1. ret \in ReturnLabels /\ AllocFrame([f EXCEPT !.ret = ret])
  BY DEF ReturnLabels, AllocFrame, Frames
<1> QED
  BY <1>1, CollectMoves

LEMMA AllocObjectQuiet ==
  ASSUME TypeOK, NEW t \in Threads, AllocObject(t)
  PROVE  Quiet(t)
<1>1. PICK a \in {CurrentAllocator, "NonMoving"} : FirstTry(t, a)
  BY DEF AllocObject
<1>2. a \in Spaces
  BY CurrentAllocatorSpace DEF Spaces
<1>3. pc[t] \in QuietLabels /\ UNCHANGED allocFrame
  BY DEF AllocObject, Operate, QuietLabels, ReturnLabels
<1> QED
  BY <1>1, <1>2, <1>3, FirstTryMoves, AllocQuiet

LEMMA PushOnAllocationStackQuiet ==
  ASSUME TypeOK, NEW t \in Threads, PushOnAllocationStack(t)
  PROVE  Quiet(t)
<1>1. pc[t] \in QuietLabels /\ UNCHANGED allocFrame /\ Placed(t)
  BY DEF PushOnAllocationStack, QuietLabels, ReturnLabels, Placed
<1>2. CASE CheckConcurrentGC(t, frame[t].allocator)
  <2>1. Fits("idle", NoFrame) /\ "idle" \in QuietLabels
    BY NoFrameFits DEF Fits, AllocLabels, QuietLabels, ReturnLabels
  <2> QED
    BY <1>1, <1>2, <2>1, NoFrameFits, GotoMoves, AllocQuiet DEF CheckConcurrentGC
<1>3. CASE Collect(t, frame[t], kGcTypeSticky, "push")
  <2>1. kGcTypeSticky \in GcTypes /\ "push" \in ReturnLabels /\ "push" \notin AllocLabels
    BY DEF GcTypes, ReturnLabels, AllocLabels
  <2>2. frame[t] \in Frames /\ AllocFrame(frame[t])
    BY DEF TypeOK, Fits
  <2>3. AllocFrame([frame[t] EXCEPT !.ret = "push"])
    BY <2>1, <2>2 DEF AllocFrame, Frames
  <2> QED
    BY <1>1, <1>3, <2>1, <2>2, <2>3, CollectMoves, AllocQuiet
<1> QED
  BY <1>2, <1>3 DEF PushOnAllocationStack

LEMMA AllocWaitedQuiet ==
  ASSUME TypeOK, NEW t \in Threads, AllocWaited(t)
  PROVE  Quiet(t)
<1> DEFINE f == [frame[t] EXCEPT !.tried = next_gc_type_]
           collect == Collect(t, f, next_gc_type_, "alloc_collected")
<1>1. /\ pc[t] \in AllocLabels /\ pc[t] \in QuietLabels
      /\ UNCHANGED allocFrame
  BY DEF AllocWaited, QuietLabels, ReturnLabels, AllocLabels
<1>2. frame[t] \in Frames /\ AllocFrame(frame[t]) /\ frame[t].ret \in AllocLabels
  BY <1>1 DEF TypeOK, Fits
<1>3. f \in Frames /\ AllocFrame(f) /\ f.ret \in AllocLabels
  BY <1>2 DEF TypeOK, Frames, AllocFrame
<1>4. ASSUME collect PROVE Moved(t)
  <2>1. next_gc_type_ \in GcTypes /\ "alloc_collected" \in AllocLabels
    BY DEF TypeOK, AllocLabels
  <2> HIDE DEF f
  <2> QED
    BY <1>1, <1>3, <1>4, <2>1, AllocCollectMoves
<1>5. CASE collect /\ object' = object
  BY <1>1, <1>4, <1>5, AllocQuiet DEF Placed
<1>6. CASE Restart(t)
  BY <1>1, <1>6, CurrentAllocatorSpace, FirstTryMoves, AllocQuiet DEF Restart
<1>7. CASE ~AllocatorChanged(t) /\ Allocated(t, frame[t].allocator)
  BY <1>1, <1>7, SameAllocator, AllocatedMoves, AllocQuiet
<1> QED
  BY <1>5, <1>6, <1>7 DEF AllocWaited, TryToAllocate

\* The loops over gc_plan_ take the first index that is left.
LEMMA FirstIndex ==
  ASSUME NEW S \in SUBSET (1 .. 3), S # {}
  PROVE  Min(S) \in S
<1>1. \E j \in S : \A k \in S : j <= k
  <2>1. CASE 1 \in S
    BY <2>1
  <2>2. CASE 1 \notin S /\ 2 \in S
    BY <2>2
  <2>3. CASE 1 \notin S /\ 2 \notin S /\ 3 \in S
    BY <2>3
  <2>4. \E j \in 1 .. 3 : j \in S
    OBVIOUS
  <2> QED
    BY <2>1, <2>2, <2>3, <2>4
<1> QED
  BY <1>1 DEF Min

\* The next turn of such a loop, with the locals that it leaves.
LEMMA NextIndex ==
  ASSUME NEW f \in Frames, NEW S, S \subseteq f.next .. PlanEnd(f), S # {}
  PROVE  /\ GcPlan(Min(S)) \in GcTypes
         /\ Advance(f, Min(S)) \in Frames
         /\ Advance(f, Min(S)).ret = f.ret
         /\ AllocFrame(f) => AllocFrame(Advance(f, Min(S)))
<1> DEFINE end == PlanEnd(f)
           i == Min(S)
<1>1. end \in 1 .. 3
  BY PlanInBounds DEF Frames, PlanEnd
<1>2. S \in SUBSET (1 .. 3)
  BY <1>1 DEF Frames
<1>3. i \in 1 .. 3
  BY <1>2, FirstIndex
<1>4. Advance(f, i) \in Frames
  <2>1. i + 1 \in Nat \ {0} /\ end \in 0 .. 3
    BY <1>1, <1>3
  <2>2. ASSUME NEW n \in Nat \ {0}, NEW e \in 0 .. 3
        PROVE  [f EXCEPT !.next = n, !.end = e] \in Frames
    BY DEF Frames
  <2> HIDE DEF i
  <2> QED
    BY <2>1, <2>2 DEF Advance
<1> QED
  BY <1>3, <1>4, PlanInBounds DEF AllocFrame, Frames, Advance

LEMMA AllocCollectedQuiet ==
  ASSUME TypeOK, NEW t \in Threads, AllocCollected(t)
  PROVE  Quiet(t)
<1> DEFINE f == frame[t]
           left == {i \in f.next .. PlanEnd(f) : GcPlan(i) # f.tried}
           i == Min(left)
           g == Advance(f, i)
<1>1. /\ pc[t] \in AllocLabels /\ pc[t] \in QuietLabels
      /\ UNCHANGED allocFrame
  BY DEF AllocCollected, QuietLabels, ReturnLabels, AllocLabels
<1>2. f \in Frames /\ AllocFrame(f) /\ f.ret \in AllocLabels
  BY <1>1 DEF TypeOK, Fits
<1>3. "alloc_collected" \in AllocLabels /\ "alloc_soft" \in AllocLabels
  BY DEF AllocLabels
<1>4. CASE Restart(t)
  BY <1>1, <1>4, CurrentAllocatorSpace, FirstTryMoves, AllocQuiet DEF Restart
<1>5. CASE ~AllocatorChanged(t) /\ Allocated(t, f.allocator)
  BY <1>1, <1>5, SameAllocator, AllocatedMoves, AllocQuiet
<1>6. CASE left # {} /\ Collect(t, g, GcPlan(i), "alloc_collected") /\ object' = object
  <2>1. GcPlan(i) \in GcTypes /\ g \in Frames /\ g.ret = f.ret /\ AllocFrame(g)
    <3>1. left \subseteq f.next .. PlanEnd(f)
      OBVIOUS
    <3> HIDE DEF f, left
    <3> QED
      BY <1>2, <1>6, <3>1, NextIndex
  <2> HIDE DEF g, i
  <2> QED
    BY <1>1, <1>2, <1>3, <1>6, <2>1, AllocCollectMoves, AllocQuiet DEF Placed
<1>7. CASE Collect(t, f, GcPlan(GcPlanSize), "alloc_soft") /\ object' = object
  <2>1. GcPlan(GcPlanSize) \in GcTypes
    BY PlanInBounds
  <2> QED
    BY <1>1, <1>2, <1>3, <1>7, <2>1, AllocCollectMoves, AllocQuiet DEF Placed
<1> QED
  BY <1>4, <1>5, <1>6, <1>7 DEF AllocCollected, AllocNext, TryToAllocate

LEMMA AllocSoftQuiet ==
  ASSUME TypeOK, NEW t \in Threads, AllocSoft(t)
  PROVE  Quiet(t)
<1>1. /\ pc[t] \in AllocLabels /\ pc[t] \in QuietLabels
      /\ UNCHANGED allocFrame
  BY DEF AllocSoft, QuietLabels, ReturnLabels, AllocLabels
<1>2. CASE Restart(t)
  BY <1>1, <1>2, CurrentAllocatorSpace, FirstTryMoves, AllocQuiet DEF Restart
<1>3. CASE ~AllocatorChanged(t) /\ Allocated(t, frame[t].allocator)
  BY <1>1, <1>3, SameAllocator, AllocatedMoves, AllocQuiet
<1>4. CASE ThrowOutOfMemoryError(t)
  <2>1. Fits("idle", NoFrame) /\ "idle" \in QuietLabels
    BY NoFrameFits DEF Fits, AllocLabels, QuietLabels, ReturnLabels
  <2> QED
    BY <1>1, <1>4, <2>1, NoFrameFits, GotoMoves, AllocQuiet DEF ThrowOutOfMemoryError, Placed
<1> QED
  BY <1>2, <1>3, <1>4 DEF AllocSoft

LEMMA CollectGarbageQuiet ==
  ASSUME TypeOK, NEW t \in Threads, CollectGarbage(t)
  PROVE  Quiet(t)
<1>1. pc[t] \in QuietLabels /\ Placed(t)
  BY DEF CollectGarbage, Operate, QuietLabels, ReturnLabels, Placed
<1>2. /\ GcPlan(GcPlanSize) \in GcTypes
      /\ "idle" \in ReturnLabels /\ "idle" \notin AllocLabels
      /\ AllocFrame([NoFrame EXCEPT !.ret = "idle"])
  BY PlanInBounds DEF ReturnLabels, AllocLabels, AllocFrame, NoFrame
<1>3. Moved(t)
  BY <1>2, NoFrameFits, CollectMoves DEF CollectGarbage
<1> QED
  BY <1>1, <1>3 DEF CollectGarbage, Quiet, TypeOK, requestVars, gcVars

\* RegisterNativeAllocation and its second half.
LEMMA NativeQuiet ==
  ASSUME TypeOK, NEW t \in Threads, RegisterNativeAllocation(t) \/ NativeWaited(t)
  PROVE  Quiet(t)
<1>1. pc[t] \in QuietLabels /\ Placed(t)
  BY DEF RegisterNativeAllocation, NativeWaited, Operate, QuietLabels, ReturnLabels, Placed
<1>2. /\ NativeGcType \in GcTypes
      /\ {"idle", "native_waited"} \subseteq ReturnLabels
      /\ "idle" \notin AllocLabels /\ "idle" \in QuietLabels
      /\ AllocFrame([NoFrame EXCEPT !.ret = "idle"])
      /\ AllocFrame([NoFrame EXCEPT !.ret = "native_waited"])
      /\ Fits("idle", NoFrame)
  BY NoFrameFits DEF NativeGcType, GcTypes, QuietLabels, ReturnLabels, AllocLabels, AllocFrame,
                     NoFrame, Fits
<1>3. \/ Await(t, NoFrame, "native_waited")
      \/ Goto(t, "idle", NoFrame)
      \/ Collect(t, NoFrame, NativeGcType, "idle")
  BY DEF RegisterNativeAllocation, NativeWaited
<1>4. Moved(t)
  BY <1>2, <1>3, NoFrameFits, AwaitMoves, GotoMoves, CollectMoves
<1> QED
  BY <1>1, <1>4 DEF RegisterNativeAllocation, NativeWaited, Quiet, TypeOK, requestVars, gcVars,
                    allocFrame

\* UpdateProcessState and RequestCollectorTransition.
LEMMA ProcessStateQuiet ==
  ASSUME TypeOK, NEW t \in Threads,
         \/ \E state \in {"JankPerceptible", "JankImperceptible"} : UpdateProcessState(t, state)
         \/ RequestCollectorTransition(t)
  PROVE  Quiet(t)
<1>1. pc[t] \in QuietLabels /\ Placed(t) /\ desired_collector_type_' \in Installed
  BY DEF UpdateProcessState, RequestCollectorTransition, Operate, QuietLabels, ReturnLabels,
         Placed, Installed, TypeOK
<1>2. \A l \in {"request_transition", "idle"} : l \in QuietLabels /\ Fits(l, NoFrame)
  BY NoFrameFits DEF QuietLabels, ReturnLabels, AllocLabels, Fits
<1>3. Goto(t, "request_transition", NoFrame) \/ Goto(t, "idle", NoFrame)
  BY DEF UpdateProcessState, RequestCollectorTransition
<1>4. Moved(t)
  BY <1>2, <1>3, NoFrameFits, GotoMoves
<1> QED
  BY <1>1, <1>4 DEF UpdateProcessState, RequestCollectorTransition, Quiet, gcVars

LEMMA WaitForGcToCompleteQuiet ==
  ASSUME TypeOK, NEW t \in Threads, WaitForGcToComplete(t)
  PROVE  Quiet(t)
<1>1. pc[t] \in QuietLabels /\ Placed(t)
  BY DEF WaitForGcToComplete, QuietLabels, Placed
<1>2. PICK result \in GcTypes : Return(t, result)
  BY DEF WaitForGcToComplete, TypeOK, GcTypes
<1>3. Moved(t)
  BY <1>2, ReturnMoves DEF Return
<1> QED
  BY <1>1, <1>3 DEF WaitForGcToComplete, Quiet, TypeOK, requestVars, gcVars

LEMMA DaemonThreads == GcDaemon \in Threads /\ TrimDaemon \in Threads
BY DEF Threads

\* ConcurrentGC, all of it.
LEMMA ConcurrentQuiet ==
  ASSUME TypeOK, ConcurrentGC \/ ConcurrentWaited \/ ConcurrentCollected
  PROVE  Quiet(GcDaemon)
<1> DEFINE t == GcDaemon
           f == frame[t]
           left == {i \in f.next .. PlanEnd(f) : GcPlan(i) > next_gc_type_}
<1>1. t \in Threads
  BY DaemonThreads
<1>2. pc[t] \in QuietLabels /\ Placed(t)
  BY DEF ConcurrentGC, ConcurrentWaited, ConcurrentCollected, QuietLabels, ReturnLabels, Placed
<1>3. UNCHANGED <<gcVars, desired_collector_type_, disable_moving_gc_count_>>
  BY DEF ConcurrentGC, ConcurrentWaited, ConcurrentCollected, allocFrame, requestVars
<1>4. /\ {"concurrent_waited", "concurrent_collected"} \subseteq ReturnLabels
      /\ "concurrent_collected" \notin AllocLabels
      /\ AllocFrame([NoFrame EXCEPT !.ret = "concurrent_waited"])
      /\ AllocFrame([NoFrame EXCEPT !.ret = "concurrent_collected"])
      /\ Fits("idle", NoFrame) /\ "idle" \in QuietLabels
  BY NoFrameFits DEF QuietLabels, ReturnLabels, AllocLabels, AllocFrame, NoFrame, Fits
<1> SUFFICES Moved(t)
  BY <1>2, <1>3 DEF Quiet, TypeOK
<1>5. CASE Await(t, NoFrame, "concurrent_waited")
  BY <1>1, <1>4, <1>5, NoFrameFits, AwaitMoves
<1>6. CASE Goto(t, "idle", NoFrame)
  BY <1>1, <1>4, <1>6, NoFrameFits, GotoMoves
<1>7. CASE Collect(t, NoFrame, next_gc_type_, "concurrent_collected")
  BY <1>1, <1>4, <1>7, NoFrameFits, CollectMoves DEF TypeOK
<1>8. CASE /\ left # {}
           /\ Collect(t, Advance(f, Min(left)), GcPlan(Min(left)), "concurrent_collected")
  <2> DEFINE g == Advance(f, Min(left))
             type == GcPlan(Min(left))
  <2>1. f \in Frames /\ AllocFrame(f)
    BY <1>1 DEF TypeOK, Fits
  <2>2. left \subseteq f.next .. PlanEnd(f)
    OBVIOUS
  <2>3. type \in GcTypes /\ g \in Frames /\ AllocFrame(g)
    <3> HIDE DEF f, left
    <3> QED
      BY <1>8, <2>1, <2>2, NextIndex
  <2>4. AllocFrame([g EXCEPT !.ret = "concurrent_collected"])
    <3> HIDE DEF g
    <3> QED
      BY <1>4, <2>3 DEF AllocFrame, Frames
  <2>5. Collect(t, g, type, "concurrent_collected")
    BY <1>8
  <2> HIDE DEF g, type
  <2> QED
    BY <1>1, <1>4, <2>3, <2>4, <2>5, CollectMoves
<1> QED
  BY <1>5, <1>6, <1>7, <1>8 DEF ConcurrentGC, ConcurrentWaited, ConcurrentCollected

\* DoPendingTransitionOrTrim up to TransitionCollector, and up to Trim.
LEMMA TrimQuiet ==
  ASSUME TypeOK, DoPendingTransitionOrTrim \/ CheckTrim
  PROVE  Quiet(TrimDaemon)
<1> DEFINE t == TrimDaemon
           f == [NoFrame EXCEPT !.wanted = desired_collector_type_]
<1>1. t \in Threads
  BY DaemonThreads
<1>2. pc[t] \in QuietLabels /\ Placed(t)
  BY DEF DoPendingTransitionOrTrim, CheckTrim, QuietLabels, ReturnLabels, Placed
<1>3. UNCHANGED <<gcVars, desired_collector_type_, disable_moving_gc_count_>>
  BY DEF DoPendingTransitionOrTrim, CheckTrim
<1>4. f \in Frames /\ f.ret = "idle" /\ f.wanted \in Installed
  BY NoFrameFits DEF Frames, TypeOK
<1>5. "none" \notin Installed
  BY HeapAssumption DEF Installed, CollectorTypes
<1>6. \A l \in {"trim_check", "transition"} : l \in QuietLabels /\ Fits(l, f)
  <2> HIDE DEF f
  <2> QED
    BY <1>4, <1>5 DEF QuietLabels, ReturnLabels, AllocLabels, Fits, AllocFrame
<1>7. \A l \in {"trim", "idle"} : l \in QuietLabels /\ Fits(l, NoFrame)
  BY NoFrameFits DEF QuietLabels, ReturnLabels, AllocLabels, Fits
<1> SUFFICES Moved(t)
  BY <1>2, <1>3 DEF Quiet, TypeOK
<1>8. CASE Goto(t, "trim_check", f) \/ Goto(t, "transition", f)
  <2> HIDE DEF f
  <2> QED
    BY <1>1, <1>4, <1>6, <1>8, GotoMoves
<1>9. CASE Goto(t, "trim", NoFrame) \/ Goto(t, "idle", NoFrame)
  BY <1>1, <1>7, <1>9, NoFrameFits, GotoMoves
<1> QED
  BY <1>8, <1>9 DEF DoPendingTransitionOrTrim, CheckTrim
-----------------------------------------------------------------------------
(* What the steps preserve.                                                *)

LEMMA LabelsApart ==
  /\ QuietLabels \cap Collecting = {} /\ QuietLabels \cap Pinning = {}
  /\ Collecting \cap Pinning = {}
BY DEF QuietLabels, ReturnLabels, AllocLabels, Collecting, Pinning

LEMMA PinnedFinite == IsFiniteSet(Pinned) /\ Cardinality(Pinned) \in Nat
<1>1. IsFiniteSet(Pinned)
  BY HeapAssumption, FS_Subset DEF Pinned
<1> QED
  BY <1>1, FS_CardinalityType

\* No array is pinned that was not, and the count does not change.
LEMMA CountedStays ==
  ASSUME Counted, Pinned' \subseteq Pinned, disable_moving_gc_count_ \in Nat,
         UNCHANGED disable_moving_gc_count_
  PROVE  Counted'
<1>1. Cardinality(Pinned') <= Cardinality(Pinned) /\ Cardinality(Pinned') \in Nat
  BY PinnedFinite, FS_Subset, FS_CardinalityType
<1> QED
  BY <1>1, PinnedFinite DEF Counted

\* OneCollector, when thread t stays among the threads that collect, or among
\* the others.
LEMMA OneCollectorStays ==
  ASSUME OneCollector, pc \in [Threads -> Labels], NEW t \in Threads, NEW l,
         pc' = [pc EXCEPT ![t] = l], pc[t] \in Collecting <=> l \in Collecting,
         UNCHANGED collector_type_running_
  PROVE  OneCollector'
<1>1. {u \in Threads : pc'[u] \in Collecting} = {u \in Threads : pc[u] \in Collecting}
  OBVIOUS
<1> QED
  BY <1>1 DEF OneCollector, Collecting

\* OneCollector, when a thread that found no collection running begins one.
LEMMA OneCollectorBegins ==
  ASSUME OneCollector, pc \in [Threads -> Labels], NEW t \in Threads, NEW l \in Collecting,
         pc' = [pc EXCEPT ![t] = l],
         collector_type_running_ = "None", collector_type_running_' # "None"
  PROVE  OneCollector'
<1>1. {u \in Threads : pc[u] \in Collecting} = {}
  BY DEF OneCollector, Collecting
<1>2. {u \in Threads : pc'[u] \in Collecting} = {t}
  BY <1>1
<1> QED
  BY <1>2 DEF OneCollector, Collecting

LEMMA QuietPreserves ==
  ASSUME IInv, NEW t \in Threads, Quiet(t)
  PROVE  IInv'
<1>1. TypeOK /\ Counted /\ OneCollector /\ CriticalArraysStayPut /\ NothingInRetiredSpace
  BY DEF IInv
<1>2. PICK l \in QuietLabels, f \in Frames :
        /\ Fits(l, f)
        /\ pc' = [pc EXCEPT ![t] = l]
        /\ frame' = [frame EXCEPT ![t] = f]
  BY DEF Quiet, Moved
<1>3. pc \in [Threads -> Labels] /\ frame \in [Threads -> Frames] /\ object \in [Apps -> Spaces]
  BY <1>1 DEF TypeOK
<1>4. l \notin Collecting \cup Pinning /\ pc[t] \notin Collecting \cup Pinning
  BY LabelsApart DEF Quiet
<1>5. \A u \in Apps : u # t => object'[u] = object[u]
  BY <1>3 DEF Quiet, Placed
<1>6. /\ object' \in [Apps -> Spaces]
      /\ \A u \in Apps : object'[u] = object[u] \/ Allowed(object'[u])
  BY <1>3 DEF Quiet, Placed
<1>7. UNCHANGED <<collector_type_, collector_type_running_, disable_moving_gc_count_,
                  last_gc_type_, next_gc_type_>>
  BY DEF Quiet, gcVars
<1>8. TypeOK'
  <2>1. pc' \in [Threads -> Labels] /\ frame' \in [Threads -> Frames]
    BY <1>2, <1>3 DEF Labels
  <2>2. \A u \in Threads : Fits(pc'[u], frame'[u]) /\ (pc'[u] \in Pinning => u \in Apps)
    BY <1>1, <1>2, <1>3, <1>4 DEF TypeOK
  <2> QED
    BY <1>1, <1>6, <1>7, <2>1, <2>2 DEF TypeOK, Fits, AllocFrame, Quiet
<1>9. Pinned' \subseteq Pinned
  <2>1. pc'[t] # "pin" /\ pc'[t] # "critical"
    BY <1>2, <1>3, <1>4 DEF Pinning
  <2> QED
    BY <1>2, <1>3, <1>5, <2>1 DEF Pinned, IsMovableObject, MainSpaceCanMoveObjects
<1>10. Counted'
  BY <1>1, <1>7, <1>9, CountedStays DEF TypeOK
<1>11. OneCollector'
  BY <1>1, <1>2, <1>3, <1>4, <1>7, OneCollectorStays
<1>12. CriticalArraysStayPut'
  <2>1. pc'[t] # "critical"
    BY <1>2, <1>3, <1>4 DEF Pinning
  <2> QED
    BY <1>1, <1>2, <1>3, <1>5, <1>7, <2>1
    DEF CriticalArraysStayPut, IsMovableObject, MainSpaceCanMoveObjects, IsMovingGc
<1>13. NothingInRetiredSpace'
  BY <1>1, <1>6, <1>7 DEF NothingInRetiredSpace, Allowed, IsMovingGc
<1> QED
  BY <1>8, <1>10, <1>11, <1>12, <1>13 DEF IInv

\* TypeOK, when thread t goes to label l with locals f.
LEMMA TypeStays ==
  ASSUME TypeOK, NEW t \in Threads, NEW l \in Labels, NEW f \in Frames, Fits(l, f),
         l \in Pinning => t \in Apps,
         pc' = [pc EXCEPT ![t] = l], frame' = [frame EXCEPT ![t] = f],
         collector_type_' \in Installed, desired_collector_type_' \in Installed,
         last_gc_type_' \in GcTypes, next_gc_type_' \in GcTypes,
         disable_moving_gc_count_' \in Nat, object' \in [Apps -> Spaces]
  PROVE  TypeOK'
<1>1. pc' \in [Threads -> Labels] /\ frame' \in [Threads -> Frames]
  BY DEF TypeOK
<1>2. \A u \in Threads : Fits(pc'[u], frame'[u]) /\ (pc'[u] \in Pinning => u \in Apps)
  BY DEF TypeOK
<1> QED
  BY <1>1, <1>2 DEF TypeOK, Fits, AllocFrame

\* A thread that falls asleep, and a step of nobody.
LEMMA SleepPreserves ==
  ASSUME IInv,
         UNCHANGED <<gcVars, desired_collector_type_, pc, frame, disable_moving_gc_count_, object>>
  PROVE  IInv'
BY DEF IInv, TypeOK, Counted, Pinned, OneCollector, CriticalArraysStayPut,
       NothingInRetiredSpace, gcVars, Fits, AllocFrame, IsMovableObject,
       MainSpaceCanMoveObjects, IsMovingGc

\* A thread that begins or goes on collecting changes neither pins nor arrays.
LEMMA CollectingKeepsPins ==
  ASSUME TypeOK, NEW t \in Threads, NEW l \in Labels \ Pinning,
         pc' = [pc EXCEPT ![t] = l],
         \A u \in Apps : IsMovableObject(object'[u]) => IsMovableObject(object[u])
  PROVE  Pinned' \subseteq Pinned
<1>1. pc \in [Threads -> Labels]
  BY DEF TypeOK
<1>2. \A u \in Apps : u \in Threads
  BY DEF Threads
<1>3. \A u \in Apps : pc'[u] \in Pinning => pc'[u] = pc[u]
  BY <1>1, <1>2
<1> QED
  BY <1>3 DEF Pinned, Pinning, IsMovableObject, MainSpaceCanMoveObjects

\* A moving collection begins only when no array is pinned.
LEMMA NothingPinned ==
  ASSUME Counted, disable_moving_gc_count_ = 0
  PROVE  Pinned = {}
BY PinnedFinite, FS_EmptySet DEF Counted

\* Thread t begins to collect: CollectGarbageInternal, TransitionCollector, Trim.
LEMMA BeginPreserves ==
  ASSUME IInv, NEW t \in Threads, NEW l \in Collecting, NEW f \in Frames, Fits(l, f),
         pc' = [pc EXCEPT ![t] = l], frame' = [frame EXCEPT ![t] = f],
         collector_type_running_ = "None", collector_type_running_' # "None",
         IsMovingGc(collector_type_running_') => disable_moving_gc_count_ = 0,
         UNCHANGED <<collector_type_, desired_collector_type_, last_gc_type_, next_gc_type_,
                     disable_moving_gc_count_, object>>
  PROVE  IInv'
<1>1. TypeOK /\ Counted /\ OneCollector /\ CriticalArraysStayPut /\ NothingInRetiredSpace
  BY DEF IInv
<1>2. l \in Labels \ Pinning
  BY LabelsApart DEF Labels
<1>3. TypeOK'
  <2>1. /\ collector_type_' \in Installed /\ desired_collector_type_' \in Installed
        /\ last_gc_type_' \in GcTypes /\ next_gc_type_' \in GcTypes
        /\ disable_moving_gc_count_' \in Nat /\ object' \in [Apps -> Spaces]
    BY <1>1 DEF TypeOK
  <2> QED
    BY <1>1, <1>2, <2>1, TypeStays
<1>4. OneCollector'
  BY <1>1, OneCollectorBegins DEF TypeOK
<1>5. Pinned' \subseteq Pinned
  BY <1>1, <1>2, CollectingKeepsPins
<1>6. Counted'
  BY <1>1, <1>5, CountedStays DEF TypeOK
<1>7. CriticalArraysStayPut'
  <2>1. IsMovingGc(collector_type_running_') => Pinned' = {}
    BY <1>1, <1>5, NothingPinned
  <2> QED
    BY <2>1 DEF CriticalArraysStayPut, Pinned, IsMovingGc, IsMovableObject,
                MainSpaceCanMoveObjects
<1>8. NothingInRetiredSpace'
  BY <1>1 DEF NothingInRetiredSpace, IsMovingGc
<1> QED
  BY <1>3, <1>4, <1>6, <1>7, <1>8 DEF IInv

LEMMA CollectGarbageInternalPreserves ==
  ASSUME IInv, NEW t \in Threads, CollectGarbageInternal(t)
  PROVE  IInv'
<1>1. TypeOK
  BY DEF IInv
<1>2. CASE Return(t, kGcTypeNone) /\ UNCHANGED collector_type_running_
  <2>1. pc[t] \in QuietLabels /\ Placed(t)
    BY DEF CollectGarbageInternal, QuietLabels, Placed
  <2>2. Moved(t)
    BY <1>1, <1>2, ReturnMoves DEF GcTypes
  <2>3. Quiet(t)
    BY <1>1, <1>2, <2>1, <2>2 DEF CollectGarbageInternal, Quiet, TypeOK, requestVars, gcVars
  <2> QED
    BY <2>3, QuietPreserves
<1>3. CASE /\ ~(IsMovingGc(collector_type_) /\ disable_moving_gc_count_ # 0)
           /\ collector_type_running_' = collector_type_ /\ Goto(t, "run", frame[t])
  <2>1. frame[t] \in Frames /\ Fits("run", frame[t])
    BY <1>1 DEF TypeOK, Fits, AllocLabels
  <2>2. "run" \in Collecting
    BY DEF Collecting
  <2>3. pc' = [pc EXCEPT ![t] = "run"] /\ frame' = [frame EXCEPT ![t] = frame[t]]
    BY <1>3 DEF Goto
  <2>4. collector_type_running_ = "None" /\ collector_type_running_' # "None"
    BY <1>1, <1>3, HeapAssumption
    DEF CollectGarbageInternal, NoGcRuns, TypeOK, Installed, CollectorTypes
  <2>5. IsMovingGc(collector_type_running_') => disable_moving_gc_count_ = 0
    BY <1>3
  <2>6. UNCHANGED <<collector_type_, desired_collector_type_, last_gc_type_, next_gc_type_,
                    disable_moving_gc_count_, object>>
    BY DEF CollectGarbageInternal, requestVars
  <2> QED
    BY <2>1, <2>2, <2>3, <2>4, <2>5, <2>6, BeginPreserves
<1> QED
  BY <1>2, <1>3 DEF CollectGarbageInternal

LEMMA TransitionCollectorPreserves ==
  ASSUME IInv, TransitionCollector
  PROVE  IInv'
<1> DEFINE t == TrimDaemon
<1>1. TypeOK /\ t \in Threads
  BY DaemonThreads DEF IInv
<1>2. frame[t] \in Frames /\ frame[t].wanted \in Installed
  BY <1>1 DEF TransitionCollector, TypeOK, Fits, Frames
<1>3. Fits("compact", frame[t]) /\ "compact" \in Collecting
  BY <1>1 DEF TransitionCollector, TypeOK, Fits, AllocLabels, Collecting
<1>4. pc' = [pc EXCEPT ![t] = "compact"] /\ frame' = [frame EXCEPT ![t] = frame[t]]
  BY DEF TransitionCollector, Goto
<1>5. collector_type_running_ = "None" /\ collector_type_running_' # "None"
  BY <1>2, HeapAssumption DEF TransitionCollector, NoGcRuns, Installed, CollectorTypes
<1>6. IsMovingGc(collector_type_running_') => disable_moving_gc_count_ = 0
  BY <1>2 DEF TransitionCollector, CopyingTransition, IsMovingGc, Installed
<1>7. UNCHANGED <<collector_type_, desired_collector_type_, last_gc_type_, next_gc_type_,
                  disable_moving_gc_count_, object>>
  BY DEF TransitionCollector, requestVars
<1> QED
  BY <1>1, <1>2, <1>3, <1>4, <1>5, <1>6, <1>7, BeginPreserves

LEMMA TrimPreserves ==
  ASSUME IInv, Trim
  PROVE  IInv'
<1> DEFINE t == TrimDaemon
<1>1. t \in Threads
  BY DaemonThreads
<1>2. Fits("finish", NoFrame) /\ "finish" \in Collecting
  BY NoFrameFits DEF Fits, AllocLabels, Collecting
<1>3. pc' = [pc EXCEPT ![t] = "finish"] /\ frame' = [frame EXCEPT ![t] = NoFrame]
  BY DEF Trim, Goto
<1>4. /\ collector_type_running_ = "None" /\ collector_type_running_' # "None"
      /\ ~IsMovingGc(collector_type_running_')
  BY DEF Trim, NoGcRuns, IsMovingGc
<1>5. UNCHANGED <<collector_type_, desired_collector_type_, last_gc_type_, next_gc_type_,
                  disable_moving_gc_count_, object>>
  BY DEF Trim, requestVars
<1> QED
  BY <1>1, <1>2, <1>3, <1>4, <1>5, NoFrameFits, BeginPreserves

\* Thread t goes on collecting: Run, GrowForUtilization and ChangeCollector.
LEMMA GoOnPreserves ==
  ASSUME IInv, NEW t \in Threads, pc[t] \in Collecting,
         NEW l \in Collecting, NEW f \in Frames, Fits(l, f),
         pc' = [pc EXCEPT ![t] = l], frame' = [frame EXCEPT ![t] = f],
         collector_type_' \in Installed, next_gc_type_' \in GcTypes,
         object' \in [Apps -> Spaces],
         \A u \in Apps : IsMovableObject(object'[u]) => IsMovableObject(object[u]),
         NothingInRetiredSpace',
         UNCHANGED <<collector_type_running_, desired_collector_type_, last_gc_type_,
                     disable_moving_gc_count_>>
  PROVE  IInv'
<1>1. TypeOK /\ Counted /\ OneCollector /\ CriticalArraysStayPut
  BY DEF IInv
<1>2. l \in Labels \ Pinning
  BY LabelsApart DEF Labels
<1>3. TypeOK'
  <2>1. /\ desired_collector_type_' \in Installed /\ last_gc_type_' \in GcTypes
        /\ disable_moving_gc_count_' \in Nat
    BY <1>1 DEF TypeOK
  <2> QED
    BY <1>1, <1>2, <2>1, TypeStays
<1>4. OneCollector'
  BY <1>1, OneCollectorStays DEF TypeOK
<1>5. Pinned' \subseteq Pinned
  BY <1>1, <1>2, CollectingKeepsPins
<1>6. Counted'
  BY <1>1, <1>5, CountedStays DEF TypeOK
<1>7. CriticalArraysStayPut'
  <2>1. \A u \in Apps : pc'[u] = "critical" => pc[u] = "critical"
    BY <1>1, <1>2 DEF TypeOK, Threads, Pinning
  <2> QED
    BY <1>1, <2>1 DEF CriticalArraysStayPut, IsMovingGc, IsMovableObject,
                      MainSpaceCanMoveObjects
<1> QED
  BY <1>3, <1>4, <1>6, <1>7 DEF IInv

LEMMA RunPreserves ==
  ASSUME IInv, NEW t \in Threads, Run(t)
  PROVE  IInv'
<1> DEFINE f == [frame[t] EXCEPT !.gc_type = IF IsMovingGc(collector_type_)
                                            THEN kGcTypeFull ELSE @]
<1>1. TypeOK /\ NothingInRetiredSpace
  BY DEF IInv
<1>2. frame[t] \in Frames /\ AllocFrame(frame[t])
  BY <1>1 DEF TypeOK, Fits
<1>3. f \in Frames /\ f.ret = frame[t].ret /\ AllocFrame(f)
  BY <1>2 DEF Frames, GcTypes, AllocFrame
<1>4. Fits("grow", f) /\ "grow" \in Collecting
  <2> HIDE DEF f
  <2> QED
    BY <1>3 DEF Fits, AllocLabels, Collecting
<1>5. pc' = [pc EXCEPT ![t] = "grow"] /\ frame' = [frame EXCEPT ![t] = f]
  BY DEF Run, Goto
<1>6. /\ object' \in [Apps -> Spaces]
      /\ \A u \in Apps : IsMovableObject(object'[u]) => IsMovableObject(object[u])
  BY DEF Run, Spaces, IsMovableObject
<1>7. UNCHANGED <<collector_type_, collector_type_running_, desired_collector_type_,
                  last_gc_type_, next_gc_type_, disable_moving_gc_count_>>
  BY DEF Run, gcVars
<1>8. NothingInRetiredSpace'
  BY <1>1, <1>7 DEF Run, NothingInRetiredSpace, IsMovingGc
<1>9. pc[t] \in Collecting
  BY DEF Run, Collecting
<1>10. collector_type_' \in Installed /\ next_gc_type_' \in GcTypes
  BY <1>1, <1>7 DEF TypeOK
<1> HIDE DEF f
<1> QED
  BY <1>3, <1>4, <1>5, <1>6, <1>7, <1>8, <1>9, <1>10, GoOnPreserves

LEMMA GrowForUtilizationPreserves ==
  ASSUME IInv, NEW t \in Threads, GrowForUtilization(t)
  PROVE  IInv'
<1>1. TypeOK /\ NothingInRetiredSpace
  BY DEF IInv
<1>2. frame[t] \in Frames /\ Fits("finish", frame[t]) /\ "finish" \in Collecting
  BY <1>1 DEF TypeOK, Fits, AllocLabels, Collecting
<1>3. pc' = [pc EXCEPT ![t] = "finish"] /\ frame' = [frame EXCEPT ![t] = frame[t]]
  BY DEF GrowForUtilization, Goto
<1>4. UNCHANGED <<collector_type_, collector_type_running_, desired_collector_type_,
                  last_gc_type_, disable_moving_gc_count_, object>>
  BY DEF GrowForUtilization, requestVars
<1>5. pc[t] \in Collecting
  BY DEF GrowForUtilization, Collecting
<1>6. /\ collector_type_' \in Installed /\ object' \in [Apps -> Spaces]
      /\ next_gc_type_' \in GcTypes
  BY <1>1, <1>4 DEF TypeOK, GrowForUtilization, GcTypes
<1>7. /\ \A u \in Apps : IsMovableObject(object'[u]) => IsMovableObject(object[u])
      /\ NothingInRetiredSpace'
  BY <1>1, <1>4 DEF NothingInRetiredSpace, IsMovingGc
<1> QED
  BY <1>2, <1>3, <1>4, <1>5, <1>6, <1>7, GoOnPreserves

\* The transition itself.  The array of a thread that is not movable stays: it is
\* in the non-moving space, or there is no zygote space and so no other collector.
LEMMA ChangeCollectorPreserves ==
  ASSUME IInv, ChangeCollector
  PROVE  IInv'
<1> DEFINE t == TrimDaemon
           wanted == frame[t].wanted
           f == [frame[t] EXCEPT !.gc_type = kGcTypeFull, !.ret = "trim_check"]
<1>1. TypeOK /\ NothingInRetiredSpace /\ t \in Threads
  BY DaemonThreads DEF IInv
<1>2. /\ frame[t] \in Frames /\ wanted \in Installed
      /\ collector_type_ \in Installed /\ object \in [Apps -> Spaces]
  BY <1>1 DEF ChangeCollector, TypeOK, Fits, Frames
<1>3. f \in Frames /\ f.ret = "trim_check"
  BY <1>2 DEF Frames, GcTypes, ReturnLabels
<1>4. Fits("grow", f) /\ "grow" \in Collecting
  <2> HIDE DEF f
  <2> QED
    BY <1>3 DEF Fits, AllocFrame, AllocLabels, Collecting
<1>5. pc' = [pc EXCEPT ![t] = "grow"] /\ frame' = [frame EXCEPT ![t] = f]
  BY DEF ChangeCollector, Goto
<1>6. pc[t] \in Collecting
  BY DEF ChangeCollector, Collecting
<1>7. /\ UNCHANGED <<collector_type_running_, desired_collector_type_, last_gc_type_,
                     next_gc_type_, disable_moving_gc_count_>>
      /\ collector_type_' = wanted
  BY DEF ChangeCollector, requestVars
<1>8. \A u \in Apps :
        object'[u] = IF object[u] # "NonMoving" /\ IsMovingGc(wanted) # IsMovingGc(collector_type_)
                     THEN AllocatorOf(wanted) ELSE object[u]
  BY DEF ChangeCollector
<1>9. object' \in [Apps -> Spaces]
  <2>1. object' = [u \in Apps |-> object'[u]]
    BY DEF ChangeCollector
  <2> QED
    BY <1>2, <1>8, <2>1 DEF Spaces, AllocatorOf
<1>10. \A u \in Apps : IsMovableObject(object'[u]) => IsMovableObject(object[u])
  <2>1. ~have_zygote_space_ => wanted = collector_type_
    BY <1>2, HeapAssumption DEF Installed
  <2> QED
    BY <1>2, <1>8, <2>1 DEF IsMovableObject, MainSpaceCanMoveObjects, Spaces
<1>11. NothingInRetiredSpace'
  <2> HIDE DEF wanted
  <2> SUFFICES ASSUME NEW u \in Apps
               PROVE  /\ object'[u] = "BumpPointer" => IsMovingGc(wanted)
                      /\ object'[u] = "RosAlloc" => wanted # "SS" \/ "GSS" \in Installed
    BY <1>7 DEF NothingInRetiredSpace, Installed, IsMovingGc
  <2>1. CASE IsMovingGc(wanted) # IsMovingGc(collector_type_) /\ object[u] # "NonMoving"
    BY <1>8, <2>1 DEF AllocatorOf, IsMovingGc
  <2>2. CASE object[u] = "NonMoving"
    BY <1>8, <2>2
  <2>3. CASE IsMovingGc(wanted) = IsMovingGc(collector_type_)
    BY <1>1, <1>2, <1>8, <2>3 DEF NothingInRetiredSpace, IsMovingGc, Installed
  <2> QED
    BY <2>1, <2>2, <2>3
<1>12. collector_type_' \in Installed /\ next_gc_type_' \in GcTypes
  BY <1>1, <1>2, <1>7 DEF TypeOK
<1> HIDE DEF f, wanted
<1> QED
  BY <1>1, <1>3, <1>4, <1>5, <1>6, <1>7, <1>9, <1>10, <1>11, <1>12, GoOnPreserves

LEMMA FinishGCPreserves ==
  ASSUME IInv, NEW t \in Threads, FinishGC(t)
  PROVE  IInv'
<1> DEFINE r == frame[t].ret
           f == IF r = "idle" THEN NoFrame ELSE [frame[t] EXCEPT !.result = frame[t].gc_type]
<1>1. TypeOK /\ Counted /\ OneCollector /\ CriticalArraysStayPut /\ NothingInRetiredSpace
  BY DEF IInv
<1>2. frame[t] \in Frames /\ AllocFrame(frame[t]) /\ r \in ReturnLabels
  BY <1>1 DEF TypeOK, Fits, Frames
<1>3. f \in Frames /\ AllocFrame(f) /\ (r # "idle" => f.ret = r)
  BY <1>2, NoFrameFits DEF Frames, AllocFrame
<1>4. r \in Labels \ Pinning /\ r \notin Collecting
  BY <1>2, LabelsApart DEF Labels, QuietLabels
<1>5. Fits(r, f)
  <2> HIDE DEF f
  <2> QED
    BY <1>2, <1>3 DEF Fits, ReturnLabels, AllocLabels
<1>6. pc' = [pc EXCEPT ![t] = r] /\ frame' = [frame EXCEPT ![t] = f]
  BY <1>1 DEF FinishGC, TypeOK
<1>7. /\ UNCHANGED <<collector_type_, desired_collector_type_, next_gc_type_,
                     disable_moving_gc_count_, object>>
      /\ collector_type_running_' = "None"
  BY DEF FinishGC, requestVars
<1>8. last_gc_type_' \in GcTypes
  BY <1>1, <1>2 DEF FinishGC, TypeOK, Frames
<1>9. TypeOK'
  <2>1. /\ collector_type_' \in Installed /\ desired_collector_type_' \in Installed
        /\ next_gc_type_' \in GcTypes
        /\ disable_moving_gc_count_' \in Nat /\ object' \in [Apps -> Spaces]
    BY <1>1, <1>7 DEF TypeOK
  <2> HIDE DEF f, r
  <2> QED
    BY <1>1, <1>3, <1>4, <1>5, <1>6, <1>8, <2>1, TypeStays
<1>10. OneCollector'
  <2>1. \A u \in Threads : pc[u] \in Collecting => u = t
    BY <1>1 DEF OneCollector, FinishGC, Collecting
  <2>2. {u \in Threads : pc'[u] \in Collecting} = {}
    BY <1>1, <1>4, <1>6, <2>1 DEF TypeOK
  <2> QED
    BY <1>7, <2>2 DEF OneCollector, Collecting
<1>11. Counted'
  <2>1. Pinned' \subseteq Pinned
    BY <1>1, <1>4, <1>6, <1>7, CollectingKeepsPins
  <2> QED
    BY <1>1, <1>7, <2>1, CountedStays DEF TypeOK
<1>12. CriticalArraysStayPut' /\ NothingInRetiredSpace'
  BY <1>1, <1>7 DEF CriticalArraysStayPut, NothingInRetiredSpace, IsMovingGc
<1> QED
  BY <1>9, <1>10, <1>11, <1>12 DEF IInv

\* Thread t of the program pins an array, holds it or lets it go.
LEMMA PinPreserves ==
  ASSUME IInv, NEW t \in Apps, pc[t] \notin Collecting,
         NEW l \in Labels \ Collecting, NEW f \in Frames, Fits(l, f),
         pc' = [pc EXCEPT ![t] = l], frame' = [frame EXCEPT ![t] = f],
         disable_moving_gc_count_' \in Nat,
         Counted',
         (l = "critical" /\ IsMovableObject(object[t])) => ~IsMovingGc(collector_type_running_),
         UNCHANGED <<gcVars, desired_collector_type_, object>>
  PROVE  IInv'
<1>1. TypeOK /\ OneCollector /\ CriticalArraysStayPut /\ NothingInRetiredSpace /\ t \in Threads
  BY DEF IInv, Threads
<1>2. TypeOK'
  <2>1. /\ collector_type_' \in Installed /\ desired_collector_type_' \in Installed
        /\ last_gc_type_' \in GcTypes /\ next_gc_type_' \in GcTypes
        /\ object' \in [Apps -> Spaces]
    BY <1>1 DEF TypeOK, gcVars
  <2> QED
    BY <1>1, <2>1, TypeStays
<1>3. OneCollector'
  BY <1>1, OneCollectorStays DEF TypeOK, gcVars
<1>4. CriticalArraysStayPut'
  <2>1. \A u \in Apps : u # t => pc'[u] = pc[u]
    BY <1>1 DEF TypeOK, Threads
  <2>2. pc'[t] = l
    BY <1>1 DEF TypeOK
  <2> QED
    BY <1>1, <2>1, <2>2 DEF CriticalArraysStayPut, IsMovingGc, IsMovableObject,
                            MainSpaceCanMoveObjects, gcVars
<1>5. NothingInRetiredSpace'
  BY <1>1 DEF NothingInRetiredSpace, IsMovingGc, gcVars
<1> QED
  BY <1>2, <1>3, <1>4, <1>5 DEF IInv

LEMMA GetPrimitiveArrayCriticalPreserves ==
  ASSUME IInv, NEW t \in Threads, GetPrimitiveArrayCritical(t)
  PROVE  IInv'
<1> DEFINE l == IF IsMovableObject(object[t]) THEN "increment" ELSE "critical"
<1>1. TypeOK /\ Counted /\ t \in Apps
  BY DEF IInv, GetPrimitiveArrayCritical, Operate
<1>2. pc' = [pc EXCEPT ![t] = l] /\ frame' = [frame EXCEPT ![t] = NoFrame]
  BY DEF GetPrimitiveArrayCritical, Goto
<1>3. l \in Labels \ Collecting /\ Fits(l, NoFrame)
  BY NoFrameFits DEF Labels, QuietLabels, Pinning, Collecting, Fits, AllocLabels
<1>4. pc[t] \notin Collecting
  BY DEF GetPrimitiveArrayCritical, Operate, Collecting
<1>5. UNCHANGED <<gcVars, desired_collector_type_, object, disable_moving_gc_count_>>
  BY DEF GetPrimitiveArrayCritical, requestVars
<1>6. Counted'
  <2>1. \A u \in Apps : u # t => pc'[u] = pc[u]
    BY <1>1, <1>2 DEF TypeOK, Threads
  <2>2. pc'[t] = l
    BY <1>1, <1>2 DEF TypeOK
  <2>3. Pinned' \subseteq Pinned
    BY <1>5, <2>1, <2>2 DEF Pinned, IsMovableObject, MainSpaceCanMoveObjects
  <2> QED
    BY <1>1, <1>5, <2>3, CountedStays DEF TypeOK
<1>7. disable_moving_gc_count_' \in Nat
  BY <1>1, <1>5 DEF TypeOK
<1>8. l = "critical" => ~IsMovableObject(object[t])
  OBVIOUS
<1> HIDE DEF l
<1> QED
  BY <1>1, <1>2, <1>3, <1>4, <1>5, <1>6, <1>7, <1>8, NoFrameFits, PinPreserves

LEMMA IncrementDisableMovingGCPreserves ==
  ASSUME IInv, NEW t \in Apps, IncrementDisableMovingGC(t)
  PROVE  IInv'
<1> DEFINE l == IF IsMovingGc(collector_type_running_) THEN "pin" ELSE "critical"
           f == IF IsMovingGc(collector_type_running_) THEN frame[t] ELSE NoFrame
<1>1. TypeOK /\ Counted /\ t \in Threads
  BY DEF IInv, Threads
<1>2. frame[t] \in Frames /\ AllocFrame(frame[t])
  BY <1>1 DEF TypeOK, Fits
<1>3. pc' = [pc EXCEPT ![t] = l] /\ frame' = [frame EXCEPT ![t] = f]
  BY <1>1 DEF IncrementDisableMovingGC, Goto, TypeOK
<1>4. /\ f \in Frames /\ Fits(l, f)
      /\ l \in Labels \ Collecting
  BY <1>2, NoFrameFits DEF Labels, Pinning, Collecting, Fits, AllocLabels
<1>5. pc[t] \notin Collecting
  BY DEF IncrementDisableMovingGC, Collecting
<1>6. /\ UNCHANGED <<gcVars, desired_collector_type_, object>>
      /\ disable_moving_gc_count_' = disable_moving_gc_count_ + 1
  BY DEF IncrementDisableMovingGC, requestVars
<1>7. Counted'
  <2>1. \A u \in Apps : u # t => pc'[u] = pc[u]
    BY <1>1, <1>3 DEF TypeOK, Threads
  <2>2. Pinned' \subseteq Pinned \cup {t}
    BY <1>6, <2>1 DEF Pinned, IsMovableObject, MainSpaceCanMoveObjects
  <2>3. IsFiniteSet(Pinned \cup {t}) /\ Cardinality(Pinned \cup {t}) <= Cardinality(Pinned) + 1
    <3>1. /\ IsFiniteSet(Pinned \cup {t})
          /\ Cardinality(Pinned \cup {t}) =
               IF t \in Pinned THEN Cardinality(Pinned) ELSE Cardinality(Pinned) + 1
      BY PinnedFinite, FS_AddElement
    <3> HIDE DEF Pinned
    <3> QED
      BY <3>1, PinnedFinite
  <2>4. Cardinality(Pinned') <= Cardinality(Pinned \cup {t})
    BY <2>2, <2>3, FS_Subset
  <2>5. Cardinality(Pinned') \in Nat /\ Cardinality(Pinned \cup {t}) \in Nat
    BY <2>2, <2>3, FS_Subset, FS_CardinalityType
  <2> QED
    BY <1>1, <1>6, <2>3, <2>4, <2>5, PinnedFinite DEF Counted, TypeOK
<1>8. disable_moving_gc_count_' \in Nat
  BY <1>1, <1>6 DEF TypeOK
<1>9. l = "critical" => ~IsMovingGc(collector_type_running_)
  OBVIOUS
<1> HIDE DEF l, f
<1> QED
  BY <1>3, <1>4, <1>5, <1>6, <1>7, <1>8, <1>9, PinPreserves

LEMMA MovingGcDisabledPreserves ==
  ASSUME IInv, NEW t \in Apps, MovingGcDisabled(t)
  PROVE  IInv'
<1>1. TypeOK /\ Counted /\ t \in Threads
  BY DEF IInv, Threads
<1>2. pc' = [pc EXCEPT ![t] = "critical"] /\ frame' = [frame EXCEPT ![t] = NoFrame]
  BY DEF MovingGcDisabled, Goto
<1>3. "critical" \in Labels \ Collecting /\ Fits("critical", NoFrame)
  BY NoFrameFits DEF Labels, Pinning, Collecting, Fits, AllocLabels
<1>4. /\ pc[t] = "pin" /\ pc[t] \notin Collecting
      /\ ~IsMovingGc(collector_type_running_)
  BY DEF MovingGcDisabled, NoGcRuns, IsMovingGc, Collecting
<1>5. UNCHANGED <<gcVars, desired_collector_type_, object, disable_moving_gc_count_>>
  BY DEF MovingGcDisabled, requestVars
<1>6. Counted'
  <2>1. \A u \in Apps : u # t => pc'[u] = pc[u]
    BY <1>1, <1>2 DEF TypeOK, Threads
  <2>2. Pinned' \subseteq Pinned
    BY <1>4, <1>5, <2>1 DEF Pinned, IsMovableObject, MainSpaceCanMoveObjects
  <2> QED
    BY <1>1, <1>5, <2>2, CountedStays DEF TypeOK
<1>7. disable_moving_gc_count_' \in Nat
  BY <1>1, <1>5 DEF TypeOK
<1> QED
  BY <1>2, <1>3, <1>4, <1>5, <1>6, <1>7, NoFrameFits, PinPreserves

LEMMA ReleasePrimitiveArrayPreserves ==
  ASSUME IInv, NEW t \in Apps, ReleasePrimitiveArray(t)
  PROVE  IInv'
<1>1. TypeOK /\ Counted /\ t \in Threads
  BY DEF IInv, Threads
<1>2. pc' = [pc EXCEPT ![t] = "idle"] /\ frame' = [frame EXCEPT ![t] = NoFrame]
  BY DEF ReleasePrimitiveArray, Goto
<1>3. "idle" \in Labels \ Collecting /\ Fits("idle", NoFrame)
  BY NoFrameFits DEF Labels, QuietLabels, ReturnLabels, Collecting, Fits, AllocLabels
<1>4. pc[t] = "critical" /\ pc[t] \notin Collecting
  BY DEF ReleasePrimitiveArray, Collecting
<1>5. UNCHANGED <<gcVars, desired_collector_type_, object>>
  BY DEF ReleasePrimitiveArray, requestVars
<1>6. Pinned' = Pinned \ {t}
  <2>1. \A u \in Apps : u # t => pc'[u] = pc[u]
    BY <1>1, <1>2 DEF TypeOK, Threads
  <2>2. pc'[t] = "idle"
    BY <1>1, <1>2 DEF TypeOK
  <2> QED
    BY <1>5, <2>1, <2>2 DEF Pinned, IsMovableObject, MainSpaceCanMoveObjects
<1>7. disable_moving_gc_count_' \in Nat /\ Counted'
  <2>1. CASE IsMovableObject(object[t])
    <3>1. t \in Pinned
      BY <1>4, <2>1 DEF Pinned
    <3>2. Cardinality(Pinned') = Cardinality(Pinned) - 1
      BY <1>6, <3>1, PinnedFinite, FS_RemoveElement
    <3>3. disable_moving_gc_count_' = disable_moving_gc_count_ - 1
      BY <2>1 DEF ReleasePrimitiveArray
    <3>4. Cardinality(Pinned) # 0
      BY <3>1, PinnedFinite, FS_EmptySet
    <3> QED
      BY <1>1, <3>2, <3>3, <3>4, PinnedFinite DEF Counted, TypeOK
  <2>2. CASE ~IsMovableObject(object[t])
    <3>1. UNCHANGED disable_moving_gc_count_
      BY <2>2 DEF ReleasePrimitiveArray
    <3> QED
      BY <1>1, <1>6, <3>1, CountedStays DEF TypeOK
  <2> QED
    BY <2>1, <2>2
<1> QED
  BY <1>2, <1>3, <1>4, <1>5, <1>7, NoFrameFits, PinPreserves
-----------------------------------------------------------------------------
(* The theorems.                                                           *)

LEMMA InitIInv == Init => IInv
<1> SUFFICES ASSUME Init PROVE IInv
  OBVIOUS
<1>1. pc = [t \in Threads |-> "idle"] /\ frame = [t \in Threads |-> NoFrame]
  BY DEF Init
<1>2. "idle" \in Labels /\ "idle" \notin Collecting \cup Pinning /\ Fits("idle", NoFrame)
  BY NoFrameFits DEF Labels, QuietLabels, ReturnLabels, Collecting, Pinning, Fits, AllocLabels
<1>3. collector_type_ \in Installed /\ desired_collector_type_ = collector_type_
  BY DEF Init, Installed
<1>4. object \in [Apps -> Spaces] /\ \A t \in Apps : object[t] = CurrentAllocator
  BY CurrentAllocatorSpace DEF Init
<1>5. TypeOK
  BY <1>1, <1>2, <1>3, <1>4, NoFrameFits DEF Init, TypeOK, GcTypes
<1>6. Pinned = {}
  BY <1>1 DEF Pinned, Threads
<1>7. Counted
  BY <1>6, FS_EmptySet DEF Init, Counted
<1>8. OneCollector /\ CriticalArraysStayPut
  BY <1>1 DEF Init, OneCollector, CriticalArraysStayPut, Threads
<1>9. NothingInRetiredSpace
  BY <1>4 DEF NothingInRetiredSpace, CurrentAllocator, AllocatorOf, IsMovingGc
<1> QED
  BY <1>5, <1>7, <1>8, <1>9 DEF IInv

LEMMA NextIInv == IInv /\ [Next]_vars => IInv'
<1> SUFFICES ASSUME IInv, [Next]_vars PROVE IInv'
  OBVIOUS
<1>1. TypeOK
  BY DEF IInv
<1>2. CASE UNCHANGED vars
  BY <1>2, SleepPreserves DEF vars, gcVars, requestVars, threadVars
<1>3. CASE Daemons
  <2>1. CASE ConcurrentGC \/ ConcurrentWaited \/ ConcurrentCollected
    BY <1>1, <2>1, ConcurrentQuiet, QuietPreserves, DaemonThreads
  <2>2. CASE DoPendingTransitionOrTrim \/ CheckTrim
    BY <1>1, <2>2, TrimQuiet, QuietPreserves, DaemonThreads
  <2>3. CASE TransitionCollector
    BY <2>3, TransitionCollectorPreserves
  <2>4. CASE ChangeCollector
    BY <2>4, ChangeCollectorPreserves
  <2>5. CASE Trim
    BY <2>5, TrimPreserves
  <2> QED
    BY <1>3, <2>1, <2>2, <2>3, <2>4, <2>5 DEF Daemons
<1>4. ASSUME NEW t \in Threads, Step(t) PROVE IInv'
  <2>1. CASE SleepOnGcCompleteCond(t)
    BY <2>1, SleepPreserves DEF SleepOnGcCompleteCond, requestVars
  <2>2. CASE WaitForGcToComplete(t)
    BY <1>1, <2>2, WaitForGcToCompleteQuiet, QuietPreserves
  <2>3. CASE FinishGC(t)
    BY <2>3, FinishGCPreserves
  <2>4. CASE CollectGarbageInternal(t)
    BY <2>4, CollectGarbageInternalPreserves
  <2>5. CASE Run(t)
    BY <2>5, RunPreserves
  <2>6. CASE GrowForUtilization(t)
    BY <2>6, GrowForUtilizationPreserves
  <2>7. CASE PushOnAllocationStack(t)
    BY <1>1, <2>7, PushOnAllocationStackQuiet, QuietPreserves
  <2>8. CASE AllocWaited(t)
    BY <1>1, <2>8, AllocWaitedQuiet, QuietPreserves
  <2>9. CASE AllocCollected(t)
    BY <1>1, <2>9, AllocCollectedQuiet, QuietPreserves
  <2>10. CASE AllocSoft(t)
    BY <1>1, <2>10, AllocSoftQuiet, QuietPreserves
  <2>11. CASE NativeWaited(t)
    BY <1>1, <2>11, NativeQuiet, QuietPreserves
  <2>12. pc[t] \in Pinning => t \in Apps
    BY <1>1 DEF TypeOK
  <2>13. CASE IncrementDisableMovingGC(t)
    BY <2>12, <2>13, IncrementDisableMovingGCPreserves DEF IncrementDisableMovingGC, Pinning
  <2>14. CASE MovingGcDisabled(t)
    BY <2>12, <2>14, MovingGcDisabledPreserves DEF MovingGcDisabled, Pinning
  <2>15. CASE ReleasePrimitiveArray(t)
    BY <2>12, <2>15, ReleasePrimitiveArrayPreserves DEF ReleasePrimitiveArray, Pinning
  <2>16. CASE RequestCollectorTransition(t)
    BY <1>1, <2>16, ProcessStateQuiet, QuietPreserves
  <2> QED
    BY <1>4, <2>1, <2>2, <2>3, <2>4, <2>5, <2>6, <2>7, <2>8, <2>9, <2>10, <2>11, <2>13, <2>14,
       <2>15, <2>16 DEF Step
<1>5. ASSUME NEW t \in Threads, Request(t) PROVE IInv'
  <2>1. CASE AllocObject(t)
    BY <1>1, <2>1, AllocObjectQuiet, QuietPreserves
  <2>2. CASE CollectGarbage(t)
    BY <1>1, <2>2, CollectGarbageQuiet, QuietPreserves
  <2>3. CASE RegisterNativeAllocation(t)
    BY <1>1, <2>3, NativeQuiet, QuietPreserves
  <2>4. CASE GetPrimitiveArrayCritical(t)
    BY <2>4, GetPrimitiveArrayCriticalPreserves
  <2>5. CASE \E state \in {"JankPerceptible", "JankImperceptible"} : UpdateProcessState(t, state)
    BY <1>1, <2>5, ProcessStateQuiet, QuietPreserves
  <2> QED
    BY <1>5, <2>1, <2>2, <2>3, <2>4, <2>5 DEF Request
<1> QED
  BY <1>2, <1>3, <1>4, <1>5 DEF Next

\* The inductive invariant: types, the pins that are counted, and the three
\* properties, which rest on one another.
THEOREM Invariance == Spec => []IInv
<1>1. Init => IInv
  BY InitIInv
<1>2. IInv /\ [Next]_vars => IInv'
  BY NextIInv
<1> QED
  BY <1>1, <1>2, PTL DEF Spec

\* At most one thread collects, transitions or trims, exactly while
\* collector_type_running_ says so: WaitForGcToCompleteLocked and FinishGC.
THEOREM OneCollectorCorrect == Spec => []OneCollector
<1>1. IInv => OneCollector
  BY DEF IInv
<1> QED
  BY <1>1, Invariance, PTL

\* GetPrimitiveArrayCritical: no moving collection runs while the program holds
\* the address of a movable array, for any collectors and any number of threads.
THEOREM CriticalArraysCorrect == Spec => []CriticalArraysStayPut
<1>1. IInv => CriticalArraysStayPut
  BY DEF IInv
<1> QED
  BY <1>1, Invariance, PTL

\* TransitionCollector against AllocateInternalWithGc: nothing is allocated, or
\* left behind, in the space that a transition has emptied.
THEOREM RetiredSpaceCorrect == Spec => []NothingInRetiredSpace
<1>1. IInv => NothingInRetiredSpace
  BY DEF IInv
<1> QED
  BY <1>1, Invariance, PTL
=============================================================================
