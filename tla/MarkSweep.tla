------------------------------ MODULE MarkSweep ------------------------------
(***************************************************************************)
(* The concurrent mark-sweep collector (runtime/gc/collector/mark_sweep.cc *)
(* and its sticky variant) with the card table, the allocation stacks, the *)
(* processing of java.lang.ref.Reference objects and the system weaks,     *)
(* running beside the mutator threads.                                     *)
(*                                                                         *)
(* An object has one reference field, so ScanObject is one read of it; for *)
(* a Reference that field is its referent.  Every object lies on a card of *)
(* its own, the cards form one word, which CardTable ages with one CAS and *)
(* scans after one read.  Object identities are not reused, so a reference *)
(* to a freed object stays recognizable.  The mutator lock appears as: a thread takes *)
(* no step while the world is stopped, and the world stops, or a           *)
(* checkpoint runs, only while the thread is at a safe point.              *)
(***************************************************************************)
EXTENDS Integers, Sequences

CONSTANTS
  Threads,            \* the mutator threads
  Kind,               \* the class of every object the program ever allocates,
                      \* in address order: plain or a kind of Reference
  InitialHeaps,       \* heaps the mutators may have built before the first
                      \* collection: their fields, and what the threads hold
  MaxCollections,     \* bound: how many collections run
  MaxOperations,      \* bound: how many operations the mutators start
  GetReferentIsAtomic \* TRUE: DisableSlowPath never falls between the two
                      \* reads of the fast path of GetReferent

Objects == DOMAIN Kind
Null == 0
RefKinds == {"soft", "weak", "finalizer", "phantom"}

ASSUME MarkSweepAssumption ==
  /\ Kind \in Seq(RefKinds \cup {"object"})
  /\ \A h \in InitialHeaps : /\ h.held \subseteq DOMAIN h.field
                             /\ DOMAIN h.field \subseteq Objects
                             /\ \A o \in DOMAIN h.field : h.field[o] \in DOMAIN h.field \cup {Null}
                             /\ \A o \in DOMAIN h.field : Kind[o] = "finalizer" =>
                                  o \notin h.held /\ \A p \in DOMAIN h.field : h.field[p] # o
  /\ MaxCollections \in Nat /\ MaxOperations \in Nat
  /\ GetReferentIsAtomic \in BOOLEAN

VARIABLES
  \* The heap.
  allocated, freed,
  field,              \* the one reference field of each object
  zombie,             \* FinalizerReference::zombie_
  card,               \* "clean", "aged" (kCardDirty - 1) or "dirty"
  allocation_stack_, live_stack_, live_bitmap_, mark_bitmap_,
  \* The mutators.
  roots,              \* the references on each thread's stack
  store,              \* the half of a reference store that is still to come
  get_pc,             \* where the thread is in GetReferent
  getting,            \* the Reference it is asked for
  referent,           \* the value the first read of the referent returned
  \* The system weaks (interned strings, JNI weak globals).
  weak_globals_, allow_new_weak_globals_,
  \* The ReferenceProcessor.
  slow_path_enabled_, preserving_references_, is_marked_callback_,
  queue,              \* the soft, weak, finalizer and phantom queues
  cleared_references_,
  enqueued,           \* FinalizerReferences handed to the ReferenceQueue
  \* The collector.
  pc, gc_type, clear_soft_references_, mark_stack_,
  gray,               \* the cards ScanGrayObjects has still to visit
  checkpoint,         \* the threads that have not run the checkpoint yet
  collections, operations,
  doomed              \* history: what was garbage when a full collection began

spaceVars == <<allocated, freed, allocation_stack_, live_stack_, live_bitmap_>>
objectVars == <<field, zombie, card>>
getVars == <<get_pc, getting, referent>>
threadVars == <<roots, store, getVars>>
weakVars == <<weak_globals_, allow_new_weak_globals_>>
processorVars == <<slow_path_enabled_, preserving_references_, is_marked_callback_>>
queueVars == <<queue, cleared_references_, enqueued>>
markVars == <<mark_bitmap_, mark_stack_>>
walkVars == <<gray, checkpoint>>
runVars == <<gc_type, clear_soft_references_, collections, doomed>>
gcVars == <<pc, walkVars, runVars>>
collectorVars == <<processorVars, queueVars, markVars, gcVars>>
vars == <<spaceVars, objectVars, threadVars, weakVars, collectorVars, operations>>

IsReference(o) == Kind[o] \in RefKinds
Pending(kinds) == {r \in queue : Kind[r] \in kinds}

\* The FinalizerReferences the Java list of AddFinalizerReference keeps alive.
FinalizerList == {f \in allocated : Kind[f] = "finalizer"}

\* The phases with every mutator suspended.
Paused == pc = "gray_paused"
AtSafePoint(t) == store[t] = <<>> /\ get_pc[t] = "none"

\* Nothing has been collected: every object is on the allocation stack, and the
\* write barrier has dirtied the cards of those that refer to another.
Init ==
  /\ \E h \in InitialHeaps :
       /\ field = [o \in Objects |-> IF o \in DOMAIN h.field THEN h.field[o] ELSE Null]
       /\ allocated = DOMAIN h.field
       /\ roots = [t \in Threads |-> h.held]
  /\ freed = {}
  /\ zombie = [o \in Objects |-> Null]
  /\ card = [o \in Objects |-> IF field[o] = Null THEN "clean" ELSE "dirty"]
  /\ allocation_stack_ = allocated /\ live_stack_ = {}
  /\ live_bitmap_ = {} /\ mark_bitmap_ = {}
  /\ store = [t \in Threads |-> <<>>]
  /\ getting = [t \in Threads |-> Null]
  /\ referent = [t \in Threads |-> Null]
  /\ get_pc = [t \in Threads |-> "none"]
  /\ weak_globals_ = {} /\ allow_new_weak_globals_ = TRUE
  /\ slow_path_enabled_ = FALSE /\ preserving_references_ = FALSE
  /\ is_marked_callback_ = FALSE
  /\ queue = {} /\ cleared_references_ = {} /\ enqueued = {}
  /\ pc = "idle" /\ gc_type = "full" /\ clear_soft_references_ = TRUE
  /\ mark_stack_ = {} /\ gray = {} /\ checkpoint = {}
  /\ collections = 0 /\ operations = 0 /\ doomed = {}

-----------------------------------------------------------------------------
(* The mutators.                                                           *)

\* A thread that is not suspended starts an operation.
Operate(t) ==
  /\ ~Paused /\ AtSafePoint(t)
  /\ operations < MaxOperations
  /\ operations' = operations + 1

Hold(t, o) == roots' = [roots EXCEPT ![t] = @ \cup ({o} \ {Null})]
MarkCard(o) == card' = [card EXCEPT ![o] = "dirty"]

\* Heap::AllocObjectWithAllocator, up to PushOnAllocationStack.
Allocate(o) ==
  /\ o \notin allocated \cup freed
  /\ \A p \in Objects : Kind[p] = Kind[o] /\ p < o => p \in allocated \cup freed
  /\ allocated' = allocated \cup {o}
  /\ allocation_stack_' = allocation_stack_ \cup {o}
  /\ UNCHANGED <<freed, live_stack_, live_bitmap_, zombie, store, getVars,
                 weakVars, collectorVars>>

AllocObject(t, o) ==
  /\ Operate(t)
  /\ ~IsReference(o)
  /\ Allocate(o)
  /\ Hold(t, o)
  /\ UNCHANGED <<field, card>>

\* Allocation and constructor of a Reference.  There is no safe point between
\* the two writes and nobody else knows the object, so they are one step.  A
\* FinalizerReference (Heap::AddFinalizerReference) is held by its Java list.
NewReference(t, r, o) ==
  /\ Operate(t)
  /\ IsReference(r)
  /\ o \in roots[t]
  /\ Allocate(r)
  /\ field' = [field EXCEPT ![r] = o]
  /\ MarkCard(r)
  /\ IF Kind[r] = "finalizer" THEN UNCHANGED roots ELSE Hold(t, r)

LoadField(t, o) ==
  /\ Operate(t)
  /\ o \in roots[t]
  /\ ~IsReference(o)
  /\ Hold(t, field[o])
  /\ UNCHANGED <<spaceVars, objectVars, store, getVars, weakVars, collectorVars>>

DropRoot(t, o) ==
  /\ Operate(t)
  /\ o \in roots[t]
  /\ roots' = [roots EXCEPT ![t] = @ \ {o}]
  /\ UNCHANGED <<spaceVars, objectVars, store, getVars, weakVars, collectorVars>>

\* Object::SetFieldObject of null, which needs no barrier; Reference.clear().
ClearField(t, o) ==
  /\ Operate(t)
  /\ o \in roots[t]
  /\ field' = [field EXCEPT ![o] = Null]
  /\ UNCHANGED <<spaceVars, zombie, card, threadVars, weakVars, collectorVars>>

\* Object::SetFieldObject and Heap::WriteBarrierField: the reference and the
\* card are two plain writes with no fence between them, so either may become
\* visible first.
SetFieldObject(t, o, v, first) ==
  /\ Operate(t)
  /\ o \in roots[t] /\ v \in roots[t]
  /\ ~IsReference(o)
  /\ \/ /\ first = "field"
        /\ field' = [field EXCEPT ![o] = v]
        /\ store' = [store EXCEPT ![t] = <<"card", o, v>>]
        /\ UNCHANGED card
     \/ /\ first = "card"
        /\ MarkCard(o)
        /\ store' = [store EXCEPT ![t] = <<"field", o, v>>]
        /\ UNCHANGED field
  /\ UNCHANGED <<spaceVars, zombie, roots, getVars, weakVars, collectorVars>>

FinishStore(t) ==
  /\ store[t] # <<>>
  /\ \/ /\ store[t][1] = "card"
        /\ MarkCard(store[t][2])
        /\ UNCHANGED field
     \/ /\ store[t][1] = "field"
        /\ field' = [field EXCEPT ![store[t][2]] = store[t][3]]
        /\ UNCHANGED card
  /\ store' = [store EXCEPT ![t] = <<>>]
  /\ UNCHANGED <<spaceVars, zombie, roots, getVars, weakVars, collectorVars,
                 operations>>

\* JavaVMExt::AddWeakGlobalReference, InternTable::InsertWeak: waits while the
\* collector disallows new system weaks.
AddWeakGlobalReference(t, o) ==
  /\ Operate(t)
  /\ allow_new_weak_globals_
  /\ o \in roots[t] /\ ~IsReference(o)
  /\ weak_globals_' = weak_globals_ \cup {o}
  /\ UNCHANGED <<spaceVars, objectVars, threadVars, allow_new_weak_globals_,
                 collectorVars>>

\* JavaVMExt::DecodeWeakGlobal, InternTable::Insert when it finds a weak string.
DecodeWeakGlobal(t, o) ==
  /\ Operate(t)
  /\ allow_new_weak_globals_
  /\ o \in weak_globals_
  /\ Hold(t, o)
  /\ UNCHANGED <<spaceVars, objectVars, store, getVars, weakVars, collectorVars>>

\* The finalizer daemon takes an object that a FinalizerReference handed over.
RunFinalizer(t, f) ==
  /\ Operate(t)
  /\ f \in enqueued
  /\ enqueued' = enqueued \ {f}
  /\ Hold(t, zombie[f])
  /\ zombie' = [zombie EXCEPT ![f] = Null]
  /\ UNCHANGED <<spaceVars, field, card, store, getVars, weakVars, processorVars,
                 queue, cleared_references_, markVars, gcVars>>

-----------------------------------------------------------------------------
(* ReferenceProcessor::GetReferent.                                        *)

ReturnReferent(t, o) ==
  /\ Hold(t, o)
  /\ get_pc' = [get_pc EXCEPT ![t] = "none"]
  /\ getting' = [getting EXCEPT ![t] = Null]
  /\ referent' = [referent EXCEPT ![t] = Null]

GetReferent(t, r) ==
  /\ Operate(t)
  /\ r \in roots[t] /\ Kind[r] \in {"soft", "weak"}
  /\ get_pc' = [get_pc EXCEPT ![t] = "check"]
  /\ getting' = [getting EXCEPT ![t] = r]
  /\ referent' = [referent EXCEPT ![t] = field[r]]
  /\ UNCHANGED <<spaceVars, objectVars, roots, store, weakVars, collectorVars>>

\* The fast paths, which take no lock.
CheckSlowPath(t) ==
  /\ get_pc[t] = "check"
  /\ IF ~slow_path_enabled_ \/ referent[t] = Null
       THEN ReturnReferent(t, referent[t])
       ELSE /\ get_pc' = [get_pc EXCEPT ![t] = "loop"]
            /\ UNCHANGED <<roots, getting, referent>>
  /\ UNCHANGED <<spaceVars, objectVars, store, weakVars, collectorVars, operations>>

\* One turn of the loop, under lock_, up to WaitHoldingLocks or the return.  A
\* referent cleared meanwhile is null, and null is not marked.
GetReferentSlow(t) ==
  /\ get_pc[t] = "loop"
  /\ IF \/ ~slow_path_enabled_
        \/ ~preserving_references_ /\ is_marked_callback_
             /\ field[getting[t]] \in mark_bitmap_
       THEN ReturnReferent(t, field[getting[t]])
       ELSE /\ get_pc' = [get_pc EXCEPT ![t] = "wait"]
            /\ UNCHANGED <<roots, getting, referent>>
  /\ UNCHANGED <<spaceVars, objectVars, store, weakVars, collectorVars, operations>>

\* condition_.Broadcast
Broadcast ==
  get_pc' = [t \in Threads |-> IF get_pc[t] = "wait" THEN "loop" ELSE get_pc[t]]

-----------------------------------------------------------------------------
(* Reachability.                                                           *)

\* The objects reachable from S by the edges of next: the least set that holds
\* S and is closed.
Closure(S, next(_)) ==
  {o \in Objects :
     \A T \in SUBSET Objects :
       (S \subseteq T /\ \A x \in T : next(x) \subseteq T) => o \in T}

StrongEdges(o) == (IF IsReference(o) THEN {zombie[o]} ELSE {field[o]}) \ {Null}
AllEdges(o) == {field[o], zombie[o]} \ {Null}
Stacks == UNION {roots[t] : t \in Threads}
\* What GetReferent has read and may still return.
InFlight == {referent[t] : t \in Threads} \ {Null}

-----------------------------------------------------------------------------
(* Marking.                                                                *)

\* MarkSweep::MarkObject for every object of S.
Mark(S) ==
  /\ mark_bitmap_' = mark_bitmap_ \cup (S \ {Null})
  /\ mark_stack_' = mark_stack_ \cup (S \ (mark_bitmap_ \cup {Null}))

\* MarkSweep::ScanObject; for a Reference also DelayReferenceReferent, which
\* queues it when its referent is not marked and it is in no queue yet.
Scan(o, stack) ==
  LET found == StrongEdges(o)
      delay == /\ IsReference(o)
               /\ field[o] \notin mark_bitmap_ \cup {Null}
               /\ o \notin cleared_references_
  IN  /\ mark_bitmap_' = mark_bitmap_ \cup found
      /\ mark_stack_' = stack \cup (found \ mark_bitmap_)
      /\ queue' = IF delay THEN queue \cup {o} ELSE queue

\* Heap::ProcessCards with AgeCardVisitor.
ProcessCards ==
  card' = [o \in Objects |-> IF card[o] = "dirty" THEN "aged" ELSE "clean"]

\* The cards CardTable::Scan visits for a minimum age.
OnCards(ages) == {o \in Objects : card[o] \in ages}

\* GarbageCollector::Run up to the checkpoint request of MarkRoots:
\* InitializePhase, BindBitmaps (the sticky collector binds the live bitmap as
\* the mark bitmap) and ProcessCards.
StartCollection(type, clear) ==
  /\ pc = "idle"
  /\ collections < MaxCollections
  /\ collections' = collections + 1
  /\ gc_type' = type
  /\ clear_soft_references_' = (clear \/ type # "sticky")
  /\ mark_bitmap_' = IF type = "sticky" THEN live_bitmap_ ELSE {}
  /\ ProcessCards
  /\ checkpoint' = Threads
  /\ doomed' = IF type = "sticky" THEN {}
               ELSE allocated \ Closure(Stacks \cup InFlight \cup FinalizerList \cup weak_globals_,
                                        AllEdges)
  /\ pc' = "checkpoint"
  /\ UNCHANGED <<spaceVars, field, zombie, threadVars, weakVars, processorVars,
                 queueVars, mark_stack_, gray, operations>>

markingFrame == <<spaceVars, threadVars, weakVars, processorVars,
                  cleared_references_, enqueued, runVars, operations>>

\* CheckpointMarkThreadRoots: the thread, or the collector for a suspended
\* thread, marks the roots of the thread at a safe point.
MarkThreadRoots(t) ==
  /\ t \in checkpoint
  /\ AtSafePoint(t)
  /\ checkpoint' = checkpoint \ {t}
  /\ Mark(roots[t])
  /\ UNCHANGED <<markingFrame, objectVars, queue, pc, gray>>

\* The barrier is passed: MarkNonThreadRoots and MarkConcurrentRoots; then comes
\* RecursiveMark, which is ProcessMarkStack.
MarkNonThreadRoots ==
  /\ pc = "checkpoint" /\ gc_type # "sticky"
  /\ checkpoint = {}
  /\ Mark(FinalizerList)
  /\ pc' = "gray"
  /\ UNCHANGED <<markingFrame, objectVars, queue, walkVars>>

\* The same, then StickyMarkSweep::MarkReachableObjects: it drops the mark stack
\* and scans the cards that were dirty when the collection started.
StickyMarkReachableObjects ==
  /\ pc = "checkpoint" /\ gc_type = "sticky"
  /\ checkpoint = {}
  /\ mark_bitmap_' = mark_bitmap_ \cup FinalizerList
  /\ mark_stack_' = {}
  /\ gray' = OnCards({"aged", "dirty"})
  /\ pc' = "gray"
  /\ UNCHANGED <<markingFrame, objectVars, queue, checkpoint>>

\* ScanGrayObjects: the marked objects on the next card.
ScanCard(o) ==
  /\ o \in gray /\ \A p \in gray : o <= p
  /\ gray' = gray \ {o}
  /\ IF o \in mark_bitmap_ THEN Scan(o, mark_stack_) ELSE UNCHANGED <<markVars, queue>>
  /\ UNCHANGED <<markingFrame, objectVars, pc, checkpoint>>

\* ProcessMarkStack, after the cards; also the process_mark_stack_callback of
\* ProcessReferences.
ProcessMarkStack(o) ==
  /\ pc \in {"gray", "gray_again", "gray_paused", "preserve_mark", "finalize_mark"}
  /\ gray = {}
  /\ o \in mark_stack_
  /\ Scan(o, mark_stack_ \ {o})
  /\ UNCHANGED <<markingFrame, objectVars, pc, walkVars>>

Scanned == gray = {} /\ mark_stack_ = {}

\* PreCleanCards up to its checkpoint request: it ages the cards again.
PreCleanCards ==
  /\ pc = "gray" /\ Scanned
  /\ ProcessCards
  /\ checkpoint' = Threads
  /\ pc' = "checkpoint_again"
  /\ UNCHANGED <<markingFrame, field, zombie, queue, markVars, gray>>

\* The rest of PreCleanCards: the other roots and the newly aged cards.
ScanAgedCards ==
  /\ pc = "checkpoint_again"
  /\ checkpoint = {}
  /\ Mark(FinalizerList)
  /\ gray' = OnCards({"aged", "dirty"})
  /\ pc' = "gray_again"
  /\ UNCHANGED <<markingFrame, objectVars, queue, checkpoint>>

-----------------------------------------------------------------------------
(* The pause.                                                              *)

\* Faulty: the pause marks the roots again and leaves the dirty cards alone.
PausePhaseRootsOnly ==
  /\ pc = "gray_again" /\ Scanned
  /\ \A t \in Threads : AtSafePoint(t)
  /\ Mark(FinalizerList \cup Stacks)
  /\ pc' = "gray_paused"
  /\ UNCHANGED <<markingFrame, objectVars, queue, walkVars>>

\* ScopedPause, when ThreadList::SuspendAll returns; ReMarkRoots; the dirty cards.
PausePhase ==
  /\ pc = "gray_again" /\ Scanned
  /\ \A t \in Threads : AtSafePoint(t)
  /\ Mark(FinalizerList \cup Stacks)
  /\ gray' = OnCards({"dirty"})
  /\ pc' = "gray_paused"
  /\ UNCHANGED <<markingFrame, objectVars, queue, checkpoint>>

\* The rest of PausePhase, and ResumeAll: SwapStacks, DisallowNewSystemWeaks,
\* EnableSlowPath.
EndPause ==
  /\ pc = "gray_paused" /\ Scanned
  /\ live_stack_' = allocation_stack_
  /\ allocation_stack_' = live_stack_
  /\ allow_new_weak_globals_' = FALSE
  /\ slow_path_enabled_' = TRUE
  /\ pc' = "references"
  /\ UNCHANGED <<allocated, freed, live_bitmap_, objectVars, threadVars,
                 weak_globals_, preserving_references_, is_marked_callback_,
                 queueVars, markVars, walkVars, runVars, operations>>

-----------------------------------------------------------------------------
(* ReclaimPhase.                                                           *)

reclaimFrame == <<spaceVars, roots, store, getting, referent, weakVars, enqueued,
                  walkVars, runVars, operations>>

\* ProcessReferences up to the first queue, with StartPreservingReferences when
\* soft references are preserved.
StartProcessing ==
  /\ pc = "references"
  /\ is_marked_callback_' = TRUE
  /\ preserving_references_' = ~clear_soft_references_
  /\ pc' = IF clear_soft_references_ THEN "clear" ELSE "preserve"
  /\ UNCHANGED <<reclaimFrame, objectVars, get_pc, slow_path_enabled_, queue,
                 cleared_references_, markVars>>

\* One turn of PreserveSomeSoftReferences.
PreserveSoftReference(r) ==
  /\ pc = "preserve"
  /\ r \in Pending({"soft"})
  /\ queue' = queue \ {r}
  /\ Mark({field[r]})
  /\ UNCHANGED <<reclaimFrame, objectVars, get_pc, processorVars,
                 cleared_references_, pc>>

\* One turn of EnqueueFinalizerReferences.
EnqueueFinalizerReference(f) ==
  /\ pc = "finalize"
  /\ f \in Pending({"finalizer"})
  /\ queue' = queue \ {f}
  /\ IF field[f] \in mark_bitmap_ \cup {Null}
       THEN UNCHANGED <<objectVars, markVars, cleared_references_>>
       ELSE /\ Mark({field[f]})
            /\ zombie' = [zombie EXCEPT ![f] = field[f]]
            /\ field' = [field EXCEPT ![f] = Null]
            /\ MarkCard(f)
            /\ cleared_references_' = cleared_references_ \cup {f}
  /\ UNCHANGED <<reclaimFrame, get_pc, processorVars, pc>>

\* One turn of ClearWhiteReferences.
ClearWhiteReference(r) ==
  /\ \/ pc = "clear" /\ r \in Pending({"soft", "weak"})
     \/ pc = "clear_again" /\ r \in Pending({"soft", "weak", "phantom"})
  /\ queue' = queue \ {r}
  /\ IF field[r] \in mark_bitmap_ \cup {Null}
       THEN UNCHANGED <<field, cleared_references_>>
       ELSE /\ field' = [field EXCEPT ![r] = Null]
            /\ cleared_references_' = cleared_references_ \cup {r}
  /\ UNCHANGED <<reclaimFrame, zombie, card, get_pc, processorVars, markVars, pc>>

\* Faulty: the finalizer references are taken before the others are cleared.
QueueProcessedEarly ==
  /\ \/ /\ pc = "preserve" /\ Pending({"soft"}) = {}
        /\ pc' = "preserve_mark"
        /\ UNCHANGED preserving_references_
     \/ /\ pc = "clear"
        /\ pc' = "finalize"
        /\ preserving_references_' = TRUE
     \/ /\ pc = "finalize" /\ Pending({"finalizer"}) = {}
        /\ pc' = "finalize_mark"
        /\ UNCHANGED preserving_references_
  /\ UNCHANGED <<reclaimFrame, objectVars, get_pc, slow_path_enabled_,
                 is_marked_callback_, queue, cleared_references_, markVars>>

\* The queue of the phase is empty: process_mark_stack_callback is next, or
\* StartPreservingReferences for the finalizers.
QueueProcessed ==
  /\ \/ /\ pc = "preserve" /\ Pending({"soft"}) = {}
        /\ pc' = "preserve_mark"
        /\ UNCHANGED preserving_references_
     \/ /\ pc = "clear" /\ Pending({"soft", "weak"}) = {}
        /\ pc' = "finalize"
        /\ preserving_references_' = TRUE
     \/ /\ pc = "finalize" /\ Pending({"finalizer"}) = {}
        /\ pc' = "finalize_mark"
        /\ UNCHANGED preserving_references_
  /\ UNCHANGED <<reclaimFrame, objectVars, get_pc, slow_path_enabled_,
                 is_marked_callback_, queue, cleared_references_, markVars>>

StopPreservingReferences ==
  /\ pc \in {"preserve_mark", "finalize_mark"}
  /\ mark_stack_ = {}
  /\ preserving_references_' = FALSE
  /\ Broadcast
  /\ pc' = IF pc = "preserve_mark" THEN "clear" ELSE "clear_again"
  /\ UNCHANGED <<reclaimFrame, objectVars, slow_path_enabled_,
                 is_marked_callback_, queue, cleared_references_, markVars>>

\* Faulty: the threads that wait in GetReferent are not woken.
DisableSlowPathSilently ==
  /\ pc = "clear_again"
  /\ Pending({"soft", "weak", "phantom"}) = {}
  /\ slow_path_enabled_' = FALSE
  /\ is_marked_callback_' = FALSE
  /\ pc' = "sweep_weaks"
  /\ UNCHANGED <<reclaimFrame, objectVars, get_pc, preserving_references_, queue,
                 cleared_references_, markVars>>

DisableSlowPath ==
  /\ pc = "clear_again"
  /\ Pending({"soft", "weak", "phantom"}) = {}
  /\ GetReferentIsAtomic => \A t \in Threads : get_pc[t] # "check"
  /\ slow_path_enabled_' = FALSE
  /\ is_marked_callback_' = FALSE
  /\ Broadcast
  /\ pc' = "sweep_weaks"
  /\ UNCHANGED <<reclaimFrame, objectVars, preserving_references_, queue,
                 cleared_references_, markVars>>

\* Runtime::SweepSystemWeaks
SweepSystemWeaks ==
  /\ pc = "sweep_weaks"
  /\ weak_globals_' = weak_globals_ \cap mark_bitmap_
  /\ pc' = "allow"
  /\ UNCHANGED <<spaceVars, objectVars, threadVars, allow_new_weak_globals_,
                 processorVars, queueVars, markVars, walkVars, runVars, operations>>

AllowNewSystemWeaks ==
  /\ pc = "allow"
  /\ allow_new_weak_globals_' = TRUE
  /\ pc' = "sweep"
  /\ UNCHANGED <<spaceVars, objectVars, threadVars, weak_globals_, processorVars,
                 queueVars, markVars, walkVars, runVars, operations>>

\* Faulty: the objects of the live stack are not entered in the live bitmap.
GarbageInBitmap == (IF gc_type = "sticky" THEN live_stack_ ELSE live_bitmap_) \ mark_bitmap_

\* What Sweep frees: MarkSweep::Sweep first enters the live stack in the live
\* bitmap, StickyMarkSweep::Sweep looks at the live stack only.
Garbage == (IF gc_type = "sticky" THEN live_stack_ ELSE live_bitmap_ \cup live_stack_)
             \ mark_bitmap_

\* Sweep, SwapBitmaps and UnBindBitmaps, under heap_bitmap_lock_.
Sweep ==
  /\ pc = "sweep"
  /\ allocated' = allocated \ Garbage
  /\ freed' = freed \cup Garbage
  /\ live_bitmap_' = mark_bitmap_
  /\ live_stack_' = {}
  /\ pc' = "finish"
  /\ UNCHANGED <<allocation_stack_, objectVars, threadVars, weakVars,
                 processorVars, queueVars, markVars, walkVars, runVars, operations>>

\* FinishPhase, then EnqueueClearedReferences.
FinishPhase ==
  /\ pc = "finish"
  /\ mark_bitmap_' = {}
  /\ enqueued' = enqueued \cup {f \in cleared_references_ : Kind[f] = "finalizer"}
  /\ cleared_references_' = {}
  /\ pc' = "idle"
  /\ UNCHANGED <<spaceVars, objectVars, threadVars, weakVars, processorVars,
                 queue, mark_stack_, walkVars, runVars, operations>>

-----------------------------------------------------------------------------

Collect ==
  \/ \E o \in Objects : \/ ScanCard(o) \/ ProcessMarkStack(o)
                        \/ PreserveSoftReference(o)
                        \/ EnqueueFinalizerReference(o)
                        \/ ClearWhiteReference(o)
  \/ MarkNonThreadRoots \/ StickyMarkReachableObjects \/ PreCleanCards
  \/ ScanAgedCards \/ PausePhase \/ EndPause
  \/ StartProcessing \/ QueueProcessed \/ StopPreservingReferences
  \/ DisableSlowPath \/ SweepSystemWeaks \/ AllowNewSystemWeaks \/ Sweep
  \/ FinishPhase

\* What a thread cannot put off: it finishes a store or a call it is in, and
\* runs a checkpoint at its next safe point.
Progress(t) ==
  FinishStore(t) \/ CheckSlowPath(t) \/ GetReferentSlow(t) \/ MarkThreadRoots(t)

Mutate(t) ==
  \/ \E o \in Objects : \/ AllocObject(t, o) \/ LoadField(t, o) \/ DropRoot(t, o)
                        \/ ClearField(t, o) \/ GetReferent(t, o)
                        \/ AddWeakGlobalReference(t, o) \/ DecodeWeakGlobal(t, o)
                        \/ RunFinalizer(t, o)
  \/ \E o, v \in Objects : \/ NewReference(t, o, v)
                           \/ \E first \in {"field", "card"} :
                                SetFieldObject(t, o, v, first)

Next ==
  \/ \E type \in {"full", "sticky"}, clear \in BOOLEAN : StartCollection(type, clear)
  \/ Collect
  \/ \E t \in Threads : Progress(t) \/ Mutate(t)

Spec == /\ Init /\ [][Next]_vars
        /\ WF_vars(Collect)
        /\ \A t \in Threads : WF_vars(Progress(t))

-----------------------------------------------------------------------------
(* Properties.                                                             *)

StronglyReachable == Closure(Stacks \cup FinalizerList, StrongEdges)

\* No object the program can still reach by strong references is freed, whatever
\* the threads load, store, drop, look up or finalize beside the collector.  An
\* object that GetReferent, a weak global or a finalizer handed out is reachable.
ReachableIsKept == StronglyReachable \cap freed = {}

\* A full collection frees every object that nothing referred to, not even
\* weakly, when it began: garbage floats for one collection at most.
GarbageIsFreed == (pc = "finish" /\ gc_type = "full") => doomed \cap allocated = {}

\* Once an object is on its way to its finalizer, no soft or weak reference that
\* a thread can reach leads to it: ProcessReferences clears before it enqueues
\* (the order of soft, weak, finalizer, phantom).  It holds until the system
\* weaks are open again: a JNI weak global can hand the object out after that.
ClearedBeforeFinalized ==
  pc \in {"finalize", "finalize_mark", "clear_again", "sweep_weaks", "allow"} =>
    \A f \in cleared_references_, r \in Closure(Stacks, StrongEdges) :
      (Kind[f] = "finalizer" /\ Kind[r] \in {"soft", "weak"}) => field[r] # zombie[f]

\* A thread that waits in GetReferent is still owed a broadcast: the slow path
\* is enabled, and DisableSlowPath broadcasts after it has disabled it.
NoForgottenWaiter == \A t \in Threads : get_pc[t] = "wait" => slow_path_enabled_
=============================================================================
