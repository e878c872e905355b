--------------------------- MODULE MarkSweep_proofs ---------------------------
(***************************************************************************)
(* Proofs about the collector of MarkSweep, for any number of threads, any *)
(* heap and any number of operations and collections: no strongly          *)
(* reachable object is freed, a full collection frees what was garbage     *)
(* when it began, references are cleared before their referents are        *)
(* finalized, and no thread is forgotten in GetReferent.                   *)
(***************************************************************************)
EXTENDS MarkSweep, TLAPS

-----------------------------------------------------------------------------
(* The inductive invariant.                                                *)

Marking == {"checkpoint", "gray", "checkpoint_again", "gray_again", "gray_paused"}
Preserving == {"preserve", "preserve_mark", "finalize", "finalize_mark"}
SlowPath == Preserving \cup {"references", "clear", "clear_again"}
WeaksClosed == SlowPath \cup {"sweep_weaks", "allow"}
Reclaiming == WeaksClosed \cup {"sweep"}
Phase == Marking \cup Reclaiming \cup {"idle", "finish"}

Stores == {<<>>} \cup ({"card", "field"} \X Objects \X Objects)

Types ==
  /\ allocated \subseteq Objects /\ freed \subseteq Objects
  /\ allocation_stack_ \subseteq Objects /\ live_stack_ \subseteq Objects
  /\ live_bitmap_ \subseteq Objects /\ mark_bitmap_ \subseteq Objects
  /\ mark_stack_ \subseteq Objects /\ gray \subseteq Objects
  /\ queue \subseteq Objects /\ cleared_references_ \subseteq Objects
  /\ enqueued \subseteq Objects /\ weak_globals_ \subseteq Objects
  /\ field \in [Objects -> Objects \cup {Null}]
  /\ zombie \in [Objects -> Objects \cup {Null}]
  /\ card \in [Objects -> {"clean", "aged", "dirty"}]
  /\ roots \in [Threads -> SUBSET Objects]
  /\ store \in [Threads -> Stores]
  /\ get_pc \in [Threads -> {"none", "check", "loop", "wait"}]
  /\ getting \in [Threads -> Objects \cup {Null}]
  /\ referent \in [Threads -> Objects \cup {Null}]
  /\ checkpoint \subseteq Threads
  /\ pc \in Phase /\ gc_type \in {"full", "sticky"}
  /\ clear_soft_references_ \in BOOLEAN

\* Which of the collector's structures are in use in which phase.
Phases ==
  /\ slow_path_enabled_ = (pc \in SlowPath)
  /\ preserving_references_ = (pc \in Preserving)
  /\ allow_new_weak_globals_ = (pc \notin WeaksClosed)
  /\ mark_stack_ # {} => pc \in Marking \cup Preserving
  /\ gray # {} => pc \in {"gray", "gray_again", "gray_paused"}
  /\ checkpoint # {} => pc \in {"checkpoint", "checkpoint_again"}
  /\ live_stack_ # {} => pc \in Reclaiming
  /\ pc = "idle" => mark_bitmap_ = {}
  /\ queue # {} => pc \in (Marking \cup SlowPath) \ {"checkpoint"}
  /\ pc = "finalize" => Pending({"soft", "weak"}) = {}
  /\ pc \in {"finalize_mark", "clear_again"} => Pending({"finalizer"}) = {}
  /\ cleared_references_ # {} => pc \in (Reclaiming \cup {"finish"}) \ {"references"}
  /\ pc \in {"preserve", "preserve_mark", "clear"} =>
       \A f \in cleared_references_ : Kind[f] # "finalizer"
  /\ pc = "finish" => mark_bitmap_ = live_bitmap_
  /\ (pc # "idle" /\ gc_type = "sticky") => live_bitmap_ \subseteq mark_bitmap_
  /\ (pc = "checkpoint" /\ gc_type = "full") => mark_bitmap_ = mark_stack_
  /\ Paused => \A t \in Threads : AtSafePoint(t)

\* Every allocated object is on one side of the allocation stack; what the
\* collector works on is allocated, and an object never allocated is empty.
Spaces ==
  /\ allocated \cap freed = {}
  /\ allocated = live_bitmap_ \cup live_stack_ \cup allocation_stack_
  /\ allocation_stack_ \cap (live_bitmap_ \cup live_stack_) = {}
  /\ mark_bitmap_ \subseteq allocated /\ mark_stack_ \subseteq mark_bitmap_
  /\ queue \subseteq mark_bitmap_ /\ \A r \in queue : IsReference(r)
  /\ cleared_references_ \subseteq mark_bitmap_ /\ enqueued \subseteq allocated
  /\ cleared_references_ \cap enqueued = {}
  /\ \A o \in Objects \ (allocated \cup freed) : field[o] = Null /\ zombie[o] = Null
  /\ \A r \in cleared_references_ \cup enqueued : IsReference(r) /\ field[r] = Null
  /\ \A f \in enqueued : Kind[f] = "finalizer"
  /\ \A f \in Objects : zombie[f] # Null =>
       Kind[f] = "finalizer" /\ f \in cleared_references_ \cup enqueued
  /\ \A f \in cleared_references_ : Kind[f] = "finalizer" => zombie[f] # Null

\* What the program holds is allocated; only the list of AddFinalizerReference
\* holds a FinalizerReference.
Program ==
  /\ \A o \in allocated : AllEdges(o) \subseteq allocated
  /\ \A t \in Threads : roots[t] \subseteq allocated
  /\ weak_globals_ \subseteq allocated
  /\ \A t \in Threads :
       /\ store[t] # <<>> =>
            /\ store[t][2] \in roots[t] /\ store[t][3] \in roots[t]
            /\ ~IsReference(store[t][2])
       /\ get_pc[t] # "none" =>
            /\ store[t] = <<>>
            /\ getting[t] \in roots[t] /\ Kind[getting[t]] \in {"soft", "weak"}
       /\ get_pc[t] = "check" => referent[t] \in allocated \cup {Null}
  /\ \A f \in Objects : Kind[f] = "finalizer" =>
       /\ f \notin weak_globals_
       /\ \A t \in Threads : f \notin roots[t] /\ referent[t] # f
       /\ \A o \in Objects : field[o] # f /\ zombie[o] # f

Unfinished(t, half) == store[t] # <<>> /\ store[t][1] = half

\* The write barrier has marked the card of o, or is about to.
Dirty(o) ==
  \/ card[o] = "dirty"
  \/ \E t \in Threads : Unfinished(t, "card") /\ store[t][2] = o

\* A store that marked the card first finds it unaged when it writes the field,
\* unless the checkpoint that the ageing waits for is still to come.
CardFirst ==
  \A t \in Threads : Unfinished(t, "field") =>
    \/ card[store[t][2]] = "dirty"
    \/ card[store[t][2]] = "aged" /\ t \in checkpoint

\* Between two collections a reference to an object outside the live bitmap has
\* left a dirty card; the sticky collector finds such objects on aged cards too.
Remembered ==
  (pc \in {"idle", "finish"} \/ (pc = "checkpoint" /\ gc_type = "sticky")) =>
    \A o \in allocated : \A v \in AllEdges(o) :
      v \in live_bitmap_ \/ Dirty(o) \/ (pc = "checkpoint" /\ card[o] = "aged")

\* The marked object o will be scanned (again) before the pause ends.
Rescan(o) ==
  \/ o \in mark_stack_ \cup gray
  \/ pc # "gray_paused" /\ Dirty(o)
  \/ pc = "checkpoint_again" /\ card[o] = "aged"

TriColour ==
  pc \in Marking \ {"checkpoint"} =>
    /\ \A o \in mark_bitmap_ : \A v \in AllEdges(o) :
         v \in mark_bitmap_ \/ Rescan(o) \/ (o \in queue /\ v = field[o])
    /\ Paused => /\ FinalizerList \subseteq mark_bitmap_
                 /\ \A t \in Threads : roots[t] \subseteq mark_bitmap_

\* What is marked or was allocated after the pause outlives the collection.
Kept == mark_bitmap_ \cup allocation_stack_

KeptEdges ==
  pc \in Reclaiming =>
    \A o \in Kept : \A v \in AllEdges(o) :
      \/ v \in mark_bitmap_
      \/ v \in allocation_stack_ /\ Dirty(o)
      \/ o \in mark_stack_
      \/ o \in queue /\ v = field[o]

KeptHeld ==
  /\ pc \in Reclaiming => mark_bitmap_ \cap allocation_stack_ = {}
  /\ pc = "allow" => weak_globals_ \subseteq mark_bitmap_
  /\ pc = "sweep" =>
       /\ FinalizerList \subseteq Kept
       /\ weak_globals_ \subseteq Kept
       /\ \A t \in Threads : roots[t] \subseteq Kept
       /\ \A t \in Threads : get_pc[t] = "check" => referent[t] \in Kept \cup {Null}

\* The threads stay inside B while the collector marks what only references
\* lead to: nothing outside B is written, and nothing new hangs off it.
Confined(B) ==
  /\ B \subseteq Kept /\ (pc \in {"references", "clear"} => B = Kept)
  /\ allocation_stack_ \subseteq B
  /\ FinalizerList \subseteq B
  /\ \A t \in Threads : roots[t] \subseteq B
  /\ B \cap mark_stack_ = {}
  /\ \A f \in enqueued : zombie[f] \in B \cup {Null}
  /\ \A o \in B : ~IsReference(o) => field[o] \in B \cup {Null}
  /\ \A x \in allocated \ B : AllEdges(x) \cap allocation_stack_ = {}
  /\ \A r \in queue : r \notin allocation_stack_ /\ field[r] \notin allocation_stack_
  /\ pc \in {"finalize", "finalize_mark", "clear_again", "sweep_weaks", "allow"} =>
       /\ \A r \in B : Kind[r] \in {"soft", "weak"} => field[r] \in B \cup {Null}
       /\ \A f \in cleared_references_ : Kind[f] = "finalizer" => zombie[f] \notin B
  /\ pc \in {"sweep_weaks", "allow"} =>
       \A t \in Threads : get_pc[t] = "check" => referent[t] \in B \cup {Null}

Confinement == pc \in WeaksClosed => \E B \in SUBSET Objects : Confined(B)

CollectorInv ==
  /\ Types /\ Phases /\ Spaces /\ Program /\ CardFirst
  /\ Remembered /\ TriColour /\ KeptEdges /\ KeptHeld /\ Confinement

\* What was garbage when a full collection began is out of everyone's reach.
Unreachable ==
  /\ doomed \subseteq allocated
  /\ doomed \cap (mark_bitmap_ \cup FinalizerList \cup weak_globals_) = {}
  /\ \A t \in Threads : doomed \cap roots[t] = {} /\ referent[t] \notin doomed
  /\ \A o \in allocated \ doomed : AllEdges(o) \cap doomed = {}
  /\ pc \in Reclaiming => doomed \cap allocation_stack_ = {}

\* It stays there, unmarked, until it is swept.
Doomed ==
  (pc # "idle" /\ gc_type = "full") => IF pc = "finish" THEN doomed \subseteq freed ELSE Unreachable

-----------------------------------------------------------------------------
(* Lemmas about the data.                                                  *)

\* Object addresses are positive, so null is not among them.
LEMMA NullIsNoObject == Null \notin Objects
BY MarkSweepAssumption DEF MarkSweepAssumption, Objects, Null

\* The parts of a store in progress.
LEMMA StoreShape ==
  ASSUME NEW s \in Stores, s # <<>>
  PROVE  s[1] \in {"card", "field"} /\ s[2] \in Objects /\ s[3] \in Objects
BY Zenon DEF Stores

\* A store in progress as SetFieldObject makes it.
LEMMA StoreMade ==
  ASSUME NEW half \in {"card", "field"}, NEW o \in Objects, NEW v \in Objects
  PROVE  /\ <<half, o, v>> \in Stores /\ <<half, o, v>> # <<>>
         /\ <<half, o, v>>[1] = half /\ <<half, o, v>>[2] = o /\ <<half, o, v>>[3] = v
BY Zenon DEF Stores

\* After the pause whatever a thread holds, and every FinalizerReference, is kept.
LEMMA HeldIsKept ==
  ASSUME CollectorInv, pc \in Reclaiming
  PROVE  FinalizerList \subseteq Kept /\ \A t \in Threads : roots[t] \subseteq Kept
<1>1. CASE pc \in WeaksClosed
  BY <1>1, Zenon DEF CollectorInv, Confinement, Confined
<1>2. CASE pc = "sweep"
  BY <1>2, Zenon DEF CollectorInv, KeptHeld
<1> QED
  BY <1>1, <1>2, Zenon DEF Reclaiming

-----------------------------------------------------------------------------
(* The mutators.                                                           *)

\* A step outside the pause that leaves the collector's side alone.
CollectorKept ==
  /\ ~Paused
  /\ UNCHANGED <<live_stack_, live_bitmap_, allow_new_weak_globals_, processorVars, queue,
                 cleared_references_, markVars, gcVars>>

\* It keeps the structures that the phase has in use.
LEMMA CollectorKeptPhases ==
  ASSUME CollectorInv, CollectorKept
  PROVE  Phases'
<1>1. /\ pc' = pc /\ slow_path_enabled_' = slow_path_enabled_
      /\ preserving_references_' = preserving_references_
      /\ allow_new_weak_globals_' = allow_new_weak_globals_
      /\ mark_stack_' = mark_stack_ /\ gray' = gray /\ checkpoint' = checkpoint
      /\ live_stack_' = live_stack_ /\ mark_bitmap_' = mark_bitmap_ /\ queue' = queue
      /\ cleared_references_' = cleared_references_ /\ live_bitmap_' = live_bitmap_
      /\ gc_type' = gc_type /\ ~Paused
  BY Zenon DEF CollectorKept, processorVars, markVars, gcVars, walkVars, runVars
<1>2. ~Paused' /\ \A K : Pending(K)' = Pending(K)
  BY <1>1, Zenon DEF Paused, Pending
<1> QED
  BY <1>1, <1>2, ZenonT(30) DEF CollectorInv, Phases

\* A step outside the pause that adds no edge to the heap.
NoNewEdge ==
  /\ CollectorKept
  /\ UNCHANGED <<allocated, allocation_stack_, card, store>>
  /\ \A x \in Objects : field'[x] \in {field[x], Null} /\ zombie'[x] \in {zombie[x], Null}

\* Such a step leaves the collector as much to do as it had, or less.
LEMMA NoNewEdgeStep ==
  ASSUME CollectorInv, NoNewEdge
  PROVE  /\ CardFirst' /\ Remembered' /\ TriColour' /\ KeptEdges'
         /\ \A x \in Objects : AllEdges(x)' \subseteq AllEdges(x)
<1>1. /\ pc' = pc /\ gc_type' = gc_type /\ checkpoint' = checkpoint /\ gray' = gray
      /\ mark_stack_' = mark_stack_ /\ mark_bitmap_' = mark_bitmap_ /\ queue' = queue
      /\ live_bitmap_' = live_bitmap_ /\ allocated' = allocated /\ card' = card /\ store' = store
      /\ allocation_stack_' = allocation_stack_ /\ ~Paused /\ ~Paused'
  BY Zenon DEF NoNewEdge, CollectorKept, markVars, gcVars, walkVars, runVars, Paused
<1>2. \A x : (Dirty(x)' <=> Dirty(x)) /\ (Rescan(x)' <=> Rescan(x))
  BY <1>1, Zenon DEF Dirty, Rescan, Unfinished
<1>3. ASSUME NEW x \in Objects, NEW w \in AllEdges(x)'
      PROVE  w \in AllEdges(x) /\ (w = field[x] => w = field'[x])
  <2>1. w # Null /\ w \in {field'[x], zombie'[x]}
    BY <1>3, Zenon DEF AllEdges
  <2>2. field'[x] \in {field[x], Null} /\ zombie'[x] \in {zombie[x], Null}
    BY Zenon DEF NoNewEdge
  <2>3. zombie[x] # Null => field[x] = Null
    BY Zenon DEF CollectorInv, Spaces
  <2> QED
    BY <2>1, <2>2, <2>3, Zenon DEF AllEdges
<1>4. mark_bitmap_ \subseteq Objects /\ allocated \subseteq Objects /\ Kept \subseteq Objects
  BY Zenon DEF CollectorInv, Types, Kept
<1>5. CardFirst'
  BY <1>1, Zenon DEF CollectorInv, CardFirst, Unfinished
<1>6. Remembered'
  BY <1>1, <1>2, <1>3, <1>4, Zenon DEF CollectorInv, Remembered
<1>7. TriColour'
  BY <1>1, <1>2, <1>3, <1>4, Zenon DEF CollectorInv, TriColour
<1>8. KeptEdges'
  BY <1>1, <1>2, <1>3, <1>4, Zenon DEF CollectorInv, KeptEdges, Kept
<1> QED
  BY <1>3, <1>5, <1>6, <1>7, <1>8, Zenon

\* A step that changes only what thread t holds and where it is in GetReferent.
ThreadOnly(t) ==
  /\ ~Paused /\ store[t] = <<>>
  /\ UNCHANGED <<spaceVars, objectVars, store, weakVars, collectorVars>>
  /\ roots' \in [Threads -> SUBSET Objects]
  /\ get_pc' \in [Threads -> {"none", "check", "loop", "wait"}]
  /\ getting' \in [Threads -> Objects \cup {Null}]
  /\ referent' \in [Threads -> Objects \cup {Null}]
  /\ \A u \in Threads \ {t} : /\ roots'[u] = roots[u] /\ get_pc'[u] = get_pc[u]
                              /\ getting'[u] = getting[u] /\ referent'[u] = referent[u]

\* What t holds after the step lies in the region that the phase of the
\* collector confines it to.
HoldsAllowed(t) ==
  /\ roots'[t] \subseteq allocated /\ \A o \in roots'[t] : Kind[o] # "finalizer"
  /\ referent'[t] # Null => Kind[referent'[t]] # "finalizer"
  /\ get_pc'[t] # "none" =>
       getting'[t] \in roots'[t] /\ Kind[getting'[t]] \in {"soft", "weak"}
  /\ get_pc'[t] = "check" => referent'[t] \in allocated \cup {Null}
  /\ pc \in WeaksClosed => \A B \in SUBSET Objects : Confined(B) =>
       /\ roots'[t] \subseteq B
       /\ (get_pc'[t] = "check" /\ pc \in {"sweep_weaks", "allow"}) =>
            referent'[t] \in B \cup {Null}
  /\ pc = "sweep" =>
       /\ roots'[t] \subseteq Kept
       /\ get_pc'[t] = "check" => referent'[t] \in Kept \cup {Null}

\* Such a step keeps the invariant.
LEMMA ThreadStep ==
  ASSUME CollectorInv, NEW t \in Threads, ThreadOnly(t), HoldsAllowed(t)
  PROVE  CollectorInv'
<1> USE NullIsNoObject
<1>1. Types'
  BY Zenon
     DEF CollectorInv, Types, ThreadOnly, spaceVars, objectVars, weakVars, collectorVars,
         processorVars, queueVars, markVars, gcVars, walkVars, runVars
<1>2. CollectorKept /\ NoNewEdge
  BY Zenon
     DEF ThreadOnly, CollectorKept, NoNewEdge, spaceVars, objectVars, weakVars, collectorVars,
         queueVars
<1>3. Spaces'
  BY Zenon
     DEF CollectorInv, Spaces, IsReference, ThreadOnly, spaceVars, objectVars, collectorVars,
         queueVars, markVars
<1>4. Program'
  <2>1. /\ allocated' = allocated /\ field' = field /\ zombie' = zombie /\ store' = store
        /\ weak_globals_' = weak_globals_
    BY Zenon DEF ThreadOnly, spaceVars, objectVars, weakVars
  <2>2. \A x : AllEdges(x)' = AllEdges(x)
    BY <2>1, Zenon DEF AllEdges
  <2>3. ASSUME NEW u \in Threads
        PROVE  /\ roots'[u] \subseteq allocated
               /\ store[u] # <<>> =>
                    /\ store[u][2] \in roots'[u] /\ store[u][3] \in roots'[u]
                    /\ ~IsReference(store[u][2])
               /\ get_pc'[u] # "none" =>
                    /\ store[u] = <<>>
                    /\ getting'[u] \in roots'[u] /\ Kind[getting'[u]] \in {"soft", "weak"}
               /\ get_pc'[u] = "check" => referent'[u] \in allocated \cup {Null}
               /\ \A f \in Objects : Kind[f] = "finalizer" => f \notin roots'[u] /\ referent'[u] # f
    <3>1. CASE u = t
      BY <3>1, ZenonT(40) DEF ThreadOnly, HoldsAllowed
    <3>2. CASE u # t
      <4>1. /\ roots'[u] = roots[u] /\ get_pc'[u] = get_pc[u]
            /\ getting'[u] = getting[u] /\ referent'[u] = referent[u]
        BY <3>2, Zenon DEF ThreadOnly
      <4> QED
        BY <4>1, ZenonT(40) DEF CollectorInv, Program
    <3> QED
      BY <3>1, <3>2, Zenon
  <2> QED
    BY <2>1, <2>2, <2>3, Zenon DEF CollectorInv, Program, IsReference
<1>5. Phases' /\ CardFirst' /\ Remembered' /\ TriColour' /\ KeptEdges'
  BY <1>2, CollectorKeptPhases, NoNewEdgeStep, Zenon
<1> USE DEF CollectorInv, ThreadOnly, spaceVars, objectVars, weakVars, collectorVars,
            processorVars, queueVars, markVars, gcVars, walkVars, runVars
<1>7. KeptHeld'
  BY Zenon DEF Types, KeptHeld, Kept, FinalizerList, HoldsAllowed
<1>8. Confinement'
  <2> SUFFICES ASSUME pc \in WeaksClosed
               PROVE  \E B \in SUBSET Objects : Confined(B)'
    BY Zenon DEF Confinement
  <2>1. PICK B \in SUBSET Objects : Confined(B)
    BY Zenon DEF Confinement
  <2>2. /\ roots'[t] \subseteq B
        /\ (get_pc'[t] = "check" /\ pc \in {"sweep_weaks", "allow"}) =>
             referent'[t] \in B \cup {Null}
    BY <2>1, Zenon DEF HoldsAllowed
  <2>3. Confined(B)'
    BY <2>1, <2>2, Zenon DEF Confined, Types, Kept, AllEdges, FinalizerList, IsReference
  <2> QED
    BY <2>3, Zenon
<1> QED
  BY <1>1, <1>3, <1>4, <1>5, <1>7, <1>8, Zenon

\* LoadField: a field of an object the thread holds leads to one it may hold.
LEMMA LoadFieldStep ==
  ASSUME CollectorInv, NEW t \in Threads, NEW o \in Objects, LoadField(t, o)
  PROVE  CollectorInv'
<1> USE NullIsNoObject
<1>1. ThreadOnly(t) /\ get_pc'[t] = "none" /\ referent'[t] = referent[t]
  BY DEF CollectorInv, Types, ThreadOnly, LoadField, Operate, AtSafePoint, Hold, getVars
<1>2. roots'[t] = roots[t] \cup ({field[o]} \ {Null}) /\ o \in roots[t] /\ ~IsReference(o)
  BY Zenon DEF CollectorInv, Types, LoadField, Hold
<1>3. /\ roots'[t] \subseteq allocated
      /\ \A x \in roots'[t] : Kind[x] # "finalizer"
      /\ referent[t] # Null => Kind[referent[t]] # "finalizer"
  BY <1>2, ZenonT(40) DEF CollectorInv, Types, Program, AllEdges
<1>4. pc \in WeaksClosed => \A B \in SUBSET Objects : Confined(B) => roots'[t] \subseteq B
  BY <1>2, ZenonT(40) DEF Confined
<1>5. pc = "sweep" => roots'[t] \subseteq Kept
  BY <1>2, Zenon DEF CollectorInv, Types, Phases, Spaces, KeptHeld, KeptEdges, AllEdges, Kept,
         Reclaiming, Marking, Preserving, SlowPath
<1>6. HoldsAllowed(t)
  BY <1>1, <1>3, <1>4, <1>5, Zenon DEF HoldsAllowed
<1> QED
  BY <1>1, <1>6, ThreadStep, Zenon

\* DropRoot: the thread holds less.
LEMMA DropRootStep ==
  ASSUME CollectorInv, NEW t \in Threads, NEW o \in Objects, DropRoot(t, o)
  PROVE  CollectorInv'
<1> USE NullIsNoObject
<1>1. ThreadOnly(t) /\ get_pc'[t] = "none" /\ referent'[t] = referent[t]
  BY Zenon DEF CollectorInv, Types, ThreadOnly, DropRoot, Operate, AtSafePoint, getVars
<1>2. roots'[t] \subseteq roots[t]
  BY Zenon DEF CollectorInv, Types, DropRoot
<1>3. HoldsAllowed(t)
  BY <1>1, <1>2, ZenonT(40) DEF HoldsAllowed, CollectorInv, Types, Program, KeptHeld, Confined
<1> QED
  BY <1>1, <1>3, ThreadStep, Zenon

\* DecodeWeakGlobal: the system weaks are open only while the collection keeps
\* every one of them.
LEMMA DecodeWeakGlobalStep ==
  ASSUME CollectorInv, NEW t \in Threads, NEW o \in Objects, DecodeWeakGlobal(t, o)
  PROVE  CollectorInv'
<1> USE NullIsNoObject
<1>1. ThreadOnly(t) /\ get_pc'[t] = "none" /\ referent'[t] = referent[t]
  BY Zenon
     DEF CollectorInv, Types, ThreadOnly, DecodeWeakGlobal, Operate, AtSafePoint, Hold, getVars
<1>2. roots'[t] = roots[t] \cup {o} /\ o \in weak_globals_ /\ pc \notin WeaksClosed
  BY Zenon DEF CollectorInv, Types, Phases, DecodeWeakGlobal, Hold
<1>3. HoldsAllowed(t)
  BY <1>1, <1>2, SMTT(30) DEF HoldsAllowed, CollectorInv, Types, Program, KeptHeld
<1> QED
  BY <1>1, <1>3, ThreadStep, Zenon

\* What the referent of a reference may be in each phase.
LEMMA ReferentAllowed ==
  ASSUME CollectorInv, NEW t \in Threads, NEW r \in roots[t], Kind[r] \in {"soft", "weak"}
  PROVE  /\ r \in Objects /\ field[r] \in allocated \cup {Null}
         /\ field[r] # Null => Kind[field[r]] # "finalizer"
         /\ pc \in {"finalize", "finalize_mark", "clear_again", "sweep_weaks", "allow"} =>
              \A B \in SUBSET Objects : Confined(B) => field[r] \in B \cup {Null}
         /\ pc = "sweep" => field[r] \in Kept \cup {Null}
<1> USE NullIsNoObject
<1>1. /\ r \in Objects /\ r \in allocated /\ field[r] \in allocated \cup {Null}
      /\ field[r] # Null => Kind[field[r]] # "finalizer"
  BY DEF CollectorInv, Types, Program, AllEdges
<1>2. pc \in {"finalize", "finalize_mark", "clear_again", "sweep_weaks", "allow"} =>
        \A B \in SUBSET Objects : Confined(B) => field[r] \in B \cup {Null}
  BY Zenon DEF Confined
<1>3. pc = "sweep" => field[r] \in Kept \cup {Null}
  BY <1>1, Zenon DEF CollectorInv, Types, Phases, KeptHeld, KeptEdges, AllEdges, Kept,
         Reclaiming, Marking, Preserving, SlowPath
<1> QED
  BY <1>1, <1>2, <1>3, Zenon

\* GetReferent: the first read.
LEMMA GetReferentStep ==
  ASSUME CollectorInv, NEW t \in Threads, NEW r \in Objects, GetReferent(t, r)
  PROVE  CollectorInv'
<1> USE NullIsNoObject
<1>1. r \in roots[t] /\ Kind[r] \in {"soft", "weak"}
  BY Zenon DEF GetReferent
<1>2. /\ ThreadOnly(t) /\ get_pc'[t] = "check" /\ getting'[t] = r
      /\ referent'[t] = field[r] /\ roots'[t] = roots[t]
  BY Zenon
     DEF CollectorInv, Types, ThreadOnly, GetReferent, Operate, AtSafePoint, Hold, getVars
<1>3. HoldsAllowed(t)
  BY <1>1, <1>2, ReferentAllowed, ZenonT(40)
     DEF HoldsAllowed, CollectorInv, Types, Program, KeptHeld, Confined
<1> QED
  BY <1>2, <1>3, ThreadStep, Zenon

\* A thread inside GetReferent is not at a safe point.
LEMMA InGetReferent ==
  ASSUME CollectorInv, NEW t \in Threads, get_pc[t] # "none"
  PROVE  /\ ~Paused /\ store[t] = <<>>
         /\ getting[t] \in roots[t] /\ Kind[getting[t]] \in {"soft", "weak"}
BY Zenon DEF CollectorInv, Phases, Program, AtSafePoint

\* The fast path of GetReferent: while the slow path is off, what the first read
\* returned is kept (this is what GetReferentIsAtomic buys).
LEMMA CheckSlowPathStep ==
  ASSUME CollectorInv, NEW t \in Threads, CheckSlowPath(t)
  PROVE  CollectorInv'
<1> USE NullIsNoObject
<1>1. get_pc[t] = "check"
  BY Zenon DEF CheckSlowPath
<1>2. /\ ~Paused /\ store[t] = <<>>
      /\ getting[t] \in roots[t] /\ Kind[getting[t]] \in {"soft", "weak"}
  BY <1>1, InGetReferent, Zenon
<1>3. slow_path_enabled_ = (pc \in SlowPath)
  BY Zenon DEF CollectorInv, Phases
<1>4. CASE ~slow_path_enabled_ \/ referent[t] = Null
  <2>1. /\ ThreadOnly(t) /\ get_pc'[t] = "none" /\ referent'[t] = Null
        /\ roots'[t] = roots[t] \cup ({referent[t]} \ {Null})
    BY <1>2, <1>4, SMTT(30)
       DEF CollectorInv, Types, ThreadOnly, CheckSlowPath, ReturnReferent, Hold
  <2>2. referent[t] # Null => pc \notin SlowPath
    BY <1>3, <1>4, Zenon
  <2>3. /\ referent[t] \in allocated \cup {Null}
        /\ referent[t] # Null => Kind[referent[t]] # "finalizer"
    BY <1>1, Zenon DEF CollectorInv, Types, Program
  <2>4. /\ pc \in WeaksClosed => \A B \in SUBSET Objects : Confined(B) => roots'[t] \subseteq B
        /\ pc = "sweep" => roots'[t] \subseteq Kept
    BY <1>1, <2>1, <2>2 DEF Confined, CollectorInv, KeptHeld, WeaksClosed
  <2>5. HoldsAllowed(t)
    BY <2>1, <2>3, <2>4, Zenon DEF HoldsAllowed, CollectorInv, Types, Program
  <2> QED
    BY <2>1, <2>5, ThreadStep, Zenon
<1>5. CASE ~(~slow_path_enabled_ \/ referent[t] = Null)
  <2>1. /\ ThreadOnly(t) /\ get_pc'[t] = "loop" /\ referent'[t] = referent[t]
        /\ roots'[t] = roots[t] /\ getting'[t] = getting[t]
    BY <1>2, <1>5, ZenonT(40) DEF CollectorInv, Types, ThreadOnly, CheckSlowPath
  <2>2. HoldsAllowed(t)
    BY <1>2, <2>1, ZenonT(40) DEF HoldsAllowed, CollectorInv, Types, Program, KeptHeld, Confined
  <2> QED
    BY <2>1, <2>2, ThreadStep, Zenon
<1> QED
  BY <1>4, <1>5, Zenon

\* The loop of GetReferent: it returns a referent only when no mark is still
\* being propagated from references, so the thread cannot see half-marked objects.
LEMMA GetReferentSlowStep ==
  ASSUME CollectorInv, NEW t \in Threads, GetReferentSlow(t)
  PROVE  CollectorInv'
<1> USE NullIsNoObject
<1> DEFINE r == getting[t]
<1>1. get_pc[t] = "loop"
  BY Zenon DEF GetReferentSlow
<1>2. ~Paused /\ store[t] = <<>> /\ r \in roots[t] /\ Kind[r] \in {"soft", "weak"}
  BY <1>1, InGetReferent, Zenon
<1>3. /\ slow_path_enabled_ = (pc \in SlowPath)
      /\ preserving_references_ = (pc \in Preserving)
  BY Zenon DEF CollectorInv, Phases
<1>4. CASE ~slow_path_enabled_ \/ (~preserving_references_ /\ is_marked_callback_
                                     /\ field[r] \in mark_bitmap_)
  <2>1. /\ ThreadOnly(t) /\ get_pc'[t] = "none" /\ referent'[t] = Null
        /\ roots'[t] = roots[t] \cup ({field[r]} \ {Null})
    BY <1>1, <1>2, <1>4, SMTT(30)
       DEF CollectorInv, Types, ThreadOnly, GetReferentSlow, ReturnReferent, Hold
  <2>2. pc \in WeaksClosed =>
          \/ pc \in {"clear_again", "sweep_weaks", "allow"}
          \/ pc \in {"references", "clear"} /\ field[r] \in mark_bitmap_
    BY <1>3, <1>4, Zenon DEF WeaksClosed, SlowPath
  <2>3. /\ pc \in WeaksClosed => \A B \in SUBSET Objects : Confined(B) => field[r] \in B \cup {Null}
        /\ pc = "sweep" => field[r] \in Kept \cup {Null}
    BY <1>2, <2>2, ReferentAllowed, Zenon DEF Confined, Kept
  <2>4. HoldsAllowed(t)
    <3> HIDE DEF r
    <3> QED
      BY <1>2, <2>1, <2>3, ReferentAllowed, SMTT(30)
         DEF HoldsAllowed, CollectorInv, Types, Program, KeptHeld, Confined
  <2> QED
    BY <2>1, <2>4, ThreadStep, Zenon
<1>5. CASE ~(~slow_path_enabled_ \/ (~preserving_references_ /\ is_marked_callback_
                                       /\ field[r] \in mark_bitmap_))
  <2>1. /\ ThreadOnly(t) /\ get_pc'[t] = "wait" /\ referent'[t] = referent[t]
        /\ roots'[t] = roots[t] /\ getting'[t] = getting[t]
    BY <1>2, <1>5, ZenonT(40) DEF CollectorInv, Types, ThreadOnly, GetReferentSlow
  <2>2. HoldsAllowed(t)
    BY <1>2, <2>1, ZenonT(40) DEF HoldsAllowed, CollectorInv, Types, Program, KeptHeld, Confined
  <2> QED
    BY <2>1, <2>2, ThreadStep, Zenon
<1> QED
  BY <1>4, <1>5, Zenon

\* The allocation of r by thread t, whose first reference, if any, is to the
\* object v that t holds.
NewObject(t, r, v) ==
  /\ ~Paused /\ AtSafePoint(t)
  /\ r \notin allocated /\ r \notin freed
  /\ v = Null \/ (v \in roots[t] /\ IsReference(r) /\ card'[r] = "dirty")
  /\ allocated' = allocated \cup {r}
  /\ allocation_stack_' = allocation_stack_ \cup {r}
  /\ field' \in [Objects -> Objects \cup {Null}]
  /\ \A x \in Objects \ {r} : field'[x] = field[x]
  /\ field'[r] = v
  /\ card' \in [Objects -> {"clean", "aged", "dirty"}]
  /\ \A x \in Objects \ {r} : card'[x] = card[x]
  /\ card'[r] \in {card[r], "dirty"}
  /\ roots' \in [Threads -> SUBSET Objects]
  /\ \A u \in Threads : roots[u] \subseteq roots'[u] /\ roots'[u] \subseteq roots[u] \cup {r}
  /\ Kind[r] = "finalizer" => roots' = roots
  /\ UNCHANGED <<freed, live_stack_, live_bitmap_, zombie, store, getVars, weakVars,
                 collectorVars>>

\* Nothing refers to an object before its allocation.
LEMMA NewObjectIsFresh ==
  ASSUME CollectorInv, NEW t \in Threads, NEW r \in Objects, NEW v, NewObject(t, r, v)
  PROVE  /\ zombie[r] = Null /\ field[r] = Null
         /\ v \in allocated \cup {Null} /\ v # r
         /\ r \notin live_bitmap_ /\ r \notin live_stack_ /\ r \notin mark_bitmap_
         /\ r \notin mark_stack_ /\ r \notin queue /\ r \notin cleared_references_
         /\ r \notin enqueued /\ r \notin weak_globals_
         /\ \A x \in allocated : r \notin AllEdges(x) /\ AllEdges(x) \subseteq allocated
         /\ \A u \in Threads : r \notin roots[u]
<1>1. r \notin allocated /\ r \notin freed /\ (v = Null \/ v \in roots[t])
  BY Zenon DEF NewObject
<1>2. zombie[r] = Null /\ field[r] = Null
  BY <1>1, Zenon DEF CollectorInv, Spaces
<1>3. v \in allocated \cup {Null} /\ v # r
  BY <1>1, NullIsNoObject, ZenonT(40) DEF CollectorInv, Program
<1>4. /\ live_bitmap_ \subseteq allocated /\ live_stack_ \subseteq allocated
      /\ mark_bitmap_ \subseteq allocated /\ mark_stack_ \subseteq mark_bitmap_
      /\ queue \subseteq mark_bitmap_ /\ cleared_references_ \subseteq mark_bitmap_
      /\ enqueued \subseteq allocated
  BY Zenon DEF CollectorInv, Spaces
<1>5. /\ weak_globals_ \subseteq allocated
      /\ \A x \in allocated : AllEdges(x) \subseteq allocated
      /\ \A u \in Threads : roots[u] \subseteq allocated
  BY Zenon DEF CollectorInv, Program
<1> QED
  BY <1>1, <1>2, <1>3, <1>4, <1>5, Zenon

\* An allocation keeps the invariant: the new object is unmarked and on the
\* allocation stack, and its card is dirty if it has a reference.
LEMMA NewObjectStep ==
  ASSUME CollectorInv, NEW t \in Threads, NEW r \in Objects, NEW v, NewObject(t, r, v)
  PROVE  CollectorInv'
<1> USE NullIsNoObject
<1>0. /\ zombie[r] = Null /\ field[r] = Null
      /\ v \in allocated \cup {Null} /\ v # r
      /\ r \notin live_bitmap_ /\ r \notin live_stack_ /\ r \notin mark_bitmap_
      /\ r \notin mark_stack_ /\ r \notin queue /\ r \notin cleared_references_
      /\ r \notin enqueued /\ r \notin weak_globals_
      /\ \A x \in allocated : r \notin AllEdges(x) /\ AllEdges(x) \subseteq allocated
      /\ \A u \in Threads : r \notin roots[u]
  BY NewObjectIsFresh, Zenon
<1>1. /\ pc' = pc /\ gc_type' = gc_type /\ checkpoint' = checkpoint /\ gray' = gray
      /\ mark_stack_' = mark_stack_ /\ mark_bitmap_' = mark_bitmap_ /\ queue' = queue
      /\ cleared_references_' = cleared_references_ /\ enqueued' = enqueued
      /\ freed' = freed /\ live_stack_' = live_stack_ /\ live_bitmap_' = live_bitmap_
      /\ weak_globals_' = weak_globals_ /\ zombie' = zombie /\ store' = store
      /\ get_pc' = get_pc /\ getting' = getting /\ referent' = referent
      /\ clear_soft_references_' = clear_soft_references_ /\ ~Paused /\ ~Paused'
  BY Zenon
     DEF NewObject, getVars, weakVars, collectorVars, queueVars, markVars, gcVars, walkVars, runVars,
         Paused
<1>2. /\ allocated' = allocated \cup {r} /\ allocation_stack_' = allocation_stack_ \cup {r}
      /\ r \notin allocated /\ r \notin freed
  BY Zenon DEF NewObject
<1>3. /\ v = Null \/ (v \in roots[t] /\ IsReference(r) /\ card'[r] = "dirty")
      /\ \A x \in Objects \ {r} : field'[x] = field[x] /\ card'[x] = card[x]
      /\ field'[r] = v /\ card'[r] \in {card[r], "dirty"}
  BY Zenon DEF NewObject
<1>4. /\ \A u \in Threads : roots[u] \subseteq roots'[u] /\ roots'[u] \subseteq roots[u] \cup {r}
      /\ Kind[r] = "finalizer" => roots' = roots
  BY Zenon DEF NewObject
<1>5. /\ \A x \in Objects \ {r} : AllEdges(x)' = AllEdges(x)
      /\ AllEdges(r)' = {v} \ {Null}
  BY <1>1, <1>3, <1>0, Zenon DEF AllEdges
<1>6. /\ \A x \in Objects : (Dirty(x) => Dirty(x)') /\ (x # r => (Rescan(x) => Rescan(x)'))
      /\ v # Null => Dirty(r)'
  BY <1>1, <1>3, Zenon DEF Dirty, Rescan, Unfinished
<1>7. Types'
  <2>1. /\ field' \in [Objects -> Objects \cup {Null}]
        /\ card' \in [Objects -> {"clean", "aged", "dirty"}]
        /\ roots' \in [Threads -> SUBSET Objects]
    BY Zenon DEF NewObject
  <2> QED
    BY <1>1, <1>2, <2>1, Zenon DEF CollectorInv, Types
<1>8. Phases'
  <2>1. CollectorKept
    BY Zenon DEF NewObject, CollectorKept, weakVars, collectorVars, queueVars
  <2> QED
    BY <2>1, CollectorKeptPhases, Zenon
<1>9. Spaces'
  <2>1. /\ allocated' \cap freed' = {}
        /\ allocated' = live_bitmap_' \cup live_stack_' \cup allocation_stack_'
        /\ allocation_stack_' \cap (live_bitmap_' \cup live_stack_') = {}
        /\ mark_bitmap_' \subseteq allocated' /\ enqueued' \subseteq allocated'
    BY <1>1, <1>2, <1>0, SMT DEF CollectorInv, Spaces
  <2>2. /\ \A o \in Objects \ (allocated' \cup freed') : field'[o] = Null /\ zombie'[o] = Null
        /\ \A q \in cleared_references_ \cup enqueued : field'[q] = Null
    BY <1>1, <1>2, <1>3, <1>0, SMT DEF CollectorInv, Types, Spaces
  <2> QED
    BY <1>1, <2>1, <2>2, Zenon DEF CollectorInv, Spaces, IsReference
<1>10. Program'
  <2>1. \A x \in allocated' : AllEdges(x)' \subseteq allocated'
    BY <1>2, <1>5, <1>0, SMT DEF CollectorInv, Types
  <2>2. \A u \in Threads : roots'[u] \subseteq allocated'
    BY <1>2, <1>4, Zenon DEF CollectorInv, Program
  <2>3. ASSUME NEW u \in Threads
        PROVE  /\ store[u] # <<>> =>
                    /\ store[u][2] \in roots'[u] /\ store[u][3] \in roots'[u]
                    /\ ~IsReference(store[u][2])
               /\ get_pc[u] # "none" =>
                    /\ store[u] = <<>>
                    /\ getting[u] \in roots'[u] /\ Kind[getting[u]] \in {"soft", "weak"}
               /\ get_pc[u] = "check" => referent[u] \in allocated' \cup {Null}
    BY <1>2, <1>4, Zenon DEF CollectorInv, Program
  <2>4. ASSUME NEW f \in Objects, Kind[f] = "finalizer"
        PROVE  /\ f \notin weak_globals_
               /\ \A u \in Threads : f \notin roots'[u] /\ referent[u] # f
               /\ \A x \in Objects : field'[x] # f /\ zombie[x] # f
    <3>1. /\ f \notin weak_globals_
          /\ \A u \in Threads : f \notin roots[u] /\ referent[u] # f
          /\ \A x \in Objects : field[x] # f /\ zombie[x] # f
      BY <2>4, Zenon DEF CollectorInv, Program
    <3>2. v # f
      BY <1>3, <3>1, Zenon
    <3> QED
      BY <1>3, <1>4, <2>4, <3>1, <3>2, Zenon
  <2>5. weak_globals_ \subseteq allocated'
    BY <1>2, Zenon DEF CollectorInv, Program
  <2> QED
    BY <1>1, <2>1, <2>2, <2>3, <2>4, <2>5, Zenon DEF Program, IsReference
<1>11. CardFirst'
  <2>1. ASSUME NEW u \in Threads, Unfinished(u, "field")
        PROVE  store[u][2] \in Objects \ {r}
    BY <1>2, <2>1, SMT DEF CollectorInv, Types, Program, Unfinished
  <2> QED
    BY <1>1, <1>3, <2>1, Zenon DEF CollectorInv, CardFirst, Unfinished
<1>12. Remembered'
  <2> SUFFICES ASSUME pc \in {"idle", "finish"} \/ (pc = "checkpoint" /\ gc_type = "sticky"),
                      NEW x \in allocated', NEW w \in AllEdges(x)'
               PROVE  w \in live_bitmap_ \/ Dirty(x)' \/ (pc = "checkpoint" /\ card'[x] = "aged")
    BY <1>1, Zenon DEF Remembered
  <2>1. CASE x = r
    BY <1>5, <1>6, <2>1, Zenon
  <2>2. CASE x # r
    <3>1. x \in Objects /\ x \in allocated /\ w \in AllEdges(x) /\ card'[x] = card[x]
      BY <1>2, <1>3, <1>5, <2>2, ZenonT(40) DEF CollectorInv, Types
    <3> QED
      BY <1>6, <3>1, Zenon DEF CollectorInv, Remembered
  <2> QED
    BY <2>1, <2>2, Zenon
<1>13. TriColour'
  <2>1. \A x \in mark_bitmap_ : x \in Objects \ {r}
    BY <1>0, Zenon DEF CollectorInv, Types
  <2> QED
    BY <1>1, <1>3, <1>5, <1>6, <2>1, Zenon DEF CollectorInv, TriColour
<1>14. KeptEdges'
  <2> SUFFICES ASSUME pc \in Reclaiming, NEW x \in Kept', NEW w \in AllEdges(x)'
               PROVE  \/ w \in mark_bitmap_
                      \/ w \in allocation_stack_' /\ Dirty(x)'
                      \/ x \in mark_stack_
                      \/ x \in queue /\ w = field'[x]
    BY <1>1, Zenon DEF KeptEdges
  <2>1. CASE x = r
    <3>1. w = v /\ v # Null /\ v \in roots[t]
      BY <1>3, <1>5, <2>1, Zenon
    <3>2. v \in mark_bitmap_ \cup allocation_stack_
      BY <3>1, HeldIsKept, Zenon DEF Kept
    <3> QED
      BY <1>2, <1>6, <2>1, <3>1, <3>2, Zenon
  <2>2. CASE x # r
    <3>1. x \in Kept /\ x \in Objects
      BY <1>1, <1>2, <2>2, Zenon DEF Kept, CollectorInv, Types
    <3>2. w \in AllEdges(x) /\ field'[x] = field[x]
      BY <1>3, <1>5, <2>2, <3>1, Zenon
    <3> QED
      BY <1>2, <1>6, <3>1, <3>2, Zenon DEF CollectorInv, KeptEdges
  <2> QED
    BY <2>1, <2>2, Zenon
<1>15. Kept' = Kept \cup {r} /\ FinalizerList' \subseteq FinalizerList \cup {r}
  BY <1>1, <1>2, Zenon DEF Kept, FinalizerList
<1>16. KeptHeld'
  <2>1. pc \in Reclaiming => mark_bitmap_ \cap allocation_stack_' = {}
    BY <1>2, <1>0, Zenon DEF CollectorInv, KeptHeld
  <2>2. pc = "allow" => weak_globals_ \subseteq mark_bitmap_
    BY Zenon DEF CollectorInv, KeptHeld
  <2>3. pc = "sweep" =>
          /\ FinalizerList' \subseteq Kept'
          /\ weak_globals_ \subseteq Kept'
          /\ \A u \in Threads : roots'[u] \subseteq Kept'
          /\ \A u \in Threads : get_pc[u] = "check" => referent[u] \in Kept' \cup {Null}
    BY <1>4, <1>15, Zenon DEF CollectorInv, KeptHeld
  <2> QED
    BY <1>1, <2>1, <2>2, <2>3, Zenon DEF KeptHeld
<1>17. Confinement'
  <2> SUFFICES ASSUME pc \in WeaksClosed
               PROVE  \E B \in SUBSET Objects : Confined(B)'
    BY <1>1, Zenon DEF Confinement
  <2>1. PICK B \in SUBSET Objects : Confined(B)
    BY Zenon DEF CollectorInv, Confinement
  <2> DEFINE C == B \cup {r}
  <2>2. /\ C \subseteq Kept' /\ (pc \in {"references", "clear"} => C = Kept')
        /\ allocation_stack_' \subseteq C /\ FinalizerList' \subseteq C
        /\ \A u \in Threads : roots'[u] \subseteq C
    BY <1>2, <1>4, <1>15, <2>1, Zenon DEF Confined
  <2>3. /\ C \cap mark_stack_ = {}
        /\ \A f \in enqueued : zombie[f] \in C \cup {Null}
    BY <2>1, <1>0, Zenon DEF Confined
  <2>4. v \in B \cup {Null}
    BY <1>3, <2>1, Zenon DEF Confined
  <2>5. \A x \in C : ~IsReference(x) => field'[x] \in C \cup {Null}
    <3>1. \A x \in B : ~IsReference(x) => field[x] \in B \cup {Null}
      BY <2>1, Zenon DEF Confined
    <3> QED
      BY <1>3, <2>4, <3>1, Zenon
  <2>6. \A x \in allocated' \ C : AllEdges(x)' \cap allocation_stack_' = {}
    <3>1. \A x \in allocated \ B : AllEdges(x) \cap allocation_stack_ = {}
      BY <2>1, Zenon DEF Confined
    <3>2. \A x \in allocated' \ C : x \in allocated \ B /\ AllEdges(x)' = AllEdges(x)
      BY <1>2, <1>5, Zenon DEF CollectorInv, Types
    <3> QED
      BY <1>2, <3>1, <3>2, <1>0, SMT
  <2>7. \A q \in queue : q \notin allocation_stack_' /\ field'[q] \notin allocation_stack_'
    <3>1. \A q \in queue : q \notin allocation_stack_ /\ field[q] \notin allocation_stack_
      BY <2>1, Zenon DEF Confined
    <3>2. \A q \in queue : q \in allocated /\ q \in Objects \ {r}
      BY <1>0, Zenon DEF CollectorInv, Types, Spaces
    <3>3. \A q \in queue : field'[q] = field[q] /\ field[q] # r
      BY <1>3, <3>2, <1>0, Zenon DEF AllEdges
    <3> QED
      BY <1>2, <3>1, <3>2, <3>3, Zenon
  <2>8. pc \in {"finalize", "finalize_mark", "clear_again", "sweep_weaks", "allow"} =>
          /\ \A q \in C : Kind[q] \in {"soft", "weak"} => field'[q] \in C \cup {Null}
          /\ \A f \in cleared_references_ : Kind[f] = "finalizer" => zombie[f] \notin C
    <3>1. \A f \in cleared_references_ : zombie[f] # r
      BY <1>0, Zenon DEF CollectorInv, Types, Spaces, AllEdges
    <3>2. pc \in {"finalize", "finalize_mark", "clear_again", "sweep_weaks", "allow"} =>
            /\ \A q \in B : Kind[q] \in {"soft", "weak"} => field[q] \in B \cup {Null}
            /\ \A f \in cleared_references_ : Kind[f] = "finalizer" => zombie[f] \notin B
      BY <2>1, Zenon DEF Confined
    <3> QED
      BY <1>3, <2>4, <3>1, <3>2, Zenon
  <2>9. pc \in {"sweep_weaks", "allow"} =>
          \A u \in Threads : get_pc[u] = "check" => referent[u] \in C \cup {Null}
    BY <2>1, Zenon DEF Confined
  <2>10. Confined(C)'
    BY <1>1, <2>2, <2>3, <2>5, <2>6, <2>7, <2>8, <2>9, Zenon DEF Confined, IsReference
  <2> QED
    BY <2>10, Zenon
<1> QED
  BY <1>7, <1>8, <1>9, <1>10, <1>11, <1>12, <1>13, <1>14, <1>16, <1>17, Zenon DEF CollectorInv

\* AllocObject: the new object is empty.
LEMMA AllocObjectStep ==
  ASSUME CollectorInv, NEW t \in Threads, NEW o \in Objects, AllocObject(t, o)
  PROVE  CollectorInv'
<1>1. /\ field \in [Objects -> Objects \cup {Null}]
      /\ card \in [Objects -> {"clean", "aged", "dirty"}]
      /\ roots \in [Threads -> SUBSET Objects]
  BY Zenon DEF CollectorInv, Types
<1>2. field[o] = Null
  BY Zenon DEF AllocObject, Allocate, CollectorInv, Spaces
<1>3. Kind[o] # "finalizer"
  BY Zenon DEF AllocObject, IsReference, RefKinds
<1>4. /\ roots' \in [Threads -> SUBSET Objects]
      /\ \A u \in Threads : roots[u] \subseteq roots'[u] /\ roots'[u] \subseteq roots[u] \cup {o}
  BY <1>1, Zenon DEF AllocObject, Hold
<1>5. NewObject(t, o, Null)
  BY <1>1, <1>2, <1>3, <1>4, Zenon DEF AllocObject, Allocate, Operate, NewObject
<1> QED
  BY <1>5, NewObjectStep, Zenon

\* NewReference: the card of the new reference is dirty, and its referent is an
\* object the thread holds.
LEMMA NewReferenceStep ==
  ASSUME CollectorInv, NEW t \in Threads, NEW r \in Objects, NEW o \in Objects,
         NewReference(t, r, o)
  PROVE  CollectorInv'
<1>1. /\ field \in [Objects -> Objects \cup {Null}]
      /\ card \in [Objects -> {"clean", "aged", "dirty"}]
      /\ roots \in [Threads -> SUBSET Objects]
  BY Zenon DEF CollectorInv, Types
<1>2. /\ field' \in [Objects -> Objects \cup {Null}]
      /\ \A x \in Objects \ {r} : field'[x] = field[x]
      /\ field'[r] = o
  BY <1>1, Zenon DEF NewReference
<1>3. /\ card' \in [Objects -> {"clean", "aged", "dirty"}]
      /\ \A x \in Objects \ {r} : card'[x] = card[x]
      /\ card'[r] = "dirty"
  BY <1>1, Zenon DEF NewReference, MarkCard
<1>4. /\ roots' \in [Threads -> SUBSET Objects]
      /\ \A u \in Threads : roots[u] \subseteq roots'[u] /\ roots'[u] \subseteq roots[u] \cup {r}
      /\ Kind[r] = "finalizer" => roots' = roots
  BY <1>1, SMT DEF NewReference, Hold
<1>5. NewObject(t, r, o)
  BY <1>2, <1>3, <1>4, Zenon DEF NewReference, Allocate, Operate, NewObject
<1> QED
  BY <1>5, NewObjectStep, Zenon

\* ClearField: an edge disappears.
LEMMA ClearFieldStep ==
  ASSUME CollectorInv, NEW t \in Threads, NEW o \in Objects, ClearField(t, o)
  PROVE  CollectorInv'
<1>1. /\ CollectorKept
      /\ UNCHANGED <<spaceVars, zombie, card, threadVars, weakVars, collectorVars>>
  BY Zenon
     DEF ClearField, Operate, CollectorKept, spaceVars, weakVars, collectorVars, queueVars
<1>2. /\ field' \in [Objects -> Objects \cup {Null}]
      /\ \A x \in Objects : field'[x] \in {field[x], Null}
  BY Zenon DEF CollectorInv, Types, ClearField
<1>3. NoNewEdge
  BY <1>1, <1>2, Zenon DEF NoNewEdge, spaceVars, threadVars
<1>4. Phases' /\ CardFirst' /\ Remembered' /\ TriColour' /\ KeptEdges'
  BY <1>1, <1>3, CollectorKeptPhases, NoNewEdgeStep, Zenon
<1> USE DEF spaceVars, threadVars, getVars, weakVars, collectorVars, queueVars, markVars, gcVars,
            walkVars, runVars
<1>5. Types'
  BY <1>1, <1>2, Zenon DEF CollectorInv, Types
<1>6. Spaces'
  BY <1>1, <1>2, Zenon DEF CollectorInv, Types, Spaces, IsReference
<1>7. Program'
  <2>1. \A x \in allocated : AllEdges(x)' \subseteq allocated
    BY <1>3, NoNewEdgeStep, Zenon DEF CollectorInv, Types, Program
  <2>2. \A f \in Objects : Kind[f] = "finalizer" => \A x \in Objects : field'[x] # f
    BY <1>2, NullIsNoObject, Zenon DEF CollectorInv, Program
  <2> QED
    BY <1>1, <2>1, <2>2, Zenon DEF CollectorInv, Program, IsReference
<1>8. KeptHeld'
  BY <1>1, Zenon DEF CollectorInv, KeptHeld, Kept, FinalizerList
<1>9. Confinement'
  <2> SUFFICES ASSUME pc \in WeaksClosed
               PROVE  \E B \in SUBSET Objects : Confined(B)'
    BY <1>1, Zenon DEF Confinement
  <2>1. PICK B \in SUBSET Objects : Confined(B)
    BY Zenon DEF CollectorInv, Confinement
  <2>2. Confined(B)'
    <3>1. \A x \in B : field[x] \in B \cup {Null} => field'[x] \in B \cup {Null}
      BY <1>2, <2>1, Zenon DEF Confined
    <3>2. \A x \in allocated \ B : AllEdges(x)' \cap allocation_stack_ = {}
      BY <1>3, <2>1, NoNewEdgeStep, Zenon DEF Confined, CollectorInv, Types
    <3>3. \A q \in queue : q \notin allocation_stack_ /\ field'[q] \notin allocation_stack_
      BY <1>2, <2>1, NullIsNoObject, SMT DEF Confined, CollectorInv, Types
    <3> QED
      BY <1>1, <2>1, <3>1, <3>2, <3>3, Zenon DEF Confined, Kept, FinalizerList, IsReference
  <2> QED
    BY <2>2, Zenon
<1> QED
  BY <1>4, <1>5, <1>6, <1>7, <1>8, <1>9, Zenon DEF CollectorInv

\* AddWeakGlobalReference: only while the system weaks are open.
LEMMA AddWeakGlobalReferenceStep ==
  ASSUME CollectorInv, NEW t \in Threads, NEW o \in Objects, AddWeakGlobalReference(t, o)
  PROVE  CollectorInv'
<1>1. /\ CollectorKept /\ allow_new_weak_globals_
      /\ o \in roots[t] /\ ~IsReference(o) /\ weak_globals_' = weak_globals_ \cup {o}
      /\ UNCHANGED <<spaceVars, objectVars, threadVars, collectorVars>>
  BY Zenon
     DEF AddWeakGlobalReference, Operate, CollectorKept, spaceVars, collectorVars, queueVars
<1>2. pc \notin WeaksClosed /\ o \in allocated
  BY <1>1, Zenon DEF CollectorInv, Phases, Program
<1>3. NoNewEdge
  BY <1>1, Zenon DEF NoNewEdge, spaceVars, objectVars, threadVars
<1>4. Phases' /\ CardFirst' /\ Remembered' /\ TriColour' /\ KeptEdges'
  BY <1>1, <1>3, CollectorKeptPhases, NoNewEdgeStep, Zenon
<1> USE DEF spaceVars, objectVars, threadVars, getVars, collectorVars, queueVars, markVars, gcVars,
            walkVars, runVars
<1>5. Types'
  BY <1>1, Zenon DEF CollectorInv, Types
<1>6. Spaces'
  BY <1>1, Zenon DEF CollectorInv, Spaces, IsReference
<1>7. Program'
  <2>1. /\ weak_globals_' \subseteq allocated
        /\ \A f \in Objects : Kind[f] = "finalizer" => f \notin weak_globals_'
    BY <1>1, <1>2, Zenon DEF CollectorInv, Program
  <2>2. \A x : AllEdges(x)' = AllEdges(x)
    BY <1>1, Zenon DEF AllEdges
  <2> QED
    BY <1>1, <2>1, <2>2, Zenon DEF CollectorInv, Program, IsReference
<1>8. KeptHeld'
  <2>1. pc # "allow" /\ pc' = pc
    BY <1>1, <1>2, Zenon DEF WeaksClosed
  <2>2. pc = "sweep" => weak_globals_' \subseteq Kept
    <3>1. pc = "sweep" => o \in Kept
      BY <1>1, HeldIsKept, Zenon DEF Reclaiming
    <3> QED
      BY <1>1, <3>1, Zenon DEF CollectorInv, KeptHeld
  <2> QED
    BY <1>1, <2>1, <2>2, Zenon DEF CollectorInv, KeptHeld, Kept, FinalizerList
<1>9. Confinement'
  BY <1>1, <1>2, Zenon DEF Confinement
<1> QED
  BY <1>4, <1>5, <1>6, <1>7, <1>8, <1>9, Zenon DEF CollectorInv

\* RunFinalizer: the thread takes the zombie and clears it.
LEMMA RunFinalizerStep ==
  ASSUME CollectorInv, NEW t \in Threads, NEW f \in Objects, RunFinalizer(t, f)
  PROVE  CollectorInv'
<1>1. /\ CollectorKept /\ AtSafePoint(t)
      /\ f \in enqueued /\ enqueued' = enqueued \ {f}
      /\ UNCHANGED <<spaceVars, field, card, store, getVars, weakVars, processorVars, queue,
                     cleared_references_, markVars, gcVars>>
  BY Zenon DEF RunFinalizer, Operate, CollectorKept, spaceVars, weakVars
<1>2. /\ zombie' \in [Objects -> Objects \cup {Null}]
      /\ \A x \in Objects : zombie'[x] \in {zombie[x], Null} /\ (x # f => zombie'[x] = zombie[x])
      /\ zombie'[f] = Null
  BY Zenon DEF CollectorInv, Types, RunFinalizer
<1>3. \A u \in Threads : /\ roots[u] \subseteq roots'[u]
                         /\ roots'[u] \subseteq roots[u] \cup ({zombie[f]} \ {Null})
  BY Zenon DEF CollectorInv, Types, RunFinalizer, Hold
<1>4. /\ f \in allocated /\ f \in FinalizerList
      /\ zombie[f] # Null => zombie[f] \in AllEdges(f) /\ zombie[f] \in allocated
      /\ zombie[f] # Null => zombie[f] \in Objects /\ Kind[zombie[f]] # "finalizer"
  <2>1. f \in allocated /\ f \in FinalizerList
    BY <1>1, Zenon DEF CollectorInv, Spaces, FinalizerList
  <2>2. zombie[f] # Null => zombie[f] \in AllEdges(f) /\ zombie[f] \in allocated
    BY <2>1, Zenon DEF AllEdges, CollectorInv, Program
  <2>3. zombie[f] # Null => zombie[f] \in Objects
    BY <2>2, Zenon DEF CollectorInv, Types
  <2>4. \A g \in Objects : Kind[g] = "finalizer" => zombie[f] # g
    BY Zenon DEF CollectorInv, Program
  <2> QED
    BY <2>1, <2>2, <2>3, <2>4, Zenon
<1>5. NoNewEdge
  BY <1>1, <1>2, Zenon DEF NoNewEdge, spaceVars
<1>6. Phases' /\ CardFirst' /\ Remembered' /\ TriColour' /\ KeptEdges'
  BY <1>1, <1>5, CollectorKeptPhases, NoNewEdgeStep, Zenon
<1> USE DEF spaceVars, getVars, weakVars, markVars, gcVars, walkVars, runVars
<1>7. Types'
  <2>1. roots' \in [Threads -> SUBSET Objects]
    BY <1>4, Zenon DEF CollectorInv, Types, RunFinalizer, Hold
  <2> QED
    BY <1>1, <1>2, <2>1, Zenon DEF CollectorInv, Types
<1>8. Spaces'
  <2>1. /\ enqueued' \subseteq allocated /\ cleared_references_ \cap enqueued' = {}
        /\ \A r \in cleared_references_ \cup enqueued' : IsReference(r) /\ field[r] = Null
        /\ \A g \in enqueued' : Kind[g] = "finalizer"
    BY <1>1, Zenon DEF CollectorInv, Spaces
  <2>2. /\ \A x \in Objects \ (allocated \cup freed) : field[x] = Null /\ zombie'[x] = Null
        /\ \A g \in Objects : zombie'[g] # Null =>
             Kind[g] = "finalizer" /\ g \in cleared_references_ \cup enqueued'
    BY <1>1, <1>2, Zenon DEF CollectorInv, Spaces
  <2>3. \A g \in cleared_references_ : Kind[g] = "finalizer" => zombie'[g] # Null
    BY <1>1, <1>2, ZenonT(40) DEF CollectorInv, Types, Spaces
  <2> QED
    BY <1>1, <2>1, <2>2, <2>3, Zenon DEF CollectorInv, Spaces, IsReference
<1>9. Program'
  <2>1. \A x \in allocated : AllEdges(x)' \subseteq allocated
    BY <1>5, NoNewEdgeStep, Zenon DEF CollectorInv, Types, Program
  <2>2. \A u \in Threads : roots'[u] \subseteq allocated
    BY <1>3, <1>4, SMT DEF CollectorInv, Program
  <2>3. \A u \in Threads :
          /\ store[u] # <<>> =>
               /\ store[u][2] \in roots'[u] /\ store[u][3] \in roots'[u]
               /\ ~IsReference(store[u][2])
          /\ get_pc[u] # "none" =>
               /\ store[u] = <<>>
               /\ getting[u] \in roots'[u] /\ Kind[getting[u]] \in {"soft", "weak"}
    BY <1>3, SMT DEF CollectorInv, Program
  <2>4. \A g \in Objects : Kind[g] = "finalizer" =>
          /\ \A u \in Threads : g \notin roots'[u]
          /\ \A x \in Objects : zombie'[x] # g
    BY <1>2, <1>3, <1>4, NullIsNoObject, SMT DEF CollectorInv, Program
  <2> QED
    BY <1>1, <2>1, <2>2, <2>3, <2>4, Zenon DEF CollectorInv, Program, IsReference
<1>10. KeptHeld'
  <2>1. ASSUME pc = "sweep" PROVE zombie[f] \in Kept \cup {Null}
    <3>1. f \in Kept /\ pc \in Reclaiming
      BY <1>4, <2>1, HeldIsKept, Zenon DEF Reclaiming
    <3>2. f \notin mark_stack_ /\ f \notin queue
      BY <2>1, Zenon
         DEF CollectorInv, Phases, Marking, Preserving, SlowPath
    <3> QED
      BY <1>4, <3>1, <3>2, Zenon DEF CollectorInv, KeptEdges, Kept
  <2>2. pc = "sweep" => \A u \in Threads : roots'[u] \subseteq Kept
    BY <1>3, <2>1, Zenon DEF CollectorInv, KeptHeld
  <2> QED
    BY <1>1, <2>2, Zenon DEF CollectorInv, KeptHeld, Kept, FinalizerList
<1>11. Confinement'
  <2> SUFFICES ASSUME pc \in WeaksClosed
               PROVE  \E B \in SUBSET Objects : Confined(B)'
    BY <1>1, Zenon DEF Confinement
  <2>1. PICK B \in SUBSET Objects : Confined(B)
    BY Zenon DEF CollectorInv, Confinement
  <2>2. Confined(B)'
    <3>1. zombie[f] \in B \cup {Null}
      BY <1>1, <2>1, Zenon DEF Confined
    <3>2. /\ \A u \in Threads : roots'[u] \subseteq B
          /\ \A g \in enqueued' : zombie'[g] \in B \cup {Null}
      BY <1>1, <1>2, <1>3, <2>1, <3>1, SMT DEF Confined, CollectorInv, Types
    <3>3. \A x \in allocated \ B : AllEdges(x)' \cap allocation_stack_ = {}
      BY <1>5, <2>1, NoNewEdgeStep, Zenon DEF Confined, CollectorInv, Types
    <3>4. pc \in {"finalize", "finalize_mark", "clear_again", "sweep_weaks", "allow"} =>
            \A g \in cleared_references_ : Kind[g] = "finalizer" => zombie'[g] \notin B
      BY <1>2, <2>1, NullIsNoObject, Zenon DEF Confined, CollectorInv, Types
    <3> QED
      BY <1>1, <2>1, <3>2, <3>3, <3>4, Zenon DEF Confined, Kept, FinalizerList, IsReference
  <2> QED
    BY <2>2, Zenon
<1> QED
  BY <1>6, <1>7, <1>8, <1>9, <1>10, <1>11, Zenon DEF CollectorInv

\* One of the two writes of a store of v into the field of o: the write barrier
\* has the card of o dirty by the time the field changes, or is about to.
HalfStore(t, o, v) ==
  /\ ~Paused /\ get_pc[t] = "none"
  /\ o \in roots[t] /\ v \in roots[t] /\ ~IsReference(o)
  /\ UNCHANGED <<spaceVars, zombie, roots, getVars, weakVars, collectorVars>>
  /\ field' \in [Objects -> Objects \cup {Null}]
  /\ card' \in [Objects -> {"clean", "aged", "dirty"}]
  /\ store' \in [Threads -> Stores]
  /\ \A x \in Objects \ {o} : field'[x] = field[x]
  /\ field'[o] \in {field[o], v}
  /\ \A x \in Objects : card'[x] \in {card[x], "dirty"}
  /\ \A x \in Objects : Dirty(x) => Dirty(x)'
  /\ field'[o] # field[o] => Dirty(o)' \/ (card'[o] = "aged" /\ t \in checkpoint)
  /\ \A u \in Threads \ {t} : store'[u] = store[u]
  /\ store'[t] # <<>> => /\ store'[t][2] = o /\ store'[t][3] = v
                         /\ store'[t][1] = "field" => card'[o] = "dirty"

\* Such a write keeps the invariant.
LEMMA HalfStoreStep ==
  ASSUME CollectorInv, NEW t \in Threads, NEW o \in Objects, NEW v \in Objects, HalfStore(t, o, v)
  PROVE  CollectorInv'
<1> USE NullIsNoObject
<1>0. CollectorKept
  BY Zenon DEF HalfStore, CollectorKept, spaceVars, weakVars, collectorVars, queueVars
<1>1. /\ pc' = pc /\ gc_type' = gc_type /\ checkpoint' = checkpoint /\ gray' = gray
      /\ mark_stack_' = mark_stack_ /\ mark_bitmap_' = mark_bitmap_ /\ queue' = queue
      /\ cleared_references_' = cleared_references_ /\ enqueued' = enqueued
      /\ allocated' = allocated /\ freed' = freed /\ live_stack_' = live_stack_
      /\ live_bitmap_' = live_bitmap_ /\ allocation_stack_' = allocation_stack_
      /\ weak_globals_' = weak_globals_ /\ zombie' = zombie /\ roots' = roots
      /\ get_pc' = get_pc /\ getting' = getting /\ referent' = referent
      /\ clear_soft_references_' = clear_soft_references_ /\ ~Paused /\ ~Paused'
  BY Zenon
     DEF HalfStore, spaceVars, getVars, weakVars, collectorVars, queueVars, markVars, gcVars,
         walkVars, runVars, Paused
<1>2. /\ get_pc[t] = "none" /\ o \in roots[t] /\ v \in roots[t] /\ ~IsReference(o)
      /\ \A x \in Objects \ {o} : field'[x] = field[x]
      /\ field'[o] \in {field[o], v}
      /\ \A x \in Objects : card'[x] \in {card[x], "dirty"}
      /\ \A x \in Objects : Dirty(x) => Dirty(x)'
      /\ field'[o] # field[o] => Dirty(o)' \/ (card'[o] = "aged" /\ t \in checkpoint)
  BY Zenon DEF HalfStore
<1>3. /\ \A u \in Threads \ {t} : store'[u] = store[u]
      /\ store'[t] # <<>> => /\ store'[t][2] = o /\ store'[t][3] = v
                             /\ store'[t][1] = "field" => card'[o] = "dirty"
  BY Zenon DEF HalfStore
<1>4. /\ o \in allocated /\ v \in allocated /\ Kind[v] # "finalizer"
      /\ o \notin queue /\ o \notin cleared_references_ /\ o \notin enqueued
  BY <1>2, Zenon DEF CollectorInv, Spaces, Program
<1>5. zombie[o] = Null
  BY <1>4, Zenon DEF CollectorInv, Spaces
<1>6. /\ \A x \in Objects \ {o} : AllEdges(x)' = AllEdges(x)
      /\ \A w \in AllEdges(o)' : w \in AllEdges(o) \/ w = v
      /\ \A w \in AllEdges(o)' : w \notin AllEdges(o) =>
           w = v /\ (Dirty(o)' \/ (card'[o] = "aged" /\ t \in checkpoint))
  BY <1>1, <1>2, <1>5, Zenon DEF AllEdges
<1>7. \A x \in Objects : card[x] = "aged" => card'[x] = "aged" \/ Dirty(x)'
  BY <1>2, Zenon DEF Dirty
<1>8. allocated \subseteq Objects /\ mark_bitmap_ \subseteq Objects /\ Kept \subseteq Objects
  BY Zenon DEF CollectorInv, Types, Kept
<1>9. Types'
  <2>1. /\ field' \in [Objects -> Objects \cup {Null}] /\ store' \in [Threads -> Stores]
        /\ card' \in [Objects -> {"clean", "aged", "dirty"}]
    BY Zenon DEF HalfStore
  <2> QED
    BY <1>1, <2>1, Zenon DEF CollectorInv, Types
<1>10. Phases'
  BY <1>0, CollectorKeptPhases, Zenon
<1>11. Spaces'
  <2>1. /\ \A x \in Objects \ (allocated \cup freed) : field'[x] = Null
        /\ \A r \in cleared_references_ \cup enqueued : field'[r] = Null
    <3>1. cleared_references_ \cup enqueued \subseteq Objects \ {o}
      BY <1>4, Zenon DEF CollectorInv, Types
    <3> QED
      BY <1>2, <1>4, <3>1, ZenonT(40) DEF CollectorInv, Spaces
  <2> QED
    BY <1>1, <2>1, Zenon DEF CollectorInv, Spaces, IsReference
<1>12. Program'
  <2>1. \A x \in allocated : AllEdges(x)' \subseteq allocated
    <3>1. \A x \in allocated : AllEdges(x) \subseteq allocated /\ x \in Objects
      BY <1>8, Zenon DEF CollectorInv, Program
    <3> QED
      BY <1>4, <1>6, <3>1, Zenon
  <2>2. \A u \in Threads :
          /\ store'[u] # <<>> =>
               /\ store'[u][2] \in roots[u] /\ store'[u][3] \in roots[u]
               /\ ~IsReference(store'[u][2])
          /\ get_pc[u] # "none" => store'[u] = <<>>
    <3>1. \A u \in Threads \ {t} :
            /\ store[u] # <<>> =>
                 /\ store[u][2] \in roots[u] /\ store[u][3] \in roots[u]
                 /\ ~IsReference(store[u][2])
            /\ get_pc[u] # "none" => store[u] = <<>>
      BY Zenon DEF CollectorInv, Program
    <3> QED
      BY <1>2, <1>3, <3>1, ZenonT(40)
  <2>3. ASSUME NEW f \in Objects, Kind[f] = "finalizer", NEW x \in Objects PROVE field'[x] # f
    <3>1. field[x] # f /\ v # f
      BY <1>4, <2>3, Zenon DEF CollectorInv, Program
    <3> QED
      BY <1>2, <3>1, Zenon
  <2> QED
    BY <1>1, <2>1, <2>2, <2>3, Zenon DEF CollectorInv, Program, IsReference
<1>13. CardFirst'
  <2> SUFFICES ASSUME NEW u \in Threads, Unfinished(u, "field")'
               PROVE  \/ card'[store'[u][2]] = "dirty"
                      \/ card'[store'[u][2]] = "aged" /\ u \in checkpoint
    BY <1>1, Zenon DEF CardFirst
  <2>1. CASE u = t
    BY <1>3, <2>1, Zenon DEF Unfinished
  <2>2. CASE u # t
    <3>1. store'[u] = store[u] /\ Unfinished(u, "field")
      BY <1>3, <2>2, Zenon DEF Unfinished
    <3>2. \/ card[store[u][2]] = "dirty"
          \/ card[store[u][2]] = "aged" /\ u \in checkpoint
      BY <3>1, Zenon DEF CollectorInv, CardFirst
    <3>3. store[u][2] \in Objects
      BY <3>1, StoreShape, Zenon DEF CollectorInv, Types, Unfinished
    <3> QED
      BY <1>2, <3>1, <3>2, <3>3, Zenon
  <2> QED
    BY <2>1, <2>2, Zenon
<1>14. Remembered'
  <2>1. SUFFICES ASSUME pc \in {"idle", "finish"} \/ (pc = "checkpoint" /\ gc_type = "sticky"),
                        NEW x \in allocated, NEW w \in AllEdges(x)'
                 PROVE  w \in live_bitmap_ \/ Dirty(x)' \/ (pc = "checkpoint" /\ card'[x] = "aged")
    BY <1>1, Zenon DEF Remembered
  <2>2. x \in Objects
    BY <1>8, Zenon
  <2>3. CASE w \in AllEdges(x)
    <3>1. w \in live_bitmap_ \/ Dirty(x) \/ (pc = "checkpoint" /\ card[x] = "aged")
      BY <2>1, <2>3, Zenon DEF CollectorInv, Remembered
    <3> QED
      BY <1>2, <1>7, <2>2, <3>1, Zenon
  <2>4. CASE w \notin AllEdges(x)
    <3>1. checkpoint # {} => pc = "checkpoint"
      BY <2>1, Zenon DEF CollectorInv, Phases
    <3> QED
      BY <1>6, <2>2, <2>4, <3>1, Zenon
  <2> QED
    BY <2>3, <2>4, Zenon
<1>15. TriColour'
  <2> SUFFICES ASSUME pc \in Marking \ {"checkpoint"}, NEW x \in mark_bitmap_, NEW w \in AllEdges(x)'
               PROVE  w \in mark_bitmap_ \/ Rescan(x)' \/ (x \in queue /\ w = field'[x])
    BY <1>1, Zenon DEF TriColour
  <2>1. Rescan(x) => Rescan(x)'
    BY <1>1, <1>2, <1>7, <1>8, Zenon DEF Rescan
  <2>2. CASE w \in AllEdges(x)
    <3>1. w \in mark_bitmap_ \/ Rescan(x) \/ (x \in queue /\ w = field[x])
      BY <2>2, Zenon DEF CollectorInv, TriColour
    <3>2. x \in queue => field'[x] = field[x]
      BY <1>2, <1>4, <1>8, Zenon
    <3> QED
      BY <2>1, <3>1, <3>2, Zenon
  <2>3. CASE w \notin AllEdges(x)
    <3>1. x = o /\ (Dirty(o)' \/ (card'[o] = "aged" /\ t \in checkpoint))
      BY <1>6, <1>8, <2>3, Zenon
    <3>2. checkpoint # {} => pc = "checkpoint_again"
      BY Zenon DEF CollectorInv, Phases
    <3>3. pc # "gray_paused"
      BY <1>1, Zenon DEF Paused
    <3> QED
      BY <1>1, <3>1, <3>2, <3>3, Zenon DEF Rescan
  <2> QED
    BY <2>2, <2>3, Zenon
<1>16. KeptEdges'
  <2> SUFFICES ASSUME pc \in Reclaiming, NEW x \in Kept, NEW w \in AllEdges(x)'
               PROVE  \/ w \in mark_bitmap_
                      \/ w \in allocation_stack_ /\ Dirty(x)'
                      \/ x \in mark_stack_
                      \/ x \in queue /\ w = field'[x]
    BY <1>1, Zenon DEF KeptEdges, Kept
  <2>1. CASE w \in AllEdges(x)
    <3>1. \/ w \in mark_bitmap_
          \/ w \in allocation_stack_ /\ Dirty(x)
          \/ x \in mark_stack_
          \/ x \in queue /\ w = field[x]
      BY <2>1, Zenon DEF CollectorInv, KeptEdges
    <3>2. (Dirty(x) => Dirty(x)') /\ (x \in queue => field'[x] = field[x])
      BY <1>2, <1>4, <1>8, Zenon
    <3> QED
      BY <3>1, <3>2, Zenon
  <2>2. CASE w \notin AllEdges(x)
    <3>1. x = o /\ w = v /\ (Dirty(o)' \/ t \in checkpoint)
      BY <1>6, <1>8, <2>2, Zenon
    <3>2. checkpoint = {}
      BY Zenon DEF CollectorInv, Phases, Reclaiming, WeaksClosed, SlowPath, Preserving
    <3>3. v \in mark_bitmap_ \cup allocation_stack_
      BY <1>2, HeldIsKept, Zenon DEF Kept
    <3> QED
      BY <3>1, <3>2, <3>3, Zenon
  <2> QED
    BY <2>1, <2>2, Zenon
<1>17. KeptHeld'
  BY <1>1, Zenon DEF CollectorInv, KeptHeld, Kept, FinalizerList
<1>18. Confinement'
  <2> SUFFICES ASSUME pc \in WeaksClosed
               PROVE  \E B \in SUBSET Objects : Confined(B)'
    BY <1>1, Zenon DEF Confinement
  <2>1. PICK B \in SUBSET Objects : Confined(B)
    BY Zenon DEF CollectorInv, Confinement
  <2>2. o \in B /\ v \in B
    BY <1>2, <2>1, Zenon DEF Confined
  <2>3. \A x \in Objects \ {o} : field'[x] = field[x]
    BY <1>2, Zenon
  <2>4. \A x \in B : ~IsReference(x) => field'[x] \in B \cup {Null}
    <3>1. \A x \in B : ~IsReference(x) => field[x] \in B \cup {Null}
      BY <2>1, Zenon DEF Confined
    <3> QED
      BY <1>2, <2>2, <3>1, Zenon
  <2>5. \A x \in allocated \ B : AllEdges(x)' \cap allocation_stack_ = {}
    <3>1. \A x \in allocated \ B : AllEdges(x) \cap allocation_stack_ = {}
      BY <2>1, Zenon DEF Confined
    <3> QED
      BY <1>6, <1>8, <2>2, <3>1, Zenon
  <2>6. \A r \in queue : field'[r] = field[r]
    BY <1>2, <1>4, Zenon DEF CollectorInv, Types
  <2>7. \A r \in B : Kind[r] \in {"soft", "weak"} => field'[r] = field[r]
    BY <1>2, Zenon DEF IsReference, RefKinds
  <2>8. Confined(B)'
    BY <1>1, <2>1, <2>4, <2>5, <2>6, <2>7, ZenonT(30) DEF Confined, Kept, FinalizerList, IsReference
  <2> QED
    BY <2>8, Zenon
<1> QED
  BY <1>9, <1>10, <1>11, <1>12, <1>13, <1>14, <1>15, <1>16, <1>17, <1>18, Zenon DEF CollectorInv

\* SetFieldObject: the first of the two writes.
LEMMA SetFieldObjectStep ==
  ASSUME CollectorInv, NEW t \in Threads, NEW o \in Objects, NEW v \in Objects,
         NEW first, SetFieldObject(t, o, v, first)
  PROVE  CollectorInv'
<1> USE DEF SetFieldObject, Operate, AtSafePoint, MarkCard
<1>1. /\ ~Paused /\ get_pc[t] = "none" /\ store[t] = <<>>
      /\ o \in roots[t] /\ v \in roots[t] /\ ~IsReference(o)
      /\ UNCHANGED <<spaceVars, zombie, roots, getVars, weakVars, collectorVars>>
  BY Zenon
<1>2. PICK half \in {"card", "field"} :
        /\ store' = [store EXCEPT ![t] = <<half, o, v>>]
        /\ half = "card" => field' = [field EXCEPT ![o] = v] /\ card' = card
        /\ half = "field" => field' = field /\ card' = [card EXCEPT ![o] = "dirty"]
  BY Zenon
<1>3. /\ <<half, o, v>> \in Stores /\ <<half, o, v>> # <<>>
      /\ <<half, o, v>>[1] = half /\ <<half, o, v>>[2] = o /\ <<half, o, v>>[3] = v
  BY StoreMade, Zenon
<1>4. /\ store' \in [Threads -> Stores] /\ store'[t] = <<half, o, v>>
      /\ \A u \in Threads \ {t} : store'[u] = store[u]
  BY <1>2, <1>3, Zenon DEF CollectorInv, Types
<1>5. /\ field' \in [Objects -> Objects \cup {Null}]
      /\ card' \in [Objects -> {"clean", "aged", "dirty"}]
      /\ \A x \in Objects \ {o} : field'[x] = field[x]
      /\ field'[o] \in {field[o], v}
      /\ \A x \in Objects : card'[x] \in {card[x], "dirty"}
      /\ half = "card" => card' = card
      /\ half = "field" => field'[o] = field[o] /\ card'[o] = "dirty"
  BY <1>2, ZenonT(40) DEF CollectorInv, Types
<1>6. /\ \A x \in Objects : Dirty(x) => Dirty(x)'
      /\ half = "card" => Dirty(o)'
  <2>1. ASSUME NEW x \in Objects, Dirty(x) PROVE Dirty(x)'
    <3>1. CASE card[x] = "dirty"
      BY <1>5, <3>1, Zenon DEF Dirty
    <3>2. CASE card[x] # "dirty"
      <4>1. PICK u \in Threads : Unfinished(u, "card") /\ store[u][2] = x
        BY <2>1, <3>2, Zenon DEF Dirty
      <4>2. store'[u] = store[u]
        BY <1>1, <1>4, <4>1, Zenon DEF Unfinished
      <4> QED
        BY <4>1, <4>2, Zenon DEF Dirty, Unfinished
    <3> QED
      BY <3>1, <3>2, Zenon
  <2>2. half = "card" => Dirty(o)'
    BY <1>3, <1>4, Zenon DEF Dirty, Unfinished
  <2> QED
    BY <2>1, <2>2, Zenon
<1>7. HalfStore(t, o, v)
  BY <1>1, <1>3, <1>4, <1>5, <1>6, Zenon DEF HalfStore
<1> QED
  BY <1>7, HalfStoreStep, Zenon

\* FinishStore: the second of the two writes.
LEMMA FinishStoreStep ==
  ASSUME CollectorInv, NEW t \in Threads, FinishStore(t)
  PROVE  CollectorInv'
<1> USE DEF FinishStore, MarkCard
<1>1. store[t] # <<>> /\ store[t] \in Stores
  BY Zenon DEF CollectorInv, Types
<1>2. PICK o \in Objects, v \in Objects :
        o = store[t][2] /\ v = store[t][3] /\ store[t][1] \in {"card", "field"}
  BY <1>1, StoreShape, Zenon
<1>3. /\ ~Paused /\ get_pc[t] = "none"
      /\ o \in roots[t] /\ v \in roots[t] /\ ~IsReference(o)
      /\ UNCHANGED <<spaceVars, zombie, roots, getVars, weakVars, collectorVars>>
  BY <1>1, <1>2, Zenon DEF CollectorInv, Phases, Program, AtSafePoint
<1>4. /\ store' \in [Threads -> Stores] /\ store'[t] = <<>>
      /\ \A u \in Threads \ {t} : store'[u] = store[u]
  BY Zenon DEF CollectorInv, Types, Stores
<1>5. /\ field' \in [Objects -> Objects \cup {Null}]
      /\ card' \in [Objects -> {"clean", "aged", "dirty"}]
      /\ \A x \in Objects \ {o} : field'[x] = field[x]
      /\ field'[o] \in {field[o], v}
      /\ \A x \in Objects : card'[x] \in {card[x], "dirty"}
      /\ store[t][1] = "card" => field' = field /\ card'[o] = "dirty"
      /\ store[t][1] = "field" => card' = card
  <2>1. \/ store[t][1] = "card" /\ card' = [card EXCEPT ![o] = "dirty"] /\ field' = field
        \/ store[t][1] = "field" /\ field' = [field EXCEPT ![o] = v] /\ card' = card
    BY <1>2, Zenon
  <2>2. /\ field \in [Objects -> Objects \cup {Null}]
        /\ card \in [Objects -> {"clean", "aged", "dirty"}]
    BY Zenon DEF CollectorInv, Types
  <2> QED
    BY ONLY <1>2, <2>1, <2>2, Zenon
<1>6. \A x \in Objects : Dirty(x) => Dirty(x)'
  BY <1>2, <1>4, <1>5, Zenon DEF Dirty, Unfinished
<1>7. field'[o] # field[o] => Dirty(o)' \/ (card'[o] = "aged" /\ t \in checkpoint)
  <2>1. store[t][1] = "field" => card[o] = "dirty" \/ (card[o] = "aged" /\ t \in checkpoint)
    BY <1>1, <1>2, Zenon DEF CollectorInv, CardFirst, Unfinished
  <2>2. card'[o] = "dirty" => Dirty(o)'
    BY Zenon DEF Dirty
  <2> QED
    BY <1>2, <1>5, <2>1, <2>2, Zenon
<1>8. HalfStore(t, o, v)
  BY <1>3, <1>4, <1>5, <1>6, <1>7, Zenon DEF HalfStore
<1> QED
  BY <1>2, <1>8, HalfStoreStep, Zenon

-----------------------------------------------------------------------------
(* Marking.                                                                *)

\* StartCollection: the remembered cards become aged, and the sticky collector
\* starts with the live bitmap as its marks.
LEMMA StartCollectionStep ==
  ASSUME CollectorInv, NEW type \in {"full", "sticky"}, NEW clear \in BOOLEAN,
         StartCollection(type, clear)
  PROVE  CollectorInv'
<1> USE NullIsNoObject
<1> USE DEF CollectorInv, StartCollection, spaceVars, threadVars, getVars, weakVars,
            processorVars, queueVars
<1>1. /\ pc = "idle" /\ pc' = "checkpoint" /\ mark_stack_ = {} /\ gray = {} /\ queue = {}
      /\ cleared_references_ = {} /\ live_stack_ = {} /\ checkpoint = {}
  BY Zenon DEF Phases, Marking, Reclaiming, WeaksClosed, SlowPath, Preserving
<1>2. \A x \in Objects : Dirty(x) => Dirty(x)' \/ card'[x] = "aged"
  BY Zenon DEF Types, ProcessCards, Dirty, Unfinished
<1>3. Types'
  BY <1>1, Zenon DEF Types, ProcessCards, Phase, Marking
<1>4. Phases'
  BY <1>1, SMTT(30)
     DEF Phases, Marking, Reclaiming, WeaksClosed, SlowPath, Preserving, Pending, Paused
<1>5. Spaces'
  BY <1>1, Zenon DEF Types, Spaces, IsReference
<1>6. Program'
  BY Zenon DEF Program, AllEdges, IsReference
<1>7. CardFirst'
  BY <1>1, StoreShape, Zenon DEF Types, CardFirst, Unfinished, ProcessCards
<1>8. Remembered'
  BY <1>1, <1>2, Zenon DEF Types, Remembered, AllEdges
<1>9. TriColour' /\ KeptEdges' /\ KeptHeld' /\ Confinement'
  BY <1>1, Zenon
     DEF TriColour, KeptEdges, KeptHeld, Confinement, Reclaiming, WeaksClosed, SlowPath,
         Preserving
<1> QED
  BY <1>3, <1>4, <1>5, <1>6, <1>7, <1>8, <1>9, Zenon

\* What stays of the invariant while the collector only marks: the threads, the
\* objects and the spaces do not change.
MarksOnly ==
  /\ pc \in Marking /\ pc' \in Marking
  /\ UNCHANGED <<markingFrame, objectVars>>
  /\ mark_bitmap_ \subseteq mark_bitmap_' /\ mark_bitmap_' \subseteq allocated
  /\ mark_stack_' \subseteq mark_bitmap_'
  /\ queue' \subseteq mark_bitmap_' /\ \A r \in queue' : IsReference(r)
  /\ gray' \subseteq Objects /\ checkpoint' \subseteq Threads

\* Such a step keeps the parts of the invariant that are not about marks.
LEMMA MarksOnlyStep ==
  ASSUME CollectorInv, MarksOnly
  PROVE  Types' /\ Spaces' /\ Program' /\ KeptEdges' /\ KeptHeld' /\ Confinement'
<1> USE DEF CollectorInv, MarksOnly, markingFrame, spaceVars, objectVars, threadVars, getVars,
            weakVars, processorVars, runVars
<1>1. Types'
  BY Zenon DEF Types, Phase
<1>2. Spaces'
  BY Zenon DEF Spaces, IsReference
<1>3. Program'
  BY Zenon DEF Program, AllEdges, IsReference
<1>4. KeptEdges' /\ KeptHeld' /\ Confinement'
  BY Zenon
     DEF KeptEdges, KeptHeld, Confinement, Marking, Reclaiming, WeaksClosed, SlowPath,
         Preserving
<1> QED
  BY <1>1, <1>2, <1>3, <1>4, Zenon

\* MarkThreadRoots: the thread has no store in progress when it runs the checkpoint.
LEMMA MarkThreadRootsStep ==
  ASSUME CollectorInv, NEW t \in Threads, MarkThreadRoots(t)
  PROVE  CollectorInv'
<1> USE NullIsNoObject
<1> USE DEF MarkThreadRoots, Mark
<1>1. /\ pc \in {"checkpoint", "checkpoint_again"} /\ pc' = pc
      /\ UNCHANGED <<markingFrame, objectVars>> /\ queue' = queue /\ gray' = gray
      /\ mark_bitmap_' = mark_bitmap_ \cup roots[t]
      /\ mark_stack_' = mark_stack_ \cup (roots[t] \ mark_bitmap_)
  BY SMTT(30) DEF CollectorInv, Types, Phases
<1>2. MarksOnly
  BY <1>1, Zenon DEF CollectorInv, Types, Spaces, Program, Marking, MarksOnly
<1>3. Phases'
  BY <1>1, Zenon
     DEF CollectorInv, Phases, Pending, Paused, AtSafePoint, Marking, markingFrame, spaceVars,
         threadVars, getVars, weakVars, processorVars, runVars
<1>4. CardFirst'
  BY <1>1, Zenon
     DEF CollectorInv, CardFirst, Unfinished, AtSafePoint, markingFrame, threadVars, objectVars
<1>5. Remembered'
  BY <1>1, Zenon
     DEF CollectorInv, Remembered, Dirty, Unfinished, AllEdges, markingFrame, spaceVars,
         threadVars, objectVars, runVars
<1>6. TriColour'
  BY <1>1, Zenon
     DEF CollectorInv, TriColour, Rescan, Dirty, Unfinished, AllEdges, Paused, markingFrame,
         spaceVars, threadVars, objectVars, runVars
<1> QED
  BY <1>2, <1>3, <1>4, <1>5, <1>6, MarksOnlyStep, Zenon DEF CollectorInv

\* MarkNonThreadRoots: nothing has been scanned, so all marks are on the stack.
LEMMA MarkNonThreadRootsStep ==
  ASSUME CollectorInv, MarkNonThreadRoots
  PROVE  CollectorInv'
<1> USE NullIsNoObject
<1> USE DEF MarkNonThreadRoots, Mark, walkVars
<1>1. /\ pc = "checkpoint" /\ pc' = "gray" /\ gc_type = "full" /\ checkpoint = {} /\ gray = {}
      /\ UNCHANGED <<markingFrame, objectVars>> /\ queue' = queue /\ gray' = gray
      /\ mark_bitmap_ = mark_stack_ /\ FinalizerList \subseteq allocated
      /\ mark_bitmap_' = mark_bitmap_ \cup FinalizerList /\ mark_stack_' = mark_bitmap_'
      /\ checkpoint' = checkpoint
  BY SMTT(30) DEF CollectorInv, Types, Phases, FinalizerList
<1>2. MarksOnly
  BY <1>1, Zenon DEF CollectorInv, Types, Spaces, Program, Marking, MarksOnly
<1>3. Phases'
  BY <1>1, SMTT(30)
     DEF CollectorInv, Phases, Pending, Paused, Marking, Reclaiming, WeaksClosed, SlowPath,
         Preserving, markingFrame, spaceVars, threadVars, getVars, weakVars, processorVars,
         runVars
<1>4. CardFirst'
  BY <1>1, Zenon DEF CollectorInv, CardFirst, Unfinished, markingFrame, threadVars, objectVars
<1>5. Remembered' /\ TriColour'
  BY <1>1, Zenon DEF Remembered, TriColour, Rescan, Paused
<1> QED
  BY <1>2, <1>3, <1>4, <1>5, MarksOnlyStep, Zenon DEF CollectorInv

\* StickyMarkReachableObjects: whatever refers out of the live bitmap is on a
\* card that will be scanned, so the dropped mark stack is not missed.
LEMMA StickyMarkReachableObjectsStep ==
  ASSUME CollectorInv, StickyMarkReachableObjects
  PROVE  CollectorInv'
<1> USE NullIsNoObject
<1> USE DEF StickyMarkReachableObjects
<1>1. /\ pc = "checkpoint" /\ pc' = "gray" /\ gc_type = "sticky" /\ checkpoint = {}
      /\ UNCHANGED <<markingFrame, objectVars>> /\ queue' = queue
      /\ FinalizerList \subseteq allocated /\ checkpoint' = checkpoint
      /\ mark_bitmap_' = mark_bitmap_ \cup FinalizerList /\ mark_stack_' = {}
      /\ gray' = OnCards({"aged", "dirty"}) /\ gray' \subseteq Objects
      /\ live_bitmap_ \subseteq mark_bitmap_
  BY Zenon DEF CollectorInv, Types, Phases, FinalizerList, OnCards
<1>2. MarksOnly
  BY <1>1, Zenon DEF CollectorInv, Types, Spaces, Program, Marking, MarksOnly
<1>3. Phases'
  BY <1>1, SMTT(30)
     DEF CollectorInv, Phases, Pending, Paused, Marking, Reclaiming, WeaksClosed, SlowPath,
         Preserving, markingFrame, spaceVars, threadVars, getVars, weakVars, processorVars,
         runVars
<1>4. CardFirst'
  BY <1>1, Zenon DEF CollectorInv, CardFirst, Unfinished, markingFrame, threadVars, objectVars
<1>5. TriColour'
  BY <1>1, SMTT(30)
     DEF CollectorInv, Types, Spaces, Remembered, TriColour, Rescan, Dirty, Unfinished,
         OnCards, AllEdges, Paused, markingFrame, spaceVars, threadVars, objectVars, runVars
<1>6. Remembered'
  BY <1>1, Zenon DEF Remembered
<1> QED
  BY <1>2, <1>3, <1>4, <1>5, <1>6, MarksOnlyStep, Zenon DEF CollectorInv

\* ScanObject: afterwards every edge of o leads to a marked object, or o is a
\* reference in a queue and the edge is its referent.
LEMMA ScanFacts ==
  ASSUME CollectorInv, NEW o \in mark_bitmap_, NEW stack \in SUBSET mark_bitmap_,
         Scan(o, stack), objectVars' = objectVars
  PROVE  /\ mark_bitmap_' = mark_bitmap_ \cup StrongEdges(o)
         /\ mark_stack_' = stack \cup (StrongEdges(o) \ mark_bitmap_)
         /\ StrongEdges(o) \subseteq AllEdges(o) /\ AllEdges(o) \subseteq allocated
         /\ mark_bitmap_' \subseteq allocated /\ mark_stack_' \subseteq mark_bitmap_'
         /\ queue \subseteq queue' /\ queue' \subseteq queue \cup {o}
         /\ queue' \subseteq mark_bitmap_' /\ \A r \in queue' : IsReference(r)
         /\ \A v \in AllEdges(o) : v \in mark_bitmap_' \/ (o \in queue' /\ v = field[o])
         /\ \A x \in Objects : AllEdges(x)' = AllEdges(x)
<1> USE NullIsNoObject
<1>1. o \in allocated /\ o \in Objects
  BY Zenon DEF CollectorInv, Types, Spaces
<1>2. /\ mark_bitmap_' = mark_bitmap_ \cup StrongEdges(o)
      /\ mark_stack_' = stack \cup (StrongEdges(o) \ mark_bitmap_)
  BY Zenon DEF Scan
<1>3. StrongEdges(o) \subseteq AllEdges(o) /\ AllEdges(o) \subseteq allocated
  BY <1>1, Zenon DEF CollectorInv, Program, StrongEdges, AllEdges
<1>4. /\ queue \subseteq queue' /\ queue' \subseteq queue \cup {o}
      /\ \A r \in queue' : IsReference(r)
  BY Zenon DEF Scan, CollectorInv, Spaces
<1>5. \A v \in AllEdges(o) : v \in mark_bitmap_' \/ (o \in queue' /\ v = field[o])
  BY <1>1, SMTT(30)
     DEF Scan, StrongEdges, AllEdges, CollectorInv, Types, Spaces, IsReference, RefKinds
<1>6. \A x \in Objects : AllEdges(x)' = AllEdges(x)
  BY Zenon DEF AllEdges, objectVars
<1> QED
  BY <1>2, <1>3, <1>4, <1>5, <1>6, Zenon DEF CollectorInv, Spaces

\* A scan during marking keeps the tri-colour condition: o is dealt with, and what
\* it leads to is on the mark stack.
LEMMA ScanWhileMarking ==
  ASSUME CollectorInv, pc \in Marking \ {"checkpoint"}, NEW o \in mark_bitmap_,
         NEW stack \in SUBSET mark_stack_, mark_stack_ \subseteq stack \cup {o},
         Scan(o, stack), UNCHANGED <<markingFrame, objectVars, pc, checkpoint>>,
         gray' \subseteq gray, gray \subseteq gray' \cup {o}
  PROVE  CollectorInv'
<1> USE NullIsNoObject
<1>1. /\ mark_bitmap_' = mark_bitmap_ \cup StrongEdges(o)
      /\ mark_stack_' = stack \cup (StrongEdges(o) \ mark_bitmap_)
      /\ mark_bitmap_' \subseteq allocated /\ mark_stack_' \subseteq mark_bitmap_'
      /\ queue \subseteq queue' /\ queue' \subseteq queue \cup {o}
      /\ queue' \subseteq mark_bitmap_' /\ \A r \in queue' : IsReference(r)
      /\ \A v \in AllEdges(o) : v \in mark_bitmap_' \/ (o \in queue' /\ v = field[o])
      /\ \A x \in Objects : AllEdges(x)' = AllEdges(x)
  <2>1. stack \in SUBSET mark_bitmap_
    BY Zenon DEF CollectorInv, Spaces
  <2> QED
    BY <2>1, ScanFacts, Zenon
<1>2. MarksOnly
  BY <1>1, Zenon DEF CollectorInv, Types, MarksOnly
<1>3. Phases'
  BY <1>1, Zenon
     DEF CollectorInv, Phases, Pending, Paused, AtSafePoint, Marking, Reclaiming, WeaksClosed,
         SlowPath, Preserving, markingFrame, spaceVars, threadVars, getVars, weakVars,
         processorVars, runVars
<1>4. CardFirst'
  BY Zenon DEF CollectorInv, CardFirst, Unfinished, markingFrame, threadVars, objectVars
<1>5. Remembered'
  BY Zenon DEF Remembered, Marking
<1>6. TriColour'
  <2>1. \A x \in Objects : Rescan(x) => x = o \/ Rescan(x)'
    BY <1>1, Zenon DEF Rescan, Dirty, Unfinished, markingFrame, threadVars, objectVars
  <2>2. \A x \in mark_bitmap_' : x \notin mark_bitmap_ => Rescan(x)'
    BY <1>1, Zenon DEF Rescan
  <2>3. \A x \in mark_bitmap_' : \A v \in AllEdges(x) :
          v \in mark_bitmap_' \/ Rescan(x)' \/ (x \in queue' /\ v = field[x])
    BY <1>1, <2>1, <2>2, Zenon DEF CollectorInv, Types, TriColour
  <2>4. \A x \in mark_bitmap_' : x \in Objects /\ AllEdges(x)' = AllEdges(x) /\ field'[x] = field[x]
    BY <1>1, Zenon DEF CollectorInv, Types, objectVars
  <2>5. Paused => /\ FinalizerList' \subseteq mark_bitmap_'
                  /\ \A t \in Threads : roots'[t] \subseteq mark_bitmap_'
    BY <1>1, Zenon
       DEF CollectorInv, TriColour, Paused, FinalizerList, markingFrame, spaceVars, threadVars
  <2> QED
    BY <2>3, <2>4, <2>5, Zenon DEF TriColour, Paused
<1> QED
  BY <1>2, <1>3, <1>4, <1>5, <1>6, MarksOnlyStep, Zenon DEF CollectorInv

\* ScanCard: one card of the grey ones; an unmarked object on it is left alone.
LEMMA ScanCardStep ==
  ASSUME CollectorInv, NEW o \in Objects, ScanCard(o)
  PROVE  CollectorInv'
<1>1. /\ o \in gray /\ gray' = gray \ {o} /\ pc \in Marking \ {"checkpoint"}
      /\ UNCHANGED <<markingFrame, objectVars, pc, checkpoint>>
  BY Zenon DEF ScanCard, CollectorInv, Phases, Marking
<1>2. CASE o \in mark_bitmap_
  <2>1. Scan(o, mark_stack_)
    BY <1>2, Zenon DEF ScanCard
  <2> QED
    BY <1>1, <1>2, <2>1, ScanWhileMarking, Zenon
<1>3. CASE o \notin mark_bitmap_
  <2>1. mark_bitmap_' = mark_bitmap_ /\ mark_stack_' = mark_stack_ /\ queue' = queue
    BY <1>3, Zenon DEF ScanCard, markVars
  <2>2. MarksOnly
    BY <1>1, <2>1, Zenon DEF CollectorInv, Types, Spaces, MarksOnly
  <2>3. Phases'
    BY <1>1, <2>1, Zenon
       DEF CollectorInv, Phases, Pending, Paused, AtSafePoint, markingFrame, spaceVars,
           threadVars, getVars, weakVars, processorVars, runVars
  <2>4. CardFirst'
    BY <1>1, Zenon
       DEF CollectorInv, CardFirst, Unfinished, markingFrame, threadVars, objectVars
  <2>5. Remembered'
    BY <1>1, Zenon DEF Remembered, Marking
  <2>6. TriColour'
    BY <1>1, <1>3, <2>1, ZenonT(40)
       DEF CollectorInv, TriColour, Rescan, Dirty, Unfinished, AllEdges, Paused, FinalizerList,
           markingFrame, spaceVars, threadVars, objectVars
  <2> QED
    BY <2>2, <2>3, <2>4, <2>5, <2>6, MarksOnlyStep, Zenon DEF CollectorInv
<1> QED
  BY <1>2, <1>3, Zenon

\* A scan from the mark stack while references are preserved: what it reaches is
\* outside the region of the threads.
LEMMA ScanWhilePreserving ==
  ASSUME CollectorInv, pc \in {"preserve_mark", "finalize_mark"}, NEW o \in mark_stack_,
         Scan(o, mark_stack_ \ {o}), UNCHANGED <<markingFrame, objectVars, pc, walkVars>>
  PROVE  CollectorInv'
<1> USE NullIsNoObject
<1> USE DEF markingFrame, spaceVars, objectVars, threadVars, getVars, weakVars, processorVars,
            runVars, walkVars
<1>1. o \in mark_bitmap_ /\ o \in allocated /\ o \in Objects
  BY Zenon DEF CollectorInv, Types, Spaces
<1>2. /\ mark_bitmap_' = mark_bitmap_ \cup StrongEdges(o)
      /\ mark_stack_' = (mark_stack_ \ {o}) \cup (StrongEdges(o) \ mark_bitmap_)
      /\ StrongEdges(o) \subseteq AllEdges(o) /\ AllEdges(o) \subseteq allocated
      /\ mark_bitmap_' \subseteq allocated /\ mark_stack_' \subseteq mark_bitmap_'
      /\ queue \subseteq queue' /\ queue' \subseteq queue \cup {o}
      /\ queue' \subseteq mark_bitmap_' /\ \A r \in queue' : IsReference(r)
      /\ \A v \in AllEdges(o) : v \in mark_bitmap_' \/ (o \in queue' /\ v = field[o])
      /\ \A x \in Objects : AllEdges(x)' = AllEdges(x)
  <2>1. mark_stack_ \ {o} \in SUBSET mark_bitmap_
    BY Zenon DEF CollectorInv, Spaces
  <2> QED
    BY <1>1, <2>1, ScanFacts, Zenon
<1>3. PICK B \in SUBSET Objects : Confined(B)
  BY Zenon DEF CollectorInv, Confinement, WeaksClosed, SlowPath, Preserving
<1>4. /\ o \notin B /\ o \notin allocation_stack_
      /\ AllEdges(o) \cap allocation_stack_ = {} /\ field[o] \notin allocation_stack_
      /\ Kind[o] # "finalizer"
  <2>1. o \notin B /\ Kind[o] # "finalizer"
    BY <1>1, <1>3, Zenon DEF Confined, FinalizerList
  <2>2. o \notin allocation_stack_ /\ AllEdges(o) \cap allocation_stack_ = {}
    BY <1>1, <1>3, <2>1, Zenon DEF Confined
  <2>3. field[o] # Null => field[o] \in AllEdges(o)
    BY Zenon DEF AllEdges
  <2>4. Null \notin allocation_stack_
    BY NullIsNoObject, Zenon DEF CollectorInv, Types
  <2> QED
    BY <2>1, <2>2, <2>3, <2>4, Zenon
<1>5. Types'
  BY <1>2, Zenon DEF CollectorInv, Types
<1>6. Phases'
  BY <1>2, <1>4, Zenon
     DEF CollectorInv, Phases, Pending, Paused, AtSafePoint, Marking, Reclaiming, WeaksClosed,
         SlowPath, Preserving
<1>7. Spaces' /\ Program'
  BY <1>2, Zenon DEF CollectorInv, Spaces, Program, IsReference, AllEdges
<1>8. CardFirst' /\ Remembered' /\ TriColour' /\ KeptHeld'
  <2>1. pc \in Reclaiming
    BY Zenon DEF Reclaiming, WeaksClosed, SlowPath, Preserving
  <2> QED
    BY <1>2, <1>4, <2>1, Zenon
       DEF CollectorInv, CardFirst, Unfinished, Remembered, TriColour, KeptHeld, Marking
<1>9. KeptEdges'
  <2>1. \A x \in Objects : Dirty(x)' <=> Dirty(x)
    BY Zenon DEF Dirty, Unfinished
  <2>2. \A x \in Kept' : \A v \in AllEdges(x) :
          \/ v \in mark_bitmap_'
          \/ v \in allocation_stack_ /\ Dirty(x)
          \/ x \in mark_stack_'
          \/ x \in queue' /\ v = field[x]
    <3>1. \A x \in Kept : \A v \in AllEdges(x) :
            \/ v \in mark_bitmap_
            \/ v \in allocation_stack_ /\ Dirty(x)
            \/ x \in mark_stack_
            \/ x \in queue /\ v = field[x]
      <4>1. pc \in Reclaiming
        BY Zenon DEF Reclaiming, WeaksClosed, SlowPath, Preserving
      <4> QED
        BY <4>1, Zenon DEF CollectorInv, KeptEdges
    <3>2. \A x \in Kept' : x \notin Kept => x \in mark_stack_'
      BY <1>2, Zenon DEF Kept
    <3>3. \A x \in mark_stack_ : x = o \/ x \in mark_stack_'
      BY <1>2, Zenon
    <3>4. SUFFICES ASSUME NEW x \in Kept', NEW v \in AllEdges(x)
                   PROVE  \/ v \in mark_bitmap_'
                          \/ v \in allocation_stack_ /\ Dirty(x)
                          \/ x \in mark_stack_'
                          \/ x \in queue' /\ v = field[x]
      BY Zenon
    <3>5. CASE x = o
      BY <1>2, <3>5, Zenon
    <3>6. CASE x # o /\ x \in Kept
      BY <1>2, <3>1, <3>3, <3>6, Zenon
    <3> QED
      BY <3>2, <3>5, <3>6, Zenon
  <2>3. \A x \in Kept' : x \in Objects
    BY <1>5, Zenon DEF Types, Kept
  <2> QED
    <3>1. \A x \in Kept' : AllEdges(x)' = AllEdges(x) /\ (Dirty(x) => Dirty(x)')
      BY <1>2, <2>1, <2>3, Zenon
    <3> QED
      BY <2>2, <3>1, Zenon DEF KeptEdges
<1>10. Confinement'
  <2>1. Confined(B)'
    <3>1. B \cap mark_stack_' = {}
      BY <1>2, <1>3, <1>4, Zenon DEF Confined, Kept
    <3>2. B \subseteq Kept' /\ Kept \subseteq Kept'
      BY <1>2, <1>3, Zenon DEF Confined, Kept
    <3> QED
      BY <1>2, <1>3, <1>4, <3>1, <3>2, Zenon DEF Confined, FinalizerList, IsReference, AllEdges
  <2> QED
    BY <2>1, Zenon DEF Confinement
<1> QED
  BY <1>5, <1>6, <1>7, <1>8, <1>9, <1>10, Zenon DEF CollectorInv

\* ProcessMarkStack, in all the phases that run it.
LEMMA ProcessMarkStackStep ==
  ASSUME CollectorInv, NEW o \in Objects, ProcessMarkStack(o)
  PROVE  CollectorInv'
<1>1. /\ o \in mark_stack_ /\ Scan(o, mark_stack_ \ {o})
      /\ UNCHANGED <<markingFrame, objectVars, pc, walkVars>>
      /\ pc \in {"gray", "gray_again", "gray_paused", "preserve_mark", "finalize_mark"}
  BY Zenon DEF ProcessMarkStack
<1>2. CASE pc \in {"gray", "gray_again", "gray_paused"}
  <2>1. /\ pc \in Marking \ {"checkpoint"} /\ o \in mark_bitmap_
        /\ mark_stack_ \ {o} \in SUBSET mark_stack_
        /\ mark_stack_ \subseteq (mark_stack_ \ {o}) \cup {o}
        /\ gray' = gray /\ UNCHANGED <<markingFrame, objectVars, pc, checkpoint>>
    BY <1>1, <1>2, Zenon DEF CollectorInv, Spaces, Marking, walkVars
  <2> QED
    BY <1>1, <2>1, ScanWhileMarking, Zenon
<1>3. CASE pc \in {"preserve_mark", "finalize_mark"}
  BY <1>1, <1>3, ScanWhilePreserving, Zenon
<1> QED
  BY <1>1, <1>2, <1>3, Zenon

\* PreCleanCards: the dirty cards are aged, and every thread has a checkpoint to
\* pass before the aged cards are scanned.
LEMMA PreCleanCardsStep ==
  ASSUME CollectorInv, PreCleanCards
  PROVE  CollectorInv'
<1> USE NullIsNoObject
<1> USE DEF PreCleanCards, Scanned, markVars, markingFrame, spaceVars, threadVars, getVars, weakVars,
            processorVars, runVars
<1>1. /\ pc = "gray" /\ pc' = "checkpoint_again" /\ mark_stack_ = {} /\ gray = {}
      /\ queue' = queue /\ mark_bitmap_' = mark_bitmap_ /\ mark_stack_' = mark_stack_
      /\ gray' = gray /\ checkpoint' = Threads /\ checkpoint = {}
      /\ card' = [x \in Objects |-> IF card[x] = "dirty" THEN "aged" ELSE "clean"]
  BY Zenon DEF ProcessCards, CollectorInv, Phases
<1>2. Types'
  BY <1>1, Zenon DEF CollectorInv, Types, Phase, Marking
<1>3. Phases'
  BY <1>1, SMTT(30)
     DEF CollectorInv, Phases, Pending, Paused, Marking, Reclaiming, WeaksClosed, SlowPath,
         Preserving
<1>4. Spaces' /\ Program'
  BY <1>1, Zenon DEF CollectorInv, Spaces, Program, IsReference, AllEdges
<1>5. CardFirst'
  BY <1>1, StoreShape, Zenon DEF CollectorInv, Types, CardFirst, Unfinished
<1>6. TriColour'
  <2>1. \A x \in Objects : Rescan(x) => Rescan(x)'
    BY <1>1, Zenon DEF Rescan, Dirty, Unfinished
  <2> QED
    BY <1>1, <2>1, Zenon DEF CollectorInv, Types, TriColour, Marking, Paused, AllEdges
<1>7. Remembered' /\ KeptEdges' /\ KeptHeld' /\ Confinement'
  BY <1>1, Zenon
     DEF Remembered, KeptEdges, KeptHeld, Confinement, Reclaiming, WeaksClosed, SlowPath,
         Preserving
<1> QED
  BY <1>2, <1>3, <1>4, <1>5, <1>6, <1>7, Zenon DEF CollectorInv

\* ScanAgedCards: the aged and dirty cards become the grey ones.
LEMMA ScanAgedCardsStep ==
  ASSUME CollectorInv, ScanAgedCards
  PROVE  CollectorInv'
<1> USE NullIsNoObject
<1> USE DEF ScanAgedCards, Mark
<1>1. /\ pc = "checkpoint_again" /\ pc' = "gray_again" /\ checkpoint = {} /\ checkpoint' = checkpoint
      /\ UNCHANGED <<markingFrame, objectVars>> /\ queue' = queue
      /\ FinalizerList \subseteq allocated
      /\ mark_bitmap_' = mark_bitmap_ \cup FinalizerList
      /\ mark_stack_' = mark_stack_ \cup (FinalizerList \ mark_bitmap_)
      /\ gray = {} /\ gray' = OnCards({"aged", "dirty"}) /\ gray' \subseteq Objects
  BY SMTT(30) DEF CollectorInv, Types, Phases, FinalizerList, OnCards
<1>2. MarksOnly
  BY <1>1, Zenon DEF CollectorInv, Types, Spaces, Marking, MarksOnly
<1>3. Phases'
  BY <1>1, SMTT(30)
     DEF CollectorInv, Phases, Pending, Paused, Marking, Reclaiming, WeaksClosed, SlowPath,
         Preserving, markingFrame, spaceVars, threadVars, getVars, weakVars, processorVars,
         runVars
<1>4. CardFirst'
  BY <1>1, Zenon DEF CollectorInv, CardFirst, Unfinished, markingFrame, threadVars, objectVars
<1>5. TriColour'
  <2>1. \A x \in Objects : Rescan(x) => Rescan(x)'
    BY <1>1, Zenon DEF Rescan, Dirty, Unfinished, OnCards, markingFrame, threadVars, objectVars
  <2>2. \A x \in mark_bitmap_' : x \notin mark_bitmap_ => Rescan(x)'
    BY <1>1, Zenon DEF Rescan
  <2> QED
    BY <1>1, <2>1, <2>2, Zenon
       DEF CollectorInv, Types, TriColour, Marking, Paused, AllEdges, objectVars
<1>6. Remembered'
  BY <1>1, Zenon DEF Remembered
<1> QED
  BY <1>2, <1>3, <1>4, <1>5, <1>6, MarksOnlyStep, ZenonT(40) DEF CollectorInv

\* PausePhase: no store is in progress, so what is owed a scan is on a dirty card.
LEMMA PausePhaseStep ==
  ASSUME CollectorInv, PausePhase
  PROVE  CollectorInv'
<1> USE NullIsNoObject
<1>1. /\ pc = "gray_again" /\ pc' = "gray_paused" /\ mark_stack_ = {} /\ gray = {}
      /\ \A t \in Threads : AtSafePoint(t)
      /\ UNCHANGED <<markingFrame, objectVars>> /\ queue' = queue /\ checkpoint' = checkpoint
      /\ mark_bitmap_' = mark_bitmap_ \cup ((FinalizerList \cup Stacks) \ {Null})
      /\ mark_stack_' = mark_stack_ \cup ((FinalizerList \cup Stacks) \ (mark_bitmap_ \cup {Null}))
      /\ gray' = OnCards({"dirty"})
  BY Zenon DEF PausePhase, Scanned, Mark
<1>2. /\ FinalizerList \cup Stacks \subseteq allocated
      /\ \A t \in Threads : roots[t] \subseteq Stacks
      /\ Null \notin FinalizerList \cup Stacks
      /\ gray' \subseteq Objects
  BY <1>1, SMTT(30) DEF CollectorInv, Types, Program, FinalizerList, Stacks, OnCards
<1>3. MarksOnly
  BY <1>1, <1>2, Zenon DEF CollectorInv, Types, Spaces, Marking, MarksOnly
<1>4. Phases'
  BY <1>1, <1>2, SMTT(30)
     DEF CollectorInv, Phases, Pending, Paused, AtSafePoint, Marking, Reclaiming, WeaksClosed,
         SlowPath, Preserving, markingFrame, spaceVars, threadVars, getVars, weakVars,
         processorVars, runVars
<1>5. CardFirst'
  BY <1>1, Zenon DEF CardFirst, Unfinished, AtSafePoint, markingFrame, threadVars
<1>6. TriColour'
  <2>1. \A x \in Objects : Rescan(x) => Rescan(x)'
    BY <1>1, Zenon DEF Rescan, Dirty, Unfinished, AtSafePoint, OnCards
  <2>2. \A x \in mark_bitmap_' : x \notin mark_bitmap_ => Rescan(x)'
    BY <1>1, Zenon DEF Rescan
  <2>3. \A x \in mark_bitmap_ : \A v \in AllEdges(x) :
          v \in mark_bitmap_ \/ Rescan(x) \/ (x \in queue /\ v = field[x])
    BY <1>1, Zenon DEF CollectorInv, TriColour, Marking
  <2>4. \A x \in mark_bitmap_' : x \in Objects /\ AllEdges(x)' = AllEdges(x) /\ field'[x] = field[x]
    BY <1>1, <1>2, Zenon DEF CollectorInv, Types, AllEdges, objectVars
  <2>5. /\ FinalizerList' \subseteq mark_bitmap_'
        /\ \A t \in Threads : roots'[t] \subseteq mark_bitmap_'
    BY <1>1, <1>2, Zenon DEF FinalizerList, markingFrame, spaceVars, threadVars
  <2> QED
    BY <1>1, <2>1, <2>2, <2>3, <2>4, <2>5, SMTT(30) DEF TriColour, CollectorInv, Types
<1>7. Remembered'
  BY <1>1, Zenon DEF Remembered
<1> QED
  BY <1>3, <1>4, <1>5, <1>6, <1>7, MarksOnlyStep, Zenon DEF CollectorInv

\* EndPause: the marks are closed, and the threads hold marked objects only.
LEMMA EndPauseStep ==
  ASSUME CollectorInv, EndPause
  PROVE  CollectorInv'
<1> USE NullIsNoObject
<1> USE DEF EndPause, objectVars, threadVars, getVars, queueVars, markVars, walkVars, runVars
<1>1. /\ pc = "gray_paused" /\ pc' = "references" /\ mark_stack_ = {} /\ gray = {}
      /\ live_stack_ = {} /\ checkpoint = {} /\ allocation_stack_' = {}
      /\ cleared_references_ = {} /\ Kept' = mark_bitmap_
      /\ \A t \in Threads : AtSafePoint(t)
  BY Zenon DEF Scanned, CollectorInv, Phases, Paused, Kept, Marking, Reclaiming, WeaksClosed,
         SlowPath, Preserving
<1>2. Types'
  BY <1>1, Zenon DEF CollectorInv, Types, Phase, Reclaiming, WeaksClosed, SlowPath
<1>3. Phases'
  <2>1. slow_path_enabled_' = (pc' \in SlowPath)
    BY <1>1, Zenon DEF SlowPath
  <2>2. allow_new_weak_globals_' = (pc' \notin WeaksClosed)
    BY <1>1, Zenon DEF WeaksClosed, SlowPath
  <2>3. preserving_references_' = (pc' \in Preserving)
    BY <1>1, SMTT(30) DEF CollectorInv, Phases, Preserving
  <2> QED
    BY <1>1, <2>1, <2>2, <2>3, Zenon
       DEF CollectorInv, Phases, Pending, Paused, Marking, Reclaiming, WeaksClosed, SlowPath,
           Preserving
<1>4. Spaces' /\ Program'
  BY <1>1, ZenonT(40) DEF CollectorInv, Spaces, Program, IsReference, AllEdges
<1>5. CardFirst' /\ Remembered' /\ TriColour' /\ KeptHeld'
  BY <1>1, Zenon
     DEF CollectorInv, CardFirst, Unfinished, Remembered, TriColour, KeptHeld, Marking
<1>6. \A o \in mark_bitmap_ : \A v \in AllEdges(o) :
        v \in mark_bitmap_ \/ (o \in queue /\ v = field[o])
  BY <1>1, Zenon DEF CollectorInv, TriColour, Rescan, Marking
<1>7. KeptEdges'
  BY <1>1, <1>6, Zenon DEF KeptEdges, AllEdges
<1>8. PICK B \in SUBSET Objects : B = mark_bitmap_
  BY Zenon DEF CollectorInv, Types
<1>9. Confined(B)'
  <2>1. /\ FinalizerList \subseteq mark_bitmap_
        /\ \A t \in Threads : roots[t] \subseteq mark_bitmap_
    BY <1>1, Zenon DEF CollectorInv, TriColour, Paused, Marking
  <2>2. \A f \in enqueued : zombie[f] \in mark_bitmap_ \cup {Null}
    BY <1>6, <2>1, Zenon DEF CollectorInv, Types, Spaces, FinalizerList, AllEdges
  <2>3. \A o \in mark_bitmap_ : ~IsReference(o) => field[o] \in mark_bitmap_ \cup {Null}
    BY <1>6, Zenon DEF CollectorInv, Spaces, AllEdges
  <2> QED
    BY <1>1, <1>8, <2>1, <2>2, <2>3, Zenon DEF Confined, FinalizerList, IsReference
<1>10. Confinement'
  BY <1>9, Zenon DEF Confinement
<1> QED
  BY <1>2, <1>3, <1>4, <1>5, <1>7, <1>10, Zenon DEF CollectorInv

-----------------------------------------------------------------------------
(* Reclaiming.                                                             *)

\* A phase is left without a change to the objects, the marks or the spaces.
PhaseOnly ==
  UNCHANGED <<reclaimFrame, objectVars, queue, cleared_references_, markVars>>

\* Such a step keeps the parts of the invariant that do not depend on the phase.
LEMMA PhaseOnlyStep ==
  ASSUME CollectorInv, PhaseOnly, pc \in SlowPath, pc' \in SlowPath \cup {"sweep_weaks"},
         get_pc' \in [Threads -> {"none", "check", "loop", "wait"}],
         \A t \in Threads : get_pc'[t] # "none" => get_pc[t] # "none",
         \A t \in Threads : get_pc'[t] = "check" => get_pc[t] = "check"
  PROVE  /\ Types' /\ Spaces' /\ Program' /\ CardFirst' /\ Remembered' /\ TriColour'
         /\ KeptEdges' /\ KeptHeld'
<1> USE DEF CollectorInv, PhaseOnly, reclaimFrame, spaceVars, objectVars, weakVars, walkVars,
            runVars, markVars
<1>1. Types'
  BY Zenon DEF Types, Phase, Reclaiming, WeaksClosed
<1>2. Spaces' /\ Program'
  BY ZenonT(40) DEF Spaces, Program, IsReference, AllEdges
<1>3. CardFirst'
  BY Zenon DEF CardFirst, Unfinished
<1>4. Remembered' /\ TriColour' /\ KeptHeld'
  BY Zenon
     DEF Remembered, TriColour, KeptHeld, Marking, Reclaiming, WeaksClosed, SlowPath,
         Preserving
<1>5. KeptEdges'
  BY DEF KeptEdges, Kept, Dirty, Unfinished, AllEdges, Reclaiming, WeaksClosed
<1> QED
  BY <1>1, <1>2, <1>3, <1>4, <1>5, Zenon

\* StartProcessing: soft references are preserved or not.
LEMMA StartProcessingStep ==
  ASSUME CollectorInv, StartProcessing
  PROVE  CollectorInv'
<1> USE NullIsNoObject
<1>1. /\ pc = "references" /\ PhaseOnly /\ get_pc' = get_pc
      /\ pc' = IF clear_soft_references_ THEN "clear" ELSE "preserve"
      /\ preserving_references_' = ~clear_soft_references_
      /\ slow_path_enabled_' = slow_path_enabled_
  BY Zenon DEF StartProcessing, PhaseOnly
<1>2. /\ pc' \in {"clear", "preserve"} /\ pc \in SlowPath /\ pc' \in SlowPath
      /\ preserving_references_' = (pc' \in Preserving)
  BY <1>1 DEF CollectorInv, Types, SlowPath, Preserving
<1>3. /\ Types' /\ Spaces' /\ Program' /\ CardFirst' /\ Remembered' /\ TriColour'
      /\ KeptEdges' /\ KeptHeld'
  BY <1>1, <1>2, PhaseOnlyStep, Zenon DEF CollectorInv, Types
<1>4. Phases'
  BY <1>1, <1>2, Zenon
     DEF CollectorInv, Phases, Pending, Paused, Marking, Reclaiming, WeaksClosed, SlowPath,
         Preserving, PhaseOnly, reclaimFrame, spaceVars, weakVars, walkVars, runVars, markVars
<1>5. PICK B \in SUBSET Objects : Confined(B)
  BY <1>2, Zenon DEF CollectorInv, Confinement, WeaksClosed
<1>6. Confined(B)'
  BY <1>1, <1>2, <1>5, Zenon
     DEF Confined, Kept, FinalizerList, IsReference, AllEdges, PhaseOnly, reclaimFrame,
         spaceVars, objectVars, markVars
<1>7. Confinement'
  BY <1>6, Zenon DEF Confinement
<1> QED
  BY <1>3, <1>4, <1>7, Zenon DEF CollectorInv

\* QueueProcessed: the queue of the phase is empty.  When the clearing is over no
\* soft or weak reference that is kept leads out of what is kept.
LEMMA QueueProcessedStep ==
  ASSUME CollectorInv, QueueProcessed
  PROVE  CollectorInv'
<1> USE NullIsNoObject
<1>1. /\ PhaseOnly /\ get_pc' = get_pc /\ slow_path_enabled_' = slow_path_enabled_
      /\ \/ /\ pc = "preserve" /\ pc' = "preserve_mark"
            /\ preserving_references_' = preserving_references_
         \/ /\ pc = "clear" /\ Pending({"soft", "weak"}) = {} /\ pc' = "finalize"
            /\ preserving_references_' = TRUE
         \/ /\ pc = "finalize" /\ Pending({"finalizer"}) = {} /\ pc' = "finalize_mark"
            /\ preserving_references_' = preserving_references_
  BY Zenon DEF QueueProcessed, PhaseOnly
<1>2. /\ pc \in SlowPath /\ pc' \in SlowPath
      /\ preserving_references_' = (pc' \in Preserving)
  <2>1. pc \in SlowPath /\ pc' \in SlowPath /\ pc' \in Preserving
    BY <1>1, Zenon DEF SlowPath, Preserving
  <2>2. preserving_references_ = (pc \in Preserving)
    BY Zenon DEF CollectorInv, Phases
  <2>3. preserving_references_' = TRUE
    <3>1. CASE pc = "clear"
      BY <1>1, <3>1, Zenon
    <3>2. CASE pc # "clear"
      <4>1. preserving_references_' = preserving_references_ /\ pc \in Preserving
        BY <1>1, <3>2, Zenon DEF Preserving
      <4>2. preserving_references_ = TRUE
        BY <2>2, <4>1, Zenon
      <4> QED
        BY ONLY <4>1, <4>2, Zenon
    <3> QED
      BY <3>1, <3>2, Zenon
  <2> QED
    BY <2>1, <2>3, Zenon
<1>3. /\ Types' /\ Spaces' /\ Program' /\ CardFirst' /\ Remembered' /\ TriColour'
      /\ KeptEdges' /\ KeptHeld'
  BY <1>1, <1>2, PhaseOnlyStep, Zenon DEF CollectorInv, Types
<1>4. Phases'
  BY <1>1, <1>2, Zenon
     DEF CollectorInv, Phases, Pending, Paused, Marking, Reclaiming, WeaksClosed, SlowPath,
         Preserving, PhaseOnly, reclaimFrame, spaceVars, weakVars, walkVars, runVars, markVars
<1>5. PICK B \in SUBSET Objects : Confined(B)
  BY <1>2, Zenon DEF CollectorInv, Confinement, WeaksClosed
<1>6. pc = "clear" => \A r \in B : Kind[r] \in {"soft", "weak"} => field[r] \in B \cup {Null}
  <2> SUFFICES ASSUME pc = "clear", NEW r \in B, Kind[r] \in {"soft", "weak"}, field[r] # Null
               PROVE  field[r] \in B
    BY Zenon
  <2>1. B = Kept /\ mark_stack_ = {} /\ r \notin queue
    BY <1>1, <1>5, Zenon DEF Confined, Pending, CollectorInv, Phases, Marking, Preserving
  <2>2. field[r] \in AllEdges(r) /\ pc \in Reclaiming
    BY Zenon DEF AllEdges, Reclaiming, WeaksClosed, SlowPath
  <2> QED
    BY <2>1, <2>2, Zenon DEF CollectorInv, KeptEdges, Kept
<1>7. Confined(B)'
  BY <1>1, <1>5, <1>6, Zenon
     DEF CollectorInv, Phases, Confined, Kept, FinalizerList, IsReference, AllEdges, PhaseOnly,
         reclaimFrame, spaceVars, objectVars, markVars
<1>8. Confinement'
  BY <1>7, Zenon DEF Confinement
<1> QED
  BY <1>3, <1>4, <1>8, Zenon DEF CollectorInv

\* StopPreservingReferences: the marks are propagated.  Before the clearing the
\* threads may go wherever the marks went.
LEMMA StopPreservingReferencesStep ==
  ASSUME CollectorInv, StopPreservingReferences
  PROVE  CollectorInv'
<1> USE NullIsNoObject
<1>1. /\ PhaseOnly /\ slow_path_enabled_' = slow_path_enabled_ /\ mark_stack_ = {}
      /\ preserving_references_' = FALSE
      /\ get_pc' = [t \in Threads |-> IF get_pc[t] = "wait" THEN "loop" ELSE get_pc[t]]
      /\ \/ pc = "preserve_mark" /\ pc' = "clear"
         \/ pc = "finalize_mark" /\ pc' = "clear_again"
  BY Zenon DEF StopPreservingReferences, PhaseOnly, Broadcast
<1>2. /\ pc \in SlowPath /\ pc' \in SlowPath
      /\ get_pc' \in [Threads -> {"none", "check", "loop", "wait"}]
      /\ \A t \in Threads : get_pc'[t] # "none" => get_pc[t] # "none"
      /\ \A t \in Threads : get_pc'[t] = "check" => get_pc[t] = "check"
      /\ pc' \notin Preserving
  BY <1>1, Zenon DEF CollectorInv, Types, SlowPath, Preserving
<1>3. /\ Types' /\ Spaces' /\ Program' /\ CardFirst' /\ Remembered' /\ TriColour'
      /\ KeptEdges' /\ KeptHeld'
  BY <1>1, <1>2, PhaseOnlyStep, Zenon
<1>4. Phases'
  <2>1. preserving_references_' = (pc' \in Preserving)
    <3>1. preserving_references_' = FALSE
      BY <1>1, Zenon
    <3>2. (pc' \in Preserving) = FALSE
      BY <1>2
    <3> QED
      BY ONLY <3>1, <3>2, Zenon
  <2> QED
    BY <1>1, <2>1, SMTT(30)
       DEF CollectorInv, Phases, Pending, Paused, Marking, Reclaiming, WeaksClosed, SlowPath,
           Preserving, PhaseOnly, reclaimFrame, spaceVars, weakVars, walkVars, runVars,
           markVars
<1>5. PICK B \in SUBSET Objects : Confined(B)
  BY <1>2, Zenon DEF CollectorInv, Confinement, WeaksClosed
<1>6. CASE pc = "preserve_mark"
  <2>1. PICK K \in SUBSET Objects : K = Kept
    BY Zenon DEF CollectorInv, Types, Kept
  <2>2. \A o \in K : ~IsReference(o) => field[o] \in K \cup {Null}
    <3> SUFFICES ASSUME NEW o \in K, ~IsReference(o), field[o] # Null
                 PROVE  field[o] \in K
      BY Zenon
    <3>1. field[o] \in AllEdges(o) /\ o \notin queue /\ pc \in Reclaiming
      BY <1>6, Zenon
         DEF AllEdges, CollectorInv, Spaces, Reclaiming, WeaksClosed, SlowPath, Preserving
    <3> QED
      BY <1>1, <2>1, <3>1, Zenon DEF CollectorInv, KeptEdges, Kept
  <2>3. Confined(K)'
    BY <1>1, <1>5, <1>6, <2>1, <2>2, Zenon
       DEF Confined, Kept, FinalizerList, IsReference, AllEdges, PhaseOnly, reclaimFrame,
           spaceVars, objectVars, markVars
  <2> QED
    BY <1>3, <1>4, <2>3, Zenon DEF CollectorInv, Confinement
<1>7. CASE pc = "finalize_mark"
  <2>1. Confined(B)'
    BY <1>1, <1>5, <1>7, Zenon DEF Confined, Kept, FinalizerList, IsReference, AllEdges,
       PhaseOnly, reclaimFrame, spaceVars, objectVars, markVars
  <2> QED
    BY <1>3, <1>4, <2>1, Zenon DEF CollectorInv, Confinement
<1> QED
  BY <1>1, <1>6, <1>7, Zenon

\* DisableSlowPath: the queues are empty, and no thread is between the two reads
\* of GetReferent.
LEMMA DisableSlowPathStep ==
  ASSUME CollectorInv, GetReferentIsAtomic, DisableSlowPath
  PROVE  CollectorInv'
<1> USE NullIsNoObject
<1>1. /\ PhaseOnly /\ pc = "clear_again" /\ pc' = "sweep_weaks"
      /\ slow_path_enabled_' = FALSE /\ preserving_references_' = preserving_references_
      /\ get_pc' = [t \in Threads |-> IF get_pc[t] = "wait" THEN "loop" ELSE get_pc[t]]
      /\ \A t \in Threads : get_pc[t] # "check"
      /\ Pending({"soft", "weak", "phantom"}) = {}
  BY Zenon DEF DisableSlowPath, PhaseOnly, Broadcast
<1>2. /\ pc \in SlowPath
      /\ get_pc' \in [Threads -> {"none", "check", "loop", "wait"}]
      /\ \A t \in Threads : get_pc'[t] # "none" => get_pc[t] # "none"
      /\ \A t \in Threads : get_pc'[t] # "check"
      /\ queue = {}
  BY <1>1, ZenonT(40)
     DEF CollectorInv, Types, Phases, Spaces, Pending, IsReference, RefKinds, SlowPath
<1>3. /\ Types' /\ Spaces' /\ Program' /\ CardFirst' /\ Remembered' /\ TriColour'
      /\ KeptEdges' /\ KeptHeld'
  BY <1>1, <1>2, PhaseOnlyStep, Zenon
<1>4. Phases'
  <2>1. slow_path_enabled_' = (pc' \in SlowPath)
    <3>1. slow_path_enabled_' = FALSE
      BY <1>1, Zenon
    <3>2. (pc' \in SlowPath) = FALSE
      BY <1>1 DEF SlowPath, Preserving
    <3> QED
      BY ONLY <3>1, <3>2, Zenon
  <2>2. preserving_references_' = (pc' \in Preserving)
    <3>1. preserving_references_ = (pc \in Preserving)
      BY Zenon DEF CollectorInv, Phases
    <3> QED
      BY <1>1, <3>1 DEF Preserving
  <2> QED
    BY <1>1, <1>2, <2>1, <2>2, Zenon
       DEF CollectorInv, Phases, Pending, Paused, Marking, Reclaiming, WeaksClosed, SlowPath,
           Preserving, PhaseOnly, reclaimFrame, spaceVars, weakVars, walkVars, runVars,
           markVars
<1>5. PICK B \in SUBSET Objects : Confined(B)
  BY <1>2, Zenon DEF CollectorInv, Confinement, WeaksClosed
<1>6. Confined(B)'
  BY <1>1, <1>2, <1>5, Zenon
     DEF Confined, Kept, FinalizerList, IsReference, AllEdges, PhaseOnly, reclaimFrame,
         spaceVars, objectVars, markVars
<1>7. Confinement'
  BY <1>6, Zenon DEF Confinement
<1> QED
  BY <1>3, <1>4, <1>7, Zenon DEF CollectorInv

\* PreserveSoftReference: the referent is outside what the threads can reach, or
\* it is already marked.
LEMMA PreserveSoftReferenceStep ==
  ASSUME CollectorInv, NEW r \in Objects, PreserveSoftReference(r)
  PROVE  CollectorInv'
<1> USE NullIsNoObject
<1>1. PICK y \in Objects \cup {Null} : y = field[r]
  BY Zenon DEF CollectorInv, Types
<1>2. /\ pc = "preserve" /\ pc' = pc /\ r \in queue /\ Kind[r] = "soft" /\ queue' = queue \ {r}
      /\ mark_bitmap_' = mark_bitmap_ \cup ({y} \ {Null})
      /\ mark_stack_' = mark_stack_ \cup ({y} \ (mark_bitmap_ \cup {Null}))
      /\ UNCHANGED <<reclaimFrame, objectVars, get_pc, processorVars, cleared_references_>>
  BY <1>1, Zenon DEF PreserveSoftReference, Mark, Pending
<1>3. pc \in Reclaiming /\ pc \in WeaksClosed /\ pc \in Preserving /\ pc \notin Marking
  BY <1>2, Zenon DEF Reclaiming, WeaksClosed, SlowPath, Preserving, Marking
<1>4. y \in allocated \cup {Null} /\ zombie[r] = Null
  BY <1>1, <1>2, Zenon DEF CollectorInv, Spaces, Program, AllEdges, Types
<1>5. PICK B \in SUBSET Objects : Confined(B)
  BY <1>3, Zenon DEF CollectorInv, Confinement
<1> USE DEF reclaimFrame, spaceVars, objectVars, weakVars, processorVars, walkVars, runVars
<1>6. Types'
  BY <1>2, Zenon DEF CollectorInv, Types
<1>7. Phases'
  BY <1>2, <1>3, Zenon DEF CollectorInv, Phases, Pending, Paused, AtSafePoint
<1>8. Spaces' /\ Program'
  BY <1>2, <1>4, ZenonT(40) DEF CollectorInv, Spaces, Program, IsReference, AllEdges
<1>9. CardFirst' /\ Remembered' /\ TriColour' /\ KeptHeld'
  <2>1. y \notin allocation_stack_
    BY <1>1, <1>2, <1>5, Zenon DEF Confined
  <2> QED
    BY <1>2, <1>3, <2>1, Zenon
       DEF CollectorInv, CardFirst, Unfinished, Remembered, TriColour, KeptHeld
<1>10. KeptEdges'
  <2> SUFFICES ASSUME NEW o \in Kept', NEW v \in AllEdges(o)
               PROVE  \/ v \in mark_bitmap_'
                      \/ v \in allocation_stack_ /\ Dirty(o)
                      \/ o \in mark_stack_'
                      \/ o \in queue' /\ v = field[o]
    BY <1>2, Zenon DEF KeptEdges, AllEdges, Dirty, Unfinished
  <2>1. CASE o \in Kept
    BY <1>1, <1>2, <1>3, <1>4, <2>1, Zenon DEF CollectorInv, KeptEdges, AllEdges
  <2>2. CASE o \notin Kept
    BY <1>2, <2>2, Zenon DEF Kept
  <2> QED
    BY <2>1, <2>2, Zenon
<1>11. B \cap mark_stack_' = {} /\ B \subseteq Kept'
  <2>1. y \notin mark_bitmap_ \cup {Null} => y \notin B
    BY <1>1, <1>2, <1>5, Zenon DEF Confined, Kept
  <2> QED
    BY <1>2, <1>5, <2>1, SMTT(30) DEF Confined, Kept
<1>12. Confined(B)'
  BY <1>2, <1>5, <1>11, Zenon DEF Confined, FinalizerList, IsReference, AllEdges
<1> QED
  BY <1>6, <1>7, <1>8, <1>9, <1>10, <1>12, Zenon DEF CollectorInv, Confinement

\* EnqueueFinalizerReference: the referent becomes the zombie, which no thread
\* can reach before the reference is handed to its queue.
LEMMA EnqueueFinalizerReferenceStep ==
  ASSUME CollectorInv, NEW f \in Objects, EnqueueFinalizerReference(f)
  PROVE  CollectorInv'
<1> USE NullIsNoObject
<1>1. PICK x \in Objects \cup {Null} : x = field[f]
  BY Zenon DEF CollectorInv, Types
<1>2. /\ pc = "finalize" /\ pc' = pc /\ f \in queue /\ Kind[f] = "finalizer" /\ queue' = queue \ {f}
      /\ UNCHANGED <<reclaimFrame, get_pc, processorVars>>
  BY Zenon DEF EnqueueFinalizerReference, Pending
<1>3. pc \in Reclaiming /\ pc \in WeaksClosed /\ pc \in Preserving /\ pc \notin Marking
  BY <1>2, Zenon DEF Reclaiming, WeaksClosed, SlowPath, Preserving, Marking
<1>4. PICK B \in SUBSET Objects : Confined(B)
  BY <1>3, Zenon DEF CollectorInv, Confinement
<1> USE DEF reclaimFrame, spaceVars, objectVars, weakVars, processorVars, walkVars, runVars, markVars
<1>5. CASE x \in mark_bitmap_ \cup {Null}
  <2>1. UNCHANGED <<objectVars, markVars, cleared_references_>>
    BY <1>1, <1>5, Zenon DEF EnqueueFinalizerReference
  <2>2. Types'
    BY <1>2, <2>1, Zenon DEF CollectorInv, Types
  <2>3. Phases'
    BY <1>2, <1>3, <2>1, Zenon DEF CollectorInv, Phases, Pending, Paused, AtSafePoint
  <2>4. Spaces' /\ Program'
    BY <1>2, <2>1, ZenonT(40) DEF CollectorInv, Spaces, Program, IsReference, AllEdges
  <2>5. CardFirst' /\ Remembered' /\ TriColour' /\ KeptHeld'
    BY <1>2, <1>3, <2>1, Zenon
       DEF CollectorInv, CardFirst, Unfinished, Remembered, TriColour, KeptHeld
  <2>6. KeptEdges'
    <3> SUFFICES ASSUME NEW o \in Kept, NEW v \in AllEdges(o)
                 PROVE  \/ v \in mark_bitmap_
                        \/ v \in allocation_stack_ /\ Dirty(o)
                        \/ o \in mark_stack_
                        \/ o \in queue' /\ v = field[o]
      BY <1>2, <2>1, Zenon DEF KeptEdges, AllEdges, Dirty, Unfinished, Kept
    <3> QED
      BY <1>1, <1>2, <1>3, <1>5, Zenon DEF CollectorInv, KeptEdges, AllEdges
  <2>7. Confined(B)'
    BY <1>2, <1>4, <2>1, Zenon DEF Confined, FinalizerList, IsReference, AllEdges, Kept
  <2> QED
    BY <2>2, <2>3, <2>4, <2>5, <2>6, <2>7, Zenon DEF CollectorInv, Confinement
<1>6. CASE x \notin mark_bitmap_ \cup {Null}
  <2>1. /\ mark_bitmap_' = mark_bitmap_ \cup {x} /\ mark_stack_' = mark_stack_ \cup {x}
        /\ zombie' = [zombie EXCEPT ![f] = x] /\ field' = [field EXCEPT ![f] = Null]
        /\ card' = [card EXCEPT ![f] = "dirty"]
        /\ cleared_references_' = cleared_references_ \cup {f}
    BY <1>1, <1>6, Zenon DEF EnqueueFinalizerReference, Mark, MarkCard
  <2>2. /\ x \in allocated /\ f \in allocated /\ f \in mark_bitmap_ /\ f \notin enqueued /\ x \in Objects
        /\ zombie \in [Objects -> Objects \cup {Null}] /\ field \in [Objects -> Objects \cup {Null}]
        /\ card \in [Objects -> {"clean", "aged", "dirty"}]
        /\ \A g \in Objects : Kind[g] = "finalizer" => x # g
    BY <1>1, <1>2, <1>6, Zenon DEF CollectorInv, Spaces, Program, AllEdges, Types
  <2>3. Types'
    BY <1>2, <2>1, <2>2, Zenon DEF CollectorInv, Types
  <2>4. Phases'
    BY <1>2, <1>3, <2>1, ZenonT(40) DEF CollectorInv, Phases, Pending, Paused, AtSafePoint
  <2>5. Spaces'
    <3>1. /\ \A o \in Objects \ {f} : zombie'[o] = zombie[o] /\ field'[o] = field[o]
          /\ zombie'[f] = x /\ field'[f] = Null
      BY <2>1, <2>2, Zenon
    <3>2. /\ mark_bitmap_' \subseteq allocated /\ mark_stack_' \subseteq mark_bitmap_'
          /\ queue \subseteq mark_bitmap_' /\ cleared_references_' \subseteq mark_bitmap_'
          /\ cleared_references_' \cap enqueued = {}
      <4>1. /\ mark_bitmap_ \subseteq allocated /\ mark_stack_ \subseteq mark_bitmap_
            /\ queue \subseteq mark_bitmap_ /\ cleared_references_ \subseteq mark_bitmap_
            /\ cleared_references_ \cap enqueued = {}
        BY Zenon DEF CollectorInv, Spaces
      <4>2. f \in mark_bitmap_ /\ f \notin enqueued /\ x \in allocated
        BY <2>2, Zenon
      <4> QED
        BY <2>1, <4>1, <4>2, Zenon
    <3>3. \A o \in Objects \ (allocated \cup freed) : field'[o] = Null /\ zombie'[o] = Null
      BY <2>2, <3>1, Zenon DEF CollectorInv, Spaces
    <3>4. \A r \in cleared_references_' \cup enqueued : IsReference(r) /\ field'[r] = Null
      <4>1. \A r \in cleared_references_ \cup enqueued : IsReference(r) /\ field[r] = Null /\ r \in Objects
        BY Zenon DEF CollectorInv, Types, Spaces
      <4> QED
        BY <1>2, <2>1, <3>1, <4>1, Zenon DEF IsReference, RefKinds
    <3>5. /\ \A g \in Objects : zombie'[g] # Null =>
               Kind[g] = "finalizer" /\ g \in cleared_references_' \cup enqueued
          /\ \A g \in cleared_references_' : Kind[g] = "finalizer" => zombie'[g] # Null
      <4>1. /\ \A g \in Objects : zombie[g] # Null =>
                 Kind[g] = "finalizer" /\ g \in cleared_references_ \cup enqueued
            /\ \A g \in cleared_references_ : g \in Objects /\ (Kind[g] = "finalizer" => zombie[g] # Null)
        BY Zenon DEF CollectorInv, Types, Spaces
      <4> QED
        BY <1>2, <1>6, <2>1, <3>1, <4>1, Zenon
    <3> QED
      BY <1>2, <3>2, <3>3, <3>4, <3>5, Zenon DEF CollectorInv, Spaces, IsReference
  <2>6. Program'
    BY <1>2, <1>6, <2>1, <2>2, SMTT(30) DEF CollectorInv, Types, Program, IsReference, AllEdges
  <2>7. CardFirst'
    BY <1>2, <2>1, <2>2, StoreShape, Zenon DEF CollectorInv, Types, CardFirst, Unfinished
  <2>8. Remembered' /\ TriColour' /\ KeptHeld'
    <3>1. x \notin allocation_stack_
      BY <1>1, <1>2, <1>4, Zenon DEF Confined
    <3> QED
      BY <1>2, <1>3, <2>1, <3>1, Zenon DEF CollectorInv, Remembered, TriColour, KeptHeld
  <2>9. KeptEdges'
    <3> SUFFICES ASSUME NEW o \in Kept', NEW v \in AllEdges(o)'
                 PROVE  \/ v \in mark_bitmap_'
                        \/ v \in allocation_stack_ /\ Dirty(o)'
                        \/ o \in mark_stack_'
                        \/ o \in queue' /\ v = field'[o]
      BY <1>2, Zenon DEF KeptEdges
    <3>1. o \in Objects
      BY <1>2, <2>1, <2>2, Zenon DEF Kept, CollectorInv, Types
    <3>2. Dirty(o) => Dirty(o)'
      BY <1>2, <2>1, <2>2, <3>1, Zenon DEF Dirty, Unfinished
    <3>3. CASE o \notin Kept
      BY <2>1, <3>3, <1>2, Zenon DEF Kept
    <3>4. CASE o = f
      BY <1>2, <2>1, <2>2, <3>4, Zenon DEF AllEdges
    <3>5. CASE o \in Kept /\ o # f
      <4>1. v \in AllEdges(o) /\ field'[o] = field[o]
        BY <2>1, <2>2, <3>1, <3>5, Zenon DEF AllEdges
      <4> QED
        BY <1>2, <1>3, <2>1, <3>2, <3>5, <4>1, Zenon DEF CollectorInv, KeptEdges
    <3> QED
      BY <3>3, <3>4, <3>5, Zenon
  <2>10. x \notin B /\ f \in B
    BY <1>1, <1>2, <1>4, <1>6, <2>2, Zenon DEF Confined, Kept, FinalizerList
  <2>11. Confined(B)'
    <3>1. \A o \in Objects : o # f => field'[o] = field[o] /\ zombie'[o] = zombie[o]
      BY <2>1, <2>2, Zenon
    <3>2. zombie'[f] = x /\ field'[f] = Null
      BY <2>1, <2>2, Zenon
    <3>3. B \subseteq Kept' /\ B \cap mark_stack_' = {} /\ (FinalizerList \subseteq B)'
      <4>1. B \subseteq Kept' /\ B \cap mark_stack_' = {}
        <5>1. B \subseteq Kept /\ B \cap mark_stack_ = {}
          BY <1>4, Zenon DEF Confined
        <5> QED
          BY <1>2, <2>1, <2>10, <5>1, Zenon DEF Kept
      <4>2. (FinalizerList \subseteq B)'
        BY <1>2, <1>4, <2>1, <2>10, Zenon DEF Confined, FinalizerList
      <4> QED
        BY <4>1, <4>2, Zenon
    <3>4. /\ \A g \in enqueued : zombie'[g] \in B \cup {Null}
          /\ \A o \in B : ~IsReference(o) => field'[o] \in B \cup {Null}
          /\ \A r \in B : Kind[r] \in {"soft", "weak"} => field'[r] \in B \cup {Null}
      BY <1>2, <1>4, <2>2, <3>1, Zenon DEF Confined, CollectorInv, Types, IsReference, RefKinds
    <3>5. /\ \A o \in allocated \ B : AllEdges(o)' \cap allocation_stack_ = {}
          /\ \A r \in queue' : r \notin allocation_stack_ /\ field'[r] \notin allocation_stack_
      BY <1>2, <1>4, <2>10, <3>1, ZenonT(40) DEF Confined, CollectorInv, Types, AllEdges
    <3>6. \A g \in cleared_references_' : Kind[g] = "finalizer" => zombie'[g] \notin B
      BY <1>2, <1>4, <2>1, <2>10, <3>1, <3>2, SMTT(30) DEF Confined, CollectorInv, Types
    <3> QED
      BY <1>2, <1>4, <3>3, <3>4, <3>5, <3>6, Zenon DEF Confined, IsReference
  <2> QED
    BY <2>3, <2>4, <2>5, <2>6, <2>7, <2>8, <2>9, <2>11, Zenon DEF CollectorInv, Confinement
<1> QED
  BY <1>5, <1>6, Zenon

\* ClearWhiteReference: a reference to an unmarked object loses it.
LEMMA ClearWhiteReferenceStep ==
  ASSUME CollectorInv, NEW r \in Objects, ClearWhiteReference(r)
  PROVE  CollectorInv'
<1> USE NullIsNoObject
<1>1. /\ pc \in {"clear", "clear_again"} /\ pc' = pc
      /\ r \in queue /\ queue' = queue \ {r} /\ Kind[r] \in RefKinds \ {"finalizer"}
      /\ \/ field' = field /\ cleared_references_' = cleared_references_
            /\ field[r] \in mark_bitmap_ \cup {Null}
         \/ /\ field' = [field EXCEPT ![r] = Null]
            /\ cleared_references_' = cleared_references_ \cup {r}
            /\ field[r] # Null
      /\ UNCHANGED <<reclaimFrame, zombie, card, get_pc, processorVars, markVars>>
  BY Zenon DEF ClearWhiteReference, Pending, RefKinds
<1>2. pc \in Reclaiming /\ pc \in WeaksClosed /\ pc \in SlowPath /\ pc \notin Marking
  BY <1>1, Zenon DEF Reclaiming, WeaksClosed, SlowPath, Marking
<1>3. PICK B \in SUBSET Objects : Confined(B)
  BY <1>2, Zenon DEF CollectorInv, Confinement
<1>4. /\ \A o \in Objects : field'[o] \in {field[o], Null} /\ (o # r => field'[o] = field[o])
      /\ field' \in [Objects -> Objects \cup {Null}]
      /\ field'[r] \in mark_bitmap_ \cup {Null} /\ zombie[r] = Null
      /\ r \in cleared_references_' \ cleared_references_ => field'[r] = Null /\ r \notin enqueued
      /\ cleared_references_' \subseteq cleared_references_ \cup {r}
      /\ cleared_references_ \subseteq cleared_references_'
      /\ r \in mark_bitmap_ /\ r \in allocated
  <2>1. /\ r \in mark_bitmap_ /\ r \in allocated /\ zombie[r] = Null
        /\ r \in enqueued \cup cleared_references_ => field[r] = Null
    BY <1>1, Zenon DEF CollectorInv, Spaces
  <2>2. field \in [Objects -> Objects \cup {Null}]
    BY Zenon DEF CollectorInv, Types
  <2>3. CASE field' = field /\ cleared_references_' = cleared_references_
             /\ field[r] \in mark_bitmap_ \cup {Null}
    BY <2>1, <2>2, <2>3, Zenon
  <2>4. CASE /\ field' = [field EXCEPT ![r] = Null]
             /\ cleared_references_' = cleared_references_ \cup {r}
             /\ field[r] # Null
    BY <2>1, <2>2, <2>4, Zenon
  <2> QED
    BY <1>1, <2>3, <2>4, Zenon
<1> USE DEF reclaimFrame, spaceVars, weakVars, processorVars, walkVars, runVars, markVars
<1>5. Types'
  BY <1>1, <1>4, ZenonT(40) DEF CollectorInv, Types
<1>6. Phases'
  BY <1>1, <1>2, <1>4, Zenon DEF CollectorInv, Phases, Pending, Paused, AtSafePoint, Reclaiming
<1>7. Spaces'
  <2>1. \A o \in Objects : field[o] = Null => field'[o] = Null
    BY <1>4, Zenon
  <2>2. queue' \subseteq mark_bitmap_ /\ \A q \in queue' : IsReference(q)
    BY <1>1, ZenonT(40) DEF CollectorInv, Spaces
  <2>3. /\ cleared_references_' \subseteq mark_bitmap_
        /\ cleared_references_' \cap enqueued = {}
        /\ \A q \in cleared_references_' \cup enqueued : IsReference(q) /\ field'[q] = Null
        /\ \A f \in cleared_references_' : Kind[f] = "finalizer" => zombie[f] # Null
    BY <1>1, <1>4, <2>1 DEF CollectorInv, Types, Spaces, IsReference
  <2>4. \A f \in Objects : zombie[f] # Null =>
          Kind[f] = "finalizer" /\ f \in cleared_references_' \cup enqueued
    BY <1>4, Zenon DEF CollectorInv, Spaces
  <2> QED
    BY <1>1, <2>1, <2>2, <2>3, <2>4, Zenon DEF CollectorInv, Spaces, IsReference
<1>8. Program'
  <2>1. \A o \in Objects : AllEdges(o)' \subseteq AllEdges(o)
    BY <1>1, <1>4, Zenon DEF AllEdges
  <2>2. \A o \in allocated : AllEdges(o)' \subseteq allocated
    BY <2>1, Zenon DEF CollectorInv, Types, Program
  <2>3. \A f \in Objects : Kind[f] = "finalizer" =>
          \A o \in Objects : field'[o] # f
    BY <1>4, ZenonT(40) DEF CollectorInv, Program
  <2> QED
    BY <1>1, <2>2, <2>3, Zenon DEF CollectorInv, Program, IsReference
<1>9. CardFirst' /\ Remembered' /\ TriColour' /\ KeptHeld'
  BY <1>1, <1>2, Zenon DEF CollectorInv, CardFirst, Unfinished, Remembered, TriColour, KeptHeld
<1>10. KeptEdges'
  <2> SUFFICES ASSUME NEW o \in Kept, NEW v \in AllEdges(o)'
               PROVE  \/ v \in mark_bitmap_
                      \/ v \in allocation_stack_ /\ Dirty(o)
                      \/ o \in mark_stack_
                      \/ o \in queue' /\ v = field'[o]
    BY <1>1, Zenon DEF KeptEdges, Kept, Dirty, Unfinished
  <2>1. CASE o = r
    BY <1>1, <1>4, <2>1, Zenon DEF AllEdges
  <2>2. CASE o # r
    <3>1. v \in AllEdges(o) /\ field'[o] = field[o]
      BY <1>1, <1>4, <2>2, Zenon DEF AllEdges, Kept, CollectorInv, Types
    <3> QED
      BY <1>1, <1>2, <2>2, <3>1, Zenon DEF CollectorInv, KeptEdges
  <2> QED
    BY <2>1, <2>2, Zenon
<1>11. Confined(B)'
  <2>1. /\ \A o \in B : ~IsReference(o) => field'[o] \in B \cup {Null}
        /\ \A o \in allocated \ B : AllEdges(o)' \cap allocation_stack_ = {}
        /\ \A o \in queue' : o \notin allocation_stack_ /\ field'[o] \notin allocation_stack_
    <3>1. allocation_stack_ \subseteq Objects /\ allocated \subseteq Objects /\ queue \subseteq Objects
      BY Zenon DEF CollectorInv, Types
    <3>2. \A o \in Objects : AllEdges(o)' \subseteq AllEdges(o)
      BY <1>1, <1>4, Zenon DEF AllEdges
    <3>3. \A o \in B : ~IsReference(o) => field'[o] \in B \cup {Null}
      BY <1>3, <1>4, Zenon DEF Confined
    <3>4. \A o \in allocated \ B : AllEdges(o)' \cap allocation_stack_ = {}
      BY <1>3, <3>1, <3>2, Zenon DEF Confined
    <3>5. \A o \in queue' : o \notin allocation_stack_ /\ field'[o] \notin allocation_stack_
      BY <1>1, <1>3, <1>4, <3>1, Zenon DEF Confined
    <3> QED
      BY <3>3, <3>4, <3>5, Zenon
  <2>2. pc = "clear_again" =>
          /\ \A o \in B : Kind[o] \in {"soft", "weak"} => field'[o] \in B \cup {Null}
          /\ \A g \in cleared_references_' : Kind[g] = "finalizer" => zombie[g] \notin B
    BY <1>1, <1>3, <1>4, Zenon DEF Confined
  <2> QED
    BY <1>1, <1>3, <2>1, <2>2, Zenon DEF Confined, Kept, FinalizerList, IsReference
<1> QED
  BY <1>5, <1>6, <1>7, <1>8, <1>9, <1>10, <1>11, Zenon DEF CollectorInv, Confinement

\* SweepSystemWeaks: the unmarked system weaks are dropped.
LEMMA SweepSystemWeaksStep ==
  ASSUME CollectorInv, SweepSystemWeaks
  PROVE  CollectorInv'
<1> USE NullIsNoObject
<1>1. /\ pc = "sweep_weaks" /\ pc' = "allow" /\ weak_globals_' = weak_globals_ \cap mark_bitmap_
      /\ UNCHANGED <<spaceVars, objectVars, threadVars, allow_new_weak_globals_,
                     processorVars, queueVars, markVars, walkVars, runVars>>
  BY Zenon DEF SweepSystemWeaks
<1> USE DEF spaceVars, objectVars, threadVars, getVars, processorVars, queueVars, markVars, walkVars,
            runVars
<1>2. PICK B \in SUBSET Objects : Confined(B)
  BY <1>1, Zenon DEF CollectorInv, Confinement, WeaksClosed
<1>3. Types'
  BY <1>1, ZenonT(40) DEF CollectorInv, Types, Phase, Reclaiming, WeaksClosed
<1>4. Phases'
  <2>1. allow_new_weak_globals_' = (pc' \notin WeaksClosed)
    <3>1. allow_new_weak_globals_ = FALSE
      BY <1>1, Zenon DEF CollectorInv, Phases, WeaksClosed
    <3>2. (pc' \notin WeaksClosed) = FALSE
      BY <1>1, Zenon DEF WeaksClosed
    <3>3. allow_new_weak_globals_' = allow_new_weak_globals_
      BY <1>1, Zenon
    <3> QED
      BY ONLY <3>1, <3>2, <3>3, Zenon
  <2> QED
    BY <1>1, <2>1, SMTT(30)
       DEF CollectorInv, Phases, Pending, Paused, Marking, Reclaiming, WeaksClosed, SlowPath,
           Preserving
<1>5. Spaces' /\ Program'
  BY <1>1, Zenon DEF CollectorInv, Spaces, Program, IsReference, AllEdges
<1>6. CardFirst' /\ Remembered' /\ TriColour' /\ KeptHeld'
  BY <1>1, Zenon
     DEF CollectorInv, CardFirst, Unfinished, Remembered, TriColour, KeptHeld, Marking,
         Reclaiming, WeaksClosed
<1>7. KeptEdges'
  BY <1>1, Zenon
     DEF CollectorInv, KeptEdges, Kept, Dirty, Unfinished, AllEdges, Reclaiming, WeaksClosed
<1>8. Confined(B)'
  BY <1>1, <1>2, Zenon DEF Confined, Kept, FinalizerList, IsReference, AllEdges
<1> QED
  BY <1>3, <1>4, <1>5, <1>6, <1>7, <1>8, Zenon DEF CollectorInv, Confinement

\* AllowNewSystemWeaks: from here on the threads reach only what is kept.
LEMMA AllowNewSystemWeaksStep ==
  ASSUME CollectorInv, AllowNewSystemWeaks
  PROVE  CollectorInv'
<1> USE NullIsNoObject
<1>1. /\ pc = "allow" /\ pc' = "sweep" /\ allow_new_weak_globals_' = TRUE
      /\ UNCHANGED <<spaceVars, objectVars, threadVars, weak_globals_,
                     processorVars, queueVars, markVars, walkVars, runVars>>
  BY Zenon DEF AllowNewSystemWeaks
<1> USE DEF spaceVars, objectVars, threadVars, getVars, processorVars, queueVars, markVars, walkVars,
            runVars
<1>2. PICK B \in SUBSET Objects : Confined(B)
  BY <1>1, Zenon DEF CollectorInv, Confinement, WeaksClosed
<1>3. Types'
  BY <1>1, Zenon DEF CollectorInv, Types, Phase, Reclaiming
<1>4. Phases'
  <2>1. allow_new_weak_globals_' = (pc' \notin WeaksClosed)
    <3>1. allow_new_weak_globals_' = TRUE
      BY <1>1, Zenon
    <3>2. (pc' \notin WeaksClosed) = TRUE
      BY <1>1, Zenon DEF WeaksClosed, SlowPath, Preserving
    <3> QED
      BY ONLY <3>1, <3>2, Zenon
  <2> QED
    BY <1>1, <2>1, SMTT(30)
       DEF CollectorInv, Phases, Pending, Paused, Marking, Reclaiming, WeaksClosed, SlowPath,
           Preserving
<1>5. Spaces' /\ Program'
  BY <1>1, Zenon DEF CollectorInv, Spaces, Program, IsReference, AllEdges
<1>6. CardFirst' /\ Remembered' /\ TriColour'
  BY <1>1, Zenon DEF CollectorInv, CardFirst, Unfinished, Remembered, TriColour, Marking
<1>7. KeptHeld'
  BY <1>1, <1>2, Zenon
     DEF CollectorInv, KeptHeld, Confined, Kept, FinalizerList, Reclaiming, WeaksClosed
<1>8. KeptEdges'
  BY <1>1, Zenon
     DEF CollectorInv, KeptEdges, Kept, Dirty, Unfinished, AllEdges, Reclaiming, WeaksClosed
<1>9. Confinement'
  BY <1>1, Zenon DEF Confinement, WeaksClosed, SlowPath, Preserving
<1> QED
  BY <1>3, <1>4, <1>5, <1>6, <1>7, <1>8, <1>9, Zenon DEF CollectorInv

\* Sweep: exactly what is kept stays allocated, and nothing that stays refers to
\* what is freed.
LEMMA SweepStep ==
  ASSUME CollectorInv, Sweep
  PROVE  CollectorInv'
<1> USE NullIsNoObject
<1>1. /\ pc = "sweep" /\ pc' = "finish" /\ allocated' = allocated \ Garbage
      /\ freed' = freed \cup Garbage /\ live_bitmap_' = mark_bitmap_ /\ live_stack_' = {}
      /\ UNCHANGED <<allocation_stack_, objectVars, threadVars, weakVars, processorVars, queueVars,
                     markVars, walkVars, runVars>>
  BY Zenon DEF Sweep
<1>2. mark_stack_ = {} /\ queue = {} /\ pc \in Reclaiming
  BY <1>1, Zenon DEF CollectorInv, Phases, Marking, Preserving, SlowPath, Reclaiming
<1>3. allocated' = Kept /\ Garbage \subseteq allocated
  BY <1>1, ZenonT(40) DEF CollectorInv, Types, Phases, Spaces, Garbage, Kept
<1>4. /\ FinalizerList \subseteq Kept /\ weak_globals_ \subseteq Kept
      /\ \A t \in Threads : roots[t] \subseteq Kept
      /\ \A t \in Threads : get_pc[t] = "check" => referent[t] \in Kept \cup {Null}
      /\ mark_bitmap_ \cap allocation_stack_ = {}
  BY <1>1, <1>2, Zenon DEF CollectorInv, KeptHeld
<1>5. \A o \in Kept : \A v \in AllEdges(o) :
        v \in mark_bitmap_ \/ (v \in allocation_stack_ /\ Dirty(o))
  BY <1>2, Zenon DEF CollectorInv, KeptEdges
<1> USE DEF objectVars, threadVars, getVars, weakVars, processorVars, queueVars, markVars, walkVars,
            runVars
<1>6. Types'
  BY <1>1, <1>3, Zenon DEF CollectorInv, Types, Phase
<1>7. Phases'
  BY <1>1, <1>2, SMTT(30)
     DEF CollectorInv, Phases, Pending, Paused, Marking, Reclaiming, WeaksClosed, SlowPath,
         Preserving
<1>8. Spaces'
  <2>1. enqueued \subseteq Kept /\ cleared_references_ \subseteq mark_bitmap_
    BY <1>4, Zenon DEF CollectorInv, Spaces, FinalizerList
  <2>2. Objects \ (allocated' \cup freed') = Objects \ (allocated \cup freed)
    BY <1>1, <1>3, Zenon
  <2>3. allocated' \cap freed' = {}
    BY <1>1, Zenon DEF CollectorInv, Spaces
  <2> QED
    BY <1>1, <1>2, <1>3, <1>4, <2>1, <2>2, <2>3, Zenon
       DEF CollectorInv, Spaces, IsReference, Kept
<1>9. Program'
  BY <1>1, <1>3, <1>4, <1>5, Zenon DEF CollectorInv, Program, IsReference, AllEdges, Kept
<1>10. CardFirst'
  BY <1>1, Zenon DEF CollectorInv, CardFirst, Unfinished
<1>11. Remembered'
  BY <1>1, <1>3, <1>5, Zenon DEF Remembered, Dirty, Unfinished, AllEdges
<1>12. TriColour' /\ KeptEdges' /\ KeptHeld' /\ Confinement'
  BY <1>1, Zenon
     DEF TriColour, KeptEdges, KeptHeld, Confinement, Marking, Reclaiming, WeaksClosed,
         SlowPath, Preserving
<1> QED
  BY <1>6, <1>7, <1>8, <1>9, <1>10, <1>11, <1>12, Zenon DEF CollectorInv

\* FinishPhase: the marks are dropped and the finalizer references handed over.
LEMMA FinishPhaseStep ==
  ASSUME CollectorInv, FinishPhase
  PROVE  CollectorInv'
<1> USE NullIsNoObject
<1>1. /\ pc = "finish" /\ pc' = "idle" /\ mark_bitmap_' = {} /\ cleared_references_' = {}
      /\ enqueued' = enqueued \cup {f \in cleared_references_ : Kind[f] = "finalizer"}
      /\ UNCHANGED <<spaceVars, objectVars, threadVars, weakVars, processorVars,
                     queue, mark_stack_, walkVars, runVars>>
  BY Zenon DEF FinishPhase
<1>2. mark_stack_ = {} /\ queue = {}
  BY <1>1, Zenon DEF CollectorInv, Phases, Marking, Preserving, SlowPath
<1> USE DEF spaceVars, objectVars, threadVars, getVars, weakVars, processorVars, walkVars, runVars
<1>3. Types'
  BY <1>1, Zenon DEF CollectorInv, Types, Phase
<1>4. Phases'
  BY <1>1, <1>2, SMTT(30)
     DEF CollectorInv, Phases, Pending, Paused, Marking, Reclaiming, WeaksClosed, SlowPath,
         Preserving
<1>5. Spaces'
  BY <1>1, <1>2, Zenon DEF CollectorInv, Spaces, IsReference
<1>6. Program'
  BY <1>1, Zenon DEF CollectorInv, Program, IsReference, AllEdges
<1>7. CardFirst'
  BY <1>1, Zenon DEF CollectorInv, CardFirst, Unfinished
<1>8. Remembered'
  BY <1>1, Zenon DEF CollectorInv, Remembered, Dirty, Unfinished, AllEdges
<1>9. TriColour' /\ KeptEdges' /\ KeptHeld' /\ Confinement'
  BY <1>1, Zenon
     DEF TriColour, KeptEdges, KeptHeld, Confinement, Marking, Reclaiming, WeaksClosed,
         SlowPath, Preserving
<1> QED
  BY <1>3, <1>4, <1>5, <1>6, <1>7, <1>8, <1>9, Zenon DEF CollectorInv

-----------------------------------------------------------------------------
(* The invariant.                                                          *)

\* The heaps the mutators may have built before the first collection.
LEMMA InitCollector == Init => CollectorInv
<1> SUFFICES ASSUME Init
             PROVE  CollectorInv
  BY Zenon
<1> USE NullIsNoObject
<1>1. PICK h \in InitialHeaps :
        /\ field = [o \in Objects |-> IF o \in DOMAIN h.field THEN h.field[o] ELSE Null]
        /\ allocated = DOMAIN h.field
        /\ roots = [t \in Threads |-> h.held]
  BY Zenon DEF Init
<1>2. /\ allocated \subseteq Objects /\ h.held \subseteq allocated
      /\ \A o \in Objects : field[o] \in allocated \cup {Null} /\ (o \notin allocated => field[o] = Null)
      /\ \A o \in Objects : Kind[o] = "finalizer" =>
           /\ \A t \in Threads : o \notin roots[t]
           /\ \A p \in Objects : field[p] # o
  BY <1>1, MarkSweepAssumption, Zenon DEF MarkSweepAssumption
<1>3. Types
  BY <1>1, <1>2, Zenon DEF Init, Types, Phase, Stores
<1>4. Phases
  <2>1. slow_path_enabled_ = FALSE /\ preserving_references_ = FALSE /\ allow_new_weak_globals_ = TRUE
    BY Zenon DEF Init
  <2>2. /\ (pc \in SlowPath) = FALSE /\ (pc \in Preserving) = FALSE
        /\ (pc \notin WeaksClosed) = TRUE
    BY DEF Init, WeaksClosed, SlowPath, Preserving
  <2>3. /\ slow_path_enabled_ = (pc \in SlowPath) /\ preserving_references_ = (pc \in Preserving)
        /\ allow_new_weak_globals_ = (pc \notin WeaksClosed)
    BY ONLY <2>1, <2>2, Zenon
  <2> QED
    BY <2>3, Zenon DEF Init, Phases, Pending, Paused, Marking, Reclaiming
<1>5. Spaces
  BY <1>2, Zenon DEF Init, Spaces
<1>6. Program
  BY <1>1, <1>2, SMTT(30) DEF Init, Program, AllEdges
<1>7. CardFirst
  BY Zenon DEF Init, CardFirst, Unfinished
<1>8. Remembered
  BY <1>2, Zenon DEF Init, Remembered, Dirty, AllEdges
<1>9. TriColour /\ KeptEdges /\ KeptHeld /\ Confinement
  BY Zenon
     DEF Init, TriColour, KeptEdges, KeptHeld, Confinement, Marking, Reclaiming, WeaksClosed,
         SlowPath, Preserving
<1> QED
  BY <1>3, <1>4, <1>5, <1>6, <1>7, <1>8, <1>9, Zenon DEF CollectorInv

\* A step of the collector preserves the invariant.
LEMMA CollectPreserves ==
  ASSUME CollectorInv, GetReferentIsAtomic, Collect
  PROVE  CollectorInv'
<1>1. ASSUME NEW o \in Objects, ScanCard(o)
      PROVE  CollectorInv'
  BY <1>1, ScanCardStep, Zenon
<1>2. ASSUME NEW o \in Objects, ProcessMarkStack(o)
      PROVE  CollectorInv'
  BY <1>2, ProcessMarkStackStep, Zenon
<1>3. ASSUME NEW o \in Objects, PreserveSoftReference(o)
      PROVE  CollectorInv'
  BY <1>3, PreserveSoftReferenceStep, Zenon
<1>4. ASSUME NEW o \in Objects, EnqueueFinalizerReference(o)
      PROVE  CollectorInv'
  BY <1>4, EnqueueFinalizerReferenceStep, Zenon
<1>5. ASSUME NEW o \in Objects, ClearWhiteReference(o)
      PROVE  CollectorInv'
  BY <1>5, ClearWhiteReferenceStep, Zenon
<1>6. CASE MarkNonThreadRoots
  BY <1>6, MarkNonThreadRootsStep, Zenon
<1>7. CASE StickyMarkReachableObjects
  BY <1>7, StickyMarkReachableObjectsStep, Zenon
<1>8. CASE PreCleanCards
  BY <1>8, PreCleanCardsStep, Zenon
<1>9. CASE ScanAgedCards
  BY <1>9, ScanAgedCardsStep, Zenon
<1>10. CASE PausePhase
  BY <1>10, PausePhaseStep, Zenon
<1>11. CASE EndPause
  BY <1>11, EndPauseStep, Zenon
<1>12. CASE StartProcessing
  BY <1>12, StartProcessingStep, Zenon
<1>13. CASE QueueProcessed
  BY <1>13, QueueProcessedStep, Zenon
<1>14. CASE StopPreservingReferences
  BY <1>14, StopPreservingReferencesStep, Zenon
<1>15. CASE DisableSlowPath
  BY <1>15, DisableSlowPathStep, Zenon
<1>16. CASE SweepSystemWeaks
  BY <1>16, SweepSystemWeaksStep, Zenon
<1>17. CASE AllowNewSystemWeaks
  BY <1>17, AllowNewSystemWeaksStep, Zenon
<1>18. CASE Sweep
  BY <1>18, SweepStep, Zenon
<1>19. CASE FinishPhase
  BY <1>19, FinishPhaseStep, Zenon
<1> QED
  BY Zenon, <1>1, <1>2, <1>3, <1>4, <1>5, <1>6, <1>7, <1>8, <1>9, <1>10, <1>11, <1>12, <1>13,
     <1>14, <1>15, <1>16, <1>17, <1>18, <1>19 DEF Collect

\* A step of a thread preserves the invariant.
LEMMA ThreadPreserves ==
  ASSUME CollectorInv, NEW t \in Threads, Progress(t) \/ Mutate(t)
  PROVE  CollectorInv'
<1>1. CASE FinishStore(t)
  BY <1>1, FinishStoreStep, Zenon
<1>2. CASE CheckSlowPath(t)
  BY <1>2, CheckSlowPathStep, Zenon
<1>3. CASE GetReferentSlow(t)
  BY <1>3, GetReferentSlowStep, Zenon
<1>4. CASE MarkThreadRoots(t)
  BY <1>4, MarkThreadRootsStep, Zenon
<1>5. ASSUME NEW o \in Objects, AllocObject(t, o)
      PROVE  CollectorInv'
  BY <1>5, AllocObjectStep, Zenon
<1>6. ASSUME NEW o \in Objects, LoadField(t, o)
      PROVE  CollectorInv'
  BY <1>6, LoadFieldStep, Zenon
<1>7. ASSUME NEW o \in Objects, DropRoot(t, o)
      PROVE  CollectorInv'
  BY <1>7, DropRootStep, Zenon
<1>8. ASSUME NEW o \in Objects, ClearField(t, o)
      PROVE  CollectorInv'
  BY <1>8, ClearFieldStep, Zenon
<1>9. ASSUME NEW o \in Objects, GetReferent(t, o)
      PROVE  CollectorInv'
  BY <1>9, GetReferentStep, Zenon
<1>10. ASSUME NEW o \in Objects, AddWeakGlobalReference(t, o)
      PROVE  CollectorInv'
  BY <1>10, AddWeakGlobalReferenceStep, Zenon
<1>11. ASSUME NEW o \in Objects, DecodeWeakGlobal(t, o)
      PROVE  CollectorInv'
  BY <1>11, DecodeWeakGlobalStep, Zenon
<1>12. ASSUME NEW o \in Objects, RunFinalizer(t, o)
      PROVE  CollectorInv'
  BY <1>12, RunFinalizerStep, Zenon
<1>13. ASSUME NEW o \in Objects, NEW v \in Objects, NewReference(t, o, v)
      PROVE  CollectorInv'
  BY <1>13, NewReferenceStep, Zenon
<1>14. ASSUME NEW o \in Objects, NEW v \in Objects, NEW first \in {"field", "card"},
             SetFieldObject(t, o, v, first)
      PROVE  CollectorInv'
  BY <1>14, SetFieldObjectStep, Zenon
<1> QED
  BY Zenon, <1>1, <1>2, <1>3, <1>4, <1>5, <1>6, <1>7, <1>8, <1>9, <1>10, <1>11, <1>12, <1>13,
     <1>14 DEF Progress, Mutate

\* A step that changes nothing.
LEMMA StutterCollector ==
  ASSUME CollectorInv, UNCHANGED vars
  PROVE  CollectorInv'
<1> USE DEF vars, spaceVars, objectVars, threadVars, getVars, weakVars, collectorVars, processorVars,
            queueVars, markVars, gcVars, walkVars, runVars
<1>1. Types' /\ Phases'
  BY SMTT(30) DEF CollectorInv, Types, Phases, Pending, Paused, AtSafePoint
<1>2. Spaces' /\ Program' /\ CardFirst'
  BY Zenon DEF CollectorInv, Spaces, Program, CardFirst, Unfinished, AllEdges, IsReference
<1>3. Remembered' /\ TriColour'
  BY ZenonT(40)
     DEF CollectorInv, Remembered, TriColour, Rescan, Dirty, Unfinished, AllEdges, Paused,
         FinalizerList
<1>4. KeptEdges' /\ KeptHeld'
  BY Zenon
     DEF CollectorInv, KeptEdges, KeptHeld, Kept, Dirty, Unfinished, AllEdges, FinalizerList
<1>5. Confinement'
  <2>1. \A B \in SUBSET Objects : Confined(B) => Confined(B)'
    BY Zenon DEF Confined, Kept, FinalizerList, AllEdges, IsReference
  <2> QED
    BY <2>1, Zenon DEF CollectorInv, Confinement
<1> QED
  BY <1>1, <1>2, <1>3, <1>4, <1>5, ZenonT(40) DEF CollectorInv

\* The inductive invariant of the collector and the threads holds for every heap
\* and every number of threads, collections and operations, as long as
\* DisableSlowPath does not fall between the two reads of GetReferent.
THEOREM CollectorInvariant ==
  ASSUME GetReferentIsAtomic
  PROVE  Spec => []CollectorInv
<1>1. CollectorInv /\ [Next]_vars => CollectorInv'
  <2> SUFFICES ASSUME CollectorInv, [Next]_vars
               PROVE  CollectorInv'
    BY Zenon
  <2>1. CASE Collect
    BY <2>1, CollectPreserves, Zenon
  <2>2. ASSUME NEW t \in Threads, Progress(t) \/ Mutate(t)
        PROVE  CollectorInv'
    BY <2>2, ThreadPreserves, Zenon
  <2>3. ASSUME NEW type \in {"full", "sticky"}, NEW clear \in BOOLEAN, StartCollection(type, clear)
        PROVE  CollectorInv'
    BY <2>3, StartCollectionStep, Zenon
  <2>4. CASE UNCHANGED vars
    BY <2>4, StutterCollector, Zenon
  <2> QED
    BY <2>1, <2>2, <2>3, <2>4, Zenon DEF Next
<1> QED
  BY <1>1, InitCollector, PTL DEF Spec

-----------------------------------------------------------------------------
(* No reachable object is freed.                                           *)

\* No object that is strongly reachable from a stack or from the list of
\* FinalizerReferences is freed: what is allocated is closed under references.
THEOREM ReachableObjectsAreKept ==
  ASSUME GetReferentIsAtomic
  PROVE  Spec => []ReachableIsKept
<1>1. CollectorInv => ReachableIsKept
  <2> SUFFICES ASSUME CollectorInv
               PROVE  StronglyReachable \subseteq allocated
    BY Zenon DEF ReachableIsKept, CollectorInv, Spaces
  <2>1. allocated \in SUBSET Objects /\ Stacks \cup FinalizerList \subseteq allocated
    BY SMTT(30) DEF CollectorInv, Types, Program, Stacks, FinalizerList
  <2>2. \A x \in allocated : StrongEdges(x) \subseteq allocated
    BY Zenon DEF CollectorInv, Program, StrongEdges, AllEdges
  <2> QED
    BY <2>1, <2>2, Zenon DEF StronglyReachable, Closure
<1> QED
  BY <1>1, CollectorInvariant, PTL

-----------------------------------------------------------------------------
(* References are cleared before their referents are finalized.            *)

\* While the system weaks are closed, no soft or weak reference that a thread can
\* reach leads to an object on its way to its finalizer: the threads are confined
\* to a region that is closed under strong references, whose soft and weak
\* references stay inside it, and that holds no such object.
THEOREM ReferencesClearedBeforeFinalization ==
  ASSUME GetReferentIsAtomic
  PROVE  Spec => []ClearedBeforeFinalized
<1>1. CollectorInv => ClearedBeforeFinalized
  <2> SUFFICES ASSUME CollectorInv,
                      pc \in {"finalize", "finalize_mark", "clear_again", "sweep_weaks", "allow"},
                      NEW f \in cleared_references_, NEW r \in Closure(Stacks, StrongEdges),
                      Kind[f] = "finalizer", Kind[r] \in {"soft", "weak"}
               PROVE  field[r] # zombie[f]
    BY Zenon DEF ClearedBeforeFinalized
  <2>1. PICK B \in SUBSET Objects : Confined(B)
    BY Zenon DEF CollectorInv, Confinement, WeaksClosed, SlowPath, Preserving
  <2>2. PICK T \in SUBSET Objects : T = {x \in B : Kind[x] # "finalizer"}
    BY Zenon
  <2>3. Stacks \subseteq T
    BY <2>1, <2>2, SMTT(30) DEF CollectorInv, Types, Program, Confined, Stacks
  <2>4. \A x \in T : StrongEdges(x) \subseteq T
    <3> SUFFICES ASSUME NEW x \in T
                 PROVE  StrongEdges(x) \subseteq T
      BY Zenon
    <3>1. x \in B /\ x \in Objects /\ Kind[x] # "finalizer"
      BY <2>2, Zenon
    <3>2. CASE IsReference(x)
      BY <3>1, <3>2, Zenon DEF CollectorInv, Spaces, StrongEdges
    <3>3. CASE ~IsReference(x)
      <4>1. field[x] \in B \cup {Null}
        BY <2>1, <3>1, <3>3, Zenon DEF Confined
      <4>2. field[x] # Null => Kind[field[x]] # "finalizer"
        BY <3>1, <4>1, Zenon DEF CollectorInv, Program
      <4> QED
        BY <2>2, <3>3, <4>1, <4>2, Zenon DEF StrongEdges
    <3> QED
      BY <3>2, <3>3, Zenon
  <2>5. r \in B
    BY <2>2, <2>3, <2>4, Zenon DEF Closure
  <2> QED
    BY <2>1, <2>5, Zenon DEF CollectorInv, Spaces, Confined
<1> QED
  BY <1>1, CollectorInvariant, PTL

-----------------------------------------------------------------------------
(* No thread is forgotten in GetReferent.                                  *)

WaiterInv == get_pc \in [Threads -> {"none", "check", "loop", "wait"}] /\ NoForgottenWaiter

\* A thread that waits in GetReferent waits while the slow path is enabled:
\* DisableSlowPath wakes whoever waits in the step that disables it.  This needs
\* nothing of the fast path.
THEOREM NoWaiterIsForgotten == Spec => []NoForgottenWaiter
<1>1. Init => WaiterInv
  BY Zenon DEF Init, WaiterInv, NoForgottenWaiter
<1>2. WaiterInv /\ [Next]_vars => WaiterInv'
  <2> SUFFICES ASSUME WaiterInv, [Next]_vars
               PROVE  WaiterInv'
    BY Zenon
  <2> USE DEF WaiterInv, NoForgottenWaiter
  <2>1. ASSUME UNCHANGED <<get_pc, slow_path_enabled_>>
        PROVE  WaiterInv'
    BY <2>1, Zenon
  <2>2. ASSUME NEW t \in Threads, GetReferentSlow(t)
        PROVE  WaiterInv'
    <3>1. slow_path_enabled_' = slow_path_enabled_ /\ get_pc[t] = "loop"
      BY <2>2, Zenon DEF GetReferentSlow, collectorVars, processorVars
    <3>2. CASE ~slow_path_enabled_
      <4>1. get_pc' = [get_pc EXCEPT ![t] = "none"]
        BY <2>2, <3>2, Zenon DEF GetReferentSlow, ReturnReferent
      <4> QED
        BY <3>1, <4>1, Zenon
    <3>3. CASE slow_path_enabled_
      <4>1. \/ get_pc' = [get_pc EXCEPT ![t] = "none"]
            \/ get_pc' = [get_pc EXCEPT ![t] = "wait"]
        BY <2>2, Zenon DEF GetReferentSlow, ReturnReferent
      <4>2. get_pc' \in [Threads -> {"none", "check", "loop", "wait"}]
        BY <4>1, Zenon
      <4> QED
        BY <3>1, <3>3, <4>2, Zenon
    <3> QED
      BY <3>2, <3>3, Zenon
  <2>3. ASSUME NEW t \in Threads, CheckSlowPath(t) \/ \E r \in Objects : GetReferent(t, r)
        PROVE  WaiterInv'
    <3>1. slow_path_enabled_' = slow_path_enabled_
      BY <2>3, Zenon DEF CheckSlowPath, GetReferent, collectorVars, processorVars
    <3>2. \E at \in {"none", "loop", "check"} : get_pc' = [get_pc EXCEPT ![t] = at]
      BY <2>3, Zenon DEF CheckSlowPath, GetReferent, ReturnReferent
    <3> QED
      BY <3>1, <3>2, Zenon
  <2>4. CASE StopPreservingReferences \/ DisableSlowPath
    BY <2>4, Zenon DEF StopPreservingReferences, DisableSlowPath, Broadcast
  <2>5. CASE EndPause
    BY <2>5, Zenon DEF EndPause, threadVars, getVars
  <2>6. CASE UNCHANGED vars
    BY <2>1, <2>6, Zenon DEF vars, threadVars, getVars, collectorVars, processorVars
  <2>7. ASSUME NEW t \in Threads, FinishStore(t) \/ MarkThreadRoots(t)
        PROVE  WaiterInv'
    BY <2>1, <2>7, Zenon
       DEF FinishStore, MarkThreadRoots, markingFrame, threadVars, getVars, collectorVars,
           processorVars
  <2>8. ASSUME NEW t \in Threads, Mutate(t), \A r \in Objects : ~GetReferent(t, r)
        PROVE  WaiterInv'
    BY <2>1, <2>8, Zenon
       DEF Mutate, AllocObject, LoadField, DropRoot, ClearField, AddWeakGlobalReference,
           DecodeWeakGlobal, RunFinalizer, NewReference, SetFieldObject, Allocate, threadVars,
           getVars, collectorVars, processorVars
  <2>9. ASSUME NEW type, NEW clear, StartCollection(type, clear)
        PROVE  WaiterInv'
    BY <2>1, <2>9, Zenon DEF StartCollection, threadVars, getVars, processorVars
  <2>10. ASSUME NEW o \in Objects, \/ ScanCard(o)
                                   \/ ProcessMarkStack(o)
                                   \/ PreserveSoftReference(o)
                                   \/ EnqueueFinalizerReference(o)
                                   \/ ClearWhiteReference(o)
         PROVE  WaiterInv'
    BY <2>1, <2>10, Zenon
       DEF ScanCard, ProcessMarkStack, PreserveSoftReference, EnqueueFinalizerReference,
           ClearWhiteReference, markingFrame, threadVars, getVars, processorVars
  <2>11. CASE \/ MarkNonThreadRoots
              \/ StickyMarkReachableObjects
              \/ PreCleanCards
              \/ ScanAgedCards
              \/ PausePhase
              \/ StartProcessing
              \/ QueueProcessed
    BY <2>1, <2>11, Zenon
       DEF MarkNonThreadRoots, StickyMarkReachableObjects, PreCleanCards, ScanAgedCards,
           PausePhase, StartProcessing, QueueProcessed, markingFrame, threadVars, getVars,
           processorVars
  <2>12. CASE \/ SweepSystemWeaks
              \/ AllowNewSystemWeaks
              \/ Sweep
              \/ FinishPhase
    BY <2>1, <2>12, Zenon
       DEF SweepSystemWeaks, AllowNewSystemWeaks, Sweep, FinishPhase, threadVars, getVars,
           processorVars
  <2> QED
    BY <2>2, <2>3, <2>4, <2>5, <2>6, <2>7, <2>8, <2>9, <2>10, <2>11, <2>12, Zenon
       DEF Next, Collect, Progress
<1>3. WaiterInv => NoForgottenWaiter
  BY Zenon DEF WaiterInv
<1> QED
  BY <1>1, <1>2, <1>3, PTL DEF Spec

-----------------------------------------------------------------------------
(* A full collection frees what was garbage when it began.                 *)

\* A step that neither begins nor ends a collection nor sweeps.
WithinCollection ==
  /\ UNCHANGED <<freed, gc_type, doomed>>
  /\ pc' = "idle" <=> pc = "idle"
  /\ pc' = "finish" <=> pc = "finish"

\* Only what it does to the reach of garbage matters for such a step.
LEMMA WithinCollectionStep ==
  ASSUME Doomed, WithinCollection, Unreachable => Unreachable'
  PROVE  Doomed'
BY Zenon DEF Doomed, WithinCollection

\* Garbage stays out of reach of a step that hands none of it out.
LEMMA KeepsUnreachable ==
  ASSUME Unreachable, UNCHANGED <<pc, doomed, mark_bitmap_>>,
         allocated \subseteq allocated', doomed \cap (allocation_stack_' \ allocation_stack_) = {},
         doomed \cap (weak_globals_' \ weak_globals_) = {},
         \A u \in Threads : doomed \cap roots'[u] = {} /\ referent'[u] \notin doomed,
         \A x \in allocated' \ doomed : field'[x] \notin doomed /\ zombie'[x] \notin doomed
  PROVE  Unreachable'
<1>1. doomed' \subseteq allocated'
  BY Zenon DEF Unreachable
<1>2. doomed' \cap (mark_bitmap_' \cup FinalizerList' \cup weak_globals_') = {}
  BY Zenon DEF Unreachable, FinalizerList
<1>3. \A u \in Threads : doomed' \cap roots'[u] = {} /\ referent'[u] \notin doomed'
  BY Zenon
<1>4. \A x \in allocated' \ doomed' : AllEdges(x)' \cap doomed' = {}
  BY Zenon DEF AllEdges
<1>5. pc' \in Reclaiming => doomed' \cap allocation_stack_' = {}
  BY Zenon DEF Unreachable
<1> QED
  BY <1>1, <1>2, <1>3, <1>4, <1>5, Zenon DEF Unreachable

\* What a thread can reach while garbage is out of reach.
LEMMA OutOfReach ==
  ASSUME CollectorInv, Unreachable
  PROVE  /\ doomed \subseteq Objects
         /\ \A u \in Threads : /\ roots[u] \subseteq allocated /\ doomed \cap roots[u] = {}
                               /\ referent[u] \notin doomed
         /\ \A x \in allocated \ doomed :
              /\ x \in Objects
              /\ field[x] \in (allocated \ doomed) \cup {Null}
              /\ zombie[x] \in (allocated \ doomed) \cup {Null}
<1>1. allocated \subseteq Objects /\ doomed \subseteq allocated
  BY Zenon DEF CollectorInv, Types, Unreachable
<1>2. \A u \in Threads : /\ roots[u] \subseteq allocated /\ doomed \cap roots[u] = {}
                         /\ referent[u] \notin doomed
  BY Zenon DEF CollectorInv, Program, Unreachable
<1>3. \A x \in allocated \ doomed : AllEdges(x) \subseteq allocated \ doomed
  BY Zenon DEF CollectorInv, Program, Unreachable
<1> QED
  BY <1>1, <1>2, <1>3, Zenon DEF AllEdges

\* A thread only gets hold of what is not garbage.
LEMMA ThreadKeepsDoomed ==
  ASSUME CollectorInv, Doomed, NEW t \in Threads, Progress(t) \/ Mutate(t)
  PROVE  Doomed'
<1>1. WithinCollection
  BY Zenon
     DEF Progress, Mutate, FinishStore, CheckSlowPath, GetReferentSlow, MarkThreadRoots,
         AllocObject, LoadField, DropRoot, ClearField, GetReferent, AddWeakGlobalReference,
         DecodeWeakGlobal, RunFinalizer, NewReference, SetFieldObject, Allocate,
         WithinCollection, spaceVars, collectorVars, gcVars, runVars, markingFrame
<1> SUFFICES ASSUME Unreachable
             PROVE  Unreachable'
  BY <1>1, WithinCollectionStep, Zenon
<1> DEFINE fixed == <<pc, doomed, mark_bitmap_, allocated, allocation_stack_, weak_globals_>>
<1>2. /\ roots \in [Threads -> SUBSET Objects] /\ referent \in [Threads -> Objects \cup {Null}]
      /\ field \in [Objects -> Objects \cup {Null}] /\ zombie \in [Objects -> Objects \cup {Null}]
      /\ Null \notin doomed /\ Null \notin allocated
  BY NullIsNoObject, OutOfReach, Zenon DEF CollectorInv, Types
<1>3. ASSUME UNCHANGED <<fixed, field, zombie>>,
             \A u \in Threads : doomed \cap roots'[u] = {} /\ referent'[u] \notin doomed
      PROVE  Unreachable'
  <2>1. /\ UNCHANGED <<pc, doomed, mark_bitmap_>> /\ allocated \subseteq allocated'
        /\ doomed \cap (allocation_stack_' \ allocation_stack_) = {}
        /\ doomed \cap (weak_globals_' \ weak_globals_) = {}
    BY <1>3, Zenon
  <2>2. \A x \in allocated \ doomed : field[x] \notin doomed /\ zombie[x] \notin doomed
    BY <1>2, OutOfReach, Zenon
  <2>3. \A x \in allocated' \ doomed : field'[x] \notin doomed /\ zombie'[x] \notin doomed
    BY <1>3, <2>2, Zenon
  <2> QED
    BY <1>3, <2>1, <2>3, KeepsUnreachable, Zenon
<1>4. ASSUME UNCHANGED <<fixed, referent, field, zombie>>,
             NEW o, o \notin doomed, roots' = roots \/ Hold(t, o)
      PROVE  Unreachable'
  <2>1. \A u \in Threads : roots'[u] \subseteq roots[u] \cup {o}
    BY <1>2, <1>4, Zenon DEF Hold
  <2> QED
    BY <1>3, <1>4, <2>1, OutOfReach, Zenon
<1>5. ASSUME UNCHANGED <<fixed, roots, referent, zombie>>, NEW o, NEW v, v \notin doomed,
             field' = field \/ field' = [field EXCEPT ![o] = v]
      PROVE  Unreachable'
  <2>1. \A x \in allocated \ doomed : field'[x] \notin doomed /\ zombie'[x] \notin doomed
    BY <1>2, <1>5, OutOfReach, Zenon
  <2> QED
    BY <1>5, <2>1, OutOfReach, KeepsUnreachable, Zenon
<1>6. ASSUME NEW o \in Objects, LoadField(t, o)
      PROVE  Unreachable'
  <2>1. UNCHANGED <<fixed, referent, field, zombie>> /\ Hold(t, field[o]) /\ o \in roots[t]
    BY <1>6, Zenon
       DEF LoadField, spaceVars, objectVars, getVars, weakVars, collectorVars, markVars, gcVars, runVars
  <2>2. field[o] \notin doomed
    BY <1>2, <2>1, OutOfReach, Zenon
  <2> QED
    BY <1>4, <2>1, <2>2, Zenon
<1>7. ASSUME NEW o \in Objects, DropRoot(t, o)
      PROVE  Unreachable'
  <2>1. UNCHANGED <<fixed, referent, field, zombie>> /\ roots' = [roots EXCEPT ![t] = @ \ {o}]
    BY <1>7, Zenon
       DEF DropRoot, spaceVars, objectVars, getVars, weakVars, collectorVars, markVars, gcVars, runVars
  <2>2. \A u \in Threads : roots'[u] \subseteq roots[u]
    BY <1>2, <2>1, Zenon
  <2> QED
    BY <1>3, <2>1, <2>2, OutOfReach, Zenon
<1>8. ASSUME NEW o \in Objects, DecodeWeakGlobal(t, o)
      PROVE  Unreachable'
  <2>1. UNCHANGED <<fixed, referent, field, zombie>> /\ Hold(t, o) /\ o \in weak_globals_
    BY <1>8, Zenon
       DEF DecodeWeakGlobal, spaceVars, objectVars, getVars, weakVars, collectorVars, markVars, gcVars,
           runVars
  <2>2. o \notin doomed
    BY <2>1, Zenon DEF Unreachable
  <2> QED
    BY <1>4, <2>1, <2>2, Zenon
<1>9. ASSUME NEW o \in Objects, GetReferent(t, o)
      PROVE  Unreachable'
  <2>1. /\ UNCHANGED <<fixed, roots, field, zombie>>
        /\ referent' = [referent EXCEPT ![t] = field[o]] /\ o \in roots[t]
    BY <1>9, Zenon
       DEF GetReferent, spaceVars, objectVars, weakVars, collectorVars, markVars, gcVars, runVars
  <2>2. \A u \in Threads : referent'[u] \notin doomed
    BY <1>2, <2>1, OutOfReach, Zenon
  <2> QED
    BY <1>3, <2>1, <2>2, OutOfReach, Zenon
<1>10. ASSUME NEW o, o \notin doomed, ReturnReferent(t, o),
              UNCHANGED <<spaceVars, objectVars, weakVars, collectorVars>>
       PROVE  Unreachable'
  <2>1. UNCHANGED <<fixed, field, zombie>> /\ Hold(t, o) /\ referent' = [referent EXCEPT ![t] = Null]
    BY <1>10, Zenon
       DEF ReturnReferent, spaceVars, objectVars, weakVars, collectorVars, markVars, gcVars, runVars
  <2>2. \A u \in Threads : roots'[u] \subseteq roots[u] \cup {o} /\ referent'[u] \in {referent[u], Null}
    BY <1>2, <2>1, Zenon DEF Hold
  <2>3. \A u \in Threads : doomed \cap roots[u] = {} /\ referent[u] \notin doomed
    BY OutOfReach, Zenon
  <2>4. \A u \in Threads : doomed \cap roots'[u] = {} /\ referent'[u] \notin doomed
    BY <1>2, <1>10, <2>2, <2>3, Zenon
  <2> QED
    BY <1>3, <2>1, <2>4, Zenon
<1>11. CASE CheckSlowPath(t)
  <2>1. CASE ReturnReferent(t, referent[t])
    BY <1>10, <1>11, <2>1, OutOfReach, Zenon DEF CheckSlowPath
  <2>2. CASE UNCHANGED <<roots, referent>>
    BY <1>3, <1>11, <2>2, OutOfReach, Zenon
       DEF CheckSlowPath, spaceVars, objectVars, weakVars, collectorVars, markVars, gcVars, runVars
  <2> QED
    BY <1>11, <2>1, <2>2, Zenon DEF CheckSlowPath
<1>12. CASE GetReferentSlow(t)
  <2>1. getting[t] \in allocated \ doomed
    BY <1>12, OutOfReach, Zenon DEF GetReferentSlow, CollectorInv, Program
  <2>2. field[getting[t]] \notin doomed
    BY <1>2, <2>1, OutOfReach, Zenon
  <2>3. CASE ReturnReferent(t, field[getting[t]])
    BY <1>10, <1>12, <2>2, <2>3, Zenon DEF GetReferentSlow
  <2>4. CASE UNCHANGED <<roots, referent>>
    BY <1>3, <1>12, <2>4, OutOfReach, Zenon
       DEF GetReferentSlow, spaceVars, objectVars, weakVars, collectorVars, markVars, gcVars, runVars
  <2> QED
    BY <1>12, <2>3, <2>4, Zenon DEF GetReferentSlow
<1>13. CASE MarkThreadRoots(t)
  <2>1. /\ UNCHANGED <<pc, doomed, spaceVars, objectVars, roots, referent, weak_globals_>>
        /\ mark_bitmap_' \subseteq mark_bitmap_ \cup roots[t]
    BY <1>13, Zenon
       DEF MarkThreadRoots, Mark, markingFrame, threadVars, getVars, weakVars, runVars
  <2> QED
    BY <2>1, Zenon DEF Unreachable, FinalizerList, AllEdges, spaceVars, objectVars
<1>14. ASSUME NEW o \in Objects, AllocObject(t, o)
       PROVE  Unreachable'
  <2>1. /\ UNCHANGED <<pc, doomed, mark_bitmap_, weak_globals_, referent, field, zombie>> /\ Hold(t, o)
        /\ allocated' = allocated \cup {o} /\ allocation_stack_' = allocation_stack_ \cup {o}
        /\ o \notin allocated /\ o \notin freed
    BY <1>14, Zenon
       DEF AllocObject, Allocate, getVars, weakVars, collectorVars, markVars, gcVars, runVars
  <2>2. field[o] = Null /\ zombie[o] = Null /\ o \notin doomed
    BY <2>1, Zenon DEF CollectorInv, Spaces, Unreachable
  <2>3. \A u \in Threads : roots'[u] \subseteq roots[u] \cup {o}
    BY <1>2, <2>1, Zenon DEF Hold
  <2>4. \A x \in allocated' \ doomed : field'[x] \notin doomed /\ zombie'[x] \notin doomed
    BY <1>2, <2>1, <2>2, OutOfReach, ZenonT(40)
  <2>5. \A u \in Threads : doomed \cap roots'[u] = {} /\ referent'[u] \notin doomed
    BY <2>1, <2>2, <2>3, OutOfReach
  <2> QED
    BY <2>1, <2>2, <2>4, <2>5, KeepsUnreachable, Zenon
<1>15. ASSUME NEW r \in Objects, NEW o \in Objects, NewReference(t, r, o)
       PROVE  Unreachable'
  <2>1. /\ UNCHANGED <<pc, doomed, mark_bitmap_, weak_globals_, referent, zombie>>
        /\ roots' = roots \/ Hold(t, r)
        /\ field' = [field EXCEPT ![r] = o] /\ o \in roots[t]
        /\ allocated' = allocated \cup {r} /\ allocation_stack_' = allocation_stack_ \cup {r}
        /\ r \notin allocated /\ r \notin freed
    BY <1>15, Zenon
       DEF NewReference, Allocate, getVars, weakVars, collectorVars, markVars, gcVars, runVars
  <2>2. zombie[r] = Null /\ r \notin doomed /\ o \notin doomed
    BY <2>1, OutOfReach, Zenon DEF CollectorInv, Spaces, Unreachable
  <2>3. \A u \in Threads : roots'[u] \subseteq roots[u] \cup {r}
    BY <1>2, <2>1, Zenon DEF Hold
  <2>4. \A x \in allocated' \ doomed : field'[x] \notin doomed /\ zombie'[x] \notin doomed
    BY <1>2, <2>1, <2>2, OutOfReach
  <2>5. \A u \in Threads : doomed \cap roots'[u] = {} /\ referent'[u] \notin doomed
    BY <2>1, <2>2, <2>3, OutOfReach
  <2> QED
    BY <2>1, <2>2, <2>4, <2>5, KeepsUnreachable, Zenon
<1>16. ASSUME NEW o \in Objects, ClearField(t, o)
       PROVE  Unreachable'
  <2>1. UNCHANGED <<fixed, roots, referent, zombie>> /\ field' = [field EXCEPT ![o] = Null]
    BY <1>16, Zenon
       DEF ClearField, spaceVars, threadVars, getVars, weakVars, collectorVars, markVars, gcVars, runVars
  <2> QED
    BY <1>2, <1>5, <2>1, Zenon
<1>17. ASSUME NEW o \in Objects, AddWeakGlobalReference(t, o)
       PROVE  Unreachable'
  <2>1. /\ UNCHANGED <<pc, doomed, mark_bitmap_, allocated, allocation_stack_, field, zombie, roots,
                       referent>>
        /\ weak_globals_' = weak_globals_ \cup {o} /\ o \in roots[t]
    BY <1>17, Zenon
       DEF AddWeakGlobalReference, spaceVars, objectVars, threadVars, getVars, collectorVars, markVars,
           gcVars, runVars
  <2>2. o \notin doomed
    BY <2>1, OutOfReach, Zenon
  <2>3. \A x \in allocated' \ doomed : field'[x] \notin doomed /\ zombie'[x] \notin doomed
    BY <1>2, <2>1, OutOfReach, Zenon
  <2> QED
    BY <2>1, <2>2, <2>3, OutOfReach, KeepsUnreachable, Zenon
<1>18. ASSUME NEW f \in Objects, RunFinalizer(t, f)
       PROVE  Unreachable'
  <2>1. /\ UNCHANGED <<fixed, field, referent>>
        /\ Hold(t, zombie[f]) /\ zombie' = [zombie EXCEPT ![f] = Null] /\ f \in enqueued
    BY <1>18, Zenon
       DEF RunFinalizer, spaceVars, getVars, weakVars, markVars, gcVars, runVars
  <2>2. f \in allocated \ doomed
    <3>1. f \in FinalizerList
      BY <2>1, Zenon DEF CollectorInv, Spaces, FinalizerList
    <3> QED
      BY <3>1, Zenon DEF Unreachable, FinalizerList
  <2>3. \A u \in Threads : roots'[u] \subseteq roots[u] \cup {zombie[f]}
    BY <1>2, <2>1, Zenon DEF Hold
  <2>4. \A u \in Threads : doomed \cap roots'[u] = {} /\ referent'[u] \notin doomed
    BY <1>2, <2>1, <2>2, <2>3, OutOfReach
  <2>5. \A x \in allocated' \ doomed : field'[x] \notin doomed /\ zombie'[x] \notin doomed
    BY <1>2, <2>1, OutOfReach, Zenon
  <2> QED
    BY <2>1, <2>4, <2>5, KeepsUnreachable, Zenon
<1>19. ASSUME NEW o \in Objects, NEW v \in Objects, NEW first, SetFieldObject(t, o, v, first)
       PROVE  Unreachable'
  <2>1. /\ UNCHANGED <<fixed, roots, referent, zombie>> /\ v \in roots[t]
        /\ field' = field \/ field' = [field EXCEPT ![o] = v]
    BY <1>19, Zenon
       DEF SetFieldObject, spaceVars, getVars, weakVars, collectorVars, markVars, gcVars, runVars
  <2>2. v \notin doomed
    BY <2>1, OutOfReach, Zenon
  <2> QED
    BY <1>5, <2>1, <2>2, Zenon
<1>20. CASE FinishStore(t)
  <2>1. /\ UNCHANGED <<fixed, roots, referent, zombie>> /\ store[t] # <<>>
        /\ field' = field \/ field' = [field EXCEPT ![store[t][2]] = store[t][3]]
    BY <1>20, ZenonT(40)
       DEF FinishStore, spaceVars, getVars, weakVars, collectorVars, markVars, gcVars, runVars
  <2>2. store[t][3] \notin doomed
    <3>1. store[t][3] \in roots[t]
      BY <2>1, Zenon DEF CollectorInv, Program
    <3> QED
      BY <3>1, OutOfReach, Zenon
  <2> QED
    BY <1>5, <2>1, <2>2, Zenon
<1> QED
  BY <1>6, <1>7, <1>8, <1>9, <1>11, <1>12, <1>13, <1>14, <1>15, <1>16, <1>17, <1>18, <1>19, <1>20,
     Zenon
     DEF Progress, Mutate

\* The collector marks only what it finds from what is not garbage.
LEMMA CollectKeepsDoomed ==
  ASSUME CollectorInv, Doomed, Collect
  PROVE  Doomed'
<1> USE NullIsNoObject
<1> USE DEF spaceVars, objectVars, threadVars, getVars, weakVars, processorVars, queueVars, markVars,
            walkVars, runVars, reclaimFrame, markingFrame
<1>1. /\ field \in [Objects -> Objects \cup {Null}] /\ zombie \in [Objects -> Objects \cup {Null}]
      /\ mark_bitmap_ \subseteq allocated /\ mark_stack_ \subseteq mark_bitmap_
      /\ queue \subseteq mark_bitmap_ /\ allocated \subseteq Objects
      /\ Unreachable => \A o \in mark_bitmap_ : AllEdges(o) \cap doomed = {}
  BY Zenon DEF CollectorInv, Types, Spaces, Unreachable
\* A step that marks nothing doomed and enters no new phase of the sweep.
<1>2. ASSUME UNCHANGED <<spaceVars, roots, referent, weak_globals_, runVars>>,
             pc \notin {"idle", "finish"}, pc' \notin {"idle", "finish"},
             pc' \in Reclaiming => pc \in Reclaiming,
             Unreachable => mark_bitmap_' \cap doomed = {},
             \A o \in Objects : AllEdges(o)' \subseteq AllEdges(o)
      PROVE  Doomed'
  BY <1>1, <1>2, Zenon DEF Doomed, Unreachable, FinalizerList
<1>3. ASSUME NEW o \in mark_bitmap_, NEW stack, Scan(o, stack)
      PROVE  Unreachable => mark_bitmap_' \cap doomed = {}
  BY <1>1, <1>3, Zenon DEF Scan, StrongEdges, AllEdges, Unreachable
<1>4. ASSUME NEW o \in Objects, ScanCard(o)
      PROVE  Doomed'
  <2>1. pc \in {"gray", "gray_again", "gray_paused"} /\ pc' = pc
    BY <1>4, Zenon DEF ScanCard, CollectorInv, Phases
  <2>2. Unreachable => mark_bitmap_' \cap doomed = {}
    BY <1>3, <1>4, Zenon DEF ScanCard, Unreachable
  <2> QED
    BY <1>2, <1>4, <2>1, <2>2, Zenon DEF ScanCard, AllEdges
<1>5. ASSUME NEW o \in Objects, ProcessMarkStack(o)
      PROVE  Doomed'
  <2>1. Unreachable => mark_bitmap_' \cap doomed = {}
    BY <1>1, <1>3, <1>5, Zenon DEF ProcessMarkStack
  <2> QED
    BY <1>2, <1>5, <2>1, Zenon DEF ProcessMarkStack, AllEdges
<1>6. ASSUME NEW r \in Objects, PreserveSoftReference(r)
      PROVE  Doomed'
  <2>1. Unreachable => mark_bitmap_' \cap doomed = {}
    BY <1>1, <1>6, Zenon DEF PreserveSoftReference, Pending, Mark, AllEdges, Unreachable
  <2> QED
    BY <1>2, <1>6, <2>1, Zenon DEF PreserveSoftReference, AllEdges
<1>7. ASSUME NEW f \in Objects, EnqueueFinalizerReference(f)
      PROVE  Doomed'
  <2>1. Unreachable => mark_bitmap_' \cap doomed = {}
    BY <1>1, <1>7, Zenon DEF EnqueueFinalizerReference, Pending, Mark, AllEdges, Unreachable
  <2>2. \A o \in Objects : AllEdges(o)' \subseteq AllEdges(o)
    <3>1. CASE field[f] \in mark_bitmap_ \cup {Null}
      BY <1>7, <3>1, Zenon DEF EnqueueFinalizerReference, AllEdges
    <3>2. CASE field[f] \notin mark_bitmap_ \cup {Null}
      <4>1. zombie' = [zombie EXCEPT ![f] = field[f]] /\ field' = [field EXCEPT ![f] = Null]
        BY <1>7, <3>2, Zenon DEF EnqueueFinalizerReference
      <4>2. /\ \A o \in Objects \ {f} : field'[o] = field[o] /\ zombie'[o] = zombie[o]
            /\ field'[f] = Null /\ zombie'[f] = field[f]
        BY <1>1, <4>1, Zenon
      <4> QED
        BY <4>2, Zenon DEF AllEdges
    <3> QED
      BY <3>1, <3>2, Zenon
  <2> QED
    BY <1>2, <1>7, <2>1, <2>2, Zenon DEF EnqueueFinalizerReference
<1>8. ASSUME NEW r \in Objects, ClearWhiteReference(r)
      PROVE  Doomed'
  <2>1. \A o \in Objects : AllEdges(o)' \subseteq AllEdges(o)
    BY <1>1, <1>8, Zenon DEF ClearWhiteReference, AllEdges
  <2> QED
    BY <1>2, <1>8, <2>1, Zenon DEF ClearWhiteReference, Unreachable
<1>9. CASE MarkNonThreadRoots
  BY <1>2, <1>9, Zenon
     DEF MarkNonThreadRoots, Mark, Unreachable, AllEdges, Reclaiming, WeaksClosed, SlowPath,
         Preserving
<1>10. CASE StickyMarkReachableObjects
  BY <1>2, <1>10, Zenon
     DEF StickyMarkReachableObjects, Unreachable, AllEdges, Reclaiming, WeaksClosed, SlowPath,
         Preserving
<1>11. CASE PreCleanCards
  BY <1>2, <1>11, Zenon
     DEF PreCleanCards, Unreachable, AllEdges, Reclaiming, WeaksClosed, SlowPath, Preserving
<1>12. CASE ScanAgedCards
  BY <1>2, <1>12, Zenon
     DEF ScanAgedCards, Mark, Unreachable, AllEdges, Reclaiming, WeaksClosed, SlowPath,
         Preserving
<1>13. CASE PausePhase
  <2>1. Unreachable => (FinalizerList \cup Stacks) \cap doomed = {}
    <3>1. \A x \in Stacks : \E t \in Threads : x \in roots[t]
      BY SMT DEF Stacks
    <3>2. Unreachable => /\ doomed \cap FinalizerList = {}
                         /\ \A t \in Threads : doomed \cap roots[t] = {}
      BY Zenon DEF Unreachable
    <3> QED
      BY <3>1, <3>2, Zenon
  <2>2. Unreachable => mark_bitmap_' \cap doomed = {}
    BY <1>13, <2>1, Zenon DEF PausePhase, Mark, Unreachable
  <2>3. /\ pc = "gray_again" /\ pc' = "gray_paused"
        /\ UNCHANGED <<spaceVars, roots, referent, weak_globals_, runVars>>
        /\ \A o \in Objects : AllEdges(o)' \subseteq AllEdges(o)
    BY <1>13, Zenon DEF PausePhase, AllEdges
  <2> QED
    BY <1>2, <2>2, <2>3, Zenon DEF Reclaiming, WeaksClosed, SlowPath, Preserving
<1>14. CASE \/ StartProcessing
            \/ QueueProcessed
            \/ StopPreservingReferences
            \/ DisableSlowPath
  <2>1. /\ pc \in SlowPath /\ pc' \in WeaksClosed
        /\ UNCHANGED <<reclaimFrame, objectVars, mark_bitmap_>>
    BY <1>14, Zenon
       DEF StartProcessing, QueueProcessed, StopPreservingReferences, DisableSlowPath,
           WeaksClosed, SlowPath, Preserving
  <2>2. /\ pc \notin {"idle", "finish"} /\ pc' \notin {"idle", "finish"} /\ pc \in Reclaiming
        /\ Unreachable => mark_bitmap_' \cap doomed = {}
        /\ \A o \in Objects : AllEdges(o)' \subseteq AllEdges(o)
    BY <2>1, Zenon DEF Reclaiming, WeaksClosed, SlowPath, Preserving, Unreachable, AllEdges
  <2> QED
    BY <1>2, <2>1, <2>2, Zenon
<1>15. CASE SweepSystemWeaks
  BY <1>15, Zenon
     DEF SweepSystemWeaks, Doomed, Unreachable, FinalizerList, AllEdges, Reclaiming,
         WeaksClosed
<1>16. CASE AllowNewSystemWeaks
  BY <1>2, <1>16, Zenon DEF AllowNewSystemWeaks, Unreachable, AllEdges, Reclaiming, WeaksClosed
\* The allocation stack becomes the live stack, so the new one is empty.
<1>17. CASE EndPause
  <2>1. allocation_stack_' = {}
    BY <1>17, Zenon
       DEF EndPause, CollectorInv, Phases, Reclaiming, WeaksClosed, SlowPath, Preserving
  <2> QED
    BY <1>17, <2>1, Zenon DEF EndPause, Doomed, Unreachable, FinalizerList, AllEdges
\* Everything doomed is in the live bitmap or on the live stack, and unmarked.
<1>18. CASE Sweep
  <2>1. (gc_type = "full" /\ Unreachable) => doomed \subseteq Garbage
    BY <1>18, Zenon DEF Sweep, Garbage, Unreachable, CollectorInv, Spaces, Reclaiming
  <2> QED
    BY <1>18, <2>1, Zenon DEF Sweep, Doomed
<1>19. CASE FinishPhase
  BY <1>19, Zenon DEF FinishPhase, Doomed
<1> QED
  BY Zenon, <1>4, <1>5, <1>6, <1>7, <1>8, <1>9, <1>10, <1>11, <1>12, <1>13, <1>14, <1>15,
     <1>16, <1>17, <1>18, <1>19
     DEF Collect

\* What is not reachable when a full collection begins is cut off from the rest.
LEMMA StartCollectionDooms ==
  ASSUME CollectorInv, NEW type \in {"full", "sticky"}, NEW clear \in BOOLEAN,
         StartCollection(type, clear)
  PROVE  Doomed'
<1> USE NullIsNoObject
<1> DEFINE S == Stacks \cup InFlight \cup FinalizerList \cup weak_globals_
           C == Closure(S, AllEdges)
<1>1. S \subseteq Objects
  BY DEF CollectorInv, Types, Stacks, InFlight, FinalizerList
<1>2. S \subseteq C
  BY <1>1, Zenon DEF Closure
<1>3. \A x \in C : AllEdges(x) \subseteq C
  <2>1. \A x \in Objects : AllEdges(x) \subseteq Objects
    BY Zenon DEF CollectorInv, Types, AllEdges
  <2> QED
    BY <2>1, Zenon DEF Closure
<1>4. type # "sticky" => doomed' = allocated \ C
  BY Zenon DEF StartCollection
<1> HIDE DEF C
<1>5. Unreachable' \/ gc_type' = "sticky"
  <2> SUFFICES ASSUME type = "full"
               PROVE  Unreachable'
    BY Zenon DEF StartCollection
  <2>1. /\ mark_bitmap_' = {} /\ pc' = "checkpoint"
        /\ UNCHANGED <<spaceVars, field, zombie, threadVars, weakVars>>
    BY Zenon DEF StartCollection
  <2>2. doomed' = allocated \ C
    BY <1>4, Zenon
  <2>3. /\ FinalizerList \subseteq C /\ weak_globals_ \subseteq C
        /\ \A t \in Threads : roots[t] \subseteq C /\ (referent[t] # Null => referent[t] \in C)
    BY <1>2, Zenon DEF Stacks, InFlight
  <2>4. Null \notin allocated
    BY Zenon DEF CollectorInv, Types
  <2>5. pc' \notin Reclaiming
    BY <2>1, Zenon DEF Reclaiming, WeaksClosed, SlowPath, Preserving
  <2> QED
    BY <1>3, <2>1, <2>2, <2>3, <2>4, <2>5, Zenon
       DEF Unreachable, FinalizerList, AllEdges, spaceVars, threadVars, getVars, weakVars
<1> QED
  BY <1>5, Zenon DEF Doomed, StartCollection

\* A full collection frees every object that was unreachable when it began.
THEOREM GarbageIsFreedByFullCollection ==
  ASSUME GetReferentIsAtomic
  PROVE  Spec => []GarbageIsFreed
<1>1. Init => Doomed
  BY Zenon DEF Init, Doomed
<1>2. CollectorInv /\ Doomed /\ [Next]_vars => Doomed'
  <2> SUFFICES ASSUME CollectorInv, Doomed, [Next]_vars
               PROVE  Doomed'
    BY Zenon
  <2>1. CASE Collect
    BY <2>1, CollectKeepsDoomed, Zenon
  <2>2. ASSUME NEW t \in Threads, Progress(t) \/ Mutate(t)
        PROVE  Doomed'
    BY <2>2, ThreadKeepsDoomed, Zenon
  <2>3. ASSUME NEW type \in {"full", "sticky"}, NEW clear \in BOOLEAN, StartCollection(type, clear)
        PROVE  Doomed'
    BY <2>3, StartCollectionDooms, Zenon
  <2>4. CASE UNCHANGED vars
    BY <2>4, Zenon
       DEF vars, Doomed, Unreachable, FinalizerList, AllEdges, spaceVars, objectVars,
           threadVars, getVars, weakVars, collectorVars, markVars, gcVars, runVars
  <2> QED
    BY <2>1, <2>2, <2>3, <2>4, Zenon DEF Next
<1>3. CollectorInv /\ Doomed => GarbageIsFreed
  BY Zenon DEF CollectorInv, Spaces, Doomed, GarbageIsFreed
<1> QED
  BY <1>1, <1>2, <1>3, CollectorInvariant, PTL DEF Spec
=============================================================================
