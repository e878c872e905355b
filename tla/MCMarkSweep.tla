----------------------------- MODULE MCMarkSweep -----------------------------
(* Two plain objects, a SoftReference (cleared like a WeakReference unless a *)
(* sticky collection preserves it) and a FinalizerReference.  The program    *)
(* starts with one object, with two unrelated objects, or with object 1      *)
(* referring to object 2 and softly reachable only.                          *)
EXTENDS MarkSweep

MCKind == <<"object", "object", "soft", "finalizer">>
MCInitialHeaps == {[field |-> <<Null>>, held |-> {1}],
                   [field |-> <<Null, Null>>, held |-> {1, 2}],
                   [field |-> <<2, Null, 1>>, held |-> {3}]}
=============================================================================
