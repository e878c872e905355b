----------------------------- MODULE ClassLinker ----------------------------
(***************************************************************************)
(* Finding, defining, verifying and initialising classes                   *)
(* (runtime/class_linker.cc, the status of runtime/mirror/class.cc).       *)
(*                                                                         *)
(* Each thread has the stack of the calls it is in, for these functions    *)
(* call one another: defining a class resolves its superclass, verifying   *)
(* it verifies the superclass, and its <clinit> may use any class.  A      *)
(* frame holds the monitors that its ObjectLocks have entered.  Loading,   *)
(* linking, verification and <clinit> may each fail for reasons of their   *)
(* own (the dex file, memory, an exception).                               *)
(*                                                                         *)
(* The runtime has started (init_done_), is not a compiler and verifies    *)
(* classes (-Xverify is not none), the classes are on the boot class path, *)
(* so no Java code runs in FindClass, and none of them is in the image.    *)
(***************************************************************************)
EXTENDS Integers, Sequences, FiniteSets

CONSTANTS
  Threads, Classes, None,
  SuperClass,      \* of each class: a class or None
  Interfaces,      \* of each class: a sequence of classes
  ComponentType,   \* of each class: None unless it is an array
  Mentions,        \* of each class: a sequence of the classes its methods mention
  Catches,         \* of each class: a sequence of the classes its methods catch
  Uses,            \* of each class: a sequence of the classes its <clinit> uses
  MaxCalls         \* bound on the calls of each thread

ASSUME ClassLinkerAssumption ==
  /\ SuperClass \in [Classes -> Classes \cup {None}]
  /\ ComponentType \in [Classes -> Classes \cup {None}]
  /\ \A f \in {Interfaces, Mentions, Catches, Uses} :
       DOMAIN f = Classes /\ \A c \in Classes : f[c] \in Seq(Classes)
  /\ None \notin Classes \cup Threads /\ MaxCalls \in Nat

kStatusError == -1
kStatusNotReady == 0
kStatusIdx == 1
kStatusLoaded == 2
kStatusResolved == 3
kStatusVerifying == 4
kStatusRetryVerificationAtRuntime == 5
kStatusVerified == 7
kStatusInitializing == 8
kStatusInitialized == 9

VARIABLES
  class_table_,      \* of each name: the thread whose class was inserted
  status_,           \* of the class in the table
  clinit_thread_id_,
  resolved_types_,   \* of the dex cache
  waiters,           \* the threads in WaitIgnoringInterrupts, not yet notified
  stack,             \* of each thread: its calls, the current one first
  result,            \* what the last call returned: "class", "null" or "none"
  clinits,           \* how often each <clinit> has been invoked
  calls,             \* the calls each thread may still make
  aborted            \* a CHECK or LOG(FATAL) has fired

table == <<class_table_, clinit_thread_id_, resolved_types_>>
vars == <<table, status_, waiters, stack, result, clinits, calls, aborted>>

IsErroneous(c) == status_[c] = kStatusError
IsResolved(c) == status_[c] >= kStatusResolved
IsCompileTimeVerified(c) == status_[c] >= kStatusRetryVerificationAtRuntime
IsVerified(c) == status_[c] >= kStatusVerified
IsInitialized(c) == status_[c] = kStatusInitialized

Init ==
  /\ class_table_ = [c \in Classes |-> None]
  /\ status_ = [c \in Classes |-> kStatusNotReady]
  /\ clinit_thread_id_ = [c \in Classes |-> None]
  /\ resolved_types_ = {} /\ waiters = {}
  /\ stack = [t \in Threads |-> << >>]
  /\ result = [t \in Threads |-> "none"]
  /\ clinits = [c \in Classes |-> 0]
  /\ calls = [t \in Threads |-> MaxCalls]
  /\ aborted = FALSE
-----------------------------------------------------------------------------
(* The stack of calls.                                                     *)

Frame(op, c, pc) == [op |-> op, c |-> c, pc |-> pc, held |-> {}, rest |-> << >>]

Top(t) == Head(stack[t])
At(t, pc) == stack[t] # << >> /\ Top(t).pc = pc

Become(t, f) == stack' = [stack EXCEPT ![t] = <<f>> \o Tail(@)]
Goto(t, pc) == Become(t, [Top(t) EXCEPT !.pc = pc])

\* Call another function and continue at pc with its result.
Call(t, f, g) ==
  /\ stack' = [stack EXCEPT ![t] = <<g, f>> \o Tail(@)]
  /\ result' = [result EXCEPT ![t] = "none"]

\* The ObjectLocks of the frame end with it.
Return(t, r) ==
  /\ stack' = [stack EXCEPT ![t] = Tail(@)]
  /\ result' = [result EXCEPT ![t] = r]

ByStatus(c) == IF IsErroneous(c) THEN "null" ELSE "class"

Holds(t, c) == \E i \in DOMAIN stack[t] : c \in stack[t][i].held

\* Where an ObjectLock, or the return from a wait, leads when its monitor is free.
AfterLock ==
  [ensure_lock |-> "ensure_locked", wait_resolved |-> "ensure_locked",
   verify_lock |-> "verify", super_lock |-> "verify_super",
   init_lock |-> "init_locked", wait_init |-> "woken",
   super_failed_lock |-> "super_failed", clinit_failed_lock |-> "clinit_failed",
   clinit_done_lock |-> "clinit_done"]

LockOf(f) == IF f.pc = "super_lock" THEN SuperClass[f.c] ELSE f.c

ObjectLock(t) ==
  /\ stack[t] # << >> /\ Top(t).pc \in DOMAIN AfterLock
  /\ t \notin waiters
  /\ \A u \in Threads \ {t} : ~Holds(u, LockOf(Top(t)))
  /\ Become(t, [Top(t) EXCEPT !.pc = AfterLock[@], !.held = @ \cup {LockOf(Top(t))}])
  /\ UNCHANGED <<table, status_, waiters, result, clinits, calls, aborted>>

WaitIgnoringInterrupts(t, pc) ==
  /\ waiters' = waiters \cup {t}
  /\ Become(t, [Top(t) EXCEPT !.pc = pc, !.held = {}])

SpuriousWakeup(t) ==
  /\ t \in waiters
  /\ waiters' = waiters \ {t}
  /\ UNCHANGED <<table, status_, stack, result, clinits, calls, aborted>>

\* The CHECKs of SetStatus.
StatusMayBecome(t, c, new_status) ==
  /\ IF new_status = kStatusError THEN ~IsErroneous(c) ELSE new_status > status_[c]
  /\ IsResolved(c) \/ new_status >= kStatusResolved => Holds(t, c)

\* Faulty: leaves the waiters alone when the class becomes erroneous.
SetStatusSilently(t, c, new_status) ==
  /\ status_' = [status_ EXCEPT ![c] = new_status]
  /\ waiters' = IF new_status >= kStatusResolved
                THEN {u \in waiters : Top(u).c # c} ELSE waiters
  /\ aborted' = ~StatusMayBecome(t, c, new_status)

SetStatus(t, c, new_status) ==
  /\ status_' = [status_ EXCEPT ![c] = new_status]
  /\ waiters' = IF IsResolved(c) \/ new_status >= kStatusResolved
                THEN {u \in waiters : Top(u).c # c} ELSE waiters
  /\ aborted' = ~StatusMayBecome(t, c, new_status)

SetStatusError(t) ==
  /\ SetStatus(t, Top(t).c, kStatusError)
  /\ Return(t, "null")
-----------------------------------------------------------------------------
(* ResolveType, FindClass and DefineClass.                                 *)

ResolveType(c) == Frame("ResolveType", c, "cache")
FindClass(c) == Frame("FindClass", c, "lookup")

\* The class is returned to the caller of FindClass; ResolveType enters it in
\* the dex cache first.
ReturnClass(t) ==
  /\ resolved_types_' = IF Top(t).op = "ResolveType" /\ ~IsErroneous(Top(t).c)
                        THEN resolved_types_ \cup {Top(t).c} ELSE resolved_types_
  /\ Return(t, ByStatus(Top(t).c))

GetResolvedType(t) ==
  /\ At(t, "cache")
  /\ \/ Top(t).c \in resolved_types_ /\ Return(t, "class")
     \/ Top(t).c \notin resolved_types_ /\ Goto(t, "lookup") /\ UNCHANGED result
  /\ UNCHANGED <<table, status_, waiters, clinits, calls, aborted>>

LookupClass(t) ==
  /\ At(t, "lookup")
  /\ LET f == Top(t)
     IN CASE class_table_[f.c] # None -> Goto(t, "ensure") /\ UNCHANGED result
          [] class_table_[f.c] = None /\ ComponentType[f.c] = None ->
               Goto(t, "load") /\ UNCHANGED result
          [] OTHER -> Call(t, [f EXCEPT !.pc = "component"], FindClass(ComponentType[f.c]))
  /\ UNCHANGED <<table, status_, waiters, clinits, calls, aborted>>

\* The component is missing, or memory: no class.
CreateArrayFails(t) ==
  /\ At(t, "component")
  /\ Return(t, "null")
  /\ UNCHANGED <<table, status_, waiters, clinits, calls, aborted>>

\* A class that is Initialized before anyone can see it; another thread's is
\* taken if it came first.
CreateArrayClass(t) ==
  /\ At(t, "component") /\ result[t] = "class"
  /\ LET c == Top(t).c
     IN /\ class_table_' = [class_table_ EXCEPT ![c] = IF @ = None THEN t ELSE @]
        /\ status_' = [status_ EXCEPT ![c] = kStatusInitialized]
        /\ resolved_types_' = IF Top(t).op = "ResolveType"
                              THEN resolved_types_ \cup {c} ELSE resolved_types_
  /\ Return(t, "class")
  /\ UNCHANGED <<clinit_thread_id_, waiters, clinits, calls, aborted>>

\* Not on the class path, no memory, or an exception in LoadClass.
LoadFails(t) ==
  /\ At(t, "load")
  /\ Return(t, "null")
  /\ UNCHANGED <<table, status_, waiters, clinits, calls, aborted>>

\* InsertClass failed, because another thread's class is in the table.
InsertBeaten(t) ==
  /\ At(t, "load") /\ class_table_[Top(t).c] # None
  /\ Goto(t, "ensure")
  /\ UNCHANGED <<table, status_, waiters, result, clinits, calls, aborted>>

Parents(c) == (IF SuperClass[c] = None THEN << >> ELSE <<SuperClass[c]>>) \o Interfaces[c]

\* Faulty: does not look for another thread's class.
InsertClassAnew(t) ==
  /\ At(t, "load")
  /\ LET c == Top(t).c
     IN /\ class_table_' = [class_table_ EXCEPT ![c] = t]
        /\ status_' = [status_ EXCEPT ![c] = kStatusIdx]
        /\ clinit_thread_id_' = [clinit_thread_id_ EXCEPT ![c] = t]
        /\ Become(t, [Top(t) EXCEPT !.pc = "parents", !.held = {c}, !.rest = Parents(c)])
  /\ UNCHANGED <<resolved_types_, waiters, result, clinits, calls, aborted>>

\* The new class is locked before it is in the table.
InsertClass(t) ==
  /\ At(t, "load") /\ class_table_[Top(t).c] = None
  /\ LET c == Top(t).c
     IN /\ class_table_' = [class_table_ EXCEPT ![c] = t]
        /\ status_' = [status_ EXCEPT ![c] = kStatusIdx]
        /\ clinit_thread_id_' = [clinit_thread_id_ EXCEPT ![c] = t]
        /\ Become(t, [Top(t) EXCEPT !.pc = "parents", !.held = {c}, !.rest = Parents(c)])
  /\ UNCHANGED <<resolved_types_, waiters, result, clinits, calls, aborted>>

\* LoadSuperAndInterfaces: the next of them.
LoadParent(t) ==
  /\ At(t, "parents") /\ result[t] # "null" /\ Top(t).rest # << >>
  /\ LET f == Top(t)
     IN Call(t, [f EXCEPT !.rest = Tail(@)], ResolveType(Head(f.rest)))
  /\ UNCHANGED <<table, status_, waiters, clinits, calls, aborted>>

ParentsLoaded(t) ==
  /\ At(t, "parents") /\ result[t] # "null" /\ Top(t).rest = << >>
  /\ Goto(t, "link")
  /\ SetStatus(t, Top(t).c, kStatusLoaded)
  /\ UNCHANGED <<table, result, clinits, calls>>

\* A parent was not found or is inaccessible, or LinkClass failed.
DefineFails(t) ==
  /\ (At(t, "parents") /\ result[t] # "none") \/ At(t, "link")
  /\ SetStatusError(t)
  /\ UNCHANGED <<table, clinits, calls>>

LinkClass(t) ==
  /\ At(t, "link")
  /\ SetStatus(t, Top(t).c, kStatusResolved)
  /\ ReturnClass(t)
  /\ UNCHANGED <<class_table_, clinit_thread_id_, clinits, calls>>
-----------------------------------------------------------------------------
(* EnsureResolved.                                                         *)

Settled(c) == IsResolved(c) \/ IsErroneous(c)

\* The look without the lock.
EnsureResolved(t) ==
  /\ At(t, "ensure")
  /\ \/ Settled(Top(t).c) /\ ReturnClass(t)
     \/ ~Settled(Top(t).c) /\ Goto(t, "ensure_lock") /\ UNCHANGED <<result, resolved_types_>>
  /\ UNCHANGED <<class_table_, clinit_thread_id_, status_, waiters, clinits, calls, aborted>>

AwaitResolved(t) ==
  IF Settled(Top(t).c)
  THEN ReturnClass(t) /\ UNCHANGED waiters
  ELSE WaitIgnoringInterrupts(t, "wait_resolved") /\ UNCHANGED <<result, resolved_types_>>

\* Under the lock.  A class that this thread is defining further down its
\* stack is its own superclass: ClassCircularityError.
EnsureLocked(t) ==
  /\ At(t, "ensure_locked")
  /\ IF ~IsResolved(Top(t).c) /\ clinit_thread_id_[Top(t).c] = t
     THEN SetStatusError(t) /\ UNCHANGED resolved_types_
     ELSE /\ AwaitResolved(t)
          /\ UNCHANGED <<status_, aborted>>
  /\ UNCHANGED <<class_table_, clinit_thread_id_, clinits, calls>>

-----------------------------------------------------------------------------
(* VerifyClass.                                                            *)

VerifyClass(c) == Frame("VerifyClass", c, "verify_lock")

\* MethodVerifier::VerifyClass, with nothing but the class itself locked.
VerifyMethods(t) ==
  Become(t, [Top(t) EXCEPT !.pc = "methods", !.held = {Top(t).c}, !.rest = Mentions[Top(t).c]])

\* Nothing to do for a class that is verified or erroneous.  "CHECK_EQ(
\* klass->GetStatus(), kStatusRetryVerificationAtRuntime)": such a class comes
\* from the image only.
BeginVerify(t) ==
  /\ At(t, "verify")
  /\ LET c == Top(t).c
     IN IF IsVerified(c) \/ IsErroneous(c)
        THEN Return(t, ByStatus(c)) /\ UNCHANGED <<status_, waiters, aborted>>
        ELSE /\ IF SuperClass[c] = None THEN VerifyMethods(t) ELSE Goto(t, "super_lock")
             /\ IF status_[c] = kStatusResolved
                THEN SetStatus(t, c, kStatusVerifying)
                ELSE aborted' = TRUE /\ UNCHANGED <<status_, waiters>>
             /\ UNCHANGED result
  /\ UNCHANGED <<table, clinits, calls>>

VerifySuper(t) ==
  /\ At(t, "verify_super")
  /\ LET f == [Top(t) EXCEPT !.pc = "super_verified"]
         super == SuperClass[f.c]
     IN IF IsVerified(super) \/ IsErroneous(super)
        THEN Become(t, f) /\ UNCHANGED result
        ELSE Call(t, f, VerifyClass(super))
  /\ UNCHANGED <<table, status_, waiters, clinits, calls, aborted>>

\* "Rejecting class that attempts to sub-class erroneous class".
SuperRejected(t) ==
  /\ At(t, "super_verified") /\ ~IsCompileTimeVerified(SuperClass[Top(t).c])
  /\ SetStatusError(t)
  /\ UNCHANGED <<table, clinits, calls>>

SuperAccepted(t) ==
  /\ At(t, "super_verified") /\ IsCompileTimeVerified(SuperClass[Top(t).c])
  /\ VerifyMethods(t)
  /\ UNCHANGED <<table, status_, waiters, result, clinits, calls, aborted>>

\* RegTypeCache::ResolveClass: the methods, which are verified in turn, load the
\* types that they mention.  Some they leave alone: those of a method that has
\* failed, and all when the oat file says that the class is verified.  A type
\* that cannot be loaded stays unresolved.
ResolveClass(t) ==
  /\ At(t, "methods")
  /\ \E i \in DOMAIN Top(t).rest :
       LET f == Top(t)
       IN Call(t, [f EXCEPT !.rest = SubSeq(@, i + 1, Len(@))], FindClass(f.rest[i]))
  /\ UNCHANGED <<table, status_, waiters, clinits, calls, aborted>>

\* A hard failure: VerifyError.
MethodsFail(t) ==
  /\ At(t, "methods")
  /\ SetStatusError(t)
  /\ UNCHANGED <<table, clinits, calls>>

MethodsVerified(t) ==
  /\ At(t, "methods")
  /\ Become(t, [Top(t) EXCEPT !.pc = "handlers", !.rest = Catches[Top(t).c]])
  /\ UNCHANGED <<table, status_, waiters, result, clinits, calls, aborted>>

\* A type that cannot be resolved is ignored.
ResolveHandlerType(t) ==
  /\ At(t, "handlers") /\ Top(t).rest # << >>
  /\ LET f == Top(t)
     IN Call(t, [f EXCEPT !.rest = Tail(@)], ResolveType(Head(f.rest)))
  /\ UNCHANGED <<table, status_, waiters, clinits, calls, aborted>>

Verified(t) ==
  /\ At(t, "handlers") /\ Top(t).rest = << >>
  /\ SetStatus(t, Top(t).c, kStatusVerified)
  /\ Return(t, "class")
  /\ UNCHANGED <<table, clinits, calls>>
-----------------------------------------------------------------------------
(* InitializeClass and WaitForInitializeClass.                             *)

InitializeClass(c) == Frame("InitializeClass", c, "init")

\* The look without the lock: "benign as an initialized class will never
\* change its state".
InitializeFast(t) ==
  /\ At(t, "init")
  /\ \/ IsInitialized(Top(t).c) /\ Return(t, "class")
     \/ ~IsInitialized(Top(t).c) /\ Goto(t, "init_lock") /\ UNCHANGED result
  /\ UNCHANGED <<table, status_, waiters, clinits, calls, aborted>>

InitLocked(t) ==
  /\ At(t, "init_locked")
  /\ LET f == [Top(t) EXCEPT !.pc = "init_verified"]
     IN CASE IsInitialized(f.c) \/ IsErroneous(f.c) -> Return(t, ByStatus(f.c))
          [] IsVerified(f.c) /\ ~IsInitialized(f.c) -> Become(t, f) /\ UNCHANGED result
          [] OTHER -> Call(t, f, VerifyClass(f.c))
  /\ aborted' = ~Settled(Top(t).c)
  /\ UNCHANGED <<table, status_, waiters, clinits, calls>>

VerificationFailed(t) ==
  /\ At(t, "init_verified") /\ ~IsVerified(Top(t).c)
  /\ Return(t, "null")
  /\ aborted' = ~IsErroneous(Top(t).c)
  /\ UNCHANGED <<table, status_, waiters, clinits, calls>>

\* Faulty: takes the class for its own whoever initialises it.
CaughtInTheActUnasked(t) ==
  /\ At(t, "init_verified") /\ status_[Top(t).c] = kStatusInitializing
  /\ Return(t, "class")
  /\ UNCHANGED <<table, status_, waiters, clinits, calls, aborted>>

\* "We caught somebody else in the act; was it us?"
CaughtInTheAct(t) ==
  /\ At(t, "init_verified") /\ status_[Top(t).c] = kStatusInitializing
  /\ IF clinit_thread_id_[Top(t).c] = t
     THEN Return(t, "class") /\ UNCHANGED waiters
     ELSE WaitIgnoringInterrupts(t, "wait_init") /\ UNCHANGED result
  /\ UNCHANGED <<table, status_, clinits, calls, aborted>>

\* WaitForInitializeClass, after the wait.
Woken(t) ==
  /\ At(t, "woken")
  /\ IF status_[Top(t).c] = kStatusInitializing
     THEN WaitIgnoringInterrupts(t, "wait_init") /\ UNCHANGED <<result, aborted>>
     ELSE /\ Return(t, ByStatus(Top(t).c))
          /\ aborted' = ~(IsErroneous(Top(t).c) \/ IsInitialized(Top(t).c))
          /\ UNCHANGED waiters
  /\ UNCHANGED <<table, status_, clinits, calls>>

ToInitialize(t) ==
  At(t, "init_verified") /\ IsVerified(Top(t).c) /\ status_[Top(t).c] # kStatusInitializing

\* ValidateSuperClassDescriptors.
DescriptorsDiffer(t) ==
  /\ ToInitialize(t)
  /\ SetStatusError(t)
  /\ UNCHANGED <<table, clinits, calls>>

\* Faulty: the status does not tell the others.
BeginInitializeUntold(t) ==
  /\ ToInitialize(t)
  /\ clinit_thread_id_' = [clinit_thread_id_ EXCEPT ![Top(t).c] = t]
  /\ Become(t, [Top(t) EXCEPT !.pc = "init_super", !.held = {}])
  /\ UNCHANGED <<class_table_, resolved_types_, status_, waiters, result, clinits, calls, aborted>>

BeginInitialize(t) ==
  /\ ToInitialize(t)
  /\ clinit_thread_id_' = [clinit_thread_id_ EXCEPT ![Top(t).c] = t]
  /\ SetStatus(t, Top(t).c, kStatusInitializing)
  /\ Become(t, [Top(t) EXCEPT !.pc = "init_super", !.held = {}])
  /\ UNCHANGED <<class_table_, resolved_types_, result, clinits, calls>>

\* Faulty: goes on to <clinit> without the superclass.
InitializeSuperSkipped(t) ==
  /\ At(t, "init_super")
  /\ Goto(t, "clinit")
  /\ UNCHANGED <<table, status_, waiters, result, clinits, calls, aborted>>

InitializeSuper(t) ==
  /\ At(t, "init_super")
  /\ LET f == Top(t)
         super == SuperClass[f.c]
     IN IF super = None \/ (super # None /\ IsInitialized(super))
        THEN Goto(t, "clinit") /\ UNCHANGED result
        ELSE Call(t, [f EXCEPT !.pc = "super_initialized"], InitializeClass(super))
  /\ UNCHANGED <<table, status_, waiters, clinits, calls, aborted>>

SuperInitialized(t) ==
  /\ At(t, "super_initialized")
  /\ Goto(t, IF result[t] = "class" THEN "clinit" ELSE "super_failed_lock")
  /\ aborted' = (result[t] = "null" /\ ~IsErroneous(SuperClass[Top(t).c]))
  /\ UNCHANGED <<table, status_, waiters, result, clinits, calls>>

InvokeClinit(t) ==
  /\ At(t, "clinit")
  /\ clinits' = [clinits EXCEPT ![Top(t).c] = @ + 1]
  /\ Become(t, [Top(t) EXCEPT !.pc = "in_clinit", !.rest = Uses[Top(t).c]])
  /\ result' = [result EXCEPT ![t] = "none"]
  /\ UNCHANGED <<table, status_, waiters, calls, aborted>>

\* ResolveVerifyAndClinit, from the code that a program runs.
ResolveVerifyAndClinit(c) == Frame("Use", c, "use")

ClinitUses(t) ==
  /\ At(t, "in_clinit") /\ Top(t).rest # << >>
  /\ LET f == Top(t)
     IN Call(t, [f EXCEPT !.rest = Tail(@)], ResolveVerifyAndClinit(Head(f.rest)))
  /\ UNCHANGED <<table, status_, waiters, clinits, calls, aborted>>

\* It ends, or an exception ends it, its own or that of a use.
ClinitEnds(t) ==
  /\ At(t, "in_clinit")
  /\ \/ Top(t).rest = << >> /\ Goto(t, "clinit_done_lock")
     \/ Goto(t, "clinit_failed_lock")
  /\ UNCHANGED <<table, status_, waiters, result, clinits, calls, aborted>>

InitializeFails(t) ==
  /\ At(t, "clinit_failed") \/ At(t, "super_failed")
  /\ SetStatusError(t)
  /\ UNCHANGED <<table, clinits, calls>>

Initialized(t) ==
  /\ At(t, "clinit_done")
  /\ SetStatus(t, Top(t).c, kStatusInitialized)
  /\ Return(t, "class")
  /\ UNCHANGED <<table, clinits, calls>>
-----------------------------------------------------------------------------
(* What the program asks for.                                              *)

UseResolve(t) ==
  /\ At(t, "use")
  /\ Call(t, [Top(t) EXCEPT !.pc = "use_resolved"], ResolveType(Top(t).c))
  /\ UNCHANGED <<table, status_, waiters, clinits, calls, aborted>>

\* EnsureInitialized.
EnsureInitialized(t) ==
  /\ At(t, "use_resolved")
  /\ IF result[t] = "null" \/ IsInitialized(Top(t).c)
     THEN Return(t, result[t])
     ELSE Call(t, [Top(t) EXCEPT !.pc = "use_initialized"], InitializeClass(Top(t).c))
  /\ UNCHANGED <<table, status_, waiters, clinits, calls, aborted>>

UseReturns(t) ==
  /\ At(t, "use_initialized")
  /\ Return(t, result[t])
  /\ UNCHANGED <<table, status_, waiters, clinits, calls, aborted>>

Ask(t) ==
  /\ stack[t] = << >> /\ calls[t] > 0
  /\ \E c \in Classes : stack' = [stack EXCEPT ![t] = <<ResolveVerifyAndClinit(c)>>]
  /\ calls' = [calls EXCEPT ![t] = @ - 1]
  /\ result' = [result EXCEPT ![t] = "none"]
  /\ UNCHANGED <<table, status_, waiters, clinits, aborted>>

Find(t) ==
  \/ GetResolvedType(t) \/ LookupClass(t) \/ CreateArrayFails(t) \/ CreateArrayClass(t)
  \/ LoadFails(t) \/ InsertBeaten(t) \/ InsertClass(t) \/ LoadParent(t) \/ ParentsLoaded(t)
  \/ DefineFails(t) \/ LinkClass(t) \/ EnsureResolved(t) \/ EnsureLocked(t)

Verify(t) ==
  \/ BeginVerify(t) \/ VerifySuper(t) \/ SuperRejected(t) \/ SuperAccepted(t)
  \/ ResolveClass(t) \/ MethodsFail(t) \/ MethodsVerified(t) \/ ResolveHandlerType(t) \/ Verified(t)

Initialize(t) ==
  \/ InitializeFast(t) \/ InitLocked(t) \/ VerificationFailed(t) \/ CaughtInTheAct(t) \/ Woken(t)
  \/ DescriptorsDiffer(t) \/ BeginInitialize(t) \/ InitializeSuper(t) \/ SuperInitialized(t)
  \/ InvokeClinit(t) \/ ClinitUses(t) \/ ClinitEnds(t) \/ InitializeFails(t) \/ Initialized(t)
  \/ UseResolve(t) \/ EnsureInitialized(t) \/ UseReturns(t)

Step(t) == ~aborted /\ (ObjectLock(t) \/ Find(t) \/ Verify(t) \/ Initialize(t))

Next == \E t \in Threads : Step(t) \/ (~aborted /\ (SpuriousWakeup(t) \/ Ask(t)))

\* Every thread is scheduled, no <clinit> runs for ever, and a contended
\* monitor is won by everyone in the end.
Spec ==
  /\ Init /\ [][Next]_vars
  /\ \A t \in Threads : WF_vars(Step(t)) /\ SF_vars(~aborted /\ ObjectLock(t))
-----------------------------------------------------------------------------
\* The CHECKs and LOG(FATAL)s of the class linker and of Class::SetStatus: the
\* status only moves forward or to Error, and that once, a status from Resolved
\* on is only changed under the class's lock, and every function finds the
\* status that its callers promise it.
NoCheckFails == ~aborted

\* A <clinit> runs once, whoever asks for the class and whatever fails, and
\* after that of the superclass: while it runs the superclass is Initialized,
\* or this thread is itself in the middle of initialising it.
ClinitRunsOnceAfterSuper ==
  /\ \A c \in Classes : clinits[c] <= 1
  /\ \A t \in Threads : \A i \in DOMAIN stack[t] :
       LET f == stack[t][i]
           super == SuperClass[f.c]
       IN f.pc = "in_clinit" /\ super # None =>
            \/ IsInitialized(super)
            \/ status_[super] = kStatusInitializing /\ clinit_thread_id_[super] = t

\* The code after ResolveVerifyAndClinit uses the static fields of a class
\* that is Initialized, or that its own thread is initialising, never of one
\* that another thread is still at work on.
ReadyWhenReturned ==
  \A t \in Threads :
    At(t, "use_initialized") /\ result[t] = "class" =>
      LET c == Top(t).c
      IN \/ IsInitialized(c)
         \/ status_[c] = kStatusInitializing /\ clinit_thread_id_[c] = t

\* Threads that define the same class at the same time agree on one: the class
\* in the table is never replaced.
OneClassPerName ==
  [][\A c \in Classes : class_table_[c] # None => class_table_'[c] = class_table_[c]]_vars

\* Threads that wait for one another's <clinit>, as JLS 12.4.2 allows.
InitCycle ==
  \E S \in SUBSET Threads \ {{}} :
    \A t \in S : /\ At(t, "wait_init") \/ At(t, "woken")
                 /\ status_[Top(t).c] = kStatusInitializing
                 /\ clinit_thread_id_[Top(t).c] \in S

InEnsureResolved(t) == \E pc \in {"ensure_lock", "ensure_locked", "wait_resolved"} : At(t, pc)

\* t needs a class lock that u holds, or the class that u is defining.
WaitsForLinker(t, u) ==
  \/ /\ stack[t] # << >> /\ Top(t).pc \in DOMAIN AfterLock
     /\ t # u /\ Holds(u, LockOf(Top(t)))
  \/ InEnsureResolved(t) /\ ~Settled(Top(t).c) /\ clinit_thread_id_[Top(t).c] = u

\* Threads that wait for one another in the linker, at least one of them in
\* EnsureResolved, where it waits with the lock of another class held.
ResolveCycle ==
  \E S \in SUBSET Threads \ {{}} :
    /\ \A t \in S : \E u \in S : WaitsForLinker(t, u)
    /\ \E t \in S : InEnsureResolved(t) /\ \E c \in Classes \ {Top(t).c} : Holds(t, c)

\* A thread that asks for a class gets it or an exception, unless there are
\* initialisers that wait for one another, or threads that define and verify
\* classes that mention one another meet in EnsureResolved.  Nothing else keeps
\* it: nobody misses a NotifyAll, a thread that waits for a <clinit> holds no
\* class lock that the <clinit> might need, and verifying superclasses and
\* initialising classes, which also nest class locks, cause no deadlock.
EveryCallReturns ==
  \A t \in Threads : stack[t] # << >> ~> stack[t] = << >> \/ InitCycle \/ ResolveCycle

\* class_linker.cc:1317: EnsureResolved says that it waits "if it has not already
\* been linked".  So a thread that waits there for a class that has been linked
\* stops waiting: it does not also need its verification to end.
EnsureResolvedReturns ==
  \A t \in Threads :
    At(t, "ensure_lock") /\ IsResolved(Top(t).c) ~> ~At(t, "ensure_lock")
=============================================================================
