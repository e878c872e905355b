----------------------------- MODULE Mutex_proofs ---------------------------
(***************************************************************************)
(* Proofs, for any number of threads, recursive or not, with or without    *)
(* signals and time-outs, that Mutex excludes, implements the exclusive    *)
(* half of RWLock, and loses neither an unlock's nor a notify's wake-up;   *)
(* and that the coordinator of a Barrier on top of it leaves last.         *)
(*                                                                         *)
(* The inductive invariant of Mutex is Types /\ Positions /\ Exclusive /\  *)
(* Recursion /\ CountersExact /\ Queues /\ Sequence /\                     *)
(* NoStrandedContender, and the Barrier adds BarrierInv.                   *)
(***************************************************************************)
EXTENDS Barrier, FiniteSetTheorems, TLAPS

\* TypeOK without what needs the counting invariants.
Types ==
  /\ state_ \in {0, 1}
  /\ exclusive_owner_ \in Threads \cup {NoThread}
  /\ num_contenders_ \in Int /\ recursion_count_ \in Int
  /\ sequence_ \in Nat /\ num_waiters_ \in Int
  /\ mutexq \subseteq Threads /\ condq \subseteq Threads
  /\ pc \in [Threads -> PcValues]
  /\ waiting \in [Threads -> BOOLEAN]
  /\ cur_sequence \in [Threads -> Nat]
  /\ old_recursion_count \in [Threads -> Int]

\* Where a thread can be while it is inside a wait, and what the wait will
\* restore.
Positions ==
  \A t \in Threads :
    /\ pc[t] \in {"idle", "held", "signal", "broadcast"} => ~waiting[t]
    /\ pc[t] \in {"rewaited", "condwait", "condasleep"} => waiting[t]
    /\ waiting[t] => old_recursion_count[t] >= 1 /\ (~recursive_ => old_recursion_count[t] = 1)

Exclusive ==
  \/ state_ = 0 /\ Holders = {}
  \/ state_ = 1 /\ \E w \in Threads : Holders = {w}

\* recursion_count_ is 0 whenever the mutex is taken or given back.
Recursion ==
  /\ \A t \in Threads :
       /\ pc[t] \in {"held", "signal", "broadcast"} =>
            /\ exclusive_owner_ = t /\ recursion_count_ >= 1
            /\ ~recursive_ => recursion_count_ = 1
       /\ pc[t] = "rewaited" => exclusive_owner_ = t /\ recursion_count_ = 1
       /\ pc[t] \in {"own", "release"} => recursion_count_ = 0
  /\ Holders = {} => recursion_count_ = 0

\* The two kernel queues hold sleeping threads, and no thread twice.
Queues ==
  /\ \A t \in mutexq : pc[t] \in {"asleep", "condasleep"}
  /\ \A t \in condq : pc[t] = "condasleep"
  /\ mutexq \cap condq = {}

\* A waiter's copy of sequence_ is not from the future, and is out of date
\* while a notify is between its increment and its wake-up.
Sequence ==
  \A w \in Threads : waiting[w] =>
    /\ cur_sequence[w] <= sequence_
    /\ \A t \in Threads : pc[t] \in {"signal", "broadcast"} => cur_sequence[w] < sequence_
-----------------------------------------------------------------------------
\* Finite sets of threads, and one more or one less member.
LEMMA CountOne ==
  ASSUME NEW S \in SUBSET Threads, NEW x \in Threads
  PROVE  /\ Cardinality(S) \in Nat
         /\ Cardinality(S) = 0 <=> S = {}
         /\ x \notin S => Cardinality(S \cup {x}) = Cardinality(S) + 1
         /\ x \in S => Cardinality(S \ {x}) = Cardinality(S) - 1
<1>1. IsFiniteSet(S)
  BY ThreadsAssumption, FS_Subset, Zenon
<1>q. QED
  BY <1>1, FS_CardinalityType, FS_EmptySet, FS_AddElement, FS_RemoveElement, Zenon

\* Every step keeps the variables' types.
LEMMA TypeStep ==
  Types /\ [Next]_vars => Types'
<1>1. ASSUME Types, UNCHANGED vars PROVE Types'
  BY <1>1, Zenon DEF vars, lockvars, condvars, waitvars, Types
<1>2. ASSUME Types, NEW t \in Threads,
             Call(t) \/ CallHeld(t) \/ ExclusiveUnlock(t) \/ Step(t) \/ Kernel(t)
      PROVE  Types'
  <2>1. CASE ExclusiveLock(t)
    BY <1>2, <2>1, RecursiveAssumption, Zenon
    DEF ExclusiveLock, Goto, Types, PcValues, lockvars, condvars, waitvars
  <2>2. CASE RecursiveLock(t)
    BY <1>2, <2>2, RecursiveAssumption
    DEF RecursiveLock, IsExclusiveHeld, Types, PcValues, lockvars, condvars, waitvars
  <2>3. CASE Acquire(t)
    BY <1>2, <2>3, RecursiveAssumption, Zenon
    DEF Acquire, Types, PcValues, lockvars, condvars, waitvars
  <2>4. CASE SetOwner(t)
    BY <1>2, <2>4, RecursiveAssumption
    DEF SetOwner, Goto, Types, PcValues, lockvars, condvars, waitvars
  <2>5. CASE Blocked(t)
    BY <1>2, <2>5, RecursiveAssumption, Zenon
    DEF Blocked, Goto, Types, PcValues, lockvars, condvars, waitvars
  <2>6. CASE Contend(t)
    BY <1>2, <2>6, RecursiveAssumption
    DEF Contend, Goto, Types, PcValues, lockvars, condvars, waitvars
  <2>7. CASE FutexWait(t)
    BY <1>2, <2>7, RecursiveAssumption, Zenon
    DEF FutexWait, Goto, Types, PcValues, lockvars, condvars, waitvars
  <2>8. CASE Woken(t)
    BY <1>2, <2>8, RecursiveAssumption, Zenon
    DEF Woken, Goto, Types, PcValues, lockvars, condvars, waitvars
  <2>9. CASE Interrupted(t)
    BY <1>2, <2>9, RecursiveAssumption, Zenon
    DEF Interrupted, Goto, Types, PcValues, lockvars, condvars, waitvars
  <2>10. CASE Unblocked(t)
    BY <1>2, <2>10, RecursiveAssumption
    DEF Unblocked, Goto, Types, PcValues, lockvars, condvars, waitvars
  <2>11. CASE ExclusiveUnlock(t)
    BY <1>2, <2>11, RecursiveAssumption
    DEF ExclusiveUnlock, Goto, Types, PcValues, lockvars, condvars, waitvars
  <2>12. CASE Release(t)
    BY <1>2, <2>12, RecursiveAssumption, Zenon
    DEF Release, Goto, Types, PcValues, lockvars, condvars, waitvars
  <2>13. CASE CheckContenders(t)
    BY <1>2, <2>13, RecursiveAssumption, Zenon
    DEF CheckContenders, Goto, AfterUnlock, Types, PcValues, lockvars, condvars, waitvars
  <2>14. CASE FutexWake(t)
    BY <1>2, <2>14, RecursiveAssumption, Zenon
    DEF FutexWake, Goto, AfterUnlock, Types, PcValues, lockvars, condvars, waitvars
  <2>15. CASE Wait(t)
    BY <1>2, <2>15, RecursiveAssumption
    DEF Wait, Goto, Types, PcValues, lockvars, condvars, waitvars
  <2>16. CASE CondFutexWait(t)
    BY <1>2, <2>16, RecursiveAssumption, Zenon
    DEF CondFutexWait, Goto, Types, PcValues, lockvars, condvars, waitvars
  <2>17. CASE CondWoken(t)
    BY <1>2, <2>17, RecursiveAssumption, Zenon
    DEF CondWoken, Goto, Types, PcValues, lockvars, condvars, waitvars
  <2>18. CASE CondInterrupted(t)
    BY <1>2, <2>18, RecursiveAssumption, Zenon
    DEF CondInterrupted, Goto, Types, PcValues, lockvars, condvars, waitvars
  <2>19. CASE Rewaited(t)
    BY <1>2, <2>19, RecursiveAssumption
    DEF Rewaited, Goto, Types, PcValues, lockvars, condvars, waitvars
  <2>20. CASE Signal(t)
    BY <1>2, <2>20, RecursiveAssumption
    DEF Signal, Notify, Types, PcValues, lockvars, condvars, waitvars
  <2>21. CASE Broadcast(t)
    BY <1>2, <2>21, RecursiveAssumption
    DEF Broadcast, Notify, Types, PcValues, lockvars, condvars, waitvars
  <2>22. CASE SignalWake(t)
    BY <1>2, <2>22, RecursiveAssumption, Zenon
    DEF SignalWake, Goto, Types, PcValues, lockvars, condvars, waitvars
  <2>23. CASE BroadcastRequeue(t)
    BY <1>2, <2>23, RecursiveAssumption, Zenon
    DEF BroadcastRequeue, Goto, Types, PcValues, lockvars, condvars, waitvars
  <2>q. QED
    BY <1>2, <2>1, <2>2, <2>3, <2>4, <2>5, <2>6, <2>7, <2>8, <2>9, <2>10, <2>11, <2>12, <2>13,
       <2>14, <2>15, <2>16, <2>17, <2>18, <2>19, <2>20, <2>21, <2>22, <2>23, Zenon
    DEF Call, CallHeld, Step, Kernel
<1>q. QED
  BY <1>1, <1>2, Zenon DEF Next

\* Every step keeps state_ and the single holder in agreement.
LEMMA ExclusiveStep ==
  Types /\ Exclusive /\ [Next]_vars => Exclusive'
<1>1. ASSUME Types, Exclusive, UNCHANGED vars PROVE Exclusive'
  BY <1>1, Zenon DEF vars, lockvars, condvars, waitvars, Exclusive, Holders
<1>2. ASSUME Types, Exclusive, NEW t \in Threads,
             Call(t) \/ CallHeld(t) \/ ExclusiveUnlock(t) \/ Step(t) \/ Kernel(t)
      PROVE  Exclusive'
  <2>1. CASE ExclusiveLock(t) \/ RecursiveLock(t) \/ SetOwner(t) \/ Blocked(t) \/ Contend(t)
             \/ FutexWait(t) \/ Woken(t) \/ Interrupted(t)
    <3>1. UNCHANGED <<state_, Holders>>
      BY <1>2, <2>1, Zenon
      DEF ExclusiveLock, Goto, RecursiveLock, IsExclusiveHeld, SetOwner, Blocked, Contend,
          FutexWait, Woken, Interrupted, Holders, Types, lockvars, condvars, waitvars
    <3>q. QED
      BY <1>2, <3>1, Zenon DEF Exclusive
  <2>2. CASE Unblocked(t) \/ ExclusiveUnlock(t) \/ CheckContenders(t) \/ FutexWake(t) \/
             Wait(t) \/ CondFutexWait(t) \/ CondWoken(t)
    <3>1. UNCHANGED <<state_, Holders>>
      BY <1>2, <2>2, Zenon
      DEF Unblocked, Goto, ExclusiveUnlock, CheckContenders, AfterUnlock, FutexWake, Wait,
          CondFutexWait, CondWoken, Holders, Types, lockvars, condvars, waitvars
    <3>q. QED
      BY <1>2, <3>1, Zenon DEF Exclusive
  <2>3. CASE CondInterrupted(t) \/ Rewaited(t) \/ Signal(t) \/ Broadcast(t) \/ SignalWake(t)
             \/ BroadcastRequeue(t)
    <3>1. UNCHANGED <<state_, Holders>>
      BY <1>2, <2>3, Zenon
      DEF CondInterrupted, Goto, Rewaited, Signal, Notify, Broadcast, SignalWake,
          BroadcastRequeue, Holders, Types, lockvars, condvars, waitvars
    <3>q. QED
      BY <1>2, <3>1, Zenon DEF Exclusive
  <2>4. CASE Acquire(t)
    <3>1. state_ = 0 /\ state_' = 1 /\ Holders' = Holders \cup {t}
      BY <1>2, <2>4, Zenon DEF Acquire, Holders, Types
    <3>q. QED
      BY <1>2, <3>1 DEF Exclusive
  <2>5. CASE Release(t)
    <3>1. state_ = 1 /\ state_' = 0 /\ t \in Holders /\ Holders' = Holders \ {t}
      BY <1>2, <2>5, Zenon DEF Release, Goto, Holders, Types
    <3>q. QED
      BY <1>2, <3>1, Zenon DEF Exclusive
  <2>q. QED
    BY <1>2, <2>1, <2>2, <2>3, <2>4, <2>5, Zenon DEF Call, CallHeld, Step, Kernel
<1>q. QED
  BY <1>1, <1>2, Zenon DEF Next

\* Two threads at places where the mutex is held are the same thread.
LEMMA OneHolder ==
  ASSUME Exclusive, NEW t \in Holders, NEW u \in Holders
  PROVE  t = u /\ state_ = 1
BY DEF Exclusive

\* Every step keeps waits and places in step.
LEMMA PositionsStep ==
  Types /\ Exclusive /\ Recursion /\ Positions /\ [Next]_vars => Positions'
<1>1. ASSUME Types, Exclusive, Recursion, Positions, UNCHANGED vars PROVE Positions'
  BY <1>1, Zenon DEF vars, lockvars, condvars, waitvars, Positions
<1>2. ASSUME Types, Exclusive, Recursion, Positions, NEW t \in Threads,
             Call(t) \/ CallHeld(t) \/ ExclusiveUnlock(t) \/ Step(t) \/ Kernel(t)
      PROVE  Positions'
  <2>1. CASE ExclusiveLock(t)
    BY <1>2, <2>1, RecursiveAssumption, Zenon
    DEF ExclusiveLock, Goto, Positions, Recursion, Types, lockvars, condvars, waitvars
  <2>2. CASE RecursiveLock(t)
    BY <1>2, <2>2, RecursiveAssumption, Zenon
    DEF RecursiveLock, IsExclusiveHeld, Positions, Recursion, Types, lockvars, condvars,
        waitvars
  <2>3. CASE Acquire(t)
    BY <1>2, <2>3, RecursiveAssumption, Zenon
    DEF Acquire, Positions, Recursion, Types, lockvars, condvars, waitvars
  <2>4. CASE SetOwner(t)
    BY <1>2, <2>4, RecursiveAssumption, Zenon
    DEF SetOwner, Goto, Positions, Recursion, Types, lockvars, condvars, waitvars
  <2>5. CASE Blocked(t)
    BY <1>2, <2>5, RecursiveAssumption, Zenon
    DEF Blocked, Goto, Positions, Recursion, Types, lockvars, condvars, waitvars
  <2>6. CASE Contend(t)
    BY <1>2, <2>6, RecursiveAssumption, Zenon
    DEF Contend, Goto, Positions, Recursion, Types, lockvars, condvars, waitvars
  <2>7. CASE FutexWait(t)
    BY <1>2, <2>7, RecursiveAssumption, Zenon
    DEF FutexWait, Goto, Positions, Recursion, Types, lockvars, condvars, waitvars
  <2>8. CASE Woken(t)
    BY <1>2, <2>8, RecursiveAssumption, Zenon
    DEF Woken, Goto, Positions, Recursion, Types, lockvars, condvars, waitvars
  <2>9. CASE Interrupted(t)
    BY <1>2, <2>9, RecursiveAssumption, Zenon
    DEF Interrupted, Goto, Positions, Recursion, Types, lockvars, condvars, waitvars
  <2>10. CASE Unblocked(t)
    BY <1>2, <2>10, RecursiveAssumption, Zenon
    DEF Unblocked, Goto, Positions, Recursion, Types, lockvars, condvars, waitvars
  <2>11. CASE ExclusiveUnlock(t)
    BY <1>2, <2>11, RecursiveAssumption, Zenon
    DEF ExclusiveUnlock, Goto, Positions, Recursion, Types, lockvars, condvars, waitvars
  <2>12. CASE Release(t)
    BY <1>2, <2>12, RecursiveAssumption, Zenon
    DEF Release, Goto, Positions, Recursion, Types, lockvars, condvars, waitvars
  <2>13. CASE CheckContenders(t)
    BY <1>2, <2>13, RecursiveAssumption, Zenon
    DEF CheckContenders, Goto, AfterUnlock, Positions, Recursion, Types, lockvars, condvars,
        waitvars
  <2>14. CASE FutexWake(t)
    BY <1>2, <2>14, RecursiveAssumption, Zenon
    DEF FutexWake, Goto, AfterUnlock, Positions, Recursion, Types, lockvars, condvars,
        waitvars
  <2>15. CASE Wait(t)
    BY <1>2, <2>15, RecursiveAssumption, Zenon
    DEF Wait, Goto, Positions, Recursion, Types, lockvars, condvars, waitvars
  <2>16. CASE CondFutexWait(t)
    BY <1>2, <2>16, RecursiveAssumption, Zenon
    DEF CondFutexWait, Goto, Positions, Recursion, Types, lockvars, condvars, waitvars
  <2>17. CASE CondWoken(t)
    BY <1>2, <2>17, RecursiveAssumption, Zenon
    DEF CondWoken, Goto, Positions, Recursion, Types, lockvars, condvars, waitvars
  <2>18. CASE CondInterrupted(t)
    BY <1>2, <2>18, RecursiveAssumption, Zenon
    DEF CondInterrupted, Goto, Positions, Recursion, Types, lockvars, condvars, waitvars
  <2>19. CASE Rewaited(t)
    BY <1>2, <2>19, RecursiveAssumption, Zenon
    DEF Rewaited, Goto, Positions, Recursion, Types, lockvars, condvars, waitvars
  <2>20. CASE Signal(t)
    BY <1>2, <2>20, RecursiveAssumption, Zenon
    DEF Signal, Notify, Positions, Recursion, Types, lockvars, condvars, waitvars
  <2>21. CASE Broadcast(t)
    BY <1>2, <2>21, RecursiveAssumption, Zenon
    DEF Broadcast, Notify, Positions, Recursion, Types, lockvars, condvars, waitvars
  <2>22. CASE SignalWake(t)
    BY <1>2, <2>22, RecursiveAssumption, Zenon
    DEF SignalWake, Goto, Positions, Recursion, Types, lockvars, condvars, waitvars
  <2>23. CASE BroadcastRequeue(t)
    BY <1>2, <2>23, RecursiveAssumption, Zenon
    DEF BroadcastRequeue, Goto, Positions, Recursion, Types, lockvars, condvars, waitvars
  <2>q. QED
    BY <1>2, <2>1, <2>2, <2>3, <2>4, <2>5, <2>6, <2>7, <2>8, <2>9, <2>10, <2>11, <2>12, <2>13,
       <2>14, <2>15, <2>16, <2>17, <2>18, <2>19, <2>20, <2>21, <2>22, <2>23, Zenon
    DEF Call, CallHeld, Step, Kernel
<1>q. QED
  BY <1>1, <1>2, Zenon DEF Next

\* Every step keeps recursion_count_ and exclusive_owner_ right.
LEMMA RecursionStep ==
  Types /\ Positions /\ Exclusive /\ Recursion /\ [Next]_vars => Recursion'
<1>1. ASSUME Types, Positions, Exclusive, Recursion, UNCHANGED vars PROVE Recursion'
  BY <1>1, Zenon DEF vars, lockvars, condvars, waitvars, Recursion, Holders
<1>2. ASSUME Types, Positions, Exclusive, Recursion, NEW t \in Threads,
             Call(t) \/ CallHeld(t) \/ ExclusiveUnlock(t) \/ Step(t) \/ Kernel(t)
      PROVE  Recursion'
  <2>1. CASE ExclusiveLock(t)
    BY <1>2, <2>1, RecursiveAssumption, ThreadsAssumption, Zenon
    DEF ExclusiveLock, Goto, Recursion, Positions, Exclusive, Holders, Types, lockvars,
        condvars, waitvars
  <2>2. CASE RecursiveLock(t)
    BY <1>2, <2>2, RecursiveAssumption, ThreadsAssumption
    DEF RecursiveLock, IsExclusiveHeld, Recursion, Positions, Exclusive, Holders, Types,
        lockvars, condvars, waitvars
  <2>3. CASE Acquire(t)
    BY <1>2, <2>3, RecursiveAssumption, ThreadsAssumption
    DEF Acquire, Recursion, Positions, Exclusive, Holders, Types, lockvars, condvars,
        waitvars
  <2>4. CASE SetOwner(t)
    BY <1>2, <2>4, RecursiveAssumption, ThreadsAssumption
    DEF SetOwner, Goto, Recursion, Positions, Exclusive, Holders, Types, lockvars, condvars,
        waitvars
  <2>5. CASE Blocked(t)
    BY <1>2, <2>5, RecursiveAssumption, ThreadsAssumption, Zenon
    DEF Blocked, Goto, Recursion, Positions, Exclusive, Holders, Types, lockvars, condvars,
        waitvars
  <2>6. CASE Contend(t)
    BY <1>2, <2>6, RecursiveAssumption, ThreadsAssumption, Zenon
    DEF Contend, Goto, Recursion, Positions, Exclusive, Holders, Types, lockvars, condvars,
        waitvars
  <2>7. CASE FutexWait(t)
    BY <1>2, <2>7, RecursiveAssumption, ThreadsAssumption, ZenonT(40)
    DEF FutexWait, Goto, Recursion, Positions, Exclusive, Holders, Types, lockvars, condvars,
        waitvars
  <2>8. CASE Woken(t)
    BY <1>2, <2>8, RecursiveAssumption, ThreadsAssumption, Zenon
    DEF Woken, Goto, Recursion, Positions, Exclusive, Holders, Types, lockvars, condvars,
        waitvars
  <2>9. CASE Interrupted(t)
    BY <1>2, <2>9, RecursiveAssumption, ThreadsAssumption, Zenon
    DEF Interrupted, Goto, Recursion, Positions, Exclusive, Holders, Types, lockvars,
        condvars, waitvars
  <2>10. CASE Unblocked(t)
    BY <1>2, <2>10, RecursiveAssumption, ThreadsAssumption, Zenon
    DEF Unblocked, Goto, Recursion, Positions, Exclusive, Holders, Types, lockvars, condvars,
        waitvars
  <2>11. CASE ExclusiveUnlock(t)
    BY <1>2, <2>11, RecursiveAssumption, ThreadsAssumption
    DEF ExclusiveUnlock, Goto, Recursion, Positions, Exclusive, Holders, Types, lockvars,
        condvars, waitvars
  <2>12. CASE Release(t)
    BY <1>2, <2>12, RecursiveAssumption, ThreadsAssumption, Zenon
    DEF Release, Goto, Recursion, Positions, Exclusive, Holders, Types, lockvars, condvars,
        waitvars
  <2>13. CASE CheckContenders(t)
    BY <1>2, <2>13, RecursiveAssumption, ThreadsAssumption, Zenon
    DEF CheckContenders, Goto, AfterUnlock, Recursion, Positions, Exclusive, Holders, Types,
        lockvars, condvars, waitvars
  <2>14. CASE FutexWake(t)
    BY <1>2, <2>14, RecursiveAssumption, ThreadsAssumption, Zenon
    DEF FutexWake, Goto, AfterUnlock, Recursion, Positions, Exclusive, Holders, Types,
        lockvars, condvars, waitvars
  <2>15. CASE Wait(t)
    BY <1>2, <2>15, RecursiveAssumption, ThreadsAssumption, Zenon
    DEF Wait, Goto, Recursion, Positions, Exclusive, Holders, Types, lockvars, condvars,
        waitvars
  <2>16. CASE CondFutexWait(t)
    BY <1>2, <2>16, RecursiveAssumption, ThreadsAssumption, ZenonT(40)
    DEF CondFutexWait, Goto, Recursion, Positions, Exclusive, Holders, Types, lockvars,
        condvars, waitvars
  <2>17. CASE CondWoken(t)
    BY <1>2, <2>17, RecursiveAssumption, ThreadsAssumption, Zenon
    DEF CondWoken, Goto, Recursion, Positions, Exclusive, Holders, Types, lockvars, condvars,
        waitvars
  <2>18. CASE CondInterrupted(t)
    BY <1>2, <2>18, RecursiveAssumption, ThreadsAssumption, Zenon
    DEF CondInterrupted, Goto, Recursion, Positions, Exclusive, Holders, Types, lockvars,
        condvars, waitvars
  <2>19. CASE Rewaited(t)
    BY <1>2, <2>19, RecursiveAssumption, ThreadsAssumption, Zenon
    DEF Rewaited, Goto, Recursion, Positions, Exclusive, Holders, Types, lockvars, condvars,
        waitvars
  <2>20. CASE Signal(t)
    BY <1>2, <2>20, RecursiveAssumption, ThreadsAssumption, Zenon
    DEF Signal, Notify, Recursion, Positions, Exclusive, Holders, Types, lockvars, condvars,
        waitvars
  <2>21. CASE Broadcast(t)
    BY <1>2, <2>21, RecursiveAssumption, ThreadsAssumption, Zenon
    DEF Broadcast, Notify, Recursion, Positions, Exclusive, Holders, Types, lockvars,
        condvars, waitvars
  <2>22. CASE SignalWake(t)
    BY <1>2, <2>22, RecursiveAssumption, ThreadsAssumption, Zenon
    DEF SignalWake, Goto, Recursion, Positions, Exclusive, Holders, Types, lockvars,
        condvars, waitvars
  <2>23. CASE BroadcastRequeue(t)
    BY <1>2, <2>23, RecursiveAssumption, ThreadsAssumption, Zenon
    DEF BroadcastRequeue, Goto, Recursion, Positions, Exclusive, Holders, Types, lockvars,
        condvars, waitvars
  <2>q. QED
    BY <1>2, <2>1, <2>2, <2>3, <2>4, <2>5, <2>6, <2>7, <2>8, <2>9, <2>10, <2>11, <2>12, <2>13,
       <2>14, <2>15, <2>16, <2>17, <2>18, <2>19, <2>20, <2>21, <2>22, <2>23, Zenon
    DEF Call, CallHeld, Step, Kernel
<1>q. QED
  BY <1>1, <1>2, Zenon DEF Next

\* Every step keeps the kernel's queues apart.
LEMMA QueuesStep ==
  Types /\ Queues /\ [Next]_vars => Queues'
<1>1. ASSUME Types, Queues, UNCHANGED vars PROVE Queues'
  BY <1>1, Zenon DEF vars, lockvars, condvars, waitvars, Queues
<1>2. ASSUME Types, Queues, NEW t \in Threads,
             Call(t) \/ CallHeld(t) \/ ExclusiveUnlock(t) \/ Step(t) \/ Kernel(t)
      PROVE  Queues'
  <2>1. CASE ExclusiveLock(t)
    BY <1>2, <2>1, Zenon DEF ExclusiveLock, Goto, Queues, Types, lockvars, condvars, waitvars
  <2>2. CASE RecursiveLock(t)
    BY <1>2, <2>2, Zenon
    DEF RecursiveLock, IsExclusiveHeld, Queues, Types, lockvars, condvars, waitvars
  <2>3. CASE Acquire(t)
    BY <1>2, <2>3, Zenon DEF Acquire, Queues, Types, lockvars, condvars, waitvars
  <2>4. CASE SetOwner(t)
    BY <1>2, <2>4, Zenon DEF SetOwner, Goto, Queues, Types, lockvars, condvars, waitvars
  <2>5. CASE Blocked(t)
    BY <1>2, <2>5, Zenon DEF Blocked, Goto, Queues, Types, lockvars, condvars, waitvars
  <2>6. CASE Contend(t)
    BY <1>2, <2>6, Zenon DEF Contend, Goto, Queues, Types, lockvars, condvars, waitvars
  <2>7. CASE FutexWait(t)
    BY <1>2, <2>7, Zenon DEF FutexWait, Goto, Queues, Types, lockvars, condvars, waitvars
  <2>8. CASE Woken(t)
    BY <1>2, <2>8, Zenon DEF Woken, Goto, Queues, Types, lockvars, condvars, waitvars
  <2>9. CASE Interrupted(t)
    BY <1>2, <2>9, Zenon DEF Interrupted, Goto, Queues, Types, lockvars, condvars, waitvars
  <2>10. CASE Unblocked(t)
    BY <1>2, <2>10, Zenon DEF Unblocked, Goto, Queues, Types, lockvars, condvars, waitvars
  <2>11. CASE ExclusiveUnlock(t)
    BY <1>2, <2>11, Zenon
       DEF ExclusiveUnlock, Goto, Queues, Types, lockvars, condvars, waitvars
  <2>12. CASE Release(t)
    BY <1>2, <2>12, Zenon DEF Release, Goto, Queues, Types, lockvars, condvars, waitvars
  <2>13. CASE CheckContenders(t)
    BY <1>2, <2>13, Zenon
    DEF CheckContenders, Goto, AfterUnlock, Queues, Types, lockvars, condvars, waitvars
  <2>14. CASE FutexWake(t)
    BY <1>2, <2>14, Zenon
    DEF FutexWake, Goto, AfterUnlock, Queues, Types, lockvars, condvars, waitvars
  <2>15. CASE Wait(t)
    BY <1>2, <2>15, Zenon DEF Wait, Goto, Queues, Types, lockvars, condvars, waitvars
  <2>16. CASE CondFutexWait(t)
    BY <1>2, <2>16, Zenon DEF CondFutexWait, Goto, Queues, Types, lockvars, condvars, waitvars
  <2>17. CASE CondWoken(t)
    BY <1>2, <2>17, Zenon DEF CondWoken, Goto, Queues, Types, lockvars, condvars, waitvars
  <2>18. CASE CondInterrupted(t)
    BY <1>2, <2>18, Zenon
       DEF CondInterrupted, Goto, Queues, Types, lockvars, condvars, waitvars
  <2>19. CASE Rewaited(t)
    BY <1>2, <2>19, Zenon DEF Rewaited, Goto, Queues, Types, lockvars, condvars, waitvars
  <2>20. CASE Signal(t)
    BY <1>2, <2>20, Zenon DEF Signal, Notify, Queues, Types, lockvars, condvars, waitvars
  <2>21. CASE Broadcast(t)
    BY <1>2, <2>21, Zenon DEF Broadcast, Notify, Queues, Types, lockvars, condvars, waitvars
  <2>22. CASE SignalWake(t)
    BY <1>2, <2>22, Zenon DEF SignalWake, Goto, Queues, Types, lockvars, condvars, waitvars
  <2>23. CASE BroadcastRequeue(t)
    BY <1>2, <2>23, Zenon
       DEF BroadcastRequeue, Goto, Queues, Types, lockvars, condvars, waitvars
  <2>q. QED
    BY <1>2, <2>1, <2>2, <2>3, <2>4, <2>5, <2>6, <2>7, <2>8, <2>9, <2>10, <2>11, <2>12, <2>13,
       <2>14, <2>15, <2>16, <2>17, <2>18, <2>19, <2>20, <2>21, <2>22, <2>23, Zenon
    DEF Call, CallHeld, Step, Kernel
<1>q. QED
  BY <1>1, <1>2, Zenon DEF Next

\* Every step keeps the waiters' copies of sequence_ behind a notify.
LEMMA SequenceStep ==
  Types /\ Exclusive /\ Sequence /\ [Next]_vars => Sequence'
<1>1. ASSUME Types, Exclusive, Sequence, UNCHANGED vars PROVE Sequence'
  BY <1>1, Zenon DEF vars, lockvars, condvars, waitvars, Sequence
<1>2. ASSUME Types, Exclusive, Sequence, NEW t \in Threads,
             Call(t) \/ CallHeld(t) \/ ExclusiveUnlock(t) \/ Step(t) \/ Kernel(t)
      PROVE  Sequence'
  <2>1. CASE ExclusiveLock(t) \/ RecursiveLock(t) \/ Acquire(t) \/ SetOwner(t) \/ Blocked(t)
             \/ Contend(t) \/ FutexWait(t) \/ Woken(t) \/ Interrupted(t) \/ Unblocked(t)
    BY <1>2, <2>1, Zenon
    DEF ExclusiveLock, Goto, RecursiveLock, IsExclusiveHeld, Acquire, SetOwner, Blocked,
        Contend, FutexWait, Woken, Interrupted, Unblocked, Sequence, Types, lockvars,
        condvars, waitvars
  <2>2. CASE ExclusiveUnlock(t) \/ Release(t) \/ CheckContenders(t) \/ FutexWake(t) \/
             CondFutexWait(t) \/ CondWoken(t) \/ CondInterrupted(t) \/ SignalWake(t) \/
             BroadcastRequeue(t)
    BY <1>2, <2>2, ZenonT(40)
    DEF ExclusiveUnlock, Goto, Release, CheckContenders, AfterUnlock, FutexWake,
        CondFutexWait, CondWoken, CondInterrupted, SignalWake, BroadcastRequeue, Sequence,
        Types, lockvars, condvars, waitvars
  <2>3. CASE Wait(t)
    <3>1. \A u \in Threads : pc[u] \in {"signal", "broadcast"} => FALSE
      BY <1>2, <2>3, OneHolder DEF Wait, Goto, Holders
    <3>q. QED
      BY <1>2, <2>3, <3>1 DEF Wait, Goto, Sequence, Types
  <2>4. CASE Rewaited(t)
    BY <1>2, <2>4, Zenon DEF Rewaited, Goto, Sequence, Types, lockvars, condvars, waitvars
  <2>5. CASE Signal(t) \/ Broadcast(t)
    BY <1>2, <2>5
    DEF Signal, Notify, Broadcast, Sequence, Types, lockvars, condvars, waitvars
  <2>q. QED
    BY <1>2, <2>1, <2>2, <2>3, <2>4, <2>5, Zenon DEF Call, CallHeld, Step, Kernel
<1>q. QED
  BY <1>1, <1>2, Zenon DEF Next

\* Every step keeps the contenders and the waiters counted.
LEMMA CountersStep ==
  Types /\ Positions /\ CountersExact /\ [Next]_vars => CountersExact'
<1>1. ASSUME Types, Positions, CountersExact, UNCHANGED vars PROVE CountersExact'
  BY <1>1, Zenon DEF vars, lockvars, condvars, waitvars, CountersExact, Contending, InWait
<1>2. ASSUME Types, Positions, CountersExact, NEW t \in Threads,
             Call(t) \/ CallHeld(t) \/ ExclusiveUnlock(t) \/ Step(t) \/ Kernel(t)
      PROVE  CountersExact'
  <2>1. CASE ExclusiveLock(t) \/ RecursiveLock(t) \/ Acquire(t) \/ SetOwner(t) \/ Blocked(t)
             \/ Woken(t) \/ Interrupted(t) \/ FutexWait(t)
    <3>1. UNCHANGED <<num_contenders_, num_waiters_, Contending, InWait>>
      BY <1>2, <2>1, Zenon
      DEF ExclusiveLock, Goto, RecursiveLock, IsExclusiveHeld, Acquire, SetOwner, Blocked,
          Woken, Interrupted, FutexWait, Contending, InWait, Types, Positions, lockvars,
          condvars, waitvars
    <3>q. QED
      BY <1>2, <3>1, Zenon DEF CountersExact
  <2>2. CASE ExclusiveUnlock(t) \/ Release(t) \/ CheckContenders(t) \/ FutexWake(t) \/
             CondFutexWait(t) \/ CondWoken(t)
    <3>1. UNCHANGED <<num_contenders_, num_waiters_, Contending, InWait>>
      BY <1>2, <2>2, Zenon
      DEF ExclusiveUnlock, Goto, Release, CheckContenders, AfterUnlock, FutexWake,
          CondFutexWait, CondWoken, Contending, InWait, Types, Positions, lockvars, condvars,
          waitvars
    <3>q. QED
      BY <1>2, <3>1, Zenon DEF CountersExact
  <2>3. CASE CondInterrupted(t) \/ Signal(t) \/ Broadcast(t) \/ SignalWake(t) \/
             BroadcastRequeue(t)
    <3>1. UNCHANGED <<num_contenders_, num_waiters_, Contending, InWait>>
      BY <1>2, <2>3, Zenon
      DEF CondInterrupted, Goto, Signal, Notify, Broadcast, SignalWake, BroadcastRequeue,
          Contending, InWait, Types, Positions, lockvars, condvars, waitvars
    <3>q. QED
      BY <1>2, <3>1, Zenon DEF CountersExact
  <2>4. CASE Contend(t)
    <3>1. /\ t \notin Contending /\ Contending' = Contending \cup {t}
          /\ UNCHANGED InWait
          /\ num_contenders_' = num_contenders_ + 1 /\ num_waiters_' = num_waiters_
      BY <1>2, <2>4, Zenon
      DEF Contend, Goto, Contending, InWait, Types, Positions, lockvars, condvars, waitvars
    <3>2. Contending \in SUBSET Threads /\ InWait \in SUBSET Threads
      BY Zenon DEF Contending, InWait
    <3>3. /\ Cardinality(Contending) \in Nat /\ Cardinality(InWait) \in Nat
          /\ t \notin Contending => Cardinality(Contending \cup {t}) = Cardinality(Contending) + 1
          /\ t \in Contending => Cardinality(Contending \ {t}) = Cardinality(Contending) - 1
          /\ t \notin InWait => Cardinality(InWait \cup {t}) = Cardinality(InWait) + 1
          /\ t \in InWait => Cardinality(InWait \ {t}) = Cardinality(InWait) - 1
      BY <3>2, CountOne, Zenon
    <3>q. QED
      BY <1>2, <3>1, <3>3 DEF CountersExact, Types
  <2>5. CASE Unblocked(t)
    <3>1. /\ t \in Contending /\ Contending' = Contending \ {t}
          /\ UNCHANGED InWait
          /\ num_contenders_' = num_contenders_ - 1 /\ num_waiters_' = num_waiters_
      BY <1>2, <2>5, Zenon
      DEF Unblocked, Goto, Contending, InWait, Types, Positions, lockvars, condvars, waitvars
    <3>2. Contending \in SUBSET Threads /\ InWait \in SUBSET Threads
      BY Zenon DEF Contending, InWait
    <3>3. /\ Cardinality(Contending) \in Nat /\ Cardinality(InWait) \in Nat
          /\ t \notin Contending => Cardinality(Contending \cup {t}) = Cardinality(Contending) + 1
          /\ t \in Contending => Cardinality(Contending \ {t}) = Cardinality(Contending) - 1
          /\ t \notin InWait => Cardinality(InWait \cup {t}) = Cardinality(InWait) + 1
          /\ t \in InWait => Cardinality(InWait \ {t}) = Cardinality(InWait) - 1
      BY <3>2, CountOne, Zenon
    <3>q. QED
      BY <1>2, <3>1, <3>3 DEF CountersExact, Types
  <2>6. CASE Wait(t)
    <3>1. /\ UNCHANGED Contending
          /\ t \notin InWait /\ InWait' = InWait \cup {t}
          /\ num_contenders_' = num_contenders_ + 1 /\ num_waiters_' = num_waiters_ + 1
      BY <1>2, <2>6, Zenon
      DEF Wait, Goto, Contending, InWait, Types, Positions, lockvars, condvars, waitvars
    <3>2. Contending \in SUBSET Threads /\ InWait \in SUBSET Threads
      BY Zenon DEF Contending, InWait
    <3>3. /\ Cardinality(Contending) \in Nat /\ Cardinality(InWait) \in Nat
          /\ t \notin Contending => Cardinality(Contending \cup {t}) = Cardinality(Contending) + 1
          /\ t \in Contending => Cardinality(Contending \ {t}) = Cardinality(Contending) - 1
          /\ t \notin InWait => Cardinality(InWait \cup {t}) = Cardinality(InWait) + 1
          /\ t \in InWait => Cardinality(InWait \ {t}) = Cardinality(InWait) - 1
      BY <3>2, CountOne, Zenon
    <3>q. QED
      BY <1>2, <3>1, <3>3 DEF CountersExact, Types
  <2>7. CASE Rewaited(t)
    <3>1. /\ UNCHANGED Contending
          /\ t \in InWait /\ InWait' = InWait \ {t}
          /\ num_contenders_' = num_contenders_ - 1 /\ num_waiters_' = num_waiters_ - 1
      BY <1>2, <2>7, Zenon
      DEF Rewaited, Goto, Contending, InWait, Types, Positions, lockvars, condvars, waitvars
    <3>2. Contending \in SUBSET Threads /\ InWait \in SUBSET Threads
      BY Zenon DEF Contending, InWait
    <3>3. /\ Cardinality(Contending) \in Nat /\ Cardinality(InWait) \in Nat
          /\ t \notin Contending => Cardinality(Contending \cup {t}) = Cardinality(Contending) + 1
          /\ t \in Contending => Cardinality(Contending \ {t}) = Cardinality(Contending) - 1
          /\ t \notin InWait => Cardinality(InWait \cup {t}) = Cardinality(InWait) + 1
          /\ t \in InWait => Cardinality(InWait \ {t}) = Cardinality(InWait) - 1
      BY <3>2, CountOne, Zenon
    <3>q. QED
      BY <1>2, <3>1, <3>3 DEF CountersExact, Types
  <2>q. QED
    BY <1>2, <2>1, <2>2, <2>3, <2>4, <2>5, <2>6, <2>7, Zenon DEF Call, CallHeld, Step, Kernel
<1>q. QED
  BY <1>1, <1>2, Zenon DEF Next

\* Whoever sleeps on the mutex is counted, so the next unlock sees it.
LEMMA SleeperIsCounted ==
  ASSUME Types, Positions, Queues, CountersExact, mutexq # {}
  PROVE  num_contenders_ > 0
<1>1. Contending \in SUBSET Threads /\ InWait \in SUBSET Threads
  BY Zenon DEF Contending, InWait
<1>2. PICK s \in mutexq : s \in Threads /\ pc[s] \in {"asleep", "condasleep"}
  BY Zenon DEF Types, Queues
<1>3. s \in Contending \/ s \in InWait
  BY <1>2, Zenon DEF Contending, InWait, Positions
<1>4. /\ Cardinality(Contending) \in Nat /\ Cardinality(InWait) \in Nat
      /\ Cardinality(Contending) = 0 => Contending = {}
      /\ Cardinality(InWait) = 0 => InWait = {}
  BY <1>1, <1>2, CountOne, Zenon
<1>q. QED
  BY <1>3, <1>4 DEF CountersExact

\* Every step leaves a sleeper on a free mutex somebody who will wake it.
LEMMA StrandedStep ==
  Types /\ Positions /\ Exclusive /\ Queues /\ CountersExact /\ NoStrandedContender /\ [Next]_vars =>
    NoStrandedContender'
<1>1. ASSUME Types, Positions, Exclusive, Queues, CountersExact, NoStrandedContender,
             UNCHANGED vars
      PROVE  NoStrandedContender'
  BY <1>1, Zenon DEF vars, lockvars, condvars, waitvars, NoStrandedContender
<1>2. ASSUME Types, Positions, Exclusive, Queues, CountersExact, NoStrandedContender,
             NEW t \in Threads,
             Call(t) \/ CallHeld(t) \/ ExclusiveUnlock(t) \/ Step(t) \/ Kernel(t)
      PROVE  NoStrandedContender'
  <2>1. CASE ExclusiveLock(t)
    BY <1>2, <2>1, Zenon
    DEF ExclusiveLock, Goto, NoStrandedContender, Types, lockvars, condvars, waitvars
  <2>2. CASE RecursiveLock(t)
    <3>1. state_' = 1
      BY <1>2, <2>2, OneHolder, Zenon DEF RecursiveLock, Goto, Holders, lockvars
    <3>q. QED
      BY <3>1 DEF NoStrandedContender
  <2>3. CASE Acquire(t)
    BY <1>2, <2>3 DEF Acquire, NoStrandedContender
  <2>4. CASE SetOwner(t)
    <3>1. state_' = 1
      BY <1>2, <2>4, OneHolder, Zenon DEF SetOwner, Goto, Holders, lockvars
    <3>q. QED
      BY <3>1 DEF NoStrandedContender
  <2>5. CASE Blocked(t)
    BY <1>2, <2>5, Zenon
       DEF Blocked, Goto, NoStrandedContender, Types, lockvars, condvars, waitvars
  <2>6. CASE Contend(t)
    BY <1>2, <2>6, Zenon
       DEF Contend, Goto, NoStrandedContender, Types, lockvars, condvars, waitvars
  <2>7. CASE FutexWait(t)
    BY <1>2, <2>7
    DEF FutexWait, Goto, NoStrandedContender, Types, lockvars, condvars, waitvars
  <2>8. CASE Woken(t)
    BY <1>2, <2>8, Zenon
       DEF Woken, Goto, NoStrandedContender, Types, lockvars, condvars, waitvars
  <2>9. CASE Interrupted(t)
    BY <1>2, <2>9, Zenon
    DEF Interrupted, Goto, NoStrandedContender, Types, lockvars, condvars, waitvars
  <2>10. CASE Unblocked(t)
    BY <1>2, <2>10, Zenon
    DEF Unblocked, Goto, NoStrandedContender, Types, lockvars, condvars, waitvars
  <2>11. CASE ExclusiveUnlock(t)
    <3>1. state_' = 1
      BY <1>2, <2>11, OneHolder, Zenon DEF ExclusiveUnlock, Goto, Holders, lockvars
    <3>q. QED
      BY <3>1 DEF NoStrandedContender
  <2>12. CASE Release(t)
    BY <1>2, <2>12, SleeperIsCounted, Zenon DEF Release, Goto, NoStrandedContender, Types
  <2>13. CASE CheckContenders(t)
    BY <1>2, <2>13, SleeperIsCounted, Zenon
    DEF CheckContenders, Goto, AfterUnlock, NoStrandedContender, Types, lockvars
  <2>14. CASE FutexWake(t)
    <3>1. CASE mutexq = {}
      BY <2>14, <3>1, Zenon DEF FutexWake, NoStrandedContender
    <3>2. CASE mutexq # {}
      <4>1. PICK w \in mutexq : mutexq' = mutexq \ {w}
        BY <2>14, <3>2, Zenon DEF FutexWake
      <4>2. w \in Threads /\ w # t /\ pc[w] \in {"asleep", "condasleep"} /\ w \notin condq
        BY <1>2, <2>14, <4>1, Zenon DEF FutexWake, Goto, Queues, Types
      <4>3. pc'[w] \in {"asleep", "condasleep"} /\ w \notin mutexq' \cup condq'
        BY <1>2, <2>14, <4>1, <4>2, Zenon DEF FutexWake, Goto, Types
      <4>q. QED
        BY <4>2, <4>3, Zenon DEF NoStrandedContender
    <3>q. QED
      BY <3>1, <3>2, Zenon
  <2>15. CASE Wait(t)
    <3>1. state_' = 1
      BY <1>2, <2>15, OneHolder, Zenon DEF Wait, Goto, Holders, lockvars
    <3>q. QED
      BY <3>1 DEF NoStrandedContender
  <2>16. CASE CondFutexWait(t)
    BY <1>2, <2>16, Zenon
    DEF CondFutexWait, Goto, NoStrandedContender, Types, lockvars, condvars, waitvars
  <2>17. CASE CondWoken(t)
    BY <1>2, <2>17, Zenon
    DEF CondWoken, Goto, NoStrandedContender, Types, lockvars, condvars, waitvars
  <2>18. CASE CondInterrupted(t)
    BY <1>2, <2>18, Zenon
    DEF CondInterrupted, Goto, NoStrandedContender, Types, lockvars, condvars, waitvars
  <2>19. CASE Rewaited(t)
    <3>1. state_' = 1
      BY <1>2, <2>19, OneHolder, Zenon DEF Rewaited, Goto, Holders, lockvars
    <3>q. QED
      BY <3>1 DEF NoStrandedContender
  <2>20. CASE Signal(t)
    <3>1. state_' = 1
      BY <1>2, <2>20, OneHolder, Zenon DEF Signal, Notify, Goto, Holders, lockvars
    <3>q. QED
      BY <3>1 DEF NoStrandedContender
  <2>21. CASE Broadcast(t)
    <3>1. state_' = 1
      BY <1>2, <2>21, OneHolder, Zenon DEF Broadcast, Notify, Goto, Holders, lockvars
    <3>q. QED
      BY <3>1 DEF NoStrandedContender
  <2>22. CASE SignalWake(t)
    <3>1. state_' = 1
      BY <1>2, <2>22, OneHolder, Zenon DEF SignalWake, Goto, Holders, lockvars
    <3>q. QED
      BY <3>1 DEF NoStrandedContender
  <2>23. CASE BroadcastRequeue(t)
    <3>1. state_' = 1
      BY <1>2, <2>23, OneHolder, Zenon DEF BroadcastRequeue, Goto, Holders, lockvars
    <3>q. QED
      BY <3>1 DEF NoStrandedContender
  <2>q. QED
    BY <1>2, <2>1, <2>2, <2>3, <2>4, <2>5, <2>6, <2>7, <2>8, <2>9, <2>10, <2>11, <2>12, <2>13,
       <2>14, <2>15, <2>16, <2>17, <2>18, <2>19, <2>20, <2>21, <2>22, <2>23, Zenon
    DEF Call, CallHeld, Step, Kernel
<1>q. QED
  BY <1>1, <1>2, Zenon DEF Next

-----------------------------------------------------------------------------
\* The inductive invariant.
IInv ==
  /\ Types /\ Positions /\ Exclusive /\ Recursion
  /\ Queues /\ Sequence /\ CountersExact /\ NoStrandedContender

\* A new mutex is free, with nobody counted or queued.
LEMMA InitIInv == Init => IInv
<1> SUFFICES ASSUME Init PROVE IInv
  OBVIOUS
<1>1. Types
  BY DEF Init, Types, PcValues
<1>2. Holders = {} /\ Contending = {} /\ InWait = {}
  BY Zenon DEF Init, Holders, Contending, InWait
<1>3. CountersExact
  BY <1>2, FS_EmptySet DEF Init, CountersExact
<1>4. Positions /\ Queues /\ Sequence /\ NoStrandedContender
  BY Zenon DEF Init, Positions, Queues, Sequence, NoStrandedContender
<1>5. Exclusive /\ Recursion
  BY <1>2, Zenon DEF Init, Exclusive, Recursion
<1>q. QED
  BY <1>1, <1>3, <1>4, <1>5, Zenon DEF IInv

\* Every step of the mutex and its condition variable preserves the invariant.
LEMMA NextIInv == IInv /\ [Next]_vars => IInv'
BY TypeStep, PositionsStep, ExclusiveStep, RecursionStep, QueuesStep, SequenceStep,
   CountersStep, StrandedStep, Zenon
DEF IInv

\* The inductive invariant holds in every reachable state of Mutex.
THEOREM Invariance == Spec => []IInv
<1>q. QED
  BY InitIInv, NextIInv, PTL DEF Spec

\* Type correctness of the mutex and its condition variable.
THEOREM TypeCorrect == Spec => []TypeOK
<1>1. IInv => TypeOK
  <2> SUFFICES ASSUME IInv PROVE TypeOK
    OBVIOUS
  <2>1. recursion_count_ \in Nat
    <3>1. CASE Holders = {}
      BY <3>1 DEF IInv, Recursion
    <3>2. CASE Holders # {}
      BY <3>2 DEF IInv, Recursion, Holders, Types
    <3>q. QED
      BY <3>1, <3>2, Zenon
  <2>2. \A S \in SUBSET Threads : Cardinality(S) \in Nat
    BY ThreadsAssumption, FS_Subset, FS_CardinalityType, Zenon
  <2>3. Contending \in SUBSET Threads /\ InWait \in SUBSET Threads
    BY Zenon DEF Contending, InWait
  <2>4. num_contenders_ \in Nat /\ num_waiters_ \in Nat
    BY <2>2, <2>3 DEF IInv, CountersExact
  <2>q. QED
    BY <2>1, <2>4, Zenon DEF IInv, Types, TypeOK
<1>q. QED
  BY Invariance, <1>1, PTL

\* ExclusiveLock, ExclusiveTryLock and the return from a wait never let two
\* threads in, and recursion_count_ and exclusive_owner_ describe the holder.
THEOREM MutualExclusionCorrect == Spec => []MutualExclusion
<1>1. IInv => MutualExclusion
  BY Zenon DEF IInv, Exclusive, Recursion, MutualExclusion, IsExclusiveHeld
<1>q. QED
  BY Invariance, <1>1, PTL

\* num_contenders_ and num_waiters_ are exact.
THEOREM CountersCorrect == Spec => []CountersExact
<1>1. IInv => CountersExact
  BY Zenon DEF IInv
<1>q. QED
  BY Invariance, <1>1, PTL

\* An unlock that wakes one thread, or none when it saw no contender, strands
\* nobody: for any number of contenders and requeued waiters.
THEOREM WakeupCorrect == Spec => []NoStrandedContender
<1>1. IInv => NoStrandedContender
  BY Zenon DEF IInv
<1>q. QED
  BY Invariance, <1>1, PTL

\* Signal and Broadcast lose no waiter, for any number of waiters between
\* their release of the guard and their FUTEX_WAIT.
THEOREM NotifyCorrect == Spec => NotifyReachesWaiters
<1>1. ASSUME IInv, [Next]_vars, NEW t \in Threads, pc[t] = "broadcast", pc'[t] = "held"
      PROVE  BroadcastRequeue(t)
  <2>1. PICK u \in Threads : Call(u) \/ CallHeld(u) \/ ExclusiveUnlock(u) \/ Step(u) \/ Kernel(u)
    BY <1>1, Zenon DEF Next, vars
  <2>2. u = t
    BY <1>1, <2>1, Zenon
    DEF Call, CallHeld, Step, Kernel, Goto, Notify, IInv, Types, AfterUnlock, ExclusiveLock,
        RecursiveLock, Acquire, SetOwner, Blocked, Contend, FutexWait, Woken, Interrupted,
        Unblocked, ExclusiveUnlock, Release, CheckContenders, FutexWake, Wait, CondFutexWait,
        CondWoken, CondInterrupted, Rewaited, Signal, Broadcast, SignalWake, BroadcastRequeue,
        lockvars, condvars, waitvars
  <2>q. QED
    BY <1>1, <2>1, <2>2, Zenon
    DEF Call, CallHeld, Step, Kernel, Goto, Notify,AfterUnlock, ExclusiveLock, RecursiveLock,
        Acquire, SetOwner, Blocked, Contend, FutexWait, Woken, Interrupted, Unblocked,
        ExclusiveUnlock, Release, CheckContenders, FutexWake, Wait, CondFutexWait, CondWoken,
        CondInterrupted, Rewaited, Signal, Broadcast, SignalWake, lockvars, condvars, waitvars
<1>2. ASSUME IInv, [Next]_vars, NEW t \in Threads, pc[t] = "signal", pc'[t] = "held"
      PROVE  SignalWake(t)
  <2>1. PICK u \in Threads : Call(u) \/ CallHeld(u) \/ ExclusiveUnlock(u) \/ Step(u) \/ Kernel(u)
    BY <1>2, Zenon DEF Next, vars
  <2>2. u = t
    BY <1>2, <2>1, Zenon
    DEF Call, CallHeld, Step, Kernel, Goto, Notify, IInv, Types, AfterUnlock, ExclusiveLock,
        RecursiveLock, Acquire, SetOwner, Blocked, Contend, FutexWait, Woken, Interrupted,
        Unblocked, ExclusiveUnlock, Release, CheckContenders, FutexWake, Wait, CondFutexWait,
        CondWoken, CondInterrupted, Rewaited, Signal, Broadcast, SignalWake, BroadcastRequeue,
        lockvars, condvars, waitvars
  <2>q. QED
    BY <1>2, <2>1, <2>2, Zenon
    DEF Call, CallHeld, Step, Kernel, Goto, Notify,AfterUnlock, ExclusiveLock, RecursiveLock,
        Acquire, SetOwner, Blocked, Contend, FutexWait, Woken, Interrupted, Unblocked,
        ExclusiveUnlock, Release, CheckContenders, FutexWake, Wait, CondFutexWait, CondWoken,
        CondInterrupted, Rewaited, Signal, Broadcast, BroadcastRequeue, lockvars, condvars,
        waitvars
<1>3. ASSUME IInv, NEW t \in Threads, BroadcastRequeue(t), NEW w \in Threads
      PROVE  ~CanSleep(w)'
  BY <1>3 DEF BroadcastRequeue, Goto, CanSleep, IInv, Types, Sequence, condvars, waitvars
<1>4. ASSUME IInv, NEW t \in Threads, SignalWake(t)
      PROVE  \/ \E w \in Threads : CanSleep(w) /\ ~CanSleep(w)'
             \/ \A w \in Threads : ~CanSleep(w)
  <2>1. CASE condq = {}
    BY <1>4, <2>1 DEF SignalWake, Goto, CanSleep, IInv, Types, Sequence
  <2>2. CASE condq # {}
    <3>1. PICK w \in condq : condq' = condq \ {w}
      BY <1>4, <2>2, Zenon DEF SignalWake
    <3>2. w \in Threads /\ pc[w] = "condasleep" /\ waiting[w] /\ w # t
      BY <1>4, <3>1, Zenon DEF IInv, Types, Queues, Positions, SignalWake, Goto
    <3>3. pc'[w] = "condasleep"
      BY <1>4, <3>2, Zenon DEF SignalWake, Goto, IInv, Types
    <3>4. CanSleep(w) /\ ~CanSleep(w)'
      BY <3>1, <3>2, <3>3, Zenon DEF CanSleep
    <3>q. QED
      BY <3>2, <3>4, Zenon
  <2>q. QED
    BY <2>1, <2>2, Zenon
<1>5. IInv /\ [Next]_vars =>
        \A t \in Threads :
          /\ pc[t] = "broadcast" /\ pc'[t] = "held" => \A w \in Threads : ~CanSleep(w)'
          /\ pc[t] = "signal" /\ pc'[t] = "held" =>
               \/ \E w \in Threads : CanSleep(w) /\ ~CanSleep(w)'
               \/ \A w \in Threads : ~CanSleep(w)
  BY <1>1, <1>2, <1>3, <1>4, Zenon
<1>q. QED
  BY <1>5, Invariance, PTL DEF Spec, NotifyReachesWaiters
-----------------------------------------------------------------------------
(* ImplementsLock: only the compare-and-swaps on state_ are steps of the   *)
(* abstract lock.                                                          *)

\* Every step takes, gives back or leaves alone the abstract lock.
LEMMA AbstractStep ==
  Types /\ Exclusive /\ [Next]_vars => [Abstract!Next]_Abstract!lock
<1>1. ASSUME Types, Exclusive, UNCHANGED vars PROVE [Abstract!Next]_Abstract!lock
  BY <1>1, Zenon DEF vars, lockvars, condvars, waitvars, Holders, Abstract!lock
<1>2. ASSUME Types, Exclusive, NEW t \in Threads,
             Call(t) \/ CallHeld(t) \/ ExclusiveUnlock(t) \/ Step(t) \/ Kernel(t)
      PROVE  [Abstract!Next]_Abstract!lock
  <2>1. CASE ExclusiveLock(t) \/ RecursiveLock(t) \/ SetOwner(t) \/ Blocked(t) \/ Contend(t)
             \/ FutexWait(t) \/ Woken(t) \/ Interrupted(t)
    <3>1. UNCHANGED Holders
      BY <1>2, <2>1, Zenon
      DEF ExclusiveLock, Goto, RecursiveLock, IsExclusiveHeld, SetOwner, Blocked, Contend,
          FutexWait, Woken, Interrupted, Holders, Types, lockvars, condvars, waitvars
    <3>q. QED
      BY <3>1, Zenon DEF Abstract!lock
  <2>2. CASE Unblocked(t) \/ ExclusiveUnlock(t) \/ CheckContenders(t) \/ FutexWake(t) \/
             Wait(t) \/ CondFutexWait(t) \/ CondWoken(t)
    <3>1. UNCHANGED Holders
      BY <1>2, <2>2, Zenon
      DEF Unblocked, Goto, ExclusiveUnlock, CheckContenders, AfterUnlock, FutexWake, Wait,
          CondFutexWait, CondWoken, Holders, Types, lockvars, condvars, waitvars
    <3>q. QED
      BY <3>1, Zenon DEF Abstract!lock
  <2>3. CASE CondInterrupted(t) \/ Rewaited(t) \/ Signal(t) \/ Broadcast(t) \/ SignalWake(t)
             \/ BroadcastRequeue(t)
    <3>1. UNCHANGED Holders
      BY <1>2, <2>3, Zenon
      DEF CondInterrupted, Goto, Rewaited, Signal, Notify, Broadcast, SignalWake,
          BroadcastRequeue, Holders, Types, lockvars, condvars, waitvars
    <3>q. QED
      BY <3>1, Zenon DEF Abstract!lock
  <2>4. CASE Acquire(t)
    <3>1. Abstract!AcquireExclusive(t)
      BY <1>2, <2>4 DEF Acquire, Exclusive, Holders, Types, Abstract!AcquireExclusive
    <3>q. QED
      BY <3>1, Zenon DEF Abstract!Next
  <2>5. CASE Release(t)
    <3>1. Abstract!ReleaseExclusive(t)
      BY <1>2, <2>5, Zenon
         DEF Release, Goto, Exclusive, Holders, Types, Abstract!ReleaseExclusive
    <3>q. QED
      BY <3>1, Zenon DEF Abstract!Next
  <2>q. QED
    BY <1>2, <2>1, <2>2, <2>3, <2>4, <2>5, Zenon DEF Call, CallHeld, Step, Kernel
<1>q. QED
  BY <1>1, <1>2, Zenon DEF Next

\* Mutex implements the exclusive half of the abstract lock for any number of
\* threads, recursion, signals and time-outs.
THEOREM LockCorrect == Spec => ImplementsLock
<1>1. Init => Abstract!Init
  BY Zenon DEF Init, Abstract!Init, Holders
<1>2. IInv /\ [Next]_vars => [Abstract!Next]_Abstract!lock
  BY AbstractStep, Zenon DEF IInv
<1>q. QED
  BY <1>1, <1>2, Invariance, PTL DEF Spec, ImplementsLock, Abstract!Spec

-----------------------------------------------------------------------------
(* The Barrier on top of the mutex.                                        *)

AtValues == {"new", "init", "initialised", "start", "body", "unlock", "done"}

\* The coordinator is in its wait, and nothing that has happened ends it.
Unnotified ==
  /\ waiting[Coordinator]
  /\ pc[Coordinator] \in {"release", "check", "wake", "condwait", "condasleep"}
  /\ cur_sequence[Coordinator] = sequence_
  /\ pc[Coordinator] = "condasleep" => Coordinator \in condq

BTypes == count_ \in Int /\ at \in [Threads -> AtValues]

\* Who waits and who notifies.
BPlaces ==
  /\ \A t \in Threads :
       /\ waiting[t] => t = Coordinator /\ at[t] = "unlock"
       /\ pc[t] # "signal"
       /\ pc[t] = "broadcast" => Passed = Passers
  /\ at[Coordinator] \in {"new", "init", "initialised"} => \A t \in Passers : at[t] = "start"
  /\ \A t \in Passers : at[t] \in {"start", "body", "unlock", "done"}

\* count_ is what is still to come, once it has been announced.
BCounts ==
  count_ = (IF at[Coordinator] \in {"unlock", "done"} THEN Cardinality(Passers) ELSE 0)
           - Cardinality(Passed)

BarrierInv ==
  /\ BTypes /\ BPlaces /\ BCounts
  /\ at[Coordinator] = "unlock" => Passed = Passers \/ Unnotified
  /\ LeavesAfterAllPassed

\* Every step of the barrier is a step of its mutex, or none.
LEMMA BarrierStepOnMutex ==
  BNext => [Next]_vars
<1>1. ASSUME NEW t \in Threads, BCall(t) PROVE [Next]_vars
  BY <1>1, Zenon
  DEF BCall, EnterInit, InitCount, LeaveInit, Enter, Pass, Increment, Leave, SetCountLocked,
      Next, Call, CallHeld
<1>2. ASSUME NEW t \in Threads, BStep(t) \/ BKernel(t) PROVE [Next]_vars
  BY <1>2, Zenon DEF BStep, BKernel, Next
<1>q. QED
  BY <1>1, <1>2, Zenon DEF BNext, bvars

\* The passers that have passed, one more of them, and all of them.
LEMMA PassedCount ==
  ASSUME BTypes
  PROVE  /\ Cardinality(Passed) \in Nat /\ Cardinality(Passers) \in Nat
         /\ Cardinality(Passed) = Cardinality(Passers) => Passed = Passers
         /\ \A t \in Passers \ Passed : /\ Cardinality(Passed \cup {t}) = Cardinality(Passed) + 1
                                        /\ Cardinality(Passed \cup {t}) = Cardinality(Passers) =>
                                             Passed \cup {t} = Passers
<1>1. IsFiniteSet(Passers)
  BY ThreadsAssumption, FS_Subset, Zenon DEF Passers
<1>2. Passed \subseteq Passers
  BY Zenon DEF Passed
<1>3. \A S \in SUBSET Passers : Cardinality(S) = Cardinality(Passers) => S = Passers
  BY <1>1, FS_Subset, Zenon
<1>4. \A t \in Passers \ Passed : Cardinality(Passed \cup {t}) = Cardinality(Passed) + 1
  BY <1>2, CountOne, Zenon DEF Passers
<1>5. Cardinality(Passed) \in Nat /\ Cardinality(Passers) \in Nat
  BY <1>1, <1>2, FS_Subset, FS_CardinalityType, Zenon
<1>6. \A t \in Passers \ Passed : Passed \cup {t} \in SUBSET Passers
  BY <1>2, Zenon
<1>q. QED
  BY <1>2, <1>3, <1>4, <1>5, <1>6

\* The steps of the mutex that the barrier's threads take of themselves.
LEMMA BarrierMutexStep ==
  ASSUME Coordinator \notin Interruptible, IInv, BarrierInv,
         NEW t \in Threads, BStep(t) \/ BKernel(t)
  PROVE  BarrierInv'
<1>1. UNCHANGED <<count_, at, Passed, sequence_, cur_sequence>> /\ (Step(t) \/ Kernel(t))
  BY ZenonT(40)
     DEF BStep, BKernel, Step, Kernel, Acquire, SetOwner, Blocked, Contend, FutexWait, Woken,
         Unblocked, Release, CheckContenders, FutexWake, CondFutexWait, CondWoken, Rewaited,
         SignalWake, BroadcastRequeue, Interrupted, CondInterrupted, Passed, condvars, waitvars
<1>2. /\ \A u \in Threads : waiting'[u] => waiting[u]
      /\ \A u \in Threads : pc'[u] \in {"signal", "broadcast"} => pc[u] = pc'[u]
  BY <1>1, Zenon
     DEF IInv, Types, Step, Kernel, Acquire, SetOwner, Blocked, Contend, FutexWait, Woken,
         Unblocked, Release, CheckContenders, FutexWake, CondFutexWait, CondWoken, Rewaited,
         SignalWake, BroadcastRequeue, Interrupted, CondInterrupted, AfterUnlock, Goto,
         condvars, waitvars
<1>3. ASSUME Unnotified, pc[t] \notin {"signal", "broadcast"} PROVE Unnotified'
  <2>1. CASE t = Coordinator
    BY <1>1, <1>3, <2>1, CoordinatorAssumption, Zenon
       DEF IInv, Types, Unnotified, Step, Kernel, Acquire, SetOwner, Blocked, Contend,
           FutexWait, Woken, Unblocked, Release, CheckContenders, FutexWake, CondFutexWait,
           CondWoken, Rewaited, SignalWake, BroadcastRequeue, Interrupted, CondInterrupted,
           AfterUnlock, Goto, condvars, waitvars, lockvars
  <2>2. CASE t # Coordinator
    BY <1>1, <1>3, <2>2, CoordinatorAssumption, Zenon
       DEF IInv, Types, Unnotified, Step, Kernel, Acquire, SetOwner, Blocked, Contend,
           FutexWait, Woken, Unblocked, Release, CheckContenders, FutexWake, CondFutexWait,
           CondWoken, Rewaited, SignalWake, BroadcastRequeue, Interrupted, CondInterrupted,
           AfterUnlock, Goto, condvars, waitvars, lockvars
  <2>q. QED
    BY <2>1, <2>2, Zenon
<1>4. BTypes' /\ BPlaces' /\ BCounts' /\ LeavesAfterAllPassed'
  BY <1>1, <1>2, Zenon DEF BarrierInv, BTypes, BPlaces, BCounts, LeavesAfterAllPassed
<1>5. at'[Coordinator] = "unlock" => Passed' = Passers \/ Unnotified'
  BY <1>1, <1>3, Zenon DEF BarrierInv, BPlaces
<1>q. QED
  BY <1>4, <1>5, Zenon DEF BarrierInv

\* The calls that only take or give back the mutex.
LEMMA BarrierQuietStep ==
  ASSUME Coordinator \notin Interruptible, IInv, BarrierInv,
         NEW t \in Threads, EnterInit(t) \/ LeaveInit(t) \/ Enter(t) \/ Leave(t)
  PROVE  BarrierInv'
<1> USE CoordinatorAssumption
<1>1. /\ UNCHANGED <<count_, waiting, sequence_, cur_sequence, condq>>
      /\ \A u \in Threads : u # t => pc'[u] = pc[u]
      /\ pc'[t] \notin {"signal", "broadcast"}
      /\ ~waiting[t]
  <2>1. UNCHANGED <<count_, waiting, sequence_, cur_sequence, condq>>
    BY ZenonT(40)
       DEF EnterInit, LeaveInit, Enter, Leave, ExclusiveLock, ExclusiveUnlock, condvars,
           waitvars
  <2>2. /\ pc[t] \in {"idle", "held"}
        /\ \E q \in {"try", "release", "held"} : pc' = [pc EXCEPT ![t] = q]
    <3>1. CASE pc[t] = "idle" /\ pc' = [pc EXCEPT ![t] = "try"]
      BY <3>1, Zenon
    <3>2. CASE pc[t] = "held" /\ pc' = [pc EXCEPT ![t] = "release"]
      BY <3>2, Zenon
    <3>3. CASE pc[t] = "held" /\ pc' = pc
      BY <3>3, ZenonT(40) DEF IInv, Types
    <3>q. QED
      BY <3>1, <3>2, <3>3, ZenonT(40)
      DEF EnterInit, LeaveInit, Enter, Leave, ExclusiveLock, ExclusiveUnlock, Goto
  <2>3. ~waiting[t]
    BY <2>2, Zenon DEF IInv, Positions
  <2>4. pc \in [Threads -> PcValues]
    BY Zenon DEF IInv, Types
  <2>q. QED
    BY <2>1, <2>2, <2>3, <2>4, Zenon
<1>2. at[t] \in {"new", "initialised"} => t = Coordinator
  <2>1. t \in Passers => at[t] \in {"start", "body", "unlock", "done"}
    BY Zenon DEF BarrierInv, BPlaces
  <2>q. QED
    BY <2>1, Zenon DEF Passers
<1>3. /\ \A u \in Threads : u # t => at'[u] = at[u]
      /\ \/ at[t] = "new" /\ at'[t] = "init"
         \/ at[t] = "initialised" /\ at'[t] = "start"
         \/ at[t] = "start" /\ at'[t] = "body"
         \/ at[t] = "unlock" /\ at'[t] = "done"
      /\ BTypes'
  BY Zenon DEF EnterInit, LeaveInit, Enter, Leave, Go, BarrierInv, BTypes, AtValues
<1>4. at[t] = "start" => at[Coordinator] \notin {"new", "init", "initialised"}
  BY <1>3, Zenon DEF EnterInit, LeaveInit, Enter, Leave, Go, CheckpointRequested
<1>5. Passed' = Passed
  BY <1>2, <1>3, Zenon DEF Passed, Passers
<1>6. at'[Coordinator] \in {"unlock", "done"} <=> at[Coordinator] \in {"unlock", "done"}
  BY <1>3, Zenon
<1>7. BPlaces'
  <2>1. ASSUME NEW u \in Threads
        PROVE  /\ waiting'[u] => u = Coordinator /\ at'[u] = "unlock"
               /\ pc'[u] # "signal"
               /\ pc'[u] = "broadcast" => Passed' = Passers
    BY <1>1, <1>3, <1>5, Zenon DEF BarrierInv, BPlaces
  <2>2. at'[Coordinator] \in {"new", "init", "initialised"} => \A u \in Passers : at'[u] = "start"
    BY <1>3, <1>4, Zenon DEF BarrierInv, BPlaces, Passers
  <2>3. \A u \in Passers : at'[u] \in {"start", "body", "unlock", "done"}
    BY <1>2, <1>3, Zenon DEF BarrierInv, BPlaces, Passers
  <2>q. QED
    BY <2>1, <2>2, <2>3, Zenon DEF BPlaces
<1>8. BCounts'
  BY <1>1, <1>5, <1>6, ZenonT(40) DEF BarrierInv, BCounts
<1>9. at'[Coordinator] = "unlock" => Passed' = Passers \/ Unnotified'
  BY <1>1, <1>3, <1>5, Zenon DEF BarrierInv, Unnotified
<1>10. LeavesAfterAllPassed'
  <2>1. CASE t = Coordinator /\ at[t] = "unlock"
    BY <1>1, <1>5, <2>1, ZenonT(40) DEF BarrierInv, Unnotified, LeavesAfterAllPassed
  <2>2. CASE ~(t = Coordinator /\ at[t] = "unlock")
    BY <1>3, <1>5, <2>2, Zenon DEF BarrierInv, LeavesAfterAllPassed
  <2>q. QED
    BY <2>1, <2>2, Zenon
<1>q. QED
  BY <1>3, <1>7, <1>8, <1>9, <1>10, ZenonT(40) DEF BarrierInv

\* SetCountLocked of Init: nobody waits yet, so it notifies nobody.
LEMMA BarrierInitCountStep ==
  ASSUME IInv, BarrierInv, NEW t \in Threads, InitCount(t)
  PROVE  BarrierInv'
<1> USE CoordinatorAssumption
<1>1. t = Coordinator /\ \A u \in Passers : at[u] = "start"
  BY Zenon DEF InitCount, Go, BarrierInv, BPlaces, Passers
<1>2. Passed = {} /\ Cardinality(Passed) = 0
  BY <1>1, CountOne, Zenon DEF Passed, Passers
<1>3. InWait = {} /\ num_waiters_ = 0
  <2>1. \A u \in Threads : ~waiting[u]
    BY <1>1, Zenon DEF InitCount, Go, BarrierInv, BPlaces
  <2>q. QED
    BY <2>1, CountOne, Zenon DEF InWait, IInv, CountersExact
<1>4. UNCHANGED vars
  BY <1>3 DEF InitCount, SetCountLocked, Broadcast, Notify, vars, lockvars, condvars, waitvars
<1>5. /\ \A u \in Threads : u # t => at'[u] = at[u]
      /\ at'[t] = "initialised" /\ at[t] = "init"
      /\ BTypes' /\ count_' = 0
  BY DEF InitCount, SetCountLocked, Go, BarrierInv, BTypes, AtValues
<1>6. Passed' = Passed
  BY <1>1, <1>5, Zenon DEF Passed, Passers
<1>7. BCounts'
  BY <1>1, <1>2, <1>5, <1>6 DEF BCounts
<1>8. BPlaces'
  BY <1>1, <1>4, <1>5, <1>6, Zenon DEF BarrierInv, BPlaces, Passers, vars, waitvars
<1>q. QED
  BY <1>1, <1>5, <1>7, <1>8, Zenon DEF BarrierInv, LeavesAfterAllPassed

\* Pass: only the last one brings count_ to zero and notifies.
LEMMA BarrierPassStep ==
  ASSUME IInv, BarrierInv, NEW t \in Threads, Pass(t)
  PROVE  BarrierInv'
<1> USE CoordinatorAssumption
<1>1. /\ t \in Passers /\ t \notin Passed /\ t # Coordinator
      /\ pc[t] = "held"
      /\ \A u \in Threads : u # t => at'[u] = at[u]
      /\ at[t] = "body" /\ at'[t] = "unlock"
      /\ BTypes' /\ count_' = count_ - 1
  BY DEF Pass, SetCountLocked, Go, BarrierInv, BTypes, AtValues, Passers, Passed
<1>2. Passed' = Passed \cup {t}
  BY <1>1, Zenon DEF Passed, Passers
<1>3. BCounts'
  BY <1>1, <1>2, PassedCount DEF BarrierInv, BCounts
<1>4. count_' = 0 => Passed' = Passers
  BY <1>1, <1>2, <1>3, PassedCount DEF BarrierInv, BCounts
<1>5. count_' # 0 => UNCHANGED vars
  BY Zenon DEF Pass
<1>6. /\ UNCHANGED waiting
      /\ \A u \in Threads : u # t => pc'[u] = pc[u]
      /\ pc'[t] \in {"held", "broadcast"}
      /\ pc'[t] = "broadcast" => count_' = 0
  BY <1>1, <1>5, Zenon
     DEF Pass, SetCountLocked, Broadcast, Notify, Goto, IInv, Types, vars, waitvars, lockvars,
         condvars
<1>7. BPlaces'
  <2>1. \A u \in Threads : u # t => pc[u] # "broadcast"
    BY <1>1, Zenon DEF BarrierInv, BPlaces
  <2>2. ASSUME NEW u \in Threads
        PROVE  /\ waiting'[u] => u = Coordinator /\ at'[u] = "unlock"
               /\ pc'[u] # "signal"
               /\ pc'[u] = "broadcast" => Passed' = Passers
    BY <1>1, <1>4, <1>6, <2>1, Zenon DEF BarrierInv, BPlaces
  <2>3. at'[Coordinator] \in {"new", "init", "initialised"} => \A u \in Passers : at'[u] = "start"
    BY <1>1, Zenon DEF BarrierInv, BPlaces
  <2>4. \A u \in Passers : at'[u] \in {"start", "body", "unlock", "done"}
    BY <1>1, Zenon DEF BarrierInv, BPlaces, Passers
  <2>q. QED
    BY <2>2, <2>3, <2>4, ZenonT(40) DEF BPlaces
<1>8. at'[Coordinator] = "unlock" => Passed' = Passers \/ Unnotified'
  BY <1>1, <1>4, <1>5, Zenon DEF BarrierInv, Unnotified, vars, waitvars, condvars
<1>9. LeavesAfterAllPassed'
  BY <1>1, Zenon DEF BarrierInv, LeavesAfterAllPassed
<1>q. QED
  BY <1>1, <1>3, <1>7, <1>8, <1>9, Zenon DEF BarrierInv

\* Increment: nobody is left to pass, or the coordinator starts its wait.
LEMMA BarrierIncrementStep ==
  ASSUME IInv, BarrierInv, NEW t \in Threads, Increment(t)
  PROVE  BarrierInv'
<1> USE CoordinatorAssumption
<1>1. /\ t = Coordinator /\ pc[t] = "held"
      /\ \A u \in Threads : u # t => at'[u] = at[u]
      /\ at[t] = "body" /\ at'[t] = "unlock"
      /\ BTypes' /\ count_' = count_ + Cardinality(Passers)
  BY PassedCount DEF Increment, SetCountLocked, Go, BarrierInv, BTypes, AtValues
<1>2. Passed' = Passed
  BY <1>1, Zenon DEF Passed, Passers
<1>3. BCounts'
  BY <1>1, <1>2, PassedCount DEF BarrierInv, BCounts
<1>4. count_' = 0 => Passed' = Passers
  BY <1>1, <1>2, <1>3, PassedCount DEF BarrierInv, BCounts
<1>5. CASE count_' = 0
  <2>1. /\ UNCHANGED waiting
        /\ \A u \in Threads : u # t => pc'[u] = pc[u]
        /\ pc'[t] \in {"held", "broadcast"}
    BY <1>1, <1>5, Zenon
       DEF Increment, SetCountLocked, Broadcast, Notify, Goto, IInv, Types, waitvars, lockvars,
           condvars
  <2>2. BPlaces'
    BY <1>1, <1>2, <1>4, <1>5, <2>1, Zenon DEF BarrierInv, BPlaces, Passers
  <2>q. QED
    BY <1>1, <1>3, <1>4, <1>5, <2>2, Zenon DEF BarrierInv, LeavesAfterAllPassed
<1>6. CASE count_' # 0
  <2>1. /\ \A u \in Threads : u # t => waiting'[u] = waiting[u] /\ pc'[u] = pc[u]
        /\ pc'[t] = "release" /\ waiting'[t]
        /\ cur_sequence'[t] = sequence_' /\ sequence_' = sequence_
    BY <1>1, <1>6, Zenon DEF Increment, Wait, Goto, IInv, Types
  <2>2. BPlaces'
    BY <1>1, <1>2, <2>1, ZenonT(40) DEF BarrierInv, BPlaces, Passers
  <2>3. Unnotified'
    BY <1>1, <2>1, Zenon DEF Unnotified
  <2>4. LeavesAfterAllPassed'
    BY <1>1, Zenon DEF LeavesAfterAllPassed
  <2>q. QED
    BY <1>1, <1>3, <2>2, <2>3, <2>4, ZenonT(40) DEF BarrierInv
<1>q. QED
  BY <1>5, <1>6, Zenon

\* The invariant of the mutex, and what the barrier adds to it.
THEOREM BarrierInvariance ==
  Coordinator \notin Interruptible => (BSpec => [](IInv /\ BarrierInv))
<1> SUFFICES ASSUME Coordinator \notin Interruptible PROVE BSpec => [](IInv /\ BarrierInv)
  OBVIOUS
<1>1. BInit => IInv /\ BarrierInv
  <2> SUFFICES ASSUME BInit PROVE IInv /\ BarrierInv
    OBVIOUS
  <2>1. IInv
    BY InitIInv, Zenon DEF BInit
  <2>2. Passed = {} /\ Cardinality(Passed) = 0
    BY CountOne, CoordinatorAssumption, Zenon DEF BInit, Passed, Passers
  <2>3. BTypes /\ BPlaces
    BY CoordinatorAssumption DEF BInit, Init, BTypes, BPlaces, AtValues, Passers
  <2>4. BCounts /\ LeavesAfterAllPassed /\ at[Coordinator] # "unlock"
    BY <2>2, CoordinatorAssumption DEF BInit, BCounts, LeavesAfterAllPassed
  <2>q. QED
    BY <2>1, <2>3, <2>4, Zenon DEF BarrierInv
<1>2. IInv /\ BarrierInv /\ [BNext]_bvars => (IInv /\ BarrierInv)'
  <2> SUFFICES ASSUME IInv, BarrierInv, [BNext]_bvars PROVE IInv' /\ BarrierInv'
    BY Zenon
  <2>1. [Next]_vars
    BY BarrierStepOnMutex, Zenon DEF bvars
  <2>2. IInv'
    BY <2>1, NextIInv, Zenon
  <2>3. ASSUME UNCHANGED bvars PROVE BarrierInv'
    <3>1. /\ count_' = count_ /\ at' = at /\ pc' = pc /\ waiting' = waiting /\ condq' = condq
          /\ sequence_' = sequence_ /\ cur_sequence' = cur_sequence
      BY <2>3, Zenon DEF bvars, vars, lockvars, condvars, waitvars
    <3>2. Passed' = Passed
      BY <3>1, Zenon DEF Passed
    <3>3. BTypes' /\ BPlaces' /\ BCounts'
      BY <3>1, <3>2, Zenon DEF BarrierInv, BTypes, BPlaces, BCounts
    <3>4. LeavesAfterAllPassed' /\ (Unnotified => Unnotified')
      BY <3>1, <3>2, Zenon DEF BarrierInv, LeavesAfterAllPassed, Unnotified
    <3>q. QED
      BY <3>1, <3>2, <3>3, <3>4, Zenon DEF BarrierInv
  <2>4. ASSUME NEW t \in Threads, BCall(t) PROVE BarrierInv'
    BY <2>4, BarrierQuietStep, BarrierInitCountStep, BarrierPassStep, BarrierIncrementStep,
       Zenon
       DEF BCall
  <2>q. QED
    BY <2>2, <2>3, <2>4, BarrierMutexStep, Zenon DEF BNext
<1>q. QED
  BY <1>1, <1>2, PTL DEF BSpec

\* barrier.cc:51-54.  Whatever the number of passers and however their passes,
\* the announcement and the futex calls interleave, the coordinator leaves the
\* barrier after all of them, provided its own FUTEX_WAIT is not interrupted:
\* Increment does not wait in a loop.
THEOREM LeavesAfterAllPassedHolds ==
  Coordinator \notin Interruptible => (BSpec => []LeavesAfterAllPassed)
<1>1. BarrierInv => LeavesAfterAllPassed
  BY Zenon DEF BarrierInv
<1>q. QED
  BY <1>1, BarrierInvariance, PTL
=============================================================================
