----------------------- MODULE ReaderWriterMutex_proofs ---------------------
(***************************************************************************)
(* Proofs, for any number of threads, that the futex reader-writer lock    *)
(* keeps its invariants, loses no wake-up and implements RWLock.           *)
(*                                                                         *)
(* The inductive invariant is Types /\ Positions /\ StateCountsHolders /\ *)
(* Owner /\ PendingCounted /\ Promised.  Promised names, for each sleeper, *)
(* the unlock that will wake it: NoStrandedSleeper alone is not inductive, *)
(* since it lets an unlock promise a wake-up on the strength of another    *)
(* thread's pending count.                                                 *)
(***************************************************************************)
EXTENDS ReaderWriterMutex, FiniteSetTheorems, TLAPS

\* TypeOK without what needs the counting invariants.
Types ==
  /\ state_ \in Int
  /\ exclusive_owner_ \in Threads \cup {NoThread}
  /\ num_pending_readers_ \in Int /\ num_pending_writers_ \in Int
  /\ sleepers \subseteq Threads
  /\ pc \in [Threads -> PcValues]
  /\ op \in [Threads -> Operations \cup {"none"}]
  /\ cur_state \in [Threads -> Int]
  /\ aborted \in BOOLEAN

Writing == {"exclusive", "timed"}

\* The operation a thread is in at each place, and what it has seen of
\* state_ before it waits.
Positions ==
  \A t \in Threads :
    /\ pc[t] = "idle" <=> op[t] = "none"
    /\ pc[t] \in {"own", "release", "giveup"} => op[t] \in Writing
    /\ pc[t] \in {"pend", "wait"} =>
         IF op[t] = "shared" THEN cur_state[t] < 0 ELSE cur_state[t] # 0

Owner ==
  \A t \in Threads : exclusive_owner_ = t <=> pc[t] = "held" /\ op[t] \in Writing

\* u has given the lock up and will see that s is pending.
WillSee(u, s) ==
  \/ pc[u] \in {"check1", "wake"}
  \/ pc[u] = "check2" /\ (op[u] = "shared" <=> op[s] = "shared")

Promised ==
  \A s \in sleepers :
    /\ pc[s] = "asleep"
    /\ \/ state_ = -1
       \/ op[s] # "shared" /\ state_ > 0
       \/ \E u \in Threads : WillSee(u, s)
-----------------------------------------------------------------------------
\* Finite sets of threads, and one more or one less member.
LEMMA CountOne ==
  ASSUME NEW S \in SUBSET Threads, NEW x \in Threads
  PROVE  /\ Cardinality(S) \in Nat
         /\ Cardinality(S) = 0 <=> S = {}
         /\ x \notin S => Cardinality(S \cup {x}) = Cardinality(S) + 1
         /\ x \in S => Cardinality(S \ {x}) = Cardinality(S) - 1
<1>1. IsFiniteSet(S)
  BY ThreadsAssumption, FS_Subset
<1>q. QED
  BY <1>1, FS_CardinalityType, FS_EmptySet, FS_AddElement, FS_RemoveElement

\* Every step keeps the variables' types.
LEMMA TypeStep == Types /\ [Next]_vars => Types'
<1>1. ASSUME Types, UNCHANGED vars PROVE Types'
  BY <1>1 DEF vars, counters, Types
<1>2. ASSUME Types, NEW t \in Threads, Call(t) \/ Step(t) \/ Kernel(t)
      PROVE  Types'
  <2>1. CASE \E o \in Operations : Begin(t, o)
    BY <1>2, <2>1 DEF Begin, Goto, Types, PcValues, Operations, counters
  <2>2. CASE SharedTryLock(t)
    BY <1>2, <2>2 DEF SharedTryLock, Goto, Types, PcValues, Operations, counters
  <2>3. CASE AcquireShared(t)
    BY <1>2, <2>3 DEF AcquireShared, Goto, Types, PcValues, Operations, counters
  <2>4. CASE AcquireExclusive(t)
    BY <1>2, <2>4 DEF AcquireExclusive, Goto, Types, PcValues, Operations, counters
  <2>5. CASE SetOwner(t)
    BY <1>2, <2>5 DEF SetOwner, Goto, Types, PcValues, Operations, counters
  <2>6. CASE Blocked(t)
    BY <1>2, <2>6 DEF Blocked, Goto, Types, PcValues, Operations, counters
  <2>7. CASE DeadlinePassed(t)
    BY <1>2, <2>7 DEF DeadlinePassed, Return, Goto, Types, PcValues, Operations, counters
  <2>8. CASE Pend(t)
    BY <1>2, <2>8 DEF Pend, Goto, AddPending, Types, PcValues, Operations, counters
  <2>9. CASE FutexWait(t)
    BY <1>2, <2>9 DEF FutexWait, Goto, Types, PcValues, Operations, counters
  <2>10. CASE Woken(t)
    BY <1>2, <2>10 DEF Woken, Goto, Types, PcValues, Operations, counters
  <2>11. CASE Unpend(t)
    BY <1>2, <2>11 DEF Unpend, Goto, AddPending, Types, PcValues, Operations, counters
  <2>12. CASE GiveUp(t)
    BY <1>2, <2>12
    DEF GiveUp, Return, Goto, AddPending, Types, PcValues, Operations, counters
  <2>13. CASE ReleaseShared(t)
    BY <1>2, <2>13 DEF ReleaseShared, Return, Goto, Types, PcValues, Operations, counters
  <2>14. CASE ClearOwner(t)
    BY <1>2, <2>14 DEF ClearOwner, Goto, Types, PcValues, Operations, counters
  <2>15. CASE ReleaseExclusive(t)
    BY <1>2, <2>15 DEF ReleaseExclusive, Goto, Types, PcValues, Operations, counters
  <2>16. CASE CheckFirst(t)
    BY <1>2, <2>16 DEF CheckFirst, Goto, FirstCounter, Types, PcValues, Operations, counters
  <2>17. CASE CheckSecond(t)
    BY <1>2, <2>17
    DEF CheckSecond, Return, Goto, SecondCounter, Types, PcValues, Operations, counters
  <2>18. CASE FutexWake(t)
    BY <1>2, <2>18 DEF FutexWake, Return, Goto, Types, PcValues, Operations, counters
  <2>19. CASE Interrupted(t)
    BY <1>2, <2>19 DEF Interrupted, Goto, Types, PcValues, Operations, counters
  <2>20. CASE TimedOut(t)
    BY <1>2, <2>20 DEF TimedOut, Goto, Types, PcValues, Operations, counters
  <2>q. QED
    BY <1>2, <2>1, <2>2, <2>3, <2>4, <2>5, <2>6, <2>7, <2>8, <2>9, <2>10, <2>11, <2>12, <2>13,
       <2>14, <2>15, <2>16, <2>17, <2>18, <2>19, <2>20
    DEF Call, Step, Kernel
<1>q. QED
  BY <1>1, <1>2 DEF Next

\* Every step keeps operations and places in step.
LEMMA PositionsStep == Types /\ Positions /\ [Next]_vars => Positions'
<1>1. ASSUME Types, Positions, UNCHANGED vars PROVE Positions'
  BY <1>1 DEF vars, counters, Positions
<1>2. ASSUME Types, Positions, NEW t \in Threads, Call(t) \/ Step(t) \/ Kernel(t)
      PROVE  Positions'
  <2>1. CASE \E o \in Operations : Begin(t, o)
    BY <1>2, <2>1 DEF Begin, Goto, Types, Operations, Positions, Writing, counters
  <2>2. CASE SharedTryLock(t)
    BY <1>2, <2>2 DEF SharedTryLock, Goto, Types, Operations, Positions, Writing, counters
  <2>3. CASE AcquireShared(t)
    BY <1>2, <2>3 DEF AcquireShared, Goto, Types, Operations, Positions, Writing, counters
  <2>4. CASE AcquireExclusive(t)
    BY <1>2, <2>4 DEF AcquireExclusive, Goto, Types, Operations, Positions, Writing, counters
  <2>5. CASE SetOwner(t)
    BY <1>2, <2>5 DEF SetOwner, Goto, Types, Operations, Positions, Writing, counters
  <2>6. CASE Blocked(t)
    BY <1>2, <2>6 DEF Blocked, Goto, Types, Operations, Positions, Writing, counters
  <2>7. CASE DeadlinePassed(t)
    BY <1>2, <2>7
    DEF DeadlinePassed, Return, Goto, Types, Operations, Positions, Writing, counters
  <2>8. CASE Pend(t)
    BY <1>2, <2>8 DEF Pend, Goto, AddPending, Types, Operations, Positions, Writing, counters
  <2>9. CASE FutexWait(t)
    BY <1>2, <2>9 DEF FutexWait, Goto, Types, Operations, Positions, Writing, counters
  <2>10. CASE Woken(t)
    BY <1>2, <2>10 DEF Woken, Goto, Types, Operations, Positions, Writing, counters
  <2>11. CASE Unpend(t)
    BY <1>2, <2>11
    DEF Unpend, Goto, AddPending, Types, Operations, Positions, Writing, counters
  <2>12. CASE GiveUp(t)
    BY <1>2, <2>12
    DEF GiveUp, Return, Goto, AddPending, Types, Operations, Positions, Writing, counters
  <2>13. CASE ReleaseShared(t)
    BY <1>2, <2>13
    DEF ReleaseShared, Return, Goto, Types, Operations, Positions, Writing, counters
  <2>14. CASE ClearOwner(t)
    BY <1>2, <2>14 DEF ClearOwner, Goto, Types, Operations, Positions, Writing, counters
  <2>15. CASE ReleaseExclusive(t)
    BY <1>2, <2>15
    DEF ReleaseExclusive, Goto, Types, Operations, Positions, Writing, counters
  <2>16. CASE CheckFirst(t)
    BY <1>2, <2>16
    DEF CheckFirst, Goto, FirstCounter, Types, Operations, Positions, Writing, counters
  <2>17. CASE CheckSecond(t)
    BY <1>2, <2>17
    DEF CheckSecond, Return, Goto, SecondCounter, Types, Operations, Positions, Writing,
        counters
  <2>18. CASE FutexWake(t)
    BY <1>2, <2>18
    DEF FutexWake, Return, Goto, Types, Operations, Positions, Writing, counters
  <2>19. CASE Interrupted(t)
    BY <1>2, <2>19 DEF Interrupted, Goto, Types, Operations, Positions, Writing, counters
  <2>20. CASE TimedOut(t)
    BY <1>2, <2>20 DEF TimedOut, Goto, Types, Operations, Positions, Writing, counters
  <2>q. QED
    BY <1>2, <2>1, <2>2, <2>3, <2>4, <2>5, <2>6, <2>7, <2>8, <2>9, <2>10, <2>11, <2>12, <2>13,
       <2>14, <2>15, <2>16, <2>17, <2>18, <2>19, <2>20
    DEF Call, Step, Kernel
<1>q. QED
  BY <1>1, <1>2 DEF Next

\* Every step keeps state_ equal to what the holders make of it.
LEMMA StateStep == Types /\ Positions /\ StateCountsHolders /\ [Next]_vars => StateCountsHolders'
<1>1. ASSUME Types, Positions, StateCountsHolders, UNCHANGED vars PROVE StateCountsHolders'
  BY <1>1 DEF vars, counters, StateCountsHolders, SharedHolders, ExclusiveHolders
<1>2. ASSUME Types, Positions, StateCountsHolders, NEW t \in Threads,
             Call(t) \/ Step(t) \/ Kernel(t)
      PROVE  StateCountsHolders'
  <2>1. CASE (\E o \in Operations : Begin(t, o)) \/ SetOwner(t) \/ Blocked(t) \/
             DeadlinePassed(t) \/ Pend(t) \/ FutexWait(t) \/ Woken(t)
    <3>1. UNCHANGED <<state_, SharedHolders, ExclusiveHolders>>
      BY <1>2, <2>1
      DEF Begin, Goto, SetOwner, Blocked, DeadlinePassed, Return, Pend, AddPending, FutexWait,
          Woken, SharedHolders, ExclusiveHolders, Types, Positions, Writing, Operations,
          counters
    <3>q. QED
      BY <1>2, <3>1 DEF StateCountsHolders
  <2>2. CASE Unpend(t) \/ GiveUp(t) \/ ClearOwner(t) \/ CheckFirst(t) \/ CheckSecond(t) \/
             FutexWake(t) \/ Interrupted(t) \/ TimedOut(t)
    <3>1. UNCHANGED <<state_, SharedHolders, ExclusiveHolders>>
      BY <1>2, <2>2
      DEF Unpend, Goto, AddPending, GiveUp, Return, ClearOwner, CheckFirst, FirstCounter,
          CheckSecond, SecondCounter, FutexWake, Interrupted, TimedOut, SharedHolders,
          ExclusiveHolders, Types, Positions, Writing, Operations, counters
    <3>q. QED
      BY <1>2, <3>1 DEF StateCountsHolders
  <2>3. CASE AcquireShared(t)
    <3>1. state_ >= 0 /\ state_' = state_ + 1
      BY <2>3 DEF AcquireShared
    <3>2. /\ t \notin SharedHolders /\ SharedHolders' = SharedHolders \cup {t}
          /\ UNCHANGED ExclusiveHolders
      BY <1>2, <2>3
      DEF AcquireShared, Goto, SharedHolders, ExclusiveHolders, Types, Positions, Writing,
          Operations
    <3>3. Cardinality(SharedHolders') = Cardinality(SharedHolders) + 1
      BY <3>2, CountOne DEF SharedHolders
    <3>q. QED
      BY <1>2, <3>1, <3>2, <3>3 DEF StateCountsHolders
  <2>4. CASE SharedTryLock(t)
    <3>1. state_ >= 0 /\ state_' = state_ + 1
      BY <2>4 DEF SharedTryLock
    <3>2. /\ t \notin SharedHolders /\ SharedHolders' = SharedHolders \cup {t}
          /\ UNCHANGED ExclusiveHolders
      BY <1>2, <2>4
      DEF SharedTryLock, Goto, SharedHolders, ExclusiveHolders, Types, Positions, Writing,
          Operations
    <3>3. Cardinality(SharedHolders') = Cardinality(SharedHolders) + 1
      BY <3>2, CountOne DEF SharedHolders
    <3>q. QED
      BY <1>2, <3>1, <3>2, <3>3 DEF StateCountsHolders
  <2>5. CASE AcquireExclusive(t)
    <3>1. state_ = 0 /\ state_' = -1
      BY <2>5 DEF AcquireExclusive
    <3>2. UNCHANGED SharedHolders /\ ExclusiveHolders' = ExclusiveHolders \cup {t}
      BY <1>2, <2>5
      DEF AcquireExclusive, Goto, SharedHolders, ExclusiveHolders, Types, Positions, Writing,
          Operations
    <3>3. SharedHolders = {} /\ ExclusiveHolders = {}
      <4>1. SharedHolders \in SUBSET Threads
        BY DEF SharedHolders
      <4>2. Cardinality(SharedHolders) = 0 <=> SharedHolders = {}
        BY <4>1, CountOne
      <4>q. QED
        BY <1>2, <3>1, <4>2 DEF StateCountsHolders
    <3>q. QED
      BY <3>1, <3>2, <3>3 DEF StateCountsHolders
  <2>6. CASE ReleaseShared(t)
    <3>1. state_ > 0 /\ state_' = state_ - 1
      BY <2>6 DEF ReleaseShared
    <3>2. t \in SharedHolders /\ SharedHolders' = SharedHolders \ {t} /\ UNCHANGED ExclusiveHolders
      BY <1>2, <2>6
      DEF ReleaseShared, Return, Goto, SharedHolders, ExclusiveHolders, Types, Positions,
          Writing, Operations
    <3>3. Cardinality(SharedHolders') = Cardinality(SharedHolders) - 1
      BY <3>2, CountOne DEF SharedHolders
    <3>q. QED
      BY <1>2, <3>1, <3>2, <3>3 DEF StateCountsHolders
  <2>7. CASE ReleaseExclusive(t)
    <3>1. state_ = -1 /\ state_' = 0
      BY <2>7 DEF ReleaseExclusive
    <3>2. /\ UNCHANGED SharedHolders
          /\ t \in ExclusiveHolders /\ ExclusiveHolders' = ExclusiveHolders \ {t}
      BY <1>2, <2>7
      DEF ReleaseExclusive, Goto, SharedHolders, ExclusiveHolders, Types, Positions, Writing,
          Operations
    <3>3. Cardinality(SharedHolders) # -1
      <4>1. SharedHolders \in SUBSET Threads
        BY DEF SharedHolders
      <4>2. Cardinality(SharedHolders) \in Nat
        BY <4>1, CountOne
      <4>q. QED
        BY <4>2
    <3>4. SharedHolders = {} /\ ExclusiveHolders = {t}
      BY <1>2, <3>1, <3>2, <3>3 DEF StateCountsHolders
    <3>q. QED
      BY <3>1, <3>2, <3>4, FS_EmptySet DEF StateCountsHolders
  <2>q. QED
    BY <1>2, <2>1, <2>2, <2>3, <2>4, <2>5, <2>6, <2>7 DEF Call, Step, Kernel
<1>q. QED
  BY <1>1, <1>2 DEF Next

\* Every step keeps exclusive_owner_ naming the writer in its critical section.
LEMMA OwnerStep == Types /\ Positions /\ StateCountsHolders /\ Owner /\ [Next]_vars => Owner'
<1>1. ASSUME Types, Positions, StateCountsHolders, Owner, UNCHANGED vars PROVE Owner'
  BY <1>1 DEF vars, counters, Owner
<1>2. ASSUME Types, Positions, StateCountsHolders, Owner, NEW t \in Threads,
             Call(t) \/ Step(t) \/ Kernel(t)
      PROVE  Owner'
  <2>1. CASE \E o \in Operations : Begin(t, o)
    BY <1>2, <2>1 DEF Begin, Goto, Owner, Types, Positions, Writing, Operations, counters
  <2>2. CASE SharedTryLock(t)
    BY <1>2, <2>2
    DEF SharedTryLock, Goto, Owner, Types, Positions, Writing, Operations, counters
  <2>3. CASE AcquireShared(t)
    BY <1>2, <2>3
    DEF AcquireShared, Goto, Owner, Types, Positions, Writing, Operations, counters
  <2>4. CASE AcquireExclusive(t)
    BY <1>2, <2>4
    DEF AcquireExclusive, Goto, Owner, Types, Positions, Writing, Operations, counters
  <2>5. CASE SetOwner(t)
    <3>1. t \in ExclusiveHolders
      BY <1>2, <2>5
      DEF SetOwner, Goto, ExclusiveHolders, Types, Positions, Writing, Operations
    <3>2. \A u \in Threads \ {t} : ~(pc[u] = "held" /\ op[u] \in Writing)
      BY <1>2, <3>1 DEF StateCountsHolders, ExclusiveHolders, Writing
    <3>q. QED
      BY <1>2, <2>5, <3>2, ThreadsAssumption
      DEF SetOwner, Goto, Owner, Types, Positions, Writing, Operations
  <2>6. CASE Blocked(t)
    BY <1>2, <2>6 DEF Blocked, Goto, Owner, Types, Positions, Writing, Operations, counters
  <2>7. CASE DeadlinePassed(t)
    BY <1>2, <2>7
    DEF DeadlinePassed, Return, Goto, Owner, Types, Positions, Writing, Operations, counters
  <2>8. CASE Pend(t)
    BY <1>2, <2>8
    DEF Pend, Goto, AddPending, Owner, Types, Positions, Writing, Operations, counters
  <2>9. CASE FutexWait(t)
    BY <1>2, <2>9 DEF FutexWait, Goto, Owner, Types, Positions, Writing, Operations, counters
  <2>10. CASE Woken(t)
    BY <1>2, <2>10 DEF Woken, Goto, Owner, Types, Positions, Writing, Operations, counters
  <2>11. CASE Unpend(t)
    BY <1>2, <2>11
    DEF Unpend, Goto, AddPending, Owner, Types, Positions, Writing, Operations, counters
  <2>12. CASE GiveUp(t)
    BY <1>2, <2>12
    DEF GiveUp, Return, Goto, AddPending, Owner, Types, Positions, Writing, Operations,
        counters
  <2>13. CASE ReleaseShared(t)
    BY <1>2, <2>13
    DEF ReleaseShared, Return, Goto, Owner, Types, Positions, Writing, Operations, counters
  <2>14. CASE ClearOwner(t)
    <3>1. t \in ExclusiveHolders
      BY <1>2, <2>14
      DEF ClearOwner, Goto, ExclusiveHolders, Types, Positions, Writing, Operations
    <3>2. \A u \in Threads \ {t} : ~(pc[u] = "held" /\ op[u] \in Writing)
      BY <1>2, <3>1 DEF StateCountsHolders, ExclusiveHolders, Writing
    <3>q. QED
      BY <1>2, <2>14, <3>2, ThreadsAssumption
      DEF ClearOwner, Goto, Owner, Types, Positions, Writing, Operations
  <2>15. CASE ReleaseExclusive(t)
    BY <1>2, <2>15
    DEF ReleaseExclusive, Goto, Owner, Types, Positions, Writing, Operations, counters
  <2>16. CASE CheckFirst(t)
    BY <1>2, <2>16
    DEF CheckFirst, Goto, FirstCounter, Owner, Types, Positions, Writing, Operations,
        counters
  <2>17. CASE CheckSecond(t)
    BY <1>2, <2>17
    DEF CheckSecond, Return, Goto, SecondCounter, Owner, Types, Positions, Writing,
        Operations, counters
  <2>18. CASE FutexWake(t)
    BY <1>2, <2>18
    DEF FutexWake, Return, Goto, Owner, Types, Positions, Writing, Operations, counters
  <2>19. CASE Interrupted(t)
    BY <1>2, <2>19
    DEF Interrupted, Goto, Owner, Types, Positions, Writing, Operations, counters
  <2>20. CASE TimedOut(t)
    BY <1>2, <2>20 DEF TimedOut, Goto, Owner, Types, Positions, Writing, Operations, counters
  <2>q. QED
    BY <1>2, <2>1, <2>2, <2>3, <2>4, <2>5, <2>6, <2>7, <2>8, <2>9, <2>10, <2>11, <2>12, <2>13,
       <2>14, <2>15, <2>16, <2>17, <2>18, <2>19, <2>20
    DEF Call, Step, Kernel
<1>q. QED
  BY <1>1, <1>2 DEF Next

-----------------------------------------------------------------------------
Readers == PendingIn({"shared"})
Writers == PendingIn({"exclusive", "timed"})

\* Every step keeps the pending counters equal to the threads that announced
\* themselves.
LEMMA PendingStep == Types /\ Positions /\ PendingCounted /\ [Next]_vars => PendingCounted'
<1>1. ASSUME Types, Positions, PendingCounted, UNCHANGED vars PROVE PendingCounted'
  BY <1>1 DEF vars, counters, PendingCounted, PendingIn
<1>2. ASSUME Types, Positions, PendingCounted, NEW t \in Threads, Call(t) \/ Step(t) \/ Kernel(t)
      PROVE  PendingCounted'
  <2>1. CASE (\E o \in Operations : Begin(t, o)) \/ SharedTryLock(t) \/ AcquireShared(t) \/
             AcquireExclusive(t) \/ SetOwner(t) \/ Blocked(t) \/ DeadlinePassed(t)
    <3>1. UNCHANGED <<counters, Readers, Writers>>
      BY <1>2, <2>1
      DEF Begin, Goto, SharedTryLock, AcquireShared, AcquireExclusive, SetOwner, Blocked,
          DeadlinePassed, Return, Readers, Writers, PendingIn, Types, Positions, Writing,
          Operations, counters
    <3>q. QED
      BY <1>2, <3>1 DEF PendingCounted, Readers, Writers, counters
  <2>2. CASE FutexWait(t) \/ Woken(t) \/ ReleaseShared(t) \/ ClearOwner(t) \/
             ReleaseExclusive(t)
    <3>1. UNCHANGED <<counters, Readers, Writers>>
      BY <1>2, <2>2
      DEF FutexWait, Goto, Woken, ReleaseShared, Return, ClearOwner, ReleaseExclusive,
          Readers, Writers, PendingIn, Types, Positions, Writing, Operations, counters
    <3>q. QED
      BY <1>2, <3>1 DEF PendingCounted, Readers, Writers, counters
  <2>3. CASE CheckFirst(t) \/ CheckSecond(t) \/ FutexWake(t) \/ Interrupted(t) \/ TimedOut(t)
    <3>1. UNCHANGED <<counters, Readers, Writers>>
      BY <1>2, <2>3
      DEF CheckFirst, Goto, FirstCounter, CheckSecond, Return, SecondCounter, FutexWake,
          Interrupted, TimedOut, Readers, Writers, PendingIn, Types, Positions, Writing,
          Operations, counters
    <3>q. QED
      BY <1>2, <3>1 DEF PendingCounted, Readers, Writers, counters
  <2>4. CASE Pend(t)
    <3>1. CASE op[t] = "shared"
      <4>1. t \notin Readers /\ Readers' = Readers \cup {t} /\ UNCHANGED Writers
        BY <1>2, <2>4, <3>1
        DEF Pend, Goto, AddPending, Readers, Writers, PendingIn, Types, Positions, Writing,
            Operations
      <4>2. num_pending_readers_' = num_pending_readers_ + 1 /\ UNCHANGED num_pending_writers_
        BY <2>4, <3>1 DEF Pend, AddPending
      <4>3. Readers \in SUBSET Threads
        BY DEF Readers, PendingIn
      <4>4. Cardinality(Readers') = Cardinality(Readers) + 1
        BY <4>1, <4>3, CountOne
      <4>q. QED
        BY <1>2, <4>1, <4>2, <4>4 DEF PendingCounted, Readers, Writers
    <3>2. CASE op[t] # "shared"
      <4>1. t \notin Writers /\ Writers' = Writers \cup {t} /\ UNCHANGED Readers
        BY <1>2, <2>4, <3>2
        DEF Pend, Goto, AddPending, Readers, Writers, PendingIn, Types, Positions, Writing,
            Operations
      <4>2. num_pending_writers_' = num_pending_writers_ + 1 /\ UNCHANGED num_pending_readers_
        BY <2>4, <3>2 DEF Pend, AddPending
      <4>3. Writers \in SUBSET Threads
        BY DEF Writers, PendingIn
      <4>4. Cardinality(Writers') = Cardinality(Writers) + 1
        BY <4>1, <4>3, CountOne
      <4>q. QED
        BY <1>2, <4>1, <4>2, <4>4 DEF PendingCounted, Readers, Writers
    <3>q. QED
      BY <3>1, <3>2
  <2>5. CASE Unpend(t)
    <3>1. CASE op[t] = "shared"
      <4>1. t \in Readers /\ Readers' = Readers \ {t} /\ UNCHANGED Writers
        BY <1>2, <2>5, <3>1
        DEF Unpend, Goto, AddPending, Readers, Writers, PendingIn, Types, Positions, Writing,
            Operations
      <4>2. num_pending_readers_' = num_pending_readers_ - 1 /\ UNCHANGED num_pending_writers_
        BY <2>5, <3>1 DEF Unpend, AddPending
      <4>3. Readers \in SUBSET Threads
        BY DEF Readers, PendingIn
      <4>4. Cardinality(Readers') = Cardinality(Readers) - 1
        BY <4>1, <4>3, CountOne
      <4>q. QED
        BY <1>2, <4>1, <4>2, <4>4 DEF PendingCounted, Readers, Writers
    <3>2. CASE op[t] # "shared"
      <4>1. t \in Writers /\ Writers' = Writers \ {t} /\ UNCHANGED Readers
        BY <1>2, <2>5, <3>2
        DEF Unpend, Goto, AddPending, Readers, Writers, PendingIn, Types, Positions, Writing,
            Operations
      <4>2. num_pending_writers_' = num_pending_writers_ - 1 /\ UNCHANGED num_pending_readers_
        BY <2>5, <3>2 DEF Unpend, AddPending
      <4>3. Writers \in SUBSET Threads
        BY DEF Writers, PendingIn
      <4>4. Cardinality(Writers') = Cardinality(Writers) - 1
        BY <4>1, <4>3, CountOne
      <4>q. QED
        BY <1>2, <4>1, <4>2, <4>4 DEF PendingCounted, Readers, Writers
    <3>q. QED
      BY <3>1, <3>2
  <2>6. CASE GiveUp(t)
    <3>1. CASE op[t] = "shared"
      <4>1. t \in Readers /\ Readers' = Readers \ {t} /\ UNCHANGED Writers
        BY <1>2, <2>6, <3>1
        DEF GiveUp, Return, Goto, AddPending, Readers, Writers, PendingIn, Types, Positions,
            Writing, Operations
      <4>2. num_pending_readers_' = num_pending_readers_ - 1 /\ UNCHANGED num_pending_writers_
        BY <2>6, <3>1 DEF GiveUp, AddPending
      <4>3. Readers \in SUBSET Threads
        BY DEF Readers, PendingIn
      <4>4. Cardinality(Readers') = Cardinality(Readers) - 1
        BY <4>1, <4>3, CountOne
      <4>q. QED
        BY <1>2, <4>1, <4>2, <4>4 DEF PendingCounted, Readers, Writers
    <3>2. CASE op[t] # "shared"
      <4>1. t \in Writers /\ Writers' = Writers \ {t} /\ UNCHANGED Readers
        BY <1>2, <2>6, <3>2
        DEF GiveUp, Return, Goto, AddPending, Readers, Writers, PendingIn, Types, Positions,
            Writing, Operations
      <4>2. num_pending_writers_' = num_pending_writers_ - 1 /\ UNCHANGED num_pending_readers_
        BY <2>6, <3>2 DEF GiveUp, AddPending
      <4>3. Writers \in SUBSET Threads
        BY DEF Writers, PendingIn
      <4>4. Cardinality(Writers') = Cardinality(Writers) - 1
        BY <4>1, <4>3, CountOne
      <4>q. QED
        BY <1>2, <4>1, <4>2, <4>4 DEF PendingCounted, Readers, Writers
    <3>q. QED
      BY <3>1, <3>2
  <2>q. QED
    BY <1>2, <2>1, <2>2, <2>3, <2>4, <2>5, <2>6 DEF Call, Step, Kernel
<1>q. QED
  BY <1>1, <1>2 DEF Next

\* A sleeper is pending, so the counter of its kind is not zero.
LEMMA SleeperIsPending ==
  ASSUME Types, Positions, PendingCounted, NEW s \in Threads, pc[s] = "asleep"
  PROVE  /\ op[s] = "shared" => num_pending_readers_ > 0
         /\ op[s] # "shared" => num_pending_writers_ > 0
         /\ num_pending_readers_ \in Nat /\ num_pending_writers_ \in Nat
<1>1. Readers \in SUBSET Threads /\ Writers \in SUBSET Threads
  BY DEF Readers, Writers, PendingIn
<1>2. op[s] = "shared" => s \in Readers
  BY DEF Readers, PendingIn
<1>3. op[s] # "shared" => s \in Writers
  BY DEF Writers, PendingIn, Types, Positions, Operations
<1>4. num_pending_readers_ = Cardinality(Readers) /\ num_pending_writers_ = Cardinality(Writers)
  BY DEF PendingCounted, Readers, Writers
<1>5. /\ Cardinality(Readers) \in Nat /\ (Cardinality(Readers) = 0 <=> Readers = {})
      /\ Cardinality(Writers) \in Nat /\ (Cardinality(Writers) = 0 <=> Writers = {})
  BY <1>1, CountOne
<1>q. QED
  BY <1>2, <1>3, <1>4, <1>5

\* Every step keeps, for each sleeper, a holder to wait for or an unlock that
\* will see it.
LEMMA PromisedStep ==
  Types /\ Positions /\ StateCountsHolders /\ PendingCounted /\ Promised /\ [Next]_vars =>
    Promised'
<1>1. ASSUME Types, Positions, StateCountsHolders, PendingCounted, Promised, UNCHANGED vars
      PROVE  Promised'
  BY <1>1 DEF vars, counters, Promised, WillSee
<1>2. ASSUME Types, Positions, StateCountsHolders, PendingCounted, Promised,
             NEW t \in Threads, Call(t) \/ Step(t) \/ Kernel(t)
      PROVE  Promised'
  <2>1. CASE \E o \in Operations : Begin(t, o)
    BY <1>2, <2>1
    DEF Begin, Goto, Promised, WillSee, Types, Positions, Operations, Writing, counters
  <2>2. CASE SharedTryLock(t)
    BY <1>2, <2>2
    DEF SharedTryLock, Goto, Promised, WillSee, Types, Positions, Operations, Writing,
        counters
  <2>3. CASE AcquireShared(t)
    BY <1>2, <2>3
    DEF AcquireShared, Goto, Promised, WillSee, Types, Positions, Operations, Writing,
        counters
  <2>4. CASE AcquireExclusive(t)
    BY <1>2, <2>4
    DEF AcquireExclusive, Goto, Promised, WillSee, Types, Positions, Operations, Writing,
        counters
  <2>5. CASE SetOwner(t)
    BY <1>2, <2>5
    DEF SetOwner, Goto, Promised, WillSee, Types, Positions, Operations, Writing, counters
  <2>6. CASE Blocked(t)
    BY <1>2, <2>6
    DEF Blocked, Goto, Promised, WillSee, Types, Positions, Operations, Writing, counters
  <2>7. CASE DeadlinePassed(t)
    BY <1>2, <2>7
    DEF DeadlinePassed, Return, Goto, Promised, WillSee, Types, Positions, Operations,
        Writing, counters
  <2>8. CASE Pend(t)
    BY <1>2, <2>8
    DEF Pend, Goto, AddPending, Promised, WillSee, Types, Positions, Operations, Writing,
        counters
  <2>9. CASE FutexWait(t)
    <3>1. state_ < 0 => state_ = -1
      <4>1. SharedHolders \in SUBSET Threads
        BY DEF SharedHolders
      <4>2. Cardinality(SharedHolders) \in Nat
        BY <4>1, CountOne
      <4>q. QED
        BY <1>2, <4>2 DEF StateCountsHolders
    <3>q. QED
      BY <1>2, <2>9, <3>1 DEF FutexWait, Goto, Promised, WillSee, Types, Positions
  <2>10. CASE Woken(t)
    BY <1>2, <2>10
    DEF Woken, Goto, Promised, WillSee, Types, Positions, Operations, Writing, counters
  <2>11. CASE Unpend(t)
    BY <1>2, <2>11
    DEF Unpend, Goto, AddPending, Promised, WillSee, Types, Positions, Operations, Writing,
        counters
  <2>12. CASE GiveUp(t)
    BY <1>2, <2>12
    DEF GiveUp, Return, Goto, AddPending, Promised, WillSee, Types, Positions, Operations,
        Writing, counters
  <2>13. CASE ReleaseShared(t)
    BY <1>2, <2>13
    DEF ReleaseShared, Return, Goto, Promised, WillSee, Types, Positions, Operations,
        Writing, counters
  <2>14. CASE ClearOwner(t)
    BY <1>2, <2>14
    DEF ClearOwner, Goto, Promised, WillSee, Types, Positions, Operations, Writing, counters
  <2>15. CASE ReleaseExclusive(t)
    BY <1>2, <2>15
    DEF ReleaseExclusive, Goto, Promised, WillSee, Types, Positions, Operations, Writing,
        counters
  <2>16. CASE CheckFirst(t)
    <3> SUFFICES ASSUME NEW s \in sleepers
                 PROVE  /\ pc'[s] = "asleep"
                        /\ \/ state_ = -1
                           \/ op[s] # "shared" /\ state_ > 0
                           \/ \E u \in Threads : WillSee(u, s)'
      BY <2>16 DEF Promised, CheckFirst, Goto
    <3>1. s \in Threads /\ pc[s] = "asleep" /\ s # t
      BY <1>2, <2>16 DEF Promised, Types, CheckFirst, Goto
    <3>2. CASE FirstCounter(t) > 0
      BY <1>2, <2>16, <3>1, <3>2 DEF Promised, WillSee, CheckFirst, Goto, Types
    <3>3. CASE ~(FirstCounter(t) > 0)
      <4>1. op[t] = "shared" <=> op[s] = "shared"
        BY <1>2, <3>1, <3>3, SleeperIsPending DEF FirstCounter
      <4>q. QED
        BY <1>2, <2>16, <3>1, <3>3, <4>1 DEF Promised, WillSee, CheckFirst, Goto, Types
    <3>q. QED
      BY <3>2, <3>3
  <2>17. CASE CheckSecond(t)
    <3> SUFFICES ASSUME NEW s \in sleepers
                 PROVE  /\ pc'[s] = "asleep"
                        /\ \/ state_ = -1
                           \/ op'[s] # "shared" /\ state_ > 0
                           \/ \E u \in Threads : WillSee(u, s)'
      BY <2>17 DEF Promised, CheckSecond
    <3>1. s \in Threads /\ pc[s] = "asleep" /\ s # t
      BY <1>2, <2>17 DEF Promised, Types, CheckSecond, Return, Goto
    <3>2. CASE SecondCounter(t) > 0
      BY <1>2, <2>17, <3>1, <3>2 DEF Promised, WillSee, CheckSecond, Goto, Types
    <3>3. CASE ~(SecondCounter(t) > 0)
      <4>1. ~(op[t] = "shared" <=> op[s] = "shared")
        BY <1>2, <3>1, <3>3, SleeperIsPending DEF SecondCounter
      <4>2. ~WillSee(t, s)
        BY <2>17, <4>1 DEF WillSee, CheckSecond, Return, Goto
      <4>3. \A u \in Threads : WillSee(u, s) => WillSee(u, s)'
        BY <1>2, <2>17, <3>1, <3>3, <4>2 DEF WillSee, CheckSecond, Return, Goto, Types
      <4>q. QED
        BY <1>2, <2>17, <3>1, <3>3, <4>3 DEF Promised, CheckSecond, Return, Goto, Types
    <3>q. QED
      BY <3>2, <3>3
  <2>18. CASE FutexWake(t)
    BY <1>2, <2>18
    DEF FutexWake, Return, Goto, Promised, WillSee, Types, Positions, Operations, Writing,
        counters
  <2>19. CASE Interrupted(t)
    BY <1>2, <2>19
    DEF Interrupted, Goto, Promised, WillSee, Types, Positions, Operations, Writing, counters
  <2>20. CASE TimedOut(t)
    BY <1>2, <2>20
    DEF TimedOut, Goto, Promised, WillSee, Types, Positions, Operations, Writing, counters
  <2>q. QED
    BY <1>2, <2>1, <2>2, <2>3, <2>4, <2>5, <2>6, <2>7, <2>8, <2>9, <2>10, <2>11, <2>12, <2>13,
       <2>14, <2>15, <2>16, <2>17, <2>18, <2>19, <2>20
    DEF Call, Step, Kernel
<1>q. QED
  BY <1>1, <1>2 DEF Next

-----------------------------------------------------------------------------
IInv == Types /\ Positions /\ StateCountsHolders /\ Owner /\ PendingCounted /\ Promised

\* A new lock is free, with nobody pending or asleep.
LEMMA InitIInv == Init => IInv
<1> SUFFICES ASSUME Init PROVE IInv
  OBVIOUS
<1>0. Types
  <2>1. aborted \in BOOLEAN
    BY Zenon DEF Init
  <2>2. /\ state_ \in Int /\ exclusive_owner_ \in Threads \cup {NoThread}
        /\ num_pending_readers_ \in Int /\ num_pending_writers_ \in Int
        /\ sleepers \subseteq Threads
        /\ pc \in [Threads -> PcValues]
        /\ op \in [Threads -> Operations \cup {"none"}]
        /\ cur_state \in [Threads -> Int]
    BY SMT DEF Init, PcValues
  <2>q. QED
    BY <2>1, <2>2, Zenon DEF Types
<1>1. Positions /\ Owner /\ Promised
  BY ThreadsAssumption DEF Init, Positions, Writing, Owner, Promised
<1>2. SharedHolders = {} /\ ExclusiveHolders = {} /\ Readers = {} /\ Writers = {}
  BY DEF Init, SharedHolders, ExclusiveHolders, Readers, Writers, PendingIn
<1>3. StateCountsHolders /\ PendingCounted
  BY <1>2, FS_EmptySet DEF Init, StateCountsHolders, PendingCounted, Readers, Writers
<1>q. QED
  BY <1>0, <1>1, <1>3 DEF IInv

\* The inductive invariant holds in every reachable state.
THEOREM Invariance == Spec => []IInv
<1>1. IInv /\ [Next]_vars => IInv'
  BY TypeStep, PositionsStep, StateStep, OwnerStep, PendingStep, PromisedStep DEF IInv
<1>q. QED
  BY InitIInv, <1>1, PTL DEF Spec

\* Type correctness of the reader-writer lock.
THEOREM TypeCorrect == Spec => []TypeOK
<1>1. IInv => TypeOK
  <2> SUFFICES ASSUME IInv PROVE TypeOK
    OBVIOUS
  <2>1. \A S \in SUBSET Threads : Cardinality(S) \in Nat
    BY ThreadsAssumption, FS_Subset, FS_CardinalityType
  <2>2. /\ SharedHolders \in SUBSET Threads
        /\ PendingIn({"shared"}) \in SUBSET Threads
        /\ PendingIn({"exclusive", "timed"}) \in SUBSET Threads
    BY DEF SharedHolders, PendingIn
  <2>3. state_ \in Nat \cup {-1}
    BY <2>1, <2>2 DEF IInv, StateCountsHolders
  <2>4. num_pending_readers_ \in Nat /\ num_pending_writers_ \in Nat
    BY <2>1, <2>2 DEF IInv, PendingCounted
  <2>q. QED
    BY <2>3, <2>4, Zenon DEF IInv, Types, TypeOK
<1>q. QED
  BY Invariance, <1>1, PTL

\* state_ is the table of mutex.h in every reachable state, for any number of
\* readers and writers, signals and time-outs.
THEOREM StateCorrect == Spec => []StateCountsHolders
<1>1. IInv => StateCountsHolders
  BY DEF IInv
<1>q. QED
  BY Invariance, <1>1, PTL

\* exclusive_owner_ names the writer exactly in its critical section, so
\* IsExclusiveHeld answers correctly.
THEOREM OwnerCorrect == Spec => []OwnerIsHolder
<1>1. IInv => OwnerIsHolder
  BY DEF IInv, Owner, OwnerIsHolder, ExclusiveHolders, Writing, Types
<1>q. QED
  BY Invariance, <1>1, PTL

\* The pending counters are exact.
THEOREM PendingCorrect == Spec => []PendingCounted
<1>1. IInv => PendingCounted
  BY DEF IInv
<1>q. QED
  BY Invariance, <1>1, PTL

\* No lost wake-up, for any number of threads: a thread asleep on state_ has a
\* holder in front of it or an unlock that will issue its FUTEX_WAKE.
THEOREM WakeupCorrect == Spec => []NoStrandedSleeper
<1>1. IInv => NoStrandedSleeper
  <2> SUFFICES ASSUME IInv, NEW s \in sleepers,
                      ~(state_ = -1), ~(op[s] # "shared" /\ state_ > 0)
               PROVE  \E u \in Waking : WillWake(u)
    BY DEF NoStrandedSleeper
  <2>1. PICK u \in Threads : WillSee(u, s)
    BY DEF IInv, Promised
  <2>2. s \in Threads /\ pc[s] = "asleep"
    BY DEF IInv, Types, Promised
  <2>3. /\ op[s] = "shared" => num_pending_readers_ > 0
        /\ op[s] # "shared" => num_pending_writers_ > 0
        /\ num_pending_readers_ \in Nat /\ num_pending_writers_ \in Nat
    BY <2>2, SleeperIsPending DEF IInv
  <2>4. u \in Waking
    BY <2>1 DEF WillSee, Waking
  <2>5. WillWake(u)
    BY <2>1, <2>3 DEF WillSee, WillWake, SecondCounter
  <2>q. QED
    BY <2>4, <2>5
<1>q. QED
  BY Invariance, <1>1, PTL
-----------------------------------------------------------------------------
(* ImplementsRWLock: only the compare-and-swaps on state_ are steps of the *)
(* abstract lock.                                                          *)

\* A step that changes no holder is a stutter of the abstract lock.
LEMMA AbstractStutters ==
  ASSUME UNCHANGED <<SharedHolders, ExclusiveHolders>>
  PROVE  [Abstract!Next]_Abstract!lock
BY DEF Abstract!lock

\* Every step takes, gives back or leaves alone the abstract lock.
LEMMA AbstractStep ==
  Types /\ Positions /\ StateCountsHolders /\ [Next]_vars => [Abstract!Next]_Abstract!lock
<1>1. ASSUME UNCHANGED vars PROVE [Abstract!Next]_Abstract!lock
  BY <1>1, AbstractStutters DEF vars, SharedHolders, ExclusiveHolders
<1>2. ASSUME Types, Positions, StateCountsHolders, NEW t \in Threads,
             Call(t) \/ Step(t) \/ Kernel(t)
      PROVE  [Abstract!Next]_Abstract!lock
  <2>0. SharedHolders \in SUBSET Threads /\ Cardinality(SharedHolders) \in Nat
        /\ (Cardinality(SharedHolders) = 0 <=> SharedHolders = {})
    <3>1. SharedHolders \in SUBSET Threads
      BY DEF SharedHolders
    <3>q. QED
      BY <3>1, CountOne
  <2>1. CASE (\E o \in Operations : Begin(t, o)) \/ SetOwner(t) \/ Blocked(t) \/
             DeadlinePassed(t) \/ Pend(t) \/ FutexWait(t) \/ Woken(t)
    BY <1>2, <2>1, AbstractStutters
    DEF Begin, Goto, SetOwner, Blocked, DeadlinePassed, Return, Pend, AddPending, FutexWait,
        Woken, SharedHolders, ExclusiveHolders, Types, Positions, Writing, Operations,
        counters
  <2>2. CASE Unpend(t) \/ GiveUp(t) \/ ClearOwner(t) \/ CheckFirst(t) \/ CheckSecond(t) \/
             FutexWake(t) \/ Interrupted(t) \/ TimedOut(t)
    BY <1>2, <2>2, AbstractStutters
    DEF Unpend, Goto, AddPending, GiveUp, Return, ClearOwner, CheckFirst, FirstCounter,
        CheckSecond, SecondCounter, FutexWake, Interrupted, TimedOut, SharedHolders,
        ExclusiveHolders, Types, Positions, Writing, Operations, counters
  <2>3. CASE AcquireShared(t)
    <3>1. Abstract!AcquireShared(t)
      BY <1>2, <2>0, <2>3
      DEF AcquireShared, Goto, Abstract!AcquireShared, StateCountsHolders, SharedHolders,
          ExclusiveHolders, Types, Positions, Writing, Operations
    <3>q. QED
      BY <3>1 DEF Abstract!Next
  <2>4. CASE SharedTryLock(t)
    <3>1. Abstract!AcquireShared(t)
      BY <1>2, <2>0, <2>4
      DEF SharedTryLock, Goto, Abstract!AcquireShared, StateCountsHolders, SharedHolders,
          ExclusiveHolders, Types, Positions, Writing, Operations
    <3>q. QED
      BY <3>1 DEF Abstract!Next
  <2>5. CASE AcquireExclusive(t)
    <3>1. Abstract!AcquireExclusive(t)
      BY <1>2, <2>0, <2>5
      DEF AcquireExclusive, Goto, Abstract!AcquireExclusive, StateCountsHolders,
          SharedHolders, ExclusiveHolders, Types, Positions, Writing, Operations
    <3>q. QED
      BY <3>1 DEF Abstract!Next
  <2>6. CASE ReleaseShared(t)
    <3>1. Abstract!ReleaseShared(t)
      BY <1>2, <2>0, <2>6
      DEF ReleaseShared, Return, Goto, Abstract!ReleaseShared, StateCountsHolders,
          SharedHolders, ExclusiveHolders, Types, Positions, Writing, Operations
    <3>q. QED
      BY <3>1 DEF Abstract!Next
  <2>7. CASE ReleaseExclusive(t)
    <3>1. Abstract!ReleaseExclusive(t)
      BY <1>2, <2>0, <2>7
      DEF ReleaseExclusive, Goto, Abstract!ReleaseExclusive, StateCountsHolders,
          SharedHolders, ExclusiveHolders, Types, Positions, Writing, Operations
    <3>q. QED
      BY <3>1 DEF Abstract!Next
  <2>q. QED
    BY <1>2, <2>1, <2>2, <2>3, <2>4, <2>5, <2>6, <2>7 DEF Call, Step, Kernel
<1>q. QED
  BY <1>1, <1>2 DEF Next

\* The futex lock implements the abstract reader-writer lock for any number of
\* threads, signals and time-outs.
THEOREM RWLockCorrect == Spec => ImplementsRWLock
<1>1. Init => Abstract!Init
  BY DEF Init, Abstract!Init, SharedHolders, ExclusiveHolders
<1>2. IInv /\ [Next]_vars => [Abstract!Next]_Abstract!lock
  BY AbstractStep DEF IInv
<1>q. QED
  BY <1>1, <1>2, Invariance, PTL DEF Spec, ImplementsRWLock, Abstract!Spec
=============================================================================
