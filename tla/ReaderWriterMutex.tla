------------------------- MODULE ReaderWriterMutex -------------------------
(***************************************************************************)
(* ReaderWriterMutex (runtime/base/mutex.cc, mutex-inl.h), the futex       *)
(* implementation (ART_USE_FUTEXES).  mutator_lock_ is one of these.       *)
(*                                                                         *)
(* A step is one access to memory another thread also accesses.  A load    *)
(* of state_ and the compare-and-swap that follows it are one step: the    *)
(* swap succeeds only if state_ still has the loaded value, and when it    *)
(* fails the code goes back to the load.  The kernel's futex queue on      *)
(* &state_ is the set `sleepers'; FUTEX_WAIT compares and enqueues         *)
(* atomically, FUTEX_WAKE(-1) empties the queue.                           *)
(***************************************************************************)
EXTENDS Integers, FiniteSets

CONSTANTS
  Threads,        \* threads that use the lock
  NoThread,       \* exclusive_owner_ == 0
  Interruptible   \* operations during which a signal handler may run

Operations == {"shared", "exclusive", "timed"}

ASSUME ThreadsAssumption == NoThread \notin Threads /\ IsFiniteSet(Threads)
ASSUME InterruptibleAssumption == Interruptible \subseteq Operations

VARIABLES
  state_,                \* -1 exclusive, 0 free, n > 0 shared by n
  exclusive_owner_,
  num_pending_readers_,
  num_pending_writers_,
  sleepers,              \* threads in the kernel's queue on &state_
  pc,                    \* where each thread is
  op,                    \* the operation it is in
  cur_state,             \* its local of that name
  aborted                \* PLOG(FATAL) was reached

counters == <<num_pending_readers_, num_pending_writers_>>
vars == <<state_, exclusive_owner_, counters, sleepers, pc, op, cur_state, aborted>>

PcValues == {"idle", "try", "pend", "wait", "asleep", "unpend", "giveup",
             "own", "held", "release", "check1", "check2", "wake"}

Init ==
  /\ state_ = 0
  /\ exclusive_owner_ = NoThread
  /\ num_pending_readers_ = 0
  /\ num_pending_writers_ = 0
  /\ sleepers = {}
  /\ pc = [t \in Threads |-> "idle"]
  /\ op = [t \in Threads |-> "none"]
  /\ cur_state = [t \in Threads |-> 0]
  /\ aborted = FALSE

Goto(t, from, to) == pc[t] = from /\ pc' = [pc EXCEPT ![t] = to]

\* The thread's operation is over: it holds nothing.
Return(t, from) == Goto(t, from, "idle") /\ op' = [op EXCEPT ![t] = "none"]

-----------------------------------------------------------------------------
(* Acquiring: SharedLock, ExclusiveLock, ExclusiveLockWithTimeout.         *)

Begin(t, o) ==
  /\ Goto(t, "idle", "try")
  /\ op' = [op EXCEPT ![t] = o]
  /\ UNCHANGED <<state_, exclusive_owner_, counters, sleepers, cur_state, aborted>>

\* The load of state_ and the compare-and-swap that takes the lock.
AcquireShared(t) ==
  /\ op[t] = "shared" /\ state_ >= 0
  /\ state_' = state_ + 1
  /\ Goto(t, "try", "held")
  /\ UNCHANGED <<exclusive_owner_, counters, sleepers, op, cur_state, aborted>>

\* Faulty: tests only that no writer holds the lock.
AcquireExclusiveOverReaders(t) ==
  /\ op[t] \in {"exclusive", "timed"} /\ state_ >= 0
  /\ state_' = -1
  /\ Goto(t, "try", "own")
  /\ UNCHANGED <<exclusive_owner_, counters, sleepers, op, cur_state, aborted>>

AcquireExclusive(t) ==
  /\ op[t] \in {"exclusive", "timed"} /\ state_ = 0
  /\ state_' = -1
  /\ Goto(t, "try", "own")
  /\ UNCHANGED <<exclusive_owner_, counters, sleepers, op, cur_state, aborted>>

SetOwner(t) ==
  /\ Goto(t, "own", "held")
  /\ exclusive_owner_' = t
  /\ UNCHANGED <<state_, counters, sleepers, op, cur_state, aborted>>

\* The load found the lock taken: remember the value FUTEX_WAIT must see.
Blocked(t) ==
  /\ IF op[t] = "shared" THEN state_ < 0 ELSE state_ # 0
  /\ cur_state' = [cur_state EXCEPT ![t] = state_]
  /\ Goto(t, "try", "pend")
  /\ UNCHANGED <<state_, exclusive_owner_, counters, sleepers, op, aborted>>

\* ComputeRelativeTimeSpec says the deadline has passed: return false.
DeadlinePassed(t) ==
  /\ op[t] = "timed" /\ state_ # 0
  /\ Return(t, "try")
  /\ UNCHANGED <<state_, exclusive_owner_, counters, sleepers, cur_state, aborted>>

\* ++ or -- of the counter the operation announces itself with.
AddPending(t, d) ==
  IF op[t] = "shared"
  THEN num_pending_readers_' = num_pending_readers_ + d /\ UNCHANGED num_pending_writers_
  ELSE num_pending_writers_' = num_pending_writers_ + d /\ UNCHANGED num_pending_readers_

Pend(t) ==
  /\ Goto(t, "pend", "wait")
  /\ AddPending(t, 1)
  /\ UNCHANGED <<state_, exclusive_owner_, sleepers, op, cur_state, aborted>>

\* Faulty: repeats the wait on EAGAIN without looking at state_ again.
FutexWaitRepeated(t) ==
  /\ \/ /\ state_ = cur_state[t]
        /\ Goto(t, "wait", "asleep")
        /\ sleepers' = sleepers \cup {t}
     \/ /\ state_ # cur_state[t]
        /\ pc[t] = "wait" /\ UNCHANGED <<pc, sleepers>>
  /\ UNCHANGED <<state_, exclusive_owner_, counters, op, cur_state, aborted>>

FutexWait(t) ==
  /\ \/ /\ state_ = cur_state[t]
        /\ Goto(t, "wait", "asleep")
        /\ sleepers' = sleepers \cup {t}
     \/ /\ state_ # cur_state[t]                                   \* EAGAIN
        /\ Goto(t, "wait", "unpend")
        /\ UNCHANGED sleepers
  /\ UNCHANGED <<state_, exclusive_owner_, counters, op, cur_state, aborted>>

Woken(t) ==
  /\ t \notin sleepers
  /\ Goto(t, "asleep", "unpend")
  /\ UNCHANGED <<state_, exclusive_owner_, counters, sleepers, op, cur_state, aborted>>

\* FUTEX_WAIT fails with EINTR.  The exclusive operations go round their
\* loop again; SharedLock accepts EAGAIN only and aborts the process.
Interrupted(t) ==
  /\ t \in sleepers /\ op[t] \in Interruptible
  /\ sleepers' = sleepers \ {t}
  /\ Goto(t, "asleep", "unpend")
  /\ aborted' = (op[t] = "shared")
  /\ UNCHANGED <<state_, exclusive_owner_, counters, op, cur_state>>

\* FUTEX_WAIT fails with ETIMEDOUT.
TimedOut(t) ==
  /\ t \in sleepers /\ op[t] = "timed"
  /\ sleepers' = sleepers \ {t}
  /\ Goto(t, "asleep", "giveup")
  /\ UNCHANGED <<state_, exclusive_owner_, counters, op, cur_state, aborted>>

Unpend(t) ==
  /\ Goto(t, "unpend", "try")
  /\ AddPending(t, -1)
  /\ UNCHANGED <<state_, exclusive_owner_, sleepers, op, cur_state, aborted>>

GiveUp(t) ==
  /\ Return(t, "giveup")
  /\ AddPending(t, -1)
  /\ UNCHANGED <<state_, exclusive_owner_, sleepers, cur_state, aborted>>

\* The successful SharedTryLock; the unsuccessful one changes nothing.
SharedTryLock(t) ==
  /\ state_ >= 0
  /\ state_' = state_ + 1
  /\ Goto(t, "idle", "held")
  /\ op' = [op EXCEPT ![t] = "shared"]
  /\ UNCHANGED <<exclusive_owner_, counters, sleepers, cur_state, aborted>>

-----------------------------------------------------------------------------
(* Releasing: SharedUnlock, ExclusiveUnlock.                               *)

ReleaseShared(t) ==
  /\ op[t] = "shared" /\ state_ > 0
  /\ state_' = state_ - 1
  /\ IF state_' = 0
     THEN Goto(t, "held", "check1") /\ UNCHANGED op
     ELSE Return(t, "held")
  /\ UNCHANGED <<exclusive_owner_, counters, sleepers, cur_state, aborted>>

ClearOwner(t) ==
  /\ op[t] # "shared" /\ state_ = -1
  /\ Goto(t, "held", "release")
  /\ exclusive_owner_' = NoThread
  /\ UNCHANGED <<state_, counters, sleepers, op, cur_state, aborted>>

ReleaseExclusive(t) ==
  /\ state_ = -1
  /\ state_' = 0
  /\ Goto(t, "release", "check1")
  /\ UNCHANGED <<exclusive_owner_, counters, sleepers, op, cur_state, aborted>>

\* The operands of || in the order each unlock evaluates them.
FirstCounter(t) == IF op[t] = "shared" THEN num_pending_writers_ ELSE num_pending_readers_
SecondCounter(t) == IF op[t] = "shared" THEN num_pending_readers_ ELSE num_pending_writers_

CheckFirst(t) ==
  /\ Goto(t, "check1", IF FirstCounter(t) > 0 THEN "wake" ELSE "check2")
  /\ UNCHANGED <<state_, exclusive_owner_, counters, sleepers, op, cur_state, aborted>>

\* Faulty: only the first operand of || is evaluated.
CheckSecondSkipped(t) ==
  /\ Return(t, "check2")
  /\ UNCHANGED <<state_, exclusive_owner_, counters, sleepers, cur_state, aborted>>

CheckSecond(t) ==
  /\ IF SecondCounter(t) > 0
     THEN Goto(t, "check2", "wake") /\ UNCHANGED op
     ELSE Return(t, "check2")
  /\ UNCHANGED <<state_, exclusive_owner_, counters, sleepers, cur_state, aborted>>

\* FUTEX_WAKE with the count -1, which the code means for all sleepers.
FutexWake(t) ==
  /\ Return(t, "wake")
  /\ sleepers' = {}
  /\ UNCHANGED <<state_, exclusive_owner_, counters, cur_state, aborted>>

-----------------------------------------------------------------------------
\* A thread calls an operation.
Call(t) == (\E o \in Operations : Begin(t, o)) \/ SharedTryLock(t)

\* A thread inside an operation, or holding the lock, takes its next step.
Step(t) ==
  \/ AcquireShared(t) \/ AcquireExclusive(t) \/ SetOwner(t)
  \/ Blocked(t) \/ DeadlinePassed(t) \/ Pend(t) \/ FutexWait(t) \/ Woken(t)
  \/ Unpend(t) \/ GiveUp(t)
  \/ ReleaseShared(t) \/ ClearOwner(t) \/ ReleaseExclusive(t)
  \/ CheckFirst(t) \/ CheckSecond(t) \/ FutexWake(t)

\* The kernel ends a thread's FUTEX_WAIT early.
Kernel(t) == Interrupted(t) \/ TimedOut(t)

Next == ~aborted /\ \E t \in Threads : Call(t) \/ Step(t) \/ Kernel(t)

Spec == Init /\ [][Next]_vars
-----------------------------------------------------------------------------
SharedHolders == {t \in Threads : op[t] = "shared" /\ pc[t] = "held"}
ExclusiveHolders ==
  {t \in Threads : op[t] \in {"exclusive", "timed"} /\ pc[t] \in {"own", "held", "release"}}

TypeOK ==
  /\ state_ \in Nat \cup {-1}
  /\ exclusive_owner_ \in Threads \cup {NoThread}
  /\ num_pending_readers_ \in Nat /\ num_pending_writers_ \in Nat
  /\ sleepers \subseteq Threads
  /\ pc \in [Threads -> PcValues]
  /\ op \in [Threads -> Operations \cup {"none"}]
  /\ cur_state \in [Threads -> Int]
  /\ aborted \in BOOLEAN

\* state_ is exactly the table of mutex.h: -1 with one exclusive holder and
\* no reader, n with n readers and no exclusive holder.  In particular no
\* unlock can reach LOG(FATAL) "Unexpected state_".
StateCountsHolders ==
  \/ /\ state_ = -1
     /\ SharedHolders = {} /\ \E w \in Threads : ExclusiveHolders = {w}
  \/ /\ state_ = Cardinality(SharedHolders)
     /\ ExclusiveHolders = {}

\* exclusive_owner_ is what IsExclusiveHeld compares a thread id with: it
\* never names a thread that does not hold the lock, and names the holder
\* whenever it runs its critical section.
OwnerIsHolder ==
  /\ exclusive_owner_ # NoThread => exclusive_owner_ \in ExclusiveHolders
  /\ \A t \in ExclusiveHolders : pc[t] = "held" => exclusive_owner_ = t

\* The pending counters count the threads between their ++ and their --, so
\* ~ReaderWriterMutex's CHECK_EQ(num_pending_..., 0) hold when nobody is in
\* an operation, whichever way the waits ended.
PendingIn(S) == {t \in Threads : op[t] \in S /\ pc[t] \in {"wait", "asleep", "unpend", "giveup"}}
PendingCounted ==
  /\ num_pending_readers_ = Cardinality(PendingIn({"shared"}))
  /\ num_pending_writers_ = Cardinality(PendingIn({"exclusive", "timed"}))

\* No lost wake-up.  A sleeping reader has a writer in front of it, and a
\* sleeping writer has a holder, or else an unlock that has not yet issued
\* its FUTEX_WAKE will.
Waking == {t \in Threads : pc[t] \in {"check1", "check2", "wake"}}
WillWake(u) ==
  \/ pc[u] = "wake"
  \/ pc[u] = "check1" /\ num_pending_readers_ + num_pending_writers_ > 0
  \/ pc[u] = "check2" /\ SecondCounter(u) > 0
NoStrandedSleeper ==
  \A t \in sleepers :
    \/ state_ = -1
    \/ op[t] # "shared" /\ state_ > 0
    \/ \E u \in Waking : WillWake(u)

\* The detailed lock implements the abstract one.
Abstract == INSTANCE RWLock WITH readers <- SharedHolders, writers <- ExclusiveHolders
ImplementsRWLock == Abstract!Spec
=============================================================================
