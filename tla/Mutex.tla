------------------------------- MODULE Mutex -------------------------------
(***************************************************************************)
(* Mutex and the ConditionVariables it guards (runtime/base/mutex.cc), the *)
(* futex implementation.  One condition variable is modelled.              *)
(*                                                                         *)
(* A step is one access to memory that other threads access without the    *)
(* mutex; accesses the mutex protects (recursion_count_, num_waiters_,     *)
(* the increments of sequence_) are merged with a neighbouring step.  The  *)
(* kernel's futex queues on &state_ and &sequence_ are the sets `mutexq'   *)
(* and `condq'.                                                            *)
(***************************************************************************)
EXTENDS Integers, FiniteSets

CONSTANTS
  Threads,
  NoThread,       \* exclusive_owner_ == 0
  recursive_,     \* the constructor's argument
  Interruptible   \* threads whose FUTEX_WAIT may end with EINTR or ETIMEDOUT

ASSUME ThreadsAssumption == NoThread \notin Threads /\ IsFiniteSet(Threads)
ASSUME RecursiveAssumption == recursive_ \in BOOLEAN
ASSUME InterruptibleAssumption == Interruptible \subseteq Threads

VARIABLES
  state_,                \* 0 unheld, 1 held
  exclusive_owner_,
  num_contenders_,
  recursion_count_,
  sequence_,
  num_waiters_,
  mutexq,                \* threads in the kernel's queue on &state_
  condq,                 \* threads in the kernel's queue on &sequence_
  pc,
  waiting,               \* inside WaitHoldingLocks or TimedWait
  cur_sequence,          \* locals of the wait
  old_recursion_count

lockvars == <<state_, exclusive_owner_, num_contenders_, recursion_count_>>
condvars == <<sequence_, num_waiters_>>
waitvars == <<waiting, cur_sequence, old_recursion_count>>
vars == <<lockvars, condvars, mutexq, condq, pc, waitvars>>

Init ==
  /\ state_ = 0
  /\ exclusive_owner_ = NoThread
  /\ num_contenders_ = 0
  /\ recursion_count_ = 0
  /\ sequence_ = 0
  /\ num_waiters_ = 0
  /\ mutexq = {}
  /\ condq = {}
  /\ pc = [t \in Threads |-> "idle"]
  /\ waiting = [t \in Threads |-> FALSE]
  /\ cur_sequence = [t \in Threads |-> 0]
  /\ old_recursion_count = [t \in Threads |-> 0]

Goto(t, from, to) == pc[t] = from /\ pc' = [pc EXCEPT ![t] = to]
-----------------------------------------------------------------------------
(* Mutex::ExclusiveLock and ExclusiveTryLock.                              *)

IsExclusiveHeld(t) == exclusive_owner_ = t

ExclusiveLock(t) ==
  /\ Goto(t, "idle", "try")
  /\ UNCHANGED <<lockvars, condvars, mutexq, condq, waitvars>>

\* The nested ExclusiveLock or ExclusiveTryLock of a recursive mutex.
RecursiveLock(t) ==
  /\ pc[t] = "held" /\ recursive_ /\ IsExclusiveHeld(t)
  /\ recursion_count_' = recursion_count_ + 1
  /\ UNCHANGED <<state_, exclusive_owner_, num_contenders_, condvars, mutexq, condq, pc, waitvars>>

\* The load and the compare-and-swap, from either function; a failing
\* ExclusiveTryLock changes nothing.
Acquire(t) ==
  /\ state_ = 0
  /\ state_' = 1
  /\ pc[t] \in {"idle", "try"} /\ pc' = [pc EXCEPT ![t] = "own"]
  /\ UNCHANGED <<exclusive_owner_, num_contenders_, recursion_count_, condvars, mutexq, condq,
                 waitvars>>

SetOwner(t) ==
  /\ Goto(t, "own", IF waiting[t] THEN "rewaited" ELSE "held")
  /\ exclusive_owner_' = t
  /\ recursion_count_' = recursion_count_ + 1
  /\ UNCHANGED <<state_, num_contenders_, condvars, mutexq, condq, waitvars>>

Blocked(t) ==
  /\ state_ # 0
  /\ Goto(t, "try", "contend")
  /\ UNCHANGED <<lockvars, condvars, mutexq, condq, waitvars>>

Contend(t) ==
  /\ Goto(t, "contend", "wait")
  /\ num_contenders_' = num_contenders_ + 1
  /\ UNCHANGED <<state_, exclusive_owner_, recursion_count_, condvars, mutexq, condq, waitvars>>

FutexWait(t) ==
  /\ \/ /\ state_ = 1
        /\ Goto(t, "wait", "asleep")
        /\ mutexq' = mutexq \cup {t}
     \/ /\ state_ # 1                                              \* EAGAIN
        /\ Goto(t, "wait", "unblocked")
        /\ UNCHANGED mutexq
  /\ UNCHANGED <<lockvars, condvars, condq, waitvars>>

Woken(t) ==
  /\ t \notin mutexq
  /\ Goto(t, "asleep", "unblocked")
  /\ UNCHANGED <<lockvars, condvars, mutexq, condq, waitvars>>

Interrupted(t) ==
  /\ t \in mutexq \cap Interruptible
  /\ Goto(t, "asleep", "unblocked")
  /\ mutexq' = mutexq \ {t}
  /\ UNCHANGED <<lockvars, condvars, condq, waitvars>>

Unblocked(t) ==
  /\ Goto(t, "unblocked", "try")
  /\ num_contenders_' = num_contenders_ - 1
  /\ UNCHANGED <<state_, exclusive_owner_, recursion_count_, condvars, mutexq, condq, waitvars>>
-----------------------------------------------------------------------------
(* Mutex::ExclusiveUnlock.                                                 *)

ExclusiveUnlock(t) ==
  /\ recursion_count_' = recursion_count_ - 1
  /\ IF recursive_ /\ recursion_count_' # 0
     THEN pc[t] = "held" /\ UNCHANGED <<pc, exclusive_owner_>>
     ELSE Goto(t, "held", "release") /\ exclusive_owner_' = NoThread
  /\ UNCHANGED <<state_, num_contenders_, condvars, mutexq, condq, waitvars>>

Release(t) ==
  /\ state_ = 1
  /\ state_' = 0
  /\ Goto(t, "release", "check")
  /\ UNCHANGED <<exclusive_owner_, num_contenders_, recursion_count_, condvars, mutexq, condq,
                 waitvars>>

\* Where ExclusiveUnlock returns to.
AfterUnlock(t) == IF waiting[t] THEN "condwait" ELSE "idle"

\* Faulty: off by one.
CheckOtherContenders(t) ==
  /\ Goto(t, "check", IF num_contenders_ > 1 THEN "wake" ELSE AfterUnlock(t))
  /\ UNCHANGED <<lockvars, condvars, mutexq, condq, waitvars>>

CheckContenders(t) ==
  /\ Goto(t, "check", IF num_contenders_ > 0 THEN "wake" ELSE AfterUnlock(t))
  /\ UNCHANGED <<lockvars, condvars, mutexq, condq, waitvars>>

FutexWake(t) ==
  /\ Goto(t, "wake", AfterUnlock(t))
  /\ \/ mutexq = {} /\ UNCHANGED mutexq
     \/ \E w \in mutexq : mutexq' = mutexq \ {w}
  /\ UNCHANGED <<lockvars, condvars, condq, waitvars>>
-----------------------------------------------------------------------------
(* ConditionVariable.                                                      *)

\* WaitHoldingLocks and TimedWait, up to the guard's compare-and-swap in
\* ExclusiveUnlock: recursion_count_ is set to 1 so that it releases.
Wait(t) ==
  /\ Goto(t, "held", "release")
  /\ waiting' = [waiting EXCEPT ![t] = TRUE]
  /\ old_recursion_count' = [old_recursion_count EXCEPT ![t] = recursion_count_]
  /\ cur_sequence' = [cur_sequence EXCEPT ![t] = sequence_]
  /\ num_waiters_' = num_waiters_ + 1
  /\ num_contenders_' = num_contenders_ + 1
  /\ recursion_count_' = 0
  /\ exclusive_owner_' = NoThread
  /\ UNCHANGED <<state_, sequence_, mutexq, condq>>

CondFutexWait(t) ==
  /\ \/ /\ sequence_ = cur_sequence[t]
        /\ Goto(t, "condwait", "condasleep")
        /\ condq' = condq \cup {t}
     \/ /\ sequence_ # cur_sequence[t]                             \* EAGAIN
        /\ Goto(t, "condwait", "try")
        /\ UNCHANGED condq
  /\ UNCHANGED <<lockvars, condvars, mutexq, waitvars>>

\* Woken by Signal, or by an unlock after Broadcast requeued the thread.
CondWoken(t) ==
  /\ t \notin condq \cup mutexq
  /\ Goto(t, "condasleep", "try")
  /\ UNCHANGED <<lockvars, condvars, mutexq, condq, waitvars>>

CondInterrupted(t) ==
  /\ t \in (condq \cup mutexq) \cap Interruptible
  /\ Goto(t, "condasleep", "try")
  /\ condq' = condq \ {t}
  /\ mutexq' = mutexq \ {t}
  /\ UNCHANGED <<lockvars, condvars, waitvars>>

\* Faulty: the lock that ends the wait is not counted.
RewaitedUncounted(t) ==
  /\ Goto(t, "rewaited", "held")
  /\ waiting' = [waiting EXCEPT ![t] = FALSE]
  /\ num_waiters_' = num_waiters_ - 1
  /\ num_contenders_' = num_contenders_ - 1
  /\ recursion_count_' = old_recursion_count[t] - 1
  /\ UNCHANGED <<state_, exclusive_owner_, sequence_, mutexq, condq, cur_sequence,
                 old_recursion_count>>

\* The end of the wait, with the guard held again.
Rewaited(t) ==
  /\ Goto(t, "rewaited", "held")
  /\ waiting' = [waiting EXCEPT ![t] = FALSE]
  /\ num_waiters_' = num_waiters_ - 1
  /\ num_contenders_' = num_contenders_ - 1
  /\ recursion_count_' = old_recursion_count[t]
  /\ UNCHANGED <<state_, exclusive_owner_, sequence_, mutexq, condq, cur_sequence,
                 old_recursion_count>>

\* Faulty: sequence_ does not move.
NotifyInPlace(t, next) ==
  /\ pc[t] = "held"
  /\ pc' = [pc EXCEPT ![t] = IF num_waiters_ > 0 THEN next ELSE "held"]
  /\ UNCHANGED <<lockvars, condvars, mutexq, condq, waitvars>>

\* sequence_++ of Signal and Broadcast; without waiters they do nothing.
Notify(t, next) ==
  /\ pc[t] = "held"
  /\ IF num_waiters_ > 0
     THEN sequence_' = sequence_ + 1 /\ pc' = [pc EXCEPT ![t] = next]
     ELSE UNCHANGED <<sequence_, pc>>
  /\ UNCHANGED <<lockvars, num_waiters_, mutexq, condq, waitvars>>

Signal(t) == Notify(t, "signal")
Broadcast(t) == Notify(t, "broadcast")

\* FUTEX_WAKE of one thread.
SignalWake(t) ==
  /\ Goto(t, "signal", "held")
  /\ \/ condq = {} /\ UNCHANGED condq
     \/ \E w \in condq : condq' = condq \ {w}
  /\ UNCHANGED <<lockvars, condvars, mutexq, waitvars>>

\* FUTEX_CMP_REQUEUE of every thread onto the guard's queue.
BroadcastRequeue(t) ==
  /\ Goto(t, "broadcast", "held")
  /\ condq' = {}
  /\ mutexq' = mutexq \cup condq
  /\ UNCHANGED <<lockvars, condvars, waitvars>>
-----------------------------------------------------------------------------
\* What a thread that is not inside an operation may call.
Call(t) == ExclusiveLock(t) \/ (pc[t] = "idle" /\ Acquire(t))
CallHeld(t) == RecursiveLock(t) \/ Wait(t) \/ Signal(t) \/ Broadcast(t)

\* The next step of a thread inside an operation.
Step(t) ==
  \/ (pc[t] = "try" /\ Acquire(t)) \/ SetOwner(t)
  \/ Blocked(t) \/ Contend(t) \/ FutexWait(t) \/ Woken(t) \/ Unblocked(t)
  \/ Release(t) \/ CheckContenders(t) \/ FutexWake(t)
  \/ CondFutexWait(t) \/ CondWoken(t) \/ Rewaited(t)
  \/ SignalWake(t) \/ BroadcastRequeue(t)

Kernel(t) == Interrupted(t) \/ CondInterrupted(t)

Next ==
  \E t \in Threads :
    Call(t) \/ CallHeld(t) \/ ExclusiveUnlock(t) \/ Step(t) \/ Kernel(t)

Spec == Init /\ [][Next]_vars
-----------------------------------------------------------------------------
PcValues == {"idle", "try", "own", "held", "contend", "wait", "asleep", "unblocked", "release",
             "check", "wake", "condwait", "condasleep", "rewaited", "signal", "broadcast"}

TypeOK ==
  /\ state_ \in {0, 1}
  /\ exclusive_owner_ \in Threads \cup {NoThread}
  /\ num_contenders_ \in Nat /\ recursion_count_ \in Nat
  /\ sequence_ \in Nat /\ num_waiters_ \in Nat
  /\ mutexq \subseteq Threads /\ condq \subseteq Threads
  /\ pc \in [Threads -> PcValues]
  /\ waiting \in [Threads -> BOOLEAN]
  /\ cur_sequence \in [Threads -> Nat]
  /\ old_recursion_count \in [Threads -> Int]

\* The threads between the compare-and-swap that takes the mutex and the
\* one that gives it back.
Holders == {t \in Threads : pc[t] \in {"own", "held", "rewaited", "signal", "broadcast", "release"}}

\* At most one thread holds the mutex, whether it got it by ExclusiveLock,
\* ExclusiveTryLock or coming back from a wait, and state_ says so; the
\* recursion count of a non-recursive mutex is 1 exactly in the critical
\* section (the CHECKs on recursion_count_).
MutualExclusion ==
  /\ \/ state_ = 0 /\ Holders = {}
     \/ state_ = 1 /\ \E w \in Threads : Holders = {w}
  /\ \A t \in Threads :
       pc[t] \in {"held", "signal", "broadcast"} =>
         /\ IsExclusiveHeld(t)
         /\ recursion_count_ >= 1
         /\ ~recursive_ => recursion_count_ = 1

\* The threads counted in num_contenders_ by ExclusiveLock, and the threads
\* counted in it and in num_waiters_ by a wait.
Contending == {t \in Threads : pc[t] \in {"wait", "asleep", "unblocked"}}
InWait == {t \in Threads : waiting[t]}

\* num_contenders_ and num_waiters_ count exactly the threads that need a
\* wake-up from an unlock or from a notify, so the CHECKs of ~Mutex and
\* ~ConditionVariable hold once every operation has returned.
CountersExact ==
  /\ num_contenders_ = Cardinality(Contending) + Cardinality(InWait)
  /\ num_waiters_ = Cardinality(InWait)

\* No lost wake-up on the mutex: while it is free, a thread asleep on it has
\* somebody awake who will either issue a FUTEX_WAKE or take the mutex and
\* issue one when unlocking it.  Unlock wakes a single thread, so this rests
\* on every woken thread (requeued waiters included) contending again.
NoStrandedContender ==
  mutexq # {} /\ state_ = 0 =>
    \E t \in Threads :
      \/ pc[t] = "check" /\ num_contenders_ > 0
      \/ pc[t] \in {"wake", "contend", "wait", "unblocked", "try"}
      \/ pc[t] \in {"asleep", "condasleep"} /\ t \notin mutexq \cup condq

\* The thread waits, has not been notified, and can still be (or be put) to
\* sleep on the condition.
CanSleep(t) ==
  /\ waiting[t]
  /\ \/ t \in condq
     \/ pc[t] \in {"release", "check", "wake", "condwait"} /\ cur_sequence[t] = sequence_

\* No lost notify: when Broadcast returns nobody that was waiting can sleep
\* on; when Signal returns some waiter was woken unless none could sleep on.
\* The waiters that had released the guard but not yet reached FUTEX_WAIT are
\* the ones at risk: sequence_ must have moved under them.
NotifyReachesWaiters ==
  [][\A t \in Threads :
       /\ pc[t] = "broadcast" /\ pc'[t] = "held" => \A w \in Threads : ~CanSleep(w)'
       /\ pc[t] = "signal" /\ pc'[t] = "held" =>
            \/ \E w \in Threads : CanSleep(w) /\ ~CanSleep(w)'
            \/ \A w \in Threads : ~CanSleep(w)]_vars

\* The mutex implements the exclusive half of the abstract lock.
Abstract == INSTANCE RWLock WITH readers <- {}, writers <- Holders
ImplementsLock == Abstract!Spec
=============================================================================
