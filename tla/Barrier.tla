------------------------------ MODULE Barrier ------------------------------
(***************************************************************************)
(* Barrier (runtime/barrier.cc) on top of its real mutex and condition     *)
(* variable, used the way MarkSweep::MarkRootsCheckpoint uses gc_barrier_: *)
(* the coordinator calls Init(0), every other thread calls Pass once when  *)
(* its checkpoint runs, and the coordinator calls Increment by the number  *)
(* of passers, possibly after some of them have passed.                    *)
(***************************************************************************)
EXTENDS Mutex

CONSTANT Coordinator   \* the thread that waits

ASSUME CoordinatorAssumption == Coordinator \in Threads

VARIABLES
  count_,
  at             \* the line of the Barrier's code each thread is at

bvars == <<vars, count_, at>>

Passers == Threads \ {Coordinator}

BInit ==
  /\ Init
  /\ count_ = 0
  /\ at = [t \in Threads |-> IF t = Coordinator THEN "new" ELSE "start"]

Go(t, from, to) == at[t] = from /\ at' = [at EXCEPT ![t] = to]

\* count_ = count; a count of zero broadcasts.
SetCountLocked(t, count) ==
  /\ count_' = count
  /\ count = 0 => Broadcast(t)

\* Init(self, 0).  The checkpoints are requested only after it returns.
EnterInit(t) == Go(t, "new", "init") /\ ExclusiveLock(t) /\ UNCHANGED count_
InitCount(t) == pc[t] = "held" /\ Go(t, "init", "initialised") /\ SetCountLocked(t, 0)
LeaveInit(t) == Go(t, "initialised", "start") /\ ExclusiveUnlock(t) /\ UNCHANGED count_

CheckpointRequested ==
  \/ at[Coordinator] = "start" /\ pc[Coordinator] = "idle"
  \/ at[Coordinator] \in {"body", "unlock", "done"}

\* MutexLock mu(self, lock_) at the head of Pass and of Increment.
Enter(t) ==
  CheckpointRequested /\ Go(t, "start", "body") /\ ExclusiveLock(t) /\ UNCHANGED count_

\* Leaving the scope of the MutexLock.
Leave(t) == Go(t, "unlock", "done") /\ ExclusiveUnlock(t) /\ UNCHANGED count_

\* Faulty: every pass wakes the coordinator.
PassBroadcasting(t) ==
  /\ pc[t] = "held" /\ t \in Passers
  /\ Go(t, "body", "unlock")
  /\ count_' = count_ - 1
  /\ Broadcast(t)

\* Faulty: spins, with the lock held, until the passes have been announced.
PassAwaiting(t) ==
  /\ pc[t] = "held" /\ t \in Passers
  /\ \/ /\ count_ > 0
        /\ Go(t, "body", "unlock")
        /\ SetCountLocked(t, count_ - 1)
        /\ count_' # 0 => UNCHANGED vars
     \/ count_ <= 0 /\ at[t] = "body" /\ UNCHANGED bvars

Pass(t) ==
  /\ pc[t] = "held" /\ t \in Passers
  /\ Go(t, "body", "unlock")
  /\ SetCountLocked(t, count_ - 1)
  /\ count_' # 0 => UNCHANGED vars

\* Increment(self, delta): the wait is not in a loop.
Increment(t) ==
  /\ pc[t] = "held" /\ t = Coordinator
  /\ Go(t, "body", "unlock")
  /\ SetCountLocked(t, count_ + Cardinality(Passers))
  /\ count_' # 0 => Wait(t)

BCall(t) ==
  \/ EnterInit(t) \/ InitCount(t) \/ LeaveInit(t)
  \/ Enter(t) \/ Pass(t) \/ Increment(t) \/ Leave(t)
BStep(t) == Step(t) /\ UNCHANGED <<count_, at>>

\* FUTEX_WAIT ends early: by a signal, or by the timeout of the Increment that
\* has one.
BKernel(t) == Kernel(t) /\ UNCHANGED <<count_, at>>

Done == \A t \in Threads : at[t] = "done" /\ pc[t] = "idle"

BNext ==
  \/ \E t \in Threads : BCall(t) \/ BStep(t) \/ BKernel(t)
  \/ Done /\ UNCHANGED bvars

\* Every thread runs: a passer reaches its checkpoint (ThreadList shows that
\* it does) and nobody stops inside the barrier.
BSpec ==
  /\ BInit /\ [][BNext]_bvars
  /\ \A t \in Threads : WF_bvars(BCall(t)) /\ WF_bvars(BStep(t))
-----------------------------------------------------------------------------
Passed == {t \in Passers : at[t] \in {"unlock", "done"}}

\* barrier.cc:51-54: the coordinator is woken when "the Pass function is called
\* by the last thread", so it leaves the barrier only after everyone passed.
LeavesAfterAllPassed == at[Coordinator] = "done" => Passed = Passers

\* The coordinator is not left asleep: the last Pass reaches it even when it
\* races with the wait (the Broadcast between its unlock and its FUTEX_WAIT).
CoordinatorReturns == <>(at[Coordinator] = "done" /\ pc[Coordinator] = "idle")
=============================================================================
