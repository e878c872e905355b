------------------------------ MODULE MCMutex ------------------------------
(***************************************************************************)
(* TLC instance of Mutex: each thread takes the mutex at most MaxLocks     *)
(* times, and all together make at most MaxHeldCalls waits, notifies and   *)
(* nested locks while they hold it.                                        *)
(***************************************************************************)
EXTENDS Mutex

CONSTANTS MaxLocks, MaxHeldCalls

VARIABLES locks, calls

mcvars == <<vars, locks, calls>>

MCInit ==
  /\ Init
  /\ locks = [t \in Threads |-> MaxLocks]
  /\ calls = MaxHeldCalls

MCCall(t) ==
  locks[t] > 0 /\ Call(t) /\ locks' = [locks EXCEPT ![t] = @ - 1] /\ UNCHANGED calls
MCCallHeld(t) ==
  calls > 0 /\ CallHeld(t) /\ calls' = calls - 1 /\ UNCHANGED locks
MCStep(t) == (ExclusiveUnlock(t) \/ Step(t)) /\ UNCHANGED <<locks, calls>>
MCKernel(t) == Kernel(t) /\ UNCHANGED <<locks, calls>>

\* Everyone who is left waits for a notify that nobody has calls left for.
Quiet ==
  /\ \A t \in Threads : (pc[t] = "idle" /\ locks[t] = 0) \/ t \in condq
  /\ UNCHANGED mcvars

MCNext == (\E t \in Threads : MCCall(t) \/ MCCallHeld(t) \/ MCStep(t) \/ MCKernel(t)) \/ Quiet

\* A thread inside an operation or holding the mutex is eventually scheduled.
MCSpec == MCInit /\ [][MCNext]_mcvars /\ \A t \in Threads : WF_mcvars(MCStep(t))

\* Wants the mutex: in ExclusiveLock, or notified while it waited.
Contends(t) ==
  \/ pc[t] \in {"try", "contend", "wait", "asleep", "unblocked"}
  \/ pc[t] = "condasleep" /\ t \notin condq

\* A thread that has called ExclusiveLock, or was notified, gets the mutex.
EveryContenderAcquires == \A t \in Threads : Contends(t) ~> pc[t] = "held"
=============================================================================
