------------------------- MODULE MCThreadSuspension -------------------------
(***************************************************************************)
(* TLC instance of ThreadSuspension.  `calls' bounds the SuspendAlls of    *)
(* each thread, so that a SuspendAll can be expected to complete although  *)
(* mutator_lock_ gives no fairness between writers.                        *)
(***************************************************************************)
EXTENDS ThreadSuspension

CONSTANT MaxSuspendAlls

VARIABLE calls

mcvars == <<vars, calls>>

MCInit == Init /\ calls = [t \in Threads |-> MaxSuspendAlls]

MCSuspendAll(t) ==
  calls[t] > 0 /\ SuspendAll(t) /\ calls' = [calls EXCEPT ![t] = @ - 1]
MCChoose(t) ==
  (EnterNative(t) \/ LeaveNative(t) \/ RegisterLock(t) \/ Destroy(t)) /\ UNCHANGED calls
MCStep(t) == Step(t) /\ UNCHANGED calls
MCSpurious(t) == SpuriousWakeup(t) /\ UNCHANGED calls

\* A process all of whose threads have detached has nothing left to do.
AllGone == (\A t \in Threads : pc[t] = "dead") /\ UNCHANGED mcvars

MCNext ==
  \/ \E t \in Threads : MCSuspendAll(t) \/ MCChoose(t) \/ MCStep(t) \/ MCSpurious(t)
  \/ AllGone

\* Every thread is eventually scheduled; managed code reaches a suspend check
\* (FullSuspendCheck is part of Step).  What a thread chooses is up to it.
MCSpec == MCInit /\ [][MCNext]_mcvars /\ \A t \in Threads : WF_mcvars(MCStep(t))

\* A SuspendAll gets the world stopped.
SuspendAllCompletes ==
  \A t \in Threads : pc[t] = "suspendAll" ~> pc[t] = "stopped"

\* A thread that wants to be Runnable becomes Runnable: it does not sleep
\* through the last resume, and does not spin for ever between taking its
\* share of mutator_lock_ and finding the request flag set.
EveryoneRunsAgain ==
  \A t \in Threads :
    pc[t] \in {"toRunnable", "unshareForCheck"} ~> pc[t] = "running"
=============================================================================
