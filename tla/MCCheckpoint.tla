---------------------------- MODULE MCCheckpoint ----------------------------
(***************************************************************************)
(* TLC instance of Checkpoint.  `calls' bounds what each thread starts:    *)
(* SuspendAlls, collections, samples, and voluntary trips to Runnable.     *)
(***************************************************************************)
EXTENDS Checkpoint

CONSTANTS MaxCalls, MaxTrips

VARIABLES calls, trips

mcvars == <<cvars, calls, trips>>

MCInit ==
  /\ CInit
  /\ calls = [t \in Threads |-> MaxCalls]
  /\ trips = [t \in Threads |-> MaxTrips]

MCCall(t) ==
  /\ calls[t] > 0
  /\ (SuspendAll(t) /\ Unaffected) \/ StartMarking(t) \/ Sample(t)
  /\ calls' = [calls EXCEPT ![t] = @ - 1]
  /\ UNCHANGED trips

MCTrip(t) ==
  /\ trips[t] > 0
  /\ LeaveNative(t) /\ Unaffected
  /\ trips' = [trips EXCEPT ![t] = @ - 1]
  /\ UNCHANGED calls

MCChoose(t) ==
  /\ CEnterNative(t) \/ RegisterLock(t) \/ Destroy(t)
  /\ Unaffected
  /\ UNCHANGED <<calls, trips>>

MCStep(t) == CStep(t) /\ UNCHANGED <<calls, trips>>
MCSpurious(t) == CSpurious(t) /\ UNCHANGED <<calls, trips>>

\* A process all of whose threads have detached has nothing left to do.
AllGone == (\A t \in Threads : pc[t] = "dead") /\ UNCHANGED mcvars

MCNext ==
  \/ \E t \in Threads : MCCall(t) \/ MCTrip(t) \/ MCChoose(t) \/ MCStep(t) \/ MCSpurious(t)
  \/ AllGone

\* Every thread is eventually scheduled, and managed code reaches a suspend
\* check, where it runs its checkpoints first.
MCSpec == MCInit /\ [][MCNext]_mcvars /\ \A t \in Threads : WF_mcvars(MCStep(t))

\* A collection gets past its checkpoint and a sample past its barrier,
\* however the other threads run, suspend, attach or exit meanwhile.
CheckpointCompletes ==
  \A r \in Requesters : pc[r] \in {"marking", "sample"} ~> pc[r] = "native"
=============================================================================
