--------------------------- MODULE MCSuspendThread --------------------------
(***************************************************************************)
(* TLC instance of SuspendThread.  `calls' bounds the suspensions that     *)
(* each thread starts, of one thread or of all.  a and b stay; c and d     *)
(* come and go, and with three ids the later of the two gets the id that   *)
(* the earlier has released.  Which ids a and b have does not matter.      *)
(***************************************************************************)
EXTENDS SuspendThread

CONSTANTS MaxCalls, a, b, c, d

\* Who suspends whom, for the configurations.
None == {}
AOnB == {<<a, b>>}
ACallsIds == {a} \X ThreadIds

VARIABLE calls

mcvars == <<svars, calls>>

MCInit ==
  /\ SInit
  /\ thin_lock_thread_id[a] = 1 /\ thin_lock_thread_id[b] = 2
  /\ calls = [t \in Threads |-> MaxCalls]

MCCall(t) ==
  /\ calls[t] > 0
  /\ \/ stage[t] = "none" /\ SuspendAll(t) /\ Aside
     \/ \E u \in Threads : SuspendThreadByPeer(t, u)
     \/ \E i \in ThreadIds : SuspendThreadByThreadId(t, i)
  /\ calls' = [calls EXCEPT ![t] = @ - 1]

MCChoose(t) ==
  /\ \/ stage[t] = "none" /\ (EnterNative(t) \/ LeaveNative(t)) /\ Aside
     \/ CreateNativeThread(t) \/ CreateFailed(t)
     \/ CreatePeer(t) \/ StartDestroy(t) \/ DestroyWithoutPeer(t)
  /\ UNCHANGED calls

MCStep(t) == SStep(t) /\ UNCHANGED calls
MCSpurious(t) == SSpurious(t) /\ UNCHANGED calls

MCNext ==
  ~aborted /\ \E t \in Threads : MCCall(t) \/ MCChoose(t) \/ MCStep(t) \/ MCSpurious(t)

\* Every thread is eventually scheduled, and managed code reaches a suspend
\* check.  A thread that polls its target sleeps longer and longer without
\* thread_list_lock_, so nobody waits for that lock for ever because of it.
MCSpec ==
  /\ MCInit /\ [][MCNext]_mcvars
  /\ \A t \in Threads :
       /\ WF_mcvars(~aborted /\ MCStep(t))
       /\ SF_mcvars(~aborted /\ LookupLock(t) /\ UNCHANGED calls)

\* "Returns the thread on success, else NULL": a suspension of one thread
\* returns, and the thread that asked for it can go on.
SuspensionReturns ==
  \A t \in {p[1] : p \in PeerCalls \cup IdCalls} : stage[t] = "lookup" ~> stage[t] = "none"
=============================================================================
