------------------------ MODULE MCReaderWriterMutex ------------------------
(***************************************************************************)
(* TLC instance of ReaderWriterMutex.  `ops' is how many more times the    *)
(* lock may be called, by whichever threads, so that "every call returns"  *)
(* is a meaningful property of a lock that lets threads barge.             *)
(***************************************************************************)
EXTENDS ReaderWriterMutex

CONSTANT MaxOps   \* calls, of all threads together

VARIABLE ops

mcvars == <<vars, ops>>

MCInit == Init /\ ops = MaxOps

MCCall(t) == ops > 0 /\ Call(t) /\ ops' = ops - 1
MCStep(t) == Step(t) /\ UNCHANGED ops
MCKernel(t) == Kernel(t) /\ UNCHANGED ops

Finished == ops = 0 /\ \A t \in Threads : pc[t] = "idle"
Stopped == (Finished \/ aborted) /\ UNCHANGED mcvars

MCNext ==
  \/ ~aborted /\ \E t \in Threads : MCCall(t) \/ MCStep(t) \/ MCKernel(t)
  \/ Stopped

\* A thread in the lock's code or holding the lock is eventually scheduled.
\* Calls, signals and timeouts need never happen.
MCSpec == MCInit /\ [][MCNext]_mcvars /\ \A t \in Threads : WF_mcvars(~aborted /\ MCStep(t))

\* A thread that calls the lock gets it (or times out) and releases it:
\* nobody sleeps for ever in FUTEX_WAIT once the holders have gone.
EveryCallReturns == \A t \in Threads : pc[t] # "idle" ~> pc[t] = "idle"
=============================================================================
